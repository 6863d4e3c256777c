-------------------------- MODULE GroupExitProofs --------------------------
(***************************************************************************)
(* Proofs about the end of a thread group, for every number of threads and  *)
(* every mix of exit, exit_group, fatal signals, stops and execve: holders  *)
(* of sleeping locks survive, one thread owns the teardown, and a pid is     *)
(* logged dead once.  GroupEndProofs goes on from here.                     *)
(***************************************************************************)
EXTENDS GroupExit, TLAPS

(* First-order reasoning suffices unless a step names another prover. *)
USE Zenon

States == {"unborn", "gone", "ready", "running", "blocked", "stopped", "zombie"}
Places == {"user", "sys", "ret", "dead", "deliver", "stop", "stamp", "claimExit", "claimExec",
           "kill", "killExec", "killRest", "takeOver", "image", "finish", "exit", "mark",
           "notify", "end"}
Codes == {"code", "sig"}
Tasks == [pid : Threads, tgid : Threads, state : States, on : BOOLEAN, killed : BOOLEAN,
          stop : BOOLEAN, owner : Threads \cup {NoPid}, term : BOOLEAN, code : Codes]
Deaths == [code : Codes, term : BOOLEAN]

TypeOK ==
  /\ task \in [Threads -> Tasks]
  /\ klocks \in [Threads -> {0, 1}]
  /\ pc \in [Threads -> Places]
  /\ leaving \in [Threads -> BOOLEAN]
  /\ arg \in [Threads -> Codes]
  /\ exitLog \in [Threads -> Seq(Deaths)]
  /\ chld \in [Threads -> Nat]
  /\ closed \subseteq Threads

(* A slot without a task runs nothing; only the slots of Unborn are unborn.  *)
SlotsOK ==
  \A t \in Threads :
    /\ ~Live(t) => ~task[t].on /\ pc[t] = "user" /\ arg[t] = "code"
    /\ task[t].state = "unborn" => t \in Unborn

(* Why a lock holder is never reaped: locks are held inside a call or in the *)
(* teardown of exit, and there a Zombie mark is a killer's (`killed`), which *)
(* the switch-back does not act on while a lock is held.                    *)
LocksOK ==
  \A t \in Threads :
    /\ klocks[t] # 0 => Live(t) /\ pc[t] \in {"sys", "exit"}
    /\ task[t].state = "zombie" => task[t].killed \/ pc[t] \in {"notify", "end"}

(* Pids of live threads differ; a pid that is not its slot's name was taken  *)
(* over from a leader that is gone; a tgid is no unborn slot's name.         *)
PidsOK ==
  \A t \in Threads : Live(t) =>
    /\ task[t].pid # t => task[task[t].pid].state = "gone"
    /\ task[task[t].tgid].state # "unborn"
    /\ \A u \in Threads : Live(u) =>
         /\ task[u].pid = task[t].pid => u = t
         /\ task[u].pid = task[t].tgid => IsLeader(u)
         /\ IsLeader(t) /\ IsLeader(u) => u = t

(* Whoever is in a kill loop is the owner the leader names, if there is one. *)
OwnersOK ==
  \A t \in Threads : pc[t] \in KillLoops =>
    \A l \in Threads : Live(l) /\ IsLeader(l) =>
      task[l].tgid = task[t].tgid /\ task[l].owner = task[t].pid

LogOK ==
  \A p \in Threads :
    /\ Len(exitLog[p]) <= 1
    /\ exitLog[p] # <<>> => Found(p) = {} /\ task[p].state # "unborn"

IInv == TypeOK /\ SlotsOK /\ LocksOK /\ PidsOK /\ OwnersOK /\ OneTeardownOwner /\ LogOK

----------------------------------------------------------------------------
(* Lemmas about the steps.                                                   *)

LEMMA FieldTypes ==
  ASSUME TypeOK, NEW t \in Threads
  PROVE  /\ task[t].pid \in Threads /\ task[t].tgid \in Threads /\ task[t].state \in States
         /\ task[t].owner \in Threads \cup {NoPid} /\ task[t].code \in Codes
         /\ task[t].on \in BOOLEAN /\ task[t].killed \in BOOLEAN
         /\ task[t].stop \in BOOLEAN /\ task[t].term \in BOOLEAN
BY DEF TypeOK, Tasks

(* What most steps leave alone: who is in a slot, under which ids.           *)
SamePids ==
  \A u \in Threads :
    /\ task'[u].pid = task[u].pid /\ task'[u].tgid = task[u].tgid
    /\ task'[u].state = "unborn" <=> task[u].state = "unborn"
    /\ task'[u].state = "gone" <=> task[u].state = "gone"
SameIds == SamePids /\ \A u \in Threads : task'[u].owner = task[u].owner

LEMMA SamePidsKeeps ==
  ASSUME IInv, SamePids, UNCHANGED exitLog
  PROVE  /\ \A u \in Threads : (Live(u)' <=> Live(u)) /\ (IsLeader(u)' <=> IsLeader(u))
         /\ PidsOK' /\ LogOK'
<1>1. \A u \in Threads : Live(u)' <=> Live(u)
  BY DEF Live, SamePids
<1>2. \A u \in Threads : IsLeader(u)' <=> IsLeader(u)
  BY DEF IsLeader, SamePids
<1>3. PidsOK'
  <2> SUFFICES ASSUME NEW t \in Threads, Live(t)'
               PROVE  /\ task'[t].pid # t => task'[task'[t].pid].state = "gone"
                      /\ task'[task'[t].tgid].state # "unborn"
                      /\ \A u \in Threads : Live(u)' =>
                           /\ task'[u].pid = task'[t].pid => u = t
                           /\ task'[u].pid = task'[t].tgid => IsLeader(u)'
                           /\ IsLeader(t)' /\ IsLeader(u)' => u = t
    BY DEF PidsOK
  <2>1. task[t].pid \in Threads /\ task[t].tgid \in Threads
    BY FieldTypes DEF IInv
  <2> QED BY <1>1, <1>2, <2>1, SMT DEF IInv, PidsOK, SamePids
<1>4. \A p \in Threads : Found(p)' = Found(p)
  BY <1>1 DEF Found, SamePids
<1>5. LogOK'
  BY <1>4 DEF IInv, LogOK, SamePids
<1> QED BY <1>1, <1>2, <1>3, <1>5

LEMMA SameIdsKeeps ==
  ASSUME IInv, SameIds, UNCHANGED exitLog,
         \A u \in Threads : pc'[u] \in KillLoops => pc[u] \in KillLoops
  PROVE  PidsOK' /\ OwnersOK' /\ OneTeardownOwner' /\ LogOK'
<1>1. /\ \A u \in Threads : (Live(u)' <=> Live(u)) /\ (IsLeader(u)' <=> IsLeader(u))
      /\ PidsOK' /\ LogOK'
  BY SamePidsKeeps DEF SameIds
<1>2. OwnersOK'
  BY <1>1, SMT DEF IInv, OwnersOK, SameIds, SamePids
<1>3. OneTeardownOwner'
  BY DEF IInv, OneTeardownOwner
<1> QED BY <1>1, <1>2, <1>3

(* A running thread is in a live slot. *)
LEMMA RunningIsLive ==
  ASSUME IInv, NEW t \in Threads, task[t].on
  PROVE  Live(t)
BY DEF IInv, SlotsOK

(* The records of a thread just cloned and of an empty slot. *)
LEMMA FreshTask ==
  ASSUME NEW p \in Threads, NEW g \in Threads
  PROVE  /\ NewTask(p, g) \in Tasks /\ NewTask(p, g).pid = p /\ NewTask(p, g).tgid = g
         /\ NewTask(p, g).state = "ready" /\ NewTask(p, g).owner = NoPid
         /\ ~NewTask(p, g).on /\ NewTask(p, g).code = "code"
<1>1. NewTask(p, g) \in Tasks
  BY DEF NewTask, Tasks, States, Codes
<1> QED BY <1>1 DEF NewTask

LEMMA EmptySlot ==
  ASSUME NEW p \in Threads, NEW why \in {"unborn", "gone"}
  PROVE  /\ Absent(p, why) \in Tasks /\ Absent(p, why).state = why
         /\ ~Absent(p, why).on /\ Absent(p, why).pid = p
<1> DEFINE n == NewTask(p, p)
<1>1. n \in Tasks /\ ~n.on /\ n.pid = p
  BY FreshTask
<1> HIDE DEF n
<1>2. Absent(p, why) = [n EXCEPT !.state = why]
  BY DEF Absent, n
<1>3. Absent(p, why) \in Tasks
  BY <1>1, <1>2 DEF Tasks, States
<1> QED BY <1>1, <1>2, <1>3 DEF Tasks

(* No leader is left: the thread leads a group of its own. *)
LEMMA PromoteKeeps ==
  ASSUME IInv, NEW t \in Threads, task[t].on, pc[t] = "takeOver", Promote(t),
         UNCHANGED <<klocks, chld>>
  PROVE  IInv'
<1> DEFINE r == [task[t] EXCEPT !.tgid = task[t].pid, !.owner = NoPid]
<1>1. task[t] \in Tasks /\ Live(t) /\ task[t].pid \in Threads /\ task[t].tgid \in Threads
  BY RunningIsLive, FieldTypes DEF IInv, TypeOK
<1>2. task' = [task EXCEPT ![t] = r]
  BY DEF Promote, IInv, TypeOK
<1>3. r \in Tasks
  BY <1>1 DEF Tasks
<1>4. /\ r.pid = task[t].pid /\ r.tgid = task[t].pid /\ r.state = task[t].state
      /\ (r.on <=> task[t].on) /\ (r.killed <=> task[t].killed)
  BY <1>1 DEF Tasks
<1> HIDE DEF r
<1>5. /\ task'[t] = r /\ \A u \in Threads \ {t} : task'[u] = task[u]
      /\ pc' = [pc EXCEPT ![t] = "image"]
      /\ UNCHANGED <<leaving, arg, exitLog, closed>>
  BY <1>2 DEF Promote, Goto, IInv, TypeOK
<1>6. TypeOK'
  BY <1>2, <1>3, <1>5 DEF IInv, TypeOK, Places
<1>7. pc'[t] = "image" /\ \A u \in Threads \ {t} : pc'[u] = pc[u] /\ pc[u] \notin KillLoops
  BY <1>5 DEF IInv, TypeOK, OneTeardownOwner, KillLoops
<1>8. \A u \in Threads : Live(u)' <=> Live(u)
  BY <1>4, <1>5 DEF Live
<1>9. SlotsOK' /\ LocksOK'
  BY <1>1, <1>4, <1>5, <1>7, <1>8, SMT DEF IInv, SlotsOK, LocksOK
<1>10. OwnersOK' /\ OneTeardownOwner'
  BY <1>7 DEF OwnersOK, OneTeardownOwner, KillLoops
<1>11. \A u \in Threads : Live(u) => ~IsLeader(u) /\ task[u].tgid # task[t].pid
  <2> SUFFICES ASSUME NEW u \in Threads, Live(u) PROVE ~IsLeader(u) /\ task[u].tgid # task[t].pid
    OBVIOUS
  <2>1. \A l \in Threads : ~(Live(l) /\ task[l].pid = task[t].tgid)
    BY DEF Promote, LeaderOf, Found
  <2>2. ~IsLeader(u)
    BY <2>1 DEF IInv, OwnersOK, KillLoops, IsLeader
  <2>3. ~IsLeader(t)
    BY <1>1, <2>1 DEF IsLeader
  <2> QED BY <1>1, <2>2, <2>3 DEF IInv, PidsOK
<1>12. \A u \in Threads : Live(u) /\ IsLeader(u)' => u = t
  BY <1>5, <1>11 DEF IsLeader
<1>13. IsLeader(t)'
  BY <1>4, <1>5 DEF IsLeader
<1>14. \A u \in Threads : task'[u].pid = task[u].pid /\ task'[u].state = task[u].state
  BY <1>4, <1>5
<1>15. PidsOK'
  <2> SUFFICES ASSUME NEW v \in Threads, Live(v)'
               PROVE  /\ task'[v].pid # v => task'[task'[v].pid].state = "gone"
                      /\ task'[task'[v].tgid].state # "unborn"
                      /\ \A w \in Threads : Live(w)' =>
                           /\ task'[w].pid = task'[v].pid => w = v
                           /\ task'[w].pid = task'[v].tgid => IsLeader(w)'
                           /\ IsLeader(v)' /\ IsLeader(w)' => w = v
    BY DEF PidsOK
  <2>1. task[v].pid \in Threads /\ task[v].tgid \in Threads /\ Live(v)
    BY <1>8, FieldTypes DEF IInv
  <2>2. task'[v].pid # v => task'[task'[v].pid].state = "gone"
    BY <1>14, <2>1, SMT DEF IInv, PidsOK
  <2>3. task'[task'[v].tgid].state # "unborn"
    BY <1>1, <1>4, <1>5, <1>14, <2>1, SMT DEF IInv, PidsOK, Live
  <2>4. \A w \in Threads : Live(w)' => /\ task'[w].pid = task'[v].pid => w = v
                                       /\ IsLeader(v)' /\ IsLeader(w)' => w = v
    BY <1>8, <1>12, <1>14, <2>1, SMT DEF IInv, PidsOK
  <2>5. \A w \in Threads : Live(w)' /\ task'[w].pid = task'[v].tgid => IsLeader(w)'
    <3> SUFFICES ASSUME NEW w \in Threads, Live(w), task[w].pid = task'[v].tgid PROVE w = t
      BY <1>8, <1>13, <1>14
    <3>1. CASE v = t
      BY <1>1, <1>4, <1>5, <3>1, SMT DEF IInv, PidsOK
    <3>2. CASE v # t
      BY <1>5, <1>11, <2>1, <3>2, SMT DEF IInv, PidsOK
    <3> QED BY <3>1, <3>2
  <2> QED BY <2>2, <2>3, <2>4, <2>5
<1>16. LogOK'
  BY <1>5, <1>8, <1>14, SMT DEF IInv, LogOK, Found
<1> QED BY <1>6, <1>9, <1>10, <1>15, <1>16 DEF IInv

(* The thread takes the leader's pid, and the leader's slot is empty. *)
LEMMA ExchangeKeeps ==
  ASSUME IInv, NEW t \in Threads, task[t].on, pc[t] = "takeOver",
         NEW l \in LeaderOf(t), ~Deferring(l), ~task[l].on, Exchange(t, l),
         UNCHANGED <<klocks, chld>>
  PROVE  IInv'
<1> DEFINE e == Absent(l, "gone")
           r == [task[t] EXCEPT !.pid = task[l].pid, !.stop = FALSE, !.owner = NoPid]
<1>1. /\ task[t] \in Tasks /\ Live(t) /\ l \in Threads /\ Live(l) /\ l # t
      /\ task[l].pid = task[t].tgid /\ task[l].pid \in Threads /\ task[t].pid \in Threads
  BY RunningIsLive, FieldTypes DEF IInv, TypeOK, LeaderOf, Found
<1>2. e \in Tasks /\ e.state = "gone" /\ ~e.on
  BY <1>1, EmptySlot
<1>3. r \in Tasks
  BY <1>1 DEF Tasks
<1>4. /\ r.pid = task[l].pid /\ r.tgid = task[t].tgid /\ r.state = task[t].state
      /\ (r.on <=> task[t].on) /\ (r.killed <=> task[t].killed)
  BY <1>1 DEF Tasks
<1>5. task' = [task EXCEPT ![l] = e, ![t] = r]
  BY <1>1 DEF Exchange, IInv, TypeOK
<1> HIDE DEF r, e
<1>6. /\ task'[t] = r /\ task'[l] = e /\ \A u \in Threads \ {t, l} : task'[u] = task[u]
      /\ pc' = [pc EXCEPT ![t] = "image", ![l] = "user"] /\ arg' = [arg EXCEPT ![l] = "code"]
      /\ closed' = closed \cup {task[t].pid} /\ UNCHANGED <<leaving, exitLog>>
  BY <1>1, <1>5 DEF Exchange, LoggedAsThread, IInv, TypeOK
<1>7. TypeOK'
  BY <1>1, <1>2, <1>3, <1>5, <1>6 DEF IInv, TypeOK, Places, Codes
<1>8. /\ pc'[t] = "image" /\ pc'[l] = "user" /\ arg'[l] = "code" /\ arg'[t] = arg[t]
      /\ \A u \in Threads \ {t, l} : pc'[u] = pc[u] /\ arg'[u] = arg[u] /\ pc[u] \notin KillLoops
  BY <1>1, <1>6 DEF IInv, TypeOK, OneTeardownOwner, KillLoops
<1>9. ~Live(l)' /\ Live(t)' /\ \A u \in Threads \ {l} : Live(u)' <=> Live(u)
  BY <1>1, <1>2, <1>4, <1>6 DEF Live
<1>10. klocks[l] = 0
  BY <1>1 DEF Deferring
<1>11. SlotsOK' /\ LocksOK'
  <2>1. /\ task'[l].state = "gone" /\ ~task'[l].on
        /\ task'[t].state = task[t].state /\ (task'[t].killed <=> task[t].killed)
    BY <1>2, <1>4, <1>6
  <2>2. klocks' = klocks /\ klocks[t] = 0 /\ (task[t].state = "zombie" => task[t].killed)
    BY DEF IInv, LocksOK
  <2>3. \A u \in Threads :
          /\ ~Live(u)' => ~task'[u].on /\ pc'[u] = "user" /\ arg'[u] = "code"
          /\ task'[u].state = "unborn" => u \in Unborn
          /\ klocks'[u] # 0 => Live(u)' /\ pc'[u] \in {"sys", "exit"}
          /\ task'[u].state = "zombie" => task'[u].killed \/ pc'[u] \in {"notify", "end"}
    <3> TAKE u \in Threads
    <3>1. CASE u = t
      BY <1>1, <1>9, <2>1, <2>2, <3>1 DEF Live
    <3>2. CASE u = l
      BY <1>8, <1>10, <2>1, <2>2, <3>2
    <3>3. CASE u \notin {t, l}
      <4>1. task'[u] = task[u] /\ pc'[u] = pc[u] /\ arg'[u] = arg[u] /\ (Live(u)' <=> Live(u))
        BY <1>6, <1>8, <1>9, <3>3
      <4> QED BY <2>2, <4>1 DEF IInv, SlotsOK, LocksOK
    <3> QED BY <3>1, <3>2, <3>3
  <2> QED BY <2>3 DEF SlotsOK, LocksOK
<1>12. OwnersOK' /\ OneTeardownOwner'
  BY <1>1, <1>8 DEF OwnersOK, OneTeardownOwner, KillLoops
<1>13. IsLeader(l) /\ IsLeader(t)'
  BY <1>1, <1>4, <1>6 DEF IsLeader, IInv, PidsOK
<1>14. \A u \in Threads \ {t, l} : Live(u) => ~IsLeader(u) /\ ~IsLeader(u)' /\ task[u].pid # task[l].pid
  BY <1>1, <1>6, <1>13, SMT DEF IsLeader, IInv, PidsOK
<1>15. PidsOK'
  <2> SUFFICES ASSUME NEW v \in Threads \ {l}, Live(v)
               PROVE  /\ task'[v].pid # v => task'[task'[v].pid].state = "gone"
                      /\ task'[task'[v].tgid].state # "unborn"
                      /\ \A w \in Threads \ {l} : Live(w) =>
                           /\ task'[w].pid = task'[v].pid => w = v
                           /\ task'[w].pid = task'[v].tgid => IsLeader(w)'
                           /\ IsLeader(v)' /\ IsLeader(w)' => w = v
    BY <1>9 DEF PidsOK
  <2>1. task[v].pid \in Threads /\ task[v].tgid \in Threads
    BY FieldTypes DEF IInv
  <2>2. \A u \in Threads : task[u].state = "gone" => task'[u].state = "gone"
    BY <1>1, <1>2, <1>6, <1>9 DEF Live
  <2>3. task'[v].pid # v => task'[task'[v].pid].state = "gone"
    <3>1. CASE v = t
      BY <1>1, <1>2, <1>4, <1>6, <2>2, <3>1, SMT DEF IInv, PidsOK
    <3>2. CASE v # t
      BY <1>6, <2>1, <2>2, <3>2 DEF IInv, PidsOK
    <3> QED BY <3>1, <3>2
  <2>4. task'[v].tgid = task[v].tgid
    BY <1>4, <1>6
  <2>5. task'[task'[v].tgid].state # "unborn"
    BY <1>2, <1>4, <1>6, <2>1, <2>4, SMT DEF IInv, PidsOK
  <2>6. \A w \in Threads \ {l} : Live(w) => /\ task'[w].pid = task'[v].pid => w = v
                                            /\ IsLeader(v)' /\ IsLeader(w)' => w = v
    BY <1>1, <1>4, <1>6, <1>14, SMT DEF IInv, PidsOK
  <2>7. \A w \in Threads \ {l} : Live(w) /\ task'[w].pid = task'[v].tgid => IsLeader(w)'
    BY <1>1, <1>6, <1>13, <1>14, <2>4, SMT DEF IInv, PidsOK
  <2> QED BY <2>3, <2>5, <2>6, <2>7
<1>16. LogOK'
  <2> SUFFICES ASSUME NEW q \in Threads, exitLog[q] # <<>>
               PROVE  Found(q)' = {} /\ task'[q].state # "unborn"
    BY <1>6 DEF IInv, LogOK
  <2>1. Found(q) = {} /\ task[q].state # "unborn" /\ q # task[l].pid
    BY <1>1 DEF IInv, LogOK, Found
  <2> QED BY <1>1, <1>2, <1>4, <1>6, <1>9, <2>1, SMT DEF Found, Live
<1> QED BY <1>7, <1>11, <1>12, <1>15, <1>16 DEF IInv

LEMMA CloneKeeps == ASSUME IInv, NEW t \in Threads, clone_thread(t) PROVE IInv'
<1>1. PICK u \in Unborn : task[u].state = "unborn" /\ task' = [task EXCEPT ![u] = NewTask(u, task[t].tgid)]
  BY DEF clone_thread
<1> DEFINE n == NewTask(u, task[t].tgid)
<1>2. Live(t) /\ u \in Threads /\ ~Live(u) /\ task[t].tgid \in Threads
  BY <1>1, RunningIsLive, FieldTypes, GroupAssumption DEF clone_thread, Running, Live, IInv
<1>3. n \in Tasks /\ n.pid = u /\ n.tgid = task[t].tgid /\ n.state = "ready" /\ ~n.on
  BY <1>2, FreshTask, SMT
<1> HIDE DEF n
<1>4. task'[u] = n /\ (\A v \in Threads \ {u} : task'[v] = task[v])
      /\ UNCHANGED <<klocks, pc, leaving, arg, exitLog, chld, closed>>
  BY <1>1, <1>2 DEF clone_thread, IInv, TypeOK, n
<1>5. TypeOK'
  BY <1>1, <1>3, <1>4 DEF IInv, TypeOK, n
<1>6. Live(u)' /\ \A v \in Threads \ {u} : (Live(v)' <=> Live(v)) /\ (IsLeader(v)' <=> IsLeader(v))
  BY <1>3, <1>4 DEF Live, IsLeader
<1>7. \A v \in Threads : Live(v) => task[v].pid # u /\ task[v].tgid # u
  BY <1>1, <1>2, SMT DEF IInv, PidsOK
<1>8. ~IsLeader(u)'
  BY <1>2, <1>3, <1>4, <1>7 DEF IsLeader
<1>9. SlotsOK' /\ LocksOK'
  BY <1>2, <1>3, <1>4, <1>6, SMT DEF IInv, SlotsOK, LocksOK
<1>10. PidsOK'
  <2> SUFFICES ASSUME NEW v \in Threads, Live(v)'
               PROVE  /\ task'[v].pid # v => task'[task'[v].pid].state = "gone"
                      /\ task'[task'[v].tgid].state # "unborn"
                      /\ \A w \in Threads : Live(w)' =>
                           /\ task'[w].pid = task'[v].pid => w = v
                           /\ task'[w].pid = task'[v].tgid => IsLeader(w)'
                           /\ IsLeader(v)' /\ IsLeader(w)' => w = v
    BY DEF PidsOK
  <2>1. task[v].pid \in Threads /\ task[v].tgid \in Threads
    BY FieldTypes DEF IInv
  <2>2. CASE v = u
    BY <1>2, <1>3, <1>4, <1>6, <1>7, <1>8, <2>2, SMT DEF IInv, PidsOK
  <2>3. CASE v # u
    BY <1>2, <1>3, <1>4, <1>6, <1>7, <1>8, <2>1, <2>3, SMT DEF IInv, PidsOK
  <2> QED BY <2>2, <2>3
<1>11. OwnersOK' /\ OneTeardownOwner'
  BY <1>2, <1>4, <1>6, <1>8, SMT DEF IInv, OwnersOK, OneTeardownOwner, SlotsOK, KillLoops
<1>12. LogOK'
  BY <1>1, <1>2, <1>3, <1>4, <1>6, SMT DEF IInv, LogOK, Found
<1> QED BY <1>5, <1>9, <1>10, <1>11, <1>12 DEF IInv

(* Steps that change no Task: the call's own progress, and its locks. *)
LEMMA QuietKeeps ==
  ASSUME IInv, NEW t \in Threads, UNCHANGED <<task, exitLog, arg>>, task[t].on,
         leaving' \in [Threads -> BOOLEAN], chld' \in [Threads -> Nat], closed' \subseteq Threads,
         klocks' \in [Threads -> {0, 1}], pc' \in [Threads -> Places],
         \A u \in Threads \ {t} : pc'[u] = pc[u] /\ klocks'[u] = klocks[u],
         pc'[t] \in KillLoops => pc[t] \in KillLoops,
         pc[t] \in {"notify", "end"} => pc'[t] \in {"notify", "end"},
         klocks'[t] # 0 => pc'[t] \in {"sys", "exit"}
  PROVE  IInv'
<1>1. TypeOK'
  BY DEF IInv, TypeOK
<1>2. Live(t)
  BY RunningIsLive
<1>3. SlotsOK'
  BY <1>2 DEF IInv, SlotsOK, Live
<1>4. LocksOK'
  BY <1>2 DEF IInv, LocksOK, Live
<1>5. SameIds
  BY DEF SameIds, SamePids
<1> QED BY <1>1, <1>3, <1>4, <1>5, SameIdsKeeps DEF IInv

(* The counter of SIGCHLDs and the set of released tables keep their types. *)
LEMMA CountTypes ==
  ASSUME chld \in [Threads -> Nat], NEW p \in Threads
  PROVE  [chld EXCEPT ![p] = @ + 1] \in [Threads -> Nat]
BY SMT

LEMMA FinishTypes ==
  ASSUME TypeOK, NEW t \in Threads, Finish(t)
  PROVE  chld' \in [Threads -> Nat] /\ closed' \subseteq Threads
<1>1. chld \in [Threads -> Nat] /\ closed \subseteq Threads /\ task[t].tgid \in Threads
  BY FieldTypes DEF TypeOK
<1>2. /\ closed' = closed \/ closed' = closed \cup {task[t].tgid}
      /\ chld' = chld \/ chld' = [chld EXCEPT ![task[t].tgid] = @ + 1]
  BY DEF Finish
<1> QED BY <1>1, <1>2, CountTypes

LEMMA TeardownTypes ==
  ASSUME TypeOK, NEW t \in Threads, ExitTeardown(t)
  PROVE  closed' \subseteq Threads
<1>1. closed \subseteq Threads /\ task[t].pid \in Threads
  BY FieldTypes DEF TypeOK
<1>2. closed' = closed \cup {task[t].pid}
  BY DEF ExitTeardown
<1> QED BY <1>1, <1>2

LEMMA NotifyTypes ==
  ASSUME TypeOK, NEW t \in Threads, ExitNotify(t)
  PROVE  chld' \in [Threads -> Nat] /\ leaving' \in [Threads -> BOOLEAN]
<1>1. chld \in [Threads -> Nat] /\ task[t].pid \in Threads
  BY FieldTypes DEF TypeOK
<1>2. chld' = chld \/ chld' = [chld EXCEPT ![task[t].pid] = @ + 1]
  BY DEF ExitNotify
<1>3. leaving \in [Threads -> BOOLEAN] /\ leaving' = [leaving EXCEPT ![t] = TRUE]
  BY DEF ExitNotify, Leave, TypeOK
<1> QED BY <1>1, <1>2, <1>3, CountTypes

LEMMA CallSteps ==
  ASSUME IInv, NEW t \in Threads,
         \/ Enter(t) \/ Lock(t) \/ Unlock(t) \/ Yield(t) \/ Call(t) \/ Fault(t)
         \/ DyingCheck(t) \/ NewImage(t) \/ Finish(t) \/ ExitTeardown(t) \/ ExitNotify(t)
  PROVE  IInv'
<1> USE DEF IInv, TypeOK, Running, Goto, Places, KillLoops
<1>1. CASE Enter(t)
  BY <1>1, QuietKeeps DEF Enter, LocksOK
<1>2. CASE Lock(t)
  BY <1>2, QuietKeeps DEF Lock, LocksOK
<1>3. CASE Unlock(t)
  BY <1>3, QuietKeeps DEF Unlock, LocksOK
<1>4. CASE Yield(t)
  BY <1>4, QuietKeeps DEF Yield, LocksOK, Leave
<1>5. CASE Call(t)
  <2>1. PICK at \in {"exit", "claimExit", "claimExec", "ret"} : pc' = [pc EXCEPT ![t] = at]
    BY <1>5 DEF Call
  <2> QED BY <1>5, <2>1, QuietKeeps DEF Call
<1>6. CASE Fault(t)
  BY <1>6, QuietKeeps DEF Fault, LocksOK
<1>7. CASE DyingCheck(t)
  BY <1>7, QuietKeeps DEF DyingCheck, LocksOK
<1>8. CASE NewImage(t)
  BY <1>8, QuietKeeps DEF NewImage, LocksOK
<1>9. CASE Finish(t)
  <2>1. chld' \in [Threads -> Nat] /\ closed' \subseteq Threads
    BY <1>9, FinishTypes
  <2> QED BY <1>9, <2>1, QuietKeeps DEF Finish, LocksOK
<1>10. CASE ExitTeardown(t)
  <2>1. closed' \subseteq Threads
    BY <1>10, TeardownTypes
  <2> QED BY <1>10, <2>1, QuietKeeps DEF ExitTeardown, LocksOK
<1>11. CASE ExitNotify(t)
  <2>1. chld' \in [Threads -> Nat] /\ leaving' \in [Threads -> BOOLEAN]
    BY <1>11, NotifyTypes
  <2> QED BY <1>11, <2>1, QuietKeeps DEF ExitNotify, LocksOK
<1> QED BY <1>1, <1>2, <1>3, <1>4, <1>5, <1>6, <1>7, <1>8, <1>9, <1>10, <1>11

(* Steps that change the state, marks or owner of Tasks, and no pids. *)
LEMMA OwnersKeep ==
  ASSUME IInv, SamePids, task' \in [Threads -> Tasks], pc' \in [Threads -> Places],
         leaving' \in [Threads -> BOOLEAN], arg' \in [Threads -> Codes],
         UNCHANGED <<klocks, exitLog, chld>>, closed' \subseteq Threads,
         \A u \in Threads :
           /\ ~Live(u) => ~task'[u].on /\ pc'[u] = "user" /\ arg'[u] = "code"
           /\ pc[u] \in {"sys", "exit"} => pc'[u] = pc[u]
           /\ task'[u].state = "zombie" => task'[u].killed \/ pc'[u] \in {"notify", "end"},
         OwnersOK', OneTeardownOwner'
  PROVE  IInv'
<1>1. TypeOK'
  BY DEF IInv, TypeOK
<1>2. \A u \in Threads : Live(u)' <=> Live(u)
  BY SamePidsKeeps
<1>3. SlotsOK'
  BY <1>2 DEF IInv, SlotsOK, SamePids
<1>4. LocksOK'
  BY <1>2 DEF IInv, LocksOK
<1> QED BY <1>1, <1>3, <1>4, SamePidsKeeps DEF IInv

(* Steps that change the state, marks or code of Tasks, and no ids. *)
LEMMA MarksKeep ==
  ASSUME IInv, SameIds, task' \in [Threads -> Tasks], pc' \in [Threads -> Places],
         leaving' \in [Threads -> BOOLEAN], arg' \in [Threads -> Codes],
         UNCHANGED <<klocks, exitLog, chld, closed>>,
         \A u \in Threads :
           /\ ~Live(u) => ~task'[u].on /\ pc'[u] = "user" /\ arg'[u] = "code"
           /\ pc'[u] \in KillLoops => pc[u] \in KillLoops
           /\ pc[u] \in {"sys", "exit"} => pc'[u] = pc[u]
           /\ task'[u].state = "zombie" => task'[u].killed \/ pc'[u] \in {"notify", "end"}
  PROVE  IInv'
<1>1. OwnersOK' /\ OneTeardownOwner'
  BY SameIdsKeeps
<1>2. SamePids /\ closed' \subseteq Threads
  BY DEF SameIds, IInv, TypeOK
<1> QED BY <1>1, <1>2, OwnersKeep

(* One live thread's record becomes r. *)
LEMMA MarkKeeps ==
  ASSUME IInv, NEW t \in Threads, Live(t), NEW r \in Tasks,
         task' = [task EXCEPT ![t] = r],
         r.pid = task[t].pid, r.tgid = task[t].tgid, r.owner = task[t].owner,
         r.state \notin {"unborn", "gone"},
         pc' \in [Threads -> Places], \A u \in Threads \ {t} : pc'[u] = pc[u],
         pc'[t] \in KillLoops => pc[t] \in KillLoops,
         pc[t] \in {"sys", "exit"} => pc'[t] = pc[t],
         r.state = "zombie" => r.killed \/ pc'[t] \in {"notify", "end"},
         leaving' \in [Threads -> BOOLEAN], UNCHANGED <<arg, klocks, exitLog, chld, closed>>
  PROVE  IInv'
<1>1. task' \in [Threads -> Tasks] /\ arg' \in [Threads -> Codes]
  BY DEF IInv, TypeOK
<1>2. task'[t] = r /\ \A u \in Threads \ {t} : task'[u] = task[u]
  BY DEF IInv, TypeOK
<1>3. SameIds
  BY <1>2 DEF SameIds, SamePids, Live
<1>4. \A u \in Threads :
        /\ ~Live(u) => ~task'[u].on /\ pc'[u] = "user" /\ arg'[u] = "code"
        /\ task'[u].state = "zombie" => task'[u].killed \/ pc'[u] \in {"notify", "end"}
  BY <1>2, SMT DEF IInv, SlotsOK, LocksOK
<1> QED BY <1>1, <1>3, <1>4, MarksKeep

LEMMA DispatchKeeps == ASSUME IInv, NEW t \in Threads, Dispatch(t) PROVE IInv'
<1> DEFINE r == [task[t] EXCEPT !.state = "running", !.on = TRUE]
<1>1. task[t] \in Tasks /\ Live(t)
  BY DEF IInv, TypeOK, Dispatch, Live
<1>2. r \in Tasks
  BY <1>1 DEF Tasks, States
<1>3. task' = [task EXCEPT ![t] = r]
  BY DEF Dispatch, IInv, TypeOK
<1>4. /\ r.pid = task[t].pid /\ r.tgid = task[t].tgid /\ r.owner = task[t].owner
      /\ r.state = "running"
  BY <1>1 DEF Tasks
<1> HIDE DEF r
<1> QED BY <1>1, <1>2, <1>3, <1>4, MarkKeeps DEF Dispatch, IInv, TypeOK

LEMMA WakeKeeps == ASSUME IInv, NEW t \in Threads, Wake(t) PROVE IInv'
<1> DEFINE r == [task[t] EXCEPT !.state = "ready"]
<1>1. task[t] \in Tasks /\ Live(t)
  BY DEF IInv, TypeOK, Wake, Live
<1>2. r \in Tasks
  BY <1>1 DEF Tasks, States
<1>3. task' = [task EXCEPT ![t] = r]
  BY DEF Wake, IInv, TypeOK
<1>4. /\ r.pid = task[t].pid /\ r.tgid = task[t].tgid /\ r.owner = task[t].owner
      /\ r.state = "ready"
  BY <1>1 DEF Tasks
<1> HIDE DEF r
<1> QED BY <1>1, <1>2, <1>3, <1>4, MarkKeeps DEF Wake, IInv, TypeOK

(* Parking in a call, in park_for_group_exit or in DeferWait::wait. *)
LEMMA ParkKeeps ==
  ASSUME IInv, NEW t \in Threads, task[t].on, NEW s \in States \ {"unborn", "gone", "zombie"},
         task' = [task EXCEPT ![t].state = s], leaving' \in [Threads -> BOOLEAN],
         UNCHANGED <<klocks, pc, arg, exitLog, chld, closed>>
  PROVE  IInv'
<1> DEFINE r == [task[t] EXCEPT !.state = s]
<1>1. task[t] \in Tasks /\ Live(t)
  BY RunningIsLive DEF IInv, TypeOK
<1>2. r \in Tasks
  BY <1>1 DEF Tasks, States
<1>3. task' = [task EXCEPT ![t] = r]
  BY DEF IInv, TypeOK
<1>4. /\ r.pid = task[t].pid /\ r.tgid = task[t].tgid /\ r.owner = task[t].owner
      /\ r.state = s
  BY <1>1 DEF Tasks
<1> HIDE DEF r
<1> QED BY <1>1, <1>2, <1>3, <1>4, MarkKeeps, ZenonT(30) DEF IInv, TypeOK

LEMMA ParkSteps ==
  ASSUME IInv, NEW t \in Threads,
         \/ Park(t) \/ ParkCancel(t) \/ park_for_group_exit(t)
  PROVE  IInv'
<1> USE DEF Running, Leave, States, IInv, TypeOK
<1>1. CASE Park(t)
  BY <1>1, ParkKeeps DEF Park
<1>2. CASE ParkCancel(t)
  BY <1>2, ParkKeeps DEF ParkCancel
<1>3. CASE park_for_group_exit(t)
  BY <1>3, ParkKeeps DEF park_for_group_exit
<1> QED BY <1>1, <1>2, <1>3

LEMMA DeliverKeeps == ASSUME IInv, NEW t \in Threads, Deliver(t) PROVE IInv'
<1>1. CASE task[t].stop /\ task[t].state # "zombie"
  BY <1>1, ParkKeeps, ZenonT(30) DEF Deliver, Running, Leave, States, IInv, TypeOK
<1>2. CASE ~(task[t].stop /\ task[t].state # "zombie")
  <2>1. PICK at \in {"user", "stamp", "stop"} : pc' = [pc EXCEPT ![t] = at]
    BY <1>2 DEF Deliver, Goto
  <2> QED BY <1>2, <2>1, QuietKeeps DEF Deliver, Running, IInv, TypeOK, Places, KillLoops, LocksOK
<1> QED BY <1>1, <1>2

LEMMA ExitMarkKeeps == ASSUME IInv, NEW t \in Threads, ExitMark(t) PROVE IInv'
<1> DEFINE r == [task[t] EXCEPT !.state = "zombie", !.code = arg[t]]
<1>1. task[t] \in Tasks /\ Live(t) /\ arg[t] \in Codes
  BY RunningIsLive DEF IInv, TypeOK, ExitMark, Running
<1>2. r \in Tasks
  BY <1>1 DEF Tasks, States
<1>3. task' = [task EXCEPT ![t] = r]
  BY DEF ExitMark, IInv, TypeOK
<1>4. /\ r.pid = task[t].pid /\ r.tgid = task[t].tgid /\ r.owner = task[t].owner
      /\ r.state = "zombie"
  BY <1>1 DEF Tasks
<1> HIDE DEF r
<1> QED BY <1>1, <1>2, <1>3, <1>4, MarkKeeps, ZenonT(30) DEF ExitMark, Running, Goto, Places, KillLoops, IInv, TypeOK

(* do_signal_stop, SIGCONT and the stamp of a fatal signal mark a group:     *)
(* they move no live thread to another id, and make none a zombie.           *)
LEMMA GroupMarksKeep ==
  ASSUME IInv, task' \in [Threads -> Tasks],
         \A u \in Threads :
           /\ task'[u].pid = task[u].pid /\ task'[u].tgid = task[u].tgid
           /\ task'[u].owner = task[u].owner /\ (task'[u].on <=> task[u].on)
           /\ task'[u].killed <=> task[u].killed
           /\ \/ task'[u].state = task[u].state
              \/ Live(u) /\ task'[u].state \in {"stopped", "ready"}
           /\ ~Live(u) => pc'[u] = pc[u] /\ arg'[u] = arg[u]
           /\ pc'[u] # pc[u] => pc[u] \in {"stop", "stamp"} /\ pc'[u] \in {"deliver", "claimExit"},
         pc' \in [Threads -> Places], leaving' \in [Threads -> BOOLEAN],
         arg' \in [Threads -> Codes], UNCHANGED <<klocks, exitLog, chld, closed>>
  PROVE  IInv'
<1>2. SameIds
  BY DEF SameIds, SamePids, Live
<1>3. \A u \in Threads :
        task'[u].state = "zombie" => task'[u].killed \/ pc'[u] \in {"notify", "end"}
  BY DEF IInv, LocksOK
<1>4. \A u \in Threads :
        /\ ~Live(u) => ~task'[u].on /\ pc'[u] = "user" /\ arg'[u] = "code"
        /\ pc'[u] \in KillLoops => pc[u] \in KillLoops
        /\ pc[u] \in {"sys", "exit"} => pc'[u] = pc[u]
  <2>1. ASSUME NEW u \in Threads, ~Live(u) PROVE ~task'[u].on /\ pc'[u] = "user" /\ arg'[u] = "code"
    BY <2>1, ZenonT(30) DEF IInv, SlotsOK
  <2>2. \A u \in Threads : pc'[u] \in KillLoops => pc[u] \in KillLoops
    BY DEF KillLoops
  <2>3. \A u \in Threads : pc[u] \in {"sys", "exit"} => pc'[u] = pc[u]
    OBVIOUS
  <2> QED BY <2>1, <2>2, <2>3
<1> QED BY <1>2, <1>3, <1>4, MarksKeep

LEMMA StopKeeps == ASSUME IInv, NEW t \in Threads, do_signal_stop(t) PROVE IInv'
<1> DEFINE members == {u \in Group(t) : task[u].state # "zombie"}
           parks(u) == u = t \/ (~task[u].on /\ task[u].state \in {"ready", "blocked"})
           new(u) == IF parks(u) THEN "stopped" ELSE task[u].state
<1>1. task' = [u \in Threads |->
                 IF u \notin members THEN task[u]
                 ELSE [task[u] EXCEPT !.stop = TRUE, !.state = new(u)]]
  BY DEF do_signal_stop
<1>2. \A u \in Threads :
        /\ task'[u] \in Tasks
        /\ task'[u].pid = task[u].pid /\ task'[u].tgid = task[u].tgid
        /\ task'[u].owner = task[u].owner /\ (task'[u].on <=> task[u].on)
        /\ task'[u].killed <=> task[u].killed
        /\ \/ task'[u].state = task[u].state
           \/ Live(u) /\ task'[u].state \in {"stopped", "ready"}
  <2> TAKE u \in Threads
  <2>1. task[u] \in Tasks
    BY DEF IInv, TypeOK
  <2>2. CASE u \notin members
    BY <1>1, <2>1, <2>2
  <2>3. CASE u \in members
    <3>1. Live(u) /\ new(u) \in States /\ new(u) \in {task[u].state, "stopped", "ready"}
      BY <2>1, <2>3 DEF Group, Tasks, States
    <3>2. task'[u] = [task[u] EXCEPT !.stop = TRUE, !.state = new(u)]
      BY <1>1, <2>3
    <3> HIDE DEF new
    <3>3. task'[u] \in Tasks
      BY <2>1, <3>1, <3>2 DEF Tasks
    <3>4. /\ task'[u].pid = task[u].pid /\ task'[u].tgid = task[u].tgid
          /\ task'[u].owner = task[u].owner /\ (task'[u].on <=> task[u].on)
          /\ (task'[u].killed <=> task[u].killed) /\ task'[u].state = new(u)
      BY <2>1, <3>2 DEF Tasks
    <3> QED BY <3>1, <3>3, <3>4
  <2> QED BY <2>2, <2>3
<1>3. task' \in [Threads -> Tasks]
  BY <1>1, <1>2
<1>4. Live(t)
  BY RunningIsLive DEF do_signal_stop, Running
<1>5. /\ pc' \in [Threads -> Places] /\ leaving' \in [Threads -> BOOLEAN]
      /\ arg' \in [Threads -> Codes] /\ UNCHANGED <<klocks, exitLog, chld, closed>>
      /\ \A u \in Threads : /\ ~Live(u) => pc'[u] = pc[u] /\ arg'[u] = arg[u]
                            /\ pc'[u] # pc[u] => pc[u] = "stop" /\ pc'[u] = "deliver"
  BY <1>4 DEF do_signal_stop, Running, Goto, Leave, IInv, TypeOK, Places
<1> QED BY <1>2, <1>3, <1>5, GroupMarksKeep

LEMMA ContinueKeeps == ASSUME IInv, NEW t \in Threads, Continue(t) PROVE IInv'
<1> DEFINE new(u) == IF task[u].state = "stopped" THEN "ready" ELSE task[u].state
<1>1. task' = [u \in Threads |->
                 IF u \notin Group(t) THEN task[u]
                 ELSE [task[u] EXCEPT !.stop = FALSE, !.state = new(u)]]
  BY DEF Continue
<1>2. \A u \in Threads :
        /\ task'[u] \in Tasks
        /\ task'[u].pid = task[u].pid /\ task'[u].tgid = task[u].tgid
        /\ task'[u].owner = task[u].owner /\ (task'[u].on <=> task[u].on)
        /\ task'[u].killed <=> task[u].killed
        /\ \/ task'[u].state = task[u].state
           \/ Live(u) /\ task'[u].state \in {"stopped", "ready"}
  <2> TAKE u \in Threads
  <2>1. task[u] \in Tasks
    BY DEF IInv, TypeOK
  <2>2. CASE u \notin Group(t)
    BY <1>1, <2>1, <2>2
  <2>3. CASE u \in Group(t)
    <3>1. Live(u) /\ new(u) \in States /\ new(u) \in {task[u].state, "stopped", "ready"}
      BY <2>1, <2>3 DEF Group, Tasks, States
    <3>2. task'[u] = [task[u] EXCEPT !.stop = FALSE, !.state = new(u)]
      BY <1>1, <2>3
    <3> HIDE DEF new
    <3>3. task'[u] \in Tasks
      BY <2>1, <3>1, <3>2 DEF Tasks
    <3>4. /\ task'[u].pid = task[u].pid /\ task'[u].tgid = task[u].tgid
          /\ task'[u].owner = task[u].owner /\ (task'[u].on <=> task[u].on)
          /\ (task'[u].killed <=> task[u].killed) /\ task'[u].state = new(u)
      BY <2>1, <3>2 DEF Tasks
    <3> QED BY <3>1, <3>3, <3>4
  <2> QED BY <2>2, <2>3
<1>3. task' \in [Threads -> Tasks]
  BY <1>1, <1>2
<1> QED BY <1>2, <1>3, GroupMarksKeep DEF Continue, IInv, TypeOK

LEMMA StampKeeps == ASSUME IInv, NEW t \in Threads, exit_group_signal(t) PROVE IInv'
<1>1. task' = [u \in Threads |-> IF u \in Stamped(t) THEN [task[u] EXCEPT !.term = TRUE]
                                 ELSE task[u]]
  BY DEF exit_group_signal
<1>2. \A u \in Threads :
        /\ task'[u] \in Tasks
        /\ task'[u].pid = task[u].pid /\ task'[u].tgid = task[u].tgid
        /\ task'[u].owner = task[u].owner /\ (task'[u].on <=> task[u].on)
        /\ task'[u].killed <=> task[u].killed
        /\ task'[u].state = task[u].state
  <2> TAKE u \in Threads
  <2>1. task[u] \in Tasks
    BY DEF IInv, TypeOK
  <2>2. CASE u \notin Stamped(t)
    BY <1>1, <2>1, <2>2
  <2>3. CASE u \in Stamped(t)
    <3>1. task'[u] = [task[u] EXCEPT !.term = TRUE]
      BY <1>1, <2>3
    <3>2. task'[u] \in Tasks
      BY <2>1, <3>1 DEF Tasks
    <3> QED BY <2>1, <3>1, <3>2 DEF Tasks
  <2> QED BY <2>2, <2>3
<1>3. task' \in [Threads -> Tasks]
  BY <1>1, <1>2
<1>4. Live(t)
  BY RunningIsLive DEF exit_group_signal, Running
<1>5. /\ pc' \in [Threads -> Places] /\ leaving' \in [Threads -> BOOLEAN]
      /\ arg' \in [Threads -> Codes] /\ UNCHANGED <<klocks, exitLog, chld, closed>>
      /\ \A u \in Threads : /\ ~Live(u) => pc'[u] = pc[u] /\ arg'[u] = arg[u]
                            /\ pc'[u] # pc[u] => pc[u] = "stamp" /\ pc'[u] = "claimExit"
  BY <1>4 DEF exit_group_signal, Running, Goto, IInv, TypeOK, Places, Codes
<1> QED BY <1>2, <1>3, <1>5, GroupMarksKeep

(* exit_dying_thread, and execve's request that the leader park. *)
LEMMA DyingKeeps ==
  ASSUME IInv, NEW t \in Threads, task[t].on, pc[t] \in {"claimExit", "claimExec"},
         exit_dying_thread(t), UNCHANGED <<klocks, arg, exitLog, chld, closed>>
  PROVE  IInv'
<1> DEFINE c == IF task[t].state = "zombie" THEN task[t].code ELSE arg[t]
           r == [task[t] EXCEPT !.state = "zombie", !.code = c]
<1>1. task[t] \in Tasks /\ Live(t) /\ c \in Codes
  BY RunningIsLive, FieldTypes DEF IInv, TypeOK
<1>2. task' = [task EXCEPT ![t] = r]
  BY DEF exit_dying_thread, IInv, TypeOK
<1> HIDE DEF c
<1>3. r \in Tasks
  BY <1>1 DEF Tasks, States
<1>4. /\ r.pid = task[t].pid /\ r.tgid = task[t].tgid /\ r.owner = task[t].owner
      /\ r.state = "zombie"
  BY <1>1 DEF Tasks
<1> HIDE DEF r
<1>5. /\ pc' = [pc EXCEPT ![t] = "end"] /\ pc' \in [Threads -> Places]
      /\ leaving' \in [Threads -> BOOLEAN]
  BY DEF exit_dying_thread, Goto, Leave, Places, IInv, TypeOK
<1>6. pc'[t] = "end" /\ \A u \in Threads \ {t} : pc'[u] = pc[u]
  BY <1>5 DEF IInv, TypeOK
<1> QED BY <1>1, <1>2, <1>3, <1>4, <1>5, <1>6, MarkKeeps DEF KillLoops

LEMMA AskKeeps ==
  ASSUME IInv, NEW l \in Threads, Live(l), AskToPark(l),
         UNCHANGED <<klocks, pc, leaving, arg, exitLog, chld, closed>>
  PROVE  IInv'
<1> DEFINE r == [task[l] EXCEPT !.stop = TRUE]
<1>1. task[l] \in Tasks
  BY DEF IInv, TypeOK
<1>2. r \in Tasks
  BY <1>1 DEF Tasks
<1>3. task' = [task EXCEPT ![l] = r]
  BY DEF AskToPark, IInv, TypeOK
<1>4. /\ r.pid = task[l].pid /\ r.tgid = task[l].tgid /\ r.owner = task[l].owner
      /\ r.state = task[l].state /\ (r.killed <=> task[l].killed)
  BY <1>1 DEF Tasks
<1> HIDE DEF r
<1> QED BY <1>1, <1>2, <1>3, <1>4, MarkKeeps DEF Live, LocksOK, IInv, TypeOK

LEMMA MarkKilledKeeps ==
  ASSUME IInv, NEW u \in Threads, Live(u), NEW code \in Codes,
         task' = [task EXCEPT ![u].state = "zombie", ![u].killed = TRUE, ![u].code = code],
         UNCHANGED <<klocks, pc, leaving, arg, exitLog, chld, closed>>
  PROVE  IInv'
<1> DEFINE r == [task[u] EXCEPT !.state = "zombie", !.killed = TRUE, !.code = code]
<1>1. task[u] \in Tasks
  BY DEF IInv, TypeOK
<1>2. r \in Tasks
  BY <1>1 DEF Tasks, States
<1>3. task' = [task EXCEPT ![u] = r]
  BY DEF IInv, TypeOK
<1>4. /\ r.pid = task[u].pid /\ r.tgid = task[u].tgid /\ r.owner = task[u].owner
      /\ r.state = "zombie" /\ r.killed
  BY <1>1 DEF Tasks
<1> HIDE DEF r
<1> QED BY <1>1, <1>2, <1>3, <1>4, MarkKeeps DEF IInv, TypeOK

(* The switch-back of a thread it does not reap. *)
LEMMA SwitchKeeps ==
  ASSUME IInv, NEW t \in Threads, task[t].on, SwitchBackState(t) # "zombie",
         task' = [task EXCEPT ![t].on = FALSE, ![t].state = SwitchBackState(t)],
         leaving' \in [Threads -> BOOLEAN], UNCHANGED <<klocks, pc, arg, exitLog, chld, closed>>
  PROVE  IInv'
<1> DEFINE s == SwitchBackState(t)
           r == [task[t] EXCEPT !.on = FALSE, !.state = s]
<1>1. task[t] \in Tasks /\ Live(t)
  BY RunningIsLive DEF IInv, TypeOK
<1>2. s \in States \ {"zombie", "unborn", "gone"}
  BY <1>1 DEF SwitchBackState, Settled, States, Tasks, Live
<1>3. task' = [task EXCEPT ![t] = r]
  BY DEF IInv, TypeOK
<1> HIDE DEF s
<1>4. r \in Tasks
  BY <1>1, <1>2 DEF Tasks
<1>5. /\ r.pid = task[t].pid /\ r.tgid = task[t].tgid /\ r.owner = task[t].owner
      /\ r.state = s
  BY <1>1 DEF Tasks
<1> HIDE DEF r
<1> QED BY <1>1, <1>2, <1>3, <1>4, <1>5, MarkKeeps, ZenonT(30) DEF IInv, TypeOK

(* A claim succeeds only if the leader names nobody else, so no thread is in *)
(* a kill loop then, and afterwards the claimant is the owner it names.      *)
LEMMA ClaimKeeps ==
  ASSUME IInv, NEW t \in Threads, task[t].on, pc[t] \in {"claimExit", "claimExec"},
         NEW at \in {"kill", "killExec", "killRest"}, claim_group_exit(t, at),
         UNCHANGED <<klocks, arg, exitLog, chld, closed>>
  PROVE  IInv'
<1>1. PICK l \in Claimable(t) :
        task' = [task EXCEPT ![l].owner = task[t].pid, ![t].stop = FALSE]
  BY DEF claim_group_exit
<1>2. /\ pc' = [pc EXCEPT ![t] = at] /\ leaving' = leaving
      /\ l \in Threads /\ Live(l) /\ task[l].pid = task[t].tgid
      /\ task[l].owner \in {NoPid, task[t].pid}
  BY DEF claim_group_exit, Goto, Claimable, LeaderOf, Found
<1>3. Live(t) /\ task \in [Threads -> Tasks]
  BY RunningIsLive DEF IInv, TypeOK
<1>4. \A u \in Threads :
        /\ task'[u] \in Tasks
        /\ task'[u].pid = task[u].pid /\ task'[u].tgid = task[u].tgid
        /\ task'[u].state = task[u].state /\ (task'[u].on <=> task[u].on)
        /\ (task'[u].killed <=> task[u].killed)
        /\ task'[u].owner = IF u = l THEN task[t].pid ELSE task[u].owner
  <2> TAKE u \in Threads
  <2>1. task[u] \in Tasks /\ task[t].pid \in Threads
    BY FieldTypes DEF IInv, TypeOK
  <2> DEFINE a == IF u = l THEN task[t].pid ELSE task[u].owner
             b == IF u = t THEN FALSE ELSE task[u].stop
  <2>2. a \in Threads \cup {NoPid} /\ b \in BOOLEAN
    BY <2>1 DEF Tasks
  <2>3. task'[u] = [task[u] EXCEPT !.owner = a, !.stop = b]
    BY <1>1, <1>2, <1>3, <2>1 DEF Tasks
  <2> HIDE DEF a, b
  <2>4. task'[u] \in Tasks
    BY <2>1, <2>2, <2>3 DEF Tasks
  <2>5. /\ task'[u].pid = task[u].pid /\ task'[u].tgid = task[u].tgid
        /\ task'[u].state = task[u].state /\ (task'[u].on <=> task[u].on)
        /\ (task'[u].killed <=> task[u].killed) /\ task'[u].owner = a
    BY <2>1, <2>3, SMT DEF Tasks
  <2> QED BY <2>4, <2>5 DEF a
<1>5. task' \in [Threads -> Tasks]
  BY <1>1, <1>3, <1>4
<1>6. SamePids
  BY <1>4 DEF SamePids
<1>7. \A u \in Threads : (Live(u)' <=> Live(u)) /\ (IsLeader(u)' <=> IsLeader(u))
  BY <1>6, SamePidsKeeps
<1>8. IsLeader(l)
  BY <1>2, <1>3 DEF IInv, PidsOK
<1>9. \A u \in Threads : pc[u] \notin KillLoops
  <2> SUFFICES ASSUME NEW u \in Threads, pc[u] \in KillLoops PROVE FALSE
    OBVIOUS
  <2>1. Live(u)
    BY DEF IInv, SlotsOK, KillLoops
  <2>2. task[l].owner = task[u].pid
    BY <1>2, <1>8 DEF IInv, OwnersOK
  <2>3. task[u].pid = task[t].pid
    BY <1>2, <2>2, FieldTypes, GroupAssumption, SMT DEF IInv
  <2>4. u = t
    BY <1>3, <2>1, <2>3 DEF IInv, PidsOK
  <2> QED BY <2>4 DEF KillLoops
<1>10. \A u \in Threads : pc'[u] \in KillLoops => u = t
  BY <1>2, <1>9 DEF IInv, TypeOK
<1>11. OwnersOK'
  <2> SUFFICES ASSUME NEW k \in Threads, Live(k)', IsLeader(k)'
               PROVE  task'[k].tgid = task'[t].tgid /\ task'[k].owner = task'[t].pid
    BY <1>10 DEF OwnersOK
  <2>1. k = l
    BY <1>2, <1>7, <1>8 DEF IInv, PidsOK
  <2> QED BY <1>2, <1>4, <1>8, <2>1 DEF IsLeader
<1>12. OneTeardownOwner'
  BY <1>10 DEF OneTeardownOwner
<1>13. /\ pc' \in [Threads -> Places] /\ leaving' \in [Threads -> BOOLEAN]
       /\ arg' \in [Threads -> Codes] /\ closed' \subseteq Threads
  BY <1>2 DEF IInv, TypeOK, Places
<1>14. \A u \in Threads :
         /\ ~Live(u) => ~task'[u].on /\ pc'[u] = "user" /\ arg'[u] = "code"
         /\ pc[u] \in {"sys", "exit"} => pc'[u] = pc[u]
         /\ task'[u].state = "zombie" => task'[u].killed \/ pc'[u] \in {"notify", "end"}
  <2> SUFFICES ASSUME NEW u \in Threads
               PROVE  /\ ~Live(u) => ~task'[u].on /\ pc'[u] = "user" /\ arg'[u] = "code"
                      /\ pc[u] \in {"sys", "exit"} => pc'[u] = pc[u]
                      /\ task'[u].state = "zombie" => task'[u].killed \/ pc'[u] \in {"notify", "end"}
    OBVIOUS
  <2>1. u # t => pc'[u] = pc[u]
    BY <1>2 DEF IInv, TypeOK
  <2>2. arg'[u] = arg[u] /\ (task'[u].on <=> task[u].on) /\ task'[u].state = task[u].state
          /\ (task'[u].killed <=> task[u].killed)
    BY <1>2, <1>4
  <2>3. /\ ~Live(u) => ~task[u].on /\ pc[u] = "user" /\ arg[u] = "code"
        /\ task[u].state = "zombie" => task[u].killed \/ pc[u] \in {"notify", "end"}
    BY DEF IInv, SlotsOK, LocksOK
  <2>4. CASE u = t
    <3>1. Live(u) /\ pc[u] \notin {"sys", "exit", "notify", "end"}
      BY <1>3, <2>4
    <3> QED BY <2>2, <2>3, <3>1
  <2>5. CASE u # t
    BY <2>1, <2>2, <2>3, <2>5
  <2> QED BY <2>4, <2>5
<1> QED BY <1>5, <1>6, <1>11, <1>12, <1>13, <1>14, OwnersKeep

(* A reaped thread leaves no lock, owner or live pid behind, and its death   *)
(* is the first one logged under its pid.                                    *)
LEMMA ReapKeeps ==
  ASSUME IInv, NEW u \in Threads, Live(u), klocks[u] = 0, NEW code \in Codes, Reap(u, code),
         leaving' \in [Threads -> BOOLEAN], closed' \subseteq Threads,
         UNCHANGED <<klocks, chld>>
  PROVE  IInv'
<1> DEFINE death == [code |-> code, term |-> task[u].term]
           p == task[u].pid
<1>1. /\ task' = [task EXCEPT ![u] = Absent(u, "gone")]
      /\ pc' = [pc EXCEPT ![u] = "user"] /\ arg' = [arg EXCEPT ![u] = "code"]
      /\ IsLeader(u) => exitLog' = [exitLog EXCEPT ![p] = Append(exitLog[p], death)]
      /\ ~IsLeader(u) => exitLog' = exitLog
  BY DEF Reap
<1>2. p \in Threads /\ death \in Deaths
  BY FieldTypes DEF IInv, Deaths
<1> HIDE DEF p, death
<1> DEFINE e == Absent(u, "gone")
<1>empty. e \in Tasks /\ e.state = "gone" /\ ~e.on
  BY EmptySlot
<1> HIDE DEF e
<1>3. /\ task'[u].state = "gone" /\ ~task'[u].on
      /\ \A v \in Threads \ {u} : task'[v] = task[v] /\ pc'[v] = pc[v] /\ arg'[v] = arg[v]
      /\ pc'[u] = "user" /\ arg'[u] = "code"
  BY <1>1, <1>empty DEF IInv, TypeOK, e
<1>4. TypeOK'
  <2>1. task' \in [Threads -> Tasks]
    BY <1>1, <1>empty DEF IInv, TypeOK, e
  <2>2. exitLog[p] \in Seq(Deaths)
    BY <1>2 DEF IInv, TypeOK
  <2>3. Append(exitLog[p], death) \in Seq(Deaths)
    BY <1>2, <2>2, SMT
  <2>4. exitLog' \in [Threads -> Seq(Deaths)]
    BY <1>1, <1>2, <2>3 DEF IInv, TypeOK
  <2> QED BY <1>1, <2>1, <2>4 DEF IInv, TypeOK, Places, Codes
<1>5. /\ ~Live(u)' /\ \A v \in Threads \ {u} : (Live(v)' <=> Live(v)) /\ (IsLeader(v)' <=> IsLeader(v))
  BY <1>3 DEF Live, IsLeader
<1>6. SlotsOK'
  BY <1>3, <1>5 DEF IInv, SlotsOK
<1>7. LocksOK'
  BY <1>3, <1>5 DEF IInv, LocksOK
<1>8. PidsOK'
  <2> SUFFICES ASSUME NEW t \in Threads, Live(t)'
               PROVE  /\ task'[t].pid # t => task'[task'[t].pid].state = "gone"
                      /\ task'[task'[t].tgid].state # "unborn"
                      /\ \A v \in Threads : Live(v)' =>
                           /\ task'[v].pid = task'[t].pid => v = t
                           /\ task'[v].pid = task'[t].tgid => IsLeader(v)'
                           /\ IsLeader(t)' /\ IsLeader(v)' => v = t
    BY DEF PidsOK
  <2>1. task[t].pid \in Threads /\ task[t].tgid \in Threads
    BY FieldTypes DEF IInv
  <2> QED BY <1>3, <1>5, <2>1, SMT DEF IInv, PidsOK
<1>9. OwnersOK' /\ OneTeardownOwner'
  BY <1>3, <1>5, SMT DEF IInv, OwnersOK, OneTeardownOwner, KillLoops
<1>10. LogOK'
  <2> SUFFICES ASSUME NEW q \in Threads
               PROVE  /\ Len(exitLog'[q]) <= 1
                      /\ exitLog'[q] # <<>> => Found(q)' = {} /\ task'[q].state # "unborn"
    BY DEF LogOK
  <2>1. Found(q)' \subseteq Found(q) \ {u} /\ (task'[q].state = "unborn" => task[q].state = "unborn")
    BY <1>3, <1>5 DEF Found
  <2>2. CASE IsLeader(u) /\ q = p
    <3>1. Found(q) = {u}
      BY <2>2, SMT DEF Found, IInv, PidsOK, p
    <3>2. exitLog[q] = <<>> /\ exitLog'[q] = Append(exitLog[q], death)
      BY <1>1, <2>2, <3>1 DEF IInv, LogOK, TypeOK
    <3>3. Len(exitLog'[q]) = 1
      BY <1>2, <3>2, SMT
    <3>4. task'[q].state # "unborn"
      BY <1>3, <2>2, <1>2 DEF IInv, PidsOK, p
    <3> QED BY <2>1, <3>1, <3>3, <3>4, SMT
  <2>3. CASE ~(IsLeader(u) /\ q = p)
    BY <1>1, <1>2, <2>1, <2>3 DEF IInv, LogOK, TypeOK
  <2> QED BY <2>2, <2>3
<1> QED BY <1>4, <1>6, <1>7, <1>8, <1>9, <1>10 DEF IInv

LEMMA SwitchBackKeeps == ASSUME IInv, NEW t \in Threads, SwitchBack(t) PROVE IInv'
<1>1. Live(t) /\ task[t].code \in Codes /\ leaving' \in [Threads -> BOOLEAN] /\ closed' \subseteq Threads
  BY RunningIsLive, FieldTypes DEF SwitchBack, IInv, TypeOK
<1>2. CASE SwitchBackState(t) = "zombie"
  <2>1. task[t].state = "zombie" /\ ~SparesLocker(t)
    BY <1>2 DEF SwitchBackState, Settled
  <2>2. klocks[t] = 0
    BY <2>1 DEF IInv, LocksOK, SparesLocker
  <2> QED BY <1>1, <1>2, <2>2, ReapKeeps DEF SwitchBack
<1>3. CASE SwitchBackState(t) # "zombie"
  BY <1>1, <1>3, SwitchKeeps DEF SwitchBack
<1> QED BY <1>2, <1>3

(* The owner leaves its loops, or goes on to take over the leader. *)
LEMMA LoopsDoneKeeps ==
  ASSUME IInv, NEW t \in Threads, task[t].on, pc[t] \in {"kill", "killExec", "killRest"},
         AllLoopsDone(t), UNCHANGED <<klocks, chld>>
  PROVE  IInv'
<1> DEFINE o == IF pc[t] = "killExec" THEN NoPid ELSE task[t].owner
           r == [task[t] EXCEPT !.owner = o]
<1>1. task[t] \in Tasks /\ Live(t) /\ o \in Threads \cup {NoPid}
  BY RunningIsLive, FieldTypes DEF IInv, TypeOK
<1>2. task' = [task EXCEPT ![t] = r]
  BY <1>1 DEF AllLoopsDone, IInv, TypeOK, Tasks
<1>3. PICK at \in {"finish", "image", "takeOver"} :
        pc' = [pc EXCEPT ![t] = at] /\ (at = "takeOver" => pc[t] = "killRest")
  BY DEF AllLoopsDone, Goto
<1>4. pc[t] # "killExec" => o = task[t].owner
  OBVIOUS
<1> HIDE DEF o
<1>5. r \in Tasks
  BY <1>1 DEF Tasks
<1>6. /\ r.pid = task[t].pid /\ r.tgid = task[t].tgid /\ r.owner = o /\ r.state = task[t].state
      /\ (r.on <=> task[t].on) /\ (r.killed <=> task[t].killed)
  BY <1>1 DEF Tasks
<1> HIDE DEF r
<1>7. task'[t] = r /\ \A u \in Threads \ {t} : task'[u] = task[u]
  BY <1>2 DEF IInv, TypeOK
<1>8. SamePids
  BY <1>6, <1>7 DEF SamePids
<1>9. pc'[t] = at /\ \A u \in Threads \ {t} : pc'[u] = pc[u] /\ pc[u] \notin KillLoops
  BY <1>3 DEF IInv, TypeOK, OneTeardownOwner, KillLoops
<1>10. OneTeardownOwner'
  BY <1>9 DEF OneTeardownOwner
<1>11. OwnersOK'
  <2> SUFFICES ASSUME at = "takeOver", NEW l \in Threads, Live(l)', IsLeader(l)'
               PROVE  task'[l].tgid = task'[t].tgid /\ task'[l].owner = task'[t].pid
    BY <1>9 DEF OwnersOK, KillLoops
  <2>1. Live(l) /\ IsLeader(l)
    BY <1>8, SamePidsKeeps DEF AllLoopsDone
  <2>2. task[l].tgid = task[t].tgid /\ task[l].owner = task[t].pid
    BY <2>1 DEF IInv, OwnersOK, KillLoops
  <2> QED BY <1>3, <1>4, <1>6, <1>7, <2>2
<1>12. /\ task' \in [Threads -> Tasks] /\ pc' \in [Threads -> Places]
       /\ leaving' \in [Threads -> BOOLEAN] /\ arg' \in [Threads -> Codes]
       /\ closed' \subseteq Threads /\ UNCHANGED <<klocks, exitLog, chld>>
  BY <1>2, <1>3, <1>5, ZenonT(30) DEF AllLoopsDone, IInv, TypeOK, Places
<1>13. \A u \in Threads :
         /\ ~Live(u) => ~task'[u].on /\ pc'[u] = "user" /\ arg'[u] = "code"
         /\ pc[u] \in {"sys", "exit"} => pc'[u] = pc[u]
         /\ task'[u].state = "zombie" => task'[u].killed \/ pc'[u] \in {"notify", "end"}
  BY <1>1, <1>6, <1>7, <1>9, SMT DEF AllLoopsDone, IInv, SlotsOK, LocksOK
<1> QED BY <1>8, <1>10, <1>11, <1>12, <1>13, OwnersKeep

LEMMA DeferKeeps ==
  ASSUME IInv, NEW t \in Threads, task[t].on, DeferWait(t), UNCHANGED <<klocks, chld>>
  PROVE  IInv'
<1>1. leaving' \in [Threads -> BOOLEAN]
  BY DEF DeferWait, Leave, IInv, TypeOK
<1> QED BY <1>1, ParkKeeps DEF DeferWait, States

LEMMA KillStepKeeps == ASSUME IInv, NEW t \in Threads, KillStep(t) PROVE IInv'
<1>1. task[t].on /\ pc[t] \in {"kill", "killExec", "killRest"} /\ UNCHANGED <<klocks, chld>>
  BY DEF KillStep, Running
<1>2. CASE \E u \in Threads : Live(u) /\ ~Deferring(u) /\ KillMember(u, arg[t])
  <2>1. PICK u \in Threads : Live(u) /\ ~Deferring(u) /\ KillMember(u, arg[t])
    BY <1>2
  <2>2. arg[t] \in Codes /\ klocks[u] = 0 /\ leaving' = leaving
    BY <2>1 DEF IInv, TypeOK, Deferring, KillMember
  <2>3. CASE task[u].on
    BY <1>1, <2>1, <2>2, <2>3, MarkKilledKeeps DEF KillMember
  <2>4. CASE ~task[u].on
    <3>1. Reap(u, arg[t]) /\ closed' \subseteq Threads /\ leaving' \in [Threads -> BOOLEAN]
      BY <2>1, <2>2, <2>4, FieldTypes DEF KillMember, IInv, TypeOK
    <3> QED BY <1>1, <2>1, <2>2, <3>1, ReapKeeps
  <2> QED BY <2>3, <2>4
<1>3. CASE DeferWait(t)
  BY <1>1, <1>3, DeferKeeps
<1>4. CASE AllLoopsDone(t)
  BY <1>1, <1>4, LoopsDoneKeeps
<1> QED BY <1>2, <1>3, <1>4 DEF KillStep, Members, Group

LEMMA TakeOverKeeps == ASSUME IInv, NEW t \in Threads, take_over_leader(t) PROVE IInv'
<1>1. task[t].on /\ pc[t] = "takeOver" /\ UNCHANGED <<klocks, chld>>
  BY DEF take_over_leader, Running
<1>2. CASE Promote(t)
  BY <1>1, <1>2, PromoteKeeps
<1>3. CASE DeferWait(t)
  BY <1>1, <1>3, DeferKeeps
<1>4. CASE \E l \in LeaderOf(t) : AskToPark(l) /\ UNCHANGED <<pc, leaving, arg, exitLog, closed>>
  BY <1>1, <1>4, AskKeeps DEF LeaderOf, Found
<1>5. CASE \E l \in LeaderOf(t) : ~Deferring(l) /\ ~task[l].on /\ Exchange(t, l)
  BY <1>1, <1>5, ExchangeKeeps
<1> QED BY <1>2, <1>3, <1>4, <1>5 DEF take_over_leader

LEMMA EndCallsKeep ==
  ASSUME IInv, NEW t \in Threads, exit_group(t) \/ dethread_current_group(t)
  PROVE  IInv'
<1>1. /\ task[t].on /\ pc[t] \in {"claimExit", "claimExec"}
      /\ UNCHANGED <<klocks, arg, exitLog, chld, closed>>
  BY DEF exit_group, dethread_current_group, Running
<1>2. CASE exit_dying_thread(t)
  BY <1>1, <1>2, DyingKeeps
<1>3. CASE \E at \in {"kill", "killExec", "killRest"} : claim_group_exit(t, at)
  BY <1>1, <1>3, ClaimKeeps
<1>4. (IF IsLeader(t) THEN "killExec" ELSE "killRest") \in {"kill", "killExec", "killRest"}
  OBVIOUS
<1> QED BY <1>2, <1>3, <1>4 DEF exit_group, dethread_current_group

----------------------------------------------------------------------------
(* The inductive invariant. *)

LEMMA InitIInv == Init => IInv
<1> SUFFICES ASSUME Init PROVE IInv
  OBVIOUS
<1>1. Leader \in Threads
  BY GroupAssumption
<1>2. \A t \in Threads :
        /\ task[t] \in Tasks /\ task[t].pid = t
        /\ ~task[t].on /\ klocks[t] = 0 /\ pc[t] = "user" /\ arg[t] = "code" /\ exitLog[t] = <<>>
        /\ t \in Unborn => task[t].state = "unborn"
        /\ t \notin Unborn => task[t].state = "ready" /\ task[t].tgid = Leader
  <2> TAKE t \in Threads
  <2>1. CASE t \in Unborn
    <3>1. task[t] = Absent(t, "unborn")
      BY <2>1 DEF Init
    <3> QED BY <2>1, <3>1, EmptySlot DEF Init
  <2>2. CASE t \notin Unborn
    <3>1. task[t] = NewTask(t, Leader)
      BY <2>2 DEF Init
    <3> QED BY <1>1, <2>2, <3>1, FreshTask, SMT DEF Init
  <2> QED BY <2>1, <2>2
<1>3. TypeOK
  BY <1>2, SMT DEF Init, TypeOK, Places, Codes
<1>4. SlotsOK /\ LocksOK
  BY <1>2 DEF SlotsOK, LocksOK, Live
<1>5. PidsOK
  BY <1>2, GroupAssumption, SMT DEF PidsOK, IsLeader, Live
<1>6. OwnersOK /\ OneTeardownOwner
  BY <1>2 DEF OwnersOK, OneTeardownOwner, KillLoops
<1>7. LogOK
  BY <1>2, SMT DEF LogOK
<1> QED BY <1>3, <1>4, <1>5, <1>6, <1>7 DEF IInv

LEMMA StutterKeeps == IInv /\ UNCHANGED vars => IInv'
<1> SUFFICES ASSUME IInv, UNCHANGED vars PROVE IInv'
  OBVIOUS
<1>1. /\ task' = task /\ klocks' = klocks /\ pc' = pc /\ leaving' = leaving
      /\ arg' = arg /\ exitLog' = exitLog /\ chld' = chld /\ closed' = closed
  BY DEF vars
<1>2. TypeOK'
  BY <1>1 DEF IInv, TypeOK
<1>3. SlotsOK' /\ LocksOK'
  BY <1>1 DEF IInv, SlotsOK, LocksOK, Live
<1>4. PidsOK'
  BY <1>1 DEF IInv, PidsOK, Live, IsLeader
<1>5. OwnersOK' /\ OneTeardownOwner'
  BY <1>1 DEF IInv, OwnersOK, OneTeardownOwner, Live, IsLeader
<1>6. LogOK'
  BY <1>1 DEF IInv, LogOK, Live, Found
<1> QED BY <1>2, <1>3, <1>4, <1>5, <1>6 DEF IInv

LEMMA StepIInv == ASSUME IInv, [Next]_vars PROVE IInv'
<1>1. CASE UNCHANGED vars
  BY <1>1, StutterKeeps
<1>2. ASSUME NEW t \in Threads, KernelStep(t) PROVE IInv'
  BY <1>2, CallSteps, ParkSteps, DeliverKeeps, StopKeeps, StampKeeps, EndCallsKeep,
     KillStepKeeps, TakeOverKeeps, ExitMarkKeeps DEF KernelStep
<1>3. CASE Next
  BY <1>2, <1>3, DispatchKeeps, SwitchBackKeeps, WakeKeeps, CallSteps, ParkSteps, CloneKeeps,
     ContinueKeeps DEF Next
<1> QED BY <1>1, <1>3

LEMMA Inductive == Spec => []IInv
<1>1. Init => IInv
  BY InitIInv
<1>2. IInv /\ [Next]_vars => IInv'
  BY StepIInv
<1> QED BY <1>1, <1>2, PTL DEF Spec

(* No killed or exiting thread is reaped while it holds a sleeping lock: the *)
(* kill loop defers it, and the switch-back spares it (sched/mod.rs).        *)
THEOREM LockSafety == Spec => []LockHolderSurvives
<1>1. IInv => LockHolderSurvives
  BY DEF IInv, LocksOK, LockHolderSurvives
<1> QED BY <1>1, Inductive, PTL

(* claim_group_exit lets one thread at a time run a group's kill loops, with *)
(* exit_group, a fatal signal, execve and clone all racing.                  *)
THEOREM OneOwner == Spec => []OneTeardownOwner
<1>1. IInv => OneTeardownOwner
  BY DEF IInv
<1> QED BY <1>1, Inductive, PTL

(* A pid is logged dead at most once, and never while a thread lives under   *)
(* it: execve's exchange of pids logs no death of the process that goes on.  *)
THEOREM OneDeath == Spec => []OneDeathPerPid
<1>1. IInv => OneDeathPerPid
  <2> SUFFICES ASSUME IInv, NEW p \in Threads
               PROVE  Len(exitLog[p]) <= IF Found(p) = {} THEN 1 ELSE 0
    BY DEF OneDeathPerPid
  <2>1. exitLog[p] \in Seq(Deaths) /\ Len(exitLog[p]) <= 1 /\ (exitLog[p] # <<>> => Found(p) = {})
    BY DEF IInv, TypeOK, LogOK
  <2> QED BY <2>1, SMT
<1> QED BY <1>1, Inductive, PTL

============================================================================
