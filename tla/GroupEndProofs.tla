--------------------------- MODULE GroupEndProofs ---------------------------
(***************************************************************************)
(* Proofs about how a thread group ends, on the invariant of                *)
(* GroupExitProofs: the owner of the teardown is alone at its end, a death  *)
(* by signal is recorded as one, the fd table outlives its users, and the   *)
(* parent hears of the death.                                               *)
(***************************************************************************)
EXTENDS GroupExitProofs

(* First-order reasoning suffices unless a step names another prover. *)
USE Zenon

(* No thread is cloned into a group that an execve of this instance empties. *)
NoCloneDuringExec == Unborn = {} \/ "exec" \notin Ops

(* Where the kill loop ends its owner is alone, or with the leader it will   *)
(* replace; only execve changes pids, so without it they are the slots.      *)
GroupOK ==
  /\ \A t, u \in Threads : Live(t) /\ Live(u) => task[u].tgid = task[t].tgid
  /\ \A t \in Threads :
       /\ pc[t] = "takeOver" => \A u \in Threads : Live(u) => u = t \/ IsLeader(u)
       /\ pc[t] \in {"finish", "image"} => \A u \in Threads : Live(u) => u = t
       /\ Live(t) /\ IsLeader(t) => t \notin Unborn
  /\ "exec" \notin Ops =>
       \A t \in Threads :
         /\ pc[t] \notin {"claimExec", "killExec", "killRest", "takeOver", "image"}
         /\ Live(t) => task[t].pid = t /\ task[t].tgid = Leader

(* The stamp of a fatal signal outlives the thread that made it.             *)
SignalOK ==
  /\ \A v \in Threads \ Unborn : Live(v) =>
       /\ \A u \in Threads : arg[u] = "sig" => task[v].term
       /\ task[v].code = "sig" => task[v].term
  /\ SignalDeathRecorded

GInv == GroupOK /\ SignalOK

(* The group ends as a whole: by exit_group or a fatal signal.               *)
OnlyGroupEnds == Ops \cap {"exit", "exec"} = {}

(* Past the kill loop the owner is alone, and a released table has no user   *)
(* left outside the teardown.                                                *)
TableOK ==
  /\ \A t \in Threads : pc[t] \in {"finish", "exit", "mark", "notify"} =>
       \A u \in Threads : Live(u) => u = t
  /\ Leader \in closed => \A t \in Threads : Live(t) =>
       pc[t] \in {"kill", "finish", "exit", "mark", "notify", "end"}

----------------------------------------------------------------------------
(* Alone at the end, and the signal in the record: GInv, with IInv.          *)

ExecPlaces == {"claimExec", "killExec", "killRest", "takeOver", "image"}

(* Steps that end no loop, reap and clone nobody, and stamp no death.        *)
GroupQuiet ==
  /\ SamePids /\ exitLog' = exitLog
  /\ \A u \in Threads :
       /\ pc'[u] \in {"takeOver", "finish", "image"} => pc'[u] = pc[u]
       /\ pc'[u] \in ExecPlaces => pc[u] \in ExecPlaces \/ "exec" \in Ops
       /\ arg'[u] = "sig" => arg[u] = "sig"
       /\ task[u].term => task'[u].term
       /\ task'[u].code = "sig" => task[u].code = "sig" \/ \E v \in Threads : arg[v] = "sig"

LEMMA GroupQuietKeeps == ASSUME IInv, GInv, GroupQuiet PROVE GInv'
<1>1. \A u \in Threads : (Live(u)' <=> Live(u)) /\ (IsLeader(u)' <=> IsLeader(u))
  BY SamePidsKeeps DEF GroupQuiet
<1>2. \A u \in Threads : task'[u].pid = task[u].pid /\ task'[u].tgid = task[u].tgid
  BY DEF GroupQuiet, SamePids
<1>3. GroupOK'
  BY <1>1, <1>2, SMT DEF GInv, GroupOK, GroupQuiet, ExecPlaces
<1>4. SignalDeathRecorded'
  BY DEF GInv, SignalOK, SignalDeathRecorded, GroupQuiet
<1>5. ASSUME NEW v \in Threads \ Unborn, Live(v)'
      PROVE  /\ \A u \in Threads : arg'[u] = "sig" => task'[v].term
             /\ task'[v].code = "sig" => task'[v].term
  BY <1>1, <1>5 DEF GInv, SignalOK, GroupQuiet
<1> QED BY <1>3, <1>4, <1>5 DEF GInv, SignalOK

(* One record changes, in fields that GroupQuiet does not look at. *)
LEMMA TaskQuiet ==
  ASSUME IInv, NEW t \in Threads, Live(t), NEW r, task' = [task EXCEPT ![t] = r],
         r.pid = task[t].pid, r.tgid = task[t].tgid, r.state \notin {"unborn", "gone"},
         r.term <=> task[t].term,
         r.code = "sig" => task[t].code = "sig" \/ \E v \in Threads : arg[v] = "sig",
         exitLog' = exitLog, arg' = arg,
         \A u \in Threads :
            /\ pc'[u] \in {"takeOver", "finish", "image"} => pc'[u] = pc[u]
            /\ pc'[u] \in ExecPlaces => pc[u] \in ExecPlaces \/ "exec" \in Ops
  PROVE  GroupQuiet
<1>1. task'[t] = r /\ \A u \in Threads \ {t} : task'[u] = task[u]
  BY DEF IInv, TypeOK
<1>2. SamePids
  BY <1>1 DEF SamePids, Live
<1>3. \A u \in Threads :
        /\ task[u].term => task'[u].term
        /\ task'[u].code = "sig" => task[u].code = "sig" \/ \E v \in Threads : arg[v] = "sig"
  BY <1>1
<1> QED BY <1>2, <1>3 DEF GroupQuiet

LEMMA CallsQuiet ==
  ASSUME IInv, NEW t \in Threads,
         \/ Enter(t) \/ Lock(t) \/ Unlock(t) \/ Yield(t) \/ Call(t) \/ Fault(t)
         \/ DyingCheck(t) \/ NewImage(t) \/ Finish(t) \/ ExitTeardown(t) \/ ExitNotify(t)
  PROVE  GroupQuiet
<1>1. UNCHANGED <<task, exitLog, arg>>
  BY DEF Enter, Lock, Unlock, Yield, Call, Fault, DyingCheck, NewImage, Finish, ExitTeardown,
         ExitNotify
<1>2. PICK at : /\ pc' = pc \/ pc' = [pc EXCEPT ![t] = at]
                /\ at \notin {"takeOver", "finish", "image"}
                /\ at \in ExecPlaces => "exec" \in Ops
  <2>1. CASE Call(t)
    BY <2>1 DEF Call, Goto, ExecPlaces
  <2>2. CASE ~Call(t)
    BY <2>2, SMT DEF Enter, Lock, Unlock, Yield, Fault, DyingCheck, NewImage, Finish, ExitTeardown,
                ExitNotify, Goto, ExecPlaces
  <2> QED BY <2>1, <2>2
<1>3. \A u \in Threads :
        /\ pc'[u] \in {"takeOver", "finish", "image"} => pc'[u] = pc[u]
        /\ pc'[u] \in ExecPlaces => pc[u] \in ExecPlaces \/ "exec" \in Ops
  BY <1>2 DEF IInv, TypeOK
<1> QED BY <1>1, <1>3 DEF GroupQuiet, SamePids

LEMMA StatesQuiet ==
  ASSUME IInv, NEW t \in Threads, Live(t), NEW s \in States \ {"unborn", "gone"}, NEW b \in BOOLEAN,
         task' = [task EXCEPT ![t].state = s] \/ task' = [task EXCEPT ![t].state = s, ![t].on = b],
         exitLog' = exitLog, arg' = arg,
         \A u \in Threads :
            /\ pc'[u] \in {"takeOver", "finish", "image"} => pc'[u] = pc[u]
            /\ pc'[u] \in ExecPlaces => pc[u] \in ExecPlaces \/ "exec" \in Ops
  PROVE  GroupQuiet
<1> DEFINE o == IF task' = [task EXCEPT ![t].state = s] THEN task[t].on ELSE b
           r == [task[t] EXCEPT !.state = s, !.on = o]
<1>1. task[t] \in Tasks
  BY DEF IInv, TypeOK
<1>2. task' = [task EXCEPT ![t] = r]
  BY <1>1, ZenonT(30) DEF IInv, TypeOK, Tasks
<1> HIDE DEF o
<1>3. /\ r.pid = task[t].pid /\ r.tgid = task[t].tgid /\ r.state = s
      /\ (r.term <=> task[t].term) /\ r.code = task[t].code
  BY <1>1 DEF Tasks
<1> HIDE DEF r
<1> QED BY <1>2, <1>3, TaskQuiet

LEMMA ParksQuiet ==
  ASSUME IInv, NEW t \in Threads,
         \/ Dispatch(t) \/ Wake(t) \/ Park(t) \/ ParkCancel(t) \/ park_for_group_exit(t)
         \/ Deliver(t)
  PROVE  GroupQuiet
<1> USE DEF IInv, TypeOK, Running, States, Goto, ExecPlaces
<1>1. CASE Dispatch(t)
  BY <1>1, StatesQuiet DEF Dispatch, Live
<1>2. CASE Wake(t)
  BY <1>2, StatesQuiet DEF Wake, Live
<1>3. CASE Park(t)
  BY <1>3, StatesQuiet, RunningIsLive DEF Park
<1>4. CASE ParkCancel(t)
  BY <1>4, StatesQuiet, RunningIsLive DEF ParkCancel
<1>5. CASE park_for_group_exit(t)
  BY <1>5, StatesQuiet, RunningIsLive DEF park_for_group_exit
<1>6. CASE Deliver(t)
  <2>1. CASE task[t].stop /\ task[t].state # "zombie"
    BY <1>6, <2>1, StatesQuiet, RunningIsLive DEF Deliver
  <2>2. CASE ~(task[t].stop /\ task[t].state # "zombie")
    BY <1>6, <2>2, ZenonT(30) DEF Deliver, GroupQuiet, SamePids
  <2> QED BY <2>1, <2>2
<1> QED BY <1>1, <1>2, <1>3, <1>4, <1>5, <1>6

LEMMA ZombiesQuiet ==
  ASSUME IInv, NEW t \in Threads, Live(t), NEW c \in Codes,
         \/ task' = [task EXCEPT ![t].state = "zombie", ![t].code = c]
         \/ task' = [task EXCEPT ![t].state = "zombie", ![t].killed = TRUE, ![t].code = c],
         c = "sig" => task[t].code = "sig" \/ \E v \in Threads : arg[v] = "sig",
         exitLog' = exitLog, arg' = arg,
         \A u \in Threads :
            /\ pc'[u] \in {"takeOver", "finish", "image"} => pc'[u] = pc[u]
            /\ pc'[u] \in ExecPlaces => pc[u] \in ExecPlaces \/ "exec" \in Ops
  PROVE  GroupQuiet
<1> DEFINE q == [task[t] EXCEPT !.state = "zombie", !.code = c]
           k == [task[t] EXCEPT !.state = "zombie", !.killed = TRUE, !.code = c]
<1>1. task[t] \in Tasks
  BY DEF IInv, TypeOK
<1>2. task' = [task EXCEPT ![t] = q] \/ task' = [task EXCEPT ![t] = k]
  BY DEF IInv, TypeOK
<1>3. \A r \in {q, k} :
        /\ r.pid = task[t].pid /\ r.tgid = task[t].tgid /\ r.state = "zombie"
        /\ (r.term <=> task[t].term) /\ r.code = c
  BY <1>1 DEF Tasks
<1> HIDE DEF q, k
<1> QED BY <1>2, <1>3, TaskQuiet, SMT

LEMMA EndsQuiet ==
  ASSUME IInv, NEW t \in Threads,
         ExitMark(t) \/ (task[t].on /\ exit_dying_thread(t) /\ UNCHANGED <<arg, exitLog>>)
  PROVE  GroupQuiet
<1> DEFINE c == IF ExitMark(t) \/ task[t].state # "zombie" THEN arg[t] ELSE task[t].code
<1>1. Live(t) /\ c \in Codes /\ (c = "sig" => task[t].code = "sig" \/ \E v \in Threads : arg[v] = "sig")
  BY RunningIsLive, FieldTypes DEF IInv, TypeOK, ExitMark, Running
<1>2. task' = [task EXCEPT ![t].state = "zombie", ![t].code = c]
  BY DEF ExitMark, exit_dying_thread, IInv, TypeOK
<1>3. /\ exitLog' = exitLog /\ arg' = arg
      /\ pc' = [pc EXCEPT ![t] = "notify"] \/ pc' = [pc EXCEPT ![t] = "end"]
  BY DEF ExitMark, exit_dying_thread, Goto
<1>4. \A u \in Threads :
        /\ pc'[u] \in {"takeOver", "finish", "image"} => pc'[u] = pc[u]
        /\ pc'[u] \in ExecPlaces => pc[u] \in ExecPlaces
  BY <1>3, ZenonT(30) DEF ExecPlaces, IInv, TypeOK
<1> HIDE DEF c
<1> QED BY <1>1, <1>2, <1>3, <1>4, ZombiesQuiet

LEMMA AskQuiet ==
  ASSUME IInv, NEW l \in Threads, Live(l), AskToPark(l), UNCHANGED <<pc, arg, exitLog>>
  PROVE  GroupQuiet
<1> DEFINE r == [task[l] EXCEPT !.stop = TRUE]
<1>1. task[l] \in Tasks
  BY DEF IInv, TypeOK
<1>2. task' = [task EXCEPT ![l] = r]
  BY DEF AskToPark, IInv, TypeOK
<1>3. /\ r.pid = task[l].pid /\ r.tgid = task[l].tgid /\ r.state = task[l].state
      /\ (r.term <=> task[l].term) /\ r.code = task[l].code
  BY <1>1 DEF Tasks
<1> HIDE DEF r
<1> QED BY <1>2, <1>3, TaskQuiet DEF Live

LEMMA StopsQuiet ==
  ASSUME IInv, NEW t \in Threads, do_signal_stop(t) \/ Continue(t)
  PROVE  GroupQuiet
<1>1. \A u \in Threads :
        /\ task'[u].pid = task[u].pid /\ task'[u].tgid = task[u].tgid
        /\ (task'[u].term <=> task[u].term) /\ task'[u].code = task[u].code
        /\ \/ task'[u].state = task[u].state
           \/ Live(u) /\ task'[u].state \in {"stopped", "ready"}
  <2> TAKE u \in Threads
  <2>1. task[u] \in Tasks
    BY DEF IInv, TypeOK
  <2>2. \/ task'[u] = task[u]
        \/ Live(u) /\ \E b \in BOOLEAN, s \in {task[u].state, "stopped", "ready"} :
              task'[u] = [task[u] EXCEPT !.stop = b, !.state = s]
    BY DEF do_signal_stop, Continue, Group
  <2>3. CASE task'[u] = task[u]
    BY <2>3
  <2>4. ASSUME Live(u), NEW b \in BOOLEAN, NEW s \in {task[u].state, "stopped", "ready"},
               task'[u] = [task[u] EXCEPT !.stop = b, !.state = s]
        PROVE  /\ task'[u].pid = task[u].pid /\ task'[u].tgid = task[u].tgid
               /\ (task'[u].term <=> task[u].term) /\ task'[u].code = task[u].code
               /\ Live(u) /\ task'[u].state \in {task[u].state, "stopped", "ready"}
    BY <2>1, <2>4 DEF Tasks
  <2> QED BY <2>2, <2>3, <2>4
<1>2. SamePids
  BY <1>1 DEF SamePids, Live
<1>3. exitLog' = exitLog /\ arg' = arg /\ (pc' = pc \/ pc' = [pc EXCEPT ![t] = "deliver"])
  BY DEF do_signal_stop, Continue, Goto
<1>4. \A u \in Threads :
        /\ pc'[u] \in {"takeOver", "finish", "image"} => pc'[u] = pc[u]
        /\ pc'[u] \in ExecPlaces => pc[u] \in ExecPlaces
  BY <1>3 DEF ExecPlaces, IInv, TypeOK
<1> QED BY <1>1, <1>2, <1>3, <1>4 DEF GroupQuiet

LEMMA ClaimQuiet ==
  ASSUME IInv, NEW t \in Threads, NEW at \in {"kill", "killExec", "killRest"},
         claim_group_exit(t, at), at # "kill" => pc[t] \in ExecPlaces,
         UNCHANGED <<arg, exitLog>>
  PROVE  GroupQuiet
<1>1. PICK l \in Claimable(t) :
        task' = [task EXCEPT ![l].owner = task[t].pid, ![t].stop = FALSE]
  BY DEF claim_group_exit
<1>2. l \in Threads
  BY DEF Claimable, LeaderOf, Found
<1>3. \A u \in Threads :
        /\ task'[u].pid = task[u].pid /\ task'[u].tgid = task[u].tgid
        /\ (task'[u].term <=> task[u].term) /\ task'[u].code = task[u].code
        /\ task'[u].state = task[u].state
  <2> TAKE u \in Threads
  <2>1. task[u] \in Tasks /\ task \in [Threads -> Tasks]
    BY DEF IInv, TypeOK
  <2> DEFINE a == IF u = l THEN task[t].pid ELSE task[u].owner
             b == IF u = t THEN FALSE ELSE task[u].stop
  <2>2. task'[u] = [task[u] EXCEPT !.owner = a, !.stop = b]
    BY <1>1, <1>2, <2>1 DEF Tasks
  <2> HIDE DEF a, b
  <2> QED BY <2>1, <2>2 DEF Tasks
<1>4. SamePids
  BY <1>3 DEF SamePids
<1>5. pc' = [pc EXCEPT ![t] = at]
  BY DEF claim_group_exit, Goto
<1>6. \A u \in Threads :
        /\ pc'[u] \in {"takeOver", "finish", "image"} => pc'[u] = pc[u]
        /\ pc'[u] \in ExecPlaces => pc[u] \in ExecPlaces
  BY <1>5 DEF ExecPlaces, IInv, TypeOK
<1> QED BY <1>3, <1>4, <1>6 DEF GroupQuiet

(* The fatal signal stamps every live thread before the claim's code is      *)
(* "sig", and the leader was never one of the threads cloned in between.     *)
LEMMA StampGroup ==
  ASSUME IInv, GInv, NEW t \in Threads, exit_group_signal(t)
  PROVE  GInv'
<1>1. Live(t)
  BY RunningIsLive DEF exit_group_signal, Running
<1>2. /\ pc' = [pc EXCEPT ![t] = "claimExit"] /\ exitLog' = exitLog
      /\ task' = [u \in Threads |-> IF u \in Stamped(t) THEN [task[u] EXCEPT !.term = TRUE]
                                    ELSE task[u]]
  BY DEF exit_group_signal, Goto
<1>3. \A u \in Threads :
        /\ task'[u].pid = task[u].pid /\ task'[u].tgid = task[u].tgid
        /\ task'[u].state = task[u].state /\ (Live(u) => task'[u].term)
  <2> TAKE u \in Threads
  <2>1. task[u] \in Tasks
    BY DEF IInv, TypeOK
  <2>2. CASE u \in Stamped(t)
    <3>1. task'[u] = [task[u] EXCEPT !.term = TRUE]
      BY <1>2, <2>2
    <3> QED BY <2>1, <3>1 DEF Tasks
  <2>3. CASE u \notin Stamped(t)
    <3>1. task'[u] = task[u] /\ ~Live(u)
      BY <1>1, <1>2, <2>3 DEF Stamped, Group, GInv, GroupOK
    <3> QED BY <3>1
  <2> QED BY <2>2, <2>3
<1>4. SamePids
  BY <1>3 DEF SamePids
<1>5. \A u \in Threads : (Live(u)' <=> Live(u)) /\ (IsLeader(u)' <=> IsLeader(u))
  BY <1>2, <1>4, SamePidsKeeps
<1>6. GroupOK'
  BY <1>2, <1>3, <1>5, SMT DEF GInv, GroupOK, IInv, TypeOK
<1>7. SignalOK'
  BY <1>2, <1>3, <1>5 DEF GInv, SignalOK, SignalDeathRecorded
<1> QED BY <1>6, <1>7 DEF GInv

(* A leader logged with the signal's code is logged with the signal's mark. *)
LEMMA ReapGroup ==
  ASSUME IInv, GInv, NEW u \in Threads, Live(u), NEW code \in Codes, Reap(u, code),
         code = "sig" => code = task[u].code \/ \E v \in Threads : arg[v] = "sig"
  PROVE  GInv'
<1> DEFINE death == [code |-> code, term |-> task[u].term]
           p == task[u].pid
<1>1. /\ task' = [task EXCEPT ![u] = Absent(u, "gone")]
      /\ pc' = [pc EXCEPT ![u] = "user"] /\ arg' = [arg EXCEPT ![u] = "code"]
      /\ IsLeader(u) => exitLog' = [exitLog EXCEPT ![p] = Append(exitLog[p], death)]
      /\ ~IsLeader(u) => exitLog' = exitLog
  BY DEF Reap
<1>2. p \in Threads /\ death \in Deaths /\ Absent(u, "gone").state = "gone"
  BY FieldTypes, EmptySlot DEF IInv, Deaths
<1>3. /\ task'[u].state = "gone" /\ pc'[u] = "user" /\ arg'[u] = "code"
      /\ \A v \in Threads \ {u} : task'[v] = task[v] /\ pc'[v] = pc[v] /\ arg'[v] = arg[v]
  BY <1>1, <1>2 DEF IInv, TypeOK
<1>4. /\ ~Live(u)' /\ \A v \in Threads \ {u} : (Live(v)' <=> Live(v)) /\ (IsLeader(v)' <=> IsLeader(v))
  BY <1>3 DEF Live, IsLeader
<1>5. GroupOK'
  BY <1>3, <1>4, SMT DEF GInv, GroupOK
<1>6. IsLeader(u) /\ code = "sig" => task[u].term
  BY DEF GInv, GroupOK, SignalOK
<1>7. SignalDeathRecorded'
  <2>1. CASE ~IsLeader(u)
    BY <1>1, <2>1 DEF GInv, SignalOK, SignalDeathRecorded
  <2>2. CASE IsLeader(u)
    <3> SUFFICES ASSUME NEW q \in Threads, NEW i \in DOMAIN exitLog'[q], exitLog'[q][i].code = "sig"
                 PROVE  exitLog'[q][i].term
      BY DEF SignalDeathRecorded
    <3>1. CASE q # p
      BY <1>1, <2>2, <3>1 DEF GInv, SignalOK, SignalDeathRecorded, IInv, TypeOK
    <3>2. CASE q = p
      <4>1. exitLog[q] \in Seq(Deaths) /\ exitLog'[q] = Append(exitLog[q], death)
        BY <1>1, <1>2, <2>2, <3>2 DEF IInv, TypeOK
      <4>2. CASE i = Len(exitLog[q]) + 1
        <5>1. exitLog'[q][i] = death
          BY <1>2, <4>1, <4>2, SMT
        <5> QED BY <1>6, <2>2, <5>1, SMT
      <4>3. CASE i # Len(exitLog[q]) + 1
        <5>1. i \in DOMAIN exitLog[q] /\ exitLog'[q][i] = exitLog[q][i]
          BY <1>2, <4>1, <4>3, SMT
        <5> QED BY <5>1 DEF GInv, SignalOK, SignalDeathRecorded
      <4> QED BY <4>2, <4>3
    <3> QED BY <3>1, <3>2
  <2> QED BY <2>1, <2>2
<1>8. SignalOK'
  BY <1>3, <1>4, <1>7 DEF GInv, SignalOK
<1> QED BY <1>5, <1>8 DEF GInv

LEMMA LoopsDoneGroup ==
  ASSUME IInv, GInv, NEW t \in Threads, task[t].on, pc[t] \in {"kill", "killExec", "killRest"},
         AllLoopsDone(t), {u \in Members(t) : pc[t] = "killRest" => ~IsLeader(u)} = {}
  PROVE  GInv'
<1>1. Live(t) /\ task[t] \in Tasks
  BY RunningIsLive DEF IInv, TypeOK
<1>2. \A u \in Threads : Live(u) => u = t \/ (pc[t] = "killRest" /\ IsLeader(u))
  BY <1>1 DEF Members, Group, GInv, GroupOK
<1>3. PICK at \in {"finish", "image", "takeOver"} :
        /\ pc' = [pc EXCEPT ![t] = at] /\ (at = "takeOver" <=> pc[t] = "killRest")
        /\ at = "image" => pc[t] = "killExec"
  BY DEF AllLoopsDone, Goto
<1>4. /\ UNCHANGED <<arg, exitLog>>
      /\ \A u \in Threads :
           /\ task'[u].pid = task[u].pid /\ task'[u].tgid = task[u].tgid
           /\ task'[u].state = task[u].state
           /\ (task'[u].term <=> task[u].term) /\ task'[u].code = task[u].code
  BY <1>1 DEF AllLoopsDone, IInv, TypeOK, Tasks
<1>5. SamePids
  BY <1>4 DEF SamePids
<1>6. \A u \in Threads : (Live(u)' <=> Live(u)) /\ (IsLeader(u)' <=> IsLeader(u))
  BY <1>4, <1>5, SamePidsKeeps
<1>7. pc'[t] = at /\ \A u \in Threads \ {t} : pc'[u] = pc[u]
  BY <1>3 DEF IInv, TypeOK
<1>8. \A u \in Threads \ {t} : pc[u] # "takeOver" /\ (pc[u] \in {"finish", "image"} => FALSE)
  BY <1>1 DEF IInv, OneTeardownOwner, KillLoops, GInv, GroupOK
<1>9. GroupOK'
  <2>1. \A u, v \in Threads : Live(u)' /\ Live(v)' => task'[v].tgid = task'[u].tgid
    BY <1>4, <1>6, SMT DEF GInv, GroupOK
  <2>2. \A u \in Threads :
          /\ pc'[u] = "takeOver" => \A v \in Threads : Live(v)' => v = u \/ IsLeader(v)'
          /\ pc'[u] \in {"finish", "image"} => \A v \in Threads : Live(v)' => v = u
          /\ Live(u)' /\ IsLeader(u)' => u \notin Unborn
    BY <1>2, <1>3, <1>6, <1>7, <1>8 DEF GInv, GroupOK
  <2>3. "exec" \notin Ops =>
         \A u \in Threads :
           /\ pc'[u] \notin {"claimExec", "killExec", "killRest", "takeOver", "image"}
           /\ Live(u)' => task'[u].pid = u /\ task'[u].tgid = Leader
    BY <1>3, <1>4, <1>6, <1>7, SMT DEF GInv, GroupOK
  <2> QED BY <2>1, <2>2, <2>3 DEF GroupOK
<1>10. SignalOK'
  BY <1>4, <1>6 DEF GInv, SignalOK, SignalDeathRecorded
<1> QED BY <1>9, <1>10 DEF GInv

LEMMA CloneGroup ==
  ASSUME NoCloneDuringExec, IInv, GInv, NEW t \in Threads, clone_thread(t)
  PROVE  GInv'
<1>1. PICK u \in Unborn : task[u].state = "unborn" /\ task' = [task EXCEPT ![u] = NewTask(u, task[t].tgid)]
  BY DEF clone_thread
<1> DEFINE n == NewTask(u, task[t].tgid)
<1>2. Live(t) /\ pc[t] = "sys" /\ u \in Threads /\ ~Live(u) /\ task[t].tgid \in Threads
  BY <1>1, RunningIsLive, FieldTypes, GroupAssumption DEF clone_thread, Running, Live, IInv
<1>3. n.pid = u /\ n.tgid = task[t].tgid /\ n.state = "ready"
  BY <1>2, FreshTask, SMT
<1> HIDE DEF n
<1>4. task'[u] = n /\ (\A v \in Threads \ {u} : task'[v] = task[v])
      /\ UNCHANGED <<pc, arg, exitLog>>
  BY <1>1, <1>2 DEF clone_thread, IInv, TypeOK, n
<1>5. "exec" \notin Ops
  BY DEF NoCloneDuringExec
<1>6. Live(u)' /\ \A v \in Threads \ {u} : (Live(v)' <=> Live(v)) /\ (IsLeader(v)' <=> IsLeader(v))
  BY <1>3, <1>4 DEF Live, IsLeader
<1>7. task[t].tgid # u
  BY <1>1, <1>2 DEF IInv, PidsOK
<1>8. ~IsLeader(u)'
  BY <1>3, <1>4, <1>7 DEF IsLeader
<1>9. \A v \in Threads : pc[v] \notin {"takeOver", "finish", "image"}
  BY <1>2, <1>5 DEF GInv, GroupOK
<1>10. GroupOK'
  <2>1. \A v, w \in Threads : Live(v)' /\ Live(w)' => task'[w].tgid = task'[v].tgid
    BY <1>2, <1>3, <1>4, <1>6, SMT DEF GInv, GroupOK
  <2>2. \A v \in Threads :
          /\ pc'[v] = "takeOver" => \A w \in Threads : Live(w)' => w = v \/ IsLeader(w)'
          /\ pc'[v] \in {"finish", "image"} => \A w \in Threads : Live(w)' => w = v
          /\ Live(v)' /\ IsLeader(v)' => v \notin Unborn
    BY <1>4, <1>6, <1>8, <1>9 DEF GInv, GroupOK
  <2>3. "exec" \notin Ops =>
         \A v \in Threads :
           /\ pc'[v] \notin {"claimExec", "killExec", "killRest", "takeOver", "image"}
           /\ Live(v)' => task'[v].pid = v /\ task'[v].tgid = Leader
    BY <1>2, <1>3, <1>4, <1>5, <1>6, SMT DEF GInv, GroupOK
  <2> QED BY <2>1, <2>2, <2>3 DEF GroupOK
<1>11. SignalOK'
  BY <1>4, <1>6 DEF GInv, SignalOK, SignalDeathRecorded
<1> QED BY <1>10, <1>11 DEF GInv

LEMMA PromoteGroup ==
  ASSUME NoCloneDuringExec, IInv, GInv, NEW t \in Threads, task[t].on, pc[t] = "takeOver",
         Promote(t), UNCHANGED exitLog
  PROVE  GInv'
<1>1. Live(t) /\ task[t] \in Tasks /\ "exec" \in Ops /\ Unborn = {}
  BY RunningIsLive DEF IInv, TypeOK, GInv, GroupOK, NoCloneDuringExec
<1>2. \A u \in Threads : Live(u) => u = t
  BY <1>1, SMT DEF Promote, LeaderOf, Found, GInv, GroupOK, IsLeader
<1>3. \A u \in Threads :
        /\ task'[u].state = task[u].state /\ (task'[u].term <=> task[u].term)
        /\ task'[u].code = task[u].code
  BY <1>1 DEF Promote, IInv, TypeOK, Tasks
<1>4. \A u \in Threads : Live(u)' <=> Live(u)
  BY <1>3 DEF Live
<1>5. pc' = [pc EXCEPT ![t] = "image"] /\ UNCHANGED <<arg, exitLog>>
  BY DEF Promote, Goto
<1>6. GroupOK'
  BY <1>1, <1>2, <1>4, <1>5 DEF GroupOK, IInv, TypeOK, SlotsOK
<1>7. SignalOK'
  BY <1>3, <1>4, <1>5 DEF GInv, SignalOK, SignalDeathRecorded
<1> QED BY <1>6, <1>7 DEF GInv

LEMMA ExchangeGroup ==
  ASSUME NoCloneDuringExec, IInv, GInv, NEW t \in Threads, task[t].on, pc[t] = "takeOver",
         NEW l \in LeaderOf(t), ~task[l].on, Exchange(t, l)
  PROVE  GInv'
<1>1. /\ Live(t) /\ task[t] \in Tasks /\ "exec" \in Ops /\ Unborn = {}
      /\ l \in Threads /\ Live(l) /\ l # t /\ task[l].pid = task[t].tgid
  BY RunningIsLive DEF IInv, TypeOK, GInv, GroupOK, NoCloneDuringExec, LeaderOf, Found
<1>2. \A u \in Threads : Live(u) => u \in {t, l}
  BY <1>1, SMT DEF GInv, GroupOK, IInv, PidsOK, IsLeader
<1> DEFINE e == Absent(l, "gone")
           r == [task[t] EXCEPT !.pid = task[l].pid, !.stop = FALSE, !.owner = NoPid]
<1>3. e.state = "gone"
  BY <1>1, EmptySlot
<1>4. (r.term <=> task[t].term) /\ r.code = task[t].code /\ r.state = task[t].state
  BY <1>1 DEF Tasks
<1>5. task' = [task EXCEPT ![l] = e, ![t] = r]
  BY <1>1 DEF Exchange, IInv, TypeOK
<1> HIDE DEF r, e
<1>6. /\ task'[t] = r /\ task'[l] = e /\ \A u \in Threads \ {t, l} : task'[u] = task[u]
      /\ pc' = [pc EXCEPT ![t] = "image", ![l] = "user"] /\ arg' = [arg EXCEPT ![l] = "code"]
      /\ UNCHANGED exitLog
  BY <1>1, <1>5 DEF Exchange, LoggedAsThread, IInv, TypeOK
<1>7. \A u \in Threads : Live(u)' <=> u = t
  BY <1>1, <1>2, <1>3, <1>4, <1>6 DEF Live
<1>8. /\ pc'[t] = "image" /\ pc'[l] = "user" /\ \A u \in Threads \ {t, l} : pc'[u] = pc[u]
      /\ \A u \in Threads : arg'[u] = "sig" => arg[u] = "sig"
  BY <1>1, <1>6 DEF IInv, TypeOK
<1>9. GroupOK'
  BY <1>1, <1>2, <1>7, <1>8, ZenonT(30) DEF GroupOK, IInv, SlotsOK
<1>10. SignalOK'
  BY <1>1, <1>4, <1>6, <1>7, <1>8, SMT DEF GInv, SignalOK, SignalDeathRecorded
<1> QED BY <1>9, <1>10 DEF GInv

LEMMA SwitchBackGroup ==
  ASSUME IInv, GInv, NEW t \in Threads, SwitchBack(t)
  PROVE  GInv'
<1>1. Live(t) /\ task[t].code \in Codes /\ task[t] \in Tasks
  BY RunningIsLive, FieldTypes DEF SwitchBack, IInv, TypeOK
<1>2. CASE SwitchBackState(t) = "zombie"
  BY <1>1, <1>2, ReapGroup DEF SwitchBack
<1>3. CASE SwitchBackState(t) # "zombie"
  <2> DEFINE s == SwitchBackState(t)
  <2>1. s \in States \ {"unborn", "gone"}
    BY <1>1 DEF SwitchBackState, Settled, States, Tasks, Live
  <2>2. task' = [task EXCEPT ![t].state = s, ![t].on = FALSE] /\ UNCHANGED <<pc, arg, exitLog>>
    BY <1>3, ZenonT(30) DEF SwitchBack, IInv, TypeOK
  <2> HIDE DEF s
  <2>3. GroupQuiet
    BY <1>1, <2>1, <2>2, StatesQuiet
  <2> QED BY <2>3, GroupQuietKeeps
<1> QED BY <1>2, <1>3

LEMMA DeferQuiet ==
  ASSUME IInv, NEW t \in Threads, task[t].on, DeferWait(t)
  PROVE  GroupQuiet
BY RunningIsLive, StatesQuiet DEF DeferWait, States

LEMMA KillStepGroup == ASSUME IInv, GInv, NEW t \in Threads, KillStep(t) PROVE GInv'
<1>1. task[t].on /\ pc[t] \in {"kill", "killExec", "killRest"} /\ arg[t] \in Codes
  BY DEF KillStep, Running, IInv, TypeOK
<1>2. CASE \E u \in Threads : Live(u) /\ KillMember(u, arg[t])
  <2>1. PICK u \in Threads : Live(u) /\ KillMember(u, arg[t])
    BY <1>2
  <2>2. CASE task[u].on
    <3>1. GroupQuiet
      BY <1>1, <2>1, <2>2, ZombiesQuiet DEF KillMember
    <3> QED BY <3>1, GroupQuietKeeps
  <2>3. CASE ~task[u].on
    BY <1>1, <2>1, <2>3, ReapGroup DEF KillMember
  <2> QED BY <2>2, <2>3
<1>3. CASE DeferWait(t)
  BY <1>1, <1>3, DeferQuiet, GroupQuietKeeps
<1>4. CASE AllLoopsDone(t) /\ {u \in Members(t) : pc[t] = "killRest" => ~IsLeader(u)} = {}
  BY <1>1, <1>4, LoopsDoneGroup
<1> QED BY <1>2, <1>3, <1>4 DEF KillStep, Members, Group

LEMMA EndCallsGroup ==
  ASSUME IInv, GInv, NEW t \in Threads, exit_group(t) \/ dethread_current_group(t)
  PROVE  GInv'
<1>1. /\ task[t].on /\ pc[t] \in {"claimExit", "claimExec"}
      /\ UNCHANGED <<klocks, arg, exitLog, chld, closed>>
  BY DEF exit_group, dethread_current_group, Running
<1>2. CASE exit_dying_thread(t)
  BY <1>1, <1>2, EndsQuiet, GroupQuietKeeps
<1>3. CASE \E at \in {"kill", "killExec", "killRest"} :
             claim_group_exit(t, at) /\ (at # "kill" => pc[t] \in ExecPlaces)
  BY <1>1, <1>3, ClaimQuiet, GroupQuietKeeps
<1>4. (IF IsLeader(t) THEN "killExec" ELSE "killRest") \in {"kill", "killExec", "killRest"}
  OBVIOUS
<1> QED BY <1>1, <1>2, <1>3, <1>4 DEF exit_group, dethread_current_group, Running, ExecPlaces

LEMMA TakeOverGroup ==
  ASSUME NoCloneDuringExec, IInv, GInv, NEW t \in Threads, take_over_leader(t)
  PROVE  GInv'
<1>1. task[t].on /\ pc[t] = "takeOver"
  BY DEF take_over_leader, Running
<1>2. CASE Promote(t) /\ UNCHANGED exitLog
  BY <1>1, <1>2, PromoteGroup
<1>3. CASE DeferWait(t)
  BY <1>1, <1>3, DeferQuiet, GroupQuietKeeps
<1>4. CASE \E l \in LeaderOf(t) : AskToPark(l) /\ UNCHANGED <<pc, leaving, arg, exitLog, closed>>
  BY <1>1, <1>4, AskQuiet, GroupQuietKeeps DEF LeaderOf, Found
<1>5. CASE \E l \in LeaderOf(t) : ~Deferring(l) /\ ~task[l].on /\ Exchange(t, l)
  BY <1>1, <1>5, ExchangeGroup
<1> QED BY <1>2, <1>3, <1>4, <1>5 DEF take_over_leader

LEMMA InitGInv == ASSUME Init PROVE GInv
<1>1. Leader \in Threads /\ Leader \notin Unborn
  BY GroupAssumption
<1>2. \A t \in Threads :
        /\ t \in Unborn => task[t].state = "unborn"
        /\ t \notin Unborn => task[t].pid = t /\ task[t].tgid = Leader /\ task[t].code = "code"
  BY <1>1, EmptySlot, FreshTask, SMT DEF Init
<1>3. \A t \in Threads : pc[t] = "user" /\ arg[t] = "code" /\ exitLog[t] = <<>>
  BY DEF Init
<1>4. GroupOK
  BY <1>2, <1>3, SMT DEF GroupOK, Live
<1>5. SignalOK
  BY <1>2, <1>3, SMT DEF SignalOK, SignalDeathRecorded
<1> QED BY <1>4, <1>5 DEF GInv

LEMMA StepGInv == ASSUME NoCloneDuringExec, IInv, GInv, [Next]_vars PROVE GInv'
<1>1. CASE UNCHANGED vars
  <2>1. GroupQuiet
    BY <1>1 DEF vars, GroupQuiet, SamePids
  <2> QED BY <2>1, GroupQuietKeeps
<1>2. ASSUME NEW t \in Threads, KernelStep(t) PROVE GInv'
  BY <1>2, CallsQuiet, ParksQuiet, StopsQuiet, EndsQuiet, GroupQuietKeeps, StampGroup,
     EndCallsGroup, KillStepGroup, TakeOverGroup DEF KernelStep
<1>3. CASE Next
  BY <1>2, <1>3, CallsQuiet, ParksQuiet, StopsQuiet, GroupQuietKeeps, SwitchBackGroup,
     CloneGroup DEF Next
<1> QED BY <1>1, <1>3

LEMMA GroupInductive == ASSUME NoCloneDuringExec PROVE Spec => []GInv
<1>1. Init => GInv
  BY InitGInv
<1>2. IInv /\ GInv /\ [Next]_vars => GInv'
  BY StepGInv
<1> QED BY <1>1, <1>2, Inductive, PTL DEF Spec

(* One thread owns the teardown, and when it leaves its loops, to finish     *)
(* exit_group or to load the new image, it is the only thread of its group.  *)
(* An instance with both clone and execve is excluded: there a clone may     *)
(* survive into the new image (see ExecEndsSiblings).                        *)
THEOREM Teardown == ASSUME NoCloneDuringExec PROVE Spec => []TeardownExclusive
<1>1. IInv /\ GInv => TeardownExclusive
  BY SMT DEF IInv, GInv, GroupOK, TeardownExclusive, AloneAtTheEnd, OneTeardownOwner, Group, KillLoops, SlotsOK
<1> QED BY <1>1, Inductive, GroupInductive, PTL

(* A process logged with a fatal signal's code is logged as killed by it,    *)
(* whichever thread took the signal and whichever was reaped as the leader.  *)
THEOREM SignalDeaths == ASSUME NoCloneDuringExec PROVE Spec => []SignalDeathRecorded
<1>1. GInv => SignalDeathRecorded
  BY DEF GInv, SignalOK
<1> QED BY <1>1, GroupInductive, PTL

----------------------------------------------------------------------------
(* The fd table and the parent's news, for groups that end as a whole:       *)
(* TableOK and ReportOK, with IInv and GInv.                                 *)

Late == {"kill", "finish", "exit", "mark", "notify", "end"}

(* Until the SIGCHLD is sent, somebody is on the way to send it: nobody has  *)
(* claimed the teardown yet, or its owner is not past sending.               *)
ReportOK ==
  /\ Live(Leader) \/ exitLog[Leader] # <<>>
  /\ \A t \in Threads :
       /\ pc[t] = "notify" => ~leaving[t]
       /\ Live(t) /\ task[t].state = "zombie" =>
            pc[t] \in {"notify", "end"} \/ \E u \in Threads \ {t} : pc[u] = "kill"
       /\ Live(Leader) /\ pc[t] \in Late => task[Leader].owner # NoPid
  /\ \/ chld[Leader] > 0
     \/ Live(Leader) /\ task[Leader].owner = NoPid
     \/ \E t \in Threads : \/ pc[t] \in {"kill", "finish"}
                           \/ t = Leader /\ pc[t] \in {"exit", "mark", "notify"}

EInv == TableOK /\ ReportOK

(* Steps before the end of anybody. *)
PcQuiet ==
  \A u \in Threads :
    /\ pc'[u] = pc[u] \/ (pc[u] \notin Late /\ pc'[u] \notin Late)
    /\ pc[u] = "notify" => (leaving'[u] => leaving[u])
EndQuiet ==
  /\ SameIds /\ PcQuiet /\ UNCHANGED <<exitLog, chld, closed>>
  /\ \A u \in Threads : task'[u].state = "zombie" =>
       task[u].state = "zombie" \/ \E v \in Threads \ {u} : pc[v] = "kill"

LEMMA EndQuietKeeps == ASSUME IInv, EInv, EndQuiet PROVE EInv'
<1>1. Leader \in Threads
  BY GroupAssumption
<1>2. \A u \in Threads : (Live(u)' <=> Live(u)) /\ task'[u].owner = task[u].owner
  BY SamePidsKeeps DEF EndQuiet, SameIds
<1>3. \A u \in Threads : /\ pc'[u] \in Late => pc'[u] = pc[u]
                         /\ pc[u] \in Late => pc'[u] = pc[u]
  BY DEF EndQuiet, PcQuiet
<1>4. TableOK'
  BY <1>2, <1>3 DEF EInv, TableOK, EndQuiet, Late
<1>5. \A t \in Threads :
        /\ pc'[t] = "notify" => ~leaving'[t]
        /\ Live(t)' /\ task'[t].state = "zombie" =>
             pc'[t] \in {"notify", "end"} \/ \E u \in Threads \ {t} : pc'[u] = "kill"
        /\ Live(Leader)' /\ pc'[t] \in Late => task'[Leader].owner # NoPid
  <2> TAKE t \in Threads
  <2>1. pc'[t] = "notify" => ~leaving'[t]
    BY <1>3 DEF EInv, ReportOK, EndQuiet, PcQuiet, Late
  <2>2. Live(Leader)' /\ pc'[t] \in Late => task'[Leader].owner # NoPid
    BY <1>1, <1>2, <1>3 DEF EInv, ReportOK
  <2>3. ASSUME Live(t)', task'[t].state = "zombie"
        PROVE  pc'[t] \in {"notify", "end"} \/ \E u \in Threads \ {t} : pc'[u] = "kill"
    BY <1>2, <1>3, <2>3, SMT DEF EInv, ReportOK, EndQuiet, Late
  <2> QED BY <2>1, <2>2, <2>3
<1>6. \/ chld'[Leader] > 0
      \/ Live(Leader)' /\ task'[Leader].owner = NoPid
      \/ \E t \in Threads : \/ pc'[t] \in {"kill", "finish"}
                            \/ t = Leader /\ pc'[t] \in {"exit", "mark", "notify"}
  BY <1>1, <1>2, <1>3 DEF EInv, ReportOK, EndQuiet, Late
<1>7. ReportOK'
  BY <1>1, <1>2, <1>5, <1>6 DEF EInv, ReportOK, EndQuiet
<1> QED BY <1>4, <1>7 DEF EInv

LEMMA TaskEndQuiet ==
  ASSUME IInv, NEW t \in Threads, Live(t), NEW r, task' = [task EXCEPT ![t] = r],
         r.pid = task[t].pid, r.tgid = task[t].tgid, r.owner = task[t].owner,
         r.state \notin {"unborn", "gone"},
         r.state = "zombie" => task[t].state = "zombie" \/ \E v \in Threads \ {t} : pc[v] = "kill",
         UNCHANGED <<exitLog, chld, closed>>, PcQuiet
  PROVE  EndQuiet
<1>1. task'[t] = r /\ \A u \in Threads \ {t} : task'[u] = task[u]
  BY DEF IInv, TypeOK
<1>2. SameIds
  BY <1>1 DEF SameIds, SamePids, Live
<1> QED BY <1>1, <1>2 DEF EndQuiet

LEMMA StateEndQuiet ==
  ASSUME IInv, NEW t \in Threads, Live(t), NEW s \in States \ {"unborn", "gone", "zombie"}, NEW b \in BOOLEAN,
         task' = [task EXCEPT ![t].state = s] \/ task' = [task EXCEPT ![t].state = s, ![t].on = b],
         UNCHANGED <<exitLog, chld, closed>>, PcQuiet
  PROVE  EndQuiet
<1> DEFINE q == [task[t] EXCEPT !.state = s]
           k == [task[t] EXCEPT !.state = s, !.on = b]
<1>1. task[t] \in Tasks
  BY DEF IInv, TypeOK
<1>2. task' = [task EXCEPT ![t] = q] \/ task' = [task EXCEPT ![t] = k]
  BY DEF IInv, TypeOK
<1>3. \A r \in {q, k} :
        r.pid = task[t].pid /\ r.tgid = task[t].tgid /\ r.owner = task[t].owner /\ r.state = s
  BY <1>1 DEF Tasks
<1> HIDE DEF q, k
<1> QED BY <1>2, <1>3, TaskEndQuiet

LEMMA CallsEndQuiet ==
  ASSUME OnlyGroupEnds, IInv, GInv, NEW t \in Threads,
         \/ Enter(t) \/ Lock(t) \/ Unlock(t) \/ Yield(t) \/ Call(t) \/ Fault(t)
         \/ DyingCheck(t) \/ NewImage(t)
  PROVE  EndQuiet
<1>1. UNCHANGED <<task, exitLog, chld, closed>>
  BY DEF Enter, Lock, Unlock, Yield, Call, Fault, DyingCheck, NewImage
<1>2. PcQuiet
  <2>1. CASE Call(t)
    <3>1. PICK at \in {"claimExit", "claimExec", "ret"} : pc' = [pc EXCEPT ![t] = at]
      BY <2>1 DEF Call, Goto, OnlyGroupEnds
    <3> QED BY <2>1, <3>1 DEF Call, Running, PcQuiet, Late, IInv, TypeOK
  <2>2. CASE ~Call(t)
    BY <2>2 DEF Enter, Lock, Unlock, Yield, Fault, DyingCheck, NewImage, Goto, Leave, Running,
                PcQuiet, Late, IInv, TypeOK
  <2> QED BY <2>1, <2>2
<1> QED BY <1>1, <1>2 DEF EndQuiet, SameIds, SamePids

LEMMA ParksEndQuiet ==
  ASSUME IInv, NEW t \in Threads,
         \/ Dispatch(t) \/ Wake(t) \/ Park(t) \/ ParkCancel(t) \/ park_for_group_exit(t)
         \/ Deliver(t)
  PROVE  EndQuiet
<1> USE DEF IInv, TypeOK, Running, States, Goto, Leave, PcQuiet, Late
<1>1. CASE Dispatch(t)
  BY <1>1, StateEndQuiet DEF Dispatch, Live
<1>2. CASE Wake(t)
  BY <1>2, StateEndQuiet DEF Wake, Live
<1>3. CASE Park(t)
  BY <1>3, StateEndQuiet, RunningIsLive DEF Park
<1>4. CASE ParkCancel(t)
  BY <1>4, StateEndQuiet, RunningIsLive DEF ParkCancel
<1>5. CASE park_for_group_exit(t)
  BY <1>5, StateEndQuiet, RunningIsLive DEF park_for_group_exit
<1>6. CASE Deliver(t)
  <2>1. CASE task[t].stop /\ task[t].state # "zombie"
    BY <1>6, <2>1, StateEndQuiet, RunningIsLive DEF Deliver
  <2>2. CASE ~(task[t].stop /\ task[t].state # "zombie")
    BY <1>6, <2>2 DEF Deliver, EndQuiet, SameIds, SamePids
  <2> QED BY <2>1, <2>2
<1> QED BY <1>1, <1>2, <1>3, <1>4, <1>5, <1>6

LEMMA MarksEndQuiet ==
  ASSUME IInv, NEW t \in Threads, do_signal_stop(t) \/ Continue(t) \/ exit_group_signal(t)
  PROVE  EndQuiet
<1>1. \A u \in Threads :
        /\ task'[u].pid = task[u].pid /\ task'[u].tgid = task[u].tgid
        /\ task'[u].owner = task[u].owner
        /\ \/ task'[u].state = task[u].state
           \/ Live(u) /\ task'[u].state \in {"stopped", "ready"}
  <2> TAKE u \in Threads
  <2>1. task[u] \in Tasks
    BY DEF IInv, TypeOK
  <2>2. \/ task'[u] = task[u]
        \/ task'[u] = [task[u] EXCEPT !.term = TRUE]
        \/ Live(u) /\ \E b \in BOOLEAN, s \in {task[u].state, "stopped", "ready"} :
              task'[u] = [task[u] EXCEPT !.stop = b, !.state = s]
    BY DEF do_signal_stop, Continue, exit_group_signal, Group
  <2>3. CASE task'[u] = task[u] \/ task'[u] = [task[u] EXCEPT !.term = TRUE]
    BY <2>1, <2>3 DEF Tasks
  <2>4. ASSUME Live(u), NEW b \in BOOLEAN, NEW s \in {task[u].state, "stopped", "ready"},
               task'[u] = [task[u] EXCEPT !.stop = b, !.state = s]
        PROVE  /\ task'[u].pid = task[u].pid /\ task'[u].tgid = task[u].tgid
               /\ task'[u].owner = task[u].owner
               /\ Live(u) /\ task'[u].state \in {task[u].state, "stopped", "ready"}
    BY <2>1, <2>4 DEF Tasks
  <2> QED BY <2>2, <2>3, <2>4
<1>2. SameIds
  BY <1>1 DEF SameIds, SamePids, Live
<1>3. /\ UNCHANGED <<exitLog, chld, closed>>
      /\ \/ UNCHANGED <<pc, leaving>>
         \/ pc[t] \in {"stop", "stamp"} /\ (leaving' = leaving \/ Leave(t))
            /\ (pc' = [pc EXCEPT ![t] = "deliver"] \/ pc' = [pc EXCEPT ![t] = "claimExit"])
  BY DEF do_signal_stop, Continue, exit_group_signal, Goto, Running
<1>4. PcQuiet
  BY <1>3, ZenonT(30) DEF PcQuiet, Leave, Late, IInv, TypeOK
<1> QED BY <1>1, <1>2, <1>3, <1>4 DEF EndQuiet

LEMMA DeferEndQuiet ==
  ASSUME IInv, NEW t \in Threads, task[t].on, pc[t] = "kill", DeferWait(t), UNCHANGED chld
  PROVE  EndQuiet
<1>1. PcQuiet
  BY DEF DeferWait, Leave, PcQuiet, IInv, TypeOK
<1> QED BY <1>1, RunningIsLive, StateEndQuiet DEF DeferWait, States

(* In a group that ends as a whole, the leader is the thread it began with.  *)
LEMMA OneGroup ==
  ASSUME OnlyGroupEnds, IInv, GInv, NEW t \in Threads
  PROVE  /\ Leader \in Threads /\ pc[t] \notin ExecPlaces
         /\ Live(t) => /\ task[t].pid = t /\ task[t].tgid = Leader
                       /\ (IsLeader(t) <=> t = Leader)
                       /\ LeaderOf(t) = {u \in {Leader} : Live(u)}
<1>1. "exec" \notin Ops /\ Leader \in Threads
  BY GroupAssumption DEF OnlyGroupEnds
<1>2. \A u \in Threads : Live(u) => task[u].pid = u /\ task[u].tgid = Leader
  BY <1>1 DEF GInv, GroupOK
<1>3. pc[t] \notin ExecPlaces
  BY <1>1 DEF GInv, GroupOK, ExecPlaces
<1> QED BY <1>1, <1>2, <1>3 DEF IsLeader, LeaderOf, Found

(* A member is reaped by the owner, the leader last, or by the switch-back.  *)
LEMMA ReapEnd ==
  ASSUME OnlyGroupEnds, IInv, GInv, EInv, NEW u \in Threads, Live(u), NEW code \in Codes,
         Reap(u, code), leaving' = leaving \/ leaving' = [leaving EXCEPT ![u] = FALSE],
         UNCHANGED chld,
         \/ closed' = closed /\ pc[u] \notin {"kill", "finish", "exit", "mark", "notify"}
         \/ /\ closed' = closed \cup {u}
            /\ \E t \in Threads \ {u} :
                 pc[t] = "kill" /\ (u = Leader => \A v \in Threads : Live(v) => v \in {t, u}),
         pc[u] \in Late => chld[Leader] > 0 \/ \E t \in Threads \ {u} : pc[t] = "kill",
         u = Leader => chld[Leader] > 0 \/ task[Leader].owner # NoPid
  PROVE  EInv'
<1>1. /\ Leader \in Threads /\ task[u].pid = u /\ (IsLeader(u) <=> u = Leader)
      /\ \A v \in Threads : Live(v) => task[v].pid = v
  BY OneGroup
<1>2. /\ task' = [task EXCEPT ![u] = Absent(u, "gone")]
      /\ pc' = [pc EXCEPT ![u] = "user"]
      /\ u = Leader => exitLog'[Leader] = Append(exitLog[Leader], [code |-> code, term |-> task[u].term])
      /\ u # Leader => exitLog' = exitLog
      /\ Absent(u, "gone").state = "gone"
  BY <1>1, EmptySlot, SMT DEF Reap, IInv, TypeOK
<1>3. /\ task'[u].state = "gone" /\ pc'[u] = "user"
      /\ \A v \in Threads \ {u} : task'[v] = task[v] /\ pc'[v] = pc[v] /\ leaving'[v] = leaving[v]
  BY <1>2 DEF IInv, TypeOK
<1>4. ~Live(u)' /\ \A v \in Threads \ {u} : Live(v)' <=> Live(v)
  BY <1>3 DEF Live
<1>5. TableOK'
  <2>1. \A t \in Threads : pc'[t] \in {"finish", "exit", "mark", "notify"} =>
          \A v \in Threads : Live(v)' => v = t
    BY <1>3, <1>4 DEF EInv, TableOK
  <2>2. ASSUME Leader \in closed', NEW v \in Threads, Live(v)'
        PROVE  pc'[v] \in Late
    BY <1>3, <1>4, <2>2 DEF EInv, TableOK, Late
  <2> QED BY <2>1, <2>2 DEF TableOK, Late
<1>6. Live(Leader)' \/ exitLog'[Leader] # <<>>
  <2>1. CASE u # Leader
    BY <1>1, <1>2, <1>4, <2>1 DEF EInv, ReportOK
  <2>2. CASE u = Leader
    <3>1. exitLog[Leader] \in Seq(Deaths) /\ [code |-> code, term |-> task[u].term] \in Deaths
      BY <1>1, FieldTypes DEF IInv, TypeOK, Deaths
    <3> QED BY <1>2, <2>2, <3>1, SMT
  <2> QED BY <2>1, <2>2
<1>7. \A t \in Threads :
        /\ pc'[t] = "notify" => ~leaving'[t]
        /\ Live(t)' /\ task'[t].state = "zombie" =>
             pc'[t] \in {"notify", "end"} \/ \E v \in Threads \ {t} : pc'[v] = "kill"
        /\ Live(Leader)' /\ pc'[t] \in Late => task'[Leader].owner # NoPid
  <2> TAKE t \in Threads
  <2>1. pc'[t] = "notify" => ~leaving'[t]
    BY <1>3, ZenonT(30) DEF EInv, ReportOK
  <2>2. Live(Leader)' /\ pc'[t] \in Late => task'[Leader].owner # NoPid
    BY <1>1, <1>3, <1>4 DEF EInv, ReportOK, Late
  <2>3. ASSUME Live(t)', task'[t].state = "zombie"
        PROVE  pc'[t] \in {"notify", "end"} \/ \E v \in Threads \ {t} : pc'[v] = "kill"
    <3>1. t # u /\ Live(t) /\ task[t].state = "zombie" /\ pc'[t] = pc[t]
      BY <1>3, <1>4, <2>3
    <3>2. pc[u] # "kill"
      <4> SUFFICES ASSUME pc[u] = "kill" PROVE FALSE
        OBVIOUS
      <4> QED BY DEF IInv, OneTeardownOwner, KillLoops, EInv, ReportOK, Late
    <3> QED BY <1>3, <3>1, <3>2, SMT DEF EInv, ReportOK
  <2> QED BY <2>1, <2>2, <2>3
<1>8. \/ chld'[Leader] > 0
      \/ Live(Leader)' /\ task'[Leader].owner = NoPid
      \/ \E t \in Threads : \/ pc'[t] \in {"kill", "finish"}
                            \/ t = Leader /\ pc'[t] \in {"exit", "mark", "notify"}
  <2>1. CASE \E t \in Threads \ {u} : pc[t] = "kill"
    BY <1>3, <2>1
  <2>2. CASE pc[u] \notin Late /\ u # Leader
    BY <1>1, <1>3, <1>4, <2>2 DEF EInv, ReportOK, Late
  <2>3. CASE pc[u] \notin Late /\ u = Leader
    BY <1>1, <1>3, <1>4, <2>3 DEF EInv, ReportOK, Late
  <2> QED BY <2>1, <2>2, <2>3
<1>9. ReportOK'
  BY <1>6, <1>7, <1>8 DEF ReportOK
<1> QED BY <1>5, <1>9 DEF EInv

LEMMA SwitchBackEnd ==
  ASSUME OnlyGroupEnds, IInv, GInv, EInv, NEW t \in Threads, SwitchBack(t)
  PROVE  EInv'
<1>1. /\ Live(t) /\ task[t] \in Tasks /\ task[t].code \in Codes /\ Leader \in Threads
      /\ leaving' = [leaving EXCEPT ![t] = FALSE]
  BY RunningIsLive, FieldTypes, GroupAssumption DEF SwitchBack, IInv, TypeOK
<1>2. CASE SwitchBackState(t) = "zombie"
  <2>1. task[t].state = "zombie" /\ Reap(t, task[t].code) /\ UNCHANGED <<chld, closed>>
    BY <1>2 DEF SwitchBackState, Settled, SwitchBack
  <2>2. pc[t] \notin {"notify"}
    BY DEF SwitchBack, Preemptible, KillLoops, EInv, ReportOK
  <2>3. \A u \in Threads : pc[u] # "user" => Live(u)
    BY DEF IInv, SlotsOK
  <2>4. pc[t] \notin {"kill", "finish", "exit", "mark", "notify"}
    BY <1>1, <2>1, <2>2, <2>3 DEF EInv, ReportOK, TableOK, IInv, OneTeardownOwner, KillLoops
  <2>5. pc[t] \in Late => chld[Leader] > 0 \/ \E u \in Threads \ {t} : pc[u] = "kill"
    BY <1>1, <2>4 DEF EInv, ReportOK, TableOK, Late
  <2>6. t = Leader => task[Leader].owner # NoPid
    BY <1>1, <2>1 DEF EInv, ReportOK, Late
  <2> QED BY <1>1, <2>1, <2>4, <2>5, <2>6, ReapEnd
<1>3. CASE SwitchBackState(t) # "zombie"
  <2> DEFINE s == SwitchBackState(t)
  <2>1. s \in States \ {"unborn", "gone", "zombie"}
    BY <1>1, <1>3 DEF SwitchBackState, Settled, States, Tasks, Live
  <2>2. task' = [task EXCEPT ![t].state = s, ![t].on = FALSE] /\ UNCHANGED <<pc, exitLog, chld, closed>>
    BY <1>3, ZenonT(30) DEF SwitchBack, IInv, TypeOK
  <2>3. PcQuiet
    BY <1>1, <2>2 DEF PcQuiet, IInv, TypeOK
  <2> HIDE DEF s
  <2>4. EndQuiet
    BY <1>1, <2>1, <2>2, <2>3, StateEndQuiet
  <2> QED BY <2>4, EndQuietKeeps
<1> QED BY <1>2, <1>3

(* The last thread of the group moves on. *)
LEMMA LastMoves ==
  ASSUME IInv, EInv, NEW t \in Threads, SameIds, \A u \in Threads : Live(u) => u = t,
         \A u \in Threads \ {t} : pc'[u] = pc[u] /\ leaving'[u] = leaving[u],
         exitLog' = exitLog, pc[t] \in Late, pc'[t] \in Late,
         pc'[t] = "notify" => ~leaving'[t],
         task'[t].state = "zombie" => pc'[t] \in {"notify", "end"},
         \/ chld'[Leader] > 0 \/ pc'[t] \in {"kill", "finish"}
         \/ t = Leader /\ pc'[t] \in {"exit", "mark", "notify"}
  PROVE  EInv'
<1>1. Leader \in Threads
  BY GroupAssumption
<1>2. \A u \in Threads : (Live(u)' <=> Live(u)) /\ task'[u].owner = task[u].owner
  BY SamePidsKeeps DEF SameIds
<1>3. \A u \in Threads : pc[u] # "user" => u = t
  BY DEF IInv, SlotsOK
<1>4. TableOK'
  BY <1>2, <1>3 DEF TableOK, Late
<1>5. ReportOK'
  BY <1>1, <1>2, <1>3, ZenonT(30) DEF EInv, ReportOK, Late
<1> QED BY <1>4, <1>5 DEF EInv

LEMMA ExitEnd ==
  ASSUME OnlyGroupEnds, IInv, GInv, EInv, NEW t \in Threads,
         Finish(t) \/ ExitTeardown(t) \/ ExitMark(t) \/ ExitNotify(t)
  PROVE  EInv'
<1>1. /\ task[t].on /\ ~leaving[t] /\ pc[t] \in {"finish", "exit", "mark", "notify"}
      /\ UNCHANGED exitLog
  BY DEF Finish, ExitTeardown, ExitMark, ExitNotify, Running
<1>2. /\ Live(t) /\ (\A u \in Threads : Live(u) => u = t)
      /\ task[t] \in Tasks /\ Leader \in Threads /\ task[t].tgid = Leader /\ task[t].pid = t
      /\ (IsLeader(t) <=> t = Leader) /\ chld \in [Threads -> Nat]
  BY <1>1, RunningIsLive, OneGroup DEF EInv, TableOK, IInv, TypeOK
<1>3. \A u \in Threads : pc[u] # "user" => u = t
  BY <1>2 DEF IInv, SlotsOK
<1>4. \A u \in Threads : /\ task'[u].pid = task[u].pid /\ task'[u].tgid = task[u].tgid
                         /\ task'[u].owner = task[u].owner
                         /\ task'[u].state = task[u].state \/ (u = t /\ task'[u].state = "zombie")
  BY <1>2, SMT DEF Finish, ExitTeardown, ExitMark, ExitNotify, IInv, TypeOK, Tasks
<1>5. SameIds
  BY <1>2, <1>4 DEF SameIds, SamePids, Live
<1>6. task[t].state = "zombie" => pc[t] \in {"notify", "end"}
  BY <1>1, <1>2, <1>3 DEF EInv, ReportOK
<1>7. \A u \in Threads \ {t} : pc'[u] = pc[u] /\ leaving'[u] = leaving[u]
  BY DEF Finish, ExitTeardown, ExitMark, ExitNotify, Goto, Leave, IInv, TypeOK
<1>8. CASE Finish(t)
  <2>1. pc'[t] = "exit" /\ task' = task
    BY <1>8 DEF Finish, Goto, IInv, TypeOK
  <2>2. t # Leader => chld'[Leader] > 0
    BY <1>2, <1>8, SMT DEF Finish, SendsForLeader
  <2> QED BY <1>1, <1>2, <1>5, <1>6, <1>7, <1>8, <2>1, <2>2, LastMoves, ZenonT(30) DEF Finish, Running, Late
<1>9. ASSUME t # Leader, pc[t] # "finish" PROVE chld[Leader] > 0
  <2>1. ~(Live(Leader) /\ task[Leader].owner = NoPid)
    BY <1>2, <1>9
  <2> QED BY <1>1, <1>2, <1>3, <1>9, <2>1 DEF EInv, ReportOK
<1>10. CASE ExitTeardown(t)
  BY <1>1, <1>2, <1>5, <1>6, <1>7, <1>9, <1>10, LastMoves, ZenonT(30) DEF ExitTeardown, Running, Goto, Late, IInv, TypeOK
<1>11. CASE ExitMark(t)
  <2>1. pc'[t] = "notify" /\ leaving' = leaving /\ chld' = chld /\ pc[t] = "mark"
    BY <1>11 DEF ExitMark, Goto, Running, IInv, TypeOK
  <2> QED BY <1>1, <1>2, <1>5, <1>7, <1>9, <2>1, LastMoves DEF Late
<1>12. CASE ExitNotify(t)
  <2>1. pc'[t] = "end" /\ pc[t] = "notify"
    BY <1>12 DEF ExitNotify, Goto, Running, IInv, TypeOK
  <2>2. chld'[Leader] > 0
    BY <1>2, <1>9, <1>12, <2>1, SMT DEF ExitNotify
  <2> QED BY <1>1, <1>2, <1>5, <1>7, <2>1, <2>2, LastMoves DEF Late
<1> QED BY <1>8, <1>10, <1>11, <1>12

LEMMA KillStepEnd ==
  ASSUME OnlyGroupEnds, IInv, GInv, EInv, NEW t \in Threads, KillStep(t)
  PROVE  EInv'
<1>1. /\ task[t].on /\ pc[t] = "kill" /\ UNCHANGED chld /\ arg[t] \in Codes
      /\ Live(t) /\ Leader \in Threads
  BY OneGroup, RunningIsLive DEF KillStep, Running, ExecPlaces, IInv, TypeOK
<1>2. \A u \in Threads : Live(u) => u = t \/ u \in Members(t)
  BY <1>1, OneGroup DEF Members, Group
<1>3. Live(Leader) => task[Leader].owner # NoPid
  BY <1>1 DEF EInv, ReportOK, Late
<1>4. CASE \E u \in Members(t) : LeaderLast(u, Members(t)) /\ KillMember(u, arg[t])
  <2>1. PICK u \in Members(t) : LeaderLast(u, Members(t)) /\ KillMember(u, arg[t])
    BY <1>4
  <2>2. u \in Threads /\ u # t /\ Live(u)
    BY DEF Members, Group
  <2>3. /\ u = Leader => \A v \in Threads : Live(v) => v \in {t, u}
        /\ task[u].pid = u
    BY <1>2, <2>1, <2>2, OneGroup DEF LeaderLast
  <2>4. CASE task[u].on
    <3> DEFINE r == [task[u] EXCEPT !.state = "zombie", !.killed = TRUE, !.code = arg[t]]
    <3>1. task[u] \in Tasks
      BY <2>2 DEF IInv, TypeOK
    <3>2. task' = [task EXCEPT ![u] = r] /\ UNCHANGED <<pc, leaving, exitLog, closed>>
      BY <2>1, <2>2, <2>4 DEF KillMember, IInv, TypeOK
    <3>3. r.pid = task[u].pid /\ r.tgid = task[u].tgid /\ r.owner = task[u].owner /\ r.state = "zombie"
      BY <3>1 DEF Tasks
    <3> HIDE DEF r
    <3>4. PcQuiet
      BY <3>2 DEF PcQuiet
    <3>5. EndQuiet
      BY <1>1, <2>2, <3>2, <3>3, <3>4, TaskEndQuiet
    <3> QED BY <3>5, EndQuietKeeps
  <2>5. CASE ~task[u].on
    <3>1. Reap(u, arg[t]) /\ closed' = closed \cup {u} /\ leaving' = leaving
      BY <2>1, <2>3, <2>5 DEF KillMember
    <3> QED BY <1>1, <1>3, <2>2, <2>3, <3>1, ReapEnd
  <2> QED BY <2>4, <2>5
<1>5. CASE DeferWait(t)
  BY <1>1, <1>5, DeferEndQuiet, EndQuietKeeps
<1>6. CASE AllLoopsDone(t) /\ Members(t) = {}
  <2>1. \A u \in Threads : Live(u) => u = t
    BY <1>2, <1>6
  <2>2. task' = task /\ pc' = [pc EXCEPT ![t] = "finish"] /\ UNCHANGED <<leaving, exitLog>>
    BY <1>1, <1>6 DEF AllLoopsDone, Goto
  <2>3. pc'[t] = "finish" /\ \A u \in Threads \ {t} : pc'[u] = pc[u]
    BY <2>2 DEF IInv, TypeOK
  <2>4. task[t].state # "zombie"
    BY <1>1 DEF EInv, ReportOK, IInv, OneTeardownOwner, KillLoops
  <2>5. SameIds
    BY <2>2 DEF SameIds, SamePids
  <2> QED BY <1>1, <2>1, <2>2, <2>3, <2>4, <2>5, LastMoves DEF Late
<1>7. {u \in Members(t) : pc[t] = "killRest" => ~IsLeader(u)} = Members(t)
  BY <1>1
<1> QED BY <1>4, <1>5, <1>6, <1>7 DEF KillStep

LEMMA ExitGroupEnd ==
  ASSUME OnlyGroupEnds, IInv, GInv, EInv, NEW t \in Threads, exit_group(t), IInv'
  PROVE  EInv'
<1>1. /\ task[t].on /\ pc[t] = "claimExit" /\ UNCHANGED <<klocks, arg, exitLog, chld, closed>>
      /\ Live(t) /\ Leader \in Threads /\ task[t].pid = t
      /\ LeaderOf(t) = {u \in {Leader} : Live(u)} /\ task[t] \in Tasks /\ task \in [Threads -> Tasks]
  BY RunningIsLive, OneGroup DEF exit_group, Running, IInv, TypeOK
<1>2. /\ \A u \in Threads : pc[u] \notin {"finish", "exit", "mark", "notify"}
      /\ Leader \notin closed
  BY <1>1 DEF EInv, TableOK
<1>3. CASE claim_group_exit(t, "kill")
  <2>1. PICK l \in Claimable(t) : task' = [task EXCEPT ![l].owner = task[t].pid, ![t].stop = FALSE]
    BY <1>3 DEF claim_group_exit
  <2>2. l = Leader /\ Live(Leader)
    BY <1>1 DEF Claimable
  <2>3. /\ pc' = [pc EXCEPT ![t] = "kill"] /\ leaving' = leaving
    BY <1>3 DEF claim_group_exit, Goto
  <2>4. pc'[t] = "kill" /\ \A u \in Threads \ {t} : pc'[u] = pc[u] /\ pc[u] # "kill"
    BY <1>1, <2>3 DEF IInv, TypeOK, OneTeardownOwner, KillLoops
  <2>5. \A u \in Threads : task'[u].state = task[u].state
    BY <1>1, <2>1, <2>2 DEF Tasks
  <2>6. task'[Leader].owner = t
    BY <1>1, <2>1, <2>2 DEF Tasks
  <2>7. \A u \in Threads : Live(u)' <=> Live(u)
    BY <2>5 DEF Live
  <2>8. TableOK'
    BY <1>1, <1>2, <2>4 DEF TableOK
  <2>9. \A u \in Threads : Live(u)' /\ task'[u].state = "zombie" => u # t
    BY <1>1, <2>4, <2>5, <2>7, ZenonT(30) DEF EInv, ReportOK
  <2>10. ReportOK'
    BY <1>1, <1>2, <2>3, <2>4, <2>5, <2>6, <2>7, <2>9, GroupAssumption, SMT DEF EInv, ReportOK
  <2> QED BY <2>8, <2>10 DEF EInv
<1>4. CASE exit_dying_thread(t)
  <2>1. pc' = [pc EXCEPT ![t] = "end"] /\ leaving' = [leaving EXCEPT ![t] = TRUE]
    BY <1>4 DEF exit_dying_thread, Goto, Leave
  <2>2. pc'[t] = "end" /\ \A u \in Threads \ {t} : pc'[u] = pc[u] /\ leaving'[u] = leaving[u]
    BY <2>1 DEF IInv, TypeOK
  <2>3. Live(Leader) => task[Leader].owner # NoPid
    BY <1>1, <1>4 DEF exit_dying_thread, Claimable
  <2>4. /\ task'[t].state = "zombie" /\ \A u \in Threads : task'[u].owner = task[u].owner
        /\ \A u \in Threads \ {t} : task'[u].state = task[u].state
    BY <1>1, <1>4 DEF exit_dying_thread, Tasks
  <2>5. \A u \in Threads : Live(u)' <=> Live(u)
    BY <1>1, <2>4 DEF Live
  <2>6. TableOK'
    BY <1>1, <1>2, <2>2 DEF TableOK
  <2>7. ReportOK'
    BY <1>1, <1>2, <2>2, <2>3, <2>4, <2>5, SMT DEF EInv, ReportOK, Late
  <2> QED BY <2>6, <2>7 DEF EInv
<1> QED BY <1>3, <1>4 DEF exit_group

LEMMA CloneEnd ==
  ASSUME OnlyGroupEnds, IInv, GInv, EInv, NEW t \in Threads, clone_thread(t)
  PROVE  EInv'
<1>1. PICK u \in Unborn : task[u].state = "unborn" /\ task' = [task EXCEPT ![u] = NewTask(u, task[t].tgid)]
  BY DEF clone_thread
<1> DEFINE n == NewTask(u, task[t].tgid)
<1>2. /\ Live(t) /\ pc[t] = "sys" /\ u \in Threads /\ ~Live(u) /\ task[t].tgid \in Threads
      /\ u # Leader /\ Leader \in Threads
  BY <1>1, RunningIsLive, FieldTypes, GroupAssumption DEF clone_thread, Running, Live, IInv
<1>3. n.state = "ready"
  BY <1>2, FreshTask, SMT
<1> HIDE DEF n
<1>4. task'[u] = n /\ (\A v \in Threads \ {u} : task'[v] = task[v])
      /\ UNCHANGED <<pc, leaving, exitLog, chld, closed>>
  BY <1>1, <1>2 DEF clone_thread, IInv, TypeOK, n
<1>5. \A v \in Threads \ {u} : Live(v)' <=> Live(v)
  BY <1>4 DEF Live
<1>6. TableOK'
  BY <1>2, <1>4 DEF EInv, TableOK
<1>7. ReportOK'
  BY <1>2, <1>3, <1>4, <1>5, ZenonT(30) DEF EInv, ReportOK
<1> QED BY <1>6, <1>7 DEF EInv

LEMMA InitEInv == ASSUME Init PROVE EInv
<1>1. Leader \in Threads /\ Leader \notin Unborn /\ NewTask(Leader, Leader).state = "ready"
      /\ NewTask(Leader, Leader).owner = NoPid
  BY GroupAssumption, FreshTask, SMT
<1>2. task[Leader] = NewTask(Leader, Leader)
  BY <1>1 DEF Init
<1>3. Live(Leader) /\ task[Leader].owner = NoPid
  BY <1>1, <1>2 DEF Live
<1>4. \A t \in Threads : pc[t] = "user" /\ (Live(t) => task[t].state = "ready")
  BY <1>1, EmptySlot, FreshTask, SMT DEF Init, Live
<1>5. TableOK
  BY <1>4 DEF Init, TableOK
<1>6. ReportOK
  BY <1>3, <1>4 DEF ReportOK, Late
<1> QED BY <1>5, <1>6 DEF EInv

LEMMA StepEInv ==
  ASSUME OnlyGroupEnds, IInv, IInv', GInv, EInv, [Next]_vars
  PROVE  EInv'
<1>1. CASE UNCHANGED vars
  <2>1. EndQuiet
    BY <1>1 DEF vars, EndQuiet, PcQuiet, SameIds, SamePids
  <2> QED BY <2>1, EndQuietKeeps
<1>2. ASSUME NEW t \in Threads PROVE ~dethread_current_group(t) /\ ~take_over_leader(t)
  BY OneGroup DEF dethread_current_group, take_over_leader, Running, ExecPlaces
<1>3. ASSUME NEW t \in Threads, KernelStep(t) PROVE EInv'
  BY <1>2, <1>3, CallsEndQuiet, ParksEndQuiet, MarksEndQuiet, EndQuietKeeps, ExitGroupEnd,
     KillStepEnd, ExitEnd, ZenonT(30) DEF KernelStep
<1>4. CASE Next
  BY <1>3, <1>4, CallsEndQuiet, ParksEndQuiet, MarksEndQuiet, EndQuietKeeps, SwitchBackEnd,
     ExitEnd, CloneEnd, ZenonT(30) DEF Next
<1> QED BY <1>1, <1>4

LEMMA EndInductive == ASSUME OnlyGroupEnds PROVE Spec => [](GInv /\ EInv)
<1>1. Init => EInv
  BY InitEInv
<1>2. IInv /\ IInv' /\ GInv /\ EInv /\ [Next]_vars => EInv'
  BY StepEInv
<1>3. Spec => []GInv
  BY GroupInductive DEF OnlyGroupEnds, NoCloneDuringExec
<1> QED BY <1>1, <1>2, <1>3, Inductive, PTL DEF Spec

(* While any thread of the process can still reach a call that uses the fd   *)
(* table, run_exit_teardown has not released it: the kill loop takes the     *)
(* leader, whose pid names the table, last.                                  *)
THEOREM TableSafety == ASSUME OnlyGroupEnds PROVE Spec => []TableOutlivesUsers
<1>1. IInv /\ GInv /\ EInv => TableOutlivesUsers
  BY OneGroup DEF EInv, TableOK, TableOutlivesUsers
<1> QED BY <1>1, Inductive, EndInductive, PTL

(* A group that ends as a whole leaves its parent one exit record and a      *)
(* SIGCHLD, with the signal in the record if one ended it, whoever owned the *)
(* teardown and in whatever order its members were reaped.                   *)
THEOREM DeathReport == ASSUME OnlyGroupEnds PROVE Spec => []DeathReportedOnce
<1>1. IInv /\ GInv /\ EInv => DeathReported
  <2> SUFFICES ASSUME IInv, EInv, \A t \in Threads : ~Live(t)
               PROVE  \E p \in Threads : exitLog[p] # <<>> /\ chld[p] > 0
    BY DEF DeathReported
  <2>1. Leader \in Threads
    BY GroupAssumption
  <2>2. \A t \in Threads : pc[t] = "user"
    BY DEF IInv, SlotsOK
  <2> QED BY <2>1, <2>2 DEF EInv, ReportOK
<1>2. Spec => []SignalDeathRecorded
  BY SignalDeaths DEF OnlyGroupEnds, NoCloneDuringExec
<1>3. OneDeathPerPid /\ SignalDeathRecorded /\ DeathReported => DeathReportedOnce
  BY DEF DeathReportedOnce
<1> QED BY <1>1, <1>2, <1>3, Inductive, EndInductive, OneDeath, PTL

============================================================================
