------------------------------ MODULE PidTable ------------------------------
(***************************************************************************)
(* The open-addressed pid tables of the scheduler: PID_TGID                  *)
(* (sched/src/lib.rs), written under RUN_QUEUE and read without any lock, and *)
(* RunQueue::pid_index (sched/src/runqueue.rs), the same algorithm wholly     *)
(* under the lock.  Linear probing; removal closes its hole by backward       *)
(* shift, one store at a time, while readers probe.                          *)
(***************************************************************************)
EXTENDS Naturals, FiniteSets

CONSTANTS
  N,         \* PID_TGID_SLOTS
  Pids,      \* pids that tasks may have
  Readers,   \* callers of tgid_of
  MaxTasks   \* tasks alive at a time

(* Four slots to each task the run queue can hold; pid 0 is never allocated.   *)
ASSUME PidAssumption ==
  /\ N \in Nat /\ MaxTasks \in Nat /\ MaxTasks < N
  /\ Pids \subseteq Nat \ {0} /\ IsFiniteSet(Pids)

VARIABLES
  table,    \* PID_TGID: <<pid, tgid>> or Vacant
  tgid,     \* the authority: tgid of each live task, 0 for no task
  writer,   \* the holder of RUN_QUEUE inside pid_tgid_remove
  reader,   \* each tgid_of
  valid     \* history: what each running tgid_of may answer

pidVars == <<table, tgid, writer, reader, valid>>

Places == 0..(N - 1)
Vacant == <<0, 0>>
IdleWriter == [at |-> "idle", pid |-> 0, hole |-> 0, j |-> 0]
IdleReader == [at |-> "idle", pid |-> 0, i |-> 0]

LivePids == {p \in Pids : tgid[p] # 0}
Home(p) == p % N
Probe(p, i) == (Home(p) + i) % N
Gap(a, b) == (a + N - b) % N             \* a.wrapping_sub(b) & MASK

PidInit ==
  /\ table = [s \in Places |-> Vacant]
  /\ tgid = [p \in Pids |-> 0]
  /\ writer = IdleWriter
  /\ reader = [r \in Readers |-> IdleReader]
  /\ valid = [r \in Readers |-> {}]

(* The probe distance at which a search for p stops: at p or at a free slot.  *)
Stop(p) == CHOOSE i \in 0..(N - 1) :
             /\ table[Probe(p, i)] = Vacant \/ table[Probe(p, i)][1] = p
             /\ \A k \in 0..(i - 1) : table[Probe(p, k)] # Vacant /\ table[Probe(p, k)][1] # p

(* The answers a lookup of p may give once p has tgid g, 0 for none.          *)
Answer(p, g) == IF g = 0 THEN p ELSE g
Allow(p, g) ==
  valid' = [r \in Readers |-> IF reader[r].at # "idle" /\ reader[r].pid = p
                              THEN valid[r] \cup {Answer(p, g)} ELSE valid[r]]

(* pid_tgid_insert, from enqueue (a new task) and from take_over_leader (a    *)
(* thread promoted in place).  Its only store is the last step of its search. *)
Published(p, g) == <<p, g>>
SetTgid(p, g) ==
  /\ table' = [table EXCEPT ![Probe(p, Stop(p))] = Published(p, g)]
  /\ tgid' = [tgid EXCEPT ![p] = g]
  /\ Allow(p, g)
  /\ UNCHANGED <<writer, reader>>
Enqueue(p, g) ==
  /\ writer.at = "idle" /\ p \notin LivePids /\ Cardinality(LivePids) < MaxTasks
  /\ g = p \/ \E q \in LivePids : g = tgid[q]
  /\ SetTgid(p, g)
PromotePid(p) ==
  /\ writer.at = "idle" /\ p \in LivePids /\ tgid[p] \notin LivePids
  /\ SetTgid(p, p)

(* RunQueue::remove: pid_tgid_remove finds the hole and shifts.  The task is   *)
(* gone for the others when the lock is released, after the last store.       *)
Remove(p) ==
  /\ writer.at = "idle" /\ p \in LivePids
  /\ LET h == Probe(p, Stop(p)) IN writer' = [at |-> "shift", pid |-> p, hole |-> h, j |-> h]
  /\ UNCHANGED <<table, tgid, reader, valid>>

ShiftAlways(e, j, hole) == TRUE
MayShift(e, j, hole) == Gap(j, Home(e[1])) >= Gap(j, hole)
Shift ==
  LET j == (writer.j + 1) % N
      e == table[j] IN
  /\ writer.at = "shift"
  /\ IF e = Vacant
     THEN /\ table' = [table EXCEPT ![writer.hole] = Vacant]
          /\ tgid' = [tgid EXCEPT ![writer.pid] = 0]
          /\ Allow(writer.pid, 0)
          /\ writer' = IdleWriter
     ELSE /\ IF MayShift(e, j, writer.hole)
             THEN /\ table' = [table EXCEPT ![writer.hole] = e]
                  /\ writer' = [writer EXCEPT !.hole = j, !.j = j]
             ELSE writer' = [writer EXCEPT !.j = j] /\ UNCHANGED table
          /\ UNCHANGED <<tgid, valid>>
  /\ UNCHANGED reader

-----------------------------------------------------------------------------
(* tgid_of: probe without a lock; on a miss ask the run queue, under its lock. *)
Look(r, p) ==
  /\ reader[r].at = "idle"
  /\ reader' = [reader EXCEPT ![r] = [at |-> "probe", pid |-> p, i |-> 0]]
  /\ valid' = [valid EXCEPT ![r] = {Answer(p, tgid[p])}]
  /\ UNCHANGED <<table, tgid, writer>>

GetProbe(r) ==
  LET q == reader[r]
      e == table[Probe(q.pid, q.i)] IN
  /\ q.at = "probe"
  /\ reader' = [reader EXCEPT ![r] =
                  IF e[1] = q.pid THEN [q EXCEPT !.at = "done", !.i = e[2]]
                  ELSE IF e = Vacant \/ q.i = N - 1 THEN [q EXCEPT !.at = "missed"]
                  ELSE [q EXCEPT !.i = q.i + 1]]
  /\ UNCHANGED <<table, tgid, writer, valid>>

AskRunQueue(p) == Answer(p, tgid[p])
FallBack(r) ==
  /\ reader[r].at = "missed" /\ writer.at = "idle"
  /\ reader' = [reader EXCEPT ![r].at = "done", ![r].i = AskRunQueue(reader[r].pid)]
  /\ UNCHANGED <<table, tgid, writer, valid>>

Done(r) ==
  /\ reader[r].at = "done"
  /\ reader' = [reader EXCEPT ![r] = IdleReader]
  /\ valid' = [valid EXCEPT ![r] = {}]
  /\ UNCHANGED <<table, tgid, writer>>

PidNext ==
  \/ \E p \in Pids : PromotePid(p) \/ Remove(p) \/ \E g \in Pids : Enqueue(p, g)
  \/ Shift
  \/ \E r \in Readers : GetProbe(r) \/ FallBack(r) \/ Done(r) \/ \E p \in Pids : Look(r, p)

PidSpec == PidInit /\ [][PidNext]_pidVars

-----------------------------------------------------------------------------
(* Type invariant. *)
PidTypeOK ==
  /\ table \in [Places -> {Vacant} \cup (Pids \X Pids)]
  /\ tgid \in [Pids -> Pids \cup {0}]
  /\ writer \in [at : {"idle", "shift"}, pid : Pids \cup {0}, hole : Places, j : Places]
  /\ reader \in [Readers -> [at : {"idle", "probe", "missed", "done"}, pid : Pids \cup {0}, i : Nat]]
  /\ valid \in [Readers -> SUBSET Pids]

(* With no writer inside, the table is exactly the live tasks: each is reached *)
(* by its own probe sequence and no dead pid is left, so a probe that ends at  *)
(* a free slot is a definite miss (index_remove, pid_tgid_remove).            *)
TableExact ==
  writer.at = "idle" =>
    /\ \A p \in LivePids : table[Probe(p, Stop(p))] = <<p, tgid[p]>>
    /\ Cardinality({s \in Places : table[s] # Vacant}) = Cardinality(LivePids)

(* tgid_of answers what was true at some instant of the call, although its     *)
(* probes race the stores of a backward shift: a miss is never taken for an    *)
(* answer and a pid is never paired with a tgid it does not have.             *)
AnswerWasTrue == \A r \in Readers : reader[r].at = "done" => reader[r].i \in valid[r]

(* Every live task, and no other, is found by its own probes, and a lock-free  *)
(* tgid_of answers what was true during the call.                             *)
PidLookupExact == TableExact /\ AnswerWasTrue

=============================================================================
