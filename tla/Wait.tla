-------------------------------- MODULE Wait --------------------------------
(***************************************************************************)
(* Fork admission, exit, the exit log and wait4: sched/src/lib.rs              *)
(* (ExitLog, log_exit, reparent_children, wait_scan, admit_locked, exit,       *)
(* exit_group) and kernel/src/syscall.rs (sys_wait4).  A child is              *)
(* a zombie in its run-queue slot, then a record of the log, and is handed to  *)
(* one waiter, while its parent's threads fork, wait and exit.  Job-control    *)
(* reports are left out.  RUN_QUEUE sections are atomic.                      *)
(***************************************************************************)
EXTENDS Naturals, FiniteSets

CONSTANTS
  init, Parent,     \* pids of init and of the leader of the parent process
  Workers,          \* other threads of Parent
  NoTask,           \* pid 0
  Kids,             \* pids of processes that may be forked, each once
  MaxProcesses,
  Acts              \* what the environment does: "threadexit", "exitgroup", "ignore"

(* What the constants are: distinct pids, finitely many, and room in the       *)
(* process table for init and the parent.                                    *)
WaitAssumption ==
  /\ init # Parent /\ {init, Parent} \cap (Workers \cup Kids) = {} /\ Workers \cap Kids = {}
  /\ NoTask \notin {init, Parent} \cup Workers \cup Kids
  /\ IsFiniteSet(Workers) /\ IsFiniteSet(Kids)
  /\ MaxProcesses \in Nat /\ MaxProcesses >= 2

Tasks == {init, Parent} \cup Workers \cup Kids
Tgid(t) == IF t \in Workers THEN Parent ELSE t

VARIABLES
  state,      \* unborn, live, zombie (in its slot), gone (slot recycled)
  ppid,       \* the pid of the forking thread
  step,       \* where an exiting task is in exit / exit_group
  reported,   \* Task::wait_reported
  record,     \* unconsumed records of the pool: pid -> parent_tgid, NoTask for none
  ignores,    \* the parent's SIGCHLD is SIG_IGN or has SA_NOCLDWAIT
  wake,       \* poll_class::WAIT tags requested and not yet paid
  call,       \* each thread's wait4: [at, sel]
  handed      \* history: how many waiters got each child, or its parent's discard

waitVars == <<state, ppid, step, reported, record, ignores, wake, call, handed>>

NoCall == [at |-> "idle", sel |-> {}]
Callers == {init, Parent} \cup Workers

WaitInit ==
  /\ state = [t \in Tasks |-> IF t \in Kids THEN "unborn" ELSE "live"]
  /\ ppid = [t \in Tasks |-> IF t = Parent THEN init ELSE IF t \in Workers THEN Parent ELSE NoTask]
  /\ step = [t \in Tasks |-> "run"]
  /\ reported = [t \in Tasks |-> FALSE]
  /\ record = [t \in Tasks |-> NoTask]
  /\ ignores = FALSE
  /\ wake = {}
  /\ call = [t \in Callers |-> NoCall]
  /\ handed = [t \in Tasks |-> 0]

InSlot(t) == state[t] \in {"live", "zombie"}
Leaders == {t \in Tasks : Tgid(t) = t}
Processes == {t \in Leaders : InSlot(t)}
Pool == {t \in Tasks : record[t] # NoTask}

(* rq.find_pid(ppid).map(|p| p.tgid).unwrap_or(ppid) *)
ParentTgid(t) == IF ppid[t] # NoTask /\ InSlot(ppid[t]) THEN Tgid(ppid[t]) ELSE ppid[t]
Alive(t) == state[t] = "live" /\ step[t] = "run"

-----------------------------------------------------------------------------
Admitted == Cardinality(Processes) + Cardinality(Pool) < MaxProcesses
ForkParent(t) == t
Fork(t, c) ==
  /\ Alive(t) /\ t \in Callers /\ call[t].at = "idle"
  /\ state[c] = "unborn" /\ Admitted
  /\ state' = [state EXCEPT ![c] = "live"]
  /\ ppid' = [ppid EXCEPT ![c] = ForkParent(t)]
  /\ UNCHANGED <<step, reported, record, ignores, wake, call, handed>>

(* sigaction of the parent process. *)
SetIgnore ==
  /\ "ignore" \in Acts /\ Alive(Parent)
  /\ ignores' = ~ignores
  /\ UNCHANGED <<state, ppid, step, reported, record, wake, call, handed>>

(* reparent_children: live children and unwaited records go to init.  A hold   *)
(* of RUN_QUEUE moves at most BATCH children, and only the first hands records *)
(* over: the bound is that one hold is enough.                               *)
BATCH == 64
LiveChildren(t) == {c \in Processes \ {t} : ParentTgid(c) = t}
RecordsOf(t) == {c \in Pool : record[c] = t}
NoRecords(t) == {}
HandedOver(t) == RecordsOf(t)
Reparent(t) ==
  /\ Cardinality(LiveChildren(t)) <= BATCH
  /\ ppid' = [c \in Tasks |-> IF c \in LiveChildren(t) THEN init ELSE ppid[c]]
  /\ record' = [c \in Tasks |-> IF c \in HandedOver(t) THEN init ELSE record[c]]
  /\ wake' = wake \cup (IF HandedOver(t) # {} THEN {init} ELSE {})

(* exit: the zombie marking, the hand-over of a leader's children, the reap.   *)
Free(t) == t \in Callers => call[t].at = "idle"
Exit(t) ==
  /\ t # init /\ Alive(t) /\ Free(t)
  /\ t \in Kids \/ (t \in Workers /\ "threadexit" \in Acts)
  /\ state' = [state EXCEPT ![t] = "zombie"]
  /\ step' = [step EXCEPT ![t] = IF Tgid(t) = t THEN "reparent" ELSE "reap"]
  /\ UNCHANGED <<ppid, reported, record, ignores, wake, call, handed>>
ExitReparent(t) ==
  /\ step[t] = "reparent"
  /\ Reparent(t)
  /\ step' = [step EXCEPT ![t] = "reap"]
  /\ UNCHANGED <<state, reported, ignores, call, handed>>

(* log_exit and the removal of the slot, in the scheduler loop or in the       *)
(* group kill, under one hold.                                               *)
Autoreaps(p) == p = Parent /\ InSlot(Parent) /\ ignores
BornConsumed(t) == reported[t] \/ Autoreaps(ParentTgid(t))
RequestNone(t) == wake
RequestWake(t) == wake \cup {ParentTgid(t)}
log_exit(t) ==
  /\ state' = [state EXCEPT ![t] = "gone"]
  /\ record' = [record EXCEPT ![t] =
                  IF Tgid(t) = t /\ ~BornConsumed(t)
                  THEN ParentTgid(t) ELSE NoTask]
  /\ wake' = RequestWake(t)
  /\ handed' = [handed EXCEPT ![t] = IF Tgid(t) = t /\ BornConsumed(t) /\ ~reported[t]
                                     THEN @ + 1 ELSE @]
SwitchOut(t) ==
  /\ step[t] = "reap" /\ state[t] = "zombie"
  /\ log_exit(t)
  /\ step' = [step EXCEPT ![t] = "done"]
  /\ UNCHANGED <<ppid, reported, ignores, call>>

(* exit_group by the parent's leader: reparent, kill every sibling, exit.     *)
ExitGroup ==
  /\ "exitgroup" \in Acts /\ Alive(Parent) /\ Free(Parent)
  /\ Reparent(Parent)
  /\ step' = [step EXCEPT ![Parent] = "kill"]
  /\ UNCHANGED <<state, reported, ignores, call, handed>>
KillSibling(w) ==
  /\ step[Parent] = "kill" /\ w \in Workers /\ InSlot(w)
  /\ log_exit(w)
  /\ step' = [step EXCEPT ![w] = "done"]
  /\ call' = [call EXCEPT ![w] = NoCall]
  /\ UNCHANGED <<ppid, reported, ignores>>
KillDone ==
  /\ step[Parent] = "kill" /\ \A w \in Workers : ~InSlot(w)
  /\ state' = [state EXCEPT ![Parent] = "zombie"]
  /\ step' = [step EXCEPT ![Parent] = "reparent"]
  /\ UNCHANGED <<ppid, reported, record, ignores, wake, call, handed>>

-----------------------------------------------------------------------------
(* wait_scan. *)
Slots(p, sel) == {c \in Processes \cap sel : ParentTgid(c) = p}
ZombiesAgain(p, sel) == {c \in Slots(p, sel) : state[c] = "zombie"}
Zombies(p, sel) == {c \in Slots(p, sel) : state[c] = "zombie" /\ ~reported[c]}
SlotsOnly(p, sel) == {}
Records(p, sel) == {c \in sel \cap Pool : record[c] = p}
Waitable(p, sel) == Zombies(p, sel) # {} \/ Records(p, sel) # {}
LiveChild(p, sel) == \E c \in Slots(p, sel) : state[c] # "zombie"

Selectors == {Tasks} \cup {{c} : c \in Kids}
WaitBegin(t, sel) ==
  /\ Alive(t) /\ call[t].at = "idle"
  /\ call' = [call EXCEPT ![t] = [at |-> "try", sel |-> sel]]
  /\ UNCHANGED <<state, ppid, step, reported, record, ignores, wake, handed>>

Return(t) == call' = [call EXCEPT ![t] = NoCall]
TryReaped(t) ==
  LET p == Tgid(t) sel == call[t].sel IN
  /\ call[t].at = "try"
  /\ IF Zombies(p, sel) # {}
     THEN \E c \in Zombies(p, sel) :
            /\ reported' = [reported EXCEPT ![c] = TRUE]
            /\ handed' = [handed EXCEPT ![c] = @ + 1]
            /\ UNCHANGED record
     ELSE \E c \in Records(p, sel) :
            /\ record' = [record EXCEPT ![c] = NoTask]
            /\ handed' = [handed EXCEPT ![c] = @ + 1]
            /\ UNCHANGED reported
  /\ Return(t)
  /\ UNCHANGED <<state, ppid, step, ignores, wake>>

TryNoChildren(t) ==
  LET p == Tgid(t) sel == call[t].sel IN
  /\ call[t].at = "try" /\ ~Waitable(p, sel) /\ ~LiveChild(p, sel)
  /\ Return(t)
  /\ UNCHANGED <<state, ppid, step, reported, record, ignores, wake, handed>>
(* StillRunning: WNOHANG or a pending signal returns, otherwise the park.     *)
TryStill(t) ==
  LET p == Tgid(t) sel == call[t].sel IN
  /\ call[t].at = "try" /\ ~Waitable(p, sel) /\ LiveChild(p, sel)
  /\ call' = [call EXCEPT ![t].at = "prepared"]
  /\ UNCHANGED <<state, ppid, step, reported, record, ignores, wake, handed>>
Interrupted(t) ==
  LET p == Tgid(t) sel == call[t].sel IN
  /\ call[t].at \in {"try", "parked"}
  /\ call[t].at = "try" => ~Waitable(p, sel) /\ LiveChild(p, sel)
  /\ Return(t)
  /\ UNCHANGED <<state, ppid, step, reported, record, ignores, wake, handed>>

(* The re-check after publishing Blocked: wait_peek, then commit or cancel.   *)
StillRunning(p, sel) == ~Waitable(p, sel) /\ LiveChild(p, sel)
Peek(t) ==
  /\ call[t].at = "prepared"
  /\ call' = [call EXCEPT ![t].at = IF StillRunning(Tgid(t), call[t].sel) THEN "parked" ELSE "try"]
  /\ UNCHANGED <<state, ppid, step, reported, record, ignores, wake, handed>>

(* The next tick pays the requested tags: a thread already published as        *)
(* Blocked, parked or still in its re-check, scans again.                     *)
Tick ==
  /\ wake # {}
  /\ wake' = {}
  /\ call' = [t \in Callers |-> IF Tgid(t) \in wake /\ call[t].at \in {"prepared", "parked"}
                                THEN [call[t] EXCEPT !.at = "try"] ELSE call[t]]
  /\ UNCHANGED <<state, ppid, step, reported, record, ignores, handed>>

WaitStep(t) == TryReaped(t) \/ TryNoChildren(t) \/ TryStill(t) \/ Peek(t)
ExitStep(t) == ExitReparent(t) \/ SwitchOut(t) \/ KillSibling(t) \/ (t = Parent /\ KillDone)

WaitNext ==
  \/ \E t \in Tasks : Exit(t) \/ ExitStep(t) \/ \E c \in Kids : Fork(t, c)
  \/ \E t \in Callers : WaitStep(t) \/ Interrupted(t) \/ \E sel \in Selectors : WaitBegin(t, sel)
  \/ SetIgnore \/ ExitGroup \/ Tick

WaitSpec == WaitInit /\ [][WaitNext]_waitVars

-----------------------------------------------------------------------------
(* Type invariant. *)
TypeOK ==
  /\ state \in [Tasks -> {"unborn", "live", "zombie", "gone"}]
  /\ ppid \in [Tasks -> Tasks \cup {NoTask}]
  /\ step \in [Tasks -> {"run", "kill", "reparent", "reap", "done"}]
  /\ reported \in [Tasks -> BOOLEAN]
  /\ record \in [Tasks -> Tasks \cup {NoTask}]
  /\ ignores \in BOOLEAN
  /\ wake \subseteq Tasks
  /\ call \in [Callers -> [at : {"idle", "try", "prepared", "parked"}, sel : SUBSET Tasks]]
  /\ handed \in [Tasks -> Nat]
  /\ \A t \in Tasks : ppid[t] = NoTask <=> (t = init \/ state[t] = "unborn")

(* No exit is reported twice, whether it is taken from the slot, from the log  *)
(* or discarded at birth (ExitRecord::consumed: "the same child is never       *)
(* reported twice").                                                         *)
ReportedOnce == \A c \in Kids : handed[c] <= 1

(* The pool of unwaited records cannot overflow: live leaders and records      *)
(* together stay within the limit fork checks (zombie_records, admit_locked).  *)
PoolFits == Cardinality(Processes) + Cardinality(Pool) <= MaxProcesses

(* A death is reported once, and its record always has room. *)
EachDeathOnce == ReportedOnce /\ PoolFits

(* Until its process is torn down, a child is always somewhere its parent's    *)
(* wait finds it: wait4 answers                                              *)
(* ECHILD only if every child its process forked, from any of its threads, has *)
(* been reported or discarded ("children forked from any thread of the caller  *)
(* count", wait_scan).                                                       *)
ForkedBy(p) == {c \in Kids : state[c] # "unborn" /\ ppid[c] # NoTask /\ Tgid(ppid[c]) = p}
EchildIsTrue ==
  \A t \in Callers :
    (/\ call[t].at = "try" /\ step[Tgid(t)] = "run"
     /\ ~Waitable(Tgid(t), call[t].sel) /\ ~LiveChild(Tgid(t), call[t].sel))
    => \A c \in ForkedBy(Tgid(t)) \cap call[t].sel : handed[c] = 1

(* Once the parent process is gone, every child it leaves unreported, running  *)
(* or dead, names init (reparent_children).                                   *)
OrphansReachInit ==
  state[Parent] = "gone" =>
    \A c \in Kids : (state[c] # "unborn" /\ handed[c] = 0) =>
      IF InSlot(c) THEN ParentTgid(c) = init ELSE record[c] = init

(* A thread parked in wait4, of a process that is not being torn down, never    *)
(* sleeps on an answer: once its children give                                *)
(* one, a wake for its process is requested, or the exit that will request it   *)
(* is under way, with no help from SIGCHLD or the one-second backstop          *)
(* (log_exit).                                                               *)
NoSleepOnExit ==
  \A t \in Callers :
    call[t].at = "parked" /\ step[Tgid(t)] = "run" /\ ~StillRunning(Tgid(t), call[t].sel) =>
    Tgid(t) \in wake \/ \E c \in call[t].sel : state[c] = "zombie"

=============================================================================
