----------------------------- MODULE GroupExit -----------------------------
(***************************************************************************)
(* The end of a thread group (sched/src/lib.rs, signal.rs): exit, exit_group *)
(* and fatal signals, the group kill and its deferral of lock holders, the   *)
(* de-thread of execve with its pid exchange, the stop of a group, and the   *)
(* dispatch loop's switch-back, which parks and reaps.                       *)
(*                                                                          *)
(* One step is one RUN_QUEUE hold, or the code between two of them.  Syscalls *)
(* run with interrupts masked, so a thread leaves its CPU only where the code *)
(* yields (`leaving`), in user mode, or in the irq_window of a kill loop.     *)
(* Every thread can have a CPU of its own.                                    *)
(***************************************************************************)
EXTENDS Naturals, Sequences, FiniteSets

CONSTANTS
  Threads,   \* Task slots; a task's first pid is its slot's name
  Leader,    \* the slot of the thread the process started with
  Unborn,    \* the slots clone_thread may fill
  Ops,       \* what user code and the outside do in this instance
  NoPid

ASSUME GroupAssumption ==
  /\ Unborn \subseteq Threads /\ Leader \in Threads \ Unborn
  /\ NoPid \notin Threads

VARIABLES
  task,      \* the fields of Task that decide the group's end
  klocks,    \* ksync::klocks_held: sleeping locks held or queued for
  pc,        \* where in the kernel each thread is
  leaving,   \* the thread has called yield_now
  arg,       \* the exit code the thread called exit or exit_group with
  exitLog,   \* process exit records by pid: what wait4 can report
  chld,      \* SIGCHLDs sent to the parent by pid of the dead process
  closed     \* pids whose fd table run_exit_teardown has released

vars == <<task, klocks, pc, leaving, arg, exitLog, chld, closed>>

KillLoops == {"kill", "killExec", "killRest", "takeOver"}
Preemptible == {"user"} \cup KillLoops

NewTask(p, g) ==
  [pid |-> p, tgid |-> g, state |-> "ready", on |-> FALSE, killed |-> FALSE,
   stop |-> FALSE, owner |-> NoPid, term |-> FALSE, code |-> "code"]
Absent(p, why) == [NewTask(p, p) EXCEPT !.state = why]

Init ==
  /\ task = [t \in Threads |-> IF t \in Unborn THEN Absent(t, "unborn") ELSE NewTask(t, Leader)]
  /\ klocks = [t \in Threads |-> 0]
  /\ pc = [t \in Threads |-> "user"]
  /\ leaving = [t \in Threads |-> FALSE]
  /\ arg = [t \in Threads |-> "code"]
  /\ exitLog = [p \in Threads |-> <<>>]
  /\ chld = [p \in Threads |-> 0]
  /\ closed = {}

Live(t) == task[t].state \notin {"unborn", "gone"}
Found(p) == {t \in Threads : Live(t) /\ task[t].pid = p}
Group(t) == {u \in Threads : Live(u) /\ task[u].tgid = task[t].tgid}
LeaderOf(t) == Found(task[t].tgid)
IsLeader(t) == task[t].pid = task[t].tgid
Running(t, at) == task[t].on /\ ~leaving[t] /\ pc[t] = at
Goto(t, at) == pc' = [pc EXCEPT ![t] = at]
Leave(t) == leaving' = [leaving EXCEPT ![t] = TRUE]

----------------------------------------------------------------------------
(* The dispatch loop.                                                        *)

Dispatch(t) ==
  /\ task[t].state = "ready" /\ ~task[t].on
  /\ task' = [task EXCEPT ![t].state = "running", ![t].on = TRUE]
  /\ UNCHANGED <<klocks, pc, leaving, arg, exitLog, chld, closed>>

(* log_exit and RunQueue::remove, always in one hold.                        *)
Reap(t, code) ==
  /\ task' = [task EXCEPT ![t] = Absent(t, "gone")]
  /\ pc' = [pc EXCEPT ![t] = "user"]
  /\ arg' = [arg EXCEPT ![t] = "code"]
  /\ exitLog' = IF IsLeader(t)
                THEN [exitLog EXCEPT ![task[t].pid] =
                        Append(@, [code |-> code, term |-> task[t].term])]
                ELSE exitLog

Settled(t) == IF task[t].state = "running" THEN "ready" ELSE task[t].state

ParksStopped(t) ==
  task[t].stop /\ klocks[t] = 0 /\ Settled(t) \in {"ready", "blocked"}
ReapsLocker(t) == FALSE
SparesLocker(t) == task[t].killed /\ klocks[t] # 0

SwitchBackState(t) ==
  IF ParksStopped(t) THEN "stopped"
  ELSE IF Settled(t) = "zombie" /\ SparesLocker(t) THEN "ready" ELSE Settled(t)

SwitchBack(t) ==
  /\ task[t].on /\ (leaving[t] \/ pc[t] \in Preemptible)
  /\ IF SwitchBackState(t) = "zombie"
     THEN Reap(t, task[t].code)
     ELSE /\ task' = [task EXCEPT ![t].on = FALSE, ![t].state = SwitchBackState(t)]
          /\ UNCHANGED <<pc, arg, exitLog>>
  /\ leaving' = [leaving EXCEPT ![t] = FALSE]
  /\ UNCHANGED <<klocks, chld, closed>>

(* A channel wake or the deadline tick.  A thread in park_for_group_exit     *)
(* sleeps a full second: without "tick" it is reaped within that second (the *)
(* owner's rounds are at most 1 ms apart).                                   *)
Wake(t) ==
  /\ task[t].state = "blocked" /\ (pc[t] = "dead" => "tick" \in Ops)
  /\ task' = [task EXCEPT ![t].state = "ready"]
  /\ UNCHANGED <<klocks, pc, leaving, arg, exitLog, chld, closed>>

----------------------------------------------------------------------------
(* System calls: what a thread does in the kernel besides ending.            *)

Enter(t) ==
  /\ Running(t, "user") /\ Goto(t, "sys")
  /\ UNCHANGED <<task, klocks, leaving, arg, exitLog, chld, closed>>

Lock(t) ==
  /\ "lock" \in Ops /\ (Running(t, "sys") \/ Running(t, "exit")) /\ klocks[t] = 0
  /\ klocks' = [klocks EXCEPT ![t] = 1]
  /\ UNCHANGED <<task, pc, leaving, arg, exitLog, chld, closed>>

Unlock(t) ==
  /\ (Running(t, "sys") \/ Running(t, "exit")) /\ klocks[t] # 0
  /\ klocks' = [klocks EXCEPT ![t] = 0]
  /\ UNCHANGED <<task, pc, leaving, arg, exitLog, chld, closed>>

(* block_on_port_prepare, then commit; prepare overwrites a Zombie mark.     *)
Park(t) ==
  /\ Running(t, "sys") \/ Running(t, "exit")
  /\ task' = [task EXCEPT ![t].state = "blocked"]
  /\ Leave(t)
  /\ UNCHANGED <<klocks, pc, arg, exitLog, chld, closed>>

(* prepare, then block_on_port_cancel.                                       *)
ParkCancel(t) ==
  /\ (Running(t, "sys") \/ Running(t, "exit")) /\ task[t].state # "running"
  /\ task' = [task EXCEPT ![t].state = "running"]
  /\ UNCHANGED <<klocks, pc, leaving, arg, exitLog, chld, closed>>

(* yield_now or irq_window inside a call, locks held or not.                 *)
Yield(t) ==
  /\ Running(t, "sys") \/ Running(t, "exit")
  /\ Leave(t)
  /\ UNCHANGED <<task, klocks, pc, arg, exitLog, chld, closed>>

clone_thread(t) ==
  /\ Running(t, "sys") /\ klocks[t] = 0
  /\ \E u \in Unborn :
       /\ task[u].state = "unborn"
       /\ task' = [task EXCEPT ![u] = NewTask(u, task[t].tgid)]
  /\ UNCHANGED <<klocks, pc, leaving, arg, exitLog, chld, closed>>

(* The system calls this module is about.                                    *)
Call(t) ==
  /\ Running(t, "sys") /\ klocks[t] = 0
  /\ \E call \in {"exit", "exit_group", "exec", "return"} :
       /\ call = "return" \/ call \in Ops
       /\ Goto(t, CASE call = "exit" -> "exit" [] call = "exit_group" -> "claimExit"
                    [] call = "exec" -> "claimExec" [] call = "return" -> "ret")
  /\ UNCHANGED <<task, klocks, leaving, arg, exitLog, chld, closed>>

(* An unresolvable user fault goes straight to exit_group_signal.            *)
Fault(t) ==
  /\ "fatal" \in Ops /\ Running(t, "user") /\ Goto(t, "stamp")
  /\ UNCHANGED <<task, klocks, leaving, arg, exitLog, chld, closed>>

----------------------------------------------------------------------------
(* deliver_pending_signals, on the way back to user space.                   *)

GroupDying(t) == \E l \in LeaderOf(t) : task[l].owner \notin {NoPid, task[t].pid}

DyingCheck(t) ==
  /\ Running(t, "ret")
  /\ Goto(t, IF GroupDying(t) THEN "dead" ELSE "deliver")
  /\ UNCHANGED <<task, klocks, leaving, arg, exitLog, chld, closed>>

(* park_for_group_exit.                                                      *)
park_for_group_exit(t) ==
  /\ Running(t, "dead")
  /\ task' = [task EXCEPT ![t].state = "blocked"]
  /\ Leave(t)
  /\ UNCHANGED <<klocks, pc, arg, exitLog, chld, closed>>

(* One round of the delivery loop: park for a sibling's stop, take a fatal   *)
(* or a stopping signal, or find nothing and return.                         *)
Deliver(t) ==
  /\ Running(t, "deliver")
  /\ IF task[t].stop /\ task[t].state # "zombie"
     THEN /\ task' = [task EXCEPT ![t].state = "stopped"]
          /\ Leave(t) /\ UNCHANGED pc
     ELSE /\ \/ Goto(t, "user")
             \/ "fatal" \in Ops /\ Goto(t, "stamp")
             \/ "stop" \in Ops /\ Goto(t, "stop")
          /\ UNCHANGED <<task, leaving>>
  /\ UNCHANGED <<klocks, arg, exitLog, chld, closed>>

do_signal_stop(t) ==
  LET members == {u \in Group(t) : task[u].state # "zombie"}
      parks(u) == u = t \/ (~task[u].on /\ task[u].state \in {"ready", "blocked"}) IN
  /\ Running(t, "stop")
  /\ task' = [u \in Threads |->
                IF u \notin members THEN task[u]
                ELSE [task[u] EXCEPT !.stop = TRUE,
                                     !.state = IF parks(u) THEN "stopped" ELSE @]]
  /\ Leave(t) /\ Goto(t, "deliver")
  /\ UNCHANGED <<klocks, arg, exitLog, chld, closed>>

(* on_signal_generated for SIGCONT or SIGKILL, sent by anybody.              *)
Continue(t) ==
  /\ "cont" \in Ops /\ Live(t) /\ \E u \in Group(t) : task[u].stop
  /\ task' = [u \in Threads |->
                IF u \notin Group(t) THEN task[u]
                ELSE [task[u] EXCEPT !.stop = FALSE,
                                     !.state = IF @ = "stopped" THEN "ready" ELSE @]]
  /\ UNCHANGED <<klocks, pc, leaving, arg, exitLog, chld, closed>>

----------------------------------------------------------------------------
(* exit_group and execve.                                                    *)

(* exit_group_signal stamps every member before it claims.                   *)
Stamped(t) == Group(t)

exit_group_signal(t) ==
  /\ Running(t, "stamp")
  /\ task' = [u \in Threads |-> IF u \in Stamped(t) THEN [task[u] EXCEPT !.term = TRUE]
                                ELSE task[u]]
  /\ arg' = [arg EXCEPT ![t] = "sig"]
  /\ Goto(t, "claimExit")
  /\ UNCHANGED <<klocks, leaving, exitLog, chld, closed>>

(* claim_group_exit.  A leader that is gone leaves nobody to claim from.     *)
AnyLeader(t) == LeaderOf(t)
Claimable(t) == {l \in LeaderOf(t) : task[l].owner \in {NoPid, task[t].pid}}

claim_group_exit(t, at) ==
  \E l \in Claimable(t) :
    /\ task' = [task EXCEPT ![l].owner = task[t].pid, ![t].stop = FALSE]
    /\ Goto(t, at) /\ UNCHANGED leaving

exit_dying_thread(t) ==
  /\ Claimable(t) = {}
  /\ task' = [task EXCEPT ![t].state = "zombie",
                          ![t].code = IF task[t].state = "zombie" THEN @ ELSE arg[t]]
  /\ Leave(t) /\ Goto(t, "end")

exit_group(t) ==
  /\ Running(t, "claimExit")
  /\ claim_group_exit(t, "kill") \/ exit_dying_thread(t)
  /\ UNCHANGED <<klocks, arg, exitLog, chld, closed>>

dethread_current_group(t) ==
  /\ Running(t, "claimExec")
  /\ claim_group_exit(t, IF IsLeader(t) THEN "killExec" ELSE "killRest") \/ exit_dying_thread(t)
  /\ UNCHANGED <<klocks, arg, exitLog, chld, closed>>

(* DeferWait::wait: a timed park, then the loop's next round.                *)
DeferWait(t) ==
  /\ task' = [task EXCEPT ![t].state = "blocked"]
  /\ Leave(t)
  /\ UNCHANGED <<pc, arg, exitLog, closed>>

(* Mark one member; reap it and run its teardown if it is on no CPU.         *)
KillMember(u, code) ==
  /\ IF task[u].on
     THEN /\ task' = [task EXCEPT ![u].state = "zombie", ![u].killed = TRUE, ![u].code = code]
          /\ UNCHANGED <<pc, arg, exitLog, closed>>
     ELSE Reap(u, code) /\ closed' = closed \cup {task[u].pid}
  /\ UNCHANGED leaving

AllLoopsDone(t) ==
  /\ task' = IF pc[t] = "killExec" THEN [task EXCEPT ![t].owner = NoPid] ELSE task
  /\ Goto(t, CASE pc[t] = "kill" -> "finish" [] pc[t] = "killExec" -> "image"
               [] pc[t] = "killRest" -> "takeOver")
  /\ UNCHANGED <<leaving, arg, exitLog, closed>>

(* kill_next_group_member_except: which members one round may choose from.   *)
Deferring(u) == klocks[u] # 0
LeaderAnyTime(u, others) == TRUE
LeaderLast(u, others) == IsLeader(u) => others = {u}

MembersAwake(t) == {u \in Group(t) \ {t} : task[u].state # "blocked"}
Members(t) == Group(t) \ {t}

KillStep(t) ==
  LET members == {u \in Members(t) : pc[t] = "killRest" => ~IsLeader(u)}
      targets == {u \in members : ~Deferring(u) /\ LeaderLast(u, members)} IN
  /\ Running(t, "kill") \/ Running(t, "killExec") \/ Running(t, "killRest")
  /\ \/ \E u \in targets : KillMember(u, arg[t])
     \/ targets = {} /\ members # {} /\ DeferWait(t)
     \/ members = {} /\ AllLoopsDone(t)
  /\ UNCHANGED <<klocks, chld>>

(* take_over_leader: promotion in place when the leader is gone, else the    *)
(* exchange of pids once the leader is off its CPU.                          *)
Promote(t) ==
  /\ LeaderOf(t) = {}
  /\ task' = [task EXCEPT ![t].tgid = task[t].pid, ![t].owner = NoPid]
  /\ Goto(t, "image")
  /\ UNCHANGED <<leaving, arg, exitLog, closed>>

AskToPark(l) == task' = [task EXCEPT ![l].stop = TRUE]

(* The old leader retires under the caller's old pid: a thread exit.         *)
LoggedAsProcess(l) ==
  [exitLog EXCEPT ![task[l].pid] = Append(@, [code |-> "code", term |-> FALSE])]
LoggedAsThread(l) == exitLog

Exchange(t, l) ==
  /\ task' = [task EXCEPT ![l] = Absent(l, "gone"),
                          ![t].pid = task[l].pid, ![t].stop = FALSE, ![t].owner = NoPid]
  /\ closed' = closed \cup {task[t].pid}
  /\ pc' = [pc EXCEPT ![t] = "image", ![l] = "user"]
  /\ arg' = [arg EXCEPT ![l] = "code"]
  /\ exitLog' = LoggedAsThread(l)
  /\ UNCHANGED leaving

take_over_leader(t) ==
  /\ Running(t, "takeOver")
  /\ \/ Promote(t) /\ UNCHANGED exitLog
     \/ \E l \in LeaderOf(t) :
          \/ Deferring(l) /\ DeferWait(t)
          \/ ~Deferring(l) /\ task[l].on /\ AskToPark(l) /\ UNCHANGED <<pc, leaving, arg, exitLog, closed>>
          \/ ~Deferring(l) /\ ~task[l].on /\ Exchange(t, l)
  /\ UNCHANGED <<klocks, chld>>

(* The exec goes on to replace_address_space and returns to user space.      *)
NewImage(t) ==
  /\ Running(t, "image") /\ Goto(t, "ret")
  /\ UNCHANGED <<task, klocks, leaving, arg, exitLog, chld, closed>>

(* The owner after its loop: a non-leader does what the leader did not.      *)
NeverForLeader(t) == FALSE
SendsForLeader(t) == ~IsLeader(t)

Finish(t) ==
  /\ Running(t, "finish") /\ Goto(t, "exit")
  /\ closed' = IF IsLeader(t) THEN closed ELSE closed \cup {task[t].tgid}
  /\ chld' = IF SendsForLeader(t) THEN [chld EXCEPT ![task[t].tgid] = @ + 1] ELSE chld
  /\ UNCHANGED <<task, klocks, leaving, arg, exitLog>>

(* exit: teardown (which may sleep), the Zombie mark, SIGCHLD, the last yield.*)
ExitTeardown(t) ==
  /\ Running(t, "exit") /\ klocks[t] = 0 /\ Goto(t, "mark")
  /\ closed' = closed \cup {task[t].pid}
  /\ UNCHANGED <<task, klocks, leaving, arg, exitLog, chld>>

ExitMark(t) ==
  /\ Running(t, "mark") /\ Goto(t, "notify")
  /\ task' = [task EXCEPT ![t].state = "zombie", ![t].code = arg[t]]
  /\ UNCHANGED <<klocks, leaving, arg, exitLog, chld, closed>>

ExitNotify(t) ==
  /\ Running(t, "notify") /\ Goto(t, "end") /\ Leave(t)
  /\ chld' = IF IsLeader(t) THEN [chld EXCEPT ![task[t].pid] = @ + 1] ELSE chld
  /\ UNCHANGED <<task, klocks, arg, exitLog, closed>>

----------------------------------------------------------------------------
KernelStep(t) ==
  \/ DyingCheck(t) \/ park_for_group_exit(t) \/ Deliver(t) \/ do_signal_stop(t)
  \/ exit_group_signal(t) \/ exit_group(t) \/ dethread_current_group(t) \/ KillStep(t)
  \/ take_over_leader(t) \/ NewImage(t) \/ Finish(t) \/ ExitMark(t) \/ ExitNotify(t)

Next ==
  \E t \in Threads :
    \/ Dispatch(t) \/ SwitchBack(t) \/ Wake(t) \/ KernelStep(t) \/ ExitTeardown(t)
    \/ Enter(t) \/ Lock(t) \/ Unlock(t) \/ Park(t) \/ ParkCancel(t) \/ Yield(t) \/ clone_thread(t) \/ Call(t) \/ Fault(t)
    \/ Continue(t)

Spec == Init /\ [][Next]_vars

(* Ready threads are dispatched; sleepers are woken by their timeout or by   *)
(* the holder they wait for; the tick and the kick IPI stay pending while    *)
(* interrupts are masked, so a thread cannot dodge preemption for ever by    *)
(* making system calls that take no lock; kernel code runs to its end:       *)
(* between the windows it opens it is not preempted, and it neither sleeps   *)
(* nor relocks for ever inside one call.                                     *)
Preempt(t) == ~leaving[t] /\ SwitchBack(t)
GivesWay(t) == Preempt(t) \/ Unlock(t)
CallAdvances(t) == KernelStep(t) \/ Call(t) \/ ExitTeardown(t)

Fairness ==
  \A t \in Threads :
    /\ WF_vars(Dispatch(t)) /\ WF_vars(SwitchBack(t)) /\ WF_vars(Wake(t))
    /\ SF_vars(GivesWay(t)) /\ SF_vars(CallAdvances(t))
FairSpec == Spec /\ Fairness

----------------------------------------------------------------------------
(* No thread that holds a sleeping lock, or is queued for one, is ever       *)
(* reaped: neither by the kill loop, nor by its own CPU's switch-back after  *)
(* it took the lock with a Zombie mark already on it, nor by the exchange of *)
(* a non-leader execve.                                                      *)
LockHolderSurvives == \A t \in Threads : klocks[t] # 0 => Live(t)

(* At most one thread of the group runs a kill loop or the take-over,        *)
(* whichever mix of exit_group, fatal signals and execve started them: two   *)
(* loops would wait for each other.                                          *)
OneTeardownOwner ==
  \A t, u \in Threads : pc[t] \in KillLoops /\ pc[u] \in KillLoops => t = u

(* When the owner's loop is over, every other member is gone, not merely     *)
(* asked to go: only then may the address space be dropped (exit_group, also *)
(* with clones born during the loop) or replaced (execve, see                *)
(* ExecEndsSiblings for clones).                                             *)
AloneAtTheEnd ==
  \A t \in Threads : pc[t] \in {"finish", "image"} => Group(t) = {t}
TeardownExclusive == OneTeardownOwner /\ AloneAtTheEnd

(* The process's fd table is released only when no member can still use it:  *)
(* the kill loop reaps the leader last.                                      *)
TableOutlivesUsers ==
  \A t \in Threads :
    Live(t) /\ task[t].tgid \in closed => pc[t] \in {"kill", "finish", "exit", "mark", "notify", "end"}

(* A pid is reported dead to wait4 at most once, and never while a thread    *)
(* still has it: through a pid exchange, the old leader retires without a    *)
(* process record and the heir's later death leaves the only one.            *)
OneDeathPerPid ==
  \A p \in Threads : Len(exitLog[p]) <= IF Found(p) = {} THEN 1 ELSE 0

(* When the last thread is gone the parent has a process exit record to wait *)
(* for and has been sent SIGCHLD for it, whoever ran the teardown.           *)
DeathReported ==
  (\A t \in Threads : ~Live(t)) =>
    \E p \in Threads : exitLog[p] # <<>> /\ chld[p] > 0

(* A process whose teardown was started by a fatal signal is recorded as     *)
(* killed by it: every member was stamped before the first could be logged.  *)
SignalDeathRecorded ==
  \A p \in Threads : \A i \in DOMAIN exitLog[p] :
    exitLog[p][i].code = "sig" => exitLog[p][i].term
DeathReportedOnce == OneDeathPerPid /\ SignalDeathRecorded /\ DeathReported

(* A teardown ends: once an exit_group owns it the whole group is gone, lock *)
(* holders and threads on other CPUs included, and an execve that has begun  *)
(* one gets to the new image.  A stop may hold it up at any point, because   *)
(* do_signal_stop parks the owner too, but once the group is no more stopped *)
(* the teardown goes on to its end.                                          *)
TeardownEnds ==
  <>[](\A u \in Threads : ~(Live(u) /\ task[u].stop)) =>
    \A t \in Threads :
      /\ pc[t] = "kill" ~> \A u \in Threads : ~Live(u)
      /\ pc[t] \in {"killExec", "killRest", "takeOver"} ~> pc[t] = "image"

----------------------------------------------------------------------------
(* What the comments and the documents say, where the code does otherwise.   *)

(* "A stop request from a sibling must not park the owner mid-teardown."     *)
OwnerNotParked == \A t \in Threads : pc[t] \in KillLoops => task[t].state # "stopped"

(* "no `SIGSTOP` is delivered while one is held" (a sleeping lock).          *)
NoStopUnderLock == \A t \in Threads : task[t].state = "stopped" => klocks[t] = 0

(* process_exit_state: "Exited means no thread of the group is still running"*)
Exited(p) ==
  \/ Found(p) = {}
  \/ \A t \in Threads : Live(t) /\ task[t].tgid = p => task[t].state = "zombie"
ExitedMeansGone ==
  Exited(Leader) => \A t \in Threads : Live(t) /\ task[t].tgid = Leader => task[t].state = "zombie"

(* exit_group: "Terminate the *whole* thread group, then the caller".        *)
ExitGroupEndsAll ==
  \A t \in Threads : pc[t] = "claimExit" ~> \A u \in Threads : ~Live(u)

(* exit_group, non-leader owner: "The leader died [...] without ever running *)
(* its own `exit`", so the parent has one SIGCHLD per dead process.          *)
ParentToldOnce == \A p \in Threads : chld[p] <= 1

(* dethread_current_group: "so the process keeps its pid across the exec".   *)
ExecKeepsPid == \A t \in Threads : pc[t] = "image" => task[t].pid = Leader

(* dethread_current_group: "terminate **every other thread** in the calling  *)
(* thread's group, then make the caller the sole surviving thread".          *)
ExecEndsSiblings == \A t \in Threads : pc[t] = "image" => Group(t) = {t}

(* dethread_current_group: "An execve racing a fatal signal on a sibling:    *)
(* the process is dying, so the exec never happens".                         *)
NoExecAfterFatal == \A t \in Threads : pc[t] = "image" => ~task[t].term
============================================================================
