------------------------------ MODULE Dispatch ------------------------------
(***************************************************************************)
(* The dispatch loop of each CPU (scheduler_run_loop, RunQueue::pick_next),   *)
(* the maybe_ready hint it picks from, and the stop-the-world section of a    *)
(* multithreaded fork (quiesce_thread_group), which other CPUs' picks, a       *)
(* second fork and a group exit interleave with.  Which candidate EEVDF        *)
(* prefers is left open here.  RUN_QUEUE sections are atomic.                 *)
(***************************************************************************)
EXTENDS Naturals, FiniteSets

CONSTANTS
  Cpus, Tasks,
  TgidOf,    \* tgid of each task
  Forkers,   \* tasks that call fork
  Killers,   \* tasks that call exit_group
  NoTask

ASSUME DispatchAssumption ==
  /\ NoTask \notin Tasks \cup Cpus
  /\ TgidOf \in [Tasks -> Tasks]

VARIABLES
  state,     \* TaskState of each task, "gone" once its slot is removed
  onCpu,     \* Task::on_cpu
  hint,      \* RunQueue::maybe_ready
  cpu,       \* [cur: the task whose registers are live, at: run, or back in the loop]
  phase,     \* where each task's kernel path is
  quiesce    \* QUIESCE_TGID, QUIESCE_EXCEPT

vars == <<state, onCpu, hint, cpu, phase, quiesce>>

Idle == [cur |-> NoTask, at |-> "loop"]
Released == [tgid |-> NoTask, except |-> NoTask]
Live == {t \in Tasks : state[t] # "gone"}
Siblings(t) == {u \in Live : TgidOf[u] = TgidOf[t]} \ {t}

Init ==
  /\ state = [t \in Tasks |-> "Ready"]
  /\ onCpu = [t \in Tasks |-> NoTask]
  /\ hint = Tasks
  /\ cpu = [c \in Cpus |-> Idle]
  /\ phase = [t \in Tasks |-> "user"]
  /\ quiesce = Released

-----------------------------------------------------------------------------
(* pick_next, and the claim made under the same hold of RUN_QUEUE.            *)
NeverFiltered(t) == FALSE
QuiesceFiltered(t) ==
  quiesce.tgid # NoTask /\ TgidOf[t] = quiesce.tgid /\ t # quiesce.except
ReadyIsEnough(t) == ~QuiesceFiltered(t)
Pickable(t) == onCpu[t] = NoTask /\ ~QuiesceFiltered(t)

(* Once per tick one pick scans every occupied slot and repairs the hint.     *)
Scanned(full) == IF full THEN Live ELSE hint \cap Live
Candidates(full) == {t \in Scanned(full) : state[t] = "Ready" /\ Pickable(t)}
Awake == {t \in Live : state[t] \in {"Ready", "Running"}}
Repaired(full) == (hint \ Scanned(full)) \cup (Scanned(full) \cap Awake)

Pick(c, full, t) ==
  /\ cpu[c].at = "loop" /\ t \in Candidates(full)
  /\ hint' = Repaired(full) \cup {t}
  /\ onCpu' = [onCpu EXCEPT ![t] = c]
  /\ state' = [state EXCEPT ![t] = "Running"]
  /\ cpu' = [cpu EXCEPT ![c] = [cur |-> t, at |-> "run"]]
  /\ UNCHANGED <<phase, quiesce>>
PickNone(c, full) ==
  /\ cpu[c].at = "loop" /\ Candidates(full) = {}
  /\ hint' = Repaired(full)
  /\ UNCHANGED <<state, onCpu, cpu, phase, quiesce>>

(* A tick or IPI in user mode or in an irq_window, or the yield that commits a *)
(* block: the registers are saved.                                           *)
Windows == {"user", "prepared", "cas", "kick", "kill", "dead"}
Yield(c) ==
  /\ cpu[c].at = "run" /\ phase[cpu[c].cur] \in Windows
  /\ cpu' = [cpu EXCEPT ![c] = [cur |-> cpu[c].cur, at |-> "back"]]
  /\ phase' = [phase EXCEPT ![cpu[c].cur] = IF @ = "prepared" THEN "user" ELSE @]
  /\ UNCHANGED <<state, onCpu, hint, quiesce>>

KeepQuiesce(t) == quiesce
ReleaseIfOwner(t) ==
  IF quiesce.tgid = TgidOf[t] /\ quiesce.except = t THEN Released ELSE quiesce
Vacated(t) == hint \ {t}
Reap(t) ==
  /\ state' = [state EXCEPT ![t] = "gone"]
  /\ hint' = Vacated(t)
  /\ quiesce' = ReleaseIfOwner(t)
  /\ phase' = [phase EXCEPT ![t] = "user"]

(* Back in the loop: drop the claim and reap a zombie, under one hold.        *)
SwitchBack(c) ==
  LET t == cpu[c].cur IN
  /\ cpu[c].at = "back"
  /\ cpu' = [cpu EXCEPT ![c] = Idle]
  /\ onCpu' = [onCpu EXCEPT ![t] = NoTask]
  /\ IF state[t] = "Zombie"
     THEN Reap(t)
     ELSE /\ state' = [state EXCEPT ![t] = IF @ = "Running" THEN "Ready" ELSE @]
          /\ hint' = hint \cup {t}
          /\ UNCHANGED <<phase, quiesce>>

-----------------------------------------------------------------------------
(* What the running task does.                                               *)
Runs(t) == \E c \in Cpus : cpu[c] = [cur |-> t, at |-> "run"]
At(t, p) == Runs(t) /\ phase[t] = p
Goto(t, p) == phase' = [phase EXCEPT ![t] = p]

(* block_on_port_prepare: Blocked while its registers are still live, over     *)
(* whatever a killer made of it; then the yield, or block_on_port_cancel.      *)
Block(t) ==
  /\ At(t, "user")
  /\ state' = [state EXCEPT ![t] = "Blocked"]
  /\ hint' = hint \cup {t}
  /\ Goto(t, "prepared")
  /\ UNCHANGED <<onCpu, cpu, quiesce>>
Cancel(t) ==
  /\ At(t, "prepared")
  /\ state' = [state EXCEPT ![t] = "Running"]
  /\ hint' = hint \cup {t}
  /\ Goto(t, "user")
  /\ UNCHANGED <<onCpu, cpu, quiesce>>

(* A wake from another CPU or an interrupt, through get_mut.                  *)
NotTouched(t) == hint
Touched(t) == hint \cup {t}
Wake(t) ==
  /\ state[t] = "Blocked"
  /\ state' = [state EXCEPT ![t] = "Ready"]
  /\ hint' = Touched(t)
  /\ UNCHANGED <<onCpu, cpu, phase, quiesce>>

(* quiesce_thread_group: no sibling, nothing to do; else take the slot.       *)
ForkBegin(t) ==
  /\ At(t, "user") /\ t \in Forkers
  /\ Siblings(t) # {} /\ TgidOf[t] \in Live
  /\ Goto(t, "cas")
  /\ UNCHANGED <<state, onCpu, hint, cpu, quiesce>>
Acquire(t) ==
  /\ At(t, "cas") /\ quiesce.tgid = NoTask
  /\ quiesce' = [quiesce EXCEPT !.tgid = TgidOf[t]]
  /\ Goto(t, "except")
  /\ UNCHANGED <<state, onCpu, hint, cpu>>
StoreExcept(t) ==
  /\ At(t, "except")
  /\ quiesce' = [quiesce EXCEPT !.except = t]
  /\ Goto(t, "kick")
  /\ UNCHANGED <<state, onCpu, hint, cpu>>

(* The kick loop ends when no sibling is on a CPU; the kick itself is a Yield  *)
(* of the sibling's CPU.  clone_as then runs without an interrupt window.     *)
NoneOnCpu(t) == \A u \in Siblings(t) : onCpu[u] = NoTask
CloneBegin(t) ==
  /\ At(t, "kick") /\ NoneOnCpu(t)
  /\ Goto(t, "clone")
  /\ UNCHANGED <<state, onCpu, hint, cpu, quiesce>>
CloneEnd(t) ==
  /\ At(t, "clone")
  /\ Goto(t, "unquiesce")
  /\ UNCHANGED <<state, onCpu, hint, cpu, quiesce>>

(* unquiesce_thread_group, two stores.                                        *)
TgidFirst(t, p) == IF p = "unquiesce" THEN [quiesce EXCEPT !.tgid = NoTask]
                                      ELSE [quiesce EXCEPT !.except = NoTask]
Unstored(t, p) == IF p = "unquiesce" THEN [quiesce EXCEPT !.except = NoTask]
                                     ELSE [quiesce EXCEPT !.tgid = NoTask]
Unquiesce(t) ==
  \E p \in {"unquiesce", "untgid"} :
    /\ At(t, p)
    /\ quiesce' = Unstored(t, p)
    /\ Goto(t, IF p = "unquiesce" THEN "untgid" ELSE "user")
    /\ UNCHANGED <<state, onCpu, hint, cpu>>

(* exit_group: its owner kills one sibling per step, then itself.             *)
KillBegin(t) ==
  /\ At(t, "user") /\ t \in Killers /\ TgidOf[t] \in Live
  /\ \A u \in Siblings(t) : phase[u] \notin {"kill", "dead"}
  /\ Goto(t, "kill")
  /\ UNCHANGED <<state, onCpu, hint, cpu, quiesce>>
KillMember(t, u) ==
  /\ At(t, "kill") /\ u \in Siblings(t)
  /\ u = TgidOf[t] => Siblings(t) = {u}
  /\ IF onCpu[u] # NoTask
     THEN /\ state' = [state EXCEPT ![u] = "Zombie"]
          /\ hint' = hint \cup {u}
          /\ UNCHANGED <<phase, quiesce>>
     ELSE Reap(u)
  /\ UNCHANGED <<onCpu, cpu>>
ExitSelf(t) ==
  /\ At(t, "kill") /\ Siblings(t) = {}
  /\ state' = [state EXCEPT ![t] = "Zombie"]
  /\ hint' = hint \cup {t}
  /\ Goto(t, "dead")
  /\ UNCHANGED <<onCpu, cpu, quiesce>>

Step(t) ==
  \/ Acquire(t) \/ StoreExcept(t) \/ CloneBegin(t) \/ CloneEnd(t) \/ Unquiesce(t)
  \/ ExitSelf(t) \/ \E u \in Tasks : KillMember(t, u)
CpuStep(c) == Yield(c) \/ SwitchBack(c)

Next ==
  \/ \E c \in Cpus : CpuStep(c) \/ \E full \in BOOLEAN : PickNone(c, full) \/ \E t \in Tasks : Pick(c, full, t)
  \/ \E t \in Tasks : Step(t) \/ Block(t) \/ Cancel(t) \/ Wake(t) \/ ForkBegin(t) \/ KillBegin(t)

Spec == Init /\ [][Next]_vars

(* The timer preempts every window (WF), EEVDF dispatches every task that is   *)
(* pickable again and again (SF), and a running kernel path advances unless    *)
(* it is preempted for ever (SF).  Only the tasks that fork or exit need it.   *)
Callers == Forkers \cup Killers
Picked(t) == \E c \in Cpus, full \in BOOLEAN : Pick(c, full, t)
FairSpec ==
  /\ Spec
  /\ \A c \in Cpus : WF_vars(CpuStep(c))
  /\ \A t \in Callers : SF_vars(Step(t)) /\ SF_vars(Picked(t))

-----------------------------------------------------------------------------
(* Type invariant. *)
TypeOK ==
  /\ state \in [Tasks -> {"Ready", "Running", "Blocked", "Zombie", "gone"}]
  /\ onCpu \in [Tasks -> Cpus \cup {NoTask}]
  /\ hint \subseteq Live
  /\ cpu \in [Cpus -> [cur : Tasks \cup {NoTask}, at : {"loop", "run", "back"}]]
  /\ phase \in [Tasks -> Windows \cup {"except", "clone", "unquiesce", "untgid"}]
  /\ quiesce \in [tgid : Tasks \cup {NoTask}, except : Tasks \cup {NoTask}]

(* A task's registers are live on at most one CPU, the one on_cpu names, even  *)
(* when it is woken or killed before its switch-out completes                 *)
(* (scheduler_run_loop: "no other CPU can dispatch the same task").           *)
OneCpuPerTask ==
  \A c \in Cpus : cpu[c].cur # NoTask => onCpu[cpu[c].cur] = c /\ state[cpu[c].cur] # "gone"

(* The hint never hides a runnable task: pick_next needs no full scan to find  *)
(* every Ready task, and min_vruntime sees every Running one.                 *)
HintCovers == Awake \subseteq hint

(* While a thread copies the address space no sibling is on any CPU, so no     *)
(* stale writable TLB entry is used (quiesce_thread_group, clone_as).         *)
CloneAlone == \A t \in Tasks : phase[t] = "clone" => \A u \in Siblings(t) : onCpu[u] = NoTask

(* The quiesce slot names a live task of the group that is on its way to       *)
(* release it, and never hides that task from the scheduler: at any point      *)
(* where the owner can be switched out it is the exception.                   *)
OwnerCanRun ==
  quiesce.tgid # NoTask =>
    \E t \in Live : /\ TgidOf[t] = quiesce.tgid
                    /\ phase[t] \in {"except", "kick", "clone", "unquiesce", "untgid"}
                    /\ phase[t] = "kick" => ~QuiesceFiltered(t)

(* A fork's suspension of its siblings ends, whatever kills its owner: no      *)
(* process is left undispatchable and no later fork spins for ever            *)
(* (release_quiesce_if_owner).                                               *)
QuiesceEnds == (quiesce.tgid # NoTask) ~> (quiesce.tgid = NoTask)

=============================================================================
