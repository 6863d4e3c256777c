--------------------------- MODULE RunQueueProofs ---------------------------
(***************************************************************************)
(* Proofs about what RUN_QUEUE guards: the dispatch of tasks to CPUs, for any  *)
(* number of CPUs, tasks and thread groups, and the pid table, for every table *)
(* size, set of pids and number of readers.                                  *)
(*                                                                         *)
(* Dispatch: the safety invariants are not inductive.  That no sibling of a    *)
(* copying thread is dispatched rests on the slot still naming that thread,    *)
(* which rests on there being one owner, which rests on a path outside an      *)
(* interrupt window being on a CPU, so that only an owner in its kick loop can *)
(* be reaped.  IInv says these things.                                       *)
(*                                                                         *)
(* Pid table: a backward shift holds, between two of its stores, one slot too  *)
(* many: the hole, whose contents are a copy or the entry being removed.  PInv *)
(* says which slots count.                                                  *)
(***************************************************************************)
EXTENDS Dispatch, PidTable, FiniteSetTheorems, NaturalsInduction, TLAPS

(* First-order reasoning suffices unless a step names another prover. *)
USE Zenon

-----------------------------------------------------------------------------
(* Dispatch. *)

Holding == {"except", "kick", "clone", "unquiesce", "untgid"}
Named == {"kick", "clone", "unquiesce"}

(* The claim on_cpu and the CPU's own registers agree. *)
Claims ==
  /\ \A c \in Cpus : cpu[c].at = "loop" <=> cpu[c].cur = NoTask
  /\ \A c \in Cpus : cpu[c].cur # NoTask => onCpu[cpu[c].cur] = c /\ state[cpu[c].cur] # "gone"
  /\ \A t \in Tasks : onCpu[t] # NoTask => cpu[onCpu[t]].cur = t

(* A kernel path outside an interrupt window is executing. *)
Windowed ==
  \A t \in Tasks : phase[t] \notin Windows => onCpu[t] # NoTask /\ cpu[onCpu[t]].at = "run"

(* The quiesce slot has one owner, which it names between the two stores. *)
Slot ==
  /\ \A t \in Tasks : state[t] = "gone" => phase[t] = "user"
  /\ \A t \in Tasks : phase[t] \in Holding => quiesce.tgid = TgidOf[t]
  /\ \A t \in Tasks : phase[t] \in Named <=> quiesce.except = t
  /\ \A t, u \in Tasks : phase[t] \in Holding /\ phase[u] \in Holding => t = u
  /\ quiesce.tgid # NoTask => \E t \in Tasks : phase[t] \in Holding

IInv == TypeOK /\ Claims /\ Windowed /\ Slot /\ HintCovers /\ CloneAlone

(* A task that executes holds the claim of the CPU it executes on. *)
LEMMA RunsClaimed ==
  ASSUME Claims, NEW t \in Tasks, Runs(t)
  PROVE  onCpu[t] # NoTask /\ onCpu[t] \in Cpus /\ cpu[onCpu[t]].at = "run"
<1>1. PICK c \in Cpus : cpu[c] = [cur |-> t, at |-> "run"]
  BY DEF Runs
<1>2. cpu[c].cur = t /\ cpu[c].at = "run"
  BY <1>1, SMT
<1> QED
  BY <1>2, DispatchAssumption, ZenonT(30) DEF Claims

(* Removing a task that is not current anywhere keeps the types. *)
LEMMA ReapTyped ==
  ASSUME TypeOK, NEW t \in Tasks, Reap(t)
  PROVE  /\ state' \in [Tasks -> {"Ready", "Running", "Blocked", "Zombie", "gone"}]
         /\ hint' \subseteq Live'
         /\ phase' \in [Tasks -> Windows \cup {"except", "clone", "unquiesce", "untgid"}]
         /\ quiesce' \in [tgid : Tasks \cup {NoTask}, except : Tasks \cup {NoTask}]
<1>1. quiesce' \in [tgid : Tasks \cup {NoTask}, except : Tasks \cup {NoTask}]
  BY DEF TypeOK, Reap, ReleaseIfOwner, Released
<1>2. hint' \subseteq Live'
  BY DEF TypeOK, Reap, Vacated, Live
<1>3. /\ state' \in [Tasks -> {"Ready", "Running", "Blocked", "Zombie", "gone"}]
      /\ phase' \in [Tasks -> Windows \cup {"except", "clone", "unquiesce", "untgid"}]
  BY DEF TypeOK, Reap, Windows
<1> QED
  BY <1>1, <1>2, <1>3

(* A step that leaves the slot alone, and every path on its side of the two     *)
(* boundaries Holding and Named, preserves what Slot says.                     *)
LEMMA SlotKept ==
  ASSUME Slot, quiesce' = quiesce,
         \A t \in Tasks : /\ phase'[t] \in Holding <=> phase[t] \in Holding
                          /\ phase'[t] \in Named <=> phase[t] \in Named
                          /\ state'[t] = "gone" => phase'[t] = "user"
  PROVE  Slot'
<1>1. /\ \A t \in Tasks : state'[t] = "gone" => phase'[t] = "user"
      /\ \A t \in Tasks : phase'[t] \in Holding => quiesce'.tgid = TgidOf[t]
      /\ \A t \in Tasks : phase'[t] \in Named <=> quiesce'.except = t
  BY DEF Slot
<1>2. \A t, u \in Tasks : phase'[t] \in Holding /\ phase'[u] \in Holding => t = u
  BY DEF Slot
<1>3. quiesce'.tgid # NoTask => \E t \in Tasks : phase'[t] \in Holding
  BY DEF Slot
<1> QED
  BY <1>1, <1>2, <1>3 DEF Slot

(* Removing a task that is in an interrupt window preserves Slot: the only       *)
(* window of an owner is its kick loop, and then the slot names it.            *)
LEMMA ReapSlot ==
  ASSUME TypeOK, Slot, NEW u \in Tasks, phase[u] \in Windows, Reap(u)
  PROVE  Slot'
<1> USE DispatchAssumption
<1>1. /\ phase'[u] = "user" /\ state'[u] = "gone"
      /\ \A t \in Tasks \ {u} : phase'[t] = phase[t] /\ state'[t] = state[t]
  BY DEF Reap, TypeOK
<1>2. \A t \in Tasks : state'[t] = "gone" => phase'[t] = "user"
  BY <1>1 DEF Slot
<1>3. CASE phase[u] = "kick"
  <2>1. quiesce.tgid = TgidOf[u] /\ quiesce.except = u
    BY <1>3 DEF Slot, Holding, Named
  <2>2. quiesce' = Released
    BY <2>1 DEF Reap, ReleaseIfOwner
  <2>3. \A t \in Tasks : phase'[t] \notin Holding
    BY <1>1, <1>3 DEF Slot, Holding
  <2>4. \A t \in Tasks : phase'[t] \notin Named
    BY <2>3 DEF Holding, Named
  <2> QED
    BY <1>2, <2>2, <2>3, <2>4 DEF Slot, Released
<1>4. CASE phase[u] # "kick"
  <2>1. phase[u] \notin Holding /\ phase[u] \notin Named
    BY <1>4 DEF Windows, Holding, Named
  <2>2. quiesce.except # u
    BY <2>1 DEF Slot
  <2>3. quiesce' = quiesce
    BY <2>2 DEF Reap, ReleaseIfOwner
  <2>4. \A t \in Tasks : /\ phase'[t] \in Holding <=> phase[t] \in Holding
                         /\ phase'[t] \in Named <=> phase[t] \in Named
    <3>1. phase'[u] \notin Holding /\ phase'[u] \notin Named
      BY <1>1 DEF Holding, Named
    <3> QED
      BY <1>1, <2>1, <3>1
  <2> QED
    BY <1>2, <2>3, <2>4, SlotKept
<1> QED
  BY <1>3, <1>4

(* The boot state satisfies the invariant. *)
LEMMA InitIInv == Init => IInv
<1> SUFFICES ASSUME Init PROVE IInv
  OBVIOUS
<1> USE DispatchAssumption
<1>1. TypeOK
  BY DEF Init, TypeOK, Live, Idle, Released, Windows
<1>2. Claims
  BY DEF Init, Claims, Idle
<1>3. Windowed
  BY DEF Init, Windowed, Windows
<1>4. Slot
  BY DEF Init, Slot, Holding, Named, Released
<1>5. HintCovers /\ CloneAlone
  BY DEF Init, HintCovers, CloneAlone, Awake, Live
<1> QED
  BY <1>1, <1>2, <1>3, <1>4, <1>5 DEF IInv

(* Every step preserves it. *)
LEMMA NextIInv == IInv /\ [Next]_vars => IInv'
<1> SUFFICES ASSUME IInv, [Next]_vars PROVE IInv'
  OBVIOUS
<1> USE DispatchAssumption
<1>0. TypeOK /\ Claims /\ Windowed /\ Slot /\ HintCovers /\ CloneAlone
  BY DEF IInv
<1>1. ASSUME NEW c \in Cpus, Yield(c) PROVE IInv'
  <2>1. TypeOK'
    BY <1>0, <1>1 DEF Yield, TypeOK, Live, Windows
  <2>2. Claims'
    BY <1>0, <1>1, <2>1, SMT DEF Yield, TypeOK, Live, Claims
  <2>3. cpu[c].cur \in Tasks /\ onCpu[cpu[c].cur] = c
    BY <1>0, <1>1 DEF Yield, TypeOK, Claims
  <2>4. Windowed'
    BY <1>0, <1>1, <2>1, <2>3, SMT DEF Yield, TypeOK, Claims, Windowed, Windows
  <2>5. Slot'
    <3>1. \A t \in Tasks : phase'[t] = phase[t] \/ (phase[t] = "prepared" /\ phase'[t] = "user")
      BY <1>0, <1>1, <2>3 DEF Yield, TypeOK
    <3>2. \A t \in Tasks : /\ phase'[t] \in Holding <=> phase[t] \in Holding
                           /\ phase'[t] \in Named <=> phase[t] \in Named
      BY <3>1 DEF Holding, Named
    <3>3. \A t \in Tasks : state'[t] = "gone" => phase'[t] = "user"
      BY <1>0, <1>1, <3>1 DEF Yield, Slot
    <3>4. quiesce' = quiesce /\ Slot
      BY <1>0, <1>1 DEF Yield
    <3> QED
      BY <3>2, <3>3, <3>4, SlotKept
  <2>6. HintCovers'
    BY <1>0, <1>1, <2>1 DEF Yield, TypeOK, HintCovers, Awake, Live
  <2>7. CloneAlone'
    BY <1>0, <1>1, <2>1, SMT DEF Yield, TypeOK, Slot, Named, Holding, CloneAlone, Siblings, Live,
      QuiesceFiltered, Claims
  <2> QED
    BY <2>1, <2>2, <2>4, <2>5, <2>6, <2>7 DEF IInv
<1>2. ASSUME NEW c \in Cpus, SwitchBack(c) PROVE IInv'
  <2>1. TypeOK'
    <3>1. cpu[c].cur \in Tasks
      BY <1>0, <1>2 DEF SwitchBack, TypeOK, Claims
    <3>2. CASE state[cpu[c].cur] = "Zombie"
      BY <1>0, <1>2, <3>1, <3>2, ReapTyped DEF SwitchBack, Idle, TypeOK
    <3>3. CASE state[cpu[c].cur] # "Zombie"
      BY <1>0, <1>2, <3>1, <3>3, SMT DEF SwitchBack, Idle, TypeOK, Live, Claims
    <3> QED
      BY <3>2, <3>3
  <2>2. Claims'
    BY <1>0, <1>2, <2>1, SMT DEF SwitchBack, Idle, Reap, Vacated, ReleaseIfOwner, Released, TypeOK,
      Live, Claims
  <2>3. cpu[c].cur \in Tasks /\ onCpu[cpu[c].cur] = c
    BY <1>0, <1>2 DEF SwitchBack, TypeOK, Claims
  <2>4. Windowed'
    BY <1>0, <1>2, <2>1, <2>3, SMT DEF SwitchBack, Idle, Reap, Vacated, ReleaseIfOwner, Released,
      TypeOK, Claims, Windowed, Windows
  <2>5. Slot'
    <3>1. CASE state[cpu[c].cur] = "Zombie"
      <4>1. phase[cpu[c].cur] \in Windows
        BY <1>0, <1>2, <2>3 DEF SwitchBack, Windowed
      <4> QED
        BY <1>0, <1>2, <2>3, <3>1, <4>1, ReapSlot DEF SwitchBack
    <3>2. CASE state[cpu[c].cur] # "Zombie"
      BY <1>0, <1>2, <2>3, <3>2, SlotKept, SMT DEF SwitchBack, TypeOK, Slot, Claims
    <3> QED
      BY <3>1, <3>2
  <2>6. HintCovers'
    BY <1>0, <1>2, <2>1, SMT DEF SwitchBack, Idle, Reap, Vacated, ReleaseIfOwner, Released, TypeOK,
      HintCovers, Awake, Live
  <2>7. CloneAlone'
    BY <1>0, <1>2, <2>1, SMT DEF SwitchBack, Idle, Reap, Vacated, ReleaseIfOwner, Released, TypeOK,
      Slot, Named, Holding, CloneAlone, Siblings, Live, QuiesceFiltered, Claims
  <2> QED
    BY <2>1, <2>2, <2>4, <2>5, <2>6, <2>7 DEF IInv
<1>3. ASSUME NEW c \in Cpus, NEW full \in BOOLEAN, PickNone(c, full) PROVE IInv'
  <2>1. TypeOK'
    BY <1>0, <1>3 DEF PickNone, Repaired, Scanned, Awake, TypeOK, Live, Windows
  <2>2. Claims'
    BY <1>0, <1>3, <2>1 DEF PickNone, Repaired, Scanned, Awake, TypeOK, Live, Claims
  <2>3. Windowed'
    BY <1>0, <1>3, <2>1 DEF PickNone, Repaired, Scanned, Awake, TypeOK, Claims, Windowed, Windows
  <2>4. Slot'
    BY <1>0, <1>3, <2>1 DEF PickNone, Repaired, Scanned, Awake, TypeOK, Claims, Windowed, Slot,
      Holding, Named, Windows
  <2>5. HintCovers'
    BY <1>0, <1>3, <2>1 DEF PickNone, Repaired, Scanned, Awake, TypeOK, HintCovers, Live
  <2>6. CloneAlone'
    BY <1>0, <1>3, <2>1, SMT DEF PickNone, Repaired, Scanned, Awake, TypeOK, Slot, Named, Holding,
      CloneAlone, Siblings, Live, QuiesceFiltered, Claims
  <2> QED
    BY <2>1, <2>2, <2>3, <2>4, <2>5, <2>6 DEF IInv
<1>4. ASSUME NEW c \in Cpus, NEW full \in BOOLEAN, NEW t \in Tasks, Pick(c, full, t) PROVE IInv'
  <2>1. TypeOK'
    BY <1>0, <1>4 DEF Pick, Candidates, Scanned, Repaired, Awake, Pickable, TypeOK, Live, Windows
  <2>2. Claims'
    BY <1>0, <1>4, <2>1, SMT DEF Pick, Candidates, Scanned, Repaired, Awake, Pickable, TypeOK, Live,
      Claims
  <2>3. onCpu[t] = NoTask
    BY <1>4 DEF Pick, Candidates, Pickable
  <2>4. Windowed'
    BY <1>0, <1>4, <2>1, <2>3, SMT DEF Pick, Candidates, Scanned, Repaired, Awake, Pickable, TypeOK,
      Claims, Windowed, Windows
  <2>5. Slot'
    BY <1>0, <1>4, <2>1, <2>3, SMT DEF Pick, Candidates, Scanned, Repaired, Awake, Pickable, TypeOK,
      Claims, Windowed, Slot, Holding, Named, Windows
  <2>6. HintCovers'
    BY <1>0, <1>4, <2>1 DEF Pick, Candidates, Scanned, Repaired, Awake, Pickable, TypeOK,
      HintCovers, Live
  <2>7. CloneAlone'
    BY <1>0, <1>4, <2>1, SMT DEF Pick, Candidates, Scanned, Repaired, Awake, Pickable, TypeOK, Slot,
      Named, Holding, CloneAlone, Siblings, Live, QuiesceFiltered, Claims
  <2> QED
    BY <2>1, <2>2, <2>4, <2>5, <2>6, <2>7 DEF IInv
<1>5. ASSUME NEW t \in Tasks, Acquire(t) PROVE IInv'
  <2>1. TypeOK'
    BY <1>0, <1>5 DEF Acquire, At, Goto, TypeOK, Live, Windows
  <2>2. Claims'
    BY <1>0, <1>5, <2>1 DEF Acquire, At, Goto, TypeOK, Live, Claims
  <2>3. onCpu[t] # NoTask /\ onCpu[t] \in Cpus /\ cpu[onCpu[t]].at = "run"
    BY <1>0, <1>5, RunsClaimed DEF Acquire, At
  <2>4. Windowed'
    BY <1>0, <1>5, <2>1, <2>3, SMT DEF Acquire, At, Goto, TypeOK, Claims, Windowed, Windows
  <2>5. Slot'
    BY <1>0, <1>5, <2>1, <2>3, SMT DEF Acquire, At, Goto, TypeOK, Claims, Windowed, Slot, Holding,
      Named, Windows
  <2>6. HintCovers'
    BY <1>0, <1>5, <2>1 DEF Acquire, At, Goto, TypeOK, HintCovers, Awake, Live
  <2>7. CloneAlone'
    BY <1>0, <1>5, <2>1, SMT DEF Acquire, At, Goto, TypeOK, Slot, Named, Holding, CloneAlone,
      Siblings, Live, QuiesceFiltered, Claims
  <2> QED
    BY <2>1, <2>2, <2>4, <2>5, <2>6, <2>7 DEF IInv
<1>6. ASSUME NEW t \in Tasks, StoreExcept(t) PROVE IInv'
  <2>1. TypeOK'
    BY <1>0, <1>6 DEF StoreExcept, At, Goto, TypeOK, Live, Windows
  <2>2. Claims'
    BY <1>0, <1>6, <2>1 DEF StoreExcept, At, Goto, TypeOK, Live, Claims
  <2>3. onCpu[t] # NoTask /\ onCpu[t] \in Cpus /\ cpu[onCpu[t]].at = "run"
    BY <1>0, <1>6, RunsClaimed DEF StoreExcept, At
  <2>4. Windowed'
    BY <1>0, <1>6, <2>1, <2>3, SMT DEF StoreExcept, At, Goto, TypeOK, Claims, Windowed, Windows
  <2>5. Slot'
    BY <1>0, <1>6, <2>1, <2>3, SMT DEF StoreExcept, At, Goto, TypeOK, Claims, Windowed, Slot,
      Holding, Named, Windows
  <2>6. HintCovers'
    BY <1>0, <1>6, <2>1 DEF StoreExcept, At, Goto, TypeOK, HintCovers, Awake, Live
  <2>7. CloneAlone'
    BY <1>0, <1>6, <2>1, SMT DEF StoreExcept, At, Goto, TypeOK, Slot, Named, Holding, CloneAlone,
      Siblings, Live, QuiesceFiltered, Claims
  <2> QED
    BY <2>1, <2>2, <2>4, <2>5, <2>6, <2>7 DEF IInv
<1>7. ASSUME NEW t \in Tasks, CloneBegin(t) PROVE IInv'
  <2>1. TypeOK'
    BY <1>0, <1>7 DEF CloneBegin, At, Goto, NoneOnCpu, TypeOK, Live, Windows
  <2>2. Claims'
    BY <1>0, <1>7, <2>1 DEF CloneBegin, At, Goto, NoneOnCpu, TypeOK, Live, Claims
  <2>3. onCpu[t] # NoTask /\ onCpu[t] \in Cpus /\ cpu[onCpu[t]].at = "run"
    BY <1>0, <1>7, RunsClaimed DEF CloneBegin, At
  <2>4. Windowed'
    BY <1>0, <1>7, <2>1, <2>3, SMT DEF CloneBegin, At, Goto, NoneOnCpu, TypeOK, Claims, Windowed, Windows
  <2>5. Slot'
    BY <1>0, <1>7, <2>1, <2>3, SMT DEF CloneBegin, At, Goto, NoneOnCpu, TypeOK, Claims, Windowed,
      Slot, Holding, Named, Windows
  <2>6. HintCovers'
    BY <1>0, <1>7, <2>1 DEF CloneBegin, At, Goto, NoneOnCpu, TypeOK, HintCovers, Awake, Live
  <2>7. CloneAlone'
    BY <1>0, <1>7, <2>1, SMT DEF CloneBegin, At, Goto, NoneOnCpu, TypeOK, Slot, Named, Holding,
      CloneAlone, Siblings, Live, QuiesceFiltered, Claims
  <2> QED
    BY <2>1, <2>2, <2>4, <2>5, <2>6, <2>7 DEF IInv
<1>8. ASSUME NEW t \in Tasks, CloneEnd(t) PROVE IInv'
  <2>1. TypeOK'
    BY <1>0, <1>8 DEF CloneEnd, At, Goto, TypeOK, Live, Windows
  <2>2. Claims'
    BY <1>0, <1>8, <2>1 DEF CloneEnd, At, Goto, TypeOK, Live, Claims
  <2>3. onCpu[t] # NoTask /\ onCpu[t] \in Cpus /\ cpu[onCpu[t]].at = "run"
    BY <1>0, <1>8, RunsClaimed DEF CloneEnd, At
  <2>4. Windowed'
    BY <1>0, <1>8, <2>1, <2>3, SMT DEF CloneEnd, At, Goto, TypeOK, Claims, Windowed, Windows
  <2>5. Slot'
    BY <1>0, <1>8, <2>1, <2>3, SMT DEF CloneEnd, At, Goto, TypeOK, Claims, Windowed, Slot, Holding,
      Named, Windows
  <2>6. HintCovers'
    BY <1>0, <1>8, <2>1 DEF CloneEnd, At, Goto, TypeOK, HintCovers, Awake, Live
  <2>7. CloneAlone'
    BY <1>0, <1>8, <2>1, SMT DEF CloneEnd, At, Goto, TypeOK, Slot, Named, Holding, CloneAlone,
      Siblings, Live, QuiesceFiltered, Claims
  <2> QED
    BY <2>1, <2>2, <2>4, <2>5, <2>6, <2>7 DEF IInv
<1>9. ASSUME NEW t \in Tasks, Unquiesce(t) PROVE IInv'
  <2>1. TypeOK'
    BY <1>0, <1>9, SMT DEF Unquiesce, At, Goto, Unstored, TypeOK, Live, Windows
  <2>2. Claims'
    BY <1>0, <1>9, <2>1, SMT DEF Unquiesce, At, Goto, Unstored, TypeOK, Live, Claims
  <2>3. onCpu[t] # NoTask /\ onCpu[t] \in Cpus /\ cpu[onCpu[t]].at = "run"
    BY <1>0, <1>9, RunsClaimed DEF Unquiesce, At
  <2>4. Windowed'
    BY <1>0, <1>9, <2>1, <2>3, SMT DEF Unquiesce, At, Goto, Unstored, TypeOK, Claims, Windowed, Windows
  <2>5. Slot'
    BY <1>0, <1>9, <2>1, <2>3, SMT DEF Unquiesce, At, Goto, Unstored, TypeOK, Claims, Windowed,
      Slot, Holding, Named, Windows
  <2>6. HintCovers'
    BY <1>0, <1>9, <2>1 DEF Unquiesce, At, Goto, Unstored, TypeOK, HintCovers, Awake, Live
  <2>7. CloneAlone'
    BY <1>0, <1>9, <2>1, SMT DEF Unquiesce, At, Goto, Unstored, TypeOK, Slot, Named, Holding,
      CloneAlone, Siblings, Live, QuiesceFiltered, Claims
  <2> QED
    BY <2>1, <2>2, <2>4, <2>5, <2>6, <2>7 DEF IInv
<1>10. ASSUME NEW t \in Tasks, ExitSelf(t) PROVE IInv'
  <2>1. TypeOK'
    BY <1>0, <1>10, SMT DEF ExitSelf, At, Goto, TypeOK, Live, Windows
  <2>2. Claims'
    BY <1>0, <1>10, <2>1 DEF ExitSelf, At, Goto, TypeOK, Live, Claims
  <2>3. onCpu[t] # NoTask /\ onCpu[t] \in Cpus /\ cpu[onCpu[t]].at = "run"
    BY <1>0, <1>10, RunsClaimed DEF ExitSelf, At
  <2>4. Windowed'
    BY <1>0, <1>10, <2>1, <2>3, SMT DEF ExitSelf, At, Goto, TypeOK, Claims, Windowed, Windows
  <2>5. Slot'
    BY <1>0, <1>10, <2>1, <2>3, SMT DEF ExitSelf, At, Goto, TypeOK, Claims, Windowed, Slot, Holding,
      Named, Windows
  <2>6. HintCovers'
    BY <1>0, <1>10, <2>1 DEF ExitSelf, At, Goto, TypeOK, HintCovers, Awake, Live
  <2>7. CloneAlone'
    BY <1>0, <1>10, <2>1, SMT DEF ExitSelf, At, Goto, TypeOK, Slot, Named, Holding, CloneAlone,
      Siblings, Live, QuiesceFiltered, Claims
  <2> QED
    BY <2>1, <2>2, <2>4, <2>5, <2>6, <2>7 DEF IInv
<1>11. ASSUME NEW t \in Tasks, NEW u \in Tasks, KillMember(t, u) PROVE IInv'
  <2>1. TypeOK'
    <3>1. CASE onCpu[u] # NoTask
      BY <1>0, <1>11, <3>1, SMT DEF KillMember, Siblings, TypeOK, Live
    <3>2. CASE onCpu[u] = NoTask
      BY <1>0, <1>11, <3>2, ReapTyped DEF KillMember, TypeOK
    <3> QED
      BY <3>1, <3>2
  <2>2. Claims'
    BY <1>0, <1>11, <2>1, SMT DEF KillMember, At, Runs, Siblings, Reap, Vacated, ReleaseIfOwner,
      Released, TypeOK, Live, Claims
  <2>3. onCpu[t] # NoTask /\ onCpu[t] \in Cpus /\ cpu[onCpu[t]].at = "run"
    BY <1>0, <1>11, RunsClaimed DEF KillMember, At
  <2>4. Windowed'
    BY <1>0, <1>11, <2>1, <2>3, SMT DEF KillMember, At, Runs, Siblings, Reap, Vacated,
      ReleaseIfOwner, Released, TypeOK, Claims, Windowed, Windows
  <2>5. Slot'
    <3>1. CASE onCpu[u] # NoTask
      BY <1>0, <1>11, <3>1, SlotKept, SMT DEF KillMember, TypeOK, Slot, Siblings, Live
    <3>2. CASE onCpu[u] = NoTask
      BY <1>0, <1>11, <3>2, ReapSlot DEF KillMember, Windowed
    <3> QED
      BY <3>1, <3>2
  <2>6. HintCovers'
    BY <1>0, <1>11, <2>1, SMT DEF KillMember, At, Runs, Siblings, Reap, Vacated, ReleaseIfOwner,
      Released, TypeOK, HintCovers, Awake, Live
  <2>7. CloneAlone'
    BY <1>0, <1>11, <2>1, SMT DEF KillMember, At, Runs, Siblings, Reap, Vacated, ReleaseIfOwner,
      Released, TypeOK, Slot, Named, Holding, CloneAlone, Live, QuiesceFiltered, Claims
  <2> QED
    BY <2>1, <2>2, <2>4, <2>5, <2>6, <2>7 DEF IInv
<1>12. ASSUME NEW t \in Tasks, Block(t) PROVE IInv'
  <2>1. TypeOK'
    BY <1>0, <1>12, SMT DEF Block, At, Goto, TypeOK, Live, Windows
  <2>2. Claims'
    BY <1>0, <1>12, <2>1 DEF Block, At, Goto, TypeOK, Live, Claims
  <2>3. onCpu[t] # NoTask /\ onCpu[t] \in Cpus /\ cpu[onCpu[t]].at = "run"
    BY <1>0, <1>12, RunsClaimed DEF Block, At
  <2>4. Windowed'
    BY <1>0, <1>12, <2>1, <2>3, SMT DEF Block, At, Goto, TypeOK, Claims, Windowed, Windows
  <2>5. Slot'
    BY <1>0, <1>12, SlotKept, SMT DEF Block, At, Goto, TypeOK, Slot, Holding, Named
  <2>6. HintCovers'
    BY <1>0, <1>12, <2>1 DEF Block, At, Goto, TypeOK, HintCovers, Awake, Live
  <2>7. CloneAlone'
    BY <1>0, <1>12, <2>1, SMT DEF Block, At, Goto, TypeOK, Slot, Named, Holding, CloneAlone,
      Siblings, Live, QuiesceFiltered, Claims
  <2> QED
    BY <2>1, <2>2, <2>4, <2>5, <2>6, <2>7 DEF IInv
<1>13. ASSUME NEW t \in Tasks, Cancel(t) PROVE IInv'
  <2>1. TypeOK'
    BY <1>0, <1>13, SMT DEF Cancel, At, Goto, TypeOK, Live, Windows
  <2>2. Claims'
    BY <1>0, <1>13, <2>1 DEF Cancel, At, Goto, TypeOK, Live, Claims
  <2>3. onCpu[t] # NoTask /\ onCpu[t] \in Cpus /\ cpu[onCpu[t]].at = "run"
    BY <1>0, <1>13, RunsClaimed DEF Cancel, At
  <2>4. Windowed'
    BY <1>0, <1>13, <2>1, <2>3, SMT DEF Cancel, At, Goto, TypeOK, Claims, Windowed, Windows
  <2>5. Slot'
    BY <1>0, <1>13, SlotKept, SMT DEF Cancel, At, Goto, TypeOK, Slot, Holding, Named
  <2>6. HintCovers'
    BY <1>0, <1>13, <2>1 DEF Cancel, At, Goto, TypeOK, HintCovers, Awake, Live
  <2>7. CloneAlone'
    BY <1>0, <1>13, <2>1, SMT DEF Cancel, At, Goto, TypeOK, Slot, Named, Holding, CloneAlone,
      Siblings, Live, QuiesceFiltered, Claims
  <2> QED
    BY <2>1, <2>2, <2>4, <2>5, <2>6, <2>7 DEF IInv
<1>14. ASSUME NEW t \in Tasks, Wake(t) PROVE IInv'
  <2>1. TypeOK'
    BY <1>0, <1>14, SMT DEF Wake, Touched, TypeOK, Live, Windows
  <2>2. Claims'
    BY <1>0, <1>14, <2>1 DEF Wake, Touched, TypeOK, Live, Claims
  <2>3. Windowed'
    BY <1>0, <1>14, <2>1 DEF Wake, Touched, TypeOK, Claims, Windowed, Windows
  <2>4. Slot'
    BY <1>0, <1>14, <2>1, SMT DEF Wake, Touched, TypeOK, Claims, Windowed, Slot, Holding, Named, Windows
  <2>5. HintCovers'
    BY <1>0, <1>14, <2>1 DEF Wake, Touched, TypeOK, HintCovers, Awake, Live
  <2>6. CloneAlone'
    BY <1>0, <1>14, <2>1, SMT DEF Wake, Touched, TypeOK, Slot, Named, Holding, CloneAlone, Siblings,
      Live, QuiesceFiltered, Claims
  <2> QED
    BY <2>1, <2>2, <2>3, <2>4, <2>5, <2>6 DEF IInv
<1>15. ASSUME NEW t \in Tasks, ForkBegin(t) PROVE IInv'
  <2>1. TypeOK'
    BY <1>0, <1>15 DEF ForkBegin, At, Goto, TypeOK, Live, Windows
  <2>2. Claims'
    BY <1>0, <1>15, <2>1 DEF ForkBegin, At, Goto, TypeOK, Live, Claims
  <2>3. onCpu[t] # NoTask /\ onCpu[t] \in Cpus /\ cpu[onCpu[t]].at = "run"
    BY <1>0, <1>15, RunsClaimed DEF ForkBegin, At
  <2>4. Windowed'
    BY <1>0, <1>15, <2>1, <2>3, SMT DEF ForkBegin, At, Goto, TypeOK, Claims, Windowed, Windows
  <2>5. Slot'
    <3>1. state[t] # "gone"
      BY <1>0, <2>3, SMT DEF Claims, TypeOK
    <3> QED
      BY <1>0, <1>15, <3>1, SlotKept, SMT DEF ForkBegin, At, Goto, TypeOK, Slot, Holding, Named
  <2>6. HintCovers'
    BY <1>0, <1>15, <2>1 DEF ForkBegin, At, Goto, TypeOK, HintCovers, Awake, Live
  <2>7. CloneAlone'
    BY <1>0, <1>15, <2>1, SMT DEF ForkBegin, At, Goto, TypeOK, Slot, Named, Holding, CloneAlone,
      Siblings, Live, QuiesceFiltered, Claims
  <2> QED
    BY <2>1, <2>2, <2>4, <2>5, <2>6, <2>7 DEF IInv
<1>16. ASSUME NEW t \in Tasks, KillBegin(t) PROVE IInv'
  <2>1. TypeOK'
    BY <1>0, <1>16 DEF KillBegin, At, Goto, TypeOK, Live, Windows
  <2>2. Claims'
    BY <1>0, <1>16, <2>1 DEF KillBegin, At, Goto, TypeOK, Live, Claims
  <2>3. onCpu[t] # NoTask /\ onCpu[t] \in Cpus /\ cpu[onCpu[t]].at = "run"
    BY <1>0, <1>16, RunsClaimed DEF KillBegin, At
  <2>4. Windowed'
    BY <1>0, <1>16, <2>1, <2>3, SMT DEF KillBegin, At, Goto, TypeOK, Claims, Windowed, Windows
  <2>5. Slot'
    <3>1. state[t] # "gone"
      BY <1>0, <2>3, ZenonT(30) DEF Claims, TypeOK
    <3> QED
      BY <1>0, <1>16, <3>1, SlotKept, SMT DEF KillBegin, At, Goto, TypeOK, Slot, Holding, Named
  <2>6. HintCovers'
    BY <1>0, <1>16, <2>1 DEF KillBegin, At, Goto, TypeOK, HintCovers, Awake, Live
  <2>7. CloneAlone'
    BY <1>0, <1>16, <2>1, SMT DEF KillBegin, At, Goto, TypeOK, Slot, Named, Holding, CloneAlone,
      Siblings, Live, QuiesceFiltered, Claims
  <2> QED
    BY <2>1, <2>2, <2>4, <2>5, <2>6, <2>7 DEF IInv
<1>17. CASE UNCHANGED vars
  <2>1. TypeOK' /\ Claims' /\ Windowed'
    BY <1>0, <1>17 DEF vars, TypeOK, Claims, Windowed, Live
  <2>2. Slot'
    BY <1>0, <1>17 DEF vars, Slot
  <2>3. HintCovers' /\ CloneAlone'
    BY <1>0, <1>17 DEF vars, HintCovers, CloneAlone, Live, Awake, Siblings
  <2> QED
    BY <2>1, <2>2, <2>3 DEF IInv
<1> QED
  BY <1>1, <1>2, <1>3, <1>4, <1>5, <1>6, <1>7, <1>8, <1>9, <1>10, <1>11, <1>12, <1>13, <1>14, <1>15, <1>16, <1>17 DEF
    Next, CpuStep, Step

(* The slot's owner is alive and dispatchable, from the invariant. *)
LEMMA IInvOwner == IInv => OwnerCanRun
<1> SUFFICES ASSUME IInv, quiesce.tgid # NoTask
             PROVE  \E t \in Live : /\ TgidOf[t] = quiesce.tgid
                                    /\ phase[t] \in Holding
                                    /\ phase[t] = "kick" => ~QuiesceFiltered(t)
  BY DEF OwnerCanRun, Holding
<1>1. PICK t \in Tasks : phase[t] \in Holding
  BY DEF IInv, Slot
<1>2. t \in Live /\ TgidOf[t] = quiesce.tgid
  BY <1>1 DEF IInv, Slot, Live, Holding
<1>3. phase[t] = "kick" => ~QuiesceFiltered(t)
  BY DEF IInv, Slot, Named, QuiesceFiltered
<1> QED
  BY <1>1, <1>2, <1>3

LEMMA Inductive == Spec => []IInv
<1> QED
  BY InitIInv, NextIInv, PTL DEF Spec

(* For every number of CPUs and tasks: a task's registers are live on at most  *)
(* one CPU, the one that holds its on_cpu claim (scheduler_run_loop).         *)
THEOREM DispatchExclusive == Spec => []OneCpuPerTask
<1>1. IInv => OneCpuPerTask
  BY DEF IInv, Claims, OneCpuPerTask
<1> QED
  BY <1>1, Inductive, PTL

(* For every set of thread groups, forking and exiting in any order: while a   *)
(* thread copies its address space no sibling is on a CPU                     *)
(* (quiesce_thread_group, pick_next).                                        *)
THEOREM CloneExclusive == Spec => []CloneAlone
<1>1. IInv => CloneAlone
  BY DEF IInv
<1> QED
  BY <1>1, Inductive, PTL

(* The quiesce slot never outlives its owner, and never hides the owner from   *)
(* the scheduler (release_quiesce_if_owner, pick_next).                       *)
THEOREM QuiesceOwned == Spec => []OwnerCanRun
<1> QED
  BY IInvOwner, Inductive, PTL

(* maybe_ready covers every task that is Ready or Running (pick_next, get_mut). *)
THEOREM HintComplete == Spec => []HintCovers
<1>1. IInv => HintCovers
  BY DEF IInv
<1> QED
  BY <1>1, Inductive, PTL

-----------------------------------------------------------------------------
(* The pid table. *)

Used(s) == table[s] # Vacant
Shifting == writer.at = "shift"

(* The slots that count: all but the hole of a running removal. *)
Kept(s) == s \in Places /\ Used(s) /\ ~(Shifting /\ s = writer.hole)

(* How far a probe for p has gone when it is at slot s. *)
Dist(p, s) == Gap(s, Home(p))

(* Each slot that counts has a pid of its own; together they have the pids of   *)
(* the live tasks, less the one that is being removed.                        *)
EntriesOK ==
  /\ \A s \in Places : Used(s) => table[s][1] \in LivePids /\ table[s][2] = tgid[table[s][1]]
  /\ \A s, t \in Places : Kept(s) /\ Kept(t) /\ table[s][1] = table[t][1] => s = t
  /\ \A p \in LivePids : ~(Shifting /\ p = writer.pid) => \E s \in Places : Kept(s) /\ table[s][1] = p
  /\ \A s \in Places : Kept(s) /\ Shifting => table[s][1] # writer.pid

(* No gap lies between the home of a pid and its slot. *)
ChainsOK ==
  \A s, t \in Places : Kept(s) /\ Dist(table[s][1], t) < Dist(table[s][1], s) => Used(t)

(* The hole is used, and no slot from the hole to j needs it. *)
ShiftOK ==
  Shifting =>
    /\ Used(writer.hole) /\ writer.pid \in LivePids
    /\ \A s \in Places : /\ Kept(s) /\ Gap(s, writer.hole) <= Gap(writer.j, writer.hole)
                         => Dist(table[s][1], s) < Dist(table[s][1], writer.hole)

ReadersOK ==
  \A r \in Readers : reader[r].at # "idle" =>
    /\ reader[r].pid \in Pids
    /\ Answer(reader[r].pid, tgid[reader[r].pid]) \in valid[r]
    /\ reader[r].at = "done" => reader[r].i \in valid[r]

PInv == PidTypeOK /\ EntriesOK /\ ChainsOK /\ ShiftOK /\ ReadersOK

-----------------------------------------------------------------------------
(* Distances round the table. *)
LEMMA Sizes == N \in Nat /\ N > 0 /\ Pids \subseteq Nat \ {0} /\ 0 \notin Pids /\ 0 \in Places
BY PidAssumption, SMT DEF Places

LEMMA Round ==
  ASSUME NEW a \in Places, NEW b \in Places
  PROVE  /\ Gap(a, b) = IF a >= b THEN a - b ELSE a + N - b
         /\ Gap(a, b) \in Places /\ Gap(a, b) \in Nat
<1> DEFINE n == N
<1>1. n \in Nat /\ n > 0 /\ a \in 0..n - 1 /\ b \in 0..n - 1
  BY Sizes DEF Places
<1> HIDE DEF n
<1>2. \A x \in 0..n - 1 : (x + n) % n = x /\ x % n = x
  BY <1>1, SMT
<1>3. (a + n - b) % n = IF a >= b THEN a - b ELSE a + n - b
  <2>1. CASE a >= b
    <3>1. a - b \in 0..n - 1 /\ a + n - b = (a - b) + n
      BY <1>1, <2>1, SMT
    <3> QED BY <1>2, <2>1, <3>1
  <2>2. CASE a < b
    <3>1. a + n - b \in 0..n - 1
      BY <1>1, <2>2, SMT
    <3> QED BY <1>1, <1>2, <2>2, <3>1, SMT
  <2> QED BY <1>1, <2>1, <2>2, SMT
<1> QED BY <1>1, <1>3, SMT DEF Gap, Places, n

LEMMA SameGap ==
  ASSUME NEW a \in Places, NEW b \in Places, NEW o \in Places, Gap(a, o) = Gap(b, o)
  PROVE  a = b
<1>1. (IF a >= o THEN a - o ELSE a + N - o) = (IF b >= o THEN b - o ELSE b + N - o)
  BY Round, SMT
<1>2. N \in Nat /\ a \in 0..N - 1 /\ b \in 0..N - 1 /\ o \in 0..N - 1
  BY Sizes DEF Places
<1> QED BY <1>1, <1>2, SMT

LEMMA OnlyItself ==
  ASSUME NEW a \in Places, NEW b \in Places, Gap(a, b) <= Gap(b, b)
  PROVE  a = b
<1>1. (IF a >= b THEN a - b ELSE a + N - b) <= (IF b >= b THEN b - b ELSE b + N - b)
  BY Round, ZenonT(30)
<1>2. N \in Nat /\ a \in 0..N - 1 /\ b \in 0..N - 1
  BY Sizes DEF Places
<1> QED BY <1>1, <1>2, SMT

LEMMA FartherThanItself ==
  ASSUME NEW a \in Places, NEW b \in Places, NEW o \in Places, Gap(a, o) < Gap(a, b)
  PROVE  a # b
<1>1. (IF a >= o THEN a - o ELSE a + N - o) < (IF a >= b THEN a - b ELSE a + N - b)
  BY Round
<1>2. N \in Nat /\ a \in 0..N - 1 /\ b \in 0..N - 1 /\ o \in 0..N - 1
  BY Sizes DEF Places
<1> QED BY <1>1, <1>2, SMT

LEMMA NextSlot ==
  ASSUME NEW j \in Places
  PROVE  (j + 1) % N = (IF j + 1 = N THEN 0 ELSE j + 1) /\ (j + 1) % N \in Places
<1>1. N \in Nat /\ N > 0 /\ j \in 0..N - 1
  BY Sizes DEF Places
<1>2. (j + 1) % N = IF j + 1 = N THEN 0 ELSE j + 1
  BY <1>1, SMT
<1> QED BY <1>1, <1>2, SMT DEF Places

LEMMA HomeOK == ASSUME NEW p \in Nat PROVE Home(p) \in Places
BY Sizes, SMT DEF Home, Places

(* The distance of the ith probe is i, and the probe at a slot's distance is    *)
(* that slot.                                                                *)
LEMMA ProbeAt ==
  ASSUME NEW p \in Nat, NEW i \in Places
  PROVE  Probe(p, i) \in Places /\ Dist(p, Probe(p, i)) = i
<1> DEFINE h == Home(p)
<1>1. N \in Nat /\ N > 0 /\ i \in 0..N - 1 /\ h \in 0..N - 1
  BY Sizes, HomeOK DEF Places
<1> HIDE DEF h
<1>2. (h + i) % N = IF h + i < N THEN h + i ELSE h + i - N
  <2>1. \A x \in 0..N - 1 : (x + N) % N = x /\ x % N = x
    BY <1>1, SMT
  <2>2. CASE h + i < N
    BY <1>1, <2>1, <2>2, SMT
  <2>3. CASE h + i >= N
    <3>1. h + i - N \in 0..N - 1 /\ h + i = (h + i - N) + N
      BY <1>1, <2>3, SMT
    <3>2. (h + i - N + N) % N = h + i - N
      BY <2>1, <3>1
    <3> QED BY <1>1, <2>3, <3>1, <3>2, SMT
  <2> QED BY <1>1, <2>2, <2>3, SMT
<1>3. (h + i) % N \in Places
  BY <1>1, <1>2, SMT DEF Places
<1>4. h \in Places
  BY <1>1 DEF Places
<1>5. Gap((h + i) % N, h) = i
  <2>1. Gap((h + i) % N, h) = IF (h + i) % N >= h THEN ((h + i) % N) - h ELSE ((h + i) % N) + N - h
    BY <1>3, <1>4, Round
  <2> QED BY <1>1, <1>2, <2>1, SMT
<1> QED BY <1>3, <1>5 DEF Probe, Dist, h

LEMMA ProbeDist ==
  ASSUME NEW p \in Nat, NEW s \in Places
  PROVE  Dist(p, s) \in Places /\ Probe(p, Dist(p, s)) = s
<1> DEFINE d == Dist(p, s)
<1>1. d \in Places /\ Home(p) \in Places
  BY HomeOK, Round DEF Dist
<1>2. Probe(p, d) \in Places /\ Dist(p, Probe(p, d)) = d
  BY <1>1, ProbeAt
<1>3. ASSUME NEW t \in Places, Dist(p, t) = d PROVE t = s
  <2>1. Gap(t, Home(p)) = Gap(s, Home(p))
    BY <1>3 DEF Dist
  <2> QED BY <1>1, <2>1, SameGap
<1> QED BY <1>1, <1>2, <1>3

(* Of a removal with its hole at h, whose next look is at k: where an entry with *)
(* home o and place s has its chain.                                         *)
LEMMA Rotations ==
  ASSUME NEW h \in Places, NEW j \in Places, NEW s \in Places, NEW o \in Places, NEW k \in Places,
         k = (j + 1) % N, k # h
  PROVE  /\ Gap(k, o) >= Gap(k, h) => Gap(h, o) < Gap(k, o)
         /\ Gap(k, o) < Gap(k, h) => Gap(k, o) < Gap(h, o)
         /\ s # k /\ Gap(s, h) <= Gap(k, h) => Gap(s, h) <= Gap(j, h)
         /\ s # k /\ s # h /\ Gap(s, h) > Gap(j, h) /\ Gap(h, o) < Gap(s, o) => Gap(k, o) < Gap(s, o)
<1>1. N \in Nat /\ h \in 0..N - 1 /\ j \in 0..N - 1 /\ s \in 0..N - 1 /\ o \in 0..N - 1 /\ k \in 0..N - 1
  BY Sizes DEF Places
<1>2. k = IF j + 1 = N THEN 0 ELSE j + 1
  BY NextSlot
<1>3. /\ Gap(k, o) = IF k >= o THEN k - o ELSE k + N - o
      /\ Gap(k, h) = IF k >= h THEN k - h ELSE k + N - h
      /\ Gap(h, o) = IF h >= o THEN h - o ELSE h + N - o
      /\ Gap(s, h) = IF s >= h THEN s - h ELSE s + N - h
      /\ Gap(j, h) = IF j >= h THEN j - h ELSE j + N - h
      /\ Gap(s, o) = IF s >= o THEN s - o ELSE s + N - o
  BY Round
<1>4. Gap(k, o) >= Gap(k, h) => Gap(h, o) < Gap(k, o)
  BY <1>1, <1>3, SMT
<1>5. Gap(k, o) < Gap(k, h) => Gap(k, o) < Gap(h, o)
  BY <1>1, <1>3, SMT
<1>6. s # k /\ Gap(s, h) <= Gap(k, h) => Gap(s, h) <= Gap(j, h)
  BY <1>1, <1>2, <1>3, SMT
<1>7. s # k /\ s # h /\ Gap(s, h) > Gap(j, h) /\ Gap(h, o) < Gap(s, o) => Gap(k, o) < Gap(s, o)
  BY <1>1, <1>2, <1>3, SMT
<1> QED BY <1>4, <1>5, <1>6, <1>7

-----------------------------------------------------------------------------
(* What a search finds. *)
Ends(p, i) ==
  /\ table[Probe(p, i)] = Vacant \/ table[Probe(p, i)][1] = p
  /\ \A k \in 0..(i - 1) : table[Probe(p, k)] # Vacant /\ table[Probe(p, k)][1] # p

LEMMA StopEnds ==
  ASSUME NEW p, NEW i \in Places, Ends(p, i)
  PROVE  Stop(p) \in Places /\ Ends(p, Stop(p))
BY DEF Stop, Ends, Places

(* With no writer inside, the search for a live pid ends at its slot. *)
LEMMA StopsAtEntry ==
  ASSUME PInv, writer.at = "idle", NEW p \in LivePids
  PROVE  /\ Stop(p) \in Places /\ Probe(p, Stop(p)) \in Places
         /\ Kept(Probe(p, Stop(p))) /\ table[Probe(p, Stop(p))] = <<p, tgid[p]>>
<1>1. p \in Nat /\ p # 0 /\ p \in Pids
  BY Sizes DEF LivePids
<1>2. ~Shifting
  BY DEF Shifting
<1>3. PICK s \in Places : Kept(s) /\ table[s][1] = p
  BY <1>2 DEF PInv, EntriesOK
<1> DEFINE i == Dist(p, s)
<1>4. i \in Places /\ Probe(p, i) = s
  BY <1>1, ProbeDist
<1> HIDE DEF i
<1>5. ASSUME NEW k \in 0..(i - 1)
      PROVE  Probe(p, k) \in Places /\ Probe(p, k) # s /\ Used(Probe(p, k)) /\ table[Probe(p, k)][1] # p
  <2>1. k \in Places /\ k < i /\ k # i
    BY <1>4, Sizes, SMT DEF Places
  <2>2. Probe(p, k) \in Places /\ Dist(p, Probe(p, k)) = k
    BY <1>1, <2>1, ProbeAt
  <2>3. Dist(p, s) = i
    BY DEF i
  <2>4. Used(Probe(p, k))
    BY <1>3, <2>1, <2>2, <2>3 DEF PInv, ChainsOK
  <2>5. Kept(Probe(p, k))
    BY <1>2, <2>2, <2>4 DEF Kept
  <2> QED BY <1>3, <2>1, <2>2, <2>3, <2>4, <2>5 DEF PInv, EntriesOK
<1>6. Ends(p, i)
  BY <1>3, <1>4, <1>5 DEF Ends, Used
<1>7. Stop(p) \in Places /\ Ends(p, Stop(p))
  BY <1>4, <1>6, StopEnds
<1>8. Stop(p) = i
  <2>1. Stop(p) \in Int /\ i \in Int
    BY <1>4, <1>7, Sizes, SMT DEF Places
  <2>2. CASE Stop(p) < i
    <3>1. Stop(p) \in 0..(i - 1)
      BY <1>4, <1>7, <2>2, Sizes, SMT DEF Places
    <3> QED BY <1>5, <1>7, <3>1 DEF Ends, Used
  <2>3. CASE i < Stop(p)
    <3>1. i \in 0..(Stop(p) - 1)
      BY <1>4, <1>7, <2>3, Sizes, SMT DEF Places
    <3> QED BY <1>3, <1>4, <1>7, <3>1 DEF Ends
  <2> QED BY <2>1, <2>2, <2>3, SMT
<1>9. table[s] = <<p, tgid[p]>>
  <2>1. table[s] \in Pids \X Pids /\ table[s][2] = tgid[p]
    BY <1>3 DEF PInv, PidTypeOK, EntriesOK, Kept, Used
  <2> QED BY <1>3, <2>1, SMT
<1> QED BY <1>3, <1>4, <1>7, <1>8, <1>9

(* The slots in use and the live tasks correspond. *)
LEMMA UsedAreLive ==
  ASSUME PInv, writer.at = "idle"
  PROVE  Cardinality({s \in Places : table[s] # Vacant}) = Cardinality(LivePids)
<1> DEFINE U == {s \in Places : table[s] # Vacant}
           f == [s \in U |-> table[s][1]]
<1>1. ~Shifting
  BY DEF Shifting
<1>2. \A s \in U : Kept(s) /\ table[s][1] \in LivePids
  BY <1>1 DEF Kept, Used, PInv, EntriesOK
<1>3. \A s, t \in U : table[s][1] = table[t][1] => s = t
  BY <1>2 DEF PInv, EntriesOK
<1>4. \A p \in LivePids : \E s \in U : table[s][1] = p
  BY <1>1 DEF PInv, EntriesOK, Kept, Used
<1>5. f \in Bijection(U, LivePids)
  BY <1>2, <1>3, <1>4 DEF Bijection, Injection, Surjection, IsInjective
<1>6. IsFiniteSet(U)
  <2>1. IsFiniteSet(Places)
    BY Sizes, FS_Interval, SMT DEF Places
  <2> QED BY <2>1, FS_Subset
<1> HIDE DEF U, f
<1>7. ExistsBijection(U, LivePids)
  BY <1>5 DEF ExistsBijection
<1>8. Cardinality(LivePids) = Cardinality(U)
  BY <1>6, <1>7, FS_Bijection
<1> QED BY <1>8 DEF U

(* A set of numbers that is not empty has a least one. *)
LEMMA LeastOf ==
  ASSUME NEW T \in SUBSET Nat, T # {} PROVE \E x \in T : \A y \in T : x <= y
<1> DEFINE R == {ss \in Nat \X Nat : ss[1] < ss[2]}
<1>1. IsWellFoundedOn(R, Nat)
  BY NatLessThanWellFounded DEF OpToRel
<1>2. \E x \in T : \A y \in T : ~(<<y, x>> \in R)
  <2> HIDE DEF R
  <2> QED BY <1>1, WFMin
<1>3. PICK x \in T : \A y \in T : ~(<<y, x>> \in R)
  BY <1>2
<1>4. ASSUME NEW y \in T PROVE x <= y
  <2>1. <<y, x>> \in Nat \X Nat /\ <<y, x>>[1] = y /\ <<y, x>>[2] = x
    OBVIOUS
  <2> QED BY <1>3, <2>1, SMT
<1> QED BY <1>4

(* While fewer tasks live than there are slots, the search for a pid that is not *)
(* in the table ends at a free slot.                                         *)
LEMMA StopsAtFree ==
  ASSUME PInv, writer.at = "idle", Cardinality(LivePids) < MaxTasks, NEW p \in Pids, p \notin LivePids
  PROVE  /\ Stop(p) \in Places /\ Probe(p, Stop(p)) \in Places
         /\ ~Used(Probe(p, Stop(p)))
         /\ \A t \in Places : Dist(p, t) < Stop(p) => Used(t)
<1>1. p \in Nat /\ p # 0
  BY Sizes
<1>2. \E s \in Places : ~Used(s)
  <2>1. SUFFICES ASSUME \A s \in Places : table[s] # Vacant PROVE FALSE
    BY DEF Used
  <2>2. {s \in Places : table[s] # Vacant} = 0..(N - 1)
    BY <2>1 DEF Places
  <2>3. Cardinality(0..(N - 1)) = N
    BY FS_Interval, Sizes, SMT
  <2>4. Cardinality(LivePids) = N
    BY <2>2, <2>3, UsedAreLive
  <2> QED BY <2>4, PidAssumption, SMT
<1> DEFINE T == {i \in Places : ~Used(Probe(p, i))}
<1>3. T # {} /\ T \in SUBSET Nat
  <2>1. PICK s \in Places : ~Used(s)
    BY <1>2
  <2>2. Dist(p, s) \in Places /\ Probe(p, Dist(p, s)) = s
    BY <1>1, ProbeDist
  <2>3. Places \subseteq Nat
    BY Sizes, SMT DEF Places
  <2> QED BY <2>1, <2>2, <2>3
<1>4. PICK i \in T : \A k \in T : i <= k
  BY <1>3, LeastOf
<1>5. \A s \in Places : table[s][1] # p
  <2>1. \A s \in Places : table[s] = Vacant \/ table[s][1] \in LivePids
    BY DEF PInv, EntriesOK, Used
  <2> QED BY <1>1, <2>1, SMT DEF Vacant
<1>6. \A k \in 0..(i - 1) : k \in Places /\ Used(Probe(p, k)) /\ Probe(p, k) \in Places
  <2> TAKE k \in 0..(i - 1)
  <2>1. k \in Places /\ ~(i <= k)
    BY Sizes, SMT DEF Places
  <2> QED BY <1>1, <1>4, <2>1, ProbeAt
<1>7. Ends(p, i)
  BY <1>5, <1>6 DEF Ends, Used
<1>8. Stop(p) \in Places /\ Ends(p, Stop(p))
  BY <1>7, StopEnds
<1>9. Probe(p, Stop(p)) \in Places
  BY <1>1, <1>8, ProbeAt
<1>10. ASSUME NEW t \in Places, Dist(p, t) < Stop(p) PROVE Used(t)
  <2>1. Dist(p, t) \in Places /\ Probe(p, Dist(p, t)) = t
    BY <1>1, ProbeDist
  <2>2. Dist(p, t) \in 0..(Stop(p) - 1)
    BY <1>8, <1>10, <2>1, Sizes, SMT DEF Places
  <2> QED BY <1>8, <2>1, <2>2 DEF Ends, Used
<1> QED BY <1>5, <1>8, <1>9, <1>10 DEF Ends, Used

-----------------------------------------------------------------------------
(* A store of pid_tgid_insert. *)

(* What the writers' steps keep for the readers. *)
LEMMA AllowKeeps ==
  ASSUME PInv, NEW p \in Pids, NEW g \in Pids \cup {0}, tgid' = [tgid EXCEPT ![p] = g],
         Allow(p, g), UNCHANGED reader
  PROVE  ReadersOK' /\ (valid \in [Readers -> SUBSET Pids])'
<1>1. Answer(p, g) \in Pids
  BY DEF Answer
<1>2. valid' \in [Readers -> SUBSET Pids]
  BY <1>1 DEF Allow, PInv, PidTypeOK
<1>3. ASSUME NEW r \in Readers, reader'[r].at # "idle"
      PROVE  /\ reader'[r].pid \in Pids
             /\ Answer(reader'[r].pid, tgid'[reader'[r].pid]) \in valid'[r]
             /\ reader'[r].at = "done" => reader'[r].i \in valid'[r]
  <2>1. /\ reader[r].pid \in Pids /\ reader[r].at # "idle"
        /\ Answer(reader[r].pid, tgid[reader[r].pid]) \in valid[r]
        /\ reader[r].at = "done" => reader[r].i \in valid[r]
    BY <1>3 DEF PInv, ReadersOK
  <2>2. valid'[r] = IF reader[r].pid = p THEN valid[r] \cup {Answer(p, g)} ELSE valid[r]
    BY <2>1 DEF Allow
  <2>3. tgid'[reader[r].pid] = IF reader[r].pid = p THEN g ELSE tgid[reader[r].pid]
    BY <2>1 DEF PInv, PidTypeOK
  <2> QED BY <2>1, <2>2, <2>3
<1> QED BY <1>2, <1>3 DEF ReadersOK

(* An entry written where the search for its pid ended. *)
LEMMA Stored ==
  ASSUME PInv, writer.at = "idle", NEW p \in Pids, NEW g \in Pids, SetTgid(p, g),
         NEW d \in Places, d = Probe(p, Stop(p)),
         Used(d) => table[d][1] = p, p \in LivePids => Used(d),
         \A t \in Places : Dist(p, t) < Dist(p, d) => Used(t)
  PROVE  PInv'
<1>1. /\ table \in [Places -> {Vacant} \cup (Pids \X Pids)] /\ tgid \in [Pids -> Pids \cup {0}]
      /\ table' = [table EXCEPT ![d] = <<p, g>>] /\ tgid' = [tgid EXCEPT ![p] = g]
      /\ UNCHANGED <<writer, reader>>
  BY DEF SetTgid, Published, PInv, PidTypeOK
<1>2. ReadersOK' /\ PidTypeOK'
  <2>1. Allow(p, g) /\ g \in Pids \cup {0} /\ UNCHANGED reader
    BY DEF SetTgid
  <2>2. ReadersOK' /\ (valid \in [Readers -> SUBSET Pids])'
    BY <1>1, <2>1, AllowKeeps
  <2> QED BY <1>1, <2>2 DEF PInv, PidTypeOK
<1>3. /\ ~Shifting /\ ~Shifting'
      /\ \A s \in Places : Kept(s) <=> Used(s)
      /\ \A s \in Places : Kept(s)' <=> Used(s)'
  BY <1>1 DEF Shifting, Kept
<1>4. /\ Used(d)' /\ table'[d] = <<p, g>>
      /\ \A s \in Places : s # d => table'[s] = table[s] /\ (Used(s)' <=> Used(s))
  BY <1>1, Sizes DEF Used, Vacant
<1>5. /\ p \in LivePids' /\ tgid'[p] = g
      /\ \A q \in Pids : q # p => tgid'[q] = tgid[q] /\ (q \in LivePids' <=> q \in LivePids)
  BY <1>1, Sizes DEF LivePids
<1>6. \A s \in Places : s # d /\ Used(s) => table[s][1] \in LivePids /\ table[s][1] # p /\ table[s][1] \in Pids
  <2> SUFFICES ASSUME NEW s \in Places, s # d, Used(s)
               PROVE  table[s][1] \in LivePids /\ table[s][1] # p
    BY DEF LivePids
  <2>1. table[s][1] \in LivePids
    BY DEF PInv, EntriesOK
  <2>2. ASSUME table[s][1] = p PROVE FALSE
    <3>1. Kept(d) /\ Kept(s) /\ table[d][1] = p
      BY <1>3, <2>1, <2>2
    <3> QED BY <2>2, <3>1 DEF PInv, EntriesOK
  <2> QED BY <2>1, <2>2
<1>7. EntriesOK'
  <2>1. \A s \in Places : Used(s)' => table'[s][1] \in LivePids' /\ table'[s][2] = tgid'[table'[s][1]]
    BY <1>4, <1>5, <1>6, SMT DEF PInv, EntriesOK
  <2>2. \A s, t \in Places : Kept(s)' /\ Kept(t)' /\ table'[s][1] = table'[t][1] => s = t
    BY <1>3, <1>4, <1>6, SMT DEF PInv, EntriesOK
  <2>3. ASSUME NEW q \in LivePids' PROVE \E s \in Places : Kept(s)' /\ table'[s][1] = q
    <3>1. CASE q = p
      BY <1>3, <1>4, <3>1, SMT
    <3>2. CASE q # p
      <4>1. q \in LivePids
        BY <1>5, <3>2 DEF LivePids
      <4>2. PICK s \in Places : Kept(s) /\ table[s][1] = q
        BY <1>3, <4>1 DEF PInv, EntriesOK
      <4>3. s # d
        BY <1>3, <3>2, <4>2
      <4> QED BY <1>3, <1>4, <4>2, <4>3
    <3> QED BY <3>1, <3>2
  <2> QED BY <1>3, <2>1, <2>2, <2>3 DEF EntriesOK
<1>8. ChainsOK'
  <2> SUFFICES ASSUME NEW s \in Places, NEW t \in Places, Kept(s)',
                      Dist(table'[s][1], t) < Dist(table'[s][1], s)
               PROVE  Used(t)'
    BY DEF ChainsOK, Dist, Gap, Home
  <2>1. CASE s = d
    <3>1. Used(t)
      BY <1>4, <2>1, SMT
    <3> QED BY <1>4, <3>1
  <2>2. CASE s # d
    <3>1. Used(t)
      BY <1>3, <1>4, <2>2 DEF PInv, ChainsOK
    <3> QED BY <1>4, <3>1
  <2> QED BY <2>1, <2>2
<1>9. ShiftOK'
  BY <1>3 DEF ShiftOK
<1> QED BY <1>2, <1>7, <1>8, <1>9 DEF PInv

LEMMA EnqueueKeeps ==
  ASSUME PInv, NEW p \in Pids, NEW g \in Pids, Enqueue(p, g) PROVE PInv'
<1>1. /\ Stop(p) \in Places /\ Probe(p, Stop(p)) \in Places /\ ~Used(Probe(p, Stop(p)))
      /\ \A t \in Places : Dist(p, t) < Stop(p) => Used(t)
  BY StopsAtFree DEF Enqueue
<1>2. Dist(p, Probe(p, Stop(p))) = Stop(p)
  BY <1>1, ProbeAt, Sizes
<1> QED BY <1>1, <1>2, Stored DEF Enqueue

LEMMA PromoteKeeps ==
  ASSUME PInv, NEW p \in Pids, PromotePid(p) PROVE PInv'
<1>1. /\ Stop(p) \in Places /\ Probe(p, Stop(p)) \in Places
      /\ Kept(Probe(p, Stop(p))) /\ table[Probe(p, Stop(p))] = <<p, tgid[p]>>
  BY StopsAtEntry DEF PromotePid
<1>2. \A t \in Places : Dist(p, t) < Dist(p, Probe(p, Stop(p))) => Used(t)
  BY <1>1, SMT DEF PInv, ChainsOK
<1>3. Used(Probe(p, Stop(p)))
  BY <1>1 DEF Kept
<1> QED BY <1>1, <1>2, <1>3, Stored, SMT DEF PromotePid

-----------------------------------------------------------------------------
(* A removal. *)

LEMMA RemoveKeeps ==
  ASSUME PInv, NEW p \in Pids, Remove(p) PROVE PInv'
<1>1. PICK h \in Places : h = Probe(p, Stop(p)) /\ Kept(h) /\ table[h] = <<p, tgid[p]>>
  BY StopsAtEntry DEF Remove
<1>2. /\ writer' = [at |-> "shift", pid |-> p, hole |-> h, j |-> h]
      /\ UNCHANGED <<table, tgid, reader, valid>> /\ p \in LivePids
  BY <1>1 DEF Remove
<1>3. /\ ~Shifting /\ Shifting' /\ LivePids' = LivePids
      /\ \A s \in Places : Kept(s) <=> Used(s)
      /\ \A s \in Places : Used(s)' <=> Used(s)
      /\ \A s \in Places : Kept(s)' <=> Used(s) /\ s # h
  BY <1>2, SMT DEF Shifting, Kept, Used, Remove, LivePids
<1>4. PidTypeOK' /\ ReadersOK'
  BY <1>1, <1>2 DEF PInv, PidTypeOK, ReadersOK
<1>5. \A s \in Places : Kept(s)' => table[s][1] # p
  BY <1>1, <1>3, SMT DEF PInv, EntriesOK
<1>6. EntriesOK'
  <2>1. \A s \in Places : Used(s)' => table'[s][1] \in LivePids' /\ table'[s][2] = tgid'[table'[s][1]]
    BY <1>2, <1>3 DEF PInv, EntriesOK
  <2>2. \A s, t \in Places : Kept(s)' /\ Kept(t)' /\ table'[s][1] = table'[t][1] => s = t
    BY <1>2, <1>3 DEF PInv, EntriesOK
  <2>3. ASSUME NEW q \in LivePids', q # p PROVE \E s \in Places : Kept(s)' /\ table'[s][1] = q
    <3>1. PICK s \in Places : Kept(s) /\ table[s][1] = q
      BY <1>3 DEF PInv, EntriesOK
    <3>2. s # h
      BY <1>1, <2>3, <3>1, SMT
    <3> QED BY <1>2, <1>3, <3>1, <3>2
  <2>4. writer'.pid = p
    BY <1>2
  <2>5. \A s \in Places : Kept(s)' => table'[s][1] # p
    BY <1>2, <1>5
  <2>6. Shifting'
    BY <1>3
  <2> QED BY <2>1, <2>2, <2>3, <2>4, <2>5, <2>6 DEF EntriesOK
<1>7. ChainsOK'
  BY <1>2, <1>3 DEF PInv, ChainsOK, Dist, Gap, Home
<1>8. ShiftOK'
  <2>1. writer'.hole = h /\ writer'.j = h /\ writer'.pid = p /\ Used(h)'
    BY <1>1, <1>2, <1>3
  <2>2. \A s \in Places : ~(Kept(s)' /\ Gap(s, h) <= Gap(h, h))
    BY <1>1, <1>3, OnlyItself
  <2> QED BY <1>2, <1>3, <2>1, <2>2 DEF ShiftOK
<1> QED BY <1>4, <1>6, <1>7, <1>8 DEF PInv

(* One look of the backward shift at slot k. *)
LEMMA ShiftKeeps ==
  ASSUME PInv, Shift PROVE PInv'
<1> DEFINE h == writer.hole
           k == (writer.j + 1) % N
           d == writer.pid
<1>1. /\ h \in Places /\ writer.j \in Places /\ k \in Places /\ d \in LivePids /\ d \in Pids
      /\ Shifting /\ Used(h)
      /\ table \in [Places -> {Vacant} \cup (Pids \X Pids)] /\ tgid \in [Pids -> Pids \cup {0}]
  BY NextSlot DEF PInv, PidTypeOK, ShiftOK, Shift, Shifting, LivePids
<1>2. \A s \in Places : Kept(s) <=> Used(s) /\ s # h
  BY <1>1 DEF Kept
<1>3. \A s \in Places : Used(s) => table[s][1] \in LivePids /\ table[s][1] \in Pids
                                   /\ Home(table[s][1]) \in Places
  BY HomeOK, Sizes, ZenonT(30) DEF PInv, EntriesOK, LivePids
<1>4. CASE table[k] = Vacant
  <2>1. /\ table' = [table EXCEPT ![h] = Vacant] /\ tgid' = [tgid EXCEPT ![d] = 0]
        /\ Allow(d, 0) /\ writer' = IdleWriter /\ UNCHANGED reader
    BY <1>4 DEF Shift
  <2>2. ReadersOK' /\ PidTypeOK'
    BY <1>1, <2>1, AllowKeeps, Sizes DEF PInv, PidTypeOK, IdleWriter
  <2>3. /\ ~Shifting'
        /\ \A s \in Places : Used(s)' <=> Used(s) /\ s # h
        /\ \A s \in Places : s # h => table'[s] = table[s]
        /\ \A s \in Places : Kept(s)' <=> Kept(s)
    <3>1. ~Shifting'
      BY <2>1 DEF Shifting, IdleWriter
    <3>2. \A s \in Places : (Used(s)' <=> Used(s) /\ s # h) /\ (s # h => table'[s] = table[s])
      BY <1>1, <2>1 DEF Used
    <3> QED BY <1>2, <3>1, <3>2 DEF Kept
  <2>4. \A q \in Pids : (q \in LivePids' <=> q \in LivePids /\ q # d) /\ (q # d => tgid'[q] = tgid[q])
    BY <1>1, <2>1 DEF LivePids
  <2>5. EntriesOK'
    <3>1. \A s \in Places : Kept(s) => table[s][1] # d
      BY <1>1 DEF PInv, EntriesOK
    <3>2. \A s \in Places : Used(s)' => table'[s][1] \in LivePids' /\ table'[s][2] = tgid'[table'[s][1]]
      BY <1>2, <1>3, <2>3, <2>4, <3>1, SMT DEF PInv, EntriesOK
    <3>3. \A s, t \in Places : Kept(s)' /\ Kept(t)' /\ table'[s][1] = table'[t][1] => s = t
      BY <1>2, <2>3, SMT DEF PInv, EntriesOK
    <3>4. ASSUME NEW q \in LivePids' PROVE \E s \in Places : Kept(s)' /\ table'[s][1] = q
      <4>1. q \in LivePids /\ q # d
        BY <2>4 DEF LivePids
      <4>2. PICK s \in Places : Kept(s) /\ table[s][1] = q
        BY <4>1 DEF PInv, EntriesOK
      <4> QED BY <1>2, <2>3, <4>2
    <3> QED BY <2>3, <3>2, <3>3, <3>4 DEF EntriesOK
  <2>6. ChainsOK'
    <3> SUFFICES ASSUME NEW s \in Places, NEW t \in Places, Kept(s)',
                        Dist(table'[s][1], t) < Dist(table'[s][1], s)
                 PROVE  Used(t)'
      BY DEF ChainsOK, Dist, Gap, Home
    <3>1. Kept(s) /\ s # h /\ table'[s] = table[s] /\ Used(s)
      BY <1>2, <2>3
    <3> DEFINE o == Home(table[s][1])
    <3>2. o \in Places
      BY <1>3, <3>1
    <3>3. Used(t) /\ s # k
      BY <1>4, <3>1 DEF PInv, ChainsOK, Used
    <3>4. t # h
      <4>1. SUFFICES ASSUME t = h PROVE FALSE
        OBVIOUS
      <4>2. Gap(h, o) < Gap(s, o)
        BY <3>1, <4>1 DEF Dist
      <4>3. k # h
        BY <1>1, <1>4 DEF Used
      <4>4. CASE Gap(s, h) <= Gap(writer.j, h)
        <5>1. Gap(s, o) < Gap(h, o)
          BY <1>1, <3>1, <4>4 DEF PInv, ShiftOK, Dist
        <5>2. Gap(s, o) \in Int /\ Gap(h, o) \in Int
          BY <1>1, <3>2, Round, SMT
        <5> QED BY <4>2, <5>1, <5>2, SMT
      <4>5. CASE ~(Gap(s, h) <= Gap(writer.j, h))
        <5>1. Gap(s, h) \in Int /\ Gap(writer.j, h) \in Int
          BY <1>1, Round, SMT
        <5>2. Gap(s, h) > Gap(writer.j, h)
          BY <4>5, <5>1, SMT
        <5>3. Gap(k, o) < Gap(s, o)
          BY <1>1, <3>1, <3>2, <3>3, <4>2, <4>3, <5>2, Rotations, SMT
        <5> QED BY <1>1, <1>4, <3>1, <5>3 DEF PInv, ChainsOK, Dist, Used
      <4> QED BY <4>4, <4>5
    <3> QED BY <2>3, <3>3, <3>4
  <2>7. ShiftOK'
    BY <2>3 DEF ShiftOK
  <2> QED BY <2>2, <2>5, <2>6, <2>7 DEF PInv
<1>5. CASE table[k] # Vacant
  <2> DEFINE e == table[k]
             o == Home(e[1])
  <2>1. UNCHANGED <<tgid, valid, reader>> /\ LivePids' = LivePids
    BY <1>5 DEF Shift, LivePids
  <2>2. ReadersOK'
    BY <2>1 DEF PInv, ReadersOK
  <2>3. e \in Pids \X Pids /\ Used(k) /\ o \in Places /\ e[1] \in LivePids
    BY <1>1, <1>3, <1>5 DEF Used
  <2>4. CASE ~MayShift(e, k, h)
    <3>1. UNCHANGED table /\ writer' = [writer EXCEPT !.j = k]
      BY <1>5, <2>4 DEF Shift
    <3>2. /\ Shifting' /\ writer'.hole = h /\ writer'.pid = d /\ writer'.j = k
          /\ \A s \in Places : (Used(s)' <=> Used(s)) /\ (Kept(s)' <=> Kept(s))
      BY <1>1, <3>1 DEF PInv, PidTypeOK, Shifting, Used, Kept
    <3>3. PidTypeOK'
      BY <1>1, <2>1, <3>1 DEF PInv, PidTypeOK
    <3>4. EntriesOK'
      BY <1>1, <2>1, <3>1, <3>2 DEF PInv, EntriesOK
    <3>5. ChainsOK'
      BY <3>1, <3>2 DEF PInv, ChainsOK, Dist, Gap, Home
    <3>6. Gap(k, o) < Gap(k, h) /\ k # h
      <4>1. Gap(k, o) \in Nat /\ Gap(k, h) \in Nat
        BY <1>1, <2>3, Round
      <4>2. Gap(k, o) < Gap(k, h)
        BY <2>4, <4>1, SMT DEF MayShift
      <4>3. k # h
        BY <1>1, <2>3, <4>2, FartherThanItself
      <4> QED BY <4>2, <4>3
    <3>7. ASSUME NEW s \in Places, Kept(s), Gap(s, h) <= Gap(k, h)
          PROVE  Dist(table[s][1], s) < Dist(table[s][1], h)
      <4>1. CASE s = k
        <5>1. Gap(k, o) < Gap(h, o)
          BY <1>1, <2>3, <3>6, Rotations, SMT
        <5> QED BY <4>1, <5>1 DEF Dist
      <4>2. CASE s # k
        <5>1. Gap(s, h) <= Gap(writer.j, h)
          BY <1>1, <2>3, <3>6, <3>7, <4>2, Rotations, SMT
        <5> QED BY <1>1, <3>7, <5>1 DEF PInv, ShiftOK
      <4> QED BY <4>1, <4>2
    <3>8. ShiftOK'
      BY <1>1, <2>1, <3>1, <3>2, <3>7, SMT DEF ShiftOK, Dist, Gap, Home
    <3> QED BY <2>2, <3>3, <3>4, <3>5, <3>8 DEF PInv
  <2>5. CASE MayShift(e, k, h)
    <3>1. PICK y \in Places, m \in Places, v \in Pids \X Pids : y = h /\ m = k /\ v = e
      BY <1>1, <2>3
    <3>2. /\ table' = [table EXCEPT ![y] = v]
          /\ writer' = [writer EXCEPT !.hole = m, !.j = m]
      BY <1>5, <2>5, <3>1 DEF Shift
    <3>3. /\ Shifting' /\ writer'.hole = m /\ writer'.pid = d /\ writer'.j = m
          /\ \A s \in Places : s # y => table'[s] = table[s]
          /\ table'[y] = v
      BY <1>1, <3>2 DEF PInv, PidTypeOK, Shifting
    <3>4. \A s \in Places : (Used(s)' <=> Used(s)) /\ (Kept(s)' <=> Used(s) /\ s # m)
      <4>1. \A s \in Places : Used(s)' <=> Used(s)
        BY <1>1, <3>1, <3>3, <2>3, <1>5 DEF Used
      <4> QED BY <3>3, <4>1 DEF Kept
    <3>5. PidTypeOK'
      BY <1>1, <2>1, <3>1, <3>2 DEF PInv, PidTypeOK
    <3>6. EntriesOK'
      <4>1. \A s \in Places : Used(s)' => table'[s][1] \in LivePids' /\ table'[s][2] = tgid'[table'[s][1]]
        BY <1>3, <2>1, <2>3, <3>1, <3>3, <3>4, SMT DEF PInv, EntriesOK
      <4>2. ASSUME NEW s \in Places, NEW t \in Places, Kept(s)', Kept(t)', table'[s][1] = table'[t][1]
            PROVE  s = t
        <5>1. CASE s # y /\ t # y
          BY <1>2, <3>1, <3>3, <3>4, <4>2, <5>1, ZenonT(30) DEF PInv, EntriesOK
        <5>2. CASE s = y /\ t # y
          <6>1. Kept(m) /\ Kept(t) /\ table[m][1] = table[t][1] /\ t # m
            BY <1>2, <2>3, <3>1, <3>3, <3>4, <4>2, <5>2
          <6> QED BY <6>1 DEF PInv, EntriesOK
        <5>3. CASE s # y /\ t = y
          <6>1. Kept(m) /\ Kept(s) /\ table[m][1] = table[s][1] /\ s # m
            BY <1>2, <2>3, <3>1, <3>3, <3>4, <4>2, <5>3
          <6> QED BY <6>1 DEF PInv, EntriesOK
        <5> QED BY <5>1, <5>2, <5>3
      <4>3. ASSUME NEW q \in LivePids', q # d PROVE \E s \in Places : Kept(s)' /\ table'[s][1] = q
        <5>1. PICK s \in Places : Kept(s) /\ table[s][1] = q
          BY <2>1, <4>3 DEF PInv, EntriesOK
        <5>2. CASE s # m
          BY <1>2, <3>1, <3>3, <3>4, <5>1, <5>2
        <5>3. CASE s = m
          <6>1. m # y
            BY <1>2, <3>1, <5>1, <5>3
          <6> QED BY <1>1, <3>1, <3>3, <3>4, <5>1, <5>3, <6>1, ZenonT(30)
        <5> QED BY <5>2, <5>3
      <4>4. ASSUME NEW s \in Places, Kept(s)' PROVE table'[s][1] # d
        <5>1. CASE s # y
          BY <1>1, <1>2, <3>1, <3>3, <3>4, <4>4, <5>1 DEF PInv, EntriesOK
        <5>2. CASE s = y
          <6>1. Kept(m)
            BY <1>2, <2>3, <3>1, <3>4, <4>4, <5>2
          <6> QED BY <1>1, <3>1, <3>3, <5>2, <6>1, SMT DEF PInv, EntriesOK
        <5> QED BY <5>1, <5>2
      <4> QED BY <3>3, <4>1, <4>2, <4>3, <4>4, ZenonT(30) DEF EntriesOK
    <3>7. ChainsOK'
      <4> SUFFICES ASSUME NEW s \in Places, NEW t \in Places, Kept(s)',
                          Dist(table'[s][1], t) < Dist(table'[s][1], s)
                   PROVE  Used(t)
        BY <3>4 DEF ChainsOK, Dist, Gap, Home
      <4>1. CASE s # y
        BY <1>2, <3>1, <3>3, <3>4, <4>1 DEF PInv, ChainsOK
      <4>2. CASE s = y
        <5>1. m # y /\ Kept(m)
          BY <1>2, <2>3, <3>1, <3>4, <4>2, ZenonT(30)
        <5>2. Gap(y, o) < Gap(m, o)
          BY <1>1, <2>3, <2>5, <3>1, <5>1, Rotations, SMT DEF MayShift
        <5>3. Gap(t, o) < Gap(y, o) /\ Gap(t, o) \in Nat /\ Gap(y, o) \in Nat /\ Gap(m, o) \in Nat
          BY <2>3, <3>1, <3>3, <4>2, Round DEF Dist
        <5>4. Gap(t, o) < Gap(m, o)
          BY <5>2, <5>3, SMT
        <5> QED BY <3>1, <5>1, <5>4 DEF PInv, ChainsOK, Dist
      <4> QED BY <4>1, <4>2
    <3>8. ShiftOK'
      <4>1. \A s \in Places : ~(Kept(s)' /\ Gap(s, m) <= Gap(m, m))
        BY <3>4, OnlyItself
      <4>2. Used(m)' /\ d \in LivePids'
        BY <1>1, <2>1, <2>3, <3>1, <3>4
      <4> QED BY <3>3, <4>1, <4>2 DEF ShiftOK
    <3> QED BY <2>2, <3>5, <3>6, <3>7, <3>8 DEF PInv
  <2> QED BY <2>4, <2>5
<1> QED BY <1>4, <1>5

-----------------------------------------------------------------------------
(* The readers. *)
ReaderType == [at : {"idle", "probe", "missed", "done"}, pid : Pids \cup {0}, i : Nat]

LEMMA TableStays ==
  ASSUME PInv, UNCHANGED <<table, tgid, writer>>
  PROVE  EntriesOK' /\ ChainsOK' /\ ShiftOK'
<1>1. /\ LivePids' = LivePids /\ (Shifting' <=> Shifting)
      /\ \A s \in Places : (Used(s)' <=> Used(s)) /\ (Kept(s)' <=> Kept(s))
  BY DEF LivePids, Shifting, Used, Kept
<1>2. EntriesOK'
  BY <1>1 DEF PInv, EntriesOK
<1>3. ChainsOK'
  BY <1>1 DEF PInv, ChainsOK, Dist, Gap, Home
<1>4. ShiftOK'
  BY <1>1 DEF PInv, ShiftOK, Used, Kept, Dist, Gap, Home
<1> QED BY <1>2, <1>3, <1>4

(* One reader moves, and what it may answer still includes what is true. *)
LEMMA ReaderMoves ==
  ASSUME PInv, UNCHANGED <<table, tgid, writer>>, NEW r \in Readers,
         reader' \in [Readers -> ReaderType], valid' \in [Readers -> SUBSET Pids],
         \A u \in Readers : u # r => reader'[u] = reader[u] /\ valid'[u] = valid[u],
         reader'[r].at # "idle" => /\ reader'[r].pid \in Pids
                                   /\ Answer(reader'[r].pid, tgid[reader'[r].pid]) \in valid'[r],
         reader'[r].at = "done" => reader'[r].i \in valid'[r]
  PROVE  PInv'
<1>1. PidTypeOK'
  BY DEF PInv, PidTypeOK, ReaderType
<1>2. ReadersOK'
  <2> SUFFICES ASSUME NEW u \in Readers, reader'[u].at # "idle"
               PROVE  /\ reader'[u].pid \in Pids
                      /\ Answer(reader'[u].pid, tgid'[reader'[u].pid]) \in valid'[u]
                      /\ reader'[u].at = "done" => reader'[u].i \in valid'[u]
    BY DEF ReadersOK
  <2>1. CASE u = r
    BY <2>1
  <2>2. CASE u # r
    BY <2>2 DEF PInv, ReadersOK
  <2> QED BY <2>1, <2>2
<1> QED BY <1>1, <1>2, TableStays DEF PInv

(* As the actions write it. *)
LEMMA ReaderSteps ==
  ASSUME PInv, UNCHANGED <<table, tgid, writer>>, NEW r \in Readers, NEW z \in ReaderType, NEW v \in SUBSET Pids,
         reader' = [reader EXCEPT ![r] = z], valid' = [valid EXCEPT ![r] = v],
         z.at # "idle" => z.pid \in Pids /\ Answer(z.pid, tgid[z.pid]) \in v,
         z.at = "done" => z.i \in v
  PROVE  PInv'
<1>1. reader \in [Readers -> ReaderType] /\ valid \in [Readers -> SUBSET Pids]
  BY DEF PInv, PidTypeOK, ReaderType
<1>2. reader' \in [Readers -> ReaderType] /\ valid' \in [Readers -> SUBSET Pids]
  BY <1>1
<1>3. reader'[r] = z /\ valid'[r] = v
  BY <1>1
<1>4. \A u \in Readers : u # r => reader'[u] = reader[u] /\ valid'[u] = valid[u]
  BY <1>1
<1> QED BY <1>2, <1>3, <1>4, ReaderMoves

LEMMA ReadKeeps ==
  ASSUME PInv, NEW r \in Readers,
         GetProbe(r) \/ FallBack(r) \/ Done(r) \/ \E p \in Pids : Look(r, p)
  PROVE  PInv'
<1>1. /\ reader \in [Readers -> ReaderType] /\ valid \in [Readers -> SUBSET Pids]
      /\ tgid \in [Pids -> Pids \cup {0}] /\ UNCHANGED <<table, tgid, writer>>
  BY DEF GetProbe, FallBack, Done, Look, PInv, PidTypeOK, ReaderType
<1>2. PICK q \in ReaderType : q = reader[r]
  BY <1>1
<1>3. /\ valid[r] \in SUBSET Pids /\ q.i \in Nat /\ q.pid \in Pids \cup {0}
      /\ q.at # "idle" => q.pid \in Pids /\ Answer(q.pid, tgid[q.pid]) \in valid[r]
  BY <1>1, <1>2 DEF PInv, ReadersOK, ReaderType
<1>4. valid' = valid => valid' = [valid EXCEPT ![r] = valid[r]]
  BY <1>1
<1>5. CASE GetProbe(r)
  <2>1. PICK e : e = table[Probe(q.pid, q.i)]
    OBVIOUS
  <2>2. /\ q.at = "probe" /\ valid' = valid /\ q.pid \in Pids /\ q.pid \in Nat
        /\ reader' = [reader EXCEPT ![r] =
                        IF e[1] = q.pid THEN [q EXCEPT !.at = "done", !.i = e[2]]
                        ELSE IF e = Vacant \/ q.i = N - 1 THEN [q EXCEPT !.at = "missed"]
                        ELSE [q EXCEPT !.i = q.i + 1]]
    BY <1>2, <1>3, <1>5, <2>1, Sizes DEF GetProbe
  <2>a. valid' = [valid EXCEPT ![r] = valid[r]] /\ valid[r] \in SUBSET Pids /\ UNCHANGED <<table, tgid, writer>>
    BY <1>1, <1>3, <1>4, <2>2
  <2>3. Probe(q.pid, q.i) \in Places
    BY <1>3, <2>2, Sizes, SMT DEF Probe, Home, Places
  <2>4. CASE e[1] = q.pid
    <3>1. e # Vacant
      BY <2>2, <2>4, Sizes, SMT DEF Vacant
    <3>2. e \in Pids \X Pids /\ e[2] = tgid[q.pid]
      BY <2>1, <2>3, <2>4, <3>1, ZenonT(30) DEF PInv, PidTypeOK, EntriesOK, Used
    <3>3. e[2] \in Pids /\ e[2] \in Nat /\ e[2] = Answer(q.pid, tgid[q.pid])
      BY <3>2, Sizes DEF Answer
    <3>4. PICK z \in ReaderType : z = [q EXCEPT !.at = "done", !.i = e[2]]
      BY <3>3 DEF ReaderType
    <3>5. z.at = "done" /\ z.pid = q.pid /\ z.i = e[2]
      BY <3>4 DEF ReaderType
    <3>6. reader' = [reader EXCEPT ![r] = z]
      BY <2>2, <2>4, <3>4
    <3>7. z.i \in valid[r] /\ z.pid \in Pids /\ Answer(z.pid, tgid[z.pid]) \in valid[r]
      BY <1>3, <2>2, <3>3, <3>5
    <3> QED BY <2>a, <3>6, <3>7, ReaderSteps
  <2>5. CASE e[1] # q.pid /\ (e = Vacant \/ q.i = N - 1)
    <3>1. PICK z \in ReaderType : z = [q EXCEPT !.at = "missed"]
      BY DEF ReaderType
    <3>2. z.at = "missed" /\ z.pid = q.pid
      BY <3>1 DEF ReaderType
    <3>3. reader' = [reader EXCEPT ![r] = z]
      BY <2>2, <2>5, <3>1
    <3>4. z.at # "done" /\ z.pid \in Pids /\ Answer(z.pid, tgid[z.pid]) \in valid[r]
      BY <1>3, <2>2, <3>2
    <3> QED BY <2>a, <3>3, <3>4, ReaderSteps
  <2>6. CASE e[1] # q.pid /\ ~(e = Vacant \/ q.i = N - 1)
    <3>1. PICK z \in ReaderType : z = [q EXCEPT !.i = q.i + 1]
      <4>1. q.i + 1 \in Nat
        BY <1>3, SMT
      <4> QED BY <4>1 DEF ReaderType
    <3>2. z.at = "probe" /\ z.pid = q.pid
      BY <2>2, <3>1 DEF ReaderType
    <3>3. reader' = [reader EXCEPT ![r] = z]
      BY <2>2, <2>6, <3>1
    <3>4. z.at # "done" /\ z.pid \in Pids /\ Answer(z.pid, tgid[z.pid]) \in valid[r]
      BY <1>3, <2>2, <3>2
    <3> QED BY <2>a, <3>3, <3>4, ReaderSteps
  <2> QED BY <2>4, <2>5, <2>6
<1>6. CASE FallBack(r)
  <2>1. PICK g : g = Answer(q.pid, tgid[q.pid])
    OBVIOUS
  <2>2. /\ q.at = "missed" /\ valid' = valid
        /\ reader' = [reader EXCEPT ![r].at = "done", ![r].i = g]
    BY <1>2, <1>6, <2>1 DEF FallBack, AskRunQueue
  <2>3. q.pid \in Pids /\ g \in valid[r] /\ g \in Nat
    BY <1>3, <2>1, <2>2, Sizes
  <2>4. PICK z \in ReaderType : z = [q EXCEPT !.at = "done", !.i = g]
    BY <2>3 DEF ReaderType
  <2>5. z.at = "done" /\ z.pid = q.pid /\ z.i = g
    BY <2>4 DEF ReaderType
  <2>6. /\ reader' \in [Readers -> ReaderType] /\ reader'[r] = z
        /\ \A u \in Readers : u # r => reader'[u] = reader[u]
    <3>1. reader'[r] = z
      BY <1>1, <1>2, <2>2, <2>4
    <3>2. \A u \in Readers : u # r => reader'[u] = reader[u]
      BY <1>1, <2>2
    <3>3. reader' = [u \in Readers |-> reader'[u]]
      BY <1>1, <2>2
    <3>4. \A u \in Readers : reader'[u] \in ReaderType
      BY <1>1, <3>1, <3>2
    <3> HIDE DEF ReaderType
    <3> QED BY <3>1, <3>2, <3>3, <3>4
  <2>7. z.i \in valid[r] /\ z.pid \in Pids /\ Answer(z.pid, tgid[z.pid]) \in valid[r]
    BY <2>1, <2>3, <2>5
  <2> QED BY <1>1, <2>2, <2>6, <2>7, ReaderMoves
<1>7. CASE Done(r)
  <2>1. reader' = [reader EXCEPT ![r] = IdleReader] /\ valid' = [valid EXCEPT ![r] = {}]
    BY <1>7 DEF Done
  <2>2. IdleReader \in ReaderType /\ IdleReader.at = "idle" /\ IdleReader.at # "done" /\ {} \in SUBSET Pids
    BY DEF IdleReader, ReaderType
  <2> QED BY <1>1, <2>1, <2>2, ReaderSteps
<1>8. CASE \E p \in Pids : Look(r, p)
  <2>1. PICK p \in Pids : Look(r, p)
    BY <1>8
  <2>2. PICK z \in ReaderType : z = [at |-> "probe", pid |-> p, i |-> 0]
    BY DEF ReaderType
  <2>3. z.at = "probe" /\ z.pid = p /\ z.at # "done"
    BY <2>2
  <2>4. reader' = [reader EXCEPT ![r] = z] /\ valid' = [valid EXCEPT ![r] = {Answer(p, tgid[p])}]
    BY <2>1, <2>2 DEF Look
  <2>5. {Answer(p, tgid[p])} \in SUBSET Pids
    BY <1>1 DEF Answer
  <2>6. z.pid \in Pids /\ Answer(z.pid, tgid[z.pid]) \in {Answer(p, tgid[p])}
    BY <2>3
  <2> QED BY <1>1, <2>3, <2>4, <2>5, <2>6, ReaderSteps
<1> QED BY <1>5, <1>6, <1>7, <1>8

-----------------------------------------------------------------------------
LEMMA PidInitial == PidInit => PInv
<1> SUFFICES ASSUME PidInit PROVE PInv
  OBVIOUS
<1>1. (\A s \in Places : ~Used(s)) /\ LivePids = {} /\ ~Shifting
  BY DEF PidInit, Used, LivePids, Shifting, IdleWriter
<1>2. EntriesOK /\ ChainsOK /\ ShiftOK
  BY <1>1 DEF EntriesOK, ChainsOK, ShiftOK, Kept
<1>3. PidTypeOK
  <2>1. IdleReader \in ReaderType
    BY DEF IdleReader, ReaderType
  <2>2. reader \in [Readers -> ReaderType]
    BY <2>1 DEF PidInit
  <2> QED BY <2>2, Sizes DEF PidInit, PidTypeOK, IdleWriter, ReaderType
<1>4. ReadersOK
  BY DEF PidInit, ReadersOK, IdleReader
<1> QED BY <1>2, <1>3, <1>4 DEF PInv

LEMMA PidStep == PInv /\ [PidNext]_pidVars => PInv'
<1> SUFFICES ASSUME PInv, [PidNext]_pidVars PROVE PInv'
  OBVIOUS
<1>1. CASE \E p \in Pids : PromotePid(p)
  BY <1>1, PromoteKeeps
<1>2. CASE \E p \in Pids : Remove(p)
  BY <1>2, RemoveKeeps
<1>3. CASE \E p, g \in Pids : Enqueue(p, g)
  BY <1>3, EnqueueKeeps
<1>4. CASE Shift
  BY <1>4, ShiftKeeps
<1>5. CASE \E r \in Readers : GetProbe(r) \/ FallBack(r) \/ Done(r) \/ \E p \in Pids : Look(r, p)
  BY <1>5, ReadKeeps
<1>6. CASE UNCHANGED pidVars
  <2>1. EntriesOK' /\ ChainsOK' /\ ShiftOK'
    BY <1>6, TableStays DEF pidVars
  <2>2. PidTypeOK' /\ ReadersOK'
    BY <1>6 DEF pidVars, PInv, PidTypeOK, ReadersOK
  <2> QED BY <2>1, <2>2 DEF PInv
<1> QED BY <1>1, <1>2, <1>3, <1>4, <1>5, <1>6 DEF PidNext

LEMMA PidAlways == PidSpec => []PInv
BY PidInitial, PidStep, PTL DEF PidSpec

(* pid_tgid_insert, pid_tgid_remove, tgid_of: with no writer inside, each live   *)
(* task and nothing else is found by its own probes, and every answer given      *)
(* without the lock was true at some instant of the call.                      *)
THEOREM PidLookups == PidSpec => []PidLookupExact
<1>1. PInv => PidLookupExact
  <2> SUFFICES ASSUME PInv PROVE PidLookupExact
    OBVIOUS
  <2>1. TableExact
    BY StopsAtEntry, UsedAreLive DEF TableExact
  <2>2. AnswerWasTrue
    BY DEF AnswerWasTrue, PInv, ReadersOK
  <2> QED BY <2>1, <2>2 DEF PidLookupExact
<1> QED BY <1>1, PidAlways, PTL
=============================================================================
