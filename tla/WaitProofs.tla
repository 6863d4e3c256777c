----------------------------- MODULE WaitProofs -----------------------------
(***************************************************************************)
(* Proofs about Wait, for every set of worker threads and of children and     *)
(* every process limit.  Ledger says where an unreported exit is at each stage *)
(* of a child's life: nowhere before it, in its slot as a zombie, in the log    *)
(* as a record.  The rest of WInv says who can be whose parent.  On them rest   *)
(* that an exit is reported once, that the log has room for every record, and,  *)
(* with one more conjunct each, that no wait sleeps on an exit, that ECHILD is  *)
(* true and that init inherits what a dead parent leaves.                     *)
(***************************************************************************)
EXTENDS Wait, FiniteSetTheorems, TLAPS

(* First-order reasoning suffices unless a step names another prover. *)
USE Zenon

(* Where a task is in its exit is what its slot says. *)
StagesOK ==
  /\ Alive(init)
  /\ \A t \in Tasks :
       /\ state[t] = "unborn" => t \in Kids /\ step[t] = "run"
       /\ step[t] \in {"reparent", "reap"} <=> state[t] = "zombie"
       /\ step[t] = "reparent" => t \notin Workers
       /\ step[t] = "kill" => t = Parent /\ state[t] = "live"
       /\ step[t] = "done" <=> state[t] = "gone"
  /\ \A t \in Callers : call[t].at # "idle" => Alive(t)

(* Only init and the threads of Parent are ever named as parents. *)
ParentsOK ==
  /\ ppid[Parent] = init
  /\ \A w \in Workers : ppid[w] = Parent
  /\ \A c \in Kids : state[c] # "unborn" => ppid[c] \in Callers
  /\ \A c \in Tasks : record[c] \in Callers \cup {NoTask}

(* An exit is nowhere before it happens; then in the slot, unless a waiter has  *)
(* it; then in the log, unless a waiter has it or it was discarded.            *)
Ledger ==
  /\ \A w \in Workers : record[w] = NoTask
  /\ \A c \in Tasks \ Workers :
       /\ state[c] \in {"unborn", "live"} => handed[c] = 0 /\ (~reported[c])
       /\ state[c] # "gone" => record[c] = NoTask
       /\ state[c] = "zombie" => handed[c] = (IF reported[c] THEN 1 ELSE 0)
       /\ state[c] = "gone" => handed[c] = (IF record[c] = NoTask THEN 1 ELSE 0)

WInv == TypeOK /\ StagesOK /\ ParentsOK /\ Ledger

(* The pids are distinct, and each thread belongs to its process. *)
LEMMA Constants ==
  ASSUME WaitAssumption
  PROVE  /\ init # Parent /\ NoTask \notin Tasks
         /\ init \in Tasks \ (Workers \cup Kids) /\ Parent \in Tasks \ (Workers \cup Kids)
         /\ Workers \subseteq Tasks \ Kids /\ Kids \subseteq Tasks \ Workers
         /\ Callers = Tasks \ Kids /\ Tasks = Callers \cup Kids
         /\ Leaders = Tasks \ Workers
         /\ \A t \in Workers : Tgid(t) = Parent
         /\ \A t \in Tasks \ Workers : Tgid(t) = t
         /\ \A t \in Tasks : Tgid(t) = t => t \notin Workers
         /\ \A t \in Callers : Tgid(t) \in {init, Parent}
  BY DEF WaitAssumption, Tasks, Callers, Leaders, Tgid

(* Whose child a task is, by the parent it names (the find_pid fallback). *)
LEMMA Tgids ==
  ASSUME WaitAssumption, WInv, NEW c \in Tasks \ {init}, state[c] # "unborn"
  PROVE  /\ ppid[c] \in Callers /\ ParentTgid(c) \in Callers
         /\ ppid[c] = init => ParentTgid(c) = init
         /\ ppid[c] = Parent => ParentTgid(c) = Parent
         /\ ppid[c] \in Workers =>
              ParentTgid(c) = IF InSlot(ppid[c]) THEN Parent ELSE ppid[c]
         /\ ParentTgid(c) = init => ppid[c] = init
  <1>1. ppid[c] \in Callers
    BY Constants DEF WInv, ParentsOK, Callers
  <1> QED
    BY <1>1, Constants, SMT DEF WInv, StagesOK, Alive, ParentTgid, InSlot, Callers

(* The initial state. *)
LEMMA InitWInv == ASSUME WaitAssumption, WaitInit PROVE WInv
  <1>1. TypeOK
    BY Constants DEF WaitInit, TypeOK, Callers, NoCall
  <1>2. StagesOK
    BY Constants DEF WaitInit, StagesOK, Alive, Callers, NoCall
  <1>3. ParentsOK
    BY Constants DEF WaitInit, ParentsOK, Callers
  <1>4. Ledger
    BY Constants DEF WaitInit, Ledger
  <1> QED BY <1>1, <1>2, <1>3, <1>4 DEF WInv

CallTypes == [Callers -> [at : {"idle", "try", "prepared", "parked"}, sel : SUBSET Tasks]]

(* A step of the callers' own bookkeeping, or of the requested wakes, moves no  *)
(* exit.                                                                     *)
LEMMA CallsKeep ==
  ASSUME WInv, UNCHANGED <<state, ppid, step, reported, record, handed>>,
         ignores' \in BOOLEAN, wake' \subseteq Tasks, call' \in CallTypes,
         \A t \in Callers : call'[t].at # "idle" => Alive(t)
  PROVE  WInv'
  <1>1. TypeOK' BY DEF WInv, TypeOK, CallTypes
  <1>2. StagesOK' BY DEF WInv, StagesOK, Alive
  <1>3. ParentsOK' BY DEF WInv, ParentsOK
  <1>4. Ledger' BY DEF WInv, Ledger
  <1> QED BY <1>1, <1>2, <1>3, <1>4 DEF WInv

(* What a step of one call does to the calls. *)
LEMMA CallTyped ==
  ASSUME WInv, NEW t \in Callers, NEW a \in {"idle", "try", "prepared", "parked"}, NEW s \in SUBSET Tasks,
         a # "idle" => Alive(t)
  PROVE  /\ [call EXCEPT ![t] = [at |-> a, sel |-> s]] \in CallTypes
         /\ \A u \in Callers : [call EXCEPT ![t] = [at |-> a, sel |-> s]][u].at # "idle" => Alive(u)
  BY DEF WInv, TypeOK, StagesOK, CallTypes

LEMMA AtTyped ==
  ASSUME WInv, NEW t \in Callers, NEW a \in {"idle", "try", "prepared", "parked"}, Alive(t)
  PROVE  /\ [call EXCEPT ![t].at = a] = [call EXCEPT ![t] = [at |-> a, sel |-> call[t].sel]]
         /\ call[t].sel \in SUBSET Tasks
  <1>1. call[t] \in [at : {"idle", "try", "prepared", "parked"}, sel : SUBSET Tasks]
    BY DEF WInv, TypeOK
  <1>2. [call[t] EXCEPT !.at = a] = [at |-> a, sel |-> call[t].sel]
    BY <1>1, SMT
  <1>3. [call EXCEPT ![t].at = a] = [call EXCEPT ![t] = [call[t] EXCEPT !.at = a]]
    OBVIOUS
  <1> QED BY <1>1, <1>2, <1>3

LEMMA CallersRun ==
  ASSUME WInv, NEW t \in Callers, call[t].at # "idle"
  PROVE  Alive(t)
  BY DEF WInv, StagesOK

LEMMA WaitBeginKeeps ==
  ASSUME WaitAssumption, WInv, NEW t \in Callers, NEW sel \in Selectors, WaitBegin(t, sel)
  PROVE  WInv'
  <1>1. sel \in SUBSET Tasks BY Constants, SMT DEF Selectors
  <1>2. Alive(t) BY DEF WaitBegin
  <1> QED
    BY <1>1, <1>2, CallTyped, CallsKeep DEF WaitBegin, WInv, TypeOK

LEMMA NoChildrenKeeps ==
  ASSUME WaitAssumption, WInv, NEW t \in Callers, TryNoChildren(t) \/ Interrupted(t)
  PROVE  WInv'
  <1>1. call' = [call EXCEPT ![t] = [at |-> "idle", sel |-> {}]]
    BY DEF TryNoChildren, Interrupted, Return, NoCall
  <1> QED
    BY <1>1, CallTyped, CallsKeep DEF TryNoChildren, Interrupted, WInv, TypeOK

LEMMA ParkKeeps ==
  ASSUME WaitAssumption, WInv, NEW t \in Callers, TryStill(t) \/ Peek(t)
  PROVE  WInv'
  <1>1. Alive(t) BY CallersRun DEF TryStill, Peek
  <1>2. PICK a \in {"prepared", "try", "parked"} : call' = [call EXCEPT ![t].at = a]
    BY DEF TryStill, Peek
  <1>3. call' = [call EXCEPT ![t] = [at |-> a, sel |-> call[t].sel]] /\ call[t].sel \in SUBSET Tasks
    BY <1>1, <1>2, AtTyped
  <1> QED
    BY <1>1, <1>3, CallTyped, CallsKeep, ZenonT(30) DEF TryStill, Peek, WInv, TypeOK

LEMMA TickKeeps == ASSUME WaitAssumption, WInv, Tick PROVE WInv'
  <1>1. call' \in CallTypes
    BY SMT DEF Tick, WInv, TypeOK, CallTypes
  <1>2. \A t \in Callers : call'[t].at # "idle" => Alive(t)
    BY CallersRun DEF Tick
  <1> QED
    BY <1>1, <1>2, CallsKeep DEF Tick, WInv, TypeOK

LEMMA SetIgnoreKeeps == ASSUME WInv, SetIgnore PROVE WInv'
  <1>1. ignores' \in BOOLEAN /\ UNCHANGED <<state, ppid, step, reported, record, wake, call, handed>>
    BY DEF SetIgnore
  <1> QED BY <1>1, CallersRun, CallsKeep DEF WInv, TypeOK, CallTypes

LEMMA StutterKeepsWInv == ASSUME WInv, UNCHANGED waitVars PROVE WInv'
  <1>1. UNCHANGED <<state, ppid, step, reported, record, ignores, wake, call, handed>>
    BY DEF waitVars
  <1> QED BY <1>1, CallersRun, CallsKeep DEF WInv, TypeOK, CallTypes

(* A child starts with no exit to its name. *)
LEMMA ForkKeeps ==
  ASSUME WaitAssumption, WInv, NEW t \in Tasks, NEW c \in Kids, Fork(t, c)
  PROVE  WInv'
  <1>1. t \in Callers /\ c \in Tasks /\ c \notin Callers /\ state[c] = "unborn"
    BY Constants DEF Fork
  <1>2. /\ state' = [state EXCEPT ![c] = "live"]
        /\ ppid' = [ppid EXCEPT ![c] = t]
        /\ UNCHANGED <<step, reported, record, ignores, wake, call, handed>>
    BY DEF Fork, ForkParent
  <1>3. TypeOK'
    BY <1>1, <1>2, Constants, SMT DEF WInv, TypeOK
  <1>4. StagesOK'
    BY <1>1, <1>2, Constants, SMT DEF WInv, TypeOK, StagesOK, Alive
  <1>5. ParentsOK'
    BY <1>1, <1>2, Constants, SMT DEF WInv, TypeOK, ParentsOK
  <1>6. Ledger'
    BY <1>1, <1>2, Constants, SMT DEF WInv, TypeOK, Ledger
  <1> QED BY <1>3, <1>4, <1>5, <1>6 DEF WInv

(* exit and the end of exit_group's kill loop mark the zombie. *)
LEMMA ZombieKeeps ==
  ASSUME WaitAssumption, WInv, NEW t \in Tasks \ {init}, state[t] = "live",
         t \in Callers => call[t].at = "idle",
         state' = [state EXCEPT ![t] = "zombie"],
         step' = [step EXCEPT ![t] = IF Tgid(t) = t THEN "reparent" ELSE "reap"],
         UNCHANGED <<ppid, reported, record, ignores, wake, call, handed>>
  PROVE  WInv'
  <1>3. TypeOK'
    BY Constants, ZenonT(30) DEF WInv, TypeOK
  <1>4. StagesOK'
    BY Constants, SMT DEF WInv, TypeOK, StagesOK, Alive
  <1>5. ParentsOK'
    BY Constants, ZenonT(30) DEF WInv, TypeOK, ParentsOK
  <1>6. Ledger'
    BY Constants, SMT DEF WInv, TypeOK, Ledger
  <1> QED BY <1>3, <1>4, <1>5, <1>6 DEF WInv

LEMMA ExitKeeps ==
  ASSUME WaitAssumption, WInv, NEW t \in Tasks, Exit(t) \/ (t = Parent /\ KillDone)
  PROVE  WInv'
  <1>1. CASE Exit(t)
    BY <1>1, ZombieKeeps DEF Exit, Alive, Free
  <1>2. CASE t = Parent /\ KillDone
    <2>1. state[Parent] = "live" /\ step[Parent] = "kill"
      BY <1>2, Constants DEF KillDone, WInv, StagesOK
    <2>2. call[Parent].at = "idle"
      BY <2>1 DEF WInv, StagesOK, Alive, Callers
    <2> QED
      BY <1>2, <2>1, <2>2, ZombieKeeps, Constants DEF KillDone
  <1> QED BY <1>1, <1>2

(* reparent_children touches the names of parents only, and names init. *)
LEMMA ReparentFacts ==
  ASSUME WaitAssumption, WInv, NEW t \in Tasks \ Workers, t # init, Reparent(t)
  PROVE  /\ ppid' \in [Tasks -> Tasks \cup {NoTask}] /\ record' \in [Tasks -> Tasks \cup {NoTask}]
         /\ wake' \subseteq Tasks
         /\ \A c \in Tasks : ppid'[c] = ppid[c] \/ (c \in Kids /\ InSlot(c) /\ ppid'[c] = init)
         /\ \A c \in Tasks : record'[c] = record[c] \/ (record[c] # NoTask /\ record'[c] = init)
  <1>1. ppid' \in [Tasks -> Tasks \cup {NoTask}] /\ record' \in [Tasks -> Tasks \cup {NoTask}]
    BY Constants DEF Reparent, WInv, TypeOK
  <1>2. wake' \subseteq Tasks
    BY Constants, ZenonT(30) DEF Reparent, WInv, TypeOK
  <1>3. ASSUME NEW c \in Tasks, c \in LiveChildren(t)
        PROVE  c \in Kids /\ InSlot(c)
    <2>1. c \in Leaders /\ InSlot(c) /\ ParentTgid(c) = t
      BY <1>3 DEF LiveChildren, Processes
    <2>2. c # init
      BY <2>1, Constants DEF ParentTgid, WInv, TypeOK
    <2>3. c # Parent
      BY <2>1, <2>2, Tgids, Constants DEF WInv, ParentsOK, InSlot
    <2> QED BY <2>1, <2>2, <2>3, Constants DEF Callers
  <1>4. \A c \in Tasks : ppid'[c] = ppid[c] \/ (c \in Kids /\ InSlot(c) /\ ppid'[c] = init)
    BY <1>3 DEF Reparent
  <1>5. \A c \in Tasks : record'[c] = record[c] \/ (record[c] # NoTask /\ record'[c] = init)
    BY DEF Reparent, HandedOver, RecordsOf, Pool
  <1> QED BY <1>1, <1>2, <1>4, <1>5

LEMMA ReparentKeeps ==
  ASSUME WaitAssumption, WInv, NEW t \in Tasks \ Workers, t # init, Reparent(t),
         NEW s \in {"kill", "reap"},
         s = "kill" => t = Parent /\ Alive(t) /\ call[t].at = "idle",
         s = "reap" => state[t] = "zombie",
         step' = [step EXCEPT ![t] = s],
         UNCHANGED <<state, reported, ignores, call, handed>>
  PROVE  WInv'
  <1>1. TypeOK'
    BY ReparentFacts, Constants, SMT DEF WInv, TypeOK, InSlot
  <1>2. StagesOK'
    BY Constants, SMT DEF WInv, TypeOK, StagesOK, Alive
  <1>3. ParentsOK'
    BY ReparentFacts, Constants DEF WInv, TypeOK, ParentsOK, Callers
  <1>4. Ledger'
    BY ReparentFacts, Constants, SMT DEF WInv, TypeOK, Ledger
  <1> QED BY <1>1, <1>2, <1>3, <1>4, ZenonT(30) DEF WInv

LEMMA ExitReparentKeeps ==
  ASSUME WaitAssumption, WInv, NEW t \in Tasks, ExitReparent(t)
  PROVE  WInv'
  <1>1. state[t] = "zombie" /\ t \notin Workers /\ t # init
    BY Constants DEF ExitReparent, WInv, StagesOK, Alive
  <1> QED BY <1>1, ReparentKeeps DEF ExitReparent

LEMMA ExitGroupKeeps ==
  ASSUME WaitAssumption, WInv, ExitGroup
  PROVE  WInv'
  <1>1. Parent \in Tasks \ Workers /\ Parent # init /\ call[Parent].at = "idle"
    BY Constants DEF ExitGroup, Free, Callers
  <1> QED BY <1>1, ReparentKeeps DEF ExitGroup

(* log_exit: the exit leaves the slot for the log, or is discarded, or was       *)
(* taken from the slot before.                                               *)
LEMMA ReapFacts ==
  ASSUME WaitAssumption, WInv, NEW t \in Tasks \ {init}, state[t] # "unborn", log_exit(t)
  PROVE  /\ state' = [state EXCEPT ![t] = "gone"]
         /\ \E p \in Callers \cup {NoTask} :
              /\ record' = [record EXCEPT ![t] = p]
              /\ t \in Workers => p = NoTask
              /\ p # NoTask => p = ParentTgid(t)
              /\ t \notin Workers =>
                   handed' = [handed EXCEPT ![t] = IF p = NoTask /\ ~reported[t] THEN @ + 1 ELSE @]
              /\ reported[t] => p = NoTask
         /\ t \in Workers => handed' = handed
         /\ wake' = wake \cup {ParentTgid(t)}
         /\ ParentTgid(t) \in Callers
  <1>1. ParentTgid(t) \in Callers /\ ParentTgid(t) # NoTask
    BY Tgids, Constants, SMT
  <1>2. state' = [state EXCEPT ![t] = "gone"] /\ wake' = wake \cup {ParentTgid(t)}
    BY DEF log_exit, RequestWake
  <1>3. Tgid(t) = t <=> t \notin Workers
    BY Constants
  <1>4. t \in Workers => handed' = handed
    BY <1>3 DEF log_exit, WInv, TypeOK
  <1> DEFINE p == IF Tgid(t) = t /\ ~BornConsumed(t) THEN ParentTgid(t) ELSE NoTask
  <1>5. p \in Callers \cup {NoTask} /\ record' = [record EXCEPT ![t] = p]
    BY <1>1 DEF log_exit
  <1>6. (t \in Workers => p = NoTask) /\ (p # NoTask => p = ParentTgid(t)) /\ (reported[t] => p = NoTask)
    BY <1>3 DEF BornConsumed
  <1>7. t \notin Workers =>
          handed' = [handed EXCEPT ![t] = IF p = NoTask /\ ~reported[t] THEN @ + 1 ELSE @]
    BY <1>1, <1>3 DEF log_exit, BornConsumed
  <1> QED BY <1>1, <1>2, <1>4, <1>5, <1>6, <1>7, ZenonT(30)

LEMMA ReapKeeps ==
  ASSUME WaitAssumption, WInv, NEW t \in Tasks \ {init},
         state[t] = "zombie" \/ (t \in Workers /\ InSlot(t)), log_exit(t),
         step' = [step EXCEPT ![t] = "done"],
         \/ t \in Workers /\ call' = [call EXCEPT ![t] = NoCall]
         \/ (t \in Callers => call[t].at = "idle") /\ call' = call,
         UNCHANGED <<ppid, reported, ignores>>
  PROVE  WInv'
  <1>1. state[t] # "unborn"
    BY Constants, ZenonT(30) DEF InSlot
  <1>2. state' = [state EXCEPT ![t] = "gone"] /\ wake' \subseteq Tasks
    BY <1>1, ReapFacts, Constants, SMT DEF WInv, TypeOK
  <1>3. PICK p \in Callers \cup {NoTask} :
              /\ record' = [record EXCEPT ![t] = p]
              /\ t \in Workers => p = NoTask
              /\ t \notin Workers =>
                   handed' = [handed EXCEPT ![t] = IF p = NoTask /\ ~reported[t] THEN @ + 1 ELSE @]
              /\ t \in Workers => handed' = handed
              /\ reported[t] => p = NoTask
    BY <1>1, ReapFacts
  <1>4. call' \in CallTypes /\ \A u \in Callers : call'[u].at # "idle" => u # t /\ call[u].at # "idle"
    <2>1. CASE t \in Workers /\ call' = [call EXCEPT ![t] = [at |-> "idle", sel |-> {}]]
      <3>1. t \in Callers BY <2>1 DEF Callers
      <3>2. call' \in CallTypes BY <2>1, <3>1, CallTyped, ZenonT(30)
      <3>3. \A u \in Callers : call'[u] = IF u = t THEN [at |-> "idle", sel |-> {}] ELSE call[u]
        BY <2>1, <3>1 DEF WInv, TypeOK
      <3> QED BY <3>2, <3>3, SMT
    <2>2. CASE (t \in Callers => call[t].at = "idle") /\ call' = call
      BY <2>2 DEF WInv, TypeOK, CallTypes
    <2> QED BY <2>1, <2>2 DEF NoCall
  <1>5. record' \in [Tasks -> Tasks \cup {NoTask}] /\ handed' \in [Tasks -> Nat]
    BY <1>3, Constants, SMT DEF WInv, TypeOK
  <1>6. TypeOK'
    BY <1>1, <1>2, <1>4, <1>5, Constants, ZenonT(30), SMT DEF WInv, TypeOK, CallTypes
  <1>7. StagesOK'
    BY <1>1, <1>2, <1>4, Constants, SMT DEF WInv, TypeOK, StagesOK, Alive
  <1>8. ParentsOK'
    BY <1>1, <1>2, <1>3, Constants, SMT DEF WInv, TypeOK, ParentsOK
  <1>9. Ledger'
    <2>1. \A w \in Workers : record'[w] = NoTask
      BY <1>3, Constants, ZenonT(30) DEF WInv, TypeOK, Ledger
    <2>2. ASSUME NEW c \in Tasks \ Workers, c # t
          PROVE  state'[c] = state[c] /\ record'[c] = record[c] /\ handed'[c] = handed[c] /\ reported'[c] = reported[c]
      BY <1>2, <1>3, <2>2 DEF WInv, TypeOK
    <2>3. t \notin Workers => state'[t] = "gone" /\ handed'[t] = (IF record'[t] = NoTask THEN 1 ELSE 0)
      BY <1>2, <1>3, SMT DEF WInv, TypeOK, Ledger
    <2> QED BY <2>1, <2>2, <2>3, ZenonT(30), SMT DEF WInv, Ledger
  <1> QED BY <1>6, <1>7, <1>8, <1>9 DEF WInv

LEMMA SwitchOutKeeps ==
  ASSUME WaitAssumption, WInv, NEW t \in Tasks, SwitchOut(t) \/ KillSibling(t)
  PROVE  WInv'
  <1>1. CASE SwitchOut(t)
    <2>1. state[t] = "zombie" /\ t # init /\ (t \in Callers => call[t].at = "idle")
      BY <1>1 DEF SwitchOut, WInv, StagesOK, Alive
    <2> QED BY <1>1, <2>1, ReapKeeps DEF SwitchOut
  <1>2. CASE KillSibling(t)
    <2>1. t \in Workers /\ InSlot(t) /\ t # init
      BY <1>2, Constants DEF KillSibling
    <2> QED BY <1>2, <2>1, ReapKeeps DEF KillSibling
  <1> QED BY <1>1, <1>2

(* What a successful wait takes: an unreported zombie's exit, marking the slot,  *)
(* or a record, consuming it.                                                *)
LEMMA TakenFacts ==
  ASSUME WaitAssumption, WInv, NEW t \in Callers, TryReaped(t)
  PROVE  \E c \in Tasks \ Workers :
           /\ handed' = [handed EXCEPT ![c] = @ + 1]
           /\ \/ /\ state[c] = "zombie" /\ (~reported[c]) /\ ParentTgid(c) = Tgid(t)
                 /\ reported' = [reported EXCEPT ![c] = TRUE] /\ record' = record
              \/ /\ record[c] # NoTask
                 /\ record' = [record EXCEPT ![c] = NoTask] /\ reported' = reported
  <1>1. CASE Zombies(Tgid(t), call[t].sel) # {}
    <2>1. PICK c \in Zombies(Tgid(t), call[t].sel) :
            /\ reported' = [reported EXCEPT ![c] = TRUE]
            /\ handed' = [handed EXCEPT ![c] = @ + 1]
            /\ UNCHANGED record
      BY <1>1 DEF TryReaped
    <2>2. c \in Tasks \ Workers /\ state[c] = "zombie" /\ (~reported[c]) /\ ParentTgid(c) = Tgid(t)
      BY Constants DEF Zombies, Slots, Processes
    <2> QED BY <2>1, <2>2
  <1>2. CASE ~(Zombies(Tgid(t), call[t].sel) # {})
    <2>1. PICK c \in Records(Tgid(t), call[t].sel) :
            /\ record' = [record EXCEPT ![c] = NoTask]
            /\ handed' = [handed EXCEPT ![c] = @ + 1]
            /\ UNCHANGED reported
      BY <1>2 DEF TryReaped
    <2>2. c \in Tasks /\ record[c] # NoTask
      BY DEF Records, Pool
    <2>3. c \notin Workers
      BY <2>2 DEF WInv, Ledger
    <2> QED BY <2>1, <2>2, <2>3
  <1> QED BY <1>1, <1>2

LEMMA ReapedKeeps ==
  ASSUME WaitAssumption, WInv, NEW t \in Callers, TryReaped(t)
  PROVE  WInv'
  <1>1. PICK c \in Tasks \ Workers :
           /\ handed' = [handed EXCEPT ![c] = @ + 1]
           /\ \/ /\ state[c] = "zombie" /\ (~reported[c])
                 /\ reported' = [reported EXCEPT ![c] = TRUE] /\ record' = record
              \/ /\ record[c] # NoTask
                 /\ record' = [record EXCEPT ![c] = NoTask] /\ reported' = reported
    BY TakenFacts
  <1>2. UNCHANGED <<state, ppid, step, ignores, wake>> /\ call' = [call EXCEPT ![t] = [at |-> "idle", sel |-> {}]]
    BY DEF TryReaped, Return, NoCall
  <1>3. call' \in CallTypes /\ \A u \in Callers : call'[u].at # "idle" => Alive(u)
    BY <1>2, CallTyped
  <1>4. /\ record' \in [Tasks -> Tasks \cup {NoTask}] /\ handed' \in [Tasks -> Nat]
        /\ reported' \in [Tasks -> BOOLEAN]
    <2>1. handed' \in [Tasks -> Nat]
      BY <1>1, SMT DEF WInv, TypeOK
    <2>2. record' \in [Tasks -> Tasks \cup {NoTask}]
      BY <1>1 DEF WInv, TypeOK
    <2>3. reported' = [reported EXCEPT ![c] = TRUE] \/ reported' = reported
      BY <1>1
    <2>4. reported \in [Tasks -> BOOLEAN]
      BY DEF WInv, TypeOK
    <2>5. reported' \in [Tasks -> BOOLEAN]
      BY <2>3, <2>4, ZenonT(30)
    <2> QED BY <2>1, <2>2, <2>5
  <1>5. TypeOK'
    BY <1>2, <1>3, <1>4 DEF WInv, TypeOK, CallTypes
  <1>6. StagesOK'
    BY <1>2, <1>3 DEF WInv, StagesOK, Alive
  <1>7. ParentsOK'
    BY <1>1, <1>2 DEF WInv, TypeOK, ParentsOK
  <1>8. Ledger'
    <2>1. \A d \in Tasks \ {c} : record'[d] = record[d] /\ handed'[d] = handed[d] /\ reported'[d] = reported[d]
      BY <1>1, ZenonT(30) DEF WInv, TypeOK
    <2>2. CASE state[c] = "zombie" /\ (~reported[c])
                 /\ reported' = [reported EXCEPT ![c] = TRUE] /\ record' = record
      <3>1. handed'[c] = 1 /\ reported'[c] /\ record'[c] = NoTask
        BY <1>1, <2>2, SMT DEF WInv, TypeOK, Ledger
      <3> QED BY <1>2, <2>1, <2>2, <3>1, Constants, SMT DEF WInv, Ledger
    <2>3. CASE record[c] # NoTask
                 /\ record' = [record EXCEPT ![c] = NoTask] /\ reported' = reported
      <3>1. state[c] = "gone" /\ handed'[c] = 1 /\ record'[c] = NoTask
        BY <1>1, <2>3, SMT DEF WInv, TypeOK, Ledger
      <3> QED BY <1>2, <2>1, <2>3, <3>1, Constants, SMT DEF WInv, Ledger
    <2> QED BY <1>1, <2>2, <2>3
  <1> QED BY <1>5, <1>6, <1>7, <1>8 DEF WInv

(* One step of Next, by the kind of step it is. *)
LEMMA StepWInv == ASSUME WaitAssumption, WInv, [WaitNext]_waitVars PROVE WInv'
  <1>1. ASSUME NEW t \in Tasks, Exit(t) \/ ExitStep(t) \/ \E c \in Kids : Fork(t, c)
        PROVE  WInv'
    BY <1>1, ExitKeeps, ExitReparentKeeps, SwitchOutKeeps, ForkKeeps, ZenonT(30) DEF ExitStep
  <1>2. ASSUME NEW t \in Callers, WaitStep(t) \/ Interrupted(t) \/ \E sel \in Selectors : WaitBegin(t, sel)
        PROVE  WInv'
    BY <1>2, ReapedKeeps, NoChildrenKeeps, ParkKeeps, WaitBeginKeeps DEF WaitStep
  <1> QED
    BY <1>1, <1>2, SetIgnoreKeeps, ExitGroupKeeps, TickKeeps, StutterKeepsWInv DEF WaitNext

LEMMA WInductive == ASSUME WaitAssumption PROVE WaitSpec => []WInv
  BY InitWInv, StepWInv, PTL DEF WaitSpec

(* No exit of a child is reported twice, whatever the order of its exit, its    *)
(* parent's, the waits and the discards: log_exit, wait_scan and reparent_children  *)
(* keep every unreported exit in exactly one place.                          *)
THEOREM ReportOnce == ASSUME WaitAssumption PROVE WaitSpec => []ReportedOnce
  <1>1. WInv => ReportedOnce
    BY Constants, SMT DEF WInv, TypeOK, Ledger, ReportedOnce
  <1> QED BY <1>1, WInductive, PTL

-----------------------------------------------------------------------------
(* The process table and the log: both finite, so counting them is exact. *)
LEMMA Counted ==
  ASSUME WaitAssumption
  PROVE  /\ IsFiniteSet(Processes) /\ IsFiniteSet(Pool) /\ IsFiniteSet(Processes') /\ IsFiniteSet(Pool')
         /\ MaxProcesses \in Nat
         /\ Cardinality(Processes) \in Nat /\ Cardinality(Pool) \in Nat
  <1>1. IsFiniteSet({init, Parent})
    <2>1. IsFiniteSet({init}) /\ {init, Parent} = {init} \cup {Parent}
      BY FS_Singleton
    <2> QED BY <2>1, FS_AddElement, ZenonT(30)
  <1>2. IsFiniteSet(Tasks)
    BY <1>1, FS_Union DEF WaitAssumption, Tasks
  <1>3. IsFiniteSet(Processes) /\ IsFiniteSet(Pool) /\ IsFiniteSet(Processes') /\ IsFiniteSet(Pool')
    BY <1>2, FS_Subset DEF Processes, Leaders, Pool
  <1> QED BY <1>3, FS_CardinalityType DEF WaitAssumption

LEMMA OneMore ==
  ASSUME NEW S, IsFiniteSet(S), NEW x
  PROVE  /\ IsFiniteSet(S \cup {x}) /\ Cardinality(S \cup {x}) <= Cardinality(S) + 1
         /\ x \in S => IsFiniteSet(S \ {x}) /\ Cardinality(S \ {x}) = Cardinality(S) - 1
  <1>1. Cardinality(S) \in Nat
    BY FS_CardinalityType
  <1>2. IsFiniteSet(S \cup {x}) /\ Cardinality(S \cup {x}) = IF x \in S THEN Cardinality(S) ELSE Cardinality(S) + 1
    BY FS_AddElement
  <1>3. IsFiniteSet(S \ {x}) /\ Cardinality(S \ {x}) = IF x \in S THEN Cardinality(S) - 1 ELSE Cardinality(S)
    BY FS_RemoveElement
  <1> QED BY <1>1, <1>2, <1>3, SMT

(* A step that adds no process and no record. *)
LEMMA PoolShrinks ==
  ASSUME WaitAssumption, PoolFits, Processes' \subseteq Processes, Pool' \subseteq Pool
  PROVE  PoolFits'
  <1>1. /\ Cardinality(Processes') <= Cardinality(Processes) /\ Cardinality(Pool') <= Cardinality(Pool)
        /\ Cardinality(Processes') \in Nat /\ Cardinality(Pool') \in Nat
    BY Counted, FS_Subset, FS_CardinalityType
  <1> QED BY <1>1, Counted, SMT DEF PoolFits

(* A dead process makes way for its record. *)
LEMMA RecordForProcess ==
  ASSUME WaitAssumption, PoolFits, NEW t \in Processes,
         Processes' \subseteq Processes \ {t}, Pool' \subseteq Pool \cup {t}
  PROVE  PoolFits'
  <1>1. /\ IsFiniteSet(Processes \ {t}) /\ Cardinality(Processes \ {t}) = Cardinality(Processes) - 1
        /\ IsFiniteSet(Pool \cup {t}) /\ Cardinality(Pool \cup {t}) <= Cardinality(Pool) + 1
    BY Counted, OneMore, ZenonT(30)
  <1>2. /\ Cardinality(Processes') <= Cardinality(Processes \ {t})
        /\ Cardinality(Pool') <= Cardinality(Pool \cup {t})
        /\ Cardinality(Processes') \in Nat /\ Cardinality(Pool') \in Nat
        /\ Cardinality(Pool \cup {t}) \in Nat
    BY <1>1, Counted, FS_Subset, FS_CardinalityType
  <1> QED BY <1>1, <1>2, Counted, SMT DEF PoolFits

(* admit_locked counts processes and records before it lets one more in. *)
LEMMA ForkFits ==
  ASSUME WaitAssumption, WInv, PoolFits, NEW t \in Tasks, NEW c \in Kids, Fork(t, c)
  PROVE  PoolFits'
  <1>1. Processes' \subseteq Processes \cup {c} /\ Pool' = Pool
    BY Constants, SMT DEF Fork, Processes, InSlot, WInv, TypeOK, Pool
  <1>2. IsFiniteSet(Processes \cup {c}) /\ Cardinality(Processes \cup {c}) <= Cardinality(Processes) + 1
    BY Counted, OneMore
  <1>3. /\ Cardinality(Processes') <= Cardinality(Processes \cup {c}) /\ Cardinality(Processes') \in Nat
        /\ Cardinality(Processes \cup {c}) \in Nat
    BY <1>1, <1>2, FS_Subset, FS_CardinalityType
  <1> QED BY <1>1, <1>2, <1>3, Counted, SMT DEF Fork, Admitted, PoolFits

LEMMA StepPool ==
  ASSUME WaitAssumption, WInv, PoolFits, [WaitNext]_waitVars
  PROVE  PoolFits'
  <1>1. ASSUME NEW t \in Tasks, Exit(t) \/ (t = Parent /\ KillDone)
        PROVE  PoolFits'
    <2>1. state[t] = "live" /\ state' = [state EXCEPT ![t] = "zombie"] /\ record' = record
      BY <1>1, Constants DEF Exit, KillDone, Alive, WInv, StagesOK
    <2>2. Processes' \subseteq Processes /\ Pool' \subseteq Pool
      BY <2>1, SMT DEF Processes, InSlot, Pool, WInv, TypeOK
    <2> QED BY <2>2, PoolShrinks
  <1>2. ASSUME NEW t \in Tasks, ExitReparent(t)
        PROVE  PoolFits'
    <2>1. t \notin Workers /\ t # init /\ Reparent(t) /\ state' = state
      BY <1>2 DEF ExitReparent, WInv, StagesOK, Alive
    <2>2. Pool' \subseteq Pool
      BY <2>1, ReparentFacts DEF Pool
    <2> QED BY <2>1, <2>2, PoolShrinks DEF Processes, InSlot
  <1>3. CASE ExitGroup
    <2>1. Reparent(Parent) /\ state' = state
      BY <1>3 DEF ExitGroup
    <2>2. Pool' \subseteq Pool
      BY <2>1, ReparentFacts, Constants, ZenonT(30) DEF Pool
    <2> QED BY <2>1, <2>2, PoolShrinks DEF Processes, InSlot
  <1>4. ASSUME NEW t \in Tasks, SwitchOut(t)
        PROVE  PoolFits'
    <2>1. t # init /\ state[t] = "zombie" /\ log_exit(t)
      BY <1>4 DEF SwitchOut, WInv, StagesOK, Alive
    <2>2. PICK p \in Callers \cup {NoTask} : record' = [record EXCEPT ![t] = p] /\ (t \in Workers => p = NoTask)
      BY <2>1, ReapFacts
    <2>3. state' = [state EXCEPT ![t] = "gone"]
      BY <2>1 DEF log_exit
    <2>4. Processes' \subseteq Processes \ {t}
      BY <2>3, SMT DEF Processes, InSlot, WInv, TypeOK
    <2>5. CASE t \in Workers
      <3>1. Pool' \subseteq Pool
        BY <2>2, <2>5 DEF Pool, WInv, TypeOK
      <3> QED BY <2>4, <3>1, PoolShrinks
    <2>6. CASE t \notin Workers
      <3>1. t \in Processes
        BY <2>1, <2>6, Constants DEF Processes, InSlot
      <3>2. Pool' \subseteq Pool \cup {t}
        BY <2>2 DEF Pool, WInv, TypeOK
      <3> QED BY <2>4, <3>1, <3>2, RecordForProcess
    <2> QED BY <2>5, <2>6
  <1>5. ASSUME NEW t \in Tasks, KillSibling(t)
        PROVE  PoolFits'
    <2>1. t # init /\ t \in Workers /\ state[t] # "unborn" /\ log_exit(t)
      BY <1>5, Constants DEF KillSibling, InSlot
    <2>2. record' = [record EXCEPT ![t] = NoTask]
      BY <2>1, ReapFacts, ZenonT(30)
    <2>3. state' = [state EXCEPT ![t] = "gone"]
      BY <2>1 DEF log_exit
    <2>4. Processes' \subseteq Processes /\ Pool' \subseteq Pool
      BY <2>2, <2>3, SMT DEF Processes, InSlot, Pool, WInv, TypeOK
    <2> QED BY <2>4, PoolShrinks
  <1>6. ASSUME NEW t \in Callers, TryReaped(t)
        PROVE  PoolFits'
    <2>1. PICK c \in Tasks : record' = record \/ record' = [record EXCEPT ![c] = NoTask]
      BY <1>6, TakenFacts
    <2>2. Pool' \subseteq Pool /\ state' = state
      BY <1>6, <2>1 DEF Pool, WInv, TypeOK, TryReaped
    <2> QED BY <2>2, PoolShrinks, ZenonT(30) DEF Processes, InSlot
  <1>7. CASE UNCHANGED <<state, record>>
    BY <1>7, PoolShrinks DEF Processes, InSlot, Pool
  <1>8. ASSUME NEW t \in Callers, NEW sel \in Selectors,
               TryNoChildren(t) \/ TryStill(t) \/ Peek(t) \/ Interrupted(t) \/ WaitBegin(t, sel)
        PROVE  UNCHANGED <<state, record>>
    BY <1>8 DEF TryNoChildren, TryStill, Peek, Interrupted, WaitBegin
  <1>9. SetIgnore \/ Tick \/ UNCHANGED waitVars => UNCHANGED <<state, record>>
    BY DEF SetIgnore, Tick, waitVars
  <1>10. Tasks \in Selectors
    BY ZenonT(30) DEF Selectors
  <1>11. ASSUME NEW t \in Tasks, Exit(t) \/ ExitStep(t) \/ \E c \in Kids : Fork(t, c)
         PROVE  PoolFits'
    BY <1>1, <1>2, <1>4, <1>5, <1>11, ForkFits, ZenonT(30) DEF ExitStep
  <1>12. ASSUME NEW t \in Callers, WaitStep(t) \/ Interrupted(t) \/ \E sel \in Selectors : WaitBegin(t, sel)
         PROVE  PoolFits'
    BY <1>6, <1>7, <1>8, <1>10, <1>12 DEF WaitStep
  <1> QED BY <1>3, <1>7, <1>9, <1>11, <1>12, ZenonT(30) DEF WaitNext

LEMMA InitPool == ASSUME WaitAssumption, WaitInit PROVE PoolFits
  <1>1. Processes = {init, Parent} /\ Pool = {}
    BY Constants, SMT DEF WaitInit, Processes, InSlot, Pool, Tasks
  <1>2. IsFiniteSet({init}) /\ Cardinality({init}) = 1
    BY FS_Singleton
  <1>3. Cardinality({init} \cup {Parent}) <= Cardinality({init}) + 1 /\ IsFiniteSet({init} \cup {Parent})
    BY <1>2, OneMore
  <1>4. Cardinality({init} \cup {Parent}) <= 2
    BY <1>2, <1>3, SMT
  <1>5. {init, Parent} = {init} \cup {Parent} /\ Cardinality({}) = 0
    BY FS_EmptySet
  <1>6. Cardinality({init, Parent}) \in Nat
    BY <1>3, <1>5, FS_CardinalityType
  <1> QED BY <1>1, <1>4, <1>5, <1>6, SMT DEF PoolFits, WaitAssumption

(* An exit is reported once, and the log never overflows: a process that dies   *)
(* leaves the slot that fork's admission counted for its record (log_exit,      *)
(* admit_locked).                                                            *)
THEOREM Deaths == ASSUME WaitAssumption PROVE WaitSpec => []EachDeathOnce
  <1>1. WaitInit => PoolFits
    BY InitPool
  <1>2. WInv /\ PoolFits /\ [WaitNext]_waitVars => PoolFits'
    BY StepPool
  <1>3. WaitSpec => []PoolFits
    BY <1>1, <1>2, WInductive, PTL DEF WaitSpec
  <1>4. ReportedOnce /\ PoolFits => EachDeathOnce
    BY DEF EachDeathOnce
  <1> QED BY <1>3, <1>4, ReportOnce, PTL

-----------------------------------------------------------------------------
(* A parked wait whose answer has changed has a wake requested, or a child whose *)
(* exit has still to request it.                                             *)
ChildAt(c, p) == c \in Processes /\ ParentTgid(c) = p
ExitComing(p, sel) == \E c \in sel : ChildAt(c, p) /\ state[c] = "zombie"
SleepAt(t, s) ==
  (call[t].at = "parked" /\ call[t].sel = s /\ step[Tgid(t)] = "run" /\ ~StillRunning(Tgid(t), s)) =>
  Tgid(t) \in wake \/ ExitComing(Tgid(t), s)
SleepOK == \A t \in Callers : \A s \in SUBSET Tasks : SleepAt(t, s)

(* While the live children stay, and no exit or record is added, a process's     *)
(* answer to a wait is still that they run.                                  *)
LEMMA AnswerStays ==
  ASSUME NEW p, NEW sel,
         \A c \in sel : ChildAt(c, p) /\ state[c] # "zombie" => ChildAt(c, p)' /\ state'[c] # "zombie",
         \A c \in sel : ChildAt(c, p)' /\ state'[c] = "zombie" /\ (~reported'[c]) =>
                          ChildAt(c, p) /\ state[c] = "zombie" /\ (~reported[c]),
         \A c \in sel : c \in Pool' /\ record'[c] = p => c \in Pool /\ record[c] = p,
         StillRunning(p, sel)
  PROVE  StillRunning(p, sel)'
  <1>1. \A c : c \in Slots(p, sel) <=> c \in sel /\ ChildAt(c, p)
    BY DEF Slots, ChildAt
  <1>2. \A c : c \in Slots(p, sel)' <=> c \in sel /\ ChildAt(c, p)'
    BY DEF Slots, ChildAt
  <1>3. LiveChild(p, sel)'
    <2>1. PICK c \in Slots(p, sel) : state[c] # "zombie"
      BY DEF StillRunning, LiveChild
    <2>2. c \in Slots(p, sel)' /\ state'[c] # "zombie"
      BY <1>1, <1>2, <2>1
    <2> QED BY <2>2 DEF LiveChild
  <1>4. Zombies(p, sel) = {} /\ Records(p, sel) = {}
    BY DEF StillRunning, Waitable
  <1>5. Zombies(p, sel)' = {}
    BY <1>1, <1>2, <1>4 DEF Zombies
  <1>6. Records(p, sel)' = {}
    BY <1>4 DEF Records
  <1> QED BY <1>3, <1>5, <1>6 DEF StillRunning, Waitable

(* So a step that does no more than that to a process wakes nobody it has not     *)
(* to wake.                                                                  *)
LEMMA SleepStays ==
  ASSUME NEW t \in Callers, NEW s, SleepAt(t, s),
         call'[t].at = "parked" => call'[t] = call[t],
         step'[Tgid(t)] = "run" => step[Tgid(t)] = "run",
         Tgid(t) \in wake => Tgid(t) \in wake',
         \A c \in s :
           /\ ChildAt(c, Tgid(t)) /\ state[c] # "zombie" => ChildAt(c, Tgid(t))' /\ state'[c] # "zombie"
           /\ ChildAt(c, Tgid(t))' /\ state'[c] = "zombie" /\ (~reported'[c]) =>
                ChildAt(c, Tgid(t)) /\ state[c] = "zombie" /\ (~reported[c])
           /\ c \in Pool' /\ record'[c] = Tgid(t) => c \in Pool /\ record[c] = Tgid(t)
           /\ ChildAt(c, Tgid(t)) /\ state[c] = "zombie" => ChildAt(c, Tgid(t))' /\ state'[c] = "zombie"
  PROVE  SleepAt(t, s)'
  <1>1. StillRunning(Tgid(t), s) => StillRunning(Tgid(t), s)'
    BY AnswerStays
  <1>2. ExitComing(Tgid(t), s) => ExitComing(Tgid(t), s)'
    BY DEF ExitComing
  <1> QED BY <1>1, <1>2 DEF SleepAt

(* A step that changes calls only, and parks nobody new. *)
LEMMA CallsSleep ==
  ASSUME SleepOK, UNCHANGED <<state, ppid, step, reported, record, wake>>,
         \A t \in Callers : call'[t].at = "parked" => call'[t] = call[t]
  PROVE  SleepOK'
  <1> SUFFICES ASSUME NEW t \in Callers, NEW s \in SUBSET Tasks PROVE SleepAt(t, s)'
    BY DEF SleepOK
  <1>1. SleepAt(t, s)
    BY DEF SleepOK
  <1>2. \A c : ChildAt(c, Tgid(t))' <=> ChildAt(c, Tgid(t))
    BY DEF ChildAt, Processes, InSlot, ParentTgid
  <1>3. Pool' = Pool
    BY DEF Pool
  <1> QED
    BY <1>1, <1>2, <1>3, SleepStays, ZenonT(20)

LEMMA IdleSleep ==
  ASSUME WInv, SleepOK, NEW t \in Callers, NEW c \in [at : {"idle", "try", "prepared"}, sel : SUBSET Tasks],
         UNCHANGED <<state, ppid, step, reported, record, wake>>,
         call' = [call EXCEPT ![t] = c]
  PROVE  SleepOK'
  <1>1. \A u \in Callers : call'[u] = IF u = t THEN c ELSE call[u]
    BY DEF WInv, TypeOK
  <1>2. c.at # "parked"
    OBVIOUS
  <1> QED BY <1>1, <1>2, CallsSleep

LEMMA BookSleep ==
  ASSUME WaitAssumption, WInv, SleepOK, NEW t \in Callers, NEW sel \in Selectors,
         TryNoChildren(t) \/ Interrupted(t) \/ TryStill(t) \/ WaitBegin(t, sel)
  PROVE  SleepOK'
  <1>1. CASE TryNoChildren(t) \/ Interrupted(t)
    <2>1. call' = [call EXCEPT ![t] = [at |-> "idle", sel |-> {}]]
      BY <1>1 DEF TryNoChildren, Interrupted, Return, NoCall
    <2> QED BY <1>1, <2>1, IdleSleep, ZenonT(30) DEF TryNoChildren, Interrupted
  <1>2. CASE TryStill(t)
    <2>1. Alive(t)
      BY <1>2, CallersRun, ZenonT(30) DEF TryStill
    <2>2. call' = [call EXCEPT ![t] = [at |-> "prepared", sel |-> call[t].sel]] /\ call[t].sel \in SUBSET Tasks
      BY <1>2, <2>1, AtTyped DEF TryStill
    <2> QED BY <1>2, <2>2, IdleSleep DEF TryStill
  <1>3. CASE WaitBegin(t, sel)
    <2>1. sel \in SUBSET Tasks
      BY Constants, SMT DEF Selectors
    <2> QED BY <1>3, <2>1, IdleSleep, ZenonT(30) DEF WaitBegin
  <1> QED BY <1>1, <1>2, <1>3

(* wait_peek: the re-check that commits a park has just seen that they run. *)
LEMMA PeekSleep ==
  ASSUME WInv, SleepOK, NEW t \in Callers, Peek(t)
  PROVE  SleepOK'
  <1>1. PICK a \in {"parked", "try"} : /\ call' = [call EXCEPT ![t].at = a]
                                       /\ a = "parked" => StillRunning(Tgid(t), call[t].sel)
    BY DEF Peek
  <1>2. Alive(t) BY CallersRun DEF Peek
  <1>3. /\ call' = [call EXCEPT ![t] = [at |-> a, sel |-> call[t].sel]]
        /\ call[t].sel \in SUBSET Tasks
    BY <1>1, <1>2, AtTyped
  <1>4. UNCHANGED <<state, ppid, step, reported, record, wake>>
    BY DEF Peek
  <1>5. CASE a = "try"
    BY <1>3, <1>4, <1>5, IdleSleep
  <1>6. CASE a = "parked"
    <2> SUFFICES ASSUME NEW u \in Callers, NEW s \in SUBSET Tasks PROVE SleepAt(u, s)'
    BY DEF SleepOK
    <2>1. call'[u] = IF u = t THEN [at |-> a, sel |-> call[t].sel] ELSE call[u]
      BY <1>3 DEF WInv, TypeOK
    <2>2. StillRunning(Tgid(u), s)' <=> StillRunning(Tgid(u), s)
      BY <1>4 DEF StillRunning, Waitable, Zombies, Records, LiveChild, Slots, Pool, Processes, InSlot, ParentTgid
    <2>3. ExitComing(Tgid(u), s)' <=> ExitComing(Tgid(u), s)
      BY <1>4 DEF ExitComing, ChildAt, Processes, InSlot, ParentTgid
    <2>4. CASE u = t
      <3>1. call'[u].sel = call[t].sel
        BY <2>1, <2>4, SMT
      <3> QED BY <1>1, <1>6, <2>2, <2>4, <3>1, ZenonT(30) DEF SleepAt
    <2>5. CASE u # t
      <3>1. SleepAt(u, s) BY DEF SleepOK
      <3> QED BY <1>4, <2>1, <2>2, <2>3, <2>5, <3>1 DEF SleepAt
    <2> QED BY <2>4, <2>5
  <1> QED BY <1>1, <1>5, <1>6

(* The tick pays every requested wake: whoever still sleeps has an exit coming. *)
LEMMA TickSleep ==
  ASSUME WInv, SleepOK, Tick
  PROVE  SleepOK'
  <1> SUFFICES ASSUME NEW t \in Callers, NEW s \in SUBSET Tasks PROVE SleepAt(t, s)'
    BY DEF SleepOK
  <1>1. SleepAt(t, s)
    BY DEF SleepOK
  <1>2. call'[t].at = "parked" => call'[t] = call[t] /\ Tgid(t) \notin wake
    BY DEF Tick, WInv, TypeOK
  <1>3. UNCHANGED <<state, ppid, step, reported, record>>
    BY DEF Tick
  <1>4. StillRunning(Tgid(t), s)' <=> StillRunning(Tgid(t), s)
    BY <1>3 DEF StillRunning, Waitable, Zombies, Records, LiveChild, Slots, Pool, Processes, InSlot, ParentTgid
  <1>5. ExitComing(Tgid(t), s)' <=> ExitComing(Tgid(t), s)
    BY <1>3, ZenonT(30) DEF ExitComing, ChildAt, Processes, InSlot, ParentTgid
  <1> QED BY <1>1, <1>2, <1>3, <1>4, <1>5 DEF SleepAt

LEMMA ForkSleep ==
  ASSUME WaitAssumption, WInv, SleepOK, NEW t \in Tasks, NEW k \in Kids, Fork(t, k)
  PROVE  SleepOK'
  <1>1. /\ state[k] = "unborn" /\ state' = [state EXCEPT ![k] = "live"]
        /\ ppid' = [ppid EXCEPT ![k] = t]
        /\ UNCHANGED <<step, reported, record, wake, call>>
    BY DEF Fork, ForkParent
  <1>2. \A c \in Tasks : ppid[c] # k
    <2>1. \A c \in Tasks : (c \in Kids /\ state[c] # "unborn") \/ c \in Workers \/ c = Parent => ppid[c] \in Callers
      BY DEF WInv, ParentsOK, Callers
    <2> QED BY <2>1, Constants, SMT DEF WInv, TypeOK, Callers
  <1>3. \A c \in Tasks \ {k} : /\ state'[c] = state[c] /\ (InSlot(c)' <=> InSlot(c))
                               /\ ParentTgid(c)' = ParentTgid(c)
    <2>1. \A c \in Tasks \ {k} : state'[c] = state[c] /\ ppid'[c] = ppid[c]
      BY <1>1 DEF WInv, TypeOK
    <2>2. \A c \in Tasks \ {k} : InSlot(c)' <=> InSlot(c)
      BY <2>1 DEF InSlot
    <2>3. \A c \in Tasks \ {k} : ppid[c] # NoTask => ppid[c] \in Tasks \ {k}
      BY <1>2 DEF WInv, TypeOK
    <2> QED BY <2>1, <2>2, <2>3 DEF ParentTgid
  <1>4. ~InSlot(k) /\ state'[k] # "zombie" /\ Pool' = Pool
    BY <1>1, Constants, ZenonT(30) DEF InSlot, WInv, TypeOK, Pool
  <1>5. \A c \in Tasks \ {k} : \A p : ChildAt(c, p)' <=> ChildAt(c, p)
    BY <1>3 DEF ChildAt, Processes
  <1>6. \A p : ~ChildAt(k, p)
    BY <1>4 DEF ChildAt, Processes
  <1> SUFFICES ASSUME NEW u \in Callers, NEW s \in SUBSET Tasks PROVE SleepAt(u, s)'
    BY DEF SleepOK
  <1>7. SleepAt(u, s)
    BY DEF SleepOK
  <1> QED BY <1>1, <1>3, <1>4, <1>5, <1>6, <1>7, SleepStays, ZenonT(30)

(* An exit that a sleeper waits for is one that is coming. *)
LEMMA ExitSleep ==
  ASSUME WaitAssumption, WInv, SleepOK, NEW t \in Tasks, Exit(t) \/ (t = Parent /\ KillDone)
  PROVE  SleepOK'
  <1>1. /\ state[t] = "live" /\ state' = [state EXCEPT ![t] = "zombie"]
        /\ UNCHANGED <<ppid, reported, record, wake, call>>
    BY Constants DEF Exit, KillDone, Alive, WInv, StagesOK
  <1>2. PICK q \in {"reparent", "reap"} : step' = [step EXCEPT ![t] = q]
    BY DEF Exit, KillDone
  <1>3. \A c \in Tasks \ {t} : state'[c] = state[c]
    BY <1>1 DEF WInv, TypeOK
  <1>4. \A c : ppid'[c] = ppid[c]
    BY <1>1
  <1>5. \A c \in Tasks : InSlot(c)' <=> InSlot(c)
    BY <1>1, <1>3 DEF InSlot, WInv, TypeOK
  <1>6. \A c \in Tasks : ParentTgid(c)' = ParentTgid(c)
    BY <1>1, <1>5 DEF ParentTgid, WInv, TypeOK
  <1>7. \A c \in Tasks : \A p : ChildAt(c, p)' <=> ChildAt(c, p)
    BY <1>5, <1>6 DEF ChildAt, Processes
  <1>8. Pool' = Pool
    BY <1>1 DEF Pool
  <1>9. \A p : step'[p] = "run" => step[p] = "run"
    BY <1>2, SMT DEF WInv, TypeOK
  <1> SUFFICES ASSUME NEW u \in Callers, NEW s \in SUBSET Tasks PROVE SleepAt(u, s)'
    BY DEF SleepOK
  <1>10. SleepAt(u, s)
    BY DEF SleepOK
  <1>11. CASE t \in s /\ ChildAt(t, Tgid(u))
    <2>1. state'[t] = "zombie"
      BY <1>1 DEF WInv, TypeOK
    <2>2. ExitComing(Tgid(u), s)'
      BY <1>7, <1>11, <2>1, ZenonT(30) DEF ExitComing
    <2> QED BY <2>2 DEF SleepAt
  <1>12. CASE ~(t \in s /\ ChildAt(t, Tgid(u)))
    BY <1>1, <1>3, <1>7, <1>8, <1>9, <1>10, <1>12, SleepStays, ZenonT(30)
  <1> QED BY <1>11, <1>12

(* A wait that succeeds takes an answer away and gives nobody a new one. *)
LEMMA ReapedSleep ==
  ASSUME WaitAssumption, WInv, SleepOK, NEW t \in Callers, TryReaped(t)
  PROVE  SleepOK'
  <1>1. PICK k \in Tasks : \/ reported' = [reported EXCEPT ![k] = TRUE] /\ record' = record
                           \/ record' = [record EXCEPT ![k] = NoTask] /\ reported' = reported
    BY TakenFacts
  <1>2. UNCHANGED <<state, ppid, step, wake>> /\ call' = [call EXCEPT ![t] = [at |-> "idle", sel |-> {}]]
    BY DEF TryReaped, Return, NoCall
  <1>3. \A c \in Tasks : reported[c] => reported'[c]
    BY <1>1 DEF WInv, TypeOK
  <1>4. \A c \in Tasks : \A p : c \in Pool' /\ record'[c] = p => c \in Pool /\ record[c] = p
    BY <1>1 DEF WInv, TypeOK, Pool
  <1>5. \A c : \A p : ChildAt(c, p)' <=> ChildAt(c, p)
    BY <1>2 DEF ChildAt, Processes, InSlot, ParentTgid
  <1> SUFFICES ASSUME NEW u \in Callers, NEW s \in SUBSET Tasks PROVE SleepAt(u, s)'
    BY DEF SleepOK
  <1>6. call'[u].at = "parked" => call'[u] = call[u]
    BY <1>2 DEF WInv, TypeOK
  <1>7. SleepAt(u, s)
    BY DEF SleepOK
  <1> QED BY <1>2, <1>3, <1>4, <1>5, <1>6, <1>7, SleepStays, ZenonT(30)

(* What reparent_children does to a process that is not the dying one: nothing,  *)
(* or it is init and gains children, and records with a wake.                  *)
LEMMA ReparentSleep ==
  ASSUME WaitAssumption, WInv, SleepOK, NEW t \in Tasks \ Workers, t # init, Reparent(t),
         NEW q \in {"kill", "reap"}, step' = [step EXCEPT ![t] = q],
         UNCHANGED <<state, reported, call>>
  PROVE  SleepOK'
  <1>1. \A c \in Tasks : ppid'[c] = IF c \in LiveChildren(t) THEN init ELSE ppid[c]
    BY DEF Reparent
  <1>2. \A c \in Tasks : record'[c] = IF c \in RecordsOf(t) THEN init ELSE record[c]
    BY DEF Reparent, HandedOver
  <1>3. wake \subseteq wake' /\ (RecordsOf(t) # {} => init \in wake')
    BY ZenonT(30) DEF Reparent, HandedOver
  <1>4. \A c : InSlot(c)' <=> InSlot(c)
    BY ZenonT(30) DEF InSlot
  <1>5. \A c \in Tasks : c \in LiveChildren(t) => ParentTgid(c)' = init
    BY <1>1, <1>4, Constants, SMT DEF ParentTgid, WInv, StagesOK, Alive, InSlot
  <1>6. \A c \in Tasks : c \notin LiveChildren(t) => ParentTgid(c)' = ParentTgid(c)
    BY <1>1, <1>4 DEF ParentTgid
  <1>7. \A c \in Tasks : \A p : p # t => (ChildAt(c, p) => ChildAt(c, p)')
    BY <1>4, <1>6 DEF ChildAt, Processes, LiveChildren
  <1>8. \A c \in Tasks : \A p : ChildAt(c, p)' => ChildAt(c, p) \/ (p = init /\ c \in LiveChildren(t))
    BY <1>4, <1>5, <1>6 DEF ChildAt, Processes
  <1>9. \A c \in Tasks : \A p : c \in Pool' /\ record'[c] = p =>
          (c \in Pool /\ record[c] = p) \/ (p = init /\ c \in RecordsOf(t))
    BY <1>2 DEF Pool, RecordsOf
  <1>10. step'[t] # "run" /\ \A p : step'[p] = "run" => step[p] = "run"
    BY SMT DEF WInv, TypeOK
  <1> SUFFICES ASSUME NEW u \in Callers, NEW s \in SUBSET Tasks PROVE SleepAt(u, s)'
    BY DEF SleepOK
  <1>11. SleepAt(u, s)
    BY DEF SleepOK
  <1>12. CASE Tgid(u) = t
    BY <1>10, <1>12 DEF SleepAt
  <1>13. CASE Tgid(u) # t /\ Tgid(u) = init /\ RecordsOf(t) # {}
    BY <1>3, <1>13 DEF SleepAt
  <1>14. CASE Tgid(u) # t /\ Tgid(u) = init /\ \E c \in s : c \in LiveChildren(t) /\ state[c] = "zombie"
    <2>1. PICK c \in s : c \in LiveChildren(t) /\ state[c] = "zombie"
      BY <1>14
    <2>2. ChildAt(c, init)' /\ state'[c] = "zombie"
      BY <1>4, <1>5, <2>1 DEF ChildAt, Processes, LiveChildren
    <2>3. ExitComing(Tgid(u), s)'
      BY <1>14, <2>2, ZenonT(30) DEF ExitComing
    <2> QED BY <2>3 DEF SleepAt
  <1>15. CASE /\ Tgid(u) # t
              /\ Tgid(u) = init => RecordsOf(t) = {} /\ \A c \in s : c \in LiveChildren(t) => state[c] # "zombie"
    BY <1>3, <1>7, <1>8, <1>9, <1>10, <1>11, <1>15, SleepStays, ZenonT(30)
  <1> QED BY <1>12, <1>13, <1>14, <1>15

(* log_exit requests the wake of the process whose child it removes. *)
LEMMA ReapSleep ==
  ASSUME WaitAssumption, WInv, SleepOK, NEW t \in Tasks \ {init},
         state[t] = "zombie" \/ (t \in Workers /\ InSlot(t)), log_exit(t),
         step' = [step EXCEPT ![t] = "done"],
         \A u \in Callers : call'[u].at = "parked" => call'[u] = call[u],
         UNCHANGED <<ppid, reported>>
  PROVE  SleepOK'
  <1>1. state[t] # "unborn"
    BY Constants DEF InSlot
  <1>2. state' = [state EXCEPT ![t] = "gone"] /\ wake' = wake \cup {ParentTgid(t)}
    BY <1>1, ReapFacts, ZenonT(30)
  <1>3. PICK q \in Callers \cup {NoTask} : record' = [record EXCEPT ![t] = q] /\ (q # NoTask => q = ParentTgid(t))
    BY <1>1, ReapFacts
  <1>4. \A c \in Tasks \ {t} : state'[c] = state[c] /\ (InSlot(c)' <=> InSlot(c))
    BY <1>2, ZenonT(30) DEF InSlot, WInv, TypeOK
  <1>5. ~InSlot(t)'
    BY <1>2 DEF InSlot, WInv, TypeOK
  <1>6. t \in Workers => ParentTgid(t) = Parent
    BY <1>1, Tgids, Constants, ZenonT(30) DEF WInv, ParentsOK
  <1>7. \A c \in Tasks : ppid[c] # t => ParentTgid(c)' = ParentTgid(c)
    BY <1>4, ZenonT(30) DEF ParentTgid, WInv, TypeOK
  <1>8. \A c \in Tasks : ppid[c] = t => t \in Callers
    BY Constants, SMT DEF WInv, TypeOK, ParentsOK, Callers
  <1>9. \A c \in Tasks : ppid[c] = t /\ t \notin Workers => ParentTgid(c)' = ParentTgid(c)
    BY <1>8, Constants DEF ParentTgid, Callers
  <1>10. \A c \in Tasks : ppid[c] = t => ParentTgid(c)' # init /\ ParentTgid(c) # init
    BY <1>5, Constants DEF ParentTgid, Tgid
  <1>11. \A p : step'[p] = "run" => step[p] = "run"
    BY SMT DEF WInv, TypeOK
  <1> SUFFICES ASSUME NEW u \in Callers, NEW s \in SUBSET Tasks PROVE SleepAt(u, s)'
    BY DEF SleepOK
  <1>12. SleepAt(u, s) /\ Tgid(u) \in {init, Parent}
    BY Constants, ZenonT(30) DEF SleepOK
  <1>13. CASE ParentTgid(t) = Tgid(u)
    BY <1>2, <1>13 DEF SleepAt
  <1>14. CASE ParentTgid(t) # Tgid(u)
    <2>1. \A c \in Tasks \ {t} : ChildAt(c, Tgid(u))' <=> ChildAt(c, Tgid(u))
      BY <1>4, <1>6, <1>7, <1>9, <1>10, <1>12, <1>14 DEF ChildAt, Processes
    <2>2. (~ChildAt(t, Tgid(u))) /\ ~ChildAt(t, Tgid(u))'
      BY <1>5, <1>14, ZenonT(30) DEF ChildAt, Processes
    <2>3. \A c \in Tasks \ {t} : record'[c] = record[c]
      BY <1>3 DEF WInv, TypeOK
    <2>4. record'[t] # Tgid(u)
      <3>1. record'[t] = q
        BY <1>3 DEF WInv, TypeOK
      <3> QED BY <1>3, <1>12, <1>14, <3>1, Constants, SMT
    <2>5. \A c \in s :
           /\ ChildAt(c, Tgid(u)) /\ state[c] # "zombie" => ChildAt(c, Tgid(u))' /\ state'[c] # "zombie"
           /\ ChildAt(c, Tgid(u))' /\ state'[c] = "zombie" /\ (~reported'[c]) =>
                ChildAt(c, Tgid(u)) /\ state[c] = "zombie" /\ (~reported[c])
           /\ ChildAt(c, Tgid(u)) /\ state[c] = "zombie" => ChildAt(c, Tgid(u))' /\ state'[c] = "zombie"
      BY <1>4, <2>1, <2>2, ZenonT(30)
    <2>6. \A c \in s : c \in Pool' /\ record'[c] = Tgid(u) => c \in Pool /\ record[c] = Tgid(u)
      BY <2>3, <2>4 DEF Pool
    <2> QED BY <1>2, <1>11, <1>12, <2>5, <2>6, SleepStays
  <1> QED BY <1>13, <1>14

LEMMA InitSleep == ASSUME WaitInit PROVE SleepOK
  BY DEF WaitInit, NoCall, SleepOK, SleepAt

LEMMA StepSleep ==
  ASSUME WaitAssumption, WInv, SleepOK, [WaitNext]_waitVars
  PROVE  SleepOK'
  <1>1. ASSUME NEW t \in Tasks, ExitReparent(t) PROVE SleepOK'
    <2>1. t \notin Workers /\ t # init
      BY <1>1 DEF ExitReparent, WInv, StagesOK, Alive
    <2> QED BY <1>1, <2>1, ReparentSleep, ZenonT(30) DEF ExitReparent
  <1>2. CASE ExitGroup
    BY <1>2, ReparentSleep, Constants DEF ExitGroup
  <1>3. ASSUME NEW t \in Tasks, SwitchOut(t) PROVE SleepOK'
    <2>1. t # init /\ state[t] = "zombie"
      BY <1>3 DEF SwitchOut, WInv, StagesOK, Alive
    <2> QED BY <1>3, <2>1, ReapSleep, ZenonT(30) DEF SwitchOut
  <1>4. ASSUME NEW t \in Tasks, KillSibling(t) PROVE SleepOK'
    <2>1. t # init /\ t \in Workers /\ InSlot(t)
      BY <1>4, Constants DEF KillSibling
    <2>2. \A u \in Callers : call'[u].at = "parked" => call'[u] = call[u]
      <3>1. \A u \in Callers : call'[u] = IF u = t THEN [at |-> "idle", sel |-> {}] ELSE call[u]
        BY <1>4 DEF KillSibling, NoCall, WInv, TypeOK
      <3> QED BY <3>1, SMT
    <2> QED BY <1>4, <2>1, <2>2, ReapSleep, ZenonT(30) DEF KillSibling
  <1>5. ASSUME NEW t \in Tasks, Exit(t) \/ ExitStep(t) \/ \E c \in Kids : Fork(t, c)
        PROVE  SleepOK'
    BY <1>1, <1>3, <1>4, <1>5, ExitSleep, ForkSleep DEF ExitStep
  <1>6. Tasks \in Selectors
    BY ZenonT(30) DEF Selectors
  <1>7. ASSUME NEW t \in Callers, WaitStep(t) \/ Interrupted(t) \/ \E sel \in Selectors : WaitBegin(t, sel)
        PROVE  SleepOK'
    BY <1>6, <1>7, ReapedSleep, BookSleep, PeekSleep DEF WaitStep
  <1>8. CASE SetIgnore \/ UNCHANGED waitVars
    <2>1. UNCHANGED <<state, ppid, step, reported, record, wake, call>>
      BY <1>8 DEF SetIgnore, waitVars
    <2> QED BY <2>1, CallsSleep
  <1> QED BY <1>2, <1>5, <1>7, <1>8, TickSleep DEF WaitNext

(* No thread of a process that is not being torn down sleeps in wait4 on an      *)
(* exit: the wake that log_exit and reparent_children request is enough, with   *)
(* no help from SIGCHLD or the one-second backstop, whichever threads fork, wait,  *)
(* exit or are killed.                                                        *)
THEOREM NoLostWake == ASSUME WaitAssumption PROVE WaitSpec => []NoSleepOnExit
  <1>1. WInv /\ SleepOK => NoSleepOnExit
    <2> SUFFICES ASSUME WInv, SleepOK, NEW t \in Callers, call[t].at = "parked", step[Tgid(t)] = "run",
                        ~StillRunning(Tgid(t), call[t].sel)
                 PROVE  Tgid(t) \in wake \/ \E c \in call[t].sel : state[c] = "zombie"
      BY DEF NoSleepOnExit
    <2>1. call[t].sel \in SUBSET Tasks
      BY DEF WInv, TypeOK
    <2>2. SleepAt(t, call[t].sel)
      BY <2>1 DEF SleepOK
    <2> QED BY <2>2 DEF SleepAt, ExitComing
  <1>2. WaitInit => SleepOK
    BY InitSleep
  <1>3. WInv /\ SleepOK /\ [WaitNext]_waitVars => SleepOK'
    BY StepSleep
  <1> QED BY <1>1, <1>2, <1>3, WInductive, PTL DEF WaitSpec

-----------------------------------------------------------------------------
(* Threads leave the parent process only when it is torn down. *)
ThreadsStay == "threadexit" \notin Acts

(* Where a dead child's unreported exit is filed: with init if init is its       *)
(* parent, with the parent process as long as that runs.                       *)
FiledOK ==
  /\ step[Parent] = "run" => \A w \in Workers : state[w] = "live"
  /\ \A c \in Kids : (state[c] = "gone" /\ handed[c] = 0) =>
       /\ ppid[c] = init => record[c] = init
       /\ (ppid[c] # init /\ step[Parent] = "run") => record[c] = Parent

LEMMA InitFiled == ASSUME WaitAssumption, WaitInit PROVE FiledOK
  BY Constants DEF WaitInit, FiledOK

LEMMA ReparentFiled ==
  ASSUME WaitAssumption, WInv, FiledOK, NEW t \in Tasks \ Workers, t # init, Reparent(t),
         NEW q \in {"kill", "reap"}, step' = [step EXCEPT ![t] = q],
         UNCHANGED <<state, reported, call, handed>>
  PROVE  FiledOK'
  <1>1. \A c \in Kids : state[c] = "gone" => ppid'[c] = ppid[c]
    BY ReparentFacts, Constants DEF InSlot
  <1>2. \A c \in Tasks : record'[c] = IF c \in RecordsOf(t) THEN init ELSE record[c]
    BY DEF Reparent, HandedOver
  <1>3. step'[Parent] = "run" => t # Parent /\ step[Parent] = "run"
    BY Constants, SMT DEF WInv, TypeOK
  <1>4. \A c \in Kids : c \in RecordsOf(t) => record[c] = t
    BY DEF RecordsOf
  <1> QED BY <1>1, <1>2, <1>3, <1>4, Constants, ZenonT(30) DEF FiledOK

LEMMA ReapFiled ==
  ASSUME WaitAssumption, WInv, FiledOK, NEW t \in Tasks \ {init}, WInv',
         state[t] = "zombie" \/ (t \in Workers /\ InSlot(t) /\ step[Parent] = "kill"), log_exit(t),
         step' = [step EXCEPT ![t] = "done"],
         UNCHANGED <<ppid, reported>>
  PROVE  FiledOK'
  <1>1. state[t] # "unborn"
    BY Constants DEF InSlot
  <1>2. state' = [state EXCEPT ![t] = "gone"]
    BY <1>1, ReapFacts, ZenonT(30)
  <1>3. PICK q \in Callers \cup {NoTask} : record' = [record EXCEPT ![t] = q] /\ (q # NoTask => q = ParentTgid(t))
    BY <1>1, ReapFacts
  <1>4. \A c \in Tasks \ {t} : state'[c] = state[c] /\ record'[c] = record[c] /\ step'[c] = step[c]
    BY <1>2, <1>3, SMT DEF WInv, TypeOK
  <1>5. \A c \in Tasks \ {t} : handed'[c] = handed[c]
    BY SMT DEF log_exit, WInv, TypeOK
  <1>6. step'[Parent] = "run" => t # Parent /\ step[Parent] = "run"
    BY <1>4, Constants, SMT DEF WInv, TypeOK
  <1>7. step'[Parent] = "run" => t \notin Workers
    BY <1>6 DEF FiledOK
  <1>8. step'[Parent] = "run" => \A w \in Workers : state'[w] = "live"
    BY <1>4, <1>6, <1>7, Constants DEF FiledOK
  <1>9. ASSUME t \in Kids, handed'[t] = 0
        PROVE  /\ ppid[t] = init => record'[t] = init
               /\ (ppid[t] # init /\ step'[Parent] = "run") => record'[t] = Parent
    <2>1. state'[t] = "gone" /\ t \in Tasks \ Workers
      BY <1>2, <1>9, Constants, SMT DEF WInv, TypeOK
    <2>2. record'[t] # NoTask
      <3>1. handed'[t] = IF record'[t] = NoTask THEN 1 ELSE 0
        BY <2>1, ZenonT(30) DEF WInv, Ledger
      <3> QED BY <1>9, <3>1, SMT
    <2>3. record'[t] = ParentTgid(t)
      BY <1>3, <2>1, <2>2, SMT DEF WInv, TypeOK
    <2>4. ppid[t] = init => ParentTgid(t) = init
      BY <1>1, Tgids, ZenonT(30)
    <2>5. ASSUME ppid[t] # init, step'[Parent] = "run"
          PROVE  ParentTgid(t) = Parent
      <3>1. ppid[t] = Parent \/ ppid[t] \in Workers
        BY <1>1, <2>5, Tgids DEF Callers
      <3>2. \A w \in Workers : InSlot(w)
        BY <1>6, <2>5, ZenonT(30) DEF FiledOK, InSlot
      <3> QED BY <1>1, <3>1, <3>2, Tgids
    <2> QED BY <2>3, <2>4, <2>5, ZenonT(30)
  <1>10. ASSUME NEW c \in Kids, c # t, state'[c] = "gone", handed'[c] = 0
         PROVE  /\ ppid[c] = init => record'[c] = init
                /\ (ppid[c] # init /\ step'[Parent] = "run") => record'[c] = Parent
    BY <1>4, <1>5, <1>6, <1>10, Constants, ZenonT(30) DEF FiledOK
  <1> QED BY <1>8, <1>9, <1>10, ZenonT(30) DEF FiledOK

LEMMA StepFiled ==
  ASSUME WaitAssumption, ThreadsStay, WInv, FiledOK, [WaitNext]_waitVars, WInv'
  PROVE  FiledOK'
  <1>1. ASSUME NEW t \in Tasks, ExitReparent(t) PROVE FiledOK'
    <2>1. t \notin Workers /\ t # init
      BY <1>1 DEF ExitReparent, WInv, StagesOK, Alive
    <2> QED BY <1>1, <2>1, ReparentFiled, ZenonT(30) DEF ExitReparent
  <1>2. CASE ExitGroup
    BY <1>2, ReparentFiled, Constants, ZenonT(30) DEF ExitGroup
  <1>3. ASSUME NEW t \in Tasks, SwitchOut(t) \/ KillSibling(t) PROVE FiledOK'
    <2>1. t # init
      BY <1>3, Constants, ZenonT(30), SMT DEF SwitchOut, KillSibling, WInv, StagesOK, Alive
    <2> QED BY <1>3, <2>1, ReapFiled DEF SwitchOut, KillSibling
  <1>4. ASSUME NEW t \in Tasks, Exit(t) PROVE FiledOK'
    <2>1. /\ t \in Kids /\ state' = [state EXCEPT ![t] = "zombie"]
          /\ UNCHANGED <<ppid, record, handed>>
      BY <1>4 DEF Exit, ThreadsStay
    <2>2. step'[Parent] = step[Parent]
      BY <1>4, <2>1, Constants, SMT DEF Exit, WInv, TypeOK
    <2> QED BY <2>1, <2>2, Constants, SMT DEF FiledOK, WInv, TypeOK
  <1>5. CASE KillDone
    <2>1. step'[Parent] = "reparent" /\ UNCHANGED <<ppid, record, handed>>
      BY <1>5, Constants, SMT DEF KillDone, WInv, TypeOK
    <2>2. \A c \in Kids : state'[c] = "gone" => state[c] = "gone"
      BY <1>5, Constants DEF KillDone, WInv, TypeOK
    <2> QED BY <2>1, <2>2, Constants DEF FiledOK
  <1>6. ASSUME NEW t \in Tasks, NEW k \in Kids, Fork(t, k) PROVE FiledOK'
    <2>1. /\ state' = [state EXCEPT ![k] = "live"] /\ ppid' = [ppid EXCEPT ![k] = t]
          /\ UNCHANGED <<step, record, handed>>
      BY <1>6 DEF Fork, ForkParent
    <2> QED BY <2>1, Constants, SMT DEF FiledOK, WInv, TypeOK
  <1>7. ASSUME NEW t \in Callers, TryReaped(t) PROVE FiledOK'
    <2>1. PICK k \in Tasks \ Workers :
             /\ handed' = [handed EXCEPT ![k] = @ + 1]
             /\ record' = record \/ record' = [record EXCEPT ![k] = NoTask]
      BY <1>7, TakenFacts
    <2>2. handed'[k] # 0 /\ \A c \in Tasks \ {k} : handed'[c] = handed[c] /\ record'[c] = record[c]
      <3>1. handed \in [Tasks -> Nat] /\ record \in [Tasks -> Tasks \cup {NoTask}]
        BY DEF WInv, TypeOK
      <3>2. \A n \in Nat : n + 1 # 0
        BY SMT
      <3> QED BY <2>1, <3>1, <3>2
    <2>3. UNCHANGED <<state, ppid, step>>
      BY <1>7 DEF TryReaped
    <2> QED BY <2>2, <2>3, Constants, ZenonT(30) DEF FiledOK
  <1>8. CASE UNCHANGED <<state, ppid, step, record, handed>>
    BY <1>8 DEF FiledOK
  <1>9. ASSUME NEW t \in Callers, NEW sel \in Selectors,
               TryNoChildren(t) \/ TryStill(t) \/ Peek(t) \/ Interrupted(t) \/ WaitBegin(t, sel)
        PROVE  UNCHANGED <<state, ppid, step, record, handed>>
    BY <1>9 DEF TryNoChildren, TryStill, Peek, Interrupted, WaitBegin
  <1>10. SetIgnore \/ Tick \/ UNCHANGED waitVars => UNCHANGED <<state, ppid, step, record, handed>>
    BY DEF SetIgnore, Tick, waitVars
  <1>11. Tasks \in Selectors
    BY DEF Selectors
  <1>12. ASSUME NEW t \in Tasks, Exit(t) \/ ExitStep(t) \/ \E c \in Kids : Fork(t, c)
         PROVE  FiledOK'
    BY <1>1, <1>3, <1>4, <1>5, <1>6, <1>12 DEF ExitStep
  <1>13. ASSUME NEW t \in Callers, WaitStep(t) \/ Interrupted(t) \/ \E sel \in Selectors : WaitBegin(t, sel)
         PROVE  FiledOK'
    BY <1>7, <1>8, <1>9, <1>11, <1>13, ZenonT(30) DEF WaitStep
  <1> QED BY <1>2, <1>8, <1>10, <1>12, <1>13 DEF WaitNext

(* wait4 answers ECHILD only when every child its process forked has been         *)
(* reported or discarded, for any number of threads that fork and wait, as long   *)
(* as threads leave the process only with it (the premise: a worker that exits    *)
(* alone takes the children it forked out of its siblings' sight).              *)
THEOREM EchildTrue == ASSUME WaitAssumption, ThreadsStay PROVE WaitSpec => []EchildIsTrue
  <1>1. WInv /\ FiledOK => EchildIsTrue
    <2> SUFFICES ASSUME WInv, FiledOK, NEW t \in Callers, step[Tgid(t)] = "run",
                        ~Waitable(Tgid(t), call[t].sel), ~LiveChild(Tgid(t), call[t].sel),
                        NEW c \in Kids, c \in call[t].sel, state[c] # "unborn", Tgid(ppid[c]) = Tgid(t)
                 PROVE  handed[c] = 1
      BY ZenonT(30) DEF EchildIsTrue, ForkedBy
    <2>1. c \in Tasks \ Workers /\ c # init /\ Tgid(t) \in {init, Parent}
      BY Constants
    <2>2. Tgid(t) = init => ppid[c] = init
      BY <2>1, Tgids, Constants DEF Callers
    <2>3. Tgid(t) = Parent => ppid[c] \in {Parent} \cup Workers
      BY <2>1, Tgids, Constants DEF Callers
    <2>4. ParentTgid(c) = Tgid(t)
      BY <2>1, <2>2, <2>3, Tgids, ZenonT(30) DEF FiledOK, InSlot
    <2>5. InSlot(c) => c \in Slots(Tgid(t), call[t].sel)
      BY <2>1, <2>4, Constants DEF Slots, Processes
    <2>6. state[c] # "live"
      BY <2>5 DEF LiveChild, InSlot
    <2>7. state[c] = "zombie" => reported[c]
      BY <2>5, ZenonT(30) DEF Waitable, Zombies, InSlot
    <2>8. state[c] = "gone" => record[c] # Tgid(t)
      BY <2>1, Constants, SMT DEF Waitable, Records, Pool
    <2>9. state[c] = "gone" => handed[c] # 0
      BY <2>1, <2>2, <2>3, <2>8, Constants, ZenonT(30) DEF FiledOK
    <2>10. state[c] \in {"unborn", "live", "zombie", "gone"}
      BY <2>1 DEF WInv, TypeOK
    <2> QED BY <2>1, <2>6, <2>7, <2>9, <2>10, ZenonT(30) DEF WInv, Ledger
  <1>2. WaitInit => FiledOK
    BY InitFiled
  <1>3. WInv /\ FiledOK /\ [WaitNext]_waitVars /\ WInv' => FiledOK'
    BY StepFiled
  <1> QED BY <1>1, <1>2, <1>3, WInductive, PTL DEF WaitSpec

-----------------------------------------------------------------------------
(* A parent of one thread. *)
SingleThreaded == Workers = {}

(* From the moment the parent stops running, what it leaves is init's. *)
LeftToInit ==
  step[Parent] # "run" =>
    \A c \in Kids : (state[c] # "unborn" /\ handed[c] = 0) =>
      IF state[c] = "gone" THEN record[c] = init ELSE ppid[c] = init

LEMMA InitLeft == ASSUME WaitAssumption, WaitInit PROVE LeftToInit
  BY Constants DEF WaitInit, LeftToInit

LEMMA ReparentLeft ==
  ASSUME WaitAssumption, SingleThreaded, WInv, LeftToInit, NEW t \in Tasks, t # init, Reparent(t),
         t = Parent \/ step[Parent] # "run" \/ step'[Parent] = "run",
         UNCHANGED <<state, handed>>
  PROVE  LeftToInit'
  <1>1. \A c \in Tasks : ppid'[c] = IF c \in LiveChildren(t) THEN init ELSE ppid[c]
    BY DEF Reparent
  <1>2. \A c \in Tasks : record'[c] = IF c \in RecordsOf(t) THEN init ELSE record[c]
    BY DEF Reparent, HandedOver
  <1>3. CASE step[Parent] # "run"
    BY <1>1, <1>2, <1>3, Constants DEF LeftToInit
  <1>4. CASE t = Parent /\ step[Parent] = "run"
    <2> SUFFICES ASSUME NEW c \in Kids, state[c] # "unborn", handed[c] = 0
                 PROVE  IF state[c] = "gone" THEN record'[c] = init ELSE ppid'[c] = init
      BY DEF LeftToInit
    <2>1. c \in Tasks \ Workers /\ c # init /\ c # Parent /\ Callers = {init, Parent}
      BY Constants DEF SingleThreaded, Callers
    <2>2. CASE state[c] = "gone"
      <3>1. record[c] # NoTask /\ record[c] \in {init, Parent}
        <4>1. 0 = (IF record[c] = NoTask THEN 1 ELSE 0)
          BY <2>1, <2>2 DEF WInv, Ledger
        <4>2. record[c] # NoTask
          BY <4>1, SMT
        <4> QED BY <2>1, <4>2 DEF WInv, ParentsOK, TypeOK
      <3> QED BY <1>2, <1>4, <2>1, <2>2, <3>1, ZenonT(30) DEF RecordsOf, Pool
    <2>3. CASE state[c] # "gone"
      <3>1. ppid[c] \in {init, Parent} /\ ParentTgid(c) = ppid[c]
        BY <2>1, Tgids
      <3>2. InSlot(c)
        BY <2>1, <2>3 DEF InSlot, WInv, TypeOK
      <3> QED BY <1>1, <1>4, <2>1, <2>3, <3>1, <3>2, Constants DEF LiveChildren, Processes
    <2> QED BY <2>2, <2>3
  <1>5. CASE step'[Parent] = "run"
    BY <1>5 DEF LeftToInit
  <1> QED BY <1>3, <1>4, <1>5

LEMMA ReapLeft ==
  ASSUME WaitAssumption, WInv, LeftToInit, WInv', NEW t \in Tasks, SwitchOut(t)
  PROVE  LeftToInit'
  <1>1. state[t] = "zombie" /\ t # init /\ log_exit(t) /\ ppid' = ppid
    BY DEF SwitchOut, WInv, StagesOK, Alive
  <1>2. state' = [state EXCEPT ![t] = "gone"]
    BY <1>1, ReapFacts
  <1>3. PICK q \in Callers \cup {NoTask} : record' = [record EXCEPT ![t] = q] /\ (q # NoTask => q = ParentTgid(t))
    BY <1>1, ReapFacts
  <1>4. \A c \in Tasks \ {t} : state'[c] = state[c] /\ record'[c] = record[c] /\ handed'[c] = handed[c]
    BY <1>1, <1>2, <1>3, SMT DEF log_exit, WInv, TypeOK
  <1>5. step'[Parent] # "run" => step[Parent] # "run"
    BY Constants, SMT DEF SwitchOut, WInv, TypeOK
  <1>6. ASSUME t \in Kids, handed'[t] = 0, step'[Parent] # "run"
        PROVE  record'[t] = init
    <2>1. state'[t] = "gone" /\ t \in Tasks \ Workers
      BY <1>2, <1>6, Constants, SMT DEF WInv, TypeOK
    <2>2. record'[t] # NoTask
      <3>1. handed'[t] = IF record'[t] = NoTask THEN 1 ELSE 0
        BY <2>1, ZenonT(30) DEF WInv, Ledger
      <3> QED BY <1>6, <3>1, SMT
    <2>3. record'[t] = ParentTgid(t)
      BY <1>3, <2>1, <2>2 DEF WInv, TypeOK
    <2>4. handed[t] = 0
      BY <1>1, <1>6, <2>1, SMT DEF log_exit, WInv, TypeOK
    <2>5. ppid[t] = init
      BY <1>1, <1>5, <1>6, <2>4 DEF LeftToInit
    <2> QED BY <1>1, <2>3, <2>5, Tgids, ZenonT(30)
  <1>7. ASSUME NEW c \in Kids, c # t, step'[Parent] # "run", state'[c] # "unborn", handed'[c] = 0
        PROVE  IF state'[c] = "gone" THEN record'[c] = init ELSE ppid'[c] = init
    BY <1>1, <1>4, <1>5, <1>7, Constants, ZenonT(30) DEF LeftToInit
  <1>8. state'[t] = "gone"
    BY <1>2, ZenonT(30) DEF WInv, TypeOK
  <1> QED BY <1>6, <1>7, <1>8, ZenonT(30) DEF LeftToInit

LEMMA StepLeft ==
  ASSUME WaitAssumption, SingleThreaded, WInv, LeftToInit, [WaitNext]_waitVars, WInv'
  PROVE  LeftToInit'
  <1>1. ASSUME NEW t \in Tasks, ExitReparent(t) PROVE LeftToInit'
    <2>1. t # init
      BY <1>1, ZenonT(30), ZenonT(30) DEF ExitReparent, WInv, StagesOK, Alive
    <2>2. t # Parent => step'[Parent] = step[Parent]
      BY <1>1, Constants, SMT DEF ExitReparent, WInv, TypeOK
    <2> QED BY <1>1, <2>1, <2>2, ReparentLeft DEF ExitReparent
  <1>2. CASE ExitGroup
    BY <1>2, ReparentLeft, Constants, ZenonT(30) DEF ExitGroup
  <1>3. ASSUME NEW t \in Tasks, Exit(t) PROVE LeftToInit'
    <2>1. /\ t \in Kids /\ Alive(t) /\ state' = [state EXCEPT ![t] = "zombie"]
          /\ UNCHANGED <<ppid, record, handed>>
      BY <1>3 DEF Exit, SingleThreaded
    <2>2. step'[Parent] = step[Parent]
      BY <1>3, <2>1, Constants, SMT DEF Exit, WInv, TypeOK
    <2> QED BY <2>1, <2>2, Constants DEF LeftToInit, Alive, WInv, TypeOK
  <1>4. CASE KillDone
    <2>1. step[Parent] = "kill" /\ UNCHANGED <<ppid, record, handed>>
      BY <1>4 DEF KillDone
    <2>2. \A c \in Kids : state'[c] = state[c]
      BY <1>4, Constants, SMT DEF KillDone, WInv, TypeOK
    <2> QED BY <2>1, <2>2, Constants DEF LeftToInit
  <1>5. ASSUME NEW t \in Tasks, NEW k \in Kids, Fork(t, k) PROVE LeftToInit'
    <2>1. /\ state[k] = "unborn" /\ state' = [state EXCEPT ![k] = "live"] /\ ppid' = [ppid EXCEPT ![k] = t]
          /\ UNCHANGED <<step, record, handed>> /\ Alive(t) /\ t \in Callers
      BY <1>5, ZenonT(30) DEF Fork, ForkParent
    <2>2. t = init \/ step[Parent] = "run"
      BY <2>1, ZenonT(30) DEF Callers, SingleThreaded, Alive
    <2> QED BY <2>1, <2>2, Constants DEF LeftToInit, WInv, TypeOK
  <1>6. ASSUME NEW t \in Callers, TryReaped(t) PROVE LeftToInit'
    <2>1. PICK k \in Tasks \ Workers :
             /\ handed' = [handed EXCEPT ![k] = @ + 1]
             /\ record' = record \/ record' = [record EXCEPT ![k] = NoTask]
      BY <1>6, TakenFacts
    <2>2. handed'[k] # 0 /\ \A c \in Tasks \ {k} : handed'[c] = handed[c] /\ record'[c] = record[c]
      <3>1. handed \in [Tasks -> Nat] /\ record \in [Tasks -> Tasks \cup {NoTask}]
        BY DEF WInv, TypeOK
      <3>2. \A n \in Nat : n + 1 # 0
        BY SMT
      <3> QED BY <2>1, <3>1, <3>2
    <2>3. UNCHANGED <<state, ppid, step>>
      BY <1>6 DEF TryReaped
    <2> QED BY <2>2, <2>3, Constants DEF LeftToInit
  <1>7. CASE UNCHANGED <<state, ppid, step, record, handed>>
    BY <1>7 DEF LeftToInit
  <1>8. ASSUME NEW t \in Callers, NEW sel \in Selectors,
               TryNoChildren(t) \/ TryStill(t) \/ Peek(t) \/ Interrupted(t) \/ WaitBegin(t, sel)
        PROVE  UNCHANGED <<state, ppid, step, record, handed>>
    BY <1>8 DEF TryNoChildren, TryStill, Peek, Interrupted, WaitBegin
  <1>9. SetIgnore \/ Tick \/ UNCHANGED waitVars => UNCHANGED <<state, ppid, step, record, handed>>
    BY DEF SetIgnore, Tick, waitVars
  <1>10. Tasks \in Selectors
    BY DEF Selectors
  <1>11. \A t \in Tasks : ~KillSibling(t)
    BY ZenonT(30) DEF KillSibling, SingleThreaded
  <1>12. ASSUME NEW t \in Tasks, Exit(t) \/ ExitStep(t) \/ \E c \in Kids : Fork(t, c)
         PROVE  LeftToInit'
    BY <1>1, <1>3, <1>4, <1>5, <1>11, <1>12, ReapLeft, ZenonT(30) DEF ExitStep
  <1>13. ASSUME NEW t \in Callers, WaitStep(t) \/ Interrupted(t) \/ \E sel \in Selectors : WaitBegin(t, sel)
         PROVE  LeftToInit'
    BY <1>6, <1>7, <1>8, <1>10, <1>13 DEF WaitStep
  <1> QED BY <1>2, <1>7, <1>9, <1>12, <1>13 DEF WaitNext

(* When a single-threaded parent is gone, every child it leaves unreported is   *)
(* init's, as a live child or zombie that names it or as a record filed with it,  *)
(* whether the child died before, during or after exit_group                   *)
(* (reparent_children, log_exit).                                             *)
THEOREM Orphans == ASSUME WaitAssumption, SingleThreaded PROVE WaitSpec => []OrphansReachInit
  <1>1. WInv /\ LeftToInit => OrphansReachInit
    <2> SUFFICES ASSUME WInv, LeftToInit, state[Parent] = "gone",
                        NEW c \in Kids, state[c] # "unborn", handed[c] = 0
                 PROVE  IF InSlot(c) THEN ParentTgid(c) = init ELSE record[c] = init
      BY DEF OrphansReachInit
    <2>1. step[Parent] # "run" /\ c \in Tasks \ {init} /\ (state[c] = "gone" <=> ~InSlot(c))
      BY Constants, SMT DEF WInv, TypeOK, StagesOK, InSlot
    <2> QED BY <2>1, Tgids, ZenonT(30) DEF LeftToInit
  <1>2. WaitInit => LeftToInit
    BY InitLeft
  <1>3. WInv /\ LeftToInit /\ [WaitNext]_waitVars /\ WInv' => LeftToInit'
    BY StepLeft
  <1> QED BY <1>1, <1>2, <1>3, WInductive, PTL DEF WaitSpec

============================================================================
