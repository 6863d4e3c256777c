---------------------------- MODULE KSemaphore -----------------------------
(***************************************************************************)
(* KSemaphore of sched/src/ksync.rs: try_down, down, down_deadline and up,  *)
(* which hands its unit straight to the longest waiter.  up may come from   *)
(* any context, so an interrupt (`Irq`) ups as well as the tasks.           *)
(***************************************************************************)
EXTENDS KPark, FiniteSets

CONSTANTS
  Initial,     \* the count the semaphore is created with
  MaxCount,    \* bound on count: nobody ups past it
  Timeouts,    \* deadlines the callers set
  Irq          \* an interrupt handler that ups

VARIABLE count

vars == <<parkVars, count>>

Callers == Tasks \ {Irq}

UnitThere == count > 0

(* A unit is there: take it, and the call returns true.                     *)
Take(t) ==
  /\ UnitThere
  /\ count' = count - 1
  /\ pc' = [pc EXCEPT ![t] = "got"]
  /\ node' = [node EXCEPT ![t] = NoNode]
  /\ UNCHANGED queue

(* try_down, and the first step of down_deadline.                           *)
Down(t, m, d) ==
  /\ pc[t] = "idle"
  /\ \/ Take(t)
     \/ /\ ~UnitThere /\ m = "try"
        /\ UNCHANGED <<pc, queue, node, count>>
     \/ /\ ~UnitThere /\ m # "try"
        /\ pc' = [pc EXCEPT ![t] = IF m = "spin" THEN "spin" ELSE "slow"]
        /\ node' = [node EXCEPT ![t] = Node(m, "none", d)]
        /\ UNCHANGED <<queue, count>>
  /\ UNCHANGED <<blocked, wakes, owed>>

(* down_deadline where it may not sleep.                                    *)
Spin(t) ==
  /\ pc[t] = "spin"
  /\ \/ Take(t)
     \/ /\ ~UnitThere /\ node[t].deadline = "passed"
        /\ pc' = [pc EXCEPT ![t] = "idle"]
        /\ node' = [node EXCEPT ![t] = NoNode]
        /\ UNCHANGED <<queue, count>>
  /\ UNCHANGED <<blocked, wakes, owed>>

(* The locked re-check, then the node is linked.                            *)
Slow(t) ==
  /\ pc[t] = "slow"
  /\ \/ Take(t)
     \/ /\ ~UnitThere
        /\ queue' = Append(queue, t)
        /\ pc' = [pc EXCEPT ![t] = "park"]
        /\ UNCHANGED <<node, count>>
  /\ UNCHANGED <<blocked, wakes, owed>>

Park(t) ==
  /\ park_prepare(t) \/ park_check(t, "got", "idle") \/ park_commit(t)
  /\ UNCHANGED count

(* up: the unit goes to the first waiter, or to the count.                  *)
CountedAnyway == IF count < MaxCount THEN count + 1 ELSE count
AfterHandOff == count
up(t) ==
  /\ pc[t] = "idle"
  /\ IF queue = <<>>
     THEN /\ count < MaxCount
          /\ count' = count + 1
          /\ pc' = [pc EXCEPT ![t] = "idle"]
          /\ UNCHANGED <<queue, node, wakes>>
     ELSE /\ queue' = Tail(queue)
          /\ node' = [node EXCEPT ![Head(queue)].granted = TRUE]
          /\ wakes' = [wakes EXCEPT ![t] = <<Head(queue)>>]
          /\ pc' = [pc EXCEPT ![t] = "wake"]
          /\ count' = AfterHandOff
  /\ UNCHANGED <<blocked, owed>>

(* The caller uses its unit; it may up later, or never.                    *)
Leave(t) ==
  /\ pc[t] = "got"
  /\ pc' = [pc EXCEPT ![t] = "idle"]
  /\ UNCHANGED <<queue, node, blocked, wakes, owed, count>>

Wake(t) == kwake(t, "wake", "idle") /\ UNCHANGED count
Pay(t) == PayKwake(t) /\ UNCHANGED count
TimeOut(t) == DeadlineWake(t) /\ UNCHANGED count
Disturb(t) == (DeadlinePasses(t) \/ SignalWake(t)) /\ UNCHANGED count

Init == ParkInit /\ count = Initial

Call(t) == t \in Callers /\ \E m \in {"try", "sleep", "spin"}, d \in Timeouts : Down(t, m, d)
Progress(t) == Spin(t) \/ Slow(t) \/ Park(t) \/ Leave(t) \/ Wake(t)

Next == \E t \in Tasks : Call(t) \/ up(t) \/ Progress(t) \/ Pay(t) \/ TimeOut(t) \/ Disturb(t)

Spec == Init /\ [][Next]_vars

-----------------------------------------------------------------------------
Waiting == {"park", "check", "commit"}

(* Type invariant. *)
TypeOK ==
  /\ pc \in [Tasks -> {"idle", "spin", "slow", "got", "wake"} \cup Waiting]
  /\ queue \in Seq(Tasks)
  /\ node \in [Tasks -> [granted : BOOLEAN, mode : {"none", "sleep", "spin"}, kind : {"none"},
                         bypassed : {0}, deadline : Deadlines]]
  /\ blocked \in [Tasks -> BOOLEAN]
  /\ wakes \in [Tasks -> Seq(Tasks)]
  /\ owed \subseteq Tasks
  /\ count \in 0..MaxCount

(* A task waits in the queue only while there is no unit to take.            *)
NoUnitIdle == count > 0 => queue = <<>>

(* A granted waiter that has parked always has a kwake on the way.           *)
NoLostWake == \A t \in Tasks : ~LostWake(t)

(* A unit handed to a waiter is consumed by it even if its deadline passes   *)
(* at the same moment, and a down that reports a timeout consumed nothing.   *)
Units == count + Cardinality({t \in Tasks : pc[t] \in Waiting /\ node[t].granted})
Status ==
  [t \in Tasks |-> CASE pc[t] \in {"idle", "wake"} -> "out"
                     [] pc[t] = "got" -> "got"
                     [] OTHER -> "calling"]
Counter == INSTANCE Semaphore WITH units <- Units, status <- Status
ImplementsCounter == Counter!Spec

============================================================================
