------------------------------- MODULE KMutex ------------------------------
(***************************************************************************)
(* KRawMutex of sched/src/ksync.rs: lock, lock_deadline, lock_class,        *)
(* try_lock and unlock, with FIFO hand-off, queue classes, waiters that     *)
(* spin, timeouts, and the held-lock accounting (KLOCKS) that group kill    *)
(* relies on.  Only the owner unlocks, as the code's contract says.         *)
(***************************************************************************)
EXTENDS KPark, FiniteSets

CONSTANTS
  Modes,       \* how callers wait: subset of {"try", "sleep", "spin", "qspin"}
  Classes,     \* LockClass of the callers: subset of {"fifo", "prio", "resume"}
  Timeouts,    \* deadlines the callers set: subset of {"never", "ahead"}
  MaxBypass,   \* max_bypass of the Prio callers
  COUNT_MAX,   \* u16::MAX, where a bypass count saturates
  Slot,        \* pid % KLOCK_SLOTS
  NoOwner

MutexAssumption ==
  /\ IsFiniteSet(Tasks) /\ NoOwner \notin Tasks
  /\ Modes \subseteq {"try", "sleep", "spin", "qspin"}
  /\ Classes \subseteq {"fifo", "prio", "resume"}
  /\ Timeouts \subseteq {"never", "ahead"}
  /\ MaxBypass \in Nat /\ COUNT_MAX \in Nat

VARIABLES
  owner,       \* the owner, or NoOwner
  klocks       \* KLOCKS

vars == <<parkVars, owner, klocks>>

klock_inc(t) == [klocks EXCEPT ![Slot[t]] = @ + 1]
klock_dec(t) == [klocks EXCEPT ![Slot[t]] = IF @ = 0 THEN 0 ELSE @ - 1]

(* The owner word is free: take it, and the call returns.                   *)
Take(t) ==
  /\ owner = NoOwner
  /\ owner' = t
  /\ klocks' = klock_inc(t)
  /\ pc' = [pc EXCEPT ![t] = "held"]
  /\ node' = [node EXCEPT ![t] = NoNode]
  /\ UNCHANGED queue

(* The call returns false.                                                  *)
GiveUp(t) ==
  /\ owner # NoOwner
  /\ pc' = [pc EXCEPT ![t] = "idle"]
  /\ node' = [node EXCEPT ![t] = NoNode]
  /\ UNCHANGED <<queue, owner, klocks>>

(* try_lock, the first step of every way to lock.                           *)
Lock(t, m, c, d) ==
  /\ pc[t] = "idle"
  /\ \/ Take(t)
     \/ m = "try" /\ GiveUp(t)
     \/ /\ m # "try" /\ owner # NoOwner
        /\ pc' = [pc EXCEPT ![t] = IF m = "spin" THEN "spin" ELSE "slow"]
        /\ node' = [node EXCEPT ![t] = Node(m, c, d)]
        /\ UNCHANGED <<queue, owner, klocks>>
  /\ UNCHANGED <<blocked, wakes, owed>>

(* lock_deadline where it may not sleep: try_lock until the deadline.        *)
Spin(t) ==
  /\ pc[t] = "spin"
  /\ Take(t) \/ (node[t].deadline = "passed" /\ GiveUp(t))
  /\ UNCHANGED <<blocked, wakes, owed>>

(* WaitList::insert_classed: a Prio or Resume node goes in front of the      *)
(* first Fifo node it may overtake, and every Fifo node behind it counts.    *)
StopsAtIgnoringBound(t, i) == node[queue[i]].kind = "fifo"
StopsAt(t, i) ==
  /\ node[queue[i]].kind = "fifo"
  /\ node[t].kind = "resume" \/ node[queue[i]].bypassed < MaxBypass
Stops(t) == IF node[t].kind = "fifo" THEN {} ELSE {i \in DOMAIN queue : StopsAt(t, i)}
Place(t) ==
  IF Stops(t) = {} THEN Len(queue) + 1
  ELSE CHOOSE i \in Stops(t) : \A j \in Stops(t) : i <= j
Overtaken(t) ==
  {queue[i] : i \in {j \in DOMAIN queue : j >= Place(t) /\ node[queue[j]].kind = "fifo"}}

saturating_inc(n) == IF n < COUNT_MAX THEN n + 1 ELSE n
insert_classed(t) ==
  /\ queue' = InsertAt(queue, Place(t), t)
  /\ node' = [u \in Tasks |->
                IF u \in Overtaken(t) THEN [node[u] EXCEPT !.bypassed = saturating_inc(@)]
                ELSE node[u]]

(* The locked re-check: take a lock that has come free, or count and queue.  *)
CountQueued(t) == klock_inc(t)
Slow(t) ==
  /\ pc[t] = "slow"
  /\ \/ Take(t)
     \/ /\ owner # NoOwner
        /\ klocks' = CountQueued(t)
        /\ insert_classed(t)
        /\ pc' = [pc EXCEPT ![t] = IF node[t].mode = "qspin" THEN "qspin" ELSE "park"]
        /\ UNCHANGED owner
  /\ UNCHANGED <<blocked, wakes, owed>>

(* A caller that may not sleep spins on its own queue entry.                 *)
QueuedSpin(t) ==
  /\ pc[t] = "qspin"
  /\ \/ /\ node[t].granted
        /\ pc' = [pc EXCEPT ![t] = "held"]
        /\ UNCHANGED queue
     \/ /\ ~node[t].granted /\ node[t].deadline = "passed"
        /\ queue' = Removed(t)
        /\ pc' = [pc EXCEPT ![t] = "giveback"]
  /\ node' = [node EXCEPT ![t] = NoNode]
  /\ UNCHANGED <<blocked, wakes, owed, owner, klocks>>

(* A timed-out waiter gives its count back.                                  *)
GiveBack(t) ==
  /\ pc[t] = "giveback"
  /\ klocks' = klock_dec(t)
  /\ pc' = [pc EXCEPT ![t] = "idle"]
  /\ UNCHANGED <<queue, node, blocked, wakes, owed, owner>>

Park(t) ==
  /\ park_prepare(t) \/ park_check(t, "held", "giveback") \/ park_commit(t)
  /\ UNCHANGED <<owner, klocks>>

(* Hand the mutex to the first waiter; a spinning one is not kwaked.         *)
HandToNobody(w) == NoOwner
HandTo(w) == w
unlock(t) ==
  /\ pc[t] = "held"
  /\ klocks' = klock_dec(owner)
  /\ IF queue = <<>>
     THEN /\ owner' = NoOwner
          /\ pc' = [pc EXCEPT ![t] = "idle"]
          /\ UNCHANGED <<queue, node, wakes>>
     ELSE LET w == Head(queue)
              spins == node[w].mode = "qspin"
          IN /\ owner' = HandTo(w)
             /\ queue' = Tail(queue)
             /\ node' = [node EXCEPT ![w].granted = TRUE]
             /\ wakes' = [wakes EXCEPT ![t] = IF spins THEN <<>> ELSE <<w>>]
             /\ pc' = [pc EXCEPT ![t] = IF spins THEN "idle" ELSE "wake"]
  /\ UNCHANGED <<blocked, owed>>

Wake(t) == kwake(t, "wake", "idle") /\ UNCHANGED <<owner, klocks>>
Pay(t) == PayKwake(t) /\ UNCHANGED <<owner, klocks>>
TimeOut(t) == DeadlineWake(t) /\ UNCHANGED <<owner, klocks>>
Disturb(t) == (DeadlinePasses(t) \/ SignalWake(t)) /\ UNCHANGED <<owner, klocks>>

Init ==
  /\ ParkInit
  /\ owner = NoOwner
  /\ klocks = [s \in {Slot[t] : t \in Tasks} |-> 0]

Call(t) ==
  \E m \in Modes, c \in Classes, d \in Timeouts :
    /\ m \in {"try", "spin"} => c = "fifo"
    /\ Lock(t, m, c, d)

(* What a task does once it has called lock.                                 *)
Progress(t) == Spin(t) \/ Slow(t) \/ QueuedSpin(t) \/ GiveBack(t) \/ Park(t) \/ unlock(t) \/ Wake(t)

Next == \E t \in Tasks : Call(t) \/ Progress(t) \/ Pay(t) \/ TimeOut(t) \/ Disturb(t)

Spec == Init /\ [][Next]_vars

-----------------------------------------------------------------------------
Waiting == {"park", "check", "commit", "qspin"}

(* Type invariant. *)
TypeOK ==
  /\ pc \in [Tasks -> {"idle", "spin", "slow", "giveback", "held", "wake"} \cup Waiting]
  /\ queue \in Seq(Tasks)
  /\ node \in [Tasks -> [granted : BOOLEAN,
                         mode : {"none", "sleep", "spin", "qspin"},
                         kind : {"none", "fifo", "prio", "resume"},
                         bypassed : 0..COUNT_MAX, deadline : Deadlines]]
  /\ blocked \in [Tasks -> BOOLEAN]
  /\ wakes \in [Tasks -> Seq(Tasks)]
  /\ owed \subseteq Tasks
  /\ owner \in Tasks \cup {NoOwner}
  /\ klocks \in [{Slot[t] : t \in Tasks} -> Nat]

(* The mutex belongs to exactly the task that holds it or was handed it: two *)
(* tasks never hold it, and it never stays owned by a task that gave up.     *)
OwnerHolds ==
  \A t \in Tasks : owner = t <=> pc[t] = "held" \/ (pc[t] \in Waiting /\ node[t].granted)

(* A free mutex has no sleeper: nobody can take it past a queued waiter.     *)
NoBarging == owner = NoOwner => queue = <<>>

(* A task's count covers every mutex it holds or is queued for and nothing   *)
(* else, also where two pids share a slot: group kill neither reaps a holder *)
(* nor waits for a task that has left.                                      *)
Counted(t) == pc[t] \in Waiting \cup {"held", "giveback"}
KlocksExact ==
  \A s \in DOMAIN klocks : klocks[s] = Cardinality({t \in Tasks : Slot[t] = s /\ Counted(t)})

(* The owner word and KLOCKS describe the holders exactly.                   *)
HoldersExact == OwnerHolds /\ KlocksExact

(* A granted waiter that has parked always has a kwake on the way.           *)
NoLostWake == \A t \in Tasks : ~LostWake(t)

(* Nobody is queued for a free mutex, or sleeps on a grant that is in.       *)
NobodyForgotten == NoBarging /\ NoLostWake

(* A Prio caller queues ahead of a Fifo waiter only while that waiter has    *)
(* been overtaken fewer than max_bypass times.                              *)
BypassBounded ==
  \A t, u \in Tasks :
    /\ Linked(t) /\ ~Linked(u) /\ node[t].kind = "fifo" /\ node[u].kind = "prio"
    /\ node'[t].bypassed > node[t].bypassed /\ u \in Range(queue')
    => node[t].bypassed < MaxBypass
OrderKept == [][BypassBounded]_vars
============================================================================
