---------------------------- MODULE KCompletion ----------------------------
(***************************************************************************)
(* KWaitQueue and the KCompletion built on it (sched/src/ksync.rs): a       *)
(* waiter links its node, publishes Blocked, evaluates the condition and    *)
(* re-checks that it is still linked before it parks; wakers make the       *)
(* condition true first and then empty the list, batch by batch.            *)
(***************************************************************************)
EXTENDS KPark

CONSTANTS
  Waiters, Wakers,   \* tasks that call wait, and contexts that complete or wake
  Modes,             \* "sleep", and "spin" where might_sleep() is false
  Timeouts,          \* deadlines the waiters set
  BATCH,             \* nodes popped per hold of the list's lock (16)
  DONE_MAX,          \* COMPLETE_ALL - 1, where the count saturates
  COMPLETE_ALL

VARIABLE done

vars == <<parkVars, done>>

Goto(t, p) == pc' = [pc EXCEPT ![t] = p]

(* try_take, the condition of wait.                                         *)
Takeable == done # 0
Taken == IF done = COMPLETE_ALL THEN done ELSE done - 1

(* wait / wait_timeout: the condition is tried once before anything else.    *)
Wait(t, m, d) ==
  /\ pc[t] = "idle"
  /\ \/ Takeable /\ done' = Taken /\ UNCHANGED <<pc, node>>
     \/ /\ ~Takeable
        /\ Goto(t, IF m = "spin" THEN "spin" ELSE "link")
        /\ node' = [node EXCEPT ![t] = Node(m, "none", d)]
        /\ UNCHANGED done
  /\ UNCHANGED <<queue, blocked, wakes, owed>>

(* Where it may not sleep, the caller polls the condition and the deadline.  *)
Spin(t) ==
  /\ pc[t] = "spin"
  /\ Takeable \/ node[t].deadline = "passed"
  /\ done' = IF Takeable THEN Taken ELSE done
  /\ node' = [node EXCEPT ![t] = NoNode]
  /\ Goto(t, "idle")
  /\ UNCHANGED <<queue, blocked, wakes, owed>>

Link(t) ==
  /\ pc[t] = "link"
  /\ queue' = IF Linked(t) THEN queue ELSE Append(queue, t)
  /\ node' = IF Linked(t) THEN node ELSE [node EXCEPT ![t].granted = FALSE]
  /\ Goto(t, "park")
  /\ UNCHANGED <<blocked, wakes, owed, done>>

(* The condition, then the deadline, with Blocked published.                *)
Check(t) ==
  /\ pc[t] = "check"
  /\ \/ /\ Takeable
        /\ done' = Taken
        /\ Goto(t, "unlink")
        /\ blocked' = [blocked EXCEPT ![t] = FALSE]
     \/ /\ ~Takeable /\ node[t].deadline = "passed"
        /\ Goto(t, "unlink")
        /\ blocked' = [blocked EXCEPT ![t] = FALSE]
        /\ UNCHANGED done
     \/ /\ ~Takeable /\ node[t].deadline # "passed"
        /\ Goto(t, "relink")
        /\ UNCHANGED <<blocked, done>>
  /\ UNCHANGED <<queue, node, wakes, owed>>

(* A waker may have taken the node off the list before Blocked was published *)
(* (its kwake did nothing): do not park unlinked.                           *)
StillLinked(t) == Linked(t)
Relink(t) ==
  /\ pc[t] = "relink"
  /\ IF StillLinked(t)
     THEN Goto(t, "commit") /\ UNCHANGED blocked
     ELSE Goto(t, "link") /\ blocked' = [blocked EXCEPT ![t] = FALSE]
  /\ UNCHANGED <<queue, node, wakes, owed, done>>

Commit(t) ==
  /\ pc[t] = "commit" /\ ~blocked[t]
  /\ Goto(t, "link")
  /\ UNCHANGED <<queue, node, blocked, wakes, owed, done>>

Unlink(t) ==
  /\ pc[t] = "unlink"
  /\ queue' = Removed(t)
  /\ node' = [node EXCEPT ![t] = NoNode]
  /\ Goto(t, "idle")
  /\ UNCHANGED <<blocked, wakes, owed, done>>

(* complete, complete_all and reinit, each followed by what it wakes.        *)
Completed == IF done = COMPLETE_ALL THEN done ELSE IF done < DONE_MAX THEN done + 1 ELSE done
complete(w) ==
  /\ pc[w] = "idle"
  /\ done' = Completed
  /\ Goto(w, "wakeall")
  /\ UNCHANGED <<queue, node, blocked, wakes, owed>>
complete_all(w) ==
  /\ pc[w] = "idle"
  /\ done' = COMPLETE_ALL
  /\ Goto(w, "wakeall")
  /\ UNCHANGED <<queue, node, blocked, wakes, owed>>
reinit(w) ==
  /\ pc[w] = "idle"
  /\ done' = 0
  /\ UNCHANGED parkVars

(* Pop the first n nodes and remember whom to kwake.                        *)
Pop(w, n, next) ==
  /\ queue' = SubSeq(queue, n + 1, Len(queue))
  /\ node' = [u \in Tasks |-> IF \E i \in 1..n : queue[i] = u
                              THEN [node[u] EXCEPT !.granted = TRUE] ELSE node[u]]
  /\ wakes' = [wakes EXCEPT ![w] = SubSeq(queue, 1, n)]
  /\ Goto(w, next)
  /\ UNCHANGED <<blocked, owed, done>>

MoreQueued == Len(queue) > BATCH
wake_all(w) ==
  /\ pc[w] = "wakeall"
  /\ IF queue = <<>>
     THEN Goto(w, "idle") /\ UNCHANGED <<queue, node, blocked, wakes, owed, done>>
     ELSE Pop(w, IF Len(queue) > BATCH THEN BATCH ELSE Len(queue),
              IF MoreQueued THEN "wakemore" ELSE "wake")

(* wake_one, by a waker that changed some other condition of the queue.      *)
wake_one(w) ==
  /\ pc[w] = "idle" /\ queue # <<>>
  /\ Pop(w, 1, "wake")

Wake(w) ==
  /\ kwake(w, "wake", "idle") \/ kwake(w, "wakemore", "wakeall")
  /\ UNCHANGED done
Pay(t) == PayKwake(t) /\ UNCHANGED done
TimeOut(t) == DeadlineWake(t) /\ UNCHANGED done
Disturb(t) == (DeadlinePasses(t) \/ SignalWake(t)) /\ UNCHANGED done
Prepare(t) == park_prepare(t) /\ UNCHANGED done

Init == ParkInit /\ done = 0

WaiterStep(t) == Spin(t) \/ Link(t) \/ Prepare(t) \/ Check(t) \/ Relink(t) \/ Commit(t) \/ Unlink(t)
WakerStep(w) == wake_all(w) \/ Wake(w)

Next ==
  \/ \E t \in Waiters :
       \/ \E m \in Modes, d \in Timeouts : Wait(t, m, d)
       \/ WaiterStep(t) \/ Pay(t) \/ TimeOut(t) \/ Disturb(t)
  \/ \E w \in Wakers : complete(w) \/ complete_all(w) \/ reinit(w) \/ wake_one(w) \/ WakerStep(w)

Spec == Init /\ [][Next]_vars

-----------------------------------------------------------------------------
(* Type invariant. *)
TypeOK ==
  /\ pc \in [Tasks -> {"idle", "spin", "link", "park", "check", "relink", "commit", "unlink",
                       "wakeall", "wake", "wakemore"}]
  /\ queue \in Seq(Waiters)
  /\ node \in [Tasks -> [granted : BOOLEAN, mode : {"none"} \cup Modes, kind : {"none"},
                         bypassed : {0}, deadline : Deadlines]]
  /\ blocked \in [Tasks -> BOOLEAN]
  /\ wakes \in [Tasks -> Seq(Waiters)]
  /\ owed \subseteq Waiters
  /\ done \in 0..DONE_MAX \cup {COMPLETE_ALL}

(* No waiter sleeps on a completion that has happened: while one is          *)
(* available, every parked waiter has a wake coming, also when a wake took   *)
(* its node just before it published Blocked.                               *)
NoLostCompletion ==
  done # 0 => \A t \in Waiters :
    pc[t] = "commit" /\ blocked[t] =>
      \/ WakeOnTheWay(t)
      \/ Linked(t) /\ \E w \in Wakers : pc[w] \in {"wakeall", "wakemore"}

============================================================================
