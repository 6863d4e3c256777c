------------------------------- MODULE KPark -------------------------------
(***************************************************************************)
(* How the sleeping primitives of sched/src/ksync.rs park a task and wake   *)
(* it: the waiter list, park_until_granted, and the kernel wait channel of  *)
(* sched/src/lib.rs (kwait_prepare / cancel / commit, kwake).  KMutex,      *)
(* KSemaphore and KRwLock extend this module with their own state.          *)
(*                                                                         *)
(* A step is what runs under one hold of the primitive's spinlock or of     *)
(* RUN_QUEUE.  A kwake that finds RUN_QUEUE contended is owed and paid by a *)
(* later tick; KWake has the slots behind `owed`.                           *)
(***************************************************************************)
EXTENDS Naturals, Sequences, Functions

CONSTANT Tasks

VARIABLES
  pc,        \* where each task is in the primitive's code
  queue,     \* the WaitList: tasks whose node is linked, in order
  node,      \* the WaitNode on the caller's stack, and the call's deadline
  blocked,   \* Blocked on KWAIT_CHANNEL
  wakes,     \* pids a task took off the list and has still to kwake
  owed       \* pids recorded by kwake_defer

parkVars == <<pc, queue, node, blocked, wakes, owed>>

Deadlines == {"never", "ahead", "passed"}

(* granted is set by a waker under the list's lock; kind is the lock class,  *)
(* or reader / writer; mode is how the caller waits.  A call that has        *)
(* returned leaves no node.                                                 *)
Node(m, k, d) == [granted |-> FALSE, mode |-> m, kind |-> k, bypassed |-> 0, deadline |-> d]
NoNode == Node("none", "none", "never")

Linked(t) == t \in Range(queue)

InsertAt(s, i, e) == SubSeq(s, 1, i - 1) \o <<e>> \o SubSeq(s, i, Len(s))
RemoveAt(s, i) == SubSeq(s, 1, i - 1) \o SubSeq(s, i + 1, Len(s))

(* WaitList::remove: a node that is not linked is left alone.               *)
Removed(t) ==
  IF Linked(t) THEN RemoveAt(queue, CHOOSE i \in DOMAIN queue : queue[i] = t) ELSE queue

(* park_until_granted, one step per lock hold.  won and lost are where the   *)
(* task continues once granted and once timed out.                          *)
park_prepare(t) ==
  /\ pc[t] = "park"
  /\ blocked' = [blocked EXCEPT ![t] = TRUE]
  /\ pc' = [pc EXCEPT ![t] = "check"]
  /\ UNCHANGED <<queue, node, wakes, owed>>

WonUnlessLate(t) == node[t].granted /\ node[t].deadline # "passed"
Won(t) == node[t].granted

park_check(t, won, lost) ==
  /\ pc[t] = "check"
  /\ \/ /\ Won(t)
        /\ blocked' = [blocked EXCEPT ![t] = FALSE]
        /\ pc' = [pc EXCEPT ![t] = won]
        /\ node' = [node EXCEPT ![t] = NoNode]
        /\ UNCHANGED queue
     \/ /\ ~Won(t) /\ node[t].deadline = "passed"
        /\ queue' = Removed(t)
        /\ blocked' = [blocked EXCEPT ![t] = FALSE]
        /\ pc' = [pc EXCEPT ![t] = lost]
        /\ node' = [node EXCEPT ![t] = NoNode]
     \/ /\ ~Won(t) /\ node[t].deadline # "passed"
        /\ pc' = [pc EXCEPT ![t] = "commit"]
        /\ UNCHANGED <<queue, node, blocked>>
  /\ UNCHANGED <<wakes, owed>>

(* kwait_commit: yield; the task is dispatched again once it is not Blocked. *)
park_commit(t) ==
  /\ pc[t] = "commit"
  /\ ~blocked[t]
  /\ pc' = [pc EXCEPT ![t] = "park"]
  /\ UNCHANGED <<queue, node, blocked, wakes, owed>>

(* kwake of one pid: wake_kwaiter under RUN_QUEUE, or kwake_defer when       *)
(* RUN_QUEUE stays contended.                                               *)
Deliver(u) ==
  \/ blocked' = [blocked EXCEPT ![u] = FALSE] /\ UNCHANGED owed
  \/ owed' = owed \cup {u} /\ UNCHANGED blocked

(* kwake of the first pid this task popped; next is where it continues after *)
(* the last one.                                                            *)
kwake(t, here, next) ==
  /\ pc[t] = here
  /\ Deliver(Head(wakes[t]))
  /\ wakes' = [wakes EXCEPT ![t] = Tail(@)]
  /\ pc' = [pc EXCEPT ![t] = IF Len(wakes[t]) = 1 THEN next ELSE here]
  /\ UNCHANGED <<queue, node>>

(* The tick pays an owed wake (service_deferred_kwakes).                    *)
PayKwake(t) ==
  /\ t \in owed
  /\ owed' = owed \ {t}
  /\ blocked' = [blocked EXCEPT ![t] = FALSE]
  /\ UNCHANGED <<pc, queue, node, wakes>>

(* Time reaches the deadline of a wait in progress.                         *)
DeadlinePasses(t) ==
  /\ node[t].deadline = "ahead"
  /\ node' = [node EXCEPT ![t].deadline = "passed"]
  /\ UNCHANGED <<pc, queue, blocked, wakes, owed>>

(* wake_due_poll_deadlines finds the parked task's deadline passed.         *)
DeadlineWake(t) ==
  /\ node[t].deadline = "passed"
  /\ blocked[t]
  /\ blocked' = [blocked EXCEPT ![t] = FALSE]
  /\ UNCHANGED <<pc, queue, node, wakes, owed>>

(* A signal makes a parked task runnable (post_signal_thread); the wait loop *)
(* sees nothing granted and parks again.                                    *)
SignalWake(t) ==
  /\ pc[t] = "commit"
  /\ blocked[t]
  /\ blocked' = [blocked EXCEPT ![t] = FALSE]
  /\ UNCHANGED <<pc, queue, node, wakes, owed>>

ParkInit ==
  /\ pc = [t \in Tasks |-> "idle"]
  /\ queue = <<>>
  /\ node = [t \in Tasks |-> NoNode]
  /\ blocked = [t \in Tasks |-> FALSE]
  /\ wakes = [t \in Tasks |-> <<>>]
  /\ owed = {}

(* A task that has parked for good, with nobody left to wake it: its grant   *)
(* is in but no kwake for it is on the way.                                 *)
WakeOnTheWay(t) == t \in owed \/ \E u \in Tasks : t \in Range(wakes[u])
LostWake(t) == pc[t] = "commit" /\ blocked[t] /\ node[t].granted /\ ~WakeOnTheWay(t)
============================================================================
