----------------------------- MODULE WorkQueue -----------------------------
(***************************************************************************)
(* A work queue (sched/src/workqueue.rs): any context queues an intrusive   *)
(* item, one worker thread pops and runs the items in order, cancel takes   *)
(* an item out again, flush waits until the count of finished items has     *)
(* caught up with the count of queued ones, and destroy flushes, stops the  *)
(* worker and waits for it.                                                *)
(*                                                                         *)
(* KWaitQueue is taken from KCompletion: a waiter registers and publishes   *)
(* Blocked before it evaluates its condition, so evaluating it and falling  *)
(* asleep are one step here, and a wake makes it evaluate again.  The other *)
(* steps are one atomic access, or one hold of the list's lock.             *)
(***************************************************************************)
EXTENDS Naturals, FiniteSets, SequencesExt

CONSTANTS Items,      \* the Work items
          Callers,    \* contexts that call into the queue
          Worker,     \* its worker thread
          Ops,        \* what Callers do: subset of {"queue", "cancel", "flush", "destroy"}
          Requeues,   \* items whose function queues the item again
          MaxQueued   \* bound: items queued

VARIABLES list,       \* the Fifo, each entry with its number
          pending,    \* Work::pending
          queued, finished, stop, running,
          at,         \* where each context is
          arg,        \* the item, or the target of a flush, it is there with
          doing,      \* the entry the worker has popped
          asleep,     \* the worker in wq, callers in flush_wq
          unfinished  \* ghost: numbers of the items neither run nor cancelled

wqVars == <<list, pending, queued, finished, stop, running, at, arg, doing, asleep, unfinished>>

Contexts == Callers \cup {Worker}
NoEntry == [item |-> Worker, num |-> 0]

Goto(x, p) == at' = [at EXCEPT ![x] = p]
With(x, p, a) == Goto(x, p) /\ arg' = [arg EXCEPT ![x] = a]
Return(x) == With(x, IF x = Worker THEN "ran" ELSE "idle", 0)
Refuse(x) == Goto(x, IF x = Worker THEN "ran" ELSE "refused") /\ UNCHANGED arg

Awake(x) == x \notin asleep

(* KWaitQueue::wait_event. *)
wait_event(x, cond, next) ==
  IF cond THEN Goto(x, next) /\ UNCHANGED asleep
  ELSE asleep' = asleep \cup {x} /\ UNCHANGED at

WqInit ==
  /\ list = <<>> /\ pending = [w \in Items |-> FALSE]
  /\ queued = 0 /\ finished = 0 /\ stop = FALSE /\ running = TRUE
  /\ at = [x \in Contexts |-> IF x = Worker THEN "wait" ELSE "idle"]
  /\ arg = [x \in Contexts |-> 0] /\ doing = NoEntry
  /\ asleep = {} /\ unfinished = {}

-----------------------------------------------------------------------------
(* queue_raw: the stop flag, the pending flag, the list, the wake. *)
QueueBegin(x, w) ==
  /\ queued < MaxQueued
  /\ IF stop THEN Refuse(x) ELSE With(x, "swap", w)
  /\ UNCHANGED <<list, pending, queued, finished, stop, running, doing, asleep, unfinished>>

QueueSwap(x) ==
  /\ at[x] = "swap"
  /\ IF pending[arg[x]]
     THEN Refuse(x) /\ UNCHANGED pending
     ELSE Goto(x, "insert") /\ pending' = [pending EXCEPT ![arg[x]] = TRUE] /\ UNCHANGED arg
  /\ UNCHANGED <<list, queued, finished, stop, running, doing, asleep, unfinished>>

QueueInsert(x) ==
  /\ at[x] = "insert"
  /\ queued' = queued + 1
  /\ list' = Append(list, [item |-> arg[x], num |-> queued'])
  /\ unfinished' = unfinished \cup {queued'}
  /\ Goto(x, "wakeone")
  /\ UNCHANGED <<pending, finished, stop, running, arg, doing, asleep>>

wake_one(x) ==
  /\ at[x] = "wakeone"
  /\ asleep' = asleep \ {Worker}
  /\ Return(x)
  /\ UNCHANGED <<list, pending, queued, finished, stop, running, doing, unfinished>>

-----------------------------------------------------------------------------
(* cancel of an item that is still in the list counts it as finished. *)
Holding(w) == {i \in DOMAIN list : list[i].item = w}

Cancelled(w) ==
  \E i \in Holding(w) :
    /\ list' = RemoveAt(list, i)
    /\ pending' = [pending EXCEPT ![w] = FALSE]
    /\ finished' = finished + 1
    /\ unfinished' = unfinished \ {list[i].num}

cancel(x, w) ==
  /\ Cancelled(w)
  /\ Goto(x, "wakeall")
  /\ UNCHANGED <<queued, stop, running, arg, doing, asleep>>

(* flush_wq.wake_all(), of cancel and of the worker. *)
wake_all(x, next) ==
  /\ at[x] = "wakeall"
  /\ asleep' = asleep \cap {Worker}
  /\ Goto(x, next)
  /\ UNCHANGED <<list, pending, queued, finished, stop, running, arg, doing, unfinished>>

(* flush, and destroy that begins with one. *)
flush(c, wait) ==
  /\ With(c, wait, queued)
  /\ UNCHANGED <<list, pending, queued, finished, stop, running, doing, asleep, unfinished>>

FlushedEarly(c) == finished + 1 >= arg[c]
Flushed(c) == finished >= arg[c]
FlushWait(c) ==
  /\ Awake(c)
  /\ \/ at[c] = "flush" /\ wait_event(c, Flushed(c), "idle")
     \/ at[c] = "drain" /\ wait_event(c, Flushed(c), "stop")
     \/ at[c] = "join" /\ wait_event(c, ~running, "idle")
  /\ UNCHANGED <<list, pending, queued, finished, stop, running, arg, doing, unfinished>>

DestroyStop(c) ==
  /\ at[c] = "stop"
  /\ stop' = TRUE
  /\ Goto(c, "wakeworker")
  /\ UNCHANGED <<list, pending, queued, finished, running, arg, doing, asleep, unfinished>>
DestroyWake(c) ==
  /\ at[c] = "wakeworker"
  /\ asleep' = asleep \ {Worker}
  /\ Goto(c, "join")
  /\ UNCHANGED <<list, pending, queued, finished, stop, running, arg, doing, unfinished>>

-----------------------------------------------------------------------------
(* worker_loop. *)
WorkerWait ==
  /\ at[Worker] = "wait" /\ Awake(Worker)
  /\ wait_event(Worker, stop \/ list # <<>>, "pop")
  /\ UNCHANGED <<list, pending, queued, finished, stop, running, arg, doing, unfinished>>

pop ==
  /\ at[Worker] = "pop"
  /\ IF list = <<>>
     THEN Goto(Worker, "test") /\ UNCHANGED <<list, doing>>
     ELSE Goto(Worker, "clear") /\ list' = Tail(list) /\ doing' = Head(list)
  /\ UNCHANGED <<pending, queued, finished, stop, running, arg, asleep, unfinished>>

(* pending goes before the call, so that the function may queue the item. *)
WorkerClear ==
  /\ at[Worker] = "clear"
  /\ pending' = [pending EXCEPT ![doing.item] = FALSE]
  /\ Goto(Worker, "run")
  /\ UNCHANGED <<list, queued, finished, stop, running, arg, doing, asleep, unfinished>>

WorkerFinish ==
  /\ at[Worker] = "ran"
  /\ finished' = finished + 1
  /\ unfinished' = unfinished \ {doing.num}
  /\ doing' = NoEntry
  /\ Goto(Worker, "wakeall")
  /\ UNCHANGED <<list, pending, queued, stop, running, arg, asleep>>

WorkerTest ==
  /\ at[Worker] = "test"
  /\ IF stop /\ list = <<>> THEN running' = FALSE /\ Goto(Worker, "wakeall")
     ELSE Goto(Worker, "wait") /\ UNCHANGED running
  /\ UNCHANGED <<list, pending, queued, finished, stop, arg, doing, asleep, unfinished>>

WorkerStep ==
  \/ WorkerWait \/ pop \/ WorkerClear \/ WorkerFinish \/ WorkerTest
  \/ wake_all(Worker, IF running THEN "pop" ELSE "gone")

(* The functions of the items: they return, or queue their item and return. *)
Function ==
  /\ at[Worker] = "run"
  /\ \/ /\ Goto(Worker, "ran")
        /\ UNCHANGED <<list, pending, queued, finished, stop, running, arg, doing, asleep, unfinished>>
     \/ doing.item \in Requeues /\ QueueBegin(Worker, doing.item)

(* What a context does after it has called, and a stray wake of a sleeper. *)
CallStep(x) == QueueSwap(x) \/ QueueInsert(x) \/ wake_one(x)
CallerStep(c) ==
  CallStep(c) \/ FlushWait(c) \/ DestroyStop(c) \/ DestroyWake(c) \/ wake_all(c, "idle")
Disturb(x) ==
  /\ x \in asleep
  /\ asleep' = asleep \ {x}
  /\ UNCHANGED <<list, pending, queued, finished, stop, running, at, arg, doing, unfinished>>

Call(c) ==
  /\ at[c] \in {"idle", "refused"}
  /\ \/ "queue" \in Ops /\ \E w \in Items : QueueBegin(c, w)
     \/ "cancel" \in Ops /\ \E w \in Items : cancel(c, w)
     \/ "flush" \in Ops /\ flush(c, "flush")
     \/ "destroy" \in Ops /\ ~stop /\ flush(c, "drain")

WqNext ==
  \/ \E c \in Callers : Call(c) \/ CallerStep(c)
  \/ WorkerStep \/ Function \/ CallStep(Worker)
  \/ \E x \in Contexts : Disturb(x)

WqSpec == WqInit /\ [][WqNext]_wqVars

-----------------------------------------------------------------------------
(* "A Work is either idle or pending on exactly one queue": an item whose   *)
(* pending flag is set is in the list once, or about to be, or just popped, *)
(* and an item whose flag is clear is in none of these places, so the       *)
(* intrusive list is never tied into a knot.                                *)
PendingExact ==
  \A w \in Items :
    Cardinality(Holding(w)) + Cardinality({x \in Contexts : at[x] = "insert" /\ arg[x] = w})
      + (IF at[Worker] = "clear" /\ doing.item = w THEN 1 ELSE 0)
    = (IF pending[w] THEN 1 ELSE 0)

(* The two counts differ by the items that are queued or running. *)
CountsExact == queued = finished + Cardinality(unfinished)

(* "Wait until every item queued before this call has run": when flush may  *)
(* return, nothing that was queued before it is still waiting or running.   *)
FlushCovers ==
  \A c \in Callers : at[c] \in {"flush", "drain"} /\ Flushed(c) => \A k \in unfinished : k > arg[c]

(* destroy: "Run everything still queued, then stop the worker": no queued  *)
(* item is left behind by the worker that is gone.                          *)
NothingStranded == at[Worker] = "gone" => unfinished = {}
=============================================================================
