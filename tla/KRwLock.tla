------------------------------ MODULE KRwLock ------------------------------
(***************************************************************************)
(* KRawRwLock of sched/src/ksync.rs: readers and writers queue FIFO, a      *)
(* queued writer holds back later readers, and a release hands the lock to  *)
(* one writer or to the run of readers at the head, in batches of BATCH     *)
(* with the internal lock dropped between them.                             *)
(***************************************************************************)
EXTENDS KPark, FiniteSets

CONSTANTS
  Modes,       \* how callers wait: subset of {"try", "sleep", "spin"}
  BATCH        \* readers granted per hold of the internal lock (16)

VARIABLES
  readers,     \* readers holding it
  writer,      \* a writer holds it
  klocks       \* the tasks' held-lock counts

vars == <<parkVars, readers, writer, klocks>>

Kinds == {"reader", "writer"}
Add(t, n) == [klocks EXCEPT ![t] = IF n = 1 THEN @ + 1 ELSE IF @ = 0 THEN 0 ELSE @ - 1]
Goto(t, p) == pc' = [pc EXCEPT ![t] = p]
Held(k) == IF k = "reader" THEN "reading" ELSE "writing"

(* try_read and try_write.                                                  *)
Free(k) == ~writer /\ IF k = "reader" THEN queue = <<>> ELSE readers = 0
Take(t, k) ==
  /\ Free(k)
  /\ IF k = "reader" THEN readers' = readers + 1 /\ UNCHANGED writer
                     ELSE writer' = TRUE /\ UNCHANGED readers
  /\ klocks' = Add(t, 1)
  /\ Goto(t, Held(k))
  /\ node' = [node EXCEPT ![t] = NoNode]
  /\ UNCHANGED <<queue, blocked, wakes, owed>>

Acquire(t, k, m) ==
  /\ pc[t] = "idle"
  /\ \/ Take(t, k)
     \/ /\ ~Free(k) /\ m # "try"
        /\ Goto(t, IF m = "spin" THEN "spin" ELSE "slow")
        /\ node' = [node EXCEPT ![t] = Node(m, k, "never")]
        /\ UNCHANGED <<queue, blocked, wakes, owed, readers, writer, klocks>>

Spin(t) == pc[t] = "spin" /\ Take(t, node[t].kind)

(* The locked re-check, then the node is counted and linked.                *)
Slow(t) ==
  /\ pc[t] = "slow"
  /\ \/ Take(t, node[t].kind)
     \/ /\ ~Free(node[t].kind)
        /\ klocks' = Add(t, 1)
        /\ queue' = Append(queue, t)
        /\ Goto(t, "park")
        /\ UNCHANGED <<node, blocked, wakes, owed, readers, writer>>

Park(t) ==
  /\ park_prepare(t) \/ park_check(t, Held(node[t].kind), "idle") \/ park_commit(t)
  /\ UNCHANGED <<readers, writer, klocks>>

(* read_unlock / write_unlock: the count goes first, then the lock is taken. *)
Uncount(t) ==
  /\ pc[t] \in {"reading", "writing"}
  /\ klocks' = Add(t, 0)
  /\ Goto(t, IF pc[t] = "reading" THEN "readdone" ELSE "writedone")
  /\ UNCHANGED <<queue, node, blocked, wakes, owed, readers, writer>>

(* grant_and_unlock, one batch: r and w are readers and writer on entry.     *)
HeadRun(n) == \A i \in 1..n : node[queue[i]].kind = "reader"
Batch == CHOOSE n \in 0..BATCH :
  /\ n <= Len(queue) /\ HeadRun(n)
  /\ n = BATCH \/ n = Len(queue) \/ ~HeadRun(n + 1)
First(n) == {queue[i] : i \in 1..n}

OneBatch(head, rest) == FALSE
More(head, rest) == head = "reader" /\ rest # <<>> /\ node[Head(rest)].kind = "reader"
grant_and_unlock(t, r, w) ==
  LET head == IF queue = <<>> THEN "none" ELSE node[Head(queue)].kind
      n == IF w \/ head = "none" THEN 0
           ELSE IF head = "reader" THEN Batch
           ELSE IF r = 0 THEN 1 ELSE 0
      rest == SubSeq(queue, n + 1, Len(queue))
  IN /\ queue' = rest
     /\ node' = [u \in Tasks |-> IF u \in First(n) THEN [node[u] EXCEPT !.granted = TRUE] ELSE node[u]]
     /\ readers' = IF head = "reader" THEN r + n ELSE r
     /\ writer' = (w \/ (head = "writer" /\ n = 1))
     /\ wakes' = [wakes EXCEPT ![t] = SubSeq(queue, 1, n)]
     /\ Goto(t, IF n = 0 THEN "idle" ELSE IF More(head, rest) THEN "wakemore" ELSE "wake")
     /\ UNCHANGED <<blocked, owed, klocks>>

Release(t) ==
  \/ pc[t] = "readdone" /\ grant_and_unlock(t, IF readers > 0 THEN readers - 1 ELSE 0, writer)
  \/ pc[t] = "writedone" /\ grant_and_unlock(t, readers, FALSE)
  \/ pc[t] = "more" /\ grant_and_unlock(t, readers, writer)

(* The kwakes of a batch; a task that saw more readers grants again.         *)
Wake(t) ==
  /\ kwake(t, "wake", "idle") \/ kwake(t, "wakemore", "more")
  /\ UNCHANGED <<readers, writer, klocks>>

Pay(t) == PayKwake(t) /\ UNCHANGED <<readers, writer, klocks>>
Disturb(t) == SignalWake(t) /\ UNCHANGED <<readers, writer, klocks>>

Init ==
  /\ ParkInit
  /\ readers = 0
  /\ writer = FALSE
  /\ klocks = [t \in Tasks |-> 0]

Call(t) == \E k \in Kinds, m \in Modes : Acquire(t, k, m)
Progress(t) == Spin(t) \/ Slow(t) \/ Park(t) \/ Uncount(t) \/ Release(t) \/ Wake(t)
Next == \E t \in Tasks : Call(t) \/ Progress(t) \/ Pay(t) \/ Disturb(t)

Spec == Init /\ [][Next]_vars

-----------------------------------------------------------------------------
Waiting == {"park", "check", "commit"}

(* Type invariant. *)
TypeOK ==
  /\ pc \in [Tasks -> {"idle", "spin", "slow", "reading", "writing", "readdone", "writedone",
                       "wake", "wakemore", "more"} \cup Waiting]
  /\ queue \in Seq(Tasks)
  /\ node \in [Tasks -> [granted : BOOLEAN, mode : {"none", "sleep", "spin"},
                         kind : {"none"} \cup Kinds, bypassed : {0}, deadline : {"never"}]]
  /\ blocked \in [Tasks -> BOOLEAN]
  /\ wakes \in [Tasks -> Seq(Tasks)]
  /\ owed \subseteq Tasks
  /\ readers \in 0..Cardinality(Tasks)
  /\ writer \in BOOLEAN
  /\ klocks \in [Tasks -> 0..1]

(* Tasks the lock counts as its readers and as its writer: inside, handed    *)
(* the lock and not yet running, or on their way out.                       *)
HandedTo(k) == {t \in Tasks : pc[t] \in Waiting /\ node[t].granted /\ node[t].kind = k}
ReaderSet == {t \in Tasks : pc[t] \in {"reading", "readdone"}} \cup HandedTo("reader")
WriterSet == {t \in Tasks : pc[t] \in {"writing", "writedone"}} \cup HandedTo("writer")

(* The words of the lock count exactly its holders, and a writer excludes    *)
(* everybody else.                                                          *)
HoldersExact ==
  /\ readers = Cardinality(ReaderSet)
  /\ (IF writer THEN 1 ELSE 0) = Cardinality(WriterSet)
  /\ writer => readers = 0

(* Whoever could have the lock now is not left in the queue: behind a free   *)
(* lock nobody waits, and a reader at the head of a read-held lock is there  *)
(* only while some releaser is still granting.                              *)
NobodyForgotten ==
  queue # <<>> /\ ~writer =>
    \/ node[Head(queue)].kind = "writer" /\ readers > 0
    \/ \E t \in Tasks : pc[t] \in {"wakemore", "more"}

(* Outside the release itself KLOCKS counts exactly the holders and the      *)
(* queued, granted or not.  Between the klock_dec of an unlock and its hold of *)
(* the internal lock the task is still a holder and is counted no more: see   *)
(* CountNeverLow.                                                           *)
Releasing == {"readdone", "writedone"}
HoldersCounted ==
  \A t \in Tasks :
    pc[t] \notin Releasing =>
      klocks[t] = IF t \in ReaderSet \cup WriterSet \/ pc[t] \in Waiting THEN 1 ELSE 0

(* A granted waiter that has parked always has a kwake on the way.           *)
NoLostWake == \A t \in Tasks : ~LostWake(t)

(* Nobody who is not queued takes the lock past a task that is: a stream of   *)
(* readers does not starve a writer (try_read looks at the queue).           *)
NoneOvertakes ==
  queue # <<>> => \A t \in Tasks :
    pc[t] \in {"idle", "spin", "slow"} => pc'[t] \notin {"reading", "writing"}

-----------------------------------------------------------------------------
(* What the comment on KLOCK_SLOTS says, where the code does otherwise: "the  *)
(* count can only read too high for a pid [...], never too low".  A task the  *)
(* lock counts as a reader or as its writer, or has in its queue, is counted. *)
CountNeverLow ==
  \A t \in Tasks :
    t \in ReaderSet \cup WriterSet \/ (\E i \in DOMAIN queue : queue[i] = t) => klocks[t] > 0
============================================================================
