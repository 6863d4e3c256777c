---------------------------- MODULE KsyncProofs ----------------------------
(***************************************************************************)
(* The sleeping mutex of sched/src/ksync.rs is exact, forgets nobody and     *)
(* keeps its promise of order, for any tasks, lock classes, timeouts and     *)
(* slots of KLOCKS; and the deferral of kwake (sched/src/lib.rs) forgets no   *)
(* wake, for any number of tasks, wakers, CPUs and slots.                    *)
(*                                                                         *)
(* The invariant of the mutex adds to its properties what ties the queue to  *)
(* the tasks: nobody is queued twice, a task is queued exactly while it waits *)
(* ungranted, and of two Fifo waiters the one in front has been overtaken at *)
(* least as often.                                                          *)
(***************************************************************************)
EXTENDS KMutex, KWake, FiniteSetTheorems, NaturalsInduction, TLAPS

(* First-order reasoning suffices unless a step names another prover. *)
USE Zenon

-----------------------------------------------------------------------------
(* Queues: what InsertAt and RemoveAt do to the positions.                   *)

(* Concatenation, position by position.                                      *)
LEMMA Joined ==
  ASSUME NEW S, NEW s \in Seq(S), NEW t \in Seq(S)
  PROVE  /\ s \o t \in Seq(S) /\ Len(s \o t) = Len(s) + Len(t)
         /\ \A i \in 1..(Len(s) + Len(t)) : (s \o t)[i] = IF i <= Len(s) THEN s[i] ELSE t[i - Len(s)]
BY SMT

(* WaitList::insert_classed links the node at its place and moves the others *)
(* back by one.                                                             *)
LEMMA Inserted ==
  ASSUME NEW S, NEW q \in Seq(S), NEW p \in 1..(Len(q) + 1), NEW e \in S
  PROVE  /\ InsertAt(q, p, e) \in Seq(S)
         /\ Len(InsertAt(q, p, e)) = Len(q) + 1
         /\ \A i \in 1..(Len(q) + 1) :
              InsertAt(q, p, e)[i] = IF i < p THEN q[i] ELSE IF i = p THEN e ELSE q[i - 1]
<1> DEFINE a == SubSeq(q, 1, p - 1)
           b == SubSeq(q, p, Len(q))
<1>1. a \in Seq(S) /\ Len(a) = p - 1 /\ \A i \in 1..(p - 1) : a[i] = q[i]
  BY SMT
<1>2. b \in Seq(S) /\ Len(b) = Len(q) + 1 - p /\ \A i \in 1..(Len(q) + 1 - p) : b[i] = q[p + i - 1]
  BY SMT
<1>3. InsertAt(q, p, e) = a \o <<e>> \o b
  BY DEF InsertAt
<1> HIDE DEF a, b
<1>4. /\ (a \o <<e>>) \in Seq(S) /\ Len(a \o <<e>>) = p
      /\ \A i \in 1..p : (a \o <<e>>)[i] = IF i < p THEN q[i] ELSE e
  BY <1>1, SMT
<1> DEFINE c == a \o <<e>>
<1> HIDE DEF c
<1>5. c \in Seq(S) /\ Len(c) = p /\ \A i \in 1..p : c[i] = IF i < p THEN q[i] ELSE e
  BY <1>4 DEF c
<1>6. /\ c \o b \in Seq(S) /\ Len(c \o b) = Len(c) + Len(b)
      /\ \A i \in 1..(Len(c) + Len(b)) : (c \o b)[i] = IF i <= Len(c) THEN c[i] ELSE b[i - Len(c)]
  BY <1>2, <1>5, Joined
<1> DEFINE d == c \o b
<1> HIDE DEF d
<1>7. \A i \in 1..(Len(q) + 1) : d[i] = IF i < p THEN q[i] ELSE IF i = p THEN e ELSE q[i - 1]
  BY <1>2, <1>5, <1>6, SMT DEF d
<1>8. d \in Seq(S) /\ Len(d) = Len(q) + 1
  BY <1>2, <1>5, <1>6, SMT DEF d
<1> QED BY <1>3, <1>7, <1>8 DEF c, d

(* WaitList::remove closes the gap.                                          *)
LEMMA Dropped ==
  ASSUME NEW S, NEW q \in Seq(S), NEW p \in 1..Len(q)
  PROVE  /\ RemoveAt(q, p) \in Seq(S)
         /\ Len(RemoveAt(q, p)) = Len(q) - 1
         /\ \A i \in 1..(Len(q) - 1) : RemoveAt(q, p)[i] = IF i < p THEN q[i] ELSE q[i + 1]
<1> DEFINE a == SubSeq(q, 1, p - 1)
           b == SubSeq(q, p + 1, Len(q))
<1>1. a \in Seq(S) /\ Len(a) = p - 1 /\ \A i \in 1..(p - 1) : a[i] = q[i]
  BY SMT
<1>2. b \in Seq(S) /\ Len(b) = Len(q) - p /\ \A i \in 1..(Len(q) - p) : b[i] = q[p + i]
  BY SMT
<1>3. RemoveAt(q, p) = a \o b
  BY DEF RemoveAt
<1> HIDE DEF a, b
<1>4. /\ a \o b \in Seq(S) /\ Len(a \o b) = Len(a) + Len(b)
      /\ \A i \in 1..(Len(a) + Len(b)) : (a \o b)[i] = IF i <= Len(a) THEN a[i] ELSE b[i - Len(a)]
  BY <1>1, <1>2, Joined
<1> DEFINE d == a \o b
<1> HIDE DEF d
<1>5. d \in Seq(S) /\ Len(d) = Len(q) - 1
  BY <1>1, <1>2, <1>4, SMT DEF d
<1>6. \A i \in 1..(Len(q) - 1) : d[i] = IF i < p THEN q[i] ELSE q[i + 1]
  BY <1>1, <1>2, <1>4, SMT DEF d
<1> QED BY <1>3, <1>5, <1>6 DEF d

Distinct(q) == \A i, j \in DOMAIN q : q[i] = q[j] => i = j

(* r has the elements of q in the order of q.                                *)
Thins(q, r) ==
  \A i, j \in DOMAIN r : i <= j => \E a, b \in DOMAIN q : a <= b /\ q[a] = r[i] /\ q[b] = r[j]

(* What a queue keeps when one node is unlinked, wherever it is.             *)
LEMMA DropKeeps ==
  ASSUME NEW S, NEW q \in Seq(S), Distinct(q), NEW p \in 1..Len(q)
  PROVE  /\ Distinct(RemoveAt(q, p)) /\ Thins(q, RemoveAt(q, p))
         /\ Range(RemoveAt(q, p)) = Range(q) \ {q[p]}
<1> DEFINE r == RemoveAt(q, p)
<1>1. /\ r \in Seq(S) /\ Len(r) = Len(q) - 1
      /\ \A i \in 1..(Len(q) - 1) : r[i] = IF i < p THEN q[i] ELSE q[i + 1]
  BY Dropped
<1> HIDE DEF r
<1> DEFINE at(i) == IF i < p THEN i ELSE i + 1
<1>2. /\ DOMAIN q = 1..Len(q) /\ DOMAIN r = 1..(Len(q) - 1) /\ Len(q) \in Nat
  BY <1>1, SMT
<1>3. \A i \in DOMAIN r : at(i) \in DOMAIN q /\ at(i) # p /\ r[i] = q[at(i)]
  BY <1>1, <1>2, SMT
<1>4. \A i, j \in DOMAIN r : (i <= j => at(i) <= at(j)) /\ (at(i) = at(j) => i = j)
  BY <1>2, SMT
<1>5. \A k \in DOMAIN q : k # p => \E i \in DOMAIN r : at(i) = k
  <2> SUFFICES ASSUME NEW k \in DOMAIN q, k # p PROVE \E i \in DOMAIN r : at(i) = k
    OBVIOUS
  <2>1. CASE k < p
    BY <1>2, <2>1, SMT
  <2>2. CASE k > p
    <3>1. k - 1 \in DOMAIN r /\ at(k - 1) = k
      BY <1>2, <2>2, SMT
    <3> QED BY <3>1
  <2> QED BY <1>2, <2>1, <2>2, SMT
<1> HIDE DEF at
<1>6. Distinct(r)
  BY <1>3, <1>4 DEF Distinct
<1>7. Thins(q, r)
  BY <1>3, <1>4 DEF Thins
<1>8. \A k \in DOMAIN q : k # p => q[k] # q[p]
  BY <1>2 DEF Distinct
<1>9. Range(r) = Range(q) \ {q[p]}
  BY <1>3, <1>5, <1>8, SMT DEF Range
<1> QED BY <1>6, <1>7, <1>9 DEF r

(* The waiter at the head is unlinked like any other (KRawMutex::unlock).    *)
LEMMA TailDrops ==
  ASSUME NEW S, NEW q \in Seq(S), q # <<>>
  PROVE  1 \in 1..Len(q) /\ Head(q) = q[1] /\ Tail(q) = RemoveAt(q, 1)
<1>1. 1 \in 1..Len(q) /\ Len(q) \in Nat /\ Head(q) = q[1]
  BY SMT
<1>2. /\ RemoveAt(q, 1) \in Seq(S) /\ Len(RemoveAt(q, 1)) = Len(q) - 1
      /\ \A i \in 1..(Len(q) - 1) : RemoveAt(q, 1)[i] = q[i + 1]
  BY <1>1, Dropped, SMT
<1>3. /\ Tail(q) \in Seq(S) /\ Len(Tail(q)) = Len(q) - 1
      /\ \A i \in 1..(Len(q) - 1) : Tail(q)[i] = q[i + 1]
  BY SMT
<1> DEFINE a == RemoveAt(q, 1)
           b == Tail(q)
<1>4. /\ a \in Seq(S) /\ Len(a) = Len(q) - 1 /\ \A i \in 1..(Len(q) - 1) : a[i] = q[i + 1]
      /\ b \in Seq(S) /\ Len(b) = Len(q) - 1 /\ \A i \in 1..(Len(q) - 1) : b[i] = q[i + 1]
  BY <1>2, <1>3
<1> HIDE DEF a, b
<1>5. a = b
  BY <1>1, <1>4, SMT
<1> QED BY <1>1, <1>5 DEF a, b

(* A node linked at place p: two nodes of the new queue are two of the old    *)
(* one, on the same side of p or on both, or one of them is the new node.     *)
LEMMA InsertKeeps ==
  ASSUME NEW S, NEW q \in Seq(S), Distinct(q), NEW e \in S \ Range(q), NEW p \in 1..(Len(q) + 1)
  PROVE  /\ Distinct(InsertAt(q, p, e))
         /\ Range(InsertAt(q, p, e)) = Range(q) \cup {e}
         /\ \A i, j \in DOMAIN InsertAt(q, p, e) : i <= j =>
              \/ \E a, b \in DOMAIN q : a <= b /\ q[a] = InsertAt(q, p, e)[i] /\ q[b] = InsertAt(q, p, e)[j]
              \/ InsertAt(q, p, e)[j] = e
              \/ InsertAt(q, p, e)[i] = e /\ p <= Len(q)
<1> DEFINE r == InsertAt(q, p, e)
<1>1. /\ r \in Seq(S) /\ Len(r) = Len(q) + 1
      /\ \A i \in 1..(Len(q) + 1) : r[i] = IF i < p THEN q[i] ELSE IF i = p THEN e ELSE q[i - 1]
  <2>1. e \in S
    OBVIOUS
  <2>2. /\ InsertAt(q, p, e) \in Seq(S) /\ Len(InsertAt(q, p, e)) = Len(q) + 1
        /\ \A i \in 1..(Len(q) + 1) :
             InsertAt(q, p, e)[i] = IF i < p THEN q[i] ELSE IF i = p THEN e ELSE q[i - 1]
    <3>1. InsertAt(q, p, e) \in Seq(S) /\ Len(InsertAt(q, p, e)) = Len(q) + 1
      BY <2>1, Inserted, SMT
    <3>2. ASSUME NEW i \in 1..(Len(q) + 1)
          PROVE  InsertAt(q, p, e)[i] = IF i < p THEN q[i] ELSE IF i = p THEN e ELSE q[i - 1]
      BY <2>1, Inserted, SMT
    <3> QED BY <3>1, <3>2
  <2> QED BY <2>2
<1> HIDE DEF r
<1> DEFINE at(i) == IF i < p THEN i ELSE i - 1
<1>2. DOMAIN q = 1..Len(q) /\ DOMAIN r = 1..(Len(q) + 1) /\ Len(q) \in Nat
  BY <1>1, SMT
<1>3. \A i \in DOMAIN r : i # p => at(i) \in DOMAIN q /\ r[i] = q[at(i)]
  BY <1>1, <1>2, SMT
<1>4. p \in DOMAIN r /\ r[p] = e
  BY <1>1, <1>2, SMT
<1>5. \A i, j \in DOMAIN r :
        i # p /\ j # p => (i <= j => at(i) <= at(j)) /\ (at(i) = at(j) => i = j)
  BY <1>2, SMT
<1>6. \A i, j \in DOMAIN r : i <= j /\ i = p /\ j # p => p <= Len(q)
  BY <1>2, SMT
<1>7. \A k \in DOMAIN q : \E i \in DOMAIN r : i # p /\ at(i) = k
  <2> SUFFICES ASSUME NEW k \in DOMAIN q PROVE \E i \in DOMAIN r : i # p /\ at(i) = k
    OBVIOUS
  <2>1. CASE k < p
    BY <1>2, <2>1, SMT
  <2>2. CASE k >= p
    <3>1. k + 1 \in DOMAIN r /\ k + 1 # p /\ at(k + 1) = k
      BY <1>2, <2>2, SMT
    <3> QED BY <3>1
  <2> QED BY <1>2, <2>1, <2>2, SMT
<1> HIDE DEF at
<1>8. \A k \in DOMAIN q : q[k] # e
  BY DEF Range
<1>9. Distinct(r)
  BY <1>3, <1>4, <1>5, <1>8 DEF Distinct
<1>10. Range(r) = Range(q) \cup {e}
  BY <1>3, <1>4, <1>7, SMT DEF Range
<1>11. \A i, j \in DOMAIN r : i <= j =>
         \/ \E a, b \in DOMAIN q : a <= b /\ q[a] = r[i] /\ q[b] = r[j]
         \/ r[j] = e
         \/ r[i] = e /\ p <= Len(q)
  BY <1>3, <1>4, <1>5, <1>6
<1> QED BY <1>9, <1>10, <1>11 DEF r

-----------------------------------------------------------------------------
(* KLOCKS counts tasks slot by slot.                                        *)

(* One task more, or one less, in a finite set of tasks.                     *)
LEMMA OneMore ==
  ASSUME IsFiniteSet(Tasks), NEW A \in SUBSET Tasks, NEW t \in Tasks
  PROVE  /\ Cardinality(A) \in Nat
         /\ t \notin A => Cardinality(A \cup {t}) = Cardinality(A) + 1
         /\ t \in A => Cardinality(A) # 0 /\ Cardinality(A \ {t}) = Cardinality(A) - 1
<1>1. IsFiniteSet(A)
  BY FS_Subset
<1>2. Cardinality(A) \in Nat
  BY <1>1, FS_CardinalityType
<1>3. t \notin A => Cardinality(A \cup {t}) = Cardinality(A) + 1
  BY <1>1, FS_AddElement
<1>4. t \in A => Cardinality(A \ {t}) = Cardinality(A) - 1
  BY <1>1, FS_RemoveElement
<1>5. t \in A => Cardinality(A) # 0
  BY <1>1, FS_EmptySet
<1> QED BY <1>2, <1>3, <1>4, <1>5

Here(s) == {t \in Tasks : Slot[t] = s /\ Counted(t)}
KlocksType == klocks \in [{Slot[t] : t \in Tasks} -> Nat]

(* A count that goes with the task it counts: klock_inc when the task starts  *)
(* to hold or to queue, klock_dec when it stops.                            *)
LEMMA CountMoves ==
  ASSUME MutexAssumption, KlocksType, KlocksExact, NEW t \in Tasks,
         \A u \in Tasks : u # t => (Counted(u)' <=> Counted(u)),
         \/ klocks' = klocks /\ (Counted(t)' <=> Counted(t))
         \/ klocks' = klock_inc(t) /\ Counted(t)' /\ ~Counted(t)
         \/ klocks' = klock_dec(t) /\ ~Counted(t)' /\ Counted(t)
  PROVE  KlocksType' /\ KlocksExact'
<1>1. IsFiniteSet(Tasks)
  BY DEF MutexAssumption
<1>2. \A s \in DOMAIN klocks : klocks[s] = Cardinality(Here(s)) /\ klocks[s] \in Nat
  BY DEF KlocksExact, Here, KlocksType
<1>3. Slot[t] \in DOMAIN klocks
  BY DEF KlocksType
<1>4. \A s : s # Slot[t] => Here(s)' = Here(s)
  BY DEF Here
<1>5. SUFFICES KlocksType' /\ \A s \in DOMAIN klocks' : klocks'[s] = Cardinality(Here(s)')
  BY DEF KlocksExact, Here
<1>6. Here(Slot[t]) \in SUBSET Tasks
  BY DEF Here
<1>7. CASE klocks' = klocks /\ (Counted(t)' <=> Counted(t))
  <2>1. \A s : Here(s)' = Here(s)
    BY <1>7 DEF Here
  <2> QED BY <1>2, <1>7, <2>1 DEF KlocksType
<1>8. CASE klocks' = klock_inc(t) /\ Counted(t)' /\ ~Counted(t)
  <2>1. Here(Slot[t])' = Here(Slot[t]) \cup {t} /\ t \notin Here(Slot[t])
    BY <1>8 DEF Here
  <2>2. Cardinality(Here(Slot[t])') = klocks[Slot[t]] + 1
    BY <1>1, <1>2, <1>3, <1>6, <2>1, OneMore
  <2>3. klocks' = [klocks EXCEPT ![Slot[t]] = klocks[Slot[t]] + 1]
    BY <1>8 DEF klock_inc
  <2> QED BY <1>2, <1>3, <1>4, <2>2, <2>3, SMT DEF KlocksType
<1>9. CASE klocks' = klock_dec(t) /\ ~Counted(t)' /\ Counted(t)
  <2>1. Here(Slot[t])' = Here(Slot[t]) \ {t} /\ t \in Here(Slot[t])
    BY <1>9 DEF Here
  <2>2. klocks[Slot[t]] # 0 /\ Cardinality(Here(Slot[t])') = klocks[Slot[t]] - 1
    BY <1>1, <1>2, <1>3, <1>6, <2>1, OneMore
  <2>3. klocks' = [klocks EXCEPT ![Slot[t]] = klocks[Slot[t]] - 1]
    BY <1>9, <2>2 DEF klock_dec
  <2>4. klocks[Slot[t]] - 1 \in Nat
    BY <1>2, <1>3, <2>2, SMT
  <2> QED BY <1>2, <1>3, <1>4, <2>2, <2>3, <2>4, SMT DEF KlocksType
<1> QED BY <1>7, <1>8, <1>9

-----------------------------------------------------------------------------
(* The invariant of the mutex.                                              *)

NodeType == [granted : BOOLEAN, mode : {"none", "sleep", "spin", "qspin"},
             kind : {"none", "fifo", "prio", "resume"}, bypassed : 0..COUNT_MAX, deadline : Deadlines]
PcType == {"idle", "spin", "slow", "giveback", "held", "wake"} \cup Waiting

(* All types but that of KLOCKS, which goes with its counts.                 *)
Types ==
  /\ pc \in [Tasks -> PcType] /\ queue \in Seq(Tasks) /\ node \in [Tasks -> NodeType]
  /\ blocked \in [Tasks -> BOOLEAN] /\ wakes \in [Tasks -> Seq(Tasks)] /\ owed \subseteq Tasks
  /\ owner \in Tasks \cup {NoOwner}

(* A task is queued exactly while it waits ungranted.                        *)
QueueOK(t) == Linked(t) <=> pc[t] \in Waiting /\ ~node[t].granted

(* What a task's place in the code says of its node and of the kwake it owes. *)
NodeOK(t) ==
  /\ node[t].granted => pc[t] \in Waiting
  /\ pc[t] \in {"park", "check", "commit"} => node[t].mode # "qspin"
  /\ pc[t] = "slow" => node[t].bypassed = 0
WakesOK(t) == IF pc[t] = "wake" THEN Len(wakes[t]) = 1 ELSE wakes[t] = <<>>

OwnerOK(t) == owner = t <=> pc[t] = "held" \/ (pc[t] \in Waiting /\ node[t].granted)

(* Of two Fifo waiters the one in front has been overtaken at least as often. *)
Fifo(t) == node[t].kind = "fifo"
Ordered ==
  \A i, j \in DOMAIN queue : i <= j /\ Fifo(queue[i]) /\ Fifo(queue[j])
    => node[queue[j]].bypassed <= node[queue[i]].bypassed

TasksOK == \A t \in Tasks : QueueOK(t) /\ NodeOK(t) /\ WakesOK(t) /\ OwnerOK(t) /\ ~LostWake(t)
IInv ==
  /\ Types /\ KlocksType /\ KlocksExact
  /\ Distinct(queue) /\ Ordered /\ NoBarging /\ TasksOK

(* The node of a call that has returned.                                     *)
LEMMA NoNodeFacts ==
  ASSUME MutexAssumption
  PROVE  /\ NoNode \in NodeType /\ ~NoNode.granted /\ NoNode.mode = "none"
         /\ NoNode.kind = "none" /\ NoNode.bypassed = 0
BY SMT DEF MutexAssumption, NoNode, Node, NodeType, Deadlines

(* The mutex is free before anybody calls.                                   *)
LEMMA MutexInit == MutexAssumption /\ Init => IInv
<1> SUFFICES ASSUME MutexAssumption, Init PROVE IInv
  OBVIOUS
<1>1. Types
  BY NoNodeFacts, SMT DEF Init, ParkInit, Types, PcType
<1>2. \A t \in Tasks : /\ pc[t] = "idle" /\ wakes[t] = <<>> /\ node[t] = NoNode /\ ~blocked[t]
                       /\ ~Linked(t) /\ owner # t
  BY SMT DEF Init, ParkInit, Linked, Range, MutexAssumption
<1>3. TasksOK
  BY <1>2, NoNodeFacts DEF TasksOK, QueueOK, NodeOK, WakesOK, OwnerOK, LostWake, Waiting
<1>4. Distinct(queue) /\ Ordered /\ NoBarging
  BY SMT DEF Init, ParkInit, Distinct, Ordered, NoBarging
<1>5. \A s : Here(s) = {}
  BY <1>2 DEF Here, Counted, Waiting
<1>6. KlocksType /\ KlocksExact
  BY <1>5, FS_EmptySet DEF Init, KlocksType, KlocksExact, Here
<1> QED BY <1>1, <1>3, <1>4, <1>6 DEF IInv

(* A step that leaves the queue as it is, and every Fifo node in it.         *)
LEMMA QueueStays ==
  ASSUME IInv, queue' = queue,
         \A u \in Tasks : Linked(u) => node'[u].kind = node[u].kind /\ node'[u].bypassed = node[u].bypassed
  PROVE  Distinct(queue)' /\ Ordered'
<1>1. \A i \in DOMAIN queue : queue[i] \in Tasks /\ Linked(queue[i])
  BY SMT DEF IInv, Types, Linked, Range
<1>2. \A i \in DOMAIN queue :
        node'[queue[i]].kind = node[queue[i]].kind /\ node'[queue[i]].bypassed = node[queue[i]].bypassed
  BY <1>1
<1>3. Ordered'
  BY <1>2, SMT DEF IInv, Ordered, Fifo
<1> QED BY <1>3 DEF IInv, Distinct

(* try_lock, the spin and the locked re-check take a free mutex.             *)
LEMMA TakeKeeps ==
  ASSUME MutexAssumption, IInv, NEW t \in Tasks, pc[t] \in {"idle", "spin", "slow"},
         Take(t), UNCHANGED <<blocked, wakes, owed>>
  PROVE  IInv'
<1>1. /\ owner = NoOwner /\ owner' = t /\ queue' = queue /\ klocks' = klock_inc(t)
      /\ pc' = [pc EXCEPT ![t] = "held"] /\ node' = [node EXCEPT ![t] = NoNode]
      /\ blocked' = blocked /\ wakes' = wakes /\ owed' = owed
  BY DEF Take
<1>2. /\ pc'[t] = "held" /\ node'[t] = NoNode
      /\ \A u \in Tasks : u # t => pc'[u] = pc[u] /\ node'[u] = node[u]
  BY <1>1 DEF IInv, Types
<1>3. Types'
  BY <1>1, NoNodeFacts DEF IInv, Types, PcType
<1>4. queue = <<>> /\ \A u \in Tasks : ~Linked(u) /\ ~Linked(u)' /\ owner # u
  BY <1>1, SMT DEF IInv, NoBarging, Linked, Range, MutexAssumption
<1>5. Distinct(queue)' /\ Ordered' /\ NoBarging'
  BY <1>1, <1>4, QueueStays DEF NoBarging
<1>6. KlocksType' /\ KlocksExact'
  BY <1>1, <1>2, CountMoves DEF IInv, Counted, Waiting
<1>7. ASSUME NEW u \in Tasks
      PROVE  QueueOK(u)' /\ NodeOK(u)' /\ WakesOK(u)' /\ OwnerOK(u)' /\ ~LostWake(u)'
  <2>1. QueueOK(u) /\ NodeOK(u) /\ WakesOK(u) /\ OwnerOK(u) /\ ~LostWake(u)
    BY DEF IInv, TasksOK
  <2>2. CASE u = t
    BY <1>1, <1>2, <1>4, <2>1, <2>2, NoNodeFacts DEF QueueOK, NodeOK, WakesOK, OwnerOK, LostWake, Waiting
  <2>3. CASE u # t
    BY <1>1, <1>2, <1>4, <2>1, <2>3 DEF QueueOK, NodeOK, WakesOK, OwnerOK, LostWake, WakeOnTheWay
  <2> QED BY <2>2, <2>3
<1> QED BY <1>3, <1>5, <1>6, <1>7 DEF IInv, TasksOK

(* A call that starts to wait, or gives up before it is queued: the mutex is  *)
(* another task's.                                                          *)
LEMMA OutsideKeeps ==
  ASSUME MutexAssumption, IInv, NEW t \in Tasks, NEW n \in NodeType, NEW k \in {"idle", "spin", "slow"},
         pc[t] \in {"idle", "spin"}, ~n.granted, n.bypassed = 0,
         pc' = [pc EXCEPT ![t] = k], node' = [node EXCEPT ![t] = n],
         UNCHANGED <<queue, owner, klocks, blocked, wakes, owed>>
  PROVE  IInv'
<1>1. /\ pc'[t] = k /\ node'[t] = n
      /\ \A u \in Tasks : u # t => pc'[u] = pc[u] /\ node'[u] = node[u]
  BY DEF IInv, Types
<1>2. Types'
  BY DEF IInv, Types, PcType
<1>3. \A u \in Tasks : /\ QueueOK(u) /\ NodeOK(u) /\ WakesOK(u) /\ OwnerOK(u) /\ ~LostWake(u)
                       /\ Linked(u)' = Linked(u) /\ WakeOnTheWay(u)' = WakeOnTheWay(u)
  BY DEF IInv, TasksOK, Linked, WakeOnTheWay
<1>4. ~Linked(t)
  BY <1>3 DEF QueueOK, Waiting
<1>5. Distinct(queue)' /\ Ordered' /\ NoBarging'
  BY <1>1, <1>4, QueueStays DEF IInv, NoBarging
<1>6. KlocksType' /\ KlocksExact'
  BY <1>1, CountMoves, SMT DEF IInv, Counted, Waiting
<1>7. ASSUME NEW u \in Tasks
      PROVE  QueueOK(u)' /\ NodeOK(u)' /\ WakesOK(u)' /\ OwnerOK(u)' /\ ~LostWake(u)'
  <2>1. CASE u = t
    BY <1>1, <1>3, <2>1 DEF QueueOK, NodeOK, WakesOK, OwnerOK, LostWake, Waiting
  <2>2. CASE u # t
    BY <1>1, <1>3, <2>2, ZenonT(30) DEF QueueOK, NodeOK, WakesOK, OwnerOK, LostWake
  <2> QED BY <2>1, <2>2
<1> QED BY <1>2, <1>5, <1>6, <1>7 DEF IInv, TasksOK

(* park_until_granted goes round: it commits only to a grant it has not got. *)
LEMMA RoundKeeps ==
  ASSUME MutexAssumption, IInv, NEW t \in Tasks, NEW k \in {"park", "check", "commit"}, NEW b \in BOOLEAN,
         pc[t] \in {"park", "check", "commit"}, k = "commit" => ~node[t].granted,
         pc' = [pc EXCEPT ![t] = k], blocked' = [blocked EXCEPT ![t] = b],
         UNCHANGED <<queue, node, owner, klocks, wakes, owed>>
  PROVE  IInv'
<1>1. pc'[t] = k /\ \A u \in Tasks : u # t => pc'[u] = pc[u] /\ blocked'[u] = blocked[u]
  BY DEF IInv, Types
<1>2. Types'
  BY DEF IInv, Types, PcType, Waiting
<1>3. \A u \in Tasks : /\ QueueOK(u) /\ NodeOK(u) /\ WakesOK(u) /\ OwnerOK(u) /\ ~LostWake(u)
                       /\ Linked(u)' = Linked(u) /\ WakeOnTheWay(u)' = WakeOnTheWay(u)
  BY DEF IInv, TasksOK, Linked, WakeOnTheWay
<1>4. Distinct(queue)' /\ Ordered' /\ NoBarging'
  BY QueueStays DEF IInv, NoBarging
<1>5. KlocksType' /\ KlocksExact'
  BY <1>1, CountMoves, SMT DEF IInv, Counted, Waiting
<1>6. ASSUME NEW u \in Tasks
      PROVE  QueueOK(u)' /\ NodeOK(u)' /\ WakesOK(u)' /\ OwnerOK(u)' /\ ~LostWake(u)'
  <2>1. CASE u = t
    BY <1>1, <1>3, <2>1 DEF QueueOK, NodeOK, WakesOK, OwnerOK, LostWake, Waiting
  <2>2. CASE u # t
    BY <1>1, <1>3, <2>2 DEF QueueOK, NodeOK, WakesOK, OwnerOK, LostWake
  <2> QED BY <2>1, <2>2
<1> QED BY <1>2, <1>4, <1>5, <1>6 DEF IInv, TasksOK

(* A waiter finds its grant: the mutex has been its own since the hand-off.   *)
LEMMA WonKeeps ==
  ASSUME MutexAssumption, IInv, NEW t \in Tasks, NEW b \in BOOLEAN,
         pc[t] \in Waiting, node[t].granted,
         pc' = [pc EXCEPT ![t] = "held"], node' = [node EXCEPT ![t] = NoNode],
         blocked' = [blocked EXCEPT ![t] = b], UNCHANGED <<queue, owner, klocks, wakes, owed>>
  PROVE  IInv'
<1>1. /\ pc'[t] = "held" /\ node'[t] = NoNode
      /\ \A u \in Tasks : u # t => pc'[u] = pc[u] /\ node'[u] = node[u] /\ blocked'[u] = blocked[u]
  BY DEF IInv, Types
<1>2. Types'
  BY NoNodeFacts DEF IInv, Types, PcType
<1>3. \A u \in Tasks : /\ QueueOK(u) /\ NodeOK(u) /\ WakesOK(u) /\ OwnerOK(u) /\ ~LostWake(u)
                       /\ Linked(u)' = Linked(u) /\ WakeOnTheWay(u)' = WakeOnTheWay(u)
  BY DEF IInv, TasksOK, Linked, WakeOnTheWay
<1>4. ~Linked(t)
  BY <1>3 DEF QueueOK
<1>5. Distinct(queue)' /\ Ordered' /\ NoBarging'
  BY <1>1, <1>4, QueueStays DEF IInv, NoBarging
<1>6. KlocksType' /\ KlocksExact'
  BY <1>1, CountMoves, SMT DEF IInv, Counted
<1>7. ASSUME NEW u \in Tasks
      PROVE  QueueOK(u)' /\ NodeOK(u)' /\ WakesOK(u)' /\ OwnerOK(u)' /\ ~LostWake(u)'
  <2>1. CASE u = t
    BY <1>1, <1>3, <2>1, NoNodeFacts, SMT DEF QueueOK, NodeOK, WakesOK, OwnerOK, LostWake, Waiting
  <2>2. CASE u # t
    BY <1>1, <1>3, <2>2, SMT DEF QueueOK, NodeOK, WakesOK, OwnerOK, LostWake
  <2> QED BY <2>1, <2>2
<1> QED BY <1>2, <1>5, <1>6, <1>7 DEF IInv, TasksOK

(* A waiter whose time is up unlinks its node: it was not granted.           *)
LEMMA LateKeeps ==
  ASSUME MutexAssumption, IInv, NEW t \in Tasks, NEW b \in BOOLEAN,
         pc[t] \in Waiting, ~node[t].granted, queue' = Removed(t),
         pc' = [pc EXCEPT ![t] = "giveback"], node' = [node EXCEPT ![t] = NoNode],
         blocked' = [blocked EXCEPT ![t] = b], UNCHANGED <<owner, klocks, wakes, owed>>
  PROVE  IInv'
<1>1. /\ pc'[t] = "giveback" /\ node'[t] = NoNode
      /\ \A u \in Tasks : u # t => pc'[u] = pc[u] /\ node'[u] = node[u] /\ blocked'[u] = blocked[u]
  BY DEF IInv, Types
<1>2. \A u \in Tasks : /\ QueueOK(u) /\ NodeOK(u) /\ WakesOK(u) /\ OwnerOK(u) /\ ~LostWake(u)
                       /\ WakeOnTheWay(u)' = WakeOnTheWay(u)
  BY DEF IInv, TasksOK, WakeOnTheWay
<1>3. Linked(t) /\ queue \in Seq(Tasks) /\ Distinct(queue)
  BY <1>2 DEF QueueOK, IInv, Types
<1> DEFINE p == CHOOSE i \in DOMAIN queue : queue[i] = t
<1>4. p \in 1..Len(queue) /\ queue[p] = t
  BY <1>3, SMT DEF Linked, Range
<1>5. queue' = RemoveAt(queue, p)
  BY <1>3 DEF Removed
<1> HIDE DEF p
<1>6. queue' \in Seq(Tasks) /\ Distinct(queue') /\ Thins(queue, queue') /\ Range(queue') = Range(queue) \ {t}
  BY <1>3, <1>4, <1>5, Dropped, DropKeeps, SMT
<1>7. Types'
  BY <1>6, NoNodeFacts DEF IInv, Types, PcType
<1>8. \A u \in Tasks : Linked(u)' <=> Linked(u) /\ u # t
  BY <1>6 DEF Linked
<1>9. Ordered'
  <2>1. \A i \in DOMAIN queue' : node'[queue'[i]] = node[queue'[i]]
    BY <1>1, <1>6, SMT DEF Range
  <2> QED BY <1>6, <2>1, SMT DEF IInv, Ordered, Thins, Fifo
<1>10. NoBarging'
  BY <1>3, SMT DEF IInv, NoBarging, Linked, Range
<1>11. KlocksType' /\ KlocksExact'
  BY <1>1, CountMoves, ZenonT(30) DEF IInv, Counted
<1>12. ASSUME NEW u \in Tasks
       PROVE  QueueOK(u)' /\ NodeOK(u)' /\ WakesOK(u)' /\ OwnerOK(u)' /\ ~LostWake(u)'
  <2>1. CASE u = t
    BY <1>1, <1>2, <1>8, <2>1, NoNodeFacts, SMT DEF QueueOK, NodeOK, WakesOK, OwnerOK, LostWake, Waiting
  <2>2. CASE u # t
    BY <1>1, <1>2, <1>8, <2>2, ZenonT(30) DEF QueueOK, NodeOK, WakesOK, OwnerOK, LostWake
  <2> QED BY <2>1, <2>2
<1> QED BY <1>6, <1>7, <1>9, <1>10, <1>11, <1>12 DEF IInv, TasksOK

(* A tick, a deadline or a signal makes a task runnable, whatever it waits for. *)
LEMMA UnblockKeeps ==
  ASSUME MutexAssumption, IInv, NEW t \in Tasks,
         blocked' = [blocked EXCEPT ![t] = FALSE], owed' \in {owed, owed \ {t}},
         UNCHANGED <<pc, queue, node, wakes, owner, klocks>>
  PROVE  IInv'
<1>1. ~blocked'[t] /\ \A u \in Tasks : u # t => blocked'[u] = blocked[u]
  BY DEF IInv, Types
<1>2. Types'
  BY DEF IInv, Types
<1>3. \A u \in Tasks : /\ QueueOK(u) /\ NodeOK(u) /\ WakesOK(u) /\ OwnerOK(u) /\ ~LostWake(u)
                       /\ Linked(u)' = Linked(u) /\ (u # t => WakeOnTheWay(u)' = WakeOnTheWay(u))
  BY DEF IInv, TasksOK, Linked, WakeOnTheWay
<1>4. Distinct(queue)' /\ Ordered' /\ NoBarging'
  BY QueueStays DEF IInv, NoBarging
<1>5. KlocksType' /\ KlocksExact'
  BY CountMoves DEF IInv, Counted
<1>6. ASSUME NEW u \in Tasks
      PROVE  QueueOK(u)' /\ NodeOK(u)' /\ WakesOK(u)' /\ OwnerOK(u)' /\ ~LostWake(u)'
  <2>1. CASE u = t
    BY <1>1, <1>3, <2>1 DEF QueueOK, NodeOK, WakesOK, OwnerOK, LostWake
  <2>2. CASE u # t
    BY <1>1, <1>3, <2>2 DEF QueueOK, NodeOK, WakesOK, OwnerOK, LostWake
  <2> QED BY <2>1, <2>2
<1> QED BY <1>2, <1>4, <1>5, <1>6 DEF IInv, TasksOK

(* Time passes for a waiter: nothing but its deadline changes.               *)
LEMMA DeadlineKeeps ==
  ASSUME MutexAssumption, IInv, NEW t \in Tasks, DeadlinePasses(t), UNCHANGED <<owner, klocks>>
  PROVE  IInv'
<1>1. /\ node' = [node EXCEPT ![t] = [node[t] EXCEPT !.deadline = "passed"]]
      /\ UNCHANGED <<pc, queue, blocked, wakes, owed, owner, klocks>>
  BY DEF DeadlinePasses
<1>2. \A n \in NodeType : /\ [n EXCEPT !.deadline = "passed"] \in NodeType
                          /\ [n EXCEPT !.deadline = "passed"].granted = n.granted
                          /\ [n EXCEPT !.deadline = "passed"].mode = n.mode
                          /\ [n EXCEPT !.deadline = "passed"].kind = n.kind
                          /\ [n EXCEPT !.deadline = "passed"].bypassed = n.bypassed
  BY DEF NodeType, Deadlines
<1>3. node \in [Tasks -> NodeType]
  BY DEF IInv, Types
<1>4. \A u \in Tasks : /\ node'[u].granted = node[u].granted /\ node'[u].mode = node[u].mode
                       /\ node'[u].kind = node[u].kind /\ node'[u].bypassed = node[u].bypassed
  BY <1>1, <1>2, <1>3, ZenonT(30) DEF NodeType
<1>5. node' \in [Tasks -> NodeType]
  BY <1>1, <1>2, <1>3
<1>6. Types'
  BY <1>1, <1>5 DEF IInv, Types
<1>7. \A u \in Tasks : /\ QueueOK(u) /\ NodeOK(u) /\ WakesOK(u) /\ OwnerOK(u) /\ ~LostWake(u)
                       /\ Linked(u)' = Linked(u) /\ WakeOnTheWay(u)' = WakeOnTheWay(u)
  BY <1>1 DEF IInv, TasksOK, Linked, WakeOnTheWay
<1>8. Distinct(queue)' /\ Ordered' /\ NoBarging'
  BY <1>1, <1>4, QueueStays DEF IInv, NoBarging
<1>9. KlocksType' /\ KlocksExact'
  BY <1>1, CountMoves DEF IInv, Counted
<1>10. ASSUME NEW u \in Tasks
       PROVE  QueueOK(u)' /\ NodeOK(u)' /\ WakesOK(u)' /\ OwnerOK(u)' /\ ~LostWake(u)'
  BY <1>1, <1>4, <1>7, ZenonT(30) DEF QueueOK, NodeOK, WakesOK, OwnerOK, LostWake
<1> QED BY <1>6, <1>8, <1>9, <1>10 DEF IInv, TasksOK

(* A sequence of one element.                                                *)
LEMMA OneElement ==
  ASSUME NEW S, NEW s \in Seq(S), Len(s) = 1
  PROVE  Head(s) \in S /\ Tail(s) = <<>> /\ Range(s) = {Head(s)}
<1>1. DOMAIN s = {1} /\ Head(s) = s[1] /\ s[1] \in S
  BY SMT
<1>2. Tail(s) = <<>>
  <2>1. s # <<>>
    BY SMT
  <2>2. Tail(s) \in Seq(S) /\ Len(Tail(s)) = 0
    BY <2>1, SMT
  <2>3. \A r \in Seq(S) : Len(r) = 0 => r = <<>>
    BY SMT
  <2> QED BY <2>2, <2>3
<1> QED BY <1>1, <1>2 DEF Range

(* A timed-out waiter gives its count back, and has nothing of the mutex.    *)
LEMMA GiveBackKeeps ==
  ASSUME MutexAssumption, IInv, NEW t \in Tasks, GiveBack(t)
  PROVE  IInv'
<1>1. /\ pc[t] = "giveback" /\ pc' = [pc EXCEPT ![t] = "idle"] /\ klocks' = klock_dec(t)
      /\ UNCHANGED <<queue, node, blocked, wakes, owed, owner>>
  BY DEF GiveBack
<1>2. pc'[t] = "idle" /\ \A u \in Tasks : u # t => pc'[u] = pc[u]
  BY <1>1 DEF IInv, Types
<1>3. Types'
  BY <1>1 DEF IInv, Types, PcType
<1>4. \A u \in Tasks : /\ QueueOK(u) /\ NodeOK(u) /\ WakesOK(u) /\ OwnerOK(u) /\ ~LostWake(u)
                       /\ Linked(u)' = Linked(u) /\ WakeOnTheWay(u)' = WakeOnTheWay(u)
  BY <1>1 DEF IInv, TasksOK, Linked, WakeOnTheWay
<1>5. Distinct(queue)' /\ Ordered' /\ NoBarging'
  BY <1>1, QueueStays DEF IInv, NoBarging
<1>6. KlocksType' /\ KlocksExact'
  BY <1>1, <1>2, CountMoves DEF IInv, Counted, Waiting
<1>7. ASSUME NEW u \in Tasks
      PROVE  QueueOK(u)' /\ NodeOK(u)' /\ WakesOK(u)' /\ OwnerOK(u)' /\ ~LostWake(u)'
  <2>1. CASE u = t
    BY <1>1, <1>2, <1>4, <2>1 DEF QueueOK, NodeOK, WakesOK, OwnerOK, LostWake, Waiting
  <2>2. CASE u # t
    BY <1>1, <1>2, <1>4, <2>2 DEF QueueOK, NodeOK, WakesOK, OwnerOK, LostWake
  <2> QED BY <2>1, <2>2
<1> QED BY <1>3, <1>5, <1>6, <1>7 DEF IInv, TasksOK

(* The unlocker kwakes the waiter it granted, now or through a tick.         *)
LEMMA WakeKeeps ==
  ASSUME MutexAssumption, IInv, NEW t \in Tasks, Wake(t)
  PROVE  IInv'
<1> DEFINE w == Head(wakes[t])
<1>1. /\ pc[t] = "wake" /\ Deliver(w) /\ wakes' = [wakes EXCEPT ![t] = Tail(wakes[t])]
      /\ pc' = [pc EXCEPT ![t] = IF Len(wakes[t]) = 1 THEN "idle" ELSE "wake"]
      /\ UNCHANGED <<queue, node, owner, klocks>>
  BY DEF Wake, kwake
<1>2. \A u \in Tasks : QueueOK(u) /\ NodeOK(u) /\ WakesOK(u) /\ OwnerOK(u) /\ ~LostWake(u)
  BY DEF IInv, TasksOK
<1>3. wakes[t] \in Seq(Tasks) /\ Len(wakes[t]) = 1
  BY <1>1, <1>2 DEF IInv, Types, WakesOK
<1>4. w \in Tasks /\ Tail(wakes[t]) = <<>> /\ Range(wakes[t]) = {w}
  BY <1>3, OneElement
<1> HIDE DEF w
<1>5. /\ pc'[t] = "idle" /\ wakes'[t] = <<>>
      /\ \A u \in Tasks : u # t => pc'[u] = pc[u] /\ wakes'[u] = wakes[u]
  BY <1>1, <1>3, <1>4 DEF IInv, Types
<1>6. /\ blocked' \in [Tasks -> BOOLEAN] /\ owed' \subseteq Tasks /\ owed \subseteq owed'
      /\ ~blocked'[w] \/ w \in owed'
      /\ \A u \in Tasks : blocked'[u] => blocked[u]
  BY <1>1, <1>4 DEF Deliver, IInv, Types
<1>7. Types'
  <2>1. pc' = [pc EXCEPT ![t] = "idle"] /\ wakes' = [wakes EXCEPT ![t] = <<>>]
    BY <1>1, <1>3, <1>4
  <2>2. pc' \in [Tasks -> PcType] /\ wakes' \in [Tasks -> Seq(Tasks)]
    BY <2>1, SMT DEF IInv, Types, PcType
  <2> QED BY <1>1, <1>6, <2>2 DEF IInv, Types
<1>8. \A u \in Tasks : u # w => (WakeOnTheWay(u) => WakeOnTheWay(u)')
  <2> SUFFICES ASSUME NEW u \in Tasks, u # w, WakeOnTheWay(u) PROVE WakeOnTheWay(u)'
    OBVIOUS
  <2>1. CASE u \in owed
    BY <1>6, <2>1 DEF WakeOnTheWay
  <2>2. CASE \E x \in Tasks : u \in Range(wakes[x])
    <3> PICK x \in Tasks : u \in Range(wakes[x])
      BY <2>2
    <3>1. x # t
      BY <1>4
    <3> QED BY <1>5, <3>1 DEF WakeOnTheWay
  <2> QED BY <2>1, <2>2 DEF WakeOnTheWay
<1>9. Distinct(queue)' /\ Ordered' /\ NoBarging'
  BY <1>1, QueueStays DEF IInv, NoBarging
<1>10. KlocksType' /\ KlocksExact'
  BY <1>1, <1>5, CountMoves, SMT DEF IInv, Counted, Waiting
<1>11. ASSUME NEW u \in Tasks
       PROVE  QueueOK(u)' /\ NodeOK(u)' /\ WakesOK(u)' /\ OwnerOK(u)' /\ ~LostWake(u)'
  <2>1. Linked(u)' = Linked(u) /\ (pc'[u] \in Waiting <=> pc[u] \in Waiting)
        /\ (pc'[u] = "held" <=> pc[u] = "held")
    BY <1>1, <1>5 DEF Linked, Waiting
  <2>2. QueueOK(u)' /\ OwnerOK(u)'
    BY <1>1, <1>2, <2>1 DEF QueueOK, OwnerOK
  <2>3. NodeOK(u)' /\ WakesOK(u)'
    BY <1>1, <1>2, <1>5, <2>1 DEF NodeOK, WakesOK
  <2>4. ~LostWake(u)'
    <3>1. CASE u = w
      BY <1>6, <3>1 DEF LostWake, WakeOnTheWay
    <3>2. CASE u # w
      BY <1>1, <1>2, <1>5, <1>6, <1>8, <3>2 DEF LostWake
    <3> QED BY <3>1, <3>2
  <2> QED BY <2>2, <2>3, <2>4
<1> QED BY <1>7, <1>9, <1>10, <1>11 DEF IInv, TasksOK

(* unlock with nobody queued: the mutex is free.                             *)
LEMMA FreeKeeps ==
  ASSUME MutexAssumption, IInv, NEW t \in Tasks, unlock(t), queue = <<>>
  PROVE  IInv'
<1>1. /\ pc[t] = "held" /\ pc' = [pc EXCEPT ![t] = "idle"] /\ owner' = NoOwner /\ klocks' = klock_dec(owner)
      /\ UNCHANGED <<queue, node, wakes, blocked, owed>>
  BY DEF unlock
<1>2. pc'[t] = "idle" /\ \A u \in Tasks : u # t => pc'[u] = pc[u]
  BY <1>1 DEF IInv, Types
<1>3. Types'
  BY <1>1 DEF IInv, Types, PcType
<1>4. \A u \in Tasks : /\ QueueOK(u) /\ NodeOK(u) /\ WakesOK(u) /\ OwnerOK(u) /\ ~LostWake(u)
                       /\ Linked(u)' = Linked(u) /\ WakeOnTheWay(u)' = WakeOnTheWay(u)
                       /\ NoOwner # u
  BY <1>1 DEF IInv, TasksOK, Linked, WakeOnTheWay, MutexAssumption
<1>5. owner = t
  BY <1>1, <1>4 DEF OwnerOK
<1>6. Distinct(queue)' /\ Ordered' /\ NoBarging'
  BY <1>1, QueueStays DEF IInv, NoBarging
<1>7. KlocksType' /\ KlocksExact'
  BY <1>1, <1>2, <1>5, CountMoves DEF IInv, Counted, Waiting
<1>8. ASSUME NEW u \in Tasks
      PROVE  QueueOK(u)' /\ NodeOK(u)' /\ WakesOK(u)' /\ OwnerOK(u)' /\ ~LostWake(u)'
  <2>1. CASE u = t
    BY <1>1, <1>2, <1>4, <2>1 DEF QueueOK, NodeOK, WakesOK, OwnerOK, LostWake, Waiting
  <2>2. CASE u # t
    BY <1>1, <1>2, <1>4, <1>5, <2>2 DEF QueueOK, NodeOK, WakesOK, OwnerOK, LostWake
  <2> QED BY <2>1, <2>2
<1> QED BY <1>3, <1>6, <1>7, <1>8 DEF IInv, TasksOK

(* unlock hands the mutex to the first waiter: it is the owner from then on,  *)
(* and a kwake for it is on the way unless it spins.                         *)
LEMMA HandKeeps ==
  ASSUME MutexAssumption, IInv, NEW t \in Tasks, unlock(t), queue # <<>>
  PROVE  IInv'
<1>a. queue \in Seq(Tasks) /\ Distinct(queue)
  BY DEF IInv, Types
<1>b. 1 \in 1..Len(queue) /\ Head(queue) = queue[1] /\ Tail(queue) = RemoveAt(queue, 1)
  BY <1>a, TailDrops
<1>c. queue[1] \in Tasks
  BY <1>a, <1>b, SMT
<1> PICK w \in Tasks : w = Head(queue) /\ w = queue[1]
  BY <1>b, <1>c
<1> DEFINE spins == node[w].mode = "qspin"
<1>1. /\ pc[t] = "held" /\ klocks' = klock_dec(owner)
      /\ owner' = w /\ queue' = Tail(queue)
      /\ node' = [node EXCEPT ![w] = [node[w] EXCEPT !.granted = TRUE]]
      /\ wakes' = [wakes EXCEPT ![t] = IF spins THEN <<>> ELSE <<w>>]
      /\ pc' = [pc EXCEPT ![t] = IF spins THEN "idle" ELSE "wake"]
      /\ blocked' = blocked /\ owed' = owed
  BY DEF unlock, HandTo
<1>2. \A u \in Tasks : QueueOK(u) /\ NodeOK(u) /\ WakesOK(u) /\ OwnerOK(u) /\ ~LostWake(u)
  BY DEF IInv, TasksOK
<1>5. w \in Tasks /\ Linked(w)
  BY <1>a, <1>b, SMT DEF Linked, Range
<1>6. /\ queue' \in Seq(Tasks) /\ Distinct(queue') /\ Thins(queue, queue')
      /\ Range(queue') = Range(queue) \ {w}
  <2>1. queue' = RemoveAt(queue, 1)
    BY <1>1, <1>b
  <2>2. queue' \in Seq(Tasks)
    BY <1>a, <1>b, <2>1, Dropped
  <2>3. Distinct(queue') /\ Thins(queue, queue') /\ Range(queue') = Range(queue) \ {queue[1]}
    BY <1>a, <1>b, <2>1, DropKeeps
  <2> QED BY <1>b, <2>2, <2>3
<1>7. owner = t /\ w # t /\ pc[w] \in Waiting /\ ~node[w].granted
  BY <1>1, <1>2, <1>5 DEF OwnerOK, QueueOK, Waiting
<1>8. node \in [Tasks -> NodeType]
  BY DEF IInv, Types
<1>9. \A n \in NodeType : /\ [n EXCEPT !.granted = TRUE] \in NodeType /\ [n EXCEPT !.granted = TRUE].granted
                          /\ [n EXCEPT !.granted = TRUE].mode = n.mode
                          /\ [n EXCEPT !.granted = TRUE].kind = n.kind
                          /\ [n EXCEPT !.granted = TRUE].bypassed = n.bypassed
  BY DEF NodeType
<1>10. /\ node'[w].granted /\ node'[w].mode = node[w].mode /\ node'[w].bypassed = node[w].bypassed
       /\ \A u \in Tasks : u # w => node'[u] = node[u]
  BY <1>1, <1>5, <1>8, <1>9
<1>11. /\ pc'[t] = (IF spins THEN "idle" ELSE "wake") /\ wakes'[t] = (IF spins THEN <<>> ELSE <<w>>)
       /\ \A u \in Tasks : u # t => pc'[u] = pc[u] /\ wakes'[u] = wakes[u]
  BY <1>1 DEF IInv, Types
<1>12. Types'
  <2>1. node' \in [Tasks -> NodeType]
    BY <1>1, <1>5, <1>8, <1>9
  <2>2. pc' \in [Tasks -> PcType] /\ wakes' \in [Tasks -> Seq(Tasks)]
    BY <1>1, <1>5, SMT DEF IInv, Types, PcType
  <2> QED BY <1>1, <1>5, <1>6, <2>1, <2>2 DEF IInv, Types
<1>13. \A u \in Tasks : Linked(u)' <=> Linked(u) /\ u # w
  BY <1>6 DEF Linked
<1>14. Ordered'
  <2>1. \A i \in DOMAIN queue' : node'[queue'[i]] = node[queue'[i]]
    <3>1. \A i \in DOMAIN queue' : queue'[i] \in Tasks /\ queue'[i] # w
      BY <1>6, SMT DEF Range
    <3> QED BY <1>10, <3>1
  <2> QED BY <1>6, <2>1, SMT DEF IInv, Ordered, Thins, Fifo
<1>15. NoBarging'
  BY <1>1, <1>5 DEF NoBarging, MutexAssumption
<1>16. KlocksType' /\ KlocksExact'
  <2>1. \A u \in Tasks : u # t => (Counted(u)' <=> Counted(u))
    BY <1>11 DEF Counted
  <2>2. ~Counted(t)' /\ Counted(t)
    BY <1>1, <1>11, SMT DEF Counted, Waiting
  <2> QED BY <1>1, <1>7, <2>1, <2>2, CountMoves DEF IInv
<1>17. ASSUME NEW u \in Tasks
       PROVE  QueueOK(u)' /\ NodeOK(u)' /\ WakesOK(u)' /\ OwnerOK(u)' /\ ~LostWake(u)'
  <2>1. WakeOnTheWay(u) => WakeOnTheWay(u)'
    <3>1. wakes[t] = <<>>
      BY <1>1, <1>2 DEF WakesOK
    <3>2. u \notin Range(wakes[t])
      BY <3>1, SMT DEF Range
    <3> QED BY <1>1, <1>11, <3>2 DEF WakeOnTheWay
  <2>2. CASE u = t
    <3>1. pc'[t] \in {"idle", "wake"} /\ node'[t] = node[t]
      BY <1>7, <1>10, <1>11
    <3>2. ~node[t].granted /\ ~Linked(t)
      BY <1>1, <1>2 DEF NodeOK, QueueOK, Waiting
    <3>3. Len(<<w>>) = 1
      OBVIOUS
    <3> QED BY <1>1, <1>7, <1>11, <1>13, <2>2, <3>1, <3>2, <3>3, SMT
            DEF QueueOK, NodeOK, WakesOK, OwnerOK, LostWake, Waiting
  <2>3. CASE u = w
    <3>0. pc'[w] = pc[w] /\ wakes'[w] = wakes[w] /\ NodeOK(w) /\ WakesOK(w)
      BY <1>2, <1>5, <1>7, <1>11
    <3>1. QueueOK(w)' /\ NodeOK(w)' /\ WakesOK(w)' /\ OwnerOK(w)'
      <4>1. QueueOK(w)'
        BY <1>5, <1>10, <1>13 DEF QueueOK
      <4>2. NodeOK(w)' /\ WakesOK(w)'
        BY <1>7, <1>10, <3>0 DEF NodeOK, WakesOK
      <4>3. OwnerOK(w)'
        BY <1>1, <1>7, <1>10, <3>0 DEF OwnerOK
      <4> QED BY <4>1, <4>2, <4>3
    <3>2. ~spins => WakeOnTheWay(w)'
      <4>1. ~spins => w \in Range(wakes'[t])
        <5>1. w \in Range(<<w>>)
          BY SMT DEF Range
        <5> QED BY <1>11, <5>1
      <4> QED BY <4>1 DEF WakeOnTheWay
    <3>3. spins => pc'[w] # "commit"
      BY <3>0 DEF NodeOK
    <3> QED BY <2>3, <3>1, <3>2, <3>3 DEF LostWake
  <2>4. CASE u # t /\ u # w
    BY <1>1, <1>2, <1>7, <1>10, <1>11, <1>13, <2>1, <2>4, SMT DEF QueueOK, NodeOK, WakesOK, OwnerOK, LostWake
  <2> QED BY <2>2, <2>3, <2>4
<1> QED BY <1>6, <1>12, <1>14, <1>15, <1>16, <1>17 DEF IInv, TasksOK

(* A set of positions that is not empty has a first one.                     *)
LEMMA FirstOf ==
  ASSUME NEW T \in SUBSET Nat, T # {} PROVE \E x \in T : \A y \in T : x <= y
<1> DEFINE R == {ss \in Nat \X Nat : ss[1] < ss[2]}
<1>1. IsWellFoundedOn(R, Nat)
  BY NatLessThanWellFounded DEF OpToRel
<1>2. \E x \in T : \A y \in T : ~(<<y, x>> \in R)
  <2> HIDE DEF R
  <2> QED BY <1>1, WFMin
<1>3. PICK x \in T : \A y \in T : ~(<<y, x>> \in R)
  BY <1>2
<1>4. ASSUME NEW y \in T PROVE x <= y
  <2>1. <<y, x>> \in Nat \X Nat /\ <<y, x>>[1] = y /\ <<y, x>>[2] = x
    OBVIOUS
  <2> QED BY <1>3, <2>1, SMT
<1> QED BY <1>4

(* insert_classed stops at the first node it may overtake, or at the end.    *)
LEMMA PlaceFacts ==
  ASSUME queue \in Seq(Tasks), NEW t \in Tasks
  PROVE  /\ Place(t) \in 1..(Len(queue) + 1)
         /\ \A i \in Stops(t) : Place(t) <= i
         /\ Place(t) <= Len(queue) => Place(t) \in Stops(t)
<1>1. Stops(t) \in SUBSET (1..Len(queue)) /\ Len(queue) \in Nat
  BY SMT DEF Stops
<1>2. CASE Stops(t) = {}
  BY <1>1, <1>2, SMT DEF Place
<1>3. CASE Stops(t) # {}
  <2>1. \E x \in Stops(t) : \A y \in Stops(t) : x <= y
    <3>1. Stops(t) \in SUBSET Nat
      BY <1>1, SMT
    <3> HIDE DEF Stops
    <3> QED BY <1>3, <3>1, FirstOf
  <2>2. Place(t) \in Stops(t) /\ \A y \in Stops(t) : Place(t) <= y
    BY <1>3, <2>1 DEF Place
  <2> QED BY <1>1, <2>2, SMT
<1> QED BY <1>2, <1>3

(* A node that is not Resume overtakes only Fifo waiters below the bound, and  *)
(* what it stops behind is at the bound; a Resume node stops behind no Fifo    *)
(* waiter, and a Fifo node overtakes nobody.                                 *)
LEMMA Bypass ==
  ASSUME MutexAssumption, IInv, NEW t \in Tasks
  PROVE  /\ \A b \in DOMAIN queue : b >= Place(t) /\ Fifo(queue[b]) /\ node[t].kind # "resume"
                                     => node[queue[b]].bypassed < MaxBypass
         /\ \A a, b \in DOMAIN queue :
              a < Place(t) /\ b >= Place(t) /\ Fifo(queue[a]) /\ Fifo(queue[b])
                => node[queue[b]].bypassed + 1 <= node[queue[a]].bypassed
         /\ node[t].kind = "fifo" => Place(t) = Len(queue) + 1
<1> DEFINE p == Place(t)
<1>1. queue \in Seq(Tasks) /\ DOMAIN queue = 1..Len(queue) /\ Len(queue) \in Nat
  BY SMT DEF IInv, Types
<1>2. /\ p \in 1..(Len(queue) + 1) /\ \A i \in Stops(t) : p <= i
      /\ p <= Len(queue) => p \in Stops(t)
  BY <1>1, PlaceFacts
<1> HIDE DEF p
<1>3. \A i \in DOMAIN queue : queue[i] \in Tasks /\ node[queue[i]].bypassed \in Nat
  BY <1>1, SMT DEF IInv, Types, NodeType, MutexAssumption
<1>4. node[t].kind = "fifo" => p = Len(queue) + 1
  BY <1>1, <1>2, SMT DEF Stops
<1>5. ASSUME NEW b \in DOMAIN queue, b >= p, Fifo(queue[b]), node[t].kind # "resume"
      PROVE  node[queue[b]].bypassed < MaxBypass
  <2>1. p \in DOMAIN queue /\ p \in Stops(t) /\ p <= b
    BY <1>1, <1>2, <1>5, SMT
  <2>2. Fifo(queue[p]) /\ node[queue[p]].bypassed < MaxBypass
    BY <1>4, <1>5, <2>1 DEF Stops, StopsAt, Fifo
  <2>3. node[queue[b]].bypassed <= node[queue[p]].bypassed
    BY <1>5, <2>1, <2>2 DEF IInv, Ordered
  <2> QED BY <1>3, <2>1, <2>2, <2>3, SMT DEF MutexAssumption
<1>6. ASSUME NEW a \in DOMAIN queue, NEW b \in DOMAIN queue, a < p, b >= p, Fifo(queue[a]), Fifo(queue[b])
      PROVE  node[queue[b]].bypassed + 1 <= node[queue[a]].bypassed
  <2>1. node[t].kind # "fifo"
    BY <1>1, <1>4, <1>6, SMT
  <2>2. a \notin Stops(t)
    BY <1>1, <1>2, <1>6, SMT
  <2>3. node[t].kind # "resume" /\ ~(node[queue[a]].bypassed < MaxBypass)
    BY <1>6, <2>1, <2>2 DEF Stops, StopsAt, Fifo
  <2>4. node[queue[b]].bypassed < MaxBypass
    BY <1>5, <1>6, <2>3
  <2> QED BY <1>3, <2>3, <2>4, SMT DEF MutexAssumption
<1> QED BY <1>4, <1>5, <1>6 DEF p

(* What insert_classed does to the other nodes: it counts those it overtakes. *)
LEMMA NodesCounted ==
  ASSUME MutexAssumption, IInv, NEW t \in Tasks, ~Linked(t), insert_classed(t)
  PROVE  /\ node' \in [Tasks -> NodeType] /\ node'[t] = node[t]
         /\ \A u \in Tasks : /\ node'[u].granted = node[u].granted /\ node'[u].mode = node[u].mode
                             /\ node'[u].kind = node[u].kind
                             /\ ~Linked(u) => node'[u] = node[u]
         /\ \A i \in DOMAIN queue :
              node'[queue[i]].bypassed = IF i >= Place(t) /\ Fifo(queue[i])
                                         THEN saturating_inc(node[queue[i]].bypassed)
                                         ELSE node[queue[i]].bypassed
<1>1. node \in [Tasks -> NodeType] /\ queue \in Seq(Tasks) /\ Distinct(queue)
  BY DEF IInv, Types
<1>2. \A u \in Tasks : node'[u] = IF u \in Overtaken(t)
                                  THEN [node[u] EXCEPT !.bypassed = saturating_inc(node[u].bypassed)]
                                  ELSE node[u]
  BY DEF insert_classed
<1>3. DOMAIN node' = Tasks /\ node' = [u \in Tasks |-> node'[u]]
  BY DEF insert_classed
<1>4. \A n \in 0..COUNT_MAX : saturating_inc(n) \in 0..COUNT_MAX
  BY SMT DEF saturating_inc, MutexAssumption
<1>5. \A n \in NodeType, k \in 0..COUNT_MAX :
        /\ [n EXCEPT !.bypassed = k] \in NodeType /\ [n EXCEPT !.bypassed = k].bypassed = k
        /\ [n EXCEPT !.bypassed = k].granted = n.granted /\ [n EXCEPT !.bypassed = k].mode = n.mode
        /\ [n EXCEPT !.bypassed = k].kind = n.kind
  BY DEF NodeType
<1>6. \A u \in Tasks : saturating_inc(node[u].bypassed) \in 0..COUNT_MAX
  BY <1>1, <1>4 DEF NodeType
<1>7. \A u \in Tasks : u \in Overtaken(t) => Linked(u)
  BY DEF Overtaken, Linked, Range
<1>8. \A i \in DOMAIN queue : queue[i] \in Overtaken(t) <=> i >= Place(t) /\ Fifo(queue[i])
  BY <1>1 DEF Overtaken, Fifo, Distinct
<1> HIDE DEF Overtaken, NodeType, saturating_inc
<1>9. ASSUME NEW u \in Tasks
      PROVE  /\ node'[u] \in NodeType
             /\ node'[u].granted = node[u].granted /\ node'[u].mode = node[u].mode
             /\ node'[u].kind = node[u].kind
             /\ u \in Overtaken(t) => node'[u].bypassed = saturating_inc(node[u].bypassed)
             /\ u \notin Overtaken(t) => node'[u] = node[u]
  <2>1. CASE u \in Overtaken(t)
    <3>1. node'[u] = [node[u] EXCEPT !.bypassed = saturating_inc(node[u].bypassed)]
      BY <1>2, <2>1
    <3>2. node[u] \in NodeType /\ saturating_inc(node[u].bypassed) \in 0..COUNT_MAX
      BY <1>1, <1>6
    <3> QED BY <1>5, <2>1, <3>1, <3>2, SMT
  <2>2. CASE u \notin Overtaken(t)
    BY <1>1, <1>2, <2>2
  <2> QED BY <2>1, <2>2
<1>10. node' \in [Tasks -> NodeType]
  BY <1>3, <1>9
<1>11. \A i \in DOMAIN queue :
         node'[queue[i]].bypassed = IF i >= Place(t) /\ Fifo(queue[i])
                                    THEN saturating_inc(node[queue[i]].bypassed)
                                    ELSE node[queue[i]].bypassed
  <2>1. \A i \in DOMAIN queue : queue[i] \in Tasks
    BY <1>1, SMT
  <2> QED BY <1>8, <1>9, <2>1
<1> QED BY <1>7, <1>9, <1>10, <1>11

(* The queue stays ordered: whoever is overtaken is still behind or level     *)
(* with the Fifo waiters in front of it.                                    *)
LEMMA StaysOrdered ==
  ASSUME MutexAssumption, IInv, NEW t \in Tasks, ~Linked(t), node[t].bypassed = 0, insert_classed(t)
  PROVE  queue' \in Seq(Tasks) /\ Distinct(queue)' /\ Range(queue') = Range(queue) \cup {t} /\ Ordered'
<1> DEFINE p == Place(t)
<1>1. queue \in Seq(Tasks) /\ Distinct(queue) /\ t \in Tasks \ Range(queue)
  BY DEF IInv, Types, Linked
<1>2. p \in 1..(Len(queue) + 1)
  BY <1>1, PlaceFacts
<1>3. queue' = InsertAt(queue, p, t)
  BY DEF insert_classed
<1>4. /\ \A a, b \in DOMAIN queue :
           a < p /\ b >= p /\ Fifo(queue[a]) /\ Fifo(queue[b])
             => node[queue[b]].bypassed + 1 <= node[queue[a]].bypassed
      /\ node[t].kind = "fifo" => p = Len(queue) + 1
  BY Bypass
<1>5. /\ node'[t] = node[t] /\ node' \in [Tasks -> NodeType]
      /\ \A u \in Tasks : node'[u].kind = node[u].kind
      /\ \A i \in DOMAIN queue :
           node'[queue[i]].bypassed = IF i >= p /\ Fifo(queue[i])
                                      THEN saturating_inc(node[queue[i]].bypassed)
                                      ELSE node[queue[i]].bypassed
  BY NodesCounted
<1> HIDE DEF p
<1>6. /\ queue' \in Seq(Tasks) /\ Distinct(queue') /\ Range(queue') = Range(queue) \cup {t}
      /\ \A i, j \in DOMAIN queue' : i <= j =>
           \/ \E a, b \in DOMAIN queue : a <= b /\ queue[a] = queue'[i] /\ queue[b] = queue'[j]
           \/ queue'[j] = t
           \/ queue'[i] = t /\ p <= Len(queue)
  <2>1. InsertAt(queue, p, t) \in Seq(Tasks)
    BY <1>1, <1>2, Inserted
  <2>2. /\ Distinct(InsertAt(queue, p, t))
        /\ Range(InsertAt(queue, p, t)) = Range(queue) \cup {t}
        /\ \A i, j \in DOMAIN InsertAt(queue, p, t) : i <= j =>
             \/ \E a, b \in DOMAIN queue :
                  a <= b /\ queue[a] = InsertAt(queue, p, t)[i] /\ queue[b] = InsertAt(queue, p, t)[j]
             \/ InsertAt(queue, p, t)[j] = t
             \/ InsertAt(queue, p, t)[i] = t /\ p <= Len(queue)
    BY <1>1, <1>2, InsertKeeps
  <2> QED BY <1>3, <2>1, <2>2, SMT
<1>7. /\ \A u \in Tasks : Fifo(u)' <=> Fifo(u)
      /\ \A u \in Tasks : node'[u].bypassed \in Nat /\ node[u].bypassed \in Nat
      /\ node'[t].bypassed = 0
  BY <1>5, SMT DEF Fifo, IInv, Types, NodeType, MutexAssumption
<1>8. ASSUME NEW a \in DOMAIN queue, NEW b \in DOMAIN queue, a <= b, Fifo(queue[a]), Fifo(queue[b])
      PROVE  node'[queue[b]].bypassed <= node'[queue[a]].bypassed
  <2>1. a \in Nat /\ b \in Nat /\ p \in Nat /\ queue[a] \in Tasks /\ queue[b] \in Tasks
    BY <1>1, <1>2, SMT
  <2>2. node[queue[b]].bypassed <= node[queue[a]].bypassed
    BY <1>8 DEF IInv, Ordered
  <2>3. CASE b < p
    BY <1>5, <1>8, <2>1, <2>2, <2>3, SMT
  <2>4. CASE a >= p
    BY <1>5, <1>7, <1>8, <2>1, <2>2, <2>4, SMT DEF saturating_inc, MutexAssumption
  <2>5. CASE a < p /\ b >= p
    <3>1. node[queue[b]].bypassed + 1 <= node[queue[a]].bypassed
      BY <1>4, <1>8, <2>5
    <3> QED BY <1>5, <1>7, <1>8, <2>1, <2>5, <3>1, SMT DEF saturating_inc, MutexAssumption
  <2> QED BY <2>1, <2>3, <2>4, <2>5, SMT
<1>9. Ordered'
  <2> SUFFICES ASSUME NEW i \in DOMAIN queue', NEW j \in DOMAIN queue', i <= j,
                      node'[queue'[i]].kind = "fifo", node'[queue'[j]].kind = "fifo"
               PROVE  node'[queue'[j]].bypassed <= node'[queue'[i]].bypassed
    BY DEF Ordered, Fifo
  <2>1. queue'[i] \in Tasks /\ queue'[j] \in Tasks
    BY <1>6, SMT
  <2>2. Fifo(queue'[i]) /\ Fifo(queue'[j])
    BY <1>5, <2>1 DEF Fifo
  <2>3. CASE \E a, b \in DOMAIN queue : a <= b /\ queue[a] = queue'[i] /\ queue[b] = queue'[j]
    BY <1>8, <2>2, <2>3
  <2>4. CASE queue'[j] = t
    BY <1>7, <2>1, <2>4, SMT
  <2>5. CASE queue'[i] = t /\ p <= Len(queue)
    <3>1. p = Len(queue) + 1 /\ Len(queue) \in Nat
      BY <1>1, <1>4, <2>2, <2>5, SMT DEF Fifo
    <3> QED BY <2>5, <3>1, SMT
  <2> QED BY <1>6, <2>3, <2>4, <2>5
<1> QED BY <1>6, <1>9 DEF Distinct

(* A call that finds the mutex taken counts itself and queues.               *)
LEMMA QueueKeeps ==
  ASSUME MutexAssumption, IInv, NEW t \in Tasks, pc[t] = "slow", owner # NoOwner,
         klocks' = klock_inc(t), insert_classed(t),
         pc' = [pc EXCEPT ![t] = IF node[t].mode = "qspin" THEN "qspin" ELSE "park"],
         UNCHANGED <<owner, blocked, wakes, owed>>
  PROVE  IInv'
<1>1. \A u \in Tasks : /\ QueueOK(u) /\ NodeOK(u) /\ WakesOK(u) /\ OwnerOK(u) /\ ~LostWake(u)
                       /\ WakeOnTheWay(u)' = WakeOnTheWay(u)
  BY DEF IInv, TasksOK, WakeOnTheWay
<1>2. ~Linked(t) /\ ~node[t].granted /\ node[t].bypassed = 0
  BY <1>1 DEF QueueOK, NodeOK, Waiting
<1>3. /\ pc'[t] = (IF node[t].mode = "qspin" THEN "qspin" ELSE "park")
      /\ \A u \in Tasks : u # t => pc'[u] = pc[u]
  BY DEF IInv, Types
<1>4. /\ node' \in [Tasks -> NodeType] /\ node'[t] = node[t]
      /\ \A u \in Tasks : /\ node'[u].granted = node[u].granted /\ node'[u].mode = node[u].mode
                          /\ ~Linked(u) => node'[u] = node[u]
  BY <1>2, NodesCounted
<1>5. queue' \in Seq(Tasks) /\ Distinct(queue)' /\ Range(queue') = Range(queue) \cup {t} /\ Ordered'
  BY <1>2, StaysOrdered
<1>6. Types'
  <2>1. pc' \in [Tasks -> PcType]
    BY DEF IInv, Types, PcType, Waiting
  <2> QED BY <1>4, <1>5, <2>1 DEF IInv, Types
<1>7. \A u \in Tasks : Linked(u)' <=> Linked(u) \/ u = t
  BY <1>5 DEF Linked
<1>8. NoBarging'
  BY DEF NoBarging
<1>9. KlocksType' /\ KlocksExact'
  BY <1>3, CountMoves, ZenonT(30) DEF IInv, Counted, Waiting
<1>10. ASSUME NEW u \in Tasks
       PROVE  QueueOK(u)' /\ NodeOK(u)' /\ WakesOK(u)' /\ OwnerOK(u)' /\ ~LostWake(u)'
  <2>1. CASE u = t
    <3>1. pc'[u] \in {"qspin", "park"} /\ ~node'[u].granted /\ Linked(u)'
      BY <1>2, <1>3, <1>4, <1>7, <2>1
    <3>2. pc'[u] = "park" => node'[u].mode # "qspin"
      BY <1>3, <1>4, <2>1
    <3>3. wakes[u] = <<>> /\ owner # u
      BY <1>1, <1>2, <2>1 DEF WakesOK, OwnerOK, Waiting
    <3>4. QueueOK(u)' /\ NodeOK(u)'
      BY <3>1, <3>2 DEF QueueOK, NodeOK, Waiting
    <3>5. WakesOK(u)' /\ OwnerOK(u)' /\ ~LostWake(u)'
      BY <3>1, <3>3 DEF WakesOK, OwnerOK, LostWake
    <3> QED BY <3>4, <3>5
  <2>2. CASE u # t
    <3>1. pc[u] = "slow" => node'[u] = node[u]
      BY <1>1, <1>4 DEF QueueOK, Waiting
    <3>2. /\ pc'[u] = pc[u] /\ node'[u].granted = node[u].granted /\ node'[u].mode = node[u].mode
          /\ Linked(u)' <=> Linked(u)
      BY <1>3, <1>4, <1>7, <2>2
    <3>3. QueueOK(u)' /\ NodeOK(u)'
      BY <1>1, <3>1, <3>2 DEF QueueOK, NodeOK
    <3>4. WakesOK(u)' /\ OwnerOK(u)' /\ ~LostWake(u)'
      BY <1>1, <3>2 DEF WakesOK, OwnerOK, LostWake
    <3> QED BY <3>3, <3>4
  <2> QED BY <2>1, <2>2
<1> QED BY <1>5, <1>6, <1>8, <1>9, <1>10 DEF IInv, TasksOK

(* The steps of a task that parks.                                           *)
LEMMA ParkKeeps ==
  ASSUME MutexAssumption, IInv, NEW t \in Tasks, Park(t) PROVE IInv'
<1>a. blocked[t] \in BOOLEAN /\ blocked = [blocked EXCEPT ![t] = blocked[t]]
  BY DEF IInv, Types
<1>b. UNCHANGED <<owner, klocks>>
  BY DEF Park
<1>1. CASE park_prepare(t)
  BY <1>1, <1>b, RoundKeeps DEF park_prepare
<1>2. CASE park_check(t, "held", "giveback")
  <2>1. CASE Won(t)
    BY <1>2, <1>b, <2>1, WonKeeps DEF park_check, Won, Waiting
  <2>2. CASE ~Won(t) /\ node[t].deadline = "passed"
    BY <1>2, <1>b, <2>2, LateKeeps DEF park_check, Won, Waiting
  <2>3. CASE ~Won(t) /\ node[t].deadline # "passed"
    <3>1. /\ pc[t] = "check" /\ pc' = [pc EXCEPT ![t] = "commit"] /\ ~node[t].granted
          /\ blocked' = [blocked EXCEPT ![t] = blocked[t]]
          /\ UNCHANGED <<queue, node, owner, klocks, wakes, owed>>
      BY <1>2, <1>a, <1>b, <2>3 DEF park_check, Won
    <3> QED BY <1>a, <3>1, RoundKeeps
  <2> QED BY <2>1, <2>2, <2>3
<1>3. CASE park_commit(t)
  <2>1. /\ pc[t] = "commit" /\ pc' = [pc EXCEPT ![t] = "park"]
        /\ blocked' = [blocked EXCEPT ![t] = blocked[t]]
        /\ UNCHANGED <<queue, node, owner, klocks, wakes, owed>>
    BY <1>3, <1>a, <1>b DEF park_commit
  <2> QED BY <1>a, <2>1, RoundKeeps
<1> QED BY <1>1, <1>2, <1>3 DEF Park

(* A call of lock, lock_deadline, lock_class or try_lock.                     *)
LEMMA CallKeeps ==
  ASSUME MutexAssumption, IInv, NEW t \in Tasks, Call(t) PROVE IInv'
<1> PICK m \in Modes, c \in Classes, d \in Timeouts : Lock(t, m, c, d)
  BY DEF Call
<1>a. pc[t] = "idle" /\ UNCHANGED <<blocked, wakes, owed>>
  BY DEF Lock
<1>1. CASE Take(t)
  BY <1>1, <1>a, TakeKeeps
<1>2. CASE GiveUp(t)
  BY <1>2, <1>a, OutsideKeeps, NoNodeFacts DEF GiveUp
<1>3. CASE /\ m # "try"
           /\ pc' = [pc EXCEPT ![t] = IF m = "spin" THEN "spin" ELSE "slow"]
           /\ node' = [node EXCEPT ![t] = Node(m, c, d)]
           /\ UNCHANGED <<queue, owner, klocks>>
  <2>1. Node(m, c, d) \in NodeType /\ ~Node(m, c, d).granted /\ Node(m, c, d).bypassed = 0
    BY <1>3, SMT DEF Node, NodeType, Deadlines, MutexAssumption
  <2>2. (IF m = "spin" THEN "spin" ELSE "slow") \in {"idle", "spin", "slow"}
    OBVIOUS
  <2> HIDE DEF Node
  <2> QED BY <1>3, <1>a, <2>1, <2>2, OutsideKeeps
<1> QED BY <1>1, <1>2, <1>3 DEF Lock

(* Every step of every task keeps the invariant.                             *)
LEMMA MutexStep ==
  ASSUME MutexAssumption, IInv, [Next]_vars PROVE IInv'
<1>1. CASE UNCHANGED vars
  <2>1. /\ pc' = pc /\ queue' = queue /\ node' = node /\ blocked' = blocked /\ wakes' = wakes
        /\ owed' = owed /\ owner' = owner /\ klocks' = klocks
    BY <1>1 DEF vars, parkVars
  <2>2. Types' /\ KlocksType' /\ Distinct(queue)'
    BY <2>1 DEF IInv, Types, KlocksType, Distinct
  <2>3. KlocksExact'
    BY <2>1 DEF IInv, KlocksExact, Counted
  <2>4. Ordered' /\ NoBarging'
    BY <2>1 DEF IInv, Ordered, Fifo, NoBarging
  <2>5. TasksOK'
    BY <2>1, ZenonT(30) DEF IInv, TasksOK, QueueOK, NodeOK, WakesOK, OwnerOK, LostWake, WakeOnTheWay, Linked
  <2> QED BY <2>2, <2>3, <2>4, <2>5 DEF IInv
<1>2. ASSUME NEW t \in Tasks, Call(t) \/ Progress(t) \/ Pay(t) \/ TimeOut(t) \/ Disturb(t)
      PROVE  IInv'
  <2>1. CASE Call(t)
    BY <2>1, CallKeeps
  <2>2. CASE Spin(t)
    <3>1. pc[t] = "spin" /\ UNCHANGED <<blocked, wakes, owed>> /\ (Take(t) \/ GiveUp(t))
      BY <2>2 DEF Spin
    <3>2. CASE Take(t)
      BY <3>1, <3>2, TakeKeeps
    <3>3. CASE GiveUp(t)
      BY <3>1, <3>3, OutsideKeeps, NoNodeFacts DEF GiveUp
    <3> QED BY <3>1, <3>2, <3>3
  <2>3. CASE Slow(t)
    <3>1. pc[t] = "slow" /\ UNCHANGED <<blocked, wakes, owed>>
      BY <2>3 DEF Slow
    <3>2. CASE Take(t)
      BY <3>1, <3>2, TakeKeeps
    <3>3. CASE ~Take(t)
      BY <2>3, <3>1, <3>3, QueueKeeps DEF Slow, CountQueued
    <3> QED BY <3>2, <3>3
  <2>4. CASE QueuedSpin(t)
    <3>1. /\ pc[t] \in Waiting /\ node' = [node EXCEPT ![t] = NoNode]
          /\ UNCHANGED <<blocked, wakes, owed, owner, klocks>>
      BY <2>4 DEF QueuedSpin, Waiting
    <3>2. blocked[t] \in BOOLEAN /\ blocked' = [blocked EXCEPT ![t] = blocked[t]]
      BY <3>1 DEF IInv, Types
    <3>3. CASE node[t].granted
      BY <2>4, <3>1, <3>2, <3>3, WonKeeps DEF QueuedSpin
    <3>4. CASE ~node[t].granted
      BY <2>4, <3>1, <3>2, <3>4, LateKeeps DEF QueuedSpin
    <3> QED BY <3>3, <3>4
  <2>5. CASE GiveBack(t)
    BY <2>5, GiveBackKeeps
  <2>6. CASE Park(t)
    BY <2>6, ParkKeeps
  <2>7. CASE unlock(t)
    BY <2>7, FreeKeeps, HandKeeps
  <2>8. CASE Wake(t)
    BY <2>8, WakeKeeps
  <2>9. CASE Pay(t)
    BY <2>9, UnblockKeeps DEF Pay, PayKwake
  <2>10. CASE TimeOut(t)
    BY <2>10, UnblockKeeps DEF TimeOut, DeadlineWake
  <2>11. CASE Disturb(t)
    BY <2>11, UnblockKeeps, DeadlineKeeps DEF Disturb, SignalWake
  <2> QED BY <1>2, <2>1, <2>2, <2>3, <2>4, <2>5, <2>6, <2>7, <2>8, <2>9, <2>10, <2>11 DEF Progress
<1> QED BY <1>1, <1>2 DEF Next

(* What the invariant says of the mutex in terms of its own properties.      *)
LEMMA MutexSays == IInv => TypeOK /\ HoldersExact /\ NobodyForgotten
<1> SUFFICES ASSUME IInv PROVE TypeOK /\ HoldersExact /\ NobodyForgotten
  OBVIOUS
<1>1. TypeOK
  BY DEF IInv, Types, KlocksType, TypeOK, PcType, NodeType
<1>2. OwnerHolds /\ NoLostWake
  BY DEF IInv, TasksOK, OwnerOK, OwnerHolds, NoLostWake
<1> QED BY <1>1, <1>2 DEF IInv, HoldersExact, NobodyForgotten

(* The owner word names the one task that holds the mutex or was handed it,   *)
(* although grants race timeouts, and KLOCKS counts exactly the tasks that     *)
(* hold it or queue for it, also where pids share a slot (KRawMutex).         *)
THEOREM MutexExact ==
  ASSUME MutexAssumption PROVE Spec => []HoldersExact
BY MutexInit, MutexStep, MutexSays, PTL DEF Spec

(* Nobody is queued for a free mutex, and a waiter that has parked on a grant  *)
(* has a kwake on the way (KRawMutex::unlock, park_until_granted).           *)
THEOREM MutexForgetsNobody ==
  ASSUME MutexAssumption PROVE Spec => []NobodyForgotten
BY MutexInit, MutexStep, MutexSays, PTL DEF Spec

(* Only insert_classed links a node that was not in the queue.               *)
LEMMA QueueShrinks ==
  ASSUME IInv, NEW t \in Tasks, queue' \in {queue, Removed(t), Tail(queue)}, queue = <<>> => queue' = queue
  PROVE  Range(queue') \subseteq Range(queue)
<1>1. queue \in Seq(Tasks) /\ Distinct(queue)
  BY DEF IInv, Types
<1>2. CASE queue' = queue
  BY <1>2
<1>3. CASE queue' = Removed(t) /\ Linked(t)
  <2> DEFINE p == CHOOSE i \in DOMAIN queue : queue[i] = t
  <2>1. p \in 1..Len(queue) /\ queue' = RemoveAt(queue, p)
    BY <1>1, <1>3, SMT DEF Linked, Range, Removed
  <2> HIDE DEF p
  <2>2. Range(RemoveAt(queue, p)) = Range(queue) \ {queue[p]}
    BY <1>1, <2>1, DropKeeps
  <2> QED BY <2>1, <2>2
<1>4. CASE queue' = Removed(t) /\ ~Linked(t)
  BY <1>4 DEF Removed
<1>5. CASE queue # <<>> /\ queue' = Tail(queue)
  <2>1. 1 \in 1..Len(queue) /\ queue' = RemoveAt(queue, 1)
    BY <1>1, <1>5, TailDrops
  <2>2. Range(RemoveAt(queue, 1)) = Range(queue) \ {queue[1]}
    BY <1>1, <2>1, DropKeeps
  <2> QED BY <2>1, <2>2
<1> QED BY <1>2, <1>3, <1>4, <1>5

(* A Prio caller never passes a Fifo waiter that max_bypass callers passed    *)
(* before it: the check on the first node it may overtake covers the others,  *)
(* because the queue is ordered.                                            *)
LEMMA BypassStep ==
  ASSUME MutexAssumption, IInv, Next PROVE BypassBounded
<1> SUFFICES ASSUME NEW t \in Tasks, NEW u \in Tasks, Linked(t), ~Linked(u), node[t].kind = "fifo",
                    node[u].kind = "prio", node'[t].bypassed > node[t].bypassed, u \in Range(queue')
             PROVE  node[t].bypassed < MaxBypass
  BY DEF BypassBounded
<1>1. PICK v \in Tasks : Call(v) \/ Progress(v) \/ Pay(v) \/ TimeOut(v) \/ Disturb(v)
  BY DEF Next
<1>2. ~(Range(queue') \subseteq Range(queue))
  BY DEF Linked
<1>3. queue' \notin {queue, Removed(v), Tail(queue)} \/ (queue = <<>> /\ queue' # queue)
  BY <1>2, QueueShrinks
<1>4. Slow(v) /\ insert_classed(v)
  <2>1. ~Call(v)
    BY <1>3 DEF Call, Lock, Take, GiveUp
  <2>2. ~Spin(v) /\ ~QueuedSpin(v) /\ ~GiveBack(v) /\ ~Wake(v)
    <3>1. ~QueuedSpin(v)
      BY <1>3, <1>2, SMT DEF QueuedSpin, Removed, Linked, Range
    <3> QED BY <1>3, <3>1 DEF Spin, Take, GiveUp, GiveBack, Wake, kwake
  <2>3. ~Park(v)
    BY <1>3, <1>2, SMT DEF Park, park_prepare, park_check, park_commit, Removed, Linked, Range
  <2>4. ~unlock(v)
    BY <1>3 DEF unlock
  <2>5. ~Pay(v) /\ ~TimeOut(v) /\ ~Disturb(v)
    BY <1>3 DEF Pay, PayKwake, TimeOut, DeadlineWake, Disturb, DeadlinePasses, SignalWake
  <2>6. Slow(v)
    BY <1>1, <2>1, <2>2, <2>3, <2>4, <2>5 DEF Progress
  <2> QED BY <1>3, <2>6 DEF Slow, Take
<1>5. ~Linked(v) /\ node[v].bypassed = 0
  BY <1>4 DEF IInv, TasksOK, QueueOK, NodeOK, Slow, Waiting
<1>6. v = u
  BY <1>4, <1>5, StaysOrdered DEF Linked
<1>7. PICK i \in DOMAIN queue : queue[i] = t
  BY DEF Linked, Range
<1>8. i >= Place(u) /\ Fifo(queue[i])
  <2>1. node'[queue[i]].bypassed = IF i >= Place(u) /\ Fifo(queue[i])
                                   THEN saturating_inc(node[queue[i]].bypassed)
                                   ELSE node[queue[i]].bypassed
    BY <1>4, <1>5, <1>6, NodesCounted
  <2>2. node[t].bypassed \in Nat
    BY SMT DEF IInv, Types, NodeType, MutexAssumption
  <2> QED BY <1>7, <2>1, <2>2, SMT
<1> QED BY <1>7, <1>8, Bypass

(* A Prio caller overtakes a Fifo waiter only while fewer than max_bypass did. *)
(* (WaitList::insert_classed).                                              *)
THEOREM MutexKeepsOrder ==
  ASSUME MutexAssumption PROVE Spec => OrderKept
<1>1. MutexAssumption /\ IInv /\ [Next]_vars => IInv' /\ [BypassBounded]_vars
  BY MutexStep, BypassStep
<1> QED BY MutexInit, <1>1, PTL DEF Spec, OrderKept

-----------------------------------------------------------------------------
(* The deferral of kwake, with variables of its own.  Its types and            *)
(* NoDebtForgotten are inductive as they stand: every step that takes a record *)
(* away either wakes its task or leaves the record in front of a sweep that     *)
(* has still to reach it.                                                     *)
WakeInv == WakeTypeOK /\ NoDebtForgotten

(* What keeps one task's debt covered, the body of NoDebtForgotten.          *)
Covered(p) ==
  \/ \E w \in Wakers : waker[w].at \in {"defer", "overflow"} /\ waker[w].pid = p
  \/ \E s \in Slots : slots[s] = p /\ (Announced \/ \E c \in Cpus : Unswept(c, s))
  \/ overflow /\ (Announced \/ \E c \in Cpus : tick[c].at \in {"lock", "overflow"})

(* Initially no wake is owed and every variable has its type. *)
LEMMA WakesStart ==
  ASSUME WakeConstants, WakeInit PROVE WakeInv
<1> USE DEF WakeConstants, Slots
<1>1. IdleWaker \in WakerState /\ IdleTick \in TickState
  BY SMT DEF IdleWaker, IdleTick, WakerState, TickState
<1>2. WakeTypeOK
  BY <1>1 DEF WakeInit, WakeTypeOK
<1> QED
  BY <1>2 DEF WakeInit, WakeInv, NoDebtForgotten

(* Every step keeps the types: slot indices stay within the table. *)
LEMMA WakeTypes ==
  ASSUME WakeConstants, WakeTypeOK, [WakeNext]_wakeVars PROVE WakeTypeOK'
<1> USE DEF WakeConstants, Slots, WakeTypeOK
<1>a. IdleWaker \in WakerState /\ IdleTick \in TickState
  BY SMT DEF IdleWaker, IdleTick, WakerState, TickState
<1>b. \A v \in WakerState, a \in {"defer", "overflow", "publish"} :
        [v EXCEPT !.at = a] \in WakerState
  BY DEF WakerState
<1>c. \A k \in TickState, a \in {"lock", "overflow"} : [k EXCEPT !.at = a] \in TickState
  BY DEF TickState
<1>1. CASE \E p \in Pids : kwait_prepare(p)
  BY <1>1 DEF kwait_prepare
<1>2. CASE \E w \in Wakers, p \in Pids : kwake_pid(w, p)
  <2>1. \A p \in Pids : [at |-> "defer", pid |-> p, slot |-> 1] \in WakerState
    BY SMT DEF WakerState
  <2> QED BY <1>2, <2>1, SMT DEF kwake_pid, Ready
<1>3. CASE \E w \in Wakers : defer_scan(w)
  <2> PICK w \in Wakers : defer_scan(w)
    BY <1>3
  <2>1. \A v \in WakerState : v.slot # SLOTS => [v EXCEPT !.slot = v.slot + 1] \in WakerState
    <3>1. \A n \in Slots : n # SLOTS => n + 1 \in Slots
      BY SMT
    <3> QED BY <3>1 DEF WakerState
  <2>2. waker[w].pid \in Pids \cup {NoPid} /\ waker[w].slot \in Slots
    BY DEF WakerState
  <2>3. slots' \in [Slots -> Pids \cup {NoPid}]
    BY <2>2 DEF defer_scan
  <2>4. \E v \in WakerState : waker' = [waker EXCEPT ![w] = v]
    <3>1. CASE slots[waker[w].slot] = NoPid
      BY <3>1, <1>b DEF defer_scan
    <3>2. CASE slots[waker[w].slot] # NoPid /\ waker[w].slot = SLOTS
      BY <3>2, <1>b DEF defer_scan
    <3>3. CASE slots[waker[w].slot] # NoPid /\ waker[w].slot # SLOTS
      BY <3>3, <2>1 DEF defer_scan
    <3> QED BY <3>1, <3>2, <3>3
  <2> QED BY <2>3, <2>4, SMT DEF defer_scan
<1>4. CASE \E w \in Wakers : defer_overflow(w) \/ defer_publish(w)
  <2> PICK w \in Wakers : defer_overflow(w) \/ defer_publish(w)
    BY <1>4
  <2>1. \E v \in WakerState : waker' = [waker EXCEPT ![w] = v]
    BY <1>a, <1>b DEF defer_overflow, defer_publish
  <2> QED BY <2>1, ZenonT(30) DEF defer_overflow, defer_publish
<1>5. CASE \E c \in Cpus : service_begin(c) \/ service_lock(c) \/ service_contended(c)
  <2> PICK c \in Cpus : service_begin(c) \/ service_lock(c) \/ service_contended(c)
    BY <1>5
  <2>1. \E k \in TickState : tick' = [tick EXCEPT ![c] = k]
    BY <1>a, <1>c DEF service_begin, service_lock, service_contended
  <2>2. CASE service_begin(c)
    BY <2>1, <2>2 DEF service_begin
  <2>3. CASE service_lock(c)
    BY <2>1, <2>3 DEF service_lock
  <2>4. CASE service_contended(c)
    BY <2>1, <2>4 DEF service_contended, PutBack
  <2> QED BY <2>2, <2>3, <2>4
<1>6. CASE \E c \in Cpus : service_overflow(c)
  <2>1. [at |-> "drain", slot |-> 1] \in TickState
    BY SMT DEF TickState
  <2> PICK c \in Cpus : service_overflow(c)
    BY <1>6
  <2>2. \E k \in TickState : tick' = [tick EXCEPT ![c] = k]
    BY <2>1 DEF service_overflow
  <2> QED BY <2>2 DEF service_overflow, Ready, Everybody
<1>7. CASE \E c \in Cpus : service_drain(c)
  <2> PICK c \in Cpus : service_drain(c)
    BY <1>7
  <2>1. \E k \in TickState : tick' = [tick EXCEPT ![c] = k]
    <3>1. \A k \in TickState : k.slot # SLOTS => [k EXCEPT !.slot = k.slot + 1] \in TickState
      <4>1. \A n \in 0..SLOTS : n # SLOTS => n + 1 \in 0..SLOTS
        BY SMT
      <4> QED BY <4>1 DEF TickState
    <3>2. CASE tick[c].slot = SLOTS
      BY <3>2, <1>a DEF service_drain
    <3>3. CASE tick[c].slot # SLOTS
      <4>1. tick' = [tick EXCEPT ![c] = [tick[c] EXCEPT !.slot = tick[c].slot + 1]]
        BY <3>3 DEF service_drain
      <4> QED BY <4>1, <3>1, <3>3
    <3> QED BY <3>2, <3>3
  <2> QED BY <2>1 DEF service_drain, Ready
<1>8. CASE UNCHANGED wakeVars
  BY <1>8 DEF wakeVars
<1> QED
  BY <1>1, <1>2, <1>3, <1>4, <1>5, <1>6, <1>7, <1>8, ZenonT(30) DEF WakeNext, WakerStep, Service

(* A wake that had a record before a step has one after it, unless the step  *)
(* woke its task (kwake_defer and service_deferred_kwakes, interleaved).     *)
LEMMA DebtStep ==
  ASSUME WakeConstants, WakeInv, [WakeNext]_wakeVars PROVE NoDebtForgotten'
<1> USE DEF WakeConstants, Slots
<1> SUFFICES ASSUME NEW p \in debt' PROVE Covered(p)'
  BY DEF NoDebtForgotten, Covered
<1> USE DEF WakeTypeOK, WakerState, TickState
<1>a. WakeTypeOK /\ (p \in debt => Covered(p))
  BY DEF WakeInv, NoDebtForgotten, Covered
<1>1. CASE \E q \in Pids : kwait_prepare(q)
  BY <1>1, <1>a, SMT DEF kwait_prepare, Covered, Announced, Unswept
<1>2. CASE \E w \in Wakers, q \in Pids : kwake_pid(w, q)
  <2> PICK w \in Wakers, q \in Pids : kwake_pid(w, q)
    BY <1>2
  <2>1. CASE p \in debt
    BY <2>1, <1>a DEF kwake_pid, Ready, Covered, Announced, Unswept
  <2>2. CASE p \notin debt
    <3>1. p = q /\ waker'[w].at = "defer" /\ waker'[w].pid = q
      BY <2>2, <1>a, SMT DEF kwake_pid, Ready
    <3> QED BY <3>1 DEF Covered
  <2> QED BY <2>1, <2>2
<1>3. CASE \E w \in Wakers : defer_scan(w)
  <2> PICK w \in Wakers : defer_scan(w)
    BY <1>3
  <2>a. Covered(p)
    BY <1>a DEF defer_scan
  <2>1. CASE slots[waker[w].slot] = NoPid
    <3>1. /\ slots' = [slots EXCEPT ![waker[w].slot] = waker[w].pid]
          /\ waker' = [waker EXCEPT ![w].at = "publish"]
          /\ UNCHANGED <<sleepers, pending, overflow, rq, tick, debt>>
      BY <2>1 DEF defer_scan
    <3>2. Announced'
      BY <3>1, <1>a, SMT DEF Announced
    <3>3. CASE waker[w].pid = p
      BY <3>1, <3>2, <3>3, <1>a DEF Covered
    <3>4. CASE waker[w].pid # p
      <4>1. \A s \in Slots : slots[s] = p => slots'[s] = p
        BY <3>1, <2>1, <1>a
      <4>2. \A v \in Wakers : waker[v].pid = p => waker'[v] = waker[v]
        BY <3>1, <3>4, <1>a
      <4> QED BY <4>1, <4>2, <3>1, <3>2, <2>a DEF Covered
    <3> QED BY <3>3, <3>4
  <2>2. CASE slots[waker[w].slot] # NoPid
    <3>1. /\ UNCHANGED <<slots, sleepers, pending, overflow, rq, tick, debt>>
          /\ \A v \in Wakers :
               /\ waker'[v].pid = waker[v].pid
               /\ waker[v].at \in {"defer", "overflow"} => waker'[v].at \in {"defer", "overflow"}
               /\ waker[v].at = "publish" => waker'[v].at = "publish"
      <4>1. PICK z : /\ z.pid = waker[w].pid /\ z.at \in {"defer", "overflow"}
                     /\ waker' = [waker EXCEPT ![w] = z]
        <5>1. waker[w] \in WakerState
          BY <1>a DEF WakeTypeOK
        <5> QED BY <2>2, <5>1, SMT DEF defer_scan, WakerState
      <4>2. waker[w].at = "defer" /\ UNCHANGED <<slots, sleepers, pending, overflow, rq, tick, debt>>
        BY <2>2 DEF defer_scan
      <4> QED BY <4>1, <4>2, <1>a DEF WakeTypeOK
    <3> QED BY <3>1, <2>a DEF Covered, Announced, Unswept
  <2> QED BY <2>1, <2>2
<1>4. CASE \E w \in Wakers : defer_overflow(w)
  BY <1>4, <1>a, SMT DEF defer_overflow, Covered, Announced, Unswept
<1>5. CASE \E w \in Wakers : defer_publish(w)
  BY <1>5, <1>a, SMT DEF defer_publish, Covered, Announced, Unswept, IdleWaker
<1>6. CASE \E c \in Cpus : service_begin(c)
  BY <1>6, <1>a, SMT DEF service_begin, Covered, Announced, Unswept
<1>7. CASE \E c \in Cpus : service_lock(c)
  BY <1>7, <1>a, SMT DEF service_lock, Covered, Announced, Unswept
<1>8. CASE \E c \in Cpus : service_contended(c)
  BY <1>8, <1>a, SMT DEF service_contended, Covered, Announced, Unswept, PutBack
<1>9. CASE \E c \in Cpus : service_overflow(c)
  BY <1>9, <1>a, SMT DEF service_overflow, Ready, Everybody, Covered, Announced, Unswept
<1>10. CASE \E c \in Cpus : service_drain(c)
  <2> PICK c \in Cpus : service_drain(c)
    BY <1>10
  <2>1. p # slots[tick[c].slot] /\ Covered(p) /\ UNCHANGED <<pending, overflow, waker>>
    BY <1>a DEF service_drain, Ready
  <2>2. Announced' = Announced
    BY <2>1 DEF Announced
  <2>3. \A s \in Slots : slots[s] = p => slots'[s] = p
    BY <2>1, <1>a DEF service_drain
  <2>4. \A d \in Cpus, s \in Slots : slots[s] = p /\ Unswept(d, s) => Unswept(d, s)'
    <3> SUFFICES ASSUME NEW d \in Cpus, NEW s \in Slots, slots[s] = p, Unswept(d, s)
                 PROVE  Unswept(d, s)'
      OBVIOUS
    <3>1. CASE d # c
      BY <3>1, <1>a DEF service_drain, Unswept
    <3>2. CASE d = c
      <4>1. tick[c].at = "drain" /\ tick[c].slot <= s /\ tick[c].slot # s
        BY <3>2, <2>1 DEF service_drain, Unswept
      <4>2. tick[c].slot # SLOTS /\ tick[c].slot + 1 <= s
        BY <4>1, <1>a, SMT
      <4>3. tick' = [tick EXCEPT ![c] = [tick[c] EXCEPT !.slot = tick[c].slot + 1]]
        BY <4>2 DEF service_drain
      <4>4. tick'[c].at = "drain" /\ tick'[c].slot = tick[c].slot + 1
        BY <4>1, <4>3, <1>a
      <4> QED BY <3>2, <4>2, <4>4 DEF Unswept
    <3> QED BY <3>1, <3>2
  <2>5. \A d \in Cpus : tick[d].at \in {"lock", "overflow"} => tick'[d].at \in {"lock", "overflow"}
    BY <1>a DEF service_drain
  <2> QED BY <2>1, <2>2, <2>3, <2>4, <2>5 DEF Covered
<1>11. CASE UNCHANGED wakeVars
  BY <1>11, <1>a DEF wakeVars, Covered, Announced, Unswept
<1> QED
  BY <1>1, <1>2, <1>3, <1>4, <1>5, <1>6, <1>7, <1>8, <1>9, <1>10, <1>11, ZenonT(30) DEF WakeNext, WakerStep, Service

(* A kwake that could not take RUN_QUEUE is never forgotten, however many    *)
(* deferrals and ticks overlap and whenever the table overflows.             *)
THEOREM DebtsRemembered == WakeSpec => []NoDebtForgotten
<1>1. ASSUME WakeInv, [WakeNext]_wakeVars PROVE WakeInv'
  BY <1>1, WakeAssumption, WakeTypes, DebtStep DEF WakeInv
<1>2. WakeInv => NoDebtForgotten
  BY DEF WakeInv
<1> QED
  BY WakeAssumption, WakesStart, <1>1, <1>2, PTL DEF WakeSpec

============================================================================
