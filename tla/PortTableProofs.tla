-------------------------- MODULE PortTableProofs --------------------------
(***************************************************************************)
(* Proofs about the port table, for every table size, probe limit, queue     *)
(* depth and batch.  A create that fails means a full table.  As long as the  *)
(* id counter has not come round, every live port is the one find returns for  *)
(* its id, and the table of buckets, tombstones and rings implements the       *)
(* abstract ports.  The refinement mapping keeps the live buckets by id and    *)
(* reads each ring from its head; an operation on a ring is shown to be one on  *)
(* the sequence by its indices, without induction.                            *)
(***************************************************************************)
EXTENDS PortTable, TLAPS

(* First-order reasoning suffices unless a step names another prover. *)
USE Zenon

(* A probe lands in the table, and an id is in alloc's range. *)
LEMMA ProbeInTable ==
  ASSUME NEW id \in Nat, NEW i \in Nat
  PROVE  Probe(id, i) \in Slots
BY SizesAssumption, SMT DEF Probe, Slots

LEMMA IdInRange ==
  ASSUME NEW raw \in Nat
  PROVE  IdOf(raw) \in Ids
BY SizesAssumption, SMT DEF IdOf, Ids, Cycle

LEMMA IdBeforeWrap ==
  ASSUME NEW raw \in Nat, raw < Cycle
  PROVE  IdOf(raw) = raw + 1
BY SizesAssumption, SMT DEF IdOf, Cycle

(* What find reaches under the invariant is the one bucket that holds id. *)
LEMMA FoundBucket ==
  ASSUME TypeOK, UniqueIds, NEW id \in Ids, Found(id)
  PROVE  /\ find(id) \in Live
         /\ buckets[find(id)].id = id
<1> DEFINE i == CHOOSE i \in Steps : Hits(id, i)
<1>1. i \in Steps /\ Hits(id, i)
  BY DEF Found
<1>2. Probe(id, i) \in Slots
  BY <1>1, ProbeInTable, SizesAssumption, SMT DEF Steps, Ids
<1> QED
  BY <1>1, <1>2, SizesAssumption, SMT
  DEF find, Hits, Live, is_available, Ids, EMPTY_ID, TOMBSTONE_ID

(* A step that writes tombstones or changes a bucket's contents but not its  *)
(* id preserves the invariant: it frees no bucket and moves no port.         *)
LEMMA ShrinkPreserves ==
  ASSUME IInv, TypeOK', next_id' = next_id,
         \A k \in Slots : buckets'[k].id \in {buckets[k].id, TOMBSTONE_ID}
  PROVE  IInv'
<1>1. \A k \in Slots : k \in Live' => k \in Live /\ buckets'[k].id = buckets[k].id
  BY DEF Live, is_available
<1>2. \A k \in Slots : buckets'[k].id = EMPTY_ID => is_free(k)
  BY SizesAssumption, SMT DEF is_free, EMPTY_ID, TOMBSTONE_ID
<1>3. ChainIntact'
  <2> SUFFICES ASSUME NEW k \in Live'
               PROVE  \E i \in Steps :
                        /\ Probe(buckets'[k].id, i) = k
                        /\ \A j \in 0..i - 1 : /\ buckets'[Probe(buckets'[k].id, j)].id # EMPTY_ID
                                                /\ Probe(buckets'[k].id, j) # k
    BY DEF ChainIntact, Probe, is_free
  <2>1. k \in Slots /\ k \in Live /\ buckets'[k].id = buckets[k].id
    BY <1>1 DEF Live
  <2>2. buckets[k].id \in Nat
    BY <2>1, SizesAssumption, SMT DEF IInv, TypeOK, Ids, EMPTY_ID, TOMBSTONE_ID
  <2>3. PICK i \in Steps : /\ Probe(buckets[k].id, i) = k
                           /\ \A j \in 0..i - 1 : /\ ~is_free(Probe(buckets[k].id, j))
                                                  /\ Probe(buckets[k].id, j) # k
    BY <2>1 DEF IInv, ChainIntact
  <2>4. \A j \in 0..i - 1 : Probe(buckets[k].id, j) \in Slots
    BY <2>2, ProbeInTable, SMT
  <2> QED
    BY <2>1, <2>3, <2>4, <1>2
<1>4. UniqueIds'
  BY <1>1 DEF IInv, UniqueIds, Live
<1>5. IssuedBehindCounter'
  BY <1>1 DEF IInv, IssuedBehindCounter, Live
<1> QED
  BY <1>3, <1>4, <1>5 DEF IInv

(* alloc keeps the invariant: the bucket it takes is the first reusable one  *)
(* of the window, and before the counter wraps its id is new.                *)
LEMMA AllocPreserves ==
  ASSUME IInv, ~MayWrap, NEW p \in Pids, NEW n \in 0..MAX_PORTS - 1, NEW i \in Steps,
         AllocTakes(p, n, i)
  PROVE  IInv'
<1> DEFINE id == IdOf(next_id + n)
           k == Probe(id, i)
<1>1. next_id \in Nat /\ next_id + n + 1 < Cycle /\ Cycle \in Nat /\ n \in Nat
  BY SizesAssumption, SMT DEF AllocTakes, IInv, TypeOK, Cycle
<1>2. id \in Ids /\ id = next_id + n + 1 /\ next_id' = next_id + n + 1
  <2>1. id \in Ids /\ id = next_id + n + 1
    BY <1>1, IdInRange, IdBeforeWrap, SMT
  <2>2. (next_id + n + 1) % Cycle = next_id + n + 1
    BY <1>1, SMT
  <2> QED BY <2>1, <2>2 DEF AllocTakes
<1>3. k \in Slots
  BY <1>2, ProbeInTable, SizesAssumption, SMT DEF Steps, Ids
<1>4. /\ buckets' = [buckets EXCEPT ![k] = Entry(id, p)]
      /\ is_available(k)
      /\ \A j \in 0..i - 1 : ~is_available(Probe(id, j))
  BY DEF AllocTakes, FirstFit
<1>5. /\ buckets'[k] = Entry(id, p)
      /\ \A l \in Slots : l # k => buckets'[l] = buckets[l]
  BY <1>3, <1>4 DEF IInv, TypeOK
<1>6. TypeOK'
  <2>1. Entry(id, p) \in [id : {EMPTY_ID, TOMBSTONE_ID} \cup Ids,
                          owner : Pids \cup {NoOwner},
                          queue : [Ring -> Msgs \cup {NoMsg}],
                          head : Ring, tail : Ring,
                          handler : {Handler, NoHandler}]
    BY <1>2, SizesAssumption, SMT DEF Entry, Ring
  <2>2. next_id' \in 0..Cycle - 1
    BY <1>1, <1>2, SMT
  <2> QED BY <1>4, <2>1, <2>2 DEF IInv, TypeOK
<1>7. \A l \in Slots : l \in Live' <=> l = k \/ l \in Live
  BY <1>2, <1>3, <1>5, SizesAssumption, SMT
  DEF Live, is_available, Entry, Ids, EMPTY_ID, TOMBSTONE_ID
<1>8. k \notin Live
  BY <1>4 DEF Live
<1>9. \A l \in Slots : buckets'[l].id = EMPTY_ID => is_free(l) /\ l # k
  BY <1>2, <1>5, SizesAssumption, SMT DEF is_free, Entry, Ids, EMPTY_ID
<1>10. ChainIntact'
  <2> SUFFICES ASSUME NEW l \in Live'
               PROVE  \E m \in Steps :
                        /\ Probe(buckets'[l].id, m) = l
                        /\ \A j \in 0..m - 1 : /\ buckets'[Probe(buckets'[l].id, j)].id # EMPTY_ID
                                                /\ Probe(buckets'[l].id, j) # l
    BY DEF ChainIntact, Probe, is_free
  <2>0. l \in Slots
    BY DEF Live
  <2>1. CASE l = k
    <3>1. buckets'[l].id = id
      BY <2>1, <1>5, SMT DEF Entry
    <3>2. \A j \in 0..i - 1 : Probe(id, j) \in Slots
      BY <1>2, ProbeInTable, SMT DEF Ids
    <3>3. \A j \in 0..i - 1 : ~is_free(Probe(id, j)) /\ Probe(id, j) # k
      BY <1>4 DEF is_available, is_free
    <3> QED BY <2>1, <3>1, <3>2, <3>3, <1>9
  <2>2. CASE l # k
    <3>1. l \in Live /\ buckets'[l].id = buckets[l].id
      BY <2>0, <2>2, <1>5, <1>7
    <3>2. PICK m \in Steps : /\ Probe(buckets[l].id, m) = l
                             /\ \A j \in 0..m - 1 : /\ ~is_free(Probe(buckets[l].id, j))
                                                    /\ Probe(buckets[l].id, j) # l
      BY <3>1 DEF IInv, ChainIntact
    <3>3. buckets[l].id \in Nat
      BY <2>0, SizesAssumption, SMT DEF IInv, TypeOK, Ids, EMPTY_ID, TOMBSTONE_ID
    <3>4. \A j \in 0..m - 1 : Probe(buckets[l].id, j) \in Slots
      BY <3>3, ProbeInTable, SMT
    <3> QED BY <3>1, <3>2, <3>4, <1>9
  <2> QED BY <2>1, <2>2
<1>11. \A l \in Live : buckets[l].id <= next_id /\ buckets[l].id \in Nat
  BY SizesAssumption, SMT
  DEF IInv, TypeOK, IssuedBehindCounter, Live, Ids, EMPTY_ID, TOMBSTONE_ID
<1>12. UniqueIds'
  <2> SUFFICES ASSUME NEW l \in Live', NEW m \in Live', buckets'[l].id = buckets'[m].id
               PROVE  l = m
    BY DEF UniqueIds
  <2>0. l \in Slots /\ m \in Slots
    BY DEF Live
  <2>1. \A x \in Live : buckets[x].id # id
    BY <1>1, <1>2, <1>11, SMT
  <2>2. CASE l = k /\ m # k
    BY <2>0, <2>1, <2>2, <1>5, <1>7, SMT DEF Entry
  <2>3. CASE l # k /\ m = k
    BY <2>0, <2>1, <2>3, <1>5, <1>7, SMT DEF Entry
  <2>4. CASE l # k /\ m # k
    BY <2>0, <2>4, <1>5, <1>7 DEF IInv, UniqueIds
  <2> QED BY <2>2, <2>3, <2>4
<1>13. IssuedBehindCounter'
  <2> SUFFICES ASSUME NEW l \in Live' PROVE buckets'[l].id <= next_id'
    BY DEF IssuedBehindCounter
  <2>0. l \in Slots
    BY DEF Live
  <2>1. CASE l = k
    BY <2>1, <1>1, <1>2, <1>5, SMT DEF Entry
  <2>2. CASE l # k
    BY <2>0, <2>2, <1>1, <1>2, <1>5, <1>7, <1>11, SMT
  <2> QED BY <2>1, <2>2
<1> QED
  BY <1>6, <1>10, <1>12, <1>13 DEF IInv

(* A failed alloc only advances the counter. *)
LEMMA AllocFailPreserves ==
  ASSUME IInv, ~MayWrap, AllocFails
  PROVE  IInv'
<1>1. next_id \in Nat /\ next_id + 1 < Cycle /\ MAX_PORTS = Cycle + 1 /\ Cycle \in Nat
  BY SizesAssumption, SMT DEF AllocFails, IInv, TypeOK, Cycle
<1>2. next_id' = next_id + 1
  <2>1. next_id' = (next_id + 1 + Cycle) % Cycle
    BY <1>1, SMT DEF AllocFails
  <2>2. (next_id + 1 + Cycle) % Cycle = next_id + 1
    BY <1>1, SMT
  <2> QED BY <2>1, <2>2
<1>3. buckets' = buckets
  BY DEF AllocFails
<1>4. TypeOK'
  BY <1>1, <1>2, <1>3, SMT DEF IInv, TypeOK
<1>5. ChainIntact' /\ UniqueIds'
  BY <1>3 DEF IInv, ChainIntact, UniqueIds, Live, is_available, is_free
<1>6. IssuedBehindCounter'
  <2>1. \A k \in Live : buckets[k].id \in Nat
    BY SizesAssumption, SMT DEF IInv, TypeOK, Live, Ids, EMPTY_ID, TOMBSTONE_ID
  <2> QED
    BY <1>1, <1>2, <1>3, <2>1, SMT DEF IInv, IssuedBehindCounter, Live, is_available
<1> QED
  BY <1>4, <1>5, <1>6 DEF IInv

(* A bucket value of the right type. *)
Bucket == [id : {EMPTY_ID, TOMBSTONE_ID} \cup Ids,
           owner : Pids \cup {NoOwner},
           queue : [Ring -> Msgs \cup {NoMsg}],
           head : Ring, tail : Ring,
           handler : {Handler, NoHandler}]

(* Replacing one live bucket by a tombstone, or by a bucket with the same    *)
(* id, preserves the invariant.                                             *)
LEMMA WritePreserves ==
  ASSUME IInv, next_id' = next_id, NEW k \in Slots, NEW b \in Bucket,
         b.id \in {buckets[k].id, TOMBSTONE_ID},
         buckets' = [buckets EXCEPT ![k] = b]
  PROVE  IInv'
<1>1. TypeOK'
  BY DEF IInv, TypeOK, Bucket
<1>2. \A l \in Slots : buckets'[l].id \in {buckets[l].id, TOMBSTONE_ID}
  BY DEF IInv, TypeOK
<1> QED
  BY <1>1, <1>2, ShrinkPreserves

(* A ring operation keeps a bucket's type and its id. *)
LEMMA EnqueuePreserves ==
  ASSUME NEW b \in Bucket, NEW m \in Msgs
  PROVE  enqueue(b, m) \in Bucket /\ enqueue(b, m).id = b.id
<1>1. (b.tail + 1) % QUEUE_DEPTH \in Ring
  BY SizesAssumption, SMT DEF Bucket, Ring
<1>2. [b.queue EXCEPT ![b.tail] = m] \in [Ring -> Msgs \cup {NoMsg}]
  BY DEF Bucket
<1>3. enqueue(b, m) = [b EXCEPT !.queue = [b.queue EXCEPT ![b.tail] = m],
                                !.tail = (b.tail + 1) % QUEUE_DEPTH]
  BY DEF enqueue
<1> QED
  BY <1>1, <1>2, <1>3 DEF Bucket

LEMMA DequeuePreserves ==
  ASSUME NEW b \in Bucket
  PROVE  dequeue(b) \in Bucket /\ dequeue(b).id = b.id
<1>1. (b.head + 1) % QUEUE_DEPTH \in Ring
  BY SizesAssumption, SMT DEF Bucket, Ring
<1>2. [b.queue EXCEPT ![b.head] = NoMsg] \in [Ring -> Msgs \cup {NoMsg}]
  BY DEF Bucket
<1>3. dequeue(b) = [b EXCEPT !.queue = [b.queue EXCEPT ![b.head] = NoMsg],
                             !.head = (b.head + 1) % QUEUE_DEPTH]
  BY DEF dequeue
<1> QED
  BY <1>1, <1>2, <1>3 DEF Bucket

LEMMA SamePreserves ==
  ASSUME IInv, next_id' = next_id, buckets' = buckets
  PROVE  IInv'
BY DEF IInv, TypeOK, ChainIntact, UniqueIds, IssuedBehindCounter, Live, is_available, is_free

LEMMA TombstoneIsBucket == tombstone \in Bucket /\ tombstone.id = TOMBSTONE_ID
BY SizesAssumption, SMT DEF tombstone, Entry, Bucket, Ring

(* The inductive invariant: while the id counter has not come round, ids are *)
(* unique and behind the counter and no probe chain is cut.                  *)
THEOREM TableInvariant == ~MayWrap /\ Spec => []IInv
<1> SUFFICES ASSUME ~MayWrap PROVE Spec => []IInv
  OBVIOUS
<1>1. ASSUME Init PROVE IInv
  <2>1. \A k \in Slots : buckets[k] = empty /\ buckets[k].id = EMPTY_ID
    BY <1>1 DEF Init, empty, Entry
  <2>2. Live = {}
    BY <2>1 DEF Live, is_available
  <2>3. empty \in Bucket
    BY SizesAssumption, SMT DEF empty, Entry, Bucket, Ring
  <2>4. TypeOK
    BY <1>1, <2>3, SizesAssumption, SMT DEF Init, TypeOK, Bucket, Cycle
  <2> QED BY <2>2, <2>4 DEF IInv, ChainIntact, UniqueIds, IssuedBehindCounter
<1>2. ASSUME IInv, [Next]_vars PROVE IInv'
  <2>1. ASSUME NEW p \in Pids, create(p) PROVE IInv'
    BY <1>2, <2>1, AllocPreserves, AllocFailPreserves DEF create
  <2>2. ASSUME NEW p \in Pids, release_by_owner(p) PROVE IInv'
    <3>1. TypeOK'
      BY <1>2, <2>2, TombstoneIsBucket DEF release_by_owner, IInv, TypeOK, Bucket
    <3>2. \A l \in Slots : buckets'[l].id \in {buckets[l].id, TOMBSTONE_ID}
      BY <2>2, TombstoneIsBucket DEF release_by_owner
    <3> QED BY <1>2, <2>2, <3>1, <3>2, ShrinkPreserves DEF release_by_owner
  <2>3. ASSUME NEW id \in Ids, close(id) PROVE IInv'
    <3>1. CASE Found(id)
      BY <1>2, <2>3, <3>1, FoundBucket, TombstoneIsBucket, WritePreserves
      DEF close, IInv, Live
    <3>2. CASE ~Found(id)
      BY <1>2, <2>3, <3>2, SamePreserves DEF close
    <3> QED BY <3>1, <3>2
  <2>4. ASSUME NEW id \in Ids, register_handler(id) PROVE IInv'
    <3>1. CASE Found(id)
      <4> DEFINE k == find(id)
                 b == [buckets[k] EXCEPT !.handler = Handler]
      <4>1. k \in Slots /\ buckets[k] \in Bucket
        BY <1>2, <3>1, FoundBucket DEF IInv, TypeOK, Bucket, Live
      <4>2. b \in Bucket /\ b.id = buckets[k].id
        BY <4>1 DEF Bucket
      <4>3. buckets' = [buckets EXCEPT ![k] = b] /\ next_id' = next_id
        BY <2>4, <3>1 DEF register_handler
      <4> QED BY <1>2, <4>1, <4>2, <4>3, WritePreserves
    <3>2. CASE ~Found(id)
      BY <1>2, <2>4, <3>2, SamePreserves DEF register_handler
    <3> QED BY <3>1, <3>2
  <2>5. ASSUME NEW id \in Ids, NEW m \in Msgs, send(id, m) PROVE IInv'
    <3> DEFINE k == find(id)
               b == enqueue(buckets[k], m)
    <3>1. CASE /\ Found(id)
               /\ buckets' = [buckets EXCEPT ![k] = enqueue(@, m)]
      <4>1. k \in Slots /\ buckets[k] \in Bucket
        BY <1>2, <3>1, FoundBucket DEF IInv, TypeOK, Bucket, Live
      <4>2. b \in Bucket /\ b.id = buckets[k].id
        BY <4>1, EnqueuePreserves
      <4> QED BY <1>2, <2>5, <3>1, <4>1, <4>2, WritePreserves DEF send
    <3>2. CASE UNCHANGED buckets
      BY <1>2, <2>5, <3>2, SamePreserves DEF send
    <3> QED BY <2>5, <3>1, <3>2 DEF send
  <2>6. ASSUME NEW id \in Ids, NEW p \in Pids, recv_as(id, p) PROVE IInv'
    <3> DEFINE k == find(id)
               b == dequeue(buckets[k])
    <3>1. CASE /\ Found(id)
               /\ buckets' = [buckets EXCEPT ![k] = b]
      <4>1. k \in Slots /\ buckets[k] \in Bucket
        BY <1>2, <3>1, FoundBucket DEF IInv, TypeOK, Bucket, Live
      <4>2. b \in Bucket /\ b.id = buckets[k].id
        BY <4>1, DequeuePreserves
      <4> QED BY <1>2, <2>6, <3>1, <4>1, <4>2, WritePreserves DEF recv_as
    <3>2. CASE UNCHANGED buckets
      BY <1>2, <2>6, <3>2, SamePreserves DEF recv_as
    <3> QED BY <2>6, <3>1, <3>2 DEF recv_as
  <2>7. ASSUME NEW id \in Ids, NEW p \in Pids, is_owner(id, p) PROVE IInv'
    BY <1>2, <2>7, SamePreserves DEF is_owner
  <2>8. CASE UNCHANGED vars
    BY <1>2, <2>8, SamePreserves DEF vars
  <2> QED
    BY <1>2, <2>1, <2>2, <2>3, <2>4, <2>5, <2>6, <2>7, <2>8 DEF Next
<1> QED
  BY <1>1, <1>2, PTL DEF Spec

(* Under the invariant, find returns the live port that has the id. *)
LEMMA FindsLive ==
  ASSUME IInv
  PROVE  EveryLivePortFound
<1> SUFFICES ASSUME NEW k \in Live
             PROVE  Found(buckets[k].id) /\ find(buckets[k].id) = k
  BY DEF EveryLivePortFound
<1> DEFINE id == buckets[k].id
<1>1. id \in Ids
  BY DEF IInv, TypeOK, Live, is_available
<1>2. PICK i \in Steps : /\ Probe(id, i) = k
                         /\ \A j \in 0..i - 1 : ~is_free(Probe(id, j)) /\ Probe(id, j) # k
  BY DEF IInv, ChainIntact
<1>3. \A j \in 0..i - 1 : Probe(id, j) \in Slots
  BY <1>1, ProbeInTable, SMT DEF Ids
<1>4. \A j \in 0..i - 1 : buckets[Probe(id, j)].id # id
  BY <1>1, <1>2, <1>3, SizesAssumption
  DEF IInv, UniqueIds, Live, is_available, Ids, EMPTY_ID, TOMBSTONE_ID
<1>5. Hits(id, i)
  BY <1>2, <1>4 DEF Hits
<1>6. Found(id)
  BY <1>5 DEF Found
<1>7. find(id) \in Live /\ buckets[find(id)].id = id
  BY <1>1, <1>6, FoundBucket DEF IInv
<1> QED BY <1>6, <1>7 DEF IInv, UniqueIds

(* find is exact: while the id counter has not come round, every live port   *)
(* is found from its id, whatever closes and releases came before.           *)
THEOREM FindIsExact == ~MayWrap /\ Spec => []EveryLivePortFound
BY FindsLive, TableInvariant, PTL

(* The counter stays a residue, whether or not it comes round. *)
CounterOK == next_id \in 0..Cycle - 1

LEMMA CounterStays == Spec => []CounterOK
<1>1. Cycle \in Nat \ {0}
  BY SizesAssumption, SMT DEF Cycle
<1>2. ASSUME Init PROVE CounterOK
  BY <1>1, <1>2, SMT DEF Init, CounterOK
<1>3. ASSUME CounterOK, [Next]_vars PROVE CounterOK'
  <2>1. \A x \in Nat : x % Cycle \in 0..Cycle - 1
    BY <1>1, SMT
  <2>2. CASE next_id' = next_id
    BY <1>3, <2>2 DEF CounterOK
  <2>3. ASSUME NEW n \in 0..MAX_PORTS - 1, next_id' = (next_id + n + 1) % Cycle
        PROVE  CounterOK'
    BY <1>1, <1>3, <2>1, <2>3, SizesAssumption, SMT DEF CounterOK
  <2>4. CASE next_id' = (next_id + MAX_PORTS) % Cycle
    BY <1>1, <1>3, <2>1, <2>4, SizesAssumption, SMT DEF CounterOK
  <2> QED
    BY <1>3, <2>2, <2>3, <2>4
    DEF Next, create, AllocTakes, AllocFails, release_by_owner, close, register_handler, send,
        recv_as, is_owner, vars
<1> QED BY <1>2, <1>3, PTL DEF Spec

(* MAX_PORTS consecutive counter values give every id. *)
LEMMA EveryIdTried ==
  ASSUME CounterOK, NEW id \in Ids
  PROVE  \E l \in 0..MAX_PORTS - 1 : IdOf(next_id + l) = id
<1>1. /\ Cycle \in Nat \ {0} /\ MAX_PORTS = Cycle + 1 /\ id \in 1..Cycle
      /\ next_id \in 0..Cycle - 1
  BY SizesAssumption, SMT DEF Cycle, Ids, CounterOK
<1>2. CASE id - 1 >= next_id
  <2>1. id - 1 - next_id \in 0..MAX_PORTS - 1 /\ next_id + (id - 1 - next_id) = id - 1
    BY <1>1, <1>2, SMT
  <2>2. (id - 1) % Cycle = id - 1
    BY <1>1, SMT
  <2> QED BY <1>1, <2>1, <2>2, SMT DEF IdOf
<1>3. CASE id - 1 < next_id
  <2>1. /\ id - 1 - next_id + Cycle \in 0..MAX_PORTS - 1
        /\ next_id + (id - 1 - next_id + Cycle) = id - 1 + Cycle
    BY <1>1, <1>3, SMT
  <2>2. (id - 1 + Cycle) % Cycle = id - 1
    BY <1>1, SMT
  <2>3. (id - 1) + 1 = id
    BY <1>1, SMT
  <2>4. IdOf(id - 1 + Cycle) = id
    BY <2>2, <2>3 DEF IdOf
  <2> QED BY <2>1, <2>4
<1> QED BY <1>1, <1>2, <1>3, SMT

(* A bucket is the home of some id, for there are more ids than buckets. *)
LEMMA EverySlotIsHome ==
  ASSUME NEW k \in Slots
  PROVE  \E id \in Ids : Probe(id, 0) = k
<1>1. CASE k = 0
  <2>1. LIVE_BUCKETS \in Ids /\ LIVE_BUCKETS % LIVE_BUCKETS = 0
    BY SizesAssumption, SMT DEF Ids
  <2>2. LIVE_BUCKETS + 0 = LIVE_BUCKETS
    BY SizesAssumption, SMT
  <2> QED BY <1>1, <2>1, <2>2 DEF Probe
<1>2. CASE k # 0
  <2>1. k \in Ids /\ k % LIVE_BUCKETS = k /\ k + 0 = k
    BY <1>2, SizesAssumption, SMT DEF Ids, Slots
  <2> QED BY <2>1 DEF Probe
<1> QED BY <1>1, <1>2

(* A failed create means a full table, for every table size and probe limit, *)
(* and also after the id counter has come round: alloc's MAX_PORTS attempts  *)
(* start at every bucket of the table.                                      *)
THEOREM FullMeansFull == Spec => FailsOnlyWhenFull
<1>1. ASSUME CounterOK, AllocFails PROVE Live = Slots
  <2> SUFFICES ASSUME NEW k \in Slots PROVE k \in Live
    BY DEF Live
  <2>1. PICK id \in Ids : Probe(id, 0) = k
    BY EverySlotIsHome
  <2>2. PICK l \in 0..MAX_PORTS - 1 : IdOf(next_id + l) = id
    BY <1>1, EveryIdTried
  <2>3. ~Fits(next_id + l)
    BY <1>1 DEF AllocFails
  <2>4. 0 \in Steps
    BY SizesAssumption, SMT DEF Steps
  <2> QED BY <2>1, <2>2, <2>3, <2>4 DEF Fits, Live
<1>2. CounterOK => [AllocFails => Live = Slots]_vars
  BY <1>1
<1> QED BY <1>2, CounterStays, PTL DEF FailsOnlyWhenFull

-----------------------------------------------------------------------------
(* The refinement of Ports.  View(b) is the abstract port a live bucket      *)
(* stands for, PortsOf(bs) the abstract table of the buckets bs.             *)
View(b) == [owner |-> b.owner, queue |-> QueueOf(b), handler |-> b.handler = Handler]
InUse(bs) == {k \in Slots : bs[k].id \notin {EMPTY_ID, TOMBSTONE_ID}}
PortsOf(bs) ==
  [id \in {bs[k].id : k \in InUse(bs)} |-> View(bs[CHOOSE k \in InUse(bs) : bs[k].id = id])]

LEMMA PortsNowIs ==
  /\ PortsNow = PortsOf(buckets) /\ Live = InUse(buckets)
  /\ PortsNow' = PortsOf(buckets') /\ Live' = InUse(buckets')
<1>1. Live = InUse(buckets) /\ Live' = InUse(buckets')
  BY DEF Live, InUse, is_available
<1>2. PortsNow = PortsOf(buckets)
  BY <1>1 DEF PortsNow, PortsOf, View
<1>3. PortsNow' = PortsOf(buckets')
  BY <1>1 DEF PortsNow, PortsOf, View, QueueOf
<1> QED BY <1>1, <1>2, <1>3

(* No two buckets in use have one id. *)
Distinct(bs) == \A k, l \in InUse(bs) : bs[k].id = bs[l].id => k = l

(* With distinct ids, the port of an id is the view of the bucket with it. *)
LEMMA PortAt ==
  ASSUME NEW bs, Distinct(bs), NEW k \in InUse(bs)
  PROVE  bs[k].id \in DOMAIN PortsOf(bs) /\ PortsOf(bs)[bs[k].id] = View(bs[k])
<1>1. bs[k].id \in {bs[l].id : l \in InUse(bs)}
  OBVIOUS
<1>2. (CHOOSE l \in InUse(bs) : bs[l].id = bs[k].id) = k
  BY DEF Distinct
<1> QED BY <1>1, <1>2 DEF PortsOf

LEMMA PortDomain ==
  ASSUME NEW bs
  PROVE  DOMAIN PortsOf(bs) = {bs[k].id : k \in InUse(bs)}
BY DEF PortsOf

(* PortsOf(bs) is the function that gives every id in use its bucket's view. *)
IsMap(F) == F = [id \in DOMAIN F |-> F[id]]

LEMMA SamePorts ==
  ASSUME NEW bs, Distinct(bs), NEW F, IsMap(F),
         DOMAIN F = DOMAIN PortsOf(bs),
         \A k \in InUse(bs) : View(bs[k]) = F[bs[k].id]
  PROVE  PortsOf(bs) = F
<1>1. ASSUME NEW id \in DOMAIN PortsOf(bs) PROVE PortsOf(bs)[id] = F[id]
  <2>0. id \in {bs[k].id : k \in InUse(bs)}
    BY <1>1, PortDomain
  <2>1. PICK k \in InUse(bs) : bs[k].id = id
    BY <2>0
  <2>2. PortsOf(bs)[bs[k].id] = View(bs[k])
    BY PortAt
  <2> QED BY <2>1, <2>2
<1> QED BY <1>1 DEF PortsOf, IsMap

(* What the distance from head to tail says: its range, when the ring is     *)
(* full, when it is empty, and how it moves with head and tail.              *)
LEMMA RingDistance ==
  ASSUME NEW h \in Ring, NEW t \in Ring
  PROVE  /\ (t + QUEUE_DEPTH - h) % QUEUE_DEPTH = IF t >= h THEN t - h ELSE t + QUEUE_DEPTH - h
         /\ (t + 1) % QUEUE_DEPTH = IF t + 1 = QUEUE_DEPTH THEN 0 ELSE t + 1
         /\ (h + 1) % QUEUE_DEPTH = IF h + 1 = QUEUE_DEPTH THEN 0 ELSE h + 1
<1> DEFINE q == QUEUE_DEPTH
<1>1. q \in Nat /\ q > 1 /\ h \in 0..q - 1 /\ t \in 0..q - 1
  BY SizesAssumption, SMT DEF Ring
<1>2. CASE t >= h
  <2>1. t - h \in 0..q - 1 /\ t + q - h = (t - h) + q
    BY <1>1, <1>2, SMT
  <2>2. \A x \in 0..q - 1 : (x + q) % q = x
    BY <1>1, SMT
  <2> QED BY <1>1, <1>2, <2>1, <2>2, SMT
<1>3. CASE t < h
  BY <1>1, <1>3, SMT
<1>4. (t + 1) % q = IF t + 1 = q THEN 0 ELSE t + 1
  BY <1>1, SMT
<1>5. (h + 1) % q = IF h + 1 = q THEN 0 ELSE h + 1
  BY <1>1, SMT
<1> QED BY <1>1, <1>2, <1>3, <1>4, <1>5, SMT

(* The nth message from the head is in the slot that many places on, round    *)
(* the end of the ring.                                                     *)
LEMMA RingIndex ==
  ASSUME NEW h \in Ring, NEW n \in 1..QUEUE_DEPTH
  PROVE  (h + n - 1) % QUEUE_DEPTH
           = IF h + n - 1 < QUEUE_DEPTH THEN h + n - 1 ELSE h + n - 1 - QUEUE_DEPTH
<1> DEFINE q == QUEUE_DEPTH
<1>1. q \in Nat /\ q > 1 /\ h \in 0..q - 1 /\ n \in 1..q
  BY SizesAssumption, SMT DEF Ring
<1>2. CASE h + n - 1 < q
  BY <1>1, <1>2, SMT
<1>3. CASE h + n - 1 >= q
  <2>1. h + n - 1 - q \in 0..q - 1 /\ h + n - 1 = (h + n - 1 - q) + q
    BY <1>1, <1>3, SMT
  <2>2. \A x \in 0..q - 1 : (x + q) % q = x
    BY <1>1, SMT
  <2> QED BY <1>1, <1>3, <2>1, <2>2, SMT
<1> QED BY <1>1, <1>2, <1>3, SMT

(* The messages queued in a bucket. *)
QLen(b) == (b.tail + QUEUE_DEPTH - b.head) % QUEUE_DEPTH

LEMMA QueueShape ==
  ASSUME NEW b \in Bucket
  PROVE  /\ QLen(b) \in 0..QUEUE_DEPTH - 1
         /\ Len(QueueOf(b)) = QLen(b)
         /\ QueueOf(b) \in Seq(Msgs \cup {NoMsg})
         /\ \A n \in 1..QLen(b) : QueueOf(b)[n] = b.queue[(b.head + n - 1) % QUEUE_DEPTH]
         /\ Full(b) <=> Len(QueueOf(b)) = QUEUE_DEPTH - 1
         /\ b.head = b.tail <=> QueueOf(b) = <<>>
<1> DEFINE q == QUEUE_DEPTH
<1>1. q \in Nat /\ q > 1 /\ b.head \in 0..q - 1 /\ b.tail \in 0..q - 1
  BY SizesAssumption, SMT DEF Ring, Bucket
<1>2. QLen(b) = IF b.tail >= b.head THEN b.tail - b.head ELSE b.tail + q - b.head
  BY RingDistance DEF QLen, Bucket
<1>3. QLen(b) \in 0..q - 1
  BY <1>1, <1>2, SMT
<1>4. \A n \in 1..QLen(b) : (b.head + n - 1) % q \in Ring
  BY <1>1, <1>3, SMT DEF Ring
<1>5. QueueOf(b) = [n \in 1..QLen(b) |-> b.queue[(b.head + n - 1) % q]]
  BY DEF QueueOf, QLen
<1>6. \A n \in 1..QLen(b) : b.queue[(b.head + n - 1) % q] \in Msgs \cup {NoMsg}
  BY <1>4 DEF Bucket
<1>7. QueueOf(b) \in Seq(Msgs \cup {NoMsg}) /\ Len(QueueOf(b)) = QLen(b)
  BY <1>3, <1>5, <1>6, SMT
<1>8. Full(b) <=> QLen(b) = q - 1
  <2>1. (b.tail + 1) % q = IF b.tail + 1 = q THEN 0 ELSE b.tail + 1
    BY RingDistance DEF Bucket
  <2> QED BY <1>1, <1>2, <2>1, SMT DEF Full
<1>9. b.head = b.tail <=> QLen(b) = 0
  BY <1>1, <1>2, SMT
<1>10. QueueOf(b) = <<>> <=> QLen(b) = 0
  BY <1>3, <1>7, SMT
<1> QED BY <1>3, <1>5, <1>7, <1>8, <1>9, <1>10

(* RingIndex, with the modulus named away. *)
Idx(h, n) == IF h + n - 1 < QUEUE_DEPTH THEN h + n - 1 ELSE h + n - 1 - QUEUE_DEPTH

LEMMA RingIdx ==
  ASSUME NEW h \in Ring, NEW n \in 1..QUEUE_DEPTH
  PROVE  (h + n - 1) % QUEUE_DEPTH = Idx(h, n)
BY RingIndex DEF Idx

(* Equal sequences have equal lengths and elements. *)
LEMMA SeqSame ==
  ASSUME NEW S, NEW s \in Seq(S), NEW t \in Seq(S), Len(s) = Len(t),
         \A n \in 1..Len(s) : s[n] = t[n]
  PROVE  s = t
BY SMT

(* The slots of the messages are in the ring, and the tail is none of them. *)
LEMMA IdxFilled ==
  ASSUME NEW h \in Ring, NEW t \in Ring, NEW l \in Nat, NEW n \in 1..l,
         l = IF t >= h THEN t - h ELSE t + QUEUE_DEPTH - h
  PROVE  Idx(h, n) \in Ring /\ Idx(h, n) # t
BY SizesAssumption, SMT DEF Idx, Ring

(* enqueue appends: it writes the slot after the last message and no slot of  *)
(* a message already queued.                                                *)
LEMMA EnqueueAppends ==
  ASSUME NEW b \in Bucket, NEW m \in Msgs, ~Full(b)
  PROVE  QueueOf(enqueue(b, m)) = Append(QueueOf(b), m)
<1> DEFINE q == QUEUE_DEPTH
           c == enqueue(b, m)
           h == b.head
           t == b.tail
<1>1. q \in Nat /\ q > 1 /\ h \in 0..q - 1 /\ t \in 0..q - 1 /\ Ring = 0..q - 1
  BY SizesAssumption, SMT DEF Ring, Bucket
<1>2. /\ c \in Bucket /\ c.head = h /\ c.tail = (t + 1) % q
      /\ c.queue = [b.queue EXCEPT ![t] = m]
  <2>1. c \in Bucket
    BY EnqueuePreserves
  <2>2. c = [b EXCEPT !.queue = [b.queue EXCEPT ![b.tail] = m],
                      !.tail = (b.tail + 1) % QUEUE_DEPTH]
    BY DEF enqueue
  <2> QED BY <2>1, <2>2 DEF Bucket
<1>3. QLen(b) = IF t >= h THEN t - h ELSE t + q - h
  BY <1>1, RingDistance DEF QLen
<1>4. c.tail = IF t + 1 = q THEN 0 ELSE t + 1
  BY <1>1, <1>2, RingDistance
<1>5. QLen(c) = IF c.tail >= h THEN c.tail - h ELSE c.tail + q - h
  BY <1>2, RingDistance, ZenonT(30) DEF QLen, Bucket
<1>6. c.tail # h
  BY <1>2 DEF Full
<1>7. QLen(c) = QLen(b) + 1
  <2>1. CASE t + 1 = q
    BY <1>1, <1>3, <1>4, <1>5, <1>6, <2>1, SMT
  <2>2. CASE t + 1 # q /\ t >= h
    BY <1>1, <1>3, <1>4, <1>5, <2>2, SMT
  <2>3. CASE t + 1 # q /\ t < h
    BY <1>1, <1>3, <1>4, <1>5, <1>6, <2>3, SMT
  <2> QED BY <1>1, <2>1, <2>2, <2>3, SMT
<1>8. ASSUME NEW n \in 1..QLen(b) PROVE QueueOf(c)[n] = QueueOf(b)[n]
  <2>1. QLen(b) \in 0..q - 1 /\ n \in 1..q /\ n \in 1..QLen(c)
    BY <1>7, <1>8, <1>1, QueueShape, SMT
  <2>2. (h + n - 1) % q = Idx(h, n)
    BY <1>1, <2>1, RingIdx
  <2>3. Idx(h, n) \in Ring /\ Idx(h, n) # t
    <3>1. PICK l \in Nat : l = QLen(b)
      BY <2>1, SMT
    <3>2. n \in 1..l
      BY <1>8, <3>1
    <3> QED BY <1>1, <1>3, <3>1, <3>2, IdxFilled
  <2>4. QueueOf(c)[n] = c.queue[(h + n - 1) % q] /\ QueueOf(b)[n] = b.queue[(h + n - 1) % q]
    BY <1>2, <2>1, QueueShape, ZenonT(30)
  <2>5. b.queue \in [Ring -> Msgs \cup {NoMsg}]
    BY DEF Bucket
  <2> QED BY <1>2, <2>2, <2>3, <2>4, <2>5
<1>9. QueueOf(c)[QLen(c)] = m
  <2> DEFINE n == QLen(c)
  <2>1. QLen(c) \in 0..q - 1 /\ QLen(b) \in 0..q - 1 /\ n \in 1..q /\ n \in 1..QLen(c)
    BY <1>2, <1>7, <1>1, QueueShape, SMT
  <2>2. (h + n - 1) % q = Idx(h, n)
    BY <1>1, <2>1, RingIdx
  <2>3. Idx(h, n) = t
    <3>1. CASE t >= h
      <4>1. n = t - h + 1 /\ h + n - 1 = t /\ t < q
        BY <1>1, <1>3, <1>7, <3>1, SMT
      <4> QED BY <4>1 DEF Idx
    <3>2. CASE t < h
      <4>1. h + n - 1 = t + q
        BY <1>1, <1>3, <1>7, <3>2, SMT
      <4>2. ~(h + n - 1 < q) /\ h + n - 1 - q = t
        BY <1>1, <2>1, <4>1, SMT
      <4> QED BY <4>2 DEF Idx
    <3> QED BY <1>1, <3>1, <3>2, SMT
  <2>4. QueueOf(c)[n] = c.queue[(h + n - 1) % q]
    BY <1>2, <2>1, QueueShape
  <2>5. b.queue \in [Ring -> Msgs \cup {NoMsg}] /\ t \in Ring
    BY <1>1 DEF Bucket
  <2> QED BY <1>2, <2>2, <2>3, <2>4, <2>5, SMT
<1>10. /\ QueueOf(b) \in Seq(Msgs \cup {NoMsg}) /\ Len(QueueOf(b)) = QLen(b)
       /\ QueueOf(c) \in Seq(Msgs \cup {NoMsg}) /\ Len(QueueOf(c)) = QLen(c)
       /\ QLen(b) \in Nat
  BY <1>1, <1>2, QueueShape, SMT
<1>11. /\ Append(QueueOf(b), m) \in Seq(Msgs \cup {NoMsg})
       /\ Len(Append(QueueOf(b), m)) = QLen(b) + 1
  BY <1>10, SMT
<1>12. \A n \in 1..QLen(c) : QueueOf(c)[n] = Append(QueueOf(b), m)[n]
  BY <1>7, <1>8, <1>9, <1>10, SMT
<1> QED BY <1>7, <1>10, <1>11, <1>12, SeqSame

(* The place after the head is the first place of the ring that starts there. *)
LEMMA IdxNext ==
  ASSUME NEW h \in Ring, NEW n \in 1..QUEUE_DEPTH, n + 1 \in 1..QUEUE_DEPTH
  PROVE  /\ Idx(IF h + 1 = QUEUE_DEPTH THEN 0 ELSE h + 1, n) = Idx(h, n + 1)
         /\ Idx(h, n + 1) \in Ring /\ Idx(h, n + 1) # h
BY SizesAssumption, SMT DEF Idx, Ring

(* dequeue removes the head. *)
LEMMA DequeueRemovesHead ==
  ASSUME NEW b \in Bucket, b.head # b.tail
  PROVE  /\ QueueOf(dequeue(b)) = Tail(QueueOf(b))
         /\ b.queue[b.head] = Head(QueueOf(b))
<1> DEFINE q == QUEUE_DEPTH
           c == dequeue(b)
           h == b.head
           t == b.tail
<1>1. q \in Nat /\ q > 1 /\ h \in 0..q - 1 /\ t \in 0..q - 1 /\ Ring = 0..q - 1
  BY SizesAssumption, SMT DEF Ring, Bucket
<1>2. /\ c \in Bucket /\ c.tail = t /\ c.head = (h + 1) % q
      /\ c.queue = [b.queue EXCEPT ![h] = NoMsg]
  <2>1. c \in Bucket
    BY DequeuePreserves
  <2>2. c = [b EXCEPT !.queue = [b.queue EXCEPT ![b.head] = NoMsg],
                      !.head = (b.head + 1) % QUEUE_DEPTH]
    BY DEF dequeue
  <2> QED BY <2>1, <2>2 DEF Bucket
<1>3. QLen(b) = IF t >= h THEN t - h ELSE t + q - h
  BY <1>1, RingDistance DEF QLen
<1>4. c.head = IF h + 1 = q THEN 0 ELSE h + 1
  BY <1>1, <1>2, RingDistance
<1>5. QLen(c) = IF t >= c.head THEN t - c.head ELSE t + q - c.head
  BY <1>2, RingDistance, SMT DEF QLen, Bucket
<1>6. QLen(b) = QLen(c) + 1 /\ QLen(b) \in 1..q - 1
  <2>1. CASE h + 1 = q
    BY <1>1, <1>3, <1>4, <1>5, <2>1, SMT
  <2>2. CASE h + 1 # q /\ t >= h
    BY <1>1, <1>3, <1>4, <1>5, <2>2, SMT
  <2>3. CASE h + 1 # q /\ t < h
    BY <1>1, <1>3, <1>4, <1>5, <2>3, SMT
  <2> QED BY <1>1, <2>1, <2>2, <2>3, SMT
<1>7. ASSUME NEW n \in 1..QLen(c) PROVE QueueOf(c)[n] = QueueOf(b)[n + 1]
  <2>0. c.head \in Ring /\ QLen(c) \in 0..q - 1
    BY <1>2, QueueShape DEF Bucket
  <2>1. n \in 1..q /\ n + 1 \in 1..q /\ n + 1 \in 1..QLen(b)
    BY <1>1, <1>6, <2>0, SMT
  <2>2. (h + (n + 1) - 1) % q = Idx(h, n + 1)
    BY <1>1, <2>1, RingIdx
  <2>3. (c.head + n - 1) % q = Idx(c.head, n)
    BY <2>0, <2>1, RingIdx
  <2>4. Idx(c.head, n) = Idx(h, n + 1)
    <3>1. Idx(IF h + 1 = q THEN 0 ELSE h + 1, n) = Idx(h, n + 1)
      BY <1>1, <2>1, IdxNext
    <3> QED BY <3>1, <1>4, SMT
  <2>5. Idx(h, n + 1) \in Ring /\ Idx(h, n + 1) # h
    BY <1>1, <2>1, IdxNext
  <2>6. /\ QueueOf(c)[n] = c.queue[(c.head + n - 1) % q]
        /\ QueueOf(b)[n + 1] = b.queue[(h + (n + 1) - 1) % q]
    BY <1>2, <2>1, QueueShape
  <2>7. b.queue \in [Ring -> Msgs \cup {NoMsg}]
    BY DEF Bucket
  <2> QED BY <1>2, <2>2, <2>3, <2>4, <2>5, <2>6, <2>7, SMT
<1>8. /\ QueueOf(b) \in Seq(Msgs \cup {NoMsg}) /\ Len(QueueOf(b)) = QLen(b)
      /\ QueueOf(c) \in Seq(Msgs \cup {NoMsg}) /\ Len(QueueOf(c)) = QLen(c)
      /\ QLen(c) \in Nat
  BY <1>1, <1>2, QueueShape, SMT
<1>9. Tail(QueueOf(b)) \in Seq(Msgs \cup {NoMsg}) /\ Len(Tail(QueueOf(b))) = QLen(c)
  BY <1>6, <1>8, SMT
<1>10. \A n \in 1..QLen(c) : QueueOf(c)[n] = Tail(QueueOf(b))[n]
  BY <1>6, <1>7, <1>8, SMT
<1>11. b.queue[h] = Head(QueueOf(b))
  <2>1. (h + 1 - 1) % q = h
    BY <1>1, SMT
  <2>2. QueueOf(b)[1] = b.queue[(h + 1 - 1) % q]
    BY <1>1, <1>6, QueueShape, SMT
  <2> QED BY <1>6, <1>8, <2>1, <2>2, SMT
<1> QED BY <1>8, <1>9, <1>10, <1>11, SeqSame

(* What the invariant says of the abstract table: an id is a port when find   *)
(* finds it, and the port is the view of the bucket found.                   *)
LEMMA FoundIsPort ==
  ASSUME IInv, NEW id \in Ids
  PROVE  /\ Distinct(buckets)
         /\ Found(id) <=> id \in DOMAIN PortsNow
         /\ Found(id) => /\ find(id) \in InUse(buckets) /\ find(id) \in Slots
                         /\ buckets[find(id)].id = id
                         /\ buckets[find(id)] \in Bucket
                         /\ PortsNow[id] = View(buckets[find(id)])
<1>1. Distinct(buckets)
  BY PortsNowIs DEF Distinct, IInv, UniqueIds
<1>2. ASSUME id \in DOMAIN PortsNow PROVE Found(id)
  <2>1. PICK k \in InUse(buckets) : buckets[k].id = id
    BY <1>2, PortsNowIs, PortDomain, ZenonT(30)
  <2> QED BY <2>1, PortsNowIs, FindsLive DEF EveryLivePortFound
<1>3. ASSUME Found(id)
      PROVE  /\ find(id) \in InUse(buckets) /\ find(id) \in Slots
             /\ buckets[find(id)].id = id
             /\ buckets[find(id)] \in Bucket
  <2>1. find(id) \in Live /\ buckets[find(id)].id = id
    BY <1>3, FoundBucket DEF IInv
  <2> QED BY <2>1, PortsNowIs DEF InUse, IInv, TypeOK, Bucket
<1>4. ASSUME Found(id) PROVE id \in DOMAIN PortsNow /\ PortsNow[id] = View(buckets[find(id)])
  <2> DEFINE k == find(id)
  <2>1. k \in InUse(buckets) /\ buckets[k].id = id
    BY <1>3, <1>4
  <2>2. /\ buckets[k].id \in DOMAIN PortsOf(buckets)
        /\ PortsOf(buckets)[buckets[k].id] = View(buckets[k])
    BY <1>1, <2>1, PortAt
  <2> QED BY <2>1, <2>2, PortsNowIs
<1> QED BY <1>1, <1>2, <1>3, <1>4

(* The abstract table after a bucket in use is overwritten, its id kept:      *)
(* that port has the new view, the others are as they were.                  *)
LEMMA RewriteMaps ==
  ASSUME NEW bs \in [Slots -> Bucket], Distinct(bs), NEW k \in InUse(bs), NEW b \in Bucket,
         b.id = bs[k].id
  PROVE  /\ Distinct([bs EXCEPT ![k] = b])
         /\ PortsOf([bs EXCEPT ![k] = b]) = [PortsOf(bs) EXCEPT ![b.id] = View(b)]
<1> DEFINE cs == [bs EXCEPT ![k] = b]
           F == [PortsOf(bs) EXCEPT ![b.id] = View(b)]
           D == {bs[l].id : l \in InUse(bs)}
<1>1. /\ k \in Slots /\ cs[k] = b
      /\ \A l \in Slots : cs[l].id = bs[l].id
      /\ \A l \in Slots : l # k => cs[l] = bs[l]
  BY DEF InUse
<1>2. InUse(cs) = InUse(bs)
  BY <1>1 DEF InUse
<1>3. Distinct(cs)
  BY <1>1, <1>2, SMT DEF Distinct, InUse
<1>4. IsMap(F) /\ DOMAIN F = DOMAIN PortsOf(cs)
  <2>1. DOMAIN PortsOf(bs) = D /\ DOMAIN F = DOMAIN PortsOf(bs)
    BY PortDomain
  <2>2. IsMap(F)
    BY DEF IsMap
  <2>3. \A l \in InUse(bs) : cs[l].id = bs[l].id
    BY <1>1 DEF InUse
  <2>4. D = {cs[l].id : l \in InUse(bs)}
    BY <2>3
  <2>5. DOMAIN PortsOf(cs) = {cs[l].id : l \in InUse(cs)}
    BY PortDomain
  <2> QED BY <1>2, <2>1, <2>2, <2>4, <2>5
<1>5. ASSUME NEW l \in InUse(cs) PROVE View(cs[l]) = F[cs[l].id]
  <2>1. bs[l].id \in DOMAIN PortsOf(bs) /\ PortsOf(bs)[bs[l].id] = View(bs[l]) /\ l \in Slots
    BY <1>2, PortAt DEF InUse
  <2>2. CASE l = k
    BY <1>1, <2>1, <2>2
  <2>3. CASE l # k
    <3>1. bs[l].id # b.id
      BY <1>2, <2>3 DEF Distinct
    <3> QED BY <1>1, <2>1, <2>3, <3>1
  <2> QED BY <2>2, <2>3
<1>6. PortsOf(cs) = F
  <2> HIDE DEF cs, F, D
  <2> QED BY <1>3, <1>4, <1>5, SamePorts
<1> QED BY <1>3, <1>6

(* The two changes of the table that change its set of ports, and what they   *)
(* do to the abstract table.                                                *)
Cleared(bs, K, cs) == \A k \in Slots : cs[k] = IF k \in K THEN tombstone ELSE bs[k]
Filled(bs, k, b, cs) == \A l \in Slots : cs[l] = IF l = k THEN b ELSE bs[l]
IdsOf(bs, K) == {bs[k].id : k \in K}
Dropped(f, ids) == [id \in DOMAIN f \ ids |-> f[id]]
Extended(f, id, v) == [i \in DOMAIN f \cup {id} |-> IF i = id THEN v ELSE f[i]]
NewId(bs, id) == id \in Ids /\ \A l \in InUse(bs) : bs[l].id # id

(* Tombstones written over buckets in use take those ports away. *)
LEMMA RemoveMaps ==
  ASSUME NEW bs \in [Slots -> Bucket], Distinct(bs), NEW K \in SUBSET InUse(bs),
         NEW cs, Cleared(bs, K, cs)
  PROVE  PortsOf(cs) = Dropped(PortsOf(bs), IdsOf(bs, K))
<1> DEFINE D == DOMAIN PortsOf(bs) \ {bs[k].id : k \in K}
           F == [id \in D |-> PortsOf(bs)[id]]
<1>1. \A k \in Slots : k \notin K => cs[k] = bs[k]
  BY DEF Cleared
<1>2. InUse(cs) = InUse(bs) \ K
  BY TombstoneIsBucket DEF InUse, Cleared
<1>3. \A k \in InUse(cs) : k \in InUse(bs) /\ k \notin K /\ cs[k] = bs[k]
  BY <1>1, <1>2 DEF InUse
<1>4. Distinct(cs)
  BY <1>3 DEF Distinct
<1>5. DOMAIN PortsOf(bs) = {bs[k].id : k \in InUse(bs)}
  BY PortDomain
<1>6. \A k \in InUse(bs) : k \notin K <=> bs[k].id \notin {bs[l].id : l \in K}
  BY DEF Distinct
<1>7. D = {cs[k].id : k \in InUse(cs)}
  <2>1. ASSUME NEW id \in D PROVE id \in {cs[k].id : k \in InUse(cs)}
    <3>1. PICK k \in InUse(bs) : bs[k].id = id
      BY <1>5, <2>1
    <3>2. k \in InUse(cs) /\ cs[k].id = id
      BY <1>2, <1>3, <1>6, <2>1, <3>1
    <3> QED BY <3>2
  <2>2. ASSUME NEW k \in InUse(cs) PROVE cs[k].id \in D
    BY <1>3, <1>5, <1>6
  <2> QED BY <2>1, <2>2
<1>8. \A k \in InUse(cs) : View(cs[k]) = F[cs[k].id]
  <2> SUFFICES ASSUME NEW k \in InUse(cs) PROVE View(cs[k]) = F[cs[k].id]
    OBVIOUS
  <2>1. k \in InUse(bs) /\ cs[k] = bs[k]
    BY <1>3
  <2>2. cs[k].id \in D
    BY <1>7
  <2>3. PortsOf(bs)[bs[k].id] = View(bs[k])
    BY <2>1, PortAt
  <2> QED BY <2>1, <2>2, <2>3
<1>9. IsMap(F) /\ DOMAIN F = DOMAIN PortsOf(cs)
  BY <1>7, PortDomain DEF IsMap
<1>10. PortsOf(cs) = F
  <2> HIDE DEF F, D
  <2> QED BY <1>4, <1>8, <1>9, SamePorts
<1> QED BY <1>10 DEF Dropped, IdsOf

(* A new id written into a reusable bucket adds a port. *)
LEMMA AddMaps ==
  ASSUME NEW bs \in [Slots -> Bucket], Distinct(bs), NEW k \in Slots, k \notin InUse(bs),
         NEW b \in Bucket, NewId(bs, b.id), NEW cs, Filled(bs, k, b, cs)
  PROVE  PortsOf(cs) = Extended(PortsOf(bs), b.id, View(b))
<1> DEFINE D == DOMAIN PortsOf(bs) \cup {b.id}
           F == [id \in D |-> IF id = b.id THEN View(b) ELSE PortsOf(bs)[id]]
<1>1. cs[k] = b /\ \A l \in Slots : l # k => cs[l] = bs[l]
  BY DEF Filled
<1>2. b.id \notin {EMPTY_ID, TOMBSTONE_ID}
  BY SizesAssumption, SMT DEF NewId, Ids, EMPTY_ID, TOMBSTONE_ID
<1>3. InUse(cs) = InUse(bs) \cup {k}
  BY <1>1, <1>2 DEF InUse
<1>4. \A l \in InUse(bs) : l # k /\ cs[l] = bs[l]
  BY <1>1 DEF InUse
<1>5. Distinct(cs)
  BY <1>1, <1>3, <1>4 DEF Distinct, NewId
<1>6. DOMAIN PortsOf(bs) = {bs[l].id : l \in InUse(bs)}
  BY PortDomain
<1>7. D = {cs[l].id : l \in InUse(cs)}
  <2>1. ASSUME NEW id \in D PROVE id \in {cs[l].id : l \in InUse(cs)}
    <3>1. CASE id = b.id
      BY <1>1, <1>3, <3>1
    <3>2. CASE id # b.id
      <4>1. PICK l \in InUse(bs) : bs[l].id = id
        BY <1>6, <2>1, <3>2
      <4> QED BY <1>3, <1>4, <4>1
    <3> QED BY <3>1, <3>2
  <2>2. ASSUME NEW l \in InUse(cs) PROVE cs[l].id \in D
    BY <1>1, <1>3, <1>4, <1>6
  <2> QED BY <2>1, <2>2
<1>8. \A l \in InUse(cs) : View(cs[l]) = F[cs[l].id]
  <2> SUFFICES ASSUME NEW l \in InUse(cs) PROVE View(cs[l]) = F[cs[l].id]
    OBVIOUS
  <2>1. CASE l = k
    BY <1>1, <2>1
  <2>2. CASE l # k
    <3>1. l \in InUse(bs) /\ cs[l] = bs[l] /\ bs[l].id # b.id
      BY <1>3, <1>4, <2>2 DEF NewId
    <3>2. bs[l].id \in DOMAIN PortsOf(bs) /\ PortsOf(bs)[bs[l].id] = View(bs[l])
      BY <3>1, PortAt
    <3> QED BY <3>1, <3>2
  <2> QED BY <2>1, <2>2
<1>9. IsMap(F) /\ DOMAIN F = DOMAIN PortsOf(cs)
  BY <1>7, PortDomain DEF IsMap
<1>10. PortsOf(cs) = F
  <2> HIDE DEF F, D
  <2> QED BY <1>5, <1>8, <1>9, SamePorts
<1> QED BY <1>10 DEF Extended

(* One lemma per call: it is the abstract call with the same answer. *)
LEMMA TableTyped ==
  ASSUME IInv
  PROVE  buckets \in [Slots -> Bucket] /\ Distinct(buckets)
<1>1. Distinct(buckets)
  BY PortsNowIs DEF Distinct, IInv, UniqueIds
<1> QED BY <1>1 DEF IInv, TypeOK, Bucket

LEMMA CreateMaps ==
  ASSUME IInv, ~MayWrap, NEW p \in Pids, create(p)
  PROVE  Abstract!Create(p)
<1>1. CASE AllocFails
  <2>1. buckets' = buckets /\ answer' = <<"create", "full">>
    BY <1>1 DEF AllocFails
  <2>2. PortsNow' = PortsNow
    BY <2>1, PortsNowIs
  <2> QED BY <2>1, <2>2 DEF Abstract!Create
<1>2. ASSUME NEW n \in 0..MAX_PORTS - 1, NEW i \in Steps, AllocTakes(p, n, i)
      PROVE  Abstract!Create(p)
  <2> DEFINE id == IdOf(next_id + n)
             k == Probe(id, i)
             b == Entry(id, p)
  <2>1. next_id \in Nat /\ next_id + n + 1 < Cycle /\ Cycle \in Nat /\ n \in Nat
    BY <1>2, SizesAssumption, SMT DEF AllocTakes, IInv, TypeOK, Cycle
  <2>2. id \in Ids /\ id = next_id + n + 1
    BY <2>1, IdInRange, IdBeforeWrap, SMT
  <2>3. k \in Slots
    BY <2>2, ProbeInTable, SizesAssumption, SMT DEF Steps, Ids
  <2>4. buckets' = [buckets EXCEPT ![k] = b] /\ is_available(k) /\ answer' = <<"created", id>>
    BY <1>2 DEF AllocTakes, FirstFit
  <2>5. b \in Bucket /\ b.id = id
    BY <2>2, SizesAssumption, SMT DEF Entry, Ring, Bucket
  <2>6. k \notin InUse(buckets)
    BY <2>4 DEF InUse, is_available
  <2>7. \A l \in InUse(buckets) : buckets[l].id # id
    <3>1. \A l \in Live : buckets[l].id <= next_id /\ buckets[l].id \in Nat
      BY SizesAssumption, SMT
      DEF IInv, TypeOK, IssuedBehindCounter, Live, Ids, EMPTY_ID, TOMBSTONE_ID
    <3> QED BY <2>1, <2>2, <3>1, PortsNowIs, SMT
  <2>8. View(b) = [owner |-> p, queue |-> <<>>, handler |-> FALSE]
    <3>1. b.head = b.tail /\ b.owner = p /\ b.handler = NoHandler
      BY DEF Entry
    <3>2. QueueOf(b) = <<>>
      BY <2>5, <3>1, QueueShape
    <3> QED BY <3>1, <3>2, SizesAssumption DEF View
  <2>9. Filled(buckets, k, b, buckets')
    BY <2>4, TableTyped DEF Filled
  <2>10. PortsOf(buckets') = Extended(PortsOf(buckets), b.id, View(b))
    <3>1. b \in Bucket /\ NewId(buckets, b.id)
      BY <2>2, <2>5, <2>7 DEF NewId
    <3>2. buckets \in [Slots -> Bucket] /\ Distinct(buckets)
      BY TableTyped
    <3> HIDE DEF b, k, id
    <3> QED BY <2>3, <2>6, <2>9, <3>1, <3>2, AddMaps
  <2>11. PortsNow' = Abstract!Created(p, id)
    BY <2>5, <2>8, <2>10, PortsNowIs DEF Abstract!Created, Extended
  <2>12. id \in Ids \ DOMAIN PortsNow
    <3>1. DOMAIN PortsOf(buckets) = {buckets[l].id : l \in InUse(buckets)}
      BY PortDomain
    <3> QED BY <2>2, <2>7, <3>1, PortsNowIs
  <2> QED BY <2>4, <2>11, <2>12 DEF Abstract!Create
<1> QED BY <1>1, <1>2 DEF create

LEMMA ReleaseMaps ==
  ASSUME IInv, NEW p \in Pids, release_by_owner(p)
  PROVE  Abstract!Release(p)
<1> DEFINE K == FirstBatch(p)
           ids == IdsOf(buckets, K)
<1>1. K \in SUBSET InUse(buckets) /\ \A k \in K : buckets[k].owner = p
  BY PortsNowIs DEF FirstBatch, Owned
<1>2. Cleared(buckets, K, buckets')
  BY DEF release_by_owner, Cleared
<1>3. PortsOf(buckets') = Dropped(PortsOf(buckets), ids)
  <2> HIDE DEF K
  <2> QED BY <1>1, <1>2, TableTyped, RemoveMaps
<1>4. PortsNow' = Abstract!Without(ids)
  BY <1>3, PortsNowIs DEF Abstract!Without, Dropped
<1>5. ASSUME NEW k \in K
      PROVE  buckets[k].id \in DOMAIN PortsNow /\ PortsNow[buckets[k].id].owner = p
  <2>1. k \in InUse(buckets) /\ buckets[k].owner = p
    BY <1>1
  <2>2. /\ buckets[k].id \in DOMAIN PortsOf(buckets)
        /\ PortsOf(buckets)[buckets[k].id] = View(buckets[k])
    BY <2>1, TableTyped, PortAt
  <2> QED BY <2>1, <2>2, PortsNowIs, SMT DEF View
<1>6. ids \in SUBSET {i \in DOMAIN PortsNow : PortsNow[i].owner = p}
  BY <1>5 DEF IdsOf
<1>7. answer' = <<"released", ids>>
  BY DEF release_by_owner, IdsOf
<1> QED BY <1>4, <1>6, <1>7 DEF Abstract!Release

LEMMA CloseMaps ==
  ASSUME IInv, NEW id \in Ids, close(id)
  PROVE  Abstract!Close(id)
<1>1. CASE Found(id)
  <2> DEFINE K == {find(id)}
  <2>0. K \in SUBSET InUse(buckets)
    BY <1>1, FoundIsPort
  <2>1. IdsOf(buckets, K) = {id}
    BY <1>1, FoundIsPort DEF IdsOf
  <2>2. Cleared(buckets, K, buckets')
    BY <1>1, TableTyped, FoundIsPort DEF close, Cleared
  <2>3. PortsOf(buckets') = Dropped(PortsOf(buckets), IdsOf(buckets, K))
    <3> HIDE DEF K
    <3> QED BY <2>0, <2>2, TableTyped, RemoveMaps
  <2>4. PortsNow' = Abstract!Without({id})
    BY <2>1, <2>3, PortsNowIs DEF Abstract!Without, Dropped
  <2> QED BY <2>4 DEF close, Abstract!Close
<1>2. CASE ~Found(id)
  <2>1. buckets' = buckets
    BY <1>2 DEF close
  <2>2. PortsNow' = PortsNow /\ id \notin DOMAIN PortsNow
    BY <1>2, <2>1, PortsNowIs, FoundIsPort
  <2>3. Abstract!Without({id}) = PortsNow
    BY <2>2, ZenonT(30) DEF Abstract!Without, PortsNow
  <2> QED BY <2>2, <2>3 DEF close, Abstract!Close
<1> QED BY <1>1, <1>2

(* Overwriting the bucket found for an id overwrites that port's view. *)
LEMMA FoundRewrite ==
  ASSUME IInv, NEW id \in Ids, Found(id), NEW b \in Bucket, b.id = id,
         buckets' = [buckets EXCEPT ![find(id)] = b]
  PROVE  PortsNow' = [PortsNow EXCEPT ![id] = View(b)]
<1> DEFINE k == find(id)
<1>1. k \in InUse(buckets) /\ buckets[k].id = id
  BY FoundIsPort
<1>2. PortsOf([buckets EXCEPT ![k] = b]) = [PortsOf(buckets) EXCEPT ![b.id] = View(b)]
  <2>1. b.id = buckets[k].id
    BY <1>1
  <2> HIDE DEF k
  <2> QED BY <1>1, <2>1, TableTyped, RewriteMaps
<1> QED BY <1>2, PortsNowIs

LEMMA SameMaps ==
  ASSUME buckets' = buckets
  PROVE  PortsNow' = PortsNow
BY PortsNowIs

(* A port record. *)
Port(o, q, h) == [owner |-> o, queue |-> q, handler |-> h]
WithQueue(f, x) == [f EXCEPT !.queue = x]
WithHandler(f, x) == [f EXCEPT !.handler = x]

LEMMA PortFields ==
  ASSUME NEW o, NEW q, NEW h
  PROVE  Port(o, q, h).owner = o /\ Port(o, q, h).queue = q /\ Port(o, q, h).handler = h
BY DEF Port

LEMMA PortExcept ==
  ASSUME NEW o, NEW q, NEW h, NEW x
  PROVE  /\ WithQueue(Port(o, q, h), x) = Port(o, x, h)
         /\ WithHandler(Port(o, q, h), x) = Port(o, q, x)
BY SMT DEF Port, WithQueue, WithHandler

LEMMA ViewIsPort ==
  ASSUME NEW b
  PROVE  View(b) = Port(b.owner, QueueOf(b), b.handler = Handler)
BY DEF View, Port

LEMMA HandlerMaps ==
  ASSUME IInv, NEW id \in Ids, register_handler(id)
  PROVE  Abstract!RegisterHandler(id)
<1>1. CASE Found(id)
  <2> DEFINE a == buckets[find(id)]
             b == [a EXCEPT !.handler = Handler]
  <2>1. a \in Bucket /\ a.id = id /\ id \in DOMAIN PortsNow /\ PortsNow[id] = View(a)
    BY <1>1, FoundIsPort
  <2>2. /\ b \in Bucket /\ b.id = id /\ b.owner = a.owner /\ b.handler = Handler
        /\ b.queue = a.queue /\ b.head = a.head /\ b.tail = a.tail
    BY <2>1 DEF Bucket
  <2>3. View(b) = WithHandler(View(a), TRUE)
    <3>1. QueueOf(b) = QueueOf(a)
      BY <2>2, SMT DEF QueueOf
    <3>2. (b.handler = Handler) = TRUE
      BY <2>2
    <3>3. View(b) = Port(a.owner, QueueOf(a), TRUE)
      BY <2>2, <3>1, <3>2, ViewIsPort
    <3>4. WithHandler(View(a), TRUE) = Port(a.owner, QueueOf(a), TRUE)
      <4>1. PICK h : h = (a.handler = Handler)
        OBVIOUS
      <4>2. View(a) = Port(a.owner, QueueOf(a), h)
        BY <4>1, ViewIsPort
      <4>3. \A g : WithHandler(View(a), g) = Port(a.owner, QueueOf(a), g)
        BY <4>2, PortExcept, SMT
      <4> QED BY <4>3
    <3> QED BY <3>3, <3>4
  <2>4. PortsNow' = [PortsNow EXCEPT ![id] = View(b)]
    <3>1. buckets' = [buckets EXCEPT ![find(id)] = b]
      BY <1>1 DEF register_handler
    <3> HIDE DEF b
    <3> QED BY <1>1, <2>2, <3>1, FoundRewrite
  <2>5. PortsNow' = [PortsNow EXCEPT ![id].handler = TRUE]
    BY <2>1, <2>3, <2>4 DEF WithHandler
  <2>6. answer' = <<"handler", TRUE>>
    BY <1>1 DEF register_handler
  <2> QED BY <2>1, <2>5, <2>6 DEF Abstract!RegisterHandler
<1>2. CASE ~Found(id)
  <2>1. PortsNow' = PortsNow /\ id \notin DOMAIN PortsNow
    BY <1>2, SameMaps, FoundIsPort DEF register_handler
  <2>2. answer' = <<"handler", FALSE>>
    <3>1. Found(id) = FALSE
      BY <1>2 DEF Found
    <3> QED BY <3>1 DEF register_handler
  <2> QED BY <2>1, <2>2 DEF Abstract!RegisterHandler
<1> QED BY <1>1, <1>2

LEMMA SendMaps ==
  ASSUME IInv, NEW id \in Ids, NEW m \in Msgs, send(id, m)
  PROVE  Abstract!Send(id, m)
<1> DEFINE a == buckets[find(id)]
           b == enqueue(a, m)
<1>1. CASE ~Found(id)
  <2>1. PortsNow' = PortsNow /\ id \notin DOMAIN PortsNow /\ answer' = <<"send", "PortNotFound">>
    BY <1>1, SameMaps, FoundIsPort DEF send
  <2> QED BY <2>1 DEF Abstract!Send
<1>2. CASE Found(id)
  <2>1. a \in Bucket /\ a.id = id /\ id \in DOMAIN PortsNow /\ PortsNow[id] = View(a)
    BY <1>2, FoundIsPort
  <2>2. /\ PortsNow[id].owner = a.owner /\ PortsNow[id].queue = QueueOf(a)
        /\ PortsNow[id].handler = (a.handler = Handler)
    <3>0. PICK h : h = (a.handler = Handler)
      OBVIOUS
    <3>1. PortsNow[id] = Port(a.owner, QueueOf(a), h)
      BY <2>1, <3>0, ViewIsPort
    <3>2. /\ PortsNow[id].owner = a.owner /\ PortsNow[id].queue = QueueOf(a)
          /\ PortsNow[id].handler = h
      BY <3>1, PortFields, SMT
    <3> QED BY <3>0, <3>2
  <2>3. CASE a.handler = Handler
    <3>1. PortsNow' = PortsNow /\ answer' = <<"send", "handler">>
      BY <1>2, <2>3, SameMaps, SizesAssumption DEF send
    <3> QED BY <2>1, <2>2, <2>3, <3>1 DEF Abstract!Send
  <2>4. CASE a.handler = NoHandler
    <3>0. ~PortsNow[id].handler
      BY <2>2, <2>4, SizesAssumption
    <3>1. CASE Full(a)
      <4>1. PortsNow' = PortsNow /\ answer' = <<"send", "QueueFull">>
        BY <1>2, <2>4, <3>1, SameMaps, SizesAssumption DEF send
      <4>2. Len(PortsNow[id].queue) = QUEUE_DEPTH - 1
        BY <2>1, <2>2, <3>1, QueueShape
      <4> QED BY <2>1, <3>0, <4>1, <4>2 DEF Abstract!Send
    <3>2. CASE ~Full(a)
      <4>1. buckets' = [buckets EXCEPT ![find(id)] = b] /\ answer' = <<"send", "Ok", a.owner>>
        BY <1>2, <2>4, <3>2, SizesAssumption DEF send
      <4>2. b \in Bucket /\ b.id = id
        BY <2>1, EnqueuePreserves
      <4>3. b.owner = a.owner /\ b.handler = a.handler /\ QueueOf(b) = Append(QueueOf(a), m)
        <5>1. b.owner = a.owner /\ b.handler = a.handler
          BY <2>1 DEF enqueue, Bucket
        <5> QED BY <2>1, <3>2, <5>1, EnqueueAppends
      <4>4. View(b) = WithQueue(View(a), Append(QueueOf(a), m))
        <5>0. PICK h : h = (a.handler = Handler)
          OBVIOUS
        <5>1. View(b) = Port(a.owner, Append(QueueOf(a), m), h)
          BY <4>3, <5>0, ViewIsPort
        <5>2. View(a) = Port(a.owner, QueueOf(a), h)
          BY <5>0, ViewIsPort
        <5> QED BY <5>1, <5>2, PortExcept, SMT
      <4>5. PortsNow' = [PortsNow EXCEPT ![id] = View(b)]
        <5> HIDE DEF b
        <5> QED BY <1>2, <4>1, <4>2, FoundRewrite
      <4>6. PortsNow' = [PortsNow EXCEPT ![id].queue = Append(@, m)]
        BY <2>1, <2>2, <4>4, <4>5 DEF WithQueue
      <4>7. Len(PortsNow[id].queue) # QUEUE_DEPTH - 1
        BY <2>1, <2>2, <3>2, QueueShape
      <4> QED BY <2>1, <2>2, <3>0, <4>1, <4>6, <4>7 DEF Abstract!Send
    <3> QED BY <3>1, <3>2
  <2> QED BY <2>1, <2>3, <2>4 DEF Bucket
<1> QED BY <1>1, <1>2

LEMMA RecvMaps ==
  ASSUME IInv, NEW id \in Ids, NEW p \in Pids, recv_as(id, p)
  PROVE  Abstract!RecvAs(id, p)
<1> DEFINE a == buckets[find(id)]
           b == dequeue(a)
<1>1. CASE ~Found(id)
  <2>1. PortsNow' = PortsNow /\ id \notin DOMAIN PortsNow /\ answer' = <<"recv">>
    BY <1>1, SameMaps, FoundIsPort DEF recv_as
  <2> QED BY <2>1 DEF Abstract!RecvAs
<1>2. CASE Found(id)
  <2>1. a \in Bucket /\ a.id = id /\ id \in DOMAIN PortsNow /\ PortsNow[id] = View(a)
    BY <1>2, FoundIsPort
  <2>2. PortsNow[id].owner = a.owner /\ PortsNow[id].queue = QueueOf(a)
    BY <2>1, SMT DEF View
  <2>3. a.head = a.tail <=> PortsNow[id].queue = <<>>
    BY <2>1, <2>2, QueueShape
  <2>4. CASE a.owner = p /\ a.head # a.tail
    <3>1. buckets' = [buckets EXCEPT ![find(id)] = b] /\ answer' = <<"recv", a.queue[a.head]>>
      BY <1>2, <2>4 DEF recv_as
    <3>2. b \in Bucket /\ b.id = id
      BY <2>1, DequeuePreserves
    <3>3. /\ b.owner = a.owner /\ b.handler = a.handler /\ QueueOf(b) = Tail(QueueOf(a))
          /\ a.queue[a.head] = Head(QueueOf(a))
      <4>1. b.owner = a.owner /\ b.handler = a.handler
        BY <2>1 DEF dequeue, Bucket
      <4> QED BY <2>1, <2>4, <4>1, DequeueRemovesHead
    <3>4. View(b) = WithQueue(View(a), Tail(QueueOf(a)))
      <4>0. PICK h : h = (a.handler = Handler)
        OBVIOUS
      <4>1. View(b) = Port(a.owner, Tail(QueueOf(a)), h)
        BY <3>3, <4>0, ViewIsPort
      <4>2. View(a) = Port(a.owner, QueueOf(a), h)
        BY <4>0, ViewIsPort
      <4> QED BY <4>1, <4>2, PortExcept, SMT
    <3>5. PortsNow' = [PortsNow EXCEPT ![id] = View(b)]
      <4> HIDE DEF b
      <4> QED BY <1>2, <3>1, <3>2, FoundRewrite
    <3>6. PortsNow' = [PortsNow EXCEPT ![id].queue = Tail(@)]
      BY <2>1, <2>2, <3>4, <3>5 DEF WithQueue
    <3> QED BY <2>1, <2>2, <2>3, <2>4, <3>1, <3>3, <3>6 DEF Abstract!RecvAs
  <2>5. CASE ~(a.owner = p /\ a.head # a.tail)
    <3>1. PortsNow' = PortsNow /\ answer' = <<"recv">>
      BY <1>2, <2>5, SameMaps DEF recv_as
    <3> QED BY <2>2, <2>3, <2>5, <3>1 DEF Abstract!RecvAs
  <2> QED BY <2>4, <2>5
<1> QED BY <1>1, <1>2

LEMMA OwnerMaps ==
  ASSUME IInv, NEW id \in Ids, NEW p \in Pids, is_owner(id, p)
  PROVE  Abstract!IsOwner(id, p)
<1> DEFINE a == buckets[find(id)]
<1>1. PortsNow' = PortsNow
  BY SameMaps DEF is_owner
<1>2. Found(id) => PortsNow[id].owner = a.owner
  <2>1. Found(id) => PortsNow[id] = View(a)
    BY FoundIsPort
  <2>2. View(a).owner = a.owner
    BY DEF View
  <2> QED BY <2>1, <2>2
<1>3. (Found(id) /\ a.owner = p) <=> (id \in DOMAIN PortsNow /\ PortsNow[id].owner = p)
  BY <1>2, FoundIsPort
<1>4. (Found(id) /\ a.owner = p) = (id \in DOMAIN PortsNow /\ PortsNow[id].owner = p)
  BY <1>3
<1>5. answer' = <<"owner", Found(id) /\ a.owner = p>>
  BY DEF is_owner
<1>6. answer' = <<"owner", id \in DOMAIN PortsNow /\ PortsNow[id].owner = p>>
  BY <1>4, <1>5
<1> QED BY <1>1, <1>6 DEF Abstract!IsOwner

LEMMA InitMaps ==
  ASSUME Init
  PROVE  Abstract!Init
<1>1. \A k \in Slots : buckets[k].id = EMPTY_ID
  BY DEF Init, empty, Entry
<1>2. InUse(buckets) = {}
  BY <1>1 DEF InUse
<1>3. PortsOf(buckets) = [i \in {} |-> 0]
  BY <1>2 DEF PortsOf
<1> QED BY <1>3, PortsNowIs DEF Init, Abstract!Init

(* The hash table with its probe chains, tombstones and rings implements the  *)
(* abstract ports, for every table size, probe limit, queue depth and batch:   *)
(* as long as the id counter has not come round, every call changes the ports   *)
(* as the abstract call does and gives its answer.                            *)
THEOREM TableImplementsPorts ==
  ASSUME ~MayWrap
  PROVE  Spec => ImplementsPorts
<1>1. Init => Abstract!Init
  BY InitMaps
<1>2. IInv /\ [Next]_vars => [Abstract!Next]_(Abstract!portVars)
  <2> SUFFICES ASSUME IInv, [Next]_vars PROVE [Abstract!Next]_(Abstract!portVars)
    OBVIOUS
  <2>1. CASE UNCHANGED vars
    <3>1. PortsNow' = PortsNow /\ answer' = answer
      BY <2>1, SameMaps DEF vars
    <3> QED BY <3>1 DEF Abstract!portVars
  <2>0. ASSUME Next PROVE answer' # <<"boot">>
    BY <2>0, SMT DEF Next, create, AllocTakes, AllocFails, release_by_owner, close, register_handler,
                     send, recv_as, is_owner
  <2>2. ASSUME NEW p \in Pids, create(p) PROVE Abstract!Next
    BY <2>0, <2>2, CreateMaps DEF Abstract!Next, Next
  <2>3. ASSUME NEW p \in Pids, release_by_owner(p) PROVE Abstract!Next
    BY <2>0, <2>3, ReleaseMaps DEF Abstract!Next, Next
  <2>4. ASSUME NEW id \in Ids, close(id) PROVE Abstract!Next
    BY <2>0, <2>4, CloseMaps DEF Abstract!Next, Next
  <2>5. ASSUME NEW id \in Ids, register_handler(id) PROVE Abstract!Next
    BY <2>0, <2>5, HandlerMaps DEF Abstract!Next, Next
  <2>6. ASSUME NEW id \in Ids, NEW m \in Msgs, send(id, m) PROVE Abstract!Next
    BY <2>0, <2>6, SendMaps DEF Abstract!Next, Next
  <2>7. ASSUME NEW id \in Ids, NEW p \in Pids, recv_as(id, p) PROVE Abstract!Next
    BY <2>0, <2>7, RecvMaps DEF Abstract!Next, Next
  <2>8. ASSUME NEW id \in Ids, NEW p \in Pids, is_owner(id, p) PROVE Abstract!Next
    BY <2>0, <2>8, OwnerMaps DEF Abstract!Next, Next
  <2> QED BY <2>1, <2>2, <2>3, <2>4, <2>5, <2>6, <2>7, <2>8 DEF Next
<1>3. Spec => []IInv
  BY TableInvariant
<1> QED BY <1>1, <1>2, <1>3, PTL DEF Spec, ImplementsPorts, Abstract!Spec

============================================================================
