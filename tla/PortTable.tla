----------------------------- MODULE PortTable -----------------------------
(***************************************************************************)
(* The IPC port table of ipc/src/port.rs: an open-addressed hash table with *)
(* bounded linear probing and tombstones, each bucket holding the ring that *)
(* is the port's queue.  One action per hold of the PORT_TABLE lock; the    *)
(* wakes and handler calls made after the lock is dropped are in Ipc.       *)
(***************************************************************************)
EXTENDS Naturals, Sequences, FiniteSets

CONSTANTS
  MAX_PORTS, LIVE_BUCKETS, PROBE_LIMIT, QUEUE_DEPTH, BATCH,
  Pids, Msgs,
  NoMsg,          \* None in a queue slot
  Handler,        \* a registered handler; NoHandler is None
  NoHandler,
  MayWrap         \* may the id counter come back to an id it has handed out?

ASSUME SizesAssumption ==
  /\ LIVE_BUCKETS \in Nat \ {0}
  /\ PROBE_LIMIT \in 1..LIVE_BUCKETS
  /\ MAX_PORTS \in Nat /\ MAX_PORTS > LIVE_BUCKETS
  /\ QUEUE_DEPTH \in Nat \ {0, 1}
  /\ BATCH \in Nat \ {0}
  /\ NoMsg \notin Msgs
  /\ Handler # NoHandler
  /\ MayWrap \in BOOLEAN

VARIABLES
  buckets,        \* the hash table
  next_id,        \* the id counter, advanced by every attempt of every alloc
  answer          \* what the last call returned

vars == <<buckets, next_id, answer>>

(* EMPTY_ID ends a probe chain; TOMBSTONE_ID (u32::MAX in the source) is     *)
(* outside the ids 1..MAX_PORTS-1 that alloc hands out.                     *)
EMPTY_ID == 0
TOMBSTONE_ID == MAX_PORTS
Ids == 1..MAX_PORTS - 1
Slots == 0..LIVE_BUCKETS - 1
Steps == 0..PROBE_LIMIT - 1
Ring == 0..QUEUE_DEPTH - 1

Entry(id, p) ==
  [id |-> id, owner |-> p, queue |-> [i \in Ring |-> NoMsg],
   head |-> 0, tail |-> 0, handler |-> NoHandler]

NoOwner == 0
empty == Entry(EMPTY_ID, NoOwner)
TombstoneFreesChain == empty
tombstone == Entry(TOMBSTONE_ID, NoOwner)

is_free(k) == buckets[k].id = EMPTY_ID
is_available(k) == buckets[k].id \in {EMPTY_ID, TOMBSTONE_ID}
Live == {k \in Slots : ~is_available(k)}

Probe(id, i) == (id + i) % LIVE_BUCKETS

(* find / find_mut reach step i of id's chain when no bucket before it is    *)
(* free or holds id; they hit when that bucket holds id.                    *)
Hits(id, i) ==
  /\ buckets[Probe(id, i)].id = id
  /\ \A j \in 0..i - 1 : ~is_free(Probe(id, j)) /\ buckets[Probe(id, j)].id # id

Found(id) == \E i \in Steps : Hits(id, i)
find(id) == Probe(id, CHOOSE i \in Steps : Hits(id, i))

(* The counter is only ever read modulo MAX_PORTS - 1: its residue is kept.   *)
Cycle == MAX_PORTS - 1
IdOf(raw) == (raw % Cycle) + 1
FirstFit(id, i) ==
  /\ is_available(Probe(id, i))
  /\ \A j \in 0..i - 1 : ~is_available(Probe(id, j))
FitsUnused(raw) == \E i \in Steps : is_free(Probe(IdOf(raw), i))
Fits(raw) == \E i \in Steps : is_available(Probe(IdOf(raw), i))

(* alloc tries MAX_PORTS consecutive ids and takes the first one whose probe *)
(* window has a reusable bucket.  It does not ask whether the id is live.    *)
AllocTakes(p, n, i) ==
  LET id == IdOf(next_id + n)
      k == Probe(id, i)
  IN /\ \A l \in 0..n - 1 : ~Fits(next_id + l)
     /\ FirstFit(id, i)
     /\ next_id' = (next_id + n + 1) % Cycle
     /\ MayWrap \/ next_id + n + 1 < Cycle
     /\ buckets' = [buckets EXCEPT ![k] = Entry(id, p)]
     /\ answer' = <<"created", id>>

AllocFails ==
  /\ answer' = <<"create", "full">>
  /\ \A l \in 0..MAX_PORTS - 1 : ~Fits(next_id + l)
  /\ next_id' = (next_id + MAX_PORTS) % Cycle
  /\ MayWrap \/ next_id + 1 < Cycle
  /\ UNCHANGED buckets

create(p) ==
  \/ \E n \in 0..MAX_PORTS - 1, i \in Steps : AllocTakes(p, n, i)
  \/ AllocFails

close(id) ==
  /\ buckets' = IF Found(id) THEN [buckets EXCEPT ![find(id)] = tombstone] ELSE buckets
  /\ answer' = <<"closed">>
  /\ UNCHANGED next_id

(* One hold of release_by_owner: the first BATCH buckets the pid owns.       *)
Owned(p) == {k \in Live : buckets[k].owner = p}
FirstBatch(p) == {k \in Owned(p) : Cardinality({j \in Owned(p) : j < k}) < BATCH}

release_by_owner(p) ==
  /\ buckets' = [k \in Slots |-> IF k \in FirstBatch(p) THEN tombstone ELSE buckets[k]]
  /\ answer' = <<"released", {buckets[k].id : k \in FirstBatch(p)}>>
  /\ UNCHANGED next_id

register_handler(id) ==
  /\ buckets' = IF Found(id) THEN [buckets EXCEPT ![find(id)].handler = Handler] ELSE buckets
  /\ answer' = <<"handler", Found(id)>>
  /\ UNCHANGED next_id

FullOneEarly(b) == (b.tail + 2) % QUEUE_DEPTH = b.head
Full(b) == (b.tail + 1) % QUEUE_DEPTH = b.head
enqueue(b, m) ==
  [b EXCEPT !.queue[b.tail] = m, !.tail = (b.tail + 1) % QUEUE_DEPTH]
dequeue(b) ==
  [b EXCEPT !.queue[b.head] = NoMsg, !.head = (b.head + 1) % QUEUE_DEPTH]

send(id, m) ==
  /\ UNCHANGED next_id
  /\ \/ /\ ~Found(id)
        /\ answer' = <<"send", "PortNotFound">>
        /\ UNCHANGED buckets
     \/ /\ Found(id)
        /\ buckets[find(id)].handler = Handler
        /\ answer' = <<"send", "handler">>
        /\ UNCHANGED buckets
     \/ /\ Found(id)
        /\ buckets[find(id)].handler = NoHandler
        /\ IF Full(buckets[find(id)])
           THEN answer' = <<"send", "QueueFull">> /\ UNCHANGED buckets
           ELSE /\ buckets' = [buckets EXCEPT ![find(id)] = enqueue(@, m)]
                /\ answer' = <<"send", "Ok", buckets[find(id)].owner>>

recv_as(id, p) ==
  /\ UNCHANGED next_id
  /\ LET b == buckets[find(id)]
     IN IF Found(id) /\ b.owner = p /\ b.head # b.tail
        THEN /\ buckets' = [buckets EXCEPT ![find(id)] = dequeue(b)]
             /\ answer' = <<"recv", b.queue[b.head]>>
        ELSE answer' = <<"recv">> /\ UNCHANGED buckets

is_owner(id, p) ==
  /\ answer' = <<"owner", Found(id) /\ buckets[find(id)].owner = p>>
  /\ UNCHANGED <<buckets, next_id>>

Init ==
  /\ buckets = [k \in Slots |-> empty]
  /\ next_id = 0
  /\ answer = <<"boot">>

Next ==
  \/ \E p \in Pids : create(p) \/ release_by_owner(p)
  \/ \E id \in Ids :
       \/ close(id)
       \/ register_handler(id)
       \/ \E m \in Msgs : send(id, m)
       \/ \E p \in Pids : recv_as(id, p) \/ is_owner(id, p)

Spec == Init /\ [][Next]_vars

-----------------------------------------------------------------------------
(* Type invariant of the table. *)
TypeOK ==
  /\ buckets \in [Slots -> [id : {EMPTY_ID, TOMBSTONE_ID} \cup Ids,
                            owner : Pids \cup {NoOwner},
                            queue : [Ring -> Msgs \cup {NoMsg}],
                            head : Ring, tail : Ring,
                            handler : {Handler, NoHandler}]]
  /\ next_id \in 0..Cycle - 1

(* No two live buckets answer to the same id, so an id names one owner and   *)
(* one queue.                                                               *)
UniqueIds ==
  \A k, l \in Live : buckets[k].id = buckets[l].id => k = l

(* Every live port is reached by find from its id: it lies within            *)
(* PROBE_LIMIT of its home bucket, no close or release ever freed a bucket   *)
(* before it in its chain, and no other port shadows it.                    *)
EveryLivePortFound ==
  \A k \in Live : Found(buckets[k].id) /\ find(buckets[k].id) = k

(* The strengthening that makes EveryLivePortFound inductive while the       *)
(* counter has not wrapped: the chain from a port's home to its bucket has   *)
(* no free bucket, and an id handed out is behind the counter.               *)
ChainIntact ==
  \A k \in Live : \E i \in Steps :
    /\ Probe(buckets[k].id, i) = k
    /\ \A j \in 0..i - 1 : /\ ~is_free(Probe(buckets[k].id, j))
                            /\ Probe(buckets[k].id, j) # k
IssuedBehindCounter == \A k \in Live : buckets[k].id <= next_id
IInv == TypeOK /\ ChainIntact /\ UniqueIds /\ IssuedBehindCounter

(* create fails only when every bucket of the table holds a live port: a     *)
(* failed alloc means the table is full, never a crowded probe window.       *)
FailsOnlyWhenFull ==
  [][AllocFails => Live = Slots]_vars

(* The table implements the abstract ports: live ids are the ports, and a    *)
(* ring read from head to tail is the queue.                                *)
QueueOf(b) ==
  [n \in 1..(b.tail + QUEUE_DEPTH - b.head) % QUEUE_DEPTH |->
     b.queue[(b.head + n - 1) % QUEUE_DEPTH]]
PortsNow ==
  [id \in {buckets[k].id : k \in Live} |->
     LET b == buckets[CHOOSE k \in Live : buckets[k].id = id]
     IN [owner |-> b.owner, queue |-> QueueOf(b), handler |-> b.handler = Handler]]
Abstract == INSTANCE Ports WITH ports <- PortsNow, Capacity <- QUEUE_DEPTH - 1

(* Every call on the table is a call of the abstract ports with the same     *)
(* answer.                                                                  *)
ImplementsPorts == Abstract!Spec
============================================================================
