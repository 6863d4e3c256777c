---------------------------- MODULE BuddyProofs ----------------------------
(***************************************************************************)
(* Proof that the page allocator keeps every page in exactly one place, for  *)
(* every memory map, every set of reserved pages and every number of orders.  *)
(* What has to be added to PagesExact to make it inductive is that the free   *)
(* lists are well linked: alloc trusts head[o] and the links it reads.        *)
(* The second half proves that what the allocator answers is true.  To the     *)
(* first invariant it adds that the lists have no cycles, that blocks start at  *)
(* multiples of their sizes, and that no aligned run of free pages spans two   *)
(* blocks: a merge that stopped early would leave one.                        *)
(***************************************************************************)
EXTENDS Buddy, TLAPS, FiniteSetTheorems, NaturalsInduction

(* First-order reasoning suffices unless a step names another prover. *)
USE Zenon

Words == [next : Nat, prev : Nat, order : Orders]

ListOK ==
  /\ head \in [Orders -> Nat]
  /\ Heads \subseteq Nat \ {0}
  /\ node \in [Heads -> Words]
  /\ \A o \in Orders : head[o] # 0 =>
       head[o] \in Heads /\ node[head[o]].order = o /\ node[head[o]].prev = 0
  /\ \A a \in Heads : node[a].prev = 0 => head[node[a].order] = a
  /\ \A a \in Heads : LET n == node[a].next
                      IN n # 0 => n \in Heads /\ node[n].order = node[a].order /\ node[n].prev = a
  /\ \A a \in Heads : LET p == node[a].prev
                      IN p # 0 => p \in Heads /\ node[p].order = node[a].order /\ node[p].next = a

OpOK ==
  /\ op \in [call : {"idle", "split", "merge"}, addr : Nat, order : Orders, want : Orders]
  /\ op.call = "idle" => op = Idle
  /\ op.call = "split" => op.want <= op.order
  /\ op.call # "idle" => op.addr # 0

CursorOK ==
  /\ cursor \in (Nat \ {0}) \X Nat
  /\ cursor[1] \in DOMAIN Regions => cursor[2] >= RegionStart(cursor[1])

Inv == ListOK /\ OpOK /\ CursorOK /\ owned \subseteq Nat /\ PagesExact

-----------------------------------------------------------------------------
(* The size of a block: positive, and twice that of its halves. *)
LEMMA SizeFacts ==
  /\ \A o \in Orders : Size[o] \in Nat \ {0}
  /\ \A o \in Orders : o + 1 \in Orders => Size[o + 1] = Size[o] + Size[o]
  /\ 0 \in Orders /\ Size[0] = 1
BY SizeAssumption, SMT DEF Orders

(* push_front puts one block on a list and moves no other. *)
LEMMA PushList ==
  ASSUME ListOK, NEW o \in Orders, NEW a \in Nat \ {0}, a \notin Heads, push_front(o, a)
  PROVE  /\ ListOK'
         /\ Heads' = Heads \cup {a}
         /\ node'[a].order = o
         /\ \A b \in Heads : node'[b].order = node[b].order
<1> DEFINE h == head[o]
<1>1. /\ h \in Nat /\ 0 \notin Heads
      /\ h # 0 => h \in Heads /\ node[h].order = o /\ node[h].prev = 0
  BY DEF ListOK
<1>2. Heads' = Heads \cup {a}
  BY DEF push_front, Pushed, Heads
<1>3. /\ node'[a] = [next |-> h, prev |-> 0, order |-> o]
      /\ \A b \in Heads : b # h => node'[b] = node[b]
      /\ h \in Heads => node'[h] = [next |-> node[h].next, prev |-> a, order |-> node[h].order]
  BY DEF push_front, Pushed, Heads, Node, NoLink
<1>4. \A b \in Heads : /\ node[b] \in Words
                       /\ node'[b].order = node[b].order
                       /\ node'[b].next = node[b].next
                       /\ node'[b].prev = IF b = h THEN a ELSE node[b].prev
                       /\ node'[b] \in Words
  BY <1>3, SMT DEF ListOK, Words
<1>5. node'[a] \in Words
  BY <1>1, <1>3, SMT DEF Words
<1>6. node' \in [Heads' -> Words]
  <2>1. node' = [b \in Heads' |-> node'[b]]
    BY DEF push_front, Pushed, Heads
  <2> QED BY <2>1, <1>2, <1>4, <1>5
<1>7. head' = [head EXCEPT ![o] = a] /\ head' \in [Orders -> Nat]
  BY DEF push_front, ListOK
<1>8. \A q \in Orders : head'[q] # 0 =>
        head'[q] \in Heads' /\ node'[head'[q]].order = q /\ node'[head'[q]].prev = 0
  <2> SUFFICES ASSUME NEW q \in Orders, head'[q] # 0
               PROVE  head'[q] \in Heads' /\ node'[head'[q]].order = q /\ node'[head'[q]].prev = 0
    OBVIOUS
  <2>1. CASE q = o
    BY <2>1, <1>2, <1>3, <1>7, SMT DEF ListOK
  <2>2. CASE q # o
    <3>1. head'[q] = head[q] /\ head[q] \in Heads /\ node[head[q]].order = q /\ node[head[q]].prev = 0
      BY <2>2, <1>7, SMT DEF ListOK
    <3>2. head[q] # h
      BY <3>1, <1>1, <2>2
    <3> QED BY <3>1, <3>2, <1>2, <1>4
  <2> QED BY <2>1, <2>2
<1>9. \A b \in Heads' : node'[b].prev = 0 => head'[node'[b].order] = b
  <2> SUFFICES ASSUME NEW b \in Heads', node'[b].prev = 0 PROVE head'[node'[b].order] = b
    OBVIOUS
  <2>1. CASE b = a
    BY <2>1, <1>3, <1>7, SMT DEF ListOK
  <2>2. CASE b \in Heads
    <3>1. b # h /\ node[b].prev = 0
      BY <2>2, <1>4
    <3>2. head[node[b].order] = b
      BY <2>2, <3>1 DEF ListOK
    <3> QED BY <3>1, <3>2, <1>4, <1>7, <2>2 DEF ListOK, Words
  <2> QED BY <2>1, <2>2, <1>2
<1>10. \A b \in Heads' : LET n == node'[b].next
                         IN n # 0 => n \in Heads' /\ node'[n].order = node'[b].order /\ node'[n].prev = b
  <2> SUFFICES ASSUME NEW b \in Heads', node'[b].next # 0
               PROVE  /\ node'[b].next \in Heads'
                      /\ node'[node'[b].next].order = node'[b].order
                      /\ node'[node'[b].next].prev = b
    OBVIOUS
  <2>1. CASE b = a
    BY <2>1, <1>1, <1>2, <1>3, <1>4, SMT
  <2>2. CASE b \in Heads
    <3>1. /\ node[b].next \in Heads
          /\ node[node[b].next].order = node[b].order
          /\ node[node[b].next].prev = b
      BY <2>2, <1>4 DEF ListOK
    <3>2. node[b].next # h
      BY <3>1, <1>1, <2>2 DEF ListOK
    <3> QED BY <3>1, <3>2, <2>2, <1>2, <1>4
  <2> QED BY <2>1, <2>2, <1>2
<1>11. \A b \in Heads' : LET p == node'[b].prev
                         IN p # 0 => p \in Heads' /\ node'[p].order = node'[b].order /\ node'[p].next = b
  <2> SUFFICES ASSUME NEW b \in Heads', node'[b].prev # 0
               PROVE  /\ node'[b].prev \in Heads'
                      /\ node'[node'[b].prev].order = node'[b].order
                      /\ node'[node'[b].prev].next = b
    OBVIOUS
  <2>1. CASE b = a
    BY <2>1, <1>3, SMT
  <2>2. CASE b \in Heads /\ b = h
    <3>1. node'[b].prev = a /\ a \in Heads'
      BY <2>2, <1>2, <1>4
    <3>2. node'[b].order = o
      BY <2>2, <1>1, <1>4
    <3> QED BY <3>1, <3>2, <2>2, <1>3, SMT
  <2>3. CASE b \in Heads /\ b # h
    <3>1. /\ node[b].prev \in Heads
          /\ node[node[b].prev].order = node[b].order
          /\ node[node[b].prev].next = b
      BY <2>3, <1>4 DEF ListOK
    <3> QED BY <3>1, <2>3, <1>2, <1>4
  <2> QED BY <2>1, <2>2, <2>3, <1>2
<1>12. Heads' \subseteq Nat \ {0}
  BY <1>2, ZenonT(30) DEF ListOK
<1> QED
  BY <1>2, <1>3, <1>4, <1>6, <1>7, <1>8, <1>9, <1>10, <1>11, <1>12, SMT DEF ListOK

(* unlink takes one block off its list and moves no other; Pop does so at the  *)
(* head of a list, where the two are the same.                               *)
LEMMA UnlinkList ==
  ASSUME ListOK, NEW a \in Heads, unlink(node[a].order, a)
  PROVE  /\ ListOK'
         /\ Heads' = Heads \ {a}
         /\ \A b \in Heads \ {a} : node'[b].order = node[b].order
<1> DEFINE o == node[a].order
           n == node[a].next
           p == node[a].prev
<1>1. /\ o \in Orders /\ n \in Nat /\ p \in Nat /\ a # 0
      /\ n # 0 => n \in Heads /\ node[n].order = o /\ node[n].prev = a
      /\ p # 0 => p \in Heads /\ node[p].order = o /\ node[p].next = a
      /\ p = 0 => head[o] = a
  BY DEF ListOK, Words
<1>2. Heads' = Heads \ {a}
  BY DEF unlink, Heads
<1>3. \A b \in Heads \ {a} :
        /\ node'[b].order = node[b].order
        /\ node'[b].next = IF b = p THEN n ELSE node[b].next
        /\ node'[b].prev = IF b = n THEN p ELSE node[b].prev
  BY DEF unlink, Heads, Node
<1>4. \A b \in Heads \ {a} : node'[b] \in Words
  <2> SUFFICES ASSUME NEW b \in Heads \ {a} PROVE node'[b] \in Words
    OBVIOUS
  <2> DEFINE n2 == IF b = p THEN n ELSE node[b].next
             p2 == IF b = n THEN p ELSE node[b].prev
  <2>1. n2 \in Nat /\ p2 \in Nat /\ node[b].order \in Orders
    BY <1>1 DEF ListOK, Words
  <2>2. node'[b] = [next |-> n2, prev |-> p2, order |-> node[b].order]
    BY DEF unlink, Node
  <2> HIDE DEF n2, p2
  <2> QED BY <2>1, <2>2, SMT DEF Words
<1>5. node' \in [Heads' -> Words]
  <2>1. node' = [b \in Heads' |-> node'[b]]
    BY DEF unlink, Heads
  <2> QED BY <2>1, <1>2, <1>4
<1>6. n = a <=> p = a
  BY <1>1 DEF ListOK
<1>7. /\ head' = IF p # 0 THEN head ELSE [head EXCEPT ![o] = n]
      /\ head' \in [Orders -> Nat]
  BY <1>1 DEF unlink, NoLink, ListOK
<1>8. \A q \in Orders : head'[q] # 0 =>
        head'[q] \in Heads' /\ node'[head'[q]].order = q /\ node'[head'[q]].prev = 0
  <2> SUFFICES ASSUME NEW q \in Orders, head'[q] # 0
               PROVE  head'[q] \in Heads' /\ node'[head'[q]].order = q /\ node'[head'[q]].prev = 0
    OBVIOUS
  <2>1. CASE q = o /\ p = 0
    <3>1. head'[q] = n
      BY <2>1, <1>1, <1>7, ZenonT(30) DEF ListOK
    <3>2. n \in Heads \ {a} /\ n # 0
      BY <2>1, <3>1, <1>1, <1>6
    <3> QED BY <2>1, <3>1, <3>2, <1>1, <1>2, <1>3
  <2>2. CASE ~(q = o /\ p = 0)
    <3>1. /\ head'[q] = head[q] /\ head[q] \in Heads
          /\ node[head[q]].order = q /\ node[head[q]].prev = 0
      BY <2>2, <1>7, SMT DEF ListOK
    <3>2. head[q] # a
      BY <2>2, <3>1
    <3>3. head[q] # n
      BY <3>1, <1>1
    <3> QED BY <3>1, <3>2, <3>3, <1>2, <1>3, ZenonT(30)
  <2> QED BY <2>1, <2>2
<1>9. \A b \in Heads' : node'[b].prev = 0 => head'[node'[b].order] = b
  <2> SUFFICES ASSUME NEW b \in Heads', node'[b].prev = 0 PROVE head'[node'[b].order] = b
    OBVIOUS
  <2>0. b \in Heads \ {a}
    BY <1>2
  <2>1. CASE b = n
    <3>1. n # 0 /\ node'[b].prev = p
      BY <2>0, <2>1, <1>3 DEF ListOK
    <3>2. p = 0 /\ node'[b].order = o
      BY <2>0, <2>1, <3>1, <1>1, <1>3
    <3> QED BY <2>1, <3>2, <1>1, <1>7, ZenonT(30) DEF ListOK
  <2>2. CASE b # n
    <3>1. node[b].prev = 0 /\ node'[b].order = node[b].order
      BY <2>0, <2>2, <1>3
    <3>2. head[node[b].order] = b
      BY <3>1, <2>0 DEF ListOK
    <3>3. p = 0 => node[b].order # o
      BY <3>2, <2>0, <1>1
    <3>4. node[b].order \in Orders
      BY <2>0 DEF ListOK, Words
    <3> QED BY <3>1, <3>2, <3>3, <3>4, <1>7, ZenonT(30) DEF ListOK
  <2> QED BY <2>1, <2>2
<1>10. \A b \in Heads' : LET m == node'[b].next
                         IN m # 0 => m \in Heads' /\ node'[m].order = node'[b].order /\ node'[m].prev = b
  <2> SUFFICES ASSUME NEW b \in Heads', node'[b].next # 0
               PROVE  /\ node'[b].next \in Heads'
                      /\ node'[node'[b].next].order = node'[b].order
                      /\ node'[node'[b].next].prev = b
    OBVIOUS
  <2>0. b \in Heads \ {a} /\ b \in Nat \ {0}
    BY <1>2 DEF ListOK
  <2>1. CASE b = p
    <3>1. node'[b].next = n /\ node'[b].order = o /\ n \in Heads \ {a}
      BY <2>0, <2>1, <1>1, <1>3, <1>6
    <3> QED BY <2>0, <2>1, <3>1, <1>1, <1>2, <1>3
  <2>2. CASE b # p
    <3> DEFINE m == node[b].next
    <3>1. node'[b].next = m /\ node'[b].order = node[b].order
      BY <2>0, <2>2, <1>3
    <3>2. m \in Heads /\ node[m].order = node[b].order /\ node[m].prev = b
      BY <2>0, <3>1 DEF ListOK
    <3>3. m # a
      BY <3>2, <2>2
    <3>4. m # n
      BY <3>2, <1>1, <2>0 DEF ListOK
    <3> QED BY <3>1, <3>2, <3>3, <3>4, <1>2, <1>3, ZenonT(30)
  <2> QED BY <2>1, <2>2
<1>11. \A b \in Heads' : LET m == node'[b].prev
                         IN m # 0 => m \in Heads' /\ node'[m].order = node'[b].order /\ node'[m].next = b
  <2> SUFFICES ASSUME NEW b \in Heads', node'[b].prev # 0
               PROVE  /\ node'[b].prev \in Heads'
                      /\ node'[node'[b].prev].order = node'[b].order
                      /\ node'[node'[b].prev].next = b
    OBVIOUS
  <2>0. b \in Heads \ {a} /\ b \in Nat \ {0}
    BY <1>2 DEF ListOK
  <2>1. CASE b = n
    <3>1. node'[b].prev = p /\ node'[b].order = o /\ p \in Heads \ {a}
      BY <2>0, <2>1, <1>1, <1>3, <1>6
    <3> QED BY <2>0, <2>1, <3>1, <1>1, <1>2, <1>3
  <2>2. CASE b # n
    <3> DEFINE m == node[b].prev
    <3>1. node'[b].prev = m /\ node'[b].order = node[b].order
      BY <2>0, <2>2, <1>3
    <3>2. m \in Heads /\ node[m].order = node[b].order /\ node[m].next = b
      BY <2>0, <3>1 DEF ListOK
    <3>3. m # a
      BY <3>2, <2>2
    <3>4. m # p
      BY <3>2, <1>1, <2>0 DEF ListOK
    <3> QED BY <3>1, <3>2, <3>3, <3>4, <1>2, <1>3, ZenonT(30)
  <2> QED BY <2>1, <2>2
<1>12. Heads' \subseteq Nat \ {0}
  BY <1>2 DEF ListOK
<1> QED
  BY <1>2, <1>3, <1>5, <1>7, <1>8, <1>9, <1>10, <1>11, <1>12 DEF ListOK

LEMMA PopList ==
  ASSUME ListOK, NEW o \in Orders, head[o] # NoLink, Pop(o)
  PROVE  head[o] \in Heads /\ node[head[o]].order = o /\ unlink(o, head[o])
<1> DEFINE a == head[o]
           n == node[a].next
<1>1. a \in Heads /\ node[a].order = o /\ node[a].prev = 0 /\ 0 \notin Heads
  BY DEF ListOK, NoLink
<1>2. \A b \in Heads : node[b] \in Words /\ node[b] = Node(node[b].next, node[b].prev, node[b].order)
  BY SMT DEF ListOK, Words, Node
<1>3. \A b \in Heads \ {a} :
        Node(IF b = node[a].prev THEN n ELSE node[b].next,
             IF b = n THEN node[a].prev ELSE node[b].prev, node[b].order)
          = IF b = n THEN Node(node[b].next, NoLink, node[b].order) ELSE node[b]
  BY <1>1, <1>2 DEF Node, NoLink
<1>4. node' = [b \in Heads \ {a} |->
                 IF b = n THEN Node(node[b].next, NoLink, node[b].order) ELSE node[b]]
  BY DEF Pop
<1>5. head' = [head EXCEPT ![o] = n]
  BY DEF Pop
<1>6. node' = [b \in Heads \ {a} |->
                 Node(IF b = node[a].prev THEN n ELSE node[b].next,
                      IF b = n THEN node[a].prev ELSE node[b].prev, node[b].order)]
  BY <1>3, <1>4
<1> QED BY <1>1, <1>5, <1>6 DEF unlink, NoLink

-----------------------------------------------------------------------------
Disjoint == \A a, b \in Heads : a # b => FreeBlock(a) \cap FreeBlock(b) = {}

(* A block holds its first page and splits into two halves. *)
LEMMA BlockFacts ==
  /\ \A a \in Nat, o \in Orders : a \in Block(a, o) /\ Block(a, o) \subseteq Nat
  /\ \A a \in Nat, o \in Orders : o + 1 \in Orders =>
       /\ Block(a, o + 1) = Block(a, o) \cup Block(a + Size[o], o)
       /\ Block(a, o) \cap Block(a + Size[o], o) = {}
  /\ \A a \in Nat : Block(a, 0) = {a}
BY SizeFacts, SMT DEF Block

(* A merge may go one order up, a split one down. *)
LEMMA NextOrders ==
  /\ \A o \in Orders : MergeMore(o) => o + 1 \in Orders
  /\ \A o, w \in Orders : o > w => o - 1 \in Orders /\ (o - 1) + 1 = o
BY SizeAssumption, SMT DEF MergeMore, Orders

(* An operation in progress has a name of its own. *)
LEMMA NotIdle == op.call # "idle" => op # Idle
BY SMT DEF Idle

(* Every head is a page of its own block. *)
LEMMA HeadsFree == ASSUME ListOK PROVE Heads \subseteq FreeSet
BY BlockFacts, SMT DEF ListOK, Words, FreeSet, FreeBlock

(* A block pushed where no page was free adds exactly its pages. *)
LEMMA AddBlock ==
  ASSUME ListOK, Disjoint, NEW o \in Orders, NEW a \in Nat \ {0},
         push_front(o, a), FreeSet \cap Block(a, o) = {}
  PROVE  ListOK' /\ Disjoint' /\ FreeSet' = FreeSet \cup Block(a, o)
<1>1. a \notin Heads
  BY HeadsFree, BlockFacts
<1>2. /\ ListOK' /\ Heads' = Heads \cup {a} /\ node'[a].order = o
      /\ \A b \in Heads : node'[b].order = node[b].order
  BY <1>1, PushList
<1>3. /\ \A b \in Heads : FreeBlock(b)' = FreeBlock(b)
      /\ FreeBlock(a)' = Block(a, o)
  BY <1>2 DEF FreeBlock
<1>4. \A b \in Heads : FreeBlock(b) \subseteq FreeSet
  BY DEF FreeSet
<1>5. FreeSet' = FreeSet \cup Block(a, o)
  <2>1. \A x : x \in FreeSet' <=> \E b \in Heads' : x \in FreeBlock(b)'
    BY DEF FreeSet
  <2>2. \A x : x \in FreeSet <=> \E b \in Heads : x \in FreeBlock(b)
    BY DEF FreeSet
  <2>3. \A x : (\E b \in Heads' : x \in FreeBlock(b)')
                 <=> (\E b \in Heads : x \in FreeBlock(b)) \/ x \in Block(a, o)
    <3> HIDE DEF FreeBlock, Heads
    <3> QED BY <1>2, <1>3
  <2> QED BY <2>1, <2>2, <2>3
<1>6. Disjoint'
  <2> SUFFICES ASSUME NEW b \in Heads', NEW c \in Heads', b # c
               PROVE  FreeBlock(b)' \cap FreeBlock(c)' = {}
    BY DEF Disjoint
  <2>1. CASE b = a
    BY <2>1, <1>2, <1>3, <1>4, ZenonT(30)
  <2>2. CASE c = a
    BY <2>2, <1>2, <1>3, <1>4, ZenonT(30)
  <2>3. CASE b # a /\ c # a
    BY <2>3, <1>2, <1>3 DEF Disjoint
  <2> QED BY <2>1, <2>2, <2>3
<1> QED BY <1>2, <1>5, <1>6

(* A block taken off its list takes exactly its pages. *)
LEMMA DropBlock ==
  ASSUME ListOK, Disjoint, NEW a \in Heads, unlink(node[a].order, a)
  PROVE  /\ ListOK' /\ Disjoint'
         /\ FreeSet' = FreeSet \ FreeBlock(a)
         /\ FreeBlock(a) \subseteq FreeSet
<1>1. /\ ListOK' /\ Heads' = Heads \ {a}
      /\ \A b \in Heads \ {a} : node'[b].order = node[b].order
  BY UnlinkList
<1>2. \A b \in Heads \ {a} : FreeBlock(b)' = FreeBlock(b)
  BY <1>1 DEF FreeBlock
<1>3. FreeSet' = UNION {FreeBlock(b) : b \in Heads \ {a}}
  BY <1>1, <1>2 DEF FreeSet
<1>4. \A b \in Heads \ {a} : FreeBlock(b) \cap FreeBlock(a) = {}
  BY DEF Disjoint
<1>5. FreeSet' = FreeSet \ FreeBlock(a)
  BY <1>3, <1>4 DEF FreeSet
<1>6. Disjoint'
  BY <1>1, <1>2 DEF Disjoint
<1> QED BY <1>1, <1>5, <1>6 DEF FreeSet

(* What does not move the boot cursor leaves the managed pages alone, and what  *)
(* touches no list leaves the free pages alone.                              *)
LEMMA Frames ==
  /\ UNCHANGED cursor => Managed' = Managed /\ (CursorOK => CursorOK')
  /\ UNCHANGED <<head, node>> =>
       FreeSet' = FreeSet /\ (ListOK => ListOK') /\ (Disjoint => Disjoint')
<1>1. UNCHANGED cursor => Managed' = Managed /\ (CursorOK => CursorOK')
  BY DEF Managed, Walked, CursorOK
<1>2. UNCHANGED <<head, node>> =>
       FreeSet' = FreeSet /\ (ListOK => ListOK') /\ (Disjoint => Disjoint')
  BY ZenonT(30) DEF FreeSet, FreeBlock, Heads, ListOK, Disjoint
<1> QED BY <1>1, <1>2

(* The regions of the map are intervals of pages above the reserved low memory. *)
LEMMA RegionFacts ==
  /\ DOMAIN Regions = 1..Len(Regions) /\ Len(Regions) \in Nat
  /\ \A i \in DOMAIN Regions : RegionStart(i) \in Nat \ {0} /\ RegionEnd(i) \in Nat
BY MapAssumption, SMT DEF RegionStart, RegionEnd

-----------------------------------------------------------------------------
(* The boot walk: each step keeps Inv. *)
LEMMA BootRegionInv == ASSUME Inv, BootRegion PROVE Inv'
<1> DEFINE i == cursor[1]
<1>1. i \in DOMAIN Regions /\ cursor[2] >= RegionEnd(i) /\ cursor' = AtBoot(i + 1)
      /\ cursor[2] \in Nat /\ i \in Nat \ {0}
  BY RegionFacts, SMT DEF BootRegion, Booting, Inv, CursorOK
<1>2. cursor'[1] = i + 1 /\ (i + 1 \in DOMAIN Regions => cursor'[2] = RegionStart(i + 1))
  BY <1>1 DEF AtBoot
<1>3. CursorOK'
  BY <1>1, <1>2, RegionFacts, SMT DEF CursorOK, AtBoot
<1>4. \A p : Walked(p)' <=> Walked(p)
  <2> SUFFICES ASSUME NEW p, NEW j \in DOMAIN Regions, p \in Usable(j)
               PROVE  (j < i + 1 \/ (j = i + 1 /\ p < cursor'[2]))
                        <=> (j < i \/ (j = i /\ p < cursor[2]))
    BY <1>2 DEF Walked
  <2>1. p \in Int /\ RegionStart(j) <= p /\ p < RegionEnd(j) /\ j \in Nat
    BY RegionFacts, SMT DEF Usable
  <2>2. PICK k, x, y \in Nat : k = i /\ x = cursor[2] /\ y = RegionStart(j)
    BY <1>1, RegionFacts
  <2>3. j = k + 1 => cursor'[2] = y
    BY <1>2, <2>2
  <2>4. j = k => p < x
    <3>1. CASE j = k
      <4>1. p < RegionEnd(i) /\ RegionEnd(i) \in Nat /\ x >= RegionEnd(i)
        BY <2>1, <2>2, <3>1, <1>1, RegionFacts
      <4> QED BY <2>1, <4>1, SMT
    <3> QED BY <3>1
  <2>5. (j < k + 1 \/ (j = k + 1 /\ p < cursor'[2])) <=> (j < k \/ (j = k /\ p < x))
    BY <2>1, <2>2, <2>3, <2>4, SMT
  <2> QED BY <2>2, <2>5
<1>5. Managed' = Managed
  BY <1>4 DEF Managed
<1>6. UNCHANGED <<head, node, op, owned>>
  BY DEF BootRegion
<1>7. Held' = Held /\ (OpOK => OpOK')
  BY <1>6 DEF Held, OpOK
<1> QED BY <1>3, <1>5, <1>6, <1>7, Frames DEF Inv, PagesExact, Disjoint

LEMMA BootSkipInv == ASSUME Inv, BootSkip PROVE Inv'
<1> DEFINE i == cursor[1]
           a == cursor[2]
<1>1. i \in DOMAIN Regions /\ a \in Nat /\ i \in Nat \ {0} /\ cursor' = <<i, a + 1>>
      /\ a \in Kept
  <2>1. i \in Nat \ {0} /\ a \in Nat /\ i \in DOMAIN Regions /\ cursor' = <<i, a + 1>>
    BY RegionFacts, SMT DEF BootSkip, Booting, Inv, CursorOK
  <2>2. Block(a, 0) \cap Kept # {}
    BY DEF BootSkip, overlaps_reserved
  <2> QED BY <2>1, <2>2, BlockFacts, SMT
<1>2. CursorOK'
  BY <1>1, RegionFacts, SMT DEF Inv, CursorOK
<1>3. \A p \in Pages \ Kept : Walked(p)' <=> Walked(p)
  <2> SUFFICES ASSUME NEW p \in Pages \ Kept, NEW j \in DOMAIN Regions, p \in Usable(j)
               PROVE  (j < i \/ (j = i /\ p < a + 1)) <=> (j < i \/ (j = i /\ p < a))
    BY <1>1 DEF Walked
  <2>1. p \in Int
    BY RegionFacts, SMT DEF Usable
  <2> QED BY <2>1, <1>1, SMT
<1>4. Managed' = Managed
  BY <1>3 DEF Managed
<1>5. UNCHANGED <<head, node, op, owned>>
  BY DEF BootSkip
<1>6. Held' = Held /\ (OpOK => OpOK')
  BY <1>5 DEF Held, OpOK
<1> QED BY <1>2, <1>4, <1>5, <1>6, Frames DEF Inv, PagesExact, Disjoint

LEMMA BootFreeInv == ASSUME Inv, NEW o \in Orders, BootFree(o) PROVE Inv'
<1> DEFINE i == cursor[1]
           a == cursor[2]
<1>1. /\ i \in DOMAIN Regions /\ a \in Nat /\ i \in Nat \ {0} /\ a >= RegionStart(i)
      /\ cursor' = <<i, a + Size[o]>>
      /\ a + Size[o] <= RegionEnd(i)
      /\ Block(a, o) \cap Kept = {}
      /\ op = Idle /\ op' = Merge(a, o) /\ UNCHANGED <<head, node, owned>>
  BY RegionFacts, SMT DEF BootFree, Booting, Inv, CursorOK, BootFits, overlaps_reserved, StartFree
<1>2. Size[o] \in Nat \ {0} /\ a # 0
  BY <1>1, SizeFacts, RegionFacts, SMT
<1>3. CursorOK'
  BY <1>1, <1>2, RegionFacts, SMT DEF CursorOK
<1>4. OpOK'
  BY <1>1, <1>2, SizeFacts DEF OpOK, Merge
<1>5. Held = {} /\ Held' = Block(a, o)
  BY <1>1 DEF Held, Merge, Idle
<1>6. Block(a, o) \subseteq Usable(i)
  BY <1>1, <1>2, RegionFacts, SMT DEF Block, Usable
<1>7. \A p \in Pages \ Kept : Walked(p)' <=> Walked(p) \/ p \in Block(a, o)
  <2> SUFFICES ASSUME NEW p \in Pages \ Kept PROVE Walked(p)' <=> Walked(p) \/ p \in Block(a, o)
    OBVIOUS
  <2>1. \A j \in DOMAIN Regions : p \in Usable(j) =>
          p \in Int /\ RegionStart(j) <= p
    BY RegionFacts, SMT DEF Usable
  <2>2. Walked(p)' => Walked(p) \/ p \in Block(a, o)
    BY <2>1, <1>1, <1>2, SMT DEF Walked, Block
  <2>3. Walked(p) => Walked(p)'
    BY <2>1, <1>1, <1>2, SMT DEF Walked
  <2>4. p \in Block(a, o) => Walked(p)'
    BY <1>1, <1>2, <1>6, SMT DEF Walked, Block
  <2> QED BY <2>2, <2>3, <2>4
<1>8. \A p \in Block(a, o) : ~Walked(p)
  <2> SUFFICES ASSUME NEW p \in Block(a, o), NEW j \in DOMAIN Regions, p \in Usable(j),
                      j < i \/ (j = i /\ p < a)
               PROVE  FALSE
    BY DEF Walked
  <2>1. p \in Usable(i) /\ p \in Nat /\ p >= a
    BY <1>1, <1>2, <1>6, SMT DEF Block
  <2>2. j = i
    BY <2>1, <1>1, MapAssumption
  <2> QED BY <2>1, <2>2, <1>1, SMT
<1>9. Managed' = Managed \cup Block(a, o) /\ Managed \cap Block(a, o) = {}
  BY <1>1, <1>6, <1>7, <1>8 DEF Managed, Pages
<1> QED
  BY <1>1, <1>3, <1>4, <1>5, <1>9, Frames DEF Inv, PagesExact, Disjoint

-----------------------------------------------------------------------------
(* The calls of the running system: each step keeps Inv. *)
LEMMA FreeInv == ASSUME Inv, NEW a \in owned, NEW o \in Orders, free(a, o) PROVE Inv'
<1>1. CASE Refused(a, o)
  <2>1. UNCHANGED <<head, node, op, owned, cursor>>
    BY <1>1 DEF free
  <2>2. Held' = Held /\ (OpOK => OpOK')
    BY <2>1 DEF Held, OpOK
  <2> QED BY <2>1, <2>2, Frames DEF Inv, PagesExact, Disjoint
<1>2. CASE ~Refused(a, o)
  <2>1. /\ op = Idle /\ op' = Merge(a, o) /\ UNCHANGED <<head, node, cursor>>
        /\ Block(a, o) \subseteq owned /\ owned' = owned \ Block(a, o)
        /\ a \in Nat /\ a # 0
    BY <1>2 DEF free, Ready, StartFree, Refused, Inv
  <2>2. OpOK'
    BY <2>1, SizeFacts DEF OpOK, Merge
  <2>3. Held = {} /\ Held' = Block(a, o)
    BY <2>1 DEF Held, Merge, Idle
  <2> QED BY <2>1, <2>2, <2>3, Frames DEF Inv, PagesExact, Disjoint
<1> QED BY <1>1, <1>2

LEMMA MergeStepInv == ASSUME Inv, MergeStep PROVE Inv'
<1> DEFINE o == op.order
           a == op.addr
           b == buddy(a, o)
<1>1. /\ op.call = "merge" /\ o \in Orders /\ a \in Nat /\ a # 0 /\ o + 1 \in Orders
      /\ b \in Heads /\ node[b].order = o /\ unlink(node[b].order, b)
      /\ op' = Merge(lower(a, b), o + 1) /\ UNCHANGED <<owned, cursor>>
  <2>1. op.call = "merge" /\ o \in Orders /\ a \in Nat \ {0}
    BY DEF MergeStep, Inv, OpOK
  <2> QED BY <2>1, NextOrders DEF MergeStep, try_remove, head_bit
<1>2. /\ ListOK' /\ Disjoint'
      /\ FreeSet' = FreeSet \ Block(b, o)
      /\ Block(b, o) \subseteq FreeSet
  <2>1. FreeBlock(b) = Block(b, o)
    BY <1>1 DEF FreeBlock
  <2>2. ListOK /\ Disjoint
    BY DEF Inv, PagesExact, Disjoint
  <2> HIDE DEF b
  <2> QED BY <1>1, <2>1, <2>2, DropBlock
<1>3. b \in Nat \ {0}
  BY <1>1 DEF Inv, ListOK
<1>4. Block(lower(a, b), o + 1) = Block(a, o) \cup Block(b, o) /\ lower(a, b) \in Nat \ {0}
  <2>1. CASE b = a + Size[o]
    <3>1. lower(a, b) = a
      BY <2>1, <1>1, SizeFacts, SMT DEF lower
    <3> QED BY <2>1, <3>1, <1>1, BlockFacts, SMT
  <2>2. CASE b = a - Size[o]
    <3>1. lower(a, b) = b /\ a = b + Size[o]
      BY <2>2, <1>1, <1>3, SizeFacts, SMT DEF lower
    <3> QED BY <3>1, <1>1, <1>3, BlockFacts, SMT
  <2> QED BY <2>1, <2>2 DEF buddy
<1>5. Held = Block(a, o) /\ Held' = Block(a, o) \cup Block(b, o)
  BY <1>1, <1>4, SMT DEF Held, Idle, Merge
<1>6. OpOK'
  BY <1>1, <1>4, SizeFacts DEF OpOK, Merge
<1> QED BY <1>1, <1>2, <1>5, <1>6, Frames DEF Inv, PagesExact, Disjoint

LEMMA MergeEndInv == ASSUME Inv, MergeEnd PROVE Inv'
<1>1. /\ op.call = "merge" /\ op.order \in Orders /\ op.addr \in Nat \ {0}
      /\ push_front(op.order, op.addr) /\ op' = Idle /\ UNCHANGED <<owned, cursor>>
  BY DEF MergeEnd, Inv, OpOK
<1>2. Held = Block(op.addr, op.order) /\ Held' = {}
  BY <1>1, SMT DEF Held, Idle
<1>3. ListOK' /\ Disjoint' /\ FreeSet' = FreeSet \cup Block(op.addr, op.order)
  BY <1>1, <1>2, AddBlock DEF Inv, PagesExact, Disjoint
<1>4. OpOK'
  BY <1>1, SizeFacts DEF OpOK, Idle
<1> QED BY <1>1, <1>2, <1>3, <1>4, Frames DEF Inv, PagesExact, Disjoint

(* Taking a block off a list for a split keeps Inv: its pages move from the     *)
(* free set to the call.                                                     *)
LEMMA TakeInv ==
  ASSUME Inv, op = Idle, NEW a \in Heads, NEW want \in Orders, want <= node[a].order,
         unlink(node[a].order, a), op' = Split(a, node[a].order, want), UNCHANGED <<owned, cursor>>
  PROVE  Inv'
<1>1. /\ ListOK' /\ Disjoint'
      /\ FreeSet' = FreeSet \ FreeBlock(a)
      /\ FreeBlock(a) \subseteq FreeSet
  BY DropBlock DEF Inv, PagesExact, Disjoint
<1>2. a \in Nat \ {0} /\ node[a].order \in Orders
  BY DEF Inv, ListOK, Words
<1>3. Held = {} /\ Held' = FreeBlock(a)
  BY DEF Held, Split, Idle, FreeBlock
<1>4. OpOK'
  BY <1>2 DEF OpOK, Split
<1> QED BY <1>1, <1>3, <1>4, Frames DEF Inv, PagesExact, Disjoint

LEMMA AllocInv == ASSUME Inv, NEW want \in Orders, alloc_untracked(want) PROVE Inv'
<1>0. op = Idle /\ UNCHANGED <<owned, cursor>>
  BY DEF alloc_untracked, Ready
<1>1. ASSUME NEW o \in want..MAX_ORDER - 1, head[o] # NoLink, Pop(o), op' = Split(head[o], o, want)
      PROVE  Inv'
  <2>1. o \in Orders /\ want <= o
    BY SizeAssumption, SMT DEF Orders
  <2>2. head[o] \in Heads /\ node[head[o]].order = o /\ unlink(o, head[o])
    BY <1>1, <2>1, PopList DEF Inv
  <2> DEFINE a == head[o]
  <2>3. a \in Heads /\ node[a].order = o /\ unlink(node[a].order, a) /\ op' = Split(a, node[a].order, want)
    BY <1>1, <2>2
  <2> HIDE DEF a
  <2> QED BY <1>0, <2>1, <2>3, TakeInv
<1>2. ASSUME UNCHANGED <<head, node, op>> PROVE Inv'
  <2>1. Held' = Held /\ (OpOK => OpOK')
    BY <1>2 DEF Held, OpOK
  <2> QED BY <1>0, <1>2, <2>1, Frames DEF Inv, PagesExact, Disjoint
<1> QED BY <1>1, <1>2 DEF alloc_untracked

LEMMA AllocBelowInv ==
  ASSUME Inv, NEW want \in Orders, NEW limit, alloc_below_untracked(want, limit) PROVE Inv'
<1>0. op = Idle /\ UNCHANGED <<owned, cursor>>
  BY DEF alloc_below_untracked, Ready
<1>1. ASSUME NEW o \in want..MAX_ORDER - 1, NEW a \in Below(o, want, limit),
             unlink(o, a), op' = Split(a, o, want)
      PROVE  Inv'
  <2>1. a \in Heads /\ node[a].order = o /\ want <= o
    BY SizeAssumption, SMT DEF Below, Orders
  <2> QED BY <1>0, <1>1, <2>1, TakeInv
<1>2. ASSUME UNCHANGED <<head, node, op>> PROVE Inv'
  <2>1. Held' = Held /\ (OpOK => OpOK')
    BY <1>2 DEF Held, OpOK
  <2> QED BY <1>0, <1>2, <2>1, Frames DEF Inv, PagesExact, Disjoint
<1> QED BY <1>1, <1>2 DEF alloc_below_untracked

LEMMA SplitStepInv == ASSUME Inv, SplitStep PROVE Inv'
<1> DEFINE a == op.addr
           o == op.order - 1
           u == a + Size[o]
<1>1. /\ op.call = "split" /\ o \in Orders /\ o + 1 = op.order /\ o + 1 \in Orders
      /\ a \in Nat \ {0} /\ op.want \in Orders /\ op.want <= o
      /\ op' = Split(a, o, op.want) /\ push_front(o, u) /\ UNCHANGED <<owned, cursor>>
  <2>1. /\ op.call = "split" /\ op.order > op.want
        /\ op' = Split(a, o, op.want) /\ push_front(o, u) /\ UNCHANGED <<owned, cursor>>
    BY DEF SplitStep, UpperHalf
  <2>2. op.order \in Orders /\ op.want \in Orders /\ a \in Nat \ {0}
    BY <2>1 DEF Inv, OpOK
  <2>3. MAX_ORDER \in Nat
    BY SizeAssumption
  <2>4. o \in Orders /\ o + 1 = op.order /\ op.want <= o
    BY <2>1, <2>2, <2>3, SMT DEF Orders
  <2> QED BY <2>1, <2>2, <2>4
<1>2. u \in Nat \ {0}
  BY <1>1, SizeFacts, SMT
<1>3. /\ Held = Block(a, o) \cup Block(u, o)
      /\ Block(a, o) \cap Block(u, o) = {}
      /\ Held' = Block(a, o)
  BY <1>1, BlockFacts, SMT DEF Held, Idle, Split
<1>4. ListOK' /\ Disjoint' /\ FreeSet' = FreeSet \cup Block(u, o)
  <2>1. FreeSet \cap Block(u, o) = {}
    BY <1>3 DEF Inv, PagesExact
  <2>2. ListOK /\ Disjoint
    BY DEF Inv, PagesExact, Disjoint
  <2> HIDE DEF u, o
  <2> QED BY <1>1, <1>2, <2>1, <2>2, AddBlock
<1>5. OpOK'
  BY <1>1 DEF OpOK, Split
<1> QED BY <1>1, <1>3, <1>4, <1>5, Frames DEF Inv, PagesExact, Disjoint

LEMMA SplitEndInv == ASSUME Inv, SplitEnd PROVE Inv'
<1>1. /\ op.call = "split" /\ op.order \in Orders /\ op.addr \in Nat /\ op' = Idle
      /\ owned' = owned \cup Block(op.addr, op.order) /\ UNCHANGED <<head, node, cursor>>
  BY DEF SplitEnd, Inv, OpOK
<1>2. Held = Block(op.addr, op.order) /\ Held' = {}
  BY <1>1, SMT DEF Held, Idle
<1>3. OpOK' /\ owned' \subseteq Nat
  BY <1>1, SizeFacts, BlockFacts DEF OpOK, Idle, Inv
<1> QED BY <1>1, <1>2, <1>3, Frames DEF Inv, PagesExact, Disjoint

LEMMA InitInv == ASSUME Init PROVE Inv
<1>1. Heads = {} /\ FreeSet = {} /\ Held = {} /\ owned = {}
  BY DEF Init, Heads, FreeSet, Held
<1>2. CursorOK /\ \A p : ~Walked(p)
  <2>1. cursor[1] = 1 /\ (1 \in DOMAIN Regions => cursor[2] = RegionStart(1))
        /\ cursor \in (Nat \ {0}) \X Nat
    BY RegionFacts, SMT DEF Init, AtBoot
  <2>2. \A p, j : j \in DOMAIN Regions /\ p \in Usable(j) => p \in Int /\ p >= RegionStart(j) /\ j >= 1
    BY RegionFacts, SMT DEF Usable
  <2> QED BY <2>1, <2>2, RegionFacts, SMT DEF CursorOK, Walked
<1>3. ListOK
  BY <1>1 DEF Init, ListOK, NoLink
<1>4. OpOK
  BY SizeFacts DEF Init, OpOK, Idle
<1> QED BY <1>1, <1>2, <1>3, <1>4 DEF Inv, PagesExact, Managed

(* Every step keeps Inv. *)
LEMMA InvStep == ASSUME Inv, [Next]_vars PROVE Inv'
<1>1. CASE UNCHANGED vars
  <2>1. UNCHANGED <<head, node, op, owned, cursor>>
    BY <1>1 DEF vars
  <2>2. Held' = Held /\ (OpOK => OpOK')
    BY <2>1 DEF Held, OpOK
  <2> QED BY <2>1, <2>2, Frames DEF Inv, PagesExact, Disjoint
<1>2. CASE Next
  BY <1>2, BootRegionInv, BootSkipInv, BootFreeInv, FreeInv, MergeStepInv, MergeEndInv,
     AllocInv, AllocBelowInv, SplitStepInv, SplitEndInv DEF Next
<1> QED BY <1>1, <1>2

(* For every memory map and every number of orders, every usable page is always *)
(* in exactly one place: no page is handed out twice and none is lost.          *)
THEOREM EveryPageInOnePlace == Spec => []PagesExact
<1>1. Init => Inv
  BY InitInv
<1>2. Inv /\ [Next]_vars => Inv'
  BY InvStep
<1>3. Inv => PagesExact
  BY DEF Inv
<1> QED BY <1>1, <1>2, <1>3, PTL DEF Spec

-----------------------------------------------------------------------------
(* An aligned address is a multiple of its block's size. *)
Multiple(a, s) == \E k \in Nat : a = k * s

(* A set of numbers that is not empty has a least one. *)
LEMMA LeastNumber ==
  ASSUME NEW T \in SUBSET Nat, T # {} PROVE \E x \in T : \A y \in T : x <= y
<1> DEFINE R == {ss \in Nat \X Nat : ss[1] < ss[2]}
<1>1. IsWellFoundedOn(R, Nat)
  BY NatLessThanWellFounded DEF OpToRel
<1>2. \E x \in T : \A y \in T : ~(<<y, x>> \in R)
  <2> HIDE DEF R
  <2> QED BY <1>1, WFMin
<1>3. PICK x \in T : \A y \in T : ~(<<y, x>> \in R)
  BY <1>2
<1>4. ASSUME NEW y \in T PROVE x <= y
  <2>1. <<y, x>> \in Nat \X Nat /\ <<y, x>>[1] = y /\ <<y, x>>[2] = x
    OBVIOUS
  <2> QED BY <1>3, <2>1, SMT
<1> QED BY <1>4

(* The size of a block divides the size of every larger one. *)
LEMMA SizeDivides ==
  ASSUME NEW q \in Orders, NEW o \in Orders, q <= o
  PROVE  \E c \in Nat \ {0} : Size[o] = c * Size[q]
<1> DEFINE Bad == {n \in Orders : q <= n /\ ~\E c \in Nat \ {0} : Size[n] = c * Size[q]}
<1>1. Bad \in SUBSET Nat /\ q \in Nat
  BY SizeAssumption, SMT DEF Orders
<1>2. SUFFICES ASSUME Bad # {} PROVE FALSE
  OBVIOUS
<1>3. PICK n \in Bad : \A m \in Bad : n <= m
  <2> HIDE DEF Bad
  <2> QED BY <1>1, <1>2, LeastNumber
<1>4. n # q
  <2>1. Size[q] = 1 * Size[q]
    BY SizeFacts, SMT
  <2> QED BY <1>3, <2>1, SMT
<1>5. n - 1 \in Orders /\ q <= n - 1 /\ n = (n - 1) + 1 /\ n \in Orders /\ n - 1 < n
  BY <1>1, <1>3, <1>4, SizeAssumption, SMT DEF Orders
<1>6. n - 1 \notin Bad
  <2>1. n \in Nat
    BY <1>1, <1>3
  <2> HIDE DEF Bad
  <2> QED BY <1>3, <2>1, SMT
<1>7. PICK c \in Nat \ {0} : Size[n - 1] = c * Size[q]
  BY <1>5, <1>6
<1>8. Size[n] = Size[n - 1] + Size[n - 1] /\ Size[q] \in Nat
  BY <1>5, SizeFacts
<1>9. Size[n] = (2 * c) * Size[q] /\ 2 * c \in Nat \ {0}
  BY <1>7, <1>8, SMT
<1> QED BY <1>3, <1>9

(* Address arithmetic: the remainder is 0 exactly for multiples. *)
LEMMA RemainderZero ==
  ASSUME NEW a \in Nat, NEW s \in Nat \ {0}
  PROVE  a % s = 0 <=> Multiple(a, s)
<1>1. a % s = 0 => a = (a \div s) * s /\ a \div s \in Nat
  BY SMT
<1>2. ASSUME NEW k \in Nat, a = k * s PROVE a % s = 0
  BY <1>2, SMT
<1> QED BY <1>1, <1>2 DEF Multiple

LEMMA TimesLess ==
  ASSUME NEW u \in Int, NEW v \in Int, NEW s \in Nat \ {0}, u * s < v * s
  PROVE  u < v
<1>1. SUFFICES ASSUME u >= v PROVE u * s >= v * s
  BY SMT
<1>2. (u - v) * s >= 0
  BY <1>1, SMT
<1> QED BY <1>2, SMT

(* Aligned blocks that share a page are nested, and the larger one holds the     *)
(* smaller one's buddy too.                                                  *)
LEMMA Nested ==
  ASSUME NEW a \in Nat, NEW o \in Orders, NEW x \in Nat, NEW q \in Orders, o <= q,
         Multiple(a, Size[o]), Multiple(x, Size[q]), Block(a, o) \cap Block(x, q) # {}
  PROVE  x <= a /\ a + Size[o] <= x + Size[q]
<1>1. PICK m \in Nat : a = m * Size[o]
  BY DEF Multiple
<1>2. PICK k \in Nat : x = k * Size[q]
  BY DEF Multiple
<1>3. PICK c \in Nat \ {0} : Size[q] = c * Size[o]
  BY SizeDivides
<1> DEFINE s == Size[o]
<1>4. s \in Nat \ {0} /\ Size[q] \in Nat \ {0}
  BY SizeFacts
<1>5. PICK p \in Int : a <= p /\ p < a + s /\ x <= p /\ p < x + Size[q]
  BY <1>4, SMT DEF Block
<1>6. x = (k * c) * s /\ x + Size[q] = (k * c + c) * s /\ a + s = (m + 1) * s
  BY <1>1, <1>2, <1>3, <1>4, SMT
<1>7. m * s < (k * c + c) * s /\ (k * c) * s < (m + 1) * s
  BY <1>1, <1>4, <1>5, <1>6, SMT
<1>8. k * c \in Nat /\ k * c + c \in Nat /\ m + 1 \in Nat
  BY SMT
<1>9. m < k * c + c /\ k * c < m + 1
  <2> DEFINE kc == k * c
  <2> HIDE DEF s, kc
  <2> QED BY <1>4, <1>7, <1>8, TimesLess, SMT DEF kc
<1>10. (m + 1) * s <= (k * c + c) * s /\ (k * c) * s <= m * s
  <2> DEFINE kc == k * c
  <2>1. kc \in Nat /\ kc <= m /\ m + 1 <= kc + c
    BY <1>8, <1>9, SMT
  <2> HIDE DEF kc
  <2>2. (kc + c - (m + 1)) * s >= 0 /\ (m - kc) * s >= 0
    BY <2>1, <1>4, SMT
  <2>3. (m + 1) * s <= (kc + c) * s /\ kc * s <= m * s
    BY <2>1, <2>2, <1>4, SMT
  <2> QED BY <2>3 DEF kc
<1> QED BY <1>1, <1>6, <1>10

LEMMA EvenOrOdd == ASSUME NEW k \in Nat PROVE \E j \in Nat : k = 2 * j \/ k = 2 * j + 1
<1>1. k \div 2 \in Nat
  BY SMT
<1>2. k = 2 * (k \div 2) + (k % 2)
  BY SMT
<1>3. k % 2 = 0 \/ k % 2 = 1
  BY SMT
<1> QED BY <1>1, <1>2, <1>3, SMT

(* The buddy of an aligned block is aligned, and the two make an aligned block of *)
(* the next order.                                                           *)
LEMMA BuddyFacts ==
  ASSUME NEW a \in Nat, NEW o \in Orders, o + 1 \in Orders, Multiple(a, Size[o])
  PROVE  /\ buddy(a, o) \in Nat /\ Multiple(buddy(a, o), Size[o])
         /\ lower(a, buddy(a, o)) \in Nat /\ Multiple(lower(a, buddy(a, o)), Size[o + 1])
         /\ Block(lower(a, buddy(a, o)), o + 1) = Block(a, o) \cup Block(buddy(a, o), o)
         /\ Block(a, o) \cap Block(buddy(a, o), o) = {}
<1> DEFINE s == Size[o]
           b == buddy(a, o)
<1>1. s \in Nat \ {0} /\ Size[o + 1] = 2 * s /\ 2 * s \in Nat \ {0}
  BY SizeFacts, SMT
<1>2. PICK k \in Nat : a = k * s
  BY DEF Multiple
<1>3. CASE a % (2 * s) = 0
  <2>1. b = a + s /\ b = (k + 1) * s /\ k + 1 \in Nat
    <3>1. b = a + s
      BY <1>3 DEF buddy
    <3>2. k * s + s = (k + 1) * s
      BY <1>1, SMT
    <3> QED BY <1>2, <3>1, <3>2, SMT
  <2>2. lower(a, b) = a
    BY <1>1, <2>1, SMT DEF lower
  <2>3. Multiple(a, 2 * s)
    <3> DEFINE t == 2 * s
    <3>1. t \in Nat \ {0} /\ a % t = 0
      BY <1>1, <1>3
    <3> HIDE DEF t
    <3>2. Multiple(a, t)
      BY <3>1, RemainderZero
    <3> QED BY <3>2 DEF t
  <2>4. Multiple(b, s)
    BY <2>1 DEF Multiple
  <2>5. Block(a, o + 1) = Block(a, o) \cup Block(b, o) /\ Block(a, o) \cap Block(b, o) = {}
    BY <2>1, BlockFacts
  <2> QED BY <1>1, <2>1, <2>2, <2>3, <2>4, <2>5, SMT
<1>4. CASE a % (2 * s) # 0
  <2>1. ~Multiple(a, 2 * s)
    <3> DEFINE t == 2 * s
    <3>1. t \in Nat \ {0} /\ a % t # 0
      BY <1>1, <1>4
    <3> HIDE DEF t
    <3>2. ~Multiple(a, t)
      BY <3>1, RemainderZero
    <3> QED BY <3>2 DEF t
  <2>2. \A j \in Nat : a # j * (2 * s)
    BY <2>1 DEF Multiple
  <2>3. \A j \in Nat : k # 2 * j
    <3>1. ASSUME NEW j \in Nat, k = 2 * j PROVE FALSE
      <4>1. a = j * (2 * s)
        BY <1>1, <1>2, <3>1, SMT
      <4> QED BY <2>2, <4>1
    <3> QED BY <3>1
  <2>4. PICK j \in Nat : k = 2 * j + 1
    BY <2>3, EvenOrOdd
  <2>5. a - s = (2 * j) * s /\ a - s = j * (2 * s) /\ 2 * j \in Nat
    BY <1>1, <1>2, <2>4, SMT
  <2>6. b = a - s /\ a - s \in Nat /\ a = (a - s) + s
    BY <1>1, <1>4, <2>5, SMT DEF buddy
  <2>7. lower(a, b) = b
    BY <1>1, <2>6, SMT DEF lower
  <2>8. Multiple(b, s) /\ Multiple(b, 2 * s)
    BY <2>5, <2>6 DEF Multiple
  <2>9. Block(b, o + 1) = Block(b, o) \cup Block(a, o) /\ Block(b, o) \cap Block(a, o) = {}
    <3>1. b \in Nat /\ a = b + s
      BY <2>6
    <3> HIDE DEF b
    <3> QED BY <3>1, BlockFacts
  <2> QED BY <1>1, <2>6, <2>7, <2>8, <2>9
<1> QED BY <1>3, <1>4

(* A larger aligned block that shares a page with a block holds all of it, and    *)
(* its buddy.                                                                *)
LEMMA HoldsBuddy ==
  ASSUME NEW a \in Nat, NEW o \in Orders, NEW x \in Nat, NEW q \in Orders, o < q,
         Multiple(a, Size[o]), Multiple(x, Size[q]), Block(a, o) \cap Block(x, q) # {}
  PROVE  o + 1 \in Orders /\ Block(a, o) \cup Block(buddy(a, o), o) \subseteq Block(x, q)
<1>1. o + 1 \in Orders /\ o + 1 <= q
  BY SizeAssumption, SMT DEF Orders
<1> DEFINE l == lower(a, buddy(a, o))
<1>2. l \in Nat /\ Multiple(l, Size[o + 1]) /\ Block(l, o + 1) = Block(a, o) \cup Block(buddy(a, o), o)
  BY <1>1, BuddyFacts
<1> HIDE DEF l
<1>3. x <= l /\ l + Size[o + 1] <= x + Size[q]
  BY <1>1, <1>2, Nested
<1>4. Block(l, o + 1) \subseteq Block(x, q)
  BY <1>1, <1>2, <1>3, SizeFacts, SMT DEF Block
<1> QED BY <1>1, <1>2, <1>4

-----------------------------------------------------------------------------
(* Every block starts at a multiple of its size. *)
HeadsAligned == \A a \in Heads : Multiple(a, Size[node[a].order])

(* No list is a cycle: some count falls along the prev links, so that every block *)
(* is reached from the head of its list.                                       *)
Falls(r) == \A b \in Heads : node[b].prev # 0 => r[node[b].prev] < r[b]
Ranked == \E r \in [Heads -> Nat] : Falls(r)

(* Free neighbours have been merged: an aligned run of free pages never spans    *)
(* two blocks.                                                                *)
RunsWhole ==
  \A x \in Nat, q \in Orders :
    Multiple(x, Size[q]) /\ Block(x, q) \subseteq FreeSet =>
      \E h \in Heads : q <= node[h].order /\ Block(x, q) \subseteq FreeBlock(h)

(* A list whose head is None holds no block. *)
LEMMA EmptyList ==
  ASSUME ListOK, Ranked, NEW o \in Orders, head[o] = NoLink
  PROVE  \A b \in Heads : node[b].order # o
<1>1. PICK r \in [Heads -> Nat] : Falls(r)
  BY DEF Ranked
<1> DEFINE L == {b \in Heads : node[b].order = o}
           T == {r[b] : b \in L}
<1>2. SUFFICES ASSUME L # {} PROVE FALSE
  OBVIOUS
<1>3. T \in SUBSET Nat /\ T # {}
  BY <1>1, <1>2
<1>4. PICK x \in T : \A y \in T : x <= y
  <2> HIDE DEF T
  <2> QED BY <1>3, LeastNumber
<1>5. PICK b \in L : x = r[b]
  BY <1>4
<1>6. node[b].prev # 0
  BY <1>5, SMT DEF ListOK, NoLink
<1>7. node[b].prev \in L
  BY <1>5, <1>6 DEF ListOK
<1>8. r[node[b].prev] < r[b] /\ r[node[b].prev] \in T
  BY <1>1, <1>5, <1>6, <1>7 DEF Falls
<1>9. r[node[b].prev] \in Nat /\ r[b] \in Nat
  BY <1>1, <1>5, <1>7
<1> HIDE DEF T
<1> QED BY <1>4, <1>5, <1>8, <1>9, SMT

(* push_front and unlink keep the lists free of cycles. *)
LEMMA RankPush ==
  ASSUME ListOK, Ranked, NEW o \in Orders, NEW a \in Nat \ {0}, a \notin Heads, push_front(o, a)
  PROVE  Ranked'
<1>1. PICK r \in [Heads -> Nat] : Falls(r)
  BY DEF Ranked
<1> DEFINE h == head[o]
           f == [b \in Heads \cup {a} |-> IF b = a THEN 0 ELSE r[b] + 1]
<1>2. Heads' = Heads \cup {a}
  BY DEF push_front, Pushed, Heads
<1>3. /\ node'[a].prev = 0
      /\ \A b \in Heads : node'[b].prev = IF b = h THEN a ELSE node[b].prev
  BY DEF push_front, Pushed, Heads, Node, NoLink
<1>4. f \in [Heads' -> Nat]
  BY <1>1, <1>2, SMT
<1>5. ASSUME NEW b \in Heads', node'[b].prev # 0 PROVE f[node'[b].prev] < f[b]
  <2>1. b \in Heads /\ b # a
    BY <1>2, <1>3, <1>5
  <2>2. CASE b = h
    BY <1>1, <1>3, <2>1, <2>2, SMT
  <2>3. CASE b # h
    <3>1. node'[b].prev = node[b].prev /\ node[b].prev \in Heads /\ node[b].prev # a
      BY <1>3, <1>5, <2>1, <2>3, SMT DEF ListOK
    <3>2. r[node[b].prev] < r[b] /\ r[b] \in Nat /\ r[node[b].prev] \in Nat
      BY <1>1, <1>5, <2>1, <3>1 DEF Falls
    <3>3. f[node[b].prev] = r[node[b].prev] + 1 /\ f[b] = r[b] + 1
      BY <2>1, <3>1
    <3> QED BY <3>1, <3>2, <3>3, SMT
  <2> QED BY <2>2, <2>3
<1> HIDE DEF f
<1> QED BY <1>4, <1>5 DEF Ranked, Falls

LEMMA RankUnlink ==
  ASSUME ListOK, Ranked, NEW a \in Heads, unlink(node[a].order, a)
  PROVE  Ranked'
<1>1. PICK r \in [Heads -> Nat] : Falls(r)
  BY DEF Ranked
<1> DEFINE n == node[a].next
           p == node[a].prev
           f == [b \in Heads \ {a} |-> r[b]]
<1>2. Heads' = Heads \ {a}
  BY DEF unlink, Heads
<1>3. \A b \in Heads \ {a} : node'[b].prev = IF b = n THEN p ELSE node[b].prev
  BY DEF unlink, Heads, Node
<1>4. f \in [Heads' -> Nat]
  BY <1>1, <1>2
<1>5. ASSUME NEW b \in Heads', node'[b].prev # 0 PROVE f[node'[b].prev] < f[b]
  <2>1. b \in Heads /\ b # a /\ b # 0 /\ f[b] = r[b] /\ r[b] \in Nat /\ r[a] \in Nat
    BY <1>1, <1>2 DEF ListOK
  <2>2. CASE b = n
    <3>1. node'[b].prev = p /\ p # 0
      BY <1>3, <1>5, <2>1, <2>2
    <3>2. node[b].prev = a /\ a # 0
      BY <2>1, <2>2 DEF ListOK
    <3>3. r[a] < r[b] /\ r[p] < r[a] /\ p \in Heads
      BY <1>1, <2>1, <3>1, <3>2 DEF Falls, ListOK
    <3>4. p # a /\ f[p] = r[p] /\ r[p] \in Nat
      BY <1>1, <2>1, <3>3, SMT
    <3> QED BY <2>1, <3>1, <3>3, <3>4, SMT
  <2>3. CASE b # n
    <3>1. node'[b].prev = node[b].prev /\ node[b].prev \in Heads /\ node[node[b].prev].next = b
      BY <1>3, <1>5, <2>1, <2>3 DEF ListOK
    <3>2. node[b].prev # a /\ r[node[b].prev] < r[b]
      BY <1>1, <1>5, <2>1, <2>3, <3>1 DEF Falls
    <3> QED BY <2>1, <3>1, <3>2
  <2> QED BY <2>2, <2>3
<1> HIDE DEF f
<1> QED BY <1>4, <1>5 DEF Ranked, Falls

(* A block pushed on a list leaves no run across two blocks, when its buddy is     *)
(* not free.                                                                  *)
LEMMA RunsPush ==
  ASSUME ListOK, Disjoint, HeadsAligned, RunsWhole, NEW o \in Orders, NEW a \in Nat \ {0},
         push_front(o, a), FreeSet \cap Block(a, o) = {}, Multiple(a, Size[o]),
         o + 1 \in Orders => ~(Block(buddy(a, o), o) \subseteq FreeSet')
  PROVE  HeadsAligned' /\ RunsWhole'
<1>1. FreeSet' = FreeSet \cup Block(a, o)
  BY AddBlock
<1>2. a \notin Heads
  BY HeadsFree, BlockFacts
<1>3. /\ Heads' = Heads \cup {a} /\ node'[a].order = o
      /\ \A b \in Heads : node'[b].order = node[b].order
  BY <1>2, PushList
<1>4. /\ \A b \in Heads : FreeBlock(b)' = FreeBlock(b)
      /\ FreeBlock(a)' = Block(a, o)
  BY <1>3 DEF FreeBlock
<1>5. HeadsAligned'
  BY <1>3 DEF HeadsAligned
<1>6. ASSUME NEW x \in Nat, NEW q \in Orders, Multiple(x, Size[q]), Block(x, q) \subseteq FreeSet'
      PROVE  \E h \in Heads' : q <= node'[h].order /\ Block(x, q) \subseteq FreeBlock(h)'
  <2>1. CASE Block(a, o) \cap Block(x, q) = {}
    <3>1. Block(x, q) \subseteq FreeSet
      BY <1>1, <1>6, <2>1
    <3>2. PICK h \in Heads : q <= node[h].order /\ Block(x, q) \subseteq FreeBlock(h)
      BY <1>6, <3>1 DEF RunsWhole
    <3> QED BY <1>3, <1>4, <3>2
  <2>2. CASE Block(a, o) \cap Block(x, q) # {} /\ q <= o
    <3>1. a <= x /\ x + Size[q] <= a + Size[o]
      BY <1>6, <2>2, Nested
    <3>2. Block(x, q) \subseteq Block(a, o)
      BY <3>1, SizeFacts, SMT DEF Block
    <3> QED BY <1>3, <1>4, <2>2, <3>2, ZenonT(30)
  <2>3. CASE Block(a, o) \cap Block(x, q) # {} /\ o < q
    BY <1>6, <2>3, HoldsBuddy
  <2> QED BY <2>1, <2>2, <2>3, SMT DEF Orders
<1> QED BY <1>5, <1>6 DEF RunsWhole

(* So does a block taken off its list. *)
LEMMA RunsDrop ==
  ASSUME ListOK, Disjoint, HeadsAligned, RunsWhole, NEW a \in Heads, unlink(node[a].order, a)
  PROVE  HeadsAligned' /\ RunsWhole'
<1>1. FreeSet' = FreeSet \ FreeBlock(a)
  BY DropBlock
<1>2. Heads' = Heads \ {a} /\ \A b \in Heads \ {a} : node'[b].order = node[b].order
  BY UnlinkList
<1>3. \A b \in Heads \ {a} : FreeBlock(b)' = FreeBlock(b)
  BY <1>2 DEF FreeBlock
<1>4. HeadsAligned'
  BY <1>2 DEF HeadsAligned
<1>5. ASSUME NEW x \in Nat, NEW q \in Orders, Multiple(x, Size[q]), Block(x, q) \subseteq FreeSet'
      PROVE  \E h \in Heads' : q <= node'[h].order /\ Block(x, q) \subseteq FreeBlock(h)'
  <2>1. PICK h \in Heads : q <= node[h].order /\ Block(x, q) \subseteq FreeBlock(h)
    BY <1>1, <1>5 DEF RunsWhole
  <2>2. h # a
    BY <1>1, <1>5, <2>1, BlockFacts
  <2> QED BY <1>2, <1>3, <2>1, <2>2
<1> QED BY <1>4, <1>5 DEF RunsWhole

(* A block whose buddy's run is free and merged, but not as a block of its own     *)
(* order, would be inside that run's block.  So where the merge loop stops the     *)
(* buddy is not free.                                                         *)
LEMMA BuddyNotFree ==
  ASSUME ListOK, HeadsAligned, RunsWhole, NEW o \in Orders, o + 1 \in Orders, NEW a \in Nat,
         Multiple(a, Size[o]), FreeSet \cap Block(a, o) = {}, ~try_remove(buddy(a, o), o)
  PROVE  ~(Block(buddy(a, o), o) \subseteq FreeSet \cup Block(a, o))
<1> DEFINE b == buddy(a, o)
<1>1. SUFFICES ASSUME Block(b, o) \subseteq FreeSet \cup Block(a, o) PROVE FALSE
  OBVIOUS
<1>2. /\ b \in Nat /\ Multiple(b, Size[o]) /\ Block(a, o) \cap Block(b, o) = {}
      /\ lower(a, b) \in Nat /\ Multiple(lower(a, b), Size[o + 1])
      /\ Block(lower(a, b), o + 1) = Block(a, o) \cup Block(b, o)
  BY BuddyFacts
<1>3. Block(b, o) \subseteq FreeSet /\ ~try_remove(b, o)
  BY <1>1, <1>2
<1> HIDE DEF b
<1>4. PICK h \in Heads : o <= node[h].order /\ Block(b, o) \subseteq FreeBlock(h)
  BY <1>2, <1>3 DEF RunsWhole
<1>5. h \in Nat /\ node[h].order \in Orders /\ Multiple(h, Size[node[h].order])
  BY <1>4, ZenonT(30) DEF ListOK, Words, HeadsAligned
<1>6. CASE node[h].order = o
  <2>1. Block(b, o) \subseteq Block(h, o)
    BY <1>4, <1>6 DEF FreeBlock
  <2>2. b = h
    BY <1>2, <1>5, <2>1, SizeFacts, SMT DEF Block
  <2> QED BY <1>3, <1>4, <1>6, <2>2 DEF try_remove, head_bit
<1>7. CASE o < node[h].order
  <2> DEFINE l == lower(a, b)
  <2>1. o + 1 <= node[h].order
    BY <1>5, <1>7, SMT DEF Orders
  <2>2. Block(l, o + 1) \cap Block(h, node[h].order) # {}
    BY <1>2, <1>4, BlockFacts DEF FreeBlock
  <2> HIDE DEF l
  <2>3. l \in Nat /\ Multiple(l, Size[o + 1]) /\ Block(l, o + 1) = Block(a, o) \cup Block(b, o)
    BY <1>2 DEF l
  <2>4. h <= l /\ l + Size[o + 1] <= h + Size[node[h].order]
    BY <1>5, <2>1, <2>2, <2>3, Nested, ZenonT(30)
  <2>5. Block(l, o + 1) \subseteq FreeBlock(h)
    BY <1>5, <2>3, <2>4, SizeFacts, SMT DEF Block, FreeBlock
  <2>6. FreeBlock(h) \subseteq FreeSet /\ a \in Block(a, o)
    BY <1>4, BlockFacts, SMT DEF FreeSet
  <2> QED BY <2>3, <2>5, <2>6, ZenonT(30)
<1> QED BY <1>4, <1>5, <1>6, <1>7, SMT DEF Orders

-----------------------------------------------------------------------------
HeldAligned == op # Idle => Multiple(op.addr, Size[op.order])

(* free_pages counts the pages on the lists and in the running call. *)
CountOK == IsFiniteSet(FreeSet \cup Held) /\ free_pages = Cardinality(FreeSet \cup Held)

(* phys_end is past every region that init_from_map has come to. *)
EndOK ==
  /\ phys_end \in Nat
  /\ \A i \in DOMAIN Regions : i <= cursor[1] /\ Usable(i) # {} => RegionEnd(i) <= phys_end

AnswerOK ==
  /\ op # Idle => answer = <<>>
  /\ answer # <<>> =>
       IF answer[1] = "none"
         THEN \A a \in FreeSet : ~AlignedRun(a, answer[2], answer[3])
         ELSE answer[2] % Size[answer[3]] # 0

ListsTrue == HeadsAligned /\ Ranked /\ RunsWhole
AInv == ListsTrue /\ HeldAligned /\ CountOK /\ EndOK /\ AnswerOK

(* What leaves the variables that a conjunct reads alone keeps it. *)
LEMMA AnswerFrames ==
  /\ ListsTrue /\ UNCHANGED <<head, node>> => ListsTrue'
  /\ EndOK /\ UNCHANGED <<cursor, phys_end>> => EndOK'
  /\ AnswerOK /\ op # Idle /\ UNCHANGED answer => AnswerOK'
  /\ answer' = <<>> => AnswerOK'
<1>1. ListsTrue /\ UNCHANGED <<head, node>> => ListsTrue'
  BY SMT DEF ListsTrue, HeadsAligned, Ranked, Falls, RunsWhole, Heads, FreeSet, FreeBlock
<1>2. EndOK /\ UNCHANGED <<cursor, phys_end>> => EndOK'
  BY DEF EndOK
<1>3. AnswerOK /\ op # Idle /\ UNCHANGED answer => AnswerOK'
  BY DEF AnswerOK
<1>4. answer' = <<>> => AnswerOK'
  BY DEF AnswerOK
<1> QED BY <1>1, <1>2, <1>3, <1>4

(* A step between the lists and the running call leaves the count true. *)
LEMMA CountKept ==
  ASSUME PagesExact, PagesExact', CountOK, UNCHANGED <<owned, cursor, free_pages>>
  PROVE  CountOK'
<1>1. Managed' = Managed
  BY Frames
<1>2. FreeSet \cup Held = Managed \ owned
  BY DEF PagesExact
<1>3. FreeSet' \cup Held' = Managed' \ owned'
  BY DEF PagesExact
<1>4. (FreeSet \cup Held)' = FreeSet \cup Held
  BY <1>1, <1>2, <1>3
<1> QED BY <1>4 DEF CountOK

(* The pages of a block are as many as its size. *)
LEMMA BlockCount ==
  ASSUME NEW a \in Nat, NEW o \in Orders
  PROVE  IsFiniteSet(Block(a, o)) /\ Cardinality(Block(a, o)) = Size[o]
<1>1. Size[o] \in Nat \ {0} /\ a + Size[o] - 1 \in Int /\ ~(a > a + Size[o] - 1)
  BY SizeFacts, SMT
<1> DEFINE e == a + Size[o] - 1
<1>2. e \in Int /\ ~(a > e) /\ e - a + 1 = Size[o]
  BY <1>1, SMT
<1> HIDE DEF e
<1>3. IsFiniteSet(a..e) /\ Cardinality(a..e) = Size[o]
  BY <1>2, FS_Interval, SMT
<1> QED BY <1>3 DEF Block, e

LEMMA JoinedCount ==
  ASSUME NEW S, NEW T, IsFiniteSet(S), IsFiniteSet(T), S \cap T = {}
  PROVE  IsFiniteSet(S \cup T) /\ Cardinality(S \cup T) = Cardinality(S) + Cardinality(T)
         /\ Cardinality(S) \in Nat /\ Cardinality(T) \in Nat
<1>1. Cardinality(S \cap T) = 0
  BY FS_EmptySet
<1>2. Cardinality(S) \in Nat /\ Cardinality(T) \in Nat
  BY FS_CardinalityType
<1>3. IsFiniteSet(S \cup T) /\ Cardinality(S \cup T) = Cardinality(S) + Cardinality(T) - Cardinality(S \cap T)
  BY FS_Union
<1> QED BY <1>1, <1>2, <1>3, SMT

(* free, by the boot walk or a caller, adds its block to the count. *)
LEMMA StartFreeTrue ==
  ASSUME Inv, Inv', AInv, NEW a \in Nat, NEW o \in Orders, op = Idle, StartFree(a, o),
         a % Size[o] = 0
  PROVE  ListsTrue' /\ HeldAligned' /\ CountOK' /\ AnswerOK'
<1>1. /\ op' = Merge(a, o) /\ UNCHANGED <<head, node>> /\ answer' = <<>>
      /\ free_pages' = free_pages + Size[o]
  BY DEF StartFree
<1>2. Multiple(a, Size[o])
  BY SizeFacts, RemainderZero
<1>3. Held = {} /\ Held' = Block(a, o) /\ FreeSet' = FreeSet
  BY <1>1, Frames DEF Held, Merge, Idle
<1>4. HeldAligned'
  BY <1>1, <1>2 DEF HeldAligned, Merge
<1>5. CountOK'
  <2>1. FreeSet \cap Block(a, o) = {}
    BY <1>3 DEF Inv, PagesExact
  <2>2. IsFiniteSet(FreeSet) /\ free_pages = Cardinality(FreeSet)
    BY <1>3 DEF AInv, CountOK
  <2>3. IsFiniteSet(Block(a, o)) /\ Cardinality(Block(a, o)) = Size[o]
    BY BlockCount
  <2>4. /\ IsFiniteSet(FreeSet \cup Block(a, o))
        /\ Cardinality(FreeSet \cup Block(a, o)) = Cardinality(FreeSet) + Cardinality(Block(a, o))
    BY <2>1, <2>2, <2>3, JoinedCount
  <2> QED BY <1>1, <1>3, <2>2, <2>3, <2>4 DEF CountOK
<1> QED BY <1>1, <1>4, <1>5, AnswerFrames DEF AInv

-----------------------------------------------------------------------------
(* The boot walk: each step keeps AInv. *)
LEMMA BootWalkTrue == ASSUME Inv, Inv', AInv, BootRegion \/ BootSkip PROVE AInv'
<1>1. op = Idle /\ UNCHANGED <<head, node, op, owned, free_pages, answer>>
  BY DEF BootRegion, BootSkip
<1>2. Held' = Held /\ FreeSet' = FreeSet
  BY <1>1, Frames DEF Held
<1>3. CountOK' /\ HeldAligned' /\ ListsTrue'
  BY <1>1, <1>2, AnswerFrames DEF AInv, CountOK, HeldAligned
<1>4. AnswerOK'
  BY <1>1, <1>2 DEF AInv, AnswerOK, AlignedRun
<1>5. EndOK'
  <2>1. CASE BootRegion
    <3> DEFINE i == cursor[1]
    <3>1. /\ i \in Nat \ {0} /\ cursor' = AtBoot(i + 1) /\ phys_end' = PhysEnd(i + 1, phys_end)
          /\ phys_end \in Nat
      BY <2>1 DEF BootRegion, Inv, CursorOK, AInv, EndOK
    <3>2. cursor'[1] = i + 1
      BY <3>1 DEF AtBoot
    <3>3. phys_end' \in Nat /\ phys_end <= phys_end'
          /\ (i + 1 \in DOMAIN Regions /\ Usable(i + 1) # {} => RegionEnd(i + 1) <= phys_end')
      BY <3>1, RegionFacts, SMT DEF PhysEnd
    <3>4. ASSUME NEW j \in DOMAIN Regions, j <= i + 1, Usable(j) # {} PROVE RegionEnd(j) <= phys_end'
      <4>1. j \in Nat /\ RegionEnd(j) \in Nat
        BY RegionFacts, SMT
      <4>2. CASE j = i + 1
        BY <3>3, <3>4, <4>2
      <4>3. CASE j <= i
        BY <3>1, <3>3, <3>4, <4>1, <4>3, SMT DEF AInv, EndOK
      <4> QED BY <3>1, <3>4, <4>1, <4>2, <4>3, SMT
    <3> QED BY <3>2, <3>3, <3>4 DEF EndOK
  <2>2. CASE BootSkip
    BY <2>2 DEF BootSkip, AInv, EndOK
  <2> QED BY <2>1, <2>2
<1> QED BY <1>3, <1>4, <1>5 DEF AInv

LEMMA BootFreeTrue == ASSUME Inv, Inv', AInv, NEW o \in Orders, BootFree(o) PROVE AInv'
<1> DEFINE a == cursor[2]
<1>1. a \in Nat /\ op = Idle /\ StartFree(a, o) /\ a % Size[o] = 0
  BY DEF BootFree, BootFits, Inv, CursorOK
<1>2. ListsTrue' /\ HeldAligned' /\ CountOK' /\ AnswerOK'
  <2> HIDE DEF a
  <2> QED BY <1>1, StartFreeTrue
<1>3. EndOK'
  <2>1. cursor'[1] = cursor[1] /\ phys_end' = phys_end
    BY DEF BootFree
  <2> QED BY <2>1 DEF AInv, EndOK
<1> QED BY <1>2, <1>3 DEF AInv

(* free refuses an owned block for one reason only: it is not aligned. *)
LEMMA OwnedAccepted ==
  ASSUME Inv, AInv, NEW a \in Nat, NEW o \in Orders, Block(a, o) \subseteq owned, Refused(a, o)
  PROVE  a % Size[o] # 0
<1>1. Block(a, o) \subseteq Managed /\ a \in Block(a, o) /\ Size[o] \in Nat \ {0}
  BY BlockFacts, SizeFacts DEF Inv, PagesExact
<1>2. a # 0
  <2>1. PICK i \in DOMAIN Regions : a \in Usable(i)
    BY <1>1 DEF Managed, Pages
  <2> QED BY <2>1, RegionFacts, SMT DEF Usable
<1>3. a + Size[o] <= phys_end
  <2> DEFINE p == a + Size[o] - 1
  <2>1. p \in Block(a, o) /\ p \in Nat
    BY <1>1, SMT DEF Block
  <2>2. PICK i \in DOMAIN Regions : p \in Usable(i) /\ (i < cursor[1] \/ i = cursor[1])
    BY <1>1, <2>1 DEF Managed, Walked
  <2>3. i <= cursor[1]
    BY <2>2, RegionFacts, SMT DEF Inv, CursorOK
  <2>4. RegionEnd(i) <= phys_end /\ phys_end \in Nat
    BY <2>2, <2>3 DEF AInv, EndOK
  <2>5. p < RegionEnd(i) /\ RegionEnd(i) \in Nat
    BY <2>2, RegionFacts, SMT DEF Usable
  <2> QED BY <1>1, <2>1, <2>4, <2>5, SMT
<1>4. ~overlaps_reserved(a, o)
  BY <1>1 DEF overlaps_reserved, Managed
<1>5. ~head_bit(a)
  BY <1>1, HeadsFree DEF head_bit, Inv, PagesExact
<1>6. phys_end \in Nat
  BY DEF AInv, EndOK
<1> QED BY <1>1, <1>2, <1>3, <1>4, <1>5, <1>6, SMT DEF Refused

LEMMA FreeTrue == ASSUME Inv, Inv', AInv, NEW a \in owned, NEW o \in Orders, free(a, o) PROVE AInv'
<1>1. /\ a \in Nat /\ op = Idle /\ Block(a, o) \subseteq owned /\ UNCHANGED <<cursor, phys_end>>
  BY DEF free, Ready, Inv
<1>2. EndOK'
  BY <1>1, AnswerFrames DEF AInv
<1>3. CASE Refused(a, o)
  <2>1. answer' = <<"refused", a, o>> /\ UNCHANGED <<head, node, op, owned, free_pages>>
    BY <1>3 DEF free
  <2>2. a % Size[o] # 0
    BY <1>1, <1>3, OwnedAccepted
  <2>3. AnswerOK'
    BY <1>1, <2>1, <2>2 DEF AnswerOK
  <2>4. CountOK'
    BY <1>1, <2>1, CountKept DEF AInv, Inv
  <2> QED BY <1>2, <2>1, <2>3, <2>4, AnswerFrames DEF AInv, HeldAligned
<1>4. CASE ~Refused(a, o)
  <2>1. StartFree(a, o) /\ a % Size[o] = 0
    BY <1>4 DEF free, Refused
  <2> QED BY <1>1, <1>2, <2>1, StartFreeTrue DEF AInv
<1> QED BY <1>3, <1>4

(* The loops: a merge ends only where the buddy is not free, and a split keeps the  *)
(* lower half.                                                                *)
LEMMA MergeStepTrue == ASSUME Inv, Inv', AInv, MergeStep PROVE AInv'
<1> DEFINE o == op.order
           a == op.addr
           b == buddy(a, o)
<1>1. /\ op # Idle /\ o \in Orders /\ a \in Nat /\ o + 1 \in Orders
      /\ b \in Heads /\ node[b].order = o /\ unlink(node[b].order, b)
      /\ op' = Merge(lower(a, b), o + 1)
      /\ UNCHANGED <<owned, free_pages, phys_end, cursor, answer>>
  <2>1. op # Idle
    <3>1. op.call = "merge"
      BY DEF MergeStep
    <3> QED BY <3>1, NotIdle
  <2>2. o \in Orders /\ a \in Nat
    BY DEF Inv, OpOK
  <2>3. o + 1 \in Orders
    BY <2>2, NextOrders DEF MergeStep
  <2> QED BY <2>1, <2>2, <2>3 DEF MergeStep, try_remove, head_bit
<1>2. ListOK /\ Disjoint /\ HeadsAligned /\ Ranked /\ RunsWhole /\ Multiple(a, Size[o])
  BY <1>1 DEF Inv, PagesExact, Disjoint, AInv, ListsTrue, HeldAligned
<1>3. Multiple(lower(a, b), Size[o + 1])
  BY <1>1, <1>2, BuddyFacts
<1>4. HeldAligned'
  BY <1>1, <1>3 DEF HeldAligned, Merge
<1>5. ListsTrue'
  <2> HIDE DEF b
  <2> QED BY <1>1, <1>2, RunsDrop, RankUnlink DEF ListsTrue
<1>6. CountOK'
  BY <1>1, CountKept DEF Inv, AInv
<1> QED BY <1>1, <1>4, <1>5, <1>6, AnswerFrames DEF AInv

LEMMA MergeEndTrue == ASSUME Inv, Inv', AInv, MergeEnd PROVE AInv'
<1> DEFINE o == op.order
           a == op.addr
<1>1. /\ op # Idle /\ o \in Orders /\ a \in Nat \ {0} /\ op' = Idle /\ push_front(o, a)
      /\ UNCHANGED <<owned, free_pages, phys_end, cursor, answer>>
  BY DEF MergeEnd, Inv, OpOK, Idle
<1>2. /\ ListOK /\ Disjoint /\ HeadsAligned /\ Ranked /\ RunsWhole /\ Multiple(a, Size[o])
      /\ FreeSet \cap Block(a, o) = {}
  BY <1>1 DEF Inv, PagesExact, Disjoint, AInv, ListsTrue, HeldAligned, Held
<1>3. ASSUME o + 1 \in Orders PROVE ~(Block(buddy(a, o), o) \subseteq FreeSet')
  <2>1. FreeSet' = FreeSet \cup Block(a, o)
    <3> HIDE DEF a, o
    <3> QED BY <1>1, <1>2, AddBlock
  <2>2. overlaps_reserved(buddy(a, o), o) \/ ~try_remove(buddy(a, o), o)
    BY <1>3, SizeAssumption, SMT DEF MergeEnd, MergeMore, Orders
  <2>3. CASE overlaps_reserved(buddy(a, o), o)
    <3>1. FreeSet' \cap Kept = {}
      BY DEF Inv, PagesExact, Managed
    <3> QED BY <2>3, <3>1 DEF overlaps_reserved
  <2>4. CASE ~try_remove(buddy(a, o), o)
    <3> HIDE DEF a, o
    <3> QED BY <1>1, <1>2, <1>3, <2>1, <2>4, BuddyNotFree
  <2> QED BY <2>2, <2>3, <2>4
<1>4. a \notin Heads
  BY <1>1, <1>2, HeadsFree, BlockFacts
<1>5. ListsTrue'
  <2> HIDE DEF a, o
  <2> QED BY <1>1, <1>2, <1>3, <1>4, RunsPush, RankPush DEF ListsTrue
<1>6. CountOK'
  BY <1>1, CountKept DEF Inv, AInv
<1> QED BY <1>1, <1>5, <1>6, AnswerFrames DEF AInv, HeldAligned

LEMMA SplitStepTrue == ASSUME Inv, Inv', AInv, SplitStep PROVE AInv'
<1> DEFINE a == op.addr
           o == op.order - 1
           u == a + Size[o]
<1>1. /\ op # Idle /\ o \in Orders /\ o + 1 = op.order /\ o + 1 \in Orders /\ a \in Nat \ {0}
      /\ op' = Split(a, o, op.want) /\ push_front(o, u)
      /\ UNCHANGED <<owned, free_pages, phys_end, cursor, answer>>
  <2>1. /\ op.call = "split" /\ op.order > op.want
        /\ op' = Split(a, o, op.want) /\ push_front(o, u)
        /\ UNCHANGED <<owned, free_pages, phys_end, cursor, answer>>
    BY DEF SplitStep, UpperHalf
  <2>2. op # Idle /\ op.order \in Orders /\ op.want \in Orders /\ a \in Nat \ {0}
    <3>1. op # Idle
      BY <2>1, NotIdle
    <3> QED BY <2>1, <3>1 DEF Inv, OpOK
  <2>3. o \in Orders /\ o + 1 = op.order
    BY <2>1, <2>2, NextOrders
  <2> QED BY <2>1, <2>2, <2>3
<1> DEFINE s == Size[o]
<1>2. s \in Nat \ {0} /\ Size[op.order] = 2 * s /\ u \in Nat \ {0}
  BY <1>1, SizeFacts, SMT
<1>3. PICK k \in Nat : a = k * (2 * s)
  BY <1>1, <1>2 DEF AInv, HeldAligned, Multiple
<1>4. a = (2 * k) * s /\ u = (2 * k + 1) * s /\ 2 * k \in Nat /\ 2 * k + 1 \in Nat
  BY <1>2, <1>3, SMT
<1>5. Multiple(a, s) /\ Multiple(u, s)
  BY <1>4 DEF Multiple
<1>6. buddy(u, o) = a
  <2>1. ~Multiple(u, 2 * s)
    <3>1. ASSUME NEW j \in Nat, u = j * (2 * s) PROVE FALSE
      <4>1. u = (2 * j) * s
        BY <1>2, <3>1, SMT
      <4>2. 2 * j = 2 * k + 1
        <5> DEFINE m == 2 * j
                   n == 2 * k + 1
        <5>1. m \in Nat /\ n \in Nat /\ m * s = n * s /\ s \in Nat \ {0}
          BY <1>2, <1>4, <4>1, SMT
        <5> HIDE DEF m, n, s
        <5>2. ~(m < n) /\ ~(n < m)
          <6>1. m < n => m * s < n * s
            BY <5>1, SMT
          <6>2. n < m => n * s < m * s
            BY <5>1, SMT
          <6> QED BY <5>1, <6>1, <6>2, SMT
        <5>3. m = n
          BY <5>1, <5>2, SMT
        <5> QED BY <5>3 DEF m, n
      <4> QED BY <4>2, SMT
    <3> QED BY <3>1 DEF Multiple
  <2>2. u % (2 * s) # 0
    <3> DEFINE t == 2 * s
    <3>1. t \in Nat \ {0} /\ ~Multiple(u, t)
      BY <1>2, <2>1, SMT
    <3> HIDE DEF t, u
    <3>2. u % t # 0
      BY <1>2, <3>1, RemainderZero
    <3> QED BY <3>2 DEF t
  <2> QED BY <1>1, <1>2, <2>2, SMT DEF buddy
<1>7. /\ FreeSet' \cap Block(a, o) = {} /\ a \in Block(a, o)
      /\ FreeSet \cap Block(u, o) = {}
  <2>1. Held' = Block(a, o) /\ Held = Block(a, o + 1)
    BY <1>1 DEF Held, Split, Idle
  <2>2. Block(u, o) \subseteq Held
    BY <1>1, <2>1, BlockFacts, SMT
  <2> QED BY <1>1, <2>1, <2>2, BlockFacts DEF Inv, PagesExact
<1>8. ~(Block(buddy(u, o), o) \subseteq FreeSet')
  BY <1>6, <1>7
<1>9. ListsTrue'
  <2>1. ListOK /\ Disjoint /\ HeadsAligned /\ Ranked /\ RunsWhole
    BY DEF Inv, PagesExact, Disjoint, AInv, ListsTrue
  <2>2. u \notin Heads
    BY <1>1, <1>2, <1>7, <2>1, HeadsFree, BlockFacts, SMT
  <2>3. Multiple(u, Size[o]) /\ push_front(o, u)
    BY <1>1, <1>5
  <2> HIDE DEF u, o
  <2> QED BY <1>1, <1>2, <1>7, <1>8, <2>1, <2>2, <2>3, RunsPush, RankPush, ZenonT(30) DEF ListsTrue
<1>10. HeldAligned'
  BY <1>1, <1>5 DEF HeldAligned, Split
<1>11. CountOK'
  BY <1>1, CountKept DEF Inv, AInv
<1> QED BY <1>1, <1>9, <1>10, <1>11, AnswerFrames DEF AInv

LEMMA SplitEndTrue == ASSUME Inv, Inv', AInv, SplitEnd PROVE AInv'
<1>1. /\ op # Idle /\ op.order \in Orders /\ op.addr \in Nat /\ op' = Idle
      /\ free_pages' = free_pages - Size[op.order]
      /\ UNCHANGED <<head, node, phys_end, cursor, answer>>
  <2>1. op # Idle
    BY NotIdle DEF SplitEnd
  <2>2. op.order \in Orders /\ op.addr \in Nat
    BY DEF Inv, OpOK
  <2> QED BY <2>1, <2>2 DEF SplitEnd
<1>2. Held = Block(op.addr, op.order) /\ Held' = {} /\ FreeSet' = FreeSet
  BY <1>1, Frames DEF Held
<1>3. CountOK'
  <2>1. FreeSet \cap Held = {} /\ IsFiniteSet(FreeSet \cup Held)
        /\ free_pages = Cardinality(FreeSet \cup Held)
    BY DEF Inv, PagesExact, AInv, CountOK
  <2>2. IsFiniteSet(Held) /\ Cardinality(Held) = Size[op.order] /\ Size[op.order] \in Nat
    BY <1>1, <1>2, BlockCount, SizeFacts, ZenonT(30)
  <2>3. IsFiniteSet(FreeSet)
    BY <2>1, FS_Subset, SMT
  <2>4. Cardinality(FreeSet \cup Held) = Cardinality(FreeSet) + Cardinality(Held)
        /\ Cardinality(FreeSet) \in Nat
    BY <2>1, <2>2, <2>3, JoinedCount
  <2> QED BY <1>1, <1>2, <2>1, <2>2, <2>3, <2>4, SMT DEF CountOK
<1> QED BY <1>1, <1>3, AnswerFrames DEF AInv, HeldAligned

(* alloc and alloc_below: a block that is taken leaves the lists true; None is     *)
(* answered when no list holds a block to take.                                *)
LEMMA TakeTrue ==
  ASSUME Inv, Inv', AInv, NEW a \in Heads, NEW want, unlink(node[a].order, a),
         op' = Split(a, node[a].order, want), answer' = <<>>,
         UNCHANGED <<owned, free_pages, phys_end, cursor>>
  PROVE  AInv'
<1>1. ListOK /\ Disjoint /\ HeadsAligned /\ Ranked /\ RunsWhole
  BY DEF Inv, PagesExact, Disjoint, AInv, ListsTrue
<1>2. ListsTrue'
  BY <1>1, RunsDrop, RankUnlink DEF ListsTrue
<1>3. HeldAligned'
  BY <1>1 DEF HeldAligned, HeadsAligned, Split
<1>4. CountOK'
  BY CountKept DEF Inv, AInv
<1> QED BY <1>2, <1>3, <1>4, AnswerFrames, ZenonT(30) DEF AInv

LEMMA NoneTrue ==
  ASSUME Inv, Inv', AInv, op = Idle, NEW want, NEW limit, answer' = <<"none", want, limit>>,
         UNCHANGED <<head, node, op, owned, free_pages, phys_end, cursor>>,
         \A a \in FreeSet : ~AlignedRun(a, want, limit)
  PROVE  AInv'
<1>1. FreeSet' = FreeSet
  BY Frames
<1>2. AnswerOK'
  BY <1>1 DEF AnswerOK, AlignedRun
<1>3. CountOK'
  BY CountKept DEF Inv, AInv
<1> QED BY <1>2, <1>3, AnswerFrames DEF AInv, HeldAligned

(* An aligned run of free pages lies in a block of at least its size. *)
LEMMA RunInBlock ==
  ASSUME Inv, AInv, NEW a \in FreeSet, NEW want \in Orders, a % Size[want] = 0,
         Block(a, want) \subseteq FreeSet
  PROVE  \E h \in Heads : want <= node[h].order /\ h <= a /\ h \in Nat /\ a \in Nat
                          /\ node[h].order \in Orders
<1>1. a \in Nat
  <2>1. PICK b \in Heads : a \in FreeBlock(b)
    BY DEF FreeSet
  <2> QED BY <2>1, BlockFacts DEF FreeBlock, Inv, ListOK, Words
<1>2. Multiple(a, Size[want])
  BY <1>1, SizeFacts, RemainderZero
<1>3. PICK h \in Heads : want <= node[h].order /\ Block(a, want) \subseteq FreeBlock(h)
  BY <1>1, <1>2 DEF AInv, ListsTrue, RunsWhole
<1>4. h \in Nat /\ node[h].order \in Orders
  BY <1>3 DEF Inv, ListOK, Words
<1>5. a \in Block(h, node[h].order)
  BY <1>1, <1>3, BlockFacts DEF FreeBlock
<1>6. h <= a
  BY <1>1, <1>4, <1>5, SizeFacts, SMT DEF Block
<1> QED BY <1>1, <1>3, <1>4, <1>6

LEMMA AllocTrue == ASSUME Inv, Inv', AInv, NEW want \in Orders, alloc_untracked(want) PROVE AInv'
<1>0. op = Idle /\ UNCHANGED <<owned, free_pages, phys_end, cursor>>
  BY DEF alloc_untracked, Ready
<1>1. ASSUME NEW o \in want..MAX_ORDER - 1, head[o] # NoLink, Pop(o), op' = Split(head[o], o, want),
             answer' = <<>>
      PROVE  AInv'
  <2>1. o \in Orders
    BY SizeAssumption, SMT DEF Orders
  <2>2. head[o] \in Heads /\ node[head[o]].order = o /\ unlink(o, head[o])
    BY <1>1, <2>1, PopList DEF Inv
  <2> DEFINE a == head[o]
  <2>3. a \in Heads /\ node[a].order = o /\ unlink(node[a].order, a) /\ op' = Split(a, node[a].order, want)
    BY <1>1, <2>2
  <2> HIDE DEF a
  <2> QED BY <1>0, <1>1, <2>3, TakeTrue
<1>2. ASSUME \A o \in want..MAX_ORDER - 1 : head[o] = NoLink, answer' = <<"none", want, phys_end>>,
             UNCHANGED <<head, node, op>>
      PROVE  AInv'
  <2>1. ASSUME NEW a \in FreeSet, AlignedRun(a, want, phys_end) PROVE FALSE
    <3>1. PICK h \in Heads : want <= node[h].order /\ node[h].order \in Orders
      BY <2>1, RunInBlock DEF AlignedRun
    <3>2. head[node[h].order] = NoLink
      BY <1>2, <3>1, SizeAssumption, SMT DEF Orders
    <3> QED BY <3>1, <3>2, EmptyList DEF Inv, AInv, ListsTrue
  <2> QED BY <1>0, <1>2, <2>1, NoneTrue
<1> QED BY <1>1, <1>2 DEF alloc_untracked

LEMMA AllocBelowTrue ==
  ASSUME Inv, Inv', AInv, NEW want \in Orders, NEW limit \in Pages, alloc_below_untracked(want, limit)
  PROVE  AInv'
<1>0. op = Idle /\ UNCHANGED <<owned, free_pages, phys_end, cursor>> /\ limit \in Int
  BY RegionFacts, SMT DEF alloc_below_untracked, Ready, Pages, Usable
<1>1. ASSUME NEW o \in want..MAX_ORDER - 1, NEW a \in Below(o, want, limit),
             unlink(o, a), op' = Split(a, o, want), answer' = <<>>
      PROVE  AInv'
  <2>1. a \in Heads /\ node[a].order = o
    BY DEF Below
  <2> QED BY <1>0, <1>1, <2>1, TakeTrue
<1>2. ASSUME \A o \in want..MAX_ORDER - 1 : Below(o, want, limit) = {},
             answer' = <<"none", want, limit>>, UNCHANGED <<head, node, op>>
      PROVE  AInv'
  <2>1. ASSUME NEW a \in FreeSet, AlignedRun(a, want, limit) PROVE FALSE
    <3>1. PICK h \in Heads : want <= node[h].order /\ h <= a /\ h \in Nat /\ a \in Nat
                             /\ node[h].order \in Orders
      BY <2>1, RunInBlock DEF AlignedRun
    <3>2. h + Size[want] <= limit
      BY <1>0, <2>1, <3>1, SizeFacts, SMT DEF AlignedRun
    <3>3. h \in Below(node[h].order, want, limit)
      BY <3>1, <3>2 DEF Below
    <3>4. node[h].order \in want..MAX_ORDER - 1
      BY <3>1, SizeAssumption, SMT DEF Orders
    <3> QED BY <1>2, <3>3, <3>4
  <2> QED BY <1>0, <1>2, <2>1, NoneTrue
<1> QED BY <1>1, <1>2 DEF alloc_below_untracked

LEMMA InitTrue == ASSUME Init PROVE AInv
<1>1. Heads = {} /\ FreeSet = {} /\ Held = {} /\ op = Idle /\ answer = <<>> /\ free_pages = 0
  BY DEF Init, Heads, FreeSet, Held
<1>2. RunsWhole /\ HeadsAligned
  BY <1>1, BlockFacts DEF RunsWhole, HeadsAligned
<1>3. Ranked
  <2>1. [b \in {} |-> 0] \in [Heads -> Nat]
    BY <1>1
  <2> QED BY <1>1, <2>1 DEF Ranked, Falls
<1>4. CountOK
  BY <1>1, FS_EmptySet DEF CountOK
<1>5. EndOK
  <2>1. cursor[1] = 1 /\ phys_end = PhysEnd(1, 0)
    BY DEF Init, AtBoot
  <2>2. \A i \in DOMAIN Regions : i <= 1 => i = 1
    BY RegionFacts, SMT
  <2>3. phys_end \in Nat /\ (1 \in DOMAIN Regions /\ Usable(1) # {} => RegionEnd(1) <= phys_end)
    BY <2>1, RegionFacts, SMT DEF PhysEnd
  <2> QED BY <2>1, <2>2, <2>3 DEF EndOK
<1> QED BY <1>1, <1>2, <1>3, <1>4, <1>5 DEF AInv, ListsTrue, HeldAligned, AnswerOK

LEMMA StutterTrue == ASSUME AInv, UNCHANGED vars PROVE AInv'
<1>1. UNCHANGED <<head, node, op, owned, free_pages, phys_end, cursor, answer>>
  BY DEF vars
<1>2. Held' = Held /\ FreeSet' = FreeSet
  BY <1>1, Frames DEF Held
<1>3. ListsTrue' /\ EndOK'
  BY <1>1, AnswerFrames DEF AInv
<1>4. HeldAligned' /\ CountOK'
  BY <1>1, <1>2 DEF AInv, HeldAligned, CountOK
<1>5. AnswerOK'
  BY <1>1, <1>2 DEF AInv, AnswerOK, AlignedRun
<1> QED BY <1>3, <1>4, <1>5 DEF AInv

(* For every memory map and every number of orders: alloc and alloc_below answer    *)
(* None only when no aligned run of that many pages (below the limit) is free, free *)
(* refuses no aligned block that its caller owns, and free_pages counts the free    *)
(* pages.                                                                      *)
THEOREM AllocatorTellsTheTruth == Spec => []AnswersTrue
<1>1. Init => Inv /\ AInv
  BY InitInv, InitTrue
<1>2. Inv /\ AInv /\ [Next]_vars => Inv' /\ AInv'
  <2> SUFFICES ASSUME Inv, AInv, [Next]_vars PROVE Inv' /\ AInv'
    OBVIOUS
  <2>1. Inv'
    BY InvStep
  <2>2. CASE UNCHANGED vars
    BY <2>1, <2>2, StutterTrue
  <2>3. CASE Next
    BY <2>1, <2>3, BootWalkTrue, BootFreeTrue, FreeTrue, MergeStepTrue, MergeEndTrue,
       AllocTrue, AllocBelowTrue, SplitStepTrue, SplitEndTrue, ZenonT(30) DEF Next
  <2> QED BY <2>1, <2>2, <2>3
<1>3. Inv /\ AInv => AnswersTrue
  <2>1. ASSUME AInv, op = Idle PROVE free_pages = Cardinality(FreeSet)
    <3>1. FreeSet \cup Held = FreeSet
      BY <2>1 DEF Held
    <3> QED BY <2>1, <3>1 DEF AInv, CountOK
  <2> QED BY <2>1 DEF AInv, AnswerOK, AnswersTrue
<1> QED BY <1>1, <1>2, <1>3, PTL DEF Spec

============================================================================
