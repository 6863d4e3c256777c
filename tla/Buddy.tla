------------------------------- MODULE Buddy -------------------------------
(***************************************************************************)
(* The physical page allocator of mm/src/buddy.rs: one free list per order,  *)
(* the links kept inside the free blocks, a bitmap of the pages that head a   *)
(* free block.  FREE_LISTS is held over a whole call, so one call runs at a   *)
(* time; `op` is that call, and each turn of its split or merge loop is a     *)
(* step.  Addresses are page numbers.                                        *)
(***************************************************************************)
EXTENDS Integers, Sequences, FiniteSets

CONSTANTS
  MAX_ORDER,          \* orders are 0..MAX_ORDER-1
  Size,               \* Size[o] pages in a block of order o
  Regions,            \* the Available regions of the boot map, <<base, end>>
  Reserved,           \* the pages given to reserve_range before init_from_map
  LOW_RESERVED_END,
  BitmapPages         \* pages the free-head bitmap needs

Orders == 0..MAX_ORDER - 1
RegionEnd(i) == Regions[i][2]
RegionStart(i) ==
  IF Regions[i][1] >= LOW_RESERVED_END THEN Regions[i][1] ELSE LOW_RESERVED_END
Usable(i) == RegionStart(i)..RegionEnd(i) - 1

ASSUME SizeAssumption ==
  /\ MAX_ORDER \in Nat \ {0}
  /\ Size \in [Orders -> Nat \ {0}]
  /\ Size[0] = 1
  /\ \A o \in Orders : o + 1 \in Orders => Size[o + 1] = 2 * Size[o]

ASSUME MapAssumption ==
  /\ LOW_RESERVED_END \in Nat \ {0}
  /\ BitmapPages \in Nat \ {0}
  /\ Regions \in Seq(Nat \X Nat)
  /\ Reserved \subseteq Nat
  /\ \A i, j \in DOMAIN Regions : i # j => Usable(i) \cap Usable(j) = {}

NoLink == 0

VARIABLES
  head,               \* head[o]: first block of list o, or NoLink (None)
  node,               \* the link words of each page heading a free block
  op,                 \* the call that holds FREE_LISTS
  owned,              \* pages handed out and not yet freed
  free_pages,
  phys_end,
  cursor,             \* init_from_map: <<region, address>>
  answer              \* what the last finished call returned

vars == <<head, node, op, owned, free_pages, phys_end, cursor, answer>>

Block(a, o) == a..a + Size[o] - 1

(* setup_free_head_bitmap takes the first place, in the order of the map, that *)
(* touches no reserved range and lies in one region.                         *)
CarveFits(i, c) ==
  /\ c \in Usable(i)
  /\ c + BitmapPages <= RegionEnd(i)
  /\ c..c + BitmapPages - 1 \cap Reserved = {}
Carved(i, c) ==
  /\ CarveFits(i, c)
  /\ \A d \in Usable(i) : d < c => ~CarveFits(i, d)
  /\ \A j \in 1..i - 1 : \A d \in Usable(j) : ~CarveFits(j, d)

ASSUME CarveAssumption == \E i \in DOMAIN Regions : \E c \in Usable(i) : Carved(i, c)

BitmapStart == CHOOSE c \in UNION {Usable(i) : i \in DOMAIN Regions} :
                 \E i \in DOMAIN Regions : Carved(i, c)
Kept == Reserved \cup (BitmapStart..BitmapStart + BitmapPages - 1)

overlaps_reserved(a, o) == Block(a, o) \cap Kept # {}

(* The bitmap covers every page of the map, so a set bit is exactly a page    *)
(* that heads a block on a list, and only such a page holds link words.       *)
Heads == DOMAIN node
head_bit(a) == a \in Heads
Node(n, p, o) == [next |-> n, prev |-> p, order |-> o]

PushedKeepsOldPrev(o, a) ==
  LET h == head[o]
  IN [b \in Heads \cup {a} |-> IF b = a THEN Node(h, NoLink, o) ELSE node[b]]
Pushed(o, a) ==
  LET h == head[o]
  IN [b \in Heads \cup {a} |->
        IF b = a THEN Node(h, NoLink, o)
        ELSE IF b = h THEN Node(node[b].next, a, node[b].order) ELSE node[b]]

push_front(o, a) ==
  /\ node' = Pushed(o, a)
  /\ head' = [head EXCEPT ![o] = a]

(* unlink: both neighbours are joined; a block with no predecessor was the     *)
(* head of its list.                                                        *)
unlink(o, a) ==
  LET n == node[a].next
      p == node[a].prev
  IN /\ node' = [b \in Heads \ {a} |->
                   Node(IF b = p THEN n ELSE node[b].next,
                        IF b = n THEN p ELSE node[b].prev, node[b].order)]
     /\ head' = IF p # NoLink THEN head ELSE [head EXCEPT ![o] = n]

(* alloc takes the head of the list itself; the next block, if any, becomes    *)
(* the head and loses its predecessor.                                      *)
Pop(o) ==
  LET a == head[o]
      n == node[a].next
  IN /\ node' = [b \in Heads \ {a} |->
                   IF b = n THEN Node(node[b].next, NoLink, node[b].order) ELSE node[b]]
     /\ head' = [head EXCEPT ![o] = n]

Idle == [call |-> "idle", addr |-> 0, order |-> 0, want |-> 0]
Split(a, o, want) == [call |-> "split", addr |-> a, order |-> o, want |-> want]
Merge(a, o) == [call |-> "merge", addr |-> a, order |-> o, want |-> 0]

-----------------------------------------------------------------------------
(* init_from_map: walk each region, skip reserved pages, and free the largest  *)
(* block that is aligned, fits the region and spans no reserved range.        *)

Booting == cursor[1] <= Len(Regions)
AtBoot(i) == IF i \in DOMAIN Regions THEN <<i, RegionStart(i)>> ELSE <<i, 0>>

PhysEnd(i, end) ==
  IF i \in DOMAIN Regions /\ Usable(i) # {} /\ RegionEnd(i) > end THEN RegionEnd(i) ELSE end

BootFits(a, i, o) ==
  /\ a % Size[o] = 0
  /\ a + Size[o] <= RegionEnd(i)
  /\ ~overlaps_reserved(a, o)

(* The checks of free before it takes FREE_LISTS, and the one after: a page     *)
(* that heads a free block is being freed twice.                             *)
Refused(a, o) ==
  \/ a = 0
  \/ a % Size[o] # 0
  \/ phys_end # 0 /\ a + Size[o] > phys_end
  \/ overlaps_reserved(a, o)
  \/ head_bit(a)

StartFree(a, o) ==
  /\ op' = Merge(a, o)
  /\ free_pages' = free_pages + Size[o]
  /\ answer' = <<>>
  /\ UNCHANGED <<head, node>>

BootRegion ==
  /\ op = Idle /\ Booting
  /\ cursor[2] >= RegionEnd(cursor[1])
  /\ cursor' = AtBoot(cursor[1] + 1)
  /\ phys_end' = PhysEnd(cursor[1] + 1, phys_end)
  /\ UNCHANGED <<head, node, op, owned, free_pages, answer>>

BootSkip ==
  LET i == cursor[1] a == cursor[2]
  IN /\ op = Idle /\ Booting /\ a < RegionEnd(i)
     /\ overlaps_reserved(a, 0)
     /\ cursor' = <<i, a + 1>>
     /\ UNCHANGED <<head, node, op, owned, free_pages, phys_end, answer>>

BootFree(o) ==
  LET i == cursor[1] a == cursor[2]
  IN /\ op = Idle /\ Booting /\ a < RegionEnd(i)
     /\ BootFits(a, i, o)
     /\ \A q \in Orders : q > o => ~BootFits(a, i, q)
     /\ ~Refused(a, o)
     /\ StartFree(a, o)
     /\ cursor' = <<i, a + Size[o]>>
     /\ UNCHANGED <<owned, phys_end>>

-----------------------------------------------------------------------------
(* Calls of the running system.  A caller frees pages it was given, in any     *)
(* aligned pieces; a call the checks refuse reports and changes nothing.  An   *)
(* alloc that finds nothing has its caller reclaim page-cache frames, by free, *)
(* and try once more: both are calls of their own here.                      *)

Ready == op = Idle /\ ~Booting

free(a, o) ==
  /\ Ready
  /\ Block(a, o) \subseteq owned
  /\ IF Refused(a, o)
       THEN answer' = <<"refused", a, o>> /\ UNCHANGED <<head, node, op, owned, free_pages>>
       ELSE StartFree(a, o) /\ owned' = owned \ Block(a, o)
  /\ UNCHANGED <<phys_end, cursor>>

buddy(a, o) == IF a % (2 * Size[o]) = 0 THEN a + Size[o] ELSE a - Size[o]
MergeAnyOrder(a, o) == head_bit(a)
try_remove(a, o) == head_bit(a) /\ node[a].order = o
lower(a, b) == IF a <= b THEN a ELSE b

MergeMore(o) == o + 1 < MAX_ORDER
MergeStep ==
  LET o == op.order b == buddy(op.addr, o)
  IN /\ op.call = "merge" /\ MergeMore(o)
     /\ ~overlaps_reserved(b, o) /\ try_remove(b, o)
     /\ unlink(o, b)
     /\ op' = Merge(lower(op.addr, b), o + 1)
     /\ UNCHANGED <<owned, free_pages, phys_end, cursor, answer>>

MergeEnd ==
  LET o == op.order b == buddy(op.addr, o)
  IN /\ op.call = "merge"
     /\ MergeMore(o) => overlaps_reserved(b, o) \/ ~try_remove(b, o)
     /\ push_front(o, op.addr)
     /\ op' = Idle
     /\ UNCHANGED <<owned, free_pages, phys_end, cursor, answer>>

alloc_untracked(want) ==
  /\ Ready
  /\ \/ \E o \in want..MAX_ORDER - 1 :
          /\ head[o] # NoLink
          /\ \A q \in want..o - 1 : head[q] = NoLink
          /\ Pop(o)
          /\ op' = Split(head[o], o, want)
          /\ answer' = <<>>
     \/ /\ \A o \in want..MAX_ORDER - 1 : head[o] = NoLink
        /\ answer' = <<"none", want, phys_end>>
        /\ UNCHANGED <<head, node, op>>
  /\ UNCHANGED <<owned, free_pages, phys_end, cursor>>

(* alloc_below walks the lists from the wanted order up and takes a block whose *)
(* first pages end at or below the limit, from the middle of its list if need  *)
(* be.  Which of several fitting blocks of a list comes first is left open.     *)
Below(o, want, limit) ==
  {a \in Heads : node[a].order = o /\ a + Size[want] <= limit}
alloc_below_untracked(want, limit) ==
  /\ Ready
  /\ \/ \E o \in want..MAX_ORDER - 1 : \E a \in Below(o, want, limit) :
          /\ \A q \in want..o - 1 : Below(q, want, limit) = {}
          /\ unlink(o, a)
          /\ op' = Split(a, o, want)
          /\ answer' = <<>>
     \/ /\ \A o \in want..MAX_ORDER - 1 : Below(o, want, limit) = {}
        /\ answer' = <<"none", want, limit>>
        /\ UNCHANGED <<head, node, op>>
  /\ UNCHANGED <<owned, free_pages, phys_end, cursor>>

UpperHalf(a, o) == a + Size[o]
SplitStep ==
  /\ op.call = "split" /\ op.order > op.want
  /\ push_front(op.order - 1, UpperHalf(op.addr, op.order - 1))
  /\ op' = Split(op.addr, op.order - 1, op.want)
  /\ UNCHANGED <<owned, free_pages, phys_end, cursor, answer>>

SplitEnd ==
  /\ op.call = "split" /\ op.order = op.want
  /\ op' = Idle
  /\ free_pages' = free_pages - Size[op.want]
  /\ owned' = owned \cup Block(op.addr, op.want)
  /\ UNCHANGED <<head, node, phys_end, cursor, answer>>

-----------------------------------------------------------------------------
Pages == UNION {Usable(i) : i \in DOMAIN Regions}

Init ==
  /\ head = [o \in Orders |-> NoLink]
  /\ node = [a \in {} |-> Node(NoLink, NoLink, 0)]
  /\ op = Idle
  /\ owned = {}
  /\ free_pages = 0
  /\ phys_end = PhysEnd(1, 0)
  /\ cursor = AtBoot(1)
  /\ answer = <<>>

Next ==
  \/ BootRegion
  \/ BootSkip
  \/ \E o \in Orders : BootFree(o)
  \/ \E a \in owned, o \in Orders : free(a, o)
  \/ MergeStep
  \/ MergeEnd
  \/ \E o \in Orders : alloc_untracked(o)
  \/ \E o \in Orders, limit \in Pages : alloc_below_untracked(o, limit)
  \/ SplitStep
  \/ SplitEnd

Spec == Init /\ [][Next]_vars

-----------------------------------------------------------------------------
FreeBlock(a) == Block(a, node[a].order)
FreeSet == UNION {FreeBlock(a) : a \in Heads}
Held == IF op = Idle THEN {} ELSE Block(op.addr, op.order)

(* The pages init_from_map has walked past and not left out. *)
Walked(p) ==
  \E i \in DOMAIN Regions :
    p \in Usable(i) /\ (i < cursor[1] \/ (i = cursor[1] /\ p < cursor[2]))
Managed == {p \in Pages \ Kept : Walked(p)}

(* Every page of usable RAM is in exactly one place: one free block, the block   *)
(* the running call holds, or its owner; reserved pages are in none.  So alloc   *)
(* never hands out a page twice, and free and the splits lose none.             *)
PagesExact ==
  /\ \A a, b \in Heads : a # b => FreeBlock(a) \cap FreeBlock(b) = {}
  /\ FreeSet \cap owned = {}
  /\ FreeSet \cap Held = {}
  /\ Held \cap owned = {}
  /\ FreeSet \cup owned \cup Held = Managed

(* alloc and alloc_below answer None only when no aligned run of that many pages *)
(* (below the limit) is free: freed neighbours were merged and every free block  *)
(* is still reachable from its list.  free refuses no aligned block its caller    *)
(* owns, and free_pages is the number of free pages.                          *)
AlignedRun(a, o, limit) ==
  a % Size[o] = 0 /\ a + Size[o] <= limit /\ Block(a, o) \subseteq FreeSet
AnswersTrue ==
  /\ op = Idle => free_pages = Cardinality(FreeSet)
  /\ answer # <<>> =>
       IF answer[1] = "none"
         THEN \A a \in FreeSet : ~AlignedRun(a, answer[2], answer[3])
         ELSE answer[2] % Size[answer[3]] # 0
=============================================================================
