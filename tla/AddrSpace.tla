----------------------------- MODULE AddrSpace -----------------------------
(***************************************************************************)
(* One private writable page of a process and of the child it forks, on    *)
(* x86-64: demand allocation, copy-on-write promotion, MADV_DONTNEED, fork *)
(* and the drop of an address space (mm/src/vmm.rs, cow.rs, pageref.rs),   *)
(* with the targeted TLB shootdown they rely on                            *)
(* (arch/x86_64/src/paging.rs).                                            *)
(*                                                                         *)
(* A CPU caches translations of the root in its CR3 only, and may cache    *)
(* one at any moment that root is loaded, in kernel mode too.  Address     *)
(* space operations run with interrupts masked under the space's busy      *)
(* flag; its spinners answer flush requests, and so does an initiator that *)
(* waits.  Memory is sequentially consistent: each side of the handshake   *)
(* has a SeqCst operation between its store and its load.                  *)
(***************************************************************************)
EXTENDS Integers, FiniteSets

CONSTANTS Cpus, Frames, Forker, Child, None,
          MaxForks, MaxDiscards   \* bounds

ASSUME SpaceAssumption ==
  /\ Forker # Child /\ None \notin Cpus \cup Frames \cup {Forker, Child}
  /\ MaxForks \in Nat /\ MaxDiscards \in Nat

Spaces == {Forker, Child}
Kernel == None                  \* the kernel root: no user translation

VARIABLES
  pte,       \* [Spaces -> the entry for the page, NoPte if not present]
  lazy,      \* [Spaces -> region.lazy_pages: the frame, None if absent]
  cow,       \* [Spaces -> region.cow]
  refs,      \* [Frames -> 0: free; else pageref::get]
  alive,     \* the address spaces that exist
  busy,      \* [Spaces -> the CPU that holds the busy flag, or None]
  cowlock,   \* the CPU that holds COW_LOCK, or None
  cr3, slot, \* [Cpus -> the loaded root], [Cpus -> LOADED_ROOT]
  tlb,       \* [Cpus -> the cached entry, NoPte if none]
  ask,       \* [Cpus -> FLUSH_REQ]
  ipi,       \* [Cpus -> the shootdown IPI is pending]
  cpu,       \* [Cpus -> what it runs]
  forks, discards

spaceVars == <<pte, lazy, cow, refs, alive, busy, cowlock, cr3, slot, tlb, ask, ipi, cpu, forks, discards>>
space == <<pte, lazy, cow, refs, alive, forks, discards>>
locks == <<busy, cowlock>>
mmu == <<cr3, slot, tlb>>
flags == <<ask, ipi>>

NoPte == [f |-> None, w |-> FALSE]
Entry(f, w) == [f |-> f, w |-> w]

(* pc "idle": the scheduler, on the kernel root.  `op` is the operation in *)
(* the kernel, `todo` the CPUs flush_remote has not looked at, `wait` the  *)
(* ones whose acknowledgement it waits for, `old` the frame to release.    *)
Idle == [pc |-> "idle", as |-> None, op |-> "none", todo |-> {}, wait |-> {}, old |-> None, new |-> None]

SpaceInit ==
  /\ pte = [a \in Spaces |-> NoPte] /\ lazy = [a \in Spaces |-> None]
  /\ cow = [a \in Spaces |-> FALSE] /\ refs = [f \in Frames |-> 0]
  /\ alive = {Forker}
  /\ busy = [a \in Spaces |-> None] /\ cowlock = None
  /\ cr3 = [c \in Cpus |-> Kernel] /\ slot = [c \in Cpus |-> Kernel]
  /\ tlb = [c \in Cpus |-> NoPte]
  /\ ask = [c \in Cpus |-> FALSE] /\ ipi = [c \in Cpus |-> FALSE]
  /\ cpu = [c \in Cpus |-> Idle]
  /\ forks = 0 /\ discards = 0

MoveTo(c, p) == cpu' = [cpu EXCEPT ![c].pc = p]

(* pageref.rs: an untracked frame has one owner.  dec never frees. *)
Inc(f) == [refs EXCEPT ![f] = @ + 1]
Dec(f) == [refs EXCEPT ![f] = IF @ > 1 THEN @ - 1 ELSE @]
unref_or_free(f) == [refs EXCEPT ![f] = @ - 1]

-----------------------------------------------------------------------------
(* The scheduler switches a CPU to a thread of space `a`: the slot is      *)
(* published, then CR3 written.  Siblings of a forking thread are held off *)
(* the CPUs (quiesce_thread_group: module Dispatch).                       *)
Forking(a) == \E c \in Cpus : cpu[c].op = "fork" /\ cpu[c].as = a

arch_set_page_table(c) ==
  /\ \/ /\ cpu[c].pc = "idle"
        /\ \E a \in alive : /\ ~Forking(a)
                            /\ cpu' = [cpu EXCEPT ![c].pc = "publish", ![c].as = a]
                            /\ slot' = [slot EXCEPT ![c] = a]
        /\ UNCHANGED <<cr3, tlb>>
     \/ /\ cpu[c].pc = "publish"
        /\ cr3' = [cr3 EXCEPT ![c] = cpu[c].as]
        /\ tlb' = [tlb EXCEPT ![c] = NoPte]
        /\ slot' = slot
        /\ MoveTo(c, "user")
  /\ UNCHANGED <<space, locks, flags>>

(* Back to the scheduler: CR3 first, then the slot. *)
arch_load_kernel_page_table(c) ==
  /\ \/ /\ cpu[c].pc = "kern"
        /\ cr3' = [cr3 EXCEPT ![c] = Kernel]
        /\ tlb' = [tlb EXCEPT ![c] = NoPte]
        /\ slot' = slot
        /\ MoveTo(c, "leave")
     \/ /\ cpu[c].pc = "leave"
        /\ slot' = [slot EXCEPT ![c] = Kernel]
        /\ cpu' = [cpu EXCEPT ![c] = Idle]
        /\ UNCHANGED <<cr3, tlb>>
  /\ UNCHANGED <<space, locks, flags>>

(* The hardware walker caches the present entry of the loaded root. *)
Walk(c) ==
  /\ cr3[c] # Kernel /\ tlb[c] = NoPte /\ pte[cr3[c]] # NoPte
  /\ tlb' = [tlb EXCEPT ![c] = pte[cr3[c]]]
  /\ UNCHANGED <<space, locks, cr3, slot, flags, cpu>>

(* A system call or interrupt enters the kernel, which runs with           *)
(* interrupts masked; the return to user mode takes a pending IPI first.   *)
EnterKernel(c) ==
  /\ cpu[c].pc = "user" /\ MoveTo(c, "kern")
  /\ UNCHANGED <<space, locks, mmu, flags>>

ReturnToUser(c) ==
  /\ cpu[c].pc = "kern" /\ ~ipi[c] /\ MoveTo(c, "user")
  /\ UNCHANGED <<space, locks, mmu, flags>>

-----------------------------------------------------------------------------
(* Flushes.  A target that bumps FLUSH_GEN is no longer waited for by any  *)
(* initiator that had read the older generation.                           *)
Acked(c) == [i \in Cpus |-> [cpu[i] EXCEPT !.wait = @ \ {c}]]

(* The IPI handler: interrupts are taken in user mode, in the idle loop,   *)
(* and at the return to user mode.                                         *)
tlb_shootdown_irq_body(c) ==
  /\ ipi[c] /\ cpu[c].pc \in {"user", "idle", "kern"}
  /\ ipi' = [ipi EXCEPT ![c] = FALSE]
  /\ ask' = [ask EXCEPT ![c] = FALSE]
  /\ cpu' = Acked(c)
  /\ tlb' = [tlb EXCEPT ![c] = NoPte]
  /\ UNCHANGED <<space, locks, cr3, slot>>

(* A spinner on the busy flag, or a waiting initiator, answers a request. *)
service_flush(c) ==
  /\ ask[c] /\ cpu[c].pc \in {"lock", "flush"}
  /\ ask' = [ask EXCEPT ![c] = FALSE]
  /\ cpu' = Acked(c)
  /\ tlb' = [tlb EXCEPT ![c] = NoPte]
  /\ UNCHANGED <<space, locks, cr3, slot, ipi>>

(* flush_remote looks at one CPU's slot: if it has the root, its flush is  *)
(* requested, the IPI sent, and its acknowledgement awaited.               *)
FlushPick(c) ==
  /\ cpu[c].pc = "flush"
  /\ \E t \in cpu[c].todo :
       LET hit == slot[t] = cpu[c].as
       IN  /\ cpu' = [cpu EXCEPT ![c].todo = @ \ {t},
                                 ![c].wait = IF hit THEN @ \cup {t} ELSE @]
           /\ ask' = [ask EXCEPT ![t] = @ \/ hit]
           /\ ipi' = [ipi EXCEPT ![t] = @ \/ hit]
  /\ UNCHANGED <<space, locks, mmu>>

(* A target that left the root needs no flush. *)
FlushLeft(c) ==
  /\ cpu[c].pc = "flush"
  /\ \E t \in cpu[c].wait :
       /\ slot[t] # cpu[c].as
       /\ cpu' = [cpu EXCEPT ![c].wait = @ \ {t}]
  /\ UNCHANGED <<space, locks, mmu, flags>>

(* Everyone acknowledged, or ACK_SPINS ran out on CPUs that stay in the    *)
(* kernel with interrupts masked.                                          *)
FlushEnd(c) ==
  /\ cpu[c].pc = "flush" /\ cpu[c].todo = {}
  /\ \A t \in cpu[c].wait : cpu[t].pc = "kern"
  /\ cpu' = [cpu EXCEPT ![c].pc = "finish", ![c].wait = {}]
  /\ UNCHANGED <<space, locks, mmu, flags>>

(* The start of arch_tlb_flush_range: the local entry goes at once. *)
Flushing(c, op, old, new) ==
  /\ tlb' = [tlb EXCEPT ![c] = NoPte]
  /\ cpu' = [cpu EXCEPT ![c].pc = "flush", ![c].op = op, ![c].todo = Cpus \ {c},
                        ![c].wait = {}, ![c].old = old, ![c].new = new]

-----------------------------------------------------------------------------
(* Operations, under the busy flag of the caller's space.                  *)
Begin(c, op) ==
  /\ cpu[c].pc = "user"
  /\ cpu' = [cpu EXCEPT ![c].pc = "lock", ![c].op = op]
  /\ UNCHANGED <<space, locks, mmu, flags>>

(* A store faults unless a writable translation is cached (a stale         *)
(* read-only one faults too, and finds the entry writable).                *)
WriteFault(c) == ~tlb[c].w /\ Begin(c, "fault")
Madvise(c) == discards < MaxDiscards /\ Begin(c, "discard")

(* Fork: the thread group is quiesced first, the caller alone runs. *)
ForkSpace(c) ==
  /\ cpu[c].as = Forker /\ Child \notin alive /\ forks < MaxForks
  /\ \A d \in Cpus \ {c} : cpu[d].as # Forker
  /\ Begin(c, "fork")

LockSpace(c) ==
  /\ cpu[c].pc = "lock" /\ busy[cpu[c].as] = None
  /\ busy' = [busy EXCEPT ![cpu[c].as] = c]
  /\ MoveTo(c, "locked")
  /\ UNCHANGED <<space, cowlock, mmu, flags>>

Unlocked(c) ==
  /\ busy' = [busy EXCEPT ![cpu[c].as] = None]
  /\ cowlock' = IF cowlock = c THEN None ELSE cowlock
  /\ cpu' = [cpu EXCEPT ![c] = [Idle EXCEPT !.pc = "kern", !.as = cpu[c].as]]

(* No frame yet: a zeroed one, mapped writable. *)
FaultAbsent(c) ==
  LET a == cpu[c].as
  IN  /\ cpu[c].pc = "locked" /\ cpu[c].op = "fault" /\ lazy[a] = None
      /\ \E f \in Frames : /\ refs[f] = 0
                           /\ refs' = [refs EXCEPT ![f] = 1]
                           /\ lazy' = [lazy EXCEPT ![a] = f]
                           /\ pte' = [pte EXCEPT ![a] = Entry(f, TRUE)]
      /\ Unlocked(c)
      /\ UNCHANGED <<cow, alive, forks, discards, mmu, flags>>

(* A sibling was first, or the allocator has no frame: back to user mode. *)
FaultHandled(c) ==
  LET a == cpu[c].as
  IN  /\ cpu[c].pc = "locked" /\ cpu[c].op = "fault"
      /\ lazy[a] = None \/ ~cow[a]
      /\ Unlocked(c)
      /\ UNCHANGED <<space, mmu, flags>>

TakeCowLock(c) ==
  LET a == cpu[c].as
  IN  /\ cpu[c].pc = "locked" /\ cowlock = None
      /\ \/ cpu[c].op = "fault" /\ lazy[a] # None /\ cow[a]
         \/ cpu[c].op = "fork"
      /\ cowlock' = c
      /\ MoveTo(c, "cow")
      /\ UNCHANGED <<space, busy, mmu, flags>>

(* Promotion, sole owner: writable in place, a local flush only. *)
PromoteReuse(c) ==
  LET a == cpu[c].as
  IN  /\ cpu[c].pc = "cow" /\ cpu[c].op = "fault" /\ refs[lazy[a]] <= 1
      /\ pte' = [pte EXCEPT ![a] = Entry(lazy[a], TRUE)]
      /\ tlb' = [tlb EXCEPT ![c] = NoPte]
      /\ Unlocked(c)
      /\ UNCHANGED <<lazy, cow, refs, alive, forks, discards, cr3, slot, flags>>

(* Promotion, shared: copy, break the entry, flush, then install. *)
PromoteCopy(c) ==
  LET a == cpu[c].as
  IN  /\ cpu[c].pc = "cow" /\ cpu[c].op = "fault" /\ refs[lazy[a]] > 1
      /\ \E f \in Frames : /\ refs[f] = 0
                           /\ refs' = [refs EXCEPT ![f] = 1]
                           /\ pte' = [pte EXCEPT ![a] = NoPte]
                           /\ Flushing(c, "promote", lazy[a], f)
      /\ UNCHANGED <<lazy, cow, alive, forks, discards, locks, cr3, slot, flags>>

(* ... or the allocator, which others use too, has none: the fault fails. *)
PromoteNoMemory(c) ==
  /\ cpu[c].pc = "cow" /\ cpu[c].op = "fault" /\ refs[lazy[cpu[c].as]] > 1
  /\ Unlocked(c)
  /\ UNCHANGED <<space, mmu, flags>>

(* The copy is installed; the old frame loses this owner. *)
PromoteEnd(c) ==
  LET a == cpu[c].as
  IN  /\ cpu[c].pc = "finish" /\ cpu[c].op = "promote"
      /\ pte' = [pte EXCEPT ![a] = Entry(cpu[c].new, TRUE)]
      /\ lazy' = [lazy EXCEPT ![a] = cpu[c].new]
      /\ refs' = Dec(cpu[c].old)
      /\ Unlocked(c)
      /\ UNCHANGED <<cow, alive, forks, discards, mmu, flags>>

(* The region stays: clear the entry, flush, and only then release the     *)
(* frame.  unmap_range keeps the same order.                               *)
DiscardReleasesFirst(c) ==
  LET a == cpu[c].as
  IN  /\ cpu[c].pc = "locked" /\ cpu[c].op = "discard" /\ lazy[a] # None
      /\ pte' = [pte EXCEPT ![a] = NoPte] /\ lazy' = [lazy EXCEPT ![a] = None]
      /\ refs' = unref_or_free(lazy[a])
      /\ discards' = discards + 1
      /\ Flushing(c, "none", None, None)
      /\ UNCHANGED <<cow, alive, forks, locks, cr3, slot, flags>>

discard_range(c) ==
  LET a == cpu[c].as
  IN  /\ cpu[c].pc = "locked" /\ cpu[c].op = "discard" /\ lazy[a] # None
      /\ pte' = [pte EXCEPT ![a] = NoPte] /\ lazy' = [lazy EXCEPT ![a] = None]
      /\ discards' = discards + 1
      /\ Flushing(c, "discard", lazy[a], None)
      /\ UNCHANGED <<cow, refs, alive, forks, locks, cr3, slot, flags>>

(* No page was present: no flush. *)
DiscardNothing(c) ==
  /\ cpu[c].pc = "locked" /\ cpu[c].op = "discard" /\ lazy[cpu[c].as] = None
  /\ Unlocked(c)
  /\ UNCHANGED <<space, mmu, flags>>

DiscardEnd(c) ==
  /\ cpu[c].pc = "finish" /\ cpu[c].op = "discard"
  /\ refs' = unref_or_free(cpu[c].old)
  /\ Unlocked(c)
  /\ UNCHANGED <<pte, lazy, cow, alive, forks, discards, mmu, flags>>

(* clone_as: both sides map the frame read-only, then the parent's root is *)
(* flushed; the child exists when it returns.                              *)
clone_as(c) ==
  LET f == lazy[Forker]
  IN  /\ cpu[c].pc = "cow" /\ cpu[c].op = "fork"
      /\ lazy' = [lazy EXCEPT ![Child] = f]
      /\ pte' = IF f = None THEN pte ELSE [a \in Spaces |-> Entry(f, FALSE)]
      /\ refs' = IF f = None THEN refs ELSE Inc(f)
      /\ cow' = [a \in Spaces |-> TRUE]
      /\ forks' = forks + 1
      /\ Flushing(c, "fork", None, None)
      /\ UNCHANGED <<alive, discards, locks, cr3, slot, flags>>

ForkEnd(c) ==
  /\ cpu[c].pc = "finish" /\ cpu[c].op = "fork"
  /\ alive' = alive \cup {Child}
  /\ Unlocked(c)
  /\ UNCHANGED <<pte, lazy, cow, refs, forks, discards, mmu, flags>>

(* The last thread of the child is gone: its address space is dropped,     *)
(* its frames released without COW_LOCK.                                   *)
Drop ==
  /\ Child \in alive /\ \A c \in Cpus : cpu[c].as # Child
  /\ alive' = alive \ {Child}
  /\ refs' = IF lazy[Child] = None THEN refs ELSE unref_or_free(lazy[Child])
  /\ lazy' = [lazy EXCEPT ![Child] = None] /\ pte' = [pte EXCEPT ![Child] = NoPte]
  /\ cow' = [cow EXCEPT ![Child] = FALSE]
  /\ UNCHANGED <<locks, mmu, flags, cpu, forks, discards>>

-----------------------------------------------------------------------------
Step(c) ==
  \/ arch_set_page_table(c) \/ arch_load_kernel_page_table(c) \/ Walk(c)
  \/ EnterKernel(c) \/ ReturnToUser(c)
  \/ tlb_shootdown_irq_body(c) \/ service_flush(c)
  \/ FlushPick(c) \/ FlushLeft(c) \/ FlushEnd(c)
  \/ WriteFault(c) \/ Madvise(c) \/ ForkSpace(c) \/ LockSpace(c)
  \/ FaultAbsent(c) \/ FaultHandled(c) \/ TakeCowLock(c)
  \/ PromoteReuse(c) \/ PromoteCopy(c) \/ PromoteNoMemory(c) \/ PromoteEnd(c)
  \/ discard_range(c) \/ DiscardNothing(c) \/ DiscardEnd(c)
  \/ clone_as(c) \/ ForkEnd(c)

SpaceNext == Drop \/ \E c \in Cpus : Step(c)

SpaceSpec == SpaceInit /\ [][SpaceNext]_spaceVars

-----------------------------------------------------------------------------
(* The frames space `a` still owns: its page, and the one an operation on  *)
(* it has unmapped and not released yet.                                   *)
Held(a) == {lazy[a]} \cup {cpu[c].old : c \in {d \in Cpus : cpu[d].as = a}}

(* No user store reaches a frame its address space does not own alone, and *)
(* no user access a frame it does not own: whatever translation a CPU in   *)
(* user mode has cached, its frame has not been released ("until every CPU *)
(* has dropped its translation, a sibling thread can still write through   *)
(* it"), a writable one is not mapped by the other process, and once the   *)
(* space is unlocked it is the current one.                                *)
NoStaleTranslation ==
  \A c \in Cpus : cpu[c].pc = "user" /\ tlb[c] # NoPte =>
    LET a == cr3[c]
    IN  /\ tlb[c].f \in Held(a)
        /\ tlb[c].w => \A b \in Spaces \ {a} : lazy[b] # tlb[c].f
        /\ busy[a] = None => tlb[c].f = lazy[a]

Owners(f) == {a \in Spaces : f \in Held(a)}

(* "freeing it back to the buddy allocator only if this was the last       *)
(* reference": a frame nobody has is free.                                 *)
NoFrameLost ==
  \A f \in Frames : refs[f] # 0 =>
    \/ Owners(f) # {}
    \/ \E c \in Cpus : cpu[c].new = f
=============================================================================
