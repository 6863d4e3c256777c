--------------------------- MODULE AddrSpaceProofs --------------------------
(***************************************************************************)
(* Proof that no CPU keeps using a translation its address space has given up, *)
(* for any number of CPUs, frames, forks and discards.                        *)
(***************************************************************************)
EXTENDS AddrSpace, TLAPS

(* First-order reasoning suffices unless a step names another prover. *)
USE Zenon

Inside == {"user", "kern", "lock", "locked", "cow", "flush", "finish"}
Flushes(c) == cpu[c].pc \in {"flush", "finish"}

(* A CPU that took the page of its space away and still has the frame. *)
Breaks(c) == Flushes(c) /\ cpu[c].op \in {"promote", "discard"}
Discards(c) == Flushes(c) /\ cpu[c].op = "discard"
Promotes(c) == Flushes(c) /\ cpu[c].op = "promote"

Own(a, f) == lazy[a] = f \/ \E c \in Cpus : cpu[c].as = a /\ Discards(c) /\ cpu[c].old = f

PcType == {"idle", "publish", "leave"} \cup Inside
OpType == {"none", "fault", "discard", "fork", "promote"}
FrameOr == Frames \cup {None}
CpuType == [pc : PcType, as : Spaces \cup {None}, op : OpType, todo : SUBSET Cpus, wait : SUBSET Cpus,
            old : FrameOr, new : FrameOr]
PteType == [f : FrameOr, w : BOOLEAN]

Types ==
  /\ pte \in [Spaces -> PteType] /\ lazy \in [Spaces -> FrameOr] /\ refs \in [Frames -> Nat]
  /\ alive \in SUBSET Spaces /\ Forker \in alive
  /\ cr3 \in [Cpus -> Spaces \cup {None}] /\ slot \in [Cpus -> Spaces \cup {None}]
  /\ tlb \in [Cpus -> PteType] /\ cpu \in [Cpus -> CpuType]
  /\ busy \in [Spaces -> Cpus \cup {None}]
  /\ ask \in [Cpus -> BOOLEAN] /\ ipi \in [Cpus -> BOOLEAN]

(* A CPU that runs a thread has its root in the slot, and in CR3 between the     *)
(* switches; with the kernel's root it caches nothing.                        *)
RootOK(c) ==
  /\ cpu[c].as = None <=> cpu[c].pc = "idle"
  /\ cpu[c].as # None => slot[c] = cpu[c].as /\ cpu[c].as \in alive
  /\ cr3[c] = IF cpu[c].pc \in Inside THEN cpu[c].as ELSE None
  /\ cr3[c] = None => tlb[c] = NoPte
  /\ tlb[c] # NoPte => tlb[c].f \in Frames

RootsOK == \A c \in Cpus : RootOK(c)

Holds(c) == cpu[c].pc \in {"locked", "cow", "flush", "finish"}

(* What each stage of an operation has established. *)
StageOK(c) ==
  /\ cpu[c].op = "none" <=> cpu[c].pc \in {"idle", "publish", "leave", "user", "kern"}
  /\ cpu[c].pc \in {"lock", "locked"} => cpu[c].op \in {"fault", "discard", "fork"}
  /\ cpu[c].pc = "cow" => cpu[c].op \in {"fork", "fault"} /\ (cpu[c].op = "fault" => lazy[cpu[c].as] # None)
  /\ Flushes(c) => cpu[c].op \in {"promote", "discard", "fork"}
  /\ Holds(c) => busy[cpu[c].as] = c
  /\ Breaks(c) => cpu[c].old \in Frames /\ pte[cpu[c].as] = NoPte
  /\ Discards(c) => lazy[cpu[c].as] = None
  /\ Promotes(c) => cpu[c].old = lazy[cpu[c].as] /\ cpu[c].new \in Frames
  /\ cpu[c].pc # "flush" => cpu[c].wait = {}
  /\ \A t \in cpu[c].wait : ipi[t]

StagesOK == \A c \in Cpus : StageOK(c)

(* A thread that forks runs alone, and its child does not run yet. *)
ForkAlone(c) ==
  cpu[c].op = "fork" => /\ cpu[c].as = Forker /\ Child \notin alive
                        /\ \A d \in Cpus \ {c} : cpu[d].as # Forker
ForksNow == \E c \in Cpus : Flushes(c) /\ cpu[c].op = "fork"
ForksOK ==
  /\ \A c \in Cpus : ForkAlone(c)
  /\ Child \notin alive /\ ~ForksNow => lazy[Child] = None /\ pte[Child] = NoPte

(* An entry is that of the space's page; a writable one is of a page that only   *)
(* its space has.                                                            *)
PtesOK ==
  \A a \in Spaces : pte[a] # NoPte =>
    /\ pte[a].f = lazy[a] /\ lazy[a] # None
    /\ pte[a].w => \A b \in Spaces \ {a} : ~Own(b, lazy[a])

(* A reference for each space that has the frame, and one for a copy not yet     *)
(* installed, which nobody else has.                                         *)
RefsOK ==
  /\ \A f \in Frames, a \in Spaces : Own(a, f) => refs[f] >= 1
  /\ \A f \in Frames : Own(Forker, f) /\ Own(Child, f) => refs[f] >= 2
  /\ \A c \in Cpus : Promotes(c) =>
       /\ refs[cpu[c].new] >= 1
       /\ \A a \in Spaces : ~Own(a, cpu[c].new)
       /\ \A d \in Cpus \ {c} : Promotes(d) => cpu[d].new # cpu[c].new

(* A CPU that will flush before it returns to user mode. *)
Confined(d) == cpu[d].pc = "kern" /\ ipi[d]

(* A cached translation is the current one, at most weaker; or the CPU that    *)
(* broke it still waits for the flush; or it is confined.                      *)
Current(d) == tlb[d].f = lazy[cr3[d]] /\ (tlb[d].w => pte[cr3[d]].w)
Awaited(c, d) ==
  /\ cpu[c].pc = "flush" /\ d \in cpu[c].todo \cup cpu[c].wait
  /\ tlb[d].f = cpu[c].old
  /\ tlb[d].w => \A b \in Spaces \ {cr3[d]} : ~Own(b, cpu[c].old)
TlbOK(d) ==
  tlb[d] # NoPte /\ ~Confined(d) =>
    /\ (\A c \in Cpus : ~(Breaks(c) /\ cpu[c].as = cr3[d])) => Current(d)
    /\ \A c \in Cpus : Breaks(c) /\ cpu[c].as = cr3[d] => Awaited(c, d)
TlbsOK == \A d \in Cpus : TlbOK(d)

SInv == Types /\ RootsOK /\ StagesOK /\ ForksOK /\ PtesOK /\ RefsOK /\ TlbsOK
-----------------------------------------------------------------------------
(* A step that moves no page: whoever broke an entry goes on. *)
Still ==
  /\ pte' = pte /\ lazy' = lazy /\ refs' = refs
  /\ \A e \in Cpus : /\ Breaks(e)' <=> Breaks(e)
                     /\ Breaks(e) => /\ cpu'[e].as = cpu[e].as /\ cpu'[e].op = cpu[e].op
                                     /\ cpu'[e].old = cpu[e].old /\ cpu'[e].new = cpu[e].new

(* Which frames a space has does not change in such a step. *)
LEMMA StillOwn ==
  ASSUME Still, NEW a, NEW f
  PROVE  Own(a, f)' <=> Own(a, f)
<1>1. \A e \in Cpus : /\ Discards(e)' <=> Discards(e)
                      /\ Discards(e) => cpu'[e].as = cpu[e].as /\ cpu'[e].old = cpu[e].old
  BY DEF Still, Breaks, Discards, Flushes
<1>2. QED
  BY <1>1 DEF Own, Still

LEMMA StillKeeps ==
  ASSUME PtesOK, RefsOK, Still
  PROVE  PtesOK' /\ RefsOK'
<1>1. \A a, f : Own(a, f)' <=> Own(a, f)
  BY StillOwn
<1>2. pte' = pte /\ lazy' = lazy /\ refs' = refs
  BY DEF Still
<1>3. \A e \in Cpus : /\ Promotes(e)' <=> Promotes(e)
                      /\ Promotes(e) => cpu'[e].new = cpu[e].new
  BY DEF Still, Breaks, Promotes, Flushes
<1>4. PtesOK'
  <2>1. ASSUME NEW a \in Spaces, NEW b \in Spaces
        PROVE  Own(b, lazy[a])' <=> Own(b, lazy[a])
    <3>1. \A e \in Cpus : /\ Discards(e)' <=> Discards(e)
                          /\ Discards(e) => cpu'[e].as = cpu[e].as /\ cpu'[e].old = cpu[e].old
      BY DEF Still, Breaks, Discards, Flushes
    <3>2. QED
      BY <3>1, <1>2 DEF Own
  <2>2. QED
    BY <2>1, <1>2 DEF PtesOK, NoPte, Spaces
<1>5. RefsOK'
  <2>1. ASSUME NEW c \in Cpus, Promotes(c)', NEW a \in Spaces
        PROVE  ~Own(a, cpu[c].new)'
    <3>1. \A e \in Cpus : /\ Discards(e)' <=> Discards(e)
                          /\ Discards(e) => cpu'[e].as = cpu[e].as /\ cpu'[e].old = cpu[e].old
      BY DEF Still, Breaks, Discards, Flushes
    <3>2. ~Own(a, cpu[c].new) /\ cpu'[c].new = cpu[c].new
      BY <2>1, <1>3 DEF RefsOK
    <3>3. QED
      BY <3>1, <3>2, <1>2 DEF Own
  <2>2. \A f \in Frames, a \in Spaces : Own(a, f)' => refs'[f] >= 1
    BY <1>1, <1>2 DEF RefsOK
  <2>3. \A f \in Frames : Own(Forker, f)' /\ Own(Child, f)' => refs'[f] >= 2
    BY <1>1, <1>2 DEF RefsOK
  <2>4. \A c \in Cpus : Promotes(c)' => /\ refs'[cpu'[c].new] >= 1
                                        /\ \A d \in Cpus \ {c} : Promotes(d)' => cpu'[d].new # cpu'[c].new
    BY <1>2, <1>3 DEF RefsOK
  <2>5. QED
    BY <2>1, <2>2, <2>3, <2>4 DEF RefsOK
<1>6. QED
  BY <1>4, <1>5

(* Its effect on one CPU's cached entry. *)
LEMMA StillTlb ==
  ASSUME Still, NEW d \in Cpus, TlbOK(d),
         \/ tlb'[d] = NoPte
         \/ /\ tlb'[d] = tlb[d] /\ cr3'[d] = cr3[d]
            /\ Confined(d) => Confined(d)'
            /\ \A e \in Cpus : Breaks(e) /\ cpu[e].as = cr3[d] /\ Awaited(e, d) =>
                 \/ Confined(d)'
                 \/ cpu'[e].pc = "flush" /\ d \in cpu'[e].todo \cup cpu'[e].wait
  PROVE  TlbOK(d)'
<1>1. CASE tlb'[d] = NoPte
  BY <1>1 DEF TlbOK, NoPte
<1>2. CASE tlb'[d] # NoPte /\ ~Confined(d)'
  <2>1. tlb'[d] = tlb[d] /\ cr3'[d] = cr3[d] /\ ~Confined(d) /\ tlb[d] # NoPte
    BY <1>2
  <2>2. pte' = pte /\ lazy' = lazy
    BY DEF Still
  <2>3. \A e \in Cpus : /\ Breaks(e)' <=> Breaks(e)
                        /\ Breaks(e) => cpu'[e].as = cpu[e].as /\ cpu'[e].old = cpu[e].old
    BY DEF Still
  <2>4. ASSUME \A e \in Cpus : ~(Breaks(e)' /\ cpu'[e].as = cr3'[d]) PROVE Current(d)'
    BY <2>1, <2>2, <2>3, <2>4 DEF TlbOK, Current
  <2>5. ASSUME NEW e \in Cpus, Breaks(e)', cpu'[e].as = cr3'[d] PROVE Awaited(e, d)'
    <3>1. Breaks(e) /\ cpu[e].as = cr3[d] /\ cpu'[e].old = cpu[e].old
      BY <2>1, <2>3, <2>5
    <3>2. Awaited(e, d)
      BY <2>1, <3>1 DEF TlbOK
    <3>3. cpu'[e].pc = "flush" /\ d \in cpu'[e].todo \cup cpu'[e].wait
      BY <1>2, <2>1, <3>1, <3>2
    <3>4. \A b : Own(b, cpu[e].old)' <=> Own(b, cpu[e].old)
      <4>1. \A g \in Cpus : /\ Discards(g)' <=> Discards(g)
                            /\ Discards(g) => cpu'[g].as = cpu[g].as /\ cpu'[g].old = cpu[g].old
        BY DEF Still, Breaks, Discards, Flushes
      <4>2. QED
        BY <4>1, <3>1, <2>2 DEF Own
    <3>5. QED
      BY <2>1, <3>1, <3>2, <3>3, <3>4 DEF Awaited
  <2>6. QED
    BY <2>4, <2>5 DEF TlbOK
<1>3. QED
  BY <1>1, <1>2 DEF TlbOK, NoPte

-----------------------------------------------------------------------------
(* CPU `c` goes to stage `p` of operation `o`, outside the flushes. *)
Shift(c, p, o) ==
  /\ cpu' \in [Cpus -> CpuType]
  /\ \A d \in Cpus \ {c} : cpu'[d] = cpu[d]
  /\ cpu'[c].pc = p /\ cpu'[c].op = o /\ cpu'[c].as = cpu[c].as /\ cpu'[c].wait = {}

LEMMA Moved ==
  ASSUME Types, StagesOK, NEW c \in Cpus, NEW p \in PcType, cpu[c].pc # "flush", MoveTo(c, p)
  PROVE  Shift(c, p, cpu[c].op)
<1>1. cpu[c] \in CpuType /\ cpu[c].wait = {}
  BY DEF Types, StagesOK, StageOK
<1>2. PICK z : z = [cpu[c] EXCEPT !.pc = p]
  OBVIOUS
<1>3. /\ z \in CpuType /\ z.pc = p /\ z.op = cpu[c].op /\ z.as = cpu[c].as /\ z.wait = cpu[c].wait
      /\ z.todo = cpu[c].todo /\ z.old = cpu[c].old /\ z.new = cpu[c].new
  BY <1>1, <1>2 DEF CpuType
<1>4. cpu' = [cpu EXCEPT ![c] = z]
  BY <1>2 DEF MoveTo
<1>5. QED
  BY <1>1, <1>3, <1>4 DEF Shift, Types

LEMMA Begun ==
  ASSUME Types, StagesOK, NEW c \in Cpus, NEW o \in OpType, Begin(c, o)
  PROVE  Shift(c, "lock", o)
<1>1. cpu[c] \in CpuType /\ cpu[c].wait = {}
  BY DEF Types, StagesOK, StageOK, Begin
<1>2. PICK z : z = [cpu[c] EXCEPT !.pc = "lock", !.op = o]
  OBVIOUS
<1>3. /\ z \in CpuType /\ z.pc = "lock" /\ z.op = o /\ z.as = cpu[c].as /\ z.wait = cpu[c].wait
  BY <1>1, <1>2 DEF CpuType, PcType, Inside
<1>4. cpu' = [cpu EXCEPT ![c] = z]
  BY <1>2 DEF Begin
<1>5. QED
  BY <1>1, <1>3, <1>4 DEF Shift, Types

LEMMA Released ==
  ASSUME Types, NEW c \in Cpus, Unlocked(c)
  PROVE  Shift(c, "kern", "none") /\ cpu'[c].todo = {} /\ cpu'[c].old = None /\ cpu'[c].new = None
<1>1. cpu[c] \in CpuType
  BY DEF Types
<1>2. PICK z : z = [Idle EXCEPT !.pc = "kern", !.as = cpu[c].as]
  OBVIOUS
<1>3. /\ z \in CpuType /\ z.pc = "kern" /\ z.op = "none" /\ z.as = cpu[c].as /\ z.wait = {}
      /\ z.todo = {} /\ z.old = None /\ z.new = None
  BY <1>1, <1>2 DEF CpuType, PcType, Inside, Idle, OpType, FrameOr
<1>4. cpu' = [cpu EXCEPT ![c] = z]
  BY <1>2 DEF Unlocked
<1>5. QED
  BY <1>3, <1>4 DEF Shift, Types

(* A step inside an operation, or between two, that touches neither the page nor  *)
(* the translation registers.                                                *)
LEMMA InnerStep ==
  ASSUME SInv, NEW c \in Cpus, NEW p \in Inside \ {"flush", "finish"}, NEW o \in OpType,
         cpu[c].pc \in Inside \ {"flush", "finish"}, ~Confined(c), Shift(c, p, o),
         UNCHANGED <<space, mmu, flags>>,
         busy' \in [Spaces -> Cpus \cup {None}],
         \A d \in Cpus \ {c} : Holds(d) => busy'[cpu[d].as] = d,
         StageOK(c)', o = "fork" => cpu[c].op = "fork" \/ ForkAlone(c)'
  PROVE  SInv'
<1> USE DEF SInv
<1>1. /\ pte' = pte /\ lazy' = lazy /\ refs' = refs /\ alive' = alive /\ cr3' = cr3 /\ slot' = slot
      /\ tlb' = tlb /\ ask' = ask /\ ipi' = ipi
  BY DEF space, mmu, flags
<1>2. \A d \in Cpus \ {c} : cpu'[d] = cpu[d]
  BY DEF Shift
<1>3. cpu'[c].pc = p /\ cpu'[c].op = o /\ cpu'[c].as = cpu[c].as
  BY DEF Shift
<1>4. ~Flushes(c) /\ ~Flushes(c)'
  BY <1>3 DEF Flushes
<1>5. Still
  BY <1>1, <1>2, <1>4 DEF Still, Breaks, Flushes
<1>6. Types'
  BY <1>1 DEF Types, Shift
<1>7. RootsOK'
  <2>1. ASSUME NEW d \in Cpus PROVE RootOK(d)'
    <3>1. CASE d = c
      BY <3>1, <1>1, <1>3 DEF RootsOK, RootOK, Inside
    <3>2. CASE d # c
      BY <3>2, <1>1, <1>2, ZenonT(30) DEF RootsOK, RootOK
    <3>3. QED
      BY <3>1, <3>2
  <2>2. QED
    BY <2>1 DEF RootsOK
<1>8. StagesOK'
  <2>1. ASSUME NEW d \in Cpus, d # c PROVE StageOK(d)'
    BY <2>1, <1>1, <1>2, SMT DEF StagesOK, StageOK, Holds, Flushes, Breaks, Discards, Promotes
  <2>2. QED
    BY <2>1 DEF StagesOK
<1>9. ForksOK'
  <2>1. ASSUME NEW d \in Cpus PROVE ForkAlone(d)'
    <3>1. CASE d = c
      BY <3>1, <1>1, <1>2, <1>3 DEF ForksOK, ForkAlone
    <3>2. CASE d # c
      BY <3>2, <1>1, <1>2, <1>3, ZenonT(30) DEF ForksOK, ForkAlone
    <3>3. QED
      BY <3>1, <3>2
  <2>2. ForksNow' <=> ForksNow
    BY <1>2, <1>4 DEF ForksNow, Flushes
  <2>3. QED
    BY <2>1, <2>2, <1>1 DEF ForksOK
<1>10. PtesOK' /\ RefsOK'
  BY <1>5, StillKeeps
<1>11. TlbsOK'
  <2>1. ASSUME NEW d \in Cpus PROVE TlbOK(d)'
    <3>1. TlbOK(d)
      BY DEF TlbsOK
    <3>2. tlb'[d] = tlb[d] /\ cr3'[d] = cr3[d]
      BY <1>1
    <3>3. Confined(d) => Confined(d)'
      BY <1>1, <1>2 DEF Confined
    <3>4. \A e \in Cpus : Breaks(e) /\ cpu[e].as = cr3[d] /\ Awaited(e, d) =>
                 \/ Confined(d)'
                 \/ cpu'[e].pc = "flush" /\ d \in cpu'[e].todo \cup cpu'[e].wait
      BY <1>2, <1>4 DEF Awaited, Breaks
    <3>5. QED
      BY <3>1, <3>2, <3>3, <3>4, <1>5, StillTlb
  <2>2. QED
    BY <2>1 DEF TlbsOK
<1>12. QED
  BY <1>6, <1>7, <1>8, <1>9, <1>10, <1>11

LEMMA InnerKeeps ==
  ASSUME SInv, NEW c \in Cpus,
         \/ EnterKernel(c) \/ ReturnToUser(c) \/ WriteFault(c) \/ Madvise(c) \/ ForkSpace(c)
         \/ LockSpace(c) \/ TakeCowLock(c)
  PROVE  SInv'
<1>0. Types /\ StagesOK /\ RootsOK /\ ForksOK /\ StageOK(c) /\ RootOK(c) /\ ForkAlone(c)
  BY DEF SInv, StagesOK, RootsOK, ForksOK
<1>a. busy \in [Spaces -> Cpus \cup {None}] /\ \A d \in Cpus \ {c} : Holds(d) => busy[cpu[d].as] = d
  BY <1>0 DEF Types, StagesOK, StageOK
<1>1. CASE EnterKernel(c)
  <2>1. Shift(c, "kern", "none") /\ cpu[c].pc = "user" /\ UNCHANGED <<space, locks, mmu, flags>>
    BY <1>0, <1>1, Moved DEF EnterKernel, StageOK, PcType, Inside
  <2>2. StageOK(c)'
    BY <2>1 DEF StageOK, Shift, Flushes, Breaks, Discards, Promotes, Holds
  <2>3. UNCHANGED <<space, mmu, flags>> /\ busy' = busy
    BY <2>1 DEF locks
  <2>4. ~Confined(c)
    BY <2>1 DEF Confined
  <2>5. QED
    BY <1>0, <2>1, <2>2, <2>3, <2>4, <1>a, InnerStep DEF Inside, OpType
<1>2. CASE ReturnToUser(c)
  <2>1. Shift(c, "user", "none") /\ cpu[c].pc = "kern" /\ ~ipi[c] /\ UNCHANGED <<space, locks, mmu, flags>>
    BY <1>0, <1>2, Moved DEF ReturnToUser, StageOK, PcType, Inside
  <2>2. StageOK(c)'
    BY <2>1 DEF StageOK, Shift, Flushes, Breaks, Discards, Promotes, Holds
  <2>3. UNCHANGED <<space, mmu, flags>> /\ busy' = busy
    BY <2>1 DEF locks
  <2>4. ~Confined(c)
    BY <2>1 DEF Confined
  <2>5. QED
    BY <1>0, <2>1, <2>2, <2>3, <2>4, <1>a, InnerStep DEF Inside, OpType
<1>3. ASSUME NEW o \in {"fault", "discard", "fork"}, Begin(c, o), o = "fork" => ForkSpace(c)
      PROVE  SInv'
  <2>1. Shift(c, "lock", o) /\ cpu[c].pc = "user" /\ UNCHANGED <<space, locks, mmu, flags>>
    BY <1>0, <1>3, Begun DEF Begin, OpType
  <2>2. StageOK(c)'
    BY <2>1 DEF StageOK, Shift, Flushes, Breaks, Discards, Promotes, Holds
  <2>3. UNCHANGED <<space, mmu, flags>> /\ busy' = busy /\ alive' = alive
    BY <2>1 DEF locks, space
  <2>4. ~Confined(c)
    BY <2>1 DEF Confined
  <2>5. o = "fork" => ForkAlone(c)'
    BY <1>3, <2>1, <2>3 DEF ForkSpace, ForkAlone, Shift
  <2>6. QED
    BY <1>0, <2>1, <2>2, <2>3, <2>4, <2>5, <1>a, InnerStep DEF Inside, OpType
<1>4. CASE LockSpace(c)
  <2>1. /\ Shift(c, "locked", cpu[c].op) /\ cpu[c].pc = "lock" /\ busy[cpu[c].as] = None
        /\ busy' = [busy EXCEPT ![cpu[c].as] = c] /\ UNCHANGED <<space, mmu, flags>>
    BY <1>0, <1>4, Moved DEF LockSpace, PcType, Inside
  <2>2. cpu[c].as \in Spaces /\ cpu[c].op \in OpType
    BY <1>0, <2>1 DEF Types, RootOK, CpuType
  <2>3. StageOK(c)'
    BY <1>0, <2>1, <2>2 DEF StageOK, Shift, Flushes, Breaks, Discards, Promotes, Holds, Types
  <2>4. ~Confined(c)
    BY <2>1 DEF Confined
  <2>5. /\ busy' \in [Spaces -> Cpus \cup {None}]
        /\ \A d \in Cpus \ {c} : Holds(d) => busy'[cpu[d].as] = d
    <3>1. ASSUME NEW d \in Cpus \ {c}, Holds(d) PROVE busy'[cpu[d].as] = d
      <4>1. busy[cpu[d].as] = d /\ d # None /\ cpu[d].as \in Spaces
        BY <1>0, <3>1, SpaceAssumption DEF StagesOK, StageOK, RootsOK, RootOK, Types, CpuType, Holds
      <4>2. QED
        BY <4>1, <2>1, <2>2, <1>0 DEF Types
    <3>2. QED
      BY <3>1, <2>1, <2>2, <1>0 DEF Types
  <2>6. QED
    BY <2>1, <2>2, <2>3, <2>4, <2>5, InnerStep DEF Inside
<1>5. CASE TakeCowLock(c)
  <2>1. /\ Shift(c, "cow", cpu[c].op) /\ cpu[c].pc = "locked" /\ busy' = busy /\ UNCHANGED <<space, mmu, flags>>
        /\ cpu[c].op = "fork" \/ (cpu[c].op = "fault" /\ lazy[cpu[c].as] # None)
    BY <1>0, <1>5, Moved DEF TakeCowLock, PcType, Inside
  <2>2. lazy' = lazy
    BY <2>1 DEF space
  <2>3. StageOK(c)'
    BY <1>0, <2>1, <2>2 DEF StageOK, Shift, Flushes, Breaks, Discards, Promotes, Holds
  <2>4. ~Confined(c)
    BY <2>1 DEF Confined
  <2>5. QED
    BY <2>1, <2>3, <2>4, <1>a, InnerStep DEF Inside, OpType
<1>6. QED
  BY <1>1, <1>2, <1>3, <1>4, <1>5 DEF WriteFault, Madvise, ForkSpace

(* The space is unlocked and nothing else happens. *)
LEMMA EmptyKeeps ==
  ASSUME SInv, NEW c \in Cpus, FaultHandled(c) \/ PromoteNoMemory(c) \/ DiscardNothing(c)
  PROVE  SInv'
<1>0. Types /\ StagesOK /\ RootsOK /\ StageOK(c) /\ RootOK(c)
  BY DEF SInv, StagesOK, RootsOK
<1>1. Unlocked(c) /\ cpu[c].pc \in {"locked", "cow"} /\ UNCHANGED <<space, mmu, flags>>
  BY DEF FaultHandled, PromoteNoMemory, DiscardNothing
<1>2. Shift(c, "kern", "none")
  BY <1>0, <1>1, Released
<1>3. cpu[c].as \in Spaces /\ busy[cpu[c].as] = c
  BY <1>0, <1>1 DEF Types, RootOK, CpuType, StageOK, Holds
<1>4. busy' = [busy EXCEPT ![cpu[c].as] = None]
  BY <1>1 DEF Unlocked
<1>5. busy' \in [Spaces -> Cpus \cup {None}] /\ \A d \in Cpus \ {c} : Holds(d) => busy'[cpu[d].as] = d
  BY <1>0, <1>3, <1>4, SMT DEF Types, StagesOK, StageOK, RootsOK, RootOK, CpuType, Holds
<1>6. StageOK(c)'
  BY <1>2 DEF StageOK, Shift, Flushes, Breaks, Discards, Promotes, Holds
<1>7. ~Confined(c)
  BY <1>1 DEF Confined
<1>8. QED
  BY <1>1, <1>2, <1>5, <1>6, <1>7, InnerStep DEF Inside, OpType

-----------------------------------------------------------------------------
(* A CPU that loads a root, or leaves one, has an empty TLB after it. *)
LEMMA SwitchStep ==
  ASSUME SInv, NEW c \in Cpus, cpu[c].op = "none",
         cpu' \in [Cpus -> CpuType], \A d \in Cpus \ {c} : cpu'[d] = cpu[d],
         cpu'[c].op = "none", cpu'[c].pc \in {"publish", "user", "leave", "idle"}, cpu'[c].wait = {},
         UNCHANGED <<space, locks, flags>>,
         cr3' \in [Cpus -> Spaces \cup {None}], slot' \in [Cpus -> Spaces \cup {None}],
         tlb' \in [Cpus -> PteType],
         \A d \in Cpus \ {c} : cr3'[d] = cr3[d] /\ slot'[d] = slot[d] /\ tlb'[d] = tlb[d],
         tlb'[c] = NoPte, RootOK(c)',
         \A d \in Cpus \ {c} : cpu[d].op = "fork" => cpu'[c].as # Forker
  PROVE  SInv'
<1> USE DEF SInv
<1>1. /\ pte' = pte /\ lazy' = lazy /\ refs' = refs /\ alive' = alive /\ busy' = busy
      /\ ask' = ask /\ ipi' = ipi
  BY DEF space, locks, flags
<1>2. ~Flushes(c) /\ ~Flushes(c)'
  BY DEF Flushes, StagesOK, StageOK
<1>3. Still
  BY <1>1, <1>2 DEF Still, Breaks, Flushes
<1>4. Types'
  BY <1>1 DEF Types
<1>5. RootsOK'
  BY <1>1, SMT DEF RootsOK, RootOK
<1>6. StagesOK'
  <2>1. ASSUME NEW d \in Cpus, d # c PROVE StageOK(d)'
    BY <2>1, <1>1, SMT DEF StagesOK, StageOK, Holds, Flushes, Breaks, Discards, Promotes
  <2>2. StageOK(c)'
    BY DEF StageOK, Holds, Flushes, Breaks, Discards, Promotes
  <2>3. QED
    BY <2>1, <2>2 DEF StagesOK
<1>7. ForksOK'
  <2>1. \A d \in Cpus : ForkAlone(d)'
    BY <1>1, SMT DEF ForksOK, ForkAlone
  <2>2. ForksNow' <=> ForksNow
    BY <1>2 DEF ForksNow, Flushes
  <2>3. QED
    BY <2>1, <2>2, <1>1 DEF ForksOK
<1>8. PtesOK' /\ RefsOK'
  BY <1>3, StillKeeps
<1>9. TlbsOK'
  <2>1. ASSUME NEW d \in Cpus PROVE TlbOK(d)'
    <3>1. TlbOK(d)
      BY DEF TlbsOK
    <3>2. CASE d = c
      BY <3>1, <3>2, <1>3, StillTlb
    <3>3. CASE d # c
      <4>1. tlb'[d] = tlb[d] /\ cr3'[d] = cr3[d]
        BY <3>3
      <4>2. Confined(d) => Confined(d)'
        BY <1>1, <3>3 DEF Confined
      <4>3. \A e \in Cpus : Breaks(e) /\ cpu[e].as = cr3[d] /\ Awaited(e, d) =>
                 \/ Confined(d)'
                 \/ cpu'[e].pc = "flush" /\ d \in cpu'[e].todo \cup cpu'[e].wait
        BY <1>2 DEF Awaited, Breaks
      <4>4. QED
        BY <3>1, <4>1, <4>2, <4>3, <1>3, StillTlb
    <3>4. QED
      BY <3>2, <3>3
  <2>2. QED
    BY <2>1 DEF TlbsOK
<1>10. QED
  BY <1>4, <1>5, <1>6, <1>7, <1>8, <1>9

LEMMA SwitchKeeps ==
  ASSUME SInv, NEW c \in Cpus, arch_set_page_table(c) \/ arch_load_kernel_page_table(c)
  PROVE  SInv'
<1>0. /\ Types /\ StageOK(c) /\ RootOK(c) /\ \A d \in Cpus : ForkAlone(d)
      /\ UNCHANGED <<space, locks, flags>> /\ alive' = alive /\ NoPte \in PteType
      /\ cpu[c] \in CpuType /\ None \notin Spaces
  BY SpaceAssumption DEF SInv, StagesOK, RootsOK, ForksOK, arch_set_page_table, arch_load_kernel_page_table, space,
     NoPte, PteType, FrameOr, Types, Spaces
<1>1. CASE /\ cpu[c].pc = "idle"
           /\ \E a \in alive : /\ ~Forking(a)
                               /\ cpu' = [cpu EXCEPT ![c].pc = "publish", ![c].as = a]
                               /\ slot' = [slot EXCEPT ![c] = a]
           /\ UNCHANGED <<cr3, tlb>>
  <2>1. PICK a \in alive : /\ ~Forking(a)
                           /\ cpu' = [cpu EXCEPT ![c].pc = "publish", ![c].as = a]
                           /\ slot' = [slot EXCEPT ![c] = a]
    BY <1>1
  <2>2. PICK z : z = [cpu[c] EXCEPT !.pc = "publish", !.as = a]
    OBVIOUS
  <2>3. a \in Spaces
    BY <1>0 DEF Types
  <2>4. z \in CpuType /\ z.pc = "publish" /\ z.op = cpu[c].op /\ z.as = a /\ z.wait = cpu[c].wait
    BY <1>0, <2>2, <2>3 DEF CpuType, PcType
  <2>5. cpu' = [cpu EXCEPT ![c] = z]
    BY <2>1, <2>2
  <2>6. /\ cpu' \in [Cpus -> CpuType] /\ \A d \in Cpus \ {c} : cpu'[d] = cpu[d]
        /\ cpu'[c].op = "none" /\ cpu'[c].pc = "publish" /\ cpu'[c].wait = {} /\ cpu'[c].as = a
        /\ cpu[c].op = "none"
    BY <1>0, <1>1, <2>4, <2>5 DEF Types, StageOK
  <2>7. /\ cr3' \in [Cpus -> Spaces \cup {None}] /\ slot' \in [Cpus -> Spaces \cup {None}]
        /\ tlb' \in [Cpus -> PteType]
        /\ \A d \in Cpus \ {c} : cr3'[d] = cr3[d] /\ slot'[d] = slot[d] /\ tlb'[d] = tlb[d]
        /\ slot'[c] = a /\ cr3'[c] = None /\ tlb'[c] = NoPte
    BY <1>0, <1>1, <2>1, <2>3 DEF Types, RootOK, Inside
  <2>8. RootOK(c)'
    BY <1>0, <2>3, <2>6, <2>7 DEF RootOK, Inside
  <2>9. \A d \in Cpus \ {c} : cpu[d].op = "fork" => cpu'[c].as # Forker
    BY <1>0, <2>1, <2>6, SMT DEF ForkAlone, Forking
  <2>10. QED
    BY <1>0, <2>6, <2>7, <2>8, <2>9, SwitchStep
<1>2. ASSUME NEW r \in Spaces \cup {None}, NEW p \in {"user", "leave"}, cpu[c].op = "none", cpu[c].as # None,
             MoveTo(c, p), cr3' = [cr3 EXCEPT ![c] = r], tlb' = [tlb EXCEPT ![c] = NoPte], slot' = slot,
             r = IF p = "user" THEN cpu[c].as ELSE None
      PROVE  SInv'
  <2>1. Shift(c, p, "none")
    BY <1>0, <1>2, Moved DEF PcType, Inside, SInv, StageOK
  <2>2. /\ cr3' \in [Cpus -> Spaces \cup {None}] /\ slot' \in [Cpus -> Spaces \cup {None}]
        /\ tlb' \in [Cpus -> PteType]
        /\ \A d \in Cpus \ {c} : cr3'[d] = cr3[d] /\ slot'[d] = slot[d] /\ tlb'[d] = tlb[d]
        /\ slot'[c] = slot[c] /\ cr3'[c] = r /\ tlb'[c] = NoPte
    BY <1>0, <1>2 DEF Types
  <2>3. RootOK(c)'
    BY <1>0, <1>2, <2>1, <2>2 DEF RootOK, Inside, Shift
  <2>4. \A d \in Cpus \ {c} : cpu[d].op = "fork" => cpu'[c].as # Forker
    BY <1>0, <2>1 DEF ForkAlone, Shift
  <2>5. QED
    BY <1>0, <1>2, <2>1, <2>2, <2>3, <2>4, SwitchStep DEF Shift
<1>3. CASE /\ cpu[c].pc = "leave"
           /\ slot' = [slot EXCEPT ![c] = Kernel]
           /\ cpu' = [cpu EXCEPT ![c] = Idle]
           /\ UNCHANGED <<cr3, tlb>>
  <2>1. /\ Idle \in CpuType /\ Idle.pc = "idle" /\ Idle.op = "none" /\ Idle.wait = {} /\ Idle.as = None
    BY DEF Idle, CpuType, PcType, OpType, FrameOr
  <2>2. /\ cpu' \in [Cpus -> CpuType] /\ \A d \in Cpus \ {c} : cpu'[d] = cpu[d]
        /\ cpu'[c].op = "none" /\ cpu'[c].pc = "idle" /\ cpu'[c].wait = {} /\ cpu'[c].as = None
        /\ cpu[c].op = "none"
    BY <1>0, <1>3, <2>1 DEF Types, StageOK
  <2>3. /\ cr3' \in [Cpus -> Spaces \cup {None}] /\ slot' \in [Cpus -> Spaces \cup {None}]
        /\ tlb' \in [Cpus -> PteType]
        /\ \A d \in Cpus \ {c} : cr3'[d] = cr3[d] /\ slot'[d] = slot[d] /\ tlb'[d] = tlb[d]
        /\ cr3'[c] = None /\ tlb'[c] = NoPte
    BY <1>0, <1>3 DEF Types, RootOK, Inside, Kernel
  <2>4. RootOK(c)'
    BY <1>0, <2>2, <2>3 DEF RootOK, Inside
  <2>5. Forker # None
    BY SpaceAssumption
  <2>6. QED
    BY <1>0, <2>2, <2>3, <2>4, <2>5, SwitchStep
<1>4. cpu[c].pc \in {"publish", "kern"} => cpu[c].op = "none" /\ cpu[c].as # None /\ cpu[c].as \in Spaces
  BY <1>0 DEF StageOK, RootOK, CpuType
<1>5. QED
  BY <1>1, <1>2, <1>3, <1>4 DEF arch_set_page_table, arch_load_kernel_page_table, Kernel

(* The walker caches what the table says now. *)
LEMMA WalkKeeps ==
  ASSUME SInv, NEW c \in Cpus, Walk(c)
  PROVE  SInv'
<1> USE DEF SInv
<1>1. /\ pte' = pte /\ lazy' = lazy /\ refs' = refs /\ alive' = alive /\ busy' = busy
      /\ ask' = ask /\ ipi' = ipi /\ cpu' = cpu /\ cr3' = cr3 /\ slot' = slot
      /\ tlb' = [tlb EXCEPT ![c] = pte[cr3[c]]]
      /\ cr3[c] # None /\ pte[cr3[c]] # NoPte
  BY DEF Walk, space, locks, flags, Kernel
<1>2. Still
  BY <1>1 DEF Still, Breaks, Flushes
<1>3. cr3[c] \in Spaces /\ pte[cr3[c]] \in PteType
  BY <1>1 DEF Types
<1>4. pte[cr3[c]].f = lazy[cr3[c]] /\ lazy[cr3[c]] \in Frames
  BY <1>1, <1>3 DEF PtesOK, Types, FrameOr
<1>5. Types'
  BY <1>1, <1>3 DEF Types
<1>6. RootsOK'
  BY <1>1, <1>4 DEF RootsOK, RootOK, Types
<1>7. StagesOK'
  BY <1>1, ZenonT(30) DEF StagesOK, StageOK, Holds, Flushes, Breaks, Discards, Promotes
<1>8. ForksOK'
  BY <1>1 DEF ForksOK, ForkAlone, ForksNow, Flushes
<1>9. PtesOK' /\ RefsOK'
  BY <1>2, StillKeeps
<1>10. TlbsOK'
  <2>1. ASSUME NEW d \in Cpus, d # c PROVE TlbOK(d)'
    <3>1. TlbOK(d) /\ tlb'[d] = tlb[d] /\ cr3'[d] = cr3[d] /\ (Confined(d) => Confined(d)')
      BY <1>1, <2>1 DEF TlbsOK, Confined, Types
    <3>2. \A e \in Cpus : Breaks(e) /\ cpu[e].as = cr3[d] /\ Awaited(e, d) =>
                 \/ Confined(d)'
                 \/ cpu'[e].pc = "flush" /\ d \in cpu'[e].todo \cup cpu'[e].wait
      BY <1>1 DEF Awaited
    <3>3. QED
      BY <3>1, <3>2, <1>2, StillTlb
  <2>2. TlbOK(c)'
    <3>1. tlb'[c] = pte[cr3[c]]
      BY <1>1 DEF Types
    <3>2. \A e \in Cpus : ~(Breaks(e)' /\ cpu'[e].as = cr3'[c])
      BY <1>1 DEF StagesOK, StageOK, Breaks, Flushes
    <3>3. Current(c)'
      BY <3>1, <1>1, <1>4 DEF Current
    <3>4. QED
      BY <3>2, <3>3 DEF TlbOK
  <2>3. QED
    BY <2>1, <2>2 DEF TlbsOK
<1>11. QED
  BY <1>5, <1>6, <1>7, <1>8, <1>9, <1>10

-----------------------------------------------------------------------------
(* Steps of the flushes: only what initiators still have to do, the requests and   *)
(* the TLBs change; a TLB entry survives where its CPU stays awaited or confined.  *)
SameBut(e) ==
  /\ cpu'[e].as = cpu[e].as /\ cpu'[e].op = cpu[e].op /\ cpu'[e].old = cpu[e].old /\ cpu'[e].new = cpu[e].new
  /\ cpu'[e].pc = cpu[e].pc \/ (cpu[e].pc = "flush" /\ cpu'[e].pc = "finish")

LEMMA FlushStep ==
  ASSUME SInv, cpu' \in [Cpus -> CpuType], \A e \in Cpus : SameBut(e),
         UNCHANGED <<space, locks, cr3, slot>>,
         ipi' \in [Cpus -> BOOLEAN], ask' \in [Cpus -> BOOLEAN], tlb' \in [Cpus -> PteType],
         \A d \in Cpus : tlb'[d] = tlb[d] \/ tlb'[d] = NoPte,
         \A e \in Cpus : cpu'[e].pc # "flush" => cpu'[e].wait = {},
         \A e \in Cpus : \A t \in cpu'[e].wait : ipi'[t],
         \A d \in Cpus : tlb'[d] # NoPte =>
            /\ ipi[d] => ipi'[d]
            /\ \A e \in Cpus : Breaks(e) /\ cpu[e].as = cr3[d] /\ Awaited(e, d) =>
                 \/ Confined(d)'
                 \/ cpu'[e].pc = "flush" /\ d \in cpu'[e].todo \cup cpu'[e].wait
  PROVE  SInv'
<1> USE DEF SInv
<1>1. /\ pte' = pte /\ lazy' = lazy /\ refs' = refs /\ alive' = alive /\ busy' = busy
      /\ cr3' = cr3 /\ slot' = slot
  BY DEF space, locks
<1>2. \A e \in Cpus : Flushes(e)' <=> Flushes(e)
  BY DEF Flushes, SameBut
<1>3. Still
  BY <1>1, <1>2 DEF Still, Breaks, SameBut
<1>4. Types'
  BY <1>1 DEF Types
<1>5. RootsOK'
  <2>1. ASSUME NEW d \in Cpus PROVE RootOK(d)'
    BY <1>1, SMT DEF RootsOK, RootOK, SameBut, Inside
  <2>2. QED
    BY <2>1 DEF RootsOK
<1>6. StagesOK'
  <2>1. ASSUME NEW d \in Cpus PROVE StageOK(d)'
    <3>1. StageOK(d) /\ SameBut(d)
      BY DEF StagesOK
    <3>2. /\ Breaks(d)' <=> Breaks(d)
          /\ Discards(d)' <=> Discards(d)
          /\ Promotes(d)' <=> Promotes(d)
          /\ Holds(d)' <=> Holds(d)
      BY <1>2, <3>1 DEF Breaks, Discards, Promotes, Holds, SameBut
    <3>3. QED
      BY <3>1, <3>2, <1>1, <1>2 DEF StageOK, SameBut
  <2>2. QED
    BY <2>1 DEF StagesOK
<1>7. ForksOK'
  <2>1. \A d \in Cpus : ForkAlone(d)'
    BY <1>1, SMT DEF ForksOK, ForkAlone, SameBut
  <2>2. ForksNow' <=> ForksNow
    BY <1>2, SMT DEF ForksNow, SameBut
  <2>3. QED
    BY <2>1, <2>2, <1>1 DEF ForksOK
<1>8. PtesOK' /\ RefsOK'
  BY <1>3, StillKeeps
<1>9. TlbsOK'
  <2>1. ASSUME NEW d \in Cpus PROVE TlbOK(d)'
    <3>1. TlbOK(d)
      BY DEF TlbsOK
    <3>2. CASE tlb'[d] = NoPte
      BY <3>1, <3>2, <1>3, StillTlb
    <3>3. CASE tlb'[d] # NoPte
      <4>1. tlb'[d] = tlb[d] /\ cr3'[d] = cr3[d]
        BY <3>3, <1>1
      <4>2. Confined(d) => Confined(d)'
        BY <3>3 DEF Confined, SameBut
      <4>3. QED
        BY <3>1, <3>3, <4>1, <4>2, <1>3, StillTlb
    <3>4. QED
      BY <3>2, <3>3
  <2>2. QED
    BY <2>1 DEF TlbsOK
<1>10. QED
  BY <1>4, <1>5, <1>6, <1>7, <1>8, <1>9

(* An answer: the CPU has flushed, and nobody waits for it any more. *)
LEMMA AnswerKeeps ==
  ASSUME SInv, NEW c \in Cpus, tlb_shootdown_irq_body(c) \/ service_flush(c)
  PROVE  SInv'
<1>1. Types /\ StagesOK /\ TlbsOK
  BY DEF SInv
<1>2. /\ cpu' = Acked(c) /\ tlb' = [tlb EXCEPT ![c] = NoPte]
      /\ UNCHANGED <<space, locks, cr3, slot>>
      /\ ask' = [ask EXCEPT ![c] = FALSE]
      /\ ipi' = [ipi EXCEPT ![c] = FALSE] \/ ipi' = ipi
  BY DEF tlb_shootdown_irq_body, service_flush
<1>3. ASSUME NEW e \in Cpus
      PROVE  /\ cpu'[e] \in CpuType /\ SameBut(e) /\ cpu'[e].pc = cpu[e].pc
             /\ cpu'[e].todo = cpu[e].todo /\ cpu'[e].wait = cpu[e].wait \ {c}
  <2>1. cpu[e] \in CpuType
    BY <1>1 DEF Types
  <2>2. PICK z : z = [cpu[e] EXCEPT !.wait = @ \ {c}]
    OBVIOUS
  <2>3. /\ z \in CpuType /\ z.pc = cpu[e].pc /\ z.as = cpu[e].as /\ z.op = cpu[e].op
        /\ z.todo = cpu[e].todo /\ z.wait = cpu[e].wait \ {c} /\ z.old = cpu[e].old /\ z.new = cpu[e].new
    BY <2>1, <2>2 DEF CpuType
  <2>4. cpu'[e] = z
    BY <1>2, <2>2 DEF Acked
  <2>5. QED
    BY <2>3, <2>4 DEF SameBut
<1>4. cpu' \in [Cpus -> CpuType]
  BY <1>2, <1>3 DEF Acked
<1>5. ipi' \in [Cpus -> BOOLEAN] /\ ask' \in [Cpus -> BOOLEAN] /\ tlb' \in [Cpus -> PteType]
  BY <1>1, <1>2, SpaceAssumption DEF Types, NoPte, PteType, FrameOr
<1>6. \A d \in Cpus : d # c => tlb'[d] = tlb[d] /\ ipi'[d] = ipi[d]
  BY <1>1, <1>2 DEF Types
<1>7. tlb'[c] = NoPte
  BY <1>1, <1>2 DEF Types
<1>8. \A e \in Cpus : cpu'[e].pc # "flush" => cpu'[e].wait = {}
  BY <1>1, <1>3 DEF StagesOK, StageOK
<1>9. \A e \in Cpus : \A t \in cpu'[e].wait : ipi'[t]
  BY <1>1, <1>3, <1>6, SMT DEF StagesOK, StageOK, Types, CpuType
<1>10. \A d \in Cpus : tlb'[d] # NoPte =>
            /\ ipi[d] => ipi'[d]
            /\ \A e \in Cpus : Breaks(e) /\ cpu[e].as = cr3[d] /\ Awaited(e, d) =>
                 \/ Confined(d)'
                 \/ cpu'[e].pc = "flush" /\ d \in cpu'[e].todo \cup cpu'[e].wait
  BY <1>3, <1>6, <1>7 DEF Awaited
<1>11. QED
  BY <1>2, <1>3, <1>4, <1>5, <1>6, <1>7, <1>8, <1>9, <1>10, FlushStep

(* The initiator's steps.  The target it need not wait for has another root. *)
LEMMA InitiatorKeeps ==
  ASSUME SInv, NEW c \in Cpus, FlushPick(c) \/ FlushLeft(c) \/ FlushEnd(c)
  PROVE  SInv'
<1>1. Types /\ StagesOK /\ TlbsOK /\ RootsOK /\ cpu[c] \in CpuType /\ cpu[c].pc = "flush"
  BY DEF SInv, Types, FlushPick, FlushLeft, FlushEnd
<1>2. /\ tlb' = tlb /\ UNCHANGED <<space, locks, cr3, slot>>
  BY DEF FlushPick, FlushLeft, FlushEnd, mmu
<1>3. ASSUME NEW z, cpu' = [cpu EXCEPT ![c] = z], z \in CpuType,
             z.as = cpu[c].as, z.op = cpu[c].op, z.old = cpu[c].old, z.new = cpu[c].new,
             z.pc = "flush" \/ (z.pc = "finish" /\ z.wait = {}),
             ipi' \in [Cpus -> BOOLEAN], ask' \in [Cpus -> BOOLEAN],
             \A d \in Cpus : ipi[d] => ipi'[d],
             \A t \in z.wait : t \in Cpus /\ ipi'[t],
             \A d \in cpu[c].todo \cup cpu[c].wait : slot[d] = cpu[c].as =>
               \/ Confined(d)'
               \/ z.pc = "flush" /\ d \in z.todo \cup z.wait
      PROVE  SInv'
  <2>1. cpu'[c] = z /\ (\A e \in Cpus \ {c} : cpu'[e] = cpu[e]) /\ cpu' \in [Cpus -> CpuType]
    BY <1>1, <1>3 DEF Types
  <2>2. \A e \in Cpus : SameBut(e)
    BY <1>1, <1>3, <2>1 DEF SameBut
  <2>3. \A e \in Cpus : cpu'[e].pc # "flush" => cpu'[e].wait = {}
    BY <1>1, <1>3, <2>1, SMT DEF StagesOK, StageOK
  <2>4. \A e \in Cpus : \A t \in cpu'[e].wait : ipi'[t]
    BY <1>1, <1>3, <2>1, SMT DEF StagesOK, StageOK, Types, CpuType
  <2>5. ASSUME NEW d \in Cpus, NEW e \in Cpus, tlb'[d] # NoPte, Breaks(e), cpu[e].as = cr3[d], Awaited(e, d)
        PROVE  \/ Confined(d)'
               \/ cpu'[e].pc = "flush" /\ d \in cpu'[e].todo \cup cpu'[e].wait
    <3>1. CASE e # c
      BY <3>1, <2>1, <2>5 DEF Awaited
    <3>2. CASE e = c
      <4>1. cr3[d] # None
        BY <1>1, <1>2, <2>5 DEF RootsOK, RootOK
      <4>2. slot[d] = cpu[c].as
        BY <1>1, <4>1, <3>2, <2>5 DEF RootsOK, RootOK
      <4>3. d \in cpu[c].todo \cup cpu[c].wait
        BY <3>2, <2>5 DEF Awaited
      <4>4. QED
        BY <4>2, <4>3, <1>3, <2>1, <3>2
    <3>3. QED
      BY <3>1, <3>2
  <2>6. tlb' \in [Cpus -> PteType]
    BY <1>1, <1>2 DEF Types
  <2>7. QED
    BY <1>2, <1>3, <2>1, <2>2, <2>3, <2>4, <2>5, <2>6, FlushStep
<1>4. CASE FlushPick(c)
  <2>1. PICK t \in cpu[c].todo :
           /\ cpu' = [cpu EXCEPT ![c].todo = @ \ {t},
                                 ![c].wait = IF slot[t] = cpu[c].as THEN @ \cup {t} ELSE @]
           /\ ask' = [ask EXCEPT ![t] = @ \/ slot[t] = cpu[c].as]
           /\ ipi' = [ipi EXCEPT ![t] = @ \/ slot[t] = cpu[c].as]
    BY <1>4 DEF FlushPick
  <2>2. PICK w : w = IF slot[t] = cpu[c].as THEN cpu[c].wait \cup {t} ELSE cpu[c].wait
    OBVIOUS
  <2>3. t \in Cpus /\ cpu[c].todo \subseteq Cpus /\ cpu[c].wait \subseteq Cpus /\ w \subseteq Cpus
    BY <1>1, <2>2 DEF CpuType
  <2>4. PICK z : z = [cpu[c] EXCEPT !.todo = @ \ {t}, !.wait = w]
    OBVIOUS
  <2>5. /\ z \in CpuType /\ z.pc = cpu[c].pc /\ z.as = cpu[c].as /\ z.op = cpu[c].op
        /\ z.todo = cpu[c].todo \ {t} /\ z.wait = w /\ z.old = cpu[c].old /\ z.new = cpu[c].new
    BY <1>1, <2>3, <2>4 DEF CpuType
  <2>6. cpu' = [cpu EXCEPT ![c] = z]
    BY <2>1, <2>2, <2>4
  <2>7. /\ ipi' \in [Cpus -> BOOLEAN] /\ ask' \in [Cpus -> BOOLEAN]
        /\ \A d \in Cpus : ipi[d] => ipi'[d]
        /\ slot[t] = cpu[c].as => ipi'[t]
    BY <1>1, <2>1, <2>3 DEF Types
  <2>8. \A d \in w : d \in Cpus /\ ipi'[d]
    BY <1>1, <2>2, <2>3, <2>7 DEF StagesOK, StageOK
  <2>9. \A d \in cpu[c].todo \cup cpu[c].wait : slot[d] = cpu[c].as => d \in z.todo \cup z.wait
    BY <2>2, <2>5
  <2>10. QED
    BY <1>1, <1>3, <2>5, <2>6, <2>7, <2>8, <2>9
<1>5. CASE FlushLeft(c)
  <2>1. PICK t \in cpu[c].wait : slot[t] # cpu[c].as /\ cpu' = [cpu EXCEPT ![c].wait = @ \ {t}]
    BY <1>5 DEF FlushLeft
  <2>2. PICK z : z = [cpu[c] EXCEPT !.wait = @ \ {t}]
    OBVIOUS
  <2>3. /\ z \in CpuType /\ z.pc = cpu[c].pc /\ z.as = cpu[c].as /\ z.op = cpu[c].op
        /\ z.todo = cpu[c].todo /\ z.wait = cpu[c].wait \ {t} /\ z.old = cpu[c].old /\ z.new = cpu[c].new
    BY <1>1, <2>2 DEF CpuType
  <2>4. cpu' = [cpu EXCEPT ![c] = z]
    BY <2>1, <2>2
  <2>5. ipi' = ipi /\ ask' = ask
    BY <1>5 DEF FlushLeft, flags
  <2>6. /\ ipi' \in [Cpus -> BOOLEAN] /\ ask' \in [Cpus -> BOOLEAN]
        /\ \A d \in z.wait : d \in Cpus /\ ipi'[d]
    BY <1>1, <2>3, <2>5 DEF Types, StagesOK, StageOK, CpuType
  <2>7. \A d \in cpu[c].todo \cup cpu[c].wait : slot[d] = cpu[c].as => d \in z.todo \cup z.wait
    BY <2>1, <2>3
  <2>8. QED
    BY <1>1, <1>3, <2>3, <2>4, <2>5, <2>6, <2>7
<1>6. CASE FlushEnd(c)
  <2>1. PICK z : z = [cpu[c] EXCEPT !.pc = "finish", !.wait = {}]
    OBVIOUS
  <2>2. /\ z \in CpuType /\ z.pc = "finish" /\ z.as = cpu[c].as /\ z.op = cpu[c].op
        /\ z.todo = cpu[c].todo /\ z.wait = {} /\ z.old = cpu[c].old /\ z.new = cpu[c].new
    BY <1>1, <2>1 DEF CpuType, PcType, Inside
  <2>3. cpu' = [cpu EXCEPT ![c] = z] /\ cpu[c].todo = {} /\ \A t \in cpu[c].wait : cpu[t].pc = "kern"
    BY <1>6, <2>1 DEF FlushEnd
  <2>4. ipi' = ipi /\ ask' = ask
    BY <1>6 DEF FlushEnd, flags
  <2>5. /\ ipi' \in [Cpus -> BOOLEAN] /\ ask' \in [Cpus -> BOOLEAN]
    BY <1>1, <2>4 DEF Types
  <2>6. \A d \in cpu[c].todo \cup cpu[c].wait : Confined(d)'
    <3>1. ASSUME NEW d \in cpu[c].todo \cup cpu[c].wait PROVE Confined(d)'
      <4>1. d \in cpu[c].wait /\ d \in Cpus /\ cpu[d].pc = "kern" /\ d # c
        BY <1>1, <2>3, <3>1 DEF CpuType
      <4>2. ipi'[d]
        BY <1>1, <2>4, <4>1 DEF StagesOK, StageOK
      <4>3. cpu'[d] = cpu[d]
        BY <1>1, <2>3, <4>1 DEF Types
      <4>4. QED
        BY <4>1, <4>2, <4>3 DEF Confined
    <3>2. QED
      BY <3>1
  <2>7. QED
    BY <1>3, <2>2, <2>3, <2>4, <2>5, <2>6
<1>7. QED
  BY <1>4, <1>5, <1>6

-----------------------------------------------------------------------------
(* What the holder of a space's busy flag does to its page leaves the other space  *)
(* alone if the frames it gains are nobody's, and the references of the others stay. *)
Gains(c, g) == lazy'[cpu[c].as] = g \/ (Discards(c)' /\ cpu'[c].old = g)

(* The frames it gains are referenced, and were its own or nobody's. *)
GainsFree(c) ==
  \A g \in Frames : Gains(c, g) =>
    /\ refs'[g] >= 1
    /\ Own(cpu[c].as, g) \/ (/\ \A b \in Spaces \ {cpu[c].as} : ~Own(b, g)
                             /\ \A d \in Cpus \ {c} : Promotes(d) => cpu[d].new # g)
    /\ \A b \in Spaces \ {cpu[c].as} : Own(b, g) => refs'[g] >= 2

(* The frames of the others stay referenced. *)
RefsKept(c) ==
  /\ \A g \in Frames : \A b \in Spaces \ {cpu[c].as} : Own(b, g) => refs'[g] >= 1
  /\ \A d \in Cpus \ {c} : Promotes(d) => refs'[cpu[d].new] >= 1

(* Its entry names the frame of its page, and is writable only if that is its own. *)
EntryBacked(c) ==
  pte'[cpu[c].as] # NoPte =>
    /\ pte'[cpu[c].as].f = lazy'[cpu[c].as] /\ lazy'[cpu[c].as] # None
    /\ pte'[cpu[c].as].w => \A b \in Spaces \ {cpu[c].as} : ~Own(b, lazy'[cpu[c].as])

(* The frame it copies into is nobody's yet. *)
CopyFree(c) ==
  Promotes(c)' =>
    /\ refs'[cpu'[c].new] >= 1 /\ ~Gains(c, cpu'[c].new)
    /\ \A b \in Spaces \ {cpu[c].as} : ~Own(b, cpu'[c].new)
    /\ \A d \in Cpus \ {c} : Promotes(d) => cpu[d].new # cpu'[c].new

LEMMA PageStep ==
  ASSUME SInv, NEW c \in Cpus, Holds(c), cpu[c].op # "fork",
         cpu' \in [Cpus -> CpuType], \A d \in Cpus \ {c} : cpu'[d] = cpu[d],
         cpu'[c].as = cpu[c].as, cpu'[c].pc \in Inside, cpu'[c].op # "fork",
         UNCHANGED <<alive, cr3, slot, ask, ipi>>,
         pte' \in [Spaces -> PteType], lazy' \in [Spaces -> FrameOr], refs' \in [Frames -> Nat],
         busy' \in [Spaces -> Cpus \cup {None}], tlb' \in [Cpus -> PteType],
         \A b \in Spaces \ {cpu[c].as} : pte'[b] = pte[b] /\ lazy'[b] = lazy[b] /\ busy'[b] = busy[b],
         \A d \in Cpus \ {c} : tlb'[d] = tlb[d],
         tlb'[c] = NoPte \/ tlb'[c] = tlb[c],
         StageOK(c)',
         GainsFree(c),
         RefsKept(c),
         EntryBacked(c),
         CopyFree(c),
         \A d \in Cpus : cr3[d] = cpu[c].as => TlbOK(d)'
  PROVE  SInv'
<1> USE DEF SInv
<1>1. PICK a \in Spaces : a = cpu[c].as
  BY ZenonT(30) DEF Types, CpuType, RootsOK, RootOK, Holds
<1>2. \A d \in Cpus \ {c} : Holds(d) => cpu[d].as # a /\ cpu[d].as \in Spaces
  BY <1>1, SMT DEF StagesOK, StageOK, RootsOK, RootOK, Types, CpuType, Holds
<1>3. \A d \in Cpus \ {c} : /\ Discards(d) => Holds(d)
                            /\ Promotes(d) => Holds(d)
                            /\ Breaks(d) => Holds(d)
                            /\ Discards(d)' <=> Discards(d)
                            /\ Promotes(d)' <=> Promotes(d)
                            /\ Breaks(d)' <=> Breaks(d)
                            /\ Holds(d)' <=> Holds(d)
                            /\ Flushes(d)' <=> Flushes(d)
  BY DEF Discards, Promotes, Breaks, Holds, Flushes
<1>4. ASSUME NEW g PROVE /\ Own(a, g)' <=> Gains(c, g)
                         /\ \A b \in Spaces \ {a} : Own(b, g)' <=> Own(b, g)
  <2>1. ASSUME NEW d \in Cpus, cpu'[d].as = a, Discards(d)' PROVE d = c
    BY <2>1, <1>2, <1>3
  <2>2. Own(a, g)' <=> Gains(c, g)
    BY <1>1, <2>1, ZenonT(30) DEF Own, Gains
  <2>3. ASSUME NEW b \in Spaces \ {a} PROVE Own(b, g)' <=> Own(b, g)
    BY <1>1, <1>3, SMT DEF Own
  <2>4. QED
    BY <2>2, <2>3
<1>5. Types'
  BY DEF Types
<1>6. RootsOK'
  <2>1. ASSUME NEW d \in Cpus, d # c PROVE RootOK(d)'
    BY <2>1, SMT DEF RootsOK, RootOK
  <2>2. RootOK(c)'
    BY ZenonT(30) DEF RootsOK, RootOK, Holds, Inside
  <2>3. QED
    BY <2>1, <2>2 DEF RootsOK
<1>7. StagesOK'
  <2>1. ASSUME NEW d \in Cpus, d # c PROVE StageOK(d)'
    <3>1. StageOK(d) /\ cpu'[d] = cpu[d] /\ ipi' = ipi
      BY <2>1 DEF StagesOK
    <3>2. Holds(d) => /\ pte'[cpu[d].as] = pte[cpu[d].as] /\ lazy'[cpu[d].as] = lazy[cpu[d].as]
                      /\ busy'[cpu[d].as] = busy[cpu[d].as]
      BY <1>1, <1>2, <2>1, ZenonT(30)
    <3>3. cpu[d].pc = "cow" => Holds(d)
      BY DEF Holds
    <3>4. QED
      BY <3>1, <3>2, <3>3, <1>3, <2>1, SMT DEF StageOK
  <2>2. QED
    BY <2>1 DEF StagesOK
<1>8. ForksOK'
  <2>1. ASSUME NEW d \in Cpus PROVE ForkAlone(d)'
    <3>1. cpu'[d].op = "fork" => d # c /\ cpu[d].op = "fork" /\ cpu'[d] = cpu[d]
      OBVIOUS
    <3>2. \A e \in Cpus : cpu'[e].as = cpu[e].as
      OBVIOUS
    <3>3. ForkAlone(d)
      BY DEF ForksOK
    <3>4. QED
      BY <3>1, <3>2, <3>3 DEF ForkAlone
  <2>2. ForksNow' <=> ForksNow
    BY <1>3, SMT DEF ForksNow
  <2>3. Child \notin alive => Child # a
    BY <1>1 DEF RootsOK, RootOK, Holds, Types, CpuType
  <2>4. QED
    BY <2>1, <2>2, <2>3, <1>1 DEF ForksOK, Spaces
<1>9. ASSUME NEW b \in Spaces \ {a}, NEW g \in Frames, Own(b, g),
             \A x \in Spaces \ {b} : ~Own(x, g)
      PROVE  \A x \in Spaces \ {b} : ~Own(x, g)'
  BY <1>1, <1>4, <1>9 DEF GainsFree
<1>10. PtesOK'
  <2>1. ASSUME NEW b \in Spaces \ {a}, pte'[b] # NoPte
        PROVE  /\ pte'[b].f = lazy'[b] /\ lazy'[b] # None
               /\ pte'[b].w => \A x \in Spaces \ {b} : ~Own(x, lazy[b])'
    <3>1. PICK g : g = lazy[b]
      OBVIOUS
    <3>2. pte[b] # NoPte /\ pte'[b] = pte[b] /\ lazy'[b] = g
      BY <1>1, <2>1, <3>1
    <3>3. g \in Frames /\ g # None /\ pte[b].f = g /\ (pte[b].w => \A x \in Spaces \ {b} : ~Own(x, g))
      BY <2>1, <3>1, <3>2, SMT DEF PtesOK, Types, FrameOr
    <3>4. Own(b, g)
      BY <3>1 DEF Own
    <3>5. pte[b].w => \A x \in Spaces \ {b} : ~Own(x, g)'
      BY <3>3, <3>4, <1>9, <2>1
    <3>6. \A x : Own(x, lazy[b])' <=> Own(x, g)'
      BY <3>2 DEF Own
    <3>7. QED
      BY <3>2, <3>3, <3>5, <3>6
  <2>2. pte'[a] # NoPte /\ pte'[a].w => \A x \in Spaces \ {a} : ~Own(x, lazy[a])'
    <3>1. PICK g : g = lazy'[a]
      OBVIOUS
    <3>2. \A x : Own(x, lazy[a])' <=> Own(x, g)'
      BY <3>1 DEF Own
    <3>3. QED
      BY <1>1, <1>4, <3>1, <3>2 DEF EntryBacked
  <2>3. QED
    BY <1>1, <2>1, <2>2 DEF PtesOK, NoPte, EntryBacked
<1>11. RefsOK'
  <2>1. ASSUME NEW g \in Frames, NEW x \in Spaces, Own(x, g)' PROVE refs'[g] >= 1
    BY <1>1, <1>4, <2>1 DEF GainsFree, RefsKept
  <2>2. ASSUME NEW g \in Frames, Own(Forker, g)', Own(Child, g)' PROVE refs'[g] >= 2
    <3>1. \E b \in Spaces \ {a} : Own(b, g)'
      BY <2>2, SpaceAssumption DEF Spaces
    <3>2. Own(a, g)'
      BY <2>2 DEF Spaces
    <3>3. QED
      BY <1>1, <1>4, <3>1, <3>2 DEF GainsFree
  <2>3. ASSUME NEW d \in Cpus, d # c, Promotes(d)'
        PROVE  /\ refs'[cpu'[d].new] >= 1
               /\ \A x \in Spaces : ~Own(x, cpu[d].new)'
               /\ \A e \in Cpus \ {d} : Promotes(e)' => cpu'[e].new # cpu'[d].new
    <3>1. PICK g : g = cpu[d].new
      OBVIOUS
    <3>2. Promotes(d) /\ cpu'[d].new = g /\ g \in Frames
      BY <1>3, <2>3, <3>1, ZenonT(30) DEF StagesOK, StageOK
    <3>3. \A x \in Spaces : ~Own(x, g)
      BY <3>1, <3>2, SMT DEF RefsOK
    <3>4. ~Gains(c, g)
      BY <1>1, <2>3, <3>1, <3>2, <3>3 DEF GainsFree
    <3>5. \A x \in Spaces : ~Own(x, g)'
      BY <1>4, <3>3, <3>4
    <3>6. \A x : Own(x, cpu[d].new)' <=> Own(x, g)'
      BY <3>2, ZenonT(30) DEF Own
    <3>7. ASSUME NEW e \in Cpus \ {d}, Promotes(e)' PROVE cpu'[e].new # cpu'[d].new
      <4>1. CASE e = c
        BY <2>3, <3>1, <3>2, <3>7, <4>1 DEF CopyFree
      <4>2. CASE e # c
        <5>1. Promotes(e) /\ cpu'[e] = cpu[e]
          BY <1>3, <3>7, <4>2
        <5>2. cpu[e].new # cpu[d].new
          BY <5>1, <3>2 DEF RefsOK
        <5>3. QED
          BY <5>1, <5>2, <3>1, <3>2
      <4>3. QED
        BY <4>1, <4>2
    <3>8. QED
      BY <2>3, <3>1, <3>2, <3>5, <3>6, <3>7 DEF RefsKept
  <2>4. ASSUME Promotes(c)'
        PROVE  /\ refs'[cpu'[c].new] >= 1
               /\ \A x \in Spaces : ~Own(x, cpu[c].new)'
               /\ \A e \in Cpus \ {c} : Promotes(e)' => cpu'[e].new # cpu'[c].new
    <3>1. PICK g : g = cpu'[c].new
      OBVIOUS
    <3>2. \A x \in Spaces : ~Own(x, g)'
      BY <1>1, <1>4, <2>4, <3>1 DEF CopyFree
    <3>3. \A x : Own(x, cpu[c].new)' <=> Own(x, g)'
      BY <3>1 DEF Own
    <3>4. QED
      BY <1>3, <2>4, <3>2, <3>3, SMT DEF CopyFree
  <2>5. QED
    BY <2>1, <2>2, <2>3, <2>4 DEF RefsOK
<1>12. TlbsOK'
  <2>1. ASSUME NEW d \in Cpus, cr3[d] # a PROVE TlbOK(d)'
    <3>0. SUFFICES ASSUME tlb'[d] # NoPte, ~Confined(d)' PROVE TlbOK(d)'
      BY DEF TlbOK, NoPte
    <3>1. d # c /\ tlb'[d] = tlb[d] /\ cr3'[d] = cr3[d] /\ ~Confined(d) /\ tlb[d] # NoPte
      <4>1. tlb[d] # NoPte
        BY <3>0, <2>1
      <4>2. cr3[c] = a
        BY <1>1 DEF RootsOK, RootOK, Holds, Inside
      <4>3. d # c
        BY <4>2, <2>1
      <4>4. QED
        BY <3>0, <4>1, <4>3 DEF Confined
    <3>2. PICK b \in Spaces \ {a} : b = cr3[d]
      BY <3>1, <2>1, SMT DEF RootsOK, RootOK, Types
    <3>3. pte'[b] = pte[b] /\ lazy'[b] = lazy[b]
      BY <1>1, <3>2
    <3>4. \A e \in Cpus : /\ (Breaks(e) /\ cpu[e].as = b) => e # c
                          /\ (Breaks(e)' /\ cpu'[e].as = b) => e # c
      BY <1>1, <3>2
    <3>5. ASSUME \A e \in Cpus : ~(Breaks(e)' /\ cpu'[e].as = b) PROVE Current(d)'
      <4>1. ASSUME NEW e \in Cpus, Breaks(e), cpu[e].as = b PROVE FALSE
        <5>1. e # c
          BY <3>4, <4>1
        <5>2. cpu'[e] = cpu[e] /\ Breaks(e)'
          BY <5>1, <4>1, <1>3
        <5>3. QED
          BY <5>2, <4>1, <3>5
      <4>2. Current(d)
        BY <4>1, <3>1, <3>2 DEF TlbsOK, TlbOK
      <4>3. QED
        BY <4>2, <3>1, <3>2, <3>3 DEF Current
    <3>6. ASSUME NEW e \in Cpus, Breaks(e)', cpu'[e].as = b PROVE Awaited(e, d)'
      <4>1. e # c /\ cpu'[e] = cpu[e] /\ Breaks(e) /\ cpu[e].as = b
        BY <3>4, <3>6, <1>3, ZenonT(30)
      <4>2. Awaited(e, d)
        BY <4>1, <3>1, <3>2, SMT DEF TlbsOK, TlbOK
      <4>3. PICK g : g = cpu[e].old
        OBVIOUS
      <4>4. g \in Frames /\ Own(b, g)
        <5>1. StageOK(e) /\ (Discards(e) \/ Promotes(e))
          BY <4>1 DEF StagesOK, Breaks, Discards, Promotes
        <5>2. QED
          BY <4>1, <4>3, <5>1 DEF StageOK, Own
      <4>5. tlb[d].w => \A x \in Spaces \ {b} : ~Own(x, g)
        BY <4>2, <4>3, <3>2 DEF Awaited
      <4>6. tlb[d].w => \A x \in Spaces \ {b} : ~Own(x, g)'
        BY <4>4, <4>5, <1>9, ZenonT(30)
      <4>7. \A x : Own(x, cpu[e].old)' <=> Own(x, g)'
        BY <4>1, <4>3, SMT DEF Own
      <4>8. QED
        BY <4>1, <4>2, <4>6, <4>7, <3>1, <3>2 DEF Awaited
    <3>7. QED
      BY <3>1, <3>2, <3>5, <3>6 DEF TlbOK
  <2>2. QED
    BY <1>1, <2>1 DEF TlbsOK
<1>13. QED
  BY <1>5, <1>6, <1>7, <1>8, <1>10, <1>11, <1>12

(* A free frame is nobody's. *)
LEMMA FreeFrame ==
  ASSUME SInv, NEW f \in Frames, refs[f] = 0
  PROVE  /\ \A a \in Spaces : ~Own(a, f)
         /\ \A d \in Cpus : Promotes(d) => cpu[d].new # f
BY SMT DEF SInv, RefsOK, Types

(* Who holds a space has its frame; nobody else answers for it. *)
LEMMA HeldFrame ==
  ASSUME SInv, NEW c \in Cpus, Holds(c), NEW g
  PROVE  /\ cpu[c].as \in Spaces /\ cpu[c] \in CpuType /\ cr3[c] = cpu[c].as
         /\ \A d \in Cpus \ {c} : Breaks(d) => cpu[d].as # cpu[c].as
         /\ Own(cpu[c].as, g) <=> lazy[cpu[c].as] = g \/ (Discards(c) /\ cpu[c].old = g)
<1>1. cpu[c].as \in Spaces /\ cpu[c] \in CpuType /\ cr3[c] = cpu[c].as
  BY DEF SInv, RootsOK, RootOK, Types, CpuType, Holds, Inside
<1>2. \A d \in Cpus \ {c} : Breaks(d) => cpu[d].as # cpu[c].as
  BY SMT DEF SInv, StagesOK, StageOK, Breaks, Flushes, Holds
<1>3. Own(cpu[c].as, g) <=> lazy[cpu[c].as] = g \/ (Discards(c) /\ cpu[c].old = g)
  BY <1>2 DEF Own, Discards, Breaks
<1>4. QED
  BY <1>1, <1>2, <1>3

(* Before the holder breaks the entry, what the CPUs of its space have cached is     *)
(* current, or they are confined.                                            *)
LEMMA HeldTlb ==
  ASSUME SInv, NEW c \in Cpus, Holds(c), ~Breaks(c), NEW d \in Cpus, cr3[d] = cpu[c].as,
         tlb[d] # NoPte, ~Confined(d)
  PROVE  Current(d) /\ lazy[cpu[c].as] \in Frames
<1>1. \A e \in Cpus : ~(Breaks(e) /\ cpu[e].as = cr3[d])
  BY HeldFrame, SMT
<1>2. Current(d)
  BY <1>1 DEF SInv, TlbsOK, TlbOK
<1>3. tlb[d].f \in Frames
  BY DEF SInv, RootsOK, RootOK
<1>4. QED
  BY <1>2, <1>3 DEF Current

(* Unlocking: the registers of the lock, and the CPU. *)
LEMMA UnlockFacts ==
  ASSUME SInv, NEW c \in Cpus, Holds(c), Unlocked(c)
  PROVE  /\ cpu' \in [Cpus -> CpuType] /\ \A d \in Cpus \ {c} : cpu'[d] = cpu[d]
         /\ cpu'[c].as = cpu[c].as /\ cpu'[c].pc = "kern" /\ cpu'[c].op = "none"
         /\ busy' \in [Spaces -> Cpus \cup {None}]
         /\ \A b \in Spaces \ {cpu[c].as} : busy'[b] = busy[b]
         /\ StageOK(c)' /\ ~Breaks(c)' /\ ~Discards(c)' /\ ~Promotes(c)'
<1>1. Types
  BY DEF SInv
<1>2. Shift(c, "kern", "none")
  BY <1>1, Released
<1>3. /\ cpu' \in [Cpus -> CpuType] /\ \A d \in Cpus \ {c} : cpu'[d] = cpu[d]
      /\ cpu'[c].as = cpu[c].as /\ cpu'[c].pc = "kern" /\ cpu'[c].op = "none" /\ cpu'[c].wait = {}
  BY <1>2 DEF Shift
<1>4. /\ busy' \in [Spaces -> Cpus \cup {None}]
      /\ \A b \in Spaces \ {cpu[c].as} : busy'[b] = busy[b]
  <2>1. cpu[c].as \in Spaces
    BY HeldFrame
  <2>2. busy \in [Spaces -> Cpus \cup {None}] /\ busy' = [busy EXCEPT ![cpu[c].as] = None]
    BY <1>1 DEF Unlocked, Types
  <2>3. QED
    BY <2>1, <2>2
<1>5. StageOK(c)' /\ ~Breaks(c)' /\ ~Discards(c)' /\ ~Promotes(c)'
  BY <1>3 DEF StageOK, Flushes, Breaks, Discards, Promotes, Holds
<1>6. QED
  BY <1>3, <1>4, <1>5

LEMMA FlushingFacts ==
  ASSUME SInv, NEW c \in Cpus, Holds(c), NEW op \in {"promote", "discard", "fork"},
         NEW old \in FrameOr, NEW new \in FrameOr, Flushing(c, op, old, new)
  PROVE  /\ cpu' \in [Cpus -> CpuType] /\ \A d \in Cpus \ {c} : cpu'[d] = cpu[d]
         /\ cpu'[c].as = cpu[c].as /\ cpu'[c].pc = "flush" /\ cpu'[c].op = op
         /\ cpu'[c].old = old /\ cpu'[c].new = new /\ cpu'[c].todo = Cpus \ {c} /\ cpu'[c].wait = {}
         /\ tlb' \in [Cpus -> PteType] /\ tlb'[c] = NoPte /\ \A d \in Cpus \ {c} : tlb'[d] = tlb[d]
<1>1. Types /\ cpu[c] \in CpuType
  BY HeldFrame DEF SInv
<1>2. PICK z : z = [cpu[c] EXCEPT !.pc = "flush", !.op = op, !.todo = Cpus \ {c}, !.wait = {},
                                 !.old = old, !.new = new]
  OBVIOUS
<1>3. /\ z \in CpuType /\ z.pc = "flush" /\ z.as = cpu[c].as /\ z.op = op /\ z.todo = Cpus \ {c}
      /\ z.wait = {} /\ z.old = old /\ z.new = new
  BY <1>1, <1>2 DEF CpuType, PcType, Inside, OpType
<1>4. cpu' = [cpu EXCEPT ![c] = z]
  BY <1>2 DEF Flushing
<1>5. tlb' \in [Cpus -> PteType] /\ tlb'[c] = NoPte /\ \A d \in Cpus \ {c} : tlb'[d] = tlb[d]
  BY <1>1 DEF Flushing, Types, NoPte, PteType, FrameOr
<1>6. QED
  BY <1>1, <1>3, <1>4, <1>5 DEF Types

-----------------------------------------------------------------------------
LEMMA AbsentKeeps ==
  ASSUME SInv, NEW c \in Cpus, FaultAbsent(c)
  PROVE  SInv'
<1>1. PICK a \in Spaces : a = cpu[c].as
  BY HeldFrame DEF FaultAbsent, Holds
<1>2. PICK f \in Frames : /\ refs[f] = 0 /\ refs' = [refs EXCEPT ![f] = 1]
                          /\ lazy' = [lazy EXCEPT ![a] = f]
                          /\ pte' = [pte EXCEPT ![a] = Entry(f, TRUE)]
  BY <1>1 DEF FaultAbsent
<1>3. /\ Holds(c) /\ cpu[c].pc = "locked" /\ cpu[c].op = "fault" /\ lazy[a] = None /\ Unlocked(c)
      /\ UNCHANGED <<alive, cr3, slot, ask, ipi>> /\ tlb' = tlb
  BY <1>1 DEF FaultAbsent, Holds, mmu, flags
<1>4. /\ cpu' \in [Cpus -> CpuType] /\ \A d \in Cpus \ {c} : cpu'[d] = cpu[d]
      /\ cpu'[c].as = cpu[c].as /\ cpu'[c].pc = "kern" /\ cpu'[c].op = "none"
      /\ busy' \in [Spaces -> Cpus \cup {None}]
      /\ \A b \in Spaces \ {cpu[c].as} : busy'[b] = busy[b]
      /\ StageOK(c)' /\ ~Breaks(c)' /\ ~Discards(c)' /\ ~Promotes(c)'
  BY <1>3, UnlockFacts
<1>5. /\ \A b \in Spaces : ~Own(b, f)
      /\ \A d \in Cpus : Promotes(d) => cpu[d].new # f
  BY <1>2, FreeFrame
<1>6. f # None /\ Entry(f, TRUE) \in PteType /\ Entry(f, TRUE).f = f /\ Entry(f, TRUE).w
  BY SpaceAssumption DEF Entry, PteType, FrameOr
<1>7. /\ pte' \in [Spaces -> PteType] /\ lazy' \in [Spaces -> FrameOr] /\ refs' \in [Frames -> Nat]
      /\ tlb' \in [Cpus -> PteType]
      /\ lazy'[a] = f /\ pte'[a] = Entry(f, TRUE) /\ refs'[f] = 1
      /\ \A g \in Frames : g # f => refs'[g] = refs[g]
      /\ \A b \in Spaces \ {a} : pte'[b] = pte[b] /\ lazy'[b] = lazy[b]
  BY <1>2, <1>3, <1>6 DEF SInv, Types, FrameOr
<1>8. \A g \in Frames : Gains(c, g) => g = f
  BY <1>1, <1>4, <1>7 DEF Gains
<1>9. \A g \in Frames : \A b \in Spaces \ {cpu[c].as} : Own(b, g) => refs'[g] >= 1
  BY <1>5, <1>7 DEF SInv, RefsOK
<1>10. \A d \in Cpus \ {c} : Promotes(d) => refs'[cpu[d].new] >= 1
  BY <1>5, <1>7 DEF SInv, RefsOK, StagesOK, StageOK
<1>11. ASSUME NEW d \in Cpus, cr3[d] = a PROVE TlbOK(d)'
  <2>1. tlb[d] = NoPte \/ Confined(d)
    BY <1>1, <1>3, <1>11, HeldTlb, SpaceAssumption DEF Breaks, Flushes
  <2>2. Confined(d) => Confined(d)'
    BY <1>3, <1>4 DEF Confined
  <2>3. QED
    BY <1>3, <2>1, <2>2 DEF TlbOK, NoPte
<1>12. GainsFree(c)
  BY <1>5, <1>7, <1>8, SMT DEF GainsFree
<1>13. EntryBacked(c)
  BY <1>1, <1>5, <1>6, <1>7 DEF EntryBacked
<1>14. QED
  BY <1>1, <1>3, <1>4, <1>7, <1>9, <1>10, <1>11, <1>12, <1>13, PageStep DEF Inside, GainsFree, RefsKept, EntryBacked, CopyFree

LEMMA ReuseKeeps ==
  ASSUME SInv, NEW c \in Cpus, PromoteReuse(c)
  PROVE  SInv'
<1>1. PICK a \in Spaces : a = cpu[c].as
  BY HeldFrame DEF PromoteReuse, Holds
<1>2. PICK f \in Frames : f = lazy[a]
  BY <1>1, SMT DEF PromoteReuse, SInv, StagesOK, StageOK, Types, FrameOr
<1>3. /\ Holds(c) /\ cpu[c].pc = "cow" /\ cpu[c].op = "fault" /\ refs[f] <= 1 /\ Unlocked(c)
      /\ UNCHANGED <<alive, cr3, slot, ask, ipi>> /\ tlb' = [tlb EXCEPT ![c] = NoPte]
      /\ lazy' = lazy /\ refs' = refs /\ pte' = [pte EXCEPT ![a] = Entry(f, TRUE)]
  BY <1>1, <1>2 DEF PromoteReuse, Holds, flags
<1>4. /\ cpu' \in [Cpus -> CpuType] /\ \A d \in Cpus \ {c} : cpu'[d] = cpu[d]
      /\ cpu'[c].as = cpu[c].as /\ cpu'[c].pc = "kern" /\ cpu'[c].op = "none"
      /\ busy' \in [Spaces -> Cpus \cup {None}]
      /\ \A b \in Spaces \ {cpu[c].as} : busy'[b] = busy[b]
      /\ StageOK(c)' /\ ~Breaks(c)' /\ ~Discards(c)' /\ ~Promotes(c)'
  BY <1>3, UnlockFacts
<1>5. Own(a, f) /\ \A b \in Spaces \ {a} : ~Own(b, f)
  <2>1. Own(a, f)
    BY <1>2 DEF Own
  <2>2. ~(Own(Forker, f) /\ Own(Child, f))
    BY <1>3, SMT DEF SInv, RefsOK, Types
  <2>3. QED
    BY <2>1, <2>2 DEF Spaces
<1>6. f # None /\ Entry(f, TRUE) \in PteType /\ Entry(f, TRUE).f = f /\ Entry(f, TRUE).w /\ NoPte \in PteType
  BY SpaceAssumption DEF Entry, PteType, FrameOr, NoPte
<1>7. /\ pte' \in [Spaces -> PteType] /\ lazy' \in [Spaces -> FrameOr] /\ refs' \in [Frames -> Nat]
      /\ tlb' \in [Cpus -> PteType] /\ tlb'[c] = NoPte /\ \A d \in Cpus \ {c} : tlb'[d] = tlb[d]
      /\ lazy'[a] = f /\ pte'[a] = Entry(f, TRUE)
      /\ \A b \in Spaces \ {a} : pte'[b] = pte[b] /\ lazy'[b] = lazy[b]
  BY <1>2, <1>3, <1>6 DEF SInv, Types
<1>8. \A g \in Frames : Gains(c, g) => g = f
  BY <1>1, <1>4, <1>7 DEF Gains
<1>9. \A g \in Frames : \A b \in Spaces : Own(b, g) => refs'[g] >= 1
  BY <1>3 DEF SInv, RefsOK
<1>10. \A d \in Cpus \ {c} : Promotes(d) => refs'[cpu[d].new] >= 1
  BY <1>3 DEF SInv, RefsOK
<1>11. ASSUME NEW d \in Cpus, cr3[d] = a PROVE TlbOK(d)'
  <2>0. SUFFICES ASSUME tlb'[d] # NoPte, ~Confined(d)' PROVE TlbOK(d)'
    BY DEF TlbOK, NoPte
  <2>1. d # c /\ tlb'[d] = tlb[d] /\ tlb[d] # NoPte /\ ~Confined(d) /\ cr3'[d] = cr3[d]
    BY <1>3, <1>4, <1>7, <2>0 DEF Confined
  <2>2. Current(d)
    BY <1>1, <1>3, <1>11, <2>1, HeldTlb DEF Breaks, Flushes
  <2>3. Current(d)'
    BY <1>6, <1>7, <1>3, <1>11, <2>1, <2>2 DEF Current
  <2>4. ASSUME NEW e \in Cpus, Breaks(e)', cpu'[e].as = cr3'[d] PROVE FALSE
    <3>1. e # c
      BY <1>4, <2>4
    <3>2. Breaks(e) /\ cpu[e].as = cpu[c].as
      BY <3>1, <2>4, <1>1, <1>4, <1>11, <2>1 DEF Breaks, Flushes
    <3>3. QED
      BY <3>1, <3>2, <1>3, HeldFrame
  <2>5. QED
    BY <2>3, <2>4 DEF TlbOK
<1>12. GainsFree(c)
  BY <1>1, <1>5, <1>8, <1>9 DEF GainsFree
<1>13. EntryBacked(c)
  BY <1>1, <1>5, <1>6, <1>7 DEF EntryBacked
<1>14. QED
  BY <1>1, <1>3, <1>4, <1>7, <1>9, <1>10, <1>11, <1>12, <1>13, PageStep, ZenonT(30) DEF Inside, GainsFree, RefsKept, EntryBacked, CopyFree

(* Once the entry is broken, every CPU that may have cached it is awaited. *)
LEMMA BrokenTlb ==
  ASSUME SInv, NEW c \in Cpus, Holds(c), ~Breaks(c), NEW op \in {"promote", "discard"}, NEW f \in Frames,
         f = lazy[cpu[c].as], cr3' = cr3, ipi' = ipi,
         \A d \in Cpus \ {c} : cpu'[d] = cpu[d] /\ tlb'[d] = tlb[d], tlb'[c] = NoPte,
         cpu'[c].as = cpu[c].as, cpu'[c].pc = "flush", cpu'[c].op = op, cpu'[c].old = f,
         cpu'[c].todo = Cpus \ {c},
         \A b \in Spaces \ {cpu[c].as} : lazy'[b] = lazy[b],
         NEW d \in Cpus, cr3[d] = cpu[c].as
  PROVE  TlbOK(d)'
<1>0. SUFFICES ASSUME tlb'[d] # NoPte, ~Confined(d)' PROVE TlbOK(d)'
  BY DEF TlbOK, NoPte
<1>1. d # c /\ tlb'[d] = tlb[d] /\ tlb[d] # NoPte /\ ~Confined(d) /\ cr3'[d] = cr3[d]
  BY <1>0 DEF Confined
<1>2. Current(d)
  BY <1>1, HeldTlb
<1>3. Breaks(c)'
  BY DEF Breaks, Flushes
<1>4. ASSUME NEW e \in Cpus, Breaks(e)', cpu'[e].as = cr3'[d] PROVE e = c
  <2>1. SUFFICES ASSUME e # c PROVE FALSE
    OBVIOUS
  <2>2. Breaks(e) /\ cpu[e].as = cpu[c].as
    BY <1>1, <1>4, <2>1 DEF Breaks, Flushes
  <2>3. QED
    BY <2>1, <2>2, HeldFrame
<1>5. tlb[d].w => \A b \in Spaces \ {cr3[d]} : ~Own(b, f)
  <2>1. cpu[c].as \in Spaces
    BY HeldFrame
  <2>2. tlb[d].w => pte[cpu[c].as].w
    BY <1>2 DEF Current
  <2>3. pte[cpu[c].as].w => pte[cpu[c].as] # NoPte
    BY SMT DEF NoPte
  <2>4. QED
    BY <2>1, <2>2, <2>3, ZenonT(30) DEF SInv, PtesOK
<1>6. ASSUME NEW b \in Spaces \ {cr3[d]} PROVE Own(b, f)' <=> Own(b, f)
  <2>1. \A e \in Cpus \ {c} : Discards(e)' <=> Discards(e)
    BY DEF Discards, Flushes
  <2>2. QED
    BY <2>1 DEF Own
<1>7. \A b : Own(b, cpu[c].old)' <=> Own(b, f)'
  BY DEF Own
<1>8. Awaited(c, d)'
  <2>1. tlb'[d].f = cpu'[c].old
    BY <1>1, <1>2 DEF Current
  <2>2. tlb'[d].w => \A b \in Spaces \ {cr3'[d]} : ~Own(b, cpu[c].old)'
    BY <1>1, <1>5, <1>6, <1>7
  <2>3. d \in cpu'[c].todo \cup cpu'[c].wait
    BY <1>1
  <2>4. QED
    BY <2>1, <2>2, <2>3 DEF Awaited
<1>9. QED
  BY <1>1, <1>3, <1>4, <1>8 DEF TlbOK

(* ... and when the flush is over nobody has it outside the kernel. *)
LEMMA FlushedTlb ==
  ASSUME SInv, NEW c \in Cpus, Breaks(c), cpu[c].pc = "finish", tlb' = tlb, ipi' = ipi,
         \A d \in Cpus \ {c} : cpu'[d] = cpu[d],
         NEW d \in Cpus, cr3[d] = cpu[c].as
  PROVE  TlbOK(d)'
<1>1. tlb[d] = NoPte \/ Confined(d)
  BY DEF SInv, TlbsOK, TlbOK, Awaited
<1>2. Confined(d) => Confined(d)'
  BY DEF Confined
<1>3. QED
  BY <1>1, <1>2 DEF TlbOK, NoPte

LEMMA CopyKeeps ==
  ASSUME SInv, NEW c \in Cpus, PromoteCopy(c)
  PROVE  SInv'
<1>1. PICK a \in Spaces : a = cpu[c].as
  BY HeldFrame, ZenonT(30) DEF PromoteCopy, Holds
<1>2. PICK f \in Frames : f = lazy[a]
  BY <1>1, SMT DEF PromoteCopy, SInv, StagesOK, StageOK, Types, FrameOr
<1>3. PICK n \in Frames : /\ refs[n] = 0 /\ refs' = [refs EXCEPT ![n] = 1]
                          /\ pte' = [pte EXCEPT ![a] = NoPte]
                          /\ Flushing(c, "promote", f, n)
  BY <1>1, <1>2 DEF PromoteCopy
<1>4. /\ Holds(c) /\ ~Breaks(c) /\ cpu[c].op = "fault" /\ lazy' = lazy /\ busy' = busy
      /\ UNCHANGED <<alive, cr3, slot, ask, ipi>> /\ cr3' = cr3 /\ ipi' = ipi
  BY <1>1 DEF PromoteCopy, Holds, Breaks, Flushes, locks, flags
<1>5. /\ cpu' \in [Cpus -> CpuType] /\ \A d \in Cpus \ {c} : cpu'[d] = cpu[d]
      /\ cpu'[c].as = cpu[c].as /\ cpu'[c].pc = "flush" /\ cpu'[c].op = "promote"
      /\ cpu'[c].old = f /\ cpu'[c].new = n /\ cpu'[c].todo = Cpus \ {c} /\ cpu'[c].wait = {}
      /\ tlb' \in [Cpus -> PteType] /\ tlb'[c] = NoPte /\ \A d \in Cpus \ {c} : tlb'[d] = tlb[d]
  BY <1>3, <1>4, FlushingFacts DEF FrameOr
<1>6. /\ \A b \in Spaces : ~Own(b, n)
      /\ \A d \in Cpus : Promotes(d) => cpu[d].new # n
  BY <1>3, FreeFrame
<1>7. NoPte \in PteType
  BY DEF NoPte, PteType, FrameOr
<1>8. /\ pte' \in [Spaces -> PteType] /\ lazy' \in [Spaces -> FrameOr] /\ refs' \in [Frames -> Nat]
      /\ busy' \in [Spaces -> Cpus \cup {None}]
      /\ pte'[a] = NoPte /\ refs'[n] = 1
      /\ \A g \in Frames : g # n => refs'[g] = refs[g]
      /\ \A b \in Spaces \ {a} : pte'[b] = pte[b]
  BY <1>3, <1>4, <1>7 DEF SInv, Types
<1>9. Own(a, f)
  BY <1>2 DEF Own
<1>10. \A g \in Frames : Gains(c, g) => g = f
  BY <1>1, <1>2, <1>4, <1>5 DEF Gains, Discards
<1>11. \A g \in Frames : \A b \in Spaces : Own(b, g) => g # n /\ refs'[g] >= 1
  BY <1>6, <1>8 DEF SInv, RefsOK
<1>12. \A d \in Cpus \ {c} : Promotes(d) => refs'[cpu[d].new] >= 1
  BY <1>6, <1>8 DEF SInv, RefsOK, StagesOK, StageOK
<1>13. \A b \in Spaces \ {a} : Own(b, f) => refs'[f] >= 2
  <2>1. Own(Forker, f) /\ Own(Child, f) => refs[f] >= 2
    BY DEF SInv, RefsOK
  <2>2. refs'[f] = refs[f]
    BY <1>8, <1>9, <1>11
  <2>3. QED
    BY <1>9, <2>1, <2>2, SMT DEF Spaces
<1>14. StageOK(c)'
  <2>1. busy'[cpu[c].as] = c
    BY <1>4 DEF SInv, StagesOK, StageOK
  <2>2. QED
    BY <1>1, <1>2, <1>4, <1>5, <1>8, <2>1 DEF StageOK, Flushes, Breaks, Discards, Promotes, Holds
<1>15. ~Gains(c, n)
  BY <1>6, <1>9, <1>10
<1>16. \A d \in Cpus : cr3[d] = cpu[c].as => TlbOK(d)'
  BY <1>1, <1>2, <1>4, <1>5, BrokenTlb
<1>17. GainsFree(c)
  BY <1>1, <1>9, <1>10, <1>11, <1>13 DEF GainsFree
<1>18. CopyFree(c)
  BY <1>5, <1>6, <1>8, <1>15, SMT DEF CopyFree
<1>19. QED
  BY <1>1, <1>4, <1>5, <1>8, <1>11, <1>12, <1>14, <1>16, <1>17, <1>18, PageStep DEF Inside, GainsFree, RefsKept, EntryBacked, CopyFree

LEMMA DiscardKeeps ==
  ASSUME SInv, NEW c \in Cpus, discard_range(c)
  PROVE  SInv'
<1>1. PICK a \in Spaces : a = cpu[c].as
  BY HeldFrame DEF discard_range, Holds
<1>2. PICK f \in Frames : f = lazy[a]
  BY <1>1 DEF discard_range, SInv, Types, FrameOr
<1>3. /\ Holds(c) /\ ~Breaks(c) /\ cpu[c].op = "discard" /\ refs' = refs /\ busy' = busy
      /\ UNCHANGED <<alive, cr3, slot, ask, ipi>> /\ cr3' = cr3 /\ ipi' = ipi
      /\ pte' = [pte EXCEPT ![a] = NoPte] /\ lazy' = [lazy EXCEPT ![a] = None]
      /\ Flushing(c, "discard", f, None)
  BY <1>1, <1>2 DEF discard_range, Holds, Breaks, Flushes, locks, flags
<1>4. /\ cpu' \in [Cpus -> CpuType] /\ \A d \in Cpus \ {c} : cpu'[d] = cpu[d]
      /\ cpu'[c].as = cpu[c].as /\ cpu'[c].pc = "flush" /\ cpu'[c].op = "discard"
      /\ cpu'[c].old = f /\ cpu'[c].todo = Cpus \ {c} /\ cpu'[c].wait = {}
      /\ tlb' \in [Cpus -> PteType] /\ tlb'[c] = NoPte /\ \A d \in Cpus \ {c} : tlb'[d] = tlb[d]
  BY <1>3, FlushingFacts, ZenonT(30) DEF FrameOr
<1>5. NoPte \in PteType
  BY DEF NoPte, PteType, FrameOr
<1>6. /\ pte' \in [Spaces -> PteType] /\ lazy' \in [Spaces -> FrameOr] /\ refs' \in [Frames -> Nat]
      /\ busy' \in [Spaces -> Cpus \cup {None}]
      /\ pte'[a] = NoPte /\ lazy'[a] = None
      /\ \A b \in Spaces \ {a} : pte'[b] = pte[b] /\ lazy'[b] = lazy[b]
  BY <1>3, <1>5 DEF SInv, Types, FrameOr
<1>7. Own(a, f)
  BY <1>2 DEF Own
<1>8. \A g \in Frames : Gains(c, g) => g = f
  BY <1>1, <1>4, <1>6, SpaceAssumption DEF Gains
<1>9. \A g \in Frames : \A b \in Spaces : Own(b, g) => refs'[g] >= 1
  BY <1>3 DEF SInv, RefsOK
<1>10. \A d \in Cpus \ {c} : Promotes(d) => refs'[cpu[d].new] >= 1
  BY <1>3 DEF SInv, RefsOK
<1>11. \A b \in Spaces \ {a} : Own(b, f) => refs'[f] >= 2
  <2>1. Own(Forker, f) /\ Own(Child, f) => refs[f] >= 2
    BY DEF SInv, RefsOK
  <2>2. QED
    BY <1>3, <1>7, <2>1, SMT DEF Spaces
<1>12. StageOK(c)'
  <2>1. busy'[cpu[c].as] = c
    BY <1>3 DEF SInv, StagesOK, StageOK
  <2>2. QED
    BY <1>1, <1>2, <1>4, <1>6, <2>1 DEF StageOK, Flushes, Breaks, Discards, Promotes, Holds
<1>13. ~Promotes(c)'
  BY <1>4, ZenonT(30) DEF Promotes
<1>14. \A d \in Cpus : cr3[d] = cpu[c].as => TlbOK(d)'
  BY <1>1, <1>2, <1>3, <1>4, <1>6, BrokenTlb, SMT
<1>15. GainsFree(c)
  BY <1>1, <1>7, <1>8, <1>9, <1>11 DEF GainsFree
<1>16. QED
  BY <1>1, <1>3, <1>4, <1>6, <1>9, <1>10, <1>12, <1>13, <1>14, <1>15, PageStep DEF Inside, GainsFree, RefsKept, EntryBacked, CopyFree

LEMMA PromoteEndKeeps ==
  ASSUME SInv, NEW c \in Cpus, PromoteEnd(c)
  PROVE  SInv'
<1>1. PICK a \in Spaces : a = cpu[c].as
  BY HeldFrame DEF PromoteEnd, Holds
<1>2. Promotes(c) /\ Breaks(c) /\ Holds(c) /\ cpu[c].pc = "finish" /\ cpu[c].op = "promote" /\ Unlocked(c)
  BY DEF PromoteEnd, Promotes, Breaks, Flushes, Holds
<1>3. PICK f \in Frames : f = cpu[c].old /\ f = lazy[a]
  BY <1>1, <1>2 DEF SInv, StagesOK, StageOK
<1>4. PICK n \in Frames : n = cpu[c].new
  BY <1>2 DEF SInv, StagesOK, StageOK
<1>5. /\ pte' = [pte EXCEPT ![a] = Entry(n, TRUE)] /\ lazy' = [lazy EXCEPT ![a] = n]
      /\ refs' = [refs EXCEPT ![f] = IF @ > 1 THEN @ - 1 ELSE @]
      /\ UNCHANGED <<alive, cr3, slot, ask, ipi>> /\ tlb' = tlb /\ ipi' = ipi
  BY <1>1, <1>3, <1>4 DEF PromoteEnd, Dec, mmu, flags
<1>6. /\ cpu' \in [Cpus -> CpuType] /\ \A d \in Cpus \ {c} : cpu'[d] = cpu[d]
      /\ cpu'[c].as = cpu[c].as /\ cpu'[c].pc = "kern" /\ cpu'[c].op = "none"
      /\ busy' \in [Spaces -> Cpus \cup {None}]
      /\ \A b \in Spaces \ {cpu[c].as} : busy'[b] = busy[b]
      /\ StageOK(c)' /\ ~Breaks(c)' /\ ~Discards(c)' /\ ~Promotes(c)'
  BY <1>2, UnlockFacts
<1>7. /\ \A b \in Spaces : ~Own(b, n)
      /\ \A d \in Cpus \ {c} : Promotes(d) => cpu[d].new # n
      /\ refs[n] >= 1
  BY <1>2, <1>4 DEF SInv, RefsOK
<1>8. Own(a, f) /\ refs[f] >= 1 /\ f # n
  BY <1>3, <1>7 DEF Own, SInv, RefsOK
<1>9. n # None /\ Entry(n, TRUE) \in PteType /\ Entry(n, TRUE).f = n /\ Entry(n, TRUE).w
  BY SpaceAssumption DEF Entry, PteType, FrameOr
<1>10. /\ pte' \in [Spaces -> PteType] /\ lazy' \in [Spaces -> FrameOr]
       /\ tlb' \in [Cpus -> PteType]
       /\ lazy'[a] = n /\ pte'[a] = Entry(n, TRUE)
       /\ \A b \in Spaces \ {a} : pte'[b] = pte[b] /\ lazy'[b] = lazy[b]
  BY <1>5, <1>9 DEF SInv, Types, FrameOr
<1>11. /\ refs' \in [Frames -> Nat] /\ refs'[n] = refs[n]
       /\ \A g \in Frames : g # f => refs'[g] = refs[g]
       /\ refs[f] >= 2 => refs'[f] = refs[f] - 1
       /\ refs'[f] >= 1
  BY <1>5, <1>8, SMT DEF SInv, Types
<1>12. \A g \in Frames : Gains(c, g) => g = n
  BY <1>1, <1>6, <1>10 DEF Gains
<1>13. \A g \in Frames : \A b \in Spaces : Own(b, g) => refs'[g] >= 1
  BY <1>11 DEF SInv, RefsOK
<1>14. \A d \in Cpus \ {c} : Promotes(d) => refs'[cpu[d].new] >= 1
  BY <1>11 DEF SInv, RefsOK, StagesOK, StageOK
<1>15. \A d \in Cpus : cr3[d] = cpu[c].as => TlbOK(d)'
  BY <1>2, <1>5, <1>6, FlushedTlb
<1>16. GainsFree(c)
  BY <1>7, <1>11, <1>12 DEF GainsFree
<1>17. EntryBacked(c)
  BY <1>1, <1>7, <1>9, <1>10 DEF EntryBacked
<1>18. QED
  BY <1>1, <1>2, <1>5, <1>6, <1>10, <1>11, <1>13, <1>14, <1>15, <1>16, <1>17, PageStep, ZenonT(30) DEF Inside, GainsFree, RefsKept, EntryBacked, CopyFree

LEMMA DiscardEndKeeps ==
  ASSUME SInv, NEW c \in Cpus, DiscardEnd(c)
  PROVE  SInv'
<1>1. PICK a \in Spaces : a = cpu[c].as
  BY HeldFrame DEF DiscardEnd, Holds
<1>2. Discards(c) /\ Breaks(c) /\ Holds(c) /\ cpu[c].pc = "finish" /\ cpu[c].op = "discard" /\ Unlocked(c)
  BY DEF DiscardEnd, Discards, Breaks, Flushes, Holds
<1>3. PICK f \in Frames : f = cpu[c].old
  BY <1>2 DEF SInv, StagesOK, StageOK
<1>4. /\ pte' = pte /\ lazy' = lazy /\ refs' = [refs EXCEPT ![f] = @ - 1]
      /\ UNCHANGED <<alive, cr3, slot, ask, ipi>> /\ tlb' = tlb /\ ipi' = ipi
      /\ pte[a] = NoPte /\ lazy[a] = None
  BY <1>1, <1>2, <1>3 DEF DiscardEnd, unref_or_free, mmu, flags, SInv, StagesOK, StageOK
<1>5. /\ cpu' \in [Cpus -> CpuType] /\ \A d \in Cpus \ {c} : cpu'[d] = cpu[d]
      /\ cpu'[c].as = cpu[c].as /\ cpu'[c].pc = "kern" /\ cpu'[c].op = "none"
      /\ busy' \in [Spaces -> Cpus \cup {None}]
      /\ \A b \in Spaces \ {cpu[c].as} : busy'[b] = busy[b]
      /\ StageOK(c)' /\ ~Breaks(c)' /\ ~Discards(c)' /\ ~Promotes(c)'
  BY <1>2, UnlockFacts
<1>6. Own(a, f) /\ refs[f] >= 1
  BY <1>1, <1>2, <1>3 DEF Own, SInv, RefsOK
<1>7. /\ pte' \in [Spaces -> PteType] /\ lazy' \in [Spaces -> FrameOr] /\ tlb' \in [Cpus -> PteType]
  BY <1>4 DEF SInv, Types
<1>8. /\ refs' \in [Frames -> Nat] /\ refs'[f] = refs[f] - 1
      /\ \A g \in Frames : g # f => refs'[g] = refs[g]
  BY <1>4, <1>6, SMT DEF SInv, Types
<1>9. \A g \in Frames : ~Gains(c, g)
  BY <1>1, <1>4, <1>5, SpaceAssumption DEF Gains
<1>10. ASSUME NEW g \in Frames, NEW b \in Spaces \ {a}, Own(b, g) PROVE refs'[g] >= 1
  <2>1. CASE g = f
    <3>1. Own(Forker, f) /\ Own(Child, f)
      BY <1>6, <1>10, <2>1, SMT DEF Spaces
    <3>2. refs[f] >= 2 /\ refs[f] \in Nat
      BY <3>1 DEF SInv, RefsOK, Types
    <3>3. QED
      BY <1>8, <2>1, <3>2, SMT
  <2>2. CASE g # f
    BY <1>8, <1>10, <2>2 DEF SInv, RefsOK
  <2>3. QED
    BY <2>1, <2>2
<1>11. \A d \in Cpus \ {c} : Promotes(d) => refs'[cpu[d].new] >= 1
  BY <1>6, <1>8, ZenonT(30) DEF SInv, RefsOK, StagesOK, StageOK
<1>12. \A d \in Cpus : cr3[d] = cpu[c].as => TlbOK(d)'
  BY <1>2, <1>4, <1>5, FlushedTlb
<1>13. QED
  BY <1>1, <1>2, <1>4, <1>5, <1>7, <1>8, <1>9, <1>10, <1>11, <1>12, PageStep DEF Inside, GainsFree, RefsKept, EntryBacked, CopyFree

(* The fork's flush is over, and the child exists. *)
LEMMA ForkEndKeeps ==
  ASSUME SInv, NEW c \in Cpus, ForkEnd(c)
  PROVE  SInv'
<1> USE DEF SInv
<1>1. /\ Holds(c) /\ cpu[c].pc = "finish" /\ cpu[c].op = "fork" /\ Unlocked(c)
      /\ alive' = alive \cup {Child} /\ pte' = pte /\ lazy' = lazy /\ refs' = refs
      /\ cr3' = cr3 /\ slot' = slot /\ tlb' = tlb /\ ask' = ask /\ ipi' = ipi
  BY DEF ForkEnd, Holds, mmu, flags
<1>2. /\ cpu' \in [Cpus -> CpuType] /\ \A d \in Cpus \ {c} : cpu'[d] = cpu[d]
      /\ cpu'[c].as = cpu[c].as /\ cpu'[c].pc = "kern" /\ cpu'[c].op = "none"
      /\ busy' \in [Spaces -> Cpus \cup {None}]
      /\ \A b \in Spaces \ {cpu[c].as} : busy'[b] = busy[b]
      /\ StageOK(c)' /\ ~Breaks(c)' /\ ~Discards(c)' /\ ~Promotes(c)'
  BY <1>1, UnlockFacts
<1>3. cpu[c].as = Forker /\ \A d \in Cpus \ {c} : cpu[d].as # Forker /\ cpu[d].op # "fork"
  BY <1>1 DEF ForksOK, ForkAlone
<1>4. Still
  BY <1>1, <1>2 DEF Still, Breaks, Flushes
<1>5. Types'
  BY <1>1, <1>2 DEF Types, Spaces
<1>6. RootsOK'
  <2>1. ASSUME NEW d \in Cpus PROVE RootOK(d)'
    <3>1. CASE d = c
      BY <3>1, <1>1, <1>2 DEF RootsOK, RootOK, Inside
    <3>2. CASE d # c
      BY <3>2, <1>1, <1>2, ZenonT(30) DEF RootsOK, RootOK
    <3>3. QED
      BY <3>1, <3>2
  <2>2. QED
    BY <2>1 DEF RootsOK
<1>7. StagesOK'
  <2>1. ASSUME NEW d \in Cpus, d # c PROVE StageOK(d)'
    <3>1. StageOK(d) /\ cpu'[d] = cpu[d]
      BY <1>2, <2>1 DEF StagesOK
    <3>2. Holds(d) => busy'[cpu[d].as] = busy[cpu[d].as]
      BY <1>2, <1>3, <2>1 DEF RootsOK, RootOK, Types, CpuType, Holds
    <3>3. QED
      BY <3>1, <3>2, <1>1 DEF StageOK, Holds, Flushes, Breaks, Discards, Promotes
  <2>2. QED
    BY <1>2, <2>1 DEF StagesOK
<1>8. ForksOK'
  <2>1. \A d \in Cpus : cpu'[d].op # "fork"
    BY <1>2, <1>3
  <2>2. QED
    BY <2>1, <1>1 DEF ForksOK, ForkAlone
<1>9. PtesOK' /\ RefsOK'
  BY <1>4, StillKeeps
<1>10. TlbsOK'
  <2>1. ASSUME NEW d \in Cpus PROVE TlbOK(d)'
    <3>1. TlbOK(d) /\ tlb'[d] = tlb[d] /\ cr3'[d] = cr3[d]
      BY <1>1 DEF TlbsOK
    <3>2. Confined(d) => Confined(d)'
      BY <1>1, <1>2 DEF Confined
    <3>3. \A e \in Cpus : Breaks(e) /\ cpu[e].as = cr3[d] /\ Awaited(e, d) =>
                 \/ Confined(d)'
                 \/ cpu'[e].pc = "flush" /\ d \in cpu'[e].todo \cup cpu'[e].wait
      BY <1>1, <1>2 DEF Awaited
    <3>4. QED
      BY <3>1, <3>2, <3>3, <1>4, StillTlb
  <2>2. QED
    BY <2>1 DEF TlbsOK
<1>11. QED
  BY <1>5, <1>6, <1>7, <1>8, <1>9, <1>10

(* The copy of the address space: the caller alone has a root loaded. *)
LEMMA CloneKeeps ==
  ASSUME SInv, NEW c \in Cpus, clone_as(c)
  PROVE  SInv'
<1> USE DEF SInv
<1>1. /\ Holds(c) /\ cpu[c].pc = "cow" /\ cpu[c].op = "fork" /\ Flushing(c, "fork", None, None)
      /\ alive' = alive /\ busy' = busy /\ cr3' = cr3 /\ slot' = slot /\ ask' = ask /\ ipi' = ipi
      /\ lazy' = [lazy EXCEPT ![Child] = lazy[Forker]]
      /\ pte' = IF lazy[Forker] = None THEN pte ELSE [a \in Spaces |-> Entry(lazy[Forker], FALSE)]
      /\ refs' = IF lazy[Forker] = None THEN refs ELSE [refs EXCEPT ![lazy[Forker]] = @ + 1]
  BY DEF clone_as, Holds, locks, flags, Inc
<1>2. /\ cpu' \in [Cpus -> CpuType] /\ \A d \in Cpus \ {c} : cpu'[d] = cpu[d]
      /\ cpu'[c].as = cpu[c].as /\ cpu'[c].pc = "flush" /\ cpu'[c].op = "fork"
      /\ cpu'[c].todo = Cpus \ {c} /\ cpu'[c].wait = {}
      /\ tlb' \in [Cpus -> PteType] /\ tlb'[c] = NoPte /\ \A d \in Cpus \ {c} : tlb'[d] = tlb[d]
  BY <1>1, FlushingFacts DEF FrameOr
<1>3. cpu[c].as = Forker /\ Child \notin alive
  BY <1>1 DEF ForksOK, ForkAlone
<1>4. \A d \in Cpus \ {c} : cpu[d].pc = "idle" /\ cpu[d].as = None /\ cpu[d].op = "none" /\ cr3[d] = None
  <2>1. ASSUME NEW d \in Cpus \ {c} PROVE cpu[d].as = None
    <3>1. cpu[d].as # Forker /\ cpu[d].as \in Spaces \cup {None}
      BY <1>1 DEF ForksOK, ForkAlone, Types, CpuType
    <3>2. cpu[d].as # None => cpu[d].as \in alive
      BY DEF RootsOK, RootOK
    <3>3. QED
      BY <1>3, <3>1, <3>2 DEF Spaces
  <2>2. QED
    BY <2>1 DEF RootsOK, RootOK, StagesOK, StageOK, Inside
<1>5. \A d \in Cpus : tlb'[d] = NoPte
  BY <1>2, <1>4, ZenonT(30) DEF RootsOK, RootOK
<1>6. \A d \in Cpus : ~Breaks(d)' /\ ~Discards(d)' /\ ~Promotes(d)'
  BY <1>2, <1>4 DEF Breaks, Discards, Promotes, Flushes
<1>7. lazy[Child] = None /\ pte[Child] = NoPte
  <2>1. ~ForksNow
    BY <1>1, <1>4 DEF ForksNow, Flushes
  <2>2. QED
    BY <1>3, <2>1 DEF ForksOK
<1>8. PICK f \in FrameOr : f = lazy[Forker]
  BY DEF Types, Spaces
<1>9. Forker \in Spaces /\ Child \in Spaces /\ Forker # Child
  BY SpaceAssumption DEF Spaces
<1>10. /\ lazy' \in [Spaces -> FrameOr] /\ lazy'[Forker] = f /\ lazy'[Child] = f
  BY <1>1, <1>8, <1>9 DEF Types
<1>11. pte' \in [Spaces -> PteType]
  BY <1>1, <1>8 DEF Types, Entry, PteType
<1>12. f # None => f \in Frames /\ refs[f] \in Nat /\ refs[f] >= 1 /\ refs' \in [Frames -> Nat] /\ refs'[f] = refs[f] + 1
  <2>1. ASSUME f # None PROVE f \in Frames /\ Own(Forker, f)
    BY <1>8, <2>1 DEF FrameOr, Own
  <2>2. QED
    BY <1>1, <1>8, <1>9, <2>1, SMT DEF Types, RefsOK
<1>13. Types'
  BY <1>1, <1>2, <1>8, <1>10, <1>11, <1>12 DEF Types
<1>14. RootsOK'
  <2>1. ASSUME NEW d \in Cpus PROVE RootOK(d)'
    <3>1. CASE d = c
      BY <3>1, <1>1, <1>2, <1>5 DEF RootsOK, RootOK, Inside
    <3>2. CASE d # c
      BY <3>2, <1>1, <1>2, SMT DEF RootsOK, RootOK
    <3>3. QED
      BY <3>1, <3>2
  <2>2. QED
    BY <2>1 DEF RootsOK
<1>15. StagesOK'
  <2>1. StageOK(c)'
    <3>1. busy'[cpu[c].as] = c
      BY <1>1 DEF StagesOK, StageOK
    <3>2. QED
      BY <1>2, <1>6, <3>1 DEF StageOK
  <2>2. ASSUME NEW d \in Cpus, d # c PROVE StageOK(d)'
    <3>1. StageOK(d) /\ cpu'[d] = cpu[d] /\ cpu[d].pc = "idle" /\ cpu[d].op = "none"
      BY <1>2, <1>4, <2>2 DEF StagesOK
    <3>2. QED
      BY <3>1, <1>6 DEF StageOK, Flushes, Holds
  <2>3. QED
    BY <2>1, <2>2 DEF StagesOK
<1>16. ForksOK'
  <2>1. ForksNow'
    BY <1>2 DEF ForksNow, Flushes
  <2>2. ForkAlone(c)'
    BY <1>1, <1>2, <1>3, SMT DEF ForksOK, ForkAlone
  <2>3. \A d \in Cpus \ {c} : ForkAlone(d)'
    BY <1>2, <1>4 DEF ForkAlone
  <2>4. QED
    BY <2>1, <2>2, <2>3 DEF ForksOK
<1>17. PtesOK'
  <2>1. CASE f = None
    <3>1. pte[Forker] = NoPte
      BY <1>8, <1>9, <2>1 DEF PtesOK
    <3>2. \A a \in Spaces : pte'[a] = NoPte
      BY <1>1, <1>7, <1>8, <2>1, <3>1 DEF Spaces
    <3>3. QED
      BY <3>2 DEF PtesOK, NoPte
  <2>2. CASE f # None
    <3>1. Entry(f, FALSE).f = f /\ ~Entry(f, FALSE).w
      BY DEF Entry
    <3>2. \A a \in Spaces : pte'[a] = Entry(f, FALSE) /\ lazy'[a] = f
      BY <1>1, <1>8, <1>10, <2>2 DEF Spaces
    <3>3. QED
      BY <2>2, <3>1, <3>2 DEF PtesOK
  <2>3. QED
    BY <2>1, <2>2
<1>18. RefsOK'
  <2>1. ASSUME NEW g \in Frames, NEW a \in Spaces, Own(a, g)' PROVE g = f
    BY <2>1, <1>6, <1>10 DEF Own, Spaces
  <2>2. \A g \in Frames, a \in Spaces : Own(a, g)' => refs'[g] >= 2
    BY <1>12, <2>1, SpaceAssumption, SMT
  <2>3. QED
    BY <1>6, <1>9, <1>13, <2>2, SMT DEF RefsOK, Types
<1>19. TlbsOK'
  BY <1>5 DEF TlbsOK, TlbOK, NoPte
<1>20. QED
  BY <1>13, <1>14, <1>15, <1>16, <1>17, <1>18, <1>19

(* The drop of the child: no CPU has its root. *)
LEMMA DropKeeps ==
  ASSUME SInv, Drop
  PROVE  SInv'
<1> USE DEF SInv
<1>1. /\ Child \in alive /\ \A c \in Cpus : cpu[c].as # Child
      /\ alive' = alive \ {Child} /\ cpu' = cpu /\ busy' = busy /\ cr3' = cr3 /\ slot' = slot /\ tlb' = tlb
      /\ ask' = ask /\ ipi' = ipi
      /\ lazy' = [lazy EXCEPT ![Child] = None] /\ pte' = [pte EXCEPT ![Child] = NoPte]
      /\ refs' = IF lazy[Child] = None THEN refs ELSE [refs EXCEPT ![lazy[Child]] = @ - 1]
  BY DEF Drop, locks, mmu, flags, unref_or_free
<1>2. Forker \in Spaces /\ Child \in Spaces /\ Forker # Child /\ NoPte \in PteType
  BY SpaceAssumption DEF Spaces, NoPte, PteType, FrameOr
<1>3. /\ lazy' \in [Spaces -> FrameOr] /\ pte' \in [Spaces -> PteType]
      /\ lazy'[Child] = None /\ pte'[Child] = NoPte /\ lazy'[Forker] = lazy[Forker] /\ pte'[Forker] = pte[Forker]
  BY <1>1, <1>2 DEF Types, FrameOr
<1>4. PICK h \in FrameOr : h = lazy[Child]
  BY <1>2 DEF Types
<1>5. h # None => h \in Frames /\ Own(Child, h) /\ refs[h] >= 1
  BY <1>2, <1>4 DEF FrameOr, Own, RefsOK
<1>6. /\ refs' \in [Frames -> Nat]
      /\ \A g \in Frames : refs'[g] = IF g = h THEN refs[g] - 1 ELSE refs[g]
  BY <1>1, <1>4, <1>5, SpaceAssumption, SMT DEF Types
<1>7. ASSUME NEW g \in Frames PROVE (Own(Forker, g)' <=> Own(Forker, g)) /\ ~Own(Child, g)'
  BY <1>1, <1>3, SpaceAssumption DEF Own, Discards, Flushes
<1>8. \A c \in Cpus : /\ Breaks(c)' <=> Breaks(c)
                      /\ Discards(c)' <=> Discards(c)
                      /\ Promotes(c)' <=> Promotes(c)
                      /\ Flushes(c)' <=> Flushes(c)
                      /\ Holds(c)' <=> Holds(c)
                      /\ Confined(c)' <=> Confined(c)
  BY <1>1 DEF Breaks, Discards, Promotes, Flushes, Holds, Confined
<1>9. Types'
  BY <1>1, <1>2, <1>3, <1>6 DEF Types
<1>10. RootsOK'
  BY <1>1 DEF RootsOK, RootOK
<1>11. StagesOK'
  <2>1. ASSUME NEW c \in Cpus PROVE StageOK(c)'
    <3>1. StageOK(c) /\ (Holds(c) => cpu[c].as = Forker)
      BY <1>1 DEF StagesOK, RootsOK, RootOK, Types, CpuType, Holds, Spaces
    <3>2. (cpu[c].pc = "cow" \/ Breaks(c) \/ Discards(c) \/ Promotes(c)) => Holds(c)
      BY DEF Holds, Breaks, Discards, Promotes, Flushes
    <3>3. QED
      BY <3>1, <3>2, <1>1, <1>3, <1>8, ZenonT(30) DEF StageOK
  <2>2. QED
    BY <2>1 DEF StagesOK
<1>12. ForksOK'
  BY <1>1, <1>3 DEF ForksOK, ForkAlone
<1>13. PtesOK'
  <2>1. ASSUME pte'[Forker] # NoPte
        PROVE  /\ pte'[Forker].f = lazy'[Forker] /\ lazy'[Forker] # None
               /\ \A b \in Spaces \ {Forker} : ~Own(b, lazy[Forker])'
    <3>1. pte[Forker].f = lazy[Forker] /\ lazy[Forker] # None /\ lazy[Forker] \in Frames
      BY <1>2, <1>3, <2>1 DEF PtesOK, Types, FrameOr
    <3>2. PICK g \in Frames : g = lazy[Forker]
      BY <3>1
    <3>3. \A b : Own(b, lazy[Forker])' <=> Own(b, g)'
      BY <1>3, <3>2 DEF Own
    <3>4. QED
      BY <1>3, <1>7, <3>1, <3>2, <3>3 DEF Spaces
  <2>2. QED
    BY <1>3, <2>1 DEF PtesOK, Spaces
<1>14. RefsOK'
  <2>1. ASSUME NEW g \in Frames, Own(Forker, g) PROVE refs'[g] >= 1
    <3>1. CASE g = h
      <4>1. Own(Child, g)
        BY <1>4, <3>1 DEF Own
      <4>2. refs[g] >= 2 /\ refs[g] \in Nat
        BY <2>1, <4>1 DEF RefsOK, Types
      <4>3. QED
        BY <1>6, <3>1, <4>2, SMT
    <3>2. CASE g # h
      BY <1>2, <1>6, <2>1, <3>2 DEF RefsOK
    <3>3. QED
      BY <3>1, <3>2
  <2>2. ASSUME NEW c \in Cpus, Promotes(c)'
        PROVE  /\ refs'[cpu'[c].new] >= 1
               /\ \A a \in Spaces : ~Own(a, cpu[c].new)'
               /\ \A d \in Cpus \ {c} : Promotes(d)' => cpu'[d].new # cpu'[c].new
    <3>1. PICK n \in Frames : n = cpu[c].new
      BY <1>8, <2>2 DEF StagesOK, StageOK
    <3>2. /\ refs[n] >= 1 /\ \A a \in Spaces : ~Own(a, n)
          /\ \A d \in Cpus \ {c} : Promotes(d) => cpu[d].new # n
      BY <1>8, <2>2, <3>1 DEF RefsOK
    <3>3. n # h
      BY <1>2, <1>4, <3>2 DEF Own
    <3>4. \A a : Own(a, cpu[c].new)' <=> Own(a, n)'
      BY <1>1, <3>1 DEF Own
    <3>5. \A a \in Spaces : ~Own(a, n)'
      BY <1>7, <3>2 DEF Spaces
    <3>6. QED
      BY <1>1, <1>6, <1>8, <3>1, <3>2, <3>3, <3>4, <3>5
  <2>3. \A g \in Frames, a \in Spaces : Own(a, g)' => refs'[g] >= 1
    BY <1>7, <2>1 DEF Spaces
  <2>4. QED
    BY <1>7, <2>2, <2>3 DEF RefsOK
<1>15. TlbsOK'
  <2>1. ASSUME NEW d \in Cpus PROVE TlbOK(d)'
    <3>0. SUFFICES ASSUME tlb'[d] # NoPte, ~Confined(d)' PROVE TlbOK(d)'
      BY DEF TlbOK, NoPte
    <3>1. tlb[d] # NoPte /\ ~Confined(d) /\ TlbOK(d) /\ tlb'[d] = tlb[d] /\ cr3'[d] = cr3[d]
      BY <1>1, <1>8, <3>0 DEF TlbsOK
    <3>2. cr3[d] = Forker
      BY <1>1, <3>1 DEF RootsOK, RootOK, Types, CpuType, Spaces
    <3>3. ASSUME \A c \in Cpus : ~(Breaks(c)' /\ cpu'[c].as = cr3'[d]) PROVE Current(d)'
      BY <1>1, <1>3, <1>8, <3>1, <3>2, <3>3 DEF TlbOK, Current
    <3>4. ASSUME NEW c \in Cpus, Breaks(c)', cpu'[c].as = cr3'[d] PROVE Awaited(c, d)'
      <4>1. Awaited(c, d)
        BY <1>1, <1>8, <3>1, <3>4 DEF TlbOK
      <4>2. PICK g \in Frames : g = cpu[c].old
        BY <1>8, <3>4 DEF StagesOK, StageOK
      <4>3. \A b : Own(b, cpu[c].old)' <=> Own(b, g)'
        BY <1>1, <4>2 DEF Own
      <4>4. \A b \in Spaces \ {Forker} : ~Own(b, g)'
        BY <1>7 DEF Spaces
      <4>5. QED
        BY <1>1, <3>1, <3>2, <4>1, <4>3, <4>4 DEF Awaited
    <3>5. QED
      BY <3>3, <3>4 DEF TlbOK
  <2>2. QED
    BY <2>1 DEF TlbsOK
<1>16. QED
  BY <1>9, <1>10, <1>11, <1>12, <1>13, <1>14, <1>15

-----------------------------------------------------------------------------
LEMMA SpaceInitial == SpaceInit => SInv
<1> SUFFICES ASSUME SpaceInit PROVE SInv
  OBVIOUS
<1>1. /\ pte = [a \in Spaces |-> NoPte] /\ lazy = [a \in Spaces |-> None] /\ refs = [f \in Frames |-> 0]
      /\ alive = {Forker} /\ busy = [a \in Spaces |-> None]
      /\ cr3 = [c \in Cpus |-> None] /\ slot = [c \in Cpus |-> None] /\ tlb = [c \in Cpus |-> NoPte]
      /\ ask = [c \in Cpus |-> FALSE] /\ ipi = [c \in Cpus |-> FALSE] /\ cpu = [c \in Cpus |-> Idle]
  BY DEF SpaceInit, Kernel
<1>2. /\ Idle \in CpuType /\ Idle.pc = "idle" /\ Idle.op = "none" /\ Idle.as = None /\ Idle.wait = {}
      /\ NoPte \in PteType
  BY DEF Idle, CpuType, PcType, OpType, FrameOr, NoPte, PteType
<1>3. \A c \in Cpus : /\ cpu[c] = Idle /\ ~Flushes(c) /\ ~Breaks(c) /\ ~Discards(c) /\ ~Promotes(c) /\ ~Holds(c)
  BY <1>1, <1>2 DEF Flushes, Breaks, Discards, Promotes, Holds
<1>4. Types
  BY <1>1, <1>2 DEF Types, Spaces, FrameOr
<1>5. RootsOK
  BY <1>1, <1>2 DEF RootsOK, RootOK, Inside
<1>6. StagesOK
  BY <1>2, <1>3 DEF StagesOK, StageOK
<1>7. ForksOK
  BY <1>1, <1>2, <1>3 DEF ForksOK, ForkAlone, Spaces
<1>8. PtesOK
  BY <1>1 DEF PtesOK
<1>9. RefsOK
  BY <1>1, <1>3, SpaceAssumption DEF RefsOK, Own, Spaces
<1>10. TlbsOK
  BY <1>1 DEF TlbsOK, TlbOK
<1>11. QED
  BY <1>4, <1>5, <1>6, <1>7, <1>8, <1>9, <1>10 DEF SInv

LEMMA SpaceStep == SInv /\ [SpaceNext]_spaceVars => SInv'
<1> SUFFICES ASSUME SInv, [SpaceNext]_spaceVars PROVE SInv'
  OBVIOUS
<1>1. CASE UNCHANGED spaceVars
  <2>1. /\ pte' = pte /\ lazy' = lazy /\ refs' = refs /\ alive' = alive /\ busy' = busy /\ cr3' = cr3
        /\ slot' = slot /\ tlb' = tlb /\ ask' = ask /\ ipi' = ipi /\ cpu' = cpu
    BY <1>1 DEF spaceVars
  <2>2. Types' /\ RootsOK' /\ ForksOK'
    BY <2>1 DEF SInv, Types, RootsOK, RootOK, ForksOK, ForkAlone, ForksNow, Flushes
  <2>3. StagesOK'
    BY <2>1, ZenonT(30) DEF SInv, StagesOK, StageOK, Holds, Flushes, Breaks, Discards, Promotes
  <2>4. Still
    BY <2>1 DEF Still, Breaks, Flushes
  <2>5. PtesOK' /\ RefsOK'
    BY <2>4, StillKeeps DEF SInv
  <2>6. TlbsOK'
    <3>1. ASSUME NEW d \in Cpus PROVE TlbOK(d)'
      <4>1. TlbOK(d) /\ (Confined(d) => Confined(d)')
        BY <2>1 DEF SInv, TlbsOK, Confined
      <4>2. QED
        BY <4>1, <2>1, <2>4, StillTlb DEF Awaited
    <3>2. QED
      BY <3>1 DEF TlbsOK
  <2>7. QED
    BY <2>2, <2>3, <2>5, <2>6 DEF SInv
<1>2. CASE Drop
  BY <1>2, DropKeeps
<1>3. ASSUME NEW c \in Cpus, Step(c) PROVE SInv'
  <2>1. CASE arch_set_page_table(c) \/ arch_load_kernel_page_table(c)
    BY <2>1, SwitchKeeps
  <2>2. CASE Walk(c)
    BY <2>2, WalkKeeps
  <2>3. CASE \/ EnterKernel(c) \/ ReturnToUser(c) \/ WriteFault(c) \/ Madvise(c) \/ ForkSpace(c)
             \/ LockSpace(c) \/ TakeCowLock(c)
    BY <2>3, InnerKeeps
  <2>4. CASE tlb_shootdown_irq_body(c) \/ service_flush(c)
    BY <2>4, AnswerKeeps
  <2>5. CASE FlushPick(c) \/ FlushLeft(c) \/ FlushEnd(c)
    BY <2>5, InitiatorKeeps
  <2>6. CASE FaultHandled(c) \/ PromoteNoMemory(c) \/ DiscardNothing(c)
    BY <2>6, EmptyKeeps
  <2>7. CASE FaultAbsent(c)
    BY <2>7, AbsentKeeps
  <2>8. CASE PromoteReuse(c)
    BY <2>8, ReuseKeeps
  <2>9. CASE PromoteCopy(c)
    BY <2>9, CopyKeeps
  <2>10. CASE PromoteEnd(c)
    BY <2>10, PromoteEndKeeps
  <2>11. CASE discard_range(c)
    BY <2>11, DiscardKeeps
  <2>12. CASE DiscardEnd(c)
    BY <2>12, DiscardEndKeeps
  <2>13. CASE clone_as(c)
    BY <2>13, CloneKeeps
  <2>14. CASE ForkEnd(c)
    BY <2>14, ForkEndKeeps
  <2>15. QED
    BY <1>3, <2>1, <2>2, <2>3, <2>4, <2>5, <2>6, <2>7, <2>8, <2>9, <2>10, <2>11, <2>12, <2>13, <2>14 DEF Step
<1>4. QED
  BY <1>1, <1>2, <1>3 DEF SpaceNext

LEMMA SpaceSafe == SInv => NoStaleTranslation
<1> SUFFICES ASSUME SInv, NEW c \in Cpus, cpu[c].pc = "user", tlb[c] # NoPte
             PROVE  /\ tlb[c].f \in Held(cr3[c])
                    /\ tlb[c].w => \A b \in Spaces \ {cr3[c]} : lazy[b] # tlb[c].f
                    /\ busy[cr3[c]] = None => tlb[c].f = lazy[cr3[c]]
  BY DEF NoStaleTranslation
<1>1. TlbOK(c) /\ ~Confined(c) /\ cr3[c] \in Spaces
  BY DEF SInv, TlbsOK, Confined, RootsOK, RootOK, Types
<1>2. CASE \A e \in Cpus : ~(Breaks(e) /\ cpu[e].as = cr3[c])
  <2>1. Current(c)
    BY <1>1, <1>2 DEF TlbOK
  <2>2. tlb[c].w => pte[cr3[c]] # NoPte /\ pte[cr3[c]].w
    BY <2>1, SMT DEF Current, NoPte
  <2>3. tlb[c].w => \A b \in Spaces \ {cr3[c]} : ~Own(b, lazy[cr3[c]])
    BY <1>1, <2>2 DEF SInv, PtesOK
  <2>4. QED
    BY <2>1, <2>3 DEF Current, Held, Own
<1>3. ASSUME NEW e \in Cpus, Breaks(e), cpu[e].as = cr3[c]
      PROVE  /\ tlb[c].f \in Held(cr3[c])
             /\ tlb[c].w => \A b \in Spaces \ {cr3[c]} : lazy[b] # tlb[c].f
             /\ busy[cr3[c]] # None
  <2>1. Awaited(e, c)
    BY <1>1, <1>3 DEF TlbOK
  <2>2. busy[cr3[c]] # None
    BY <1>3, SpaceAssumption, SMT DEF SInv, StagesOK, StageOK, Holds, Breaks, Flushes
  <2>3. QED
    BY <1>3, <2>1, <2>2 DEF Awaited, Held, Own
<1>4. QED
  BY <1>2, <1>3

(* No user access goes through a translation its space has given up, and no user   *)
(* store to a frame the other process has too, however many CPUs share the space and *)
(* however many forks, faults and discards race (mm/src/vmm.rs, arch/x86_64/src/paging.rs). *)
THEOREM TranslationsSafe == SpaceSpec => []NoStaleTranslation
<1>1. SpaceInit => SInv
  BY SpaceInitial
<1>2. SInv /\ [SpaceNext]_spaceVars => SInv'
  BY SpaceStep
<1>3. SInv => NoStaleTranslation
  BY SpaceSafe
<1>4. QED
  BY <1>1, <1>2, <1>3, PTL DEF SpaceSpec

=============================================================================
