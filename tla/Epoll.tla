------------------------------- MODULE Epoll -------------------------------
(***************************************************************************)
(* One epoll instance over pipe read ends: epoll_ctl, epoll_wait and the     *)
(* re-check between prepare and commit (kernel/src/syscall.rs), the targeted *)
(* poll wakes and their deferral (sched/src/lib.rs), and the producers that   *)
(* choose between them (servers/vfs).  A poll tag is modelled by the object   *)
(* it is hashed from: a hash collision only adds wakes.  Deadlines are in     *)
(* PollDeadline.                                                            *)
(***************************************************************************)
EXTENDS Naturals, Sequences, FiniteSets, SequencesExt

CONSTANTS
  Waiters,    \* tasks that call epoll_wait(-1) on the instance
  Ctls,       \* tasks that call epoll_ctl on it
  Ios,        \* tasks that read and write the pipes
  Objs,       \* the pipes, each named by its poll tag
  Self,       \* epoll_self_tag: the tag of the instance itself
  Watched,    \* the pipes registered before the waiters start
  Edge,       \* pipes registered with EPOLLET
  Oneshot,    \* pipes registered with EPOLLONESHOT
  Ops,        \* which of "add", "mod", "del", "signal" happen
  MaxEvents,  \* the maxevents argument
  MaxSeq,     \* bound on a pipe's event sequence number
  MaxCtl      \* bound on successful epoll_ctl calls

VARIABLES
  pipe,      \* [level, seq] of each pipe: POLLIN and PipeRing::seq
  items,     \* EpollInstance::interests[..hi]
  gen,       \* EPOLL_CTL_GEN
  task,      \* state, poll_mask and pending signal of each waiter
  at,        \* where each waiter is in epoll_wait_until
  frame,     \* its locals
  ctl,       \* each epoll_ctl caller
  io,        \* each pipe user: the wake it owes
  pending,   \* POLL_WAKE_PENDING
  tick,      \* the tags the tick took from it
  fired      \* history: deliveries of each item since it was last (re-)armed

vars == <<pipe, items, gen, task, at, frame, ctl, io, pending, tick, fired>>

AllTags == Objs \cup {Self}
Never == MaxSeq + 1                    \* last_seq == u64::MAX
NoObj == Self                          \* an empty EpollInterest
Empty == [obj |-> NoObj, armed |-> FALSE, last |-> 0]
Fresh(o) == [obj |-> o, armed |-> TRUE, last |-> Never]
IdleFrame == [gen0 |-> 0, i |-> 0, hi |-> 0, mask |-> {}, n |-> 0, it |-> Empty, seq |-> 0]
IdleCtl == [at |-> "idle", obj |-> NoObj]
IdleIo == [at |-> "idle", obj |-> NoObj]

Init ==
  /\ pipe = [o \in Objs |-> [level |-> FALSE, seq |-> 0]]
  /\ LET s == SetToSeq(Watched) IN items = [j \in DOMAIN s |-> Fresh(s[j])]
  /\ gen = 0
  /\ task = [w \in Waiters |-> [state |-> "Running", mask |-> AllTags, sig |-> FALSE]]
  /\ at = [w \in Waiters |-> "idle"]
  /\ frame = [w \in Waiters |-> IdleFrame]
  /\ ctl = [c \in Ctls |-> IdleCtl]
  /\ io = [p \in Ios |-> IdleIo]
  /\ pending = {} /\ tick = {}
  /\ fired = [o \in Objs |-> 0]

(* unblock_port_tagged on POLL_WAIT_CHANNEL. *)
Matches(mask, tags) == mask \cap tags # {}
Woken(tags) ==
  [w \in Waiters |->
     IF task[w].state = "Blocked" /\ Matches(task[w].mask, tags)
     THEN [task[w] EXCEPT !.state = "Ready", !.mask = AllTags] ELSE task[w]]

(* widen_port_masks. *)
Widened(tag) ==
  [w \in Waiters |->
     IF task[w].state = "Blocked" /\ Matches(task[w].mask, {Self})
     THEN [task[w] EXCEPT !.mask = @ \cup {tag}] ELSE task[w]]

(* The test epoll_wait's probe and epoll_any_ready share. *)
Fires(it, lvl, seq) ==
  it.obj # NoObj /\ it.armed /\ lvl /\ (it.obj \in Edge => seq # it.last)
FiresNow(it) == it.obj # NoObj /\ Fires(it, pipe[it.obj].level, pipe[it.obj].seq)

-----------------------------------------------------------------------------
(* epoll_wait_until.  EPOLL_INSTANCES is held only to copy one interest out   *)
(* and to commit one delivery, so everything may move between the steps.     *)
GoesTo(w, pc) == at' = [at EXCEPT ![w] = pc]
Locals(w, f) == frame' = [frame EXCEPT ![w] = f]

Start(w) ==
  /\ at[w] \in {"idle", "again"}
  /\ GoesTo(w, "scan")
  /\ Locals(w, [IdleFrame EXCEPT !.gen0 = gen, !.i = 1, !.hi = Len(items), !.mask = {Self}])
  /\ UNCHANGED <<pipe, items, gen, task, ctl, io, pending, tick, fired>>

(* Every interest looked at, or the caller's buffer full. *)
PassOver(f) == f.i > f.hi \/ f.n >= MaxEvents

(* Copy one interest; an empty or disarmed one is skipped. *)
Copy(w) ==
  LET f == frame[w] IN
  /\ at[w] = "scan" /\ ~PassOver(f)
  /\ IF items[f.i].obj = NoObj \/ ~items[f.i].armed
     THEN Locals(w, [f EXCEPT !.i = f.i + 1]) /\ UNCHANGED at
     ELSE Locals(w, [f EXCEPT !.it = items[f.i]]) /\ GoesTo(w, "probe")
  /\ UNCHANGED <<pipe, items, gen, task, ctl, io, pending, tick, fired>>

(* probe_interest on the copy: fold its tag into the mask, decide to fire. *)
Probe(w) ==
  LET f == frame[w]
      p == pipe[f.it.obj]
      g == [f EXCEPT !.mask = @ \cup {f.it.obj}, !.seq = p.seq] IN
  /\ at[w] = "probe"
  /\ IF Fires(f.it, p.level, p.seq)
     THEN GoesTo(w, "deliver") /\ Locals(w, g)
     ELSE GoesTo(w, "scan") /\ Locals(w, [g EXCEPT !.i = f.i + 1, !.it = Empty, !.seq = 0])
  /\ UNCHANGED <<pipe, items, gen, task, ctl, io, pending, tick, fired>>

(* Hand the event out; commit last_seq and disarm by (fd, ofd). *)
Committed(it, f) == [it EXCEPT !.last = f.seq, !.armed = it.armed /\ it.obj \notin Oneshot]
Deliver(w) ==
  LET f == frame[w] IN
  /\ at[w] = "deliver"
  /\ items' = [j \in DOMAIN items |->
                 IF items[j].obj = f.it.obj THEN Committed(items[j], f) ELSE items[j]]
  /\ fired' = [fired EXCEPT ![f.it.obj] = IF @ < 2 THEN @ + 1 ELSE @]
  /\ GoesTo(w, "scan")
  /\ Locals(w, [f EXCEPT !.n = @ + 1, !.i = f.i + 1, !.it = Empty, !.seq = 0])
  /\ UNCHANGED <<pipe, gen, task, ctl, io, pending, tick>>

(* The pass is over: events, or EINTR, or park with the mask it computed. *)
Return(w) ==
  /\ at[w] = "scan" /\ PassOver(frame[w])
  /\ frame[w].n > 0 \/ task[w].sig
  /\ GoesTo(w, "idle") /\ Locals(w, IdleFrame)
  /\ task' = [task EXCEPT ![w].sig = FALSE]
  /\ UNCHANGED <<pipe, items, gen, ctl, io, pending, tick, fired>>

(* block_on_poll_prepare_masked: Blocked and the mask in one RUN_QUEUE hold. *)
Prepare(w) ==
  /\ at[w] = "scan" /\ PassOver(frame[w])
  /\ frame[w].n = 0 /\ ~task[w].sig
  /\ task' = [task EXCEPT ![w].state = "Blocked", ![w].mask = frame[w].mask]
  /\ GoesTo(w, "gen")
  /\ UNCHANGED <<pipe, items, gen, frame, ctl, io, pending, tick, fired>>

GenMoved(w) == gen # frame[w].gen0
Cancelled(w) == task' = [task EXCEPT ![w].state = "Running", ![w].mask = AllTags]

(* The generation is read first; epoll_any_ready then walks the items. *)
CheckGen(w) ==
  /\ at[w] = "gen"
  /\ IF GenMoved(w)
     THEN Cancelled(w) /\ GoesTo(w, "again") /\ Locals(w, IdleFrame)
     ELSE /\ GoesTo(w, "recheck")
          /\ Locals(w, [IdleFrame EXCEPT !.i = 1, !.hi = Len(items)])
          /\ UNCHANGED task
  /\ UNCHANGED <<pipe, items, gen, ctl, io, pending, tick, fired>>

NothingReady(it) == FALSE
StillReady(it) == FiresNow(it)
Recheck(w) ==
  LET f == frame[w] IN
  /\ at[w] = "recheck"
  /\ \/ /\ f.i <= f.hi /\ StillReady(items[f.i])
        /\ Cancelled(w) /\ GoesTo(w, "again") /\ Locals(w, IdleFrame)
     \/ /\ f.i <= f.hi /\ ~StillReady(items[f.i])
        /\ Locals(w, [f EXCEPT !.i = f.i + 1]) /\ UNCHANGED <<task, at>>
     \/ /\ f.i > f.hi /\ task[w].sig
        /\ Cancelled(w) /\ GoesTo(w, "again") /\ Locals(w, IdleFrame)
     \/ /\ f.i > f.hi /\ ~task[w].sig
        /\ GoesTo(w, "parked") /\ Locals(w, IdleFrame) /\ UNCHANGED task
  /\ UNCHANGED <<pipe, items, gen, ctl, io, pending, tick, fired>>

(* block_on_poll_commit returns once the scheduler runs the task again. *)
Resume(w) ==
  /\ at[w] = "parked" /\ task[w].state = "Ready"
  /\ task' = [task EXCEPT ![w].state = "Running"]
  /\ GoesTo(w, "again")
  /\ UNCHANGED <<pipe, items, gen, frame, ctl, io, pending, tick, fired>>

(* post_signal_thread: Blocked becomes Ready, whatever it is blocked on. *)
Signal(w) ==
  /\ "signal" \in Ops /\ ~task[w].sig /\ at[w] # "idle"
  /\ task' = [task EXCEPT ![w].sig = TRUE,
                          ![w].state = IF @ = "Blocked" THEN "Ready" ELSE @]
  /\ UNCHANGED <<pipe, items, gen, at, frame, ctl, io, pending, tick, fired>>

-----------------------------------------------------------------------------
(* sys_epoll_ctl: the mutation and the new generation under EPOLL_INSTANCES;  *)
(* then, for ADD and MOD, a probe of the fd; then the wake or the widening.   *)
Registered(o) == \E j \in DOMAIN items : items[j].obj = o
Added(o) ==
  IF \E j \in DOMAIN items : items[j].obj = NoObj
  THEN LET j == CHOOSE j \in DOMAIN items :
                  items[j].obj = NoObj /\ \A k \in 1..(j-1) : items[k].obj # NoObj
       IN [items EXCEPT ![j] = Fresh(o)]
  ELSE Append(items, Fresh(o))
Replaced(o, it) == [j \in DOMAIN items |-> IF items[j].obj = o THEN it ELSE items[j]]

Mutate(c, o, op) ==
  /\ op \in Ops /\ ctl[c].at = "idle" /\ gen < MaxCtl
  /\ \/ op = "add" /\ ~Registered(o) /\ items' = Added(o)
     \/ op = "mod" /\ Registered(o) /\ items' = Replaced(o, Fresh(o))
     \/ op = "del" /\ Registered(o) /\ items' = Replaced(o, Empty)
  /\ gen' = gen + 1
  /\ ctl' = [ctl EXCEPT ![c] = IF op = "del" THEN IdleCtl ELSE [at |-> "probe", obj |-> o]]
  /\ fired' = [fired EXCEPT ![o] = 0]
  /\ UNCHANGED <<pipe, task, at, frame, io, pending, tick>>

CtlProbe(c) ==
  /\ ctl[c].at = "probe"
  /\ ctl' = [ctl EXCEPT ![c].at = IF pipe[ctl[c].obj].level THEN "wake" ELSE "widen"]
  /\ UNCHANGED <<pipe, items, gen, task, at, frame, io, pending, tick, fired>>
CtlWake(c) ==
  /\ ctl[c].at = "wake"
  /\ task' = Woken({Self})
  /\ ctl' = [ctl EXCEPT ![c] = IdleCtl]
  /\ UNCHANGED <<pipe, items, gen, at, frame, io, pending, tick, fired>>
CtlWiden(c) ==
  /\ ctl[c].at = "widen"
  /\ task' = Widened(ctl[c].obj)
  /\ ctl' = [ctl EXCEPT ![c] = IdleCtl]
  /\ UNCHANGED <<pipe, items, gen, at, frame, io, pending, tick, fired>>

-----------------------------------------------------------------------------
(* The pipe arms of handle_write and handle_read: the ring and its seq change *)
(* under PIPE_RINGS, the wake follows.  Only empty -> readable wakes at once; *)
(* any other change of seq is left to the tick.                             *)
FilledWake(o) == IF pipe[o].level THEN "request" ELSE "wake"
Write(p, o) ==
  /\ io[p].at = "idle" /\ pipe[o].seq < MaxSeq
  /\ pipe' = [pipe EXCEPT ![o] = [level |-> TRUE, seq |-> @.seq + 1]]
  /\ io' = [io EXCEPT ![p] = [at |-> FilledWake(o), obj |-> o]]
  /\ UNCHANGED <<items, gen, task, at, frame, ctl, pending, tick, fired>>
(* A read drains part of the ring or all of it; one that makes a full ring    *)
(* writable again wakes at once.                                            *)
Read(p, o) ==
  /\ io[p].at = "idle" /\ pipe[o].level /\ pipe[o].seq < MaxSeq
  /\ \E left \in BOOLEAN : pipe' = [pipe EXCEPT ![o] = [level |-> left, seq |-> @.seq + 1]]
  /\ \E k \in {"request", "wake"} : io' = [io EXCEPT ![p] = [at |-> k, obj |-> o]]
  /\ UNCHANGED <<items, gen, task, at, frame, ctl, pending, tick, fired>>

wake_poll_tagged(p) ==
  /\ io[p].at = "wake"
  /\ task' = Woken({io[p].obj})
  /\ io' = [io EXCEPT ![p] = IdleIo]
  /\ UNCHANGED <<pipe, items, gen, at, frame, ctl, pending, tick, fired>>
request_poll_wake_tagged(p) ==
  /\ io[p].at = "request"
  /\ pending' = pending \cup {io[p].obj}
  /\ io' = [io EXCEPT ![p] = IdleIo]
  /\ UNCHANGED <<pipe, items, gen, task, at, frame, ctl, tick, fired>>

(* service_deferred_poll_wake, on the tick of one CPU: take the tags, then    *)
(* try RUN_QUEUE; a contended try puts them back.                            *)
TakePending ==
  /\ tick = {} /\ pending # {}
  /\ tick' = pending /\ pending' = {}
  /\ UNCHANGED <<pipe, items, gen, task, at, frame, ctl, io, fired>>
PayPending ==
  /\ tick # {}
  /\ task' = Woken(tick) /\ tick' = {}
  /\ UNCHANGED <<pipe, items, gen, at, frame, ctl, io, pending, fired>>
Rearmed == pending \cup tick
Contended ==
  /\ tick # {}
  /\ pending' = Rearmed /\ tick' = {}
  /\ UNCHANGED <<pipe, items, gen, task, at, frame, ctl, io, fired>>

-----------------------------------------------------------------------------
WaiterStep(w) ==
  Start(w) \/ Copy(w) \/ Probe(w) \/ Deliver(w) \/ Return(w) \/ Prepare(w)
  \/ CheckGen(w) \/ Recheck(w) \/ Resume(w)
CtlStep(c) == CtlProbe(c) \/ CtlWake(c) \/ CtlWiden(c)
IoStep(p) == wake_poll_tagged(p) \/ request_poll_wake_tagged(p)

Next ==
  \/ \E w \in Waiters : WaiterStep(w) \/ Signal(w)
  \/ \E c \in Ctls : CtlStep(c) \/ \E o \in Objs, op \in {"add", "mod", "del"} : Mutate(c, o, op)
  \/ \E p \in Ios : IoStep(p) \/ \E o \in Objs : Write(p, o) \/ Read(p, o)
  \/ TakePending \/ PayPending \/ Contended

Spec == Init /\ [][Next]_vars

-----------------------------------------------------------------------------
Item == [obj : AllTags, armed : BOOLEAN, last : 0..Never]

(* Type invariant; a registration takes the first free entry, so the table    *)
(* never grows past the number of pipes.                                    *)
TypeOK ==
  /\ pipe \in [Objs -> [level : BOOLEAN, seq : 0..MaxSeq]]
  /\ items \in Seq(Item) /\ Len(items) <= Cardinality(Objs)
  /\ gen \in 0..MaxCtl
  /\ task \in [Waiters -> [state : {"Running", "Ready", "Blocked"},
                           mask : SUBSET AllTags, sig : BOOLEAN]]
  /\ at \in [Waiters -> {"idle", "again", "scan", "probe", "deliver", "gen", "recheck", "parked"}]
  /\ frame \in [Waiters -> [gen0 : 0..MaxCtl, i : 0..(Cardinality(Objs) + 1),
                            hi : 0..Cardinality(Objs), mask : SUBSET AllTags,
                            n : 0..Cardinality(Objs), it : Item, seq : 0..MaxSeq]]
  /\ ctl \in [Ctls -> [at : {"idle", "probe", "wake", "widen"}, obj : AllTags]]
  /\ io \in [Ios -> [at : {"idle", "wake", "request"}, obj : AllTags]]
  /\ pending \subseteq Objs /\ tick \subseteq Objs
  /\ fired \in [Objs -> 0..2]

Asleep(w) == at[w] = "parked" /\ task[w].state = "Blocked"
Owed(o) ==
  \/ o \in pending \cup tick
  \/ \E p \in Ios : io[p].at # "idle" /\ io[p].obj = o
Mutating(o) == \E c \in Ctls : ctl[c].at # "idle" /\ ctl[c].obj = o

(* No waiter sleeps in epoll_wait beside an event it would report unless a    *)
(* wake for that pipe is still on its way: the re-check after publishing      *)
(* Blocked, the choice between an immediate and a deferred wake, and the      *)
(* re-arm of a contended tick lose no edge (epoll_wait_until, pipe_filled,    *)
(* service_deferred_poll_wake).                                             *)
NoLostEdge ==
  \A w \in Waiters : Asleep(w) =>
    \A j \in DOMAIN items : FiresNow(items[j]) => Owed(items[j].obj)

(* The mask a waiter sleeps with reaches every interest that can fire, also    *)
(* those (re-)armed since it computed the mask, except while the epoll_ctl    *)
(* that armed one is still to widen it (EPOLL_CTL_GEN, widen_poll_masks).     *)
MaskCovers ==
  \A w \in Waiters : Asleep(w) =>
    \A j \in DOMAIN items :
      items[j].obj # NoObj /\ items[j].armed
        => items[j].obj \in task[w].mask \/ (Mutating(items[j].obj) /\ Self \in task[w].mask)

(* sys_epoll_ctl: "OR the fd's tag into every parked mask that carries the    *)
(* instance's tag, so the fd's own later edge reaches them": an interest       *)
(* armed by epoll_ctl that has become ready has its waiters awake, or a wake   *)
(* still owed to them by the producer or by the epoll_ctl.                    *)
CtlEdgeReaches ==
  \A w \in Waiters : Asleep(w) =>
    \A j \in DOMAIN items :
      FiresNow(items[j]) => Owed(items[j].obj) \/ Mutating(items[j].obj)

(* EpollInterest::armed: an EPOLLONESHOT interest is "cleared after the       *)
(* interest fires once, so it stays quiet until an epoll_ctl(MOD) re-arms     *)
(* it": it is never delivered twice between two re-arms.                     *)
OneshotFiresOnce == \A o \in Oneshot : fired[o] <= 1
=============================================================================
