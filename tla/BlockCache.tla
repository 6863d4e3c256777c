----------------------------- MODULE BlockCache -----------------------------
(***************************************************************************)
(* The f2fs server's block cache (servers/f2fs/src/lib.rs, struct           *)
(* BlockCache): what one request does to it while it holds F2FS_MOUNTS.     *)
(*                                                                         *)
(* A request is a fold over its block accesses.  The fold carries the       *)
(* cache and the device:                                                   *)
(*   cached, val       the blocks that have a slot, and what the slot holds *)
(*   dirty, wb         changed since the last checkpoint; being written by  *)
(*                     an unlocked checkpoint.  Either pins the slot        *)
(*   lru               the clean unpinned blocks, most recent first         *)
(*   len               slots allocated so far                               *)
(*   probe             "off", "on" (a miss is recorded, not read) or        *)
(*                     "missed" (the request is doomed)                     *)
(*   undo, misses      the undo log, and the blocks to fetch                *)
(*   fresh             the blocks installed (each install bumps gens)       *)
(*   disk, maybe       what the device answers, and the values a power cut  *)
(*                     may leave (its write cache is volatile)              *)
(*   waits             the run had to wait for the write-back in flight     *)
(*   lost              a device write of the run failed                     *)
(* The operators' parameter fail is what fails meanwhile: "grow" and "undo" *)
(* (no memory for a slot, for the undo log), "locked" (the device refuses a  *)
(* write made under the lock).                                             *)
(* A slot is named by its block: what the code's slot index adds is which   *)
(* unused slot a block gets.                                               *)
(***************************************************************************)
EXTENDS Integers, Sequences, FiniteSets, SequencesExt

CONSTANTS Blocks,      \* block numbers
          Cap,         \* soft cap on the slots (cache_cap)
          MISS_BATCH,  \* misses one doomed run records
          FETCH_GAP,   \* gap a fetch command reads through
          FETCH_MAX    \* blocks of one fetch command

Pinned(m) == m.dirty \cup m.wb

(* What the device does with a write: it is visible at once, durable at the *)
(* next flush.                                                             *)
DeviceWrite(m, b, v) ==
    [m EXCEPT !.disk[b] = v, !.maybe[b] = @ \cup {v}]

----------------------------------------------------------------------------
(* LRU list and flags. *)

lru_unlink(m, b) == [m EXCEPT !.lru = SelectSeq(@, LAMBDA x : x # b)]

lru_push_front(m, b) == [m EXCEPT !.lru = <<b>> \o @]

Flagged(S, b, on) == IF on THEN S \cup {b} ELSE S \ {b}

set_flags(m, b, d, w) ==
    LET n   == [m EXCEPT !.dirty = Flagged(@, b, d), !.wb = Flagged(@, b, w)]
        was == b \in Pinned(m)
        now == b \in Pinned(n)
    IN  CASE was /\ ~now -> lru_push_front(n, b)
          [] ~was /\ now -> lru_unlink(n, b)
          [] OTHER       -> n

touch(m, b) ==
    IF b \in Pinned(m) THEN m ELSE lru_push_front(lru_unlink(m, b), b)

(* The slot of b becomes unused: hash_remove, blk_no = NULL_BLK. *)
Forget(m, b) ==
    lru_unlink([m EXCEPT !.cached = @ \ {b}, !.val[b] = 0,
                         !.dirty = @ \ {b}, !.wb = @ \ {b}], b)

probe_abandon(m) == IF m.probe = "on" THEN [m EXCEPT !.probe = "off"] ELSE m

----------------------------------------------------------------------------
(* Taking a slot, installing a block. *)

Unused(m) == m.len > Cardinality(m.cached)

NothingEvictable(m) == ~Unused(m) /\ m.lru = <<>>

grow(m, fail) == IF "grow" \in fail THEN m ELSE [m EXCEPT !.len = @ + 1]

Grown(m, fail) ==
    LET m1 == IF ~Unused(m) /\ m.len < Cap THEN grow(m, fail) ELSE m
    IN  IF NothingEvictable(m1) /\ m1.len < 2 * Cap THEN grow(m1, fail) ELSE m1

(* Nothing evictable and no room to grow: one pinned block is written in    *)
(* place, a dirty one that no checkpoint is writing, or any once the        *)
(* write-back in flight is over.                                           *)
BackstopVictim(m) ==
    LET idle == m.dirty \ m.wb
    IN  CHOOSE b \in m.cached : idle = {} \/ b \in idle

(* Nobody looks at whether that write succeeded. *)
Backstop(m, fail) ==
    LET b  == BackstopVictim(m)
        m1 == probe_abandon(m)
        m2 == IF "locked" \in fail THEN [m1 EXCEPT !.lost = TRUE]
              ELSE DeviceWrite(m1, b, m.val[b])
    IN  Forget([m2 EXCEPT !.waits = @ \/ m.dirty \subseteq m.wb], b)

take_slot(m, fail) ==
    LET g == Grown(m, fail)
    IN  CASE Unused(g)     -> g
          [] g.lru # <<>>  -> Forget(g, Last(g.lru))
          [] OTHER         -> Backstop(g, fail)

install(m, b, v) ==
    [m EXCEPT !.cached = @ \cup {b}, !.val[b] = v, !.lru = <<b>> \o @,
              !.fresh = @ \cup {b}]

note_miss(m, b) ==
    CASE m.probe = "on" -> [m EXCEPT !.probe = "missed", !.misses = {b}]
      [] m.probe = "missed" /\ Cardinality(m.misses) < MISS_BATCH ->
            [m EXCEPT !.misses = @ \cup {b}]
      [] OTHER -> m

load(m, b, fail) ==
    CASE b \in m.cached   -> touch(m, b)
      [] m.probe # "off"  -> note_miss(m, b)
      [] OTHER -> LET t == take_slot(m, fail) IN install(t, b, t.disk[b])

----------------------------------------------------------------------------
(* The undo log. *)

Logged(m, b) == \E k \in DOMAIN m.undo : m.undo[k].blk = b

log_slot(m, b, new, fail) ==
    CASE m.probe # "on" \/ Logged(m, b) -> m
      [] "undo" \in fail -> probe_abandon(m)
      [] OTHER -> [m EXCEPT !.undo = Append(@,
                     [blk |-> b, new |-> new, val |-> m.val[b],
                      dirty |-> b \in m.dirty, wb |-> b \in m.wb])]

(* Mutant: the undo leaves the slots the doomed run installed. *)
UndoOneKeepsNew(m, u) ==
    IF u.blk \notin m.cached \/ u.new THEN m
    ELSE set_flags([m EXCEPT !.val[u.blk] = u.val], u.blk, u.dirty, u.wb)

UndoOne(m, u) ==
    CASE u.blk \notin m.cached -> m
      [] u.new -> Forget(m, u.blk)
      [] OTHER -> set_flags([m EXCEPT !.val[u.blk] = u.val],
                            u.blk, u.dirty, u.wb)

probe_stop(m) ==
    IF m.probe = "missed" THEN FoldLeft(UndoOne, m, Reverse(m.undo)) ELSE m

----------------------------------------------------------------------------
(* The accesses of a request.  v is the value the request writes. *)

read(m, b, fail) == load(m, b, fail)

Changed(m, b, v) ==
    set_flags([m EXCEPT !.val[b] = v], b, TRUE, b \in m.wb)

write(m, b, v, fail) ==
    CASE m.probe = "missed" -> m
      [] b \in m.cached -> Changed(log_slot(m, b, FALSE, fail), b, v)
      [] OTHER -> Changed(log_slot(install(take_slot(m, fail), b, 0),
                                   b, TRUE, fail), b, v)

get_mut(m, b, v, fail) ==
    IF m.probe = "missed" THEN m
    ELSE LET l == load(m, b, fail)
         IN  IF l.probe = "missed" THEN l
             ELSE Changed(log_slot(l, b, FALSE, fail), b, v)

Access(m, a, v, fail) ==
    CASE a.op = "read"  -> read(m, a.blk, fail)
      [] a.op = "write" -> write(m, a.blk, v, fail)
      [] a.op = "mut"   -> get_mut(m, a.blk, v, fail)

(* The whole request, in no-I/O mode or with its misses read under the lock.*)
RunOn(m, req, v, fail, noio) ==
    FoldLeft(LAMBDA x, a : Access(x, a, v, fail),
             [m EXCEPT !.probe = IF noio THEN "on" ELSE "off"], req)

----------------------------------------------------------------------------
(* Fetching the misses. *)

(* moved: the blocks whose install generation moved since the doomed run.   *)
install_fetched(m, b, v, moved, fail) ==
    IF b \in m.cached \/ b \in moved THEN m
    ELSE install(take_slot(m, fail), b, v)

(* The misses in block order; a miss within FETCH_GAP of the last command   *)
(* joins it while the command stays within FETCH_MAX blocks.               *)
JoinMiss(cmds, b) ==
    IF /\ cmds # <<>>
       /\ b <= Last(cmds).hi + 1 + FETCH_GAP
       /\ b + 1 - Last(cmds).lo <= FETCH_MAX
    THEN Front(cmds) \o <<[lo |-> Last(cmds).lo, hi |-> b]>>
    ELSE Append(cmds, [lo |-> b, hi |-> b])

plan_fetch(misses) ==
    FoldLeft(JoinMiss, <<>>, SetToSortSeq(misses, LAMBDA a, b : a < b))

BlocksOf(cmd) == {b \in Blocks : cmd.lo <= b /\ b <= cmd.hi}
=============================================================================
