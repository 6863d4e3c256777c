-------------------------------- MODULE F2fs --------------------------------
(***************************************************************************)
(* An f2fs volume as its server keeps it (servers/f2fs/src/lib.rs):         *)
(* requests run on the block cache under F2FS_MOUNTS without device I/O     *)
(* (with_mount), their misses are fetched with the lock dropped and the     *)
(* request is run again; checkpoints copy the dirty blocks under the lock   *)
(* and write them without it (checkpoint_unlocked); fsync waits for a       *)
(* checkpoint numbered late enough, shared with others (group commit);      *)
(* remount-ro and shutdown checkpoint with the lock held; a power cut       *)
(* leaves any subset of the writes the device had not flushed, and the next *)
(* mount takes the newer of the two checkpoint packs.                       *)
(*                                                                         *)
(* A block's value is the number of the request that wrote it last, so a    *)
(* larger value is a later one.  An action is one hold of F2FS_MOUNTS, or   *)
(* one device command.                                                     *)
(***************************************************************************)
EXTENDS BlockCache

CONSTANTS Tasks,        \* tasks that call into the server
          Requests,     \* [ops: Seq of accesses, ino: inode or 0 (several)]
          Atomic,       \* those of them that may not sleep (pid 0)
          Calls,        \* what else they call: "fsync", "remount", "scan"
          HardPinned,   \* pinned slots at which a writer checkpoints itself
          NOIO_MAX_ROUNDS,
          FETCH_SLOTS,  \* size of the claim table
          MaxTxn,       \* bound: requests that write
          MaxCp,        \* bound: checkpoints started since the last mount
          MaxCrash,     \* bound: power cuts
          MaxFaults,    \* bound: device writes that fail
          Failing,      \* what may fail: memory for "grow" and "undo", device
                        \* writes "unlocked" (a checkpoint's phase 2) and
                        \* "locked" (under F2FS_MOUNTS)
          NoTask

VARIABLES cache,        \* the block cache, between requests
          disk, maybe,  \* device: visible value, values a power cut may leave
          cpdisk, cpmaybe,  \* the same for the two checkpoint packs
          ms,           \* MountState: uncommitted, ver, active_pack, read_only
          started, done,    \* CP_SEQ
          ino_mod, mod_global,
          wb_inflight,  \* WB_INFLIGHT
          cp,           \* the holder of CP_MUTEX and how far it is
          lk,           \* a locked checkpoint holding F2FS_MOUNTS
          fetching,     \* FETCHING: first blocks of claimed fetches
          task,         \* what each task is doing
          latest,       \* ghost: the value of the last request on each block
          promised,     \* ghost: what completed fsyncs promise to keep
          txn, crashes, faults

volume == <<cache, disk, maybe, cpdisk, cpmaybe, ms>>
seqs   == <<started, done, ino_mod, mod_global>>
ghosts == <<latest, promised, txn, crashes, faults>>
vars   == <<volume, seqs, wb_inflight, cp, lk, fetching, task, ghosts>>

Zero == [b \in Blocks |-> 0]

EmptyCache == [cached |-> {}, val |-> Zero, dirty |-> {}, wb |-> {},
               lru |-> <<>>, len |-> Cap]

Idle == [pc |-> "idle", req |-> <<>>, ino |-> 0, rounds |-> 0, cmds |-> <<>>,
         k |-> 0, claim |-> <<>>, buf |-> {}, moved |-> {}, need |-> 0,
         want |-> Zero]

NoCp == [who |-> NoTask, phase |-> "none", left |-> {}, runs |-> {},
         snap |-> Zero, commit |-> [ver |-> 0, snap |-> Zero], pack |-> 0,
         seq |-> 0, ok |-> TRUE]

NoLk == [who |-> NoTask, phase |-> "none", left |-> {}, seq |-> 0, ro |-> FALSE]

Larger(a, b) == IF a > b THEN a ELSE b
Smaller(a, b) == IF a < b THEN a ELSE b

(* mount: the pack with the higher version; the caches start empty. *)
MountFrom(packs) ==
    LET p == IF packs[0].ver >= packs[1].ver THEN 0 ELSE 1
    IN  [uncommitted |-> TRUE, ver |-> packs[p].ver, active_pack |-> p,
         read_only |-> FALSE]

Init ==
    /\ cache = EmptyCache
    /\ disk = Zero /\ maybe = [b \in Blocks |-> {0}]
    /\ cpdisk = [p \in 0..1 |-> [ver |-> 1 - p, snap |-> Zero]]
    /\ cpmaybe = [p \in 0..1 |-> {cpdisk[p]}]
    /\ ms = MountFrom(cpdisk)
    /\ started = 0 /\ done = 0
    /\ ino_mod = Zero /\ mod_global = 0
    /\ wb_inflight = FALSE
    /\ cp = NoCp /\ lk = NoLk
    /\ fetching = {}
    /\ task = [t \in Tasks |-> Idle]
    /\ latest = Zero /\ promised = Zero
    /\ txn = 0 /\ crashes = 0 /\ faults = 0

LockFree == lk.phase = "none"

Faulty(on, kind) ==
    IF on THEN /\ kind \in Failing /\ faults < MaxFaults
               /\ faults' = faults + 1
    ELSE UNCHANGED faults

(* A run that wrote a block back in place, and the device refused it. *)
LockedFault(fail, m) ==
    /\ "locked" \in fail <=> m.lost
    /\ Faulty(m.lost, "locked")

----------------------------------------------------------------------------
(* Requests: with_mount. *)

Work == [cached |-> cache.cached, val |-> cache.val, dirty |-> cache.dirty,
         wb |-> cache.wb, lru |-> cache.lru, len |-> cache.len,
         probe |-> "off", undo |-> <<>>, misses |-> {}, fresh |-> {},
         disk |-> disk, maybe |-> maybe, waits |-> FALSE, lost |-> FALSE]

Kept(m) == [cached |-> m.cached, val |-> m.val, dirty |-> m.dirty,
            wb |-> m.wb, lru |-> m.lru, len |-> m.len]

(* Installs bump gens: the fetches in flight see their blocks moved. *)
Bumped(tk, fresh) ==
    [t \in Tasks |->
        IF tk[t].pc \in {"claim", "read", "wait", "install"}
        THEN [tk[t] EXCEPT !.moved = @ \cup fresh] ELSE tk[t]]

Writes(ops) == {ops[i].blk : i \in {j \in DOMAIN ops : ops[j].op # "read"}}

(* Mutant: a change is counted in the checkpoint being written. *)
NextCpSeqRunning == started

next_cp_seq == started + 1

(* maybe_flush / mark_changed: also in a doomed run, whose marks stay. *)
mark_changed(ino) ==
    IF ino # 0
    THEN /\ ino_mod' = [ino_mod EXCEPT ![ino] = Larger(@, next_cp_seq)]
         /\ UNCHANGED mod_global
    ELSE /\ mod_global' = Larger(mod_global, next_cp_seq)
         /\ UNCHANGED ino_mod

Submit(t, r) ==
    /\ task[t].pc = "idle"
    /\ Writes(r.ops) # {} => txn < MaxTxn
    /\ task' = [task EXCEPT ![t] = [Idle EXCEPT !.pc = "run", !.req = r.ops,
                                                !.ino = r.ino]]
    /\ UNCHANGED <<volume, seqs, wb_inflight, cp, lk, fetching, ghosts>>

(* A mutating request on a read-only mount answers EROFS. *)
RunRefused(t) ==
    /\ task[t].pc = "run" /\ LockFree
    /\ ms.read_only /\ Writes(task[t].req) # {}
    /\ task' = [task EXCEPT ![t] = Idle]
    /\ UNCHANGED <<volume, seqs, wb_inflight, cp, lk, fetching, ghosts>>

(* One run of the request.  If it missed, everything it changed is undone   *)
(* and its misses become fetch commands; otherwise it took effect, and the  *)
(* writer that left too many pinned slots checkpoints before it returns.    *)
Run(t, fail) ==
    LET tk == task[t]
        W  == Writes(tk.req)
        m  == RunOn(Work, tk.req, txn + 1, fail,
                    t \notin Atomic /\ tk.rounds < NOIO_MAX_ROUNDS)
        e  == probe_stop(m)
        missed   == m.probe = "missed"
        throttle == /\ W # {}
                    /\ Cardinality(Pinned(e)) >= HardPinned
        after == CASE missed   -> [tk EXCEPT !.pc = "claim", !.k = 1,
                                             !.cmds = plan_fetch(m.misses)]
                   [] throttle -> [Idle EXCEPT !.pc = "cp"]
                   [] OTHER    -> Idle
    IN  /\ tk.pc = "run" /\ LockFree
        /\ ~(ms.read_only /\ W # {})
        /\ W # {} => txn < MaxTxn
        /\ e.waits => ~wb_inflight
        /\ LockedFault(fail, e)
        /\ cache' = Kept(e) /\ disk' = e.disk /\ maybe' = e.maybe
        /\ IF W # {} THEN mark_changed(tk.ino) ELSE UNCHANGED <<ino_mod, mod_global>>
        /\ IF missed \/ W = {}
           THEN UNCHANGED <<ms, latest, txn>>
           ELSE /\ ms' = [ms EXCEPT !.uncommitted = TRUE]
                /\ latest' = [b \in Blocks |-> IF b \in W THEN txn + 1 ELSE latest[b]]
                /\ txn' = txn + 1
        /\ task' = Bumped([task EXCEPT ![t] = after], e.fresh)
        /\ UNCHANGED <<cpdisk, cpmaybe, started, done, wb_inflight, cp, lk,
                       fetching, promised, crashes>>

----------------------------------------------------------------------------
(* The unlocked half of a miss round: fetch_pass. *)

Cmd(t) == task[t].cmds[task[t].k]

(* The next command of the phase, or the first of the next phase. *)
Advance(tk, phase) ==
    IF tk.k < Len(tk.cmds) THEN [tk EXCEPT !.k = @ + 1]
    ELSE [tk EXCEPT !.k = 1, !.pc = phase]

(* fetch_claim: "mine", "open" (table full: read anyway) or "shared". *)
FetchClaim(t) ==
    LET b == Cmd(t).lo
        c == CASE b \in fetching -> "shared"
               [] Cardinality(fetching) >= FETCH_SLOTS -> "open"
               [] OTHER -> "mine"
    IN  /\ task[t].pc = "claim"
        /\ fetching' = IF c = "mine" THEN fetching \cup {b} ELSE fetching
        /\ task' = [task EXCEPT ![t] =
                       Advance([@ EXCEPT !.claim = Append(@, c)], "read")]
        /\ UNCHANGED <<volume, seqs, wb_inflight, cp, lk, ghosts>>

Filled(tk, cmd) ==
    [tk EXCEPT !.buf = @ \cup {<<b, disk[b]>> : b \in BlocksOf(cmd)}]

(* The device reads of the commands not shared; out of memory gives the     *)
(* claim back with nothing read.                                           *)
FetchRead(t, oom) ==
    LET tk == task[t] IN
    /\ tk.pc = "read"
    /\ oom => tk.claim[tk.k] # "shared"
    /\ task' = [task EXCEPT ![t] =
           Advance(CASE tk.claim[tk.k] = "shared" -> tk
                     [] oom   -> [tk EXCEPT !.claim[tk.k] = "none"]
                     [] OTHER -> Filled(tk, Cmd(t)), "wait")]
    /\ fetching' = IF oom /\ tk.claim[tk.k] = "mine"
                   THEN fetching \ {Cmd(t).lo} ELSE fetching
    /\ UNCHANGED <<volume, seqs, wb_inflight, cp, lk, ghosts>>

(* Shared commands: wait for the other reader; after ten seconds read it.   *)
FetchWait(t, gaveup) ==
    LET tk == task[t]
        waiting == tk.claim[tk.k] = "shared" /\ Cmd(t).lo \in fetching
    IN  /\ tk.pc = "wait"
        /\ gaveup <=> waiting
        /\ task' = [task EXCEPT ![t] =
               Advance(IF gaveup THEN Filled(tk, Cmd(t)) ELSE tk, "install")]
        /\ UNCHANGED <<volume, seqs, wb_inflight, cp, lk, fetching, ghosts>>

Mine(tk) == {tk.cmds[i].lo : i \in {j \in DOMAIN tk.claim : tk.claim[j] = "mine"}}

(* The lock again: what was read enters the cache unless it may be stale,   *)
(* the claims are given back, and the request starts over.                 *)
FetchInstall(t, fail) ==
    LET tk == task[t]
        b2s == SetToSortSeq(tk.buf, LAMBDA x, y : x[1] < y[1])
        m  == FoldLeft(LAMBDA x, f : install_fetched(x, f[1], f[2], tk.moved, fail),
                       Work, b2s)
    IN  /\ tk.pc = "install" /\ LockFree
        /\ m.waits => ~wb_inflight
        /\ LockedFault(fail, m)
        /\ cache' = Kept(m) /\ disk' = m.disk /\ maybe' = m.maybe
        /\ fetching' = fetching \ Mine(tk)
        /\ task' = Bumped([task EXCEPT ![t] =
                      [Idle EXCEPT !.pc = "run", !.req = tk.req, !.ino = tk.ino,
                                   !.rounds = tk.rounds + 1]], m.fresh)
        /\ UNCHANGED <<cpdisk, cpmaybe, ms, seqs, wb_inflight, cp, lk, latest,
                       promised, txn, crashes>>

----------------------------------------------------------------------------
(* Checkpoints with the device writes outside the lock. *)

Least(S) == CHOOSE b \in S : \A x \in S : b <= x

(* The call that wanted the checkpoint returns: Ok to an fsync is a promise.*)
CpReturn(t, ok) ==
    /\ task' = [task EXCEPT ![t] = Idle]
    /\ promised' = IF ok THEN [b \in Blocks |-> Larger(promised[b], task[t].want[b])]
                   ELSE promised

ToWrite == ~ms.read_only /\ (ms.uncommitted \/ cache.dirty # {})

(* The background write-back: changes old enough, or dirty pressure. *)
WritebackScan(t) ==
    /\ "scan" \in Calls
    /\ task[t].pc = "idle" /\ LockFree
    /\ ms.uncommitted /\ ~ms.read_only
    /\ task' = [task EXCEPT ![t].pc = "cp"]
    /\ UNCHANGED <<volume, seqs, wb_inflight, cp, lk, fetching, ghosts>>

(* Where the caller may not sleep: no CP_MUTEX, flush_checkpoint at once. *)
CpAtomic(t) ==
    /\ task[t].pc = "cp" /\ t \in Atomic /\ LockFree
    /\ IF ToWrite
       THEN /\ started < MaxCp
            /\ started' = started + 1
            /\ lk' = [NoLk EXCEPT !.who = t, !.phase = "wait", !.seq = started + 1]
            /\ UNCHANGED <<task, promised>>
       ELSE /\ CpReturn(t, TRUE)
            /\ UNCHANGED <<started, lk>>
    /\ UNCHANGED <<volume, done, ino_mod, mod_global, wb_inflight, cp, fetching,
                   latest, txn, crashes, faults>>

(* CP_MUTEX; an fsync whose checkpoint is complete shares it. *)
CpAcquire(t) ==
    /\ task[t].pc = "cp" /\ t \notin Atomic /\ cp.who = NoTask
    /\ IF task[t].need # 0 /\ done >= task[t].need
       THEN /\ CpReturn(t, TRUE)
            /\ UNCHANGED cp
       ELSE /\ cp' = [NoCp EXCEPT !.who = t, !.phase = "snap"]
            /\ UNCHANGED <<task, promised>>
    /\ UNCHANGED <<volume, seqs, wb_inflight, lk, fetching, latest, txn,
                   crashes, faults>>

(* build_cp_block: the next version, in the pack not written last. *)
NextPack == 1 - ms.active_pack
Commit == [ver |-> ms.ver + 1, snap |-> latest]

(* Phase 1 with nothing to write. *)
CpNothing(t) ==
    /\ cp.who = t /\ cp.phase = "snap" /\ LockFree
    /\ started < MaxCp
    /\ \/ ms.read_only /\ UNCHANGED <<started, done>>
       \/ /\ ~ms.read_only /\ ~ms.uncommitted /\ cache.dirty = {}
          /\ started' = started + 1
          /\ done' = Larger(done, started + 1)
    /\ cp' = NoCp
    /\ CpReturn(t, TRUE)
    /\ UNCHANGED <<volume, ino_mod, mod_global, wb_inflight, lk, fetching,
                   latest, txn, crashes, faults>>

(* Every dirty block becomes clean but pinned. *)
Snapshot(m) ==
    FoldLeft(LAMBDA x, b : set_flags(x, b, FALSE, TRUE), m, SetToSeq(m.dirty))

(* Phase 1: copy the dirty blocks, build the commit block. *)
CpSnapshot(t) ==
    /\ cp.who = t /\ cp.phase = "snap" /\ LockFree /\ ToWrite
    /\ started < MaxCp
    /\ started' = started + 1
    /\ cp' = [cp EXCEPT !.phase = "write", !.left = cache.dirty,
                        !.runs = cache.dirty, !.snap = cache.val,
                        !.commit = Commit, !.pack = NextPack,
                        !.seq = started + 1]
    /\ cache' = Kept(Snapshot(Work))
    /\ ms' = [ms EXCEPT !.uncommitted = FALSE, !.ver = @ + 1, !.active_pack = NextPack]
    /\ wb_inflight' = TRUE
    /\ UNCHANGED <<disk, maybe, cpdisk, cpmaybe, done, ino_mod, mod_global, lk,
                   fetching, task, ghosts>>

(* Phase 1 without memory for the copy: checkpoint under the lock. *)
CpNoMemory(t) ==
    /\ cp.who = t /\ cp.phase = "snap" /\ LockFree /\ ToWrite
    /\ started + 1 < MaxCp
    /\ started' = started + 2
    /\ cp' = [cp EXCEPT !.phase = "locked"]
    /\ lk' = [NoLk EXCEPT !.who = t, !.phase = "wait", !.seq = started + 2]
    /\ UNCHANGED <<volume, done, ino_mod, mod_global, wb_inflight, fetching,
                   task, ghosts>>

(* Phase 2, one command at a time.  A failed write may have landed. *)
CpWrite(t, fault, landed) ==
    LET b == Least(cp.left) IN
    /\ cp.who = t /\ cp.phase = "write" /\ cp.left # {}
    /\ ~fault => landed
    /\ Faulty(fault, "unlocked")
    /\ IF landed
       THEN /\ disk' = [disk EXCEPT ![b] = cp.snap[b]]
            /\ maybe' = [maybe EXCEPT ![b] = @ \cup {cp.snap[b]}]
       ELSE UNCHANGED <<disk, maybe>>
    /\ cp' = [cp EXCEPT !.left = @ \ {b}, !.ok = @ /\ ~fault]
    /\ UNCHANGED <<cache, cpdisk, cpmaybe, ms, seqs, wb_inflight, lk, fetching,
                   task, latest, promised, txn, crashes>>

Flushed == maybe' = [b \in Blocks |-> {disk[b]}]
PacksFlushed == cpmaybe' = [p \in 0..1 |-> {cpdisk[p]}]

(* The barrier; a failed write ends phase 2 here, uncommitted. *)
CpBarrier(t) ==
    /\ cp.who = t /\ cp.phase = "write" /\ cp.left = {}
    /\ Flushed /\ PacksFlushed
    /\ wb_inflight' = cp.ok
    /\ cp' = [cp EXCEPT !.phase = IF cp.ok THEN "commit" ELSE "unpin"]
    /\ UNCHANGED <<cache, disk, cpdisk, ms, seqs, lk, fetching, task, ghosts>>

WritePack(p, c, landed) ==
    IF landed
    THEN /\ cpdisk' = [cpdisk EXCEPT ![p] = c]
         /\ cpmaybe' = [cpmaybe EXCEPT ![p] = @ \cup {c}]
    ELSE UNCHANGED <<cpdisk, cpmaybe>>

CpCommit(t, fault, landed) ==
    /\ cp.who = t /\ cp.phase = "commit"
    /\ ~fault => landed
    /\ Faulty(fault, "unlocked")
    /\ WritePack(cp.pack, cp.commit, landed)
    /\ cp' = [cp EXCEPT !.phase = "flush", !.ok = ~fault]
    /\ UNCHANGED <<cache, disk, maybe, ms, seqs, wb_inflight, lk, fetching,
                   task, latest, promised, txn, crashes>>

CpDone(t) ==
    /\ cp.who = t /\ cp.phase = "flush"
    /\ Flushed /\ PacksFlushed
    /\ wb_inflight' = FALSE
    /\ done' = IF cp.ok THEN Larger(done, cp.seq) ELSE done
    /\ cp' = [cp EXCEPT !.phase = "unpin"]
    /\ UNCHANGED <<cache, disk, cpdisk, ms, started, ino_mod, mod_global, lk,
                   fetching, task, ghosts>>

(* Phase 3: unpin; after a failed write the blocks are dirty again. *)
CpUnpin(t) ==
    LET pinned == SetToSortSeq(cp.runs \cap cache.wb, LAMBDA a, b : a < b)
        Unpin(x, b) == set_flags(x, b, b \in x.dirty \/ ~cp.ok, FALSE)
    IN  /\ cp.who = t /\ cp.phase = "unpin" /\ LockFree
        /\ cache' = Kept(FoldLeft(Unpin, Work, pinned))
        /\ ms' = [ms EXCEPT !.uncommitted = @ \/ ~cp.ok]
        /\ cp' = NoCp
        /\ CpReturn(t, cp.ok)
        /\ UNCHANGED <<disk, maybe, cpdisk, cpmaybe, seqs, wb_inflight, lk,
                       fetching, latest, txn, crashes, faults>>

----------------------------------------------------------------------------
(* fsync_port: the checkpoint this call must see completed.  0 is sync(2).  *)

NeedOf(f) ==
    IF f = 0 THEN next_cp_seq
    ELSE Smaller(Larger(ino_mod[f], mod_global), next_cp_seq)

Fsync(t, f) ==
    LET want == [b \in Blocks |-> IF f \in {0, b} THEN latest[b] ELSE 0]
        need == NeedOf(f)
        tk   == [Idle EXCEPT !.pc = "cp", !.need = need, !.want = want]
    IN  /\ "fsync" \in Calls
        /\ task[t].pc = "idle" /\ LockFree
        /\ IF done >= need
           THEN /\ promised' = [b \in Blocks |-> Larger(promised[b], want[b])]
                /\ UNCHANGED task
           ELSE /\ task' = [task EXCEPT ![t] = tk]
                /\ UNCHANGED promised
        /\ UNCHANGED <<volume, seqs, wb_inflight, cp, lk, fetching, latest, txn,
                       crashes, faults>>

----------------------------------------------------------------------------
(* Checkpoints with the lock held: write_checkpoint.  It does not look at   *)
(* whether its device writes succeeded.                                    *)

RemountRo(t) ==
    /\ "remount" \in Calls
    /\ task[t].pc = "idle" /\ LockFree /\ ~ms.read_only
    /\ started < MaxCp
    /\ started' = started + 1
    /\ lk' = [NoLk EXCEPT !.who = t, !.phase = "wait", !.seq = started + 1, !.ro = TRUE]
    /\ task' = [task EXCEPT ![t].pc = "remount"]
    /\ UNCHANGED <<volume, done, ino_mod, mod_global, wb_inflight, cp, fetching, ghosts>>

RemountRw(t) ==
    /\ task[t].pc = "idle" /\ LockFree /\ ms.read_only
    /\ ms' = [ms EXCEPT !.read_only = FALSE]
    /\ UNCHANGED <<cache, disk, maybe, cpdisk, cpmaybe, seqs, wb_inflight, cp,
                   lk, fetching, task, ghosts>>

(* flush_all starts once no unlocked checkpoint is writing (wait_wb_idle). *)
LkStart(t) ==
    /\ lk.who = t /\ lk.phase = "wait" /\ ~wb_inflight
    /\ lk' = [lk EXCEPT !.phase = "write", !.left = cache.dirty \cup cache.wb]
    /\ UNCHANGED <<volume, seqs, wb_inflight, cp, fetching, task, ghosts>>

LkWrite(t, lost) ==
    LET b == Least(lk.left)
        m == IF lost THEN Work ELSE DeviceWrite(Work, b, cache.val[b])
    IN  /\ lk.who = t /\ lk.phase = "write" /\ lk.left # {}
        /\ Faulty(lost, "locked")
        /\ disk' = m.disk /\ maybe' = m.maybe
        /\ cache' = Kept(set_flags(m, b, FALSE, FALSE))
        /\ lk' = [lk EXCEPT !.left = @ \ {b}]
        /\ UNCHANGED <<cpdisk, cpmaybe, ms, seqs, wb_inflight, cp, fetching,
                       task, latest, promised, txn, crashes>>

LkCommit(t, lost) ==
    /\ lk.who = t /\ lk.phase = "write" /\ lk.left = {}
    /\ Flushed
    /\ Faulty(lost, "locked")
    /\ cpdisk' = IF lost THEN cpdisk ELSE [cpdisk EXCEPT ![NextPack] = Commit]
    /\ cpmaybe' = [p \in 0..1 |-> {cpdisk[p], cpdisk'[p]}]
    /\ ms' = [ms EXCEPT !.ver = @ + 1, !.active_pack = NextPack]
    /\ lk' = [lk EXCEPT !.phase = "flush"]
    /\ UNCHANGED <<cache, disk, seqs, wb_inflight, cp, fetching, task, latest,
                   promised, txn, crashes>>

LkDone(t) ==
    /\ lk.who = t /\ lk.phase = "flush"
    /\ Flushed /\ PacksFlushed
    /\ ms' = [ms EXCEPT !.uncommitted = FALSE, !.read_only = lk.ro]
    /\ done' = Larger(done, lk.seq)
    /\ lk' = NoLk
    /\ cp' = IF cp.who = t THEN NoCp ELSE cp
    /\ CpReturn(t, ~lk.ro)
    /\ UNCHANGED <<cache, disk, cpdisk, started, ino_mod, mod_global,
                   wb_inflight, fetching, latest, txn, crashes, faults>>

----------------------------------------------------------------------------
(* A power cut, and the mount that follows: nothing in memory survives.     *)
Crash ==
    /\ crashes < MaxCrash
    /\ crashes' = crashes + 1
    /\ \E left \in [Blocks -> UNION {maybe[b] : b \in Blocks}] :
          /\ \A b \in Blocks : left[b] \in maybe[b]
          /\ disk' = left /\ latest' = left
          /\ maybe' = [b \in Blocks |-> {left[b]}]
    /\ \E c0 \in cpmaybe[0], c1 \in cpmaybe[1] :
          LET packs == [p \in 0..1 |-> IF p = 0 THEN c0 ELSE c1] IN
          /\ cpdisk' = packs
          /\ cpmaybe' = [p \in 0..1 |-> {packs[p]}]
          /\ ms' = MountFrom(packs)
    /\ cache' = EmptyCache
    /\ started' = 0 /\ done' = 0 /\ ino_mod' = Zero /\ mod_global' = 0
    /\ wb_inflight' = FALSE /\ cp' = NoCp /\ lk' = NoLk /\ fetching' = {}
    /\ task' = [t \in Tasks |-> Idle]
    /\ UNCHANGED <<promised, txn, faults>>

Next ==
    \/ \E t \in Tasks :
          \/ \E r \in Requests : Submit(t, r)
          \/ RunRefused(t)
          \/ \E fail \in SUBSET (Failing \cap {"grow", "undo", "locked"}) : Run(t, fail)
          \/ FetchClaim(t)
          \/ \E oom \in BOOLEAN : FetchRead(t, oom)
          \/ \E gaveup \in BOOLEAN : FetchWait(t, gaveup)
          \/ \E fail \in SUBSET (Failing \cap {"grow", "locked"}) : FetchInstall(t, fail)
          \/ WritebackScan(t) \/ CpAtomic(t) \/ CpAcquire(t)
          \/ CpNothing(t) \/ CpSnapshot(t) \/ CpNoMemory(t)
          \/ \E fault, landed \in BOOLEAN :
                CpWrite(t, fault, landed) \/ CpCommit(t, fault, landed)
          \/ CpBarrier(t) \/ CpDone(t) \/ CpUnpin(t)
          \/ \E f \in Blocks \cup {0} : Fsync(t, f)
          \/ RemountRo(t) \/ RemountRw(t)
          \/ LkStart(t) \/ LkDone(t)
          \/ \E lost \in BOOLEAN : LkWrite(t, lost) \/ LkCommit(t, lost)
    \/ Crash

Spec == Init /\ [][Next]_vars

----------------------------------------------------------------------------
(* What a read of block b returns: its slot, or else the device. *)
View(b) == IF b \in cache.cached THEN cache.val[b] ELSE disk[b]

(* A read always returns what the last completed request wrote: a doomed    *)
(* run leaves no trace, a fetched copy is never an old one, a block leaves  *)
(* the cache only when the device holds its value.                         *)
ReadsSeeLatest == \A b \in Blocks : View(b) = latest[b]

(* An fsync that returned success keeps its promise: whichever of the       *)
(* unflushed writes a power cut loses, the block is at least as new as it   *)
(* was when the fsync was called.                                          *)
FsyncSurvives == \A b \in Blocks : \A v \in maybe[b] : v >= promised[b]

(* A checkpoint pack never reaches the medium before the blocks it commits. *)
CommitCoversData ==
    \A p \in 0..1 : \A c \in cpmaybe[p] :
        \A b \in Blocks : \A v \in maybe[b] : v >= c.snap[b]

Holds(t) == Mine(task[t])
Awaits(t) ==
    IF task[t].pc = "wait" /\ task[t].claim[task[t].k] = "shared"
    THEN {Cmd(t).lo} \cap fetching ELSE {}

(* No two tasks wait for each other's fetch (the ten second limit is for a  *)
(* task that never came back).                                             *)
NoFetchStandoff ==
    \A t, u \in Tasks :
        ~(Awaits(t) \cap Holds(u) # {} /\ Awaits(u) \cap Holds(t) # {})
=============================================================================
