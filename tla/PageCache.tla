----------------------------- MODULE PageCache -----------------------------
(***************************************************************************)
(* One page of one regular file in the kernel's unified page cache         *)
(* (mm/src/pagecache.rs) and the f2fs server's glue to it                  *)
(* (servers/f2fs/src/lib.rs, "Page cache glue").  The page is PageUnits    *)
(* units long, so the end of the file, a write and a truncate can fall     *)
(* inside it; a unit holds the number of the change that last wrote it, 0  *)
(* being zeros.                                                            *)
(*                                                                         *)
(* Who moves: readers, which miss, fill the page with the device read      *)
(* outside the filesystem lock, and copy from a pinned frame; one request  *)
(* at a time under the filesystem lock (write, truncate, growing truncate, *)
(* unlink), which changes the file and then, step by step, the cache; one  *)
(* process with a shared writable mapping; one write-back (msync, fsync or *)
(* the background task); and the three ways a page leaves (the clock, the  *)
(* emergency path, the purge).  CACHE is a spin lock: what runs under it   *)
(* is one step.                                                            *)
(***************************************************************************)
EXTENDS Integers, FiniteSets

CONSTANTS Readers, Frames,
          PageUnits,            \* units of one page (BLOCK_SIZE bytes in the code)
          UNLOCKED_READ_TRIES,
          MaxChanges,           \* bound: writes, stores and truncates of a behaviour
          None                  \* no frame, no reader, no size

Units == 0 .. PageUnits - 1
Zeros == [u \in Units |-> 0]

VARIABLES
  disk, size,     \* the file as the filesystem has it: data and i_size
  gone,           \* the inode was freed
  lock,           \* F2FS_MOUNTS is held across steps
  csize,          \* FileEnt.size (None: file not tracked or size not known)
  page,           \* the Page entry
  data, refs,     \* the frames: contents, and references (0: free)
  rd,             \* each reader: where it is in pc_read / pc_fill
  req,            \* the request that holds the lock
  map,            \* the shared mapping of the page
  wb,             \* the write-back in flight
  latest, length, \* what the last change of each unit, and of the size, left
  late,           \* units stored to in a window the write-back does not cover
  changes         \* changes so far

cachevars == <<csize, page, data, refs>>
filevars  == <<disk, size, gone>>
ghosts    == <<latest, length, late, changes>>
vars == <<disk, size, gone, lock, csize, page, data, refs, rd, req, map, wb,
          latest, length, late, changes>>

-----------------------------------------------------------------------------
(* The Page entry: absent, a placeholder being filled, published, or the   *)
(* hole the emergency path leaves.                                         *)
Absent == [st |-> "absent", frame |-> None, tok |-> None, stale |-> FALSE, dirty |-> FALSE]
Filling(r) == [Absent EXCEPT !.st = "filling", !.tok = r]
Published(f) == [Absent EXCEPT !.st = "uptodate", !.frame = f]
Hole == [Absent EXCEPT !.st = "hole"]

(* A placeholder whose data is out of date already. *)
Doomed(p) == [p EXCEPT !.stale = TRUE]

Lesser(a, b) == IF a < b THEN a ELSE b
Greater(a, b) == IF a > b THEN a ELSE b

FreeFrames == {f \in Frames : refs[f] = 0}

(* The frame's bytes with `v` in the units of S. *)
Put(f, S, v) == [data EXCEPT ![f] = [u \in Units |-> IF u \in S THEN v ELSE @[u]]]

(* unref_or_free: one reference less; the last one frees the frame. *)
Unref(f) == [refs EXCEPT ![f] = @ - 1]
Ref(f) == [refs EXCEPT ![f] = @ + 1]

IdleReader == [pc |-> "idle", frame |-> None, got |-> 0, buf |-> Zeros, fresh |-> TRUE, tries |-> 0]
IdleReq == [pc |-> "idle", from |-> 0, upto |-> 0, gap |-> {}, pin |-> None]
NoMap == [frame |-> None, written |-> FALSE]
IdleWb == [pc |-> "idle", frame |-> None, len |-> 0, ok |-> FALSE]

Init ==
  /\ size \in {1, PageUnits}
  /\ disk = Zeros /\ gone = FALSE /\ lock = FALSE
  /\ csize = None /\ page = Absent
  /\ data = [f \in Frames |-> Zeros] /\ refs = [f \in Frames |-> 0]
  /\ rd = [r \in Readers |-> IdleReader]
  /\ req = IdleReq /\ map = NoMap /\ wb = IdleWb
  /\ latest = Zeros /\ length = size /\ late = {} /\ changes = 0

-----------------------------------------------------------------------------
(* Readers: pc_read, pc_fill, read_unlocked.                               *)

(* The file is not tracked: pc_learn reads its size under the lock. *)
Learn(r) ==
  /\ rd[r].pc = "idle" /\ csize = None /\ ~lock /\ ~gone
  /\ csize' = size
  /\ UNCHANGED <<filevars, lock, page, data, refs, rd, req, map, wb, ghosts>>

(* A miss: the placeholder goes in, if the file has such a page.  (ra_window *)
(* and make_room only choose how many pages, and evict: see Reclaim.)        *)
begin_fill(r) ==
  /\ rd[r].pc = "idle"
  /\ csize # None /\ csize > 0
  /\ page.st \in {"absent", "hole"}
  /\ page' = Filling(r)
  /\ rd' = [rd EXCEPT ![r].pc = "alloc"]
  /\ UNCHANGED <<filevars, lock, csize, data, refs, req, map, wb, ghosts>>

(* The frame to read into, with whatever its last owner left in it. *)
FillAlloc(r) ==
  /\ rd[r].pc = "alloc"
  /\ \E f \in FreeFrames :
       /\ rd' = [rd EXCEPT ![r].pc = "plan", ![r].frame = f, ![r].tries = 0]
       /\ refs' = [refs EXCEPT ![f] = 1]
  /\ UNCHANGED <<filevars, lock, csize, page, data, req, map, wb, ghosts>>

Ours(r) == page.st = "filling" /\ page.tok = r

(* No frame, also when others hold them: the placeholder comes out again    *)
(* (abort_fill).                                                           *)
FillNoMemory(r) ==
  /\ rd[r].pc = "alloc"
  /\ page' = IF Ours(r) THEN Absent ELSE page
  /\ rd' = [rd EXCEPT ![r] = IdleReader]
  /\ UNCHANGED <<filevars, lock, csize, data, refs, req, map, wb, ghosts>>

(* Under the lock: the generation is noted and the read planned.  A whole  *)
(* block that the block cache does not hold is left to the device; what is *)
(* short of a block, or cached, is copied here and the read is done.       *)
FillPlan(r) ==
  /\ rd[r].pc = "plan" /\ ~lock
  /\ \E cached \in BOOLEAN :
       IF size = PageUnits /\ ~cached /\ rd[r].tries < UNLOCKED_READ_TRIES
       THEN rd' = [rd EXCEPT ![r].pc = "read", ![r].fresh = TRUE]
       ELSE rd' = [rd EXCEPT ![r].pc = "publish", ![r].got = Lesser(size, PageUnits), ![r].buf = disk]
  /\ UNCHANGED <<filevars, lock, cachevars, req, map, wb, ghosts>>

(* The device read, with no lock held. *)
FillRead(r) ==
  /\ rd[r].pc = "read"
  /\ rd' = [rd EXCEPT ![r].pc = "check", ![r].buf = disk, ![r].got = PageUnits]
  /\ UNCHANGED <<filevars, lock, cachevars, req, map, wb, ghosts>>

(* The data generation has not moved since the plan: the bytes are good.   *)
(* Otherwise plan again, and after UNLOCKED_READ_TRIES read through the    *)
(* block cache.                                                            *)
FillCheck(r) ==
  /\ rd[r].pc = "check"
  /\ rd' = IF rd[r].fresh THEN [rd EXCEPT ![r].pc = "publish"]
           ELSE [rd EXCEPT ![r].pc = "plan", ![r].tries = @ + 1, ![r].fresh = TRUE]
  /\ UNCHANGED <<filevars, lock, cachevars, req, map, wb, ghosts>>

(* Publish the frame, zeros past what was read, or discard it when the     *)
(* placeholder went stale or away, or nothing of the page is in the file.  *)
EndFillIgnoringStale(r) ==
  LET f == rd[r].frame
      publish == Ours(r) /\ rd[r].got > 0
  IN  /\ rd[r].pc = "publish"
      /\ data' = [data EXCEPT ![f] = [u \in Units |-> IF u < rd[r].got THEN rd[r].buf[u] ELSE 0]]
      /\ page' = IF publish THEN Published(f) ELSE IF Ours(r) THEN Absent ELSE page
      /\ refs' = IF publish THEN refs ELSE Unref(f)
      /\ rd' = [rd EXCEPT ![r] = IdleReader]
      /\ UNCHANGED <<filevars, lock, csize, req, map, wb, ghosts>>

end_fill(r) ==
  LET f == rd[r].frame
      publish == Ours(r) /\ ~page.stale /\ rd[r].got > 0
  IN  /\ rd[r].pc = "publish"
      /\ data' = [data EXCEPT ![f] = [u \in Units |-> IF u < rd[r].got THEN rd[r].buf[u] ELSE 0]]
      /\ page' = IF publish THEN Published(f) ELSE IF Ours(r) THEN Absent ELSE page
      /\ refs' = IF publish THEN refs ELSE Unref(f)
      /\ rd' = [rd EXCEPT ![r] = IdleReader]
      /\ UNCHANGED <<filevars, lock, csize, req, map, wb, ghosts>>

(* A hit: pin the frame, copy from it with no lock held, drop the pin. *)
pin_run(r) ==
  /\ rd[r].pc = "idle" /\ page.st = "uptodate"
  /\ rd' = [rd EXCEPT ![r].pc = "pinned", ![r].frame = page.frame]
  /\ refs' = Ref(page.frame)
  /\ UNCHANGED <<filevars, lock, csize, page, data, req, map, wb, ghosts>>

unpin(r) ==
  /\ rd[r].pc = "pinned"
  /\ refs' = Unref(rd[r].frame)
  /\ rd' = [rd EXCEPT ![r] = IdleReader]
  /\ UNCHANGED <<filevars, lock, csize, page, data, req, map, wb, ghosts>>

-----------------------------------------------------------------------------
(* Requests under F2FS_MOUNTS.                                             *)

(* data_changed: every unlocked read in flight will be redone. *)
data_changed == [r \in Readers |-> [rd[r] EXCEPT !.fresh = @ /\ rd[r].pc \notin {"read", "check"}]]

(* write_file_data: the file first. *)
WriteFile ==
  \E from \in Units, upto \in 1 .. PageUnits :
    /\ from < upto
    /\ ~lock /\ ~gone /\ changes < MaxChanges
    /\ lock' = TRUE /\ changes' = changes + 1
    /\ rd' = data_changed
    /\ disk' = [u \in Units |-> IF u \in from .. upto - 1 THEN changes' ELSE disk[u]]
    /\ size' = Greater(upto, size) /\ length' = size'
    /\ req' = [IdleReq EXCEPT !.pc = "extend", !.from = from, !.upto = upto,
                              !.gap = {u \in Units : size <= u /\ u < from}]
    /\ UNCHANGED <<gone, cachevars, map, wb, latest, late>>

(* pc_write_through, first the gap a write past the end leaves in the old  *)
(* last page (pagecache::extend; an end at the page's start leaves none).  *)
(* Also the growing ftruncate's, which has no bytes to copy.               *)
Extended(gap) ==
  /\ page' = IF gap # {} /\ 0 \notin gap /\ page.st = "filling" THEN Doomed(page) ELSE page
  /\ data' = IF gap # {} /\ 0 \notin gap /\ page.st = "uptodate" THEN Put(page.frame, gap, 0) ELSE data

Extend ==
  /\ req.pc = "extend"
  /\ Extended(req.gap)
  /\ req' = [req EXCEPT !.pc = "pin"]
  /\ latest' = [u \in Units |-> IF u \in req.gap THEN 0 ELSE latest[u]]
  /\ late' = late \ req.gap
  /\ UNCHANGED <<filevars, lock, csize, refs, rd, map, wb, length, changes>>

(* wt_pin: the cached page is pinned, a fill of it in flight is doomed. *)
wt_pin ==
  /\ req.pc = "pin"
  /\ page' = IF page.st = "filling" THEN Doomed(page) ELSE page
  /\ IF page.st = "uptodate"
     THEN refs' = Ref(page.frame) /\ req' = [req EXCEPT !.pc = "copy", !.pin = page.frame]
     ELSE refs' = refs /\ req' = [req EXCEPT !.pc = "copy"]
  /\ UNCHANGED <<filevars, lock, csize, data, rd, map, wb, ghosts>>

(* The caller's bytes go into the pinned frame. *)
WtCopy ==
  LET S == req.from .. req.upto - 1
  IN  /\ req.pc = "copy"
      /\ data' = IF req.pin = None THEN data
                 ELSE [data EXCEPT ![req.pin] = [u \in Units |-> IF u \in S THEN disk[u] ELSE @[u]]]
      /\ latest' = [u \in Units |-> IF u \in S THEN disk[u] ELSE latest[u]]
      /\ late' = late \ S
      /\ req' = [req EXCEPT !.pc = "done"]
      /\ UNCHANGED <<filevars, lock, csize, page, refs, rd, map, wb, length, changes>>

(* wt_done, note_size, and the lock is dropped. *)
WtDone ==
  /\ req.pc = "done"
  /\ refs' = IF req.pin = None THEN refs ELSE Unref(req.pin)
  /\ csize' = IF csize = None THEN None ELSE size
  /\ lock' = FALSE /\ req' = IdleReq
  /\ UNCHANGED <<filevars, page, data, rd, map, wb, ghosts>>

(* ftruncate to a smaller length: the blocks past it go and the tail of    *)
(* the last one is zeroed (truncate_to) ...                                *)
TruncateFile ==
  \E len \in 0 .. size - 1 :
    /\ ~lock /\ ~gone /\ changes < MaxChanges
    /\ lock' = TRUE /\ changes' = changes + 1
    /\ rd' = data_changed
    /\ disk' = [u \in Units |-> IF u < len THEN disk[u] ELSE 0]
    /\ size' = len /\ length' = len
    /\ req' = [IdleReq EXCEPT !.pc = "truncate"]
    /\ UNCHANGED <<gone, cachevars, map, wb, latest, late>>

(* ... then pagecache::truncate: the page past the end goes, a mapping     *)
(* keeping its frame; the tail of the last page reads zeros; a fill in     *)
(* flight is doomed.                                                       *)
truncate ==
  LET past == {u \in Units : u >= size}
      drop == size = 0 /\ page.st \in {"uptodate", "hole"}
  IN  /\ req.pc = "truncate"
      /\ csize' = IF csize = None THEN None ELSE size
      /\ page' = IF csize = None THEN page
                 ELSE IF page.st = "filling" THEN Doomed(page)
                 ELSE IF drop THEN Absent ELSE page
      /\ data' = IF size > 0 /\ page.st = "uptodate" THEN Put(page.frame, past, 0) ELSE data
      /\ refs' = IF drop /\ page.st = "uptodate" THEN Unref(page.frame) ELSE refs
      /\ latest' = [u \in Units |-> IF u \in past THEN 0 ELSE latest[u]]
      /\ late' = late \ past
      /\ lock' = FALSE /\ req' = IdleReq
      /\ UNCHANGED <<filevars, rd, map, wb, length, changes>>

(* ftruncate to a greater length: i_size, then extend and note_size. *)
GrowFile ==
  \E len \in size + 1 .. PageUnits :
    /\ ~lock /\ ~gone /\ changes < MaxChanges
    /\ lock' = TRUE /\ changes' = changes + 1
    /\ size' = len /\ length' = len
    /\ req' = [IdleReq EXCEPT !.pc = "grow", !.gap = {u \in Units : size <= u /\ u < len}]
    /\ UNCHANGED <<disk, gone, cachevars, rd, map, wb, latest, late>>

Grow ==
  /\ req.pc = "grow"
  /\ Extended(req.gap)
  /\ csize' = IF csize = None THEN None ELSE size
  /\ latest' = [u \in Units |-> IF u \in req.gap THEN 0 ELSE latest[u]]
  /\ late' = late \ req.gap
  /\ lock' = FALSE /\ req' = IdleReq
  /\ UNCHANGED <<filevars, refs, rd, map, wb, length, changes>>

(* The inode is freed (free_inode_data_and_nodes, drop_file): its cached   *)
(* page goes, dirty or not, and in-flight fills find no placeholder.       *)
Unlink ==
  /\ ~lock /\ ~gone
  /\ gone' = TRUE /\ size' = 0 /\ length' = 0 /\ disk' = Zeros
  /\ rd' = data_changed
  /\ csize' = None /\ page' = Absent
  /\ refs' = IF page.st = "uptodate" THEN Unref(page.frame) ELSE refs
  /\ latest' = Zeros /\ late' = {}
  /\ UNCHANGED <<lock, data, req, map, wb, changes>>

-----------------------------------------------------------------------------
(* The process with a shared mapping of the page.                          *)

(* A read fault maps the cached frame (pagecache::lookup). *)
lookup ==
  /\ map.frame = None /\ page.st = "uptodate"
  /\ map' = [NoMap EXCEPT !.frame = page.frame]
  /\ refs' = Ref(page.frame)
  /\ UNCHANGED <<filevars, lock, csize, page, data, rd, req, wb, ghosts>>

(* The first write faults: the page is marked dirty, if it is still the    *)
(* file's, and the mapping becomes writable either way.                    *)
mark_dirty ==
  /\ map.frame # None /\ ~map.written
  /\ page' = IF page.st = "uptodate" /\ page.frame = map.frame
             THEN [page EXCEPT !.dirty = TRUE] ELSE page
  /\ map' = [map EXCEPT !.written = TRUE]
  /\ UNCHANGED <<filevars, lock, csize, data, refs, rd, req, wb, ghosts>>

(* A store through the writable mapping.  It changes the file when the     *)
(* frame is the cached page and the unit is inside the file.  A write-back *)
(* that has copied the page already will not take it.                      *)
Store ==
  \E u \in Units :
    LET reaches == page.st = "uptodate" /\ page.frame = map.frame /\ u < size
        missed == wb.frame = map.frame /\ wb.pc = "done"
    IN  /\ map.frame # None /\ map.written /\ changes < MaxChanges
        /\ changes' = changes + 1
        /\ data' = Put(map.frame, {u}, changes')
        /\ latest' = IF reaches THEN [latest EXCEPT ![u] = changes'] ELSE latest
        /\ late' = IF ~reaches THEN late ELSE IF missed THEN late \cup {u} ELSE late \ {u}
        /\ UNCHANGED <<filevars, lock, csize, page, refs, rd, req, map, wb, length>>

Unmap ==
  /\ map.frame # None
  /\ refs' = Unref(map.frame)
  /\ map' = NoMap
  /\ UNCHANGED <<filevars, lock, csize, page, data, rd, req, wb, ghosts>>

-----------------------------------------------------------------------------
(* Write-back: pc_flush_dirty, pc_writeback_page.                          *)

(* Pin the dirty page; the background task leaves a page alone that        *)
(* something else holds.                                                   *)
take_dirty ==
  \E mapped \in BOOLEAN :
    /\ wb.pc = "idle" /\ page.st = "uptodate" /\ page.dirty
    /\ mapped \/ refs[page.frame] = 1
    /\ wb' = [IdleWb EXCEPT !.pc = "size", !.frame = page.frame]
    /\ refs' = Ref(page.frame)
    /\ UNCHANGED <<filevars, lock, csize, page, data, rd, req, map, ghosts>>

(* How much of the page is in the file, as the cache knows it now. *)
WbSize ==
  /\ wb.pc = "size"
  /\ wb' = IF csize = None THEN [wb EXCEPT !.pc = "done", !.ok = FALSE]
           ELSE IF csize = 0 THEN [wb EXCEPT !.pc = "done", !.ok = TRUE]
           ELSE [wb EXCEPT !.pc = "write", !.len = Lesser(csize, PageUnits)]
  /\ UNCHANGED <<filevars, lock, cachevars, rd, req, map, ghosts>>

still_dirty == page.st = "uptodate" /\ page.frame = wb.frame /\ page.dirty

(* Under the lock: if it is still the file's dirty page, its first `len`   *)
(* units are written to the file, whose size follows.                      *)
WbWrite ==
  /\ wb.pc = "write" /\ ~lock
  /\ wb' = [wb EXCEPT !.pc = "done", !.ok = TRUE]
  /\ IF still_dirty
     THEN /\ rd' = data_changed
          /\ disk' = [u \in Units |-> IF u < wb.len THEN data[wb.frame][u] ELSE disk[u]]
          /\ size' = Greater(wb.len, size)
          /\ csize' = size'
          /\ latest' = [u \in Units |-> IF size <= u /\ u < wb.len THEN data[wb.frame][u] ELSE latest[u]]
          /\ late' = late \cup {u \in Units : wb.len <= u /\ u < size}
     ELSE UNCHANGED <<rd, disk, size, csize, latest, late>>
  /\ UNCHANGED <<gone, lock, page, data, refs, req, map, length, changes>>

(* The page is clean again unless something besides the cache and this     *)
(* write-back holds it.                                                    *)
writeback_done ==
  /\ wb.pc = "done"
  /\ page' = IF wb.ok /\ still_dirty /\ refs[wb.frame] <= 2
             THEN [page EXCEPT !.dirty = FALSE] ELSE page
  /\ refs' = Unref(wb.frame)
  /\ wb' = IdleWb
  /\ UNCHANGED <<filevars, lock, csize, data, rd, req, map, ghosts>>

-----------------------------------------------------------------------------
(* The ways out of the cache.                                              *)
Evictable == page.st = "uptodate" /\ ~page.dirty /\ refs[page.frame] = 1

(* The clock, which may pass a referenced page twice in one call, and then *)
(* forgets a file with no page left, its size included.                    *)
reclaim_pages ==
  /\ page.st = "hole" \/ Evictable
  /\ refs' = IF page.st = "hole" THEN refs ELSE [refs EXCEPT ![page.frame] = 0]
  /\ page' = Absent /\ csize' = None
  /\ UNCHANGED <<filevars, lock, data, rd, req, map, wb, ghosts>>

(* An allocation found no block: the frame goes now, the entry later. *)
emergency_reclaim ==
  /\ Evictable
  /\ refs' = [refs EXCEPT ![page.frame] = 0]
  /\ page' = Hole
  /\ UNCHANGED <<filevars, lock, csize, data, rd, req, map, wb, ghosts>>

purge ==
  /\ page.st = "hole"
  /\ page' = Absent
  /\ UNCHANGED <<filevars, lock, csize, data, refs, rd, req, map, wb, ghosts>>

-----------------------------------------------------------------------------
Reader(r) == \/ Learn(r) \/ begin_fill(r) \/ FillAlloc(r) \/ FillNoMemory(r)
             \/ FillPlan(r) \/ FillRead(r) \/ FillCheck(r) \/ end_fill(r)
             \/ pin_run(r) \/ unpin(r)
Request == \/ WriteFile \/ Extend \/ wt_pin \/ WtCopy \/ WtDone
           \/ TruncateFile \/ truncate \/ GrowFile \/ Grow \/ Unlink
Mapping == lookup \/ mark_dirty \/ Store \/ Unmap
Writeback == take_dirty \/ WbSize \/ WbWrite \/ writeback_done
Reclaim == reclaim_pages \/ emergency_reclaim \/ purge

Next == (\E r \in Readers : Reader(r)) \/ Request \/ Mapping \/ Writeback \/ Reclaim

Spec == Init /\ [][Next]_vars

-----------------------------------------------------------------------------
(* What a reader of the file gets for unit u: the cached page if there is  *)
(* one, else the filesystem's bytes.                                       *)
View(u) == IF page.st = "uptodate" THEN data[page.frame][u] ELSE disk[u]

(* "One frame per (file, page index), shared by everything that reads the  *)
(* file": between requests, a read of any unit of the file returns what    *)
(* the last write, store or truncate left there, whatever fills, reclaims  *)
(* and write-backs ran meanwhile, and a page that may be dropped at any    *)
(* moment holds nothing the filesystem does not have.  Stores made in the  *)
(* window a write-back does not cover are left out here.                   *)
LastChangeVisible ==
  ~lock => \A u \in Units : u < size /\ u \notin late =>
             /\ View(u) = latest[u]
             /\ page.st = "uptodate" /\ ~page.dirty => disk[u] = latest[u]

(* Every reference to a frame is somebody's: the cache's, the mapping's, a *)
(* reader's pin or fill, a write's pin or the write-back's; a frame goes   *)
(* back to the allocator exactly when the last of them is dropped.         *)
FrameRefsExact ==
  \A f \in Frames :
    refs[f] = (IF page.st = "uptodate" /\ page.frame = f THEN 1 ELSE 0)
            + (IF map.frame = f THEN 1 ELSE 0)
            + Cardinality({r \in Readers : rd[r].frame = f})
            + (IF req.pin = f THEN 1 ELSE 0)
            + (IF wb.frame = f THEN 1 ELSE 0)

(* "Dirty pages are never evicted and are written back through the         *)
(* filesystem": no store through a mapping is ever lost.                   *)
StoreReachesFile ==
  ~lock => \A u \in Units : u < size => View(u) = latest[u]

(* The file is as long as the last write or truncate made it. *)
LengthKept == ~lock => size = length
=============================================================================
