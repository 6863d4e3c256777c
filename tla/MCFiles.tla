------------------------------ MODULE MCFiles ------------------------------
(***************************************************************************)
(* Instances of PageCache, F2fs, Epoll and PollDeadline for TLC.  A behaviour *)
(* of Spec belongs to one scenario: one page of a file in the page cache; an  *)
(* f2fs volume whose requests miss a block cache of two slots; one whose      *)
(* fsyncs and checkpoints meet a device error and a power cut; one that is    *)
(* remounted as well; one used before tasks can sleep; edges of two pipes     *)
(* under one epoll_wait; a sibling changing the interests of two, and twice   *)
(* those of one; timed sleeps against the deadline service, with signals and  *)
(* with more deadlines ahead; a timerfd, set once and set again.              *)
(***************************************************************************)
EXTENDS Naturals, Sequences, FiniteSets, TLC

CONSTANTS p1, p2, e1, c1, i0, pa, pb, Self, s1, f1, q1, r1, None, NoTask

(* The variables of the component that the scenario is about; 0 where it has  *)
(* fewer.                                                                    *)
VARIABLES scenario, x1, x2, x3, x4, x5, x6, x7, x8, x9, x10, x11, x12, x13, x14, x15, x16,
  x17, x18, x19, x20
From12 == <<x12, x13, x14, x15>>
From17 == <<x17, x18, x19, x20>>
vars == <<scenario, x1, x2, x3, x4, x5, x6, x7, x8, x9, x10, x11, From12, x16, From17>>

File == INSTANCE PageCache WITH Readers <- {r1}, Frames <- {p1, p2}, PageUnits <- 3,
  UNLOCKED_READ_TRIES <- 1, MaxChanges <- 2,
  disk <- x1, size <- x2, gone <- x3, lock <- x4, csize <- x5, page <- x6, data <- x7, refs <- x8,
  rd <- x9, req <- x10, map <- x11, wb <- x12, latest <- x13, length <- x14, late <- x15,
  changes <- x16

Use(o, b) == [op |-> o, blk |-> b]
Change(ino, ops) == [ops |-> ops, ino |-> ino]

(* Requests that miss: two of three blocks fit, and a fetch of two commands    *)
(* may share either with another task's.                                     *)
Missing == {Change(10, <<Use("read", 1), Use("read", 10), Use("mut", 10)>>),
            Change(1, <<Use("write", 1), Use("read", 20)>>)}
Misses == INSTANCE F2fs WITH Blocks <- {1, 10, 20}, Cap <- 2, MISS_BATCH <- 16, FETCH_GAP <- 4, FETCH_MAX <- 32,
  Tasks <- {p1, p2}, Atomic <- {}, Requests <- Missing, Calls <- {"scan"}, HardPinned <- 3, NOIO_MAX_ROUNDS <- 2,
  FETCH_SLOTS <- 2, MaxTxn <- 2, MaxCp <- 1, MaxCrash <- 0, MaxFaults <- 0, Failing <- {"grow", "undo"},
  cache <- x1, disk <- x2, maybe <- x3, cpdisk <- x4, cpmaybe <- x5, ms <- x6, started <- x7,
  done <- x8, ino_mod <- x9, mod_global <- x10, wb_inflight <- x11, cp <- x12, lk <- x13, fetching <- x14,
  task <- x15, latest <- x16, promised <- x17, txn <- x18, crashes <- x19, faults <- x20

(* One file's own change, and one of two blocks that belongs to several: with a *)
(* failed write, with a power cut, and with both.                             *)
Fsyncs == {"faults", "cuts", "both"}
Small == {Change(1, <<Use("mut", 1)>>), Change(0, <<Use("mut", 1), Use("mut", 10)>>)}
Durable(txns, cuts, refused) == INSTANCE F2fs WITH
  Blocks <- {1, 10}, Cap <- 2, MISS_BATCH <- 16, FETCH_GAP <- 4, FETCH_MAX <- 32,
  Tasks <- {p1, p2}, Atomic <- {}, Requests <- Small, Calls <- {"fsync"}, HardPinned <- 3, NOIO_MAX_ROUNDS <- 0,
  FETCH_SLOTS <- 2, MaxTxn <- txns, MaxCp <- 2, MaxCrash <- cuts, MaxFaults <- refused, Failing <- {"unlocked"},
  cache <- x1, disk <- x2, maybe <- x3, cpdisk <- x4, cpmaybe <- x5, ms <- x6, started <- x7,
  done <- x8, ino_mod <- x9, mod_global <- x10, wb_inflight <- x11, cp <- x12, lk <- x13, fetching <- x14,
  task <- x15, latest <- x16, promised <- x17, txn <- x18, crashes <- x19, faults <- x20

(* Shorter, with remounts and a read. *)
WithRead == Small \cup {Change(0, <<Use("read", 10)>>)}
Remounts == INSTANCE F2fs WITH Blocks <- {1, 10}, Cap <- 2, MISS_BATCH <- 16, FETCH_GAP <- 4, FETCH_MAX <- 32,
  Tasks <- {p1, p2}, Atomic <- {}, Requests <- WithRead, Calls <- {"fsync", "remount"}, HardPinned <- 3, NOIO_MAX_ROUNDS <- 0,
  FETCH_SLOTS <- 2, MaxTxn <- 1, MaxCp <- 2, MaxCrash <- 1, MaxFaults <- 0, Failing <- {},
  cache <- x1, disk <- x2, maybe <- x3, cpdisk <- x4, cpmaybe <- x5, ms <- x6, started <- x7,
  done <- x8, ino_mod <- x9, mod_global <- x10, wb_inflight <- x11, cp <- x12, lk <- x13, fetching <- x14,
  task <- x15, latest <- x16, promised <- x17, txn <- x18, crashes <- x19, faults <- x20

(* One task that may not sleep, alone (the kernel before its first task). *)
Boot == INSTANCE F2fs WITH Blocks <- {1, 10}, Cap <- 2, MISS_BATCH <- 16, FETCH_GAP <- 4, FETCH_MAX <- 32,
  Tasks <- {c1}, Atomic <- {c1}, Requests <- WithRead, Calls <- {"fsync", "remount", "scan"}, HardPinned <- 2, NOIO_MAX_ROUNDS <- 2,
  FETCH_SLOTS <- 2, MaxTxn <- 1, MaxCp <- 2, MaxCrash <- 1, MaxFaults <- 0, Failing <- {},
  cache <- x1, disk <- x2, maybe <- x3, cpdisk <- x4, cpmaybe <- x5, ms <- x6, started <- x7,
  done <- x8, ino_mod <- x9, mod_global <- x10, wb_inflight <- x11, cp <- x12, lk <- x13, fetching <- x14,
  task <- x15, latest <- x16, promised <- x17, txn <- x18, crashes <- x19, faults <- x20

(* A device that refuses a write made with F2FS_MOUNTS held. *)
Refuses == INSTANCE F2fs WITH Blocks <- {1, 10}, Cap <- 2, MISS_BATCH <- 16, FETCH_GAP <- 4, FETCH_MAX <- 32,
  Tasks <- {p1, p2}, Atomic <- {}, Requests <- Small, Calls <- {"fsync"}, HardPinned <- 3, NOIO_MAX_ROUNDS <- 0,
  FETCH_SLOTS <- 2, MaxTxn <- 2, MaxCp <- 2, MaxCrash <- 1, MaxFaults <- 1, Failing <- {"locked"},
  cache <- x1, disk <- x2, maybe <- x3, cpdisk <- x4, cpmaybe <- x5, ms <- x6, started <- x7,
  done <- x8, ino_mod <- x9, mod_global <- x10, wb_inflight <- x11, cp <- x12, lk <- x13, fetching <- x14,
  task <- x15, latest <- x16, promised <- x17, txn <- x18, crashes <- x19, faults <- x20

(* Reads on both sides of a block that is written, and one that evicts it. *)
Around == {Change(0, <<Use("read", 1), Use("read", 3)>>), Change(2, <<Use("write", 2)>>), Change(0, <<Use("read", 4)>>)}
Gap == INSTANCE F2fs WITH Blocks <- {1, 2, 3, 4}, Cap <- 2, MISS_BATCH <- 16, FETCH_GAP <- 4, FETCH_MAX <- 32,
  Tasks <- {p1, p2}, Atomic <- {}, Requests <- Around, Calls <- {"scan"}, HardPinned <- 3, NOIO_MAX_ROUNDS <- 2,
  FETCH_SLOTS <- 2, MaxTxn <- 1, MaxCp <- 1, MaxCrash <- 0, MaxFaults <- 0, Failing <- {"grow", "undo"},
  cache <- x1, disk <- x2, maybe <- x3, cpdisk <- x4, cpmaybe <- x5, ms <- x6, started <- x7,
  done <- x8, ino_mod <- x9, mod_global <- x10, wb_inflight <- x11, cp <- x12, lk <- x13, fetching <- x14,
  task <- x15, latest <- x16, promised <- x17, txn <- x18, crashes <- x19, faults <- x20

Edges == INSTANCE Epoll WITH Waiters <- {e1}, Ctls <- {}, Ios <- {p1, p2}, Objs <- {pa, pb},
  Watched <- {pa, pb}, Edge <- {pa}, Oneshot <- {}, Ops <- {"signal"},
  MaxEvents <- 2, MaxSeq <- 2, MaxCtl <- 0,
  pipe <- x1, items <- x2, gen <- x3, task <- x4, at <- x5, frame <- x6, ctl <- x7, io <- x8,
  pending <- x9, tick <- x10, fired <- x11
Masks == INSTANCE Epoll WITH Waiters <- {p1, p2}, Ctls <- {c1}, Ios <- {i0}, Objs <- {pa, pb},
  Watched <- {pa}, Edge <- {}, Oneshot <- {pa}, Ops <- {"add", "mod", "del"},
  MaxEvents <- 1, MaxSeq <- 1, MaxCtl <- 1,
  pipe <- x1, items <- x2, gen <- x3, task <- x4, at <- x5, frame <- x6, ctl <- x7, io <- x8,
  pending <- x9, tick <- x10, fired <- x11
Rewatch == INSTANCE Epoll WITH Waiters <- {e1}, Ctls <- {c1}, Ios <- {i0}, Objs <- {pa, pb},
  Watched <- {pa}, Edge <- {}, Oneshot <- {pa}, Ops <- {"add", "mod", "del"},
  MaxEvents <- 1, MaxSeq <- 1, MaxCtl <- 2,
  pipe <- x1, items <- x2, gen <- x3, task <- x4, at <- x5, frame <- x6, ctl <- x7, io <- x8,
  pending <- x9, tick <- x10, fired <- x11
Hints == INSTANCE PollDeadline WITH Sleepers <- {s1}, Pollers <- {}, Futexers <- {f1}, Readers <- {}, Cpus <- {p1, p2},
  Edge <- {}, Interval <- 0, Ops <- {"signal"}, MaxTime <- 1, MaxSet <- 0,
  now <- x1, hint <- x2, task <- x3, parked <- x4, at <- x5, want <- x6, last <- x7, timer <- x8,
  nset <- x9, setting <- x10, reader <- x11, svc <- x12, pending <- x13, unheard <- x14, count <- x15
Later == INSTANCE PollDeadline WITH Sleepers <- {s1}, Pollers <- {}, Futexers <- {f1}, Readers <- {}, Cpus <- {c1},
  Edge <- {}, Interval <- 0, Ops <- {}, MaxTime <- 2, MaxSet <- 0,
  now <- x1, hint <- x2, task <- x3, parked <- x4, at <- x5, want <- x6, last <- x7, timer <- x8,
  nset <- x9, setting <- x10, reader <- x11, svc <- x12, pending <- x13, unheard <- x14, count <- x15
Timerfd == INSTANCE PollDeadline WITH Sleepers <- {}, Pollers <- {q1}, Futexers <- {}, Readers <- {r1}, Cpus <- {p1, p2},
  Edge <- {}, Interval <- 0, Ops <- {"settime"}, MaxTime <- 1, MaxSet <- 1,
  now <- x1, hint <- x2, task <- x3, parked <- x4, at <- x5, want <- x6, last <- x7, timer <- x8,
  nset <- x9, setting <- x10, reader <- x11, svc <- x12, pending <- x13, unheard <- x14, count <- x15
(* The timer set again, or disarmed, under one CPU's service. *)
Rearm == INSTANCE PollDeadline WITH Sleepers <- {}, Pollers <- {q1}, Futexers <- {}, Readers <- {}, Cpus <- {c1},
  Edge <- {}, Interval <- 0, Ops <- {"settime"}, MaxTime <- 1, MaxSet <- 2,
  now <- x1, hint <- x2, task <- x3, parked <- x4, at <- x5, want <- x6, last <- x7, timer <- x8,
  nset <- x9, setting <- x10, reader <- x11, svc <- x12, pending <- x13, unheard <- x14, count <- x15

No12 == x12 = 0 /\ x13 = 0 /\ x14 = 0 /\ x15 = 0
No17 == x17 = 0 /\ x18 = 0 /\ x19 = 0 /\ x20 = 0
Init ==
  \/ scenario = "file" /\ File!Init /\ No17
  \/ scenario = "misses" /\ Misses!Init
  \/ scenario \in Fsyncs /\ Durable(2, 1, 1)!Init
  \/ scenario = "remounts" /\ Remounts!Init
  \/ scenario = "boot" /\ Boot!Init
  \/ scenario = "edges" /\ Edges!Init /\ No12 /\ x16 = 0 /\ No17
  \/ scenario = "masks" /\ Masks!Init /\ No12 /\ x16 = 0 /\ No17
  \/ scenario = "rewatch" /\ Rewatch!Init /\ No12 /\ x16 = 0 /\ No17
  \/ scenario = "hints" /\ Hints!Init /\ x16 = 0 /\ No17
  \/ scenario = "later" /\ Later!Init /\ x16 = 0 /\ No17
  \/ scenario = "timerfd" /\ Timerfd!Init /\ x16 = 0 /\ No17
  \/ scenario = "rearm" /\ Rearm!Init /\ x16 = 0 /\ No17
Next ==
  /\ UNCHANGED scenario
  /\ \/ scenario = "file" /\ File!Next /\ UNCHANGED From17
     \/ scenario = "misses" /\ Misses!Next
     \/ scenario = "faults" /\ Durable(2, 0, 1)!Next
     \/ scenario = "cuts" /\ Durable(2, 1, 0)!Next
     \/ scenario = "both" /\ Durable(1, 1, 1)!Next
     \/ scenario = "remounts" /\ Remounts!Next
     \/ scenario = "boot" /\ Boot!Next
     \/ scenario = "edges" /\ Edges!Next /\ UNCHANGED <<From12, x16, From17>>
     \/ scenario = "masks" /\ Masks!Next /\ UNCHANGED <<From12, x16, From17>>
     \/ scenario = "rewatch" /\ Rewatch!Next /\ UNCHANGED <<From12, x16, From17>>
     \/ scenario = "hints" /\ Hints!Next /\ UNCHANGED <<x16, From17>>
     \/ scenario = "later" /\ Later!Next /\ UNCHANGED <<x16, From17>>
     \/ scenario = "timerfd" /\ Timerfd!Next /\ UNCHANGED <<x16, From17>>
     \/ scenario = "rearm" /\ Rearm!Next /\ UNCHANGED <<x16, From17>>
Spec == Init /\ [][Next]_vars

(* The instances with a known counterexample, each alone. *)
FileSpec == scenario = "file" /\ File!Init /\ No17 /\ [][File!Next /\ UNCHANGED <<scenario, From17>>]_vars
RefusesSpec == scenario = "refuses" /\ Refuses!Init /\ [][Refuses!Next /\ UNCHANGED scenario]_vars
GapSpec == scenario = "gap" /\ Gap!Init /\ [][Gap!Next /\ UNCHANGED scenario]_vars

(* The two frames, tasks, pipe users, waiters or CPUs of a scenario are alike. *)
Alike == Permutations({p1, p2})

(* A frame of the page cache lives while somebody holds it, and a read of the    *)
(* file returns the last change (PageCache!FrameRefsExact, LastChangeVisible).    *)
PagesSound == scenario = "file" => File!FrameRefsExact /\ File!LastChangeVisible

(* F2fs!ReadsSeeLatest: a request reads what the last one wrote. *)
ReadsSeeLatest ==
  CASE scenario = "misses" -> Misses!ReadsSeeLatest
    [] scenario \in Fsyncs -> Durable(2, 1, 1)!ReadsSeeLatest
    [] scenario = "remounts" -> Remounts!ReadsSeeLatest
    [] scenario = "boot" -> Boot!ReadsSeeLatest
    [] scenario = "gap" -> Gap!ReadsSeeLatest
    [] OTHER -> TRUE

(* A power cut loses nothing an fsync answered for, because a checkpoint is      *)
(* committed after its blocks (F2fs!FsyncSurvives, CommitCoversData), though a   *)
(* write of an unlocked checkpoint may fail.  Where one made under the lock does,*)
(* FsyncKept says what happens.                                              *)
FsyncSurvives ==
  /\ scenario = "misses" => Misses!CommitCoversData
  /\ scenario \in Fsyncs => Durable(2, 1, 1)!FsyncSurvives /\ Durable(2, 1, 1)!CommitCoversData
  /\ scenario = "remounts" => Remounts!FsyncSurvives /\ Remounts!CommitCoversData
  /\ scenario = "boot" => Boot!FsyncSurvives /\ Boot!CommitCoversData

(* checkpoint_unlocked answers Err when a device write failed, so an fsync that   *)
(* it answers Ok is kept (F2fs!FsyncSurvives) whichever write the device refuses. *)
FsyncKept == scenario = "refuses" => Refuses!FsyncSurvives

(* PageCache!StoreReachesFile: a store through a mapping is in the file, or   *)
(* the page that holds it is dirty.                                          *)
StoreReachesFile == scenario = "file" => File!StoreReachesFile

(* No edge of a pipe and no expiry of a timerfd leaves its waiter asleep with     *)
(* no wake owed to it, and the mask a waiter sleeps with reaches every armed      *)
(* interest (Epoll!NoLostEdge, MaskCovers, PollDeadline!ExpiryOwed).            *)
NoEventLost ==
  CASE scenario = "edges" -> Edges!NoLostEdge
    [] scenario = "masks" -> Masks!MaskCovers
    [] scenario = "rewatch" -> Rewatch!MaskCovers
    [] scenario = "timerfd" -> Timerfd!ExpiryOwed
    [] scenario = "rearm" -> Rearm!ExpiryOwed
    [] OTHER -> TRUE

(* What the deadline service trusts hides no waiter: the hint is not past a       *)
(* registered deadline, and the parked set misses no task a scan must find      *)
(* (PollDeadline!HintNeverLate, ParkedCovers).                                 *)
DeadlineFindable ==
  CASE scenario = "rearm" -> Rearm!HintNeverLate /\ Rearm!ParkedCovers
    [] scenario = "timerfd" -> Timerfd!HintNeverLate /\ Timerfd!ParkedCovers
    [] scenario = "later" -> Later!HintNeverLate /\ Later!ParkedCovers
    [] scenario = "hints" -> Hints!HintNeverLate /\ Hints!ParkedCovers
    [] OTHER -> TRUE
=============================================================================
