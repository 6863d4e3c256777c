# TLA+ models of LeandrOS

These modules model the concurrent core of the LeandrOS kernel: IPC ports and the calls over
them, the sleeping locks, work queues and timers, futexes, the dispatch loop, the end of a thread
group, `wait4`, the readiness and deadline wakes behind `epoll` and timed waits, the page
allocator, copy-on-write address spaces with their TLB shootdown, the page cache, and the block
cache and checkpoints of the F2FS server. Every definition is translated from the Rust sources;
`PROJECT.json` maps each one to its lines. TLC checks the modules on small instances. TLAPS proves
for every size the central properties of the ports, the mutex and the deferred wakes, dispatch, the
pid table, the end of a thread group, `wait4`, the page allocator and the address spaces.

## 1. The system

LeandrOS is a `no_std` Rust kernel with Linux system calls (about 190 000 lines with drivers and
programs). What the models are about:

| part | code | concurrency |
|---|---|---|
| ports and messages | `ipc/` | one spin lock `PORT_TABLE`; wakes are sent after it is dropped |
| scheduler, tasks, processes, signals, sleeping locks, work queues, timers, futexes | `sched/` | one lock `RUN_QUEUE`, `FUTEX_TABLE` outside it, one spin lock per sleeping primitive, lock-free flags for interrupt context |
| system calls, epoll, timed waits | `kernel/` | system calls run with interrupts masked and leave the CPU only where they yield or open an `irq_window` |
| memory | `mm/`, `arch/x86_64/src/paging.rs` | one spin lock for the page allocator, one for the page cache, a busy flag per address space, requests and acknowledgements between CPUs for flushes |
| file, terminal, network and file-system servers | `servers/` | linked into the kernel, called through ports with direct handlers; pipes, timerfd and the F2FS server's caches are modelled. The F2FS server drops its lock around device I/O |
| drivers, other architecture code, boot, user programs | `drivers/`, `arch/`, `boot/`, `userland/` | not modelled |

`PROJECT.json` lists every component with what is left out of it, and the hazards at the lines
where they bite.

Two habits of the code shape most of the models. A task that is going to sleep publishes
`Blocked`, looks once more at what it waits for, and only then switches away; a waker changes the
state first and then looks for `Blocked` tasks. A tick may not spin for `RUN_QUEUE`, so a wake it
cannot deliver is recorded in a flag or a small table and paid by a later tick. And what takes
long (a device read, a flush of another CPU, a callback) is done with the lock dropped, guarded by
a flag, a pin, a generation or a reference count that is looked at again afterwards. Nearly every
property below says that one of these protocols loses nothing.

## 2. Modules

A step of a model is what the code does under one hold of a lock, or between two holds. What it
reads without a lock, and every place where it lets go of one, is a step boundary.

**Ports.** `Ports` is the abstract specification: live ids with one owner, a bounded FIFO and
possibly a handler. `PortTable` is `ipc/src/port.rs`: buckets, bounded probing, tombstones, the id
counter, ring queues, batched release. It implements `Ports` under a mapping that forgets the
buckets and reads each ring from head to tail. `Ipc` runs `sys_call`, `sys_recv` and a server on
top of `Ports`: its actions are those of `Ports` conjoined with the caller's program counter.

**Sleeping primitives.** `KPark` has what they share: the waiter list, `park_until_granted`, the
wait channel. `KMutex`, `KSemaphore`, `KRwLock` and `KCompletion` extend it with their own words.
`Semaphore` is the abstract counter that `KSemaphore` implements. `KPark` abstracts a contended
`kwake` to a debt, `owed`; `KWake` is the code behind that debt (`KWAKE_DEFERRED`,
`KWAKE_OVERFLOW`, `KWAKE_PENDING` and the tick that pays).

**Work queues and timers.** `WorkQueue` is `workqueue.rs`: queueing, `cancel`, `flush`, `destroy` and
the worker loop. A `KWaitQueue` registers and publishes before it evaluates its condition
(`KCompletion`), so here evaluating the condition and falling asleep are one step. `HrTimer` extends
`WorkQueue` with `hrtimer.rs`: the table of armed timers, `service` on several CPUs, callbacks in the
interrupt or through the system queue, `cancel_sync` and drop.

**Futexes.** `Futex` is `FUTEX_TABLE` (register, read the word, commit; claim, requeue, free).
`FutexCalls` adds the programs of `FUTEX_WAIT`, `WAKE` and `CMP_REQUEUE`; `PiFutex` adds the PI lock
word with the compare-exchanges of user space and the answers EDEADLK (a holder locks again) and ESRCH
(the word names a thread that has ended).

**Scheduler.** `Dispatch` has the dispatch loop, the `maybe_ready` hint and the quiescence of a
multithreaded fork. `PidTable` has `PID_TGID`, store by store. `GroupExit` has exit, `exit_group`,
fatal signals, stop, the deferral of lock holders, and execve's pid exchange. `Wait` has fork
admission, exit, reparenting, the exit log and `wait4`.

**Readiness and time.** `Epoll` has one epoll instance over pipes, with tagged wakes and their
deferral. `PollDeadline` has timed waits, the deadline hint, the service run by ticks, and a
timerfd.

**Memory.** `Buddy` is the page allocator: free lists linked through the free pages themselves, the
bitmap of list heads, boot from the memory map, splits and merges turn by turn. `AddrSpace` has one
private page of a process and of its forked child: demand allocation, copy-on-write promotion,
`MADV_DONTNEED`, fork, the drop of an address space, and the shootdown under them (which CPUs are
asked, who answers while it spins, masks interrupts or switches page tables, what happens when an
answer is late). `PageCache` has one page of one file: fills with the lock dropped, writes, truncates
and unlinks that pass them, a shared mapping, write-back, and the ways a page leaves.

**F2FS.** `BlockCache` has what one request does to the server's block cache, as a fold over its block
accesses (slots, pins, LRU, undo log). `F2fs` extends it to the volume: requests that run without I/O and are
undone when they miss, fetches shared between tasks, the three phases of a checkpoint written with
the lock dropped, fsync's group commit, the locked checkpoint that a caller without memory or one that
may not sleep (`Atomic`) falls back to, remounts, power cuts and the choice of a checkpoint pack at the
next mount. `Failing` says what may fail: memory for a cache slot or an undo entry, a device write of an
unlocked checkpoint, one made under the lock.

An `MC...` module instantiates components for TLC. Where one run covers several components or
several instances of one, a variable (`prim` or `scenario`) chosen in the initial state says which
of them moves; the others stay at their initial states, so the state spaces add up. A component with
theorems is extended by its run's module and keeps its own variables, so that the run checks the
very definitions the theorems name: `KMutex` and `KWake` in `MCKsync`, `Buddy` in `MCLive`, `PortTable`
in `MCFutex`, `Dispatch` in `MCDispatch`, `GroupExit`, `Wait`, `PidTable` and `AddrSpace` in `MCProcess`. The other components of a run share
variables `x1`, `x2`, ... in the same spirit.

## 3. What the runs check

| run | instance | what it shows |
|---|---|---|
| `ksync` | each primitive with 3 or 4 tasks, every kind of wait, deadlines, shared `KLOCKS` slot; a work queue with 2 callers and 2 items, one of which queues itself again; timers on 2 CPUs with a driver, one timer over 3 ticks and two timers in a table of 2 and of 1 | words and `KLOCKS` describe the holders (a `KRwLock` being released excepted, see `rw_count`); nobody queues for what is free or sleeps on a grant; order promises; the semaphore implements a counter; no deferred `kwake` forgotten; each work item in one place and flush true to its word; no callback overlaps itself, no firing lost, no dropped timer touched |
| `futex` | 3 threads; one word with kills, two words in two buckets and two processes, one PI lock whose holder may lock again or end; the port table with 2 buckets, 2 owners, ids that collide, rings of depth 3 and batches of 1 | chains and slots agree; no stale sleep; a claim is delivered; the PI word names its holder and, while every thread lives, strands no locker. A live port is always the one `find` returns; `create` fails only on a full table; the table implements `Ports`, answers included |
| `process` | scenarios `kill` (3 threads, one born during the kill) and `exec` (execve against exit and exit_group) of `GroupExit`; `pair` (2 threads and 2 children), `team` (2 threads and a child; the parent dies), `orphans` (a single-threaded parent dies) and `crowd` (a full process table) of `Wait`; `pids` (3 colliding pids in 4 slots); `spaces` (one page on 2 CPUs with a fork and a discard) | no lock holder reaped; one teardown owner, alone when it ends; the fd table goes last; each death recorded and reported once; no exit slept through; ECHILD is true; orphans reach init (`ThreadsSafe` repeats what holds of these in the scenarios `exec`, `pair`, `team` and `crowd`); lock-free pid lookups answer what was true; no CPU keeps a translation to a frame that was taken away |
| `files` | one page of 3 units, a reader, a mapping and write-back; a volume of 3 blocks in 2 slots; checkpoints with a device error and a power cut; remounts; `boot`, one caller that may not sleep; 2 pipes under epoll with `epoll_ctl`; timed waits; a timerfd, also set twice and disarmed (`rearm`) | frame references and pins exact; the last change visible through cache and file; requests see the latest blocks; a finished fsync survives a power cut; a committed checkpoint covers its blocks; no edge or expiry leaves its waiter asleep; the deadline hint hides nobody |
| `dispatch` | 2 processes of 2 threads, 2 CPUs, 3 forkers, a killer; a group of 2 threads, the second cloned, with stops and continues; fairness in both | no task on two CPUs; the hint covers every runnable task; the copy of a fork runs alone; the quiesce slot never hides its owner; quiescence ends; a teardown ends, provided the group is not stopped for ever |
| `live` | mutex, semaphore, completion, work queue, timer and IPC calls (2 clients and a queue of one message with deaths, or one client that calls twice with signals as well) with fairness; the page allocator with 8 pages in 2 regions, one page holding the bitmap | every queued task is served; `complete_all` releases every waiter; queued work runs and flush returns; due timers fire and drops return; every call returns its own reply while both sides live. Every page in one place; `alloc` fails only when no aligned run is free |
| `rw_count` | violation | a task that releases a `KRwLock` is taken out of `KLOCKS` while the lock is still its own |
| `wait_leaver` | violation | after the forking thread exits, `wait4` answers ECHILD for a running child |
| `epoll_ctl_gap` | violation | an edge between `epoll_ctl`'s probe and its widening of the masks reaches nobody |
| `fetch_gap` | violation | a block read as the gap between two misses is installed after a newer version of it was written and evicted |
| `locked_fault` | violation | the device refuses a write of a checkpoint made under the lock, and the fsync answers success |
| `lost_store` | violation | a store through a mapping that comes after write-back's copy, and is unmapped before its reference test, is marked clean |

**Bounds.** Two of everything that competes, three where a third party matters (a waiter behind a
waiter, a thread born during a kill, a requeue's bystander). Tables are as small as lets them
collide, wrap and fill: two buckets, four pid slots, one message, two deferral slots, two cache
slots for three blocks, two frames. Clocks stop at 1, 2 or 3, so a deadline can be past, now or ahead of
another; sequence numbers at 2. Batches of 64, 32 and 16 are 1, except `Wait!BATCH`: `reparent_children` moves at most 64
children per hold of `RUN_QUEUE`, and `Reparent` is one hold, so it is guarded by that number (`BATCH`) and the theorems
about `Wait` speak of parents with up to 64 live children. A file page has three units, so a
write or the end of the file can fall in its middle. One power cut, one failed write, one ended thread (`MaxExits`), one fork and
one discard per behaviour: what a second one meets is a state the first one can leave. The page
cache run was repeated once with three changes instead of two (4.5 million states), and with two
readers and one change. Where a deadline can be `ahead`, a task may also never see it pass, so `never` adds no
safety behaviour. `CHECK_DEADLOCK FALSE` marks instances in which callers stop by themselves:
all calls made, the group dead, the clock at its end. Symmetry is used between interchangeable
tasks, pipes' users, frames and CPUs, and never in a run with liveness.

**Fairness.** `live`: each task's own steps, holders' unlocks, the semaphore's interrupt, ticks
(deferred wakes, deadlines, `service` on each CPU), callbacks and work functions are weakly
fair; entering a call, completing, dying and signals are not. `dispatch`:
each CPU takes its next step (weak); EEVDF does not starve a task that is pickable again and again, and
the kernel path of a forking or exiting thread advances when it runs again and again (strong). In the
dying group CPUs dispatch and switch back and wakes arrive (weak); a call that could advance again and
again does, and a thread is preempted or gives its lock back (strong, because a thread can be preempted
or stopped in between). SIGCONT
comes from outside and is not fair: `TeardownEnds` has as its premise that stops cease. Without the
premise it fails, since `do_signal_stop` parks the owner and a stream of stops can starve it. The
code justifies these by its periodic tick, by EEVDF, and by kernel paths that end: none of the
modelled calls loops while it holds a lock. EEVDF's own freedom from starvation is assumed here,
not checked.

## 4. What is proved

Each theorem holds for every value of its module's constants, under the named assumptions on them.
The middle column gives the property, `[]P` of the component's specification unless it says more;
the run in section 3 checks the same definition on its instance.

| theorem | what it says | argument |
|---|---|---|
| `PortTableProofs!FindIsExact`, `TableInvariant` | `EveryLivePortFound` while the id counter has not come round; any table size, probe limit, queue depth and batch | invariant: every bucket between an id's home and its place is occupied or a tombstone; live ids are unique and lie behind the counter. Exactness alone is not inductive: a create could fill a gap in front of a live port |
| `PortTableProofs!FullMeansFull` | `FailsOnlyWhenFull`, also after the counter has come round | the `MAX_PORTS` attempts of `alloc` pass through every home, so one of them starts at any bucket that is free |
| `PortTableProofs!TableImplementsPorts` | `ImplementsPorts`, same premise as `FindIsExact` | the mapping keeps the live buckets by id and reads each ring from its head. Enqueue and dequeue on a ring are `Append` and `Tail` of the sequence, index by index; then every action is an action of `Ports` with the same answer, or a stutter |
| `KsyncProofs!MutexExact` | `HoldersExact`: one holder or granted heir, and `KLOCKS` counts holders and waiters, no others | `IInv`: where each task may be with its node queued, granted, cancelled or woken; the queue has no task twice; `KLOCKS` is a cardinality per slot |
| `KsyncProofs!MutexForgetsNobody` | `NobodyForgotten` | the same `IInv`: `NoBarging` (a free mutex has an empty queue) and no `LostWake` are two of its conjuncts |
| `KsyncProofs!MutexKeepsOrder` | `OrderKept`, an action property | of two Fifo waiters the one in front was overtaken at least as often, so a Prio caller that stops behind one exhausted waiter is behind all |
| `KsyncProofs!DebtsRemembered` | `NoDebtForgotten`, any tasks, wakers, CPUs and slots | types and the property itself: a debt is with its waker, in a slot that is announced or not yet swept, or in the overflow flag under the same condition |
| `GroupExitProofs!LockSafety` | `LockHolderSurvives`, any threads and any mix of operations | locks are held only inside a call or in the teardown of exit, and there a Zombie mark is a killer's, which the switch-back defers |
| `GroupExitProofs!OneOwner` | `OneTeardownOwner` | whoever is in a kill loop is the owner that the live leader names, through execve's exchange of pids |
| `GroupExitProofs!OneDeath` | `OneDeathPerPid` | pids of live threads differ; a pid that is not its slot's own was taken over from a leader that is gone |
| `GroupEndProofs!Teardown` | `TeardownExclusive`, for `NoCloneDuringExec` | where a loop ends, its owner is alone or with the leader it will replace |
| `GroupEndProofs!SignalDeaths` | `SignalDeathRecorded`, same premise | the stamp of a fatal signal is on every live thread, so it outlives the one that took it |
| `GroupEndProofs!TableSafety`, `DeathReport` | `TableOutlivesUsers`, `DeathReportedOnce`, for `OnlyGroupEnds` | past the loop the owner is alone; a released table has users only in the teardown; the record and SIGCHLD are there before the last thread goes |
| `WaitProofs!Deaths` | `EachDeathOnce`: reported at most once, and the log never overflows | `Ledger`: an exit is in the slot, then in the log, unless a waiter has it or it was discarded. Slots and records together are at most `MaxProcesses` |
| `WaitProofs!NoLostWake` | `NoSleepOnExit` | `SleepOK`: a parked waiter whose children have stopped running has its wake pending, or a zombie child whose exit will send it |
| `WaitProofs!EchildTrue` | `EchildIsTrue`, for `ThreadsStay` | `FiledOK`: an unreported exit is filed with init or with the process as long as that runs |
| `WaitProofs!Orphans` | `OrphansReachInit`, for `SingleThreaded` | `LeftToInit`: from the moment the parent stops running, what it leaves is init's |
| `RunQueueProofs!DispatchExclusive` | `OneCpuPerTask` | `on_cpu` is exactly the CPU whose registers hold the task, claimed under the hold that chose it |
| `RunQueueProofs!CloneExclusive` | `CloneAlone` | the quiesce slot names the copier, so `Pickable` filters its siblings, and the wait loop saw each of them off its CPU |
| `RunQueueProofs!QuiesceOwned` | `OwnerCanRun` | which windows an owner can be in for each content of the two words |
| `RunQueueProofs!HintComplete` | `HintCovers` | each action that makes a task `Ready` touches its bit |
| `RunQueueProofs!PidLookups` | `PidLookupExact`, any table size, pids and readers | `PInv`: apart from the hole of a running backward shift, each live pid is in one slot with no gap before it, and no slot the shift has passed needs the hole. A reader's possible answers include the present truth at each of its steps |
| `BuddyProofs!EveryPageInOnePlace` | `PagesExact`, any memory map, reserved pages and number of orders | the free lists are well linked (each block's neighbours point back, a block without predecessor is its list's head), the running call holds one block of its order, and boot's cursor separates pages given out from pages to come. Without the links it is not inductive: `alloc` trusts `head`, and `unlink` the words it finds in the block |
| `BuddyProofs!AllocatorTellsTheTruth` | `AnswersTrue`: None only if no aligned run is free, no owned block refused, `free_pages` exact | `AInv`: every list member is reached from the head, blocks are aligned, and no two free buddies of one order coexist outside the running merge, so an aligned free run lies inside one block |
| `AddrSpaceProofs!TranslationsSafe` | `NoStaleTranslation`, any CPUs, frames, forks and discards | `SInv`: a cached translation is the current one or weaker (`Current`); or the CPU that broke the entry still waits for the flush and has not released the frame (`Awaited`); or the holder flushes before it returns to user mode (`Confined`). Beside it: references cover owners and copies under way, and a thread that forks runs alone |

**Assumptions** are on constants only. `SizesAssumption`: the probe limit fits the table, ids
outnumber buckets, rings hold two messages or more. `MutexAssumption`, `WakeAssumption`,
`WaitAssumption`, `GroupAssumption`, `DispatchAssumption`, `SpaceAssumption`: finite sets where
something is counted, distinct names, and numbers that are naturals. `PidAssumption`: fewer tasks
than slots, as in the code (`PID_TGID_SLOTS` is four times `MAX_TASKS`). For the allocator `SizeAssumption` (each order doubles the
last), `MapAssumption` (regions do not overlap) and `CarveAssumption` (the bitmap fits somewhere; the
code falls back to walking the lists when it does not). TLC evaluates each in the runs.

**Premises** that narrow a theorem are there because the property fails without them, and section 5
has the counterexample. `~MayWrap`: after the counter comes round two ports may share an id
(`UniqueIds`). `NoCloneDuringExec`: a thread cloned after execve's loop survives into the new image
(`ExecEndsSiblings`); clone and execve may each race everything else. `OnlyGroupEnds`: a leader that
leaves alone has released and reported before its threads end (`ExitedMeansGone`, `ParentToldOnce`).
`ThreadsStay`: run `wait_leaver`. `SingleThreaded`: a sibling may fork after `reparent_children`
(`OrphansReachInit`).

**How the proofs are built.** An invariant was first checked with TLC on instances somewhat larger
than the runs' (for example `PInv` with 5 slots and 4 pids, 9.4 million states; `SInv` with 3 frames,
2 forks and 2 discards, half a million). Each module then has lemmas on the operators and on the kinds
of step (a step that moves no page, one that only frees buckets), and a step for each action. The few facts
that need induction (a block size divides every larger one, the first member of a queue with a property, a
probe that stops at the first free slot) take a least counterexample with the library's `WFMin`. The
modules say `USE Zenon`: leaves with arithmetic or records name `SMT`. What was learned on the way:
`NoStaleTranslation` does not depend on `COW_LOCK`. It suffices that a promotion's copy is a fresh
frame; the lock matters to the reference counts (`NoFrameLost` in section 5).

**Only model-checked.**

- Liveness, which the prover cannot express: `EveryWaitEnds`, `TeardownEnds`, `QuiesceEnds`.
- What mixes several components in one formula over a run's shared variables, and so is a property of
  instances: `ThreadsSafe`, `OthersExact`, `WorkAccounted`, `ImplementsCounter`, `PagesSound`,
  `NoEventLost`. The parts of `ThreadsSafe` about `GroupExit` and `Wait` follow from the theorems above.
- `ChainsExact`, `NoStaleSleep`, `ClaimDelivered` and `PiLockSound`: the futex chains are filtered with
  `SelectSeq`, whose operator parameter the provers cannot instantiate.
- `ReadsSeeLatest` and `FsyncSurvives`: a request is a fold over its block accesses, an induction
  over data. `RepliesArrive` and `DeadlineFindable` have no proof yet.

## 5. Where code and text disagree

Six of these are runs. The others are properties of the modules that no run checks; with the
constants given TLC finds a counterexample within ten seconds (`ExitGroupEndsAll` takes three
minutes). Constants not named are as small as in the runs of the same module.

| property | constants | code | text |
|---|---|---|---|
| `EchildIsTrue` (`EchildAfterLeaver` of `MCProcess`) | run `wait_leaver` | `sched/src/lib.rs:2821`: a child's parent is found through the forking thread's pid, gone once that thread exits | `lib.rs:2777` "Children forked from *any* thread of the caller count" |
| `CtlEdgeReaches` | run `epoll_ctl_gap` | `kernel/src/syscall.rs:11030`: probe and `widen_poll_masks` are two steps | `syscall.rs:11023` "the fd's own later edge reaches them" |
| `ReadsSeeLatest` | run `fetch_gap` | `servers/f2fs/src/lib.rs:1695`: a fetch reads through a gap of blocks that are cached, and notes their generation | `f2fs/src/lib.rs:1827` "with the lock held and the block absent" |
| `FsyncKept` | run `locked_fault` | `f2fs/src/lib.rs:861`, 2798: the locked checkpoint drops the result of each block write and of the commit block, marks the blocks clean and numbers the checkpoint complete; `take_slot`'s write-back (775) drops its result as well | `f2fs/src/lib.rs:2979` "Err(()) if a device write failed (nothing was committed)" |
| `RwCountNeverLow` | run `rw_count` | `sched/src/ksync.rs:756`, 766: `klock_dec` comes before the spinlock that gives the lock up | `ksync.rs:176` "the count can only read too high for a pid [...], never too low" |
| `StoreReachesFile` | run `lost_store` | `mm/src/pagecache.rs:650`: two references are taken to mean that nobody stored | `pagecache.rs:39` "Dirty pages are never evicted" |
| `Epoll!OneshotFiresOnce` | two waiters, `Oneshot` = the watched pipe | `syscall.rs:11177`: the interest is copied, probed unlocked, disarmed later | `syscall.rs:10360` "cleared after the interest fires once" |
| `PollDeadline!EveryPollerHears` | two pollers, one CPU, `settime` | `servers/vfs/src/lib.rs:2644`: a probe folds and disarms a due one-shot and wakes nobody | `vfs/src/lib.rs:8807` "an epoll_wait(-1) waiter on a timerfd wakes on time" |
| `PollDeadline!EdgeSeqAdvances` | an `Edge` poller, a reader, two `settime` | `vfs/src/lib.rs:9055`: the count restarts at a read | `vfs/src/lib.rs:9052` "Cumulative expiration count doubles as the edge seq" |
| `PollDeadline!NoExpiryForgotten` | `Interval` 1, a reader | `vfs/src/lib.rs:6576`: the count is taken and zeroed in two holds | `vfs/src/lib.rs:8826` "never cleared, so a later poll/read still observes the expiry" |
| `PortTable!UniqueIds` | `MayWrap = TRUE` | `ipc/src/port.rs:204`: the id counter wraps without a test for live ids | `docs/kernel/ipc.md:3` |
| `GroupExit!OwnerNotParked` | 2 threads, `exit_group`, `stop` | `sched/src/signal.rs:605` stops the owner too | `sched/src/lib.rs:4670` "must not park the owner mid-teardown" |
| `GroupExit!NoStopUnderLock` | 2 threads, `stop`, `lock` | `signal.rs:611` stops a blocked lock holder | `docs/kernel/invariants.md:59` |
| `GroupExit!ExitedMeansGone` | 2 threads, `exit` | `lib.rs:386`: an absent leader counts as exited | `lib.rs:376` "no thread of the group is still running" |
| `GroupExit!ParentToldOnce` | 2 threads, `exit`, `exit_group` | `lib.rs:4634` sends SIGCHLD for a leader that had sent it | `lib.rs:4622` "without ever running its own `exit`" |
| `GroupExit!ExitGroupEndsAll` (under `FairSpec`) | 3 threads, `exit`, `exit_group` | `lib.rs:4664`: with the leader reaped there is nothing to claim | `lib.rs:4592` |
| `GroupExit!ExecKeepsPid` | 2 threads, `exec`, `exit_group` | `lib.rs:4738` | `lib.rs:4798` |
| `GroupExit!ExecEndsSiblings` | 3 threads, one unborn, `exec` | `lib.rs:4838`: a clone enqueued after the loop survives | `lib.rs:4774` |
| `GroupExit!NoExecAfterFatal` | 3 threads, `exec`, `fatal` | `lib.rs:4767` | `lib.rs:4812` |
| `Wait!OrphansReachInit` | a worker, `exitgroup` | `lib.rs:4619`: a sibling's fork after `reparent_children` | `docs/kernel/processes.md:107` |
| `WorkQueue!FlushCovers` | `Ops` with `cancel` | `sched/src/workqueue.rs:156`: cancelling an item queued after a flush began counts towards that flush, which returns while an earlier item still runs | `workqueue.rs:168` "Wait until every item queued before this call has run" |
| `WorkQueue!NothingStranded` | `Ops` with `destroy` | `workqueue.rs:110`: a caller past the stop test inserts after the worker's last look; the item was accepted and never runs | `workqueue.rs:186` "Run everything still queued, then stop the worker" |
| `HrTimer!DropIsFinal` | `Rearms` = a timer | `sched/src/hrtimer.rs:141`: a callback that runs during `cancel_sync` may arm the timer again after it was disarmed. In the tree `EXT_TIMER` re-arms itself and is not dropped once armed; what the NVIDIA nano timers' callback does is outside the tree | `hrtimer.rs:137` "Disarm and wait until no callback of this timer is running" |
| `AddrSpace!NoFrameLost` | a fork and a discard on 2 CPUs | `mm/src/vmm.rs:247`: a drop releases its frame without `COW_LOCK`, so it can come between a promotion's `get` and its `dec` (872), which never frees: the frame is lost | `mm/src/cow.rs:32` "Serializes every compound pageref transaction" |
| `PageCache!LengthKept` | as in `files` | `f2fs/src/lib.rs:2330` reads the size before it takes the lock | `f2fs/src/lib.rs:2332` "past EOF: nothing of it belongs to the file": a truncate in between is undone by the write |
| `F2fs!NoFetchStandoff` | scenario `misses` of `MCFiles` | `f2fs/src/lib.rs:1729`: each waits for the other's claim; the wait is given up after ten seconds | `f2fs/src/lib.rs:1730` "only a task that never came back can leak one" |

Runs `locked_fault` and `rw_count` shape what the passing runs claim. `F2fs!FsyncSurvives` and `ReadsSeeLatest` are
checked with the failures the code answers for (no memory; a refused write of an unlocked checkpoint),
not with `Failing = {"locked"}`: with it `FsyncSurvives` fails as in `locked_fault`, and `ReadsSeeLatest`
because a block written back by `take_slot` and refused is evicted and read again as it was.
`KRwLock!HoldersCounted` leaves out the tasks between `klock_dec` and the release, and only those.

Two more come out of the models and have no run of their own. In both the property of the run fails once the
exclusion named here is taken away.

- `F2fs!FsyncSurvives` with a caller that may not sleep beside one that may (`Atomic` with one of two
  tasks): while a checkpoint writes its blocks unlocked, the cache counts none as dirty, so
  `flush_checkpoint` (`f2fs/src/lib.rs:2769`) finds nothing to do and the caller is answered Ok (2990) before
  anything is committed. The scenario `boot` has the non-sleeping caller alone, as during start-up.
- `PiFutex!NoStrandedLocker` without `Gone(u)`: an unlock wakes one of two parked lockers, its thread takes the
  free word in user space and ends; the woken locker gets ESRCH (`syscall.rs:4588`) and returns before it puts
  FUTEX_WAITERS back, so the other locker sleeps beside a word without the bit. `syscall.rs:4590` says
  that FUTEX_WAITERS goes in before any time-out so that a locker that gives up does not strand "the
  lockers that are still parked".

Three more were seen while reading. `sys_recv` goes back to sleep after a signal (`syscall.rs:2340`),
while `docs/kernel/signals.md:47` says blocking calls return EINTR. `docs/kernel/scheduler.md:12`
gives `MAX_PROCESSES` as 512; it is 2048. A power cut while a checkpoint writes its blocks in place
(phase 2) can leave some of them new and some old under the previous pack, while
`f2fs/src/lib.rs:3645` says of a change not yet committed that "a hard kill falls back to the previous
checkpoint, whole"; this one was read, not checked, and the models claim of a power cut only what `FsyncSurvives` and `CommitCoversData` say.

## 6. Not modelled

Left out of the modelled parts: argument checks, copies from and to user memory, statistics, lock
diagnostics, credentials, the conversion of timeouts, hash functions (a poll tag is its object, a
futex bucket is given), memory orderings weaker than the lock order (every shared access is one
atomic step), job-control reports of `wait4`, nested epoll instances. Further:

- `Buddy`: the list walk that stands in for the bitmap when it could not be carved, and accounting
  per call site.
- `AddrSpace`: large pages, file mappings, `mremap`, the region list. A kernel access to user memory
  with interrupts masked through a translation whose flush timed out is outside `NoStaleTranslation`.
- `PageCache`: readahead, the REF, MAPPED and EXEC flags, orphans, access times and read errors.
- `F2fs`: the on-disk format, the choice of segments, lazytime, failed reads and flushes, `fsync=lazy`.
  `HardPinned`, half of the cache in the code, is a constant.
- `PiFutex`: robust lists, and FUTEX_OWNER_DIED, which the kernel preserves and never sets.
- `Wait`: the second and later holds of `reparent_children` (more than `BATCH` live children).
- `KRwLock` has no scenario in `live`: with fairness it is out of TLC's reach beside the others. That its
  queue is served rests on the safety properties in `OthersExact`.
- `HrTimer`: programming of the deadline interrupt. `service` that finds `ACTIVE` contended takes
  no step.

Not modelled at all, with the reason for each in `PROJECT.json`: EEVDF's virtual-time arithmetic
(64-bit values TLC cannot enumerate), signal masks and queues, the TCP/IP stack (a third-party
crate), terminals and key maps (conversions), slabs and containers (one lock each), boot, ELF and
firmware parsing (sequential, once), drivers and assembly, user programs and tests.

The map covers about 7 000 of the 190 000 lines (under 4%). Most of the rest are drivers, user programs,
tests, tables of system calls that check their arguments and forward, on-disk and wire formats, and
assembly. They have no protocol of their own: a model of them would restate them line by line.
