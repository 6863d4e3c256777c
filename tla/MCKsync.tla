------------------------------- MODULE MCKsync ------------------------------
(***************************************************************************)
(* Instances of the sleeping primitives of sched/src/ksync.rs, and of the      *)
(* work queue and the timers built on them, for TLC.  A behaviour belongs to   *)
(* one primitive, `prim`, and only that primitive's variables change; the      *)
(* state spaces add up instead of multiplying.  The mutex and kwake have their *)
(* own variables; the others share the rest.                                  *)
(***************************************************************************)
EXTENDS KMutex, KWake, TLC

CONSTANTS
  t1, t2, t3, t4, u1, u2,
  all,
  w1, w2                 \* work items; timers

VARIABLES prim, x1, x2, x3, x4, x5, x6, count, readers, writer, held, done, doing, now,
          period, armed, firing, earliest, due, freed

(* t1 and t2 share a KLOCKS slot. *)
SharedSlot == [t \in Tasks |-> IF t = t3 THEN 1 ELSE 0]

Mutex == INSTANCE KMutex WITH Classes <- {"fifo"}
Classed == INSTANCE KMutex WITH Modes <- {"qspin"}, Timeouts <- {"never"}
ASSUME MutexInstances == MutexAssumption /\ Mutex!MutexAssumption /\ Classed!MutexAssumption
Sem == INSTANCE KSemaphore WITH Irq <- t3, Initial <- 1, MaxCount <- 1, Timeouts <- {"never", "ahead"},
  pc <- x1, queue <- x2, node <- x3, blocked <- x4, wakes <- x5, owed <- x6
Rw == INSTANCE KRwLock WITH Modes <- Modes \ {"qspin"}, BATCH <- 1, klocks <- held,
  pc <- x1, queue <- x2, node <- x3, blocked <- x4, wakes <- x5, owed <- x6
Comp == INSTANCE KCompletion WITH Tasks <- {t1, t2, u1, u2},
  Waiters <- {t1, t2}, Wakers <- {u1, u2}, Modes <- Modes \cap {"sleep", "spin"},
  BATCH <- 1, DONE_MAX <- 1, COMPLETE_ALL <- all,
  pc <- x1, queue <- x2, node <- x3, blocked <- x4, wakes <- x5, owed <- x6

Work(Ops) == INSTANCE WorkQueue WITH Items <- {w1, w2}, Callers <- {t1, t2}, Worker <- t3,
  Requeues <- {w1}, MaxQueued <- 3,
  at <- x1, list <- x2, arg <- x3, asleep <- x4, unfinished <- x5, pending <- x6, queued <- count, finished <- done, stop <- writer, running <- readers
Timers(Items, MAX_ACTIVE, MaxNow) == INSTANCE HrTimer WITH Cpus <- {t1, t2}, Drivers <- {t4},
  Callers <- {t1, t2, t4}, Worker <- t3, Ops <- {}, Requeues <- {}, MaxQueued <- 4,
  IrqMode <- {w2}, Rearms <- {}, DUE_MAX <- 1, Delays <- {1}, Periods <- {0, 1},
  at <- x1, list <- x2, arg <- x3, asleep <- x4, unfinished <- x5, pending <- x6, queued <- count, finished <- done, stop <- writer, running <- readers, expires <- held, t_running <- firing, NEXT <- earliest

rwVars == <<readers, writer, held>>
parkedVars == <<x1, x2, x3, x4, x5, x6>>
timerVars == <<period, armed, firing, earliest, due, freed>>
otherVars == <<parkedVars, count, rwVars, done, doing, now, timerVars>>
ksyncVars == <<prim, vars, wakeVars, otherVars>>

NoPark == x1 = 0 /\ x2 = 0 /\ x3 = 0 /\ x4 = 0 /\ x5 = 0 /\ x6 = 0
NoTimers ==
  now = 0 /\ period = 0 /\ armed = {} /\ firing = 0 /\ earliest = 0 /\ due = 0 /\ freed = {}
KsyncInit ==
  /\ Init /\ WakeInit
  /\ \/ /\ \/ prim \in {"mutex", "classed", "kwake"} /\ NoPark
           \/ prim \in {"semaphore", "rwlock"} /\ Sem!ParkInit
           \/ prim = "completion" /\ Comp!ParkInit
        /\ count = 1 /\ done = 0 /\ doing = 0
        /\ readers = 0 /\ writer = FALSE /\ held = [t \in Tasks |-> 0]
        /\ NoTimers
     \/ prim \in {"work", "recall"} /\ Work({})!WqInit /\ held = 0 /\ NoTimers
     \/ prim = "timer" /\ Timers({w1}, 1, 3)!HrInit
     \/ prim \in {"timers", "table"} /\ Timers({w1, w2}, 2, 1)!HrInit

Others ==
  \/ prim = "semaphore" /\ Sem!Next /\ UNCHANGED <<rwVars, done, doing, now, timerVars>>
  \/ prim = "rwlock" /\ Rw!Next /\ UNCHANGED <<count, done, doing, now, timerVars>>
  \/ prim = "completion" /\ Comp!Next /\ UNCHANGED <<count, rwVars, doing, now, timerVars>>
  \/ prim = "work" /\ Work({"queue", "flush", "destroy"})!WqNext /\ UNCHANGED <<held, now, timerVars>>
  \/ prim = "recall" /\ Work({"queue", "cancel"})!WqNext /\ UNCHANGED <<held, now, timerVars>>
  \/ prim = "timer" /\ Timers({w1}, 1, 3)!HrNext
  \/ prim = "timers" /\ Timers({w1, w2}, 2, 1)!HrNext
  \/ prim = "table" /\ Timers({w1, w2}, 1, 1)!HrNext
KsyncNext ==
  /\ UNCHANGED prim
  /\ \/ prim = "mutex" /\ Mutex!Next /\ UNCHANGED <<wakeVars, otherVars>>
     \/ prim = "classed" /\ Classed!Next /\ UNCHANGED <<wakeVars, otherVars>>
     \/ prim = "kwake" /\ WakeNext /\ UNCHANGED <<vars, otherVars>>
     \/ Others /\ UNCHANGED <<vars, wakeVars>>
KsyncSpec == KsyncInit /\ [][KsyncNext]_ksyncVars

Symmetry == Permutations({t1, t2}) \cup Permutations({u1, u2})

-----------------------------------------------------------------------------
(* The other primitives forget nobody either.  A KRwLock counts its readers and   *)
(* its writer, and KLOCKS counts both and the queued, except in the window of a     *)
(* release (KRwLock!HoldersExact, HoldersCounted).  No task is                      *)
(* queued for an idle unit, or for a KRwLock in a mode that the head of its queue   *)
(* could share; no newcomer takes a KRwLock past a queued task; a granted waiter    *)
(* that has parked has a kwake on the way; none sleeps on a completion that has     *)
(* happened (KSemaphore!NoUnitIdle, KRwLock!NobodyForgotten, NoneOvertakes,        *)
(* KPark!LostWake, KCompletion!NoLostCompletion).                               *)
OthersExact ==
  /\ [](prim = "rwlock" => Rw!HoldersExact /\ Rw!HoldersCounted /\ Rw!NobodyForgotten)
  /\ [](prim = "semaphore" => Sem!NoUnitIdle)
  /\ [](prim \in {"semaphore", "rwlock"} => \A t \in Tasks : ~Rw!LostWake(t))
  /\ [](prim = "completion" => Comp!NoLostCompletion)
  /\ [][prim = "rwlock" => Rw!NoneOvertakes]_ksyncVars

(* Each work item is in one place, the counts that flush compares are those of    *)
(* the unfinished items, and a flush that nobody cancels under returns only when   *)
(* all that was queued before it has run (WorkQueue!PendingExact, CountsExact,     *)
(* FlushCovers).  A timer's callback never overlaps itself and no firing is lost,  *)
(* whichever CPUs serve it; a dropped timer is touched no more (HrTimer!OneFiring, *)
(* DropIsFinal).                                                              *)
WorkAccounted ==
  /\ prim \in {"work", "recall", "timers", "table"} => Work({})!PendingExact /\ Work({})!CountsExact
  /\ prim = "timer" => Timers({w1}, 1, 3)!PendingExact /\ Timers({w1}, 1, 3)!CountsExact
  /\ prim = "work" => Work({})!FlushCovers
  /\ prim = "timer" => Timers({w1}, 1, 3)!OneFiring /\ Timers({w1}, 1, 3)!DropIsFinal
  /\ prim \in {"timers", "table"} =>
       Timers({w1, w2}, 2, 1)!OneFiring /\ Timers({w1, w2}, 2, 1)!DropIsFinal

(* KSemaphore!ImplementsCounter: no unit is lost or duplicated when a grant      *)
(* races a timeout.  Behaviours of the other primitives map to an idle counter. *)
Counter == INSTANCE Semaphore WITH Initial <- 1,
  units <- IF prim = "semaphore" THEN Sem!Units ELSE 1,
  status <- IF prim = "semaphore" THEN Sem!Status ELSE [t \in Tasks |-> "out"]
ImplementsCounter == Counter!Spec

(* KRwLock!CountNeverLow, what the comment on KLOCKS says: the count of a task    *)
(* that holds a KRwLock, or waits for it, is never too low.                     *)
RwCountNeverLow == prim = "rwlock" => Rw!CountNeverLow
=============================================================================
