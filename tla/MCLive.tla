------------------------------- MODULE MCLive -------------------------------
(***************************************************************************)
(* Instances of KMutex, KSemaphore, KCompletion, WorkQueue, HrTimer and Ipc    *)
(* with their fairness, and of Buddy, for TLC.  A behaviour of LiveSpec        *)
(* belongs to one scenario: a sleeping primitive; a work queue with two        *)
(* callers; a timer on two CPUs; clients that call a server; the buddy         *)
(* allocator from boot on.                                                   *)
(***************************************************************************)
EXTENDS Buddy, TLC

CONSTANTS t1, t2, t3, t4, w1, all, NoOwner, p0, p1, p2, NoPort

(* Besides the allocator's, the variables of the component that the scenario   *)
(* is about; 0 where it has fewer.                                           *)
VARIABLES scenario, x1, x2, x3, x4, x5, x6, x7, x8, x9, x10,
          x11, x12, x13, x14, x15, x16, x17, x18, x19
buddyVars == <<head, node, op, owned, free_pages, phys_end, cursor, answer>>
From12 == <<x12, x13, x14, x15, x16, x17, x18, x19>>
From11 == <<x11, From12>>
From9 == <<x9, x10, From11>>
liveVars == <<scenario, buddyVars, x1, x2, x3, x4, x5, x6, x7, x8, From9>>

(* Eight usable pages in two regions, one of them the page of the bitmap. *)
Powers == [o \in Orders |-> 2^o]
TwoRegions == <<<<0, 5>>, <<5, 9>>>>

Three == {t1, t2, t3}

(* t1 and t2 share a KLOCKS slot. *)
SharedSlot == [t \in Three |-> IF t = t3 THEN 1 ELSE 0]

Mutex == INSTANCE KMutex WITH Tasks <- Three, Modes <- {"sleep", "spin"}, Timeouts <- {"never"},
  Classes <- {"fifo"}, MaxBypass <- 1, COUNT_MAX <- 2, Slot <- SharedSlot,
  pc <- x1, queue <- x2, node <- x3, blocked <- x4, wakes <- x5, owed <- x6, owner <- x7, klocks <- x8
Classed == INSTANCE KMutex WITH Tasks <- Three, Modes <- {"qspin"}, Timeouts <- {"never"},
  Classes <- {"fifo", "prio"}, MaxBypass <- 1, COUNT_MAX <- 2, Slot <- SharedSlot,
  pc <- x1, queue <- x2, node <- x3, blocked <- x4, wakes <- x5, owed <- x6, owner <- x7, klocks <- x8
Sem == INSTANCE KSemaphore WITH Tasks <- Three, Irq <- t3, Initial <- 1, MaxCount <- 1,
  Timeouts <- {"never", "ahead"},
  pc <- x1, queue <- x2, node <- x3, blocked <- x4, wakes <- x5, owed <- x6, count <- x7
Comp == INSTANCE KCompletion WITH Tasks <- Three, Waiters <- {t1, t2}, Wakers <- {t3},
  Modes <- {"sleep", "spin"}, Timeouts <- {"never"}, BATCH <- 1, DONE_MAX <- 1, COMPLETE_ALL <- all,
  pc <- x1, queue <- x2, node <- x3, blocked <- x4, wakes <- x5, owed <- x6, done <- x7

(* Both clients call once and all may die; or one calls twice, with signals as   *)
(* well: the reply to an interrupted call may be late for the next.            *)
OneEach == t1 :> 1 @@ t2 :> 1
Twice == t1 :> 2 @@ t2 :> 0
Deaths == {"serverdies", "clientdies"}
Call(MaxCalls, Ops) == INSTANCE Ipc WITH Server <- t3, Clients <- {t1, t2}, Ids <- {p0, p1, p2},
  Srv <- p0, Capacity <- 1,
  ports <- x1, answer <- x2, used <- x3, reply <- x4, blockedOn <- x5, pc <- x6, port <- x7,
  wakes <- x8, msg <- x9, calls <- x10

No12 ==
  x12 = 0 /\ x13 = 0 /\ x14 = 0 /\ x15 = 0 /\ x16 = 0 /\ x17 = 0 /\ x18 = 0 /\ x19 = 0
No11 == x11 = 0 /\ No12
No9 == x9 = 0 /\ x10 = 0 /\ No11

(* t3 is the worker.  The timer is served by t1 and t2 and driven by t4; it may   *)
(* start itself again, so a drop may overlook it, but always returns.            *)
Work == INSTANCE WorkQueue WITH Items <- {w1}, Callers <- {t1, t2}, Worker <- t3,
  Ops <- {"queue", "cancel", "flush"}, Requeues <- {w1}, MaxQueued <- 2,
  list <- x1, pending <- x2, queued <- x3, finished <- x4, stop <- x5, running <- x6,
  at <- x7, arg <- x8, doing <- x9, asleep <- x10, unfinished <- x11
Timer == INSTANCE HrTimer WITH Items <- {w1}, Callers <- {t1, t2, t4}, Worker <- t3,
  Cpus <- {t1, t2}, Drivers <- {t4}, Ops <- {}, Requeues <- {}, MaxQueued <- 2,
  IrqMode <- {}, Rearms <- {w1}, MAX_ACTIVE <- 1, DUE_MAX <- 1, Delays <- {1}, Periods <- {0, 1},
  MaxNow <- 2,
  list <- x1, pending <- x2, queued <- x3, finished <- x4, stop <- x5, running <- x6,
  at <- x7, arg <- x8, doing <- x9, asleep <- x10, unfinished <- x11,
  now <- x12, expires <- x13, period <- x14, armed <- x15, t_running <- x16, NEXT <- x17,
  due <- x18, freed <- x19

LiveInit ==
  /\ Init
  /\ \/ /\ scenario \in {"mutex", "classed"} /\ Mutex!ParkInit
        /\ x7 = NoOwner /\ x8 = [s \in {0, 1} |-> 0] /\ No9
     \/ scenario = "semaphore" /\ Mutex!ParkInit /\ x7 = 1 /\ x8 = 0 /\ No9
     \/ scenario = "completion" /\ Mutex!ParkInit /\ x7 = 0 /\ x8 = 0 /\ No9
     \/ scenario \in {"calls", "again"} /\ Call(OneEach, Deaths)!Init /\ No11
     \/ scenario = "work" /\ Work!WqInit /\ No12
     \/ scenario = "timer" /\ Timer!HrInit
     \/ /\ scenario = "pages" /\ x1 = 0 /\ x2 = 0 /\ x3 = 0 /\ x4 = 0 /\ x5 = 0 /\ x6 = 0
        /\ x7 = 0 /\ x8 = 0 /\ No9
LiveNext ==
  /\ UNCHANGED scenario
  /\ \/ scenario = "mutex" /\ Mutex!Next /\ UNCHANGED <<buddyVars, From9>>
     \/ scenario = "classed" /\ Classed!Next /\ UNCHANGED <<buddyVars, From9>>
     \/ scenario = "semaphore" /\ Sem!Next /\ UNCHANGED <<buddyVars, x8, From9>>
     \/ scenario = "completion" /\ Comp!Next /\ UNCHANGED <<buddyVars, x8, From9>>
     \/ scenario = "again" /\ Call(Twice, Deaths \cup {"signal"})!Next /\ UNCHANGED <<buddyVars, From11>>
     \/ scenario = "calls" /\ Call(OneEach, Deaths)!Next /\ UNCHANGED <<buddyVars, From11>>
     \/ scenario = "work" /\ Work!WqNext /\ UNCHANGED <<buddyVars, From12>>
     \/ scenario = "timer" /\ Timer!HrNext /\ UNCHANGED buddyVars
     \/ scenario = "pages" /\ Next /\ UNCHANGED <<x1, x2, x3, x4, x5, x6, x7, x8, From9>>

(* A runnable task runs, a holder unlocks, the interrupt keeps upping, and      *)
(* ticks pay owed wakes and wake overdue waiters; nobody has to complete.  Ticks *)
(* run service on every CPU, callbacks and work functions return, and a driver   *)
(* finishes the call it is in.                                               *)
Step(t) ==
  \/ scenario \in {"mutex", "classed"} /\ Mutex!Progress(t) /\ UNCHANGED <<scenario, buddyVars, From9>>
  \/ scenario = "semaphore" /\ (Sem!Progress(t) \/ (t = t3 /\ Sem!up(t)))
     /\ UNCHANGED <<scenario, buddyVars, x8, From9>>
  \/ scenario = "completion" /\ (IF t = t3 THEN Comp!WakerStep(t) ELSE Comp!WaiterStep(t))
     /\ UNCHANGED <<scenario, buddyVars, x8, From9>>
  \/ scenario = "again" /\ Call(Twice, Deaths \cup {"signal"})!Step(t) /\ UNCHANGED <<scenario, buddyVars, From11>>
  \/ scenario = "calls" /\ Call(OneEach, Deaths)!Step(t) /\ UNCHANGED <<scenario, buddyVars, From11>>
  \/ /\ scenario = "work"
     /\ IF t = t3 THEN Work!WorkerStep \/ Work!Function \/ Work!CallStep(t) ELSE Work!CallerStep(t)
     /\ UNCHANGED <<scenario, buddyVars, From12>>
  \/ /\ scenario = "timer"
     /\ IF t = t3 THEN Timer!WorkerRuns ELSE Timer!CpuStep(t)
     /\ UNCHANGED <<scenario, buddyVars>>
Tick(t) ==
  \/ /\ scenario \in {"mutex", "classed", "semaphore", "completion"}
     /\ Mutex!PayKwake(t) \/ Mutex!DeadlineWake(t)
     /\ UNCHANGED <<scenario, buddyVars, x7, x8, From9>>
  \/ scenario = "timer" /\ t = t3 /\ Timer!DriverStep(t4) /\ UNCHANGED <<scenario, buddyVars>>
LiveSpec ==
  /\ LiveInit /\ [][LiveNext]_liveVars
  /\ \A t \in Three : WF_liveVars(Step(t)) /\ WF_liveVars(Tick(t))

(* Buddy!PagesExact and AnswersTrue are checked as they stand. *)

(* Ipc!NoSleepOnMessage and ReplyMatches: no receiver sleeps on a message, and   *)
(* a call gets the reply to its own request.                                   *)
RepliesArrive ==
  scenario \in {"calls", "again"} =>
    Call(OneEach, Deaths)!NoSleepOnMessage /\ Call(OneEach, Deaths)!ReplyMatches

Waits(t) ==
  CASE scenario \in {"mutex", "classed", "semaphore"} -> x1[t] \in Mutex!Waiting /\ x3[t].deadline = "never"
    [] scenario = "completion" -> t # t3 /\ x1[t] # "idle"
    [] scenario \in {"calls", "again"} -> t # t3 /\ x6[t] = "send"
    [] scenario = "work" -> IF t = t3 THEN x1 # <<>> ELSE x7[t] = "flush"
    [] scenario = "timer" -> IF t = t3 THEN x7[t4] # "idle" ELSE Timer!Due # {}
    [] OTHER -> FALSE
Served(t) ==
  CASE scenario \in {"mutex", "classed", "semaphore"} -> x1[t] \in {"held", "got"}
    [] scenario = "completion" -> x7 # all \/ x1[t] = "idle"
    [] scenario \in {"calls", "again"} -> x6[t] \in {"idle", "dead"} \/ x6[t3] = "dead"
    [] scenario = "work" -> IF t = t3 THEN x1 = <<>> ELSE x7[t] # "flush"
    [] scenario = "timer" -> IF t = t3 THEN x7[t4] = "idle" ELSE Timer!Due = {}
    [] OTHER -> TRUE

(* Every task that queues without a deadline gets the mutex, or a unit of the   *)
(* semaphore that an interrupt keeps upping; a latched complete_all releases    *)
(* every waiter, although wake_all empties the list in batches; queued work is  *)
(* run and flush returns; a timer that is due fires or waits for its next        *)
(* period, and cancel_sync returns; and every IPC call returns unless its server *)
(* or its client dies (Ipc!CallReturns).                                       *)
EveryWaitEnds == \A t \in Three : Waits(t) ~> Served(t)
=============================================================================
