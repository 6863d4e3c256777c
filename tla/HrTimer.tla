------------------------------ MODULE HrTimer ------------------------------
(***************************************************************************)
(* Timers (sched/src/hrtimer.rs) over the system work queue.  Every CPU's    *)
(* interrupt runs service: under ACTIVE it collects the due timers, and       *)
(* outside it calls them (Irq) or queues their work (Worker), whose function  *)
(* is worker_trampoline.  A driver starts, cancels and drops its timers.      *)
(*                                                                         *)
(* ACTIVE held by somebody else makes service come back later: it then takes *)
(* no step here.  The array's order is left open.                           *)
(***************************************************************************)
EXTENDS WorkQueue, FiniteSetsExt

CONSTANTS Cpus, Drivers,   \* Callers is their union; Items are the timers
          IrqMode,         \* the timers with TimerMode::Irq
          Rearms,          \* timers whose callback starts the timer again
          MAX_ACTIVE, DUE_MAX,
          Delays, Periods, MaxNow

VARIABLES now, expires, period, armed, t_running, NEXT,
          due,             \* per CPU, the timers service has collected
          freed            \* timers whose drop has returned

hrVars == <<now, expires, period, armed, t_running, NEXT, due, freed>>

Never == 2 * MaxNow + 2
recompute(a, e) == Min({Never} \cup {e[t] : t \in a})

HrInit ==
  /\ WqInit
  /\ now = 0 /\ expires = [t \in Items |-> Never] /\ period = [t \in Items |-> 0]
  /\ armed = {} /\ t_running = [t \in Items |-> FALSE] /\ NEXT = Never
  /\ due = [c \in Cpus |-> {}] /\ freed = {}

TimePasses ==
  /\ now < MaxNow
  /\ now' = now + 1
  /\ UNCHANGED <<wqVars, expires, period, armed, t_running, NEXT, due, freed>>

-----------------------------------------------------------------------------
(* start_at under ACTIVE; a full table leaves the timer idle. *)
Arm(t, e) ==
  /\ expires' = [expires EXCEPT ![t] = e]
  /\ IF t \notin armed /\ Cardinality(armed) = MAX_ACTIVE THEN UNCHANGED <<armed, NEXT>>
     ELSE armed' = armed \cup {t} /\ NEXT' = recompute(armed', expires')

Disarm(t) ==
  /\ armed' = armed \ {t}
  /\ NEXT' = IF t \in armed THEN recompute(armed', expires) ELSE NEXT

(* start_at: the period goes first, outside the lock. *)
Start(d, t, p) ==
  /\ at[d] = "idle"
  /\ period' = [period EXCEPT ![t] = p]
  /\ With(d, "arm", t)
  /\ UNCHANGED <<list, pending, queued, finished, stop, running, doing, asleep, unfinished,
                 now, expires, armed, t_running, NEXT, due, freed>>
StartArm(d, delay) ==
  /\ at[d] = "arm"
  /\ Arm(arg[d], now + delay)
  /\ Return(d)
  /\ UNCHANGED <<list, pending, queued, finished, stop, running, doing, asleep, unfinished,
                 now, period, t_running, due, freed>>

Cancel(d, t) ==
  /\ at[d] = "idle" /\ t \in armed
  /\ Disarm(t)
  /\ UNCHANGED <<wqVars, now, expires, period, t_running, due, freed>>

(* Drop is cancel_sync: disarm, take the work out of the queue, and wait      *)
(* until no callback is running.                                           *)
Drop(d, t) ==
  /\ at[d] = "idle"
  /\ Disarm(t)
  /\ With(d, IF t \in IrqMode THEN "sync" ELSE "unqueue", t)
  /\ UNCHANGED <<list, pending, queued, finished, stop, running, doing, asleep, unfinished,
                 now, expires, period, t_running, due, freed>>

Unqueue(d) ==
  /\ at[d] = "unqueue"
  /\ \/ cancel(d, arg[d])
     \/ /\ Holding(arg[d]) = {} /\ Goto(d, "sync")
        /\ UNCHANGED <<list, pending, queued, finished, stop, running, arg, doing, asleep, unfinished>>
  /\ UNCHANGED hrVars

(* running goes false: after a callback, and in cancel_sync for a callback     *)
(* taken out of the queue.                                                  *)
StopRunning(x, next) ==
  /\ at[x] = "unrun"
  /\ t_running' = [t_running EXCEPT ![arg[x]] = FALSE]
  /\ With(x, next, IF x \in Drivers THEN arg[x] ELSE 0)
  /\ UNCHANGED <<list, pending, queued, finished, stop, running, doing, asleep, unfinished,
                 now, expires, period, armed, NEXT, due, freed>>

Sync(d) ==
  /\ at[d] = "sync" /\ ~t_running[arg[d]]
  /\ freed' = freed \cup {arg[d]}
  /\ Return(d)
  /\ UNCHANGED <<list, pending, queued, finished, stop, running, doing, asleep, unfinished,
                 now, expires, period, armed, t_running, NEXT, due>>

(* HrTimer::new, where the memory of a dropped timer serves again. *)
New(d, t) ==
  /\ at[d] = "idle" /\ t \in freed
  /\ freed' = freed \ {t}
  /\ expires' = [expires EXCEPT ![t] = Never]
  /\ period' = [period EXCEPT ![t] = 0]
  /\ UNCHANGED <<wqVars, now, armed, t_running, NEXT, due>>

-----------------------------------------------------------------------------
(* service.  A due timer whose callback still runs misses this period; a       *)
(* one-shot one stays armed until the callback has ended.                    *)
Due == {t \in armed : expires[t] <= now}
MayFire(t) == ~t_running[t]

NextExpiry(t, fires) ==
  CASE period[t] = 0 -> expires[t]
    [] fires /\ expires[t] + period[t] > now -> expires[t] + period[t]
    [] OTHER -> now + period[t]

(* fire: the timers collected.  Once the array is full the rest of ACTIVE is    *)
(* not looked at; skip: the running timers that were.                         *)
service(c) ==
  LET Ripe == {t \in Due : MayFire(t)}
  IN \E fire \in SUBSET Ripe, skip \in SUBSET (Due \ Ripe) :
       /\ at[c] = "idle" /\ due[c] = {}
       /\ NEXT <= now
       /\ Cardinality(fire) <= DUE_MAX
       /\ Cardinality(fire) < DUE_MAX => fire \cup skip = Due
       /\ due' = [due EXCEPT ![c] = fire]
       /\ t_running' = [t \in Items |-> t_running[t] \/ t \in fire]
       /\ expires' = [t \in Items |->
            IF t \in fire \cup skip THEN NextExpiry(t, t \in fire) ELSE expires[t]]
       /\ armed' = armed \ {t \in fire : period[t] = 0}
       /\ NEXT' = recompute(armed', expires')
       /\ UNCHANGED <<wqVars, now, period, freed>>

(* The loop over due.  queue_raw is that of the system queue; were it to refuse *)
(* the work, service would give up on this firing (NeverRefused: it does not).  *)
Deliver(c, t) ==
  /\ at[c] = "idle" /\ t \in due[c]
  /\ due' = [due EXCEPT ![c] = @ \ {t}]
  /\ \/ t \notin IrqMode /\ QueueBegin(c, t)
     \/ /\ t \in IrqMode /\ With(c, "run", t)
        /\ UNCHANGED <<list, pending, queued, finished, stop, running, doing, asleep, unfinished>>
  /\ UNCHANGED <<now, expires, period, armed, t_running, NEXT, freed>>

(* A callback: t.func(t.ctx) on a CPU, or in worker_trampoline.  It may start    *)
(* its own timer again.                                                      *)
Callback(x) ==
  LET t == IF x = Worker THEN doing.item ELSE arg[x]
  IN /\ at[x] = "run"
     /\ \/ t \notin Rearms /\ UNCHANGED <<expires, armed, NEXT>>
        \/ t \in Rearms /\ \E delay \in Delays : Arm(t, now + delay)
     /\ With(x, "unrun", t)
     /\ UNCHANGED <<list, pending, queued, finished, stop, running, doing, asleep, unfinished,
                    now, period, t_running, due, freed>>

-----------------------------------------------------------------------------
CpuStep(c) ==
  \/ service(c)
  \/ \E t \in Items : Deliver(c, t)
  \/ Callback(c) \/ StopRunning(c, "idle")
  \/ CallStep(c) /\ UNCHANGED hrVars
WorkerRuns ==
  \/ Callback(Worker) \/ StopRunning(Worker, "ran")
  \/ WorkerStep /\ UNCHANGED hrVars
DriverStep(d) ==
  \/ \E delay \in Delays : StartArm(d, delay)
  \/ Unqueue(d) \/ StopRunning(d, "sync") \/ Sync(d)
  \/ wake_all(d, "unrun") /\ UNCHANGED hrVars
DriverCall(d) ==
  \/ \E t \in Items \ freed : (\E p \in Periods : Start(d, t, p)) \/ Cancel(d, t) \/ Drop(d, t)
  \/ \E t \in freed : New(d, t)

HrNext ==
  \/ TimePasses \/ WorkerRuns
  \/ \E c \in Cpus : CpuStep(c)
  \/ \E d \in Drivers : DriverStep(d) \/ DriverCall(d)

HrSpec == HrInit /\ [][HrNext]_<<wqVars, hrVars>>

-----------------------------------------------------------------------------
(* Where a firing of t is: collected, being queued, queued, running, or being   *)
(* withdrawn by cancel_sync.                                                 *)
Places(t) ==
  {<<"due", c>> : c \in {c \in Cpus : t \in due[c]}}
  \cup {<<"with", x>> : x \in {x \in Contexts : at[x] \in {"swap", "insert", "run", "unrun"} /\ arg[x] = t}}
  \cup {<<"list", i>> : i \in Holding(t)}
  \cup (IF at[Worker] \in {"clear", "run"} /\ doing.item = t THEN {<<"popped", Worker>>} ELSE {})
  \cup {<<"withdrawn", d>> : d \in {d \in Drivers : at[d] = "wakeall" /\ arg[d] = t}}

(* running is set exactly while one firing is on its way, so a callback never   *)
(* overlaps itself, on however many CPUs service runs, and no firing is lost:    *)
(* the queue never refuses one.                                              *)
OneFiring ==
  /\ \A t \in Items : Cardinality(Places(t)) = (IF t_running[t] THEN 1 ELSE 0)
  /\ \A c \in Cpus : at[c] # "refused"

(* cancel_sync: "Disarm and wait until no callback of this timer is running".    *)
(* A dropped timer is freed memory: it is armed nowhere and no firing of it is   *)
(* left.                                                                    *)
DropIsFinal == \A t \in freed : t \notin armed /\ Places(t) = {}
=============================================================================
