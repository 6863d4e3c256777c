---------------------------- MODULE PollDeadline ----------------------------
(***************************************************************************)
(* Timed waits: the deadline each task parks with, the lock-free hint         *)
(* NEXT_POLL_DEADLINE, the parked-set hint of the run queue, the service that *)
(* ticks and one-shot interrupts run (kernel/src/syscall.rs, sched/src), and  *)
(* one timerfd (servers/vfs) whose expiry that service delivers.  The clock   *)
(* is monotonic_ns in coarse units; a service may run at any instant, so the  *)
(* one-shot timers need no state of their own.                              *)
(***************************************************************************)
EXTENDS Naturals, FiniteSets, FiniteSetsExt

CONSTANTS
  Sleepers,  \* tasks in nanosleep
  Pollers,   \* tasks in poll/epoll_wait on the timerfd
  Futexers,  \* tasks in a timed futex wait
  Readers,   \* tasks that read the timerfd
  Cpus,      \* CPUs that run poll_deadline_service
  Edge,      \* pollers registered with EPOLLET
  Interval,  \* interval_ns of the timerfd, 0 for a one-shot
  Ops,       \* which of "settime", "signal" happen
  MaxTime,   \* bound on the clock
  MaxSet     \* bound on timerfd_settime calls

Tasks == Sleepers \cup Pollers \cup Futexers
INF == MaxTime + 1                       \* u64::MAX

VARIABLES
  now,      \* monotonic_ns
  hint,     \* NEXT_POLL_DEADLINE
  task,     \* state, blocked_on, blocked_futex, poll_deadline, pending signal
  parked,   \* RunQueue::parked
  at,       \* where each task is in its wait
  want,     \* the absolute deadline of its call
  last,     \* last_seq of an EPOLLET poller's interest
  timer,    \* the TIMERFD_POOL entry
  nset,     \* timerfd_settime calls so far
  setting,  \* the caller of timerfd_settime, past the pool lock
  reader,   \* each read(2) of the timerfd
  svc,      \* poll_deadline_service on each CPU
  pending,  \* POLL_WAKE_PENDING holds the timerfd's tag
  unheard,  \* history: pollers no expiry since their last delivery was reported to
  count     \* history: expirations that happened and that were read

vars == <<now, hint, task, parked, at, want, last, timer, nset, setting, reader,
          svc, pending, unheard, count>>

Running == [state |-> "Running", on |-> FALSE, futex |-> FALSE, deadline |-> INF, sig |-> FALSE]
IdleSvc == [at |-> "idle", now |-> 0, tfd |-> INF, tags |-> FALSE]

Init ==
  /\ now = 0 /\ hint = INF
  /\ task = [t \in Tasks |-> Running]
  /\ parked = {}
  /\ at = [t \in Tasks |-> "idle"]
  /\ want = [t \in Tasks |-> INF]
  /\ last = [t \in Pollers |-> 0]
  /\ timer = [armed |-> FALSE, deadline |-> INF, exp |-> 0]
  /\ nset = 0 /\ setting = INF
  /\ reader = [r \in Readers |-> 0]
  /\ svc = [c \in Cpus |-> IdleSvc]
  /\ pending = FALSE
  /\ unheard = {}
  /\ count = [happened |-> 0, read |-> 0]

Clock == <<now, hint>>
Timerfd == <<timer, nset, setting, reader, unheard, count>>
Waits == <<task, parked, at, want, last>>

Advance ==
  /\ now < MaxTime
  /\ now' = now + 1
  /\ UNCHANGED <<hint, Waits, Timerfd, svc, pending>>

-----------------------------------------------------------------------------
(* wake_scannable. *)
Scannable(t) ==
  task[t].state = "Blocked" /\ (task[t].on \/ (task[t].futex /\ task[t].deadline # INF))

(* Folding an expiry at instant n, as timerfd_poll_expirations and            *)
(* fold_expired_timerfds both do: a one-shot is disarmed, a periodic timer     *)
(* moves to its next instant after n.                                        *)
Expired(n) == timer.armed /\ n >= timer.deadline
Periods(n) == IF Interval = 0 THEN 1 ELSE (n - timer.deadline) \div Interval + 1
Folded(n) ==
  [timer EXCEPT !.exp = @ + Periods(n),
                !.armed = Interval # 0,
                !.deadline = IF Interval = 0 THEN @ ELSE @ + Periods(n) * Interval]
Fold(n) ==
  IF Expired(n)
  THEN /\ timer' = Folded(n)
       /\ unheard' = Pollers
       /\ count' = [count EXCEPT !.happened = @ + Periods(n)]
  ELSE UNCHANGED <<timer, unheard, count>>

-----------------------------------------------------------------------------
(* poll_wait, epoll_wait_until, sleep_until_ns and futex_wait_keyed, in what   *)
(* they have in common: probe, prepare, register, re-check, commit.          *)
GoesTo(t, pc) == at' = [at EXCEPT ![t] = pc]

Call(t, d) ==
  /\ at[t] = "idle" /\ (d = INF => t \in Pollers)
  /\ want' = [want EXCEPT ![t] = d]
  /\ GoesTo(t, "probe")
  /\ UNCHANGED <<Clock, task, parked, last, Timerfd, svc, pending>>

(* The expiration count "doubles as the edge seq".  The count the probe sees  *)
(* includes what the probe itself folds.                                     *)
Seen == IF Expired(now) THEN Folded(now).exp ELSE timer.exp
Fires(t) == t \in Pollers /\ Seen > 0 /\ (t \in Edge => Seen # last[t])
Back(t) ==
  /\ GoesTo(t, "idle")
  /\ want' = [want EXCEPT ![t] = INF]
  /\ task' = [task EXCEPT ![t].sig = FALSE]

Probes(t) == IF t \in Pollers THEN Fold(now) ELSE UNCHANGED <<timer, unheard, count>>
Probe(t) ==
  /\ at[t] = "probe"
  /\ IF Fires(t)
     THEN /\ timer' = IF Expired(now) THEN Folded(now) ELSE timer
          /\ count' = IF Expired(now) THEN [count EXCEPT !.happened = @ + Periods(now)] ELSE count
          /\ unheard' = (IF Expired(now) THEN Pollers ELSE unheard) \ {t}
          /\ last' = [last EXCEPT ![t] = Seen]
          /\ Back(t)
     ELSE /\ Probes(t)
          /\ IF (task[t].sig \/ now >= want[t]) /\ t \notin Futexers
             THEN Back(t) ELSE GoesTo(t, "prepare") /\ UNCHANGED <<want, task>>
          /\ UNCHANGED last
  /\ UNCHANGED <<Clock, parked, nset, setting, reader, svc, pending>>

(* block_on_port_until, and futex_wait_keyed's own park, which refuses a      *)
(* task with a signal; both leave the parked bit set in the same hold.       *)
Noted(t) == parked \cup {t}
Prepare(t) ==
  /\ at[t] = "prepare"
  /\ IF t \in Futexers /\ task[t].sig
     THEN Back(t) /\ UNCHANGED parked
     ELSE /\ task' = [task EXCEPT ![t].state = "Blocked", ![t].on = t \notin Futexers,
                                  ![t].futex = t \in Futexers, ![t].deadline = want[t]]
          /\ parked' = Noted(t)
          /\ GoesTo(t, IF want[t] = INF THEN "recheck" ELSE "register")
          /\ UNCHANGED want
  /\ UNCHANGED <<Clock, last, Timerfd, svc, pending>>

(* register_poll_deadline, outside the RUN_QUEUE hold. *)
Register(t) ==
  /\ at[t] = "register"
  /\ hint' = Min({hint, want[t]})
  /\ GoesTo(t, IF t \in Futexers THEN "parked" ELSE "recheck")
  /\ UNCHANGED <<now, task, parked, want, last, Timerfd, svc, pending>>

(* The read-only re-probe folds too, but reports nothing. *)
Recheck(t) ==
  /\ at[t] = "recheck"
  /\ Probes(t)
  /\ IF Fires(t) \/ task[t].sig \/ now >= want[t]
     THEN /\ task' = [task EXCEPT ![t] = [Running EXCEPT !.sig = task[t].sig]]
          /\ GoesTo(t, "probe")
     ELSE GoesTo(t, "parked") /\ UNCHANGED task
  /\ UNCHANGED <<Clock, parked, want, last, nset, setting, reader, svc, pending>>

(* Back from the scheduler; the futex path clears its own fields. *)
Resume(t) ==
  /\ at[t] = "parked" /\ task[t].state = "Ready"
  /\ IF t \in Futexers /\ (task[t].sig \/ now >= want[t])
     THEN /\ task' = [task EXCEPT ![t] = [Running EXCEPT !.on = task[t].on]]
          /\ GoesTo(t, "idle") /\ want' = [want EXCEPT ![t] = INF]
     ELSE /\ task' = [task EXCEPT ![t].state = "Running",
                        ![t].futex = IF t \in Futexers THEN FALSE ELSE @,
                        ![t].deadline = IF t \in Futexers THEN INF ELSE @]
          /\ GoesTo(t, "probe") /\ UNCHANGED want
  /\ UNCHANGED <<Clock, parked, last, Timerfd, svc, pending>>

(* post_signal_thread leaves blocked_on and poll_deadline as they are. *)
Signal(t) ==
  /\ "signal" \in Ops /\ ~task[t].sig /\ at[t] # "idle"
  /\ task' = [task EXCEPT ![t].sig = TRUE, ![t].state = IF @ = "Blocked" THEN "Ready" ELSE @]
  /\ UNCHANGED <<Clock, parked, at, want, last, Timerfd, svc, pending>>

-----------------------------------------------------------------------------
(* handle_timerfd_settime: the entry, then the hint and, if due, a wake.  INF  *)
(* stands for a value of 0, which disarms and publishes nothing.             *)
Settime(d) ==
  /\ "settime" \in Ops /\ setting = INF /\ nset < MaxSet
  /\ timer' = [armed |-> d # INF, deadline |-> IF d = INF THEN timer.deadline ELSE d, exp |-> 0]
  /\ nset' = nset + 1 /\ setting' = d
  /\ count' = [count EXCEPT !.read = count.happened]
  /\ unheard' = {}
  /\ UNCHANGED <<Clock, Waits, reader, svc, pending>>
WokenByTag ==
  [t \in Tasks |-> IF Scannable(t) /\ t \in Pollers
                   THEN [task[t] EXCEPT !.state = "Ready", !.on = FALSE, !.deadline = INF]
                   ELSE task[t]]
SettimePublish ==
  /\ setting # INF
  /\ hint' = Min({hint, setting})
  /\ setting' = INF
  /\ IF now >= setting
     THEN task' = WokenByTag /\ parked' = {t \in parked : Scannable(t)}
     ELSE UNCHANGED <<task, parked>>
  /\ UNCHANGED <<now, at, want, last, timer, nset, reader, svc, pending, unheard, count>>

(* handle_read: timerfd_poll_expirations, then the reset in a second hold. *)
Read(r) ==
  /\ reader[r] = 0
  /\ Seen > 0
  /\ Fold(now)
  /\ reader' = [reader EXCEPT ![r] = Seen]
  /\ UNCHANGED <<Clock, Waits, nset, setting, svc, pending>>
ReadReset(r) ==
  /\ reader[r] > 0
  /\ timer' = [timer EXCEPT !.exp = 0]
  /\ count' = [count EXCEPT !.read = @ + reader[r]]
  /\ reader' = [reader EXCEPT ![r] = 0]
  /\ UNCHANGED <<Clock, Waits, nset, setting, svc, pending, unheard>>

-----------------------------------------------------------------------------
(* poll_deadline_service: the timerfd pool and the hint first; a contended     *)
(* pool reads as nothing armed.                                              *)
Tfd == IF timer.armed THEN timer.deadline ELSE INF
ServiceBegin(c) ==
  /\ svc[c].at = "idle"
  /\ \E tfd \in {Tfd, INF} :
       svc' = [svc EXCEPT ![c] = [at |-> "hint", now |-> now, tfd |-> tfd, tags |-> FALSE]]
  /\ UNCHANGED <<Clock, Waits, Timerfd, pending>>
ServiceHint(c) ==
  /\ svc[c].at = "hint"
  /\ svc' = [svc EXCEPT ![c] = IF Min({hint, svc[c].tfd}) <= svc[c].now
                               THEN [svc[c] EXCEPT !.at = IF svc[c].tfd <= svc[c].now THEN "fold" ELSE "wake"]
                               ELSE [IdleSvc EXCEPT !.at = "deferred"]]
  /\ UNCHANGED <<Clock, Waits, Timerfd, pending>>
(* fold_expired_timerfds, or a contended pool. *)
ServiceFold(c) ==
  /\ svc[c].at = "fold"
  /\ \/ /\ Fold(svc[c].now)
        /\ svc' = [svc EXCEPT ![c].at = "wake", ![c].tags = Expired(svc[c].now)]
     \/ /\ svc' = [svc EXCEPT ![c].at = "wake"]
        /\ UNCHANGED <<timer, unheard, count>>
  /\ UNCHANGED <<Clock, Waits, nset, setting, reader, pending>>

(* service_poll_deadlines: wake_due_poll_deadlines and the exact hint under    *)
(* one RUN_QUEUE hold.                                                       *)
DueNow(c, t) ==
  /\ t \in parked /\ Scannable(t)
  /\ task[t].deadline <= svc[c].now \/ (svc[c].tags /\ t \in Pollers)
ResetHint(c) == INF
ExactHint(c) == Min({INF} \cup {task[t].deadline : t \in {u \in parked : Scannable(u) /\ ~DueNow(c, u)}})
StillParked == {t \in parked : Scannable(t)}
ServiceWake(c) ==
  /\ svc[c].at = "wake"
  /\ task' = [t \in Tasks |->
                IF DueNow(c, t)
                THEN [task[t] EXCEPT !.state = "Ready", !.on = FALSE, !.futex = FALSE, !.deadline = INF]
                ELSE task[t]]
  /\ hint' = ExactHint(c)
  /\ parked' = StillParked
  /\ svc' = [svc EXCEPT ![c] = [IdleSvc EXCEPT !.at = "deferred"]]
  /\ UNCHANGED <<now, at, want, last, Timerfd, pending>>
(* A contended RUN_QUEUE leaves the hint, and hands the expiry on. *)
HandOn(c) == pending \/ svc[c].tags
ServiceContended(c) ==
  /\ svc[c].at = "wake"
  /\ pending' = HandOn(c)
  /\ svc' = [svc EXCEPT ![c] = [IdleSvc EXCEPT !.at = "deferred"]]
  /\ UNCHANGED <<Clock, Waits, Timerfd>>

(* service_deferred_poll_wake on the same tick. *)
ServiceDeferred(c) ==
  /\ svc[c].at = "deferred"
  /\ svc' = [svc EXCEPT ![c] = IF pending THEN [IdleSvc EXCEPT !.at = "pay"] ELSE IdleSvc]
  /\ pending' = FALSE
  /\ UNCHANGED <<Clock, Waits, Timerfd>>
PayDeferred(c) ==
  /\ svc[c].at = "pay"
  /\ task' = WokenByTag /\ parked' = StillParked
  /\ svc' = [svc EXCEPT ![c] = IdleSvc]
  /\ UNCHANGED <<Clock, at, want, last, Timerfd, pending>>
PayContended(c) ==
  /\ svc[c].at = "pay"
  /\ pending' = TRUE
  /\ svc' = [svc EXCEPT ![c] = IdleSvc]
  /\ UNCHANGED <<Clock, Waits, Timerfd>>

-----------------------------------------------------------------------------
TaskStep(t) == Probe(t) \/ Prepare(t) \/ Register(t) \/ Recheck(t) \/ Resume(t)
Service(c) == ServiceHint(c) \/ ServiceFold(c) \/ ServiceDeferred(c)

Next ==
  \/ Advance
  \/ \E t \in Tasks : TaskStep(t) \/ Signal(t) \/ \E d \in now..INF : Call(t, d)
  \/ (\E d \in 0..INF : Settime(d)) \/ SettimePublish
  \/ \E r \in Readers : Read(r) \/ ReadReset(r)
  \/ \E c \in Cpus : \/ ServiceBegin(c) \/ Service(c) \/ ServiceWake(c) \/ ServiceContended(c)
                     \/ PayDeferred(c) \/ PayContended(c)

Spec == Init /\ [][Next]_vars

-----------------------------------------------------------------------------
(* Type invariant. *)
TypeOK ==
  /\ now \in 0..MaxTime /\ hint \in 0..INF
  /\ task \in [Tasks -> [state : {"Running", "Ready", "Blocked"}, on : BOOLEAN, futex : BOOLEAN,
                         deadline : 0..INF, sig : BOOLEAN]]
  /\ parked \subseteq Tasks
  /\ at \in [Tasks -> {"idle", "probe", "prepare", "register", "recheck", "parked"}]
  /\ want \in [Tasks -> 0..INF]
  /\ timer.armed \in BOOLEAN /\ timer.exp \in 0..INF /\ timer.deadline \in 0..(INF + Interval)
  /\ svc \in [Cpus -> [at : {"idle", "hint", "fold", "wake", "deferred", "pay"}, now : 0..MaxTime,
                       tfd : 0..(INF + Interval), tags : BOOLEAN]]
  /\ pending \in BOOLEAN /\ unheard \subseteq Pollers

Asleep(t) == at[t] = "parked" /\ task[t].state = "Blocked"

(* The lock-free hint is never later than the deadline of a parked task that   *)
(* has registered it, so the service's fast path skips nobody: the exact       *)
(* recomputation under RUN_QUEUE cannot wipe a deadline published beside it    *)
(* (service_poll_deadlines, register_poll_deadline).                         *)
HintNeverLate ==
  \A t \in Tasks : task[t].state = "Blocked" /\ task[t].deadline # INF
                     => hint <= task[t].deadline \/ at[t] = "register"

(* RunQueue::parked is a superset of the tasks a wake scan must find, although *)
(* the scans clear its bits lazily and a signal leaves stale ones behind.     *)
ParkedCovers == \A t \in Tasks : Scannable(t) => t \in parked

(* With one poller an expiry never leaves it asleep with nobody owing it a     *)
(* wake: a service that folded the expiry wakes it or, contended, hands its    *)
(* tag to the deferred wake; a reader is about to consume the expiry          *)
(* (poll_deadline_service).                                                  *)
Owed ==
  \/ pending \/ setting # INF
  \/ \E c \in Cpus : svc[c].at = "pay" \/ svc[c].tags
  \/ \E r \in Readers : reader[r] > 0
ExpiryOwed == \A t \in Pollers : Asleep(t) /\ timer.exp > 0 => Owed

(* earliest_timerfd_deadline: "an epoll_wait(-1) waiter on a timerfd wakes on  *)
(* time": no poller sleeps on beside an expiry, whoever else polls the timer.  *)
EveryPollerHears == \A t \in Pollers : Asleep(t) /\ timer.exp > 0 /\ t \in unheard => Owed

(* handle_poll: "Cumulative expiration count doubles as the edge seq: each new *)
(* expiration advances it": an EPOLLET poller is not left asleep beside an     *)
(* expiry it has not been told of.                                           *)
EdgeSeqAdvances == \A t \in Edge : Asleep(t) /\ timer.exp > 0 /\ t \in unheard => Owed

(* fold_expired_timerfds: "the missed-expiration count is accumulated (never   *)
(* cleared, so a later poll/read still observes the expiry)": what was read    *)
(* and what is still to be read add up to what expired.                       *)
NoExpiryForgotten == count.happened <= count.read + timer.exp
=============================================================================
