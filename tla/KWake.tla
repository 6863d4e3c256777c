------------------------------- MODULE KWake -------------------------------
(***************************************************************************)
(* kwake and its deferral (sched/src/lib.rs): a wake that cannot get         *)
(* RUN_QUEUE is recorded in a small lock-free table, or as an overflow, and  *)
(* the tick of any CPU pays it.  KPark abstracts all of this to `owed`.      *)
(***************************************************************************)
EXTENDS Naturals

CONSTANTS
  Pids,      \* tasks that park on KWAIT_CHANNEL
  Wakers,    \* contexts that call kwake, interrupt handlers included
  Cpus,      \* CPUs whose tick runs service_deferred_kwakes
  SLOTS,     \* KWAKE_DEFER_SLOTS
  NoPid

WakeConstants == SLOTS \in Nat \ {0} /\ NoPid \notin Pids \cup Cpus
ASSUME WakeAssumption == WakeConstants

VARIABLES
  sleepers,  \* tasks parked on KWAIT_CHANNEL
  slots,     \* KWAKE_DEFERRED
  pending,   \* KWAKE_PENDING
  overflow,  \* KWAKE_OVERFLOW
  rq,        \* the CPU whose tick holds RUN_QUEUE to pay, NoPid if none
  waker,     \* what each waker is doing, and for which pid
  tick,      \* where each CPU's tick is
  debt       \* history: parked tasks somebody called kwake for

wakeVars == <<sleepers, slots, pending, overflow, rq, waker, tick, debt>>

Slots == 1..SLOTS
IdleWaker == [at |-> "idle", pid |-> NoPid, slot |-> 1]
IdleTick == [at |-> "idle", slot |-> 0]

WakeInit ==
  /\ sleepers = {} /\ debt = {}
  /\ slots = [s \in Slots |-> NoPid]
  /\ pending = FALSE /\ overflow = FALSE /\ rq = NoPid
  /\ waker = [w \in Wakers |-> IdleWaker]
  /\ tick = [c \in Cpus |-> IdleTick]

(* wake_kwaiter: only a task parked on KWAIT_CHANNEL is made Ready.          *)
Ready(ps) == sleepers' = sleepers \ ps /\ debt' = debt \ ps

(* kwait_prepare takes RUN_QUEUE.                                           *)
kwait_prepare(p) ==
  /\ p \notin sleepers /\ rq = NoPid
  /\ sleepers' = sleepers \cup {p}
  /\ UNCHANGED <<slots, pending, overflow, rq, waker, tick, debt>>

(* kwake: RUN_QUEUE taken within the bound, or the wake is deferred.  Some   *)
(* other CPU may hold RUN_QUEUE at any time, so the bound may always run out.*)
kwake_pid(w, p) ==
  /\ waker[w].at = "idle"
  /\ \/ rq = NoPid /\ Ready({p}) /\ UNCHANGED waker
     \/ /\ waker' = [waker EXCEPT ![w] = [at |-> "defer", pid |-> p, slot |-> 1]]
        /\ debt' = debt \cup (sleepers \cap {p})
        /\ UNCHANGED sleepers
  /\ UNCHANGED <<slots, pending, overflow, rq, tick>>

(* kwake_defer: a compare-exchange on each slot in turn; when none succeeds   *)
(* the overflow flag; the pending flag last.                                *)
defer_scan(w) ==
  /\ waker[w].at = "defer"
  /\ LET s == waker[w].slot IN
       IF slots[s] = NoPid
       THEN /\ slots' = [slots EXCEPT ![s] = waker[w].pid]
            /\ waker' = [waker EXCEPT ![w].at = "publish"]
       ELSE /\ waker' = [waker EXCEPT ![w] = IF s = SLOTS THEN [@ EXCEPT !.at = "overflow"]
                                             ELSE [@ EXCEPT !.slot = s + 1]]
            /\ UNCHANGED slots
  /\ UNCHANGED <<sleepers, pending, overflow, rq, tick, debt>>
defer_overflow(w) ==
  /\ waker[w].at = "overflow"
  /\ overflow' = TRUE
  /\ waker' = [waker EXCEPT ![w].at = "publish"]
  /\ UNCHANGED <<sleepers, slots, pending, rq, tick, debt>>
defer_publish(w) ==
  /\ waker[w].at = "publish"
  /\ pending' = TRUE
  /\ waker' = [waker EXCEPT ![w] = IdleWaker]
  /\ UNCHANGED <<sleepers, slots, overflow, rq, tick, debt>>

(* service_deferred_kwakes: take the flag, then RUN_QUEUE, then pay.         *)
service_begin(c) ==
  /\ tick[c].at = "idle" /\ pending
  /\ pending' = FALSE
  /\ tick' = [tick EXCEPT ![c].at = "lock"]
  /\ UNCHANGED <<sleepers, slots, overflow, rq, waker, debt>>
service_lock(c) ==
  /\ tick[c].at = "lock" /\ rq = NoPid
  /\ rq' = c
  /\ tick' = [tick EXCEPT ![c].at = "overflow"]
  /\ UNCHANGED <<sleepers, slots, pending, overflow, waker, debt>>
PutBackNever == pending
PutBack == TRUE
service_contended(c) ==
  /\ tick[c].at = "lock"
  /\ pending' = PutBack
  /\ tick' = [tick EXCEPT ![c] = IdleTick]
  /\ UNCHANGED <<sleepers, slots, overflow, rq, waker, debt>>
(* wake_all_kwaiters pays an overflow.                                      *)
Everybody == sleepers
service_overflow(c) ==
  /\ tick[c].at = "overflow"
  /\ Ready(IF overflow THEN Everybody ELSE {})
  /\ overflow' = FALSE
  /\ tick' = [tick EXCEPT ![c] = [at |-> "drain", slot |-> 1]]
  /\ UNCHANGED <<slots, pending, rq, waker>>
service_drain(c) ==
  /\ tick[c].at = "drain"
  /\ Ready({slots[tick[c].slot]})
  /\ slots' = [slots EXCEPT ![tick[c].slot] = NoPid]
  /\ tick' = [tick EXCEPT ![c] = IF tick[c].slot = SLOTS THEN IdleTick
                                       ELSE [tick[c] EXCEPT !.slot = tick[c].slot + 1]]
  /\ rq' = IF tick[c].slot = SLOTS THEN NoPid ELSE rq
  /\ UNCHANGED <<pending, overflow, waker>>

WakerStep(w) == defer_scan(w) \/ defer_overflow(w) \/ defer_publish(w)
Service(c) == service_begin(c) \/ service_lock(c) \/ service_overflow(c) \/ service_drain(c)

WakeNext ==
  \/ \E p \in Pids : kwait_prepare(p)
  \/ \E w \in Wakers : WakerStep(w) \/ \E p \in Pids : kwake_pid(w, p)
  \/ \E c \in Cpus : Service(c) \/ service_contended(c)

WakeSpec == WakeInit /\ [][WakeNext]_wakeVars

-----------------------------------------------------------------------------
WakerState == [at : {"idle", "defer", "overflow", "publish"},
               pid : Pids \cup {NoPid}, slot : Slots]
TickState == [at : {"idle", "lock", "overflow", "drain"}, slot : 0..SLOTS]

(* Type invariant. *)
WakeTypeOK ==
  /\ sleepers \subseteq Pids /\ debt \subseteq sleepers
  /\ slots \in [Slots -> Pids \cup {NoPid}]
  /\ pending \in BOOLEAN /\ overflow \in BOOLEAN /\ rq \in Cpus \cup {NoPid}
  /\ waker \in [Wakers -> WakerState]
  /\ tick \in [Cpus -> TickState]

(* A slot some tick has still to look at, and a record some tick will see.   *)
Unswept(c, s) == tick[c].at \in {"lock", "overflow"} \/ (tick[c].at = "drain" /\ tick[c].slot <= s)
Announced == pending \/ \E w \in Wakers : waker[w].at = "publish"

(* No deferred wake is forgotten (kwake_defer against concurrent services):  *)
(* a parked task somebody called kwake for is in a record, and the record is *)
(* announced by the pending flag, about to be, or in front of a sweep.       *)
NoDebtForgotten ==
  \A p \in debt :
    \/ \E w \in Wakers : waker[w].at \in {"defer", "overflow"} /\ waker[w].pid = p
    \/ \E s \in Slots : slots[s] = p /\ (Announced \/ \E c \in Cpus : Unswept(c, s))
    \/ overflow /\ (Announced \/ \E c \in Cpus : tick[c].at \in {"lock", "overflow"})

============================================================================
