----------------------------- MODULE FutexCalls -----------------------------
(***************************************************************************)
(* User programs over the futex table: FUTEX_WAIT, FUTEX_WAKE after a store *)
(* to the word, and FUTEX_CMP_REQUEUE (sys_futex in kernel/src/syscall.rs).  *)
(***************************************************************************)
EXTENDS Futex

CONSTANTS
  Timeouts,    \* deadlines of the waits
  Privates,    \* values of FUTEX_PRIVATE_FLAG
  Counts,      \* how many waiters a FUTEX_WAKE asks for
  Requeues,    \* pairs <<uaddr, uaddr2>> that are requeued
  MayDie       \* whether waiters are group-killed

Wait(t, u, e, p, d) ==
  /\ pc[t] = "idle"
  /\ Enter(t, u, e, p, d)
  /\ UNCHANGED <<mem, chain, slot, blocked, sig, res>>

(* Back in user mode: pending signals are delivered on the way.              *)
ToUser(t) ==
  /\ pc[t] = "ret"
  /\ Goto(t, "idle")
  /\ sig' = sig \ {t}
  /\ res' = [res EXCEPT ![t] = "none"]
  /\ UNCHANGED <<mem, chain, slot, call, blocked>>

(* A program changes the word and then wakes.                               *)
Store(t, u, v, p) ==
  /\ pc[t] = "idle" /\ mem[u] # v
  /\ mem' = [mem EXCEPT ![u] = v]
  /\ call' = [call EXCEPT ![t] = [NoCall EXCEPT !.uaddr = u, !.private = p]]
  /\ Goto(t, "stored")
  /\ UNCHANGED <<chain, slot, blocked, sig, res>>
Wake(t, n) ==
  /\ pc[t] = "stored"
  /\ futex_wake(call[t].uaddr, Group[t], call[t].private, n)
  /\ call' = [call EXCEPT ![t] = NoCall]
  /\ Goto(t, "ret")
  /\ UNCHANGED <<mem, sig, res>>

(* FUTEX_CMP_REQUEUE compares the word before it takes FUTEX_TABLE.          *)
CmpRequeue(t, u, u2, p, v) ==
  /\ pc[t] = "idle" /\ mem[u] = v
  /\ call' = [call EXCEPT ![t] = [NoCall EXCEPT !.uaddr = u, !.expected = u2, !.private = p]]
  /\ Goto(t, "requeue")
  /\ UNCHANGED <<mem, chain, slot, blocked, sig, res>>
Requeue(t, n, m) ==
  /\ pc[t] = "requeue"
  /\ futex_requeue(call[t].uaddr, call[t].expected, Group[t], call[t].private, n, m)
  /\ call' = [call EXCEPT ![t] = NoCall]
  /\ Goto(t, "ret")
  /\ UNCHANGED <<mem, sig, res>>

Init == FutexInit /\ mem \in [Addrs -> Values]

Finish(t) ==
  \/ ToUser(t)
  \/ \E n \in Counts : Wake(t, n) \/ Requeue(t, n, n) \/ Requeue(t, 0, n)
Call(t) ==
  \/ \E u \in Addrs, e \in Values, p \in Privates, d \in Timeouts : Wait(t, u, e, p, d)
  \/ \E u \in Addrs, v \in Values, p \in Privates : Store(t, u, v, p)
  \/ \E r \in Requeues, v \in Values, p \in Privates : CmpRequeue(t, r[1], r[2], p, v)
Release(t) == DeadlineWake(t) \/ remove_waiter(t)
Disturb(t) == PostSignal(t) \/ StrayWake(t) \/ DeadlinePasses(t) \/ (MayDie /\ Killed(t))

Next == \E t \in Tasks : Call(t) \/ WaitStep(t) \/ Finish(t) \/ Release(t) \/ Disturb(t)

Spec == Init /\ [][Next]_futexVars

-----------------------------------------------------------------------------
Asleep(t) == pc[t] = "parked" /\ blocked[t]

(* No lost wake across register, read and commit: a waiter asleep on a word  *)
(* that no longer holds what it expected has a waker that has stored and has *)
(* still to call FUTEX_WAKE (every wake asks for all waiters).               *)
NoStaleSleep ==
  \A t \in Tasks :
    Asleep(t) /\ slot[t].uaddr = call[t].uaddr /\ mem[call[t].uaddr] # call[t].expected =>
      \E w \in Tasks : pc[w] = "stored" /\ call[w].uaddr = call[t].uaddr

(* A waiter never sleeps on top of a deliverable signal, wherever in the     *)
(* call the signal is posted.                                               *)
NoSleepOnSignal == \A t \in Tasks : Asleep(t) => t \notin sig

============================================================================
