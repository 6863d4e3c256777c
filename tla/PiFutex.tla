------------------------------ MODULE PiFutex ------------------------------
(***************************************************************************)
(* FUTEX_LOCK_PI, TRYLOCK_PI and UNLOCK_PI (kernel/src/syscall.rs) over the  *)
(* futex table: the lock word holds the owner and FUTEX_WAITERS, user space *)
(* takes a free word and releases an uncontended one by itself, and lockers *)
(* park expecting exactly owner | FUTEX_WAITERS.  Nothing is handed over:   *)
(* a woken locker competes with user-space compare-exchanges.               *)
(***************************************************************************)
EXTENDS Futex

CONSTANTS
  Lock,        \* the address of the lock word
  Timeouts,    \* deadlines of the lock calls
  Tries,       \* whether TRYLOCK_PI is used: subset of BOOLEAN
  MaxExits,    \* how many threads may end
  NoOwner

Word(o, w) == [owner |-> o, waiters |-> w]
Free == Word(NoOwner, FALSE)

VARIABLE lk    \* locals of a lock call: the word loaded, the word to write,
               \* the deadline and whether it only tries
vars == <<futexVars, lk>>

NoLk == [old |-> Free, new |-> Free, deadline |-> "never", try |-> FALSE]
word == mem[Lock]
SetWord(w) == mem' = [mem EXCEPT ![Lock] = w]

(* The user-space fast path: cas(0 -> tid), else the system call.            *)
UserLock(t, try, d) ==
  /\ pc[t] = "idle"
  /\ IF word = Free
     THEN SetWord(Word(t, FALSE)) /\ Goto(t, "held") /\ UNCHANGED lk
     ELSE /\ lk' = [lk EXCEPT ![t] = [NoLk EXCEPT !.deadline = d, !.try = try]]
          /\ Goto(t, "load") /\ UNCHANGED mem
  /\ UNCHANGED <<chain, slot, call, blocked, sig, res>>

(* The holder calls LOCK_PI again.                                          *)
Relock(t) ==
  /\ pc[t] = "held"
  /\ Goto(t, "relock")
  /\ UNCHANGED <<mem, chain, slot, call, blocked, sig, res, lk>>

(* A thread ends in user mode, with or without the lock; the word keeps its  *)
(* TID, for there is no robust list.                                        *)
MayExit == MaxExits > Cardinality({u \in Tasks : Gone(u)})
Exit(t) ==
  /\ pc[t] \in {"idle", "held"}
  /\ MayExit
  /\ Goto(t, "gone")
  /\ sig' = sig \ {t}
  /\ UNCHANGED <<mem, chain, slot, call, blocked, res, lk>>

(* futex_lock_pi, one step per access to the word or hold of the table.      *)
Give(t, p) ==
  /\ Goto(t, p)
  /\ lk' = [lk EXCEPT ![t] = NoLk]
Retry(t) ==
  /\ Goto(t, "load")
  /\ lk' = [lk EXCEPT ![t].old = Free, ![t].new = Free]
Load(t) ==
  /\ pc[t] \in {"load", "relock"}
  /\ \/ /\ word.owner = NoOwner
        /\ Goto(t, "check")
        /\ lk' = [lk EXCEPT ![t].old = word]
     \/ word.owner = t /\ Give(t, "held")                     \* EDEADLK
     \/ word.owner \notin {NoOwner, t} /\ lk[t].try /\ Give(t, "idle")
     \/ /\ word.owner \notin {NoOwner, t} /\ ~lk[t].try
        /\ Goto(t, "exists")
        /\ lk' = [lk EXCEPT ![t].old = word]
  /\ UNCHANGED <<mem, chain, slot, call, blocked, sig, res>>

(* futex_task_exists, in a hold of RUN_QUEUE of its own: ESRCH for an owner  *)
(* that is gone.  Only a word loaded without FUTEX_WAITERS is compared again. *)
OwnerExists(t) ==
  /\ pc[t] = "exists"
  /\ IF Gone(lk[t].old.owner)
     THEN Give(t, "idle")
     ELSE Goto(t, IF lk[t].old.waiters THEN "sleep" ELSE "mark") /\ UNCHANGED lk
  /\ UNCHANGED <<mem, chain, slot, call, blocked, sig, res>>

(* A free word is taken with FUTEX_WAITERS while anyone else is queued.      *)
TakeWord(t) == Word(t, futex_has_waiters(Lock, Group[t], TRUE, t))
CheckWaiters(t) ==
  /\ pc[t] = "check"
  /\ lk' = [lk EXCEPT ![t].new = TakeWord(t)]
  /\ Goto(t, "take")
  /\ UNCHANGED <<mem, chain, slot, call, blocked, sig, res>>
Unmoved(t) == word = lk[t].old
Take(t) ==
  /\ pc[t] = "take"
  /\ IF Unmoved(t)
     THEN SetWord(lk[t].new) /\ Give(t, "held")
     ELSE Retry(t) /\ UNCHANGED mem
  /\ UNCHANGED <<chain, slot, call, blocked, sig, res>>

(* Held: FUTEX_WAITERS goes in before any timeout verdict, then park.        *)
MarkUnlessLate(t) == IF lk[t].deadline = "passed" THEN lk[t].old ELSE Word(lk[t].old.owner, TRUE)
Marked(t) == Word(lk[t].old.owner, TRUE)
Mark(t) ==
  /\ pc[t] = "mark"
  /\ IF Unmoved(t)
     THEN SetWord(Marked(t)) /\ Goto(t, "sleep") /\ UNCHANGED lk
     ELSE Retry(t) /\ UNCHANGED mem
  /\ UNCHANGED <<chain, slot, call, blocked, sig, res>>
Sleep(t) ==
  /\ pc[t] = "sleep"
  /\ \/ lk[t].deadline = "passed" /\ Give(t, "idle") /\ UNCHANGED call
     \/ /\ lk[t].deadline # "passed"
        /\ Enter(t, Lock, Word(lk[t].old.owner, TRUE), TRUE, lk[t].deadline)
        /\ lk' = [lk EXCEPT ![t].old = Free]
  /\ UNCHANGED <<mem, chain, slot, blocked, sig, res>>
Waited(t) ==
  /\ pc[t] = "ret"
  /\ IF res[t] \in {"woken", "again"}
     THEN Goto(t, "load") /\ UNCHANGED <<lk, sig>>
     ELSE Give(t, "idle") /\ sig' = sig \ {t}
  /\ res' = [res EXCEPT ![t] = "none"]
  /\ UNCHANGED <<mem, chain, slot, call, blocked>>

(* Unlock: cas(tid -> 0) in user space, else futex_unlock_pi, which releases *)
(* the word (its retry loop is one exchange) and wakes one locker.           *)
Unlock(t) ==
  /\ pc[t] = "held"
  /\ SetWord(Free)
  /\ Goto(t, IF word = Word(t, FALSE) THEN "idle" ELSE "wake")
  /\ UNCHANGED <<chain, slot, call, blocked, sig, res, lk>>
Wake(t) ==
  /\ pc[t] = "wake"
  /\ futex_wake(Lock, Group[t], TRUE, 1)
  /\ Goto(t, "idle")
  /\ sig' = sig \ {t}
  /\ UNCHANGED <<mem, call, res, lk>>

(* The deadline of a lock call is absolute: it holds for each of its waits.  *)
LockDeadline(t) ==
  /\ lk[t].deadline = "ahead"
  /\ lk' = [lk EXCEPT ![t].deadline = "passed"]
  /\ call' = [call EXCEPT ![t].deadline = IF @ = "ahead" THEN "passed" ELSE @]
  /\ UNCHANGED <<pc, mem, chain, slot, blocked, sig, res>>
Timeout(t) == DeadlineWake(t) /\ UNCHANGED lk
Disturb(t) ==
  \/ pc[t] # "idle" /\ PostSignal(t) /\ UNCHANGED lk
  \/ StrayWake(t) /\ UNCHANGED lk
  \/ LockDeadline(t)

Init ==
  /\ FutexInit
  /\ mem = [u \in Addrs |-> Free]
  /\ lk = [t \in Tasks |-> NoLk]

FutexStep(t) == WaitStep(t) /\ UNCHANGED lk
LockStep(t) == Load(t) \/ OwnerExists(t) \/ CheckWaiters(t) \/ Take(t) \/ Mark(t) \/ Sleep(t) \/ Waited(t) \/ FutexStep(t)

Next ==
  \E t \in Tasks :
    \/ \E try \in Tries, d \in Timeouts : UserLock(t, try, d)
    \/ Relock(t) \/ Exit(t)
    \/ LockStep(t) \/ Unlock(t) \/ Wake(t) \/ Timeout(t) \/ Disturb(t)

Spec == Init /\ [][Next]_vars

-----------------------------------------------------------------------------
(* Mutual exclusion: the word names exactly the task that holds the lock,    *)
(* through user-space compare-exchanges and the kernel's, or the task that    *)
(* ended with it.                                                           *)
WordNamesHolder ==
  \A t \in Tasks :
    /\ pc[t] \in {"held", "relock"} => word.owner = t
    /\ word.owner = t => pc[t] \in {"held", "relock", "gone"}

(* A locker asleep while FUTEX_WAITERS is missing from the word (the owner's *)
(* unlock would stay in user space) has somebody who will put it back or     *)
(* wake: an unlock that has still to wake, or a locker that is awake and has  *)
(* not yet loaded a word with the bit in it (past such a load it may give up  *)
(* without looking at the word again).  Stated while no thread has ended: the *)
(* ESRCH verdict comes before FUTEX_WAITERS goes in.                         *)
Awake(u) ==
  \/ pc[u] \in {"load", "check", "take", "wake"} /\ ~lk[u].try
  \/ pc[u] \in {"exists", "mark"} /\ ~lk[u].old.waiters
  \/ pc[u] = "ret" /\ res[u] \in {"woken", "again"}
  \/ pc[u] \in {"read", "commit", "parked"} /\ slot[u].woken
NoStrandedLocker ==
  (\E t \in Tasks : pc[t] = "parked" /\ blocked[t]) /\ ~word.waiters
    => \E u \in Tasks : Awake(u) \/ Gone(u)

============================================================================
