------------------------------- MODULE Futex -------------------------------
(***************************************************************************)
(* The futex table of sched/src/futex.rs: a waiter registers, reads the     *)
(* user word with no lock held, and only then commits to Blocked; wakers    *)
(* claim waiters (`woken`) and each waiter frees its own slot.  One step is *)
(* one hold of FUTEX_TABLE (with RUN_QUEUE inside it where the code nests   *)
(* them).  A task waits on one futex at a time, so a slot is named by its   *)
(* task.  Callers (FutexCalls, PiFutex) extend this module.                 *)
(***************************************************************************)
EXTENDS Naturals, Sequences, SequencesExt

CONSTANTS
  Tasks, Addrs, Values,
  Group,       \* the thread group of each task
  Bucket,      \* the hash bucket of each address
  NoAddr

VARIABLES
  pc,          \* where each task is
  mem,         \* the user words
  chain,       \* per bucket, the registered tasks in arrival order
  slot,        \* each task's FutexWaiter
  call,        \* the arguments of the call in progress, and the word it read
  blocked,     \* TaskState::Blocked
  sig,         \* tasks with a deliverable signal pending
  res          \* what the last wait returned

futexVars == <<pc, mem, chain, slot, call, blocked, sig, res>>

Buckets == {Bucket[u] : u \in Addrs}
NoSlot == [uaddr |-> NoAddr, woken |-> FALSE]
NoCall == [uaddr |-> NoAddr, expected |-> NoAddr, seen |-> NoAddr,
           private |-> FALSE, deadline |-> "never"]
Goto(t, p) == pc' = [pc EXCEPT ![t] = p]

FutexInit ==
  /\ pc = [t \in Tasks |-> "idle"]
  /\ chain = [b \in Buckets |-> <<>>]
  /\ slot = [t \in Tasks |-> NoSlot]
  /\ call = [t \in Tasks |-> NoCall]
  /\ blocked = [t \in Tasks |-> FALSE]
  /\ sig = {}
  /\ res = [t \in Tasks |-> "none"]

Registered(t) == slot[t].uaddr # NoAddr

(* clear_slot / remove_waiter: the waiter's slot leaves its chain.           *)
FreedFromCall(t) == [chain EXCEPT ![Bucket[call[t].uaddr]] = SelectSeq(@, LAMBDA u : u # t)]
Freed(t) == IF Registered(t)
            THEN [chain EXCEPT ![Bucket[slot[t].uaddr]] = SelectSeq(@, LAMBDA u : u # t)]
            ELSE chain

(* futex_wait_intr is entered with the caller's arguments.                   *)
Enter(t, u, e, p, d) ==
  /\ call' = [call EXCEPT ![t] = [uaddr |-> u, expected |-> e, seen |-> NoAddr,
                                  private |-> p, deadline |-> d]]
  /\ Goto(t, "register")

(* The verdict r, and the caller's continuation.                             *)
Return(t, r) ==
  /\ chain' = Freed(t)
  /\ slot' = [slot EXCEPT ![t] = NoSlot]
  /\ call' = [call EXCEPT ![t] = NoCall]
  /\ res' = [res EXCEPT ![t] = r]
  /\ Goto(t, "ret")

(* Phase 1: publish the waiter before looking at user memory.                *)
Register(t) ==
  /\ pc[t] = "register"
  /\ slot' = [slot EXCEPT ![t] = [uaddr |-> call[t].uaddr, woken |-> FALSE]]
  /\ chain' = [chain EXCEPT ![Bucket[call[t].uaddr]] = Append(@, t)]
  /\ Goto(t, "read")
  /\ UNCHANGED <<mem, call, blocked, sig, res>>

(* Phase 2: the word, with no kernel lock held.                             *)
ReadWord(t) ==
  /\ pc[t] = "read"
  /\ call' = [call EXCEPT ![t].seen = mem[call[t].uaddr]]
  /\ Goto(t, "commit")
  /\ UNCHANGED <<mem, chain, slot, blocked, sig, res>>

(* Phase 3: a claim wins over a changed value, which wins over a signal; the *)
(* signal is tested under the RUN_QUEUE hold that publishes Blocked.         *)
SignalPending(t) == t \in sig
Commit(t) ==
  /\ pc[t] = "commit"
  /\ \/ /\ slot[t].woken \/ ~Registered(t)
        /\ Return(t, "woken") /\ UNCHANGED blocked
     \/ /\ Registered(t) /\ ~slot[t].woken /\ call[t].seen # call[t].expected
        /\ Return(t, "again") /\ UNCHANGED blocked
     \/ /\ Registered(t) /\ ~slot[t].woken /\ call[t].seen = call[t].expected
        /\ IF SignalPending(t)
           THEN Return(t, "interrupted") /\ UNCHANGED blocked
           ELSE /\ blocked' = [blocked EXCEPT ![t] = TRUE]
                /\ call' = [call EXCEPT ![t].seen = NoAddr]
                /\ Goto(t, "parked")
                /\ UNCHANGED <<chain, slot, res>>
  /\ UNCHANGED <<mem, sig>>

(* Dispatched again: the verdict is taken in the hold that frees the slot.   *)
(* No claim, no deadline and no signal: register again.                      *)
ClaimedUnlessLate(t) == (slot[t].woken \/ ~Registered(t)) /\ call[t].deadline # "passed"
Claimed(t) == slot[t].woken \/ ~Registered(t)
Resume(t) ==
  /\ pc[t] = "parked" /\ ~blocked[t]
  /\ \/ Claimed(t) /\ Return(t, "woken")
     \/ ~Claimed(t) /\ call[t].deadline = "passed" /\ Return(t, "timeout")
     \/ ~Claimed(t) /\ call[t].deadline # "passed" /\ t \in sig /\ Return(t, "interrupted")
     \/ /\ ~Claimed(t) /\ call[t].deadline # "passed" /\ t \notin sig
        /\ chain' = Freed(t)
        /\ slot' = [slot EXCEPT ![t] = NoSlot]
        /\ Goto(t, "register")
        /\ UNCHANGED <<call, res>>
  /\ UNCHANGED <<mem, blocked, sig>>

WaitStep(t) == Register(t) \/ ReadWord(t) \/ Commit(t) \/ Resume(t)

(* key_matches, and the unclaimed waiters of a key in arrival order.         *)
key_matches(w, u, g, p) ==
  /\ slot[w].uaddr = u
  /\ Group[w] = g \/ (~call[w].private /\ ~p)
Unclaimed(u, g, p) ==
  SelectSeq(chain[Bucket[u]], LAMBDA w : ~slot[w].woken /\ key_matches(w, u, g, p))
Gone(t) == pc[t] = "gone"

FirstOf(s, n) == SubSeq(s, 1, IF n < Len(s) THEN n ELSE Len(s))

(* Of the waiters ws, in order: the n a wake claims, whatever their state    *)
(* (one on its way to Blocked included), and the stale slots of dead tasks   *)
(* it frees on the walk to the n-th claim.                                   *)
OnlyParked(w) == ~Gone(w) /\ blocked[w]
Claimable(w) == ~Gone(w)
Claims(ws, n) == ToSet(FirstOf(SelectSeq(ws, Claimable), n))
Stale(ws, n) ==
  {w \in ToSet(ws) : Gone(w) /\ \E i \in DOMAIN ws :
     ws[i] = w /\ Cardinality({j \in 1..(i - 1) : ws[j] \in Claims(ws, n)}) < n}

(* futex_wake_keyed.                                                        *)
futex_wake(u, g, p, n) ==
  LET ws == Unclaimed(u, g, p)
      claims == Claims(ws, n)
      stale == Stale(ws, n)
  IN  /\ slot' = [t \in Tasks |-> IF t \in claims THEN [slot[t] EXCEPT !.woken = TRUE]
                                  ELSE IF t \in stale THEN NoSlot ELSE slot[t]]
      /\ chain' = [chain EXCEPT ![Bucket[u]] = SelectSeq(@, LAMBDA w : w \notin stale)]
      /\ blocked' = [t \in Tasks |-> blocked[t] /\ t \notin claims]

(* futex_requeue_keyed: claim up to n, then move up to m waiters that have   *)
(* actually parked to the tail of u2's chain.                               *)
futex_requeue(u, u2, g, p, n, m) ==
  LET ws == Unclaimed(u, g, p)
      claims == Claims(ws, n)
      stale == Stale(ws, n)
      moved == FirstOf(SelectSeq(ws, LAMBDA w : w \notin claims /\ blocked[w]), m)
      gone == stale \cup ToSet(moved)
      left == [chain EXCEPT ![Bucket[u]] = SelectSeq(@, LAMBDA w : w \notin gone)]
  IN  /\ slot' = [t \in Tasks |-> IF t \in claims THEN [slot[t] EXCEPT !.woken = TRUE]
                                  ELSE IF t \in stale THEN NoSlot
                                  ELSE IF t \in ToSet(moved) THEN [slot[t] EXCEPT !.uaddr = u2]
                                  ELSE slot[t]]
      /\ chain' = [left EXCEPT ![Bucket[u2]] = @ \o moved]
      /\ blocked' = [t \in Tasks |-> blocked[t] /\ t \notin claims]

(* futex_has_waiters.                                                       *)
futex_has_waiters(u, g, p, except) ==
  \E w \in ToSet(Unclaimed(u, g, p)) : w # except

(* A deliverable signal is posted: a parked task is made Ready.              *)
PostSignal(t) ==
  /\ pc[t] # "gone" /\ t \notin sig
  /\ sig' = sig \cup {t}
  /\ blocked' = [blocked EXCEPT ![t] = FALSE]
  /\ UNCHANGED <<pc, mem, chain, slot, call, res>>

(* An ignored signal or a job-control continue makes a parked task Ready.    *)
StrayWake(t) ==
  /\ pc[t] = "parked" /\ blocked[t]
  /\ blocked' = [blocked EXCEPT ![t] = FALSE]
  /\ UNCHANGED <<pc, mem, chain, slot, call, sig, res>>

DeadlinePasses(t) ==
  /\ call[t].deadline = "ahead"
  /\ call' = [call EXCEPT ![t].deadline = "passed"]
  /\ UNCHANGED <<pc, mem, chain, slot, blocked, sig, res>>

(* wake_due_poll_deadlines releases a timed waiter.                         *)
Due(t) == call[t].deadline = "passed" /\ blocked[t]
DeadlineWake(t) ==
  /\ Due(t)
  /\ blocked' = [blocked EXCEPT ![t] = FALSE]
  /\ UNCHANGED <<pc, mem, chain, slot, call, sig, res>>

(* Group kill takes a task that is off its CPU out of the run queue; its     *)
(* slot is dropped in a later hold (remove_waiter).                          *)
Killed(t) ==
  /\ pc[t] = "parked"
  /\ Goto(t, "gone")
  /\ blocked' = [blocked EXCEPT ![t] = FALSE]
  /\ sig' = sig \ {t}
  /\ UNCHANGED <<mem, chain, slot, call, res>>
remove_waiter(t) ==
  /\ Gone(t) /\ Registered(t)
  /\ chain' = Freed(t)
  /\ slot' = [slot EXCEPT ![t] = NoSlot]
  /\ UNCHANGED <<pc, mem, call, blocked, sig, res>>

-----------------------------------------------------------------------------
(* The chains hold exactly the registered waiters, once, in their bucket.    *)
ChainsExact ==
  /\ \A t \in Tasks : Registered(t) => t \in ToSet(chain[Bucket[slot[t].uaddr]])
  /\ \A b \in Buckets : \A i, j \in DOMAIN chain[b] :
       /\ Registered(chain[b][i]) /\ Bucket[slot[chain[b][i]].uaddr] = b
       /\ chain[b][i] = chain[b][j] => i = j

(* A wake that claimed a waiter is consumed by that waiter and by nothing    *)
(* else: a claimed waiter leaves the table only by returning 0, however late *)
(* its deadline or a signal, and 0 is returned for no other reason.          *)
ClaimKept ==
  \A t \in Tasks :
    pc[t] # "gone" /\ pc'[t] = "ret" /\ pc[t] # "ret"
      => (slot[t].woken <=> res'[t] = "woken")
============================================================================
