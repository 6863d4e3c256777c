----------------------------- MODULE Semaphore -----------------------------
(***************************************************************************)
(* What a counting semaphore promises: every successful down consumes one   *)
(* unit that some up added, a down that gives up consumes none, and no unit *)
(* is lost.  KSemaphore implements this.                                    *)
(***************************************************************************)
EXTENDS Naturals

CONSTANTS Tasks, Initial

VARIABLES
  units,    \* units not yet consumed
  status    \* of each task: "out", "calling" or "got"

semVars == <<units, status>>

Set(t, s) == status' = [status EXCEPT ![t] = s]

Begin(t)   == status[t] = "out" /\ Set(t, "calling") /\ UNCHANGED units
Fail(t)    == status[t] = "calling" /\ Set(t, "out") /\ UNCHANGED units
Succeed(t) == status[t] \in {"out", "calling"} /\ units > 0 /\ units' = units - 1 /\ Set(t, "got")
Leave(t)   == status[t] = "got" /\ Set(t, "out") /\ UNCHANGED units
Up         == units' = units + 1 /\ UNCHANGED status

Init == units = Initial /\ status = [t \in Tasks |-> "out"]
Next == Up \/ \E t \in Tasks : Begin(t) \/ Fail(t) \/ Succeed(t) \/ Leave(t)
Spec == Init /\ [][Next]_semVars
============================================================================
