----------------------------- MODULE MCDispatch -----------------------------
(***************************************************************************)
(* Instances of Dispatch and of GroupExit, with their fairness, for TLC.  A    *)
(* behaviour belongs to one scenario: two groups, of which a1 and b1 lead,     *)
(* fork and exit on two CPUs; or the group of a1, which may clone a2, is torn  *)
(* down by exit_group, a fatal signal or execve.                             *)
(***************************************************************************)
EXTENDS Dispatch, TLC
CONSTANTS a1, a2, b1, b2, c1, c2
VARIABLES scenario, task, klocks, pc, leaving, arg, exitLog, chld, closed
groupVars == <<task, klocks, pc, leaving, arg, exitLog, chld, closed>>
schedVars == <<scenario, vars, groupVars>>

TwoGroups == a1 :> a1 @@ a2 :> a1 @@ b1 :> b1 @@ b2 :> b1
Pair == {a1, a2}
Team == INSTANCE GroupExit WITH Threads <- Pair, Leader <- a1, Unborn <- {a2}, NoPid <- NoTask,
  Ops <- {"exit_group", "exec", "lock", "fatal", "stop", "cont"}

Cpu(A) == scenario = "cpus" /\ A /\ UNCHANGED <<scenario, groupVars>>
End(A) == scenario = "group" /\ A /\ UNCHANGED <<scenario, vars>>
Over == (\A t \in Pair : ~Team!Live(t)) /\ UNCHANGED groupVars

SchedInit == scenario \in {"cpus", "group"} /\ Init /\ Team!Init
SchedNext == Cpu(Next) \/ End(Team!Next \/ Over)

(* Dispatch!FairSpec in one scenario, GroupExit!Fairness in the other. *)
SchedSpec ==
  /\ SchedInit /\ [][SchedNext]_schedVars
  /\ \A c \in Cpus : WF_schedVars(Cpu(CpuStep(c)))
  /\ \A t \in Pair :
       /\ WF_schedVars(End(Team!Dispatch(t))) /\ WF_schedVars(End(Team!SwitchBack(t)))
       /\ WF_schedVars(End(Team!Wake(t)))
  /\ \A t \in Callers :
       /\ SF_schedVars(Cpu(Step(t)) \/ End(t \in Pair /\ Team!CallAdvances(t)))
       /\ SF_schedVars(Cpu(Picked(t)) \/ End(t \in Pair /\ Team!GivesWay(t)))

(* GroupExit!TeardownEnds: a teardown that has begun ends, unless a stop holds  *)
(* the group for ever.  Dispatch's properties are checked as they stand.       *)
TeardownEnds == Team!TeardownEnds
=============================================================================
