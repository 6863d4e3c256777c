----------------------------- MODULE MCProcess ------------------------------
(***************************************************************************)
(* Instances of GroupExit, Wait, PidTable and AddrSpace for TLC.  A behaviour  *)
(* of ProcessSpec belongs to one scenario: exit_group calls and fatal signals *)
(* while a thread may still be cloned; execve against exit and exit_group; two threads of a  *)
(* parent that fork and wait; a parent with two threads that dies; a          *)
(* single-threaded one that dies; one that dies with as many children as the  *)
(* process limit admits; colliding pids that come and go in a table of four   *)
(* slots; one page of a process and its forked child on two CPUs.  In a       *)
(* behaviour of LeaverSpec a worker that may have forked exits.               *)
(***************************************************************************)
EXTENDS GroupExit, Wait, PidTable, AddrSpace, TLC

CONSTANTS main, child, t1, t2, k1, k2, w1, r1, f1, f2

(* The four modules have their own variables, for the scenarios "kill",         *)
(* "orphans" and "crowd", "pids" and "spaces".  The others use these.          *)
VARIABLES scenario, x1, x2, x3, x4, x5, x6, x7, x8, x9

xVars == <<x1, x2, x3, x4, x5, x6, x7, x8, x9>>
groups == <<vars, waitVars>>
tables == <<pidVars, spaceVars>>
processVars == <<scenario, groups, tables, xVars>>

Exec == INSTANCE GroupExit WITH Threads <- {main, k1, k2}, Unborn <- {},
  Ops <- {"exec", "exit_group", "exit", "lock", "tick", "stop", "cont"},
  task <- x1, klocks <- x2, pc <- x3, leaving <- x4, arg <- x5, exitLog <- x6, chld <- x7, closed <- x8

Crowd == INSTANCE Wait WITH Acts <- {"ignore", "exitgroup"}, MaxProcesses <- 3
Pair == INSTANCE Wait WITH Workers <- {w1}, Acts <- {},
  state <- x1, ppid <- x2, step <- x3, reported <- x4, record <- x5, ignores <- x6, wake <- x7,
  call <- x8, handed <- x9
Team == INSTANCE Wait WITH Workers <- {w1}, Kids <- {k1},
  state <- x1, ppid <- x2, step <- x3, reported <- x4, record <- x5, ignores <- x6, wake <- x7,
  call <- x8, handed <- x9
Leaver == INSTANCE Wait WITH Workers <- {w1}, Acts <- {"threadexit"},
  state <- x1, ppid <- x2, step <- x3, reported <- x4, record <- x5, ignores <- x6, wake <- x7,
  call <- x8, handed <- x9

ASSUME WaitInstances ==
  WaitAssumption /\ Crowd!WaitAssumption /\ Pair!WaitAssumption /\ Team!WaitAssumption
  /\ Leaver!WaitAssumption

NoX == /\ x1 = 0 /\ x2 = 0 /\ x3 = 0 /\ x4 = 0 /\ x5 = 0
       /\ x6 = 0 /\ x7 = 0 /\ x8 = 0 /\ x9 = 0
ProcessInit ==
  /\ Init /\ WaitInit /\ PidInit /\ SpaceInit
  /\ \/ scenario \in {"kill", "orphans", "crowd", "pids", "spaces"} /\ NoX
     \/ scenario = "exec" /\ Exec!Init /\ x9 = 0
     \/ scenario = "pair" /\ Pair!WaitInit
     \/ scenario = "team" /\ Team!WaitInit
Elsewhere ==
  \/ scenario = "exec" /\ Exec!Next /\ UNCHANGED x9
  \/ scenario = "pair" /\ Pair!WaitNext
  \/ scenario = "team" /\ Team!WaitNext
ProcessNext ==
  /\ UNCHANGED scenario
  /\ \/ scenario = "kill" /\ Next /\ UNCHANGED <<waitVars, tables, xVars>>
     \/ scenario = "orphans" /\ WaitNext /\ UNCHANGED <<vars, tables, xVars>>
     \/ scenario = "crowd" /\ Crowd!WaitNext /\ UNCHANGED <<vars, tables, xVars>>
     \/ scenario = "pids" /\ PidNext /\ UNCHANGED <<groups, spaceVars, xVars>>
     \/ scenario = "spaces" /\ SpaceNext /\ UNCHANGED <<groups, pidVars, xVars>>
     \/ Elsewhere /\ UNCHANGED <<groups, tables>>
ProcessSpec == ProcessInit /\ [][ProcessNext]_processVars

LeaverSpec ==
  /\ scenario = "leaver" /\ Init /\ WaitInit /\ PidInit /\ SpaceInit /\ Leaver!WaitInit
  /\ [][Leaver!WaitNext /\ UNCHANGED <<scenario, groups, tables>>]_processVars

(* The children, the threads besides the one that leads, or the CPUs, are alike. *)
Alike == Permutations({k1, k2})

(* What holds of a group killed from outside and of a single-threaded parent     *)
(* holds with threads that act on their own.  Where execve meets exit and        *)
(* exit_group, no lock holder is reaped, one thread runs the kill loop or the     *)
(* take-over, it is alone when the loop ends, and no pid dies twice or while a     *)
(* thread has it (GroupExit).  Where two threads of a parent fork and wait, no     *)
(* exit is reported twice, ECHILD is true, no wait4 sleeps on an exit and the      *)
(* pool of unwaited records fits (Wait); it also fits where the process limit      *)
(* stops the forks.                                                           *)
ThreadsSafe ==
  CASE scenario = "exec" -> /\ Exec!LockHolderSurvives /\ Exec!TeardownExclusive
                            /\ Exec!OneDeathPerPid /\ Exec!SignalDeathRecorded
    [] scenario = "pair" -> Pair!EachDeathOnce /\ Pair!EchildIsTrue /\ Pair!NoSleepOnExit
    [] scenario = "team" -> Team!EachDeathOnce /\ Team!EchildIsTrue /\ Team!NoSleepOnExit
    [] scenario = "crowd" -> Crowd!PoolFits
    [] OTHER -> TRUE

(* Wait!EchildIsTrue where a worker that may have forked exits. *)
EchildAfterLeaver == scenario = "leaver" => Leaver!EchildIsTrue
=============================================================================
