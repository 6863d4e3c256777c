------------------------------- MODULE MCFutex ------------------------------
(***************************************************************************)
(* Instances of FutexCalls, PiFutex and PortTable, the two tables a task       *)
(* sleeps on, for TLC.  A behaviour belongs to one scenario: threads of one    *)
(* process wait on and wake one word; threads of two processes requeue from    *)
(* one word to another in a different bucket; three threads use one PI lock;   *)
(* two processes use a small port table.                                     *)
(***************************************************************************)
EXTENDS PortTable, TLC

CONSTANTS t1, t2, t3, v1, v2, v3, u1, u2, NoAddr, None

VARIABLES scenario, pc, mem, chain, slot, call, blocked, sig, res, lk

Tasks == {t1, t2, t3}
OneGroup == [t \in Tasks |-> "g"]
Movers == {v1, v2, v3}
TwoGroups == [t \in Movers |-> IF t = v3 THEN "h" ELSE "g"]

Words == INSTANCE FutexCalls WITH Addrs <- {u1}, Values <- {0, 1}, Group <- OneGroup,
  Bucket <- (u1 :> 1), Timeouts <- {"ahead"}, Privates <- {TRUE}, Counts <- {3},
  Requeues <- {}, MayDie <- TRUE
Moves == INSTANCE FutexCalls WITH Tasks <- Movers, Addrs <- {u1, u2}, Values <- {0}, Group <- TwoGroups,
  Bucket <- (u1 :> 1 @@ u2 :> 2), Timeouts <- {"never"}, Privates <- BOOLEAN, Counts <- {1},
  Requeues <- {<<u1, u2>>}, MayDie <- FALSE
Pi == INSTANCE PiFutex WITH Lock <- u1, Addrs <- {u1}, Group <- OneGroup,
  Bucket <- (u1 :> 1), Timeouts <- {"ahead"}, Tries <- BOOLEAN, MaxExits <- 1,
  NoOwner <- None, Values <- [owner : Tasks \cup {None}, waiters : BOOLEAN]

TablesInit ==
  /\ Init
  /\ \/ scenario = "words" /\ Words!Init /\ lk = NoAddr
     \/ scenario = "moves" /\ Moves!Init /\ lk = NoAddr
     \/ scenario \in {"pi", "ports"} /\ Pi!Init
futexVars == <<pc, mem, chain, slot, call, blocked, sig, res, lk>>
TablesNext ==
  /\ UNCHANGED scenario
  /\ \/ scenario = "words" /\ Words!Next /\ UNCHANGED <<vars, lk>>
     \/ scenario = "moves" /\ Moves!Next /\ UNCHANGED <<vars, lk>>
     \/ scenario = "pi" /\ Pi!Next /\ UNCHANGED vars
     \/ scenario = "ports" /\ Next /\ UNCHANGED futexVars
tableVars == <<scenario, vars, futexVars>>
TablesSpec == TablesInit /\ [][TablesNext]_tableVars

(* Threads of one process are alike, and so are the two processes v1 and v2     *)
(* that use ports.                                                           *)
Alike == Permutations(Tasks) \cup Permutations({v1, v2})

(* No action reads `answer`, so two states that differ in it alone have the     *)
(* same successors: the view drops it, and every transition still is checked    *)
(* with the answer it gives.                                                 *)
TablesView == <<scenario, buckets, next_id, futexVars>>

(* PortTable!EveryLivePortFound, FailsOnlyWhenFull and ImplementsPorts are       *)
(* checked as they stand.                                                    *)

(* Futex!ChainsExact: the hash chains hold exactly the registered waiters. *)
ChainsExact == IF scenario = "moves" THEN Moves!ChainsExact ELSE Words!ChainsExact

(* Futex!ClaimKept: a claim is consumed by its waiter and by nothing else. *)
ClaimDelivered == [][IF scenario = "moves" THEN Moves!ClaimKept ELSE Words!ClaimKept]_tableVars

(* Nobody sleeps through a wake that came between register, read and commit, or *)
(* on top of a deliverable signal (FutexCalls!NoStaleSleep, NoSleepOnSignal).  *)
NoStaleSleep ==
  /\ scenario = "words" => Words!NoStaleSleep
  /\ IF scenario = "moves" THEN Moves!NoSleepOnSignal ELSE Words!NoSleepOnSignal

(* The PI lock word names exactly its holder, and a sleeping locker without      *)
(* FUTEX_WAITERS in the word has somebody awake to put it back or wake it       *)
(* (PiFutex!WordNamesHolder, NoStrandedLocker).                                *)
PiLockSound == scenario = "pi" => Pi!WordNamesHolder /\ Pi!NoStrandedLocker
=============================================================================
