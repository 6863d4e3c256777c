-------------------------------- MODULE Ipc ---------------------------------
(***************************************************************************)
(* The IPC system calls over the ports that Ports specifies: sys_send,         *)
(* sys_recv and sys_call (kernel/src/syscall.rs) with the park protocol of     *)
(* sched (block_on_port_prepare, cancel, commit).  Clients call one server,    *)
(* which receives, replies to the port stamped in the message, and may die.   *)
(* Each step is one hold of PORT_TABLE or of RUN_QUEUE.                       *)
(***************************************************************************)
EXTENDS Naturals, Sequences

CONSTANTS
  Server, Clients,
  Ids, Srv,     \* port ids, and the one the server owns
  NoPort,       \* u32::MAX
  Capacity,     \* messages a queue holds
  MaxCalls,     \* how many calls each client makes
  Ops           \* what may happen: "serverdies", "clientdies", "signal"

Pids == {Server} \cup Clients
Msgs == {<<c, n>> : c \in Clients, n \in Nat}
NoMsg == <<Server, 0>>

VARIABLES
  ports, answer,   \* of Ports
  used,            \* ids handed out: NEXT_ID only counts up
  reply,           \* each client's Task::reply_port
  blockedOn,       \* the port a task is published as Blocked on
  pc,              \* where each task is in its system call
  port,            \* the port its recv loop is on
  wakes,           \* the port a task must still unblock
  msg,             \* the message it holds
  calls            \* calls begun

vars == <<ports, answer, used, reply, blockedOn, pc, port, wakes, msg, calls>>
P == INSTANCE Ports

Init ==
  /\ \E direct \in BOOLEAN :
       ports = [i \in {Srv} |-> [owner |-> Server, queue |-> <<>>, handler |-> direct]]
  /\ answer = <<"boot">>
  /\ used = {Srv}
  /\ reply = [c \in Clients |-> NoPort]
  /\ blockedOn = [t \in Pids |-> NoPort]
  /\ pc = [t \in Pids |-> IF t = Server THEN "recv" ELSE "idle"]
  /\ port = [t \in Pids |-> IF t = Server THEN Srv ELSE NoPort]
  /\ wakes = [t \in Pids |-> NoPort]
  /\ msg = [t \in Pids |-> NoMsg]
  /\ calls = [c \in Clients |-> 0]

Goto(t, p) == pc' = [pc EXCEPT ![t] = p]

(* unblock_port, by a sender that has let go of the table lock.               *)
Unblocked(id) == [t \in Pids |-> IF blockedOn[t] = id THEN NoPort ELSE blockedOn[t]]
After(t) == IF t = Server THEN "recv" ELSE "check"
Wake(t) ==
  /\ pc[t] = "wake"
  /\ blockedOn' = Unblocked(wakes[t])
  /\ wakes' = [wakes EXCEPT ![t] = NoPort]
  /\ Goto(t, After(t))
  /\ UNCHANGED <<ports, answer, used, reply, port, msg, calls>>

-----------------------------------------------------------------------------
(* sys_call: the reply port on first use, the stamped send, then the recv.    *)
CallBegin(c) ==
  /\ pc[c] = "idle" /\ calls[c] < MaxCalls[c]
  /\ calls' = [calls EXCEPT ![c] = @ + 1]
  /\ Goto(c, IF reply[c] = NoPort THEN "create" ELSE "send")
  /\ UNCHANGED <<ports, answer, used, reply, blockedOn, port, wakes, msg>>
CallCreate(c) ==
  /\ pc[c] = "create"
  /\ P!Create(c)
  /\ \/ /\ answer'[1] = "created" /\ answer'[2] \notin used
        /\ used' = used \cup {answer'[2]}
        /\ reply' = [reply EXCEPT ![c] = answer'[2]]
        /\ Goto(c, "send")
     \/ /\ answer'[1] = "create"
        /\ Goto(c, "idle")
        /\ UNCHANGED <<used, reply>>
  /\ UNCHANGED <<blockedOn, port, wakes, msg, calls>>

(* The reply port is the client's, so a message names the client.             *)
Mine(c) == <<c, calls[c]>>
CallSend(c) ==
  /\ pc[c] = "send"
  /\ P!Send(Srv, Mine(c))
  /\ CASE answer'[2] = "Ok" -> Goto(c, "wake") /\ wakes' = [wakes EXCEPT ![c] = Srv]
       [] answer'[2] = "handler" -> Goto(c, "handler") /\ UNCHANGED wakes
       [] OTHER -> Goto(c, "idle") /\ UNCHANGED wakes
  /\ port' = [port EXCEPT ![c] = IF answer'[2] \in {"Ok", "handler"} THEN reply[c] ELSE NoPort]
  /\ UNCHANGED <<used, reply, blockedOn, msg, calls>>
(* The handler ran in the sender: its reply goes to the sender's own port.    *)
CallHandled(c) ==
  /\ pc[c] = "handler"
  /\ P!Send(reply[c], Mine(c))
  /\ Goto(c, "check")
  /\ UNCHANGED <<used, reply, blockedOn, port, wakes, msg, calls>>

-----------------------------------------------------------------------------
(* sys_recv. *)
(* Publish Blocked first, then look: a send after an empty look finds the      *)
(* task Blocked.  The other order loses the wake.                             *)
Then(p) == CASE p = "enter" -> "prepare" [] p = "prepare" -> "look" [] p = "look" -> "recheck"
Owns(t) == answer' = <<"owner", TRUE>>
Check(t) ==
  /\ pc[t] \in {"check", "recheck", "woken"}
  /\ P!IsOwner(port[t], t)
  /\ Goto(t, CASE ~Owns(t) -> (IF pc[t] = "recheck" THEN "cancel" ELSE "closed")
               [] pc[t] = "recheck" -> "commit"
               [] OTHER -> Then("enter"))
  /\ UNCHANGED <<used, reply, blockedOn, port, wakes, msg, calls>>

Prepare(t) ==
  /\ pc[t] = "prepare"
  /\ blockedOn' = [blockedOn EXCEPT ![t] = port[t]]
  /\ Goto(t, Then("prepare"))
  /\ UNCHANGED <<ports, answer, used, reply, port, wakes, msg, calls>>
Look(t) ==
  /\ pc[t] = "look"
  /\ P!RecvAs(port[t], t)
  /\ IF Len(answer') = 2
     THEN msg' = [msg EXCEPT ![t] = answer'[2]] /\ Goto(t, "cancel")
     ELSE UNCHANGED msg /\ Goto(t, Then("look"))
  /\ UNCHANGED <<used, reply, blockedOn, port, wakes, calls>>
Cancel(t) ==
  /\ pc[t] = "cancel"
  /\ blockedOn' = [blockedOn EXCEPT ![t] = NoPort]
  /\ Goto(t, IF msg[t] = NoMsg THEN "closed" ELSE "got")
  /\ UNCHANGED <<ports, answer, used, reply, port, wakes, msg, calls>>
GiveUp(t) == "closed"
LookAgain(t) == "woken"
Commit(t) ==
  /\ pc[t] = "commit" /\ blockedOn[t] = NoPort
  /\ Goto(t, LookAgain(t))
  /\ UNCHANGED <<ports, answer, used, reply, blockedOn, port, wakes, msg, calls>>

(* A signal makes the task Ready; sys_recv looks at the port again and never   *)
(* at the signal.                                                            *)
Signal(t) ==
  /\ "signal" \in Ops /\ blockedOn[t] # NoPort
  /\ blockedOn' = [blockedOn EXCEPT ![t] = NoPort]
  /\ UNCHANGED <<ports, answer, used, reply, pc, port, wakes, msg, calls>>

(* What the caller does with a finished recv. *)
CallEnd(c) ==
  /\ c \in Clients /\ pc[c] \in {"got", "closed"}
  /\ msg' = [msg EXCEPT ![c] = NoMsg]
  /\ port' = [port EXCEPT ![c] = NoPort]
  /\ Goto(c, "idle")
  /\ UNCHANGED <<ports, answer, used, reply, blockedOn, wakes, calls>>
ServerReply ==
  /\ pc[Server] = "got"
  /\ P!Send(reply[msg[Server][1]], msg[Server])
  /\ IF answer'[2] = "Ok"
     THEN Goto(Server, "wake") /\ wakes' = [wakes EXCEPT ![Server] = reply[msg[Server][1]]]
     ELSE Goto(Server, "recv") /\ UNCHANGED wakes
  /\ msg' = [msg EXCEPT ![Server] = NoMsg]
  /\ UNCHANGED <<used, reply, blockedOn, port, calls>>
Direct == Srv \in DOMAIN ports /\ ports[Srv].handler
ServerRecv ==
  /\ pc[Server] = "recv" /\ ~Direct
  /\ Goto(Server, "check")
  /\ UNCHANGED <<ports, answer, used, reply, blockedOn, port, wakes, msg, calls>>

(* A task dies in user mode or asleep: release_by_owner closes its ports.  Only *)
(* the owner ever waits on a port, so its wakes find nobody.                  *)
MayDie(t) == (t = Server /\ "serverdies" \in Ops) \/ (t # Server /\ "clientdies" \in Ops)
Owned(t) == {i \in DOMAIN ports : ports[i].owner = t}
Die(t) ==
  /\ MayDie(t) /\ pc[t] \in {"idle", "recv", "commit", "got"}
  /\ P!Release(t) /\ answer'[2] = Owned(t)
  /\ blockedOn' = [blockedOn EXCEPT ![t] = NoPort]
  /\ Goto(t, "dead")
  /\ msg' = [msg EXCEPT ![t] = NoMsg]
  /\ UNCHANGED <<used, reply, port, wakes, calls>>

Step(t) ==
  \/ Wake(t) \/ Check(t) \/ Prepare(t) \/ Look(t) \/ Cancel(t) \/ Commit(t)
  \/ t = Server /\ (ServerRecv \/ ServerReply)
  \/ t \in Clients /\ (CallCreate(t) \/ CallSend(t) \/ CallHandled(t) \/ CallEnd(t))

Next ==
  \/ \E t \in Pids : Step(t) \/ Signal(t) \/ Die(t)
  \/ \E c \in Clients : CallBegin(c)

Spec == Init /\ [][Next]_vars
FairSpec == Spec /\ \A t \in Pids : WF_vars(Step(t))

-----------------------------------------------------------------------------
(* No task sleeps on a port that holds a message unless its sender is about to *)
(* unblock that port (sys_recv: "its unblock_port() wake is never lost").     *)
Asleep(t) == pc[t] = "commit" /\ blockedOn[t] # NoPort
NoSleepOnMessage ==
  \A t \in Pids : Asleep(t) /\ ports[port[t]].queue # <<>> => \E u \in Pids : wakes[u] = port[t]

(* A call returns the reply to itself, never one left by an earlier call of    *)
(* the same client, whatever wakes it in between (sys_call).                  *)
ReplyMatches == \A c \in Clients : pc[c] = "got" => msg[c] = Mine(c)

(* Every call returns unless its server or its client dies, though the         *)
(* server's queue holds fewer messages than there are clients and signals      *)
(* disturb both sides (sys_call, sys_recv).                                   *)
CallReturns ==
  \A c \in Clients : (pc[c] = "send") ~> (pc[c] \in {"idle", "dead"} \/ pc[Server] = "dead")
=============================================================================
