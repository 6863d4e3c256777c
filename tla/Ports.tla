------------------------------- MODULE Ports -------------------------------
(***************************************************************************)
(* What the IPC port table promises: a set of live ports, each with one     *)
(* owner, a bounded FIFO of messages and possibly a direct handler.  Every  *)
(* action is one hold of PORT_TABLE's lock in ipc/src/port.rs; `answer` is  *)
(* what that call returns.  PortTable implements this specification with    *)
(* its hash buckets and rings; Ipc runs the callers on top of it.           *)
(***************************************************************************)
EXTENDS Naturals, Sequences

CONSTANTS
  Ids,        \* the port ids alloc may hand out
  Pids,       \* tasks
  Msgs,       \* message payloads
  Capacity    \* messages a queue holds: QUEUE_DEPTH - 1

VARIABLES
  ports,      \* live id -> [owner, queue, handler]
  answer      \* what the last call returned

portVars == <<ports, answer>>

(* A caller may name any id, live or not. *)
Created(p, id) ==
  [i \in DOMAIN ports \cup {id} |->
     IF i = id THEN [owner |-> p, queue |-> <<>>, handler |-> FALSE] ELSE ports[i]]

Without(ids) == [i \in DOMAIN ports \ ids |-> ports[i]]

Create(p) ==
  \/ \E id \in Ids \ DOMAIN ports :
       /\ answer' = <<"created", id>>
       /\ ports' = Created(p, id)
  \/ /\ answer' = <<"create", "full">>
     /\ UNCHANGED ports

Close(id) ==
  /\ answer' = <<"closed">>
  /\ ports' = Without({id})

(* One batch of release_by_owner: some of p's ports are gone.               *)
Release(p) ==
  \E ids \in SUBSET {i \in DOMAIN ports : ports[i].owner = p} :
    /\ answer' = <<"released", ids>>
    /\ ports' = Without(ids)

RegisterHandler(id) ==
  IF id \in DOMAIN ports
  THEN /\ answer' = <<"handler", TRUE>>
       /\ ports' = [ports EXCEPT ![id].handler = TRUE]
  ELSE /\ answer' = <<"handler", FALSE>>
       /\ UNCHANGED ports

Send(id, m) ==
  IF id \notin DOMAIN ports
  THEN answer' = <<"send", "PortNotFound">> /\ UNCHANGED ports
  ELSE IF ports[id].handler
  THEN answer' = <<"send", "handler">> /\ UNCHANGED ports
  ELSE IF Len(ports[id].queue) = Capacity
  THEN answer' = <<"send", "QueueFull">> /\ UNCHANGED ports
  ELSE /\ answer' = <<"send", "Ok", ports[id].owner>>
       /\ ports' = [ports EXCEPT ![id].queue = Append(@, m)]

RecvAs(id, p) ==
  IF id \in DOMAIN ports /\ ports[id].owner = p /\ ports[id].queue # <<>>
  THEN /\ answer' = <<"recv", Head(ports[id].queue)>>
       /\ ports' = [ports EXCEPT ![id].queue = Tail(@)]
  ELSE /\ answer' = <<"recv">>
       /\ UNCHANGED ports

IsOwner(id, p) ==
  /\ answer' = <<"owner", id \in DOMAIN ports /\ ports[id].owner = p>>
  /\ UNCHANGED ports

Init ==
  /\ ports = [i \in {} |-> 0]
  /\ answer = <<"boot">>

(* Every call is answered. *)
Next ==
  /\ answer' # <<"boot">>
  /\ \/ \E p \in Pids : Create(p) \/ Release(p)
     \/ \E id \in Ids :
          \/ Close(id)
          \/ RegisterHandler(id)
          \/ \E m \in Msgs : Send(id, m)
          \/ \E p \in Pids : RecvAs(id, p) \/ IsOwner(id, p)

Spec == Init /\ [][Next]_portVars
============================================================================
