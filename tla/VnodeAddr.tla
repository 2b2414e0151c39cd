------------------------------ MODULE VnodeAddr ------------------------------
(***************************************************************************)
(* Clients asking the proxy for the storage nodes of one vnode:             *)
(* CProxyMsgParser::msg_get_vnode_addr_handle over vnode_info's two round    *)
(* robins, while other handlers add replicas and change their statuses.     *)
(* The handler keeps m_pvnode_rwlock for the whole selection, so a request  *)
(* is one step.                                                             *)
(***************************************************************************)
EXTENDS VnodeInfo

CONSTANTS Devices,        \* devices that may come to hold a replica of the vnode
          ReplicaCount    \* the replica count the proxy was configured with

ASSUME DevicesAssumption == Devices \subseteq Nat \ {NoDevice}
ASSUME ReplicaCountAssumption == ReplicaCount \in Nat \ {0}

VARIABLES up,             \* the proxy process is alive
          replica_list,   \* vnode_info.replica_list, as a sequence of devices
          replica_status, \* replica_info.replica_status of each device's replica
          rd_req_robin,
          wr_req_robin,
          answer,         \* the last request and its answer (history)
          served          \* reads answered since the replicas last changed (history)

vars == <<up, replica_list, replica_status, rd_req_robin, wr_req_robin, answer, served>>

\* dev: what the get_*_replica call returned; addrs: how many addresses the
\* client is sent (0: the request is refused with EACCES).
Answers == [kind : {"none", "read", "write"}, dev : Devices \cup {NoDevice}, addrs : Nat]
NoAnswer == [kind |-> "none", dev |-> NoDevice, addrs |-> 0]

Init == /\ up = TRUE
        /\ replica_list = <<>>
        /\ replica_status = [d \in Devices |-> INIT]
        /\ rd_req_robin = 0
        /\ wr_req_robin = 0
        /\ answer = NoAnswer
        /\ served = <<>>

\* The replicas changed: earlier answers say nothing about them any more.
Changed == /\ answer' = NoAnswer
           /\ served' = <<>>
           /\ UNCHANGED <<up, rd_req_robin, wr_req_robin>>

\* A join pushes a replica: the first one ACTIVE, the others not.
AddReplica(d, s) ==
    /\ up
    /\ d \notin Holders(replica_list)
    /\ (s = ACTIVE) = (replica_list = <<>>)
    /\ replica_list' = Append(replica_list, d)
    /\ replica_status' = [replica_status EXCEPT ![d] = s]
    /\ Changed

\* A beat or a sync-down changes the status of a replica.
ChangeStatus(d, s) ==
    /\ up
    /\ d \in Holders(replica_list)
    /\ replica_status[d] # s
    /\ replica_status' = [replica_status EXCEPT ![d] = s]
    /\ UNCHANGED replica_list
    /\ Changed

\* A read request is answered with one replica, or refused.
ReadAddr ==
    LET dev == get_read_replica(replica_list, replica_status, rd_req_robin)
    IN  /\ up
        /\ rd_req_robin' = ReadCursor(replica_list, replica_status, rd_req_robin)
        /\ answer' = [kind |-> "read", dev |-> dev, addrs |-> IF dev = NoDevice THEN 0 ELSE 1]
        /\ served' = IF dev = NoDevice \/ Len(served) = Len(replica_list)
                     THEN served ELSE Append(served, dev)
        /\ UNCHANGED <<up, replica_list, replica_status, wr_req_robin>>

\* A write request calls get_write_replica up to ReplicaCount times, until it
\* fails or gives the first replica again.  All calls look at the same element:
\* the second one gives the first replica again, and one address is too few.
WriteAddr ==
    LET dev == get_write_replica(replica_list, replica_status, rd_req_robin)
        one == WriteCursor(replica_list, wr_req_robin, dev)
        two == WriteCursor(replica_list, one, dev)
    IN  /\ up
        /\ ~WritePastEnd(replica_list, rd_req_robin)
        /\ wr_req_robin' = IF dev # NoDevice /\ ReplicaCount > 1 THEN two ELSE one
        /\ answer' = [kind |-> "write", dev |-> dev, addrs |-> 0]
        /\ UNCHANGED <<up, replica_list, replica_status, rd_req_robin, served>>

\* The element past the end is no pointer: the process dies on it.
WriteAddrDies ==
    /\ up
    /\ WritePastEnd(replica_list, rd_req_robin)
    /\ up' = FALSE
    /\ UNCHANGED <<replica_list, replica_status, rd_req_robin, wr_req_robin, answer, served>>

Next == \/ \E d \in Devices, s \in {ONLINE, WAIT_SYNC, ACTIVE} : AddReplica(d, s)
        \/ \E d \in Devices, s \in {WAIT_SYNC, COPY_SRC, ACTIVE} : ChangeStatus(d, s)
        \/ ReadAddr
        \/ WriteAddr
        \/ WriteAddrDies

Spec == Init /\ [][Next]_vars

-----------------------------------------------------------------------------
(* Properties                                                                *)

ActiveHolders == {d \in Holders(replica_list) : replica_status[d] = ACTIVE}

\* Every variable has its type, and the read cursor never passes the list's size.
TypeOK == /\ up \in BOOLEAN
          /\ replica_list \in Seq(Devices)
          /\ replica_status \in [Devices -> Statuses]
          /\ rd_req_robin \in 0..Len(replica_list)
          /\ wr_req_robin \in 0..Len(replica_list)
          /\ answer \in Answers
          /\ served \in Seq(Devices)

\* A read is refused exactly when no replica is ACTIVE, wherever the cursor
\* stands, and is never answered with a replica that is not (node_info.cpp,
\* get_read_replica: the probe loop with its cursor wrap covers the whole list).
ReadFindsActive ==
    answer.kind = "read" => IF answer.dev = NoDevice THEN ActiveHolders = {}
                                                     ELSE answer.dev \in ActiveHolders

\* While the replicas do not change, reads take turns: no ACTIVE replica is
\* given twice before every other ACTIVE replica was given once (the purpose of
\* rd_req_robin in get_read_replica).
ReadsTakeTurns ==
    \A i, j \in 1..Len(served) :
        i < j /\ j - i < Cardinality(ActiveHolders) => served[i] # served[j]

=============================================================================
