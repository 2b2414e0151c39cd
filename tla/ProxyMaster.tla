----------------------------- MODULE ProxyMaster -----------------------------
(***************************************************************************)
(* The master proxy node: the vnode table, the device container and the     *)
(* message handlers that storage nodes reach -- joining, beat-hearting and   *)
(* reporting finished synchronizations (src/proxynode/proxy_msg_parser.cpp,  *)
(* vnode_balancer.cpp, node_container.cpp).                                 *)
(*                                                                          *)
(* A handler is cut where it releases a lock or writes without one, so the  *)
(* steps of handlers run by different worker threads interleave as in the   *)
(* code.  g_pdevice_chg_rwlock is held across steps by a join only: a step  *)
(* that takes it waits for LockFree.  m_pvnode_rwlock is never held across  *)
(* steps.  The module gives the actions; what the storage nodes send is     *)
(* their parameters, bound by the modules that extend this one.             *)
(*                                                                          *)
(* A device object (device_info) is the position it has, or is about to     *)
(* take, in the device container: joining twice makes two objects.          *)
(***************************************************************************)
EXTENDS VnodeInfo

CONSTANTS Addrs,          \* the (ip, port) pairs of storage nodes
          Zone,           \* the zone_id each of them is configured with
          Weight,         \* the weight each of them is configured with
          VnodeCount,     \* vnode_count of the proxy's configuration
          ReplicaCount,   \* replica_count of the proxy's configuration
          MaxDevices,     \* bound: joins accepted
          MaxAllocFails,  \* bound: joins that run out of memory
          NoAddr          \* the address of no device

ASSUME AddrsAssumption == NoAddr \notin Addrs
ASSUME WeightAssumption == Weight \in [Addrs -> Nat \ {0}]
ASSUME CountsAssumption == /\ VnodeCount \in Nat \ {0}
                           /\ ReplicaCount \in Nat \ {0}
                           /\ MaxDevices \in Nat
                           /\ MaxAllocFails \in Nat

Vnodes  == 0..(VnodeCount - 1)
Devices == 1..MaxDevices

VARIABLES
  up,             \* the master process is alive
  node_count,     \* m_node_count: devices 1..node_count are in the container
  addr,           \* device_info.bind_ip, nbind_port
  vnode_list,     \* device_info.vnode_list
  sync_list,      \* device_info.sync_list: events to hand to the device
  syncing_list,   \* device_info.syncing_list: events handed to it
  replica_list,   \* vnode_info.replica_list
  replica_status, \* replica_info.replica_status, INIT where there is no replica
  version,        \* vnode_info.version
  rd_req_robin,   \* vnode_info.rd_req_robin
  join,           \* the join that holds g_pdevice_chg_rwlock
  alloc_fails,    \* joins that ran out of memory so far
  pc,             \* where the handler of an address's beat or sync-down stands
  mine,           \* its device_vnode_list: the device's vnodes not yet answered
  report,         \* the vnode_report_info units of the beat not yet merged
  event,          \* the sync event in its hands, with the source replica it chose
  resp,           \* its vnode_resp_list
  down            \* the vnodes of the sync-down not yet handled

tableVars   == <<replica_list, replica_status, version, rd_req_robin>>
deviceVars  == <<node_count, addr, vnode_list>>
listVars    == <<sync_list, syncing_list>>
joinVars    == <<join, alloc_fails>>
handlerVars == <<pc, mine, report, event, resp, down>>
masterVars  == <<up, tableVars, deviceVars, listVars, joinVars, handlerVars>>

SyncEvents == [vnode : Vnodes, dest : Devices]
NoEvent    == [vnode |-> 0, dest |-> NoDevice, src |-> NoDevice]
NoJoin     == [pc |-> "none", next |-> 0, src |-> NoDevice]

MasterInit ==
    /\ up = TRUE
    /\ node_count = 0
    /\ addr = [d \in Devices |-> NoAddr]
    /\ vnode_list = [d \in Devices |-> <<>>]
    /\ sync_list = [d \in Devices |-> <<>>]
    /\ syncing_list = [d \in Devices |-> <<>>]
    /\ replica_list = [v \in Vnodes |-> <<>>]
    /\ replica_status = [v \in Vnodes |-> [d \in Devices |-> INIT]]
    /\ version = [v \in Vnodes |-> 0]
    /\ rd_req_robin = [v \in Vnodes |-> 0]
    /\ join = NoJoin
    /\ alloc_fails = 0
    /\ pc = [a \in Addrs |-> "idle"]
    /\ mine = [a \in Addrs |-> {}]
    /\ report = [a \in Addrs |-> {}]
    /\ event = [a \in Addrs |-> NoEvent]
    /\ resp = [a \in Addrs |-> <<>>]
    /\ down = [a \in Addrs |-> <<>>]

LockFree == join.pc = "none"

Joiner == node_count + 1

zoneOf == [d \in Devices |-> IF addr[d] = NoAddr THEN NoAddr ELSE Zone[addr[d]]]

Known(a) == \E d \in 1..node_count : addr[d] = a

\* get_node_by_addr(): the first device object with the address.
DeviceAt(a) == FirstOf({d \in 1..node_count : addr[d] = a})

-----------------------------------------------------------------------------
(* Joining: msg_device_join_handle, which keeps g_pdevice_chg_rwlock from    *)
(* JoinStart to JoinDone, over master_do_copy_vnode or master_do_move_vnode. *)

JoinStart(a) ==
    /\ up
    /\ LockFree
    /\ node_count < ReplicaCount
    /\ node_count < MaxDevices
    /\ addr' = [addr EXCEPT ![Joiner] = a]
    /\ join' = [NoJoin EXCEPT !.pc = "copy"]
    /\ UNCHANGED <<up, tableVars, node_count, vnode_list, listVars, alloc_fails, handlerVars>>

\* One turn of master_do_copy_vnode's loop, up to the choice of the source.
JoinVnode ==
    LET v   == join.next
        src == get_read_replica(replica_list[v], replica_status[v], rd_req_robin[v])
    IN  /\ up
        /\ join.pc = "copy"
        /\ v < VnodeCount
        /\ IF ~is_diff_zones(replica_list[v], zoneOf, zoneOf[Joiner])
           THEN /\ join' = [join EXCEPT !.next = v + 1]
                /\ UNCHANGED <<replica_status, rd_req_robin, sync_list>>
           ELSE /\ join' = [join EXCEPT !.pc = "push", !.src = src]
                /\ rd_req_robin' = [rd_req_robin EXCEPT
                       ![v] = ReadCursor(replica_list[v], replica_status[v], @)]
                /\ IF src = NoDevice
                   THEN UNCHANGED <<replica_status, sync_list>>
                   ELSE /\ replica_status' = [replica_status EXCEPT ![v][src] = COPY_SRC]
                        /\ sync_list' = [sync_list EXCEPT
                               ![src] = Append(@, [vnode |-> v, dest |-> Joiner])]
        /\ UNCHANGED <<up, replica_list, version, deviceVars, syncing_list,
                       alloc_fails, handlerVars>>

\* Mutant: vnodes are counted from 1 in the device's list.
JoinPushOffByOne ==
    LET v == join.next
        s == IF replica_list[v] = <<>> THEN ACTIVE
             ELSE IF join.src = NoDevice THEN ONLINE ELSE WAIT_SYNC
    IN  /\ up
        /\ join.pc = "push"
        /\ replica_status' = [replica_status EXCEPT ![v][Joiner] = s]
        /\ replica_list' = [replica_list EXCEPT ![v] = Append(@, Joiner)]
        /\ vnode_list' = [vnode_list EXCEPT ![Joiner] = Append(@, v + 1)]
        /\ join' = [pc |-> "copy", next |-> v + 1, src |-> NoDevice]
        /\ UNCHANGED <<up, version, rd_req_robin, node_count, addr, listVars,
                       alloc_fails, handlerVars>>

\* The end of the turn: the replica is pushed without the vnode lock.
JoinPush ==
    LET v == join.next
        s == IF replica_list[v] = <<>> THEN ACTIVE
             ELSE IF join.src = NoDevice THEN ONLINE ELSE WAIT_SYNC
    IN  /\ up
        /\ join.pc = "push"
        /\ replica_status' = [replica_status EXCEPT ![v][Joiner] = s]
        /\ replica_list' = [replica_list EXCEPT ![v] = Append(@, Joiner)]
        /\ vnode_list' = [vnode_list EXCEPT ![Joiner] = Append(@, v)]
        /\ join' = [pc |-> "copy", next |-> v + 1, src |-> NoDevice]
        /\ UNCHANGED <<up, version, rd_req_robin, node_count, addr, listVars,
                       alloc_fails, handlerVars>>

\* add_node() and the release of the lock: the storage node is told it joined.
JoinDone ==
    /\ up
    /\ join.pc = "copy"
    /\ join.next = VnodeCount
    /\ node_count' = node_count + 1
    /\ join' = NoJoin
    /\ UNCHANGED <<up, tableVars, addr, vnode_list, listVars, alloc_fails, handlerVars>>

\* Mutant: a failed join does not take its replicas back.
JoinFailsKeeps ==
    /\ up
    /\ join.pc = "copy"
    /\ join.next < VnodeCount
    /\ is_diff_zones(replica_list[join.next], zoneOf, zoneOf[Joiner])
    /\ alloc_fails < MaxAllocFails
    /\ alloc_fails' = alloc_fails + 1
    /\ vnode_list' = [vnode_list EXCEPT ![Joiner] = <<>>]
    /\ addr' = [addr EXCEPT ![Joiner] = NoAddr]
    /\ join' = NoJoin
    /\ UNCHANGED <<up, tableVars, node_count, listVars, handlerVars>>

\* No memory for a replica: destroy_all_replicas_info() and the join is refused.
\* Sources chosen for earlier vnodes keep their status and their sync event.
JoinFails ==
    /\ up
    /\ join.pc = "copy"
    /\ join.next < VnodeCount
    /\ is_diff_zones(replica_list[join.next], zoneOf, zoneOf[Joiner])
    /\ alloc_fails < MaxAllocFails
    /\ alloc_fails' = alloc_fails + 1
    /\ replica_list' = [v \in Vnodes |-> destroy_replica_info(replica_list[v], Joiner)]
    /\ replica_status' = [v \in Vnodes |-> [replica_status[v] EXCEPT ![Joiner] = INIT]]
    /\ vnode_list' = [vnode_list EXCEPT ![Joiner] = <<>>]
    /\ addr' = [addr EXCEPT ![Joiner] = NoAddr]
    /\ join' = NoJoin
    /\ UNCHANGED <<up, version, rd_req_robin, node_count, listVars, handlerVars>>

\* master_do_move_vnode(), once there are as many devices as replicas.  It
\* should take replicas from the devices that hold more than their share ...
TotalCount     == FoldFunctionOnSet(+, 0, [d \in Devices |-> Len(vnode_list[d])], 1..node_count)
TotalWeight(a) == Weight[a]
    + FoldFunctionOnSet(+, 0, [d \in 1..node_count |-> Weight[addr[d]]], 1..node_count)
Overfull(d, a) == Len(vnode_list[d]) > (TotalCount \div TotalWeight(a)) * Weight[addr[d]]

\* (the positions of d's vnode_list that may move to the device joining from a)
Movable(d, a) ==
    {i \in 1..Len(vnode_list[d]) :
        LET v == vnode_list[d][i]
        IN  /\ replica_status[v][d] = ACTIVE
            /\ \/ Zone[addr[d]] = Zone[a]
               \/ is_diff_zones(replica_list[v], zoneOf, Zone[a])}

\* ... but after marking the first one it assigns NULL to the new replica
\* (`if(pjoin_replica = NULL)') and dies on it.
JoinMoveDies(a) ==
    /\ up
    /\ LockFree
    /\ node_count >= ReplicaCount
    /\ node_count < MaxDevices
    /\ \E d \in 1..node_count :
        /\ Overfull(d, a)
        /\ \E i \in Movable(d, a) :
              replica_status' = [replica_status EXCEPT ![vnode_list[d][i]][d] = MOVE_SRC]
    /\ up' = FALSE
    /\ UNCHANGED <<replica_list, version, rd_req_robin, deviceVars, listVars,
                   joinVars, handlerVars>>

\* The device joins empty when no replica is found to move.  The search draws
\* positions of a shrinking copy but reads the whole list, so it is only sure
\* to look at the first position.
JoinMoveNothing(a) ==
    /\ up
    /\ LockFree
    /\ node_count >= ReplicaCount
    /\ node_count < MaxDevices
    /\ \A d \in 1..node_count : Overfull(d, a) => 1 \notin Movable(d, a)
    /\ addr' = [addr EXCEPT ![Joiner] = a]
    /\ node_count' = node_count + 1
    /\ UNCHANGED <<up, tableVars, vnode_list, listVars, joinVars, handlerVars>>

-----------------------------------------------------------------------------
(* Beat-hearting: msg_device_report_handle and master_do_device_merge.       *)

\* The loop that hands out the device's sync events, under g_pdevice_chg_rwlock:
\* pop one and let go of the lock, or go on to the reported vnodes.
PopSyncEvent(a, dev) ==
    IF sync_list[dev] = <<>>
    THEN /\ pc' = [pc EXCEPT ![a] = "vnodes"]
         /\ UNCHANGED <<event, sync_list>>
    ELSE /\ pc' = [pc EXCEPT ![a] = "popped"]
         /\ event' = [event EXCEPT ![a] = [vnode |-> Head(sync_list[dev]).vnode,
                                           dest  |-> Head(sync_list[dev]).dest,
                                           src   |-> dev]]
         /\ sync_list' = [sync_list EXCEPT ![dev] = Tail(@)]

\* A beat from `a' reporting the units r.
ReportStart(a, r) ==
    /\ up
    /\ LockFree
    /\ pc[a] = "idle"
    /\ Known(a)
    /\ mine' = [mine EXCEPT ![a] = Range(vnode_list[DeviceAt(a)])]
    /\ report' = [report EXCEPT ![a] = r]
    /\ PopSyncEvent(a, DeviceAt(a))
    /\ UNCHANGED <<up, tableVars, deviceVars, syncing_list, joinVars, resp, down>>

Answer(a, v, s, dest) ==
    resp' = [resp EXCEPT ![a] = Append(@, [vnode |-> v, status |-> s, dest |-> dest])]

\* Mutant: the event handed out is not kept in syncing_list.
ReportSyncDrops(a) ==
    LET dev == DeviceAt(a)
        v   == event[a].vnode
    IN  /\ up
        /\ pc[a] = "popped"
        /\ Answer(a, v, replica_status[v][dev], addr[event[a].dest])
        /\ event' = [event EXCEPT ![a] = NoEvent]
        /\ pc' = [pc EXCEPT ![a] = "relock"]
        /\ UNCHANGED <<up, tableVars, deviceVars, listVars, joinVars, mine, report, down>>

\* The popped event becomes a syncing one and goes into the response, with the
\* status the device's replica has by now.
ReportSync(a) ==
    LET dev == DeviceAt(a)
        v   == event[a].vnode
    IN  /\ up
        /\ pc[a] = "popped"
        /\ syncing_list' = [syncing_list EXCEPT
               ![dev] = Append(@, [vnode |-> v, dest |-> event[a].dest])]
        /\ Answer(a, v, replica_status[v][dev], addr[event[a].dest])
        /\ event' = [event EXCEPT ![a] = NoEvent]
        /\ pc' = [pc EXCEPT ![a] = "relock"]
        /\ UNCHANGED <<up, tableVars, deviceVars, sync_list, joinVars, mine, report, down>>

ReportRelock(a) ==
    /\ up
    /\ LockFree
    /\ pc[a] = "relock"
    /\ PopSyncEvent(a, DeviceAt(a))
    /\ UNCHANGED <<up, tableVars, deviceVars, syncing_list, joinVars, mine, report, resp, down>>

\* A reported vnode the device should not have: it is told to delete it.
ReportStranger(a, u) ==
    /\ up
    /\ pc[a] = "vnodes"
    /\ u \in report[a]
    /\ u.vnode \notin mine[a]
    /\ report' = [report EXCEPT ![a] = @ \ {u}]
    /\ Answer(a, u.vnode, OFFLINE, NoAddr)
    /\ UNCHANGED <<up, tableVars, deviceVars, listVars, joinVars, pc, mine, event, down>>

\* A reported vnode that is a source: no answer; a destination: its status.
ReportSyncing(a, u) ==
    LET s == replica_status[u.vnode][DeviceAt(a)]
    IN  /\ up
        /\ pc[a] = "vnodes"
        /\ u \in report[a]
        /\ u.vnode \in mine[a]
        /\ IsSource(s) \/ s = WAIT_SYNC
        /\ report' = [report EXCEPT ![a] = @ \ {u}]
        /\ mine' = [mine EXCEPT ![a] = @ \ {u.vnode}]
        /\ IF IsSource(s) THEN UNCHANGED resp ELSE Answer(a, u.vnode, s, NoAddr)
        /\ UNCHANGED <<up, tableVars, deviceVars, listVars, joinVars, pc, event, down>>

\* Mutant: the two marks are swapped.
MarkStaleSwapped(v, dev, src) ==
    replica_status' = [replica_status EXCEPT ![v][src] = COPY_SRC, ![v][dev] = WAIT_SYNC]

\* The source is marked after the replica that reported: they may be the same.
MarkStale(v, dev, src) ==
    replica_status' = [replica_status EXCEPT ![v][dev] = WAIT_SYNC, ![v][src] = COPY_SRC]

\* A reported vnode older than the newest version known: choose a source.
ReportStale(a, u) ==
    LET dev == DeviceAt(a)
        v   == u.vnode
        src == get_read_replica(replica_list[v], replica_status[v], rd_req_robin[v])
    IN  /\ up
        /\ pc[a] = "vnodes"
        /\ u \in report[a]
        /\ v \in mine[a]
        /\ replica_status[v][dev] \notin {COPY_SRC, MOVE_SRC, WAIT_SYNC}
        /\ u.version < version[v]
        /\ report' = [report EXCEPT ![a] = @ \ {u}]
        /\ mine' = [mine EXCEPT ![a] = @ \ {v}]
        /\ rd_req_robin' = [rd_req_robin EXCEPT
               ![v] = ReadCursor(replica_list[v], replica_status[v], @)]
        /\ IF src = NoDevice
           THEN /\ replica_status' = [replica_status EXCEPT ![v][dev] = ONLINE]
                /\ Answer(a, v, ONLINE, NoAddr)
                /\ UNCHANGED <<pc, event>>
           ELSE /\ MarkStale(v, dev, src)
                /\ event' = [event EXCEPT ![a] = [vnode |-> v, dest |-> dev, src |-> src]]
                /\ pc' = [pc EXCEPT ![a] = "push"]
                /\ UNCHANGED resp
        /\ UNCHANGED <<up, replica_list, version, deviceVars, listVars, joinVars, down>>

\* The chosen source's device is handed the event, under the other lock.
ReportPush(a) ==
    LET e == event[a]
    IN  /\ up
        /\ LockFree
        /\ pc[a] = "push"
        /\ sync_list' = [sync_list EXCEPT
               ![e.src] = Append(@, [vnode |-> e.vnode, dest |-> e.dest])]
        /\ Answer(a, e.vnode, WAIT_SYNC, NoAddr)
        /\ event' = [event EXCEPT ![a] = NoEvent]
        /\ pc' = [pc EXCEPT ![a] = "vnodes"]
        /\ UNCHANGED <<up, tableVars, deviceVars, syncing_list, joinVars, mine, report, down>>

\* A reported vnode as new as the newest version known, or newer.
ReportCurrent(a, u) ==
    LET dev == DeviceAt(a)
        v   == u.vnode
        s   == IF u.version = version[v] THEN ACTIVE ELSE replica_status[v][dev]
    IN  /\ up
        /\ pc[a] = "vnodes"
        /\ u \in report[a]
        /\ v \in mine[a]
        /\ replica_status[v][dev] \notin {COPY_SRC, MOVE_SRC, WAIT_SYNC}
        /\ u.version >= version[v]
        /\ report' = [report EXCEPT ![a] = @ \ {u}]
        /\ mine' = [mine EXCEPT ![a] = @ \ {v}]
        /\ replica_status' = [replica_status EXCEPT ![v][dev] = s]
        /\ version' = [version EXCEPT ![v] = u.version]
        /\ Answer(a, v, s, NoAddr)
        /\ UNCHANGED <<up, replica_list, rd_req_robin, deviceVars, listVars, joinVars,
                       pc, event, down>>

\* A vnode of the device that the beat did not report.
ReportMissing(a, v) ==
    LET s == replica_status[v][DeviceAt(a)]
    IN  /\ up
        /\ pc[a] = "vnodes"
        /\ report[a] = {}
        /\ v \in mine[a]
        /\ mine' = [mine EXCEPT ![a] = @ \ {v}]
        /\ IF IsSource(s) THEN UNCHANGED resp ELSE Answer(a, v, s, NoAddr)
        /\ UNCHANGED <<up, tableVars, deviceVars, listVars, joinVars, pc, report, event, down>>

\* Everything is merged: the response is sent.
ReportReply(a) ==
    /\ up
    /\ pc[a] = "vnodes"
    /\ report[a] = {}
    /\ mine[a] = {}
    /\ pc' = [pc EXCEPT ![a] = "idle"]
    /\ resp' = [resp EXCEPT ![a] = <<>>]
    /\ UNCHANGED <<up, tableVars, deviceVars, listVars, joinVars, mine, report, event, down>>

-----------------------------------------------------------------------------
(* A source's report of the vnodes it finished: msg_sync_down_handle.        *)

SyncDownStart(a, vs) ==
    /\ up
    /\ LockFree
    /\ pc[a] = "idle"
    /\ Known(a)
    /\ down' = [down EXCEPT ![a] = vs]
    /\ pc' = [pc EXCEPT ![a] = "down"]
    /\ UNCHANGED <<up, tableVars, deviceVars, listVars, joinVars, mine, report, event, resp>>

\* The positions of a device's syncing_list with the vnode v.
SyncingAt(dev, v) == {i \in 1..Len(syncing_list[dev]) : syncing_list[dev][i].vnode = v}

\* Mutant: the loop goes on past the first event found.
PopSyncingAll(dev, v) ==
    syncing_list' = [syncing_list EXCEPT ![dev] = SelectSeq(@, LAMBDA e : e.vnode # v)]

\* pop_syncing_vnode() takes the first one off.
PopSyncing(dev, v) ==
    syncing_list' = [syncing_list EXCEPT ![dev] = RemoveAt(@, FirstOf(SyncingAt(dev, v)))]

\* The replicas of one finished vnode are looked up.  The master dies on it when
\* it knows no such event (get_replica_info's assert) or when one of the two
\* devices has no replica of the vnode (a null replica_info_ptr).
SyncDownFind(a) ==
    LET dev == DeviceAt(a)
        v   == Head(down[a])
        at  == SyncingAt(dev, v)
        e   == syncing_list[dev][FirstOf(at)]
    IN  /\ up
        /\ pc[a] = "down"
        /\ down[a] # <<>>
        /\ IF at = {} \/ ~({dev, e.dest} \subseteq Holders(replica_list[v]))
           THEN /\ up' = FALSE
                /\ UNCHANGED <<event, syncing_list, pc>>
           ELSE /\ event' = [event EXCEPT ![a] = [vnode |-> v, dest |-> e.dest, src |-> dev]]
                /\ PopSyncing(dev, v)
                /\ pc' = [pc EXCEPT ![a] = "dest"]
                /\ UNCHANGED up
        /\ UNCHANGED <<tableVars, deviceVars, sync_list, joinVars, mine, report, resp, down>>

\* The destination's replica becomes ACTIVE; no lock is held ...
SyncDownDest(a) ==
    /\ up
    /\ pc[a] = "dest"
    /\ replica_status' = [replica_status EXCEPT ![event[a].vnode][event[a].dest] = ACTIVE]
    /\ pc' = [pc EXCEPT ![a] = "src"]
    /\ UNCHANGED <<up, replica_list, version, rd_req_robin, deviceVars, listVars, joinVars,
                   mine, report, event, resp, down>>

\* Mutant: the source stays a source.
SyncDownSrcStays(a) ==
    /\ up
    /\ pc[a] = "src"
    /\ event' = [event EXCEPT ![a] = NoEvent]
    /\ down' = [down EXCEPT ![a] = Tail(@)]
    /\ pc' = [pc EXCEPT ![a] = "down"]
    /\ UNCHANGED <<up, tableVars, deviceVars, listVars, joinVars, mine, report, resp>>

\* ... and the source's too, unless it was moved away.
SyncDownSrc(a) ==
    LET v     == event[a].vnode
        src   == event[a].src
        moved == replica_status[v][src] = MOVE_SRC
    IN  /\ up
        /\ pc[a] = "src"
        /\ replica_status' = [replica_status EXCEPT ![v][src] = IF moved THEN INIT ELSE ACTIVE]
        /\ replica_list' = [replica_list EXCEPT
               ![v] = IF moved THEN destroy_replica_info(@, src) ELSE @]
        /\ event' = [event EXCEPT ![a] = NoEvent]
        /\ down' = [down EXCEPT ![a] = Tail(@)]
        /\ pc' = [pc EXCEPT ![a] = "down"]
        /\ UNCHANGED <<up, version, rd_req_robin, deviceVars, listVars, joinVars,
                       mine, report, resp>>

SyncDownReply(a) ==
    /\ up
    /\ pc[a] = "down"
    /\ down[a] = <<>>
    /\ pc' = [pc EXCEPT ![a] = "idle"]
    /\ UNCHANGED <<up, tableVars, deviceVars, listVars, joinVars, mine, report, event, resp, down>>

-----------------------------------------------------------------------------
\* A client asks where to read v: the cursor moves (VnodeAddr has the answer).
ClientRead(v) ==
    /\ up
    /\ rd_req_robin' = [rd_req_robin EXCEPT
           ![v] = ReadCursor(replica_list[v], replica_status[v], @)]
    /\ UNCHANGED <<up, replica_list, replica_status, version, deviceVars, listVars,
                   joinVars, handlerVars>>
=============================================================================
