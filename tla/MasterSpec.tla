------------------------------ MODULE MasterSpec ------------------------------
(***************************************************************************)
(* The master proxy among storage nodes of which it knows only this: a node *)
(* beats with any versions it likes, and reports as synchronized only       *)
(* vnodes it was told to be the source of, once for each time it was told.  *)
(* Nodes join, die, lose their memory and join again.                       *)
(***************************************************************************)
EXTENDS ProxyMaster

CONSTANTS MaxVersion,     \* bound: versions reported
          MaxEvents,      \* bound: sync events in the lists when a stale replica is met
          Batches         \* bound: what a sync-down message may list

ASSUME BoundsAssumption == MaxVersion \in Nat /\ MaxEvents \in Nat /\ Batches \subseteq Seq(Vnodes)

VARIABLE owed   \* owed[a][v]: syncs of v handed to a and not yet reported finished

vars == <<masterVars, owed>>

Reports == UNION {[V -> 0..MaxVersion] : V \in SUBSET Vnodes}
Units(r) == {[vnode |-> v, version |-> r[v]] : v \in DOMAIN r}

Init == /\ MasterInit
        /\ owed = [a \in Addrs |-> [v \in Vnodes |-> 0]]

\* How many times the response tells `a' to be the source of v.
Told(a, v) == Cardinality({i \in 1..Len(resp[a]) :
                              resp[a][i].vnode = v /\ IsSource(resp[a][i].status)})

\* The sync events handed out or waiting to be.
Events == FoldFunctionOnSet(+, 0, [d \in Devices |-> Len(sync_list[d]) + Len(syncing_list[d])], Devices)

Join == /\ \/ \E a \in Addrs : JoinStart(a) \/ JoinMoveDies(a) \/ JoinMoveNothing(a)
           \/ JoinVnode
           \/ JoinPush
           \/ JoinDone
           \/ JoinFails
        /\ UNCHANGED owed

Merge(a) == /\ \/ \E r \in Reports : ReportStart(a, Units(r))
               \/ ReportSync(a)
               \/ ReportRelock(a)
               \/ \E u \in report[a] : \/ ReportStranger(a, u)
                                       \/ ReportSyncing(a, u)
                                       \/ ReportStale(a, u) /\ Events < MaxEvents
                                       \/ ReportCurrent(a, u)
               \/ ReportPush(a)
               \/ \E v \in mine[a] : ReportMissing(a, v)
            /\ UNCHANGED owed

\* The response reaches the node, which may now report the syncs it is told of.
Reply(a) == /\ ReportReply(a)
            /\ owed' = [owed EXCEPT ![a] = [v \in Vnodes |-> @[v] + Told(a, v)]]

\* How often a message lists v.
Listed(vs, v) == Cardinality({i \in 1..Len(vs) : vs[i] = v})

\* The node reports what it finished: a vnode as often as it was told, at most.
Finish(a, vs) == /\ \A v \in Vnodes : Listed(vs, v) <= owed[a][v]
                 /\ SyncDownStart(a, vs)
                 /\ owed' = [owed EXCEPT ![a] = [v \in Vnodes |-> @[v] - Listed(vs, v)]]

SyncDown(a) == /\ \/ SyncDownFind(a) \/ SyncDownDest(a)
                   \/ SyncDownSrc(a) \/ SyncDownReply(a)
               /\ UNCHANGED owed

Read == /\ \E v \in Vnodes : ClientRead(v)
        /\ UNCHANGED owed

Next == \/ Join
        \/ \E a \in Addrs : \/ Merge(a) \/ Reply(a)
                            \/ \E vs \in Batches : Finish(a, vs)
                            \/ SyncDown(a)
        \/ Read

Spec == Init /\ [][Next]_vars

\* The same master while no node beats.
JoinSpec == Init /\ [][Join]_vars

-----------------------------------------------------------------------------
(* Properties                                                                *)

LocalEvents == [vnode : Vnodes, dest : Devices \cup {NoDevice}, src : Devices \cup {NoDevice}]
RespUnits   == [vnode : Vnodes, status : Statuses, dest : Addrs \cup {NoAddr}]
HandlerPcs  == {"idle", "popped", "relock", "vnodes", "push", "down", "dest", "src"}

\* Every variable has its type.
TableTypes ==
    /\ replica_list \in [Vnodes -> Seq(Devices)]
    /\ replica_status \in [Vnodes -> [Devices -> Statuses]]
    /\ version \in [Vnodes -> Nat]
    /\ rd_req_robin \in [Vnodes -> Nat]
DeviceTypes ==
    /\ node_count \in 0..MaxDevices
    /\ addr \in [Devices -> Addrs \cup {NoAddr}]
    /\ vnode_list \in [Devices -> Seq(Vnodes)]
ListTypes ==
    /\ sync_list \in [Devices -> Seq(SyncEvents)]
    /\ syncing_list \in [Devices -> Seq(SyncEvents)]
JoinTypes ==
    /\ join \in [pc : {"none", "copy", "push"}, next : 0..VnodeCount,
                 src : Devices \cup {NoDevice}]
    /\ alloc_fails \in 0..MaxAllocFails
HandlerTypes ==
    /\ pc \in [Addrs -> HandlerPcs]
    /\ mine \in [Addrs -> SUBSET Vnodes]
    /\ report \in [Addrs -> SUBSET [vnode : Vnodes, version : Nat]]
    /\ event \in [Addrs -> LocalEvents]
    /\ resp \in [Addrs -> Seq(RespUnits)]
    /\ down \in [Addrs -> Seq(Vnodes)]
TypeOK ==
    /\ up \in BOOLEAN
    /\ TableTypes
    /\ DeviceTypes
    /\ ListTypes
    /\ JoinTypes
    /\ HandlerTypes
    /\ owed \in [Addrs -> [Vnodes -> Nat]]

\* No two replicas of a vnode share a zone, at any moment of any number of
\* joins and rejoins (vnode_info::is_diff_zones guards every push).
ZoneSeparation ==
    \A v \in Vnodes : \A i, j \in 1..Len(replica_list[v]) :
        i # j => zoneOf[replica_list[v][i]] # zoneOf[replica_list[v][j]]

\* A device lists a vnode exactly when the vnode lists the device, also across
\* a join that fails half way (replica_list and vnode_list are separate copies
\* of the same relation; the merge dereferences one by the other).
ListsAgree ==
    \A v \in Vnodes, d \in Devices :
        v \in Range(vnode_list[d]) <=> d \in Holders(replica_list[v])

\* No vnode is ever left without a replica that has its data, whatever joins,
\* stale reports and finished syncs do to the statuses (the two status writes of
\* master_do_device_merge may be to the same replica).
HasData(s) == s \in {ACTIVE, COPY_SRC, MOVE_SRC}
SomeCopy ==
    \A v \in Vnodes : replica_list[v] # <<>> =>
        \E d \in Holders(replica_list[v]) : HasData(replica_status[v][d])

\* A sync of v by the device src to the device dest that is under way: in one of
\* src's lists, or in the hands of a handler of a beat or a sync-down.
UnderWay(v, src, dest) ==
    \/ [vnode |-> v, dest |-> dest] \in Range(sync_list[src]) \cup Range(syncing_list[src])
    \/ \E a \in Addrs : event[a] = [vnode |-> v, dest |-> dest, src |-> src]

\* A replica waiting for data is the destination of a sync under way: nobody
\* would ever choose another source for it (master_do_device_merge only answers
\* WAIT_SYNC to the reports of such a replica).
WaitSyncHasEvent ==
    \A v \in Vnodes : \A d \in Holders(replica_list[v]) :
        replica_status[v][d] = WAIT_SYNC => \E s \in Devices : UnderWay(v, s, d)

\* A replica is held back as a source only while it has a sync to do: reads do not
\* see it, and only msg_sync_down_handle gives it back.
SourceHasWork ==
    \A v \in Vnodes : \A d \in Holders(replica_list[v]) :
        replica_status[v][d] = COPY_SRC => \E t \in Devices : UnderWay(v, d, t)

\* The master never meets a sync-down it has no event for (get_replica_info's
\* assert(preplica), node_info.cpp:141, and the null replicas after it), so it
\* stays up.  It moves no vnode as long as MaxDevices <= ReplicaCount.
MasterStaysUp == up

=============================================================================
