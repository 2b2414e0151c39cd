------------------------------ MODULE KunlunSync ------------------------------
(***************************************************************************)
(* The master and its storage nodes: the nodes send what their threads send *)
(* and no longer what they like.  A node has one connection to the master;  *)
(* nodes die and start again, and requests go unanswered, MaxFaults times.  *)
(***************************************************************************)
EXTENDS MasterSpec

CONSTANT MaxFaults   \* bound: crashes and timeouts

ASSUME FaultsAssumption == MaxFaults \in Nat

VARIABLES beat, msg, units, container, sync_queue, syncer, sync_down, uploads,
          faults    \* crashes and timeouts so far

Node == INSTANCE StorageNode

nodeVars == <<beat, msg, units, container, sync_queue, syncer, sync_down, uploads>>
sysVars == <<vars, nodeVars, faults>>

SysInit == /\ Init
           /\ Node!NodeInit
           /\ faults = 0

Apart == UNCHANGED <<faults, owed>>

-----------------------------------------------------------------------------
(* Steps of a storage node alone.                                            *)

Joining == {a \in Addrs : beat[a] = "join"}

Start(a) == /\ up
            /\ node_count + Cardinality(Joining) < MaxDevices
            /\ pc[a] = "idle" /\ addr[Joiner] # a
            /\ Node!NodeStart(a)

Beats(a) == \/ Node!NodeBeat(a) \/ Node!MergeUnit(a) \/ Node!MergeDone(a)

Syncs(a) == \/ Node!SyncSend(a) \/ Node!SyncUnreachable(a)
            \/ Node!FileCheck(a) \/ Node!SyncPush(a)

Uploads(a) == \E v \in Vnodes :
    Node!UploadStart(a, v) \/ Node!UploadEnd(a, v) \/ Node!UploadFails(a, v)

NodeStep(a) == /\ Start(a) \/ Beats(a) \/ Syncs(a) \/ Uploads(a)
               /\ UNCHANGED masterVars
               /\ Apart

Fault(a) == /\ faults < MaxFaults
            /\ faults' = faults + 1
            /\ Node!NodeCrash(a) \/ Node!BeatTimeout(a) \/ Node!SyncTimeout(a)
            /\ UNCHANGED masterVars
            /\ UNCHANGED owed

-----------------------------------------------------------------------------
(* Steps of the master, and what they do to the node that asked.             *)

JoinTaken(a) == /\ msg[a].kind = "join"
                /\ JoinStart(a)
                /\ Node!Taken(a)
                /\ Apart

JoinTurn == /\ JoinVnode \/ JoinPush
            /\ UNCHANGED nodeVars
            /\ Apart

Joined(a) == /\ ~LockFree /\ addr[Joiner] = a
             /\ \/ JoinDone /\ Node!NodeJoined(a, TRUE)
                \/ JoinFails /\ Node!NodeJoined(a, FALSE)
             /\ Apart

BeatTaken(a) == /\ msg[a].kind = "beat"
                /\ ReportStart(a, msg[a].units)
                /\ Node!Taken(a)
                /\ Apart

MergeReport(a) == /\ \/ ReportSync(a)
                     \/ ReportRelock(a)
                     \/ \E u \in report[a] : \/ ReportStranger(a, u)
                                             \/ ReportSyncing(a, u)
                                             \/ ReportStale(a, u) /\ Events < MaxEvents
                                             \/ ReportCurrent(a, u)
                     \/ ReportPush(a)
                     \/ \E v \in mine[a] : ReportMissing(a, v)
                  /\ UNCHANGED nodeVars
                  /\ Apart

Respond(a) == /\ ReportReply(a)
              /\ Node!NodeResponse(a, resp[a])
              /\ owed' = [owed EXCEPT ![a] = [v \in Vnodes |-> @[v] + Told(a, v)]]
              /\ UNCHANGED faults

FinishTaken(a) == /\ msg[a].kind = "down"
                  /\ SyncDownStart(a, msg[a].vnodes)
                  /\ Node!Taken(a)
                  /\ owed' = [owed EXCEPT ![a] = [v \in Vnodes |->
                                 @[v] - Listed(msg[a].vnodes, v)]]
                  /\ UNCHANGED faults

FinishTurn(a) == /\ SyncDownFind(a) \/ SyncDownDest(a) \/ SyncDownSrc(a)
                 /\ UNCHANGED nodeVars
                 /\ Apart

FinishAnswer(a) == /\ SyncDownReply(a)
                   /\ Node!NodeDownAnswered(a)
                   /\ Apart

MasterStep(a) == \/ JoinTaken(a) \/ Joined(a)
                 \/ BeatTaken(a) \/ MergeReport(a) \/ Respond(a)
                 \/ FinishTaken(a) \/ FinishTurn(a) \/ FinishAnswer(a)

SysNext == \/ JoinTurn
           \/ \E a \in Addrs : NodeStep(a) \/ MasterStep(a) \/ Fault(a)

SysSpec == SysInit /\ [][SysNext]_sysVars

\* The threads that loop for ever: the workers of the master, the beat thread and
\* the sync thread of a node that runs, and the worker of the destination of a
\* file check.  Nothing makes a node start, a client upload or anything fail.
BeatThread(a) == Beats(a) /\ UNCHANGED masterVars /\ Apart
SyncThread(a) == Syncs(a) /\ UNCHANGED masterVars /\ Apart

FairSpec == /\ SysSpec
            /\ WF_sysVars(JoinTurn)
            /\ \A a \in Addrs : /\ WF_sysVars(MasterStep(a))
                                /\ WF_sysVars(BeatThread(a))
                                /\ WF_sysVars(SyncThread(a))

-----------------------------------------------------------------------------
(* Properties                                                                *)

\* Every variable of the storage nodes has its type.
Version     == 0..MaxVersion
Containers  == UNION {[V -> [status : Statuses, version : Version]] : V \in SUBSET Vnodes}
QueuedSyncs == [vnode : Vnodes, dest : Addrs \cup {NoAddr}]
MessageTypes ==
    /\ DOMAIN msg = Addrs
    /\ \A a \in Addrs :
         /\ msg[a].kind \in {"none", "join", "beat", "down"}
         /\ msg[a].kind = "beat" => \E r \in Reports : msg[a].units = Units(r)
         /\ msg[a].kind = "down" => msg[a].vnodes \in Seq(Vnodes) /\ msg[a].vnodes # <<>>
SyncerTypes ==
    /\ DOMAIN syncer = Addrs
    /\ \A a \in Addrs :
         /\ syncer[a].pc \in {"idle", "check", "push", "dead"}
         /\ syncer[a].pc \in {"check", "push"} => syncer[a].vnode \in Vnodes
         /\ syncer[a].pc = "check" => syncer[a].dest \in Addrs /\ syncer[a].version \in Version
NodesTypeOK ==
    /\ beat \in [Addrs -> {"off", "join", "rest", "wait", "merge", "down", "dead"}]
    /\ units \in [Addrs -> Seq(RespUnits)]
    /\ container \in [Addrs -> Containers]
    /\ sync_queue \in [Addrs -> Seq(QueuedSyncs)]
    /\ sync_down \in [Addrs -> Seq(Vnodes)]
    /\ uploads \in [Addrs -> SUBSET Vnodes]
    /\ faults \in 0..MaxFaults
    /\ MessageTypes
    /\ SyncerTypes

\* The master among real storage nodes is the master that MasterSpec describes:
\* its nodes report as finished only what they were told to sync, as often.
MasterRefined == Spec

\* The syncs of v the node a has in hand, from its response to its report.
InHand(a, v) ==
      Cardinality({i \in 1..Len(units[a]) : units[a][i].vnode = v /\ IsSource(units[a][i].status)})
    + Cardinality({i \in 1..Len(sync_queue[a]) : sync_queue[a][i].vnode = v})
    + (IF syncer[a].pc \in {"check", "push"} /\ syncer[a].vnode = v THEN 1 ELSE 0)
    + Listed(sync_down[a], v)
    + (IF msg[a].kind = "down" THEN Listed(msg[a].vnodes, v) ELSE 0)

\* Every sync a node will report has an event in the master's syncing_list of the
\* device it reports as: get_replica_info() asserts it finds it.
SyncsAreKnown ==
    \A a \in Addrs, v \in Vnodes :
        InHand(a, v) + (IF pc[a] \in {"down", "dest", "src"} THEN
                            Listed(down[a], v) - (IF pc[a] # "down" /\ event[a].vnode = v
                                                         THEN 1 ELSE 0)
                        ELSE 0)
        <= IF Known(a) THEN Cardinality(SyncingAt(DeviceAt(a), v)) ELSE 0

\* The vnode of a sync is in the node's container until the sync thread has read
\* its version: the thread dereferences what get_vnode() returns.
SyncedVnodeKept ==
    \A a \in Addrs : \A i \in 1..Len(sync_queue[a]) :
        sync_queue[a][i].vnode \in DOMAIN container[a]

-----------------------------------------------------------------------------
(* Liveness: FairSpec, with bounds on events that nothing ever meets.         *)

\* Every request of a running node is answered: the master's handlers do not wait
\* for one another for ever, nor does the beat thread for the sync thread's lock.
RequestsAnswered ==
    \A a \in Addrs : beat[a] \in {"join", "wait", "merge", "down"}
                        ~> beat[a] \in {"rest", "dead"}

\* Every sync event is handed out, checked at the destination and given to the beat
\* thread for its report, as long as nothing fails.
SyncsCarriedOut ==
    \A d \in Devices : \A e \in SyncEvents :
        (e \in Range(sync_list[d])) ~>
            (addr[d] # NoAddr /\ e.vnode \in Range(sync_down[addr[d]]))

\* vnode_balancer.cpp:96-101: the next beat returns the sync event to the source and
\* "the sync event will be completed by beat heart operation" - a replica does not
\* wait for data for ever while every node runs and nothing fails.
SyncCompleted ==
    \A v \in Vnodes, d \in Devices :
        (replica_status[v][d] = WAIT_SYNC) ~> (replica_status[v][d] # WAIT_SYNC)

=============================================================================
