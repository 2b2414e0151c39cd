----------------------------- MODULE MasterProofs -----------------------------
(***************************************************************************)
(* Invariants of the master proxy for any nodes, zones, weights, vnodes,     *)
(* replica count and bounds.                                                *)
(***************************************************************************)
EXTENDS MasterSpec, VnodeInfoProofs

-----------------------------------------------------------------------------
(* Types                                                                     *)

\* A handler past its start has found its device in the container.
Registered == \A a \in Addrs : pc[a] # "idle" => Known(a)

\* A join in progress has room for its device, and a vnode to push it on.
JoinOK == /\ join.pc # "none" => node_count < MaxDevices
          /\ join.pc = "push" => join.next < VnodeCount

\* An event popped or about to be pushed has two devices; a finished sync being
\* merged is the first of those reported.
EventOK == \A a \in Addrs :
    /\ pc[a] \in {"popped", "push"} => event[a].dest \in Devices /\ event[a].src \in Devices
    /\ pc[a] \in {"dest", "src"} => down[a] # <<>>

TypeInv == TypeOK /\ Registered /\ JoinOK /\ EventOK

LEMMA Bounds == /\ MaxDevices \in Nat /\ VnodeCount \in Nat /\ 0 < VnodeCount
                /\ NoDevice \notin Devices /\ Devices \subseteq Nat /\ Vnodes \subseteq Nat
BY CountsAssumption DEF Devices, Vnodes, NoDevice

LEMMA DeviceAtType ==
    ASSUME DeviceTypes, NEW a, Known(a)
    PROVE  DeviceAt(a) \in 1..node_count /\ DeviceAt(a) \in Devices /\ addr[DeviceAt(a)] = a
<1> DEFINE at == {d \in 1..node_count : addr[d] = a}
<1>1. node_count \in 0..MaxDevices
  BY DEF DeviceTypes
<1>2. at \subseteq Nat /\ at # {}
  BY <1>1, Bounds DEF Known
<1>3. FirstOf(at) \in at
  BY <1>2, FirstOfLemma
<1> QED
  BY <1>1, <1>3, Bounds DEF DeviceAt, Devices

\* Devices that were found stay found: the container only grows.
LEMMA RegisteredStays ==
    ASSUME DeviceTypes, Registered, node_count' \in Nat, node_count <= node_count',
           \A d \in 1..node_count : addr'[d] = addr[d], UNCHANGED pc
    PROVE  Registered'
<1> SUFFICES ASSUME NEW a \in Addrs, pc'[a] # "idle" PROVE Known(a)'
  BY DEF Registered
<1>1. node_count \in Nat
  BY Bounds DEF DeviceTypes
<1>2. PICK d \in 1..node_count : addr[d] = a
  BY DEF Registered, Known
<1>3. d \in 1..node_count' /\ addr'[d] = a
  BY <1>1, <1>2
<1> QED
  BY <1>3 DEF Known

\* The source chosen for v is none or one of its holders, and is ACTIVE.
LEMMA SourceChosen ==
    ASSUME TableTypes, NEW v \in Vnodes
    PROVE  LET src == get_read_replica(replica_list[v], replica_status[v], rd_req_robin[v])
           IN  /\ src \in Devices \cup {NoDevice}
               /\ IF src = NoDevice
                  THEN \A d \in Holders(replica_list[v]) : replica_status[v][d] # ACTIVE
                  ELSE src \in Holders(replica_list[v]) /\ replica_status[v][src] = ACTIVE
<1> DEFINE src == get_read_replica(replica_list[v], replica_status[v], rd_req_robin[v])
<1>1. /\ NoDevice \notin Devices
      /\ replica_list[v] \in Seq(Devices)
      /\ replica_status[v] \in [Devices -> Statuses]
      /\ rd_req_robin[v] \in Nat
  BY Bounds DEF TableTypes
<1>2. IF src = NoDevice
      THEN \A d \in Holders(replica_list[v]) : replica_status[v][d] # ACTIVE
      ELSE src \in Holders(replica_list[v]) /\ replica_status[v][src] = ACTIVE
  BY <1>1, ReadReplicaCorrect
<1>3. Holders(replica_list[v]) \subseteq Devices
  BY <1>1, ElementOfSeq DEF Holders
<1> HIDE DEF src
<1> QED
  BY <1>2, <1>3 DEF src

LEMMA CursorType ==
    ASSUME TableTypes, NEW v \in Vnodes
    PROVE  ReadCursor(replica_list[v], replica_status[v], rd_req_robin[v]) \in Nat
BY ReadCursorType DEF TableTypes

\* Writing one status keeps the table's type.
LEMMA StatusType ==
    ASSUME NEW f \in [Vnodes -> [Devices -> Statuses]], NEW v, NEW d, NEW s \in Statuses
    PROVE  [f EXCEPT ![v][d] = s] \in [Vnodes -> [Devices -> Statuses]]
OBVIOUS

\* The statuses are statuses.
LEMMA StatusesLemma == {INIT, ONLINE, WAIT_SYNC, COPY_SRC, MOVE_SRC, ACTIVE, OFFLINE} \subseteq Statuses
BY DEF Statuses, INIT, ONLINE, WAIT_SYNC, COPY_SRC, MOVE_SRC, ACTIVE, OFFLINE

\* What a step leaves alone keeps its type.
LEMMA TypesStay ==
    /\ TableTypes /\ UNCHANGED tableVars => TableTypes'
    /\ DeviceTypes /\ UNCHANGED deviceVars => DeviceTypes'
    /\ ListTypes /\ UNCHANGED listVars => ListTypes'
    /\ JoinTypes /\ UNCHANGED joinVars => JoinTypes'
    /\ HandlerTypes /\ UNCHANGED handlerVars => HandlerTypes'
    /\ Registered /\ UNCHANGED <<deviceVars, pc>> => Registered'
    /\ EventOK /\ UNCHANGED <<pc, event, down>> => EventOK'
    /\ JoinOK /\ UNCHANGED <<node_count, join>> => JoinOK'
BY DEF TableTypes, DeviceTypes, ListTypes, JoinTypes, HandlerTypes, Registered, EventOK, JoinOK,
       tableVars, deviceVars, listVars, joinVars, handlerVars, Known

LEMMA JoinStepTypes ==
    ASSUME TypeInv, Join
    PROVE  TypeInv'
<1> USE DEF TypeInv, TypeOK
<1>0. UNCHANGED owed
  BY DEF Join
<1>1. ASSUME NEW a \in Addrs, JoinStart(a) PROVE TypeInv'
  <2> USE <1>1 DEF JoinStart
  <2>1. /\ node_count \in Nat /\ Joiner \in Devices /\ Joiner \notin 1..node_count
        /\ UNCHANGED <<node_count, vnode_list>> /\ addr' = [addr EXCEPT ![Joiner] = a]
    BY Bounds DEF Joiner, Devices, DeviceTypes
  <2>2. DeviceTypes' /\ \A d \in 1..node_count : addr'[d] = addr[d]
    BY <2>1, Bounds DEF DeviceTypes, Devices
  <2>3. JoinTypes' /\ JoinOK'
    BY Bounds DEF JoinTypes, JoinOK, NoJoin
  <2>4. Registered'
    BY <2>1, <2>2, RegisteredStays DEF handlerVars
  <2> QED
    BY <1>0, <2>2, <2>3, <2>4, TypesStay DEF handlerVars
<1>2. CASE JoinVnode
  <2> USE <1>2 DEF JoinVnode
  <2> DEFINE v == join.next
             src == get_read_replica(replica_list[v], replica_status[v], rd_req_robin[v])
             new == [vnode |-> v, dest |-> Joiner]
  <2>1. v \in Vnodes /\ Joiner \in Devices /\ new \in SyncEvents
    BY Bounds DEF JoinTypes, JoinOK, DeviceTypes, Vnodes, Devices, Joiner, SyncEvents
  <2>2. src \in Devices \cup {NoDevice}
    BY <2>1, SourceChosen
  <2>3. ReadCursor(replica_list[v], replica_status[v], rd_req_robin[v]) \in Nat
    BY <2>1, CursorType
  <2> HIDE DEF src, new
  <2>4. TableTypes' /\ ListTypes' /\ JoinTypes' /\ JoinOK'
    <3>1. CASE ~is_diff_zones(replica_list[v], zoneOf, zoneOf[Joiner])
      <4>1. join' = [join EXCEPT !.next = v + 1] /\ v + 1 \in 0..VnodeCount
        BY <2>1, <3>1, Bounds DEF Vnodes
      <4> QED
        BY <3>1, <4>1 DEF TableTypes, ListTypes, JoinTypes, JoinOK, deviceVars
    <3>2. CASE is_diff_zones(replica_list[v], zoneOf, zoneOf[Joiner])
      <4>1. /\ join' = [join EXCEPT !.pc = "push", !.src = src]
            /\ rd_req_robin' = [rd_req_robin EXCEPT
                   ![v] = ReadCursor(replica_list[v], replica_status[v], @)]
            /\ UNCHANGED <<replica_list, version, syncing_list, alloc_fails, node_count>>
            /\ IF src = NoDevice
               THEN UNCHANGED <<replica_status, sync_list>>
               ELSE /\ replica_status' = [replica_status EXCEPT ![v][src] = COPY_SRC]
                    /\ sync_list' = [sync_list EXCEPT ![src] = Append(@, new)]
        BY <3>2 DEF src, new, deviceVars
      <4>2. replica_status' \in [Vnodes -> [Devices -> Statuses]]
        <5>1. CASE src = NoDevice
          BY <4>1, <5>1 DEF TableTypes
        <5>2. CASE src # NoDevice
          <6>1. [replica_status EXCEPT ![v][src] = COPY_SRC] \in [Vnodes -> [Devices -> Statuses]]
            BY StatusType, StatusesLemma DEF TableTypes
          <6> QED
            BY <4>1, <5>2, <6>1
        <5> QED
          BY <5>1, <5>2
      <4>3. rd_req_robin' \in [Vnodes -> Nat]
        BY <4>1, <2>3 DEF TableTypes
      <4>4. sync_list' \in [Devices -> Seq(SyncEvents)]
        <5>1. CASE src = NoDevice
          BY <4>1, <5>1 DEF ListTypes
        <5>2. CASE src # NoDevice
          <6>1. src \in Devices /\ sync_list[src] \in Seq(SyncEvents)
            BY <2>2, <5>2 DEF ListTypes
          <6>2. Append(sync_list[src], new) \in Seq(SyncEvents)
            BY <2>1, <6>1, AppendProperties
          <6> QED
            BY <4>1, <5>2, <6>2 DEF ListTypes
        <5> QED
          BY <5>1, <5>2
      <4>5. JoinTypes' /\ JoinOK'
        BY <4>1, <2>2 DEF JoinTypes, JoinOK
      <4> QED
        BY <4>1, <4>2, <4>3, <4>4, <4>5 DEF TableTypes, ListTypes
    <3> QED
      BY <3>1, <3>2
  <2> QED
    BY <1>0, <2>4, TypesStay DEF deviceVars, handlerVars
<1>3. CASE JoinPush
  <2> USE <1>3 DEF JoinPush
  <2>1. join.next \in Vnodes /\ Joiner \in Devices
    BY Bounds DEF JoinTypes, JoinOK, DeviceTypes, Vnodes, Devices, Joiner
  <2>2. TableTypes'
    <3>1. replica_list' \in [Vnodes -> Seq(Devices)]
      BY <2>1, AppendProperties DEF TableTypes
    <3>2. replica_status' \in [Vnodes -> [Devices -> Statuses]]
      BY StatusType, StatusesLemma DEF TableTypes
    <3> QED
      BY <3>1, <3>2 DEF TableTypes
  <2>3. vnode_list' \in [Devices -> Seq(Vnodes)]
    BY <2>1, AppendProperties DEF DeviceTypes
  <2>4. JoinTypes' /\ JoinOK'
    BY <2>1, Bounds DEF JoinTypes, JoinOK, Vnodes
  <2> QED
    BY <1>0, <2>2, <2>3, <2>4, TypesStay DEF DeviceTypes, Registered, Known, handlerVars
<1>4. CASE JoinDone
  <2> USE <1>4 DEF JoinDone
  <2>1. node_count \in Nat /\ node_count + 1 \in 0..MaxDevices
    BY Bounds DEF DeviceTypes, JoinOK
  <2>2. DeviceTypes' /\ JoinTypes' /\ JoinOK'
    BY <2>1, Bounds DEF DeviceTypes, JoinTypes, JoinOK, NoJoin
  <2>3. Registered'
    BY <2>1, RegisteredStays DEF handlerVars
  <2> QED
    BY <1>0, <2>2, <2>3, TypesStay DEF handlerVars
<1>5. CASE JoinFails
  <2> USE <1>5 DEF JoinFails
  <2>1. node_count \in Nat /\ Joiner \notin 1..node_count
    BY Bounds DEF DeviceTypes, Joiner
  <2>2. TableTypes'
    <3>1. replica_list' \in [Vnodes -> Seq(Devices)]
      BY DestroyLemma DEF TableTypes
    <3>2. replica_status' \in [Vnodes -> [Devices -> Statuses]]
      BY StatusesLemma DEF TableTypes
    <3> QED
      BY <3>1, <3>2 DEF TableTypes
  <2>3. DeviceTypes' /\ \A d \in 1..node_count : addr'[d] = addr[d]
    <3>1. \A d \in 1..node_count : d \in Devices
      BY <2>1, Bounds DEF Devices, DeviceTypes
    <3> QED
      BY <2>1, <3>1, EmptySeq DEF DeviceTypes
  <2>4. alloc_fails' \in 0..MaxAllocFails
    BY CountsAssumption DEF JoinTypes
  <2>5. JoinTypes' /\ JoinOK'
    BY <2>4, Bounds DEF JoinTypes, JoinOK, NoJoin
  <2>6. Registered'
    BY <2>1, <2>3, RegisteredStays DEF handlerVars
  <2> QED
    BY <1>0, <2>2, <2>3, <2>5, <2>6, TypesStay DEF handlerVars
<1>6. ASSUME NEW a \in Addrs, JoinMoveDies(a) PROVE TypeInv'
  <2> USE <1>6 DEF JoinMoveDies
  <2>1. PICK d \in 1..node_count : \E i \in Movable(d, a) :
            replica_status' = [replica_status EXCEPT ![vnode_list[d][i]][d] = MOVE_SRC]
    OBVIOUS
  <2>2. PICK i \in Movable(d, a) :
            replica_status' = [replica_status EXCEPT ![vnode_list[d][i]][d] = MOVE_SRC]
    BY <2>1
  <2>3. [replica_status EXCEPT ![vnode_list[d][i]][d] = MOVE_SRC]
            \in [Vnodes -> [Devices -> Statuses]]
    BY StatusType, StatusesLemma DEF TableTypes
  <2>4. TableTypes'
    BY <2>2, <2>3 DEF TableTypes
  <2> QED
    BY <1>0, <2>4, TypesStay DEF deviceVars, joinVars, handlerVars
<1>7. ASSUME NEW a \in Addrs, JoinMoveNothing(a) PROVE TypeInv'
  <2> USE <1>7 DEF JoinMoveNothing
  <2>1. /\ node_count \in Nat /\ Joiner \in Devices /\ Joiner \notin 1..node_count
        /\ node_count + 1 \in 0..MaxDevices
    BY Bounds DEF Joiner, Devices, DeviceTypes
  <2>2. DeviceTypes' /\ \A d \in 1..node_count : addr'[d] = addr[d]
    BY <2>1, Bounds DEF DeviceTypes, Devices
  <2>3. JoinOK'
    BY DEF JoinOK, LockFree, joinVars
  <2>4. Registered'
    BY <2>1, <2>2, RegisteredStays DEF handlerVars
  <2> QED
    BY <1>0, <2>2, <2>3, <2>4, TypesStay DEF handlerVars
<1> QED
  BY <1>1, <1>2, <1>3, <1>4, <1>5, <1>6, <1>7 DEF Join

\* An answer in the response keeps the handlers' types.
LEMMA AnswerType ==
    ASSUME HandlerTypes, NEW a \in Addrs, NEW v \in Vnodes, NEW s \in Statuses,
           NEW dest \in Addrs \cup {NoAddr}, Answer(a, v, s, dest)
    PROVE  resp' \in [Addrs -> Seq(RespUnits)]
<1>1. [vnode |-> v, status |-> s, dest |-> dest] \in RespUnits
  BY DEF RespUnits
<1> QED
  BY <1>1, AppendProperties DEF Answer, HandlerTypes

\* So does popping an event off the list of the handler's device.
LEMMA PopSyncEventType ==
    ASSUME HandlerTypes, ListTypes, EventOK, NEW a \in Addrs, NEW dev \in Devices,
           PopSyncEvent(a, dev), UNCHANGED down
    PROVE  /\ pc' \in [Addrs -> HandlerPcs]
           /\ event' \in [Addrs -> LocalEvents]
           /\ sync_list' \in [Devices -> Seq(SyncEvents)]
           /\ EventOK'
           /\ \A b \in Addrs : b # a => pc'[b] = pc[b]
<1>1. CASE sync_list[dev] = <<>>
  BY <1>1 DEF PopSyncEvent, HandlerTypes, ListTypes, EventOK, HandlerPcs
<1>2. CASE sync_list[dev] # <<>>
  <2> DEFINE e == Head(sync_list[dev])
             l == [vnode |-> e.vnode, dest |-> e.dest, src |-> dev]
  <2>1. e \in SyncEvents /\ Tail(sync_list[dev]) \in Seq(SyncEvents)
    BY <1>2, HeadTailProperties DEF ListTypes
  <2>2. l \in LocalEvents /\ l.dest \in Devices /\ l.src \in Devices
    BY <2>1 DEF SyncEvents, LocalEvents
  <2>3. /\ pc' = [pc EXCEPT ![a] = "popped"]
        /\ event' = [event EXCEPT ![a] = l]
        /\ sync_list' = [sync_list EXCEPT ![dev] = Tail(@)]
    BY <1>2 DEF PopSyncEvent
  <2> HIDE DEF l
  <2> QED
    BY <2>1, <2>2, <2>3 DEF HandlerTypes, ListTypes, EventOK, HandlerPcs
<1> QED
  BY <1>1, <1>2

\* The container does not change while a handler of a beat or a sync-down steps.
LEMMA RegisteredStep ==
    ASSUME Registered, NEW a \in Addrs, pc[a] # "idle" \/ Known(a), UNCHANGED deviceVars,
           \A b \in Addrs : b # a => pc'[b] = pc[b]
    PROVE  Registered'
BY DEF Registered, Known, deviceVars

LEMMA MergeStepTypes ==
    ASSUME TypeInv, NEW a \in Addrs, Merge(a)
    PROVE  TypeInv'
<1> USE DEF TypeInv, TypeOK
<1>0. UNCHANGED owed
  BY DEF Merge
<1> DEFINE dev == DeviceAt(a)
<1>10. Known(a) => dev \in Devices
  BY DeviceAtType
<1>11. pc[a] # "idle" => dev \in Devices
  BY <1>10 DEF Registered
<1>12. NoEvent \in LocalEvents /\ NoAddr \in Addrs \cup {NoAddr}
  BY Bounds DEF LocalEvents, NoEvent, Vnodes
<1> HIDE DEF dev
<1>1. ASSUME NEW r \in Reports, ReportStart(a, Units(r)) PROVE TypeInv'
  <2> USE <1>1 DEF ReportStart
  <2>1. PopSyncEvent(a, dev) /\ dev \in Devices
    BY <1>10 DEF dev
  <2>2. Range(vnode_list[dev]) \in SUBSET Vnodes
    BY <2>1, RangeOfSeq DEF DeviceTypes
  <2>3. Units(r) \in SUBSET [vnode : Vnodes, version : Nat]
    BY BoundsAssumption DEF Units, Reports
  <2>4. HandlerTypes'
    BY <2>1, <2>2, <2>3, PopSyncEventType DEF HandlerTypes, dev
  <2>5. ListTypes' /\ EventOK' /\ Registered'
    BY <2>1, PopSyncEventType, RegisteredStep DEF ListTypes
  <2> QED
    BY <1>0, <2>4, <2>5, TypesStay DEF joinVars, deviceVars
<1>2. CASE ReportSync(a)
  <2> USE <1>2 DEF ReportSync
  <2> DEFINE e == event[a]
             new == [vnode |-> e.vnode, dest |-> e.dest]
  <2>1. /\ dev \in Devices /\ new \in SyncEvents /\ e.vnode \in Vnodes
        /\ addr[e.dest] \in Addrs \cup {NoAddr}
    BY <1>11 DEF EventOK, HandlerTypes, LocalEvents, SyncEvents, DeviceTypes
  <2>2. replica_status[e.vnode][dev] \in Statuses
    BY <2>1 DEF TableTypes
  <2>3. ListTypes'
    BY <2>1, AppendProperties DEF ListTypes, dev
  <2>4. resp' \in [Addrs -> Seq(RespUnits)]
    BY <2>1, <2>2, AnswerType DEF dev
  <2>5. HandlerTypes'
    BY <1>12, <2>4 DEF HandlerTypes, HandlerPcs
  <2>6. EventOK' /\ Registered'
    BY RegisteredStep DEF EventOK, HandlerTypes
  <2> QED
    BY <1>0, <2>3, <2>5, <2>6, TypesStay DEF joinVars, deviceVars
<1>3. CASE ReportRelock(a)
  <2> USE <1>3 DEF ReportRelock
  <2>1. PopSyncEvent(a, dev) /\ dev \in Devices
    BY <1>11 DEF dev
  <2>2. HandlerTypes'
    BY <2>1, PopSyncEventType DEF HandlerTypes
  <2>3. ListTypes' /\ EventOK' /\ Registered'
    BY <2>1, PopSyncEventType, RegisteredStep DEF ListTypes
  <2> QED
    BY <1>0, <2>2, <2>3, TypesStay DEF joinVars, deviceVars
<1>13. report[a] \in SUBSET [vnode : Vnodes, version : Nat] /\ mine[a] \in SUBSET Vnodes
  BY DEF HandlerTypes
<1>4. ASSUME NEW u \in report[a], ReportStranger(a, u) PROVE TypeInv'
  <2> USE <1>4 DEF ReportStranger
  <2>1. resp' \in [Addrs -> Seq(RespUnits)]
    BY <1>12, <1>13, StatusesLemma, AnswerType
  <2>2. HandlerTypes'
    BY <2>1 DEF HandlerTypes
  <2> QED
    BY <1>0, <2>2, TypesStay DEF joinVars, deviceVars
<1>5. ASSUME NEW u \in report[a], ReportSyncing(a, u) PROVE TypeInv'
  <2> USE <1>5 DEF ReportSyncing
  <2>1. u.vnode \in Vnodes /\ replica_status[u.vnode][dev] \in Statuses
    BY <1>11, <1>13 DEF TableTypes
  <2>2. resp' \in [Addrs -> Seq(RespUnits)]
    BY <1>12, <2>1, AnswerType DEF HandlerTypes, dev
  <2>3. HandlerTypes'
    BY <2>2 DEF HandlerTypes
  <2> QED
    BY <1>0, <2>3, TypesStay DEF joinVars, deviceVars
<1>6. ASSUME NEW u \in report[a], ReportStale(a, u) PROVE TypeInv'
  <2> USE <1>6 DEF ReportStale
  <2> DEFINE v == u.vnode
             src == get_read_replica(replica_list[v], replica_status[v], rd_req_robin[v])
             e == [vnode |-> v, dest |-> dev, src |-> src]
  <2>1. v \in Vnodes /\ dev \in Devices
    BY <1>11, <1>13
  <2>2. src \in Devices \cup {NoDevice}
    BY <2>1, SourceChosen
  <2>3. rd_req_robin' \in [Vnodes -> Nat]
    BY <2>1, CursorType DEF TableTypes
  <2> HIDE DEF src, e
  <2>4. CASE src = NoDevice
    <3>1. /\ replica_status' = [replica_status EXCEPT ![v][dev] = ONLINE]
          /\ Answer(a, v, ONLINE, NoAddr)
          /\ UNCHANGED <<pc, event>>
      BY <2>4 DEF src, dev
    <3>2. TableTypes'
      BY <2>3, <3>1, StatusType, StatusesLemma DEF TableTypes
    <3>3. resp' \in [Addrs -> Seq(RespUnits)]
      BY <1>12, <2>1, <3>1, StatusesLemma, AnswerType
    <3>4. HandlerTypes'
      BY <3>1, <3>3 DEF HandlerTypes
    <3> QED
      BY <1>0, <3>1, <3>2, <3>4, TypesStay DEF joinVars, deviceVars
  <2>5. CASE src # NoDevice
    <3>1. /\ replica_status' = [replica_status EXCEPT ![v][dev] = WAIT_SYNC, ![v][src] = COPY_SRC]
          /\ event' = [event EXCEPT ![a] = e]
          /\ pc' = [pc EXCEPT ![a] = "push"]
          /\ UNCHANGED resp
      BY <2>5 DEF src, dev, e, MarkStale
    <3>2. [replica_status EXCEPT ![v][dev] = WAIT_SYNC] \in [Vnodes -> [Devices -> Statuses]]
      BY StatusType, StatusesLemma DEF TableTypes
    <3>3. replica_status' \in [Vnodes -> [Devices -> Statuses]]
      BY <3>1, <3>2, StatusType, StatusesLemma
    <3>4. TableTypes'
      BY <2>3, <3>3 DEF TableTypes
    <3>5. e \in LocalEvents /\ e.src \in Devices /\ e.dest \in Devices
      BY <2>1, <2>2, <2>5 DEF LocalEvents, e
    <3>6. HandlerTypes' /\ EventOK'
      BY <3>1, <3>5 DEF HandlerTypes, HandlerPcs, EventOK
    <3>7. Registered'
      BY <3>1, RegisteredStep DEF HandlerTypes
    <3> QED
      BY <1>0, <3>4, <3>6, <3>7, TypesStay DEF joinVars, deviceVars
  <2> QED
    BY <2>4, <2>5
<1>7. CASE ReportPush(a)
  <2> USE <1>7 DEF ReportPush
  <2> DEFINE e == event[a]
             new == [vnode |-> e.vnode, dest |-> e.dest]
  <2>1. new \in SyncEvents /\ e.vnode \in Vnodes /\ e.src \in Devices
    BY DEF EventOK, HandlerTypes, LocalEvents, SyncEvents
  <2>2. ListTypes'
    BY <2>1, AppendProperties DEF ListTypes
  <2>3. resp' \in [Addrs -> Seq(RespUnits)]
    BY <1>12, <2>1, StatusesLemma, AnswerType
  <2>4. HandlerTypes'
    BY <1>12, <2>3 DEF HandlerTypes, HandlerPcs
  <2>5. EventOK' /\ Registered'
    BY RegisteredStep DEF EventOK, HandlerTypes
  <2> QED
    BY <1>0, <2>2, <2>4, <2>5, TypesStay DEF joinVars, deviceVars
<1>8. ASSUME NEW u \in report[a], ReportCurrent(a, u) PROVE TypeInv'
  <2> USE <1>8 DEF ReportCurrent
  <2> DEFINE v == u.vnode
             s == IF u.version = version[v] THEN ACTIVE ELSE replica_status[v][dev]
  <2>1. v \in Vnodes /\ u.version \in Nat /\ s \in Statuses
    BY <1>11, <1>13, StatusesLemma DEF TableTypes
  <2> HIDE DEF s
  <2>2. /\ replica_status' = [replica_status EXCEPT ![v][dev] = s]
        /\ version' = [version EXCEPT ![v] = u.version]
        /\ Answer(a, v, s, NoAddr)
    BY DEF s, dev
  <2>3. TableTypes'
    <3>1. [replica_status EXCEPT ![v][dev] = s] \in [Vnodes -> [Devices -> Statuses]]
      BY <2>1, StatusType DEF TableTypes
    <3> QED
      BY <2>1, <2>2, <3>1 DEF TableTypes
  <2>4. resp' \in [Addrs -> Seq(RespUnits)]
    BY <1>12, <2>1, <2>2, AnswerType
  <2>5. HandlerTypes'
    BY <2>4 DEF HandlerTypes
  <2> QED
    BY <1>0, <2>3, <2>5, TypesStay DEF joinVars, deviceVars
<1>9. ASSUME NEW v \in mine[a], ReportMissing(a, v) PROVE TypeInv'
  <2> USE <1>9 DEF ReportMissing
  <2>1. v \in Vnodes /\ replica_status[v][dev] \in Statuses
    BY <1>11, <1>13 DEF TableTypes
  <2>2. resp' \in [Addrs -> Seq(RespUnits)]
    BY <1>12, <2>1, AnswerType DEF HandlerTypes, dev
  <2>3. HandlerTypes'
    BY <2>2 DEF HandlerTypes
  <2> QED
    BY <1>0, <2>3, TypesStay DEF joinVars, deviceVars
<1> QED
  BY <1>1, <1>2, <1>3, <1>4, <1>5, <1>6, <1>7, <1>8, <1>9 DEF Merge

\* Taking an event off a syncing list keeps the lists' types.
LEMMA PopSyncingType ==
    ASSUME ListTypes, NEW dev \in Devices, NEW v, SyncingAt(dev, v) # {}, PopSyncing(dev, v)
    PROVE  /\ syncing_list' \in [Devices -> Seq(SyncEvents)]
           /\ syncing_list[dev][FirstOf(SyncingAt(dev, v))] \in SyncEvents
<1> DEFINE p == FirstOf(SyncingAt(dev, v))
           l == syncing_list[dev]
<1>1. l \in Seq(SyncEvents) /\ Len(l) \in Nat
  BY LenProperties DEF ListTypes
<1>2. p \in 1..Len(l)
  <2> DEFINE at == SyncingAt(dev, v)
  <2>1. at \subseteq 1..Len(l) /\ at \subseteq Nat
    BY <1>1 DEF SyncingAt
  <2> HIDE DEF at
  <2> QED
    BY <2>1, FirstOfLemma DEF at
<1>3. l[p] \in SyncEvents /\ RemoveAt(l, p) \in Seq(SyncEvents)
  BY <1>1, <1>2, ElementOfSeq, RemoveAtLemma
<1> QED
  BY <1>3 DEF PopSyncing, ListTypes

LEMMA SyncDownStepTypes ==
    ASSUME TypeInv, NEW a \in Addrs,
           Reply(a) \/ (\E vs \in Batches : Finish(a, vs)) \/ SyncDown(a)
    PROVE  TypeInv'
<1> USE DEF TypeInv, TypeOK
<1> DEFINE dev == DeviceAt(a)
<1>1. pc[a] # "idle" => dev \in Devices
  BY DeviceAtType DEF Registered
<1>2. NoEvent \in LocalEvents
  BY Bounds DEF LocalEvents, NoEvent, Vnodes
<1>3. CASE Reply(a)
  <2> USE <1>3 DEF Reply, ReportReply
  <2>1. HandlerTypes'
    BY EmptySeq DEF HandlerTypes, HandlerPcs
  <2>2. EventOK' /\ Registered'
    BY RegisteredStep DEF EventOK, HandlerTypes
  <2>3. \A v \in Vnodes : Told(a, v) \in Nat
    <3>1. Len(resp[a]) \in Nat
      BY LenProperties DEF HandlerTypes
    <3>2. IsFiniteSet(1..Len(resp[a]))
      BY <3>1, FS_Interval
    <3>3. ASSUME NEW v \in Vnodes PROVE Told(a, v) \in Nat
      <4> DEFINE hits == {i \in 1..Len(resp[a]) : resp[a][i].vnode = v /\ IsSource(resp[a][i].status)}
      <4>1. hits \subseteq 1..Len(resp[a])
        OBVIOUS
      <4>2. IsFiniteSet(hits)
        <5> HIDE DEF hits
        <5> QED
          BY <3>2, <4>1, FS_Subset
      <4>3. Cardinality(hits) \in Nat
        BY <4>2, FS_CardinalityType
      <4> QED
        BY <4>3 DEF Told
    <3> QED
      BY <3>3
  <2>4. owed' \in [Addrs -> [Vnodes -> Nat]]
    BY <2>3
  <2> QED
    BY <2>1, <2>2, <2>4, TypesStay DEF joinVars, deviceVars
<1>4. ASSUME NEW vs \in Batches, Finish(a, vs) PROVE TypeInv'
  <2> USE <1>4 DEF Finish, SyncDownStart
  <2>1. vs \in Seq(Vnodes)
    BY BoundsAssumption
  <2>2. HandlerTypes'
    BY <2>1 DEF HandlerTypes, HandlerPcs
  <2>3. EventOK' /\ Registered'
    BY RegisteredStep DEF EventOK, HandlerTypes
  <2>4. owed' \in [Addrs -> [Vnodes -> Nat]]
    <3>1. Len(vs) \in Nat
      BY <2>1, LenProperties
    <3>2. IsFiniteSet(1..Len(vs))
      BY <3>1, FS_Interval
    <3>3. ASSUME NEW v \in Vnodes PROVE Listed(vs, v) \in Nat
      <4> DEFINE hits == {i \in 1..Len(vs) : vs[i] = v}
      <4>1. hits \subseteq 1..Len(vs)
        OBVIOUS
      <4>2. IsFiniteSet(hits)
        <5> HIDE DEF hits
        <5> QED
          BY <3>2, <4>1, FS_Subset
      <4>3. Cardinality(hits) \in Nat
        BY <4>2, FS_CardinalityType
      <4> QED
        BY <4>3 DEF Listed
    <3>4. ASSUME NEW v \in Vnodes PROVE owed[a][v] - Listed(vs, v) \in Nat
      <4>1. owed[a][v] \in Nat /\ Listed(vs, v) <= owed[a][v]
        OBVIOUS
      <4> QED
        BY <3>3, <4>1
    <3> QED
      BY <3>4
  <2> QED
    BY <2>2, <2>3, <2>4, TypesStay DEF joinVars, deviceVars
<1>5. CASE SyncDownFind(a) /\ UNCHANGED owed
  <2> USE <1>5 DEF SyncDownFind
  <2> DEFINE v == Head(down[a])
             e == syncing_list[dev][FirstOf(SyncingAt(dev, v))]
  <2>1. v \in Vnodes /\ dev \in Devices
    BY <1>1, HeadTailProperties DEF HandlerTypes
  <2>2. CASE SyncingAt(dev, v) = {} \/ ~({dev, e.dest} \subseteq Holders(replica_list[v]))
    BY <2>2, TypesStay DEF joinVars, deviceVars, listVars, handlerVars
  <2>3. CASE ~(SyncingAt(dev, v) = {} \/ ~({dev, e.dest} \subseteq Holders(replica_list[v])))
    <3>1. /\ event' = [event EXCEPT ![a] = [vnode |-> v, dest |-> e.dest, src |-> dev]]
          /\ PopSyncing(dev, v)
          /\ pc' = [pc EXCEPT ![a] = "dest"]
          /\ UNCHANGED up
      BY <2>3
    <3>2. ListTypes' /\ e \in SyncEvents
      BY <2>1, <2>3, <3>1, PopSyncingType DEF ListTypes
    <3>3. [vnode |-> v, dest |-> e.dest, src |-> dev] \in LocalEvents
      BY <2>1, <3>2 DEF LocalEvents, SyncEvents
    <3>4. HandlerTypes'
      BY <3>1, <3>3 DEF HandlerTypes, HandlerPcs
    <3>5. EventOK' /\ Registered'
      BY <3>1, RegisteredStep DEF EventOK, HandlerTypes
    <3> QED
      BY <3>1, <3>2, <3>4, <3>5, TypesStay DEF joinVars, deviceVars
  <2> QED
    BY <2>2, <2>3
<1>6. CASE SyncDownDest(a) /\ UNCHANGED owed
  <2> USE <1>6 DEF SyncDownDest
  <2>1. [replica_status EXCEPT ![event[a].vnode][event[a].dest] = ACTIVE]
            \in [Vnodes -> [Devices -> Statuses]]
    BY StatusType, StatusesLemma DEF TableTypes
  <2>2. TableTypes'
    BY <2>1 DEF TableTypes
  <2>3. HandlerTypes'
    BY DEF HandlerTypes, HandlerPcs
  <2>4. EventOK' /\ Registered'
    BY RegisteredStep DEF EventOK, HandlerTypes
  <2> QED
    BY <2>2, <2>3, <2>4, TypesStay DEF joinVars, deviceVars
<1>7. CASE SyncDownSrc(a) /\ UNCHANGED owed
  <2> USE <1>7 DEF SyncDownSrc
  <2> DEFINE v == event[a].vnode
             src == event[a].src
             s == IF replica_status[v][src] = MOVE_SRC THEN INIT ELSE ACTIVE
  <2>1. [replica_status EXCEPT ![v][src] = s] \in [Vnodes -> [Devices -> Statuses]]
    BY StatusType, StatusesLemma DEF TableTypes
  <2>2. replica_list' \in [Vnodes -> Seq(Devices)]
    <3>1. v \in Vnodes
      BY DEF HandlerTypes, LocalEvents
    <3>2. destroy_replica_info(replica_list[v], src) \in Seq(Devices)
      BY <3>1, DestroyLemma DEF TableTypes
    <3> QED
      BY <3>1, <3>2 DEF TableTypes
  <2>3. TableTypes'
    BY <2>1, <2>2 DEF TableTypes
  <2>4. HandlerTypes'
    <3>1. Tail(down[a]) \in Seq(Vnodes)
      BY HeadTailProperties DEF EventOK, HandlerTypes
    <3> QED
      BY <1>2, <3>1 DEF HandlerTypes, HandlerPcs
  <2>5. EventOK' /\ Registered'
    BY RegisteredStep DEF EventOK, HandlerTypes
  <2> QED
    BY <2>3, <2>4, <2>5, TypesStay DEF joinVars, deviceVars
<1>8. CASE SyncDownReply(a) /\ UNCHANGED owed
  <2> USE <1>8 DEF SyncDownReply
  <2>1. HandlerTypes'
    BY DEF HandlerTypes, HandlerPcs
  <2>2. EventOK' /\ Registered'
    BY RegisteredStep DEF EventOK, HandlerTypes
  <2> QED
    BY <2>1, <2>2, TypesStay DEF joinVars, deviceVars
<1> QED
  BY <1>3, <1>4, <1>5, <1>6, <1>7, <1>8 DEF SyncDown

LEMMA TypeInvInit == Init => TypeInv
<1> SUFFICES ASSUME Init PROVE TypeInv
  OBVIOUS
<1> USE Bounds DEF Init, MasterInit
<1>1. TableTypes
  BY EmptySeq, StatusesLemma DEF TableTypes
<1>2. DeviceTypes /\ ListTypes
  BY EmptySeq DEF DeviceTypes, ListTypes
<1>3. JoinTypes /\ JoinOK
  BY CountsAssumption DEF JoinTypes, JoinOK, NoJoin
<1>4. NoEvent \in LocalEvents
  BY DEF LocalEvents, NoEvent, Vnodes
<1>5. HandlerTypes
  BY <1>4, EmptySeq DEF HandlerTypes, HandlerPcs
<1>6. Registered /\ EventOK
  BY DEF Registered, EventOK
<1> QED
  BY <1>1, <1>2, <1>3, <1>5, <1>6 DEF TypeInv, TypeOK

LEMMA TypeInvStep == TypeInv /\ [Next]_vars => TypeInv'
<1> SUFFICES ASSUME TypeInv, [Next]_vars PROVE TypeInv'
  OBVIOUS
<1>1. CASE Join
  BY <1>1, JoinStepTypes
<1>2. ASSUME NEW a \in Addrs, Merge(a) PROVE TypeInv'
  BY <1>2, MergeStepTypes
<1>3. ASSUME NEW a \in Addrs,
             Reply(a) \/ (\E vs \in Batches : Finish(a, vs)) \/ SyncDown(a)
      PROVE  TypeInv'
  BY <1>3, SyncDownStepTypes
<1>4. ASSUME NEW v \in Vnodes, ClientRead(v), UNCHANGED owed PROVE TypeInv'
  <2>1. TableTypes'
    BY <1>4, CursorType DEF ClientRead, TypeInv, TypeOK, TableTypes
  <2> QED
    BY <1>4, <2>1, TypesStay DEF ClientRead, TypeInv, TypeOK, joinVars, deviceVars, handlerVars
<1>5. CASE UNCHANGED vars
  BY <1>5, TypesStay DEF TypeInv, TypeOK, vars, masterVars, joinVars, deviceVars, handlerVars
<1> QED
  BY <1>1, <1>2, <1>3, <1>4, <1>5 DEF Next, Read

\* Every variable keeps its type, whatever nodes, vnodes and bounds there are.
THEOREM TypeCorrectness == Spec => []TypeOK
<1>1. Spec => []TypeInv
  BY TypeInvInit, TypeInvStep, PTL DEF Spec
<1>2. TypeInv => TypeOK
  BY DEF TypeInv
<1> QED
  BY <1>1, <1>2, PTL

-----------------------------------------------------------------------------
(* The replicas of a vnode                                                   *)

\* A move stops the master at once: while it is up no replica is being moved.
NoMoves == up => \A v \in Vnodes, d \in Devices : replica_status[v][d] # MOVE_SRC

\* Replicas are on devices of the container or on the one that is joining, and
\* the one about to be pushed is in a zone of its own.
Placed ==
    /\ \A v \in Vnodes : \A d \in Holders(replica_list[v]) :
          d \in 1..node_count \/ (d = Joiner /\ join.pc # "none")
    /\ join.pc = "push" => is_diff_zones(replica_list[join.next], zoneOf, zoneOf[Joiner])

ReplicaInv == TypeInv /\ NoMoves /\ Placed /\ ZoneSeparation /\ ListsAgree

\* The steps that change neither the devices, nor the lists, nor the join.
LEMMA QuietStep ==
    ASSUME Placed, ZoneSeparation, ListsAgree,
           UNCHANGED <<replica_list, deviceVars, join>>
    PROVE  Placed' /\ ZoneSeparation' /\ ListsAgree'
BY DEF Placed, ZoneSeparation, ListsAgree, deviceVars, Joiner, zoneOf, is_diff_zones

\* The status written by a finished sync is never MOVE_SRC, nor any other written
\* while the master stays up.
LEMMA NoMovesStep ==
    ASSUME TypeInv, NoMoves, [Next]_vars
    PROVE  NoMoves'
<1> USE DEF NoMoves, INIT, ONLINE, WAIT_SYNC, COPY_SRC, MOVE_SRC, ACTIVE, NoDevice
<1>10. replica_status \in [Vnodes -> [Devices -> Statuses]]
  BY DEF TypeInv, TypeOK, TableTypes
<1>11. ASSUME NEW v, NEW d, NEW s, s # MOVE_SRC, up,
             replica_status' = [replica_status EXCEPT ![v][d] = s]
      PROVE  NoMoves'
  BY <1>10, <1>11
<1>12. ASSUME UNCHANGED replica_status, up' => up PROVE NoMoves'
  BY <1>12
<1>1. CASE Join
  <2>1. ASSUME NEW a \in Addrs, JoinStart(a) \/ JoinMoveNothing(a) PROVE NoMoves'
    BY <2>1, <1>12 DEF JoinStart, JoinMoveNothing, tableVars
  <2>2. ASSUME NEW a \in Addrs, JoinMoveDies(a) PROVE NoMoves'
    BY <2>2 DEF JoinMoveDies
  <2>3. CASE JoinVnode
    <3> DEFINE v == join.next
               src == get_read_replica(replica_list[v], replica_status[v], rd_req_robin[v])
    <3>1. \/ UNCHANGED replica_status
          \/ replica_status' = [replica_status EXCEPT ![v][src] = COPY_SRC]
      BY <2>3 DEF JoinVnode
    <3>2. up /\ up' = up
      BY <2>3 DEF JoinVnode
    <3> HIDE DEF src, v
    <3>3. CASE UNCHANGED replica_status
      BY <3>2, <3>3, <1>12
    <3>4. CASE replica_status' = [replica_status EXCEPT ![v][src] = COPY_SRC]
      <4>1. COPY_SRC # MOVE_SRC
        OBVIOUS
      <4> QED
        BY <3>2, <3>4, <4>1, <1>11
    <3> QED
      BY <3>1, <3>3, <3>4
  <2>4. CASE JoinPush
    BY <2>4, <1>11 DEF JoinPush
  <2>5. CASE JoinDone
    BY <2>5, <1>12 DEF JoinDone, tableVars
  <2>6. CASE JoinFails
    BY <2>6, <1>10 DEF JoinFails
  <2> QED
    BY <1>1, <2>1, <2>2, <2>3, <2>4, <2>5, <2>6 DEF Join
<1>2. ASSUME NEW a \in Addrs, Merge(a) PROVE NoMoves'
  <2>1. ASSUME NEW r \in Reports, ReportStart(a, Units(r)) PROVE NoMoves'
    BY <2>1, <1>12 DEF ReportStart, tableVars
  <2>2. CASE ReportSync(a) \/ ReportRelock(a) \/ ReportPush(a)
    BY <2>2, <1>12 DEF ReportSync, ReportRelock, ReportPush, tableVars
  <2>3. ASSUME NEW u \in report[a], ReportStranger(a, u) \/ ReportSyncing(a, u) PROVE NoMoves'
    BY <2>3, <1>12 DEF ReportStranger, ReportSyncing, tableVars
  <2>4. ASSUME NEW u \in report[a], ReportStale(a, u) PROVE NoMoves'
    BY <2>4, <1>10 DEF ReportStale, MarkStale
  <2>5. ASSUME NEW u \in report[a], ReportCurrent(a, u) PROVE NoMoves'
    BY <2>5, <1>11 DEF ReportCurrent
  <2>6. ASSUME NEW v \in mine[a], ReportMissing(a, v) PROVE NoMoves'
    BY <2>6, <1>12 DEF ReportMissing, tableVars
  <2> QED
    BY <1>2, <2>1, <2>2, <2>3, <2>4, <2>5, <2>6 DEF Merge
<1>3. ASSUME NEW a \in Addrs, Reply(a) PROVE NoMoves'
  BY <1>3, <1>12 DEF Reply, ReportReply, tableVars
<1>4. ASSUME NEW a \in Addrs, NEW vs \in Batches, Finish(a, vs) PROVE NoMoves'
  BY <1>4, <1>12 DEF Finish, SyncDownStart, tableVars
<1>5. ASSUME NEW a \in Addrs, SyncDown(a) PROVE NoMoves'
  <2>1. CASE SyncDownFind(a) \/ SyncDownReply(a)
    BY <2>1, <1>12 DEF SyncDownFind, SyncDownReply, tableVars
  <2>2. CASE SyncDownDest(a)
    BY <2>2, <1>11 DEF SyncDownDest
  <2>3. CASE SyncDownSrc(a)
    BY <2>3, <1>11 DEF SyncDownSrc
  <2> QED
    BY <1>5, <2>1, <2>2, <2>3 DEF SyncDown
<1>6. CASE Read \/ UNCHANGED vars
  BY <1>6, <1>12 DEF Read, ClientRead, vars, masterVars, tableVars
<1> QED
  BY <1>1, <1>2, <1>3, <1>4, <1>5, <1>6 DEF Next

\* A finished sync takes no replica away: its source is not being moved.
LEMMA SyncDownSrcQuiet ==
    ASSUME TypeInv, NoMoves, NEW a \in Addrs, SyncDownSrc(a)
    PROVE  /\ UNCHANGED <<replica_list, deviceVars, joinVars>>
           /\ \/ UNCHANGED replica_status
              \/ replica_status' = [replica_status EXCEPT ![event[a].vnode][event[a].src] = ACTIVE]
<1> DEFINE v == event[a].vnode
           src == event[a].src
<1>1. /\ v \in Vnodes /\ src \in Devices \cup {NoDevice}
      /\ replica_status \in [Vnodes -> [Devices -> Statuses]]
      /\ replica_list \in [Vnodes -> Seq(Devices)]
  BY DEF TypeInv, TypeOK, TableTypes, HandlerTypes, LocalEvents
<1>2. CASE replica_status[v][src] = MOVE_SRC
  <2>1. src = NoDevice
    BY <1>1, <1>2 DEF NoMoves, SyncDownSrc
  <2>2. destroy_replica_info(replica_list[v], src) = replica_list[v]
    BY <1>1, <2>1, Bounds, ElementOfSeq DEF destroy_replica_info
  <2>3. replica_status' = [replica_status EXCEPT ![v][src] = INIT]
    BY <1>2 DEF SyncDownSrc
  <2>4. UNCHANGED replica_status
    <3>1. src \notin Devices
      BY <2>1, Bounds
    <3>2. replica_status[v] \in [Devices -> Statuses]
      BY <1>1
    <3>3. [replica_status[v] EXCEPT ![src] = INIT] = replica_status[v]
      <4> HIDE DEF src
      <4> QED
        BY <3>1, <3>2
    <3>4. replica_status' = [replica_status EXCEPT ![v] = replica_status[v]]
      BY <1>1, <2>3, <3>3
    <3> HIDE DEF v, src
    <3> QED
      BY <1>1, <3>4
  <2> QED
    BY <1>1, <1>2, <2>2, <2>4 DEF SyncDownSrc, joinVars
<1>3. CASE replica_status[v][src] # MOVE_SRC
  BY <1>1, <1>3 DEF SyncDownSrc, joinVars
<1> QED
  BY <1>2, <1>3

\* Only joins touch the devices, the lists and the join.
LEMMA OnlyJoins ==
    ASSUME TypeInv, NoMoves, [Next]_vars, ~Join
    PROVE  UNCHANGED <<replica_list, deviceVars, joinVars>>
<1>1. ASSUME NEW a \in Addrs, SyncDownSrc(a) PROVE UNCHANGED <<replica_list, deviceVars, joinVars>>
  BY <1>1, SyncDownSrcQuiet
<1>2. ASSUME NEW a \in Addrs, Merge(a) PROVE UNCHANGED <<replica_list, deviceVars, joinVars>>
  BY <1>2 DEF Merge, ReportStart, ReportSync, ReportRelock, ReportStranger, ReportSyncing,
              ReportStale, ReportPush, ReportCurrent, ReportMissing, tableVars, joinVars
<1>3. ASSUME NEW a \in Addrs, Reply(a) \/ (\E vs \in Batches : Finish(a, vs))
      PROVE  UNCHANGED <<replica_list, deviceVars, joinVars>>
  BY <1>3 DEF Reply, ReportReply, Finish, SyncDownStart, tableVars, joinVars
<1>4. ASSUME NEW a \in Addrs, SyncDown(a) PROVE UNCHANGED <<replica_list, deviceVars, joinVars>>
  BY <1>1, <1>4 DEF SyncDown, SyncDownFind, SyncDownDest, SyncDownReply, tableVars, joinVars
<1>5. CASE Read \/ UNCHANGED vars
  BY <1>5 DEF Read, ClientRead, vars, masterVars, tableVars, joinVars
<1> QED
  BY <1>2, <1>3, <1>4, <1>5 DEF Next

\* Separate zones make the entries of a list distinct.
LEMMA DistinctReplicas ==
    ASSUME ZoneSeparation, NEW v \in Vnodes
    PROVE  \A i, j \in 1..Len(replica_list[v]) :
              i # j => replica_list[v][i] # replica_list[v][j]
BY DEF ZoneSeparation

LEMMA ReplicaJoinStep ==
    ASSUME ReplicaInv, Join, TypeInv'
    PROVE  Placed' /\ ZoneSeparation' /\ ListsAgree'
<1>1. /\ node_count \in Nat /\ Joiner \notin 1..node_count
      /\ \A d \in 1..node_count : d \in Devices
      /\ addr \in [Devices -> Addrs \cup {NoAddr}]
      /\ vnode_list \in [Devices -> Seq(Vnodes)]
      /\ replica_list \in [Vnodes -> Seq(Devices)]
  BY Bounds DEF ReplicaInv, TypeInv, TypeOK, DeviceTypes, TableTypes, Joiner, Devices
<1>2. \A v \in Vnodes : Holders(replica_list[v]) \subseteq Devices
  BY <1>1, ElementOfSeq DEF Holders
<1>3. \A v \in Vnodes : \A i \in 1..Len(replica_list[v]) : replica_list[v][i] \in Holders(replica_list[v])
  BY DEF Holders
<1> USE DEF ReplicaInv
<1>4. ASSUME NEW a \in Addrs, JoinStart(a) \/ JoinMoveNothing(a)
      PROVE  Placed' /\ ZoneSeparation' /\ ListsAgree'
  <2>1. /\ \A v \in Vnodes : Holders(replica_list[v]) \subseteq 1..node_count
        /\ addr' = [addr EXCEPT ![Joiner] = a]
        /\ UNCHANGED <<replica_list, vnode_list>>
        /\ join'.pc # "push"
        /\ node_count' \in {node_count, node_count + 1}
    BY <1>4 DEF Placed, JoinStart, JoinMoveNothing, LockFree, tableVars, joinVars, NoJoin
  <2>2. \A d \in 1..node_count : zoneOf'[d] = zoneOf[d]
    BY <1>1, <2>1 DEF zoneOf
  <2>3. \A d \in 1..node_count : d \in 1..node_count'
    BY <1>1, <2>1
  <2>4. ZoneSeparation'
    <3> SUFFICES ASSUME NEW v \in Vnodes, NEW i \in 1..Len(replica_list[v]),
                        NEW j \in 1..Len(replica_list[v]), i # j
                 PROVE  zoneOf'[replica_list[v][i]] # zoneOf'[replica_list[v][j]]
      BY <2>1 DEF ZoneSeparation
    <3>1. replica_list[v][i] \in 1..node_count /\ replica_list[v][j] \in 1..node_count
      BY <1>3, <2>1
    <3>2. zoneOf[replica_list[v][i]] # zoneOf[replica_list[v][j]]
      BY DEF ZoneSeparation
    <3> QED
      BY <2>2, <3>1, <3>2
  <2> QED
    BY <2>1, <2>3, <2>4 DEF Placed, ListsAgree
<1>5. CASE JoinVnode
  <2>1. UNCHANGED <<replica_list, node_count, addr, vnode_list>> /\ join'.pc # "none"
    BY <1>5 DEF JoinVnode, deviceVars, TypeInv, TypeOK, JoinTypes
  <2>2. /\ join.pc # "none"
        /\ join'.pc = "push" =>
              /\ join'.next = join.next
              /\ is_diff_zones(replica_list[join.next], zoneOf, zoneOf[Joiner])
    BY <1>5 DEF JoinVnode, TypeInv, TypeOK, JoinTypes
  <2> QED
    BY <2>1, <2>2 DEF Placed, ZoneSeparation, ListsAgree, Joiner, zoneOf, is_diff_zones
<1>6. CASE JoinPush
  <2> DEFINE w == join.next
  <2>1. /\ w \in Vnodes /\ Joiner \in Devices
        /\ is_diff_zones(replica_list[w], zoneOf, zoneOf[Joiner])
    BY <1>6, Bounds
    DEF JoinPush, Placed, TypeInv, TypeOK, JoinTypes, JoinOK, DeviceTypes, Vnodes, Devices, Joiner
  <2>2. /\ replica_list' = [replica_list EXCEPT ![w] = Append(@, Joiner)]
        /\ vnode_list' = [vnode_list EXCEPT ![Joiner] = Append(@, w)]
        /\ join.pc = "push" /\ join'.pc = "copy"
        /\ UNCHANGED <<node_count, addr>>
    BY <1>6 DEF JoinPush
  <2>3. \A v \in Vnodes : Holders(replica_list'[v]) =
              IF v = w THEN Holders(replica_list[v]) \cup {Joiner} ELSE Holders(replica_list[v])
    <3>1. Holders(Append(replica_list[w], Joiner)) = Holders(replica_list[w]) \cup {Joiner}
      BY <1>1, <2>1, HoldersAppend
    <3> QED
      BY <1>1, <2>1, <2>2, <3>1
  <2>4. \A d \in Devices : Range(vnode_list'[d]) =
              IF d = Joiner THEN Range(vnode_list[d]) \cup {w} ELSE Range(vnode_list[d])
    <3>1. Append(vnode_list[Joiner], w) \in Seq(Vnodes)
      BY <1>1, <2>1, AppendProperties
    <3>2. Range(Append(vnode_list[Joiner], w)) = Range(vnode_list[Joiner]) \cup {w}
      <4>1. vnode_list[Joiner] \in Seq(Vnodes)
        BY <1>1, <2>1
      <4>2. Holders(Append(vnode_list[Joiner], w)) = Holders(vnode_list[Joiner]) \cup {w}
        BY <2>1, <4>1, HoldersAppend
      <4> QED
        BY <3>1, <4>1, <4>2, RangeIsHolders
    <3> QED
      BY <1>1, <2>1, <2>2, <3>2
  <2>5. Placed'
    <3>1. ASSUME NEW v \in Vnodes, NEW d \in Holders(replica_list'[v])
          PROVE  d \in 1..node_count \/ d = Joiner
      <4>1. d \in Holders(replica_list[v]) \cup {Joiner}
        BY <2>3, <3>1
      <4>2. \A e \in Holders(replica_list[v]) : e \in 1..node_count \/ e = Joiner
        BY DEF Placed
      <4> QED
        BY <4>1, <4>2
    <3>2. Joiner' = Joiner
      BY <2>2 DEF Joiner
    <3> QED
      BY <2>2, <3>1, <3>2 DEF Placed
  <2>6. ListsAgree'
    BY <2>1, <2>3, <2>4 DEF ListsAgree
  <2>7. ZoneSeparation'
    <3> SUFFICES ASSUME NEW v \in Vnodes, NEW i \in 1..Len(replica_list'[v]),
                        NEW j \in 1..Len(replica_list'[v]), i < j
                 PROVE  zoneOf[replica_list'[v][i]] # zoneOf[replica_list'[v][j]]
      <4>1. zoneOf' = zoneOf
        BY <2>2 DEF zoneOf
      <4>2. \A v \in Vnodes : Len(replica_list'[v]) \in Nat
        BY LenProperties DEF TypeInv, TypeOK, TableTypes
      <4> QED
        BY <4>1, <4>2 DEF ZoneSeparation
    <3>1. CASE v # w
      BY <1>1, <2>1, <2>2, <3>1 DEF ZoneSeparation
    <3>2. CASE v = w
      <4> DEFINE l == replica_list[w]
      <4>1. /\ l \in Seq(Devices) /\ Len(l) \in Nat
            /\ replica_list'[v] = Append(l, Joiner)
            /\ Len(replica_list'[v]) = Len(l) + 1
            /\ \A k \in 1..Len(l) : replica_list'[v][k] = l[k]
            /\ replica_list'[v][Len(l) + 1] = Joiner
        BY <1>1, <2>1, <2>2, <3>2, AppendProperties, LenProperties
      <4>2. i \in 1..Len(l) /\ l[i] \in Holders(l)
        BY <1>3, <2>1, <4>1
      <4>3. CASE j \in 1..Len(l)
        BY <2>1, <4>1, <4>2, <4>3 DEF ZoneSeparation
      <4>4. CASE j = Len(l) + 1
        BY <2>1, <4>1, <4>2, <4>4 DEF is_diff_zones
      <4> QED
        BY <4>1, <4>3, <4>4
    <3> QED
      BY <3>1, <3>2
  <2> QED
    BY <2>5, <2>6, <2>7
<1>7. CASE JoinDone
  <2>1. /\ UNCHANGED <<replica_list, addr, vnode_list>>
        /\ node_count' = node_count + 1 /\ join' = NoJoin
    BY <1>7 DEF JoinDone, tableVars
  <2>2. \A d : d \in 1..node_count \/ d = Joiner => d \in 1..node_count'
    BY <1>1, <2>1 DEF Joiner
  <2> QED
    BY <2>1, <2>2 DEF Placed, ZoneSeparation, ListsAgree, zoneOf, NoJoin
<1>8. CASE JoinFails
  <2> DEFINE rest(v) == destroy_replica_info(replica_list[v], Joiner)
  <2>1. /\ replica_list' = [v \in Vnodes |-> rest(v)]
        /\ vnode_list' = [vnode_list EXCEPT ![Joiner] = <<>>]
        /\ addr' = [addr EXCEPT ![Joiner] = NoAddr]
        /\ join' = NoJoin /\ node_count' = node_count
    BY <1>8 DEF JoinFails
  <2>2. \A v \in Vnodes :
           /\ Holders(replica_list'[v]) = Holders(replica_list[v]) \ {Joiner}
           /\ \A i, j \in 1..Len(replica_list'[v]) : i # j =>
                 \E k, l \in 1..Len(replica_list[v]) :
                    /\ k # l
                    /\ replica_list'[v][i] = replica_list[v][k]
                    /\ replica_list'[v][j] = replica_list[v][l]
    <3> TAKE v \in Vnodes
    <3> DEFINE list == replica_list[v]
               new == replica_list'[v]
    <3>1. list \in Seq(Devices)
      BY <1>1
    <3>2. \A i, j \in 1..Len(list) : i # j => list[i] # list[j]
      BY DistinctReplicas
    <3>3. new = destroy_replica_info(list, Joiner)
      BY <2>1
    <3> HIDE DEF list, new
    <3>4. LET r == destroy_replica_info(list, Joiner)
          IN  /\ \A i, j \in 1..Len(r) : i # j =>
                    \E k, l \in 1..Len(list) : k # l /\ r[i] = list[k] /\ r[j] = list[l]
              /\ (\A i, j \in 1..Len(list) : i # j => list[i] # list[j])
                    => Holders(r) = Holders(list) \ {Joiner}
      BY <3>1, DestroyLemma
    <3>5. Holders(new) = Holders(list) \ {Joiner}
      BY <3>2, <3>3, <3>4
    <3>6. \A i, j \in 1..Len(new) : i # j =>
             \E k, l \in 1..Len(list) : k # l /\ new[i] = list[k] /\ new[j] = list[l]
      BY <3>3, <3>4
    <3> QED
      BY <3>5, <3>6 DEF list, new
  <2>3. \A v \in Vnodes : Holders(replica_list'[v]) \subseteq 1..node_count
    BY <2>2 DEF Placed
  <2>4. Placed'
    BY <2>1, <2>3 DEF Placed, NoJoin
  <2>5. \A d \in 1..node_count : zoneOf'[d] = zoneOf[d]
    BY <1>1, <2>1 DEF zoneOf
  <2>6. ZoneSeparation'
    <3> SUFFICES ASSUME NEW v \in Vnodes, NEW i \in 1..Len(replica_list'[v]),
                        NEW j \in 1..Len(replica_list'[v]), i # j
                 PROVE  zoneOf'[replica_list'[v][i]] # zoneOf'[replica_list'[v][j]]
      BY DEF ZoneSeparation
    <3>1. replica_list'[v][i] \in 1..node_count /\ replica_list'[v][j] \in 1..node_count
      BY <2>3 DEF Holders
    <3>2. PICK k \in 1..Len(replica_list[v]) : \E l \in 1..Len(replica_list[v]) :
             /\ k # l
             /\ replica_list'[v][i] = replica_list[v][k]
             /\ replica_list'[v][j] = replica_list[v][l]
      BY <2>2
    <3>3. zoneOf[replica_list'[v][i]] # zoneOf[replica_list'[v][j]]
      BY <3>2 DEF ZoneSeparation
    <3> QED
      BY <2>5, <3>1, <3>3
  <2>7. ListsAgree'
    <3>1. Range(<<>>) = {}
      BY EmptySeq DEF Range
    <3>2. \A d \in Devices : vnode_list'[d] = IF d = Joiner THEN <<>> ELSE vnode_list[d]
      BY <1>1, <2>1
    <3> QED
      BY <2>2, <3>1, <3>2 DEF ListsAgree
  <2> QED
    BY <2>4, <2>6, <2>7
<1>9. ASSUME NEW a \in Addrs, JoinMoveDies(a)
      PROVE  Placed' /\ ZoneSeparation' /\ ListsAgree'
  BY <1>9, QuietStep DEF JoinMoveDies, joinVars
<1> QED
  BY <1>4, <1>5, <1>6, <1>7, <1>8, <1>9 DEF Join

LEMMA ReplicaInvInit == Init => ReplicaInv
<1> SUFFICES ASSUME Init PROVE ReplicaInv
  OBVIOUS
<1>1. TypeInv
  BY TypeInvInit
<1>2. \A v \in Vnodes : replica_list[v] = <<>> /\ Holders(replica_list[v]) = {}
  BY EmptySeq DEF Init, MasterInit, Holders
<1>3. \A d \in Devices : Range(vnode_list[d]) = {}
  BY EmptySeq DEF Init, MasterInit, Range
<1> QED
  BY <1>1, <1>2, <1>3, EmptySeq
  DEF ReplicaInv, NoMoves, Placed, ZoneSeparation, ListsAgree, Init, MasterInit, NoJoin,
      INIT, MOVE_SRC

LEMMA ReplicaInvStep == ReplicaInv /\ [Next]_vars => ReplicaInv'
<1> SUFFICES ASSUME ReplicaInv, [Next]_vars PROVE ReplicaInv'
  OBVIOUS
<1>1. TypeInv'
  BY TypeInvStep DEF ReplicaInv
<1>2. NoMoves'
  BY NoMovesStep DEF ReplicaInv
<1>3. CASE Join
  BY <1>1, <1>2, <1>3, ReplicaJoinStep DEF ReplicaInv
<1>4. CASE ~Join
  BY <1>1, <1>2, <1>4, OnlyJoins, QuietStep DEF ReplicaInv, joinVars
<1> QED
  BY <1>3, <1>4

LEMMA ReplicaInvHolds == Spec => []ReplicaInv
BY ReplicaInvInit, ReplicaInvStep, PTL DEF Spec

\* No two replicas of a vnode are ever in one zone: after any number of joins,
\* rejoins and joins that fail half way (is_diff_zones and what it guards).
THEOREM ZonesSeparated == Spec => []ZoneSeparation
<1>1. ReplicaInv => ZoneSeparation
  BY DEF ReplicaInv
<1> QED
  BY <1>1, ReplicaInvHolds, PTL

\* vnode_info.replica_list and device_info.vnode_list stay the two sides of one
\* relation, so the merge finds a replica for each vnode it takes from a device.
THEOREM ListsAlwaysAgree == Spec => []ListsAgree
<1>1. ReplicaInv => ListsAgree
  BY DEF ReplicaInv
<1> QED
  BY <1>1, ReplicaInvHolds, PTL

-----------------------------------------------------------------------------
(* A copy of the data                                                        *)

\* Writing a status that keeps the data loses none.
LEMMA CopyWrite ==
    ASSUME TableTypes, SomeCopy, UNCHANGED replica_list, NEW w, NEW e, NEW s, HasData(s),
           replica_status' = [replica_status EXCEPT ![w][e] = s]
    PROVE  SomeCopy'
<1> SUFFICES ASSUME NEW v \in Vnodes, replica_list[v] # <<>>
             PROVE  \E d \in Holders(replica_list[v]) : HasData(replica_status'[v][d])
  BY DEF SomeCopy
<1>1. PICK d \in Holders(replica_list[v]) : HasData(replica_status[v][d])
  BY DEF SomeCopy
<1>2. v \in Vnodes /\ d \in Devices
  BY ElementOfSeq DEF Holders, TableTypes
<1>3. replica_status'[v][d] = IF v = w /\ d = e THEN s ELSE replica_status[v][d]
  BY <1>2 DEF TableTypes
<1> QED
  BY <1>1, <1>3

\* Joins count their failures, and nothing else does.
LEMMA FailuresCounted ==
    ASSUME TypeInv, NoMoves, [Next]_vars
    PROVE  /\ alloc_fails \in Nat /\ alloc_fails' \in Nat
           /\ alloc_fails' = IF JoinFails THEN alloc_fails + 1 ELSE alloc_fails
<1>1. alloc_fails \in Nat
  BY CountsAssumption DEF TypeInv, TypeOK, JoinTypes
<1>2. CASE JoinFails
  BY <1>1, <1>2 DEF JoinFails
<1>3. CASE Join /\ ~JoinFails
  BY <1>1, <1>3 DEF Join, JoinStart, JoinMoveDies, JoinMoveNothing, JoinVnode, JoinPush, JoinDone,
                    joinVars
<1>4. CASE ~Join
  <2>1. UNCHANGED alloc_fails
    BY <1>4, OnlyJoins DEF joinVars
  <2>2. ~JoinFails
    BY <1>1, <2>1 DEF JoinFails
  <2> QED
    BY <1>1, <2>1, <2>2
<1> QED
  BY <1>2, <1>3, <1>4

\* A vnode with replicas loses its last copy only by joins that run out of memory, which
\* take their replicas back: the marks of a stale report leave the chosen source with
\* COPY_SRC, and a finished sync makes both ends ACTIVE.
THEOREM CopyLostByFailures == Spec => [](alloc_fails = 0 => SomeCopy)
<1> DEFINE Inv == ReplicaInv /\ (alloc_fails = 0 => SomeCopy)
<1>1. Init => SomeCopy
  BY DEF Init, MasterInit, SomeCopy
<1>2. ASSUME Inv, [Next]_vars, alloc_fails' = 0 PROVE SomeCopy'
  <2> USE <1>2
  <2>1. TypeInv /\ TableTypes /\ SomeCopy /\ NoMoves /\ ~JoinFails
    BY FailuresCounted DEF ReplicaInv, TypeInv, TypeOK
  <2>2. HasData(COPY_SRC) /\ HasData(ACTIVE) /\ HasData(MOVE_SRC)
    BY DEF HasData
  <2>3. ASSUME UNCHANGED <<replica_list, replica_status>> PROVE SomeCopy'
    BY <2>1, <2>3 DEF SomeCopy
  <2>4. ASSUME UNCHANGED replica_list, NEW w, NEW e, NEW s, HasData(s),
               replica_status' = [replica_status EXCEPT ![w][e] = s]
        PROVE  SomeCopy'
    BY <2>1, <2>4, CopyWrite
  <2>5. CASE Join
    <3>1. ASSUME NEW a \in Addrs, JoinStart(a) \/ JoinMoveNothing(a) PROVE SomeCopy'
      BY <2>3, <3>1 DEF JoinStart, JoinMoveNothing, tableVars
    <3>2. ASSUME NEW a \in Addrs, JoinMoveDies(a) PROVE SomeCopy'
      BY <2>2, <2>4, <3>2 DEF JoinMoveDies
    <3>3. CASE JoinVnode
      <4> DEFINE v == join.next
                 src == get_read_replica(replica_list[v], replica_status[v], rd_req_robin[v])
      <4>1. /\ UNCHANGED replica_list
            /\ \/ UNCHANGED replica_status
               \/ replica_status' = [replica_status EXCEPT ![v][src] = COPY_SRC]
        BY <3>3 DEF JoinVnode
      <4> HIDE DEF v, src
      <4> QED
        BY <2>2, <2>3, <2>4, <4>1
    <3>4. CASE JoinPush
      <4> DEFINE w == join.next
                 s == IF replica_list[w] = <<>> THEN ACTIVE
                      ELSE IF join.src = NoDevice THEN ONLINE ELSE WAIT_SYNC
      <4>1. /\ replica_status' = [replica_status EXCEPT ![w][Joiner] = s]
            /\ replica_list' = [replica_list EXCEPT ![w] = Append(@, Joiner)]
        BY <3>4 DEF JoinPush
      <4>2. w \in Vnodes /\ Joiner \in Devices
        BY <3>4, <2>1, Bounds
        DEF JoinPush, TypeInv, TypeOK, JoinTypes, JoinOK, DeviceTypes, Vnodes, Devices, Joiner
      <4>3. Joiner \notin Holders(replica_list[w])
        <5>1. is_diff_zones(replica_list[w], zoneOf, zoneOf[Joiner])
          BY <3>4 DEF JoinPush, ReplicaInv, Placed
        <5> QED
          BY <5>1 DEF is_diff_zones
      <4>4. replica_list[w] \in Seq(Devices)
        BY <2>1, <4>2 DEF TableTypes
      <4>5. Holders(Append(replica_list[w], Joiner)) = Holders(replica_list[w]) \cup {Joiner}
        BY <4>2, <4>4, HoldersAppend
      <4> SUFFICES ASSUME NEW v \in Vnodes, replica_list'[v] # <<>>
                   PROVE  \E d \in Holders(replica_list'[v]) : HasData(replica_status'[v][d])
        BY DEF SomeCopy
      <4>6. CASE v = w /\ replica_list[w] = <<>>
        <5>1. replica_status'[v][Joiner] = ACTIVE
          BY <2>1, <4>1, <4>2, <4>6 DEF TableTypes
        <5>2. Joiner \in Holders(replica_list'[v])
          BY <2>1, <4>1, <4>2, <4>5, <4>6 DEF TableTypes
        <5> QED
          BY <2>2, <5>1, <5>2
      <4>7. CASE v = w /\ replica_list[w] # <<>>
        <5>1. PICK d \in Holders(replica_list[w]) : HasData(replica_status[w][d])
          BY <2>1, <4>2, <4>7 DEF SomeCopy
        <5>2. d \in Devices /\ d # Joiner
          BY <4>3, <4>4, ElementOfSeq DEF Holders
        <5>3. replica_status'[v][d] = replica_status[w][d]
          BY <2>1, <4>1, <4>2, <4>7, <5>2 DEF TableTypes
        <5>4. d \in Holders(replica_list'[v])
          BY <2>1, <4>1, <4>2, <4>5, <4>7 DEF TableTypes
        <5> QED
          BY <5>1, <5>3, <5>4
      <4>8. CASE v # w
        <5>1. replica_list'[v] = replica_list[v] /\ replica_status'[v] = replica_status[v]
          BY <2>1, <4>1, <4>8 DEF TableTypes
        <5> QED
          BY <2>1, <5>1 DEF SomeCopy
      <4> QED
        BY <4>6, <4>7, <4>8
    <3>5. CASE JoinDone
      BY <2>3, <3>5 DEF JoinDone, tableVars
    <3> QED
      BY <2>1, <2>5, <3>1, <3>2, <3>3, <3>4, <3>5 DEF Join
  <2>6. ASSUME NEW a \in Addrs, Merge(a) PROVE SomeCopy'
    <3> DEFINE dev == DeviceAt(a)
    <3>1. ASSUME NEW r \in Reports, ReportStart(a, Units(r)) PROVE SomeCopy'
      BY <2>3, <3>1 DEF ReportStart, tableVars
    <3>2. CASE ReportSync(a) \/ ReportRelock(a) \/ ReportPush(a)
      BY <2>3, <3>2 DEF ReportSync, ReportRelock, ReportPush, tableVars
    <3>3. ASSUME NEW u \in report[a], ReportStranger(a, u) \/ ReportSyncing(a, u) PROVE SomeCopy'
      BY <2>3, <3>3 DEF ReportStranger, ReportSyncing, tableVars
    <3>4. ASSUME NEW u \in report[a], ReportStale(a, u) PROVE SomeCopy'
      <4> DEFINE w == u.vnode
                 src == get_read_replica(replica_list[w], replica_status[w], rd_req_robin[w])
      <4>1. w \in Vnodes
        BY <2>1, <3>4 DEF ReportStale, TypeInv, TypeOK, HandlerTypes
      <4>2. IF src = NoDevice
            THEN \A d \in Holders(replica_list[w]) : replica_status[w][d] # ACTIVE
            ELSE src \in Holders(replica_list[w]) /\ src \in Devices
        BY <2>1, <4>1, SourceChosen
      <4>3. /\ UNCHANGED replica_list
            /\ replica_status' = IF src = NoDevice
                  THEN [replica_status EXCEPT ![w][dev] = ONLINE]
                  ELSE [replica_status EXCEPT ![w][dev] = WAIT_SYNC, ![w][src] = COPY_SRC]
            /\ replica_status[w][dev] \notin {COPY_SRC, MOVE_SRC, WAIT_SYNC}
        BY <3>4 DEF ReportStale, MarkStale
      <4> HIDE DEF src, dev
      <4> SUFFICES ASSUME NEW v \in Vnodes, replica_list[v] # <<>>
                   PROVE  \E d \in Holders(replica_list[v]) : HasData(replica_status'[v][d])
        BY <4>3 DEF SomeCopy
      <4>4. PICK d \in Holders(replica_list[v]) : HasData(replica_status[v][d])
        BY <2>1 DEF SomeCopy
      <4>5. CASE v # w
        <5>1. replica_status'[v] = replica_status[v]
          BY <2>1, <4>3, <4>5 DEF TableTypes
        <5> QED
          BY <4>4, <5>1
      <4>6. CASE v = w /\ src = NoDevice
        <5>1. d # dev
          BY <4>2, <4>3, <4>4, <4>6 DEF HasData
        <5>2. d \in Devices
          BY <2>1, ElementOfSeq DEF Holders, TableTypes
        <5>3. replica_status'[v][d] = replica_status[v][d]
          BY <2>1, <4>3, <4>6, <5>1, <5>2 DEF TableTypes
        <5> QED
          BY <4>4, <5>3
      <4>7. CASE v = w /\ src # NoDevice
        <5>1. replica_status'[v][src] = COPY_SRC
          BY <2>1, <4>2, <4>3, <4>7 DEF TableTypes
        <5> QED
          BY <2>2, <4>2, <4>7, <5>1
      <4> QED
        BY <4>5, <4>6, <4>7
    <3>5. ASSUME NEW u \in report[a], ReportCurrent(a, u) PROVE SomeCopy'
      <4>1. CASE u.version = version[u.vnode]
        BY <2>2, <2>4, <3>5, <4>1 DEF ReportCurrent
      <4>2. CASE u.version # version[u.vnode]
        <5>1. replica_status' = replica_status
          BY <2>1, <3>5, <4>2 DEF ReportCurrent, TableTypes
        <5> QED
          BY <2>3, <3>5, <5>1 DEF ReportCurrent
      <4> QED
        BY <4>1, <4>2
    <3>6. ASSUME NEW v \in mine[a], ReportMissing(a, v) PROVE SomeCopy'
      BY <2>3, <3>6 DEF ReportMissing, tableVars
    <3> QED
      BY <2>6, <3>1, <3>2, <3>3, <3>4, <3>5, <3>6 DEF Merge
  <2>7. ASSUME NEW a \in Addrs, Reply(a) \/ (\E vs \in Batches : Finish(a, vs)) PROVE SomeCopy'
    BY <2>3, <2>7 DEF Reply, ReportReply, Finish, SyncDownStart, tableVars
  <2>8. ASSUME NEW a \in Addrs, SyncDown(a) PROVE SomeCopy'
    <3>1. CASE SyncDownFind(a) \/ SyncDownReply(a)
      BY <2>3, <3>1 DEF SyncDownFind, SyncDownReply, tableVars
    <3>2. CASE SyncDownDest(a)
      BY <2>2, <2>4, <3>2 DEF SyncDownDest
    <3>3. CASE SyncDownSrc(a)
      <4> HIDE <1>2
      <4>1. /\ UNCHANGED replica_list
            /\ \/ UNCHANGED replica_status
               \/ replica_status' = [replica_status EXCEPT
                      ![event[a].vnode][event[a].src] = ACTIVE]
        BY <2>1, <3>3, SyncDownSrcQuiet
      <4> QED
        BY <2>2, <2>3, <2>4, <4>1
    <3> QED
      BY <2>8, <3>1, <3>2, <3>3 DEF SyncDown
  <2>9. CASE Read \/ UNCHANGED vars
    BY <2>3, <2>9 DEF Read, ClientRead, vars, masterVars, tableVars
  <2> QED
    BY <2>5, <2>6, <2>7, <2>8, <2>9 DEF Next
<1>3. Inv /\ [Next]_vars => (alloc_fails = 0 => SomeCopy)'
  BY <1>2
<1> QED
  BY <1>1, <1>3, ReplicaInvHolds, PTL DEF Spec

\* Where no join runs out of memory no vnode ever loses its last copy.
THEOREM CopyNeverLost == ASSUME MaxAllocFails = 0
                         PROVE  Spec => []SomeCopy
<1>1. ReplicaInv => alloc_fails = 0
  BY DEF ReplicaInv, TypeInv, TypeOK, JoinTypes
<1> QED
  BY <1>1, ReplicaInvHolds, CopyLostByFailures, PTL

-----------------------------------------------------------------------------
(* The sync events                                                           *)

\* The device found by an address stays the one found: objects are only added,
\* behind those that are there (get_node_by_addr, add_node).
LEMMA DeviceAtStays ==
    ASSUME DeviceTypes, node_count' \in Nat, node_count <= node_count',
           \A d \in 1..node_count : addr'[d] = addr[d], NEW a, Known(a)
    PROVE  Known(a)' /\ DeviceAt(a)' = DeviceAt(a)
<1> DEFINE at == {d \in 1..node_count : addr[d] = a}
           new == {d \in 1..node_count' : addr'[d] = a}
<1>1. node_count \in Nat /\ at \subseteq Nat /\ new \subseteq Nat /\ at # {}
  BY Bounds DEF DeviceTypes, Known
<1>2. at \subseteq new
  BY <1>1
<1>3. FirstOf(at) \in at /\ \A j \in at : FirstOf(at) <= j
  BY <1>1, FirstOfLemma
<1>4. FirstOf(new) \in new /\ \A j \in new : FirstOf(new) <= j
  BY <1>1, <1>2, FirstOfLemma
<1>5. FirstOf(new) <= FirstOf(at)
  BY <1>2, <1>3, <1>4
<1>6. FirstOf(new) \in at
  BY <1>1, <1>3, <1>4, <1>5
<1>7. FirstOf(new) = FirstOf(at)
  BY <1>1, <1>3, <1>5, <1>6
<1>8. Known(a)'
  BY <1>4 DEF Known
<1> QED
  BY <1>7, <1>8 DEF DeviceAt

LEMMA DevicesStay ==
    ASSUME ReplicaInv, [Next]_vars
    PROVE  /\ node_count \in Nat /\ node_count' \in Nat /\ node_count <= node_count'
           /\ \A d \in 1..node_count : addr'[d] = addr[d] /\ vnode_list'[d] = vnode_list[d]
           /\ \A a : Known(a) => Known(a)' /\ DeviceAt(a)' = DeviceAt(a)
<1>1. /\ TypeInv /\ NoMoves /\ DeviceTypes
      /\ node_count \in Nat /\ Joiner \notin 1..node_count
      /\ \A d \in 1..node_count : d \in Devices
      /\ addr \in [Devices -> Addrs \cup {NoAddr}]
      /\ vnode_list \in [Devices -> Seq(Vnodes)]
  BY Bounds DEF ReplicaInv, TypeInv, TypeOK, DeviceTypes, Devices, Joiner
<1>2. /\ node_count' \in {node_count, node_count + 1}
      /\ \A d \in 1..node_count : addr'[d] = addr[d] /\ vnode_list'[d] = vnode_list[d]
  <2>1. CASE Join
    <3>1. ASSUME NEW a \in Addrs, JoinStart(a) \/ JoinMoveNothing(a) PROVE <1>2!:
      BY <1>1, <3>1 DEF JoinStart, JoinMoveNothing
    <3>2. ASSUME NEW a \in Addrs, JoinMoveDies(a) PROVE <1>2!:
      BY <3>2 DEF JoinMoveDies, deviceVars
    <3>3. CASE JoinVnode
      BY <3>3 DEF JoinVnode, deviceVars
    <3>4. CASE JoinPush
      BY <1>1, <3>4 DEF JoinPush
    <3>5. CASE JoinDone
      BY <3>5 DEF JoinDone
    <3>6. CASE JoinFails
      BY <1>1, <3>6 DEF JoinFails
    <3> QED
      BY <2>1, <3>1, <3>2, <3>3, <3>4, <3>5, <3>6 DEF Join
  <2>2. CASE ~Join
    BY <1>1, <2>2, OnlyJoins DEF deviceVars, joinVars
  <2> QED
    BY <2>1, <2>2
<1>3. node_count' \in Nat /\ node_count <= node_count'
  BY <1>1, <1>2
<1> QED
  BY <1>1, <1>2, <1>3, DeviceAtStays

\* A handler has an event in its hands from the moment it pops or makes it to the
\* moment it passes it on; a popped one belongs to its own device, and that of a
\* finished sync is about the first vnode reported.
HandsOK == \A a \in Addrs :
    /\ pc[a] \in {"idle", "relock", "vnodes", "down"} => event[a] = NoEvent
    /\ pc[a] \in {"popped", "dest", "src"} => event[a].src = DeviceAt(a)
    /\ pc[a] \in {"dest", "src"} => event[a].vnode = Head(down[a])

\* While nothing moves in the hands of the handlers they stay in order, also when
\* a join changes the devices.
LEMMA HandsStay ==
    ASSUME ReplicaInv, HandsOK, [Next]_vars, UNCHANGED <<pc, event, down>>
    PROVE  HandsOK'
<1>1. \A a \in Addrs : pc[a] # "idle" => DeviceAt(a)' = DeviceAt(a)
  BY DevicesStay DEF ReplicaInv, TypeInv, Registered
<1> QED
  BY <1>1 DEF HandsOK

LEMMA HandsStep ==
    ASSUME ReplicaInv, HandsOK, [Next]_vars
    PROVE  HandsOK'
<1>1. /\ pc \in [Addrs -> HandlerPcs]
      /\ event \in [Addrs -> LocalEvents]
      /\ down \in [Addrs -> Seq(Vnodes)]
  BY DEF ReplicaInv, TypeInv, TypeOK, HandlerTypes
<1>2. ASSUME NEW a \in Addrs, UNCHANGED deviceVars,
             \A b \in Addrs : b # a =>
                pc'[b] = pc[b] /\ event'[b] = event[b] /\ down'[b] = down[b],
             pc'[a] \in {"idle", "relock", "vnodes", "down"} => event'[a] = NoEvent,
             pc'[a] \in {"popped", "dest", "src"} => event'[a].src = DeviceAt(a),
             pc'[a] \in {"dest", "src"} => event'[a].vnode = Head(down'[a])
      PROVE  HandsOK'
  <2>1. \A b : DeviceAt(b)' = DeviceAt(b)
    BY <1>2 DEF DeviceAt, deviceVars
  <2> QED
    BY <1>2, <2>1 DEF HandsOK
<1>3. CASE Join
  <2>1. UNCHANGED <<pc, event, down>>
    BY <1>3 DEF Join, JoinStart, JoinMoveDies, JoinMoveNothing, JoinVnode, JoinPush, JoinDone,
                JoinFails, handlerVars
  <2> QED
    BY <2>1, HandsStay
<1>4. ASSUME NEW a \in Addrs, PopSyncEvent(a, DeviceAt(a)), event[a] = NoEvent,
             UNCHANGED <<down, deviceVars>>
      PROVE  HandsOK'
  <2> DEFINE dev == DeviceAt(a)
  <2>1. CASE sync_list[dev] = <<>>
    BY <1>1, <1>2, <1>4, <2>1 DEF PopSyncEvent
  <2>2. CASE sync_list[dev] # <<>>
    <3> DEFINE e == [vnode |-> Head(sync_list[dev]).vnode,
                     dest |-> Head(sync_list[dev]).dest, src |-> dev]
    <3>1. pc' = [pc EXCEPT ![a] = "popped"] /\ event' = [event EXCEPT ![a] = e] /\ e.src = dev
      BY <1>4, <2>2 DEF PopSyncEvent
    <3> HIDE DEF e
    <3> QED
      BY <1>1, <1>2, <1>4, <3>1
  <2> QED
    BY <2>1, <2>2
<1>5. ASSUME NEW a \in Addrs, Merge(a) PROVE HandsOK'
  <2>1. ASSUME NEW r \in Reports, ReportStart(a, Units(r)) PROVE HandsOK'
    BY <1>4, <2>1 DEF ReportStart, HandsOK, deviceVars
  <2>2. CASE ReportSync(a)
    BY <1>1, <1>2, <2>2 DEF ReportSync
  <2>3. CASE ReportRelock(a)
    BY <1>4, <2>3 DEF ReportRelock, HandsOK
  <2>4. ASSUME NEW u \in report[a], ReportStranger(a, u) \/ ReportSyncing(a, u) PROVE HandsOK'
    BY <2>4, HandsStay DEF ReportStranger, ReportSyncing
  <2>5. ASSUME NEW u \in report[a], ReportStale(a, u) PROVE HandsOK'
    <3> DEFINE v == u.vnode
               src == get_read_replica(replica_list[v], replica_status[v], rd_req_robin[v])
    <3>1. /\ UNCHANGED <<deviceVars, down>>
          /\ \/ UNCHANGED <<pc, event>>
             \/ /\ event' = [event EXCEPT ![a] = [vnode |-> v, dest |-> DeviceAt(a), src |-> src]]
                /\ pc' = [pc EXCEPT ![a] = "push"]
      BY <2>5 DEF ReportStale
    <3> HIDE DEF src
    <3>2. CASE UNCHANGED <<pc, event>>
      BY <3>1, <3>2, HandsStay
    <3>3. CASE /\ event' = [event EXCEPT ![a] = [vnode |-> v, dest |-> DeviceAt(a), src |-> src]]
               /\ pc' = [pc EXCEPT ![a] = "push"]
      BY <1>1, <1>2, <3>1, <3>3
    <3> QED
      BY <3>1, <3>2, <3>3
  <2>6. CASE ReportPush(a)
    BY <1>1, <1>2, <2>6 DEF ReportPush
  <2>7. ASSUME NEW u \in report[a], ReportCurrent(a, u) PROVE HandsOK'
    BY <2>7, HandsStay DEF ReportCurrent
  <2>8. ASSUME NEW v \in mine[a], ReportMissing(a, v) PROVE HandsOK'
    BY <2>8, HandsStay DEF ReportMissing
  <2> QED
    BY <1>5, <2>1, <2>2, <2>3, <2>4, <2>5, <2>6, <2>7, <2>8 DEF Merge
<1>6. ASSUME NEW a \in Addrs, Reply(a) PROVE HandsOK'
  BY <1>1, <1>2, <1>6 DEF Reply, ReportReply, HandsOK
<1>7. ASSUME NEW a \in Addrs, NEW vs \in Batches, Finish(a, vs) PROVE HandsOK'
  <2>1. /\ pc' = [pc EXCEPT ![a] = "down"] /\ down' = [down EXCEPT ![a] = vs]
        /\ event[a] = NoEvent /\ UNCHANGED <<event, deviceVars>>
    BY <1>7 DEF Finish, SyncDownStart, HandsOK
  <2> QED
    BY <1>1, <1>2, <2>1
<1>8. ASSUME NEW a \in Addrs, SyncDown(a) PROVE HandsOK'
  <2>1. CASE SyncDownFind(a)
    <3> DEFINE dev == DeviceAt(a)
               v == Head(down[a])
               d == syncing_list[dev][FirstOf(SyncingAt(dev, v))].dest
    <3>1. /\ UNCHANGED <<deviceVars, down>>
          /\ \/ UNCHANGED <<pc, event>>
             \/ /\ event' = [event EXCEPT ![a] = [vnode |-> v, dest |-> d, src |-> dev]]
                /\ pc' = [pc EXCEPT ![a] = "dest"]
      BY <2>1 DEF SyncDownFind
    <3> HIDE DEF d
    <3>2. CASE UNCHANGED <<pc, event>>
      BY <3>1, <3>2, HandsStay
    <3>3. CASE /\ event' = [event EXCEPT ![a] = [vnode |-> v, dest |-> d, src |-> dev]]
               /\ pc' = [pc EXCEPT ![a] = "dest"]
      BY <1>1, <1>2, <3>1, <3>3
    <3> QED
      BY <3>1, <3>2, <3>3
  <2>2. CASE SyncDownDest(a)
    BY <1>1, <1>2, <2>2 DEF SyncDownDest, HandsOK
  <2>3. CASE SyncDownSrc(a)
    BY <1>1, <1>2, <2>3 DEF SyncDownSrc
  <2>4. CASE SyncDownReply(a)
    BY <1>1, <1>2, <2>4 DEF SyncDownReply, HandsOK
  <2> QED
    BY <1>8, <2>1, <2>2, <2>3, <2>4 DEF SyncDown
<1>9. CASE Read \/ UNCHANGED vars
  <2>1. UNCHANGED <<pc, event, down>>
    BY <1>9 DEF Read, ClientRead, vars, masterVars, handlerVars
  <2> QED
    BY <2>1, HandsStay
<1> QED
  BY <1>3, <1>5, <1>6, <1>7, <1>8, <1>9 DEF Next

\* A sync that is under way and has not yet brought its data: it is in a list, or
\* in the hands of a handler that has not written the destination's status.
Pending(v, src, dest) ==
    \/ [vnode |-> v, dest |-> dest] \in Range(sync_list[src]) \cup Range(syncing_list[src])
    \/ \E a \in Addrs : pc[a] # "src" /\ event[a] = [vnode |-> v, dest |-> dest, src |-> src]

\* A replica that waits has a sync that will still bring it its data (WaitSyncHasEvent
\* alone is not inductive: the sync in hand may already have written its destination).
WaitsPending ==
    \A v \in Vnodes : \A d \in Holders(replica_list[v]) :
        replica_status[v][d] = WAIT_SYNC => \E s \in Devices : Pending(v, s, d)

\* The event of the replica a join is about to push waits at its source.
JoinEvent == join.pc = "push" /\ join.src # NoDevice =>
                [vnode |-> join.next, dest |-> Joiner] \in Range(sync_list[join.src])

EventInv == ReplicaInv /\ HandsOK /\ JoinEvent /\ WaitsPending /\ SourceHasWork

\* Syncs are not lost while every entry of a list, and every event in a hand, is
\* again in a list or in a hand.
LEMMA Carried ==
    ASSUME HandlerTypes,
           \A s \in Devices : \A x \in SyncEvents :
              x \in Range(sync_list[s]) \cup Range(syncing_list[s]) => Pending(x.vnode, s, x.dest)',
           \A b \in Addrs :
              \/ event[b] = NoEvent
              \/ event'[b] = event[b] /\ (pc'[b] = "src" => pc[b] = "src")
              \/ \E v \in Vnodes, s, d \in Devices :
                    event[b] = [vnode |-> v, dest |-> d, src |-> s] /\ Pending(v, s, d)'
    PROVE  \A v \in Vnodes, s, d \in Devices :
              /\ Pending(v, s, d) => Pending(v, s, d)'
              /\ UnderWay(v, s, d) => UnderWay(v, s, d)'
<1> SUFFICES ASSUME NEW v \in Vnodes, NEW s \in Devices, NEW d \in Devices
             PROVE  /\ Pending(v, s, d) => Pending(v, s, d)'
                    /\ UnderWay(v, s, d) => UnderWay(v, s, d)'
  OBVIOUS
<1>1. Pending(v, s, d)' => UnderWay(v, s, d)'
  BY DEF Pending, UnderWay
<1>2. CASE [vnode |-> v, dest |-> d] \in Range(sync_list[s]) \cup Range(syncing_list[s])
  <2> DEFINE x == [vnode |-> v, dest |-> d]
  <2>1. x \in SyncEvents /\ x.vnode = v /\ x.dest = d
    BY DEF SyncEvents
  <2>2. Pending(x.vnode, s, x.dest)'
    BY <1>2, <2>1
  <2> HIDE DEF x
  <2>3. Pending(v, s, d)'
    BY <2>1, <2>2
  <2> QED
    BY <1>1, <2>3
<1>3. ASSUME NEW b \in Addrs, event[b] = [vnode |-> v, dest |-> d, src |-> s]
      PROVE  /\ UnderWay(v, s, d)'
             /\ pc[b] # "src" => Pending(v, s, d)'
  <2>1. event[b] # NoEvent
    BY <1>3, Bounds DEF NoEvent
  <2>2. CASE event'[b] = event[b] /\ (pc'[b] = "src" => pc[b] = "src")
    BY <1>3, <2>2 DEF Pending, UnderWay
  <2>3. CASE \E w \in Vnodes, t, e \in Devices :
                event[b] = [vnode |-> w, dest |-> e, src |-> t] /\ Pending(w, t, e)'
    <3>1. PICK w \in Vnodes, t \in Devices, e \in Devices :
             event[b] = [vnode |-> w, dest |-> e, src |-> t] /\ Pending(w, t, e)'
      BY <2>3
    <3>2. w = v /\ t = s /\ e = d
      BY <1>3, <3>1
    <3>3. Pending(v, s, d)'
      BY <3>1, <3>2
    <3> QED
      BY <1>1, <3>3
  <2> QED
    BY <2>1, <2>2, <2>3
<1> QED
  BY <1>2, <1>3 DEF Pending, UnderWay

\* Popping an event puts it into the handler's hands.
LEMMA PopCarries ==
    ASSUME TypeInv, NEW a \in Addrs, NEW dev \in Devices, PopSyncEvent(a, dev),
           event[a] = NoEvent, pc[a] # "src", UNCHANGED syncing_list
    PROVE  \A v \in Vnodes, s, d \in Devices :
              /\ Pending(v, s, d) => Pending(v, s, d)'
              /\ UnderWay(v, s, d) => UnderWay(v, s, d)'
<1>1. /\ pc \in [Addrs -> HandlerPcs] /\ event \in [Addrs -> LocalEvents]
      /\ sync_list \in [Devices -> Seq(SyncEvents)] /\ HandlerTypes
  BY DEF TypeInv, TypeOK, HandlerTypes, ListTypes
<1>2. CASE sync_list[dev] = <<>>
  <2>1. UNCHANGED <<sync_list, event>> /\ pc' = [pc EXCEPT ![a] = "vnodes"]
    BY <1>2 DEF PopSyncEvent
  <2>2. \A s \in Devices : \A x \in SyncEvents :
           x \in Range(sync_list[s]) \cup Range(syncing_list[s]) => Pending(x.vnode, s, x.dest)'
    BY <2>1 DEF Pending, SyncEvents
  <2>3. \A b \in Addrs : event'[b] = event[b] /\ (pc'[b] = "src" => pc[b] = "src")
    BY <1>1, <2>1
  <2> QED
    BY <1>1, <2>2, <2>3, Carried
<1>3. CASE sync_list[dev] # <<>>
  <2>0. PICK h \in SyncEvents : h = Head(sync_list[dev])
    BY <1>1, <1>3, HeadTailProperties
  <2> DEFINE e == [vnode |-> h.vnode, dest |-> h.dest, src |-> dev]
  <2>1. /\ pc' = [pc EXCEPT ![a] = "popped"] /\ event' = [event EXCEPT ![a] = e]
        /\ sync_list' = [sync_list EXCEPT ![dev] = Tail(@)]
    BY <1>3, <2>0 DEF PopSyncEvent
  <2>2. Range(sync_list[dev]) \subseteq Range(Tail(sync_list[dev])) \cup {h}
    BY <1>1, <1>3, <2>0, RangeTail
  <2>3. Pending(h.vnode, dev, h.dest)'
    BY <1>1, <2>1 DEF Pending
  <2>4. ASSUME NEW s \in Devices, NEW x \in SyncEvents,
               x \in Range(sync_list[s]) \cup Range(syncing_list[s])
        PROVE  Pending(x.vnode, s, x.dest)'
    <3>1. CASE x \in Range(sync_list'[s]) \cup Range(syncing_list'[s])
      <4>1. x = [vnode |-> x.vnode, dest |-> x.dest]
        BY DEF SyncEvents
      <4> QED
        BY <3>1, <4>1 DEF Pending
    <3>2. CASE s = dev /\ x = h
      BY <2>3, <3>2
    <3>3. CASE s # dev
      BY <1>1, <2>1, <2>4, <3>1, <3>3
    <3>4. sync_list'[dev] = Tail(sync_list[dev])
      BY <1>1, <2>1
    <3> QED
      BY <2>2, <2>4, <3>1, <3>2, <3>3, <3>4
  <2>5. \A b \in Addrs : \/ event[b] = NoEvent
                         \/ event'[b] = event[b] /\ (pc'[b] = "src" => pc[b] = "src")
    BY <1>1, <2>1
  <2> QED
    BY <1>1, <2>4, <2>5, Carried
<1> QED
  BY <1>2, <1>3

\* Handing an event on to a list leaves it under way.
LEMMA PushCarries ==
    ASSUME TypeInv, NEW a \in Addrs, NEW dev \in Devices,
           event[a].vnode \in Vnodes, event[a].dest \in Devices, event[a].src = dev,
           \A b \in Addrs : b # a => event'[b] = event[b] /\ pc'[b] = pc[b],
           \A s \in Devices : s # dev =>
              sync_list'[s] = sync_list[s] /\ syncing_list'[s] = syncing_list[s],
           LET x == [vnode |-> event[a].vnode, dest |-> event[a].dest]
           IN  \/ /\ sync_list'[dev] = Append(sync_list[dev], x)
                  /\ syncing_list'[dev] = syncing_list[dev]
               \/ /\ syncing_list'[dev] = Append(syncing_list[dev], x)
                  /\ sync_list'[dev] = sync_list[dev]
    PROVE  \A v \in Vnodes, s, d \in Devices :
              /\ Pending(v, s, d) => Pending(v, s, d)'
              /\ UnderWay(v, s, d) => UnderWay(v, s, d)'
<1>0. PICK x : x = [vnode |-> event[a].vnode, dest |-> event[a].dest]
  OBVIOUS
<1>1. /\ sync_list[dev] \in Seq(SyncEvents) /\ syncing_list[dev] \in Seq(SyncEvents)
      /\ HandlerTypes
  BY DEF TypeInv, TypeOK, ListTypes
<1>2. x \in SyncEvents
  BY <1>0 DEF SyncEvents
<1>3. /\ Range(Append(sync_list[dev], x)) = Range(sync_list[dev]) \cup {x}
      /\ Range(Append(syncing_list[dev], x)) = Range(syncing_list[dev]) \cup {x}
  BY <1>1, <1>2, RangeAppend
<1>4. \A s \in Devices : Range(sync_list[s]) \cup Range(syncing_list[s])
                            \subseteq Range(sync_list'[s]) \cup Range(syncing_list'[s])
  BY <1>0, <1>3
<1>5. x \in Range(sync_list'[dev]) \cup Range(syncing_list'[dev])
  BY <1>0, <1>3
<1>6. /\ event[a] = [vnode |-> x.vnode, dest |-> x.dest, src |-> dev]
      /\ Pending(x.vnode, dev, x.dest)'
  <2>1. x = [vnode |-> x.vnode, dest |-> x.dest]
    BY <1>0
  <2>2. event[a] \in LocalEvents
    BY <1>1 DEF HandlerTypes
  <2>3. event[a] = [vnode |-> x.vnode, dest |-> x.dest, src |-> dev]
    BY <1>0, <2>2 DEF LocalEvents
  <2> QED
    BY <1>5, <2>1, <2>3 DEF Pending
<1>7. ASSUME NEW s \in Devices, NEW y \in SyncEvents,
             y \in Range(sync_list[s]) \cup Range(syncing_list[s])
      PROVE  Pending(y.vnode, s, y.dest)'
  <2>1. y = [vnode |-> y.vnode, dest |-> y.dest]
    BY DEF SyncEvents
  <2>2. y \in Range(sync_list'[s]) \cup Range(syncing_list'[s])
    BY <1>4, <1>7
  <2> QED
    BY <2>1, <2>2 DEF Pending
<1>8. \A b \in Addrs :
         \/ event'[b] = event[b] /\ (pc'[b] = "src" => pc[b] = "src")
         \/ \E v \in Vnodes, s, d \in Devices :
               event[b] = [vnode |-> v, dest |-> d, src |-> s] /\ Pending(v, s, d)'
  <2>1. x.vnode \in Vnodes /\ x.dest \in Devices
    BY <1>2 DEF SyncEvents
  <2> QED
    BY <1>6, <2>1
<1> QED
  BY <1>1, <1>7, <1>8, Carried

\* The events keep their replicas: nothing under way is lost, and a replica that
\* begins to wait, or to be a source, has a sync of its own.
LEMMA WorkStays ==
    ASSUME WaitsPending, SourceHasWork,
           \A v \in Vnodes, s, d \in Devices :
              /\ Pending(v, s, d) => Pending(v, s, d)'
              /\ UnderWay(v, s, d) => UnderWay(v, s, d)',
           \A v \in Vnodes : Holders(replica_list[v]) \subseteq Devices,
           \A v \in Vnodes : \A d \in Holders(replica_list'[v]) :
              /\ replica_status'[v][d] = WAIT_SYNC =>
                    \/ d \in Holders(replica_list[v]) /\ replica_status[v][d] = WAIT_SYNC
                    \/ \E s \in Devices : Pending(v, s, d)'
              /\ replica_status'[v][d] = COPY_SRC =>
                    \/ d \in Holders(replica_list[v]) /\ replica_status[v][d] = COPY_SRC
                    \/ \E t \in Devices : UnderWay(v, d, t)'
    PROVE  WaitsPending' /\ SourceHasWork'
<1>1. ASSUME NEW v \in Vnodes, NEW d \in Holders(replica_list'[v]), replica_status'[v][d] = WAIT_SYNC
      PROVE  \E s \in Devices : Pending(v, s, d)'
  <2>1. CASE d \in Holders(replica_list[v]) /\ replica_status[v][d] = WAIT_SYNC
    <3>1. PICK s \in Devices : Pending(v, s, d)
      BY <2>1 DEF WaitsPending
    <3> QED
      BY <2>1, <3>1
  <2> QED
    BY <1>1, <2>1
<1>2. ASSUME NEW v \in Vnodes, NEW d \in Holders(replica_list'[v]), replica_status'[v][d] = COPY_SRC
      PROVE  \E t \in Devices : UnderWay(v, d, t)'
  <2>1. CASE d \in Holders(replica_list[v]) /\ replica_status[v][d] = COPY_SRC
    <3>1. PICK t \in Devices : UnderWay(v, d, t)
      BY <2>1 DEF SourceHasWork
    <3> QED
      BY <2>1, <3>1
  <2> QED
    BY <1>2, <2>1
<1> QED
  BY <1>1, <1>2 DEF WaitsPending, SourceHasWork

\* A step that moves no event loses none.
LEMMA NothingMoves ==
    ASSUME TypeInv, UNCHANGED <<listVars, event>>, \A b \in Addrs : pc'[b] = "src" => pc[b] = "src"
    PROVE  \A v \in Vnodes, s, d \in Devices :
              /\ Pending(v, s, d) => Pending(v, s, d)'
              /\ UnderWay(v, s, d) => UnderWay(v, s, d)'
BY DEF Pending, UnderWay, listVars

\* The joins: a source that is chosen gets its event first, the replica it is for
\* is pushed after.
LEMMA JoinStepEvents ==
    ASSUME EventInv, Join, TypeInv'
    PROVE  JoinEvent' /\ WaitsPending' /\ SourceHasWork'
<1> DEFINE Kept == \A v \in Vnodes, s, d \in Devices :
                      /\ Pending(v, s, d) => Pending(v, s, d)'
                      /\ UnderWay(v, s, d) => UnderWay(v, s, d)'
<1>1. /\ TypeInv /\ ReplicaInv /\ JoinEvent /\ WaitsPending /\ SourceHasWork
      /\ replica_list \in [Vnodes -> Seq(Devices)]
      /\ replica_status \in [Vnodes -> [Devices -> Statuses]]
      /\ sync_list \in [Devices -> Seq(SyncEvents)]
      /\ join \in [pc : {"none", "copy", "push"}, next : 0..VnodeCount, src : Devices \cup {NoDevice}]
  BY DEF EventInv, ReplicaInv, TypeInv, TypeOK, TableTypes, ListTypes, JoinTypes
<1>2. \A v \in Vnodes : Holders(replica_list[v]) \subseteq Devices
  BY <1>1, ElementOfSeq DEF Holders
<1>3. WAIT_SYNC # COPY_SRC /\ MOVE_SRC \notin {WAIT_SYNC, COPY_SRC} /\ INIT \notin {WAIT_SYNC, COPY_SRC}
      /\ ACTIVE \notin {WAIT_SYNC, COPY_SRC} /\ ONLINE \notin {WAIT_SYNC, COPY_SRC}
  BY DEF INIT, ONLINE, WAIT_SYNC, COPY_SRC, MOVE_SRC, ACTIVE
<1>4. UNCHANGED handlerVars
  BY DEF Join, JoinStart, JoinMoveDies, JoinMoveNothing, JoinVnode, JoinPush, JoinDone, JoinFails
<1>5. UNCHANGED listVars => Kept
  BY <1>1, <1>4, NothingMoves DEF handlerVars
<1> HIDE DEF Kept
<1>6. ASSUME UNCHANGED <<replica_list, replica_status, listVars>>, join'.pc # "push"
      PROVE  JoinEvent' /\ WaitsPending' /\ SourceHasWork'
  BY <1>1, <1>2, <1>5, <1>6, WorkStays DEF JoinEvent, Kept
<1>7. ASSUME NEW a \in Addrs, JoinStart(a) \/ JoinMoveNothing(a)
      PROVE  JoinEvent' /\ WaitsPending' /\ SourceHasWork'
  BY <1>6, <1>7 DEF JoinStart, JoinMoveNothing, LockFree, tableVars, joinVars, NoJoin
<1>8. CASE JoinDone
  BY <1>6, <1>8 DEF JoinDone, tableVars, NoJoin
<1>9. ASSUME NEW a \in Addrs, JoinMoveDies(a)
      PROVE  JoinEvent' /\ WaitsPending' /\ SourceHasWork'
  <2>1. PICK d \in 1..node_count : \E i \in Movable(d, a) :
            replica_status' = [replica_status EXCEPT ![vnode_list[d][i]][d] = MOVE_SRC]
    BY <1>9 DEF JoinMoveDies
  <2>2. PICK i \in Movable(d, a) :
            replica_status' = [replica_status EXCEPT ![vnode_list[d][i]][d] = MOVE_SRC]
    BY <2>1
  <2>3. \A v \in Vnodes, e \in Devices :
           replica_status'[v][e] = replica_status[v][e] \/ replica_status'[v][e] = MOVE_SRC
    BY <1>1, <2>2
  <2>4. UNCHANGED <<replica_list, listVars, join>> /\ join.pc = "none"
    BY <1>9 DEF JoinMoveDies, LockFree, joinVars
  <2>5. WaitsPending' /\ SourceHasWork'
    BY <1>1, <1>2, <1>3, <1>5, <2>3, <2>4, WorkStays DEF Kept
  <2> QED
    BY <2>4, <2>5 DEF JoinEvent
<1>10. CASE JoinVnode
  <2> DEFINE v == join.next
             src == get_read_replica(replica_list[v], replica_status[v], rd_req_robin[v])
  <2>1. CASE ~is_diff_zones(replica_list[v], zoneOf, zoneOf[Joiner])
    <3>1. UNCHANGED <<replica_list, replica_status, sync_list, syncing_list>> /\ join'.pc = "copy"
      BY <1>1, <1>10, <2>1 DEF JoinVnode
    <3> QED
      BY <1>6, <3>1 DEF listVars
  <2>2. CASE is_diff_zones(replica_list[v], zoneOf, zoneOf[Joiner])
    <3>0. v \in Vnodes /\ Joiner \in Devices
      BY <1>1, <1>10, Bounds DEF JoinVnode, TypeInv, TypeOK, JoinOK, DeviceTypes, Vnodes, Devices, Joiner
    <3>1. /\ join'.pc = "push" /\ join'.next = v /\ join'.src = src
          /\ UNCHANGED <<replica_list, syncing_list, node_count>>
          /\ src = NoDevice => UNCHANGED <<replica_status, sync_list>>
          /\ src # NoDevice =>
                /\ replica_status' = [replica_status EXCEPT ![v][src] = COPY_SRC]
                /\ sync_list' = [sync_list EXCEPT
                       ![src] = Append(@, [vnode |-> v, dest |-> Joiner])]
      BY <1>1, <1>10, <2>2 DEF JoinVnode, deviceVars
    <3>2. src \in Devices \cup {NoDevice}
      BY <1>1, <3>0, SourceChosen DEF TypeInv, TypeOK
    <3> HIDE DEF src
    <3>3. CASE src = NoDevice
      <4>1. JoinEvent'
        BY <3>1, <3>3 DEF JoinEvent
      <4>2. UNCHANGED listVars
        BY <3>1, <3>3 DEF listVars
      <4> QED
        BY <1>1, <1>2, <1>5, <3>1, <3>3, <4>1, <4>2, WorkStays DEF Kept
    <3>4. CASE src # NoDevice
      <4>1. src \in Devices
        BY <3>2, <3>4
      <4>2. PICK x \in SyncEvents : x = [vnode |-> v, dest |-> Joiner]
        BY <3>0 DEF SyncEvents
      <4>3. /\ \A s \in Devices : Range(sync_list[s]) \subseteq Range(sync_list'[s])
            /\ x \in Range(sync_list'[src])
        <5>1. Range(Append(sync_list[src], x)) = Range(sync_list[src]) \cup {x}
          BY <1>1, <4>1, <4>2, RangeAppend
        <5>2. sync_list'[src] = Append(sync_list[src], x)
          BY <1>1, <3>1, <3>4, <4>1, <4>2
        <5>3. \A s \in Devices : s # src => sync_list'[s] = sync_list[s]
          BY <1>1, <3>1, <3>4, <4>1, <4>2
        <5> QED
          BY <5>1, <5>2, <5>3
      <4>4. JoinEvent'
        BY <3>1, <4>2, <4>3 DEF JoinEvent, Joiner
      <4>5. Kept
        BY <1>4, <3>1, <4>3 DEF Kept, Pending, UnderWay, handlerVars
      <4>6. \A w \in Vnodes, e \in Devices :
               w = v /\ e = src => \E t \in Devices : UnderWay(w, e, t)'
        <5> SUFFICES ASSUME NEW w \in Vnodes, NEW e \in Devices, w = v, e = src
                     PROVE  \E t \in Devices : UnderWay(w, e, t)'
          OBVIOUS
        <5>1. PICK t \in Devices : t = Joiner
          BY <3>0
        <5>2. UnderWay(w, e, t)'
          BY <4>2, <4>3, <5>1 DEF UnderWay
        <5> QED
          BY <5>2
      <4>7. \A w \in Vnodes, e \in Devices :
               replica_status'[w][e] = IF w = v /\ e = src THEN COPY_SRC ELSE replica_status[w][e]
        BY <1>1, <3>0, <3>1, <3>4, <4>1
      <4> QED
        BY <1>1, <1>2, <1>3, <3>1, <4>4, <4>5, <4>6, <4>7, WorkStays DEF Kept
    <3> QED
      BY <3>3, <3>4
  <2> QED
    BY <2>1, <2>2
<1>11. CASE JoinPush
  <2> DEFINE w == join.next
             s == IF replica_list[w] = <<>> THEN ACTIVE
                  ELSE IF join.src = NoDevice THEN ONLINE ELSE WAIT_SYNC
  <2>1. /\ w \in Vnodes /\ Joiner \in Devices /\ join'.pc = "copy" /\ UNCHANGED listVars
        /\ replica_list' = [replica_list EXCEPT ![w] = Append(@, Joiner)]
        /\ replica_status' = [replica_status EXCEPT ![w][Joiner] = s]
        /\ s = WAIT_SYNC => join.src # NoDevice
        /\ s # COPY_SRC
    BY <1>1, <1>3, <1>11, Bounds
    DEF JoinPush, TypeInv, TypeOK, JoinOK, DeviceTypes, Vnodes, Devices, Joiner
  <2> HIDE DEF s
  <2>2. Holders(Append(replica_list[w], Joiner)) = Holders(replica_list[w]) \cup {Joiner}
    BY <1>1, <2>1, HoldersAppend
  <2>3. \A v \in Vnodes : Holders(replica_list'[v]) \subseteq Devices
    BY <1>1, <1>2, <2>1, <2>2
  <2>4. \A v \in Vnodes, d \in Devices : ~(v = w /\ d = Joiner) =>
           /\ d \in Holders(replica_list'[v]) => d \in Holders(replica_list[v])
           /\ replica_status'[v][d] = replica_status[v][d]
    BY <1>1, <2>1, <2>2
  <2>5. replica_status'[w][Joiner] = s
    BY <1>1, <2>1
  <2>6. ASSUME NEW v \in Vnodes, NEW d \in Devices, v = w, d = Joiner, s = WAIT_SYNC
        PROVE  \E t \in Devices : Pending(v, t, d)'
    <3>1. join.src # NoDevice /\ join.pc = "push"
      BY <1>11, <2>1, <2>6 DEF JoinPush
    <3>2. PICK t \in Devices : t = join.src
      BY <1>1, <3>1
    <3>3. [vnode |-> v, dest |-> d] \in Range(sync_list[t])
      BY <1>1, <2>6, <3>1, <3>2 DEF JoinEvent
    <3>4. Pending(v, t, d)'
      BY <2>1, <3>3 DEF Pending, listVars
    <3> QED
      BY <3>4
  <2>7. \A v \in Vnodes : \A d \in Holders(replica_list'[v]) :
           /\ replica_status'[v][d] = WAIT_SYNC =>
                 \/ d \in Holders(replica_list[v]) /\ replica_status[v][d] = WAIT_SYNC
                 \/ \E t \in Devices : Pending(v, t, d)'
           /\ replica_status'[v][d] = COPY_SRC =>
                 d \in Holders(replica_list[v]) /\ replica_status[v][d] = COPY_SRC
    <3> SUFFICES ASSUME NEW v \in Vnodes, NEW d \in Holders(replica_list'[v])
                 PROVE  /\ replica_status'[v][d] = WAIT_SYNC =>
                             \/ d \in Holders(replica_list[v]) /\ replica_status[v][d] = WAIT_SYNC
                             \/ \E t \in Devices : Pending(v, t, d)'
                        /\ replica_status'[v][d] = COPY_SRC =>
                             d \in Holders(replica_list[v]) /\ replica_status[v][d] = COPY_SRC
      OBVIOUS
    <3>1. d \in Devices
      BY <2>3
    <3>2. CASE v = w /\ d = Joiner
      BY <2>1, <2>5, <2>6, <3>1, <3>2
    <3>3. CASE ~(v = w /\ d = Joiner)
      BY <2>4, <3>1, <3>3
    <3> QED
      BY <3>2, <3>3
  <2>8. JoinEvent'
    BY <2>1 DEF JoinEvent
  <2>9. WaitsPending' /\ SourceHasWork'
    BY <1>1, <1>2, <1>5, <2>1, <2>7, WorkStays DEF Kept
  <2> QED
    BY <2>8, <2>9
<1>12. CASE JoinFails
  <2>1. /\ UNCHANGED listVars /\ join' = NoJoin
        /\ \A v \in Vnodes : replica_list'[v] = destroy_replica_info(replica_list[v], Joiner)
        /\ \A v \in Vnodes, d \in Devices :
              replica_status'[v][d] = IF d = Joiner THEN INIT ELSE replica_status[v][d]
    BY <1>1, <1>12 DEF JoinFails
  <2>2. \A v \in Vnodes : Holders(replica_list'[v]) = Holders(replica_list[v]) \ {Joiner}
    <3> TAKE v \in Vnodes
    <3> DEFINE list == replica_list[v]
    <3>1. /\ list \in Seq(Devices)
          /\ \A i, j \in 1..Len(list) : i # j => list[i] # list[j]
      BY <1>1, DistinctReplicas DEF ReplicaInv
    <3> HIDE DEF list
    <3>2. Holders(destroy_replica_info(list, Joiner)) = Holders(list) \ {Joiner}
      BY <3>1, DestroyLemma
    <3> QED
      BY <2>1, <3>2 DEF list
  <2>3. JoinEvent'
    BY <2>1 DEF JoinEvent, NoJoin
  <2>4. WaitsPending' /\ SourceHasWork'
    BY <1>1, <1>2, <1>3, <1>5, <2>1, <2>2, WorkStays DEF Kept
  <2> QED
    BY <2>3, <2>4
<1> QED
  BY <1>7, <1>8, <1>9, <1>10, <1>11, <1>12 DEF Join

\* Only a handler that finds the device lock free takes events off a list.
LEMMA JoinEventStays ==
    ASSUME JoinEvent, UNCHANGED <<join, deviceVars>>,
           LockFree \/ UNCHANGED sync_list
    PROVE  JoinEvent'
BY DEF JoinEvent, LockFree, deviceVars, Joiner

\* The merge of a beat: a stale replica begins to wait together with its event, and
\* events only move on.
LEMMA MergeStepEvents ==
    ASSUME EventInv, NEW a \in Addrs, Merge(a)
    PROVE  JoinEvent' /\ WaitsPending' /\ SourceHasWork'
<1> DEFINE dev == DeviceAt(a)
           Kept == \A v \in Vnodes, s, d \in Devices :
                      /\ Pending(v, s, d) => Pending(v, s, d)'
                      /\ UnderWay(v, s, d) => UnderWay(v, s, d)'
<1>1. /\ TypeInv /\ ReplicaInv /\ JoinEvent /\ WaitsPending /\ SourceHasWork /\ HandsOK /\ EventOK
      /\ HandlerTypes /\ TableTypes
      /\ replica_list \in [Vnodes -> Seq(Devices)]
      /\ replica_status \in [Vnodes -> [Devices -> Statuses]]
      /\ sync_list \in [Devices -> Seq(SyncEvents)]
      /\ syncing_list \in [Devices -> Seq(SyncEvents)]
      /\ event \in [Addrs -> LocalEvents]
      /\ pc \in [Addrs -> HandlerPcs]
      /\ report[a] \in SUBSET [vnode : Vnodes, version : Nat]
  BY DEF EventInv, ReplicaInv, TypeInv, TypeOK, TableTypes, ListTypes, HandlerTypes
<1>2. \A v \in Vnodes : Holders(replica_list[v]) \subseteq Devices
  BY <1>1, ElementOfSeq DEF Holders
<1>3. pc[a] # "idle" \/ Known(a) => dev \in Devices
  BY <1>1, DeviceAtType DEF TypeInv, TypeOK, Registered
<1>4. WAIT_SYNC # COPY_SRC /\ ACTIVE \notin {WAIT_SYNC, COPY_SRC} /\ ONLINE \notin {WAIT_SYNC, COPY_SRC}
  BY DEF ONLINE, WAIT_SYNC, COPY_SRC, ACTIVE
<1> HIDE DEF Kept
<1>5. ASSUME Kept, UNCHANGED <<replica_list, replica_status>>
      PROVE  WaitsPending' /\ SourceHasWork'
  BY <1>1, <1>2, <1>5, WorkStays DEF Kept
<1>6. UNCHANGED <<listVars, event, pc>> => Kept
  BY <1>1, NothingMoves DEF Kept
<1>7. ASSUME PopSyncEvent(a, dev), event[a] = NoEvent, pc[a] # "src", dev \in Devices,
             LockFree, UNCHANGED <<tableVars, deviceVars, syncing_list, join>>
      PROVE  JoinEvent' /\ WaitsPending' /\ SourceHasWork'
  <2>1. Kept
    BY <1>1, <1>7, PopCarries DEF Kept
  <2> QED
    BY <1>1, <1>5, <1>7, <2>1, JoinEventStays DEF tableVars
<1>8. ASSUME NEW r \in Reports, ReportStart(a, Units(r))
      PROVE  JoinEvent' /\ WaitsPending' /\ SourceHasWork'
  BY <1>1, <1>3, <1>7, <1>8 DEF ReportStart, HandsOK, joinVars
<1>9. CASE ReportRelock(a)
  BY <1>1, <1>3, <1>7, <1>9 DEF ReportRelock, HandsOK, joinVars
<1>10. CASE ReportSync(a)
  <2>1. /\ dev \in Devices /\ event[a].src = dev /\ event[a].dest \in Devices /\ event[a].vnode \in Vnodes
    BY <1>1, <1>3, <1>10 DEF ReportSync, HandsOK, EventOK, LocalEvents
  <2>2. /\ event' = [event EXCEPT ![a] = NoEvent] /\ pc' = [pc EXCEPT ![a] = "relock"]
        /\ syncing_list' = [syncing_list EXCEPT
               ![dev] = Append(@, [vnode |-> event[a].vnode, dest |-> event[a].dest])]
        /\ UNCHANGED <<tableVars, deviceVars, sync_list, join>>
    BY <1>10 DEF ReportSync, joinVars
  <2>3. Kept
    BY <1>1, <2>1, <2>2, PushCarries DEF Kept
  <2> QED
    BY <1>1, <1>5, <2>2, <2>3, JoinEventStays DEF tableVars
<1>11. CASE ReportPush(a)
  <2>1. /\ event[a].src \in Devices /\ event[a].dest \in Devices /\ event[a].vnode \in Vnodes
    BY <1>1, <1>11 DEF ReportPush, EventOK, LocalEvents
  <2>2. /\ event' = [event EXCEPT ![a] = NoEvent] /\ pc' = [pc EXCEPT ![a] = "vnodes"]
        /\ sync_list' = [sync_list EXCEPT
               ![event[a].src] = Append(@, [vnode |-> event[a].vnode, dest |-> event[a].dest])]
        /\ UNCHANGED <<tableVars, deviceVars, syncing_list, join>> /\ LockFree
    BY <1>11 DEF ReportPush, joinVars
  <2>3. Kept
    BY <1>1, <2>1, <2>2, PushCarries DEF Kept
  <2> QED
    BY <1>1, <1>5, <2>2, <2>3, JoinEventStays DEF tableVars
<1>12. ASSUME NEW u \in report[a], ReportStranger(a, u) \/ ReportSyncing(a, u)
       PROVE  JoinEvent' /\ WaitsPending' /\ SourceHasWork'
  BY <1>1, <1>5, <1>6, <1>12, JoinEventStays DEF ReportStranger, ReportSyncing, tableVars, listVars, joinVars
<1>13. ASSUME NEW v \in mine[a], ReportMissing(a, v)
       PROVE  JoinEvent' /\ WaitsPending' /\ SourceHasWork'
  BY <1>1, <1>5, <1>6, <1>13, JoinEventStays DEF ReportMissing, tableVars, listVars, joinVars
<1>14. ASSUME NEW u \in report[a], ReportCurrent(a, u)
       PROVE  JoinEvent' /\ WaitsPending' /\ SourceHasWork'
  <2> DEFINE s == IF u.version = version[u.vnode] THEN ACTIVE ELSE replica_status[u.vnode][dev]
  <2>1. /\ UNCHANGED <<replica_list, listVars, event, pc, deviceVars, join>>
        /\ replica_status' = [replica_status EXCEPT ![u.vnode][dev] = s]
        /\ s \notin {COPY_SRC, WAIT_SYNC}
    BY <1>4, <1>14 DEF ReportCurrent, joinVars
  <2> HIDE DEF s, dev
  <2>2. \A v \in Vnodes, d \in Devices :
           replica_status'[v][d] = replica_status[v][d] \/ replica_status'[v][d] = s
    BY <1>1, <2>1
  <2>3. WaitsPending' /\ SourceHasWork'
    BY <1>1, <1>2, <1>6, <2>1, <2>2, WorkStays DEF Kept
  <2> QED
    BY <1>1, <2>1, <2>3, JoinEventStays DEF listVars
<1>15. ASSUME NEW u \in report[a], ReportStale(a, u)
       PROVE  JoinEvent' /\ WaitsPending' /\ SourceHasWork'
  <2> DEFINE w == u.vnode
             src == get_read_replica(replica_list[w], replica_status[w], rd_req_robin[w])
  <2>1. /\ UNCHANGED <<replica_list, listVars, deviceVars, join>>
        /\ pc[a] = "vnodes" /\ w \in Vnodes /\ dev \in Devices
        /\ IF src = NoDevice
           THEN /\ replica_status' = [replica_status EXCEPT ![w][dev] = ONLINE]
                /\ UNCHANGED <<pc, event>>
           ELSE /\ replica_status' = [replica_status EXCEPT ![w][dev] = WAIT_SYNC,
                                                            ![w][src] = COPY_SRC]
                /\ event' = [event EXCEPT ![a] = [vnode |-> w, dest |-> dev, src |-> src]]
                /\ pc' = [pc EXCEPT ![a] = "push"]
    BY <1>1, <1>3, <1>15 DEF ReportStale, MarkStale, joinVars
  <2>2. src \in Devices \cup {NoDevice}
    BY <1>1, <2>1, SourceChosen
  <2>3. JoinEvent'
    BY <1>1, <2>1, JoinEventStays DEF listVars
  <2> HIDE DEF src, dev
  <2>4. CASE src = NoDevice
    <3>0. replica_status' = [replica_status EXCEPT ![w][dev] = ONLINE]
      BY <2>1, <2>4
    <3> HIDE DEF w
    <3>1. \A v \in Vnodes, d \in Devices :
             replica_status'[v][d] = replica_status[v][d] \/ replica_status'[v][d] = ONLINE
      BY <1>1, <2>1, <3>0
    <3> USE DEF w
    <3>2. Kept
      BY <1>6, <2>1, <2>4
    <3> QED
      BY <1>1, <1>2, <1>4, <2>1, <2>3, <3>1, <3>2, WorkStays DEF Kept
  <2>5. CASE src # NoDevice
    <3>1. src \in Devices
      BY <2>2, <2>5
    <3>2. \A v \in Vnodes, d \in Devices :
             \/ replica_status'[v][d] = replica_status[v][d]
             \/ replica_status'[v][d] = WAIT_SYNC /\ v = w /\ d = dev
             \/ replica_status'[v][d] = COPY_SRC /\ v = w /\ d = src
      BY <1>1, <2>1, <2>5, <3>1
    <3>3. event[a] = NoEvent
      BY <1>1, <2>1 DEF HandsOK
    <3>4. Kept
      <4>1. \A s \in Devices : \A x \in SyncEvents :
               x \in Range(sync_list[s]) \cup Range(syncing_list[s]) => Pending(x.vnode, s, x.dest)'
        BY <2>1 DEF Pending, SyncEvents, listVars
      <4>2. \A b \in Addrs : \/ event[b] = NoEvent
                             \/ event'[b] = event[b] /\ (pc'[b] = "src" => pc[b] = "src")
        BY <1>1, <2>1, <2>5, <3>3
      <4> QED
        BY <1>1, <4>1, <4>2, Carried DEF Kept
    <3>5. event'[a] = [vnode |-> w, dest |-> dev, src |-> src] /\ pc'[a] = "push"
      BY <1>1, <2>1, <2>5
    <3>6. ASSUME NEW v \in Vnodes, NEW d \in Devices, NEW s \in Devices, v = w, d = dev, s = src
          PROVE  Pending(v, s, d)' /\ UnderWay(v, s, d)'
      BY <3>5, <3>6 DEF Pending, UnderWay
    <3>7. \A v \in Vnodes, d \in Devices :
             /\ v = w /\ d = dev => \E s \in Devices : Pending(v, s, d)'
             /\ v = w /\ d = src => \E t \in Devices : UnderWay(v, d, t)'
      BY <2>1, <3>1, <3>6
    <3>8. replica_list' = replica_list
      BY <2>1
    <3>9. \A v \in Vnodes : \A d \in Holders(replica_list'[v]) :
             /\ replica_status'[v][d] = WAIT_SYNC =>
                   \/ d \in Holders(replica_list[v]) /\ replica_status[v][d] = WAIT_SYNC
                   \/ \E s \in Devices : Pending(v, s, d)'
             /\ replica_status'[v][d] = COPY_SRC =>
                   \/ d \in Holders(replica_list[v]) /\ replica_status[v][d] = COPY_SRC
                   \/ \E t \in Devices : UnderWay(v, d, t)'
      <4> SUFFICES ASSUME NEW v \in Vnodes, NEW d \in Holders(replica_list'[v])
                   PROVE  /\ replica_status'[v][d] = WAIT_SYNC =>
                                \/ d \in Holders(replica_list[v]) /\ replica_status[v][d] = WAIT_SYNC
                                \/ \E s \in Devices : Pending(v, s, d)'
                          /\ replica_status'[v][d] = COPY_SRC =>
                                \/ d \in Holders(replica_list[v]) /\ replica_status[v][d] = COPY_SRC
                                \/ \E t \in Devices : UnderWay(v, d, t)'
        OBVIOUS
      <4>1. d \in Holders(replica_list[v])
        BY <3>8
      <4>2. d \in Devices
        BY <1>2, <4>1
      <4> QED
        BY <1>4, <3>2, <3>7, <4>1, <4>2
    <3>10. WaitsPending' /\ SourceHasWork'
      BY <1>1, <1>2, <3>4, <3>9, WorkStays DEF Kept
    <3> QED
      BY <2>3, <3>10
  <2> QED
    BY <2>4, <2>5
<1> QED
  BY <1>8, <1>9, <1>10, <1>11, <1>12, <1>13, <1>14, <1>15 DEF Merge

\* A finished sync: the destination stops waiting, then the source is given back,
\* and only then its event is gone.
LEMMA SyncDownStepEvents ==
    ASSUME EventInv, NEW a \in Addrs, SyncDown(a)
    PROVE  JoinEvent' /\ WaitsPending' /\ SourceHasWork'
<1> DEFINE dev == DeviceAt(a)
           Kept == \A v \in Vnodes, s, d \in Devices :
                      /\ Pending(v, s, d) => Pending(v, s, d)'
                      /\ UnderWay(v, s, d) => UnderWay(v, s, d)'
<1>1. /\ TypeInv /\ ReplicaInv /\ JoinEvent /\ WaitsPending /\ SourceHasWork /\ HandsOK /\ EventOK
      /\ HandlerTypes /\ NoMoves /\ ListTypes
      /\ replica_list \in [Vnodes -> Seq(Devices)]
      /\ replica_status \in [Vnodes -> [Devices -> Statuses]]
      /\ syncing_list \in [Devices -> Seq(SyncEvents)]
      /\ event \in [Addrs -> LocalEvents]
      /\ pc \in [Addrs -> HandlerPcs]
      /\ down[a] \in Seq(Vnodes)
  BY DEF EventInv, ReplicaInv, TypeInv, TypeOK, TableTypes, ListTypes, HandlerTypes
<1>2. \A v \in Vnodes : Holders(replica_list[v]) \subseteq Devices
  BY <1>1, ElementOfSeq DEF Holders
<1>3. pc[a] # "idle" => dev \in Devices
  BY <1>1, DeviceAtType DEF TypeInv, TypeOK, Registered
<1>4. WAIT_SYNC # COPY_SRC /\ ACTIVE \notin {WAIT_SYNC, COPY_SRC}
  BY DEF WAIT_SYNC, COPY_SRC, ACTIVE
<1> HIDE DEF Kept
<1>5. ASSUME Kept, UNCHANGED <<replica_list, replica_status>>
      PROVE  WaitsPending' /\ SourceHasWork'
  BY <1>1, <1>2, <1>5, WorkStays DEF Kept
<1>6. UNCHANGED <<sync_list, deviceVars, join>>
  <2>1. CASE SyncDownSrc(a)
    BY <2>1 DEF SyncDownSrc, listVars, joinVars
  <2>2. CASE SyncDownFind(a) \/ SyncDownDest(a) \/ SyncDownReply(a)
    BY <2>2 DEF SyncDownFind, SyncDownDest, SyncDownReply, listVars, joinVars
  <2> QED
    BY <2>1, <2>2 DEF SyncDown
<1>7. JoinEvent'
  BY <1>1, <1>6, JoinEventStays
<1>8. CASE SyncDownFind(a)
  <2> DEFINE v == Head(down[a])
             at == SyncingAt(dev, v)
             p == FirstOf(at)
             l == syncing_list[dev]
  <2>1. pc[a] = "down" /\ event[a] = NoEvent /\ dev \in Devices /\ UNCHANGED <<replica_list, replica_status>>
    BY <1>1, <1>3, <1>8 DEF SyncDownFind, HandsOK, tableVars
  <2>2. CASE at = {} \/ ~({dev, l[p].dest} \subseteq Holders(replica_list[v]))
    <3>1. UNCHANGED <<listVars, event, pc>>
      BY <1>6, <1>8, <2>2 DEF SyncDownFind, listVars
    <3>2. Kept
      BY <1>1, <3>1, NothingMoves DEF Kept
    <3> QED
      BY <1>5, <1>7, <2>1, <3>2
  <2>3. CASE ~(at = {} \/ ~({dev, l[p].dest} \subseteq Holders(replica_list[v])))
    <3>1. /\ event' = [event EXCEPT ![a] = [vnode |-> v, dest |-> l[p].dest, src |-> dev]]
          /\ syncing_list' = [syncing_list EXCEPT ![dev] = RemoveAt(@, p)]
          /\ pc' = [pc EXCEPT ![a] = "dest"]
      BY <1>8, <2>3 DEF SyncDownFind, PopSyncing
    <3>2. p \in 1..Len(l) /\ l[p].vnode = v
      <4>1. Len(l) \in Nat
        BY <1>1, <2>1, LenProperties
      <4>2. at \subseteq Nat /\ at # {}
        BY <2>3, <4>1 DEF SyncingAt
      <4> HIDE DEF at
      <4>3. p \in at
        BY <4>2, FirstOfLemma
      <4> QED
        BY <4>3 DEF SyncingAt, at
    <3>3. PICK x \in SyncEvents : x = l[p]
      BY <1>1, <2>1, <3>2, ElementOfSeq
    <3> HIDE DEF p, v
    <3>4. Range(l) \subseteq Range(RemoveAt(l, p)) \cup {x}
      BY <1>1, <2>1, <3>2, <3>3, RangeRemoveAt
    <3>5. event'[a] = [vnode |-> x.vnode, dest |-> x.dest, src |-> dev] /\ pc'[a] = "dest"
      BY <1>1, <3>1, <3>2, <3>3
    <3>6. \A s \in Devices : \A y \in SyncEvents :
             y \in Range(sync_list[s]) \cup Range(syncing_list[s]) => Pending(y.vnode, s, y.dest)'
      <4> SUFFICES ASSUME NEW s \in Devices, NEW y \in SyncEvents,
                          y \in Range(sync_list[s]) \cup Range(syncing_list[s])
                   PROVE  Pending(y.vnode, s, y.dest)'
        OBVIOUS
      <4>1. y = [vnode |-> y.vnode, dest |-> y.dest]
        BY DEF SyncEvents
      <4>2. CASE y \in Range(sync_list[s]) \cup Range(syncing_list'[s])
        BY <1>6, <4>1, <4>2 DEF Pending
      <4>3. CASE s = dev /\ y = x
        BY <3>5, <4>3 DEF Pending
      <4>4. syncing_list'[dev] = RemoveAt(l, p)
        BY <1>1, <2>1, <3>1
      <4>5. s # dev => syncing_list'[s] = syncing_list[s]
        BY <1>1, <3>1
      <4> QED
        BY <3>4, <4>2, <4>3, <4>4, <4>5
    <3>7. \A b \in Addrs : \/ event[b] = NoEvent
                           \/ event'[b] = event[b] /\ (pc'[b] = "src" => pc[b] = "src")
      BY <1>1, <2>1, <3>1
    <3>8. Kept
      BY <1>1, <3>6, <3>7, Carried DEF Kept
    <3> QED
      BY <1>5, <1>7, <2>1, <3>8
  <2> QED
    BY <2>2, <2>3
<1>9. CASE SyncDownReply(a)
  <2>1. Kept
    BY <1>1, <1>9, NothingMoves DEF SyncDownReply, Kept
  <2> QED
    BY <1>5, <1>7, <1>9, <2>1 DEF SyncDownReply, tableVars
<1>10. CASE SyncDownDest(a)
  <2>1. /\ UNCHANGED <<replica_list, listVars, event>>
        /\ replica_status' = [replica_status EXCEPT ![event[a].vnode][event[a].dest] = ACTIVE]
        /\ pc' = [pc EXCEPT ![a] = "src"]
    BY <1>10 DEF SyncDownDest
  <2>2. ASSUME NEW v \in Vnodes, NEW s \in Devices, NEW d \in Devices
        PROVE  /\ UnderWay(v, s, d) => UnderWay(v, s, d)'
               /\ Pending(v, s, d) => Pending(v, s, d)' \/ (v = event[a].vnode /\ d = event[a].dest)
    BY <1>1, <2>1, <2>2 DEF Pending, UnderWay, listVars
  <2>3. \A v \in Vnodes, d \in Devices : replica_status'[v][d] =
           IF v = event[a].vnode /\ d = event[a].dest THEN ACTIVE ELSE replica_status[v][d]
    BY <1>1, <2>1
  <2>4. ASSUME NEW v \in Vnodes, NEW d \in Holders(replica_list'[v]), replica_status'[v][d] = WAIT_SYNC
        PROVE  \E s \in Devices : Pending(v, s, d)'
    <3>1. d \in Devices /\ d \in Holders(replica_list[v])
      BY <1>2, <2>1, <2>4
    <3>2. ~(v = event[a].vnode /\ d = event[a].dest) /\ replica_status[v][d] = WAIT_SYNC
      BY <1>4, <2>3, <2>4, <3>1
    <3>3. PICK s \in Devices : Pending(v, s, d)
      BY <1>1, <3>1, <3>2 DEF WaitsPending
    <3> QED
      BY <2>2, <3>1, <3>2, <3>3
  <2>5. ASSUME NEW v \in Vnodes, NEW d \in Holders(replica_list'[v]), replica_status'[v][d] = COPY_SRC
        PROVE  \E t \in Devices : UnderWay(v, d, t)'
    <3>1. d \in Devices /\ d \in Holders(replica_list[v])
      BY <1>2, <2>1, <2>5
    <3>2. replica_status[v][d] = COPY_SRC
      BY <1>4, <2>3, <2>5, <3>1
    <3>3. PICK t \in Devices : UnderWay(v, d, t)
      BY <1>1, <3>1, <3>2 DEF SourceHasWork
    <3> QED
      BY <2>2, <3>1, <3>3
  <2> QED
    BY <1>7, <2>4, <2>5 DEF WaitsPending, SourceHasWork
<1>11. CASE SyncDownSrc(a)
  <2>1. /\ UNCHANGED <<replica_list, listVars>>
        /\ event' = [event EXCEPT ![a] = NoEvent] /\ pc' = [pc EXCEPT ![a] = "down"]
        /\ pc[a] = "src" /\ up
    BY <1>1, <1>11, SyncDownSrcQuiet DEF SyncDownSrc, joinVars
  <2>2. ASSUME NEW v \in Vnodes, NEW s \in Devices, NEW d \in Devices
        PROVE  /\ UnderWay(v, s, d) => UnderWay(v, s, d)' \/ (v = event[a].vnode /\ s = event[a].src)
               /\ Pending(v, s, d) => Pending(v, s, d)'
    BY <1>1, <2>1, <2>2 DEF Pending, UnderWay, listVars
  <2>3. \A v \in Vnodes, d \in Devices :
           /\ replica_status'[v][d] = replica_status[v][d] \/ replica_status'[v][d] = ACTIVE
           /\ v = event[a].vnode /\ d = event[a].src => replica_status'[v][d] = ACTIVE
    <3>1. \A v \in Vnodes, d \in Devices : replica_status[v][d] # MOVE_SRC
      BY <1>1, <2>1 DEF NoMoves
    <3>2. replica_status' = [replica_status EXCEPT ![event[a].vnode][event[a].src] =
             IF replica_status[event[a].vnode][event[a].src] = MOVE_SRC THEN INIT ELSE ACTIVE]
      BY <1>11 DEF SyncDownSrc
    <3>3. \A v \in Vnodes, d \in Devices : ~(v = event[a].vnode /\ d = event[a].src)
             => replica_status'[v][d] = replica_status[v][d]
      BY <1>1, <3>2
    <3>4. \A v \in Vnodes, d \in Devices : v = event[a].vnode /\ d = event[a].src
             => replica_status'[v][d] = ACTIVE
      BY <1>1, <3>1, <3>2
    <3> QED
      BY <3>3, <3>4
  <2>4. ASSUME NEW v \in Vnodes, NEW d \in Holders(replica_list'[v]), replica_status'[v][d] = WAIT_SYNC
        PROVE  \E s \in Devices : Pending(v, s, d)'
    <3>1. d \in Devices /\ d \in Holders(replica_list[v])
      BY <1>2, <2>1, <2>4
    <3>2. replica_status[v][d] = WAIT_SYNC
      BY <1>4, <2>3, <2>4, <3>1
    <3>3. PICK s \in Devices : Pending(v, s, d)
      BY <1>1, <3>1, <3>2 DEF WaitsPending
    <3> QED
      BY <2>2, <3>1, <3>3
  <2>5. ASSUME NEW v \in Vnodes, NEW d \in Holders(replica_list'[v]), replica_status'[v][d] = COPY_SRC
        PROVE  \E t \in Devices : UnderWay(v, d, t)'
    <3>1. d \in Devices /\ d \in Holders(replica_list[v])
      BY <1>2, <2>1, <2>5
    <3>2. replica_status[v][d] = COPY_SRC /\ ~(v = event[a].vnode /\ d = event[a].src)
      BY <1>4, <2>3, <2>5, <3>1
    <3>3. PICK t \in Devices : UnderWay(v, d, t)
      BY <1>1, <3>1, <3>2 DEF SourceHasWork
    <3> QED
      BY <2>2, <3>1, <3>2, <3>3
  <2> QED
    BY <1>7, <2>4, <2>5 DEF WaitsPending, SourceHasWork
<1> QED
  BY <1>8, <1>9, <1>10, <1>11 DEF SyncDown

LEMMA EventInvInit == Init => EventInv
<1> SUFFICES ASSUME Init PROVE EventInv
  OBVIOUS
<1>1. ReplicaInv
  BY ReplicaInvInit
<1>2. \A v \in Vnodes : Holders(replica_list[v]) = {}
  BY EmptySeq DEF Init, MasterInit, Holders
<1> QED
  BY <1>1, <1>2
  DEF EventInv, HandsOK, JoinEvent, WaitsPending, SourceHasWork, Init, MasterInit, NoJoin

LEMMA EventInvStep == EventInv /\ [Next]_vars => EventInv'
<1> SUFFICES ASSUME EventInv, [Next]_vars PROVE EventInv'
  OBVIOUS
<1>0. EventInv /\ [Next]_vars
  OBVIOUS
<1>1. ReplicaInv' /\ HandsOK' /\ TypeInv /\ TypeInv'
  BY ReplicaInvStep, HandsStep DEF EventInv, ReplicaInv
<1>2. ASSUME UNCHANGED <<replica_list, replica_status, listVars, event, join, deviceVars>>,
             \A b \in Addrs : pc'[b] = "src" => pc[b] = "src"
      PROVE  JoinEvent' /\ WaitsPending' /\ SourceHasWork'
  <2>1. \A v \in Vnodes : Holders(replica_list[v]) \subseteq Devices
    BY <1>1, ElementOfSeq DEF Holders, TypeInv, TypeOK, TableTypes
  <2>2. WaitsPending' /\ SourceHasWork'
    BY <1>1, <1>2, <2>1, NothingMoves, WorkStays DEF EventInv
  <2> QED
    BY <1>2, <2>2, JoinEventStays DEF EventInv, listVars
<1>3. pc \in [Addrs -> HandlerPcs]
  BY <1>1 DEF TypeInv, TypeOK, HandlerTypes
<1>4. ASSUME NEW a \in Addrs, Reply(a) PROVE JoinEvent' /\ WaitsPending' /\ SourceHasWork'
  BY <1>2, <1>3, <1>4 DEF Reply, ReportReply, tableVars, joinVars
<1>5. ASSUME NEW a \in Addrs, NEW vs \in Batches, Finish(a, vs)
      PROVE  JoinEvent' /\ WaitsPending' /\ SourceHasWork'
  BY <1>2, <1>3, <1>5 DEF Finish, SyncDownStart, tableVars, joinVars
<1>6. ASSUME Read \/ UNCHANGED vars PROVE JoinEvent' /\ WaitsPending' /\ SourceHasWork'
  <2>1. UNCHANGED <<replica_list, replica_status, listVars, event, join, deviceVars, pc>>
    BY <1>6 DEF Read, ClientRead, vars, masterVars, tableVars, joinVars, handlerVars
  <2>2. \A b \in Addrs : pc'[b] = "src" => pc[b] = "src"
    BY <2>1
  <2> QED
    BY <1>2, <2>1, <2>2
<1>7. ASSUME Join PROVE JoinEvent' /\ WaitsPending' /\ SourceHasWork'
  BY <1>0, <1>1, <1>7, JoinStepEvents
<1>8. ASSUME NEW a \in Addrs, Merge(a) \/ SyncDown(a)
      PROVE  JoinEvent' /\ WaitsPending' /\ SourceHasWork'
  BY <1>0, <1>8, MergeStepEvents, SyncDownStepEvents
<1>9. JoinEvent' /\ WaitsPending' /\ SourceHasWork'
  BY <1>0, <1>4, <1>5, <1>6, <1>7, <1>8 DEF Next
<1> QED
  BY <1>1, <1>9 DEF EventInv

LEMMA EventInvHolds == Spec => []EventInv
BY EventInvInit, EventInvStep, PTL DEF Spec

\* A replica in WAIT_SYNC always has a sync under way, although the merge of a beat
\* never looks for another source for it (proxy_msg_parser.cpp, case WAIT_SYNC), also
\* when joins fail and when several devices report at the same time.
THEOREM WaitingHasEvent == Spec => []WaitSyncHasEvent
<1>1. EventInv => WaitSyncHasEvent
  BY DEF EventInv, WaitsPending, WaitSyncHasEvent, Pending, UnderWay
<1> QED
  BY <1>1, EventInvHolds, PTL

\* A replica is in COPY_SRC, which takes it from the readers, only while it has a sync
\* under way: msg_sync_down_handle gives it back before the last of its events is gone.
THEOREM SourcesHaveWork == Spec => []SourceHasWork
<1>1. EventInv => SourceHasWork
  BY DEF EventInv
<1> QED
  BY <1>1, EventInvHolds, PTL

-----------------------------------------------------------------------------
(* The master stays up                                                       *)

\* Without a join that fails no replica is ever taken off a list again.
LEMMA HoldersGrow ==
    ASSUME ReplicaInv, [Next]_vars, alloc_fails' = 0, NEW v \in Vnodes
    PROVE  Holders(replica_list[v]) \subseteq Holders(replica_list'[v])
<1>1. TypeInv /\ NoMoves /\ replica_list \in [Vnodes -> Seq(Devices)] /\ ~JoinFails
  BY FailuresCounted DEF ReplicaInv, TypeInv, TypeOK, TableTypes
<1>2. CASE Join
  <2>2. CASE JoinPush
    <3>1. /\ Joiner \in Devices
          /\ replica_list' = [replica_list EXCEPT ![join.next] = Append(@, Joiner)]
      BY <1>1, <2>2, Bounds
      DEF JoinPush, TypeInv, TypeOK, DeviceTypes, JoinOK, Devices, Joiner
    <3>2. Holders(Append(replica_list[v], Joiner)) = Holders(replica_list[v]) \cup {Joiner}
      BY <1>1, <3>1, HoldersAppend
    <3> QED
      BY <1>1, <3>1, <3>2
  <2>3. CASE ~JoinPush
    BY <1>1, <1>2, <2>3
    DEF Join, JoinStart, JoinMoveDies, JoinMoveNothing, JoinVnode, JoinDone, tableVars
  <2> QED
    BY <2>2, <2>3
<1>3. CASE ~Join
  BY <1>1, <1>3, OnlyJoins
<1> QED
  BY <1>2, <1>3

\* What a handler has still to answer are vnodes of its device.
MineListed == \A a \in Addrs :
    mine[a] # {} => Known(a) /\ mine[a] \subseteq Range(vnode_list[DeviceAt(a)])

LEMMA MineListedStep ==
    ASSUME ReplicaInv, MineListed, [Next]_vars
    PROVE  MineListed'
<1>1. /\ \A d \in 1..node_count : vnode_list'[d] = vnode_list[d]
      /\ \A a : Known(a) => Known(a)' /\ DeviceAt(a)' = DeviceAt(a)
  BY DevicesStay
<1>2. DeviceTypes /\ mine \in [Addrs -> SUBSET Vnodes]
  BY DEF ReplicaInv, TypeInv, TypeOK, HandlerTypes
<1>3. ASSUME \A a \in Addrs : \/ mine'[a] \subseteq mine[a]
                              \/ Known(a) /\ mine'[a] = Range(vnode_list[DeviceAt(a)])
      PROVE  MineListed'
  <2> SUFFICES ASSUME NEW a \in Addrs, mine'[a] # {}
               PROVE  Known(a)' /\ mine'[a] \subseteq Range(vnode_list'[DeviceAt(a)'])
    BY DEF MineListed
  <2>1. Known(a) /\ mine'[a] \subseteq Range(vnode_list[DeviceAt(a)])
    BY <1>3 DEF MineListed
  <2> QED
    BY <1>1, <1>2, <2>1, DeviceAtType
<1>4. \A a \in Addrs : \/ mine'[a] \subseteq mine[a]
                       \/ Known(a) /\ mine'[a] = Range(vnode_list[DeviceAt(a)])
  <2>1. CASE UNCHANGED mine
    BY <2>1
  <2>2. ASSUME NEW a \in Addrs, NEW r \in Reports, ReportStart(a, Units(r)) PROVE <1>4!:
    BY <1>2, <2>2 DEF ReportStart
  <2>3. ASSUME NEW a \in Addrs, NEW s, mine' = [mine EXCEPT ![a] = @ \ s] PROVE <1>4!:
    BY <1>2, <2>3
  <2>4. ASSUME NEW a \in Addrs, Merge(a) PROVE <1>4!:
    <3>1. \/ UNCHANGED mine
          \/ \E r \in Reports : ReportStart(a, Units(r))
          \/ \E s : mine' = [mine EXCEPT ![a] = @ \ s]
      BY <2>4 DEF Merge, ReportSync, ReportRelock, ReportStranger, ReportSyncing, ReportStale,
                  ReportCurrent, ReportPush, ReportMissing
    <3> QED
      BY <2>1, <2>2, <2>3, <3>1
  <2>5. CASE ~\E a \in Addrs : Merge(a)
    <3>1. ASSUME NEW a \in Addrs, SyncDown(a) PROVE UNCHANGED mine
      BY <3>1 DEF SyncDown, SyncDownFind, SyncDownDest, SyncDownSrc, SyncDownReply
    <3>2. ASSUME NEW a \in Addrs, Reply(a) \/ \E vs \in Batches : Finish(a, vs)
          PROVE  UNCHANGED mine
      BY <3>2 DEF Reply, Finish, ReportReply, SyncDownStart
    <3>3. ASSUME Join PROVE UNCHANGED mine
      BY <3>3 DEF Join, JoinStart, JoinMoveDies, JoinMoveNothing, JoinVnode, JoinPush, JoinDone,
                  JoinFails, handlerVars
    <3>4. ASSUME Read \/ UNCHANGED vars PROVE UNCHANGED mine
      BY <3>4 DEF Read, ClientRead, vars, masterVars, handlerVars
    <3>5. UNCHANGED mine
      BY <2>5, <3>1, <3>2, <3>3, <3>4 DEF Next
    <3> QED
      BY <2>1, <3>5
  <2> QED
    BY <2>4, <2>5
<1> QED
  BY <1>3, <1>4

\* The replica a join is about to push, for which the event waits already.
PushedNext(e) == join.pc = "push" /\ e.vnode = join.next /\ e.dest = Joiner

\* Both devices of a sync hold its vnode, so msg_sync_down_handle finds both replicas.
WaitingEnds == \A s \in Devices : \A e \in Range(sync_list[s]) :
    /\ s \in Holders(replica_list[e.vnode])
    /\ e.dest \in Holders(replica_list[e.vnode]) \/ PushedNext(e)
SyncingEnds == \A s \in Devices : \A e \in Range(syncing_list[s]) :
    {s, e.dest} \subseteq Holders(replica_list[e.vnode])
HandEnds == \A a \in Addrs : event[a] # NoEvent =>
    {event[a].src, event[a].dest} \subseteq Holders(replica_list[event[a].vnode])
EventEnds == WaitingEnds /\ SyncingEnds /\ HandEnds

\* Replicas are not taken away, so what was a sync's end stays one.
LEMMA EndsCarried ==
    ASSUME TypeInv, EventEnds,
           \A v \in Vnodes : Holders(replica_list[v]) \subseteq Holders(replica_list'[v]),
           \A s \in Devices : \A e \in Range(sync_list'[s]) :
              \/ /\ e \in Range(sync_list[s])
                 /\ PushedNext(e) => PushedNext(e)' \/ e.dest \in Holders(replica_list'[e.vnode])
              \/ /\ s \in Holders(replica_list'[e.vnode])
                 /\ e.dest \in Holders(replica_list'[e.vnode]) \/ PushedNext(e)',
           \A s \in Devices : \A e \in Range(syncing_list'[s]) :
              \/ e \in Range(syncing_list[s])
              \/ {s, e.dest} \subseteq Holders(replica_list'[e.vnode]),
           \A a \in Addrs :
              \/ event'[a] \in {NoEvent, event[a]}
              \/ {event'[a].src, event'[a].dest} \subseteq Holders(replica_list'[event'[a].vnode])
    PROVE  EventEnds'
<1>1. /\ \A s \in Devices : \A e \in Range(sync_list[s]) \cup Range(syncing_list[s]) : e.vnode \in Vnodes
      /\ \A a \in Addrs : event[a].vnode \in Vnodes
  <2>1. ASSUME NEW l \in Seq(SyncEvents), NEW e \in Range(l) PROVE e.vnode \in Vnodes
    <3>1. e \in Holders(l)
      BY <2>1, RangeIsHolders
    <3>2. PICK i \in 1..Len(l) : e = l[i]
      BY <3>1 DEF Holders
    <3>3. e \in SyncEvents
      BY <3>2, ElementOfSeq
    <3> QED
      BY <3>3 DEF SyncEvents
  <2> QED
    BY <2>1 DEF TypeInv, TypeOK, ListTypes, HandlerTypes, LocalEvents
<1>2. WaitingEnds'
  <2> SUFFICES ASSUME NEW s \in Devices, NEW e \in Range(sync_list'[s])
               PROVE  /\ s \in Holders(replica_list'[e.vnode])
                      /\ e.dest \in Holders(replica_list'[e.vnode]) \/ PushedNext(e)'
    BY DEF WaitingEnds
  <2> QED
    BY <1>1 DEF EventEnds, WaitingEnds
<1>3. SyncingEnds'
  <2> SUFFICES ASSUME NEW s \in Devices, NEW e \in Range(syncing_list'[s])
               PROVE  {s, e.dest} \subseteq Holders(replica_list'[e.vnode])
    BY DEF SyncingEnds
  <2>1. e \in Range(syncing_list[s]) => {s, e.dest} \subseteq Holders(replica_list[e.vnode])
                                        /\ e.vnode \in Vnodes
    BY <1>1 DEF EventEnds, SyncingEnds
  <2> QED
    BY <2>1
<1>4. HandEnds'
  <2> SUFFICES ASSUME NEW a \in Addrs, event'[a] # NoEvent
               PROVE  {event'[a].src, event'[a].dest} \subseteq Holders(replica_list'[event'[a].vnode])
    BY DEF HandEnds, NoEvent
  <2> QED
    BY <1>1 DEF EventEnds, HandEnds
<1> QED
  BY <1>2, <1>3, <1>4 DEF EventEnds

LEMMA EndsJoinStep ==
    ASSUME ReplicaInv, EventEnds, Join, ~JoinFails,
           \A v \in Vnodes : Holders(replica_list[v]) \subseteq Holders(replica_list'[v])
    PROVE  EventEnds'
<1>1. /\ TypeInv /\ JoinOK
      /\ replica_list \in [Vnodes -> Seq(Devices)]
      /\ sync_list \in [Devices -> Seq(SyncEvents)]
      /\ join.next \in 0..VnodeCount /\ Joiner \in Nat
  BY Bounds, CountsAssumption DEF ReplicaInv, TypeInv, TypeOK, TableTypes, ListTypes, JoinTypes,
                                  DeviceTypes, Joiner
<1>2. UNCHANGED <<syncing_list, event>>
  BY DEF Join, JoinStart, JoinMoveDies, JoinMoveNothing, JoinVnode, JoinPush, JoinDone, JoinFails,
         listVars, handlerVars
<1>3. CASE JoinPush
  <2>1. /\ join.pc = "push" /\ Joiner \in Devices /\ join.next \in Vnodes
        /\ replica_list' = [replica_list EXCEPT ![join.next] = Append(@, Joiner)]
        /\ UNCHANGED sync_list
    BY <1>1, <1>3, Bounds
    DEF JoinPush, TypeInv, TypeOK, DeviceTypes, JoinOK, Devices, Joiner, Vnodes, listVars
  <2>2. replica_list'[join.next] = Append(replica_list[join.next], Joiner)
    BY <1>1, <2>1
  <2>3. Joiner \in Holders(replica_list'[join.next])
    BY <1>1, <2>1, <2>2, HoldersAppend
  <2>4. \A e : PushedNext(e) => e.dest \in Holders(replica_list'[e.vnode])
    BY <2>3 DEF PushedNext
  <2> QED
    BY <1>1, <1>2, <2>1, <2>4, EndsCarried
<1>4. CASE JoinVnode
  <2> DEFINE v == join.next
             src == get_read_replica(replica_list[v], replica_status[v], rd_req_robin[v])
  <2>1. v \in Vnodes /\ join.pc = "copy" /\ UNCHANGED <<replica_list, node_count>>
    BY <1>1, <1>4, CountsAssumption DEF JoinVnode, Vnodes, deviceVars
  <2>2. \A e : ~PushedNext(e)
    BY <2>1 DEF PushedNext
  <2>3. CASE UNCHANGED sync_list
    BY <1>1, <1>2, <2>2, <2>3, EndsCarried
  <2>4. CASE ~UNCHANGED sync_list
    <3>1. /\ src # NoDevice
          /\ sync_list' = [sync_list EXCEPT ![src] = Append(@, [vnode |-> v, dest |-> Joiner])]
          /\ join' = [join EXCEPT !.pc = "push", !.src = src]
      BY <1>4, <2>4 DEF JoinVnode
    <3>2. src \in Devices /\ src \in Holders(replica_list[v])
      BY <1>1, <2>1, <3>1, SourceChosen DEF TypeInv, TypeOK
    <3> HIDE DEF src
    <3>3. PICK x : x = [vnode |-> v, dest |-> Joiner]
      OBVIOUS
    <3>4. x \in SyncEvents
      <4>1. Joiner \in Devices
        BY <1>1, <2>1, Bounds DEF TypeInv, TypeOK, DeviceTypes, JoinOK, Devices, Joiner
      <4> QED
        BY <2>1, <3>3, <4>1 DEF SyncEvents
    <3>5. Range(Append(sync_list[src], x)) = Range(sync_list[src]) \cup {x}
      BY <1>1, <3>2, <3>4, RangeAppend
    <3>6. join'.pc = "push" /\ join'.next = v /\ Joiner' = Joiner
      BY <1>1, <2>1, <3>1 DEF TypeInv, TypeOK, JoinTypes, Joiner
    <3>7. PushedNext(x)'
      BY <3>3, <3>6 DEF PushedNext
    <3>8. \A s \in Devices : \A e \in Range(sync_list'[s]) :
             e \in Range(sync_list[s]) \/ (s = src /\ e = x)
      BY <1>1, <3>1, <3>3, <3>5
    <3>9. src \in Holders(replica_list'[x.vnode])
      BY <2>1, <3>2, <3>3
    <3>10. \A s \in Devices : \A e \in Range(sync_list'[s]) :
              \/ e \in Range(sync_list[s])
              \/ s \in Holders(replica_list'[e.vnode]) /\ PushedNext(e)'
      BY <3>7, <3>8, <3>9
    <3> QED
      BY <1>1, <1>2, <2>2, <3>10, EndsCarried
  <2> QED
    BY <2>3, <2>4
<1>5. CASE ~JoinPush /\ ~JoinVnode
  <2>2. UNCHANGED sync_list /\ join.pc # "push"
    BY <1>5 DEF Join, JoinStart, JoinMoveDies, JoinMoveNothing, JoinDone, LockFree, listVars
  <2>3. \A e : ~PushedNext(e)
    BY <2>2 DEF PushedNext
  <2> QED
    BY <1>1, <1>2, <2>2, <2>3, EndsCarried
<1> QED
  BY <1>3, <1>4, <1>5

LEMMA EndsPopStep ==
    ASSUME TypeInv, EventEnds, LockFree, NEW a \in Addrs, NEW dev \in Devices,
           PopSyncEvent(a, dev), UNCHANGED <<replica_list, syncing_list>>
    PROVE  EventEnds'
<1>1. /\ event \in [Addrs -> LocalEvents]
      /\ sync_list \in [Devices -> Seq(SyncEvents)]
      /\ \A e : ~PushedNext(e)
  BY DEF TypeInv, TypeOK, HandlerTypes, ListTypes, LockFree, PushedNext
<1>2. CASE sync_list[dev] = <<>>
  BY <1>1, <1>2, EndsCarried DEF PopSyncEvent
<1>3. CASE sync_list[dev] # <<>>
  <2>1. PICK h : h = Head(sync_list[dev])
    OBVIOUS
  <2>2. PICK e : e = [vnode |-> h.vnode, dest |-> h.dest, src |-> dev]
    OBVIOUS
  <2>3. /\ event' = [event EXCEPT ![a] = e]
        /\ sync_list' = [sync_list EXCEPT ![dev] = Tail(@)]
    BY <1>3, <2>1, <2>2 DEF PopSyncEvent
  <2>4. h \in Range(sync_list[dev]) /\ Range(Tail(sync_list[dev])) \subseteq Range(sync_list[dev])
    BY <1>1, <1>3, <2>1, RangeTail
  <2>5. {e.src, e.dest} \subseteq Holders(replica_list'[e.vnode])
    BY <1>1, <2>2, <2>4 DEF EventEnds, WaitingEnds
  <2>6. \A s \in Devices : \A x \in Range(sync_list'[s]) : x \in Range(sync_list[s])
    BY <1>1, <2>3, <2>4
  <2>7. \A b \in Addrs : event'[b] = event[b] \/ event'[b] = e
    BY <1>1, <2>3
  <2> QED
    BY <1>1, <2>5, <2>6, <2>7, EndsCarried
<1> QED
  BY <1>2, <1>3

\* An event that leaves a handler's hands for a list keeps its ends.
LEMMA EndsPassStep ==
    ASSUME TypeInv, EventEnds, NEW a \in Addrs, NEW dev \in Devices,
           event[a] # NoEvent, event[a].src = dev, event[a].dest \in Devices,
           event' = [event EXCEPT ![a] = NoEvent], UNCHANGED <<replica_list, deviceVars, join>>,
           LET x == [vnode |-> event[a].vnode, dest |-> event[a].dest]
           IN  \/ /\ sync_list' = [sync_list EXCEPT ![dev] = Append(@, x)]
                  /\ UNCHANGED syncing_list
               \/ /\ syncing_list' = [syncing_list EXCEPT ![dev] = Append(@, x)]
                  /\ UNCHANGED sync_list
    PROVE  EventEnds'
<1>1. /\ event \in [Addrs -> LocalEvents]
      /\ sync_list \in [Devices -> Seq(SyncEvents)]
      /\ syncing_list \in [Devices -> Seq(SyncEvents)]
  BY DEF TypeInv, TypeOK, HandlerTypes, ListTypes
<1>2. PICK x : x = [vnode |-> event[a].vnode, dest |-> event[a].dest]
  OBVIOUS
<1>3. x \in SyncEvents
  BY <1>1, <1>2 DEF LocalEvents, SyncEvents
<1>4. {dev, x.dest} \subseteq Holders(replica_list'[x.vnode])
  BY <1>2 DEF EventEnds, HandEnds
<1>5. /\ Range(Append(sync_list[dev], x)) = Range(sync_list[dev]) \cup {x}
      /\ Range(Append(syncing_list[dev], x)) = Range(syncing_list[dev]) \cup {x}
  BY <1>1, <1>3, RangeAppend
<1>6. \A e : PushedNext(e) <=> PushedNext(e)'
  BY DEF PushedNext, Joiner, deviceVars
<1>7. \A b \in Addrs : event'[b] \in {NoEvent, event[b]}
  BY <1>1
<1>8. \A s \in Devices : \A e \in Range(sync_list'[s]) : e \in Range(sync_list[s]) \/ (s = dev /\ e = x)
  <2>1. CASE UNCHANGED sync_list
    BY <2>1
  <2>2. CASE sync_list' = [sync_list EXCEPT ![dev] = Append(@, x)]
    BY <1>1, <1>5, <2>2
  <2> QED
    BY <1>2, <2>1, <2>2
<1>9. \A s \in Devices : \A e \in Range(syncing_list'[s]) :
         e \in Range(syncing_list[s]) \/ (s = dev /\ e = x)
  <2>1. CASE UNCHANGED syncing_list
    BY <2>1
  <2>2. CASE syncing_list' = [syncing_list EXCEPT ![dev] = Append(@, x)]
    BY <1>1, <1>5, <2>2
  <2> QED
    BY <1>2, <2>1, <2>2
<1>10. \A s \in Devices : \A e \in Range(sync_list'[s]) :
          \/ e \in Range(sync_list[s]) /\ (PushedNext(e) => PushedNext(e)')
          \/ s \in Holders(replica_list'[e.vnode]) /\ e.dest \in Holders(replica_list'[e.vnode])
  BY <1>4, <1>6, <1>8
<1>11. \A s \in Devices : \A e \in Range(syncing_list'[s]) :
          e \in Range(syncing_list[s]) \/ {s, e.dest} \subseteq Holders(replica_list'[e.vnode])
  BY <1>4, <1>9
<1>12. \A v \in Vnodes : Holders(replica_list[v]) \subseteq Holders(replica_list'[v])
  OBVIOUS
<1> QED
  BY <1>7, <1>10, <1>11, <1>12, EndsCarried

\* A step that gives no list and no hand another event.
LEMMA EndsQuietStep ==
    ASSUME TypeInv, EventEnds, UNCHANGED <<replica_list, listVars, event, deviceVars, join>>
    PROVE  EventEnds'
BY EndsCarried DEF listVars, PushedNext, Joiner, deviceVars

LEMMA EndsMergeStep ==
    ASSUME ReplicaInv, HandsOK, MineListed, EventEnds, NEW a \in Addrs, Merge(a)
    PROVE  EventEnds'
<1> DEFINE dev == DeviceAt(a)
<1>1. /\ TypeInv /\ HandsOK /\ EventOK /\ DeviceTypes /\ TableTypes
      /\ event \in [Addrs -> LocalEvents]
      /\ report[a] \in SUBSET [vnode : Vnodes, version : Nat]
      /\ NoDevice \notin Devices
  BY Bounds DEF ReplicaInv, TypeInv, TypeOK, HandlerTypes
<1>2. pc[a] # "idle" \/ Known(a) => dev \in Devices
  BY <1>1, DeviceAtType DEF TypeInv, Registered
<1>3. ASSUME NEW r \in Reports, ReportStart(a, Units(r)) PROVE EventEnds'
  BY <1>1, <1>2, <1>3, EndsPopStep DEF ReportStart, tableVars
<1>4. CASE ReportRelock(a)
  BY <1>1, <1>2, <1>4, EndsPopStep DEF ReportRelock, tableVars
<1>5. CASE ReportSync(a)
  <2>1. /\ dev \in Devices /\ event[a].src = dev /\ event[a].dest \in Devices /\ event[a] # NoEvent
    BY <1>1, <1>2, <1>5 DEF ReportSync, HandsOK, EventOK, NoEvent
  <2>2. /\ event' = [event EXCEPT ![a] = NoEvent]
        /\ syncing_list' = [syncing_list EXCEPT
               ![dev] = Append(@, [vnode |-> event[a].vnode, dest |-> event[a].dest])]
        /\ UNCHANGED <<replica_list, deviceVars, join, sync_list>>
    BY <1>5 DEF ReportSync, joinVars, tableVars
  <2> QED
    BY <1>1, <2>1, <2>2, EndsPassStep
<1>6. CASE ReportPush(a)
  <2>1. /\ event[a].src \in Devices /\ event[a].dest \in Devices /\ event[a] # NoEvent
    BY <1>1, <1>6 DEF ReportPush, EventOK, NoEvent
  <2>2. /\ event' = [event EXCEPT ![a] = NoEvent]
        /\ sync_list' = [sync_list EXCEPT
               ![event[a].src] = Append(@, [vnode |-> event[a].vnode, dest |-> event[a].dest])]
        /\ UNCHANGED <<replica_list, deviceVars, join, syncing_list>>
    BY <1>6 DEF ReportPush, joinVars, tableVars
  <2> QED
    BY <1>1, <2>1, <2>2, EndsPassStep
<1>7. ASSUME NEW u \in report[a], ReportStranger(a, u) \/ ReportSyncing(a, u) \/ ReportCurrent(a, u)
      PROVE  EventEnds'
  BY <1>1, <1>7, EndsQuietStep DEF ReportStranger, ReportSyncing, ReportCurrent, tableVars, joinVars
<1>8. ASSUME NEW v \in mine[a], ReportMissing(a, v) PROVE EventEnds'
  BY <1>1, <1>8, EndsQuietStep DEF ReportMissing, tableVars, joinVars
<1>9. ASSUME NEW u \in report[a], ReportStale(a, u) PROVE EventEnds'
  <2> DEFINE v == u.vnode
             src == get_read_replica(replica_list[v], replica_status[v], rd_req_robin[v])
  <2>1. v \in Vnodes /\ dev \in Devices /\ v \in Range(vnode_list[dev])
    BY <1>1, <1>2, <1>9 DEF ReportStale, MineListed
  <2>2. UNCHANGED <<replica_list, listVars, deviceVars, join>>
    BY <1>9 DEF ReportStale, joinVars
  <2>3. CASE UNCHANGED event
    BY <1>1, <2>2, <2>3, EndsQuietStep
  <2>4. CASE ~UNCHANGED event
    <3>1. src # NoDevice /\ event' = [event EXCEPT ![a] = [vnode |-> v, dest |-> dev, src |-> src]]
      BY <1>9, <2>4 DEF ReportStale
    <3>2. src \in Holders(replica_list[v]) /\ dev \in Holders(replica_list[v])
      BY <1>1, <2>1, <3>1, SourceChosen DEF ReplicaInv, ListsAgree
    <3> HIDE DEF src
    <3>3. PICK e : e = [vnode |-> v, dest |-> dev, src |-> src]
      OBVIOUS
    <3>4. {e.src, e.dest} \subseteq Holders(replica_list'[e.vnode])
      BY <2>2, <3>2, <3>3
    <3>5. \A b \in Addrs : event'[b] = event[b] \/ event'[b] = e
      BY <1>1, <3>1, <3>3
    <3>6. \A e1 : PushedNext(e1) <=> PushedNext(e1)'
      BY <2>2 DEF PushedNext, Joiner, deviceVars
    <3> QED
      BY <1>1, <2>2, <3>4, <3>5, <3>6, EndsCarried DEF listVars
  <2> QED
    BY <2>3, <2>4
<1> QED
  BY <1>3, <1>4, <1>5, <1>6, <1>7, <1>8, <1>9 DEF Merge

LEMMA EndsSyncDownStep ==
    ASSUME ReplicaInv, EventEnds, NEW a \in Addrs, SyncDown(a)
    PROVE  EventEnds'
<1> DEFINE dev == DeviceAt(a)
<1>1. /\ TypeInv /\ NoMoves /\ DeviceTypes
      /\ event \in [Addrs -> LocalEvents]
      /\ syncing_list \in [Devices -> Seq(SyncEvents)]
      /\ pc[a] # "idle" => dev \in Devices
  BY DeviceAtType DEF ReplicaInv, TypeInv, TypeOK, HandlerTypes, ListTypes, Registered
<1>2. CASE SyncDownFind(a)
  <2> DEFINE v == Head(down[a])
             at == SyncingAt(dev, v)
             p == FirstOf(at)
             l == syncing_list[dev]
  <2>1. UNCHANGED <<replica_list, sync_list, deviceVars, join>> /\ dev \in Devices
    BY <1>1, <1>2 DEF SyncDownFind, tableVars, joinVars
  <2>2. CASE at = {} \/ ~({dev, l[p].dest} \subseteq Holders(replica_list[v]))
    BY <1>1, <1>2, <2>1, <2>2, EndsQuietStep DEF SyncDownFind, listVars
  <2>3. CASE ~(at = {} \/ ~({dev, l[p].dest} \subseteq Holders(replica_list[v])))
    <3>1. /\ event' = [event EXCEPT ![a] = [vnode |-> v, dest |-> l[p].dest, src |-> dev]]
          /\ syncing_list' = [syncing_list EXCEPT ![dev] = RemoveAt(@, p)]
      BY <1>2, <2>3 DEF SyncDownFind, PopSyncing
    <3>2. PICK e : e = [vnode |-> v, dest |-> l[p].dest, src |-> dev]
      OBVIOUS
    <3>3. {e.src, e.dest} \subseteq Holders(replica_list'[e.vnode])
      BY <2>1, <2>3, <3>2
    <3>4. p \in 1..Len(l)
      <4>1. at \subseteq Nat /\ at # {}
        BY <1>1, <2>1, <2>3, LenProperties DEF SyncingAt
      <4> HIDE DEF at
      <4>2. p \in at
        BY <4>1, FirstOfLemma
      <4> QED
        BY <4>2 DEF SyncingAt, at
    <3> HIDE DEF p, v
    <3>5. Range(RemoveAt(l, p)) \subseteq Range(l)
      BY <1>1, <2>1, <3>4, RangeRemoveAt
    <3>6. \A s \in Devices : \A x \in Range(syncing_list'[s]) : x \in Range(syncing_list[s])
      BY <1>1, <3>1, <3>5
    <3>7. \A b \in Addrs : event'[b] = event[b] \/ event'[b] = e
      BY <1>1, <3>1, <3>2
    <3>8. \A x : PushedNext(x) <=> PushedNext(x)'
      BY <2>1 DEF PushedNext, Joiner, deviceVars
    <3> QED
      BY <1>1, <2>1, <3>3, <3>6, <3>7, <3>8, EndsCarried
  <2> QED
    BY <2>2, <2>3
<1>3. CASE SyncDownDest(a) \/ SyncDownReply(a)
  BY <1>1, <1>3, EndsQuietStep DEF SyncDownDest, SyncDownReply, tableVars, joinVars
<1>4. CASE SyncDownSrc(a)
  <2>1. /\ UNCHANGED <<replica_list, listVars, deviceVars, join>>
        /\ event' = [event EXCEPT ![a] = NoEvent]
    BY <1>1, <1>4, SyncDownSrcQuiet DEF SyncDownSrc, joinVars
  <2>2. \A b \in Addrs : event'[b] \in {NoEvent, event[b]}
    BY <1>1, <2>1
  <2>3. \A x : PushedNext(x) <=> PushedNext(x)'
    BY <2>1 DEF PushedNext, Joiner, deviceVars
  <2> QED
    BY <1>1, <2>1, <2>2, <2>3, EndsCarried DEF listVars
<1> QED
  BY <1>2, <1>3, <1>4 DEF SyncDown

LEMMA EventEndsStep ==
    ASSUME ReplicaInv, HandsOK, MineListed, EventEnds, [Next]_vars, alloc_fails' = 0
    PROVE  EventEnds'
<1>1. TypeInv /\ ~JoinFails
  BY FailuresCounted DEF ReplicaInv
<1>2. CASE Join
  BY <1>1, <1>2, HoldersGrow, EndsJoinStep
<1>3. ASSUME NEW a \in Addrs, Merge(a) PROVE EventEnds'
  BY <1>3, EndsMergeStep
<1>4. ASSUME NEW a \in Addrs, SyncDown(a) PROVE EventEnds'
  BY <1>4, EndsSyncDownStep
<1>5. ASSUME NEW a \in Addrs, Reply(a) PROVE EventEnds'
  BY <1>1, <1>5, EndsQuietStep DEF Reply, ReportReply, tableVars, joinVars
<1>6. ASSUME NEW a \in Addrs, NEW vs \in Batches, Finish(a, vs) PROVE EventEnds'
  BY <1>1, <1>6, EndsQuietStep DEF Finish, SyncDownStart, tableVars, joinVars
<1>7. CASE Read \/ UNCHANGED vars
  BY <1>1, <1>7, EndsQuietStep DEF Read, ClientRead, vars, masterVars, tableVars, joinVars, handlerVars
<1> QED
  BY <1>2, <1>3, <1>4, <1>5, <1>6, <1>7 DEF Next

\* The syncs of v a sync-down has still to finish.
ToFinish(a, v) ==
    IF pc[a] \in {"down", "dest", "src"}
    THEN Listed(down[a], v) - (IF pc[a] # "down" /\ event[a].vnode = v THEN 1 ELSE 0)
    ELSE 0

\* The events of v handed to the device a reports as and not reported finished.
HandedOut(a, v) == IF Known(a) THEN Cardinality(SyncingAt(DeviceAt(a), v)) ELSE 0

\* What a will report, or reports, as finished has an event each in the syncing_list
\* of its device: get_replica_info() finds it.
Covered(a) == \A v \in Vnodes : owed[a][v] + Told(a, v) + ToFinish(a, v) <= HandedOut(a, v)
OwedKnown == \A a \in Addrs : Covered(a)

SyncsOf(v)     == {e \in SyncEvents : e.vnode = v}
SourceUnits(v) == {u \in RespUnits : u.vnode = v /\ IsSource(u.status)}

\* The model's counts are counts of the entries of a list.
LEMMA Counts ==
    ASSUME NEW v \in Vnodes
    PROVE  /\ \A l \in Seq(Vnodes) : Listed(l, v) = Count(l, {v}) /\ Listed(l, v) \in Nat
           /\ \A l \in Seq(RespUnits) :
                 LET n == Cardinality({i \in 1..Len(l) : l[i].vnode = v /\ IsSource(l[i].status)})
                 IN  n = Count(l, SourceUnits(v)) /\ n \in Nat
           /\ \A l \in Seq(SyncEvents) :
                 LET at == {i \in 1..Len(l) : l[i].vnode = v}
                 IN  /\ Cardinality(at) = Count(l, SyncsOf(v)) /\ Cardinality(at) \in Nat
                     /\ Cardinality(at) = 0 => at = {}
<1>1. ASSUME NEW l \in Seq(Vnodes)
      PROVE  Listed(l, v) = Count(l, {v}) /\ Listed(l, v) \in Nat
  <2>1. {i \in 1..Len(l) : l[i] = v} = {i \in 1..Len(l) : l[i] \in {v}}
    OBVIOUS
  <2>2. Count(l, {v}) \in Nat
    BY CountType
  <2> QED
    BY <2>1, <2>2 DEF Listed, Count
<1>2. ASSUME NEW l \in Seq(RespUnits)
      PROVE  LET n == Cardinality({i \in 1..Len(l) : l[i].vnode = v /\ IsSource(l[i].status)})
             IN  n = Count(l, SourceUnits(v)) /\ n \in Nat
  <2>1. \A i \in 1..Len(l) : l[i] \in RespUnits
    BY ElementOfSeq
  <2>2. {i \in 1..Len(l) : l[i].vnode = v /\ IsSource(l[i].status)}
           = {i \in 1..Len(l) : l[i] \in SourceUnits(v)}
    BY <2>1 DEF SourceUnits
  <2>3. Count(l, SourceUnits(v)) \in Nat
    BY CountType
  <2> QED
    BY <2>2, <2>3 DEF Count
<1>3. ASSUME NEW l \in Seq(SyncEvents)
      PROVE  LET at == {i \in 1..Len(l) : l[i].vnode = v}
             IN  /\ Cardinality(at) = Count(l, SyncsOf(v)) /\ Cardinality(at) \in Nat
                 /\ Cardinality(at) = 0 => at = {}
  <2> DEFINE at == {i \in 1..Len(l) : l[i] \in SyncsOf(v)}
  <2>1. \A i \in 1..Len(l) : l[i] \in SyncEvents
    BY ElementOfSeq
  <2>2. {i \in 1..Len(l) : l[i].vnode = v} = at
    BY <2>1 DEF SyncsOf
  <2>3. Count(l, SyncsOf(v)) \in Nat /\ IsFiniteSet(at)
    <3>1. PICK S : S = SyncsOf(v)
      OBVIOUS
    <3>2. Count(l, S) \in Nat /\ IsFiniteSet({i \in 1..Len(l) : l[i] \in S})
      BY CountType
    <3> QED
      BY <3>1, <3>2
  <2>4. Cardinality(at) = Count(l, SyncsOf(v))
    BY DEF Count
  <2> HIDE DEF at
  <2> QED
    BY <2>2, <2>3, <2>4, FS_EmptySet
<1> QED
  BY <1>1, <1>2, <1>3

Counted == \A a \in Addrs, v \in Vnodes :
    /\ HandedOut(a, v) \in Nat /\ Told(a, v) \in Nat
    /\ owed[a][v] \in Nat /\ Listed(down[a], v) \in Nat /\ ToFinish(a, v) \in Int

LEMMA CountedTypes == TypeInv => Counted
<1> SUFFICES ASSUME TypeInv, NEW a \in Addrs, NEW v \in Vnodes
             PROVE  /\ HandedOut(a, v) \in Nat /\ Told(a, v) \in Nat
                    /\ owed[a][v] \in Nat /\ Listed(down[a], v) \in Nat /\ ToFinish(a, v) \in Int
  BY DEF Counted
<1>1. /\ DeviceTypes /\ syncing_list \in [Devices -> Seq(SyncEvents)]
      /\ resp[a] \in Seq(RespUnits) /\ down[a] \in Seq(Vnodes) /\ owed[a][v] \in Nat
  BY DEF TypeInv, TypeOK, ListTypes, HandlerTypes
<1>2. HandedOut(a, v) \in Nat
  <2>1. CASE Known(a)
    <3>1. syncing_list[DeviceAt(a)] \in Seq(SyncEvents)
      BY <1>1, <2>1, DeviceAtType
    <3> QED
      BY <2>1, <3>1, Counts DEF HandedOut, SyncingAt
  <2> QED
    BY <2>1 DEF HandedOut
<1>3. Told(a, v) \in Nat /\ Listed(down[a], v) \in Nat
  BY <1>1, Counts DEF Told
<1> QED
  BY <1>1, <1>2, <1>3 DEF ToFinish

\* Nothing that a node owes, or a sync-down lists, changes without its handler.
LEMMA CoveredStays ==
    ASSUME ReplicaInv, TypeInv', [Next]_vars, NEW a \in Addrs, Covered(a),
           owed'[a] = owed[a], resp'[a] = resp[a], down'[a] = down[a],
           pc'[a] = pc[a], event'[a] = event[a],
           Known(a) => syncing_list'[DeviceAt(a)] = syncing_list[DeviceAt(a)]
    PROVE  Covered(a)'
<1> SUFFICES ASSUME NEW v \in Vnodes
             PROVE  owed'[a][v] + Told(a, v)' + ToFinish(a, v)' <= HandedOut(a, v)'
  BY DEF Covered
<1>1. owed'[a][v] + Told(a, v)' + ToFinish(a, v)' = owed[a][v] + Told(a, v) + ToFinish(a, v)
  BY DEF Told, ToFinish
<1>2. owed[a][v] + Told(a, v) + ToFinish(a, v) <= HandedOut(a, v)
  BY DEF Covered
<1>3. CASE Known(a)
  <2>1. Known(a)' /\ DeviceAt(a)' = DeviceAt(a)
    BY <1>3, DevicesStay
  <2>2. HandedOut(a, v)' = HandedOut(a, v)
    BY <1>3, <2>1 DEF HandedOut, SyncingAt
  <2> QED
    BY <1>1, <1>2, <2>2
<1>4. CASE ~Known(a)
  <2>1. owed[a][v] + Told(a, v) + ToFinish(a, v) <= 0
    BY <1>2, <1>4 DEF HandedOut
  <2>2. TypeInv' => Counted'
    BY CountedTypes, PTL
  <2>3. HandedOut(a, v)' \in Nat
    BY <2>2 DEF Counted
  <2>4. owed[a][v] \in Nat /\ Told(a, v) \in Nat /\ ToFinish(a, v) \in Int
    BY CountedTypes DEF ReplicaInv, Counted
  <2> QED
    BY <1>1, <2>1, <2>3, <2>4
<1> QED
  BY <1>3, <1>4

\* Only a sync handed out is answered with a source's status.
LEMMA AnswerTold ==
    ASSUME HandlerTypes, NEW a \in Addrs, NEW v \in Vnodes, NEW s \in Statuses,
           NEW dest \in Addrs \cup {NoAddr}, Answer(a, v, s, dest), NEW w \in Vnodes
    PROVE  Told(a, w)' = Told(a, w) + (IF v = w /\ IsSource(s) THEN 1 ELSE 0)
<1>1. PICK u : u = [vnode |-> v, status |-> s, dest |-> dest]
  OBVIOUS
<1>2. u \in RespUnits /\ u.vnode = v /\ u.status = s
  BY <1>1 DEF RespUnits
<1>3. resp[a] \in Seq(RespUnits) /\ resp'[a] = Append(resp[a], u)
  BY <1>1 DEF HandlerTypes, Answer
<1>4. resp'[a] \in Seq(RespUnits)
  BY <1>2, <1>3, AppendProperties
<1>5. Told(a, w) = Count(resp[a], SourceUnits(w)) /\ Told(a, w)' = Count(resp'[a], SourceUnits(w))
  BY <1>3, <1>4, Counts DEF Told
<1>6. u \in SourceUnits(w) <=> v = w /\ IsSource(s)
  BY <1>2 DEF SourceUnits
<1> QED
  BY <1>2, <1>3, <1>5, <1>6, CountAppend

LEMMA OthersDevice ==
    ASSUME DeviceTypes, NEW a, NEW b, Known(a), Known(b), a # b
    PROVE  DeviceAt(a) # DeviceAt(b)
BY DeviceAtType

\* The answers of a merge, a pop and the steps that only touch what no node owes.
LEMMA CoveredAnswer ==
    ASSUME ReplicaInv, TypeInv', [Next]_vars, OwedKnown, NEW a \in Addrs,
           UNCHANGED <<owed, syncing_list, down, deviceVars>>,
           \A b \in Addrs : b # a => resp'[b] = resp[b] /\ pc'[b] = pc[b] /\ event'[b] = event[b],
           pc[a] \notin {"down", "dest", "src"}, pc'[a] \notin {"down", "dest", "src"},
           \A v \in Vnodes : Told(a, v)' = Told(a, v)
    PROVE  OwedKnown'
<1>1. ASSUME NEW b \in Addrs, b # a PROVE Covered(b)'
  BY <1>1, CoveredStays DEF OwedKnown
<1>2. Covered(a)'
  <2>1. \A v \in Vnodes : HandedOut(a, v)' = HandedOut(a, v) /\ ToFinish(a, v)' = ToFinish(a, v)
    BY DEF HandedOut, ToFinish, Known, DeviceAt, SyncingAt, deviceVars
  <2> QED
    BY <2>1 DEF OwedKnown, Covered
<1> QED
  BY <1>1, <1>2 DEF OwedKnown

LEMMA CoveredMergeStep ==
    ASSUME ReplicaInv, TypeInv', HandsOK, OwedKnown, [Next]_vars, NEW a \in Addrs, Merge(a)
    PROVE  OwedKnown'
<1> DEFINE dev == DeviceAt(a)
<1>1. /\ TypeInv /\ HandlerTypes /\ TableTypes /\ DeviceTypes /\ EventOK
      /\ event \in [Addrs -> LocalEvents]
      /\ pc \in [Addrs -> HandlerPcs]
      /\ resp \in [Addrs -> Seq(RespUnits)]
      /\ replica_status \in [Vnodes -> [Devices -> Statuses]]
      /\ syncing_list \in [Devices -> Seq(SyncEvents)]
      /\ report[a] \in SUBSET [vnode : Vnodes, version : Nat]
      /\ mine[a] \subseteq Vnodes
  BY DEF ReplicaInv, TypeInv, TypeOK, HandlerTypes, TableTypes, ListTypes
<1>2. pc[a] # "idle" => Known(a) /\ dev \in Devices
  BY <1>1, DeviceAtType DEF TypeInv, Registered
<1>3. UNCHANGED <<owed, down, deviceVars>>
  BY DEF Merge, ReportStart, ReportSync, ReportRelock, ReportStranger, ReportSyncing, ReportStale,
         ReportCurrent, ReportPush, ReportMissing
<1>4. ASSUME NEW v \in Vnodes, NEW s \in Statuses, Answer(a, v, s, NoAddr), ~IsSource(s)
      PROVE  /\ \A w \in Vnodes : Told(a, w)' = Told(a, w)
             /\ \A b \in Addrs : b # a => resp'[b] = resp[b]
  <2>1. ASSUME NEW w \in Vnodes PROVE Told(a, w)' = Told(a, w)
    <3>1. Told(a, w)' = Told(a, w) + 0
      BY <1>1, <1>4, AnswerTold
    <3> QED
      BY <1>1, <3>1, CountedTypes DEF Counted
  <2>2. \A b \in Addrs : b # a => resp'[b] = resp[b]
    BY <1>1, <1>4 DEF Answer
  <2> QED
    BY <2>1, <2>2
<1>5. UNCHANGED resp => \A w \in Vnodes : Told(a, w)' = Told(a, w)
  BY DEF Told
<1>6. /\ OFFLINE \in Statuses /\ ~IsSource(OFFLINE)
      /\ ONLINE \in Statuses /\ ~IsSource(ONLINE)
      /\ WAIT_SYNC \in Statuses /\ ~IsSource(WAIT_SYNC)
      /\ ACTIVE \in Statuses /\ ~IsSource(ACTIVE)
  BY DEF Statuses, IsSource, INIT, OFFLINE, ONLINE, WAIT_SYNC, ACTIVE, COPY_SRC, MOVE_SRC
<1>7. ASSUME UNCHANGED <<syncing_list, resp>>, PopSyncEvent(a, dev), pc[a] \in {"idle", "relock"}
      PROVE  OwedKnown'
  <2>1. /\ \A b \in Addrs : b # a => pc'[b] = pc[b] /\ event'[b] = event[b]
        /\ pc'[a] \notin {"down", "dest", "src"}
    BY <1>1, <1>7 DEF PopSyncEvent
  <2> QED
    BY <1>3, <1>5, <1>7, <2>1, CoveredAnswer
<1>8. ASSUME NEW r \in Reports, ReportStart(a, Units(r)) PROVE OwedKnown'
  BY <1>7, <1>8 DEF ReportStart
<1>9. CASE ReportRelock(a)
  BY <1>7, <1>9 DEF ReportRelock
<1>10. ASSUME UNCHANGED syncing_list, pc[a] \in {"vnodes", "push"},
              pc'[a] \in {"vnodes", "push"},
              \A b \in Addrs : b # a => pc'[b] = pc[b] /\ event'[b] = event[b],
              \/ UNCHANGED resp
              \/ \E v \in Vnodes, s \in Statuses : Answer(a, v, s, NoAddr) /\ ~IsSource(s)
       PROVE  OwedKnown'
  <2>1. /\ \A w \in Vnodes : Told(a, w)' = Told(a, w)
        /\ \A b \in Addrs : b # a => resp'[b] = resp[b]
    BY <1>4, <1>5, <1>10
  <2> QED
    BY <1>3, <1>10, <2>1, CoveredAnswer
<1>11. ASSUME NEW u \in report[a], ReportStranger(a, u) PROVE OwedKnown'
  BY <1>1, <1>6, <1>10, <1>11 DEF ReportStranger, listVars
<1>12. ASSUME NEW u \in report[a], ReportSyncing(a, u) PROVE OwedKnown'
  <2> DEFINE s == replica_status[u.vnode][dev]
  <2>1. s \in Statuses /\ u.vnode \in Vnodes
    BY <1>1, <1>2, <1>12 DEF ReportSyncing
  <2> QED
    BY <1>10, <1>12, <2>1 DEF ReportSyncing, listVars
<1>13. ASSUME NEW v \in mine[a], ReportMissing(a, v) PROVE OwedKnown'
  <2> DEFINE s == replica_status[v][dev]
  <2>1. s \in Statuses /\ v \in Vnodes
    BY <1>1, <1>2, <1>13 DEF ReportMissing
  <2> QED
    BY <1>10, <1>13, <2>1 DEF ReportMissing, listVars
<1>14. ASSUME NEW u \in report[a], ReportCurrent(a, u) PROVE OwedKnown'
  <2> DEFINE s == IF u.version = version[u.vnode] THEN ACTIVE ELSE replica_status[u.vnode][dev]
  <2>1. u.vnode \in Vnodes /\ dev \in Devices
    BY <1>1, <1>2, <1>14 DEF ReportCurrent
  <2>2. s \in Statuses /\ ~IsSource(s)
    BY <1>1, <1>6, <1>14, <2>1 DEF ReportCurrent, IsSource
  <2>3. Answer(a, u.vnode, s, NoAddr)
    BY <1>14 DEF ReportCurrent
  <2> HIDE DEF s
  <2> QED
    BY <1>10, <1>14, <2>1, <2>2, <2>3 DEF ReportCurrent, listVars
<1>15. ASSUME NEW u \in report[a], ReportStale(a, u) PROVE OwedKnown'
  <2> DEFINE v == u.vnode
             src == get_read_replica(replica_list[v], replica_status[v], rd_req_robin[v])
  <2>1. /\ pc[a] = "vnodes" /\ v \in Vnodes /\ UNCHANGED syncing_list
        /\ \/ Answer(a, v, ONLINE, NoAddr) /\ UNCHANGED <<pc, event>>
           \/ /\ event' = [event EXCEPT ![a] = [vnode |-> v, dest |-> dev, src |-> src]]
              /\ pc' = [pc EXCEPT ![a] = "push"]
              /\ UNCHANGED resp
    BY <1>1, <1>15 DEF ReportStale, listVars
  <2> HIDE DEF src
  <2>2. /\ pc'[a] \in {"vnodes", "push"}
        /\ \A b \in Addrs : b # a => pc'[b] = pc[b] /\ event'[b] = event[b]
    BY <1>1, <2>1
  <2> QED
    BY <1>6, <1>10, <2>1, <2>2
<1>16. CASE ReportPush(a)
  <2>1. /\ pc[a] = "push" /\ event[a].vnode \in Vnodes /\ UNCHANGED syncing_list
        /\ Answer(a, event[a].vnode, WAIT_SYNC, NoAddr)
        /\ event' = [event EXCEPT ![a] = NoEvent] /\ pc' = [pc EXCEPT ![a] = "vnodes"]
    BY <1>1, <1>16 DEF ReportPush, LocalEvents
  <2>2. /\ pc'[a] = "vnodes"
        /\ \A b \in Addrs : b # a => pc'[b] = pc[b] /\ event'[b] = event[b]
    BY <1>1, <2>1
  <2> QED
    BY <1>6, <1>10, <2>1, <2>2
<1>17. CASE ReportSync(a)
  <2> DEFINE s == replica_status[event[a].vnode][dev]
  <2>1. /\ pc[a] = "popped" /\ Known(a) /\ dev \in Devices
        /\ event[a].vnode \in Vnodes /\ event[a].dest \in Devices
    BY <1>1, <1>2, <1>17 DEF ReportSync, LocalEvents, EventOK
  <2>2. PICK x : x = [vnode |-> event[a].vnode, dest |-> event[a].dest]
    OBVIOUS
  <2>3. x \in SyncEvents /\ x.vnode = event[a].vnode
    BY <2>1, <2>2 DEF SyncEvents
  <2>4. /\ Answer(a, event[a].vnode, s, addr[event[a].dest])
        /\ pc' = [pc EXCEPT ![a] = "relock"] /\ event' = [event EXCEPT ![a] = NoEvent]
        /\ syncing_list' = [syncing_list EXCEPT ![dev] = Append(@, x)]
    BY <1>17, <2>2 DEF ReportSync
  <2>5. s \in Statuses /\ addr[event[a].dest] \in Addrs \cup {NoAddr}
    BY <1>1, <2>1 DEF DeviceTypes
  <2>6. ASSUME NEW b \in Addrs, b # a PROVE Covered(b)'
    <3>1. resp'[b] = resp[b] /\ pc'[b] = pc[b] /\ event'[b] = event[b]
      BY <1>1, <2>4, <2>6 DEF Answer
    <3>2. Known(b) => syncing_list'[DeviceAt(b)] = syncing_list[DeviceAt(b)]
      BY <1>1, <2>1, <2>4, <2>6, OthersDevice, DeviceAtType
    <3> QED
      BY <1>3, <3>1, <3>2, CoveredStays DEF OwedKnown
  <2>7. Covered(a)'
    <3> SUFFICES ASSUME NEW v \in Vnodes
                 PROVE  owed'[a][v] + Told(a, v)' + ToFinish(a, v)' <= HandedOut(a, v)'
      BY DEF Covered
    <3>1. Told(a, v)' <= Told(a, v) + (IF event[a].vnode = v THEN 1 ELSE 0) /\ Told(a, v)' \in Nat
      <4>1. Told(a, v)' = Told(a, v) + (IF event[a].vnode = v /\ IsSource(s) THEN 1 ELSE 0)
        BY <1>1, <2>1, <2>4, <2>5, AnswerTold
      <4>2. Told(a, v) \in Nat
        BY <1>1, CountedTypes DEF Counted
      <4> QED
        BY <4>1, <4>2
    <3>2. ToFinish(a, v)' = 0 /\ ToFinish(a, v) = 0
      BY <1>1, <2>1, <2>4 DEF ToFinish
    <3>3. HandedOut(a, v)' = HandedOut(a, v) + (IF event[a].vnode = v THEN 1 ELSE 0)
      <4>1. (Known(a)' <=> Known(a)) /\ DeviceAt(a)' = dev
        BY <1>3 DEF Known, DeviceAt, deviceVars
      <4>2. syncing_list'[dev] = Append(syncing_list[dev], x) /\ syncing_list[dev] \in Seq(SyncEvents)
        BY <1>1, <2>1, <2>4
      <4>3. syncing_list'[dev] \in Seq(SyncEvents)
        BY <2>3, <4>2, AppendProperties
      <4>4. x \in SyncsOf(v) <=> event[a].vnode = v
        BY <2>3 DEF SyncsOf
      <4>5. HandedOut(a, v) = Count(syncing_list[dev], SyncsOf(v))
        BY <2>1, <4>2, Counts DEF HandedOut, SyncingAt
      <4>6. HandedOut(a, v)' = Count(syncing_list'[dev], SyncsOf(v))
        <5>1. HandedOut(a, v)' = Cardinality({i \in 1..Len(syncing_list'[dev]) :
                                               syncing_list'[dev][i].vnode = v})
          BY <2>1, <4>1 DEF HandedOut, SyncingAt
        <5> QED
          BY <4>3, <5>1, Counts
      <4> QED
        BY <2>3, <4>2, <4>4, <4>5, <4>6, CountAppend
    <3>4. owed[a][v] + Told(a, v) + ToFinish(a, v) <= HandedOut(a, v)
      BY DEF OwedKnown, Covered
    <3>5. /\ owed[a][v] \in Nat /\ Told(a, v) \in Nat /\ HandedOut(a, v) \in Nat
          /\ owed'[a][v] = owed[a][v]
      BY <1>1, <1>3, CountedTypes DEF Counted
    <3> QED
      BY <3>1, <3>2, <3>3, <3>4, <3>5
  <2> QED
    BY <2>6, <2>7 DEF OwedKnown
<1> QED
  BY <1>8, <1>9, <1>11, <1>12, <1>13, <1>14, <1>15, <1>16, <1>17 DEF Merge

\* The response takes the syncs it tells of with it, a sync-down those it lists.
LEMMA CoveredTalkStep ==
    ASSUME ReplicaInv, TypeInv', HandsOK, OwedKnown, [Next]_vars, NEW a \in Addrs,
           Reply(a) \/ \E vs \in Batches : Finish(a, vs)
    PROVE  OwedKnown'
<1>1. /\ TypeInv /\ pc \in [Addrs -> HandlerPcs] /\ down \in [Addrs -> Seq(Vnodes)]
      /\ resp \in [Addrs -> Seq(RespUnits)]
      /\ owed \in [Addrs -> [Vnodes -> Nat]]
  BY DEF ReplicaInv, TypeInv, TypeOK, HandlerTypes
<1>2. ASSUME UNCHANGED <<syncing_list, deviceVars, event>>,
             \A b \in Addrs : b # a =>
                /\ owed'[b] = owed[b] /\ resp'[b] = resp[b]
                /\ pc'[b] = pc[b] /\ down'[b] = down[b],
             \A v \in Vnodes : owed'[a][v] + Told(a, v)' + ToFinish(a, v)'
                                  = owed[a][v] + Told(a, v) + ToFinish(a, v)
      PROVE  OwedKnown'
  <2>1. ASSUME NEW b \in Addrs, b # a PROVE Covered(b)'
    BY <1>2, <2>1, CoveredStays DEF OwedKnown
  <2>2. \A v \in Vnodes : HandedOut(a, v)' = HandedOut(a, v)
    BY <1>2 DEF HandedOut, Known, DeviceAt, SyncingAt, deviceVars
  <2>3. Covered(a)'
    BY <1>2, <2>2 DEF OwedKnown, Covered
  <2> QED
    BY <2>1, <2>3 DEF OwedKnown
<1>3. \A v \in Vnodes : owed[a][v] \in Nat /\ Told(a, v) \in Nat
  BY <1>1, CountedTypes DEF Counted
<1>4. CASE Reply(a)
  <2>1. /\ UNCHANGED <<syncing_list, deviceVars, event, down>>
        /\ pc[a] = "vnodes" /\ pc' = [pc EXCEPT ![a] = "idle"]
        /\ resp' = [resp EXCEPT ![a] = <<>>]
        /\ owed' = [owed EXCEPT ![a] = [v \in Vnodes |-> @[v] + Told(a, v)]]
    BY <1>4 DEF Reply, ReportReply, listVars
  <2>2. ASSUME NEW v \in Vnodes
        PROVE  owed'[a][v] + Told(a, v)' + ToFinish(a, v)' = owed[a][v] + Told(a, v) + ToFinish(a, v)
    <3>1. owed'[a][v] = owed[a][v] + Told(a, v)
      BY <1>1, <2>1
    <3>2. Told(a, v)' = 0
      <4>1. resp'[a] = <<>> /\ <<>> \in Seq(RespUnits)
        BY <1>1, <2>1, EmptySeq
      <4>2. Told(a, v)' = Count(<<>>, SourceUnits(v))
        BY <4>1, Counts DEF Told
      <4> QED
        BY <4>2, CountEmpty
    <3>3. ToFinish(a, v)' = 0 /\ ToFinish(a, v) = 0
      BY <1>1, <2>1 DEF ToFinish
    <3> QED
      BY <1>3, <3>1, <3>2, <3>3
  <2> QED
    BY <1>1, <1>2, <2>1, <2>2
<1>5. ASSUME NEW vs \in Batches, Finish(a, vs) PROVE OwedKnown'
  <2>1. /\ UNCHANGED <<syncing_list, deviceVars, event, resp>>
        /\ pc[a] = "idle" /\ pc' = [pc EXCEPT ![a] = "down"]
        /\ down' = [down EXCEPT ![a] = vs]
        /\ owed' = [owed EXCEPT ![a] = [v \in Vnodes |-> @[v] - Listed(vs, v)]]
    BY <1>5 DEF Finish, SyncDownStart, listVars
  <2>2. vs \in Seq(Vnodes)
    <3>1. vs = down'[a]
      BY <1>1, <2>1
    <3> QED
      BY <3>1 DEF TypeInv, TypeOK, HandlerTypes
  <2>3. ASSUME NEW v \in Vnodes
        PROVE  owed'[a][v] + Told(a, v)' + ToFinish(a, v)' = owed[a][v] + Told(a, v) + ToFinish(a, v)
    <3>1. owed'[a][v] = owed[a][v] - Listed(vs, v) /\ Listed(vs, v) \in Nat
      BY <1>1, <2>1, <2>2, Counts
    <3>2. Told(a, v)' = Told(a, v)
      BY <2>1 DEF Told
    <3>3. ToFinish(a, v)' = Listed(vs, v) /\ ToFinish(a, v) = 0
      <4>1. pc'[a] = "down" /\ down'[a] = vs
        BY <1>1, <2>1
      <4>2. ToFinish(a, v)' = Listed(vs, v)' - 0
        BY <4>1 DEF ToFinish
      <4>3. Listed(vs, v)' = Listed(vs, v)
        BY DEF Listed
      <4> QED
        BY <2>1, <3>1, <4>2, <4>3 DEF ToFinish
    <3> QED
      BY <1>3, <3>1, <3>2, <3>3
  <2> QED
    BY <1>1, <1>2, <2>1, <2>3
<1> QED
  BY <1>4, <1>5

\* The handler of a sync-down finds the event of every vnode in the report; the event
\* leaves the list when it begins with it.  It finds both replicas where EventEnds holds.
LEMMA CoveredSyncDownStep ==
    ASSUME ReplicaInv, TypeInv', HandsOK, OwedKnown, [Next]_vars, NEW a \in Addrs, SyncDown(a)
    PROVE  OwedKnown' /\ (EventEnds => UNCHANGED up)
<1> DEFINE dev == DeviceAt(a)
           v == Head(down[a])
<1>1. /\ TypeInv /\ DeviceTypes /\ EventOK
      /\ pc \in [Addrs -> HandlerPcs] /\ down \in [Addrs -> Seq(Vnodes)]
      /\ event \in [Addrs -> LocalEvents]
      /\ syncing_list \in [Devices -> Seq(SyncEvents)]
      /\ \A w \in Vnodes : /\ owed[a][w] \in Nat /\ Told(a, w) \in Nat
                           /\ HandedOut(a, w) \in Nat /\ Listed(down[a], w) \in Nat
  BY CountedTypes DEF ReplicaInv, TypeInv, TypeOK, HandlerTypes, ListTypes, Counted
<1>2. Known(a) /\ dev \in Devices
  BY <1>1, DeviceAtType
  DEF TypeInv, Registered, SyncDown, SyncDownFind, SyncDownDest, SyncDownSrc, SyncDownReply
<1>3. UNCHANGED <<owed, deviceVars, resp>>
  BY DEF SyncDown, SyncDownFind, SyncDownDest, SyncDownSrc, SyncDownReply
<1>4. ASSUME \A b \in Addrs : b # a => pc'[b] = pc[b] /\ event'[b] = event[b] /\ down'[b] = down[b],
             \A d \in Devices : d # dev => syncing_list'[d] = syncing_list[d],
             \A w \in Vnodes : HandedOut(a, w) - ToFinish(a, w) = HandedOut(a, w)' - ToFinish(a, w)',
             \A w \in Vnodes : /\ ToFinish(a, w) \in Int /\ ToFinish(a, w)' \in Int
                               /\ HandedOut(a, w)' \in Int
      PROVE  OwedKnown'
  <2>1. ASSUME NEW b \in Addrs, b # a PROVE Covered(b)'
    <3>1. Known(b) => syncing_list'[DeviceAt(b)] = syncing_list[DeviceAt(b)]
      BY <1>1, <1>2, <1>4, <2>1, OthersDevice, DeviceAtType
    <3> QED
      BY <1>3, <1>4, <2>1, <3>1, CoveredStays DEF OwedKnown
  <2>2. Covered(a)'
    <3> SUFFICES ASSUME NEW w \in Vnodes
                 PROVE  owed'[a][w] + Told(a, w)' + ToFinish(a, w)' <= HandedOut(a, w)'
      BY DEF Covered
    <3>1. owed[a][w] + Told(a, w) + ToFinish(a, w) <= HandedOut(a, w)
      BY DEF OwedKnown, Covered
    <3>2. owed'[a][w] = owed[a][w] /\ Told(a, w)' = Told(a, w)
      BY <1>3 DEF Told
    <3> QED
      BY <1>1, <1>4, <3>1, <3>2
  <2> QED
    BY <2>1, <2>2 DEF OwedKnown
<1>5. UNCHANGED syncing_list => \A w : HandedOut(a, w)' = HandedOut(a, w)
  BY <1>3 DEF HandedOut, Known, DeviceAt, SyncingAt, deviceVars
<1>6. CASE SyncDownFind(a)
  <2> DEFINE l == syncing_list[dev]
             p == FirstOf(SyncingAt(dev, v))
  <2>1. /\ pc[a] = "down" /\ down[a] # <<>> /\ UNCHANGED down
    BY <1>6 DEF SyncDownFind
  <2>2. v \in Vnodes /\ down[a][1] = v /\ 1 \in 1..Len(down[a])
    BY <1>1, <2>1, TailIsRemoveAt, HeadTailProperties
  <2> HIDE DEF v
  <2>3. 1 <= Listed(down[a], v)
    <3>1. v \in Range(down[a])
      BY <1>1, <2>1, RangeTail DEF v
    <3>2. Count(down[a], {v}) # 0
      <4>1. Range(down[a]) \cap {v} # {}
        BY <3>1
      <4>2. down[a] \in Seq(Vnodes)
        BY <1>1
      <4> QED
        BY <4>1, <4>2, CountType
    <3> QED
      <4>1. down[a] \in Seq(Vnodes) /\ v \in Vnodes
        BY <1>1, <2>2
      <4>2. Listed(down[a], v) = Count(down[a], {v}) /\ Listed(down[a], v) \in Nat
        BY <4>1, Counts
      <4> QED
        BY <3>2, <4>2
  <2>4. SyncingAt(dev, v) # {}
    <3>1. ToFinish(a, v) = Listed(down[a], v)
      BY <1>1, <2>1, <2>2 DEF ToFinish
    <3>2. 1 <= HandedOut(a, v)
      <4>1. owed[a][v] + Told(a, v) + ToFinish(a, v) <= HandedOut(a, v)
        BY <2>2 DEF OwedKnown, Covered
      <4>2. /\ owed[a][v] \in Nat /\ Told(a, v) \in Nat
            /\ HandedOut(a, v) \in Nat /\ Listed(down[a], v) \in Nat
        BY <1>1, <2>2
      <4> QED
        BY <2>3, <3>1, <4>1, <4>2
    <3>3. 1 <= Cardinality(SyncingAt(dev, v))
      BY <1>2, <3>2 DEF HandedOut
    <3> QED
      BY <3>3, FS_EmptySet
  <2>5. p \in 1..Len(l) /\ l[p].vnode = v
    <3>1. SyncingAt(dev, v) \subseteq Nat
      BY <1>1, <1>2, LenProperties DEF SyncingAt
    <3>2. p \in SyncingAt(dev, v)
      BY <2>4, <3>1, FirstOfLemma
    <3> QED
      BY <3>2 DEF SyncingAt
  <2>6. l[p] \in Range(l) /\ l[p] \in SyncEvents
    BY <1>1, <1>2, <2>5, RangeRemoveAt, ElementOfSeq
  <2>7. EventEnds => {dev, l[p].dest} \subseteq Holders(replica_list[v])
    BY <1>2, <2>5, <2>6 DEF EventEnds, SyncingEnds
  <2>15. ASSUME ~({dev, l[p].dest} \subseteq Holders(replica_list[v]))
         PROVE  OwedKnown' /\ (EventEnds => UNCHANGED up)
    <3>1. UNCHANGED <<event, syncing_list, pc, down>>
      BY <1>6, <2>15 DEF SyncDownFind, v
    <3>2. \A b \in Addrs : Covered(b)'
      BY <1>3, <3>1, CoveredStays DEF OwedKnown
    <3> QED
      BY <2>7, <2>15, <3>2 DEF OwedKnown
  <2> SUFFICES ASSUME {dev, l[p].dest} \subseteq Holders(replica_list[v])
               PROVE  OwedKnown' /\ (EventEnds => UNCHANGED up)
    BY <2>15
  <2>8. /\ event' = [event EXCEPT ![a] = [vnode |-> v, dest |-> l[p].dest, src |-> dev]]
        /\ syncing_list' = [syncing_list EXCEPT ![dev] = RemoveAt(@, p)]
        /\ pc' = [pc EXCEPT ![a] = "dest"]
        /\ UNCHANGED up
    BY <1>6, <2>4 DEF SyncDownFind, PopSyncing, v
  <2> HIDE DEF p
  <2>9. syncing_list'[dev] = RemoveAt(l, p) /\ RemoveAt(l, p) \in Seq(SyncEvents)
    BY <1>1, <1>2, <2>5, <2>8, RemoveAtLemma
  <2>10. pc'[a] = "dest" /\ event'[a].vnode = v
    BY <1>1, <2>8
  <2>11. ASSUME NEW w \in Vnodes
         PROVE  /\ ToFinish(a, w) = Listed(down[a], w)
                /\ ToFinish(a, w)' = Listed(down[a], w) - (IF v = w THEN 1 ELSE 0)
                /\ HandedOut(a, w)' = HandedOut(a, w) - (IF v = w THEN 1 ELSE 0)
    <3>1. HandedOut(a, w) = Count(l, SyncsOf(w))
      BY <1>1, <1>2, Counts DEF HandedOut, SyncingAt
    <3>2. HandedOut(a, w)' = Count(RemoveAt(l, p), SyncsOf(w))
      <4>1. HandedOut(a, w)' = Cardinality({i \in 1..Len(syncing_list'[dev]) :
                                              syncing_list'[dev][i].vnode = w})
        BY <1>2, <1>3 DEF HandedOut, SyncingAt, Known, DeviceAt, deviceVars
      <4> QED
        BY <2>9, <4>1, Counts
    <3>3. l[p] \in SyncsOf(w) <=> v = w
      BY <2>5, <2>6 DEF SyncsOf
    <3>4. HandedOut(a, w)' = HandedOut(a, w) - (IF v = w THEN 1 ELSE 0)
      BY <1>1, <1>2, <2>5, <3>1, <3>2, <3>3, CountRemoveAt
    <3>5. ToFinish(a, w)' = Listed(down[a], w) - (IF v = w THEN 1 ELSE 0)
      BY <2>1, <2>10 DEF ToFinish, Listed
    <3> QED
      BY <1>1, <2>1, <3>4, <3>5 DEF ToFinish
  <2>12. /\ \A b \in Addrs : b # a => pc'[b] = pc[b] /\ event'[b] = event[b] /\ down'[b] = down[b]
         /\ \A d \in Devices : d # dev => syncing_list'[d] = syncing_list[d]
    BY <1>1, <2>1, <2>8
  <2>13. ASSUME NEW w \in Vnodes
         PROVE  /\ ToFinish(a, w) \in Int /\ ToFinish(a, w)' \in Int
                /\ HandedOut(a, w)' \in Int
                /\ HandedOut(a, w) - ToFinish(a, w) = HandedOut(a, w)' - ToFinish(a, w)'
    <3>1. HandedOut(a, w) \in Nat /\ Listed(down[a], w) \in Nat
      BY <1>1
    <3> QED
      BY <2>11, <3>1
  <2>14. OwedKnown'
    BY <1>4, <2>12, <2>13
  <2> QED
    BY <2>8, <2>14
<1>7. ASSUME UNCHANGED <<up, syncing_list>>,
             \A b \in Addrs : b # a => pc'[b] = pc[b] /\ event'[b] = event[b] /\ down'[b] = down[b],
             \A w \in Vnodes : ToFinish(a, w)' = ToFinish(a, w) /\ ToFinish(a, w) \in Int
      PROVE  OwedKnown' /\ (EventEnds => UNCHANGED up)
  BY <1>1, <1>4, <1>5, <1>7
<1>8. ASSUME NEW w \in Vnodes PROVE ToFinish(a, w) \in Int
  BY <1>1 DEF ToFinish
<1>9. CASE SyncDownDest(a)
  <2>1. /\ UNCHANGED <<up, syncing_list, event, down>> /\ pc[a] = "dest" /\ pc' = [pc EXCEPT ![a] = "src"]
    BY <1>9 DEF SyncDownDest, listVars
  <2>2. pc'[a] = "src"
    BY <1>1, <2>1
  <2>3. \A w \in Vnodes : ToFinish(a, w)' = ToFinish(a, w)
    BY <2>1, <2>2 DEF ToFinish, Listed
  <2> QED
    BY <1>1, <1>7, <1>8, <2>1, <2>3
<1>10. CASE SyncDownReply(a)
  <2>1. /\ UNCHANGED <<up, syncing_list, event, down>> /\ pc[a] = "down" /\ down[a] = <<>>
        /\ pc' = [pc EXCEPT ![a] = "idle"]
    BY <1>10 DEF SyncDownReply, listVars
  <2>2. pc'[a] = "idle"
    BY <1>1, <2>1
  <2>3. ASSUME NEW w \in Vnodes PROVE Listed(down[a], w) = 0
    <3>1. Listed(down[a], w) = Count(down[a], {w})
      BY <1>1, Counts
    <3>2. Count(<<>>, {w}) = 0
      BY CountEmpty
    <3> QED
      BY <2>1, <3>1, <3>2
  <2>4. \A w \in Vnodes : ToFinish(a, w)' = 0 /\ ToFinish(a, w) = 0
    BY <2>1, <2>2, <2>3 DEF ToFinish
  <2> QED
    BY <1>1, <1>7, <1>8, <2>1, <2>4
<1>11. CASE SyncDownSrc(a)
  <2>1. /\ UNCHANGED <<up, syncing_list>> /\ pc[a] = "src" /\ down[a] # <<>> /\ event[a].vnode = v
        /\ event' = [event EXCEPT ![a] = NoEvent]
        /\ down' = [down EXCEPT ![a] = Tail(@)]
        /\ pc' = [pc EXCEPT ![a] = "down"]
    BY <1>1, <1>11 DEF SyncDownSrc, listVars, HandsOK, EventOK
  <2>2. pc'[a] = "down" /\ down'[a] = Tail(down[a])
    BY <1>1, <2>1
  <2>3. ASSUME NEW w \in Vnodes PROVE ToFinish(a, w)' = ToFinish(a, w)
    <3>1. Listed(Tail(down[a]), w) = Listed(down[a], w) - (IF v = w THEN 1 ELSE 0)
      <4>1. Tail(down[a]) \in Seq(Vnodes)
        BY <1>1, <2>1, HeadTailProperties
      <4>2. Count(Tail(down[a]), {w}) = Count(down[a], {w}) - (IF v = w THEN 1 ELSE 0)
        BY <1>1, <2>1, CountTail
      <4> QED
        BY <1>1, <4>1, <4>2, Counts
    <3>2. ToFinish(a, w)' = Listed(Tail(down[a]), w)
      <4>1. ToFinish(a, w)' = Listed(down'[a], w) - 0
        BY <2>2 DEF ToFinish, Listed
      <4> QED
        BY <1>1, <2>2, <3>1, <4>1
    <3> HIDE DEF v
    <3> QED
      BY <2>1, <3>1, <3>2 DEF ToFinish
  <2> QED
    BY <1>1, <1>7, <1>8, <2>1, <2>3
<1> QED
  BY <1>6, <1>9, <1>10, <1>11 DEF SyncDown

\* What every step keeps true of the syncs a node owes, whether the master lives or not ...
OwedInv == EventInv /\ MineListed /\ OwedKnown
\* ... and of the ends of the syncs, while no join fails.
KnownInv == OwedInv /\ (alloc_fails = 0 => EventEnds)

LEMMA KnownInvInit == Init => KnownInv
<1> SUFFICES ASSUME Init PROVE KnownInv
  OBVIOUS
<1>1. EventInv
  BY EventInvInit
<1>2. /\ \A d \in Devices : sync_list[d] = <<>> /\ syncing_list[d] = <<>>
      /\ \A a \in Addrs : /\ mine[a] = {} /\ event[a] = NoEvent /\ pc[a] = "idle"
                          /\ resp[a] = <<>> /\ ~Known(a)
                          /\ \A v \in Vnodes : owed[a][v] = 0
  BY DEF Init, MasterInit, Known
<1>3. Range(<<>>) = {}
  <2>1. <<>> \in Seq(Devices) /\ Holders(<<>>) = {}
    BY EmptySeq DEF Holders
  <2> QED
    BY <2>1, RangeIsHolders
<1>4. MineListed /\ EventEnds
  BY <1>2, <1>3 DEF MineListed, EventEnds, WaitingEnds, SyncingEnds, HandEnds
<1>5. ASSUME NEW a \in Addrs, NEW v \in Vnodes
      PROVE  owed[a][v] + Told(a, v) + ToFinish(a, v) <= HandedOut(a, v)
  <2>1. Told(a, v) = Count(<<>>, SourceUnits(v))
    <3>1. resp[a] = <<>> /\ <<>> \in Seq(RespUnits)
      BY <1>2, EmptySeq
    <3> QED
      BY <3>1, Counts DEF Told
  <2>2. Count(<<>>, SourceUnits(v)) = 0
    BY CountEmpty
  <2>3. owed[a][v] = 0 /\ ToFinish(a, v) = 0 /\ HandedOut(a, v) = 0
    BY <1>2 DEF ToFinish, HandedOut
  <2> QED
    BY <2>1, <2>2, <2>3
<1> QED
  BY <1>1, <1>4, <1>5 DEF KnownInv, OwedInv, OwedKnown, Covered

LEMMA OwedInvStep == OwedInv /\ [Next]_vars => OwedInv'
<1> SUFFICES ASSUME OwedInv, [Next]_vars PROVE OwedInv'
  OBVIOUS
<1>1. EventInv /\ ReplicaInv /\ TypeInv /\ HandsOK /\ MineListed /\ OwedKnown /\ [Next]_vars
  BY DEF OwedInv, EventInv, ReplicaInv
<1>2. EventInv' /\ TypeInv'
  BY <1>1, EventInvStep DEF EventInv, ReplicaInv
<1>3. MineListed'
  BY <1>1, MineListedStep
<1>4. ASSUME UNCHANGED <<owed, resp, down, pc, event, syncing_list>> PROVE OwedKnown'
  BY <1>1, <1>2, <1>4, CoveredStays DEF OwedKnown
<1>5. ASSUME Join \/ Read \/ UNCHANGED vars PROVE OwedKnown'
  <2>1. UNCHANGED <<owed, resp, down, pc, event, syncing_list>>
    BY <1>5 DEF Join, JoinStart, JoinMoveDies, JoinMoveNothing, JoinVnode, JoinPush, JoinDone,
                JoinFails, Read, ClientRead, vars, masterVars, listVars, handlerVars
  <2> QED
    BY <1>4, <2>1
<1>6. ASSUME NEW a \in Addrs,
             Merge(a) \/ Reply(a) \/ (\E vs \in Batches : Finish(a, vs)) \/ SyncDown(a)
      PROVE  OwedKnown'
  BY <1>1, <1>2, <1>6, CoveredMergeStep, CoveredTalkStep, CoveredSyncDownStep
<1>7. OwedKnown'
  BY <1>1, <1>5, <1>6 DEF Next
<1> QED
  BY <1>2, <1>3, <1>7 DEF OwedInv

LEMMA KnownInvStep == KnownInv /\ [Next]_vars => KnownInv'
<1> SUFFICES ASSUME KnownInv, [Next]_vars PROVE KnownInv'
  OBVIOUS
<1>1. OwedInv'
  BY OwedInvStep DEF KnownInv
<1>2. ASSUME alloc_fails' = 0 PROVE EventEnds'
  <2>1. /\ ReplicaInv /\ TypeInv /\ NoMoves /\ HandsOK /\ MineListed
    BY DEF KnownInv, OwedInv, EventInv, ReplicaInv
  <2>2. EventEnds
    BY <1>2, <2>1, FailuresCounted DEF KnownInv
  <2> QED
    BY <1>2, <2>1, <2>2, EventEndsStep
<1> QED
  BY <1>1, <1>2 DEF KnownInv

LEMMA OwedInvHolds == Spec => []OwedInv
<1>1. Init => OwedInv
  BY KnownInvInit DEF KnownInv
<1> QED
  BY <1>1, OwedInvStep, PTL DEF Spec

LEMMA KnownInvHolds == Spec => []KnownInv
BY KnownInvInit, KnownInvStep, PTL DEF Spec

\* What the master has met when it dies: a join that failed, or a container with room
\* for a device and as many devices as replicas.
MayDie == alloc_fails # 0 \/ node_count \in ReplicaCount..(MaxDevices - 1)

LEMMA UpStays ==
    ASSUME ~MayDie, KnownInv, up, OwedInv', [Next]_vars
    PROVE  up'
<1>1. /\ ReplicaInv /\ TypeInv' /\ HandsOK /\ EventEnds /\ OwedKnown
      /\ node_count \in Nat /\ alloc_fails = 0 /\ [Next]_vars
  BY CountsAssumption
  DEF MayDie, KnownInv, OwedInv, EventInv, ReplicaInv, TypeInv, TypeOK, DeviceTypes
<1>2. CASE Join
  <2>1. ~\E a \in Addrs : JoinMoveDies(a)
    BY <1>1, CountsAssumption DEF MayDie, JoinMoveDies
  <2> QED
    BY <1>2, <2>1
    DEF Join, JoinStart, JoinMoveNothing, JoinVnode, JoinPush, JoinDone, JoinFails
<1>3. ASSUME NEW a \in Addrs, Merge(a) \/ Reply(a) \/ \E vs \in Batches : Finish(a, vs)
      PROVE  up'
  BY <1>3 DEF Merge, ReportStart, ReportSync, ReportRelock, ReportStranger, ReportSyncing,
              ReportStale, ReportCurrent, ReportPush, ReportMissing, Reply, Finish, ReportReply,
              SyncDownStart
<1>4. ASSUME NEW a \in Addrs, SyncDown(a) PROVE up'
  BY <1>1, <1>4, CoveredSyncDownStep
<1>5. CASE Read \/ UNCHANGED vars
  BY <1>5 DEF Read, ClientRead, vars, masterVars
<1> QED
  BY <1>2, <1>3, <1>4, <1>5 DEF Next

\* No step after which the master is dead changes a count: the one on which it dies, and none follows.
LEMMA DeadStays ==
    ASSUME TypeInv, NoMoves, [Next]_vars, ~up'
    PROVE  UNCHANGED <<alloc_fails, node_count>>
<1>1. CASE Join
  <2>1. \E a \in Addrs : JoinMoveDies(a)
    <3>1. ASSUME NEW a \in Addrs, JoinStart(a) \/ JoinMoveNothing(a) PROVE up'
      BY <3>1 DEF JoinStart, JoinMoveNothing
    <3>2. ASSUME JoinVnode \/ JoinPush \/ JoinDone \/ JoinFails PROVE up'
      BY <3>2 DEF JoinVnode, JoinPush, JoinDone, JoinFails
    <3> QED
      BY <1>1, <3>1, <3>2 DEF Join
  <2> QED
    BY <2>1 DEF JoinMoveDies, deviceVars, joinVars
<1>2. CASE ~Join
  BY <1>2, OnlyJoins DEF deviceVars, joinVars
<1> QED
  BY <1>1, <1>2

\* The master meets no sync-down it has no event for (the assertion of get_replica_info),
\* and no event without its two replicas: when it dies, a join has run out of memory or
\* the device that joins would be given vnodes of the others (master_do_move_vnode).
THEOREM MasterDiesOfJoins == Spec => [](~up => MayDie)
<1>1. Init => up
  BY DEF Init, MasterInit
<1>2. KnownInv /\ (~up => MayDie) /\ [Next]_vars => (~up => MayDie)'
  <2> SUFFICES ASSUME KnownInv, ~up => MayDie, [Next]_vars, ~up' PROVE MayDie'
    OBVIOUS
  <2>1. TypeInv /\ NoMoves /\ OwedInv'
    BY OwedInvStep DEF KnownInv, OwedInv, EventInv, ReplicaInv
  <2>2. UNCHANGED <<alloc_fails, node_count>>
    BY <2>1, DeadStays
  <2>3. MayDie
    BY <2>1, UpStays
  <2> QED
    BY <2>2, <2>3 DEF MayDie
<1> QED
  BY <1>1, <1>2, KnownInvHolds, PTL DEF Spec

\* So it stays up where no join runs out of memory and it has to move no vnode.
THEOREM MasterKeepsUp == ASSUME MaxAllocFails = 0, MaxDevices <= ReplicaCount
                         PROVE  Spec => []MasterStaysUp
<1>1. KnownInv /\ (~up => MayDie) => MasterStaysUp
  <2>1. ReplicaInv => alloc_fails = 0 /\ ReplicaCount..(MaxDevices - 1) = {}
    BY CountsAssumption DEF ReplicaInv, TypeInv, TypeOK, JoinTypes
  <2> QED
    BY <2>1 DEF KnownInv, OwedInv, EventInv, MayDie, MasterStaysUp
<1> QED
  BY <1>1, KnownInvHolds, MasterDiesOfJoins, PTL
=============================================================================
