--------------------------- MODULE KunlunSyncProofs ---------------------------
(***************************************************************************)
(* The master among its storage nodes, for any nodes, vnodes and bounds: the *)
(* whole system implements the master of MasterSpec, and what the nodes have *)
(* in hand agrees with what the master knows.                               *)
(***************************************************************************)
EXTENDS KunlunSync, MasterProofs

-----------------------------------------------------------------------------
(* Types of the storage nodes                                                *)

\* A storage node and the master number the statuses alike.
LEMMA NodeStatuses ==
    /\ Node!OFFLINE = OFFLINE /\ Node!ACTIVE = ACTIVE /\ Node!WAIT_SYNC = WAIT_SYNC
    /\ \A s : Node!IsSource(s) <=> IsSource(s)
    /\ {ACTIVE, WAIT_SYNC, OFFLINE} \subseteq Statuses
BY DEF Node!OFFLINE, OFFLINE, Node!ACTIVE, ACTIVE, Node!WAIT_SYNC, WAIT_SYNC, Node!IsSource, IsSource,
       Node!COPY_SRC, COPY_SRC, Node!MOVE_SRC, MOVE_SRC, Statuses, INIT

Entry == [status : Statuses, version : Version]

LEMMA ContainersDef == \A c : c \in Containers <=> \E V \in SUBSET Vnodes : c \in [V -> Entry]
BY DEF Containers, Entry

\* A merged unit adds, changes or deletes one vnode of a container.
LEMMA MergedType ==
    ASSUME NEW c \in Containers, NEW v \in Vnodes, NEW s \in Statuses
    PROVE  /\ Node!Merged(c, v, s) \in Containers
           /\ DOMAIN Node!Merged(c, v, s)
                 = IF s = OFFLINE THEN DOMAIN c \ {v} ELSE DOMAIN c \cup {v}
<1>1. PICK V \in SUBSET Vnodes : c \in [V -> Entry]
  BY ContainersDef
<1>2. DOMAIN c = V /\ 0 \in Version
  BY <1>1, BoundsAssumption DEF Version
<1>3. CASE s = OFFLINE
  <2>1. Node!Merged(c, v, s) = [w \in V \ {v} |-> c[w]]
    BY <1>2, <1>3, NodeStatuses DEF Node!Merged, Node!Restrict
  <2>2. [w \in V \ {v} |-> c[w]] \in [V \ {v} -> Entry] /\ V \ {v} \in SUBSET Vnodes
    BY <1>1
  <2> QED
    BY <1>2, <1>3, <2>1, <2>2, ContainersDef
<1>4. CASE s # OFFLINE
  <2> DEFINE m == [w \in V \cup {v} |->
                     IF w # v THEN c[w]
                     ELSE [status |-> s, version |-> IF v \in V THEN c[v].version ELSE 0]]
  <2>1. Node!Merged(c, v, s) = m
    BY <1>2, <1>4, NodeStatuses DEF Node!Merged
  <2>2. ASSUME NEW w \in V \cup {v} PROVE m[w] \in Entry
    <3>1. [status |-> s, version |-> IF v \in V THEN c[v].version ELSE 0] \in Entry
      <4>1. (IF v \in V THEN c[v].version ELSE 0) \in Version
        BY <1>1, <1>2 DEF Entry
      <4> QED
        BY <4>1 DEF Entry
    <3> QED
      BY <1>1, <3>1
  <2>3. m \in [V \cup {v} -> Entry] /\ V \cup {v} \in SUBSET Vnodes
    BY <2>2
  <2> HIDE DEF m
  <2>4. m \in Containers /\ DOMAIN m = V \cup {v}
    BY <2>3, ContainersDef
  <2> QED
    BY <1>2, <1>4, <2>1, <2>4
<1> QED
  BY <1>3, <1>4

\* A file check adds or changes one vnode of the destination's container.
LEMMA CheckedType ==
    ASSUME NEW c \in Containers, NEW v \in Vnodes, NEW ver \in Version
    PROVE  /\ Node!Checked(c, v, ver) \in Containers
           /\ DOMAIN Node!Checked(c, v, ver) = DOMAIN c \cup {v}
<1>1. PICK V \in SUBSET Vnodes : c \in [V -> Entry]
  BY ContainersDef
<1>2. DOMAIN c = V
  BY <1>1
<1> DEFINE m == [w \in V \cup {v} |->
                   IF w # v THEN c[w]
                   ELSE [status |-> WAIT_SYNC,
                         version |-> IF v \in V /\ ver = WAIT_SYNC THEN c[v].version ELSE ver]]
<1>3. Node!Checked(c, v, ver) = m
  BY <1>2, NodeStatuses DEF Node!Checked
<1>4. ASSUME NEW w \in V \cup {v} PROVE m[w] \in Entry
  <2>1. (IF v \in V /\ ver = WAIT_SYNC THEN c[v].version ELSE ver) \in Version
    BY <1>1 DEF Entry
  <2>2. [status |-> WAIT_SYNC,
         version |-> IF v \in V /\ ver = WAIT_SYNC THEN c[v].version ELSE ver] \in Entry
    BY <2>1, NodeStatuses DEF Entry
  <2> QED
    BY <1>1, <2>2
<1>5. m \in [V \cup {v} -> Entry] /\ V \cup {v} \in SUBSET Vnodes
  BY <1>4
<1> HIDE DEF m
<1>6. m \in Containers /\ DOMAIN m = V \cup {v}
  BY <1>5, ContainersDef
<1> QED
  BY <1>2, <1>3, <1>6

\* What a beat reports of a container is what MasterSpec lets a node report.
LEMMA ReportType ==
    ASSUME NEW c \in Containers
    PROVE  \E r \in Reports : Node!Report(c) = Units(r)
<1>1. PICK V \in SUBSET Vnodes : c \in [V -> Entry]
  BY ContainersDef
<1> DEFINE r == [v \in V |-> c[v].version]
<1>2. r \in [V -> 0..MaxVersion]
  BY <1>1 DEF Entry, Version
<1>3. r \in Reports
  BY <1>2 DEF Reports
<1>4. Node!Report(c) = Units(r)
  BY <1>1 DEF Node!Report, Units
<1> QED
  BY <1>3, <1>4

LEMMA MessageStep ==
    ASSUME MessageTypes, NEW a \in Addrs, NEW m, msg' = [msg EXCEPT ![a] = m],
           m.kind \in {"none", "join", "beat", "down"},
           m.kind = "beat" => \E r \in Reports : m.units = Units(r),
           m.kind = "down" => m.vnodes \in Seq(Vnodes) /\ m.vnodes # <<>>
    PROVE  MessageTypes'
<1>1. DOMAIN msg' = Addrs /\ msg'[a] = m /\ \A b \in Addrs : b # a => msg'[b] = msg[b]
  BY DEF MessageTypes
<1> SUFFICES ASSUME NEW b \in Addrs
             PROVE  /\ msg'[b].kind \in {"none", "join", "beat", "down"}
                    /\ msg'[b].kind = "beat" => \E r \in Reports : msg'[b].units = Units(r)
                    /\ msg'[b].kind = "down" => msg'[b].vnodes \in Seq(Vnodes) /\ msg'[b].vnodes # <<>>
  BY <1>1 DEF MessageTypes, Reports, Units
<1> QED
  BY <1>1 DEF MessageTypes

LEMMA SyncerStep ==
    ASSUME SyncerTypes, NEW a \in Addrs, NEW s, syncer' = [syncer EXCEPT ![a] = s],
           s.pc \in {"idle", "check", "push", "dead"},
           s.pc \in {"check", "push"} => s.vnode \in Vnodes,
           s.pc = "check" => s.dest \in Addrs /\ s.version \in Version
    PROVE  SyncerTypes'
<1>1. DOMAIN syncer' = Addrs /\ syncer'[a] = s /\ \A b \in Addrs : b # a => syncer'[b] = syncer[b]
  BY DEF SyncerTypes
<1> SUFFICES ASSUME NEW b \in Addrs
             PROVE  /\ syncer'[b].pc \in {"idle", "check", "push", "dead"}
                    /\ syncer'[b].pc \in {"check", "push"} => syncer'[b].vnode \in Vnodes
                    /\ syncer'[b].pc = "check" => syncer'[b].dest \in Addrs /\ syncer'[b].version \in Version
  BY <1>1 DEF SyncerTypes
<1> QED
  BY <1>1 DEF SyncerTypes

\* What a step leaves alone keeps its type.
LEMMA NodesStay ==
    /\ MessageTypes /\ UNCHANGED msg => MessageTypes'
    /\ SyncerTypes /\ UNCHANGED syncer => SyncerTypes'
BY DEF MessageTypes, SyncerTypes

LEMMA BeatTypes ==
    ASSUME NodesTypeOK, NEW a \in Addrs,
           \/ Node!NodeStart(a) \/ Node!NodeBeat(a) \/ Node!MergeUnit(a) \/ Node!MergeDone(a)
           \/ Node!BeatTimeout(a) \/ Node!Taken(a) \/ Node!NodeJoined(a, TRUE)
           \/ Node!NodeJoined(a, FALSE) \/ Node!NodeDownAnswered(a),
           faults' \in 0..MaxFaults
    PROVE  NodesTypeOK'
<1> DEFINE Beat == {"off", "join", "rest", "wait", "merge", "down", "dead"}
<1>1. /\ beat \in [Addrs -> Beat] /\ units \in [Addrs -> Seq(RespUnits)]
      /\ container \in [Addrs -> Containers] /\ sync_queue \in [Addrs -> Seq(QueuedSyncs)]
      /\ sync_down \in [Addrs -> Seq(Vnodes)] /\ uploads \in [Addrs -> SUBSET Vnodes]
      /\ MessageTypes /\ SyncerTypes
  BY DEF NodesTypeOK
<1>2. ASSUME beat' \in [Addrs -> Beat], MessageTypes', UNCHANGED <<units, syncer, sync_queue, container, uploads>>,
             sync_down' \in [Addrs -> Seq(Vnodes)]
      PROVE  NodesTypeOK'
  <2>1. SyncerTypes'
    BY <1>1, <1>2, NodesStay
  <2> QED
    BY <1>1, <1>2, <2>1 DEF NodesTypeOK
<1>3. CASE Node!NodeStart(a)
  <2>1. /\ beat' = [beat EXCEPT ![a] = "join"] /\ msg' = [msg EXCEPT ![a] = [kind |-> "join"]]
        /\ UNCHANGED <<units, syncer, sync_queue, container, uploads, sync_down>>
    BY <1>3 DEF Node!NodeStart, Node!syncVars
  <2>2. MessageTypes'
    BY <1>1, <2>1, MessageStep
  <2> QED
    BY <1>1, <1>2, <2>1, <2>2
<1>4. CASE Node!NodeBeat(a)
  <2>1. /\ beat' = [beat EXCEPT ![a] = "wait"]
        /\ msg' = [msg EXCEPT ![a] = [kind |-> "beat", units |-> Node!Report(container[a])]]
        /\ UNCHANGED <<units, syncer, sync_queue, container, uploads, sync_down>>
    BY <1>4 DEF Node!NodeBeat, Node!syncVars
  <2>2. \E r \in Reports : Node!Report(container[a]) = Units(r)
    BY <1>1, ReportType
  <2>3. MessageTypes'
    BY <1>1, <2>1, <2>2, MessageStep
  <2> QED
    BY <1>1, <1>2, <2>1, <2>3
<1>5. CASE Node!MergeUnit(a)
  <2> DEFINE u == Head(units[a])
  <2>1. u \in RespUnits /\ Tail(units[a]) \in Seq(RespUnits)
    BY <1>1, <1>5, HeadTailProperties DEF Node!MergeUnit
  <2>2. u.vnode \in Vnodes /\ u.status \in Statuses /\ u.dest \in Addrs \cup {NoAddr}
    BY <2>1 DEF RespUnits
  <2> HIDE DEF u
  <2>3. /\ container' = [container EXCEPT ![a] = Node!Merged(@, u.vnode, u.status)]
        /\ sync_queue' = [sync_queue EXCEPT
               ![a] = IF Node!IsSource(u.status)
                      THEN Append(@, [vnode |-> u.vnode, dest |-> u.dest]) ELSE @]
        /\ units' = [units EXCEPT ![a] = Tail(@)]
        /\ UNCHANGED <<beat, msg, syncer, sync_down, uploads>>
    BY <1>5 DEF Node!MergeUnit, u
  <2>4. container' \in [Addrs -> Containers] /\ units' \in [Addrs -> Seq(RespUnits)]
    BY <1>1, <2>1, <2>2, <2>3, MergedType
  <2>5. sync_queue' \in [Addrs -> Seq(QueuedSyncs)]
    <3> DEFINE q == [vnode |-> u.vnode, dest |-> u.dest]
    <3>1. q \in QueuedSyncs
      BY <2>2 DEF QueuedSyncs
    <3> HIDE DEF q
    <3>2. Append(sync_queue[a], q) \in Seq(QueuedSyncs)
      BY <1>1, <3>1, AppendProperties
    <3>3. \/ sync_queue' = [sync_queue EXCEPT ![a] = Append(@, q)]
          \/ sync_queue' = sync_queue
      BY <1>1, <2>3 DEF q
    <3> QED
      BY <1>1, <3>2, <3>3
  <2>6. MessageTypes' /\ SyncerTypes'
    BY <1>1, <2>3, NodesStay
  <2> QED
    BY <1>1, <2>3, <2>4, <2>5, <2>6 DEF NodesTypeOK
<1>6. CASE Node!MergeDone(a)
  <2>1. UNCHANGED <<units, syncer, sync_queue, container, uploads>>
    BY <1>6 DEF Node!MergeDone
  <2>2. CASE sync_down[a] = <<>>
    <3>1. beat' = [beat EXCEPT ![a] = "rest"] /\ UNCHANGED <<msg, sync_down>>
      BY <1>6, <2>2 DEF Node!MergeDone
    <3>2. MessageTypes'
      BY <1>1, <3>1, NodesStay
    <3> QED
      BY <1>1, <1>2, <2>1, <3>1, <3>2
  <2>3. CASE sync_down[a] # <<>>
    <3>1. /\ beat' = [beat EXCEPT ![a] = "down"]
          /\ msg' = [msg EXCEPT ![a] = [kind |-> "down", vnodes |-> sync_down[a]]]
          /\ sync_down' = [sync_down EXCEPT ![a] = <<>>]
      BY <1>6, <2>3 DEF Node!MergeDone
    <3>2. MessageTypes'
      BY <1>1, <2>3, <3>1, MessageStep
    <3>3. sync_down' \in [Addrs -> Seq(Vnodes)]
      BY <1>1, <3>1, EmptySeq
    <3> QED
      BY <1>1, <1>2, <2>1, <3>1, <3>2, <3>3
  <2> QED
    BY <2>2, <2>3
<1>7. CASE Node!Taken(a)
  <2>1. /\ msg' = [msg EXCEPT ![a] = [kind |-> "none"]]
        /\ UNCHANGED <<beat, units, syncer, sync_queue, container, uploads, sync_down>>
    BY <1>7 DEF Node!Taken, Node!syncVars, Node!NoMsg
  <2>2. MessageTypes'
    BY <1>1, <2>1, MessageStep
  <2> QED
    BY <1>1, <1>2, <2>1, <2>2
<1>8. CASE \/ Node!BeatTimeout(a) \/ Node!NodeJoined(a, TRUE) \/ Node!NodeJoined(a, FALSE)
           \/ Node!NodeDownAnswered(a)
  <2>1. /\ UNCHANGED <<msg, units, syncer, sync_queue, container, uploads, sync_down>>
        /\ beat' \in [Addrs -> Beat]
    BY <1>1, <1>8 DEF Node!BeatTimeout, Node!NodeJoined, Node!NodeDownAnswered, Node!syncVars
  <2>2. MessageTypes'
    BY <1>1, <2>1, NodesStay
  <2> QED
    BY <1>1, <1>2, <2>1, <2>2
<1> QED
  BY <1>3, <1>4, <1>5, <1>6, <1>7, <1>8

LEMMA SyncTypes ==
    ASSUME NodesTypeOK, NEW a \in Addrs,
           \/ Node!SyncSend(a) \/ Node!SyncUnreachable(a) \/ Node!FileCheck(a)
           \/ Node!SyncPush(a) \/ Node!SyncTimeout(a),
           faults' \in 0..MaxFaults
    PROVE  NodesTypeOK'
<1>1. /\ beat \in [Addrs -> {"off", "join", "rest", "wait", "merge", "down", "dead"}]
      /\ units \in [Addrs -> Seq(RespUnits)]
      /\ container \in [Addrs -> Containers] /\ sync_queue \in [Addrs -> Seq(QueuedSyncs)]
      /\ sync_down \in [Addrs -> Seq(Vnodes)] /\ uploads \in [Addrs -> SUBSET Vnodes]
      /\ MessageTypes /\ SyncerTypes
  BY DEF NodesTypeOK
<1>2. UNCHANGED <<beat, msg, units, uploads>>
  BY DEF Node!SyncSend, Node!SyncUnreachable, Node!FileCheck, Node!SyncPush, Node!SyncTimeout,
         Node!beatVars
<1>3. MessageTypes'
  BY <1>1, <1>2, NodesStay
<1>4. ASSUME SyncerTypes', container' \in [Addrs -> Containers],
             sync_queue' \in [Addrs -> Seq(QueuedSyncs)], sync_down' \in [Addrs -> Seq(Vnodes)]
      PROVE  NodesTypeOK'
  BY <1>1, <1>2, <1>3, <1>4 DEF NodesTypeOK
<1>5. CASE Node!SyncSend(a)
  <2> DEFINE e == Head(sync_queue[a])
             s == [pc |-> "check", vnode |-> e.vnode, dest |-> e.dest,
                   version |-> container[a][e.vnode].version]
  <2>1. /\ sync_queue[a] # <<>> /\ e.dest \in Addrs /\ e.vnode \in DOMAIN container[a]
        /\ sync_queue' = [sync_queue EXCEPT ![a] = Tail(@)]
        /\ syncer' = [syncer EXCEPT ![a] = s]
        /\ UNCHANGED <<sync_down, container>>
    BY <1>5 DEF Node!SyncSend
  <2>2. Tail(sync_queue[a]) \in Seq(QueuedSyncs) /\ e \in QueuedSyncs
    BY <1>1, <2>1, HeadTailProperties
  <2>3. sync_queue' \in [Addrs -> Seq(QueuedSyncs)]
    BY <1>1, <2>1, <2>2
  <2>4. container[a][e.vnode].version \in Version
    <3>1. PICK V \in SUBSET Vnodes : container[a] \in [V -> Entry]
      BY <1>1, ContainersDef
    <3>2. container[a][e.vnode] \in Entry
      BY <2>1, <3>1
    <3> QED
      BY <3>2 DEF Entry
  <2>5. /\ s.pc = "check" /\ s.vnode = e.vnode /\ s.dest = e.dest
        /\ s.version = container[a][e.vnode].version /\ e.vnode \in Vnodes
    BY <2>2 DEF QueuedSyncs
  <2> HIDE DEF s, e
  <2>6. SyncerTypes'
    BY <1>1, <2>1, <2>4, <2>5, SyncerStep
  <2> QED
    BY <1>1, <1>4, <2>1, <2>3, <2>6
<1>6. CASE Node!SyncUnreachable(a)
  <2>1. /\ sync_queue[a] # <<>> /\ sync_queue' = [sync_queue EXCEPT ![a] = Tail(@)]
        /\ syncer' = [syncer EXCEPT ![a] = [pc |-> "dead"]]
        /\ UNCHANGED <<sync_down, container>>
    BY <1>6 DEF Node!SyncUnreachable
  <2>2. sync_queue' \in [Addrs -> Seq(QueuedSyncs)]
    BY <1>1, <2>1, HeadTailProperties
  <2>3. SyncerTypes'
    BY <1>1, <2>1, SyncerStep
  <2> QED
    BY <1>1, <1>4, <2>1, <2>2, <2>3
<1>7. CASE Node!FileCheck(a)
  <2> DEFINE v == syncer[a].vnode
             d == syncer[a].dest
             n == syncer[a].version
  <2>1. /\ syncer[a].pc = "check"
        /\ container' = [container EXCEPT ![d] = Node!Checked(@, v, n)]
        /\ syncer' = [syncer EXCEPT ![a] = [pc |-> "push", vnode |-> v]]
        /\ UNCHANGED <<sync_queue, sync_down>>
    BY <1>7 DEF Node!FileCheck
  <2>2. v \in Vnodes /\ d \in Addrs /\ n \in Version
    BY <1>1, <2>1 DEF SyncerTypes
  <2> HIDE DEF v, d, n
  <2>3. container' \in [Addrs -> Containers]
    BY <1>1, <2>1, <2>2, CheckedType
  <2>4. SyncerTypes'
    BY <1>1, <2>1, <2>2, SyncerStep
  <2> QED
    BY <1>1, <1>4, <2>1, <2>3, <2>4
<1>8. CASE Node!SyncPush(a)
  <2>1. /\ syncer[a].pc = "push" /\ sync_down' = [sync_down EXCEPT ![a] = Append(@, syncer[a].vnode)]
        /\ syncer' = [syncer EXCEPT ![a] = [pc |-> "idle"]]
        /\ UNCHANGED <<sync_queue, container>>
    BY <1>8 DEF Node!SyncPush, Node!NoSync
  <2>2. syncer[a].vnode \in Vnodes
    BY <1>1, <2>1 DEF SyncerTypes
  <2>3. sync_down' \in [Addrs -> Seq(Vnodes)]
    BY <1>1, <2>1, <2>2, AppendProperties
  <2>4. SyncerTypes'
    BY <1>1, <2>1, SyncerStep
  <2> QED
    BY <1>1, <1>4, <2>1, <2>3, <2>4
<1>9. CASE Node!SyncTimeout(a)
  <2>1. /\ syncer' = [syncer EXCEPT ![a] = [pc |-> "dead"]]
        /\ UNCHANGED <<sync_queue, container, sync_down>>
    BY <1>9 DEF Node!SyncTimeout
  <2>2. SyncerTypes'
    BY <1>1, <2>1, SyncerStep
  <2> QED
    BY <1>1, <1>4, <2>1, <2>2
<1> QED
  BY <1>5, <1>6, <1>7, <1>8, <1>9

LEMMA OtherTypes ==
    ASSUME NodesTypeOK, NEW a \in Addrs,
           \/ \E v \in Vnodes : Node!UploadStart(a, v) \/ Node!UploadEnd(a, v) \/ Node!UploadFails(a, v)
           \/ Node!NodeCrash(a)
           \/ \E r \in Seq(RespUnits) : Node!NodeResponse(a, r),
           faults' \in 0..MaxFaults
    PROVE  NodesTypeOK'
<1> DEFINE Beat == {"off", "join", "rest", "wait", "merge", "down", "dead"}
<1>1. /\ beat \in [Addrs -> Beat] /\ units \in [Addrs -> Seq(RespUnits)]
      /\ container \in [Addrs -> Containers] /\ sync_queue \in [Addrs -> Seq(QueuedSyncs)]
      /\ sync_down \in [Addrs -> Seq(Vnodes)] /\ uploads \in [Addrs -> SUBSET Vnodes]
      /\ MessageTypes /\ SyncerTypes
  BY DEF NodesTypeOK
<1>2. ASSUME UNCHANGED <<beat, msg, units, sync_queue, syncer, sync_down>>,
             container' \in [Addrs -> Containers], uploads' \in [Addrs -> SUBSET Vnodes]
      PROVE  NodesTypeOK'
  <2>1. MessageTypes' /\ SyncerTypes'
    BY <1>1, <1>2, NodesStay
  <2> QED
    BY <1>1, <1>2, <2>1 DEF NodesTypeOK
<1>3. ASSUME NEW v \in Vnodes, Node!UploadStart(a, v) \/ Node!UploadFails(a, v) PROVE NodesTypeOK'
  <2>1. UNCHANGED <<beat, msg, units, sync_queue, syncer, sync_down, container>>
    BY <1>3 DEF Node!UploadStart, Node!UploadFails, Node!beatVars, Node!syncVars
  <2>2. uploads' \in [Addrs -> SUBSET Vnodes]
    <3>1. \/ uploads' = [uploads EXCEPT ![a] = @ \cup {v}]
          \/ uploads' = [uploads EXCEPT ![a] = @ \ {v}]
      BY <1>3 DEF Node!UploadStart, Node!UploadFails
    <3>2. uploads[a] \cup {v} \in SUBSET Vnodes /\ uploads[a] \ {v} \in SUBSET Vnodes
      BY <1>1
    <3>3. CASE uploads' = [uploads EXCEPT ![a] = @ \cup {v}]
      BY <1>1, <3>2, <3>3
    <3>4. CASE uploads' = [uploads EXCEPT ![a] = @ \ {v}]
      BY <1>1, <3>2, <3>4
    <3> QED
      BY <3>1, <3>3, <3>4
  <2> QED
    BY <1>1, <1>2, <2>1, <2>2
<1>4. ASSUME NEW v \in Vnodes, Node!UploadEnd(a, v) PROVE NodesTypeOK'
  <2>1. /\ v \in DOMAIN container[a] /\ container[a][v].version < MaxVersion
        /\ container' = [container EXCEPT ![a][v].version = @ + 1]
        /\ uploads' = [uploads EXCEPT ![a] = @ \ {v}]
        /\ UNCHANGED <<beat, msg, units, sync_queue, syncer, sync_down>>
    BY <1>4 DEF Node!UploadEnd, Node!beatVars, Node!syncVars
  <2>2. PICK V \in SUBSET Vnodes : container[a] \in [V -> Entry]
    BY <1>1, ContainersDef
  <2>3. PICK s \in Statuses, n \in Version : container[a][v] = [status |-> s, version |-> n]
    <3>1. container[a][v] \in Entry
      BY <2>1, <2>2
    <3> QED
      BY <3>1 DEF Entry
  <2>4. n + 1 \in Version /\ MaxVersion \in Nat
    BY <2>1, <2>3, BoundsAssumption DEF Version
  <2>5. container' = [container EXCEPT ![a] = [container[a] EXCEPT ![v] =
                         [container[a][v] EXCEPT !.version = n + 1]]]
    BY <1>1, <2>1, <2>3
  <2>6. [container[a][v] EXCEPT !.version = n + 1] \in Entry
    <3>1. [container[a][v] EXCEPT !.version = n + 1] = [status |-> s, version |-> n + 1]
      BY <2>3
    <3> QED
      BY <2>3, <2>4, <3>1 DEF Entry
  <2>7. [container[a] EXCEPT ![v] = [container[a][v] EXCEPT !.version = n + 1]] \in [V -> Entry]
    BY <2>2, <2>6
  <2>8. [container[a] EXCEPT ![v] = [container[a][v] EXCEPT !.version = n + 1]] \in Containers
    BY <2>7, ContainersDef
  <2>9. container' \in [Addrs -> Containers] /\ uploads' \in [Addrs -> SUBSET Vnodes]
    BY <1>1, <2>1, <2>5, <2>8
  <2> QED
    BY <1>2, <2>1, <2>9
<1>5. CASE Node!NodeCrash(a)
  <2>1. PICK m \in {msg[a], Node!NoMsg} : msg' = [msg EXCEPT ![a] = m]
    BY <1>5 DEF Node!NodeCrash
  <2>2. /\ beat' = [beat EXCEPT ![a] = "off"]
        /\ units' = [units EXCEPT ![a] = <<>>]
        /\ container' = [container EXCEPT ![a] = Node!NoVnode]
        /\ sync_queue' = [sync_queue EXCEPT ![a] = <<>>]
        /\ syncer' = [syncer EXCEPT ![a] = [pc |-> "idle"]]
        /\ sync_down' = [sync_down EXCEPT ![a] = <<>>]
        /\ uploads' = [uploads EXCEPT ![a] = {}]
    BY <1>5 DEF Node!NodeCrash, Node!NoSync
  <2>3. MessageTypes'
    <3>1. /\ m.kind \in {"none", "join", "beat", "down"}
          /\ m.kind = "beat" => \E r \in Reports : m.units = Units(r)
          /\ m.kind = "down" => m.vnodes \in Seq(Vnodes) /\ m.vnodes # <<>>
      <4>1. CASE m = msg[a]
        BY <1>1, <4>1 DEF MessageTypes
      <4>2. CASE m = Node!NoMsg
        BY <4>2 DEF Node!NoMsg
      <4> QED
        BY <2>1, <4>1, <4>2
    <3> QED
      BY <1>1, <2>1, <3>1, MessageStep
  <2>4. SyncerTypes'
    BY <1>1, <2>2, SyncerStep
  <2>5. Node!NoVnode \in Containers
    <3>1. Node!NoVnode \in [{} -> Entry] /\ {} \in SUBSET Vnodes
      BY DEF Node!NoVnode
    <3> QED
      BY <3>1, ContainersDef
  <2>6. /\ <<>> \in Seq(RespUnits) /\ <<>> \in Seq(QueuedSyncs) /\ <<>> \in Seq(Vnodes)
    BY EmptySeq
  <2> QED
    BY <1>1, <2>2, <2>3, <2>4, <2>5, <2>6 DEF NodesTypeOK
<1>6. ASSUME NEW r \in Seq(RespUnits), Node!NodeResponse(a, r) PROVE NodesTypeOK'
  <2>1. UNCHANGED <<msg, syncer, sync_queue, sync_down, container, uploads>>
    BY <1>6 DEF Node!NodeResponse, Node!syncVars
  <2>2. beat' \in [Addrs -> Beat] /\ units' \in [Addrs -> Seq(RespUnits)]
    BY <1>1, <1>6 DEF Node!NodeResponse
  <2>3. MessageTypes' /\ SyncerTypes'
    BY <1>1, <2>1, NodesStay
  <2> QED
    BY <1>1, <2>1, <2>2, <2>3 DEF NodesTypeOK
<1> QED
  BY <1>3, <1>4, <1>5, <1>6

LEMMA NodesTypeInit == SysInit => NodesTypeOK
<1> SUFFICES ASSUME SysInit PROVE NodesTypeOK
  OBVIOUS
<1>1. /\ beat = [a \in Addrs |-> "off"] /\ msg = [a \in Addrs |-> [kind |-> "none"]]
      /\ units = [a \in Addrs |-> <<>>] /\ container = [a \in Addrs |-> Node!NoVnode]
      /\ sync_queue = [a \in Addrs |-> <<>>] /\ syncer = [a \in Addrs |-> [pc |-> "idle"]]
      /\ sync_down = [a \in Addrs |-> <<>>] /\ uploads = [a \in Addrs |-> {}]
      /\ faults = 0
  BY DEF SysInit, Node!NodeInit, Node!NoMsg, Node!NoSync
<1>2. Node!NoVnode \in Containers
  <2>1. Node!NoVnode \in [{} -> Entry] /\ {} \in SUBSET Vnodes
    BY DEF Node!NoVnode
  <2> QED
    BY <2>1, ContainersDef
<1>3. /\ <<>> \in Seq(RespUnits) /\ <<>> \in Seq(QueuedSyncs) /\ <<>> \in Seq(Vnodes)
      /\ 0 \in 0..MaxFaults
  BY EmptySeq, FaultsAssumption
<1>4. MessageTypes
  BY <1>1 DEF MessageTypes
<1>5. SyncerTypes
  BY <1>1 DEF SyncerTypes
<1> QED
  BY <1>1, <1>2, <1>3, <1>4, <1>5 DEF NodesTypeOK

LEMMA NodesTypeStep == TypeInv /\ NodesTypeOK /\ [SysNext]_sysVars => NodesTypeOK'
<1> SUFFICES ASSUME TypeInv, NodesTypeOK, [SysNext]_sysVars PROVE NodesTypeOK'
  OBVIOUS
<1>1. faults \in 0..MaxFaults /\ MaxFaults \in Nat /\ MessageTypes /\ SyncerTypes
  BY FaultsAssumption DEF NodesTypeOK
<1>2. ASSUME UNCHANGED nodeVars, UNCHANGED faults PROVE NodesTypeOK'
  <2>1. MessageTypes' /\ SyncerTypes'
    BY <1>1, <1>2, NodesStay DEF nodeVars
  <2> QED
    BY <1>2, <2>1 DEF nodeVars, NodesTypeOK
<1>3. CASE JoinTurn
  BY <1>2, <1>3 DEF JoinTurn, Apart
<1>4. ASSUME NEW a \in Addrs, NodeStep(a) PROVE NodesTypeOK'
  <2>1. faults' \in 0..MaxFaults
    BY <1>1, <1>4 DEF NodeStep, Apart
  <2>2. CASE Start(a) \/ Beats(a)
    BY <2>1, <2>2, BeatTypes DEF Start, Beats
  <2>3. CASE Syncs(a)
    BY <2>1, <2>3, SyncTypes DEF Syncs
  <2>4. CASE Uploads(a)
    BY <2>1, <2>4, OtherTypes DEF Uploads
  <2> QED
    BY <1>4, <2>2, <2>3, <2>4 DEF NodeStep
<1>5. ASSUME NEW a \in Addrs, Fault(a) PROVE NodesTypeOK'
  <2>1. faults' \in 0..MaxFaults
    BY <1>1, <1>5 DEF Fault
  <2> QED
    BY <1>5, <2>1, BeatTypes, SyncTypes, OtherTypes DEF Fault
<1>6. ASSUME NEW a \in Addrs, MasterStep(a) PROVE NodesTypeOK'
  <2>1. faults' \in 0..MaxFaults
    BY <1>1, <1>6 DEF MasterStep, JoinTaken, Joined, BeatTaken, MergeReport, Respond, FinishTaken,
                      FinishTurn, FinishAnswer, Apart
  <2>2. CASE JoinTaken(a) \/ BeatTaken(a) \/ FinishTaken(a)
    BY <2>1, <2>2, BeatTypes DEF JoinTaken, BeatTaken, FinishTaken
  <2>3. CASE Joined(a) \/ FinishAnswer(a)
    BY <2>1, <2>3, BeatTypes DEF Joined, FinishAnswer
  <2>4. CASE MergeReport(a) \/ FinishTurn(a)
    BY <1>2, <2>4 DEF MergeReport, FinishTurn, Apart
  <2>5. CASE Respond(a)
    <3>1. resp[a] \in Seq(RespUnits)
      BY DEF TypeInv, TypeOK, HandlerTypes
    <3> QED
      BY <2>1, <2>5, <3>1, OtherTypes DEF Respond
  <2> QED
    BY <1>6, <2>2, <2>3, <2>4, <2>5 DEF MasterStep
<1>7. CASE UNCHANGED sysVars
  BY <1>2, <1>7 DEF sysVars
<1> QED
  BY <1>3, <1>4, <1>5, <1>6, <1>7 DEF SysNext

-----------------------------------------------------------------------------
(* What a node has in hand, and the refinement of MasterSpec                  *)

QueuedOf(v) == {e \in QueuedSyncs : e.vnode = v}

\* The syncs of v among response units, queued events, the sync thread's event, the
\* finished vnodes and a message.
InSyncer(s, v) == IF s.pc \in {"check", "push"} /\ s.vnode = v THEN 1 ELSE 0
Sent(m)        == IF m.kind = "down" THEN m.vnodes ELSE <<>>
HandOf(us, q, s, d, m, v) == Count(us, SourceUnits(v)) + Count(q, QueuedOf(v))
                                 + InSyncer(s, v) + Count(d, {v}) + Count(Sent(m), {v})

HandAgrees == \A a \in Addrs, v \in Vnodes :
    /\ InHand(a, v) = HandOf(units[a], sync_queue[a], syncer[a], sync_down[a], msg[a], v)
    /\ InHand(a, v) \in Nat

\* The counts are naturals.
LEMMA HandTypes ==
    ASSUME NodesTypeOK, NEW a \in Addrs, NEW v \in Vnodes
    PROVE  /\ Count(units[a], SourceUnits(v)) \in Nat
           /\ Count(sync_queue[a], QueuedOf(v)) \in Nat
           /\ InSyncer(syncer[a], v) \in Nat
           /\ Count(sync_down[a], {v}) \in Nat
           /\ Count(Sent(msg[a]), {v}) \in Nat
           /\ Count(<<>>, SourceUnits(v)) = 0 /\ Count(<<>>, QueuedOf(v)) = 0
           /\ Count(<<>>, {v}) = 0
<1>1. /\ units[a] \in Seq(RespUnits) /\ sync_queue[a] \in Seq(QueuedSyncs)
      /\ sync_down[a] \in Seq(Vnodes) /\ Sent(msg[a]) \in Seq(Vnodes)
  BY EmptySeq DEF NodesTypeOK, MessageTypes, Sent
<1>2. /\ Count(units[a], SourceUnits(v)) \in Nat /\ Count(sync_queue[a], QueuedOf(v)) \in Nat
  <2>1. PICK S : S = SourceUnits(v)
    OBVIOUS
  <2>2. PICK Q : Q = QueuedOf(v)
    OBVIOUS
  <2> QED
    BY <1>1, <2>1, <2>2, CountType
<1>3. /\ Count(sync_down[a], {v}) \in Nat /\ Count(Sent(msg[a]), {v}) \in Nat
  BY <1>1, CountType
<1> QED
  BY <1>2, <1>3, CountEmpty DEF InSyncer

LEMMA HandCounts == NodesTypeOK => HandAgrees
<1> SUFFICES ASSUME NodesTypeOK, NEW a \in Addrs, NEW v \in Vnodes
             PROVE  /\ InHand(a, v) = HandOf(units[a], sync_queue[a], syncer[a], sync_down[a], msg[a], v)
                    /\ InHand(a, v) \in Nat
  BY DEF HandAgrees
<1>1. /\ units[a] \in Seq(RespUnits) /\ sync_queue[a] \in Seq(QueuedSyncs)
      /\ sync_down[a] \in Seq(Vnodes)
      /\ msg[a].kind = "down" => msg[a].vnodes \in Seq(Vnodes)
  BY DEF NodesTypeOK, MessageTypes
<1>2. Cardinality({i \in 1..Len(units[a]) : units[a][i].vnode = v /\ IsSource(units[a][i].status)})
         = Count(units[a], SourceUnits(v))
  BY <1>1, Counts
<1>3. Cardinality({i \in 1..Len(sync_queue[a]) : sync_queue[a][i].vnode = v})
         = Count(sync_queue[a], QueuedOf(v))
  <2>1. \A i \in 1..Len(sync_queue[a]) : sync_queue[a][i] \in QueuedSyncs
    BY <1>1, ElementOfSeq
  <2>2. {i \in 1..Len(sync_queue[a]) : sync_queue[a][i].vnode = v}
           = {i \in 1..Len(sync_queue[a]) : sync_queue[a][i] \in QueuedOf(v)}
    BY <2>1 DEF QueuedOf
  <2> QED
    BY <2>2 DEF Count
<1>4. Listed(sync_down[a], v) = Count(sync_down[a], {v})
  BY <1>1, Counts
<1>5. (IF msg[a].kind = "down" THEN Listed(msg[a].vnodes, v) ELSE 0) = Count(Sent(msg[a]), {v})
  <2>1. CASE msg[a].kind = "down"
    BY <1>1, <2>1, Counts DEF Sent
  <2>2. CASE msg[a].kind # "down"
    BY <2>2, CountEmpty DEF Sent
  <2> QED
    BY <2>1, <2>2
<1>6. InHand(a, v) = HandOf(units[a], sync_queue[a], syncer[a], sync_down[a], msg[a], v)
  BY <1>2, <1>3, <1>4, <1>5 DEF InHand, HandOf, InSyncer
<1>7. HandOf(units[a], sync_queue[a], syncer[a], sync_down[a], msg[a], v) \in Nat
  <2>1. /\ Count(units[a], SourceUnits(v)) \in Nat
        /\ Count(sync_queue[a], QueuedOf(v)) \in Nat
        /\ InSyncer(syncer[a], v) \in Nat
        /\ Count(sync_down[a], {v}) \in Nat
        /\ Count(Sent(msg[a]), {v}) \in Nat
    BY HandTypes
  <2> QED
    BY <2>1 DEF HandOf
<1> QED
  BY <1>6, <1>7

\* (and so they are in the next state)
HandNat == \A a \in Addrs, v \in Vnodes :
    /\ HandOf(units[a], sync_queue[a], syncer[a], sync_down[a], msg[a], v) \in Nat
    /\ Count(Sent(msg[a]), {v}) \in Nat

LEMMA HandNats == NodesTypeOK => HandNat
BY HandCounts, HandTypes DEF HandAgrees, HandNat

LEMMA HandNatsNext ==
    ASSUME NodesTypeOK', NEW a \in Addrs, NEW v \in Vnodes
    PROVE  /\ HandOf(units'[a], sync_queue'[a], syncer'[a], sync_down'[a], msg'[a], v) \in Nat
           /\ Count(Sent(msg'[a]), {v}) \in Nat
<1>1. NodesTypeOK' => HandNat'
  BY HandNats, PTL
<1> QED
  BY <1>1 DEF HandNat, HandOf, InSyncer, Sent, Count, SourceUnits, QueuedOf

\* The node has in hand no sync it does not owe the master.
InHandOwed == \A a \in Addrs, v \in Vnodes : InHand(a, v) <= owed[a][v]

LEMMA HandStep ==
    ASSUME NodesTypeOK, NodesTypeOK', TypeInv, InHandOwed, NEW a \in Addrs,
           \A b \in Addrs : b # a =>
              /\ units'[b] = units[b] /\ sync_queue'[b] = sync_queue[b] /\ syncer'[b] = syncer[b]
              /\ sync_down'[b] = sync_down[b] /\ msg'[b] = msg[b] /\ owed'[b] = owed[b],
           \A v \in Vnodes :
              HandOf(units'[a], sync_queue'[a], syncer'[a], sync_down'[a], msg'[a], v) - owed'[a][v]
              <= HandOf(units[a], sync_queue[a], syncer[a], sync_down[a], msg[a], v) - owed[a][v],
           \A v \in Vnodes : owed'[a][v] \in Int
    PROVE  InHandOwed'
<1>1. HandAgrees /\ HandAgrees'
  <2>1. HandAgrees
    BY HandCounts
  <2>2. NodesTypeOK' => HandAgrees'
    BY HandCounts, PTL
  <2> QED
    BY <2>1, <2>2
<1> SUFFICES ASSUME NEW b \in Addrs, NEW v \in Vnodes
             PROVE  InHand(b, v)' <= owed'[b][v]
  BY DEF InHandOwed
<1>2. /\ InHand(b, v) = HandOf(units[b], sync_queue[b], syncer[b], sync_down[b], msg[b], v)
      /\ InHand(b, v)' = HandOf(units'[b], sync_queue'[b], syncer'[b], sync_down'[b], msg'[b], v)
  BY <1>1 DEF HandAgrees, HandOf, InSyncer, Sent, Count, SourceUnits, QueuedOf
<1>3. InHand(b, v) <= owed[b][v]
  BY DEF InHandOwed
<1>4. CASE b # a
  BY <1>2, <1>3, <1>4
<1>5. CASE b = a
  <2>1. InHand(a, v) \in Nat /\ InHand(a, v)' \in Nat /\ owed[a][v] \in Nat
    BY <1>1 DEF HandAgrees, TypeInv, TypeOK
  <2> QED
    BY <1>2, <1>3, <1>5, <2>1
<1> QED
  BY <1>4, <1>5

\* A step that leaves a no more in hand than it had.
LEMMA HandLess ==
    ASSUME NodesTypeOK, NodesTypeOK', TypeInv, InHandOwed, NEW a \in Addrs, UNCHANGED owed,
           \A b \in Addrs : b # a =>
              /\ units'[b] = units[b] /\ sync_queue'[b] = sync_queue[b] /\ syncer'[b] = syncer[b]
              /\ sync_down'[b] = sync_down[b] /\ msg'[b] = msg[b],
           \A v \in Vnodes :
              HandOf(units'[a], sync_queue'[a], syncer'[a], sync_down'[a], msg'[a], v)
              <= HandOf(units[a], sync_queue[a], syncer[a], sync_down[a], msg[a], v)
    PROVE  InHandOwed'
<1>1. \A v \in Vnodes : owed[a][v] \in Nat /\ owed'[a][v] \in Int
  BY DEF TypeInv, TypeOK
<1>2. ASSUME NEW v \in Vnodes
      PROVE  HandOf(units'[a], sync_queue'[a], syncer'[a], sync_down'[a], msg'[a], v) - owed'[a][v]
             <= HandOf(units[a], sync_queue[a], syncer[a], sync_down[a], msg[a], v) - owed[a][v]
  <2>1. HandOf(units[a], sync_queue[a], syncer[a], sync_down[a], msg[a], v) \in Nat
    BY HandCounts DEF HandAgrees
  <2>2. HandOf(units'[a], sync_queue'[a], syncer'[a], sync_down'[a], msg'[a], v) \in Nat
    BY HandNatsNext
  <2> QED
    BY <1>1, <2>1, <2>2
<1>3. \A b \in Addrs : b # a =>
          /\ units'[b] = units[b] /\ sync_queue'[b] = sync_queue[b] /\ syncer'[b] = syncer[b]
          /\ sync_down'[b] = sync_down[b] /\ msg'[b] = msg[b] /\ owed'[b] = owed[b]
  OBVIOUS
<1> QED
  BY <1>1, <1>2, <1>3, HandStep

\* What the beat thread does neither adds a sync nor drops one it sends.
LEMMA HandBeats ==
    ASSUME NodesTypeOK, NodesTypeOK', TypeInv, InHandOwed, NEW a \in Addrs, UNCHANGED owed,
           \/ Node!NodeStart(a) \/ Node!NodeBeat(a) \/ Node!MergeUnit(a) \/ Node!MergeDone(a)
           \/ Node!BeatTimeout(a) \/ Node!Taken(a) \/ Node!NodeJoined(a, TRUE)
           \/ Node!NodeJoined(a, FALSE) \/ Node!NodeDownAnswered(a)
    PROVE  InHandOwed'
<1>1. /\ units \in [Addrs -> Seq(RespUnits)] /\ sync_queue \in [Addrs -> Seq(QueuedSyncs)]
      /\ sync_down \in [Addrs -> Seq(Vnodes)] /\ DOMAIN msg = Addrs /\ DOMAIN syncer = Addrs
      /\ \A v \in Vnodes : owed[a][v] \in Nat
  BY DEF NodesTypeOK, MessageTypes, SyncerTypes, TypeInv, TypeOK
<1>3. ASSUME UNCHANGED <<units, sync_queue, syncer, sync_down>>,
             \A b \in Addrs : b # a => msg'[b] = msg[b],
             msg'[a].kind # "down" \/ msg'[a] = msg[a]
      PROVE  InHandOwed'
  <2>1. ASSUME NEW v \in Vnodes
        PROVE  HandOf(units'[a], sync_queue'[a], syncer'[a], sync_down'[a], msg'[a], v)
                 <= HandOf(units[a], sync_queue[a], syncer[a], sync_down[a], msg[a], v)
    <3> DEFINE rest == Count(units[a], SourceUnits(v)) + Count(sync_queue[a], QueuedOf(v))
                          + InSyncer(syncer[a], v) + Count(sync_down[a], {v})
    <3>1. rest \in Nat /\ Count(Sent(msg[a]), {v}) \in Nat
      <4>1. /\ Count(units[a], SourceUnits(v)) \in Nat
            /\ Count(sync_queue[a], QueuedOf(v)) \in Nat
            /\ InSyncer(syncer[a], v) \in Nat
            /\ Count(sync_down[a], {v}) \in Nat
            /\ Count(Sent(msg[a]), {v}) \in Nat
        BY HandTypes
      <4> QED
        BY <4>1
    <3>2. Count(Sent(msg'[a]), {v}) <= Count(Sent(msg[a]), {v})
      <4>1. CASE msg'[a].kind # "down"
        <5>1. Sent(msg'[a]) = <<>>
          BY <4>1 DEF Sent
        <5> QED
          BY <3>1, <5>1, HandTypes
      <4>2. CASE msg'[a] = msg[a]
        BY <3>1, <4>2
      <4> QED
        BY <1>3, <4>1, <4>2
    <3>3. /\ HandOf(units'[a], sync_queue'[a], syncer'[a], sync_down'[a], msg'[a], v)
                = rest + Count(Sent(msg'[a]), {v})
          /\ HandOf(units[a], sync_queue[a], syncer[a], sync_down[a], msg[a], v)
                = rest + Count(Sent(msg[a]), {v})
      BY <1>3 DEF HandOf
    <3> HIDE DEF rest
    <3>4. Count(Sent(msg'[a]), {v}) \in Int
      BY HandNatsNext
    <3> QED
      BY <3>1, <3>2, <3>3, <3>4
  <2> QED
    BY <1>3, <2>1, HandLess
<1>4. CASE \/ Node!NodeStart(a) \/ Node!NodeBeat(a) \/ Node!Taken(a)
  <2>1. PICK m : msg' = [msg EXCEPT ![a] = m] /\ m.kind # "down"
    BY <1>4 DEF Node!NodeStart, Node!NodeBeat, Node!Taken, Node!NoMsg
  <2>2. UNCHANGED <<units, sync_queue, syncer, sync_down>>
    BY <1>4 DEF Node!NodeStart, Node!NodeBeat, Node!Taken, Node!syncVars
  <2> QED
    BY <1>1, <1>3, <2>1, <2>2
<1>5. CASE \/ Node!BeatTimeout(a) \/ Node!NodeJoined(a, TRUE) \/ Node!NodeJoined(a, FALSE)
           \/ Node!NodeDownAnswered(a)
  <2>1. UNCHANGED <<msg, units, sync_queue, syncer, sync_down>>
    BY <1>5 DEF Node!BeatTimeout, Node!NodeJoined, Node!NodeDownAnswered, Node!syncVars
  <2> QED
    BY <1>3, <2>1
<1>6. CASE Node!MergeUnit(a)
  <2> DEFINE u == Head(units[a])
             e == [vnode |-> u.vnode, dest |-> u.dest]
  <2>1. u \in RespUnits /\ Tail(units[a]) \in Seq(RespUnits) /\ units[a] # <<>>
    BY <1>1, <1>6, HeadTailProperties DEF Node!MergeUnit
  <2>2. u.vnode \in Vnodes /\ e \in QueuedSyncs /\ e.vnode = u.vnode
    BY <2>1 DEF RespUnits, QueuedSyncs
  <2> HIDE DEF e
  <2>3. /\ sync_queue' = [sync_queue EXCEPT ![a] = IF IsSource(u.status) THEN Append(@, e) ELSE @]
        /\ units' = [units EXCEPT ![a] = Tail(@)]
        /\ UNCHANGED <<msg, syncer, sync_down>>
    BY <1>6, NodeStatuses DEF Node!MergeUnit, e
  <2> HIDE DEF u
  <2>4. /\ units'[a] = Tail(units[a])
        /\ sync_queue'[a] = IF IsSource(u.status) THEN Append(sync_queue[a], e) ELSE sync_queue[a]
        /\ \A b \in Addrs : b # a => units'[b] = units[b] /\ sync_queue'[b] = sync_queue[b]
    BY <1>1, <2>3
  <2>5. ASSUME NEW v \in Vnodes
        PROVE  HandOf(units'[a], sync_queue'[a], syncer'[a], sync_down'[a], msg'[a], v)
                 = HandOf(units[a], sync_queue[a], syncer[a], sync_down[a], msg[a], v)
    <3> DEFINE new == IF IsSource(u.status) /\ u.vnode = v THEN 1 ELSE 0
    <3>1. Count(Tail(units[a]), SourceUnits(v)) = Count(units[a], SourceUnits(v)) - new
      <4>1. u \in SourceUnits(v) <=> u.vnode = v /\ IsSource(u.status)
        BY <2>1 DEF SourceUnits
      <4>2. PICK S : S = SourceUnits(v)
        OBVIOUS
      <4>3. Count(Tail(units[a]), S) = Count(units[a], S) - (IF u \in S THEN 1 ELSE 0)
        BY <1>1, <2>1, CountTail DEF u
      <4> QED
        BY <4>1, <4>2, <4>3
    <3>2. Count(sync_queue'[a], QueuedOf(v)) = Count(sync_queue[a], QueuedOf(v)) + new
      <4>1. e \in QueuedOf(v) <=> u.vnode = v
        BY <2>2 DEF QueuedOf
      <4>2. PICK Q : Q = QueuedOf(v)
        OBVIOUS
      <4>3. Count(Append(sync_queue[a], e), Q) = Count(sync_queue[a], Q) + (IF e \in Q THEN 1 ELSE 0)
        BY <1>1, <2>2, CountAppend
      <4>4. Count(sync_queue[a], Q) \in Nat
        BY <4>2, HandTypes
      <4> QED
        BY <2>4, <4>1, <4>2, <4>3, <4>4
    <3> HIDE DEF new
    <3>3. new \in Nat
      BY DEF new
    <3>4. /\ Count(units[a], SourceUnits(v)) \in Nat /\ Count(sync_queue[a], QueuedOf(v)) \in Nat
          /\ InSyncer(syncer[a], v) \in Nat /\ Count(sync_down[a], {v}) \in Nat
          /\ Count(Sent(msg[a]), {v}) \in Nat
      BY HandTypes
    <3> QED
      BY <2>3, <2>4, <3>1, <3>2, <3>3, <3>4 DEF HandOf
  <2>6. ASSUME NEW v \in Vnodes
        PROVE  HandOf(units'[a], sync_queue'[a], syncer'[a], sync_down'[a], msg'[a], v)
                 <= HandOf(units[a], sync_queue[a], syncer[a], sync_down[a], msg[a], v)
    BY <2>5, HandCounts DEF HandAgrees
  <2> QED
    BY <2>3, <2>4, <2>6, HandLess
<1>7. CASE Node!MergeDone(a)
  <2>1. UNCHANGED <<units, syncer, sync_queue>>
    BY <1>7 DEF Node!MergeDone
  <2>2. CASE sync_down[a] = <<>>
    <3>1. UNCHANGED <<msg, sync_down>>
      BY <1>7, <2>2 DEF Node!MergeDone
    <3> QED
      BY <1>3, <2>1, <3>1
  <2>3. CASE sync_down[a] # <<>>
    <3>1. /\ msg' = [msg EXCEPT ![a] = [kind |-> "down", vnodes |-> sync_down[a]]]
          /\ sync_down' = [sync_down EXCEPT ![a] = <<>>]
      BY <1>7, <2>3 DEF Node!MergeDone
    <3>2. /\ Sent(msg'[a]) = sync_down[a] /\ sync_down'[a] = <<>>
          /\ \A b \in Addrs : b # a => msg'[b] = msg[b] /\ sync_down'[b] = sync_down[b]
      BY <1>1, <3>1 DEF Sent
    <3>3. ASSUME NEW v \in Vnodes
          PROVE  HandOf(units'[a], sync_queue'[a], syncer'[a], sync_down'[a], msg'[a], v)
                   <= HandOf(units[a], sync_queue[a], syncer[a], sync_down[a], msg[a], v)
      <4>1. /\ Count(units[a], SourceUnits(v)) \in Nat /\ Count(sync_queue[a], QueuedOf(v)) \in Nat
            /\ InSyncer(syncer[a], v) \in Nat /\ Count(sync_down[a], {v}) \in Nat
            /\ Count(Sent(msg[a]), {v}) \in Nat /\ Count(<<>>, {v}) = 0
        BY HandTypes
      <4> QED
        BY <2>1, <3>2, <4>1 DEF HandOf
    <3> QED
      BY <2>1, <3>2, <3>3, HandLess
  <2> QED
    BY <2>2, <2>3
<1> QED
  BY <1>4, <1>5, <1>6, <1>7

\* The sync thread passes one on at a time; a process that dies has none.
LEMMA HandSyncs ==
    ASSUME NodesTypeOK, NodesTypeOK', TypeInv, InHandOwed, NEW a \in Addrs, UNCHANGED owed,
           \/ Node!SyncSend(a) \/ Node!SyncUnreachable(a) \/ Node!FileCheck(a)
           \/ Node!SyncPush(a) \/ Node!SyncTimeout(a) \/ Node!NodeCrash(a)
    PROVE  InHandOwed'
<1>1. /\ units \in [Addrs -> Seq(RespUnits)] /\ sync_queue \in [Addrs -> Seq(QueuedSyncs)]
      /\ sync_down \in [Addrs -> Seq(Vnodes)] /\ DOMAIN msg = Addrs /\ DOMAIN syncer = Addrs
      /\ SyncerTypes
  BY DEF NodesTypeOK, MessageTypes, SyncerTypes
<1> DEFINE Numbers(v) == /\ Count(units[a], SourceUnits(v)) \in Nat
                         /\ Count(sync_queue[a], QueuedOf(v)) \in Nat
                         /\ InSyncer(syncer[a], v) \in Nat
                         /\ Count(sync_down[a], {v}) \in Nat
                         /\ Count(Sent(msg[a]), {v}) \in Nat
                         /\ Count(<<>>, SourceUnits(v)) = 0 /\ Count(<<>>, QueuedOf(v)) = 0
                         /\ Count(<<>>, {v}) = 0
<1>2. \A v \in Vnodes : Numbers(v)
  BY HandTypes
<1>3. ASSUME sync_queue[a] # <<>>, NEW v \in Vnodes
      PROVE  Count(Tail(sync_queue[a]), QueuedOf(v))
                = Count(sync_queue[a], QueuedOf(v)) - (IF Head(sync_queue[a]).vnode = v THEN 1 ELSE 0)
  <2>1. Head(sync_queue[a]) \in QueuedSyncs
    BY <1>1, <1>3, HeadTailProperties
  <2>2. Head(sync_queue[a]) \in QueuedOf(v) <=> Head(sync_queue[a]).vnode = v
    BY <2>1 DEF QueuedOf
  <2>3. PICK Q : Q = QueuedOf(v)
    OBVIOUS
  <2>4. Count(Tail(sync_queue[a]), Q)
           = Count(sync_queue[a], Q) - (IF Head(sync_queue[a]) \in Q THEN 1 ELSE 0)
    BY <1>1, <1>3, CountTail
  <2> QED
    BY <2>2, <2>3, <2>4
<1>4. CASE Node!SyncSend(a)
  <2> DEFINE e == Head(sync_queue[a])
             s == [pc |-> "check", vnode |-> e.vnode, dest |-> e.dest,
                   version |-> container[a][e.vnode].version]
  <2>1. /\ sync_queue[a] # <<>> /\ syncer[a].pc = "idle"
        /\ sync_queue' = [sync_queue EXCEPT ![a] = Tail(@)]
        /\ syncer' = [syncer EXCEPT ![a] = s]
        /\ UNCHANGED <<units, msg, sync_down>>
    BY <1>4 DEF Node!SyncSend, Node!beatVars
  <2>2. s.pc = "check" /\ s.vnode = e.vnode
    OBVIOUS
  <2> HIDE DEF s
  <2>3. /\ sync_queue'[a] = Tail(sync_queue[a]) /\ syncer'[a] = s
        /\ \A b \in Addrs : b # a => sync_queue'[b] = sync_queue[b] /\ syncer'[b] = syncer[b]
    BY <1>1, <2>1
  <2>4. ASSUME NEW v \in Vnodes
        PROVE  HandOf(units'[a], sync_queue'[a], syncer'[a], sync_down'[a], msg'[a], v)
                 <= HandOf(units[a], sync_queue[a], syncer[a], sync_down[a], msg[a], v)
    <3>0. Numbers(v)
      BY <1>2
    <3>1. InSyncer(syncer[a], v) = 0 /\ InSyncer(s, v) = IF e.vnode = v THEN 1 ELSE 0
      BY <2>1, <2>2 DEF InSyncer
    <3> QED
      BY <1>3, <2>1, <3>0, <2>3, <3>1 DEF HandOf
  <2> QED
    BY <2>1, <2>3, <2>4, HandLess
<1>5. CASE Node!SyncUnreachable(a)
  <2>1. /\ sync_queue[a] # <<>> /\ syncer[a].pc = "idle"
        /\ sync_queue' = [sync_queue EXCEPT ![a] = Tail(@)]
        /\ syncer' = [syncer EXCEPT ![a] = [pc |-> "dead"]]
        /\ UNCHANGED <<units, msg, sync_down>>
    BY <1>5 DEF Node!SyncUnreachable, Node!beatVars
  <2>2. /\ sync_queue'[a] = Tail(sync_queue[a]) /\ syncer'[a].pc = "dead"
        /\ \A b \in Addrs : b # a => sync_queue'[b] = sync_queue[b] /\ syncer'[b] = syncer[b]
    BY <1>1, <2>1
  <2>3. ASSUME NEW v \in Vnodes
        PROVE  HandOf(units'[a], sync_queue'[a], syncer'[a], sync_down'[a], msg'[a], v)
                 <= HandOf(units[a], sync_queue[a], syncer[a], sync_down[a], msg[a], v)
    <3>0. Numbers(v)
      BY <1>2
    <3>1. InSyncer(syncer'[a], v) = 0
      BY <2>2 DEF InSyncer
    <3>2. /\ Count(sync_queue'[a], QueuedOf(v)) <= Count(sync_queue[a], QueuedOf(v))
          /\ Count(sync_queue'[a], QueuedOf(v)) \in Int
      BY <1>3, <2>1, <2>2, <3>0
    <3> QED
      BY <2>1, <3>0, <3>1, <3>2 DEF HandOf
  <2> QED
    BY <2>1, <2>2, <2>3, HandLess
<1>6. CASE Node!FileCheck(a)
  <2>1. /\ syncer[a].pc = "check"
        /\ syncer' = [syncer EXCEPT ![a] = [pc |-> "push", vnode |-> syncer[a].vnode]]
        /\ UNCHANGED <<units, msg, sync_down, sync_queue>>
    BY <1>6 DEF Node!FileCheck, Node!beatVars
  <2>2. /\ syncer'[a].pc = "push" /\ syncer'[a].vnode = syncer[a].vnode
        /\ \A b \in Addrs : b # a => syncer'[b] = syncer[b]
    BY <1>1, <2>1
  <2>3. ASSUME NEW v \in Vnodes
        PROVE  HandOf(units'[a], sync_queue'[a], syncer'[a], sync_down'[a], msg'[a], v)
                 <= HandOf(units[a], sync_queue[a], syncer[a], sync_down[a], msg[a], v)
    <3>0. Numbers(v)
      BY <1>2
    <3>1. InSyncer(syncer'[a], v) = InSyncer(syncer[a], v)
      BY <2>1, <2>2 DEF InSyncer
    <3> QED
      BY <2>1, <3>0, <3>1 DEF HandOf
  <2> QED
    BY <2>1, <2>2, <2>3, HandLess
<1>7. CASE Node!SyncPush(a)
  <2> DEFINE w == syncer[a].vnode
  <2>1. /\ syncer[a].pc = "push" /\ sync_down' = [sync_down EXCEPT ![a] = Append(@, w)]
        /\ syncer' = [syncer EXCEPT ![a] = [pc |-> "idle"]]
        /\ UNCHANGED <<units, msg, sync_queue>>
    BY <1>7 DEF Node!SyncPush, Node!NoSync, Node!beatVars
  <2>2. /\ syncer'[a].pc = "idle" /\ sync_down'[a] = Append(sync_down[a], w)
        /\ \A b \in Addrs : b # a => syncer'[b] = syncer[b] /\ sync_down'[b] = sync_down[b]
        /\ w \in Vnodes
    BY <1>1, <2>1 DEF SyncerTypes
  <2>3. ASSUME NEW v \in Vnodes
        PROVE  HandOf(units'[a], sync_queue'[a], syncer'[a], sync_down'[a], msg'[a], v)
                 <= HandOf(units[a], sync_queue[a], syncer[a], sync_down[a], msg[a], v)
    <3>0. Numbers(v)
      BY <1>2
    <3>1. InSyncer(syncer'[a], v) = 0 /\ InSyncer(syncer[a], v) = IF w = v THEN 1 ELSE 0
      BY <2>1, <2>2 DEF InSyncer
    <3>2. Count(Append(sync_down[a], w), {v}) = Count(sync_down[a], {v}) + IF w \in {v} THEN 1 ELSE 0
      BY <1>1, <2>2, CountAppend
    <3> HIDE DEF w
    <3> QED
      BY <2>1, <3>0, <2>2, <3>1, <3>2 DEF HandOf
  <2> QED
    BY <2>1, <2>2, <2>3, HandLess
<1>8. CASE Node!SyncTimeout(a)
  <2>1. /\ syncer' = [syncer EXCEPT ![a] = [pc |-> "dead"]]
        /\ UNCHANGED <<units, msg, sync_queue, sync_down>>
    BY <1>8 DEF Node!SyncTimeout, Node!beatVars
  <2>2. /\ syncer'[a].pc = "dead"
        /\ \A b \in Addrs : b # a => syncer'[b] = syncer[b]
    BY <1>1, <2>1
  <2>3. ASSUME NEW v \in Vnodes
        PROVE  HandOf(units'[a], sync_queue'[a], syncer'[a], sync_down'[a], msg'[a], v)
                 <= HandOf(units[a], sync_queue[a], syncer[a], sync_down[a], msg[a], v)
    <3>0. Numbers(v)
      BY <1>2
    <3>1. InSyncer(syncer'[a], v) = 0
      BY <2>2 DEF InSyncer
    <3> QED
      BY <2>1, <3>0, <3>1 DEF HandOf
  <2> QED
    BY <2>1, <2>2, <2>3, HandLess
<1>9. CASE Node!NodeCrash(a)
  <2>1. PICK m \in {msg[a], Node!NoMsg} : msg' = [msg EXCEPT ![a] = m]
    BY <1>9 DEF Node!NodeCrash
  <2>2. /\ units' = [units EXCEPT ![a] = <<>>]
        /\ sync_queue' = [sync_queue EXCEPT ![a] = <<>>]
        /\ syncer' = [syncer EXCEPT ![a] = [pc |-> "idle"]]
        /\ sync_down' = [sync_down EXCEPT ![a] = <<>>]
    BY <1>9 DEF Node!NodeCrash, Node!NoSync
  <2>3. /\ units'[a] = <<>> /\ sync_queue'[a] = <<>> /\ syncer'[a].pc = "idle"
        /\ sync_down'[a] = <<>> /\ msg'[a] = m
        /\ \A b \in Addrs : b # a =>
              /\ units'[b] = units[b] /\ sync_queue'[b] = sync_queue[b] /\ syncer'[b] = syncer[b]
              /\ sync_down'[b] = sync_down[b] /\ msg'[b] = msg[b]
    BY <1>1, <2>1, <2>2
  <2>4. ASSUME NEW v \in Vnodes
        PROVE  HandOf(units'[a], sync_queue'[a], syncer'[a], sync_down'[a], msg'[a], v)
                 <= HandOf(units[a], sync_queue[a], syncer[a], sync_down[a], msg[a], v)
    <3>0. Numbers(v)
      BY <1>2
    <3>1. InSyncer(syncer'[a], v) = 0
      BY <2>3 DEF InSyncer
    <3>2. Count(Sent(m), {v}) <= Count(Sent(msg[a]), {v})
      <4>1. CASE m = msg[a]
        BY <3>0, <4>1
      <4>2. CASE m = Node!NoMsg
        BY <3>0, <4>2 DEF Node!NoMsg, Sent
      <4> QED
        BY <2>1, <4>1, <4>2
    <3>3. Count(Sent(m), {v}) \in Nat
      BY <2>3, HandNatsNext
    <3> QED
      BY <2>3, <3>0, <3>1, <3>2, <3>3 DEF HandOf
  <2> QED
    BY <2>3, <2>4, HandLess
<1> QED
  BY <1>4, <1>5, <1>6, <1>7, <1>8, <1>9

\* A response that arrives brings the syncs it tells of, one that nobody waits for none.
LEMMA HandResponds ==
    ASSUME NodesTypeOK, NodesTypeOK', TypeInv, InHandOwed, NEW a \in Addrs, Respond(a)
    PROVE  InHandOwed'
<1>1. /\ units \in [Addrs -> Seq(RespUnits)] /\ resp[a] \in Seq(RespUnits)
      /\ owed \in [Addrs -> [Vnodes -> Nat]]
  BY DEF NodesTypeOK, TypeInv, TypeOK, HandlerTypes
<1>2. /\ UNCHANGED <<msg, sync_queue, syncer, sync_down>>
      /\ units' = units \/ units' = [units EXCEPT ![a] = resp[a]]
      /\ owed' = [owed EXCEPT ![a] = [v \in Vnodes |-> @[v] + Told(a, v)]]
  BY DEF Respond, Node!NodeResponse, Node!syncVars
<1>3. \A b \in Addrs : b # a => units'[b] = units[b] /\ owed'[b] = owed[b]
  BY <1>1, <1>2
<1>4. ASSUME NEW v \in Vnodes
      PROVE  /\ owed'[a][v] \in Int
             /\ HandOf(units'[a], sync_queue'[a], syncer'[a], sync_down'[a], msg'[a], v) - owed'[a][v]
                <= HandOf(units[a], sync_queue[a], syncer[a], sync_down[a], msg[a], v) - owed[a][v]
  <2>1. Told(a, v) = Count(resp[a], SourceUnits(v)) /\ Told(a, v) \in Nat
    BY <1>1, Counts DEF Told
  <2>2. owed'[a][v] = owed[a][v] + Told(a, v) /\ owed[a][v] \in Nat
    BY <1>1, <1>2
  <2>3. /\ Count(units[a], SourceUnits(v)) \in Nat
        /\ Count(sync_queue[a], QueuedOf(v)) \in Nat
        /\ InSyncer(syncer[a], v) \in Nat
        /\ Count(sync_down[a], {v}) \in Nat
        /\ Count(Sent(msg[a]), {v}) \in Nat
    BY HandTypes
  <2>4. units'[a] = units[a] \/ units'[a] = resp[a]
    BY <1>1, <1>2
  <2>5. /\ Count(units'[a], SourceUnits(v)) <= Count(units[a], SourceUnits(v)) + Told(a, v)
        /\ Count(units'[a], SourceUnits(v)) \in Nat
    BY <2>1, <2>3, <2>4
  <2> QED
    BY <1>2, <2>1, <2>2, <2>3, <2>5 DEF HandOf
<1> QED
  BY <1>2, <1>3, <1>4, HandStep

\* The message of finished syncs is taken out of the node's hand and off its debt.
LEMMA HandFinishes ==
    ASSUME NodesTypeOK, NodesTypeOK', TypeInv, InHandOwed, NEW a \in Addrs, FinishTaken(a)
    PROVE  InHandOwed'
<1>1. owed \in [Addrs -> [Vnodes -> Nat]] /\ DOMAIN msg = Addrs
      /\ msg[a].kind = "down" /\ msg[a].vnodes \in Seq(Vnodes)
  BY DEF NodesTypeOK, MessageTypes, TypeInv, TypeOK, FinishTaken
<1>2. /\ UNCHANGED <<units, sync_queue, syncer, sync_down>>
      /\ msg' = [msg EXCEPT ![a] = [kind |-> "none"]]
      /\ owed' = [owed EXCEPT ![a] = [v \in Vnodes |-> @[v] - Listed(msg[a].vnodes, v)]]
  BY DEF FinishTaken, Node!Taken, Node!syncVars, Node!NoMsg
<1>3. /\ \A b \in Addrs : b # a => msg'[b] = msg[b] /\ owed'[b] = owed[b]
      /\ msg'[a].kind = "none"
  BY <1>1, <1>2
<1>4. ASSUME NEW v \in Vnodes
      PROVE  /\ owed'[a][v] \in Int
             /\ HandOf(units'[a], sync_queue'[a], syncer'[a], sync_down'[a], msg'[a], v) - owed'[a][v]
                <= HandOf(units[a], sync_queue[a], syncer[a], sync_down[a], msg[a], v) - owed[a][v]
  <2>1. /\ Listed(msg[a].vnodes, v) = Count(msg[a].vnodes, {v}) /\ Listed(msg[a].vnodes, v) \in Nat
        /\ Sent(msg[a]) = msg[a].vnodes /\ Sent(msg'[a]) = <<>>
    BY <1>1, <1>3, Counts DEF Sent
  <2>2. owed'[a][v] = owed[a][v] - Listed(msg[a].vnodes, v) /\ owed[a][v] \in Nat
    BY <1>1, <1>2
  <2>3. /\ Count(units[a], SourceUnits(v)) \in Nat
        /\ Count(sync_queue[a], QueuedOf(v)) \in Nat
        /\ InSyncer(syncer[a], v) \in Nat
        /\ Count(sync_down[a], {v}) \in Nat
        /\ Count(<<>>, {v}) = 0
    BY HandTypes
  <2> QED
    BY <1>2, <2>1, <2>2, <2>3 DEF HandOf
<1> QED
  BY <1>2, <1>3, <1>4, HandStep

LEMMA InHandStep ==
    ASSUME NodesTypeOK, NodesTypeOK', TypeInv, InHandOwed, [SysNext]_sysVars
    PROVE  InHandOwed'
<1>1. ASSUME UNCHANGED <<units, sync_queue, syncer, sync_down, msg, owed>> PROVE InHandOwed'
  <2>1. \A a \in Addrs, v \in Vnodes : InHand(a, v)' = InHand(a, v)
    BY <1>1 DEF InHand, Listed
  <2> QED
    BY <1>1, <2>1 DEF InHandOwed
<1>2. CASE JoinTurn
  BY <1>1, <1>2 DEF JoinTurn, Apart, nodeVars
<1>3. ASSUME NEW a \in Addrs, NodeStep(a) PROVE InHandOwed'
  <2>1. UNCHANGED owed
    BY <1>3 DEF NodeStep, Apart
  <2>2. CASE Start(a) \/ Beats(a)
    BY <2>1, <2>2, HandBeats DEF Start, Beats
  <2>3. CASE Syncs(a)
    BY <2>1, <2>3, HandSyncs DEF Syncs
  <2>4. CASE Uploads(a)
    <3>1. UNCHANGED <<units, sync_queue, syncer, sync_down, msg>>
      BY <2>4 DEF Uploads, Node!UploadStart, Node!UploadEnd, Node!UploadFails, Node!beatVars,
                  Node!syncVars
    <3> QED
      BY <1>1, <2>1, <3>1
  <2> QED
    BY <1>3, <2>2, <2>3, <2>4 DEF NodeStep
<1>4. ASSUME NEW a \in Addrs, Fault(a) PROVE InHandOwed'
  BY <1>4, HandBeats, HandSyncs DEF Fault
<1>5. ASSUME NEW a \in Addrs, MasterStep(a) PROVE InHandOwed'
  <2>1. CASE JoinTaken(a) \/ BeatTaken(a) \/ Joined(a) \/ FinishAnswer(a)
    <3>1. UNCHANGED owed
      BY <2>1 DEF JoinTaken, BeatTaken, Joined, FinishAnswer, Apart
    <3> QED
      BY <2>1, <3>1, HandBeats DEF JoinTaken, BeatTaken, Joined, FinishAnswer
  <2>2. CASE MergeReport(a) \/ FinishTurn(a)
    BY <1>1, <2>2 DEF MergeReport, FinishTurn, Apart, nodeVars
  <2> QED
    BY <1>5, <2>1, <2>2, HandResponds, HandFinishes DEF MasterStep
<1>6. CASE UNCHANGED sysVars
  BY <1>1, <1>6 DEF sysVars, nodeVars, vars
<1> QED
  BY <1>2, <1>3, <1>4, <1>5, <1>6 DEF SysNext

\* The whole system's steps are steps of the master of MasterSpec, once what a node may
\* report as finished is not cut off by a bound: a beat's units are a report, and the
\* vnodes of a sync-down are owed.
LEMMA StepMaps ==
    ASSUME Seq(Vnodes) \ {<<>>} \subseteq Batches,
           TypeInv, NodesTypeOK, InHandOwed, [SysNext]_sysVars
    PROVE  [Next]_vars
<1>1. CASE JoinTurn
  BY <1>1 DEF JoinTurn, Apart, Next, Join
<1>2. ASSUME NEW a \in Addrs, NodeStep(a) \/ Fault(a) PROVE UNCHANGED vars
  BY <1>2 DEF NodeStep, Fault, Apart, vars
<1>3. ASSUME NEW a \in Addrs, MasterStep(a) PROVE Next
  <2>1. CASE JoinTaken(a) \/ Joined(a)
    <3>1. Join
      BY <2>1 DEF JoinTaken, Joined, Apart, Join
    <3> QED
      BY <3>1 DEF Next
  <2>2. CASE BeatTaken(a)
    <3>1. \E r \in Reports : msg[a].units = Units(r)
      BY <2>2 DEF BeatTaken, NodesTypeOK, MessageTypes
    <3>2. Merge(a)
      BY <2>2, <3>1 DEF BeatTaken, Apart, Merge
    <3> QED
      BY <3>2 DEF Next
  <2>3. CASE MergeReport(a)
    <3>1. Merge(a)
      BY <2>3 DEF MergeReport, Apart, Merge
    <3> QED
      BY <3>1 DEF Next
  <2>4. CASE Respond(a)
    <3>1. Reply(a)
      BY <2>4 DEF Respond, Reply
    <3> QED
      BY <3>1 DEF Next
  <2>5. CASE FinishTaken(a)
    <3> DEFINE vs == msg[a].vnodes
    <3>1. msg[a].kind = "down" /\ vs \in Batches
      BY <2>5 DEF FinishTaken, NodesTypeOK, MessageTypes
    <3>2. ASSUME NEW v \in Vnodes PROVE Listed(vs, v) <= owed[a][v]
      <4>1. InHand(a, v) <= owed[a][v]
        BY DEF InHandOwed
      <4>2. /\ HandOf(units[a], sync_queue[a], syncer[a], sync_down[a], msg[a], v) = InHand(a, v)
            /\ InHand(a, v) \in Nat
        BY HandCounts DEF HandAgrees
      <4>3. /\ Count(units[a], SourceUnits(v)) \in Nat
            /\ Count(sync_queue[a], QueuedOf(v)) \in Nat
            /\ InSyncer(syncer[a], v) \in Nat
            /\ Count(sync_down[a], {v}) \in Nat
            /\ Count(Sent(msg[a]), {v}) \in Nat
        BY HandTypes
      <4>4. Count(Sent(msg[a]), {v}) = Listed(vs, v)
        BY <3>1, Counts DEF Sent, NodesTypeOK, MessageTypes
      <4>5. InHand(a, v) = Count(units[a], SourceUnits(v)) + Count(sync_queue[a], QueuedOf(v))
                               + InSyncer(syncer[a], v) + Count(sync_down[a], {v}) + Listed(vs, v)
        BY <4>2, <4>4 DEF HandOf
      <4>6. owed[a][v] \in Nat /\ Listed(vs, v) \in Nat
        BY <4>3, <4>4 DEF TypeInv, TypeOK
      <4> HIDE DEF vs
      <4> QED
        BY <4>1, <4>3, <4>5, <4>6
    <3>3. Finish(a, vs)
      BY <2>5, <3>2 DEF FinishTaken, Finish
    <3> QED
      BY <3>1, <3>3 DEF Next
  <2>6. CASE FinishTurn(a) \/ FinishAnswer(a)
    <3>1. SyncDown(a)
      BY <2>6 DEF FinishTurn, FinishAnswer, Apart, SyncDown
    <3> QED
      BY <3>1 DEF Next
  <2> QED
    BY <1>3, <2>1, <2>2, <2>3, <2>4, <2>5, <2>6 DEF MasterStep
<1>4. CASE UNCHANGED sysVars
  BY <1>4 DEF sysVars, vars
<1> QED
  BY <1>1, <1>2, <1>3, <1>4 DEF SysNext

NodesInv == TypeInv /\ NodesTypeOK /\ InHandOwed

LEMMA NodesInvHolds == ASSUME Seq(Vnodes) \ {<<>>} \subseteq Batches
                       PROVE  SysSpec => []NodesInv
<1>1. SysInit => NodesInv
  <2> SUFFICES ASSUME SysInit PROVE NodesInv
    OBVIOUS
  <2>1. TypeInv /\ NodesTypeOK
    BY TypeInvInit, NodesTypeInit DEF SysInit
  <2>2. ASSUME NEW a \in Addrs, NEW v \in Vnodes PROVE InHand(a, v) <= owed[a][v]
    <3>1. /\ units[a] = <<>> /\ sync_queue[a] = <<>> /\ syncer[a].pc = "idle"
          /\ sync_down[a] = <<>> /\ msg[a].kind = "none" /\ owed[a][v] = 0
      BY DEF SysInit, Init, Node!NodeInit, Node!NoSync, Node!NoMsg
    <3>2. HandOf(units[a], sync_queue[a], syncer[a], sync_down[a], msg[a], v) = 0
      BY <3>1, CountEmpty DEF HandOf, InSyncer, Sent
    <3> QED
      BY <2>1, <3>1, <3>2, HandCounts DEF HandAgrees
  <2> QED
    BY <2>1, <2>2 DEF NodesInv, InHandOwed
<1>2. NodesInv /\ [SysNext]_sysVars => NodesInv'
  <2> SUFFICES ASSUME NodesInv, [SysNext]_sysVars PROVE NodesInv'
    OBVIOUS
  <2>1. TypeInv /\ NodesTypeOK /\ InHandOwed /\ [SysNext]_sysVars
    BY DEF NodesInv
  <2>2. TypeInv'
    BY <2>1, StepMaps, TypeInvStep
  <2>3. NodesTypeOK'
    BY <2>1, NodesTypeStep
  <2>4. InHandOwed'
    BY <2>1, <2>3, InHandStep
  <2> QED
    BY <2>2, <2>3, <2>4 DEF NodesInv
<1> QED
  BY <1>1, <1>2, PTL DEF SysSpec

\* Every variable of the storage nodes has its type.
THEOREM NodesTypeCorrectness == ASSUME Seq(Vnodes) \ {<<>>} \subseteq Batches
                                PROVE  SysSpec => []NodesTypeOK
<1>1. NodesInv => NodesTypeOK
  BY DEF NodesInv
<1> QED
  BY <1>1, NodesInvHolds, PTL

\* The master among storage nodes is the master that MasterSpec describes: a node
\* reports as finished (report_sync_down_info) only syncs a response told it of, and
\* none more often than it was told, through crashes and timeouts.
THEOREM SystemImplementsMaster == ASSUME Seq(Vnodes) \ {<<>>} \subseteq Batches
                                  PROVE  SysSpec => MasterRefined
<1>1. SysInit => Init
  BY DEF SysInit
<1>2. NodesInv /\ [SysNext]_sysVars => [Next]_vars
  BY StepMaps DEF NodesInv
<1> QED
  BY <1>1, <1>2, NodesInvHolds, PTL DEF SysSpec, MasterRefined, Spec

-----------------------------------------------------------------------------
(* What the refinement gives                                                 *)

LEMMA MasterOwed == ASSUME Seq(Vnodes) \ {<<>>} \subseteq Batches
                    PROVE  SysSpec => []OwedInv
BY SystemImplementsMaster, OwedInvHolds, PTL DEF MasterRefined

\* Every sync in a node's hand, from the response it came with to the report of its
\* end, has an event of its own in the syncing_list of the device the node reports as,
\* where get_replica_info() asserts it: node, message and handler together never hold
\* more syncs of a vnode than the master has handed to that device.
THEOREM SyncsAlwaysKnown == ASSUME Seq(Vnodes) \ {<<>>} \subseteq Batches
                            PROVE  SysSpec => []SyncsAreKnown
<1>1. NodesInv /\ OwedInv => SyncsAreKnown
  <2> SUFFICES ASSUME NodesInv, OwedInv, NEW a \in Addrs, NEW v \in Vnodes
               PROVE  InHand(a, v) + ToFinish(a, v) <= HandedOut(a, v)
    BY DEF SyncsAreKnown, ToFinish, HandedOut
  <2>1. InHand(a, v) <= owed[a][v] /\ InHand(a, v) \in Nat
    BY HandCounts DEF NodesInv, InHandOwed, HandAgrees
  <2>2. owed[a][v] + Told(a, v) + ToFinish(a, v) <= HandedOut(a, v)
    BY DEF OwedInv, OwedKnown, Covered
  <2>3. owed[a][v] \in Nat /\ Told(a, v) \in Nat /\ HandedOut(a, v) \in Nat /\ ToFinish(a, v) \in Int
    BY CountedTypes DEF NodesInv, Counted
  <2> QED
    BY <2>1, <2>2, <2>3
<1> QED
  BY <1>1, NodesInvHolds, MasterOwed, PTL

\* What is proved of the master holds of it among its storage nodes, whatever crashes,
\* times out or comes back: it dies only after a join that ran out of memory, or of a
\* device that joins when there are as many devices as replicas ...
THEOREM SystemDiesOfJoins == ASSUME Seq(Vnodes) \ {<<>>} \subseteq Batches
                             PROVE  SysSpec => [](~up => MayDie)
BY SystemImplementsMaster, MasterDiesOfJoins, PTL DEF MasterRefined

\* ... and it stays up where there is neither.
THEOREM SystemKeepsMasterUp == ASSUME Seq(Vnodes) \ {<<>>} \subseteq Batches,
                                      MaxAllocFails = 0, MaxDevices <= ReplicaCount
                               PROVE  SysSpec => []MasterStaysUp
BY SystemImplementsMaster, MasterKeepsUp, PTL DEF MasterRefined

-----------------------------------------------------------------------------
(* What the master answers agrees with what its devices list                 *)

\* The vnodes listed by the device a reports as.
Listing(a) == Range(vnode_list[DeviceAt(a)])

LEMMA ListingStays ==
    ASSUME ReplicaInv, [Next]_vars, NEW a, Known(a)
    PROVE  Known(a)' /\ Listing(a)' = Listing(a)
<1>1. /\ \A d \in 1..node_count : vnode_list'[d] = vnode_list[d]
      /\ Known(a)' /\ DeviceAt(a)' = DeviceAt(a)
  BY DevicesStay
<1>2. DeviceAt(a) \in 1..node_count
  BY DeviceAtType DEF ReplicaInv, TypeInv, TypeOK
<1> QED
  BY <1>1, <1>2 DEF Listing

\* No replica is ever OFFLINE: the status only goes into answers.
NeverOffline == \A v \in Vnodes, d \in Devices : replica_status[v][d] # OFFLINE

LEMMA NeverOfflineStep ==
    ASSUME TypeInv, NeverOffline, [Next]_vars
    PROVE  NeverOffline'
<1> USE DEF NeverOffline, INIT, ONLINE, WAIT_SYNC, COPY_SRC, MOVE_SRC, ACTIVE, OFFLINE, NoDevice
<1>1. replica_status \in [Vnodes -> [Devices -> Statuses]]
  BY DEF TypeInv, TypeOK, TableTypes
<1>2. ASSUME NEW v, NEW d, NEW s, s # OFFLINE,
             replica_status' = [replica_status EXCEPT ![v][d] = s]
      PROVE  NeverOffline'
  BY <1>1, <1>2
<1>3. ASSUME UNCHANGED replica_status PROVE NeverOffline'
  BY <1>3
<1>4. CASE Join
  <2>1. ASSUME NEW a \in Addrs, JoinStart(a) \/ JoinMoveNothing(a) PROVE NeverOffline'
    BY <2>1, <1>3 DEF JoinStart, JoinMoveNothing, tableVars
  <2>2. ASSUME NEW a \in Addrs, JoinMoveDies(a) PROVE NeverOffline'
    <3>1. PICK w, d : replica_status' = [replica_status EXCEPT ![w][d] = MOVE_SRC]
      BY <2>2 DEF JoinMoveDies
    <3> QED
      BY <3>1, <1>2
  <2>3. CASE JoinVnode
    <3>1. \/ UNCHANGED replica_status
          \/ \E v, src : replica_status' = [replica_status EXCEPT ![v][src] = COPY_SRC]
      BY <2>3 DEF JoinVnode
    <3>2. COPY_SRC # OFFLINE
      OBVIOUS
    <3>3. ASSUME NEW v, NEW src, replica_status' = [replica_status EXCEPT ![v][src] = COPY_SRC]
          PROVE  NeverOffline'
      BY <3>2, <3>3, <1>2
    <3> QED
      BY <3>1, <3>3, <1>3
  <2>4. CASE JoinPush
    BY <2>4, <1>2 DEF JoinPush
  <2>5. CASE JoinDone
    BY <2>5, <1>3 DEF JoinDone, tableVars
  <2>6. CASE JoinFails
    BY <2>6, <1>1 DEF JoinFails
  <2> QED
    BY <1>4, <2>1, <2>2, <2>3, <2>4, <2>5, <2>6 DEF Join
<1>5. ASSUME NEW a \in Addrs, Merge(a) PROVE NeverOffline'
  <2>1. ASSUME NEW r \in Reports, ReportStart(a, Units(r)) PROVE NeverOffline'
    BY <2>1, <1>3 DEF ReportStart, tableVars
  <2>2. CASE ReportSync(a) \/ ReportRelock(a) \/ ReportPush(a)
    BY <2>2, <1>3 DEF ReportSync, ReportRelock, ReportPush, tableVars
  <2>3. ASSUME NEW u \in report[a], ReportStranger(a, u) \/ ReportSyncing(a, u) PROVE NeverOffline'
    BY <2>3, <1>3 DEF ReportStranger, ReportSyncing, tableVars
  <2>4. ASSUME NEW u \in report[a], ReportStale(a, u) PROVE NeverOffline'
    BY <2>4, <1>1 DEF ReportStale, MarkStale
  <2>5. ASSUME NEW u \in report[a], ReportCurrent(a, u) PROVE NeverOffline'
    <3>1. u.vnode \in Vnodes /\ DeviceAt(a) \in Devices
      BY <2>5, DeviceAtType DEF ReportCurrent, TypeInv, TypeOK, HandlerTypes, Registered
    <3> QED
      BY <2>5, <3>1, <1>2 DEF ReportCurrent
  <2>6. ASSUME NEW v \in mine[a], ReportMissing(a, v) PROVE NeverOffline'
    BY <2>6, <1>3 DEF ReportMissing, tableVars
  <2> QED
    BY <1>5, <2>1, <2>2, <2>3, <2>4, <2>5, <2>6 DEF Merge
<1>6. ASSUME NEW a \in Addrs, Reply(a) \/ \E vs \in Batches : Finish(a, vs) PROVE NeverOffline'
  BY <1>6, <1>3 DEF Reply, ReportReply, Finish, SyncDownStart, tableVars
<1>7. ASSUME NEW a \in Addrs, SyncDown(a) PROVE NeverOffline'
  <2>1. CASE SyncDownFind(a) \/ SyncDownReply(a)
    BY <2>1, <1>3 DEF SyncDownFind, SyncDownReply, tableVars
  <2>2. CASE SyncDownDest(a)
    BY <2>2, <1>2 DEF SyncDownDest
  <2>3. CASE SyncDownSrc(a)
    BY <2>3, <1>2 DEF SyncDownSrc
  <2> QED
    BY <1>7, <2>1, <2>2, <2>3 DEF SyncDown
<1>8. CASE Read \/ UNCHANGED vars
  BY <1>8, <1>3 DEF Read, ClientRead, vars, masterVars, tableVars
<1> QED
  BY <1>4, <1>5, <1>6, <1>7, <1>8 DEF Next

\* A reported vnode that the device lists is still to be answered; no vnode is
\* reported twice.
ReportedMine == \A a \in Addrs : \A u \in report[a] :
    /\ Known(a)
    /\ u.vnode \in Listing(a) => u.vnode \in mine[a]
    /\ \A w \in report[a] : w.vnode = u.vnode => w = u

LEMMA ReportedMineStep ==
    ASSUME ReplicaInv, ReportedMine, [Next]_vars
    PROVE  ReportedMine'
<1>1. report \in [Addrs -> SUBSET [vnode : Vnodes, version : Nat]] /\ mine \in [Addrs -> SUBSET Vnodes]
  BY DEF ReplicaInv, TypeInv, TypeOK, HandlerTypes
<1> DEFINE Fewer(a)   == report'[a] \subseteq report[a] /\ mine[a] \subseteq mine'[a]
           Fresh(a)   == /\ Known(a) /\ mine'[a] = Listing(a)
                         /\ \E r \in Reports : report'[a] = Units(r)
           Treated(a) == \E u \in report[a] : /\ report'[a] = report[a] \ {u}
                                              /\ mine'[a] = mine[a] \ {u.vnode}
           Goes(a)    == Fewer(a) \/ Fresh(a) \/ Treated(a) \/ report'[a] = {}
<1>2. ASSUME NEW a \in Addrs, Goes(a), NEW u \in report'[a]
      PROVE  /\ Known(a)'
             /\ u.vnode \in Listing(a)' => u.vnode \in mine'[a]
             /\ \A w \in report'[a] : w.vnode = u.vnode => w = u
  <2>1. CASE Fewer(a)
    <3>1. Known(a) /\ u \in report[a]
      BY <1>2, <2>1 DEF ReportedMine
    <3>2. Known(a)' /\ Listing(a)' = Listing(a)
      BY <3>1, ListingStays
    <3> QED
      BY <1>2, <2>1, <3>1, <3>2 DEF ReportedMine
  <2>2. CASE Fresh(a)
    <3>1. Known(a)' /\ Listing(a)' = Listing(a)
      BY <2>2, ListingStays
    <3>2. \A w \in report'[a] : w.vnode = u.vnode => w = u
      BY <1>2, <2>2 DEF Units
    <3> QED
      BY <2>2, <3>1, <3>2
  <2>3. CASE Treated(a)
    <3>1. PICK t \in report[a] : report'[a] = report[a] \ {t} /\ mine'[a] = mine[a] \ {t.vnode}
      BY <2>3
    <3>2. u \in report[a] /\ u # t /\ Known(a)
      BY <1>2, <3>1 DEF ReportedMine
    <3>3. u.vnode # t.vnode
      BY <3>1, <3>2 DEF ReportedMine
    <3>4. Known(a)' /\ Listing(a)' = Listing(a)
      BY <3>2, ListingStays
    <3> QED
      BY <3>1, <3>2, <3>3, <3>4 DEF ReportedMine
  <2> QED
    BY <1>2, <2>1, <2>2, <2>3
<1>3. (\A a \in Addrs : Goes(a)) => ReportedMine'
  BY <1>2 DEF ReportedMine
<1>4. ASSUME UNCHANGED <<report, mine>> PROVE \A b \in Addrs : Goes(b)
  BY <1>4
<1>5. ASSUME NEW a \in Addrs, Merge(a) PROVE \A b \in Addrs : Goes(b)
  <2>1. ASSUME NEW r \in Reports, ReportStart(a, Units(r)) PROVE \A b \in Addrs : Goes(b)
    <3>1. /\ Known(a) /\ mine' = [mine EXCEPT ![a] = Listing(a)]
          /\ report' = [report EXCEPT ![a] = Units(r)]
      BY <2>1 DEF ReportStart, Listing
    <3>2. report'[a] = Units(r) /\ mine'[a] = Listing(a)
      BY <1>1, <3>1
    <3>3. ASSUME NEW b \in Addrs, b # a PROVE Goes(b)
      BY <1>1, <3>1, <3>3
    <3> QED
      BY <3>1, <3>2, <3>3
  <2>2. CASE ReportSync(a) \/ ReportRelock(a) \/ ReportPush(a)
    BY <2>2, <1>4 DEF ReportSync, ReportRelock, ReportPush
  <2>3. ASSUME NEW u \in report[a], ReportStranger(a, u) PROVE \A b \in Addrs : Goes(b)
    <3>1. UNCHANGED mine /\ report' = [report EXCEPT ![a] = @ \ {u}]
      BY <2>3 DEF ReportStranger
    <3> QED
      BY <1>1, <3>1
  <2>4. ASSUME NEW u \in report[a],
               ReportSyncing(a, u) \/ ReportStale(a, u) \/ ReportCurrent(a, u)
        PROVE  \A b \in Addrs : Goes(b)
    <3>1. mine' = [mine EXCEPT ![a] = @ \ {u.vnode}] /\ report' = [report EXCEPT ![a] = @ \ {u}]
      BY <2>4 DEF ReportSyncing, ReportStale, ReportCurrent
    <3>2. report'[a] = report[a] \ {u} /\ mine'[a] = mine[a] \ {u.vnode}
      BY <1>1, <3>1
    <3>3. ASSUME NEW b \in Addrs, b # a PROVE Goes(b)
      BY <1>1, <3>1, <3>3
    <3> QED
      BY <3>2, <3>3
  <2>5. ASSUME NEW v \in mine[a], ReportMissing(a, v) PROVE \A b \in Addrs : Goes(b)
    <3>1. report[a] = {} /\ UNCHANGED report /\ mine' = [mine EXCEPT ![a] = @ \ {v}]
      BY <2>5 DEF ReportMissing
    <3> QED
      BY <1>1, <3>1
  <2> QED
    BY <1>5, <2>1, <2>2, <2>3, <2>4, <2>5 DEF Merge
<1>6. CASE ~\E a \in Addrs : Merge(a)
  <2>1. ASSUME NEW a \in Addrs, Reply(a) \/ (\E vs \in Batches : Finish(a, vs)) \/ SyncDown(a)
        PROVE  UNCHANGED <<report, mine>>
    BY <2>1 DEF Reply, Finish, ReportReply, SyncDownStart, SyncDown, SyncDownFind, SyncDownDest,
                SyncDownSrc, SyncDownReply
  <2>2. ASSUME Join \/ Read \/ UNCHANGED vars PROVE UNCHANGED <<report, mine>>
    BY <2>2 DEF Join, JoinStart, JoinMoveDies, JoinMoveNothing, JoinVnode, JoinPush, JoinDone,
                JoinFails, Read, ClientRead, vars, masterVars, handlerVars
  <2> QED
    BY <1>3, <1>4, <1>6, <2>1, <2>2 DEF Next
<1> QED
  BY <1>3, <1>5, <1>6

\* An answer deletes only a vnode the device does not list, and makes a source only
\* of one it lists.
Fits(a, u) ==
    /\ u.status = OFFLINE => Known(a) /\ u.vnode \notin Listing(a)
    /\ IsSource(u.status) => Known(a) /\ u.vnode \in Listing(a)

LEMMA FitsStays ==
    ASSUME ReplicaInv, [Next]_vars, NEW a, NEW u, Fits(a, u)
    PROVE  Fits(a, u)'
BY ListingStays DEF Fits

AnswersFit == \A a \in Addrs : \A u \in Range(resp[a]) : Fits(a, u)

LEMMA RangeEmpty == Range(<<>>) = {}
<1>1. <<>> \in Seq({}) /\ Holders(<<>>) = {}
  BY EmptySeq DEF Holders
<1> QED
  BY <1>1, RangeIsHolders

\* A replica that is a source is on a list: the statuses a failed join leaves behind are
\* none of its device's.
SourcesListed == \A v \in Vnodes : \A d \in Devices :
    replica_status[v][d] = COPY_SRC => d \in Holders(replica_list[v])

LEMMA SourcesListedStep ==
    ASSUME ReplicaInv, SourcesListed, [Next]_vars
    PROVE  SourcesListed'
<1> USE DEF SourcesListed
<1>1. /\ TypeInv /\ NoMoves /\ TableTypes
      /\ replica_status \in [Vnodes -> [Devices -> Statuses]]
      /\ replica_list \in [Vnodes -> Seq(Devices)]
  BY DEF ReplicaInv, TypeInv, TypeOK, TableTypes
<1>2. \A s \in {INIT, ONLINE, WAIT_SYNC, ACTIVE, MOVE_SRC} : s # COPY_SRC
  BY DEF INIT, ONLINE, WAIT_SYNC, ACTIVE, MOVE_SRC, COPY_SRC
<1>3. ASSUME UNCHANGED <<replica_list, replica_status>> PROVE SourcesListed'
  BY <1>3
<1>4. ASSUME NEW v, NEW d, NEW s, s # COPY_SRC \/ (v \in Vnodes /\ d \in Holders(replica_list[v])),
             replica_status' = [replica_status EXCEPT ![v][d] = s], UNCHANGED replica_list
      PROVE  SourcesListed'
  BY <1>1, <1>4
<1>5. CASE Join
  <2>1. ASSUME NEW a \in Addrs, JoinStart(a) \/ JoinMoveNothing(a) PROVE SourcesListed'
    BY <2>1, <1>3 DEF JoinStart, JoinMoveNothing, tableVars
  <2>2. ASSUME NEW a \in Addrs, JoinMoveDies(a) PROVE SourcesListed'
    <3>1. PICK w, d : replica_status' = [replica_status EXCEPT ![w][d] = MOVE_SRC]
      BY <2>2 DEF JoinMoveDies
    <3> QED
      BY <3>1, <2>2, <1>2, <1>4 DEF JoinMoveDies
  <2>3. CASE JoinVnode
    <3> DEFINE v == join.next
               src == get_read_replica(replica_list[v], replica_status[v], rd_req_robin[v])
    <3>1. /\ UNCHANGED replica_list
          /\ \/ UNCHANGED replica_status
             \/ src # NoDevice /\ replica_status' = [replica_status EXCEPT ![v][src] = COPY_SRC]
      BY <2>3 DEF JoinVnode
    <3>2. v \in Vnodes
      BY <1>1, <2>3, CountsAssumption DEF JoinVnode, TypeInv, TypeOK, JoinTypes, Vnodes
    <3>3. src # NoDevice => src \in Holders(replica_list[v])
      BY <1>1, <3>2, SourceChosen
    <3> HIDE DEF v, src
    <3> QED
      BY <3>1, <3>2, <3>3, <1>3, <1>4
  <2>4. CASE JoinPush
    <3> DEFINE w == join.next
               s == IF replica_list[w] = <<>> THEN ACTIVE
                    ELSE IF join.src = NoDevice THEN ONLINE ELSE WAIT_SYNC
    <3>1. /\ replica_status' = [replica_status EXCEPT ![w][Joiner] = s]
          /\ replica_list' = [replica_list EXCEPT ![w] = Append(@, Joiner)]
      BY <2>4 DEF JoinPush
    <3>2. w \in Vnodes /\ Joiner \in Devices
      BY <1>1, <2>4, Bounds
      DEF JoinPush, TypeInv, TypeOK, JoinTypes, JoinOK, DeviceTypes, Vnodes, Devices, Joiner
    <3>3. Holders(Append(replica_list[w], Joiner)) = Holders(replica_list[w]) \cup {Joiner}
      BY <1>1, <3>2, HoldersAppend
    <3>4. s # COPY_SRC
      BY <1>2
    <3> HIDE DEF w, s
    <3>5. \A v \in Vnodes : Holders(replica_list[v]) \subseteq Holders(replica_list'[v])
      BY <1>1, <3>1, <3>2, <3>3
    <3> QED
      BY <1>1, <3>1, <3>2, <3>4, <3>5
  <2>5. CASE JoinDone
    BY <2>5, <1>3 DEF JoinDone, tableVars
  <2>6. CASE JoinFails
    <3>1. \A v \in Vnodes :
             Holders(destroy_replica_info(replica_list[v], Joiner)) = Holders(replica_list[v]) \ {Joiner}
      <4> TAKE v \in Vnodes
      <4>1. /\ replica_list[v] \in Seq(Devices)
            /\ \A i, j \in 1..Len(replica_list[v]) : i # j => replica_list[v][i] # replica_list[v][j]
        BY <1>1, DistinctReplicas DEF ReplicaInv
      <4> QED
        BY <4>1, DestroyLemma
    <3>2. /\ replica_list' = [v \in Vnodes |-> destroy_replica_info(replica_list[v], Joiner)]
          /\ replica_status' = [v \in Vnodes |-> [replica_status[v] EXCEPT ![Joiner] = INIT]]
      BY <2>6 DEF JoinFails
    <3>3. INIT # COPY_SRC
      BY <1>2
    <3> SUFFICES ASSUME NEW v \in Vnodes, NEW d \in Devices, replica_status'[v][d] = COPY_SRC
                 PROVE  d \in Holders(replica_list'[v])
      OBVIOUS
    <3>4. d # Joiner /\ replica_status[v][d] = COPY_SRC
      BY <1>1, <3>2, <3>3
    <3> QED
      BY <3>1, <3>2, <3>4
  <2> QED
    BY <1>5, <2>1, <2>2, <2>3, <2>4, <2>5, <2>6 DEF Join
<1>6. ASSUME NEW a \in Addrs, Merge(a) PROVE SourcesListed'
  <2>1. ASSUME NEW r \in Reports, ReportStart(a, Units(r)) PROVE SourcesListed'
    BY <2>1, <1>3 DEF ReportStart, tableVars
  <2>2. CASE ReportSync(a) \/ ReportRelock(a) \/ ReportPush(a)
    BY <2>2, <1>3 DEF ReportSync, ReportRelock, ReportPush, tableVars
  <2>3. ASSUME NEW u \in report[a], ReportStranger(a, u) \/ ReportSyncing(a, u) PROVE SourcesListed'
    BY <2>3, <1>3 DEF ReportStranger, ReportSyncing, tableVars
  <2>4. ASSUME NEW u \in report[a], ReportStale(a, u) PROVE SourcesListed'
    <3> DEFINE w == u.vnode
               dev == DeviceAt(a)
               src == get_read_replica(replica_list[w], replica_status[w], rd_req_robin[w])
    <3>1. w \in Vnodes
      BY <1>1, <2>4 DEF ReportStale, TypeInv, TypeOK, HandlerTypes
    <3>2. src # NoDevice => src \in Holders(replica_list[w])
      BY <1>1, <3>1, SourceChosen
    <3>3. /\ UNCHANGED replica_list
          /\ replica_status' = IF src = NoDevice
                THEN [replica_status EXCEPT ![w][dev] = ONLINE]
                ELSE [replica_status EXCEPT ![w][dev] = WAIT_SYNC, ![w][src] = COPY_SRC]
      BY <2>4 DEF ReportStale, MarkStale
    <3> HIDE DEF w, dev, src
    <3>4. CASE src = NoDevice
      BY <1>2, <1>4, <3>3, <3>4
    <3>5. CASE src # NoDevice
      BY <1>1, <1>2, <3>1, <3>2, <3>3, <3>5
    <3> QED
      BY <3>4, <3>5
  <2>5. ASSUME NEW u \in report[a], ReportCurrent(a, u) PROVE SourcesListed'
    <3> DEFINE s == IF u.version = version[u.vnode] THEN ACTIVE ELSE replica_status[u.vnode][DeviceAt(a)]
    <3>1. /\ replica_status' = [replica_status EXCEPT ![u.vnode][DeviceAt(a)] = s]
          /\ s # COPY_SRC /\ UNCHANGED replica_list
      BY <2>5, <1>2 DEF ReportCurrent
    <3> HIDE DEF s
    <3> QED
      BY <3>1, <1>4
  <2>6. ASSUME NEW v \in mine[a], ReportMissing(a, v) PROVE SourcesListed'
    BY <2>6, <1>3 DEF ReportMissing, tableVars
  <2> QED
    BY <1>6, <2>1, <2>2, <2>3, <2>4, <2>5, <2>6 DEF Merge
<1>7. ASSUME NEW a \in Addrs, Reply(a) \/ \E vs \in Batches : Finish(a, vs) PROVE SourcesListed'
  BY <1>7, <1>3 DEF Reply, ReportReply, Finish, SyncDownStart, tableVars
<1>8. ASSUME NEW a \in Addrs, SyncDown(a) PROVE SourcesListed'
  <2>1. CASE SyncDownFind(a) \/ SyncDownReply(a)
    BY <2>1, <1>3 DEF SyncDownFind, SyncDownReply, tableVars
  <2>2. CASE SyncDownDest(a)
    BY <2>2, <1>2, <1>4 DEF SyncDownDest
  <2>3. CASE SyncDownSrc(a)
    <3>1. /\ UNCHANGED replica_list
          /\ \/ UNCHANGED replica_status
             \/ replica_status' = [replica_status EXCEPT ![event[a].vnode][event[a].src] = ACTIVE]
      BY <1>1, <2>3, SyncDownSrcQuiet
    <3> QED
      BY <3>1, <1>2, <1>3, <1>4
  <2> QED
    BY <1>8, <2>1, <2>2, <2>3 DEF SyncDown
<1>9. CASE Read \/ UNCHANGED vars
  BY <1>9, <1>3 DEF Read, ClientRead, vars, masterVars, tableVars
<1> QED
  BY <1>5, <1>6, <1>7, <1>8, <1>9 DEF Next

LEMMA AnswersFitStep ==
    ASSUME EventInv, SourcesListed, NeverOffline, ReportedMine, AnswersFit, [Next]_vars
    PROVE  AnswersFit'
<1>1. /\ ReplicaInv /\ TypeInv /\ HandsOK /\ ListsAgree /\ EventOK /\ Registered /\ DeviceTypes
      /\ resp \in [Addrs -> Seq(RespUnits)]
      /\ event \in [Addrs -> LocalEvents]
      /\ report \in [Addrs -> SUBSET [vnode : Vnodes, version : Nat]]
      /\ mine \in [Addrs -> SUBSET Vnodes]
      /\ replica_status \in [Vnodes -> [Devices -> Statuses]]
      /\ addr \in [Devices -> Addrs \cup {NoAddr}]
  BY DEF EventInv, ReplicaInv, TypeInv, TypeOK, HandlerTypes, TableTypes, DeviceTypes
<1>2. ASSUME NEW a \in Addrs, \A b \in Addrs : b # a => resp'[b] = resp[b],
             \A u \in Range(resp'[a]) : u \in Range(resp[a]) \/ Fits(a, u)
      PROVE  AnswersFit'
  <2> SUFFICES ASSUME NEW b \in Addrs, NEW u \in Range(resp'[b]) PROVE Fits(b, u)'
    BY DEF AnswersFit
  <2>1. Fits(b, u)
    BY <1>2 DEF AnswersFit
  <2> QED
    BY <1>1, <2>1, FitsStays
<1>3. ASSUME UNCHANGED resp PROVE AnswersFit'
  <2> SUFFICES ASSUME NEW b \in Addrs, NEW u \in Range(resp'[b]) PROVE Fits(b, u)'
    BY DEF AnswersFit
  <2>1. Fits(b, u)
    BY <1>3 DEF AnswersFit
  <2> QED
    BY <1>1, <2>1, FitsStays
<1>4. ASSUME NEW a \in Addrs, NEW v \in Vnodes, NEW s \in Statuses, NEW dest \in Addrs \cup {NoAddr},
             Answer(a, v, s, dest),
             s = OFFLINE => Known(a) /\ v \notin Listing(a),
             IsSource(s) => Known(a) /\ v \in Listing(a)
      PROVE  AnswersFit'
  <2>1. PICK u : u = [vnode |-> v, status |-> s, dest |-> dest]
    OBVIOUS
  <2>2. u \in RespUnits /\ Fits(a, u)
    BY <1>4, <2>1 DEF RespUnits, Fits
  <2>3. resp' = [resp EXCEPT ![a] = Append(@, u)]
    BY <1>4, <2>1 DEF Answer
  <2>4. /\ \A b \in Addrs : b # a => resp'[b] = resp[b]
        /\ resp'[a] = Append(resp[a], u)
    BY <1>1, <2>3
  <2>5. Range(Append(resp[a], u)) = Range(resp[a]) \cup {u}
    BY <1>1, <2>2, RangeAppend
  <2> QED
    BY <1>2, <2>2, <2>4, <2>5
<1>5. ASSUME NEW a \in Addrs, pc[a] # "idle" PROVE Known(a) /\ DeviceAt(a) \in Devices
  BY <1>1, <1>5, DeviceAtType DEF Registered
<1>6. {ONLINE, WAIT_SYNC, ACTIVE, OFFLINE} \subseteq Statuses
      /\ \A s \in {ONLINE, WAIT_SYNC, ACTIVE} : ~IsSource(s) /\ s # OFFLINE
      /\ ~IsSource(OFFLINE)
  BY DEF Statuses, IsSource, INIT, ONLINE, WAIT_SYNC, ACTIVE, OFFLINE, COPY_SRC, MOVE_SRC
<1>7. ASSUME NEW a \in Addrs, Merge(a) PROVE AnswersFit'
  <2>1. ASSUME NEW r \in Reports, ReportStart(a, Units(r)) PROVE AnswersFit'
    BY <2>1, <1>3 DEF ReportStart
  <2>2. CASE ReportRelock(a)
    BY <2>2, <1>3 DEF ReportRelock
  <2>3. CASE ReportSync(a)
    <3> DEFINE v == event[a].vnode
               dev == DeviceAt(a)
    <3>1. pc[a] = "popped" /\ Answer(a, v, replica_status[v][dev], addr[event[a].dest])
      BY <2>3 DEF ReportSync
    <3>2. /\ v \in Vnodes /\ event[a].dest \in Devices /\ event[a].src = dev
          /\ Known(a) /\ dev \in Devices
      BY <1>1, <1>5, <3>1 DEF EventOK, HandsOK, LocalEvents
    <3>3. replica_status[v][dev] \in Statuses /\ replica_status[v][dev] # OFFLINE
      BY <1>1, <3>2 DEF NeverOffline
    <3>4. IsSource(replica_status[v][dev]) => v \in Listing(a)
      <4>1. up
        BY <2>3 DEF ReportSync
      <4>2. IsSource(replica_status[v][dev]) => replica_status[v][dev] = COPY_SRC
        BY <1>1, <3>2, <4>1 DEF IsSource, EventInv, ReplicaInv, NoMoves
      <4>3. IsSource(replica_status[v][dev]) => dev \in Holders(replica_list[v])
        BY <3>2, <4>2 DEF SourcesListed
      <4> QED
        BY <1>1, <3>2, <4>3 DEF ListsAgree, Listing
    <3>5. addr[event[a].dest] \in Addrs \cup {NoAddr}
      BY <1>1, <3>2
    <3> HIDE DEF v, dev
    <3> QED
      BY <1>4, <3>1, <3>2, <3>3, <3>4, <3>5
  <2>4. ASSUME NEW u \in report[a], ReportStranger(a, u) PROVE AnswersFit'
    <3>1. Answer(a, u.vnode, OFFLINE, NoAddr) /\ u.vnode \notin mine[a]
      BY <2>4 DEF ReportStranger
    <3>2. Known(a) /\ u.vnode \notin Listing(a) /\ u.vnode \in Vnodes
      BY <1>1, <3>1 DEF ReportedMine
    <3> QED
      BY <1>4, <1>6, <3>1, <3>2
  <2>5. ASSUME NEW v \in Vnodes, NEW s \in Statuses, Answer(a, v, s, NoAddr), s # OFFLINE, ~IsSource(s)
        PROVE  AnswersFit'
    BY <1>4, <2>5
  <2>6. ASSUME NEW u \in report[a], ReportSyncing(a, u) PROVE AnswersFit'
    <3> DEFINE s == replica_status[u.vnode][DeviceAt(a)]
    <3>1. /\ u.vnode \in Vnodes /\ s \in Statuses /\ s # OFFLINE
      BY <1>1, <1>5, <2>6 DEF ReportSyncing, NeverOffline
    <3>2. UNCHANGED resp \/ (~IsSource(s) /\ Answer(a, u.vnode, s, NoAddr))
      BY <2>6 DEF ReportSyncing
    <3> HIDE DEF s
    <3> QED
      BY <1>3, <2>5, <3>1, <3>2
  <2>7. ASSUME NEW u \in report[a], ReportStale(a, u) PROVE AnswersFit'
    <3>1. u.vnode \in Vnodes
      BY <1>1
    <3>2. UNCHANGED resp \/ Answer(a, u.vnode, ONLINE, NoAddr)
      BY <2>7 DEF ReportStale
    <3> QED
      BY <1>3, <1>6, <2>5, <3>1, <3>2
  <2>8. ASSUME NEW u \in report[a], ReportCurrent(a, u) PROVE AnswersFit'
    <3> DEFINE o == replica_status[u.vnode][DeviceAt(a)]
    <3>1. u.vnode \in Vnodes /\ o \in Statuses /\ o # OFFLINE
      BY <1>1, <1>5, <2>8 DEF ReportCurrent, NeverOffline
    <3>2. PICK s \in {ACTIVE, o} : Answer(a, u.vnode, s, NoAddr)
      BY <2>8 DEF ReportCurrent
    <3>3. ~IsSource(o)
      BY <2>8 DEF ReportCurrent, IsSource
    <3> HIDE DEF o
    <3> QED
      BY <1>6, <2>5, <3>1, <3>2, <3>3
  <2>9. CASE ReportPush(a)
    <3>1. Answer(a, event[a].vnode, WAIT_SYNC, NoAddr) /\ event[a].vnode \in Vnodes
      BY <1>1, <2>9 DEF ReportPush, LocalEvents
    <3> QED
      BY <1>6, <2>5, <3>1
  <2>10. ASSUME NEW v \in mine[a], ReportMissing(a, v) PROVE AnswersFit'
    <3> DEFINE s == replica_status[v][DeviceAt(a)]
    <3>1. /\ v \in Vnodes /\ s \in Statuses /\ s # OFFLINE
      BY <1>1, <1>5, <2>10 DEF ReportMissing, NeverOffline
    <3>2. UNCHANGED resp \/ (~IsSource(s) /\ Answer(a, v, s, NoAddr))
      BY <2>10 DEF ReportMissing
    <3> HIDE DEF s
    <3> QED
      BY <1>3, <2>5, <3>1, <3>2
  <2> QED
    BY <1>7, <2>1, <2>2, <2>3, <2>4, <2>6, <2>7, <2>8, <2>9, <2>10 DEF Merge
<1>8. ASSUME NEW a \in Addrs, Reply(a) PROVE AnswersFit'
  <2>1. resp' = [resp EXCEPT ![a] = <<>>]
    BY <1>8 DEF Reply, ReportReply
  <2>2. resp'[a] = <<>> /\ \A b \in Addrs : b # a => resp'[b] = resp[b]
    BY <1>1, <2>1
  <2> QED
    BY <1>2, <2>2, RangeEmpty
<1>9. ASSUME NEW a \in Addrs, (\E vs \in Batches : Finish(a, vs)) \/ SyncDown(a) PROVE AnswersFit'
  BY <1>3, <1>9 DEF Finish, SyncDownStart, SyncDown, SyncDownFind, SyncDownDest,
                    SyncDownSrc, SyncDownReply
<1>10. CASE Join \/ Read \/ UNCHANGED vars
  BY <1>3, <1>10 DEF Join, JoinStart, JoinMoveDies, JoinMoveNothing, JoinVnode, JoinPush, JoinDone,
              JoinFails, Read, ClientRead, vars, masterVars, handlerVars
<1> QED
  BY <1>7, <1>8, <1>9, <1>10 DEF Next

AnswersInv == EventInv /\ NeverOffline /\ SourcesListed /\ ReportedMine /\ AnswersFit

LEMMA AnswersInvHolds == Spec => []AnswersInv
<1>1. Init => AnswersInv
  <2> SUFFICES ASSUME Init PROVE AnswersInv
    OBVIOUS
  <2>1. \A v \in Vnodes, d \in Devices : replica_status[v][d] = INIT
    BY DEF Init, MasterInit
  <2>2. \A a \in Addrs : report[a] = {} /\ resp[a] = <<>>
    BY DEF Init, MasterInit
  <2> QED
    BY <2>1, <2>2, RangeEmpty, EventInvInit
    DEF AnswersInv, NeverOffline, SourcesListed, ReportedMine, AnswersFit, INIT, COPY_SRC, OFFLINE
<1>2. AnswersInv /\ [Next]_vars => AnswersInv'
  <2> SUFFICES ASSUME AnswersInv, [Next]_vars PROVE AnswersInv'
    OBVIOUS
  <2>1. /\ EventInv /\ ReplicaInv /\ TypeInv
        /\ NeverOffline /\ SourcesListed /\ ReportedMine /\ AnswersFit /\ [Next]_vars
    BY DEF AnswersInv, EventInv, ReplicaInv
  <2> QED
    BY <2>1, EventInvStep, NeverOfflineStep, SourcesListedStep, ReportedMineStep, AnswersFitStep
    DEF AnswersInv
<1> QED
  BY <1>1, <1>2, PTL DEF Spec

\* What a node was answered still fits what the master lists for it; a vnode to sync is
\* listed for it, so that no answer deletes it, and in its container.
MergesFit == \A a \in Addrs : \A u \in Range(units[a]) : Fits(a, u)
QueueKept == \A a \in Addrs : \A e \in Range(sync_queue[a]) :
    e.vnode \in DOMAIN container[a] /\ Known(a) /\ e.vnode \in Listing(a)

\* Steps that give no node a unit or a sync and take no vnode from a container.
LEMMA KeptStays ==
    ASSUME ReplicaInv, [Next]_vars, MergesFit, QueueKept,
           \A a \in Addrs : /\ Range(units'[a]) \subseteq Range(units[a])
                            /\ Range(sync_queue'[a]) \subseteq Range(sync_queue[a])
                            /\ \/ DOMAIN container[a] \subseteq DOMAIN container'[a]
                               \/ Range(sync_queue'[a]) = {}
    PROVE  MergesFit' /\ QueueKept'
<1>1. ASSUME NEW a \in Addrs, NEW u \in Range(units'[a]) PROVE Fits(a, u)'
  BY <1>1, FitsStays DEF MergesFit
<1>2. ASSUME NEW a \in Addrs, NEW e \in Range(sync_queue'[a])
      PROVE  e.vnode \in DOMAIN container'[a] /\ Known(a)' /\ e.vnode \in Listing(a)'
  BY <1>2, ListingStays DEF QueueKept
<1> QED
  BY <1>1, <1>2 DEF MergesFit, QueueKept

\* Merging a unit: one that deletes a vnode deletes none that is to be synced.
LEMMA KeptMerge ==
    ASSUME NodesTypeOK, ReplicaInv, [Next]_vars, MergesFit, QueueKept,
           NEW a \in Addrs, Node!MergeUnit(a)
    PROVE  MergesFit' /\ QueueKept'
<1> DEFINE u == Head(units[a])
           q == [vnode |-> u.vnode, dest |-> u.dest]
<1>1. /\ units \in [Addrs -> Seq(RespUnits)] /\ sync_queue \in [Addrs -> Seq(QueuedSyncs)]
      /\ container \in [Addrs -> Containers] /\ units[a] # <<>>
  BY DEF NodesTypeOK, Node!MergeUnit
<1>2. u \in RespUnits /\ u \in Range(units[a]) /\ Range(Tail(units[a])) \subseteq Range(units[a])
  BY <1>1, RangeTail, HeadTailProperties
<1>3. u.vnode \in Vnodes /\ u.status \in Statuses /\ q \in QueuedSyncs /\ q.vnode = u.vnode
  BY <1>2 DEF RespUnits, QueuedSyncs
<1>4. Fits(a, u)
  BY <1>2 DEF MergesFit
<1> HIDE DEF q
<1>5. /\ container' = [container EXCEPT ![a] = Node!Merged(@, u.vnode, u.status)]
      /\ sync_queue' = [sync_queue EXCEPT ![a] = IF IsSource(u.status) THEN Append(@, q) ELSE @]
      /\ units' = [units EXCEPT ![a] = Tail(@)]
  BY NodeStatuses DEF Node!MergeUnit, q
<1> HIDE DEF u
<1>6. /\ container'[a] = Node!Merged(container[a], u.vnode, u.status)
      /\ sync_queue'[a] = IF IsSource(u.status) THEN Append(sync_queue[a], q) ELSE sync_queue[a]
      /\ units'[a] = Tail(units[a])
      /\ \A b \in Addrs : b # a => /\ container'[b] = container[b] /\ units'[b] = units[b]
                                   /\ sync_queue'[b] = sync_queue[b]
  BY <1>1, <1>5
<1>7. ASSUME NEW b \in Addrs, NEW w \in Range(units'[b]) PROVE Fits(b, w)'
  <2>1. Fits(b, w)
    BY <1>2, <1>6, <1>7 DEF MergesFit
  <2> QED
    BY <2>1, FitsStays
<1>8. ASSUME NEW b \in Addrs, NEW e \in Range(sync_queue'[b])
      PROVE  e.vnode \in DOMAIN container'[b] /\ Known(b)' /\ e.vnode \in Listing(b)'
  <2>1. CASE b # a
    BY <1>6, <1>8, <2>1, ListingStays DEF QueueKept
  <2>2. CASE b = a
    <3>1. DOMAIN container'[a]
             = IF u.status = OFFLINE THEN DOMAIN container[a] \ {u.vnode}
               ELSE DOMAIN container[a] \cup {u.vnode}
      <4>1. container[a] \in Containers
        BY <1>1
      <4>2. DOMAIN Node!Merged(container[a], u.vnode, u.status)
               = IF u.status = OFFLINE THEN DOMAIN container[a] \ {u.vnode}
                 ELSE DOMAIN container[a] \cup {u.vnode}
        BY <1>3, <4>1, MergedType
      <4> QED
        BY <1>6, <4>2
    <3>2. CASE e \in Range(sync_queue[a])
      <4>1. e.vnode \in DOMAIN container[a] /\ Known(a) /\ e.vnode \in Listing(a)
        BY <3>2 DEF QueueKept
      <4>2. u.status = OFFLINE => u.vnode # e.vnode
        BY <1>4, <4>1 DEF Fits
      <4> QED
        BY <2>2, <3>1, <4>1, <4>2, ListingStays
    <3>3. CASE e \notin Range(sync_queue[a])
      <4>1. Range(Append(sync_queue[a], q)) = Range(sync_queue[a]) \cup {q}
        BY <1>1, <1>3, RangeAppend
      <4>2. IsSource(u.status) /\ e = q
        BY <1>6, <1>8, <2>2, <3>3, <4>1
      <4>3. u.status # OFFLINE
        BY <4>2 DEF IsSource, COPY_SRC, MOVE_SRC, OFFLINE
      <4>4. Known(a) /\ u.vnode \in Listing(a)
        BY <1>4, <4>2 DEF Fits
      <4> QED
        BY <1>3, <2>2, <3>1, <4>2, <4>3, <4>4, ListingStays
    <3> QED
      BY <3>2, <3>3
  <2> QED
    BY <2>1, <2>2
<1> QED
  BY <1>7, <1>8 DEF MergesFit, QueueKept

\* A response brings units that fit.
LEMMA KeptRespond ==
    ASSUME NodesTypeOK, ReplicaInv, [Next]_vars, AnswersFit, MergesFit, QueueKept,
           NEW a \in Addrs, Respond(a)
    PROVE  MergesFit' /\ QueueKept'
<1>1. /\ UNCHANGED <<sync_queue, container>>
      /\ units' = units \/ units' = [units EXCEPT ![a] = resp[a]]
      /\ units \in [Addrs -> Seq(RespUnits)]
  BY DEF Respond, Node!NodeResponse, Node!syncVars, NodesTypeOK
<1>2. \A b \in Addrs : units'[b] = units[b] \/ (b = a /\ units'[b] = resp[b])
  BY <1>1
<1>3. ASSUME NEW b \in Addrs, NEW u \in Range(units'[b]) PROVE Fits(b, u)'
  <2>1. Fits(b, u)
    BY <1>2, <1>3 DEF MergesFit, AnswersFit
  <2> QED
    BY <2>1, FitsStays
<1>4. ASSUME NEW b \in Addrs, NEW e \in Range(sync_queue'[b])
      PROVE  e.vnode \in DOMAIN container'[b] /\ Known(b)' /\ e.vnode \in Listing(b)'
  BY <1>1, <1>4, ListingStays DEF QueueKept
<1> QED
  BY <1>3, <1>4 DEF MergesFit, QueueKept

LEMMA KeptSyncs ==
    ASSUME NodesTypeOK, ReplicaInv, [Next]_vars, MergesFit, QueueKept, NEW a \in Addrs,
           \/ Syncs(a) \/ Uploads(a) \/ Node!NodeCrash(a) \/ Node!SyncTimeout(a)
    PROVE  MergesFit' /\ QueueKept'
<1>1. /\ units \in [Addrs -> Seq(RespUnits)] /\ sync_queue \in [Addrs -> Seq(QueuedSyncs)]
      /\ container \in [Addrs -> Containers] /\ SyncerTypes
  BY DEF NodesTypeOK
<1>2. CASE Node!SyncSend(a) \/ Node!SyncUnreachable(a)
  <2>1. /\ UNCHANGED <<units, container>> /\ sync_queue[a] # <<>>
        /\ sync_queue' = [sync_queue EXCEPT ![a] = Tail(@)]
    BY <1>2 DEF Node!SyncSend, Node!SyncUnreachable, Node!beatVars
  <2>2. Range(Tail(sync_queue[a])) \subseteq Range(sync_queue[a])
    BY <1>1, <2>1, RangeTail
  <2>3. \A b \in Addrs : Range(sync_queue'[b]) \subseteq Range(sync_queue[b])
    BY <1>1, <2>1, <2>2
  <2> QED
    BY <2>1, <2>3, KeptStays
<1>3. CASE Node!FileCheck(a)
  <2> DEFINE v == syncer[a].vnode
             d == syncer[a].dest
             n == syncer[a].version
  <2>1. /\ syncer[a].pc = "check" /\ UNCHANGED <<units, sync_queue>>
        /\ container' = [container EXCEPT ![d] = Node!Checked(@, v, n)]
    BY <1>3 DEF Node!FileCheck, Node!beatVars
  <2>2. v \in Vnodes /\ d \in Addrs /\ n \in Version
    BY <1>1, <2>1 DEF SyncerTypes
  <2> HIDE DEF v, d, n
  <2>3. DOMAIN Node!Checked(container[d], v, n) = DOMAIN container[d] \cup {v}
    BY <1>1, <2>2, CheckedType
  <2>4. \A b \in Addrs : DOMAIN container[b] \subseteq DOMAIN container'[b]
    BY <1>1, <2>1, <2>2, <2>3
  <2> QED
    BY <2>1, <2>4, KeptStays
<1>4. CASE Node!SyncPush(a) \/ Node!SyncTimeout(a)
  <2>1. UNCHANGED <<units, sync_queue, container>>
    BY <1>4 DEF Node!SyncPush, Node!SyncTimeout, Node!beatVars
  <2> QED
    BY <2>1, KeptStays
<1>5. ASSUME NEW v \in Vnodes, Node!UploadStart(a, v) \/ Node!UploadFails(a, v)
      PROVE  MergesFit' /\ QueueKept'
  <2>1. UNCHANGED <<units, sync_queue, container>>
    BY <1>5 DEF Node!UploadStart, Node!UploadFails, Node!beatVars, Node!syncVars
  <2> QED
    BY <2>1, KeptStays
<1>6. ASSUME NEW v \in Vnodes, Node!UploadEnd(a, v) PROVE MergesFit' /\ QueueKept'
  <2>1. /\ UNCHANGED <<units, sync_queue>>
        /\ container' = [container EXCEPT ![a][v].version = @ + 1]
    BY <1>6 DEF Node!UploadEnd, Node!beatVars, Node!syncVars
  <2>2. \A b \in Addrs : DOMAIN container'[b] = DOMAIN container[b]
    BY <1>1, <2>1
  <2> QED
    BY <2>1, <2>2, KeptStays
<1>7. CASE Node!NodeCrash(a)
  <2>1. /\ units' = [units EXCEPT ![a] = <<>>]
        /\ container' = [container EXCEPT ![a] = Node!NoVnode]
        /\ sync_queue' = [sync_queue EXCEPT ![a] = <<>>]
    BY <1>7 DEF Node!NodeCrash
  <2>2. /\ units'[a] = <<>> /\ sync_queue'[a] = <<>>
        /\ \A b \in Addrs : b # a => /\ units'[b] = units[b] /\ container'[b] = container[b]
                                     /\ sync_queue'[b] = sync_queue[b]
    BY <1>1, <2>1
  <2> QED
    BY <2>2, RangeEmpty, KeptStays
<1> QED
  BY <1>2, <1>3, <1>4, <1>5, <1>6, <1>7 DEF Syncs, Uploads

LEMMA KeptStep ==
    ASSUME NodesTypeOK, ReplicaInv, [Next]_vars, AnswersFit, MergesFit, QueueKept, [SysNext]_sysVars
    PROVE  MergesFit' /\ QueueKept'
<1>1. ASSUME UNCHANGED <<units, sync_queue, container>> PROVE MergesFit' /\ QueueKept'
  BY <1>1, KeptStays
<1>2. ASSUME NEW a \in Addrs, NodeStep(a) PROVE MergesFit' /\ QueueKept'
  <2>1. CASE Start(a) \/ Node!NodeBeat(a) \/ Node!MergeDone(a)
    <3>1. UNCHANGED <<units, sync_queue, container>>
      BY <2>1 DEF Start, Node!NodeStart, Node!NodeBeat, Node!MergeDone, Node!syncVars
    <3> QED
      BY <1>1, <3>1
  <2> QED
    BY <1>2, <2>1, KeptMerge, KeptSyncs DEF NodeStep, Beats
<1>3. ASSUME NEW a \in Addrs, Fault(a) PROVE MergesFit' /\ QueueKept'
  <2>1. CASE Node!BeatTimeout(a)
    <3>1. UNCHANGED <<units, sync_queue, container>>
      BY <2>1 DEF Node!BeatTimeout, Node!syncVars
    <3> QED
      BY <1>1, <3>1
  <2> QED
    BY <1>3, <2>1, KeptSyncs DEF Fault
<1>4. ASSUME NEW a \in Addrs, MasterStep(a), ~Respond(a) PROVE MergesFit' /\ QueueKept'
  <2>1. UNCHANGED <<units, sync_queue, container>>
    BY <1>4 DEF MasterStep, JoinTaken, Joined, BeatTaken, MergeReport, FinishTaken, FinishTurn,
                FinishAnswer, Node!Taken, Node!NodeJoined, Node!NodeDownAnswered, Node!syncVars,
                nodeVars
  <2> QED
    BY <1>1, <2>1
<1>5. CASE JoinTurn \/ UNCHANGED sysVars
  <2>1. UNCHANGED <<units, sync_queue, container>>
    BY <1>5 DEF JoinTurn, sysVars, nodeVars
  <2> QED
    BY <1>1, <2>1
<1> QED
  BY <1>2, <1>3, <1>4, <1>5, KeptRespond DEF SysNext

\* The vnode of a queued sync is in the node's container until the sync thread reads
\* its version through the pointer get_vnode() gives it: answers that delete a vnode and
\* answers that make a source of it never cross, whatever the other handlers, the file
\* checks, the crashes and the timeouts do in between.
THEOREM SyncedVnodesKept == ASSUME Seq(Vnodes) \ {<<>>} \subseteq Batches
                            PROVE  SysSpec => []SyncedVnodeKept
<1>1. SysInit => MergesFit /\ QueueKept
  <2> SUFFICES ASSUME SysInit PROVE MergesFit /\ QueueKept
    OBVIOUS
  <2>1. \A a \in Addrs : units[a] = <<>> /\ sync_queue[a] = <<>>
    BY DEF SysInit, Node!NodeInit
  <2> QED
    BY <2>1, RangeEmpty DEF MergesFit, QueueKept
<1>2. NodesInv /\ AnswersInv /\ MergesFit /\ QueueKept /\ [SysNext]_sysVars
         => MergesFit' /\ QueueKept'
  <2> SUFFICES ASSUME NodesInv, AnswersInv, MergesFit, QueueKept, [SysNext]_sysVars
               PROVE  MergesFit' /\ QueueKept'
    OBVIOUS
  <2>1. /\ TypeInv /\ NodesTypeOK /\ InHandOwed /\ ReplicaInv /\ AnswersFit /\ [SysNext]_sysVars
    BY DEF NodesInv, AnswersInv, EventInv
  <2>2. [Next]_vars
    BY <2>1, StepMaps
  <2> QED
    BY <2>1, <2>2, KeptStep
<1>3. NodesInv /\ QueueKept => SyncedVnodeKept
  <2> SUFFICES ASSUME NodesInv, QueueKept, NEW a \in Addrs, NEW i \in 1..Len(sync_queue[a])
               PROVE  sync_queue[a][i].vnode \in DOMAIN container[a]
    BY DEF SyncedVnodeKept
  <2>1. sync_queue[a] \in Seq(QueuedSyncs)
    BY DEF NodesInv, NodesTypeOK
  <2>2. sync_queue[a][i] \in Range(sync_queue[a])
    BY <2>1, RangeIsHolders DEF Holders
  <2> QED
    BY <2>2 DEF QueueKept
<1>4. SysSpec => []AnswersInv
  BY SystemImplementsMaster, AnswersInvHolds, PTL DEF MasterRefined
<1> QED
  BY <1>1, <1>2, <1>3, <1>4, NodesInvHolds, PTL DEF SysSpec
=============================================================================
