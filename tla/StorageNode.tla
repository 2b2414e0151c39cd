----------------------------- MODULE StorageNode -----------------------------
(***************************************************************************)
(* A storage node as the master and the other nodes see it: the thread that *)
(* beats to the master (thread_beat_heart.cpp), the thread that syncs vnodes *)
(* to other nodes (thread_sync_data.cpp), the vnode container they share    *)
(* (vnode_info.cpp) and the handlers of file checks and uploads             *)
(* (storage_msg_parser.cpp).  Every variable is a function of the address.  *)
(*                                                                          *)
(* The beat thread talks to the master over one connection and waits for    *)
(* every answer, so at most one request of a node is on its way.  A sync    *)
(* changes the version of the destination's vnode and no file: the table of *)
(* hash codes it goes by is never written by an upload.                     *)
(***************************************************************************)
EXTENDS VnodeInfo

CONSTANTS Addrs,       \* the addresses of the storage nodes
          MaxVersion   \* bound: versions reached by uploads

VARIABLES
  beat,        \* the beat thread: "off" (no process), "join" and "wait" and "down"
               \* (waiting for the answer to a join, a beat, a sync-down), "rest",
               \* "merge" (going through the response), "dead" (it returned)
  msg,         \* the request on its way to the master
  units,       \* the response units not yet merged
  container,   \* g_pstorage_vnode_container: vnode_id -> status and version
  sync_queue,  \* m_psync_msg_queue: the events to sync
  syncer,      \* the sync thread: the event in its hands and how far it is
  sync_down,   \* g_sync_down_queue: vnodes whose sync is finished
  uploads      \* the vnodes with an upload that passed its status check

beatVars == <<beat, msg, units>>
syncVars == <<sync_queue, syncer, sync_down>>
nodeVars == <<beatVars, syncVars, container, uploads>>

NoMsg   == [kind |-> "none"]
NoSync  == [pc |-> "idle"]
NoVnode == [v \in {} |-> {}]   \* the empty container

NodeInit == /\ beat = [a \in Addrs |-> "off"]
            /\ msg = [a \in Addrs |-> NoMsg]
            /\ units = [a \in Addrs |-> <<>>]
            /\ container = [a \in Addrs |-> NoVnode]
            /\ sync_queue = [a \in Addrs |-> <<>>]
            /\ syncer = [a \in Addrs |-> NoSync]
            /\ sync_down = [a \in Addrs |-> <<>>]
            /\ uploads = [a \in Addrs |-> {}]

Running(a) == beat[a] # "off"

-----------------------------------------------------------------------------
(* The beat thread.                                                          *)

\* The process starts over an emptied device root and asks to join.
NodeStart(a) ==
    /\ ~Running(a)
    /\ msg[a] = NoMsg
    /\ beat' = [beat EXCEPT ![a] = "join"]
    /\ msg' = [msg EXCEPT ![a] = [kind |-> "join"]]
    /\ UNCHANGED <<units, syncVars, container, uploads>>

\* What report_vnode_info() says of the container.
Report(c) == {[vnode |-> v, version |-> c[v].version] : v \in DOMAIN c}

NodeBeat(a) ==
    /\ beat[a] = "rest"
    /\ beat' = [beat EXCEPT ![a] = "wait"]
    /\ msg' = [msg EXCEPT ![a] = [kind |-> "beat", units |-> Report(container[a])]]
    /\ UNCHANGED <<units, syncVars, container, uploads>>

\* The master takes the request.
Taken(a) == /\ msg' = [msg EXCEPT ![a] = NoMsg]
            /\ UNCHANGED <<beat, units, syncVars, container, uploads>>

\* The answer to a join arrives, unless nobody waits for it any more.
NodeJoined(a, joined) ==
    /\ beat' = [beat EXCEPT ![a] = IF @ # "join" THEN @
                                   ELSE IF joined THEN "rest" ELSE "dead"]
    /\ UNCHANGED <<msg, units, syncVars, container, uploads>>

\* Mutant: the body of an empty response is waited for.
NodeResponseBlocks(a, resp) ==
    /\ IF beat[a] # "wait" \/ resp = <<>> THEN UNCHANGED <<beat, units>>
       ELSE /\ beat' = [beat EXCEPT ![a] = "merge"]
            /\ units' = [units EXCEPT ![a] = resp]
    /\ UNCHANGED <<msg, syncVars, container, uploads>>

\* The response to a beat arrives.  One without a body ends the turn of the loop
\* (`continue') before the sync-down report.
NodeResponse(a, resp) ==
    /\ IF beat[a] # "wait" THEN UNCHANGED <<beat, units>>
       ELSE /\ beat' = [beat EXCEPT ![a] = IF resp = <<>> THEN "rest" ELSE "merge"]
            /\ units' = [units EXCEPT ![a] = resp]
    /\ UNCHANGED <<msg, syncVars, container, uploads>>

\* Mutant: only vnodes the container has are merged.
MergedKnown(c, v, s) ==
    IF s = OFFLINE THEN Restrict(c, DOMAIN c \ {v})
    ELSE IF v \notin DOMAIN c THEN c ELSE [c EXCEPT ![v].status = s]

\* merge_vnode_status()
Merged(c, v, s) ==
    IF s = OFFLINE THEN Restrict(c, DOMAIN c \ {v})
    ELSE [w \in DOMAIN c \cup {v} |->
             IF w # v THEN c[w]
             ELSE [status |-> s, version |-> IF v \in DOMAIN c THEN c[v].version ELSE 0]]

\* One unit of the response; a source's is an event for the sync thread.
MergeUnit(a) ==
    LET u == Head(units[a])
    IN  /\ beat[a] = "merge"
        /\ units[a] # <<>>
        /\ container' = [container EXCEPT ![a] = Merged(@, u.vnode, u.status)]
        /\ sync_queue' = [sync_queue EXCEPT
               ![a] = IF IsSource(u.status)
                      THEN Append(@, [vnode |-> u.vnode, dest |-> u.dest]) ELSE @]
        /\ units' = [units EXCEPT ![a] = Tail(@)]
        /\ UNCHANGED <<beat, msg, syncer, sync_down, uploads>>

\* Mutant: the queue is reported but not emptied.
MergeDoneKeeps(a) ==
    /\ beat[a] = "merge"
    /\ units[a] = <<>>
    /\ IF sync_down[a] = <<>>
       THEN /\ beat' = [beat EXCEPT ![a] = "rest"]
            /\ UNCHANGED <<msg, sync_down>>
       ELSE /\ beat' = [beat EXCEPT ![a] = "down"]
            /\ msg' = [msg EXCEPT ![a] = [kind |-> "down", vnodes |-> sync_down[a]]]
            /\ UNCHANGED sync_down
    /\ UNCHANGED <<units, sync_queue, syncer, container, uploads>>

\* All units are merged: the finished syncs, if any, are reported.
\* g_sync_down_rwlock is held until the answer.
MergeDone(a) ==
    /\ beat[a] = "merge"
    /\ units[a] = <<>>
    /\ IF sync_down[a] = <<>>
       THEN /\ beat' = [beat EXCEPT ![a] = "rest"]
            /\ UNCHANGED <<msg, sync_down>>
       ELSE /\ beat' = [beat EXCEPT ![a] = "down"]
            /\ msg' = [msg EXCEPT ![a] = [kind |-> "down", vnodes |-> sync_down[a]]]
            /\ sync_down' = [sync_down EXCEPT ![a] = <<>>]
    /\ UNCHANGED <<units, sync_queue, syncer, container, uploads>>

NodeDownAnswered(a) ==
    /\ beat' = [beat EXCEPT ![a] = IF @ = "down" THEN "rest" ELSE @]
    /\ UNCHANGED <<msg, units, syncVars, container, uploads>>

\* No answer within g_ntimeout: the beat thread returns, the process goes on.
BeatTimeout(a) ==
    /\ beat[a] \in {"join", "wait", "down"}
    /\ beat' = [beat EXCEPT ![a] = "dead"]
    /\ UNCHANGED <<msg, units, syncVars, container, uploads>>

-----------------------------------------------------------------------------
(* The sync thread and the file check it sends to the destination.           *)

\* do_sync_event() connects and sends the version of the source's vnode.
SyncSend(a) ==
    LET e == Head(sync_queue[a])
    IN  /\ Running(a)
        /\ syncer[a].pc = "idle"
        /\ sync_queue[a] # <<>>
        /\ e.dest \in Addrs /\ Running(e.dest)
        /\ e.vnode \in DOMAIN container[a]
        /\ sync_queue' = [sync_queue EXCEPT ![a] = Tail(@)]
        /\ syncer' = [syncer EXCEPT ![a] =
               [pc |-> "check", vnode |-> e.vnode, dest |-> e.dest,
                version |-> container[a][e.vnode].version]]
        /\ UNCHANGED <<beatVars, sync_down, container, uploads>>

\* Nobody answers at the destination, or the source has no such vnode: the thread
\* returns and the events still queued are never looked at.
SyncUnreachable(a) ==
    LET e == Head(sync_queue[a])
    IN  /\ Running(a)
        /\ syncer[a].pc = "idle"
        /\ sync_queue[a] # <<>>
        /\ \/ e.dest \notin Addrs \/ ~Running(e.dest)
           \/ e.vnode \notin DOMAIN container[a]
        /\ sync_queue' = [sync_queue EXCEPT ![a] = Tail(@)]
        /\ syncer' = [syncer EXCEPT ![a] = [pc |-> "dead"]]
        /\ UNCHANGED <<beatVars, sync_down, container, uploads>>

\* msg_file_check_handle(): the version a destination keeps.  It compares its own
\* new status with the version it was sent.
Checked(c, v, ver) ==
    [w \in DOMAIN c \cup {v} |->
        IF w # v THEN c[w]
        ELSE [status |-> WAIT_SYNC,
              version |-> IF v \in DOMAIN c /\ ver = WAIT_SYNC THEN c[v].version ELSE ver]]

\* The destination handles the file check of the node a, and answers.
FileCheck(a) ==
    LET s == syncer[a]
    IN  /\ s.pc = "check"
        /\ Running(s.dest)
        /\ container' = [container EXCEPT ![s.dest] = Checked(@, s.vnode, s.version)]
        /\ syncer' = [syncer EXCEPT ![a] = [pc |-> "push", vnode |-> s.vnode]]
        /\ UNCHANGED <<beatVars, sync_queue, sync_down, uploads>>

\* The sync is finished; the beat thread may hold the lock of the queue.
SyncPush(a) ==
    /\ syncer[a].pc = "push"
    /\ beat[a] # "down"
    /\ sync_down' = [sync_down EXCEPT ![a] = Append(@, syncer[a].vnode)]
    /\ syncer' = [syncer EXCEPT ![a] = NoSync]
    /\ UNCHANGED <<beatVars, sync_queue, container, uploads>>

\* The destination is gone before it answered, or too slow: the thread returns.
SyncTimeout(a) ==
    /\ syncer[a].pc \in {"check", "push"}
    /\ syncer' = [syncer EXCEPT ![a] = [pc |-> "dead"]]
    /\ UNCHANGED <<beatVars, sync_queue, sync_down, container, uploads>>

-----------------------------------------------------------------------------
(* Clients.                                                                  *)

\* An upload is let in by the local status of the vnode ...
UploadStart(a, v) ==
    /\ Running(a)
    /\ v \in DOMAIN container[a]
    /\ v \notin uploads[a]
    /\ container[a][v].status = ACTIVE
    /\ container[a][v].version < MaxVersion
    /\ uploads' = [uploads EXCEPT ![a] = @ \cup {v}]
    /\ UNCHANGED <<beatVars, syncVars, container>>

\* ... and counts, once the file is received, whatever the status is by then.
UploadEnd(a, v) ==
    /\ v \in uploads[a]
    /\ v \in DOMAIN container[a]
    /\ container[a][v].version < MaxVersion
    /\ container' = [container EXCEPT ![a][v].version = @ + 1]
    /\ uploads' = [uploads EXCEPT ![a] = @ \ {v}]
    /\ UNCHANGED <<beatVars, syncVars>>

\* The directory or the file cannot be written: an error is answered, nothing counted.
UploadFails(a, v) ==
    /\ v \in uploads[a]
    /\ uploads' = [uploads EXCEPT ![a] = @ \ {v}]
    /\ UNCHANGED <<beatVars, syncVars, container>>

-----------------------------------------------------------------------------
\* The process dies: the next one starts from nothing.  A request on its way to
\* the master may be lost with it.
NodeCrash(a) ==
    /\ Running(a)
    /\ beat' = [beat EXCEPT ![a] = "off"]
    /\ \E m \in {msg[a], NoMsg} : msg' = [msg EXCEPT ![a] = m]
    /\ units' = [units EXCEPT ![a] = <<>>]
    /\ container' = [container EXCEPT ![a] = NoVnode]
    /\ sync_queue' = [sync_queue EXCEPT ![a] = <<>>]
    /\ syncer' = [syncer EXCEPT ![a] = NoSync]
    /\ sync_down' = [sync_down EXCEPT ![a] = <<>>]
    /\ uploads' = [uploads EXCEPT ![a] = {}]
=============================================================================
