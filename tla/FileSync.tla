------------------------------ MODULE FileSync ------------------------------
(***************************************************************************)
(* A sync from the inside: what check_and_sync_vnode() of the source       *)
(* (thread_sync_data.cpp) and msg_file_check_handle() and                  *)
(* msg_file_sync_handle() of the destination (storage_msg_parser.cpp) do   *)
(* with the hash tables and the files of one vnode, while the beat threads *)
(* of both ends merge what the master says.  KunlunSync sees a sync as two *)
(* steps; this module opens them, and leaves the version of a record to    *)
(* KunlunSync.                                                             *)
(*                                                                         *)
(* Every source has one stream to the destination and one sync; two        *)
(* sources of one vnode are what the master makes when it gives up the     *)
(* first.  The tables the program starts from may hold records: an upload  *)
(* writes none, a file check of another implementation's peer does.  Files *)
(* are empty or absent (see Upload), the three databases that are compared *)
(* as files are empty on both sides and stand as the one path DB, and      *)
(* every data file lies in the same directory.                             *)
(***************************************************************************)
EXTENDS VnodeInfo

CONSTANTS
  Sources,       \* the source nodes
  Data,          \* the data files
  SourceTables,  \* what the sources' tables of hash codes may be: SourceTables[s] is a set
                 \* of functions from paths
  DestTables,    \* the tables the destination may have before
  Versions,      \* Versions[s]: the versions source s may be at
  Told,          \* the statuses the master may tell the destination
  MaxTurns,      \* bound: how often the master changes its mind, a source loses its
                 \* vnode or the destination dies, together
  DB, NOFILE, ROOT  \* a database; paths in the unset slots: no such file, the empty path

ASSUME FileSyncAssumption ==
  /\ \A t \in (UNION {SourceTables[s] : s \in Sources}) \cup DestTables : DOMAIN t \subseteq Data
  /\ Versions \in [Sources -> SUBSET Nat] /\ Told \subseteq Statuses /\ MaxTurns \in Nat
  /\ Data \cap {DB, NOFILE, ROOT} = {}

VARIABLES
  src,    \* src[s]: the sync thread of the source
  have,   \* have[s]: the source's vnode, its table and its files
  wire,   \* wire[s]: the requests and the answers on the sync stream
  recs,   \* the statuses of the vnode's records in the destination's m_vnode_list
  disk,   \* the directory of the destination's vnode
  job,    \* job[s]: the handler of a message that came on the stream
  told,   \* the status the master answers beats with
  turns,  \* how often it, or a node's fortune, changed
  up,     \* the destination's process lives
  gone    \* history: gone[s]: the paths removed at the destination since the sync began

vars == <<src, have, wire, recs, disk, job, told, turns, up, gone>>
destVars == <<recs, disk, job, up, gone>>
masterVars == <<told, turns>>

Paths == Data \cup {DB, NOFILE, ROOT}
Idle == [pc |-> "idle"]
NoTable == [p \in {} |-> {}]
NoDir == [dbs |-> "none", table |-> NoTable, files |-> {}, dir |-> FALSE]

Turn == turns < MaxTurns /\ turns' = turns + 1

\* The sync thread with nothing in its hands.
Sync(pc) == [pc |-> pc, list |-> NoTable, count |-> 0, i |-> 0,
             slot |-> NOFILE, at |-> NOFILE, missing |-> {}]

Init ==
  /\ src = [s \in Sources |-> Sync("idle")]
  /\ \E table \in [Sources -> UNION {SourceTables[s] : s \in Sources}] :
       /\ \A s \in Sources : table[s] \in SourceTables[s]
       /\ have = [s \in Sources |-> [vnode |-> TRUE, table |-> table[s], files |-> DOMAIN table[s]]]
  /\ wire = [s \in Sources |-> [req |-> <<>>, resp |-> <<>>]]
  /\ \/ recs = <<>> /\ disk = NoDir
     \/ /\ recs = <<WAIT_SYNC>>
        /\ \E t \in DestTables, d \in BOOLEAN :
             \E f \in SUBSET (IF d THEN DOMAIN t ELSE {}) :
               disk = [dbs |-> "all", table |-> t, files |-> f, dir |-> d]
  /\ job = [s \in Sources |-> Idle]
  /\ told = WAIT_SYNC /\ turns = 0 /\ up = TRUE
  /\ gone = [s \in Sources |-> {}]

-----------------------------------------------------------------------------
(* The sync thread of the source.                                            *)

Ended(s) == src[s].pc \in {"ok", "failed", "crashed"}

\* A sync that is done: what it was about is kept for the properties.
Done(s) == [Sync("ok") EXCEPT !.list = src[s].list,
                              !.missing = IF Cardinality(src[s].missing) = 1 THEN src[s].missing ELSE {}]

Goes(s, pc) ==
  src' = [src EXCEPT ![s] = IF pc \in {"failed", "crashed"} THEN Sync(pc) ELSE [@ EXCEPT !.pc = pc]]
Request(s, r) == wire' = [wire EXCEPT ![s].req = Append(@, r)]

\* do_sync_event() connects; all records of hashcode.db are read, if the beat thread has
\* not removed it.
SyncStart(s) ==
  /\ src[s].pc = "idle"
  /\ src' = [src EXCEPT ![s] = IF up /\ have[s].vnode
                               THEN [@ EXCEPT !.pc = "version", !.list = have[s].table]
                               ELSE Sync("failed")]
  /\ UNCHANGED <<have, wire, destVars, masterVars>>

\* get_vnode() is not compared with NULL.
ReadVersion(s) ==
  /\ src[s].pc = "version"
  /\ Goes(s, IF have[s].vnode THEN "hash" ELSE "crashed")
  /\ UNCHANGED <<have, wire, destVars, masterVars>>

\* The three databases are hashed and the check is sent.
SendCheck(s) ==
  /\ src[s].pc = "hash"
  /\ IF have[s].vnode
     THEN /\ Goes(s, "wait")
          /\ \E v \in Versions[s] : Request(s, [kind |-> "check", list |-> src[s].list, version |-> v])
     ELSE Goes(s, "failed") /\ UNCHANGED wire
  /\ UNCHANGED <<have, destVars, masterVars>>

Taken(s) == wire' = [wire EXCEPT ![s].resp = Tail(@)]

\* The answer to the check: an error, nothing to do, or the files to send.
TakeChecked(s) ==
  /\ src[s].pc = "wait" /\ wire[s].resp # <<>>
  /\ LET a == Head(wire[s].resp)
     IN src' = [src EXCEPT ![s] =
          IF ~ a.ok THEN Sync("failed")
          ELSE IF a.count = 0 THEN Done(s)
          ELSE [@ EXCEPT !.pc = "send", !.count = a.count, !.slot = a.slot, !.missing = a.missing]]
  /\ Taken(s)
  /\ gone' = [gone EXCEPT ![s] = IF Cardinality(src'[s].missing) = 1 THEN @ \cap src'[s].missing ELSE {}]
  /\ UNCHANGED <<have, recs, disk, job, up, masterVars>>

\* The paths sync_vnode_file() can open; the empty one is the device root.
Opens(s) == {DB, ROOT} \cup (IF have[s].vnode THEN have[s].files ELSE {})

\* sync_vnode_file(): only the first slot of the answer was written, the others hold
\* what was in memory.
SendFile(s) ==
  /\ src[s].pc = "send"
  /\ \E p \in IF src[s].i = 0 THEN {src[s].slot} ELSE Paths :
       /\ src' = [src EXCEPT ![s] = IF p \in Opens(s) \ {ROOT} THEN [@ EXCEPT !.pc = "file", !.at = p]
                                    ELSE Sync("failed")]
       /\ IF p \in Opens(s) THEN Request(s, [kind |-> "file", path |-> p]) ELSE UNCHANGED wire
  /\ UNCHANGED <<have, destVars, masterVars>>

\* The file in slot i was sent: the next one, unless it was the last.
NextFile(s, last) == IF src[s].i = last THEN Done(s) ELSE [src[s] EXCEPT !.pc = "send", !.i = @ + 1]

\* A plausible slip: what the destination answers to a file is not looked at.
TakeFiledUnchecked(s) ==
  /\ src[s].pc = "file" /\ wire[s].resp # <<>>
  /\ src' = [src EXCEPT ![s] = NextFile(s, src[s].count - 1)]
  /\ Taken(s)
  /\ UNCHANGED <<have, destVars, masterVars>>

TakeFiled(s) ==
  /\ src[s].pc = "file" /\ wire[s].resp # <<>>
  /\ src' = [src EXCEPT ![s] = IF Head(wire[s].resp).ok THEN NextFile(s, src[s].count - 1) ELSE Sync("failed")]
  /\ Taken(s)
  /\ UNCHANGED <<have, destVars, masterVars>>

\* A plausible slip: a file whose answer is late is passed over.
SyncTimeoutSkips(s) ==
  /\ src[s].pc \in {"wait", "file"}
  /\ src' = [src EXCEPT ![s].pc = IF src[s].pc = "file" /\ src[s].i + 1 < src[s].count
                                  THEN "send" ELSE "failed", ![s].i = @ + 1]
  /\ UNCHANGED <<have, wire, destVars, masterVars>>

\* g_ntimeout passes without the answer: the sync fails and the stream is closed.
SyncTimeout(s) ==
  /\ src[s].pc \in {"wait", "file"}
  /\ Goes(s, "failed")
  /\ UNCHANGED <<have, wire, destVars, masterVars>>

\* The source's beat thread merges OFFLINE: delete_vnode() of its vnode.
SourceLoses(s) ==
  /\ have[s].vnode /\ ~ Ended(s) /\ Turn
  /\ have' = [have EXCEPT ![s] = [vnode |-> FALSE, table |-> NoTable, files |-> {}]]
  /\ UNCHANGED <<src, wire, destVars, told>>

SyncThread(s) ==
  \/ SyncStart(s) \/ ReadVersion(s) \/ SendCheck(s)
  \/ TakeChecked(s) \/ SendFile(s) \/ TakeFiled(s) \/ SyncTimeout(s)

-----------------------------------------------------------------------------
(* The handlers at the destination.                                          *)

Job(req, pc) == [pc |-> pc, req |-> req, stale |-> FALSE, todo |-> {}, path |-> NOFILE,
                 left |-> {}, missing |-> {}, slot |-> NOFILE, ok |-> TRUE, done |-> FALSE]

At(s, pc) == up /\ job[s].pc = pc
Goto(s, pc) == job' = [job EXCEPT ![s].pc = pc]
Refuses(s) == job' = [job EXCEPT ![s] = [Job(job[s].req, "answer") EXCEPT !.ok = FALSE]]

\* Messages of one stream are handled one after the other.  A source's check has a legal
\* length.  rdlock(), get_vnode(), unlock(): the first record is the vnode.
TakeRequest(s) ==
  /\ At(s, "idle") /\ wire[s].req # <<>>
  /\ LET r == Head(wire[s].req)
     IN job' = [job EXCEPT ![s] =
          Job(r, IF r.kind = "file" THEN "write" ELSE IF recs = <<>> THEN "add" ELSE "mark")]
  /\ wire' = [wire EXCEPT ![s].req = Tail(@)]
  /\ UNCHANGED <<src, have, recs, disk, up, gone, masterVars>>

\* The status is written through the pointer, without the lock.  A record deleted meanwhile
\* is no longer of use to anybody (see DestDies).  The status just set, and not the version,
\* is compared with the version sent.
Mark(s) ==
  /\ At(s, "mark")
  /\ recs' = IF job[s].stale THEN recs ELSE [recs EXCEPT ![1] = WAIT_SYNC]
  /\ Goto(s, IF job[s].req.version = WAIT_SYNC THEN "answer" ELSE "query")
  /\ UNCHANGED <<src, have, wire, disk, up, gone, masterVars>>

\* add_vnode(): the record goes into the list first; then the directories and the
\* databases are those that are not there, unless the disk fails.
AddVnode(status, dbs) ==
  /\ recs' = Append(recs, status)
  /\ dbs \in {disk.dbs, "some", "all"} /\ (disk.dbs = "all" => dbs = "all")
  /\ disk' = [disk EXCEPT !.dbs = dbs]

\* The lock is taken for writing, and nobody looks again whether the vnode is there.
AddNew(s) ==
  /\ At(s, "add")
  /\ \E dbs \in {"none", "some", "all"} :
       /\ AddVnode(WAIT_SYNC, dbs)
       /\ IF dbs = "all" THEN Goto(s, "query") ELSE Refuses(s)
  /\ UNCHANGED <<src, have, wire, up, gone, masterVars>>

\* Another handler is at work on the database: a statement may find it locked, and fails.
Busy(s) == \E t \in Sources \ {s} : job[t].pc \in {"query", "entry", "insert", "drop"}

\* query_all_hashcode(): if it fails nothing is left over.
Query(s) ==
  /\ At(s, "query")
  /\ IF disk.dbs = "none" THEN Refuses(s)
     ELSE \E left \in {DOMAIN disk.table} \cup (IF Busy(s) THEN {{}} ELSE {}) :
            job' = [job EXCEPT ![s].pc = "entry", ![s].left = left, ![s].todo = DOMAIN job[s].req.list]
  /\ UNCHANGED <<src, have, wire, recs, disk, up, gone, masterVars>>

\* The file must be sent; its path is stored, always in the first slot.
Misses(s, j, p) == [j EXCEPT !.missing = @ \cup {p}, !.slot = p]

\* query_hashcode_by_filepath() of the local table.
Recorded(s, p) == p \in DOMAIN disk.table /\ disk.table[p] = job[s].req.list[p]

\* A plausible slip: a listed path stays among those that are left over.
EntryKeepsLeft(s) ==
  /\ At(s, "entry") /\ job[s].todo # {}
  /\ \E p \in job[s].todo :
       LET j == [job[s] EXCEPT !.todo = @ \ {p}]
       IN IF disk.dbs = "none" THEN Refuses(s)
          ELSE job' = [job EXCEPT ![s] =
                 IF Recorded(s, p) THEN j
                 ELSE IF p \in DOMAIN disk.table THEN Misses(s, j, p)
                 ELSE [Misses(s, j, p) EXCEPT !.pc = "insert", !.path = p]]
  /\ UNCHANGED <<src, have, wire, recs, disk, up, gone, masterVars>>

\* do_data_file_check(): a file is asked for when the table has no record of it, or one
\* with another hash code, or cannot be read.
Entry(s) ==
  /\ At(s, "entry") /\ job[s].todo # {}
  /\ \E p \in job[s].todo :
       LET j == [job[s] EXCEPT !.todo = @ \ {p}, !.left = @ \ {p}]
       IN IF disk.dbs = "none" THEN Refuses(s)
          ELSE job' = [job EXCEPT ![s] =
                 IF Recorded(s, p) THEN j
                 ELSE IF p \in DOMAIN disk.table THEN Misses(s, j, p)
                 ELSE [Misses(s, j, p) EXCEPT !.pc = "insert", !.path = p]]
  /\ UNCHANGED <<src, have, wire, recs, disk, up, gone, masterVars>>

\* The table is locked while it is read: it has no record, as far as the handler can tell.
EntryLocked(s) ==
  /\ At(s, "entry") /\ Busy(s)
  /\ \E p \in job[s].todo :
       job' = [job EXCEPT ![s] = [Misses(s, job[s], p) EXCEPT !.todo = @ \ {p}, !.left = @ \ {p}]]
  /\ UNCHANGED <<src, have, wire, recs, disk, up, gone, masterVars>>

Put(t, p, h) == [q \in DOMAIN t \cup {p} |-> IF q = p THEN h ELSE t[q]]

\* insert_record(), before the file is there.  It fails when the table has the path by
\* now, or is locked or gone; nobody looks.
Insert(s) ==
  /\ At(s, "insert")
  /\ LET p == job[s].path
     IN \/ /\ p \notin DOMAIN disk.table /\ disk.dbs # "none"
           /\ disk' = [disk EXCEPT !.table = Put(@, p, job[s].req.list[p])]
        \/ (p \in DOMAIN disk.table \/ disk.dbs = "none" \/ Busy(s)) /\ UNCHANGED disk
  /\ job' = [job EXCEPT ![s].pc = "entry", ![s].path = NOFILE]
  /\ UNCHANGED <<src, have, wire, recs, up, gone, masterVars>>

\* The paths ps of those left over are dealt with.
Dropping(j, ps) == [j EXCEPT !.left = @ \ ps, !.pc = IF j.left \subseteq ps THEN "answer" ELSE "drop",
                             !.done = TRUE]

\* do_db_file_check(): the databases of both sides are the same, if this side has them.
CheckDbs(s) ==
  /\ At(s, "entry") /\ job[s].todo = {}
  /\ IF disk.dbs = "all" THEN job' = [job EXCEPT ![s] = Dropping(job[s], {})] ELSE Refuses(s)
  /\ UNCHANGED <<src, have, wire, recs, disk, up, gone, masterVars>>

\* A source that has not begun, or has failed, does not mind.
Removed(ps) == gone' = [u \in Sources |-> IF src[u].pc \in {"idle", "failed", "crashed"} THEN {}
                                          ELSE gone[u] \cup (ps \cap DOMAIN src[u].list)]

\* A plausible slip: the file is unlinked and its record kept.
DropKeepsRecord(s) ==
  /\ At(s, "drop")
  /\ \E p \in job[s].left :
       /\ job' = [job EXCEPT ![s] = Dropping(job[s], {p})]
       /\ disk' = [disk EXCEPT !.files = @ \ {p}]
       /\ Removed({p})
  /\ UNCHANGED <<src, have, wire, recs, up, masterVars>>

\* What is left over is deleted from the table, unless that is locked, and unlinked.
Drop(s) ==
  /\ At(s, "drop")
  /\ \E p \in job[s].left, locked \in {FALSE, Busy(s)} :
       /\ job' = [job EXCEPT ![s] = Dropping(job[s], {p})]
       /\ disk' = [disk EXCEPT !.files = @ \ {p},
                               !.table = IF locked THEN @ ELSE Restrict(@, DOMAIN @ \ {p})]
       /\ Removed({p})
  /\ UNCHANGED <<src, have, wire, recs, up, masterVars>>

\* msg_file_sync_handle(): the file is opened, O_CREAT, in a directory that only an upload
\* or its copy makes; the device root is no file.
WriteFile(s) ==
  /\ At(s, "write")
  /\ LET p == job[s].req.path
         ok == IF p = DB THEN disk.dbs = "all" ELSE p \in Data /\ disk.dir
     IN /\ IF ok THEN Goto(s, "answer") ELSE Refuses(s)
        /\ disk' = IF ok /\ p \in Data THEN [disk EXCEPT !.files = @ \cup {p}] ELSE disk
  /\ UNCHANGED <<src, have, wire, recs, up, gone, masterVars>>

Waits(s) == src[s].pc \in {"wait", "file"}

\* do_err_resp, do_success_resp, do_resp: the answer, if the source still has the stream.
Reply(s) ==
  /\ At(s, "answer")
  /\ wire' = [wire EXCEPT ![s].resp =
       IF ~ Waits(s) THEN @
       ELSE Append(@, [to |-> job[s].req, ok |-> job[s].ok, count |-> Cardinality(job[s].missing),
                       slot |-> job[s].slot, missing |-> job[s].missing])]
  /\ job' = [job EXCEPT ![s] = Idle]
  /\ UNCHANGED <<src, have, recs, disk, up, gone, masterVars>>

Handler(s) ==
  \/ TakeRequest(s) \/ Mark(s) \/ AddNew(s) \/ Query(s)
  \/ Entry(s) \/ EntryLocked(s) \/ Insert(s) \/ CheckDbs(s) \/ Drop(s)
  \/ WriteFile(s) \/ Reply(s)

-----------------------------------------------------------------------------
(* The destination's beat thread, and the end of its process.                *)

TellStatus ==
  /\ up /\ Turn
  /\ \E t \in Told \ {told} : told' = t
  /\ UNCHANGED <<src, have, wire, destVars>>

\* remove_dir() takes everything, unless a handler makes or removes a file meanwhile: the
\* walk then ends somewhere.
RemoveDir ==
  \/ disk' = NoDir /\ Removed(disk.files)
  \/ /\ \E s \in Sources : job[s].pc \in {"add", "insert", "drop", "write"}
     /\ disk.dbs # "none"
     /\ disk' = [disk EXCEPT !.dbs = "some"] /\ UNCHANGED gone

\* merge_vnode_status() of OFFLINE: the first record and the directory are deleted.
BeatDeletes ==
  /\ up /\ told = OFFLINE
  /\ recs # <<>> \/ disk # NoDir
  /\ recs' = IF recs = <<>> THEN recs ELSE Tail(recs)
  /\ RemoveDir
  /\ job' = [s \in Sources |-> IF job[s].pc = "mark" THEN [job[s] EXCEPT !.stale = TRUE] ELSE job[s]]
  /\ UNCHANGED <<src, have, wire, up, masterVars>>

\* A plausible slip: only a vnode that is new gets the status.
BeatMergesNew ==
  /\ up /\ told # OFFLINE /\ recs = <<>>
  /\ \E dbs \in {"none", "some", "all"} : AddVnode(told, dbs)
  /\ UNCHANGED <<src, have, wire, job, up, gone, masterVars>>

\* merge_vnode_status() of the others.
BeatMerges ==
  /\ up /\ told # OFFLINE
  /\ IF recs = <<>> THEN \E dbs \in {"none", "some", "all"} : AddVnode(told, dbs)
     ELSE recs' = [recs EXCEPT ![1] = told] /\ UNCHANGED disk
  /\ UNCHANGED <<src, have, wire, job, up, gone, masterVars>>

\* The process may die at any time, and by its own doing when a handler writes through a
\* pointer to a record that was deleted, or when it frees the response body of a check it
\* answered without making one.  The device root is emptied before it serves again.
DestDies ==
  /\ up /\ up' = FALSE /\ Turn
  /\ recs' = <<>> /\ disk' = NoDir /\ Removed(disk.files)
  /\ job' = [s \in Sources |-> Idle]
  /\ wire' = [s \in Sources |-> [wire[s] EXCEPT !.req = <<>>]]
  /\ UNCHANGED <<src, have, told>>

Next ==
  \/ \E s \in Sources : SyncThread(s) \/ SourceLoses(s) \/ Handler(s)
  \/ TellStatus \/ BeatDeletes \/ BeatMerges \/ DestDies

\* Threads run, timeouts expire, and the master answers the beats.
Fairness ==
  /\ \A s \in Sources : WF_vars(SyncThread(s)) /\ WF_vars(Handler(s))
  /\ WF_vars(BeatDeletes \/ BeatMerges)

Spec == Init /\ [][Next]_vars /\ Fairness

-----------------------------------------------------------------------------
TypeOK ==
  /\ \A s \in Sources :
       /\ src[s].pc \in {"idle", "version", "hash", "wait", "send", "file", "ok", "failed", "crashed"}
       /\ src[s].pc \in {"send", "file"} => src[s].i \in 0 .. src[s].count - 1
       /\ {src[s].slot, src[s].at} \subseteq Paths
       /\ Len(wire[s].req) <= 1 /\ Len(wire[s].resp) <= 1
  /\ recs \in Seq(Statuses)
  /\ disk.dbs \in {"none", "some", "all"} /\ DOMAIN disk.table \subseteq Data
  /\ disk.files \subseteq Data /\ disk.dir \in BOOLEAN
  /\ told \in Told \cup {WAIT_SYNC} /\ turns \in 0 .. MaxTurns /\ up \in BOOLEAN

(* What the source reads from the stream answers what it asked last, though  *)
(* nothing in an answer says what it is for (storage_msg_parser.cpp:382,     *)
(* thread_sync_data.cpp:348, 472): a late answer is never taken for the next *)
(* file's.                                                                   *)
AnswerIsForRequest ==
  \A s \in Sources : Waits(s) /\ wire[s].resp # <<>> =>
    LET to == Head(wire[s].resp).to
    IN IF src[s].pc = "wait" THEN to.kind = "check" ELSE to.kind = "file" /\ to.path = src[s].at

(* When exactly one file was missing at the destination and the source       *)
(* reports the sync as done, the file is there, whatever else handled the    *)
(* vnode meanwhile, unless that removed it.  Of several missing files only   *)
(* the last one's path reaches the source (storage_msg_parser.cpp:217).      *)
OneMissingFileArrives ==
  \A s \in Sources : \A p \in Data :
    src[s].pc = "ok" /\ src[s].missing = {p} => p \in disk.files \cup gone[s]

(* A check of a vnode that nobody else touches and that is answered with     *)
(* success leaves the table with the paths it listed and no other, also when *)
(* the vnode was added on the way or an earlier attempt to add it failed     *)
(* half way (storage_msg_parser.cpp:190-236, vnode_info.cpp:89-166).         *)
Alone(s) == (\A t \in Sources \ {s} : src[t].pc = "idle") /\ turns <= 1 /\ told # OFFLINE
CheckedTable ==
  \A s \in Sources : At(s, "answer") /\ job[s].done /\ Alone(s) =>
    disk.dbs = "all" /\ DOMAIN disk.table = DOMAIN job[s].req.list

(* No check removes a file that every source lists, however two checks and   *)
(* their locked statements interleave: the beat thread alone can, when the   *)
(* master says OFFLINE (storage_msg_parser.cpp:196-206, 225-236).            *)
Common == {p \in Data : \A s \in Sources : src[s].pc # "idle" /\ p \in DOMAIN src[s].list}
CommonFilesKept ==
  [][up' /\ told # OFFLINE => \A p \in Common : p \in disk.files => p \in disk.files']_vars

(* The handler's WAIT_SYNC, written without the lock, may overwrite a newer  *)
(* status (storage_msg_parser.cpp:132), but not for good: once the master    *)
(* keeps to one answer, the vnode has the status the master says.            *)
StatusSettles == <>[](~ up \/ recs = <<>> \/ recs[1] = told)
=============================================================================
