------------------------------- MODULE Upload -------------------------------
(***************************************************************************)
(* The upload of a file: the client library (client/proxy_manager.cpp,     *)
(* client/object_manager.cpp), the worker threads of the primary storage   *)
(* node (msg_upload_file_handle, msg_ctrl_stream_handle of                 *)
(* storage_msg_parser.cpp) and its beat thread, which share the lock of    *)
(* the vnode container.  One vnode, one directory.                         *)
(*                                                                         *)
(* Two facts of the platform and the protocol decide what can happen.      *)
(* sendfile() cannot read a socket, so of the files that arrive only the   *)
(* empty ones are written.  And the copy of a file is announced with a     *)
(* body that is not sent, so the second replica's packetizer waits for it  *)
(* and never answers: it is not part of this module.  A proper message of  *)
(* the ctrl stream comes from a peer outside the program.                  *)
(*                                                                         *)
(* The lock is held across steps by writers only: every reader looks a     *)
(* vnode up and unlocks.                                                   *)
(***************************************************************************)
EXTENDS Integers, FiniteSets

CONSTANTS
  Workers,      \* the worker threads
  Clients,      \* processes with the client library
  Peers,        \* outside peers that send ctrl stream messages
  Proxies,      \* the number of proxies a client knows
  Lengths,      \* the lengths of the files uploaded
  Seconds,      \* how many second replicas a proxy may name
  Statuses,     \* the statuses the master may give the vnode
  MaxTries,     \* bound: uploads a client makes
  MaxMerges,    \* bound: responses the beat thread merges
  ACTIVE, NONE

ASSUME UploadAssumption ==
  /\ Proxies \in Nat \ {0} /\ MaxTries \in Nat /\ MaxMerges \in Nat
  /\ Lengths \subseteq Nat /\ Seconds \subseteq Nat
  /\ IsFiniteSet(Workers)
  /\ ACTIVE \in Statuses /\ NONE \notin Workers \cup Statuses

VARIABLES
  client,   \* client[c]: how far the client's call is
  inbox,    \* complete messages in the node's queues
  job,      \* job[w]: the message a worker handles and how far it is
  vnode,    \* the vnode in g_pstorage_vnode_container
  dir,      \* the directory of the uploaded object exists
  holder,   \* the thread that holds g_pcontainer_rwlock for writing
  beat,     \* the beat thread: "rest", "report" or "merge"
  merges,   \* responses merged
  written   \* history: the empty files written since the vnode was added

clientVars == <<client>>
vars == <<client, inbox, job, vnode, dir, holder, beat, merges, written>>

Actors == Clients \cup Peers
Idle == [pc |-> "idle"]

Init ==
  /\ client = [c \in Actors |-> [pc |-> IF c \in Clients THEN "manager" ELSE "send", proxies |-> 0,
                                 robin |-> 0, tries |-> 0, len |-> 0, seconds |-> 0, ret |-> "0",
                                 dirErrors |-> 0]]
  /\ inbox = {} /\ job = [w \in Workers |-> Idle]
  /\ vnode = [status |-> NONE, version |-> 0]
  /\ dir = FALSE /\ holder = NONE
  /\ beat = "rest" /\ merges = 0 /\ written = 0

nodeVars == <<job, vnode, dir, holder, beat, merges, written>>

-----------------------------------------------------------------------------
(* The client library. *)

\* CProxyServerManager's constructor connects to one proxy after the other.
ManagerConnects(c) ==
  /\ client[c].pc = "manager"
  /\ client' = [client EXCEPT ![c].proxies = @ + 1,
                              ![c].pc = IF client[c].proxies + 1 = Proxies THEN "ask" ELSE @]
  /\ UNCHANGED <<inbox, nodeVars>>

\* The call returns to the user.
Returns(c, code) ==
  client' = [client EXCEPT ![c].pc = "ended", ![c].ret = code,
                           ![c].dirErrors = @ + IF code = "EEXIST" THEN 1 ELSE 0]

\* One proxy that cannot be reached is the end of the manager.
ManagerFails(c) ==
  client[c].pc = "manager" /\ Returns(c, "ECONNREFUSED") /\ UNCHANGED <<inbox, nodeVars>>

\* get_proxy_stream_by_robin(): the counter wraps when it has passed the last stream.
NextRobin(robin) == (IF robin >= Proxies THEN 0 ELSE robin) + 1

\* get_proxy_list(): the answer names the primary replica and the second ones.
ClientAsks(c) ==
  /\ client[c].pc = "ask"
  /\ \E n \in Seconds, len \in Lengths :
       client' = [client EXCEPT ![c].pc = "connect", ![c].robin = NextRobin(@), ![c].tries = @ + 1,
                                ![c].seconds = n, ![c].len = len]
  /\ UNCHANGED <<inbox, nodeVars>>

\* The proxy answers with a status, or nobody answers in time.
ClientRefused(c) ==
  client[c].pc = "ask" /\ Returns(c, "EACCES") /\ UNCHANGED <<inbox, nodeVars>>

\* The port of the primary is read from a variable nobody set: it may be any.
ClientMisses(c) ==
  client[c].pc = "connect" /\ Returns(c, "ECONNREFUSED") /\ UNCHANGED <<inbox, nodeVars>>

Message(c, kind, legal) ==
  [from |-> c, kind |-> kind, legal |-> legal, len |-> client[c].len, seconds |-> client[c].seconds]

ClientSends(c) ==
  /\ client[c].pc = "connect"
  /\ client' = [client EXCEPT ![c].pc = "sent"]
  /\ inbox' = inbox \cup {Message(c, "upload", TRUE)}
  /\ UNCHANGED nodeVars

\* The answer is not there within ntimeout.  The message stays where it is.
ClientTimeout(c) ==
  client[c].pc = "sent" /\ Returns(c, "ETIMEDOUT") /\ UNCHANGED <<inbox, nodeVars>>

\* The user tries again, on a stream of its own.
ClientRetries(c) ==
  /\ c \in Clients /\ client[c].pc = "ended" /\ client[c].proxies = Proxies
  /\ client[c].tries < MaxTries
  /\ \A m \in inbox : m.from # c
  /\ \A w \in Workers : job[w].pc # "idle" => job[w].from # c
  /\ client' = [client EXCEPT ![c].pc = "ask"]
  /\ UNCHANGED <<inbox, nodeVars>>

\* A peer sends a ctrl stream message, of a length that is legal or not.
PeerSends(c) ==
  /\ client[c].pc = "send"
  /\ client' = [client EXCEPT ![c].pc = "sent"]
  /\ \E legal \in BOOLEAN : inbox' = inbox \cup {Message(c, "ctrl", legal)}
  /\ UNCHANGED nodeVars

ClientNext(c) ==
  \/ ManagerConnects(c) \/ ManagerFails(c) \/ ClientAsks(c) \/ ClientRefused(c) \/ ClientMisses(c)
  \/ ClientSends(c) \/ ClientTimeout(c) \/ ClientRetries(c) \/ PeerSends(c)

-----------------------------------------------------------------------------
(* The workers.  A job ends with Answer, which the client may not wait for. *)

At(w, pc) == job[w].pc = pc
Goto(w, pc) == job' = [job EXCEPT ![w].pc = pc]
Fails(w, code) == job' = [job EXCEPT ![w].pc = "answer", ![w].ret = code]

IsActive == vnode.status = ACTIVE

\* A message of an illegal length is dropped without an answer.
Take(w) ==
  /\ At(w, "idle")
  /\ \E m \in inbox :
       /\ inbox' = inbox \ {m}
       /\ job' = IF m.legal
                 THEN [job EXCEPT ![w] = [pc |-> "look", from |-> m.from, kind |-> m.kind, len |-> m.len,
                                          seconds |-> m.seconds, copy |-> 0, ret |-> "0", active |-> IsActive]]
                 ELSE job
  /\ UNCHANGED <<client, vnode, dir, holder, beat, merges, written>>

\* rdlock(), get_vnode(), unlock().
Look(w) ==
  /\ At(w, "look") /\ holder = NONE
  /\ IF vnode.status = NONE THEN Fails(w, "EINVAL") ELSE Goto(w, "test")
  /\ UNCHANGED <<client, inbox, vnode, dir, holder, beat, merges, written>>

\* A plausible slip: the test is made for clients' uploads only.
TestForgotten(w) ==
  /\ At(w, "test")
  /\ IF IsActive \/ job[w].kind = "ctrl" THEN Goto(w, "access") ELSE Fails(w, "EACCES")
  /\ UNCHANGED <<client, inbox, vnode, dir, holder, beat, merges, written>>

\* The status is tested without the lock.
Test(w) ==
  /\ At(w, "test")
  /\ IF IsActive THEN Goto(w, "access") ELSE Fails(w, "EACCES")
  /\ UNCHANGED <<client, inbox, vnode, dir, holder, beat, merges, written>>

\* A plausible slip: the directory is made without looking whether it is there.
AccessForgotten(w) ==
  /\ At(w, "access") /\ Goto(w, "mkdir")
  /\ UNCHANGED <<client, inbox, vnode, dir, holder, beat, merges, written>>

\* make_dir(): access() of the directory, and when it is not there mkdir().
Access(w) ==
  /\ At(w, "access")
  /\ Goto(w, IF dir THEN "write" ELSE "mkdir")
  /\ UNCHANGED <<client, inbox, vnode, dir, holder, beat, merges, written>>

Mkdir(w) ==
  /\ At(w, "mkdir")
  /\ IF dir THEN Fails(w, "EEXIST") ELSE Goto(w, "write")
  /\ dir' = TRUE
  /\ UNCHANGED <<client, inbox, vnode, holder, beat, merges, written>>

\* A plausible slip: what stream_writein() returns is not looked at.
WriteUnchecked(w) ==
  /\ At(w, "write")
  /\ Goto(w, "lock")
  /\ written' = written + IF job[w].len = 0 THEN 1 ELSE 0
  /\ UNCHANGED <<client, inbox, vnode, dir, holder, beat, merges>>

\* The file is opened, O_CREAT, and stream_writein() moves its bytes with sendfile().
Write(w) ==
  /\ At(w, "write")
  /\ IF job[w].len = 0 THEN Goto(w, "lock") /\ written' = written + 1
     ELSE Fails(w, "EINVAL") /\ UNCHANGED written
  /\ UNCHANGED <<client, inbox, vnode, dir, holder, beat, merges>>

\* A ctrl stream's write counts, and is answered.
LockCtrl(w) ==
  /\ At(w, "lock") /\ holder = NONE /\ job[w].kind = "ctrl"
  /\ vnode' = [vnode EXCEPT !.version = @ + 1]
  /\ Goto(w, "answer")
  /\ UNCHANGED <<client, inbox, dir, holder, beat, merges, written>>

\* An upload counts before anything is known of its copies ...
LockUpload(w) ==
  /\ At(w, "lock") /\ holder = NONE /\ job[w].kind = "upload" /\ job[w].seconds > 0
  /\ vnode' = [vnode EXCEPT !.version = @ + 1]
  /\ Goto(w, "copy") /\ holder' = w
  /\ UNCHANGED <<client, inbox, dir, beat, merges, written>>

\* ... and also when there is nobody to copy to.
LockAlone(w) ==
  /\ At(w, "lock") /\ holder = NONE /\ job[w].kind = "upload" /\ job[w].seconds = 0
  /\ vnode' = [vnode EXCEPT !.version = @ + 1]
  /\ Fails(w, "EINVAL")
  /\ UNCHANGED <<client, inbox, dir, holder, beat, merges, written>>

\* The lock is held while the next second replica is connected to, sent the header and the
\* (empty) file ...
CopySent(w) ==
  /\ At(w, "copy") /\ job[w].copy < job[w].seconds
  /\ Goto(w, "wait")
  /\ UNCHANGED <<client, inbox, vnode, dir, holder, beat, merges, written>>

\* ... or cannot be ...
CopyFails(w) ==
  /\ At(w, "copy") /\ job[w].copy < job[w].seconds
  /\ job' = [job EXCEPT ![w].copy = @ + 1]
  /\ UNCHANGED <<client, inbox, vnode, dir, holder, beat, merges, written>>

\* A plausible slip: the answer is read from a blocking socket.
CopyBlocks(w) ==
  /\ At(w, "wait") /\ vnode.status = NONE
  /\ job' = [job EXCEPT ![w].pc = "copy", ![w].copy = @ + 1]
  /\ UNCHANGED <<client, inbox, vnode, dir, holder, beat, merges, written>>

\* ... and until g_ntimeout has passed without its answer.
CopyTimeout(w) ==
  /\ At(w, "wait")
  /\ job' = [job EXCEPT ![w].pc = "copy", ![w].copy = @ + 1]
  /\ UNCHANGED <<client, inbox, vnode, dir, holder, beat, merges, written>>

\* All replicas were tried.  nctrl_stream_count is 0.
Unlock(w) ==
  /\ At(w, "copy") /\ job[w].copy = job[w].seconds
  /\ holder' = NONE
  /\ Fails(w, "EACCES")
  /\ UNCHANGED <<client, inbox, vnode, dir, beat, merges, written>>

\* do_err_resp, do_succ_resp.
Answer(w) ==
  /\ At(w, "answer")
  /\ IF client[job[w].from].pc = "sent" THEN Returns(job[w].from, job[w].ret) ELSE UNCHANGED client
  /\ job' = [job EXCEPT ![w] = Idle]
  /\ UNCHANGED <<inbox, vnode, dir, holder, beat, merges, written>>

\* What a worker does without the lock, or with it in its hands.
WorkerStep(w) ==
  \/ Take(w) \/ Test(w) \/ Access(w) \/ Mkdir(w) \/ Write(w)
  \/ CopySent(w) \/ CopyFails(w) \/ CopyTimeout(w) \/ Unlock(w) \/ Answer(w)

WorkerLocks(w) == Look(w) \/ LockCtrl(w) \/ LockUpload(w) \/ LockAlone(w)

-----------------------------------------------------------------------------
(* The beat thread. *)

BeatStarts ==
  /\ beat = "rest" /\ merges < MaxMerges
  /\ beat' = "report"
  /\ UNCHANGED <<client, inbox, job, vnode, dir, holder, merges, written>>

\* report_vnode_info() reads the container under the lock.
BeatReports ==
  /\ beat = "report" /\ holder = NONE
  /\ beat' = "merge"
  /\ UNCHANGED <<client, inbox, job, vnode, dir, holder, merges, written>>

\* merge_vnode_status(): a vnode the node does not have is added at version 0.
BeatMerges ==
  /\ beat = "merge" /\ holder = NONE
  /\ \E s \in Statuses :
       /\ vnode' = [vnode EXCEPT !.status = s]
       /\ job' = [w \in Workers |-> IF At(w, "idle") THEN job[w]
                                    ELSE [job[w] EXCEPT !.active = @ \/ s = ACTIVE]]
  /\ beat' = "rest" /\ merges' = merges + 1
  /\ UNCHANGED <<client, inbox, dir, holder, written>>

Next ==
  \/ \E c \in Actors : ClientNext(c)
  \/ \E w \in Workers : WorkerStep(w) \/ WorkerLocks(w)
  \/ BeatStarts \/ BeatReports \/ BeatMerges

\* Threads run, timeouts expire, and a thread that asks for the lock again and again gets
\* it between the others.
Fairness ==
  /\ \A c \in Actors : WF_vars(ClientTimeout(c))
  /\ \A w \in Workers : WF_vars(WorkerStep(w)) /\ SF_vars(WorkerLocks(w))
  /\ SF_vars(BeatReports \/ BeatMerges)

Spec == Init /\ [][Next]_vars /\ Fairness

-----------------------------------------------------------------------------
Codes == {"0", "EINVAL", "EACCES", "EEXIST", "ECONNREFUSED", "ETIMEDOUT"}

TypeOK ==
  /\ \A c \in Actors :
       /\ client[c].pc \in {"manager", "ask", "connect", "send", "sent", "ended"}
       /\ client[c].proxies \in 0 .. Proxies /\ client[c].robin \in 0 .. Proxies
       /\ client[c].tries \in 0 .. MaxTries /\ client[c].ret \in Codes
  /\ \A w \in Workers : ~ At(w, "idle") =>
       /\ job[w].pc \in {"look", "test", "access", "mkdir", "write", "lock", "copy", "wait", "answer"}
       /\ job[w].copy \in 0 .. job[w].seconds /\ job[w].ret \in Codes
  /\ vnode.status \in Statuses \cup {NONE} /\ vnode.version \in Nat
  /\ dir \in BOOLEAN /\ holder \in Workers \cup {NONE}
  /\ beat \in {"rest", "report", "merge"} /\ merges \in 0 .. MaxMerges

(* A version stands for a file that was written: it is behind the number of  *)
(* written files by those whose worker still waits for the lock, never       *)
(* ahead of it, whichever uploads and ctrl streams run at once               *)
(* (storage_msg_parser.cpp:497-529, 912-939).                                *)
VersionCountsWrites ==
  vnode.version + Cardinality({w \in Workers : At(w, "lock")}) = written

(* An upload that is counted began before the vnode stopped being ACTIVE:    *)
(* the test without the lock (storage_msg_parser.cpp:472, 886) lets late     *)
(* ones in, but none that never saw the vnode ACTIVE.                        *)
CountedWasActive ==
  \A w \in Workers : job[w].pc \in {"write", "lock", "copy", "wait"} => job[w].active

(* Two first uploads into a directory race in make_dir() and the later one   *)
(* is refused (directory.cpp:50-54), but never twice: when it tries again    *)
(* the directory is there.                                                   *)
DirFailsOnce == \A c \in Clients : client[c].dirErrors <= 1

(* Whoever holds the lock waits for other nodes with it                      *)
(* (storage_msg_parser.cpp:522-632), and the beat thread needs the lock for  *)
(* every beat: it waits for those waits, but a beat begun is always sent and *)
(* merged.                                                                   *)
BeatGoesOn == beat # "rest" ~> beat = "rest"

(* An upload of a file that was written, while a second replica answered at  *)
(* its address, is answered with success ("write success",                   *)
(* storage_msg_parser.cpp:644).                                              *)
CopiedUploadSucceeds ==
  \A w \in Workers : At(w, "wait") ~> (At(w, "answer") /\ job[w].ret = "0")
=============================================================================
