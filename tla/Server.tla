------------------------------- MODULE Server -------------------------------
(***************************************************************************)
(* The life of a kunlun process: main() of kunlun_proxyd.cpp or of         *)
(* kunlun_storaged.cpp, what the two servers construct and start, in which *)
(* order, where either may fail, and the threads they leave running.  Of   *)
(* the network it has the listening socket, the clients that connect to    *)
(* it, and the signals an operator sends.  What travels on a connection    *)
(* once it is accepted is in Transport, what a report thread says to its   *)
(* proxy in StorageNode.                                                   *)
(*                                                                         *)
(* Anything that is constructed may fail: memory, a socket, a directory, a *)
(* thread's attributes.  stop() has no caller in either program.           *)
(***************************************************************************)
EXTENDS Integers, Sequences, FiniteSets

CONSTANTS
  Workers,     \* nwork_thread_count
  MaxProxies,  \* bound: the proxies a storage node's configuration may name
  Clients,     \* the clients, each connects once
  MaxSignals   \* bound: the signals sent

ASSUME ServerAssumption == Workers \in Nat \ {0} /\ MaxProxies \in Nat /\ MaxSignals \in Nat

VARIABLES
  program,    \* the program, and how many proxies a storage node is to join
  main,       \* where the main thread is
  made,       \* the objects that exist
  thread,     \* thread[t]: the CThread object and its thread
  queueOf,    \* queueOf[w]: the message queue of worker w
  robin,      \* m_queue_robin
  listening,  \* the listening socket is open
  edge,       \* epoll owes the receiver a notification
  conn,       \* conn[c]: the client's connection
  joined,     \* the proxies whose report thread has joined
  signals,    \* how many signals were sent
  startFailed, acceptFailed  \* history: a thread could not be started, accept() failed

vars == <<program, main, made, thread, queueOf, robin, listening, edge, conn, joined, signals,
          startFailed, acceptFailed>>
netVars == <<listening, edge, conn, acceptFailed>>
initVars == <<program, queueOf, robin, signals>>

Programs == {[name |-> "proxyd", proxies |-> 0]} \cup [name : {"storaged"}, proxies : 0 .. MaxProxies]

Recv == <<"recv", 0>>
SyncThread == <<"sync", 0>>
Beat(k) == <<"beat", k>>
Worker(i) == <<"worker", i>>
Beats == {Beat(k) : k \in 1 .. MaxProxies}
WorkerThreads == {Worker(i) : i \in 1 .. Workers}
Threads == {Recv, SyncThread} \cup Beats \cup WorkerThreads

One(x) == <<x, 0>>
Ones(xs) == [i \in DOMAIN xs |-> One(xs[i])]

\* CBaseServer::initilize().
BasePlan == Ones(<<"queues", "array", "acceptor", "recv">>) \o [i \in 1 .. Workers |-> Worker(i)]

\* CProxyServer::initilize().
ProxyPlan == Ones(<<"lock", "vnodes", "devices", "names">>) \o BasePlan

\* CStorageServer::initilize().
StoragePlan(n) ==
  Ones(<<"lock", "vnodes", "syncqueue", "addresses", "sync", "reports">>)
    \o [k \in 1 .. n |-> Beat(k)] \o Ones(<<"root">>) \o BasePlan

\* main() up to initilize().
MainPlan == Ones(<<"conf", "parser", "log", "daemon", "handlers">>)

Plan == MainPlan \o (IF program.name = "proxyd" THEN ProxyPlan ELSE StoragePlan(program.proxies))

\* CBaseServer::run().
BaseStarts == <<Recv>> \o [i \in 1 .. Workers |-> Worker(i)]

\* CStorageServer::run() starts its own threads first.
Starts ==
  IF program.name = "proxyd" THEN BaseStarts
  ELSE [k \in 1 .. program.proxies |-> Beat(k)] \o <<SyncThread>> \o BaseStarts

Init ==
  /\ program \in Programs
  /\ main = [pc |-> "init", i |-> 1]
  /\ made = {} /\ thread = [t \in Threads |-> "none"]
  /\ queueOf = [i \in 1 .. Workers |-> -1] /\ robin = 0
  /\ listening = FALSE /\ edge = FALSE /\ conn = [c \in Clients |-> "none"]
  /\ joined = {} /\ signals = 0
  /\ startFailed = FALSE /\ acceptFailed = FALSE

Alive == main.pc \notin {"exited", "crashed"}
Has(x) == One(x) \in made
Runs(t) == Alive /\ thread[t] = "running"

\* Nobody listens any more: whoever was not accepted yet is refused.
Unlisten == [c \in Clients |-> IF conn[c] = "backlog" THEN "closed" ELSE conn[c]]

\* The process is gone, and with it its threads, its sockets and its place at the proxies.
Ends(how) ==
  /\ main' = [main EXCEPT !.pc = how]
  /\ made' = {} /\ thread' = [t \in Threads |-> "none"] /\ joined' = {}
  /\ listening' = FALSE /\ edge' = FALSE
  /\ conn' = [c \in Clients |-> IF conn[c] = "none" THEN "none" ELSE "closed"]

-----------------------------------------------------------------------------
(* main(): construction.                                                     *)

\* A plausible slip: the socket is bound, and listens when the receiver begins.
ListensLate(step) == listening' = listening

\* CAcceptor's constructor binds and listens.
Listens(step) == listening' = (listening \/ step = One("acceptor"))

\* getmsgqueuebyrobin().
NextQueue == robin' = (robin + 1) % Workers

\* The next step of the plan succeeds.  A thread is an object before it is started.
Make ==
  /\ main.pc = "init" /\ main.i <= Len(Plan)
  /\ LET step == Plan[main.i]
     IN /\ step = One("addresses") => program.proxies > 0
        /\ made' = made \cup {step}
        /\ thread' = IF step \in Threads THEN [thread EXCEPT ![step] = "new"] ELSE thread
        /\ IF step \in WorkerThreads
           THEN queueOf' = [queueOf EXCEPT ![step[2]] = robin] /\ NextQueue
           ELSE UNCHANGED <<queueOf, robin>>
        /\ Listens(step)
  /\ main' = [main EXCEPT !.i = @ + 1]
  /\ UNCHANGED <<program, edge, conn, joined, signals, startFailed, acceptFailed>>

\* The message parser alone may be missing: the server is made without.
NoParser ==
  /\ main.pc = "init" /\ main.i <= Len(Plan) /\ Plan[main.i] = One("parser")
  /\ main' = [main EXCEPT !.i = @ + 1]
  /\ UNCHANGED <<initVars, netVars, made, thread, joined, startFailed>>

\* A plausible slip: main() deletes the server that could not be initialised.
MakeFailsDeletes ==
  /\ main.pc = "init" /\ main.i <= Len(Plan) /\ Plan[main.i] # One("parser")
  /\ main' = [main EXCEPT !.pc = IF Has("handlers") THEN "delete" ELSE "exited"]
  /\ UNCHANGED <<initVars, netVars, made, thread, joined, startFailed>>

\* Anything else that fails ends the program, without a destructor.
MakeFails ==
  /\ main.pc = "init" /\ main.i <= Len(Plan) /\ Plan[main.i] # One("parser")
  /\ Ends("exited")
  /\ UNCHANGED <<initVars, startFailed, acceptFailed>>

Initialized ==
  /\ main.pc = "init" /\ main.i > Len(Plan)
  /\ main' = [pc |-> "run", i |-> 1]
  /\ UNCHANGED <<initVars, netVars, made, thread, joined, startFailed>>

-----------------------------------------------------------------------------
(* run() and what follows it.                                                *)

\* CThread::start().  Behind the last one waits select(), for ever.
Start ==
  /\ main.pc = "run"
  /\ thread' = [thread EXCEPT ![Starts[main.i]] = "running"]
  /\ main' = IF main.i = Len(Starts) THEN [main EXCEPT !.pc = "serve"] ELSE [main EXCEPT !.i = @ + 1]
  /\ UNCHANGED <<initVars, netVars, made, joined, startFailed>>

\* A report thread for a slave that cannot be started is deleted and done without; any
\* other makes run() return, whichever threads run already.
StartFails ==
  /\ main.pc = "run"
  /\ IF Starts[main.i] \in Beats \ {Beat(1)}
     THEN /\ thread' = [thread EXCEPT ![Starts[main.i]] = "deleted"]
          /\ main' = [main EXCEPT !.i = @ + 1]
          /\ UNCHANGED startFailed
     ELSE main' = [main EXCEPT !.pc = "delete"] /\ startFailed' = TRUE /\ UNCHANGED thread
  /\ UNCHANGED <<initVars, netVars, made, joined>>

ServerObjects == Ones(<<"queues", "array", "parser">>)
Globals == Ones(<<"lock", "vnodes", "devices", "names", "log">>)
AsSet(s) == {s[i] : i \in DOMAIN s}

\* ~CBaseServer() deletes what its pointers hold; no constructor set the first two.
DeleteServer ==
  /\ main.pc = "delete"
  /\ IF Has("queues") /\ Has("array")
     THEN /\ made' = made \ AsSet(ServerObjects)
          /\ main' = [main EXCEPT !.pc = "destroy"]
          /\ UNCHANGED <<thread, joined, listening, edge, conn>>
     ELSE Ends("crashed")
  /\ UNCHANGED <<initVars, startFailed, acceptFailed>>

\* destroy_global_data().
DestroyGlobals ==
  /\ main.pc = "destroy"
  /\ made' = made \ AsSet(Globals)
  /\ main' = [main EXCEPT !.pc = "return"]
  /\ UNCHANGED <<initVars, netVars, thread, joined, startFailed>>

Return ==
  /\ main.pc = "return"
  /\ Ends("exited")
  /\ UNCHANGED <<initVars, startFailed, acceptFailed>>

Main ==
  \/ Make \/ NoParser \/ MakeFails \/ Initialized
  \/ Start \/ StartFails \/ DeleteServer \/ DestroyGlobals \/ Return

-----------------------------------------------------------------------------
(* The threads.                                                              *)

\* thread_entrance(): the object deletes itself behind its function.
Over(t) == thread' = [thread EXCEPT ![t] = "deleted"]

\* A plausible slip: the test of the engine's pointer, which is the wrong way round, for the
\* acceptor's as well.
RecvOverKeeps ==
  /\ Over(Recv)
  /\ UNCHANGED <<listening, edge, conn, made>>

\* ~CThreadMsgRecv() deletes the acceptor, and with it the socket.  The engine is not
\* deleted, and the connections it observes stay open.
RecvOver ==
  /\ Over(Recv)
  /\ listening' = FALSE /\ edge' = FALSE /\ conn' = Unlisten
  /\ UNCHANGED made

\* run() of the receiver attaches the acceptor to epoll, which reports who waits already.
RecvAttach ==
  /\ Runs(Recv) /\ ~ Has("attached")
  /\ made' = made \cup {One("attached")}
  /\ edge' = (\E c \in Clients : conn[c] = "backlog")
  /\ UNCHANGED <<initVars, main, thread, listening, conn, joined, startFailed, acceptFailed>>

RecvAttachFails ==
  /\ Runs(Recv) /\ ~ Has("attached")
  /\ RecvOver
  /\ UNCHANGED <<initVars, main, joined, startFailed, acceptFailed>>

\* A plausible slip: one connection is taken for one notification.
RecvAcceptOne ==
  /\ Runs(Recv) /\ edge
  /\ edge' = FALSE
  /\ \E c \in Clients : conn[c] = "backlog" /\ conn' = [conn EXCEPT ![c] = "open"]
  /\ UNCHANGED <<initVars, main, made, thread, listening, joined, startFailed, acceptFailed>>

\* CAcceptorOB::work(): everybody in the backlog is taken; a connection that cannot be
\* attached is closed.
RecvAccept ==
  /\ Runs(Recv) /\ edge
  /\ edge' = FALSE
  /\ \E attached \in SUBSET {c \in Clients : conn[c] = "backlog"} :
       conn' = [c \in Clients |-> IF conn[c] # "backlog" THEN conn[c]
                                  ELSE IF c \in attached THEN "open" ELSE "closed"]
  /\ UNCHANGED <<initVars, main, made, thread, listening, joined, startFailed, acceptFailed>>

\* accept() fails: whoever is still in the backlog waits for the next notification.
RecvAcceptFails ==
  /\ Runs(Recv) /\ edge
  /\ edge' = FALSE /\ acceptFailed' = TRUE
  /\ \E left \in SUBSET {c \in Clients : conn[c] = "backlog"} :
       /\ left # {}
       /\ conn' = [c \in Clients |-> IF conn[c] = "backlog" /\ c \notin left THEN "open" ELSE conn[c]]
  /\ UNCHANGED <<initVars, main, made, thread, listening, joined, startFailed>>

\* CMsgLooper::run() returns when there is no parser.
WorkerEnds(t) ==
  /\ Runs(t) /\ t \in WorkerThreads /\ ~ Has("parser") /\ Has("queues")
  /\ Over(t)
  /\ UNCHANGED <<initVars, netVars, main, made, joined, startFailed>>

BeatJoins(k) ==
  /\ Runs(Beat(k)) /\ k \notin joined
  /\ joined' = joined \cup {k}
  /\ UNCHANGED <<initVars, netVars, main, made, thread, startFailed>>

\* A report thread ends with its first failure, the sync thread with the first sync that
\* fails, which a report thread gave it.
BeatEnds(t) ==
  /\ Runs(t) /\ \/ t \in Beats
                \/ t = SyncThread /\ joined # {}
  /\ Over(t)
  /\ UNCHANGED <<initVars, netVars, main, made, joined, startFailed>>

\* What a thread needs for its work.
Needs(t) ==
  Ones(IF t \in WorkerThreads THEN <<"queues", "lock", "vnodes", "log">>
       ELSE IF t = Recv THEN <<"queues", "log">> ELSE <<"lock", "vnodes", "log">>)

Misses(t) == AsSet(Needs(t)) \ made # {}

\* Main takes away what a running thread uses: whatever happens then is the end.
UseFreed(t) ==
  /\ Runs(t) /\ Misses(t)
  /\ Ends("crashed")
  /\ UNCHANGED <<initVars, startFailed, acceptFailed>>

-----------------------------------------------------------------------------
(* The outside.                                                              *)

\* The kernel completes the connection as soon as somebody listens.
ClientConnects(c) ==
  /\ conn[c] = "none"
  /\ conn' = [conn EXCEPT ![c] = IF listening THEN "backlog" ELSE "closed"]
  /\ edge' = (edge \/ (listening /\ Has("attached")))
  /\ UNCHANGED <<initVars, main, made, thread, listening, joined, startFailed, acceptFailed>>

\* The handlers do nothing.  A signal that meets the receiver ends its epoll_wait(), and
\* notify() with it; select() and the waits of the others begin again.
Signal ==
  /\ Alive /\ signals < MaxSignals /\ signals' = signals + 1
  /\ IF Has("handlers")
     THEN RecvOver /\ Runs(Recv) /\ Has("attached") /\ UNCHANGED <<main, joined>>
     ELSE Ends("exited")
  /\ UNCHANGED <<program, queueOf, robin, startFailed, acceptFailed>>

\* SIGTERM, or a failure of the machine.
Killed ==
  /\ Alive /\ signals < MaxSignals /\ signals' = signals + 1
  /\ Ends("exited")
  /\ UNCHANGED <<program, queueOf, robin, startFailed, acceptFailed>>

Receiver == RecvAttach \/ RecvAttachFails \/ RecvAccept \/ RecvAcceptFails

Next ==
  \/ Main \/ Receiver
  \/ \E t \in Threads : WorkerEnds(t) \/ BeatEnds(t) \/ UseFreed(t)
  \/ \E k \in 1 .. MaxProxies : BeatJoins(k)
  \/ \E c \in Clients : ClientConnects(c)
  \/ Signal \/ Killed

\* Main and the receiver run; nobody has to connect, and no signal has to come.
Spec == Init /\ [][Next]_vars /\ WF_vars(Main) /\ WF_vars(Receiver)

-----------------------------------------------------------------------------
TypeOK ==
  /\ program \in Programs
  /\ main.pc \in {"init", "run", "serve", "delete", "destroy", "return", "exited", "crashed"}
  /\ thread \in [Threads -> {"none", "new", "running", "deleted"}]
  /\ queueOf \in [1 .. Workers -> -1 .. Workers - 1] /\ robin \in 0 .. Workers - 1
  /\ listening \in BOOLEAN /\ edge \in BOOLEAN
  /\ conn \in [Clients -> {"none", "backlog", "open", "closed"}]
  /\ joined \subseteq 1 .. MaxProxies /\ signals \in 0 .. MaxSignals

(* A storage node that a proxy counts on can be reached: when a report       *)
(* thread has joined, the old data are gone and the socket listens, unless   *)
(* the receiver has ended; the other threads start later and the kernel      *)
(* keeps the connections for them (storage_server.cpp:51, 299-311,           *)
(* acceptor.cpp:35).                                                         *)
JoinedNodeIsReady ==
  joined # {} => Has("root") /\ (listening \/ thread[Recv] = "deleted")

(* No thread outlives what it uses and no destructor reads a pointer that    *)
(* was never set, unless a thread could not be started: then main() deletes  *)
(* the server and the globals under the threads that run                     *)
(* (base_server.cpp:72-92, kunlun_storaged.cpp:176-191).                     *)
NothingUsedAfterFree ==
  ~ startFailed => main.pc # "crashed" /\ \A t \in Threads : Runs(t) => ~ Misses(t)

(* A socket on which nobody will ever accept does not stay open: a client    *)
(* of a process whose receiver has ended is refused at once                  *)
(* (thread_msg_recv.cpp:58, thread.cpp:53).                                  *)
NoDeafListener == listening => thread[Recv] # "deleted"

(* A client that connects is accepted or refused, whatever becomes of the    *)
(* process; only after accept() has failed may it wait until somebody else   *)
(* connects (acceptorOB.cpp:41-74).                                          *)
ClientsAnswered ==
  \A c \in Clients : conn[c] = "backlog" ~> conn[c] # "backlog" \/ acceptFailed
=============================================================================
