------------------------------ MODULE Transport ------------------------------
(***************************************************************************)
(* How a server of Kunlun gets its messages (common/): the epoll thread     *)
(* reads connections edge-triggered, the packetizer of a connection cuts    *)
(* the bytes into messages, each message goes to the next queue in turn,    *)
(* and the queue's own worker takes it and answers on the descriptor it     *)
(* came from.                                                               *)
(*                                                                          *)
(* A byte is <<i, k>>: byte k of message i of its connection.  A header is  *)
(* one byte, k = 0, and is therefore never read in two pieces.              *)
(***************************************************************************)
EXTENDS Integers, FiniteSets, SequencesExt

CONSTANTS Clients,      \* who connects, once each
          NoClient,
          WorkerCount,  \* m_work_thread_count: workers, and queues
          BufSize,      \* KL_COMMON_BUF_SIZE: bytes of one read
          Lengths,      \* body lengths of the messages sent
          MaxMessages   \* bound: messages sent, over all connections

ASSUME ClientsAssumption == IsFiniteSet(Clients) /\ NoClient \notin Clients
ASSUME WorkersAssumption == WorkerCount \in Nat \ {0}
ASSUME SizesAssumption == BufSize \in Nat \ {0} /\ Lengths \subseteq Nat /\ MaxMessages \in Nat

VARIABLES
  \* clients and the network
  link,      \* "new", "open", "closing" (the client has closed), "closed" (and the
             \* server can see it), "gone" (the server has closed too)
  fd,        \* the server's descriptor of a connection
  sent,      \* body lengths of the messages sent
  wire,      \* bytes sent and not read by the server
  here,      \* how many of them have arrived
  \* the epoll thread
  edge,      \* readiness not yet returned by epoll_wait()
  loop,      \* what the thread is doing, on which connection, with which bytes
  header,    \* m_pkg_header: the message it is of, or 0
  body,      \* m_pbody: the bytes of the message received
  robin,     \* m_queue_robin
  \* the queues and the workers
  queue,     \* m_msg_queue
  signal,    \* m_nsignal
  worker,    \* where each worker is, and its message
  \* history
  taken,     \* the messages cut from each connection
  answered   \* the connections whose messages were answered to each client

netVars     == <<link, fd, sent, wire, here>>
packetVars  == <<header, body>>
queueVars   == <<queue, signal, robin, worker>>
historyVars == <<taken, answered>>
vars == <<netVars, edge, loop, packetVars, queueVars, historyVars>>

Queues == 0..(WorkerCount - 1)

\* Message i of a connection that sent bodies of the given lengths.
Message(lengths, i) == [k \in 1..(lengths[i] + 1) |-> <<i, k - 1>>]

Idle == [pc |-> "idle", at |-> NoClient, left |-> <<>>]
NoPacket == [pc |-> "run"]

Init == /\ link = [c \in Clients |-> "new"]
        /\ fd = [c \in Clients |-> 0]
        /\ sent = [c \in Clients |-> <<>>]
        /\ wire = [c \in Clients |-> <<>>]
        /\ here = [c \in Clients |-> 0]
        /\ edge = [c \in Clients |-> FALSE]
        /\ loop = Idle
        /\ header = [c \in Clients |-> 0]
        /\ body = [c \in Clients |-> <<>>]
        /\ robin = 0
        /\ queue = [q \in Queues |-> <<>>]
        /\ signal = [q \in Queues |-> 0]
        /\ worker = [q \in Queues |-> NoPacket]
        /\ taken = [c \in Clients |-> <<>>]
        /\ answered = [c \in Clients |-> {}]

-----------------------------------------------------------------------------
(* Clients and the network.                                                  *)

MessageCount == FoldFunctionOnSet(+, 0, [c \in Clients |-> Len(sent[c])], Clients)

Send(c, n) ==
    /\ link[c] = "open"
    /\ MessageCount < MaxMessages
    /\ sent' = [sent EXCEPT ![c] = Append(@, n)]
    /\ wire' = [wire EXCEPT ![c] = @ \o Message(sent'[c], Len(sent'[c]))]
    /\ UNCHANGED <<link, fd, here, edge, loop, packetVars, queueVars, historyVars>>

Arrive(c) ==
    /\ \E n \in (here[c] + 1)..Len(wire[c]) : here' = [here EXCEPT ![c] = n]
    /\ edge' = [edge EXCEPT ![c] = TRUE]
    /\ UNCHANGED <<link, fd, sent, wire, loop, packetVars, queueVars, historyVars>>

Close(c) ==
    /\ link[c] = "open"
    /\ link' = [link EXCEPT ![c] = "closing"]
    /\ UNCHANGED <<fd, sent, wire, here, edge, loop, packetVars, queueVars, historyVars>>

CloseArrives(c) ==
    /\ link[c] = "closing"
    /\ wire[c] = <<>>
    /\ link' = [link EXCEPT ![c] = "closed"]
    /\ edge' = [edge EXCEPT ![c] = TRUE]
    /\ UNCHANGED <<fd, sent, wire, here, loop, packetVars, queueVars, historyVars>>

-----------------------------------------------------------------------------
(* The epoll thread.                                                         *)

\* Mutant: the descriptor is closed as soon as the client has closed.
HeldWhileOpen == {c \in Clients : link[c] = "open"}

\* The connections whose descriptor the server has not closed.
Held == {c \in Clients : link[c] \notin {"new", "gone"}}
FreeFds == (1..Cardinality(Clients)) \ {fd[c] : c \in Held}

\* CAcceptorOB::work(): the kernel gives the lowest free descriptor.
Accept(c) ==
    /\ loop.pc = "idle"
    /\ link[c] = "new"
    /\ link' = [link EXCEPT ![c] = "open"]
    /\ \E f \in FreeFds : /\ \A g \in FreeFds : f <= g
                         /\ fd' = [fd EXCEPT ![c] = f]
    /\ UNCHANGED <<sent, wire, here, edge, loop, packetVars, queueVars, historyVars>>

\* epoll_wait() returns the connection c, and will not again before something arrives.
Notify(c) ==
    /\ loop.pc = "idle"
    /\ edge[c]
    /\ edge' = [edge EXCEPT ![c] = FALSE]
    /\ loop' = [pc |-> "work", at |-> c, left |-> <<>>]
    /\ UNCHANGED <<netVars, packetVars, queueVars, historyVars>>

\* One read of work(); it goes on until there is nothing to read.
Recv ==
    LET c == loop.at
        n == IF here[c] < BufSize THEN here[c] ELSE BufSize
    IN  /\ loop.pc = "work"
        /\ here[c] > 0
        /\ loop' = [pc |-> "turn", at |-> c, left |-> SubSeq(wire[c], 1, n)]
        /\ wire' = [wire EXCEPT ![c] = SubSeq(@, n + 1, Len(@))]
        /\ here' = [here EXCEPT ![c] = @ - n]
        /\ UNCHANGED <<link, fd, sent, edge, packetVars, queueVars, historyVars>>

\* EAGAIN.
WouldBlock ==
    /\ loop.pc = "work"
    /\ here[loop.at] = 0
    /\ link[loop.at] # "closed"
    /\ loop' = Idle
    /\ UNCHANGED <<netVars, edge, packetVars, queueVars, historyVars>>

\* The client has closed: so does the server, and the descriptor is free.
PeerClosed ==
    LET c == loop.at
    IN  /\ loop.pc = "work"
        /\ here[c] = 0
        /\ link[c] = "closed"
        /\ link' = [link EXCEPT ![c] = "gone"]
        /\ edge' = [edge EXCEPT ![c] = FALSE]
        /\ loop' = Idle
        /\ UNCHANGED <<fd, sent, wire, here, packetVars, queueVars, historyVars>>

\* What a turn of the inner loop knows after it has looked for a header.
Header(c) == IF header[c] # 0 THEN header[c] ELSE Head(loop.left)[1]
Left(c)   == IF header[c] # 0 THEN loop.left ELSE Tail(loop.left)
BodyLen(c) == sent[c][Header(c)]
Missing(c) == BodyLen(c) - Len(body[c])

\* Mutant: work() returns after one read.
ContinueReturns(c, left) ==
    [pc |-> IF left = <<>> THEN "idle" ELSE "turn", at |-> c, left |-> left]

\* The bytes left go on with work() when there are none, else with the next turn.
Continue(c, left) ==
    [pc |-> IF left = <<>> THEN "work" ELSE "turn", at |-> c, left |-> left]

\* The body is not complete.
TurnPartial ==
    LET c == loop.at
    IN  /\ loop.pc = "turn"
        /\ Len(Left(c)) < Missing(c)
        /\ header' = [header EXCEPT ![c] = Header(c)]
        /\ body' = [body EXCEPT ![c] = @ \o Left(c)]
        /\ loop' = Continue(c, <<>>)
        /\ UNCHANGED <<netVars, edge, queueVars, historyVars>>

\* The message has no body and is not pushed; nothing consumes further bytes, so the
\* loop over them does not end.
TurnEmpty ==
    LET c == loop.at
    IN  /\ loop.pc = "turn"
        /\ BodyLen(c) = 0
        /\ header' = [header EXCEPT ![c] = Header(c)]
        /\ loop' = IF Left(c) = <<>> THEN Continue(c, <<>>)
                   ELSE [pc |-> "hung", at |-> c, left |-> Left(c)]
        /\ UNCHANGED <<netVars, edge, body, queueVars, historyVars>>

\* Mutant: the wrap comes one queue too late.
NextQueueLate(q) == IF q = WorkerCount THEN 0 ELSE q + 1

\* getmsgqueuebyrobin()
NextQueue(q) == IF q + 1 = WorkerCount THEN 0 ELSE q + 1

\* Mutant: m_nheader_recv is not reset.
TurnPushKeepsHeader ==
    LET c == loop.at
        bytes == <<<<Header(c), 0>>>> \o body[c] \o SubSeq(Left(c), 1, Missing(c))
    IN  /\ loop.pc = "turn"
        /\ Missing(c) > 0
        /\ Len(Left(c)) >= Missing(c)
        /\ queue' = [queue EXCEPT ![robin] = Append(@,
                        [fd |-> fd[c], from |-> c, no |-> Header(c)])]
        /\ loop' = [pc |-> "signal", at |-> c, to |-> robin,
                    left |-> SubSeq(Left(c), Missing(c) + 1, Len(Left(c)))]
        /\ robin' = NextQueue(robin)
        /\ header' = [header EXCEPT ![c] = Header(c)]
        /\ body' = [body EXCEPT ![c] = <<>>]
        /\ taken' = [taken EXCEPT ![c] = Append(@, bytes)]
        /\ UNCHANGED <<netVars, edge, signal, worker, answered>>

\* The body is complete: the message is pushed, without a signal yet.
TurnPush ==
    LET c == loop.at
        bytes == <<<<Header(c), 0>>>> \o body[c] \o SubSeq(Left(c), 1, Missing(c))
    IN  /\ loop.pc = "turn"
        /\ Missing(c) > 0
        /\ Len(Left(c)) >= Missing(c)
        /\ queue' = [queue EXCEPT ![robin] = Append(@,
                        [fd |-> fd[c], from |-> c, no |-> Header(c)])]
        /\ loop' = [pc |-> "signal", at |-> c, to |-> robin,
                    left |-> SubSeq(Left(c), Missing(c) + 1, Len(Left(c)))]
        /\ robin' = NextQueue(robin)
        /\ header' = [header EXCEPT ![c] = 0]
        /\ body' = [body EXCEPT ![c] = <<>>]
        /\ taken' = [taken EXCEPT ![c] = Append(@, bytes)]
        /\ UNCHANGED <<netVars, edge, signal, worker, answered>>

\* signal_set(), up to the unlock of its mutex.
SignalSet ==
    /\ loop.pc = "signal"
    /\ signal' = [signal EXCEPT ![loop.to] = @ + 1]
    /\ loop' = [pc |-> "wake", at |-> loop.at, to |-> loop.to, left |-> loop.left]
    /\ UNCHANGED <<netVars, edge, packetVars, queue, robin, worker, historyVars>>

\* Mutant: signal_set() does not signal the condition.
WakeupForgotten ==
    /\ loop.pc = "wake"
    /\ loop' = Continue(loop.at, loop.left)
    /\ UNCHANGED <<netVars, edge, packetVars, queueVars, historyVars>>

\* The wakeup of signal_set(): it does something only if the worker waits by now.
Wakeup ==
    /\ loop.pc = "wake"
    /\ worker' = [worker EXCEPT ![loop.to] = IF @.pc = "wait" THEN NoPacket ELSE @]
    /\ loop' = Continue(loop.at, loop.left)
    /\ UNCHANGED <<netVars, edge, packetVars, queue, signal, robin, historyVars>>

-----------------------------------------------------------------------------
(* The worker of the queue q.                                                *)

\* Mutant: the counter is not taken.
SignalWaitKeeps(q) ==
    /\ worker[q].pc = "run"
    /\ IF signal[q] = 0
       THEN /\ worker' = [worker EXCEPT ![q] = [pc |-> "wait"]]
            /\ UNCHANGED signal
       ELSE /\ worker' = [worker EXCEPT ![q] = [pc |-> "pop"]]
            /\ signal' = [signal EXCEPT ![q] = @]
    /\ UNCHANGED <<netVars, edge, loop, packetVars, queue, robin, historyVars>>

\* Mutant: the event is not a semaphore (m_nsignal = 0).
SignalWaitClears(q) ==
    /\ worker[q].pc = "run"
    /\ IF signal[q] = 0
       THEN /\ worker' = [worker EXCEPT ![q] = [pc |-> "wait"]]
            /\ UNCHANGED signal
       ELSE /\ worker' = [worker EXCEPT ![q] = [pc |-> "pop"]]
            /\ signal' = [signal EXCEPT ![q] = 0]
    /\ UNCHANGED <<netVars, edge, loop, packetVars, queue, robin, historyVars>>

\* signal_wait(): the counter is tested and taken, or the wait begun, under the mutex.
SignalWait(q) ==
    /\ worker[q].pc = "run"
    /\ IF signal[q] = 0
       THEN /\ worker' = [worker EXCEPT ![q] = [pc |-> "wait"]]
            /\ UNCHANGED signal
       ELSE /\ worker' = [worker EXCEPT ![q] = [pc |-> "pop"]]
            /\ signal' = [signal EXCEPT ![q] = @ - 1]
    /\ UNCHANGED <<netVars, edge, loop, packetVars, queue, robin, historyVars>>

Pop(q) ==
    /\ worker[q].pc = "pop"
    /\ queue[q] # <<>>
    /\ worker' = [worker EXCEPT ![q] = [pc |-> "parse", msg |-> Head(queue[q])]]
    /\ queue' = [queue EXCEPT ![q] = Tail(@)]
    /\ UNCHANGED <<netVars, edge, loop, packetVars, signal, robin, historyVars>>

\* parse_msg(): the handler answers on the descriptor, whosever it is by now.
Parse(q) ==
    LET m == worker[q].msg
    IN  /\ worker[q].pc = "parse"
        /\ answered' = [c \in Clients |->
               IF c \in Held /\ fd[c] = m.fd THEN answered[c] \cup {m.from} ELSE answered[c]]
        /\ worker' = [worker EXCEPT ![q] = NoPacket]
        /\ UNCHANGED <<netVars, edge, loop, packetVars, queue, signal, robin, taken>>

-----------------------------------------------------------------------------
Network(c) == Arrive(c) \/ CloseArrives(c)
EpollThread == \/ \E c \in Clients : Notify(c)
               \/ Recv \/ WouldBlock \/ PeerClosed
               \/ TurnPartial \/ TurnEmpty \/ TurnPush \/ SignalSet \/ Wakeup
Worker(q) == SignalWait(q) \/ Pop(q) \/ Parse(q)

Next == \/ \E c \in Clients : \/ \E n \in Lengths : Send(c, n)
                              \/ Close(c) \/ Accept(c) \/ Network(c)
        \/ EpollThread
        \/ \E q \in Queues : Worker(q)

Spec == Init /\ [][Next]_vars

\* What is sent arrives, and the epoll thread and the workers loop for ever.
FairSpec == /\ Spec
            /\ WF_vars(EpollThread)
            /\ \A c \in Clients : WF_vars(Network(c))
            /\ \A q \in Queues : WF_vars(Worker(q))

-----------------------------------------------------------------------------
(* Properties                                                                *)

Packets == [fd : 0..Cardinality(Clients), from : Clients, no : Nat]

\* The bytes a connection may carry.
Bytes(c) == (1..Len(sent[c])) \X Nat

\* Every variable has its type; a turn of the inner loop has bytes to look at.
NetTypes ==
    /\ link \in [Clients -> {"new", "open", "closing", "closed", "gone"}]
    /\ fd \in [Clients -> 0..Cardinality(Clients)]
    /\ sent \in [Clients -> Seq(Lengths)]
    /\ DOMAIN wire = Clients /\ \A c \in Clients : wire[c] \in Seq(Bytes(c))
    /\ DOMAIN here = Clients /\ \A c \in Clients : here[c] \in 0..Len(wire[c])
    /\ edge \in [Clients -> BOOLEAN]
LoopTypes ==
    /\ loop.pc \in {"idle", "work", "turn", "signal", "wake", "hung"}
    /\ loop.pc # "idle" => loop.at \in Clients /\ loop.left \in Seq(Bytes(loop.at))
    /\ loop.pc = "turn" => loop.left # <<>>
    /\ loop.pc \in {"signal", "wake"} => loop.to \in Queues
PacketTypes ==
    /\ DOMAIN header = Clients /\ \A c \in Clients : header[c] \in 0..Len(sent[c])
    /\ DOMAIN body = Clients /\ \A c \in Clients : body[c] \in Seq(Bytes(c))
QueueTypes ==
    /\ robin \in Queues
    /\ queue \in [Queues -> Seq(Packets)]
    /\ signal \in [Queues -> Nat]
    /\ DOMAIN worker = Queues
    /\ \A q \in Queues : /\ worker[q].pc \in {"run", "wait", "pop", "parse"}
                         /\ worker[q].pc = "parse" => worker[q].msg \in Packets
TypeOK == NetTypes /\ LoopTypes /\ PacketTypes /\ QueueTypes
          /\ answered \in [Clients -> SUBSET Clients]

\* The messages cut from a connection are those sent over it, whole, in order and none
\* left out, however the bytes are read (stream_msg_packetizer.h:18-21).
MessagesIntact ==
    \A c \in Clients : \A i \in 1..Len(taken[c]) : taken[c][i] = Message(sent[c], i)

\* A worker that was let through by signal_wait() finds a message: pop() calls front()
\* without looking.
NoEmptyPop ==
    \A q \in Queues : worker[q].pc = "pop" => queue[q] # <<>>

\* A worker that waits although its event counts messages is about to be woken: the
\* count is tested and the wait begun as one step for whoever signals (event.cpp:53-83).
NoLostWakeup ==
    \A q \in Queues : worker[q].pc = "wait" /\ signal[q] > 0 => loop.pc = "wake" /\ loop.to = q

\* Every message with a body is cut from its connection, also when the client closes
\* right after it - unless a message without a body has hung the epoll thread.
Waiting(c) == \E i \in (Len(taken[c]) + 1)..Len(sent[c]) : sent[c][i] > 0
MessagesTaken == \A c \in Clients : Waiting(c) ~> (~Waiting(c) \/ loop.pc = "hung")

\* What is pushed is taken from the queue: no signal is lost.
QueueDrained == \A q \in Queues : queue[q] # <<>> ~> queue[q] = <<>>

\* common_protocol.h:23-25 has the descriptor "sign the source of message stream".  A
\* client is answered a message that is not its own only in place of one whose
\* connection the server has closed: two open connections never share a descriptor.
OnlyReuseMisleads == \A c \in Clients : \A d \in answered[c] : d = c \/ link[d] = "gone"
=============================================================================
