--------------------------- MODULE TransportProofs ---------------------------
(***************************************************************************)
(* Invariants of the transport for any number of connections and workers,   *)
(* any read size and any messages.                                          *)
(***************************************************************************)
EXTENDS Transport, SequenceTheorems, FiniteSetTheorems, TLAPS

LEMMA QueuesLemma == WorkerCount \in Nat /\ 0 < WorkerCount /\ Queues \subseteq Nat /\ 0 \in Queues
BY WorkersAssumption DEF Queues

LEMMA ClientCount == Cardinality(Clients) \in Nat
BY ClientsAssumption, FS_CardinalityType

\* Bytes that were typed stay typed when further messages are sent.
LEMMA BytesGrow ==
    ASSUME NEW n \in Nat, NEW m \in Nat, n <= m, NEW s \in Seq((1..n) \X Nat)
    PROVE  s \in Seq((1..m) \X Nat)
<1>1. (1..n) \X Nat \subseteq (1..m) \X Nat
  OBVIOUS
<1> QED
  BY <1>1, SeqMonotonic

\* The bytes of a message are typed.
LEMMA MessageBytes ==
    ASSUME NEW lengths \in Seq(Nat), NEW i \in 1..Len(lengths)
    PROVE  Message(lengths, i) \in Seq((1..Len(lengths)) \X Nat)
<1> DEFINE n == lengths[i] + 1
<1>1. n \in Nat
  BY ElementOfSeq
<1>2. Message(lengths, i) \in [1..n -> (1..Len(lengths)) \X Nat]
  BY <1>1 DEF Message
<1> HIDE DEF n
<1> DEFINE S == (1..Len(lengths)) \X Nat
<1>3. Message(lengths, i) \in [1..n -> S]
  BY <1>2
<1> HIDE DEF S
<1>4. Message(lengths, i) \in Seq(S)
  BY <1>1, <1>3, SeqDef
<1> QED
  BY <1>4 DEF S

\* The parts of a sequence cut after its first n elements.
LEMMA Cut ==
    ASSUME NEW S, NEW s \in Seq(S), NEW n \in 0..Len(s)
    PROVE  /\ SubSeq(s, 1, n) \in Seq(S) /\ Len(SubSeq(s, 1, n)) = n
           /\ SubSeq(s, n + 1, Len(s)) \in Seq(S) /\ Len(SubSeq(s, n + 1, Len(s))) = Len(s) - n
<1>1. Len(s) \in Nat /\ \A i \in 1..Len(s) : s[i] \in S
  BY LenProperties, ElementOfSeq
<1>2. /\ SubSeq(s, 1, n) \in Seq(S)
      /\ Len(SubSeq(s, 1, n)) = IF 1 <= n THEN n - 1 + 1 ELSE 0
  BY <1>1, SubSeqProperties
<1>3. /\ SubSeq(s, n + 1, Len(s)) \in Seq(S)
      /\ Len(SubSeq(s, n + 1, Len(s))) = IF n + 1 <= Len(s) THEN Len(s) - (n + 1) + 1 ELSE 0
  BY <1>1, SubSeqProperties
<1> QED
  BY <1>1, <1>2, <1>3

\* What a turn of the inner loop works with.
LEMMA TurnLemma ==
    ASSUME TypeOK, loop.pc = "turn", NEW c, c = loop.at
    PROVE  /\ c \in Clients
           /\ Header(c) \in 1..Len(sent[c])
           /\ Left(c) \in Seq(Bytes(c))
           /\ BodyLen(c) \in Nat /\ Len(body[c]) \in Nat /\ Missing(c) \in Int
           /\ Missing(c) = BodyLen(c) - Len(body[c])
<1>1. /\ c \in Clients /\ loop.left \in Seq(Bytes(c)) /\ loop.left # <<>>
      /\ sent[c] \in Seq(Lengths) /\ header[c] \in 0..Len(sent[c]) /\ body[c] \in Seq(Bytes(c))
  BY DEF TypeOK, LoopTypes, NetTypes, PacketTypes
<1>2. Head(loop.left) \in Bytes(c) /\ Tail(loop.left) \in Seq(Bytes(c))
  BY <1>1, HeadTailProperties
<1>3. Head(loop.left)[1] \in 1..Len(sent[c])
  BY <1>2 DEF Bytes
<1>4. Len(sent[c]) \in Nat /\ Len(body[c]) \in Nat
  BY <1>1, LenProperties
<1>5. Header(c) \in 1..Len(sent[c]) /\ Left(c) \in Seq(Bytes(c))
  BY <1>1, <1>2, <1>3, <1>4 DEF Header, Left
<1>6. BodyLen(c) \in Nat
  BY <1>1, <1>5, ElementOfSeq, SizesAssumption DEF BodyLen
<1> QED
  BY <1>1, <1>4, <1>5, <1>6 DEF Missing

-----------------------------------------------------------------------------
(* Types                                                                     *)

LEMMA InitTypes == Init => TypeOK
<1> SUFFICES ASSUME Init PROVE TypeOK
  OBVIOUS
<1>1. \A S : <<>> \in Seq(S)
  BY EmptySeq
<1>2. NetTypes
  <2>1. Len(<<>>) = 0
    OBVIOUS
  <2>2. \A c \in Clients : here[c] \in 0..Len(wire[c])
    BY <2>1 DEF Init
  <2> QED
    BY <1>1, <2>2, ClientCount DEF Init, NetTypes
<1>3. LoopTypes
  BY DEF Init, LoopTypes, Idle
<1>4. PacketTypes
  BY <1>1 DEF Init, PacketTypes
<1>5. QueueTypes
  BY <1>1, QueuesLemma DEF Init, QueueTypes, NoPacket
<1> QED
  BY <1>2, <1>3, <1>4, <1>5 DEF TypeOK, Init

LEMMA StepTypes == TypeOK /\ [Next]_vars => TypeOK'
<1> SUFFICES ASSUME TypeOK, [Next]_vars PROVE TypeOK'
  OBVIOUS
<1> USE DEF netVars, packetVars, queueVars, historyVars
<1>1. ASSUME NEW c \in Clients, NEW n \in Lengths, Send(c, n) PROVE TypeOK'
  <2> DEFINE s == Append(sent[c], n)
  <2>1. sent[c] \in Seq(Lengths) /\ n \in Nat
    BY <1>1, SizesAssumption DEF TypeOK, NetTypes
  <2>2. s \in Seq(Lengths) /\ Len(s) = Len(sent[c]) + 1 /\ Len(sent[c]) \in Nat
    BY <2>1, AppendProperties, LenProperties
  <2>3. sent' = [sent EXCEPT ![c] = s] /\ sent'[c] = s
    BY <1>1 DEF Send, TypeOK, NetTypes
  <2>4. \A b \in Clients : Len(sent[b]) \in Nat /\ Len(sent'[b]) \in Nat /\ Len(sent[b]) <= Len(sent'[b])
    BY <2>2, <2>3, LenProperties DEF TypeOK, NetTypes
  <2>5. \A b \in Clients : \A x \in Seq(Bytes(b)) : x \in Seq(Bytes(b)')
    BY <2>4, BytesGrow DEF Bytes
  <2>6. Message(s, Len(s)) \in Seq(Bytes(c)')
    <3> HIDE DEF s
    <3>1. s \in Seq(Nat)
      BY <2>2, SeqMonotonic, SizesAssumption
    <3>2. Len(s) \in 1..Len(s)
      BY <2>2
    <3> QED
      BY <2>3, <3>1, <3>2, MessageBytes DEF Bytes
  <2>7. /\ wire' = [wire EXCEPT ![c] = wire[c] \o Message(s, Len(s))]
        /\ wire[c] \in Seq(Bytes(c)') /\ DOMAIN wire = Clients
    BY <1>1, <2>3, <2>5 DEF Send, TypeOK, NetTypes
  <2>8. \A b \in Clients : /\ wire'[b] \in Seq(Bytes(b)')
                           /\ Len(wire[b]) \in Nat /\ Len(wire'[b]) \in Nat
                           /\ Len(wire[b]) <= Len(wire'[b])
    <3> SUFFICES ASSUME NEW b \in Clients
                 PROVE  /\ wire'[b] \in Seq(Bytes(b)')
                        /\ Len(wire[b]) \in Nat /\ Len(wire'[b]) \in Nat
                        /\ Len(wire[b]) <= Len(wire'[b])
      OBVIOUS
    <3>1. CASE b = c
      BY <2>6, <2>7, <3>1, ConcatProperties, LenProperties
    <3>2. CASE b # c
      BY <2>5, <2>7, <3>2, LenProperties DEF TypeOK, NetTypes
    <3> QED
      BY <3>1, <3>2
  <2>9. NetTypes'
    BY <1>1, <2>2, <2>3, <2>7, <2>8 DEF Send, TypeOK, NetTypes
  <2>10. LoopTypes'
    BY <1>1, <2>5 DEF Send, TypeOK, LoopTypes
  <2>11. PacketTypes'
    BY <1>1, <2>4, <2>5 DEF Send, TypeOK, PacketTypes
  <2>12. QueueTypes' /\ answered' \in [Clients -> SUBSET Clients]
    BY <1>1 DEF Send, TypeOK, QueueTypes
  <2> QED
    BY <2>9, <2>10, <2>11, <2>12 DEF TypeOK
<1>2. ASSUME NEW c \in Clients, Arrive(c) PROVE TypeOK'
  <2>1. Len(wire[c]) \in Nat /\ here[c] \in Nat
    BY LenProperties DEF TypeOK, NetTypes
  <2>2. NetTypes'
    BY <1>2, <2>1 DEF Arrive, TypeOK, NetTypes, Bytes
  <2> QED
    BY <1>2, <2>2 DEF Arrive, TypeOK, LoopTypes, PacketTypes, QueueTypes, Bytes
<1>3. ASSUME NEW c \in Clients, Close(c) PROVE TypeOK'
  <2>1. NetTypes'
    BY <1>3 DEF Close, TypeOK, NetTypes, Bytes
  <2> QED
    BY <1>3, <2>1 DEF Close, TypeOK, LoopTypes, PacketTypes, QueueTypes, Bytes
<1>4. ASSUME NEW c \in Clients, CloseArrives(c) PROVE TypeOK'
  <2>1. NetTypes'
    BY <1>4 DEF CloseArrives, TypeOK, NetTypes, Bytes
  <2> QED
    BY <1>4, <2>1 DEF CloseArrives, TypeOK, LoopTypes, PacketTypes, QueueTypes, Bytes
<1>5. ASSUME NEW c \in Clients, Accept(c) PROVE TypeOK'
  <2>1. fd' \in [Clients -> 0..Cardinality(Clients)]
    BY <1>5, ClientCount DEF Accept, TypeOK, NetTypes, FreeFds
  <2>2. NetTypes'
    BY <1>5, <2>1 DEF Accept, TypeOK, NetTypes, Bytes
  <2> QED
    BY <1>5, <2>2 DEF Accept, TypeOK, LoopTypes, PacketTypes, QueueTypes, Bytes
<1>6. ASSUME NEW c \in Clients, Notify(c) PROVE TypeOK'
  <2>1. NetTypes'
    BY <1>6 DEF Notify, TypeOK, NetTypes, Bytes
  <2>2. LoopTypes'
    BY <1>6, EmptySeq DEF Notify, TypeOK, LoopTypes, Bytes
  <2> QED
    BY <1>6, <2>1, <2>2 DEF Notify, TypeOK, PacketTypes, QueueTypes, Bytes
<1>7. ASSUME Recv PROVE TypeOK'
  <2> DEFINE c == loop.at
             n == IF here[c] < BufSize THEN here[c] ELSE BufSize
             s == wire[c]
  <2>1. /\ c \in Clients /\ s \in Seq(Bytes(c)) /\ Len(s) \in Nat
        /\ here[c] \in 0..Len(s) /\ here[c] > 0
    BY <1>7, LenProperties DEF Recv, TypeOK, NetTypes, LoopTypes
  <2>2. n \in 1..Len(s) /\ n <= here[c]
    BY <2>1, SizesAssumption
  <2>3. /\ loop' = [pc |-> "turn", at |-> c, left |-> SubSeq(s, 1, n)]
        /\ wire' = [wire EXCEPT ![c] = SubSeq(s, n + 1, Len(s))]
        /\ here' = [here EXCEPT ![c] = here[c] - n]
        /\ UNCHANGED <<link, fd, sent, edge, packetVars, queueVars, historyVars>>
    BY <1>7 DEF Recv
  <2> HIDE DEF n
  <2>4. /\ SubSeq(s, 1, n) \in Seq(Bytes(c)) /\ Len(SubSeq(s, 1, n)) = n
        /\ SubSeq(s, n + 1, Len(s)) \in Seq(Bytes(c)) /\ Len(SubSeq(s, n + 1, Len(s))) = Len(s) - n
    BY <2>1, <2>2, Cut
  <2>5. SubSeq(s, 1, n) # <<>>
    BY <2>2, <2>4
  <2> DEFINE front == SubSeq(s, 1, n)
             rest == SubSeq(s, n + 1, Len(s))
  <2>6. here[c] - n \in 0..Len(rest)
    BY <2>1, <2>2, <2>4
  <2> HIDE DEF front, rest
  <2>7. NetTypes'
    BY <2>1, <2>3, <2>4, <2>6 DEF TypeOK, NetTypes, Bytes, front, rest
  <2>8. LoopTypes'
    BY <2>1, <2>3, <2>4, <2>5 DEF LoopTypes, Bytes
  <2> QED
    BY <2>3, <2>7, <2>8 DEF TypeOK, PacketTypes, QueueTypes, Bytes
<1>8. ASSUME WouldBlock PROVE TypeOK'
  <2>1. NetTypes'
    BY <1>8 DEF WouldBlock, TypeOK, NetTypes, Bytes
  <2>2. LoopTypes'
    BY <1>8 DEF WouldBlock, LoopTypes, Idle
  <2> QED
    BY <1>8, <2>1, <2>2 DEF WouldBlock, TypeOK, PacketTypes, QueueTypes, Bytes
<1>9. ASSUME PeerClosed PROVE TypeOK'
  <2>1. NetTypes'
    BY <1>9 DEF PeerClosed, TypeOK, NetTypes, Bytes
  <2>2. LoopTypes'
    BY <1>9 DEF PeerClosed, LoopTypes, Idle
  <2> QED
    BY <1>9, <2>1, <2>2 DEF PeerClosed, TypeOK, PacketTypes, QueueTypes, Bytes
<1>10. ASSUME TurnPartial PROVE TypeOK'
  <2> DEFINE c == loop.at
  <2>1. loop.pc = "turn"
    BY <1>10 DEF TurnPartial
  <2>2. /\ c \in Clients /\ Header(c) \in 1..Len(sent[c]) /\ Left(c) \in Seq(Bytes(c))
        /\ body[c] \in Seq(Bytes(c))
    BY <2>1, TurnLemma DEF TypeOK, PacketTypes
  <2>3. /\ header' = [header EXCEPT ![c] = Header(c)]
        /\ body' = [body EXCEPT ![c] = body[c] \o Left(c)]
        /\ loop' = [pc |-> "work", at |-> c, left |-> <<>>]
        /\ UNCHANGED <<netVars, edge, queueVars, historyVars>>
    BY <1>10 DEF TurnPartial, Continue
  <2>4. body[c] \o Left(c) \in Seq(Bytes(c))
    BY <2>2, ConcatProperties
  <2> DEFINE whole == body[c] \o Left(c)
  <2> HIDE DEF whole
  <2>5. PacketTypes'
    BY <2>2, <2>3, <2>4 DEF TypeOK, PacketTypes, Bytes, whole
  <2>6. LoopTypes'
    BY <2>2, <2>3, EmptySeq DEF LoopTypes, Bytes
  <2>7. NetTypes'
    BY <2>3 DEF TypeOK, NetTypes, Bytes
  <2> QED
    BY <2>3, <2>5, <2>6, <2>7 DEF TypeOK, QueueTypes
<1>11. ASSUME TurnEmpty PROVE TypeOK'
  <2> DEFINE c == loop.at
  <2>1. loop.pc = "turn"
    BY <1>11 DEF TurnEmpty
  <2>2. c \in Clients /\ Header(c) \in 1..Len(sent[c]) /\ Left(c) \in Seq(Bytes(c))
    BY <2>1, TurnLemma
  <2>3. /\ header' = [header EXCEPT ![c] = Header(c)]
        /\ \/ loop' = [pc |-> "work", at |-> c, left |-> <<>>]
           \/ loop' = [pc |-> "hung", at |-> c, left |-> Left(c)]
        /\ UNCHANGED <<netVars, edge, body, queueVars, historyVars>>
    BY <1>11 DEF TurnEmpty, Continue
  <2>4. PacketTypes'
    BY <2>2, <2>3 DEF TypeOK, PacketTypes, Bytes
  <2>5. LoopTypes'
    <3>1. CASE loop' = [pc |-> "work", at |-> c, left |-> <<>>]
      BY <2>2, <2>3, <3>1, EmptySeq DEF LoopTypes, Bytes
    <3>2. CASE loop' = [pc |-> "hung", at |-> c, left |-> Left(c)]
      BY <2>2, <2>3, <3>2 DEF LoopTypes, Bytes
    <3> QED
      BY <2>3, <3>1, <3>2
  <2>6. NetTypes'
    BY <2>3 DEF TypeOK, NetTypes, Bytes
  <2> QED
    BY <2>3, <2>4, <2>5, <2>6 DEF TypeOK, QueueTypes
<1>12. ASSUME TurnPush PROVE TypeOK'
  <2> DEFINE c == loop.at
             left == SubSeq(Left(c), Missing(c) + 1, Len(Left(c)))
             packet == [fd |-> fd[c], from |-> c, no |-> Header(c)]
  <2>1. loop.pc = "turn" /\ Missing(c) > 0 /\ Len(Left(c)) >= Missing(c)
    BY <1>12 DEF TurnPush
  <2>2. /\ c \in Clients /\ Header(c) \in 1..Len(sent[c]) /\ Left(c) \in Seq(Bytes(c))
        /\ Missing(c) \in Int
    BY <2>1, TurnLemma
  <2>3. left \in Seq(Bytes(c))
    <3>1. Len(Left(c)) \in Nat /\ Missing(c) \in 0..Len(Left(c))
      BY <2>1, <2>2, LenProperties
    <3> QED
      BY <2>2, <3>1, Cut
  <2>4. packet \in Packets /\ robin \in Queues
    <3>1. fd[c] \in 0..Cardinality(Clients) /\ Len(sent[c]) \in Nat
      BY <2>2, LenProperties DEF TypeOK, NetTypes
    <3> QED
      BY <2>2, <3>1 DEF Packets, TypeOK, QueueTypes
  <2>5. /\ header' = [header EXCEPT ![c] = Header(c)] \/ header' = [header EXCEPT ![c] = 0]
        /\ body' = [body EXCEPT ![c] = <<>>]
        /\ queue' = [queue EXCEPT ![robin] = Append(queue[robin], packet)]
        /\ loop' = [pc |-> "signal", at |-> c, to |-> robin, left |-> left]
        /\ robin' = NextQueue(robin)
        /\ UNCHANGED <<netVars, edge, signal, worker, answered>>
    BY <1>12 DEF TurnPush
  <2> HIDE DEF c, left, packet
  <2>6. robin' \in Queues
    BY <2>4, <2>5, QueuesLemma DEF NextQueue, Queues
  <2>7. queue' \in [Queues -> Seq(Packets)]
    <3>1. queue[robin] \in Seq(Packets)
      BY <2>4 DEF TypeOK, QueueTypes
    <3>2. Append(queue[robin], packet) \in Seq(Packets)
      BY <2>4, <3>1, AppendProperties
    <3> QED
      BY <2>5, <3>2 DEF TypeOK, QueueTypes
  <2>8. QueueTypes'
    BY <2>5, <2>6, <2>7 DEF TypeOK, QueueTypes
  <2>9. PacketTypes'
    BY <2>2, <2>5, EmptySeq DEF TypeOK, PacketTypes, Bytes
  <2>10. LoopTypes'
    BY <2>2, <2>3, <2>4, <2>5 DEF LoopTypes, Bytes
  <2>11. NetTypes'
    BY <2>5 DEF TypeOK, NetTypes, Bytes
  <2> QED
    BY <2>5, <2>8, <2>9, <2>10, <2>11 DEF TypeOK
<1>13. ASSUME SignalSet PROVE TypeOK'
  <2>1. NetTypes' /\ PacketTypes' /\ answered' \in [Clients -> SUBSET Clients]
    BY <1>13 DEF SignalSet, TypeOK, NetTypes, PacketTypes, Bytes
  <2>2. LoopTypes'
    BY <1>13 DEF SignalSet, TypeOK, LoopTypes, Bytes
  <2>3. QueueTypes'
    <3>1. signal[loop.to] + 1 \in Nat
      BY <1>13 DEF SignalSet, TypeOK, LoopTypes, QueueTypes
    <3> QED
      BY <1>13, <3>1 DEF SignalSet, TypeOK, QueueTypes
  <2> QED
    BY <2>1, <2>2, <2>3 DEF TypeOK
<1>14. ASSUME Wakeup PROVE TypeOK'
  <2>1. NetTypes' /\ PacketTypes' /\ answered' \in [Clients -> SUBSET Clients]
    BY <1>14 DEF Wakeup, TypeOK, NetTypes, PacketTypes, Bytes
  <2>2. LoopTypes'
    BY <1>14 DEF Wakeup, Continue, TypeOK, LoopTypes, Bytes
  <2>3. QueueTypes'
    BY <1>14 DEF Wakeup, NoPacket, TypeOK, QueueTypes
  <2> QED
    BY <2>1, <2>2, <2>3 DEF TypeOK
<1>15. ASSUME NEW q \in Queues, SignalWait(q) PROVE TypeOK'
  <2>1. NetTypes' /\ LoopTypes' /\ PacketTypes' /\ answered' \in [Clients -> SUBSET Clients]
    BY <1>15 DEF SignalWait, TypeOK, NetTypes, LoopTypes, PacketTypes, Bytes
  <2>2. signal' \in [Queues -> Nat]
    <3>1. CASE signal[q] = 0
      BY <1>15, <3>1 DEF SignalWait, TypeOK, QueueTypes
    <3>2. CASE signal[q] # 0
      <4>1. signal[q] - 1 \in Nat
        BY <3>2 DEF TypeOK, QueueTypes
      <4> QED
        BY <1>15, <3>2, <4>1 DEF SignalWait, TypeOK, QueueTypes
    <3> QED
      BY <3>1, <3>2
  <2>3. \E w \in {[pc |-> "wait"], [pc |-> "pop"]} : worker' = [worker EXCEPT ![q] = w]
    BY <1>15 DEF SignalWait
  <2>4. QueueTypes'
    BY <1>15, <2>2, <2>3 DEF SignalWait, TypeOK, QueueTypes
  <2> QED
    BY <2>1, <2>4 DEF TypeOK
<1>16. ASSUME NEW q \in Queues, Pop(q) PROVE TypeOK'
  <2>1. NetTypes' /\ LoopTypes' /\ PacketTypes' /\ answered' \in [Clients -> SUBSET Clients]
    BY <1>16 DEF Pop, TypeOK, NetTypes, LoopTypes, PacketTypes, Bytes
  <2>2. Head(queue[q]) \in Packets /\ Tail(queue[q]) \in Seq(Packets)
    BY <1>16, HeadTailProperties DEF Pop, TypeOK, QueueTypes
  <2>3. QueueTypes'
    BY <1>16, <2>2 DEF Pop, TypeOK, QueueTypes
  <2> QED
    BY <2>1, <2>3 DEF TypeOK
<1>17. ASSUME NEW q \in Queues, Parse(q) PROVE TypeOK'
  <2>1. NetTypes' /\ LoopTypes' /\ PacketTypes'
    BY <1>17 DEF Parse, TypeOK, NetTypes, LoopTypes, PacketTypes, Bytes
  <2>2. QueueTypes'
    BY <1>17 DEF Parse, NoPacket, TypeOK, QueueTypes
  <2>3. answered' \in [Clients -> SUBSET Clients]
    BY <1>17 DEF Parse, TypeOK, QueueTypes, Packets
  <2> QED
    BY <2>1, <2>2, <2>3 DEF TypeOK
<1>18. ASSUME UNCHANGED vars PROVE TypeOK'
  BY <1>18 DEF vars, TypeOK, NetTypes, LoopTypes, PacketTypes, QueueTypes, Bytes
<1> QED
  BY <1>1, <1>2, <1>3, <1>4, <1>5, <1>6, <1>7, <1>8, <1>9, <1>10, <1>11, <1>12, <1>13,
     <1>14, <1>15, <1>16, <1>17, <1>18
     DEF Next, Network, EpollThread, Worker

\* Every variable keeps its type, and work() never starts a turn without bytes.
THEOREM TypeCorrect == Spec => []TypeOK
<1> QED
  BY InitTypes, StepTypes, PTL DEF Spec

-----------------------------------------------------------------------------
(* The count of an event and the length of its queue                         *)

\* A message pushed and not yet counted, and one counted out and not yet popped.
Pushed(q) == IF loop.pc = "signal" /\ loop.to = q THEN 1 ELSE 0
Granted(q) == IF worker[q].pc = "pop" THEN 1 ELSE 0

\* An event counts the messages of its queue, up to the push and the pop under way.
Counted == \A q \in Queues : signal[q] + Pushed(q) + Granted(q) = Len(queue[q])

LEMMA InitCounted == Init => Counted
<1> SUFFICES ASSUME Init PROVE Counted
  OBVIOUS
<1>1. Len(<<>>) = 0
  OBVIOUS
<1> QED
  BY <1>1 DEF Init, Idle, NoPacket, Counted, Pushed, Granted

LEMMA QueueFacts ==
    ASSUME TypeOK, NEW q \in Queues
    PROVE  /\ queue[q] \in Seq(Packets) /\ Len(queue[q]) \in Nat /\ signal[q] \in Nat
           /\ Pushed(q) \in {0, 1} /\ Granted(q) \in {0, 1}
BY LenProperties DEF TypeOK, QueueTypes, Pushed, Granted

LEMMA StepCounted == TypeOK /\ Counted /\ [Next]_vars => Counted'
<1> SUFFICES ASSUME TypeOK, Counted, [Next]_vars, NEW r \in Queues
             PROVE  signal'[r] + Pushed(r)' + Granted(r)' = Len(queue'[r])
  BY DEF Counted
<1> DEFINE Goal == signal'[r] + Pushed(r)' + Granted(r)' = Len(queue'[r])
<1> USE DEF netVars, packetVars, queueVars, historyVars
<1>a. signal[r] + Pushed(r) + Granted(r) = Len(queue[r])
  BY DEF Counted
<1>b. /\ queue[r] \in Seq(Packets) /\ Len(queue[r]) \in Nat /\ signal[r] \in Nat
      /\ Pushed(r) \in {0, 1} /\ Granted(r) \in {0, 1}
  BY QueueFacts
<1>1. ASSUME NEW c \in Clients, \/ \E n \in Lengths : Send(c, n)
                                \/ Arrive(c) \/ Close(c) \/ CloseArrives(c) \/ Accept(c)
      PROVE Goal
  <2>1. UNCHANGED <<loop, signal, queue, worker>>
    BY <1>1 DEF Send, Arrive, Close, CloseArrives, Accept
  <2> QED
    BY <1>a, <2>1 DEF Pushed, Granted
<1>2. ASSUME \/ \E c \in Clients : Notify(c)
             \/ Recv \/ WouldBlock \/ PeerClosed \/ TurnPartial \/ TurnEmpty
      PROVE Goal
  <2>1. UNCHANGED <<signal, queue, worker>>
    BY <1>2 DEF Notify, Recv, WouldBlock, PeerClosed, TurnPartial, TurnEmpty
  <2>2. loop.pc # "signal" /\ loop'.pc # "signal"
    <3>1. ASSUME NEW c \in Clients, Notify(c) PROVE loop.pc # "signal" /\ loop'.pc # "signal"
      BY <3>1 DEF Notify
    <3>2. CASE Recv
      BY <3>2 DEF Recv
    <3>3. CASE WouldBlock \/ PeerClosed
      BY <3>3 DEF WouldBlock, PeerClosed, Idle
    <3>4. CASE TurnPartial
      BY <3>4 DEF TurnPartial, Continue
    <3>5. CASE TurnEmpty
      BY <3>5 DEF TurnEmpty, Continue
    <3> QED
      BY <1>2, <3>1, <3>2, <3>3, <3>4, <3>5
  <2> QED
    BY <1>a, <2>1, <2>2 DEF Pushed, Granted
<1>3. ASSUME TurnPush PROVE Goal
  <2> DEFINE packet == [fd |-> fd[loop.at], from |-> loop.at, no |-> Header(loop.at)]
  <2>1. /\ queue' = [queue EXCEPT ![robin] = Append(queue[robin], packet)]
        /\ loop.pc = "turn" /\ loop'.pc = "signal" /\ loop'.to = robin
        /\ UNCHANGED <<signal, worker>>
    BY <1>3 DEF TurnPush
  <2>2. robin \in Queues /\ DOMAIN queue = Queues
    BY DEF TypeOK, QueueTypes
  <2> HIDE DEF packet
  <2>3. CASE r = robin
    <3>1. Len(queue'[r]) = Len(queue[r]) + 1
      BY <1>b, <2>1, <2>2, <2>3
    <3> QED
      BY <1>a, <1>b, <2>1, <2>3, <3>1 DEF Pushed, Granted
  <2>4. CASE r # robin
    BY <1>a, <1>b, <2>1, <2>2, <2>4 DEF Pushed, Granted
  <2> QED
    BY <2>3, <2>4
<1>4. ASSUME SignalSet PROVE Goal
  <2>1. /\ signal' = [signal EXCEPT ![loop.to] = signal[loop.to] + 1]
        /\ loop.pc = "signal" /\ loop'.pc = "wake"
        /\ UNCHANGED <<queue, worker>>
    BY <1>4 DEF SignalSet
  <2>2. loop.to \in Queues /\ DOMAIN signal = Queues
    BY <2>1 DEF TypeOK, LoopTypes, QueueTypes
  <2>3. CASE r = loop.to
    BY <1>a, <1>b, <2>1, <2>2, <2>3 DEF Pushed, Granted
  <2>4. CASE r # loop.to
    BY <1>a, <1>b, <2>1, <2>2, <2>4 DEF Pushed, Granted
  <2> QED
    BY <2>3, <2>4
<1>5. ASSUME Wakeup PROVE Goal
  <2>1. /\ loop.pc = "wake" /\ loop'.pc # "signal"
        /\ worker' = [worker EXCEPT ![loop.to] =
                        IF worker[loop.to].pc = "wait" THEN NoPacket ELSE worker[loop.to]]
        /\ UNCHANGED <<queue, signal>>
    BY <1>5 DEF Wakeup, Continue
  <2>2. loop.to \in Queues /\ DOMAIN worker = Queues
    BY <2>1 DEF TypeOK, LoopTypes, QueueTypes
  <2>3. worker'[r].pc = "pop" <=> worker[r].pc = "pop"
    BY <2>1, <2>2 DEF NoPacket
  <2> QED
    BY <1>a, <2>1, <2>3 DEF Pushed, Granted
<1>6. ASSUME NEW q \in Queues, Worker(q), q # r PROVE Goal
  <2>1. signal'[r] = signal[r] /\ queue'[r] = queue[r] /\ worker'[r] = worker[r] /\ loop' = loop
    BY <1>6 DEF Worker, SignalWait, Pop, Parse, TypeOK, QueueTypes
  <2> QED
    BY <1>a, <2>1 DEF Pushed, Granted
<1>7. ASSUME SignalWait(r) PROVE Goal
  <2>1. DOMAIN worker = Queues /\ DOMAIN signal = Queues
    BY DEF TypeOK, QueueTypes
  <2>2. CASE signal[r] = 0
    BY <1>7, <1>a, <1>b, <2>1, <2>2 DEF SignalWait, Pushed, Granted
  <2>3. CASE signal[r] # 0
    BY <1>7, <1>a, <1>b, <2>1, <2>3 DEF SignalWait, Pushed, Granted
  <2> QED
    BY <2>2, <2>3
<1>8. ASSUME Pop(r) PROVE Goal
  <2>1. /\ worker[r].pc = "pop" /\ worker'[r].pc = "parse"
        /\ queue[r] # <<>> /\ queue'[r] = Tail(queue[r])
        /\ UNCHANGED <<loop, signal>>
    BY <1>8 DEF Pop, TypeOK, QueueTypes
  <2>2. Len(queue'[r]) = Len(queue[r]) - 1
    BY <1>b, <2>1, HeadTailProperties
  <2> QED
    BY <1>a, <1>b, <2>1, <2>2 DEF Pushed, Granted
<1>9. ASSUME Parse(r) PROVE Goal
  <2>1. /\ worker[r].pc = "parse" /\ worker'[r].pc = "run"
        /\ UNCHANGED <<loop, signal, queue>>
    BY <1>9 DEF Parse, NoPacket, TypeOK, QueueTypes
  <2> QED
    BY <1>a, <2>1 DEF Pushed, Granted
<1>10. ASSUME UNCHANGED vars PROVE Goal
  BY <1>10, <1>a DEF vars, Pushed, Granted
<1> QED
  BY <1>1, <1>2, <1>3, <1>4, <1>5, <1>6, <1>7, <1>8, <1>9, <1>10
     DEF Next, Network, EpollThread, Worker

LEMMA CountedAlways == Spec => []Counted
<1> QED
  BY InitCounted, StepCounted, TypeCorrect, PTL DEF Spec

LEMMA CountedGrants == TypeOK /\ Counted => NoEmptyPop
<1> SUFFICES ASSUME TypeOK, Counted, NEW q \in Queues, worker[q].pc = "pop"
             PROVE  queue[q] # <<>>
  BY DEF NoEmptyPop
<1>1. signal[q] + Pushed(q) + Granted(q) = Len(queue[q]) /\ Granted(q) = 1
  BY DEF Counted, Granted
<1>2. Len(queue[q]) > 0
  BY <1>1, QueueFacts
<1> QED
  BY <1>2

\* pop() is never called on an empty queue: whoever signal_wait() lets through finds the
\* message he was let through for (msg_looper.cpp:45-50, msg_queue.cpp:141-151).
THEOREM NoEmptyPops == Spec => []NoEmptyPop
<1> QED
  BY TypeCorrect, CountedAlways, CountedGrants, PTL

-----------------------------------------------------------------------------
(* No lost wakeup                                                            *)

LEMMA InitWakeup == Init => NoLostWakeup
BY DEF Init, NoPacket, NoLostWakeup

LEMMA StepWakeup == TypeOK /\ NoLostWakeup /\ [Next]_vars => NoLostWakeup'
<1> SUFFICES ASSUME TypeOK, NoLostWakeup, [Next]_vars, NEW r \in Queues,
                    worker'[r].pc = "wait", signal'[r] > 0
             PROVE  loop'.pc = "wake" /\ loop'.to = r
  BY DEF NoLostWakeup
<1> DEFINE Goal == loop'.pc = "wake" /\ loop'.to = r
<1> USE DEF netVars, packetVars, queueVars, historyVars
<1>a. worker[r].pc = "wait" /\ signal[r] > 0 => loop.pc = "wake" /\ loop.to = r
  BY DEF NoLostWakeup
<1>b. DOMAIN worker = Queues /\ DOMAIN signal = Queues
  BY DEF TypeOK, QueueTypes
<1>1. ASSUME NEW c \in Clients, \/ \E n \in Lengths : Send(c, n)
                                \/ Arrive(c) \/ Close(c) \/ CloseArrives(c) \/ Accept(c)
      PROVE Goal
  <2>1. UNCHANGED <<loop, signal, worker>>
    BY <1>1 DEF Send, Arrive, Close, CloseArrives, Accept
  <2> QED
    BY <1>a, <2>1
<1>2. ASSUME \/ \E c \in Clients : Notify(c)
             \/ Recv \/ WouldBlock \/ PeerClosed \/ TurnPartial \/ TurnEmpty \/ TurnPush
      PROVE Goal
  <2>1. UNCHANGED <<signal, worker>> /\ loop.pc # "wake"
    BY <1>2 DEF Notify, Recv, WouldBlock, PeerClosed, TurnPartial, TurnEmpty, TurnPush
  <2> QED
    BY <1>a, <2>1
<1>3. ASSUME SignalSet PROVE Goal
  <2>1. CASE r = loop.to
    BY <1>3, <2>1 DEF SignalSet
  <2>2. CASE r # loop.to
    BY <1>3, <1>a, <1>b, <2>2 DEF SignalSet
  <2> QED
    BY <2>1, <2>2
<1>4. ASSUME Wakeup PROVE Goal
  <2>1. CASE r = loop.to
    BY <1>4, <1>b, <2>1 DEF Wakeup, NoPacket
  <2>2. CASE r # loop.to
    BY <1>4, <1>a, <1>b, <2>2 DEF Wakeup
  <2> QED
    BY <2>1, <2>2
<1>5. ASSUME NEW q \in Queues, Worker(q), q # r PROVE Goal
  <2>1. signal'[r] = signal[r] /\ worker'[r] = worker[r] /\ loop' = loop
    BY <1>5 DEF Worker, SignalWait, Pop, Parse, TypeOK, QueueTypes
  <2> QED
    BY <1>a, <2>1
<1>6. ASSUME Worker(r) PROVE Goal
  <2>1. CASE SignalWait(r) /\ signal[r] = 0
    BY <2>1, <1>b DEF SignalWait
  <2>2. CASE SignalWait(r) /\ signal[r] # 0
    BY <2>2, <1>b DEF SignalWait
  <2>3. CASE Pop(r)
    BY <2>3, <1>b DEF Pop
  <2>4. CASE Parse(r)
    BY <2>4, <1>b DEF Parse, NoPacket
  <2> QED
    BY <1>6, <2>1, <2>2, <2>3, <2>4 DEF Worker
<1>7. ASSUME UNCHANGED vars PROVE Goal
  BY <1>7, <1>a DEF vars
<1> QED
  BY <1>1, <1>2, <1>3, <1>4, <1>5, <1>6, <1>7
     DEF Next, Network, EpollThread

\* No signal is lost between the test of the count and the wait: a worker asleep on a
\* counted message has its wakeup coming (event.cpp:22-83).
THEOREM NoWakeupLost == Spec => []NoLostWakeup
<1> QED
  BY InitWakeup, StepWakeup, TypeCorrect, PTL DEF Spec

-----------------------------------------------------------------------------
(* Answers that go astray                                                    *)

\* Two connections that are both held have different descriptors.
FdsDiffer == \A c, d \in Held : fd[c] = fd[d] => c = d

\* Only a connection that is open, or whose end is under way, has bytes on the wire.
WiresOpen == \A c \in Clients : link[c] \in {"new", "closed", "gone"} => wire[c] = <<>>

\* The epoll thread is told of, and works on, connections that it holds.
EdgesHeld == \A c \in Clients : edge[c] => c \in Held
LoopHeld  == loop.pc # "idle" => loop.at \in Held

\* A message names its connection by the descriptor, as long as that is open.
Addressed(m) == /\ link[m.from] # "new"
                /\ link[m.from] # "gone" => m.fd = fd[m.from]
QueuedAddressed  == \A q \in Queues : \A i \in 1..Len(queue[q]) : Addressed(queue[q][i])
HandledAddressed == \A q \in Queues : worker[q].pc = "parse" => Addressed(worker[q].msg)

AddressInv == /\ FdsDiffer /\ WiresOpen /\ EdgesHeld /\ LoopHeld
              /\ QueuedAddressed /\ HandledAddressed /\ OnlyReuseMisleads

LEMMA InitAddress == Init => AddressInv
<1> SUFFICES ASSUME Init PROVE AddressInv
  OBVIOUS
<1>1. \A q \in Queues : Len(queue[q]) = 0
  BY DEF Init
<1>2. QueuedAddressed
  BY <1>1 DEF QueuedAddressed
<1> QED
  BY <1>2 DEF Init, AddressInv, FdsDiffer, WiresOpen, EdgesHeld, LoopHeld, HandledAddressed,
              OnlyReuseMisleads, Held, Idle, NoPacket

\* Messages stay addressed while connections only go forward and keep their descriptors.
LEMMA AddressedStays ==
    ASSUME NEW m, m.from \in Clients, Addressed(m),
           \A c \in Clients : /\ link'[c] = "new" => link[c] = "new"
                              /\ link[c] = "gone" => link'[c] = "gone"
                              /\ link[c] # "new" => fd'[c] = fd[c]
    PROVE  Addressed(m)'
BY DEF Addressed

\* So do all messages in the queues and in the workers' hands, if these do not change.
LEMMA MessagesStayAddressed ==
    ASSUME TypeOK, QueuedAddressed, HandledAddressed, UNCHANGED <<queue, worker>>,
           \A c \in Clients : /\ link'[c] = "new" => link[c] = "new"
                              /\ link[c] = "gone" => link'[c] = "gone"
                              /\ link[c] # "new" => fd'[c] = fd[c]
    PROVE  QueuedAddressed' /\ HandledAddressed'
<1>1. \A q \in Queues : \A i \in 1..Len(queue[q]) : queue[q][i] \in Packets
  BY ElementOfSeq DEF TypeOK, QueueTypes
<1>2. \A q \in Queues : worker[q].pc = "parse" => worker[q].msg \in Packets
  BY DEF TypeOK, QueueTypes
<1>3. \A m \in Packets : m.from \in Clients
  BY DEF Packets
<1>4. \A m \in Packets : Addressed(m) => Addressed(m)'
  BY <1>3, AddressedStays
<1> QED
  BY <1>1, <1>2, <1>4 DEF QueuedAddressed, HandledAddressed

LEMMA StepAddress == TypeOK /\ AddressInv /\ [Next]_vars => AddressInv'
<1> SUFFICES ASSUME TypeOK, AddressInv, [Next]_vars PROVE AddressInv'
  OBVIOUS
<1> USE DEF netVars, packetVars, queueVars, historyVars
<1>a. /\ FdsDiffer /\ WiresOpen /\ EdgesHeld /\ LoopHeld
      /\ QueuedAddressed /\ HandledAddressed /\ OnlyReuseMisleads
  BY DEF AddressInv
<1>b. /\ link \in [Clients -> {"new", "open", "closing", "closed", "gone"}]
      /\ fd \in [Clients -> 0..Cardinality(Clients)]
      /\ DOMAIN wire = Clients /\ DOMAIN here = Clients
      /\ edge \in [Clients -> BOOLEAN]
      /\ answered \in [Clients -> SUBSET Clients]
  BY DEF TypeOK, NetTypes
<1>1. ASSUME NEW c \in Clients, NEW n \in Lengths, Send(c, n) PROVE AddressInv'
  <2>1. /\ link[c] = "open"
        /\ \A d \in Clients : d # c => wire'[d] = wire[d]
        /\ UNCHANGED <<link, fd, edge, loop, queue, worker, answered>>
    BY <1>1, <1>b DEF Send
  <2>2. QueuedAddressed' /\ HandledAddressed'
    BY <1>a, <2>1, MessagesStayAddressed
  <2>3. WiresOpen'
    BY <1>a, <2>1 DEF WiresOpen
  <2> QED
    BY <1>a, <2>1, <2>2, <2>3 DEF AddressInv, FdsDiffer, EdgesHeld, LoopHeld, OnlyReuseMisleads, Held
<1>2. ASSUME NEW c \in Clients, Arrive(c) PROVE AddressInv'
  <2>1. /\ edge' = [edge EXCEPT ![c] = TRUE]
        /\ \E n \in (here[c] + 1)..Len(wire[c]) : here' = [here EXCEPT ![c] = n]
        /\ UNCHANGED <<link, fd, wire, loop, queue, worker, answered>>
    BY <1>2 DEF Arrive
  <2>2. QueuedAddressed' /\ HandledAddressed'
    BY <1>a, <2>1, MessagesStayAddressed
  <2>3. here[c] \in Nat
    BY DEF TypeOK, NetTypes
  <2>4. Len(wire[c]) # 0
    BY <2>1, <2>3
  <2>5. wire[c] # <<>>
    BY <2>4
  <2>6. c \in Held
    BY <1>a, <1>b, <2>5 DEF WiresOpen, Held
  <2>7. EdgesHeld'
    BY <1>a, <1>b, <2>1, <2>6 DEF EdgesHeld, Held
  <2> QED
    BY <1>a, <2>1, <2>2, <2>7 DEF AddressInv, FdsDiffer, WiresOpen, LoopHeld, OnlyReuseMisleads, Held
<1>3. ASSUME NEW c \in Clients, Close(c) \/ CloseArrives(c) PROVE AddressInv'
  <2>1. /\ link[c] \in {"open", "closing"} /\ link'[c] \in {"closing", "closed"}
        /\ link'[c] = "closed" => wire[c] = <<>>
        /\ \A d \in Clients : d # c => link'[d] = link[d]
        /\ \A d \in Clients : edge'[d] => edge[d] \/ d = c
        /\ UNCHANGED <<fd, wire, loop, queue, worker, answered>>
    BY <1>3, <1>b DEF Close, CloseArrives
  <2>2. QueuedAddressed' /\ HandledAddressed'
    BY <1>a, <2>1, MessagesStayAddressed
  <2>3. Held' = Held /\ c \in Held
    BY <2>1 DEF Held
  <2>4. WiresOpen'
    BY <1>a, <2>1 DEF WiresOpen
  <2>5. OnlyReuseMisleads'
    <3>1. \A d \in Clients : link[d] = "gone" => link'[d] = "gone"
      BY <2>1
    <3> QED
      BY <1>a, <1>b, <2>1, <3>1 DEF OnlyReuseMisleads
  <2> QED
    BY <1>a, <2>1, <2>2, <2>3, <2>4, <2>5 DEF AddressInv, FdsDiffer, EdgesHeld, LoopHeld
<1>4. ASSUME NEW c \in Clients, Accept(c) PROVE AddressInv'
  <2>1. /\ link[c] = "new" /\ link' = [link EXCEPT ![c] = "open"]
        /\ loop.pc = "idle"
        /\ UNCHANGED <<wire, edge, loop, queue, worker, answered>>
    BY <1>4 DEF Accept
  <2>2. PICK f \in FreeFds : fd' = [fd EXCEPT ![c] = f]
    BY <1>4 DEF Accept
  <2>3. Held' = Held \cup {c} /\ c \notin Held
    BY <1>b, <2>1 DEF Held
  <2>4. \A d \in Held : fd'[d] = fd[d] /\ fd[d] # f
    BY <1>b, <2>2, <2>3 DEF FreeFds, Held
  <2>5. fd'[c] = f
    BY <1>b, <2>2
  <2>6. FdsDiffer'
    BY <1>a, <2>3, <2>4, <2>5 DEF FdsDiffer
  <2>7. QueuedAddressed' /\ HandledAddressed'
    BY <1>a, <1>b, <2>1, <2>2, MessagesStayAddressed
  <2>8. WiresOpen' /\ EdgesHeld' /\ LoopHeld'
    BY <1>a, <1>b, <2>1, <2>3 DEF WiresOpen, EdgesHeld, LoopHeld
  <2>9. OnlyReuseMisleads'
    <3>1. \A d \in Clients : link[d] = "gone" => link'[d] = "gone"
      BY <1>b, <2>1
    <3> QED
      BY <1>a, <1>b, <2>1, <3>1 DEF OnlyReuseMisleads
  <2> QED
    BY <2>6, <2>7, <2>8, <2>9 DEF AddressInv
<1>5. ASSUME NEW c \in Clients, Notify(c) PROVE AddressInv'
  <2>1. /\ edge[c] /\ edge' = [edge EXCEPT ![c] = FALSE] /\ loop'.at = c
        /\ UNCHANGED <<link, fd, wire, queue, worker, answered>>
    BY <1>5 DEF Notify
  <2>2. QueuedAddressed' /\ HandledAddressed'
    BY <1>a, <2>1, MessagesStayAddressed
  <2>3. EdgesHeld' /\ LoopHeld'
    BY <1>a, <1>b, <2>1 DEF EdgesHeld, LoopHeld, Held
  <2> QED
    BY <1>a, <2>1, <2>2, <2>3 DEF AddressInv, FdsDiffer, WiresOpen, OnlyReuseMisleads, Held
<1>6. ASSUME Recv PROVE AddressInv'
  <2> DEFINE c == loop.at
             n == IF here[c] < BufSize THEN here[c] ELSE BufSize
  <2>1. /\ loop.pc = "work" /\ here[c] > 0 /\ loop'.at = c
        /\ wire' = [wire EXCEPT ![c] = SubSeq(wire[c], n + 1, Len(wire[c]))]
        /\ UNCHANGED <<link, fd, edge, queue, worker, answered>>
    BY <1>6 DEF Recv
  <2>2. c \in Held
    BY <1>a, <2>1 DEF LoopHeld
  <2>3. here[c] \in 0..Len(wire[c]) /\ wire[c] \in Seq(Bytes(c))
    BY <2>2 DEF TypeOK, NetTypes, Held
  <2>4. wire[c] # <<>>
    <3>1. Len(wire[c]) \in Nat
      BY <2>3, LenProperties
    <3>2. Len(wire[c]) # 0
      BY <2>1, <2>3, <3>1
    <3> QED
      BY <3>2
  <2>5. WiresOpen'
    BY <1>a, <1>b, <2>1, <2>2, <2>4 DEF WiresOpen, Held
  <2>6. QueuedAddressed' /\ HandledAddressed'
    BY <1>a, <2>1, MessagesStayAddressed
  <2> QED
    BY <1>a, <2>1, <2>2, <2>5, <2>6 DEF AddressInv, FdsDiffer, EdgesHeld, LoopHeld, OnlyReuseMisleads, Held
<1>7. ASSUME PeerClosed PROVE AddressInv'
  <2> DEFINE c == loop.at
  <2>1. /\ loop.pc = "work" /\ link[c] = "closed"
        /\ link' = [link EXCEPT ![c] = "gone"] /\ edge' = [edge EXCEPT ![c] = FALSE]
        /\ loop'.pc = "idle"
        /\ UNCHANGED <<fd, wire, queue, worker, answered>>
    BY <1>7 DEF PeerClosed, Idle
  <2>2. c \in Clients
    BY <1>a, <2>1 DEF LoopHeld, Held
  <2>3. Held' = Held \ {c}
    BY <1>b, <2>1, <2>2 DEF Held
  <2>4. QueuedAddressed' /\ HandledAddressed'
    BY <1>a, <1>b, <2>1, <2>2, MessagesStayAddressed
  <2>5. WiresOpen' /\ EdgesHeld' /\ FdsDiffer' /\ LoopHeld'
    BY <1>a, <1>b, <2>1, <2>2, <2>3 DEF WiresOpen, EdgesHeld, FdsDiffer, LoopHeld
  <2>6. OnlyReuseMisleads'
    <3>1. \A d \in Clients : link[d] = "gone" => link'[d] = "gone"
      BY <1>b, <2>1, <2>2
    <3> QED
      BY <1>a, <1>b, <2>1, <3>1 DEF OnlyReuseMisleads
  <2> QED
    BY <2>4, <2>5, <2>6 DEF AddressInv
<1>8. ASSUME WouldBlock \/ TurnPartial \/ TurnEmpty \/ SignalSet PROVE AddressInv'
  <2>1. /\ loop'.pc # "idle" => loop.pc # "idle" /\ loop'.at = loop.at
        /\ UNCHANGED <<link, fd, wire, edge, queue, worker, answered>>
    <3>1. CASE WouldBlock
      BY <3>1 DEF WouldBlock, Idle
    <3>2. CASE TurnPartial
      BY <3>2 DEF TurnPartial, Continue, Idle
    <3>3. CASE TurnEmpty
      BY <3>3 DEF TurnEmpty, Continue, Idle
    <3>4. CASE SignalSet
      BY <3>4 DEF SignalSet
    <3> QED
      BY <1>8, <3>1, <3>2, <3>3, <3>4
  <2>2. QueuedAddressed' /\ HandledAddressed'
    BY <1>a, <2>1, MessagesStayAddressed
  <2> QED
    BY <1>a, <2>1, <2>2 DEF AddressInv, FdsDiffer, WiresOpen, EdgesHeld, LoopHeld, OnlyReuseMisleads, Held
<1>9. ASSUME TurnPush PROVE AddressInv'
  <2> DEFINE c == loop.at
             m == [fd |-> fd[c], from |-> c, no |-> Header(c)]
  <2>1. /\ loop.pc = "turn" /\ loop'.at = c
        /\ queue' = [queue EXCEPT ![robin] = Append(queue[robin], m)]
        /\ UNCHANGED <<link, fd, wire, edge, worker, answered>>
    BY <1>9 DEF TurnPush
  <2>2. c \in Held
    BY <1>a, <2>1 DEF LoopHeld
  <2>3. robin \in Queues /\ queue \in [Queues -> Seq(Packets)]
    BY DEF TypeOK, QueueTypes
  <2>4. Addressed(m)
    BY <2>2 DEF Addressed, Held
  <2>5. m \in Packets
    <3>1. Header(c) \in 1..Len(sent[c]) /\ c \in Clients
      BY <2>1, TurnLemma
    <3>2. Len(sent[c]) \in Nat
      BY <3>1, LenProperties DEF TypeOK, NetTypes
    <3> QED
      BY <1>b, <3>1, <3>2 DEF Packets
  <2> HIDE DEF m
  <2>6. QueuedAddressed'
    <3> SUFFICES ASSUME NEW q \in Queues, NEW i \in 1..Len(queue'[q])
                 PROVE  Addressed(queue'[q][i])
      BY <2>1 DEF QueuedAddressed, Addressed
    <3>1. CASE q # robin
      <4>1. queue'[q] = queue[q]
        BY <2>1, <2>3, <3>1
      <4> QED
        BY <1>a, <4>1 DEF QueuedAddressed
    <3>2. CASE q = robin
      <4>1. queue'[q] = Append(queue[q], m) /\ queue[q] \in Seq(Packets)
        BY <2>1, <2>3, <3>2
      <4>2. /\ Len(queue'[q]) = Len(queue[q]) + 1 /\ Len(queue[q]) \in Nat
            /\ \A j \in 1..Len(queue[q]) : queue'[q][j] = queue[q][j]
            /\ queue'[q][Len(queue[q]) + 1] = m
        BY <2>5, <4>1, AppendProperties, LenProperties
      <4>3. CASE i \in 1..Len(queue[q])
        BY <1>a, <4>2, <4>3 DEF QueuedAddressed
      <4>4. CASE i = Len(queue[q]) + 1
        BY <2>4, <4>2, <4>4
      <4>5. i \in 1..(Len(queue[q]) + 1)
        BY <4>2
      <4> QED
        BY <4>2, <4>3, <4>4, <4>5
    <3> QED
      BY <3>1, <3>2
  <2>7. HandledAddressed'
    BY <1>a, <2>1 DEF HandledAddressed, Addressed
  <2> QED
    BY <1>a, <2>1, <2>2, <2>6, <2>7
       DEF AddressInv, FdsDiffer, WiresOpen, EdgesHeld, LoopHeld, OnlyReuseMisleads, Held
<1>10. ASSUME Wakeup PROVE AddressInv'
  <2>1. /\ loop.pc = "wake" /\ loop'.at = loop.at
        /\ worker' = [worker EXCEPT ![loop.to] =
                        IF worker[loop.to].pc = "wait" THEN NoPacket ELSE worker[loop.to]]
        /\ UNCHANGED <<link, fd, wire, edge, queue, answered>>
    BY <1>10 DEF Wakeup, Continue
  <2>2. DOMAIN worker = Queues
    BY DEF TypeOK, QueueTypes
  <2>3. \A q \in Queues : worker'[q].pc = "parse" => worker'[q] = worker[q]
    BY <2>1, <2>2 DEF NoPacket
  <2>4. HandledAddressed'
    BY <1>a, <2>1, <2>3 DEF HandledAddressed, Addressed
  <2> QED
    BY <1>a, <2>1, <2>4 DEF AddressInv, FdsDiffer, WiresOpen, EdgesHeld, LoopHeld, QueuedAddressed,
                            Addressed, OnlyReuseMisleads, Held
<1>11. ASSUME NEW q \in Queues, SignalWait(q) PROVE AddressInv'
  <2>1. UNCHANGED <<link, fd, wire, edge, loop, queue, answered>>
    BY <1>11 DEF SignalWait
  <2>2. DOMAIN worker = Queues
    BY DEF TypeOK, QueueTypes
  <2>3. \A r \in Queues : worker'[r].pc = "parse" => worker'[r] = worker[r]
    BY <1>11, <2>2 DEF SignalWait
  <2>4. HandledAddressed'
    BY <1>a, <2>1, <2>3 DEF HandledAddressed, Addressed
  <2> QED
    BY <1>a, <2>1, <2>4 DEF AddressInv, FdsDiffer, WiresOpen, EdgesHeld, LoopHeld, QueuedAddressed,
                            Addressed, OnlyReuseMisleads, Held
<1>12. ASSUME NEW q \in Queues, Pop(q) PROVE AddressInv'
  <2>1. /\ queue[q] # <<>>
        /\ worker' = [worker EXCEPT ![q] = [pc |-> "parse", msg |-> Head(queue[q])]]
        /\ queue' = [queue EXCEPT ![q] = Tail(queue[q])]
        /\ UNCHANGED <<link, fd, wire, edge, loop, answered>>
    BY <1>12 DEF Pop
  <2>2. DOMAIN worker = Queues /\ queue \in [Queues -> Seq(Packets)]
    BY DEF TypeOK, QueueTypes
  <2>3. /\ Len(queue[q]) \in Nat /\ Len(queue[q]) > 0
        /\ Head(queue[q]) = queue[q][1]
        /\ Len(Tail(queue[q])) = Len(queue[q]) - 1
        /\ \A i \in 1..(Len(queue[q]) - 1) : Tail(queue[q])[i] = queue[q][i + 1]
    BY <2>1, <2>2, HeadTailProperties, LenProperties, EmptySeq
  <2>4. Addressed(Head(queue[q]))
    BY <1>a, <2>3 DEF QueuedAddressed
  <2>5. HandledAddressed'
    <3> SUFFICES ASSUME NEW r \in Queues, worker'[r].pc = "parse" PROVE Addressed(worker'[r].msg)
      BY <2>1 DEF HandledAddressed, Addressed
    <3>1. CASE r = q
      BY <2>1, <2>2, <2>4, <3>1
    <3>2. CASE r # q
      BY <1>a, <2>1, <2>2, <3>2 DEF HandledAddressed
    <3> QED
      BY <3>1, <3>2
  <2>6. QueuedAddressed'
    <3> SUFFICES ASSUME NEW r \in Queues, NEW i \in 1..Len(queue'[r])
                 PROVE  Addressed(queue'[r][i])
      <4>1. UNCHANGED <<link, fd>>
        BY <2>1
      <4> QED
        BY <4>1 DEF QueuedAddressed, Addressed
    <3>1. CASE r = q
      <4>1. queue'[r] = Tail(queue[q]) /\ i \in 1..(Len(queue[q]) - 1)
        BY <2>1, <2>2, <2>3, <3>1
      <4>2. queue'[r][i] = queue[q][i + 1] /\ i + 1 \in 1..Len(queue[q])
        BY <2>3, <4>1
      <4> QED
        BY <1>a, <4>2 DEF QueuedAddressed
    <3>2. CASE r # q
      BY <1>a, <2>1, <2>2, <3>2 DEF QueuedAddressed
    <3> QED
      BY <3>1, <3>2
  <2> QED
    BY <1>a, <2>1, <2>5, <2>6
       DEF AddressInv, FdsDiffer, WiresOpen, EdgesHeld, LoopHeld, OnlyReuseMisleads, Held
<1>13. ASSUME NEW q \in Queues, Parse(q) PROVE AddressInv'
  <2> DEFINE m == worker[q].msg
  <2>1. /\ worker[q].pc = "parse"
        /\ answered' = [c \in Clients |-> IF c \in Held /\ fd[c] = m.fd
                                          THEN answered[c] \cup {m.from} ELSE answered[c]]
        /\ worker' = [worker EXCEPT ![q] = NoPacket]
        /\ UNCHANGED <<link, fd, wire, edge, loop, queue>>
    BY <1>13 DEF Parse
  <2>2. DOMAIN worker = Queues /\ m.from \in Clients
    BY <2>1 DEF TypeOK, QueueTypes, Packets
  <2>3. Addressed(m)
    BY <1>a, <2>1 DEF HandledAddressed
  <2>4. \A c \in Held : fd[c] = m.fd => m.from = c \/ link[m.from] = "gone"
    BY <1>a, <2>2, <2>3 DEF Addressed, FdsDiffer, Held
  <2>5. OnlyReuseMisleads'
    BY <1>a, <2>1, <2>2, <2>4 DEF OnlyReuseMisleads
  <2>6. HandledAddressed'
    BY <1>a, <2>1, <2>2 DEF HandledAddressed, Addressed, NoPacket
  <2> QED
    BY <1>a, <2>1, <2>5, <2>6
       DEF AddressInv, FdsDiffer, WiresOpen, EdgesHeld, LoopHeld, QueuedAddressed, Addressed, Held
<1>14. ASSUME UNCHANGED vars PROVE AddressInv'
  BY <1>14, <1>a DEF vars, AddressInv, FdsDiffer, WiresOpen, EdgesHeld, LoopHeld, QueuedAddressed,
                     HandledAddressed, Addressed, OnlyReuseMisleads, Held
<1> QED
  BY <1>1, <1>2, <1>3, <1>4, <1>5, <1>6, <1>7, <1>8, <1>9, <1>10, <1>11, <1>12, <1>13, <1>14
     DEF Next, Network, EpollThread, Worker

\* The descriptors of two open connections differ and a message keeps the one of its own,
\* so an answer reaches another client only when its connection is gone
\* (stream_msg_packetizer.cpp:82-91, 156).
THEOREM OnlyReuse == Spec => []OnlyReuseMisleads
<1>1. Spec => []AddressInv
  BY InitAddress, StepAddress, TypeCorrect, PTL DEF Spec
<1>2. AddressInv => OnlyReuseMisleads
  BY DEF AddressInv
<1> QED
  BY <1>1, <1>2, PTL

-----------------------------------------------------------------------------
(* The bytes of a connection                                                 *)

ByteOf(lengths) == (1..Len(lengths)) \X Nat

\* What has been read of the message under way, what the epoll thread holds, and both
\* with the bytes not read yet: everything sent that is not in a message taken.
Pending(c) == IF header[c] = 0 THEN <<>> ELSE <<<<header[c], 0>>>> \o body[c]
LeftOf(c) == IF loop.pc # "idle" /\ loop.at = c THEN loop.left ELSE <<>>
Rest(c) == Pending(c) \o (LeftOf(c) \o wire[c])

\* From byte j of s on its message goes on to its end, and the header of the next follows.
Follows(s, lengths, j, k) ==
    LET i == s[j][1]
        at == s[j][2] + (k - j)
    IN  /\ at <= lengths[i] => s[k] = <<i, at>>
        /\ at = lengths[i] + 1 => s[k] = <<i + 1, 0>>

\* s is what messages of the given lengths leave behind the first n.
Stream(s, lengths, n) ==
    /\ s # <<>> => /\ s[1] = <<n + 1, 0>>
                   /\ s[Len(s)] = <<Len(lengths), lengths[Len(lengths)]>>
    /\ s = <<>> => n = Len(lengths)
    /\ \A j, k \in DOMAIN s : j <= k => Follows(s, lengths, j, k)

\* A connection's messages are taken in order, and the rest is the stream of the others.
InOrder(c) ==
    /\ Stream(Rest(c), sent[c], Len(taken[c]))
    /\ header[c] \in {0, Len(taken[c]) + 1}
    /\ header[c] = 0 => body[c] = <<>>
    /\ Len(taken[c]) <= Len(sent[c])
    /\ \A i \in 1..Len(taken[c]) : taken[c][i] = Message(sent[c], i)

StreamInv ==
    /\ DOMAIN taken = Clients /\ \A c \in Clients : taken[c] \in Seq(Seq(Nat \X Nat))
    /\ \A c \in Clients : InOrder(c)
    /\ loop.pc = "work" => loop.left = <<>>

LEMMA ByteParts ==
    ASSUME NEW lengths, NEW b \in ByteOf(lengths)
    PROVE  b = <<b[1], b[2]>> /\ b[1] \in 1..Len(lengths) /\ b[2] \in Nat
BY DEF ByteOf

LEMMA StreamSent ==
    ASSUME NEW lengths \in Seq(Nat), NEW x \in Nat, NEW n \in 0..Len(lengths),
           NEW s \in Seq(ByteOf(lengths)), Stream(s, lengths, n)
    PROVE  LET more == Append(lengths, x)
           IN  Stream(s \o Message(more, Len(more)), more, n)
<1> DEFINE more == Append(lengths, x)
           N == Len(lengths) + 1
           p == Len(s)
           m == Message(more, Len(more))
           st == s \o m
<1>1. /\ more \in Seq(Nat) /\ Len(more) = N /\ more[N] = x /\ Len(lengths) \in Nat
      /\ \A i \in 1..Len(lengths) : more[i] = lengths[i]
  BY AppendProperties, LenProperties
<1>2. m = [k \in 1..(x + 1) |-> <<N, k - 1>>]
  BY <1>1 DEF Message
<1> DEFINE S == (1..N) \X Nat
<1> HIDE DEF more
<1>0. N \in Nat /\ p \in Nat /\ Len(lengths) \in Nat /\ N = Len(lengths) + 1
  BY <1>1, LenProperties
<1>3. m \in Seq(S) /\ Len(m) = x + 1
  <2>1. \A k \in 1..(x + 1) : <<N, k - 1>> \in S
    BY <1>1
  <2> HIDE DEF S
  <2>2. m \in [1..(x + 1) -> S]
    BY <1>2, <2>1
  <2> HIDE DEF m
  <2>3. m \in Seq(S)
    BY <2>2, SeqDef
  <2> QED
    BY <2>2, <2>3, LenProperties
<1>4. s \in Seq(S) /\ p \in Nat /\ DOMAIN s = 1..p
  <2>1. ByteOf(lengths) \subseteq S
    BY <1>1 DEF ByteOf
  <2> HIDE DEF S
  <2> QED
    BY <2>1, SeqMonotonic, LenProperties
<1>5. \A k \in 1..(x + 1) : m[k] = <<N, k - 1>>
  BY <1>2
<1> HIDE DEF m, S
<1>6. /\ st \in Seq(S) /\ Len(st) = p + x + 1 /\ DOMAIN st = 1..(p + x + 1)
      /\ \A i \in 1..(p + x + 1) : st[i] = IF i <= p THEN s[i] ELSE m[i - p]
  <2>1. /\ st \in Seq(S) /\ Len(st) = p + (x + 1)
        /\ \A i \in 1..(p + (x + 1)) : st[i] = IF i <= p THEN s[i] ELSE m[i - p]
    <3> DEFINE y == x + 1
    <3>1. Len(m) = y
      BY <1>3
    <3> HIDE DEF y
    <3>2. /\ st \in Seq(S) /\ Len(st) = p + y
          /\ \A i \in 1..(p + y) : st[i] = IF i <= p THEN s[i] ELSE m[i - p]
      BY <1>3, <1>4, <3>1, ConcatProperties
    <3> QED
      BY <3>2 DEF y
  <2>2. DOMAIN st = 1..Len(st)
    BY <2>1, LenProperties
  <2> HIDE DEF st
  <2> QED
    BY <1>4, <2>1, <2>2
<1> HIDE DEF st, p, N
<1>7. /\ \A i \in 1..p : st[i] = s[i]
      /\ \A i \in (p + 1)..(p + x + 1) : st[i] = <<N, i - p - 1>>
  <2>1. ASSUME NEW i \in 1..p PROVE st[i] = s[i]
    BY <1>4, <1>6
  <2>2. ASSUME NEW i \in (p + 1)..(p + x + 1) PROVE st[i] = <<N, i - p - 1>>
    <3>1. i \in 1..(p + x + 1) /\ ~ (i <= p) /\ i - p \in 1..(x + 1)
      BY <1>4
    <3> QED
      BY <1>5, <1>6, <3>1
  <2> QED
    BY <2>1, <2>2
<1>8. \A i \in 1..p : s[i] = <<s[i][1], s[i][2]>> /\ s[i][1] \in 1..Len(lengths) /\ s[i][2] \in Nat
  BY <1>4, ElementOfSeq DEF ByteOf
<1>9. \A i \in 1..Len(lengths) : lengths[i] \in Nat /\ more[i] = lengths[i]
  BY <1>1, ElementOfSeq
<1>10. st # <<>> /\ st[1] = <<n + 1, 0>> /\ st[Len(st)] = <<Len(more), more[Len(more)]>>
  <2>1. st[Len(st)] = <<N, x>>
    BY <1>4, <1>6, <1>7
  <2>2. CASE p = 0
    <3>1. s = <<>>
      BY <2>2, EmptySeq DEF p
    <3>2. n = Len(lengths)
      BY <3>1 DEF Stream
    <3>3. st[1] = <<N, 0>>
      BY <1>7, <2>2
    <3> QED
      BY <1>0, <1>1, <1>6, <2>1, <3>2, <3>3
  <2>3. CASE p # 0
    <3>1. s # <<>> /\ 1 \in 1..p
      BY <1>4, <2>3 DEF p
    <3>2. s[1] = <<n + 1, 0>>
      BY <3>1 DEF Stream
    <3>3. st[1] = s[1]
      BY <1>7, <3>1
    <3>4. st # <<>>
      BY <1>0, <1>6
    <3> QED
      BY <1>1, <2>1, <3>2, <3>3, <3>4
  <2> QED
    BY <2>2, <2>3
<1>a. \A j, k \in 1..p : j <= k => Follows(s, lengths, j, k)
  BY <1>4 DEF Stream
<1>b. p # 0 => s[p] = <<Len(lengths), lengths[Len(lengths)]>>
  <2> SUFFICES ASSUME p # 0 PROVE s[p] = <<Len(lengths), lengths[Len(lengths)]>>
    OBVIOUS
  <2>1. s # <<>>
    BY <1>0 DEF p
  <2> QED
    BY <2>1 DEF Stream, p
<1>11. ASSUME NEW j \in 1..(p + x + 1), NEW k \in 1..(p + x + 1), j <= k
       PROVE  Follows(st, more, j, k)
  <2>1. CASE k <= p
    <3>1. j \in 1..p /\ k \in 1..p
      BY <1>0, <1>11, <2>1
    <3>2. st[j] = s[j] /\ st[k] = s[k] /\ more[s[j][1]] = lengths[s[j][1]]
      BY <1>7, <1>8, <1>9, <3>1
    <3>3. Follows(s, lengths, j, k)
      BY <1>11, <1>a, <3>1
    <3> QED
      BY <3>2, <3>3 DEF Follows
  <2>2. CASE j <= p /\ k > p
    <3>1. j \in 1..p /\ p \in 1..p /\ k \in (p + 1)..(p + x + 1) /\ j <= p /\ p # 0
      BY <1>0, <1>11, <2>2
    <3> DEFINE i == s[j][1]
               o == s[j][2]
    <3>2. st[j] = s[j] /\ i \in 1..Len(lengths) /\ o \in Nat /\ lengths[i] \in Nat
          /\ more[i] = lengths[i] /\ st[k] = <<N, k - p - 1>>
      BY <1>7, <1>8, <1>9, <3>1
    <3>3. Follows(s, lengths, j, p)
      BY <1>a, <3>1
    <3>4. o + (p - j) <= lengths[i] => s[p] = <<i, o + (p - j)>>
      BY <3>3 DEF Follows
    <3>5. s[p] = <<Len(lengths), lengths[Len(lengths)]>>
      BY <1>b, <3>1
    <3>6. st[j][1] = i /\ st[j][2] = o
      BY <3>2
    <3>a. j \in Nat /\ k \in Nat /\ j <= p /\ k > p /\ o \in Nat
      BY <1>0, <3>1, <3>2
    <3> HIDE DEF i, o
    <3>7. PICK l \in Nat : l = lengths[i]
      BY <3>2
    <3>8. CASE o + (p - j) <= l
      <4>1. i = Len(lengths) /\ o + (p - j) = l
        BY <3>4, <3>5, <3>7, <3>8
      <4>2. o + (k - j) = l + (k - p) /\ k > p /\ k \in Nat
        BY <1>0, <3>a, <4>1
      <4>3. ~ (o + (k - j) <= l) /\ (o + (k - j) = l + 1 => k = p + 1)
        BY <1>0, <4>2
      <4>4. k = p + 1 => st[k] = <<i + 1, 0>>
        BY <1>0, <3>2, <4>1
      <4> QED
        BY <3>2, <3>6, <3>7, <4>3, <4>4 DEF Follows
    <3>9. CASE ~ (o + (p - j) <= l)
      <4>1. ~ (o + (k - j) <= l) /\ o + (k - j) # l + 1
        BY <1>0, <3>a, <3>9
      <4> QED
        BY <3>2, <3>6, <3>7, <4>1 DEF Follows
    <3> QED
      BY <3>8, <3>9
  <2>3. CASE j > p
    <3>1. j \in (p + 1)..(p + x + 1) /\ k \in (p + 1)..(p + x + 1)
      BY <1>0, <1>11, <2>3
    <3>2. st[j] = <<N, j - p - 1>> /\ st[k] = <<N, k - p - 1>>
      BY <1>7, <3>1
    <3>3. st[j][1] = N /\ st[j][2] = j - p - 1
      BY <3>2
    <3>4. j - p - 1 + (k - j) = k - p - 1 /\ k - p - 1 <= x /\ k - p - 1 # x + 1
      BY <1>0, <3>1
    <3> QED
      BY <1>1, <3>2, <3>3, <3>4 DEF Follows
  <2> QED
    BY <1>0, <2>1, <2>2, <2>3
<1>12. Stream(st, more, n)
  <2>1. \A j, k \in DOMAIN st : j <= k => Follows(st, more, j, k)
    BY <1>6, <1>11
  <2> QED
    BY <1>10, <2>1 DEF Stream
<1> QED
  BY <1>12 DEF st, m, more

LEMMA StreamTaken ==
    ASSUME NEW lengths \in Seq(Nat), NEW n \in 0..Len(lengths),
           NEW t \in Seq(ByteOf(lengths)), NEW u \in Seq(ByteOf(lengths)),
           Stream(t \o u, lengths, n), t # <<>>, Len(t) = lengths[n + 1] + 1
    PROVE  /\ n + 1 \in 1..Len(lengths)
           /\ t = Message(lengths, n + 1)
           /\ Stream(u, lengths, n + 1)
<1> DEFINE s == t \o u
           p == Len(t)
           q == Len(u)
           B == ByteOf(lengths)
<1>1. /\ s \in Seq(B) /\ Len(s) = p + q /\ p \in Nat \ {0} /\ q \in Nat /\ Len(lengths) \in Nat
      /\ DOMAIN s = 1..(p + q) /\ DOMAIN t = 1..p /\ DOMAIN u = 1..q
      /\ \A i \in 1..(p + q) : s[i] = IF i <= p THEN t[i] ELSE u[i - p]
  <2>1. /\ s \in Seq(B) /\ Len(s) = p + q
        /\ \A i \in 1..(p + q) : s[i] = IF i <= p THEN t[i] ELSE u[i - p]
    BY ConcatProperties
  <2>2. /\ DOMAIN s = 1..Len(s) /\ DOMAIN t = 1..p /\ DOMAIN u = 1..q /\ p \in Nat /\ q \in Nat
        /\ Len(lengths) \in Nat
    BY <2>1, LenProperties
  <2>3. p \in Nat \ {0}
    BY EmptySeq
  <2> HIDE DEF s
  <2> QED
    BY <2>1, <2>2, <2>3
<1>2. Stream(s, lengths, n)
  OBVIOUS
<1>a. p \in Nat /\ p > 0 /\ q \in Nat /\ Len(lengths) \in Nat
  BY <1>1
<1>b. p = lengths[n + 1] + 1
  OBVIOUS
<1> HIDE DEF s, p, q
<1>3. /\ \A i \in 1..p : s[i] = t[i]
      /\ \A i \in 1..q : s[p + i] = u[i]
  <2>1. ASSUME NEW i \in 1..q PROVE s[p + i] = u[i]
    <3>1. PICK k \in 1..(p + q) : k = p + i
      BY <1>a
    <3>2. ~ (k <= p) /\ k - p = i
      BY <1>a, <3>1
    <3>3. s[k] = u[i]
      BY <1>1, <3>2
    <3> QED
      BY <3>1, <3>3
  <2> QED
    BY <1>1, <2>1
<1>4. \A i \in 1..(p + q) : s[i] = <<s[i][1], s[i][2]>> /\ s[i][1] \in 1..Len(lengths) /\ s[i][2] \in Nat
  <2> SUFFICES ASSUME NEW i \in 1..(p + q)
               PROVE  s[i] = <<s[i][1], s[i][2]>> /\ s[i][1] \in 1..Len(lengths) /\ s[i][2] \in Nat
    OBVIOUS
  <2>1. s[i] \in B
    BY <1>1, ElementOfSeq
  <2> QED
    BY <2>1, ByteParts
<1>5. s # <<>> /\ s[1] = <<n + 1, 0>>
  <2>1. s # <<>>
    <3>1. Len(s) # 0
      BY <1>1, <1>a
    <3> QED
      BY <3>1
  <2> QED
    BY <1>2, <2>1 DEF Stream
<1>6. n + 1 \in 1..Len(lengths) /\ lengths[n + 1] \in Nat
  <2>1. 1 \in 1..(p + q) /\ s[1][1] = n + 1
    BY <1>1, <1>5
  <2>2. n + 1 \in 1..Len(lengths)
    BY <1>4, <2>1
  <2> QED
    BY <2>2, ElementOfSeq
<1>7. \A j, k \in 1..(p + q) : j <= k => Follows(s, lengths, j, k)
  BY <1>1, <1>2 DEF Stream
<1>8. ASSUME NEW k \in 1..(p + q)
      PROVE  /\ k <= p => s[k] = <<n + 1, k - 1>>
             /\ k = p + 1 => s[k] = <<n + 2, 0>>
  <2>1. 1 \in 1..(p + q) /\ 1 <= k /\ s[1][1] = n + 1 /\ s[1][2] = 0
    BY <1>a, <1>5
  <2>2. PICK at \in Nat : at = k - 1
    BY <1>a
  <2>3. at = s[1][2] + (k - 1)
    BY <2>1, <2>2
  <2>4. /\ at <= lengths[s[1][1]] => s[k] = <<s[1][1], at>>
        /\ at = lengths[s[1][1]] + 1 => s[k] = <<s[1][1] + 1, 0>>
    BY <1>7, <2>1, <2>3 DEF Follows
  <2>5. CASE k <= p
    <3>1. at <= lengths[n + 1]
      BY <1>a, <1>b, <1>6, <2>2, <2>5
    <3>2. s[k] = <<n + 1, at>>
      BY <2>1, <2>4, <3>1
    <3>3. k # p + 1
      BY <1>a, <2>5
    <3> QED
      BY <2>2, <3>2, <3>3
  <2>6. CASE k = p + 1
    <3>1. at = p
      BY <1>a, <2>2, <2>6
    <3>2. s[k] = <<n + 1 + 1, 0>>
      BY <1>b, <2>1, <2>4, <3>1
    <3>3. n + 1 + 1 = n + 2 /\ ~ (k <= p)
      BY <1>a, <2>6
    <3> QED
      BY <3>2, <3>3
  <2> QED
    BY <1>a, <2>5, <2>6
<1>9. t = Message(lengths, n + 1)
  <2>1. t = [k \in 1..p |-> t[k]]
    <3>1. t \in [1..p -> B]
      BY LenProperties DEF p
    <3> QED
      BY <3>1
  <2>2. \A k \in 1..p : t[k] = <<n + 1, k - 1>>
    BY <1>1, <1>3, <1>8
  <2>3. t = [k \in 1..p |-> <<n + 1, k - 1>>]
    BY <2>1, <2>2
  <2>4. Message(lengths, n + 1) = [k \in 1..p |-> <<n + 1, k - 1>>]
    BY <1>b DEF Message
  <2> QED
    BY <2>3, <2>4
<1>10. u # <<>> => /\ u[1] = <<n + 1 + 1, 0>>
                   /\ u[q] = <<Len(lengths), lengths[Len(lengths)]>>
  <2> SUFFICES ASSUME u # <<>> PROVE /\ u[1] = <<n + 1 + 1, 0>>
                                     /\ u[q] = <<Len(lengths), lengths[Len(lengths)]>>
    OBVIOUS
  <2>1. q \in 1..q /\ 1 \in 1..q
    <3>1. q # 0
      BY EmptySeq DEF q
    <3> QED
      BY <1>a, <3>1
  <2>2. u[1] = s[p + 1] /\ u[q] = s[p + q]
    BY <1>3, <2>1
  <2>3. s[p + q] = <<Len(lengths), lengths[Len(lengths)]>>
    <3>1. s[Len(s)] = <<Len(lengths), lengths[Len(lengths)]>>
      BY <1>2, <1>5 DEF Stream
    <3> QED
      BY <1>1, <3>1
  <2>4. s[p + 1] = <<n + 2, 0>>
    <3>1. PICK k \in 1..(p + q) : k = p + 1
      BY <1>a, <2>1
    <3> QED
      BY <1>8, <3>1
  <2>5. n + 2 = n + 1 + 1
    OBVIOUS
  <2> QED
    BY <2>2, <2>3, <2>4, <2>5
<1>11. u = <<>> => n + 1 = Len(lengths)
  <2> SUFFICES ASSUME u = <<>> PROVE n + 1 = Len(lengths)
    OBVIOUS
  <2>1. q = 0
    BY DEF q
  <2>2. s[Len(s)] = <<Len(lengths), lengths[Len(lengths)]>>
    BY <1>2, <1>5 DEF Stream
  <2>3. Len(s) = p /\ p \in 1..(p + q) /\ p <= p
    BY <1>1, <1>a, <2>1
  <2>4. s[p] = <<n + 1, p - 1>>
    BY <1>8, <2>3
  <2> QED
    BY <2>2, <2>3, <2>4
<1>12. ASSUME NEW j \in 1..q, NEW k \in 1..q, j <= k
       PROVE  Follows(u, lengths, j, k)
  <2>1. PICK jj \in 1..(p + q) : jj = p + j
    BY <1>a
  <2>2. PICK kk \in 1..(p + q) : kk = p + k
    BY <1>a
  <2>3. jj <= kk /\ kk - jj = k - j
    BY <1>a, <1>12, <2>1, <2>2
  <2>4. s[jj] = u[j] /\ s[kk] = u[k]
    BY <1>3, <2>1, <2>2
  <2>5. Follows(s, lengths, jj, kk)
    BY <1>7, <2>3
  <2> QED
    BY <2>3, <2>4, <2>5 DEF Follows
<1>13. \A j, k \in DOMAIN u : j <= k => Follows(u, lengths, j, k)
  BY <1>1, <1>12
<1>14. Stream(u, lengths, n + 1)
  BY <1>10, <1>11, <1>13 DEF Stream, q
<1> QED
  BY <1>6, <1>9, <1>14

-----------------------------------------------------------------------------
(* The messages cut                                                          *)

LEMMA HeadJoin ==
    ASSUME NEW S, NEW s \in Seq(S), s # <<>>
    PROVE  /\ <<Head(s)>> \in Seq(S) /\ Tail(s) \in Seq(S)
           /\ <<Head(s)>> \o Tail(s) = s
<1> DEFINE h == <<Head(s)>>
           t == Tail(s)
<1>1. h \in Seq(S) /\ Len(h) = 1 /\ h[1] = s[1]
  BY HeadTailProperties, ElementOfSeq
<1>2. t \in Seq(S) /\ Len(t) = Len(s) - 1 /\ \A i \in 1..Len(t) : t[i] = s[i + 1]
  BY HeadTailProperties
<1>3. Len(s) \in Nat \ {0}
  BY EmptySeq
<1> HIDE DEF h, t
<1>4. /\ h \o t \in Seq(S) /\ Len(h \o t) = Len(h) + Len(t)
      /\ \A i \in 1..Len(h) + Len(t) : (h \o t)[i] = IF i <= Len(h) THEN h[i] ELSE t[i - Len(h)]
  <2>1. h \in Seq(S) /\ t \in Seq(S)
    BY <1>1, <1>2
  <2> QED
    BY <2>1, ConcatProperties
<1>5. Len(h \o t) = Len(s)
  BY <1>1, <1>2, <1>3, <1>4
<1>6. ASSUME NEW i \in 1..Len(s) PROVE (h \o t)[i] = s[i]
  <2>1. (h \o t)[i] = IF i <= 1 THEN h[i] ELSE t[i - 1]
    BY <1>1, <1>2, <1>3, <1>4
  <2>2. CASE i <= 1
    <3>1. i = 1
      BY <1>3, <2>2
    <3> QED
      BY <1>1, <2>1, <3>1
  <2>3. CASE ~ (i <= 1)
    <3>1. i - 1 \in 1..Len(t) /\ i - 1 + 1 = i
      BY <1>2, <1>3, <2>3
    <3>2. t[i - 1] = s[i - 1 + 1]
      BY <1>2, <3>1
    <3> QED
      BY <2>1, <2>3, <3>1, <3>2
  <2> QED
    BY <2>2, <2>3
<1>7. h \o t = s
  BY <1>4, <1>5, <1>6, SeqEqual
<1> QED
  BY <1>1, <1>2, <1>7 DEF h, t

LEMMA CutJoin ==
    ASSUME NEW S, NEW s \in Seq(S), NEW n \in 0..Len(s)
    PROVE  SubSeq(s, 1, n) \o SubSeq(s, n + 1, Len(s)) = s
<1> DEFINE t == SubSeq(s, 1, n)
           u == SubSeq(s, n + 1, Len(s))
<1>1. /\ t \in Seq(S) /\ Len(t) = n
      /\ u \in Seq(S) /\ Len(u) = Len(s) - n
  BY Cut
<1>2. Len(s) \in Nat /\ n \in Nat /\ \A i \in 1..Len(s) : s[i] \in S
  BY LenProperties, ElementOfSeq
<1>3. \A i \in 1..n : t[i] = s[i]
  <2>1. \A i \in 1..(n - 1 + 1) : SubSeq(s, 1, n)[i] = s[1 + i - 1]
    BY <1>2, SubSeqProperties
  <2> QED
    BY <1>2, <2>1
<1>4. \A i \in 1..(Len(s) - n) : u[i] = s[n + i]
  <2>1. \A i \in 1..(Len(s) - (n + 1) + 1) : SubSeq(s, n + 1, Len(s))[i] = s[(n + 1) + i - 1]
    BY <1>2, SubSeqProperties
  <2>2. \A i \in 1..(Len(s) - n) : i \in 1..(Len(s) - (n + 1) + 1) /\ (n + 1) + i - 1 = n + i
    BY <1>2
  <2> QED
    BY <2>1, <2>2
<1> HIDE DEF t, u
<1>5. /\ t \o u \in Seq(S) /\ Len(t \o u) = n + Len(u)
      /\ \A i \in 1..n + Len(u) : (t \o u)[i] = IF i <= n THEN t[i] ELSE u[i - n]
  BY <1>1, ConcatProperties
<1>6. Len(t \o u) = Len(s)
  BY <1>1, <1>2, <1>5
<1>7. ASSUME NEW i \in 1..Len(s) PROVE (t \o u)[i] = s[i]
  <2>1. (t \o u)[i] = IF i <= n THEN t[i] ELSE u[i - n]
    BY <1>1, <1>2, <1>5
  <2>2. CASE i <= n
    BY <1>2, <1>3, <2>1, <2>2
  <2>3. CASE ~ (i <= n)
    <3>1. i - n \in 1..(Len(s) - n) /\ n + (i - n) = i
      BY <1>2, <2>3
    <3>2. u[i - n] = s[n + (i - n)]
      BY <1>4, <3>1
    <3> QED
      BY <2>1, <2>3, <3>1, <3>2
  <2> QED
    BY <2>2, <2>3
<1>8. t \o u = s
  BY <1>5, <1>6, <1>7, SeqEqual
<1> QED
  BY <1>8 DEF t, u

\* The parts of the stream of a connection are bytes of its messages.
LEMMA StreamTypes ==
    ASSUME TypeOK, NEW c \in Clients
    PROVE  /\ Bytes(c) = ByteOf(sent[c]) /\ sent[c] \in Seq(Nat)
           /\ body[c] \in Seq(Bytes(c)) /\ wire[c] \in Seq(Bytes(c))
           /\ Pending(c) \in Seq(Bytes(c)) /\ LeftOf(c) \in Seq(Bytes(c))
           /\ LeftOf(c) \o wire[c] \in Seq(Bytes(c)) /\ Rest(c) \in Seq(Bytes(c))
<1>1. Bytes(c) = ByteOf(sent[c])
  BY DEF Bytes, ByteOf
<1>2. sent[c] \in Seq(Nat)
  BY SeqMonotonic, SizesAssumption DEF TypeOK, NetTypes
<1>3. body[c] \in Seq(Bytes(c)) /\ wire[c] \in Seq(Bytes(c)) /\ header[c] \in 0..Len(sent[c])
  BY DEF TypeOK, NetTypes, PacketTypes
<1>4. Pending(c) \in Seq(Bytes(c))
  <2>1. CASE header[c] = 0
    BY <2>1, EmptySeq DEF Pending
  <2>2. CASE header[c] # 0
    <3> DEFINE b == <<header[c], 0>>
    <3>1. b \in Bytes(c)
      BY <1>2, <1>3, <2>2, LenProperties DEF Bytes
    <3> HIDE DEF b
    <3>2. <<b>> \in Seq(Bytes(c))
      BY <3>1
    <3>3. <<b>> \o body[c] \in Seq(Bytes(c))
      BY <1>3, <3>2, ConcatProperties
    <3> QED
      BY <2>2, <3>3 DEF Pending, b
  <2> QED
    BY <2>1, <2>2
<1>5. LeftOf(c) \in Seq(Bytes(c))
  BY EmptySeq DEF LeftOf, TypeOK, LoopTypes
<1>6. LeftOf(c) \o wire[c] \in Seq(Bytes(c))
  BY <1>3, <1>5, ConcatProperties
<1>7. Rest(c) \in Seq(Bytes(c))
  BY <1>4, <1>6, ConcatProperties DEF Rest
<1> QED
  BY <1>1, <1>2, <1>3, <1>4, <1>5, <1>6, <1>7

LEMMA InitStream == Init => StreamInv
<1> SUFFICES ASSUME Init PROVE StreamInv
  OBVIOUS
<1>1. DOMAIN taken = Clients /\ \A c \in Clients : taken[c] = <<>>
  BY DEF Init
<1>2. ASSUME NEW c \in Clients PROVE InOrder(c)
  <2>1. header[c] = 0 /\ body[c] = <<>> /\ sent[c] = <<>> /\ taken[c] = <<>> /\ wire[c] = <<>>
        /\ loop.pc = "idle"
    BY <1>2 DEF Init, Idle
  <2>2. Rest(c) = <<>>
    <3>1. <<>> \o (<<>> \o <<>>) = <<>>
      BY EmptySeq, ConcatEmptySeq
    <3> QED
      BY <2>1, <3>1 DEF Rest, Pending, LeftOf
  <2>3. Stream(<<>>, <<>>, Len(<<>>))
    BY DEF Stream
  <2> QED
    BY <2>1, <2>2, <2>3 DEF InOrder
<1>3. loop.pc # "work"
  BY DEF Init, Idle
<1> QED
  BY <1>1, <1>2, <1>3, EmptySeq DEF StreamInv

LEMMA InOrderStays ==
    ASSUME NEW c \in Clients, InOrder(c), sent'[c] = sent[c], taken'[c] = taken[c],
           header'[c] = header[c], body'[c] = body[c], Rest(c)' = Rest(c)
    PROVE  InOrder(c)'
BY DEF InOrder

\* Nothing changes for a connection that keeps all its parts.
LEMMA RestStays ==
    ASSUME NEW c \in Clients, InOrder(c), sent'[c] = sent[c], taken'[c] = taken[c],
           header'[c] = header[c], body'[c] = body[c], wire'[c] = wire[c],
           LeftOf(c)' = LeftOf(c)
    PROVE  InOrder(c)'
<1>1. Rest(c)' = Rest(c)
  BY DEF Rest, Pending
<1> QED
  BY <1>1, InOrderStays

\* In a turn the first byte of the rest is the header of the next message.
LEMMA TurnRest ==
    ASSUME TypeOK, StreamInv, loop.pc = "turn", NEW c, c = loop.at
    PROVE  /\ Header(c) = Len(taken[c]) + 1
           /\ <<<<Header(c), 0>>>> \in Seq(Bytes(c))
           /\ Rest(c) = (<<<<Header(c), 0>>>> \o body[c]) \o (Left(c) \o wire[c])
<1> DEFINE b == <<Header(c), 0>>
           B == Bytes(c)
<1>1. c \in Clients /\ loop.left # <<>> /\ LeftOf(c) = loop.left
  BY DEF TypeOK, LoopTypes, LeftOf
<1>2. /\ body[c] \in Seq(B) /\ wire[c] \in Seq(B) /\ loop.left \in Seq(B)
      /\ loop.left \o wire[c] \in Seq(B) /\ Left(c) \in Seq(B)
      /\ Header(c) \in 1..Len(sent[c])
  BY <1>1, StreamTypes, TurnLemma
<1>3. InOrder(c)
  BY <1>1 DEF StreamInv
<1>4. b \in Bytes(c)
  BY <1>2 DEF Bytes
<1> HIDE DEF b
<1>5. <<b>> \in Seq(B)
  BY <1>4
<1>6. CASE header[c] = 0
  <2> DEFINE r == loop.left \o wire[c]
  <2>1. Rest(c) = r /\ r \in Seq(B)
    BY <1>1, <1>2, <1>6, ConcatEmptySeq DEF Rest, Pending
  <2>2. r # <<>> /\ r[1] = loop.left[1]
    <3> DEFINE p == Len(loop.left)
               q == Len(wire[c])
    <3>1. p \in Nat \ {0} /\ q \in Nat
      BY <1>1, <1>2, EmptySeq, LenProperties
    <3>2. /\ Len(r) = p + q
          /\ \A i \in 1..p + q : r[i] = IF i <= p THEN loop.left[i] ELSE wire[c][i - p]
      <4>1. loop.left \in Seq(B) /\ wire[c] \in Seq(B)
        BY <1>2
      <4> HIDE DEF B
      <4> QED
        BY <4>1, ConcatProperties
    <3> HIDE DEF r, p, q
    <3>a. 1 \in 1..p + q /\ 1 <= p /\ p + q # 0
      BY <3>1
    <3>3. Len(r) # 0 /\ r[1] = loop.left[1]
      BY <3>2, <3>a
    <3>4. r # <<>>
      BY <3>3
    <3> QED
      BY <3>3, <3>4
  <2> HIDE DEF r
  <2>3. r[1] = <<Len(taken[c]) + 1, 0>>
    BY <1>3, <2>1, <2>2 DEF InOrder, Stream
  <2>4. Head(loop.left) = <<Len(taken[c]) + 1, 0>>
    <3>1. Head(loop.left) = loop.left[1]
      BY DEF Head
    <3> QED
      BY <2>2, <2>3, <3>1
  <2>5. Header(c) = Len(taken[c]) + 1 /\ Left(c) = Tail(loop.left) /\ body[c] = <<>>
    BY <1>3, <1>6, <2>4 DEF Header, Left, InOrder
  <2>6. b = Head(loop.left)
    BY <2>4, <2>5 DEF b
  <2>7. <<b>> \o Left(c) = loop.left
    BY <1>1, <1>2, <2>5, <2>6, HeadJoin
  <2>8. r = <<b>> \o (Left(c) \o wire[c])
    <3> DEFINE h == <<b>>
    <3>1. h \in Seq(B) /\ Left(c) \in Seq(B) /\ wire[c] \in Seq(B)
      BY <1>2, <1>5
    <3>2. r = (h \o Left(c)) \o wire[c]
      BY <2>7 DEF r
    <3> HIDE DEF B, h
    <3>3. (h \o Left(c)) \o wire[c] = h \o (Left(c) \o wire[c])
      <4>1. \A x, y, z \in Seq(B) : (x \o y) \o z = x \o (y \o z)
        BY ConcatAssociative
      <4> QED
        BY <3>1, <4>1
    <3>4. r = h \o (Left(c) \o wire[c])
      BY <3>2, <3>3
    <3> QED
      BY <3>4 DEF h
  <2>9. <<b>> \o body[c] = <<b>>
    BY <1>5, <2>5, ConcatEmptySeq
  <2> QED
    BY <1>5, <2>1, <2>5, <2>8, <2>9 DEF b
<1>7. CASE header[c] # 0
  <2>1. Header(c) = header[c] /\ Left(c) = loop.left
    BY <1>7 DEF Header, Left
  <2>2. Rest(c) = (<<b>> \o body[c]) \o (loop.left \o wire[c])
    BY <1>1, <1>7, <2>1 DEF Rest, Pending, b
  <2>3. Header(c) = Len(taken[c]) + 1
    BY <1>3, <1>7, <2>1 DEF InOrder
  <2> QED
    BY <1>5, <2>1, <2>2, <2>3 DEF b
<1> QED
  BY <1>6, <1>7

LEMMA Joined == \A S : \A x, y \in Seq(S) : x \o y \in Seq(S)
BY ConcatProperties

LEMMA Regroup == \A S : \A x, y, z \in Seq(S) : (x \o y) \o z = x \o (y \o z)
BY ConcatAssociative

\* The other connections keep their order in a step of the epoll thread for one of them.
LEMMA OthersStay ==
    ASSUME StreamInv, loop.pc # "idle", NEW c, c = loop.at,
           loop'.at = c \/ loop'.pc = "idle",
           NEW d \in Clients, d # c, sent'[d] = sent[d], taken'[d] = taken[d],
           header'[d] = header[d], body'[d] = body[d], wire'[d] = wire[d]
    PROVE  InOrder(d)'
<1>1. LeftOf(d)' = LeftOf(d)
  BY DEF LeftOf
<1>2. InOrder(d)
  BY DEF StreamInv
<1> QED
  BY <1>1, <1>2, RestStays

\* A message sent goes to the end of the stream.
LEMMA SendStream ==
    ASSUME TypeOK, StreamInv, NEW c \in Clients, NEW n \in Lengths, Send(c, n)
    PROVE  InOrder(c)'
<1> DEFINE s == sent[c]
           more == Append(s, n)
           m == Message(more, Len(more))
<1>1. /\ s \in Seq(Nat) /\ n \in Nat /\ Bytes(c) = ByteOf(s)
      /\ Pending(c) \in Seq(Bytes(c)) /\ LeftOf(c) \in Seq(Bytes(c)) /\ wire[c] \in Seq(Bytes(c))
      /\ Rest(c) \in Seq(ByteOf(s)) /\ InOrder(c)
  BY StreamTypes, SizesAssumption DEF StreamInv
<1>2. sent'[c] = more /\ wire'[c] = wire[c] \o m
  BY DEF Send, TypeOK, NetTypes
<1>3. /\ header'[c] = header[c] /\ body'[c] = body[c] /\ taken'[c] = taken[c]
      /\ LeftOf(c)' = LeftOf(c)
  BY DEF Send, packetVars, historyVars, LeftOf
<1>4. /\ more \in Seq(Nat) /\ Len(more) = Len(s) + 1 /\ Len(s) \in Nat
      /\ \A i \in 1..Len(s) : more[i] = s[i]
  BY <1>1, AppendProperties, LenProperties
<1> HIDE DEF s, more
<1>5. Len(taken[c]) \in 0..Len(s)
  BY <1>1, <1>4, LenProperties DEF InOrder, StreamInv, s
<1>6. Stream(Rest(c) \o m, more, Len(taken[c]))
  <2>1. Stream(Rest(c), s, Len(taken[c]))
    BY <1>1 DEF InOrder, s
  <2> QED
    BY <1>1, <1>5, <2>1, StreamSent DEF more
<1>7. Rest(c)' = Rest(c) \o m
  <2> DEFINE B == ByteOf(more)
  <2>1. m \in Seq(B)
    <3>1. Len(more) \in 1..Len(more)
      BY <1>4
    <3> QED
      BY <1>4, <3>1, MessageBytes DEF ByteOf
  <2>2. Bytes(c) \subseteq B
    BY <1>1, <1>4 DEF ByteOf
  <2> HIDE DEF B, m
  <2>3. Pending(c) \in Seq(B) /\ LeftOf(c) \in Seq(B) /\ wire[c] \in Seq(B)
    BY <1>1, <2>2, SeqMonotonic
  <2>a. \A x, y, z \in Seq(B) : (x \o y) \o z = x \o (y \o z)
    BY Regroup
  <2>b. LeftOf(c) \o wire[c] \in Seq(B)
    BY <2>3, Joined
  <2>4. LeftOf(c) \o (wire[c] \o m) = (LeftOf(c) \o wire[c]) \o m
    BY <2>1, <2>3, <2>a
  <2>5. Pending(c) \o ((LeftOf(c) \o wire[c]) \o m) = (Pending(c) \o (LeftOf(c) \o wire[c])) \o m
    BY <2>1, <2>3, <2>a, <2>b
  <2>6. Pending(c)' = Pending(c)
    BY <1>3 DEF Pending
  <2>7. Rest(c)' = Pending(c) \o (LeftOf(c) \o (wire[c] \o m))
    BY <1>2, <1>3, <2>6 DEF Rest
  <2> QED
    BY <2>4, <2>5, <2>7 DEF Rest
<1>8. \A i \in 1..Len(taken[c]) : Message(more, i) = Message(s, i)
  BY <1>4, <1>5 DEF Message
<1>9. Len(taken[c]) <= Len(more)
  BY <1>4, <1>5
<1> QED
  BY <1>1, <1>2, <1>3, <1>6, <1>7, <1>8, <1>9 DEF InOrder, s

\* A read moves bytes from the connection to the buffer.
LEMMA RecvStream ==
    ASSUME TypeOK, StreamInv, Recv, NEW c \in Clients, c = loop.at
    PROVE  InOrder(c)'
<1> DEFINE n == IF here[c] < BufSize THEN here[c] ELSE BufSize
<1>1. wire[c] \in Seq(Bytes(c)) /\ here[c] \in 0..Len(wire[c]) /\ BufSize \in Nat
  BY SizesAssumption DEF TypeOK, NetTypes
<1>2. n \in 0..Len(wire[c])
  BY <1>1, LenProperties
<1>3. /\ loop' = [pc |-> "turn", at |-> c, left |-> SubSeq(wire[c], 1, n)]
      /\ wire'[c] = SubSeq(wire[c], n + 1, Len(wire[c]))
      /\ sent' = sent /\ header' = header /\ body' = body /\ taken' = taken
  BY DEF Recv, TypeOK, NetTypes, packetVars, historyVars
<1>4. LeftOf(c) = <<>> /\ LeftOf(c)' = SubSeq(wire[c], 1, n)
  <2>1. loop.pc = "work" /\ loop.left = <<>>
    BY DEF StreamInv, Recv
  <2>2. LeftOf(c) = <<>>
    BY <2>1 DEF LeftOf
  <2> HIDE DEF n
  <2>3. loop'.pc = "turn" /\ loop'.at = c /\ loop'.left = SubSeq(wire[c], 1, n)
    BY <1>3
  <2>4. LeftOf(c)' = SubSeq(wire[c], 1, n)
    BY <2>3 DEF LeftOf
  <2> QED
    BY <2>2, <2>4
<1> HIDE DEF n
<1>5. SubSeq(wire[c], 1, n) \o SubSeq(wire[c], n + 1, Len(wire[c])) = wire[c]
  BY <1>1, <1>2, CutJoin
<1>6. LeftOf(c)' \o wire'[c] = LeftOf(c) \o wire[c]
  BY <1>1, <1>3, <1>4, <1>5, ConcatEmptySeq
<1>7. Rest(c)' = Rest(c)
  BY <1>3, <1>6 DEF Rest, Pending
<1>8. InOrder(c)
  BY DEF StreamInv
<1> QED
  BY <1>3, <1>7, <1>8, InOrderStays

\* A turn keeps the stream, or cuts its first message from it.
LEMMA TurnStream ==
    ASSUME TypeOK, StreamInv, TurnPartial \/ TurnEmpty, NEW c \in Clients, c = loop.at
    PROVE  InOrder(c)'
<1> DEFINE b == <<Header(c), 0>>
           B == Bytes(c)
<1>1. loop.pc = "turn"
  BY DEF TurnPartial, TurnEmpty
<1>2. /\ Header(c) = Len(taken[c]) + 1 /\ <<b>> \in Seq(B)
      /\ Rest(c) = (<<b>> \o body[c]) \o (Left(c) \o wire[c])
  BY <1>1, TurnRest
<1>3. /\ body[c] \in Seq(B) /\ wire[c] \in Seq(B) /\ Left(c) \in Seq(B)
      /\ Header(c) \in 1..Len(sent[c])
  BY <1>1, StreamTypes, TurnLemma
<1>4. InOrder(c)
  BY DEF StreamInv
<1>5. /\ sent' = sent /\ wire' = wire /\ taken' = taken /\ header' = [header EXCEPT ![c] = Header(c)]
      /\ header'[c] = Header(c) /\ Header(c) # 0
  <2>1. Header(c) # 0
    BY <1>3, LenProperties
  <2> HIDE DEF b, B
  <2> QED
    BY <2>1 DEF TurnPartial, TurnEmpty, netVars, historyVars, queueVars, TypeOK, PacketTypes
<1>6. Pending(c)' = <<b>> \o body'[c]
  BY <1>5 DEF Pending
<1> DEFINE h == <<b>>
<1> HIDE DEF b, h
<1>7. h \in Seq(B) /\ Rest(c) = (h \o body[c]) \o (Left(c) \o wire[c]) /\ Pending(c)' = h \o body'[c]
  BY <1>2, <1>6 DEF h
<1> HIDE DEF B
<1>8. \A x, y, z \in Seq(B) : (x \o y) \o z = x \o (y \o z)
  BY Regroup
<1>9. <<>> \o wire[c] = wire[c] /\ h \o body[c] \in Seq(B)
  BY <1>3, <1>7, ConcatEmptySeq, Joined
<1>10. Rest(c)' = Rest(c)
  <2>1. CASE TurnPartial
    <3>1. body'[c] = body[c] \o Left(c) /\ loop'.left = <<>> /\ loop'.pc # "idle" /\ loop'.at = c
      BY <2>1 DEF TurnPartial, TypeOK, PacketTypes, Continue
    <3>2. LeftOf(c)' = <<>>
      BY <3>1 DEF LeftOf
    <3>3. Rest(c)' = (h \o (body[c] \o Left(c))) \o wire[c]
      BY <1>5, <1>7, <1>9, <3>1, <3>2 DEF Rest
    <3>4. h \o (body[c] \o Left(c)) = (h \o body[c]) \o Left(c)
      BY <1>3, <1>7, <1>8
    <3>5. ((h \o body[c]) \o Left(c)) \o wire[c] = (h \o body[c]) \o (Left(c) \o wire[c])
      BY <1>3, <1>8, <1>9
    <3> QED
      BY <1>7, <3>3, <3>4, <3>5
  <2>2. CASE TurnEmpty
    <3>1. body' = body /\ loop'.left = Left(c) /\ loop'.pc # "idle" /\ loop'.at = c
      BY <2>2 DEF TurnEmpty, Continue
    <3>2. LeftOf(c)' = Left(c)
      BY <3>1 DEF LeftOf
    <3> QED
      BY <1>5, <1>7, <3>1, <3>2 DEF Rest
  <2> QED
    BY <2>1, <2>2
<1>11. header'[c] = Len(taken'[c]) + 1 /\ header'[c] # 0
  BY <1>2, <1>5
<1> QED
  BY <1>4, <1>5, <1>10, <1>11 DEF InOrder

LEMMA PushStream ==
    ASSUME TypeOK, StreamInv, TurnPush, NEW c \in Clients, c = loop.at
    PROVE  InOrder(c)' /\ taken'[c] \in Seq(Seq(Nat \X Nat))
<1> DEFINE h == <<<<Header(c), 0>>>>
           B == Bytes(c)
           M == Missing(c)
           t == SubSeq(Left(c), 1, M)
           u == SubSeq(Left(c), M + 1, Len(Left(c)))
           bytes == (h \o body[c]) \o t
           n == Len(taken[c])
<1>1. loop.pc = "turn"
  BY DEF TurnPush
<1>2. /\ Header(c) = n + 1 /\ h \in Seq(B)
      /\ Rest(c) = (h \o body[c]) \o (Left(c) \o wire[c])
  BY <1>1, TurnRest
<1>3. /\ body[c] \in Seq(B) /\ wire[c] \in Seq(B) /\ Left(c) \in Seq(B) /\ B = ByteOf(sent[c])
      /\ sent[c] \in Seq(Nat) /\ M = BodyLen(c) - Len(body[c]) /\ BodyLen(c) \in Nat
      /\ Len(body[c]) \in Nat /\ Header(c) \in 1..Len(sent[c])
  BY <1>1, StreamTypes, TurnLemma
<1>4. InOrder(c) /\ taken[c] \in Seq(Seq(Nat \X Nat))
  BY DEF StreamInv
<1>5. /\ sent' = sent /\ wire' = wire /\ taken' = [taken EXCEPT ![c] = Append(taken[c], bytes)]
      /\ header'[c] = 0 /\ body'[c] = <<>>
      /\ loop'.pc = "signal" /\ loop'.at = c /\ loop'.left = u
  BY DEF TurnPush, netVars, TypeOK, PacketTypes
<1>6. M \in 0..Len(Left(c))
  BY <1>1, <1>3, LenProperties DEF TurnPush
<1>7. Len(h) = 1
  OBVIOUS
<1>8. BodyLen(c) = sent[c][n + 1]
  BY <1>2 DEF BodyLen
<1> HIDE DEF h, B, M
<1>9. /\ t \in Seq(B) /\ Len(t) = M /\ u \in Seq(B) /\ t \o u = Left(c)
  <2> DEFINE l == Left(c)
  <2>1. l \in Seq(B) /\ M \in 0..Len(l)
    BY <1>3, <1>6
  <2> HIDE DEF l
  <2>2. /\ SubSeq(l, 1, M) \in Seq(B) /\ Len(SubSeq(l, 1, M)) = M /\ SubSeq(l, M + 1, Len(l)) \in Seq(B)
        /\ SubSeq(l, 1, M) \o SubSeq(l, M + 1, Len(l)) = l
    BY <2>1, Cut, CutJoin
  <2> QED
    BY <2>2 DEF l
<1> HIDE DEF t, u
<1>10. \A x, y, z \in Seq(B) : (x \o y) \o z = x \o (y \o z)
  BY Regroup
<1>11. \A x, y \in Seq(B) : Len(x \o y) = Len(x) + Len(y)
  BY ConcatProperties
<1>12. h \o body[c] \in Seq(B) /\ bytes \in Seq(B) /\ u \o wire[c] \in Seq(B)
  BY <1>2, <1>3, <1>9, Joined
<1>13. Len(bytes) = sent[c][n + 1] + 1
  <2>1. Len(bytes) = Len(h \o body[c]) + Len(t) /\ Len(h \o body[c]) = Len(h) + Len(body[c])
    <3>1. h \in Seq(B) /\ body[c] \in Seq(B) /\ t \in Seq(B)
      BY <1>2, <1>3, <1>9
    <3> QED
      BY <1>11, <1>12, <3>1
  <2> HIDE DEF bytes, n
  <2>2. Len(bytes) = 1 + Len(body[c]) + M
    BY <1>7, <1>9, <2>1
  <2>3. M = BodyLen(c) - Len(body[c]) /\ BodyLen(c) \in Nat /\ Len(body[c]) \in Nat
    BY <1>3
  <2>4. Len(bytes) = BodyLen(c) + 1
    BY <2>2, <2>3
  <2> QED
    BY <1>8, <2>4
<1>14. Rest(c) = bytes \o (u \o wire[c])
  <2>1. Left(c) \o wire[c] = t \o (u \o wire[c])
    <3>1. t \in Seq(B) /\ u \in Seq(B) /\ wire[c] \in Seq(B)
      BY <1>3, <1>9
    <3>2. (t \o u) \o wire[c] = t \o (u \o wire[c])
      BY <1>10, <3>1
    <3> QED
      BY <1>9, <3>2
  <2>2. (h \o body[c]) \o (t \o (u \o wire[c])) = ((h \o body[c]) \o t) \o (u \o wire[c])
    <3> DEFINE x == h \o body[c]
               z == u \o wire[c]
    <3>1. x \in Seq(B) /\ t \in Seq(B) /\ z \in Seq(B)
      BY <1>9, <1>12
    <3> HIDE DEF x, z
    <3>2. (x \o t) \o z = x \o (t \o z)
      BY <1>10, <3>1
    <3> QED
      BY <3>2 DEF x, z
  <2> QED
    BY <1>2, <2>1, <2>2
<1>15. n \in 0..Len(sent[c])
  BY <1>3, <1>4, LenProperties DEF InOrder
<1>16. bytes # <<>>
  <2>1. Len(bytes) # 0
    <3> HIDE DEF bytes, n
    <3> QED
      BY <1>3, <1>8, <1>13
  <2> HIDE DEF bytes
  <2> QED
    BY <2>1
<1> HIDE DEF bytes
<1>17. /\ n + 1 \in 1..Len(sent[c]) /\ bytes = Message(sent[c], n + 1)
       /\ Stream(u \o wire[c], sent[c], n + 1)
  <2>1. Stream(bytes \o (u \o wire[c]), sent[c], n)
    BY <1>4, <1>14 DEF InOrder
  <2> DEFINE v == u \o wire[c]
  <2>2. v \in Seq(ByteOf(sent[c])) /\ bytes \in Seq(ByteOf(sent[c]))
    BY <1>3, <1>12
  <2> HIDE DEF v, n
  <2>3. Stream(bytes \o v, sent[c], n)
    BY <2>1 DEF v
  <2>4. /\ n + 1 \in 1..Len(sent[c]) /\ bytes = Message(sent[c], n + 1)
        /\ Stream(v, sent[c], n + 1)
    BY <1>3, <1>13, <1>15, <1>16, <2>2, <2>3, StreamTaken
  <2> QED
    BY <2>4 DEF v
<1>18. Rest(c)' = u \o wire[c]
  <2>1. Pending(c)' = <<>> /\ LeftOf(c)' = u
    BY <1>5 DEF Pending, LeftOf
  <2>2. <<>> \o (u \o wire[c]) = u \o wire[c]
    BY <1>12, ConcatEmptySeq
  <2> QED
    BY <1>5, <2>1, <2>2 DEF Rest
<1>19. bytes \in Seq(Nat \X Nat)
  <2>1. B \subseteq Nat \X Nat
    BY <1>3, LenProperties DEF ByteOf
  <2> QED
    BY <1>12, <2>1, SeqMonotonic
<1>20. taken'[c] = Append(taken[c], bytes)
  BY <1>5 DEF StreamInv
<1>21. /\ taken'[c] \in Seq(Seq(Nat \X Nat)) /\ Len(taken'[c]) = n + 1
       /\ \A i \in 1..n : taken'[c][i] = taken[c][i]
       /\ taken'[c][n + 1] = bytes
  BY <1>4, <1>19, <1>20, AppendProperties
<1>22. \A i \in 1..Len(taken'[c]) : taken'[c][i] = Message(sent[c], i)
  <2>1. \A i \in 1..n : taken[c][i] = Message(sent[c], i)
    BY <1>4 DEF InOrder
  <2>2. \A i \in 1..(n + 1) : i \in 1..n \/ i = n + 1
    BY <1>15
  <2> HIDE DEF n
  <2> QED
    BY <1>17, <1>21, <2>1, <2>2
<1>23. InOrder(c)'
  <2>1. Stream(Rest(c)', sent'[c], Len(taken'[c]))
    BY <1>5, <1>17, <1>18, <1>21
  <2>2. Len(taken'[c]) <= Len(sent'[c])
    BY <1>5, <1>15, <1>17, <1>21
  <2> QED
    BY <1>5, <1>22, <2>1, <2>2 DEF InOrder
<1> QED
  BY <1>21, <1>23

LEMMA StepStream == TypeOK /\ StreamInv /\ [Next]_vars => StreamInv'
<1> SUFFICES ASSUME TypeOK, StreamInv, [Next]_vars PROVE StreamInv'
  OBVIOUS
<1> USE DEF netVars, packetVars, queueVars, historyVars
<1>a. /\ \A c \in Clients : InOrder(c)
      /\ DOMAIN taken = Clients /\ \A c \in Clients : taken[c] \in Seq(Seq(Nat \X Nat))
      /\ loop.pc = "work" => loop.left = <<>>
  BY DEF StreamInv
\* Nothing that the order of the bytes depends on changes.
<1>b. ASSUME UNCHANGED <<sent, wire, taken, packetVars>>,
             \A d \in Clients : LeftOf(d)' = LeftOf(d),
             loop'.pc = "work" => loop'.left = <<>>
      PROVE  StreamInv'
  <2>1. \A d \in Clients : InOrder(d)'
    BY <1>a, <1>b, RestStays
  <2> QED
    BY <1>a, <1>b, <2>1 DEF StreamInv
<1>1. ASSUME NEW c \in Clients, NEW n \in Lengths, Send(c, n) PROVE StreamInv'
  <2>1. InOrder(c)'
    BY <1>1, SendStream
  <2>2. ASSUME NEW d \in Clients, d # c PROVE InOrder(d)'
    <3>1. /\ sent'[d] = sent[d] /\ wire'[d] = wire[d] /\ taken'[d] = taken[d]
          /\ header'[d] = header[d] /\ body'[d] = body[d] /\ LeftOf(d)' = LeftOf(d)
      BY <1>1, <2>2 DEF Send, LeftOf, TypeOK, NetTypes
    <3> QED
      BY <1>a, <3>1, RestStays
  <2>3. taken' = taken /\ loop' = loop
    BY <1>1 DEF Send
  <2> QED
    BY <1>a, <2>1, <2>2, <2>3 DEF StreamInv
<1>2. ASSUME NEW c \in Clients, Arrive(c) PROVE StreamInv'
  BY <1>2, <1>a, <1>b DEF Arrive, LeftOf
<1>3. ASSUME NEW c \in Clients, Close(c) PROVE StreamInv'
  BY <1>3, <1>a, <1>b DEF Close, LeftOf
<1>4. ASSUME NEW c \in Clients, CloseArrives(c) PROVE StreamInv'
  BY <1>4, <1>a, <1>b DEF CloseArrives, LeftOf
<1>5. ASSUME NEW c \in Clients, Accept(c) PROVE StreamInv'
  BY <1>5, <1>a, <1>b DEF Accept, LeftOf
<1>6. ASSUME NEW c \in Clients, Notify(c) PROVE StreamInv'
  <2>1. loop'.left = <<>> /\ loop.pc = "idle"
    BY <1>6 DEF Notify
  <2>2. \A d \in Clients : LeftOf(d)' = LeftOf(d)
    BY <2>1 DEF LeftOf
  <2>3. UNCHANGED <<sent, wire, taken, packetVars>>
    BY <1>6 DEF Notify
  <2> QED
    BY <1>b, <2>1, <2>2, <2>3
<1>7. ASSUME Recv PROVE StreamInv'
  <2>1. PICK c \in Clients : c = loop.at
    BY <1>7 DEF Recv, TypeOK, LoopTypes
  <2>2. InOrder(c)'
    BY <1>7, <2>1, RecvStream
  <2>3. /\ sent' = sent /\ taken' = taken /\ header' = header /\ body' = body
        /\ loop'.at = c /\ loop'.pc = "turn" /\ loop.pc = "work"
        /\ \A d \in Clients : d # c => wire'[d] = wire[d]
    BY <1>7, <2>1 DEF Recv, TypeOK, NetTypes
  <2>4. ASSUME NEW d \in Clients, d # c PROVE InOrder(d)'
    BY <2>1, <2>3, <2>4, OthersStay
  <2> QED
    BY <1>a, <2>2, <2>3, <2>4 DEF StreamInv
<1>8. ASSUME WouldBlock \/ PeerClosed PROVE StreamInv'
  <2>1. /\ loop.pc = "work" /\ loop.left = <<>> /\ loop'.pc = "idle"
        /\ UNCHANGED <<sent, wire, taken, packetVars>>
    BY <1>8, <1>a DEF WouldBlock, PeerClosed, Idle
  <2>2. \A d \in Clients : LeftOf(d)' = LeftOf(d)
    BY <2>1 DEF LeftOf
  <2> QED
    BY <1>b, <2>1, <2>2
<1>9. ASSUME TurnPartial \/ TurnEmpty PROVE StreamInv'
  <2>1. PICK c \in Clients : c = loop.at /\ loop.pc = "turn"
    BY <1>9 DEF TurnPartial, TurnEmpty, TypeOK, LoopTypes
  <2>2. InOrder(c)'
    BY <1>9, <2>1, TurnStream
  <2>3. /\ sent' = sent /\ wire' = wire /\ taken' = taken
        /\ \A d \in Clients : d # c => header'[d] = header[d] /\ body'[d] = body[d]
    BY <1>9, <2>1 DEF TurnPartial, TurnEmpty, TypeOK, PacketTypes
  <2>4. loop'.at = c /\ (loop'.pc = "work" => loop'.left = <<>>)
    <3>1. \/ loop' = [pc |-> "work", at |-> c, left |-> <<>>]
          \/ loop' = [pc |-> "hung", at |-> c, left |-> Left(c)]
      BY <1>9, <2>1 DEF TurnPartial, TurnEmpty, Continue
    <3>2. CASE loop' = [pc |-> "work", at |-> c, left |-> <<>>]
      BY <3>2
    <3>3. CASE loop' = [pc |-> "hung", at |-> c, left |-> Left(c)]
      BY <3>3
    <3> QED
      BY <3>1, <3>2, <3>3
  <2>5. ASSUME NEW d \in Clients, d # c PROVE InOrder(d)'
    BY <2>1, <2>3, <2>4, <2>5, OthersStay
  <2> QED
    BY <1>a, <2>2, <2>3, <2>4, <2>5 DEF StreamInv
<1>10. ASSUME TurnPush PROVE StreamInv'
  <2>1. PICK c \in Clients : c = loop.at /\ loop.pc = "turn"
    BY <1>10 DEF TurnPush, TypeOK, LoopTypes
  <2>2. InOrder(c)' /\ taken'[c] \in Seq(Seq(Nat \X Nat))
    BY <1>10, <2>1, PushStream
  <2>3. /\ sent' = sent /\ wire' = wire
        /\ DOMAIN taken' = DOMAIN taken
        /\ \A d \in Clients : d # c => /\ header'[d] = header[d] /\ body'[d] = body[d]
                                       /\ taken'[d] = taken[d]
        /\ loop'.at = c /\ loop'.pc = "signal"
    BY <1>10, <1>a, <2>1 DEF TurnPush, TypeOK, PacketTypes
  <2>4. ASSUME NEW d \in Clients, d # c PROVE InOrder(d)'
    BY <2>1, <2>3, <2>4, OthersStay
  <2> QED
    BY <1>a, <2>2, <2>3, <2>4 DEF StreamInv
<1>11. ASSUME SignalSet PROVE StreamInv'
  BY <1>11, <1>b DEF SignalSet, LeftOf
<1>12. ASSUME Wakeup PROVE StreamInv'
  <2>1. /\ loop'.at = loop.at /\ loop'.left = loop.left /\ loop.pc # "idle" /\ loop'.pc # "idle"
        /\ loop'.pc = "work" => loop'.left = <<>>
        /\ UNCHANGED <<sent, wire, taken, packetVars>>
    BY <1>12 DEF Wakeup, Continue
  <2>2. \A d \in Clients : LeftOf(d)' = LeftOf(d)
    BY <2>1 DEF LeftOf
  <2> QED
    BY <1>b, <2>1, <2>2
<1>13. ASSUME NEW q \in Queues, Worker(q) PROVE StreamInv'
  <2>1. UNCHANGED <<sent, wire, taken, packetVars, loop>>
    BY <1>13 DEF Worker, SignalWait, Pop, Parse
  <2> QED
    BY <1>a, <1>b, <2>1 DEF LeftOf
<1>14. ASSUME UNCHANGED vars PROVE StreamInv'
  BY <1>14, <1>a, <1>b DEF vars, LeftOf
<1> QED
  BY <1>1, <1>2, <1>3, <1>4, <1>5, <1>6, <1>7, <1>8, <1>9, <1>10, <1>11, <1>12, <1>13, <1>14
     DEF Next, Network, EpollThread

\* The messages cut from a connection are those sent over it, whole and in order, however
\* the bytes are read (the property MessagesIntact).
THEOREM MessagesWhole == Spec => []MessagesIntact
<1>1. StreamInv => MessagesIntact
  BY DEF StreamInv, InOrder, MessagesIntact
<1> QED
  BY <1>1, InitStream, StepStream, TypeCorrect, PTL DEF Spec
=============================================================================
