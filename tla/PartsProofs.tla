---------------------------- MODULE PartsProofs ----------------------------
(***************************************************************************)
(* Theorems about the parts that stand on their own: the replica list of a *)
(* vnode as a service (VnodeAddr), CDeviceContainer's array, which         *)
(* implements DeviceSet (NodeContainer), the two ends of a connection      *)
(* (TimedStream), the buffering of MD5 (Md5Stream), the loads that the     *)
(* hashing of names gives to the vnodes (NameHash) and what is read of a   *)
(* configuration file (ConfParser).  The six have no variable in common.   *)
(***************************************************************************)
EXTENDS VnodeAddr, NodeContainer, TimedStream, Md5Stream, NameHash, ConfParser,
        VnodeInfoProofs

-----------------------------------------------------------------------------
(* The replica list of a vnode.                                              *)

\* What get_read_replica() answers, in the terms of this module.
LEMMA ReadAnswer ==
    ASSUME TypeOK
    PROVE  LET dev == get_read_replica(replica_list, replica_status, rd_req_robin)
           IN  /\ dev \in Devices \cup {NoDevice}
               /\ IF dev = NoDevice THEN ActiveHolders = {} ELSE dev \in ActiveHolders
<1> DEFINE dev == get_read_replica(replica_list, replica_status, rd_req_robin)
<1>1. /\ NoDevice \notin Devices
      /\ replica_list \in Seq(Devices)
      /\ replica_status \in [Devices -> Statuses]
      /\ rd_req_robin \in Nat
  BY DevicesAssumption, LenProperties DEF TypeOK
<1>2. IF dev = NoDevice THEN \A d \in Holders(replica_list) : replica_status[d] # ACTIVE
                        ELSE dev \in Holders(replica_list) /\ replica_status[dev] = ACTIVE
  BY <1>1, ReadReplicaCorrect
<1>3. Holders(replica_list) \subseteq Devices
  BY <1>1, ElementOfSeq DEF Holders
<1> HIDE DEF dev
<1> QED
  BY <1>2, <1>3 DEF ActiveHolders, dev

\* Every variable keeps its type, and the read cursor stays within the list.
THEOREM TypeCorrect == Spec => []TypeOK
<1> USE DevicesAssumption, ReplicaCountAssumption DEF Statuses, INIT, OFFLINE
<1>1. Init => TypeOK
  BY DEF Init, TypeOK, NoAnswer, Answers
<1>2. ASSUME TypeOK, [Next]_vars PROVE TypeOK'
  <2> USE <1>2
  <2>1. ASSUME NEW d \in Devices, NEW s \in {ONLINE, WAIT_SYNC, ACTIVE}, AddReplica(d, s)
        PROVE  TypeOK'
    <3>1. replica_list' \in Seq(Devices) /\ Len(replica_list') = Len(replica_list) + 1
      BY <2>1, AppendProperties DEF AddReplica, TypeOK
    <3> QED
      BY <2>1, <3>1, LenProperties
      DEF AddReplica, Changed, TypeOK, NoAnswer, Answers, ONLINE, WAIT_SYNC, ACTIVE
  <2>2. ASSUME NEW d \in Devices, NEW s \in {WAIT_SYNC, COPY_SRC, ACTIVE}, ChangeStatus(d, s)
        PROVE  TypeOK'
    BY <2>2 DEF ChangeStatus, Changed, TypeOK, NoAnswer, Answers, WAIT_SYNC, COPY_SRC, ACTIVE
  <2>3. CASE ReadAddr
    <3> DEFINE dev == get_read_replica(replica_list, replica_status, rd_req_robin)
    <3>1. dev \in Devices \cup {NoDevice}
      BY ReadAnswer
    <3>2. rd_req_robin' \in 0..Len(replica_list)
      BY <2>3, ReadCursorType, LenProperties DEF TypeOK, ReadAddr
    <3> HIDE DEF dev
    <3>3. answer' \in Answers
      BY <2>3, <3>1 DEF ReadAddr, Answers, dev
    <3>4. served' \in Seq(Devices)
      BY <2>3, <3>1, AppendProperties DEF ReadAddr, TypeOK, dev
    <3> QED
      BY <2>3, <3>2, <3>3, <3>4 DEF ReadAddr, TypeOK
  <2>4. CASE WriteAddr
    <3> DEFINE dev == get_write_replica(replica_list, replica_status, rd_req_robin)
    <3>1. dev \in Devices \cup {NoDevice}
      BY <2>4, ElementOfSeq, LenProperties, EmptySeq
      DEF TypeOK, WriteAddr, WritePastEnd, get_write_replica
    <3>2. ASSUME NEW wr \in 0..Len(replica_list)
          PROVE  WriteCursor(replica_list, wr, dev) \in 0..Len(replica_list)
      <4> DEFINE n == Len(replica_list)
                 k == IF dev = NoDevice THEN n - 1 ELSE 0
      <4>1. n \in Nat
        BY LenProperties DEF TypeOK
      <4>2. CASE n = 0
        BY <4>2 DEF WriteCursor
      <4>3. CASE n # 0
        <5>1. k \in 0..(n - 1) /\ wr \in Nat
          BY <4>1, <4>3
        <5>2. Slot(n, wr, k) \in 1..n
          BY <4>1, <5>1, SlotInList
        <5> QED
          BY <4>1, <4>3, <5>2 DEF WriteCursor
      <4> QED
        BY <4>2, <4>3
    <3> HIDE DEF dev
    <3>3. wr_req_robin' \in 0..Len(replica_list)
      BY <2>4, <3>2 DEF WriteAddr, TypeOK, dev
    <3>4. answer' \in Answers
      BY <2>4, <3>1 DEF WriteAddr, Answers, dev
    <3> QED
      BY <2>4, <3>3, <3>4 DEF WriteAddr, TypeOK
  <2>5. CASE WriteAddrDies
    BY <2>5 DEF WriteAddrDies, TypeOK
  <2>6. CASE UNCHANGED vars
    BY <2>6 DEF vars, TypeOK
  <2> QED
    BY <2>1, <2>2, <2>3, <2>4, <2>5, <2>6 DEF Next
<1> QED
  BY <1>1, <1>2, PTL DEF Spec

\* A read is refused exactly when no replica is ACTIVE, and never answered with
\* a replica that is not (get_read_replica under msg_get_vnode_addr_handle).
THEOREM ReadsFindActive == Spec => []ReadFindsActive
<1>1. Init => ReadFindsActive
  BY DEF Init, ReadFindsActive, NoAnswer
<1>2. ASSUME TypeOK, ReadFindsActive, [Next]_vars PROVE ReadFindsActive'
  <2> USE <1>2
  <2>1. ASSUME Changed PROVE ReadFindsActive'
    BY <2>1 DEF Changed, ReadFindsActive, NoAnswer
  <2>2. CASE ReadAddr
    <3> DEFINE dev == get_read_replica(replica_list, replica_status, rd_req_robin)
    <3>1. IF dev = NoDevice THEN ActiveHolders = {} ELSE dev \in ActiveHolders
      BY ReadAnswer
    <3>2. answer'.dev = dev /\ ActiveHolders' = ActiveHolders
      BY <2>2 DEF ReadAddr, ActiveHolders
    <3> QED
      BY <3>1, <3>2 DEF ReadFindsActive
  <2>3. CASE WriteAddr
    BY <2>3 DEF WriteAddr, ReadFindsActive
  <2>4. CASE WriteAddrDies \/ UNCHANGED vars
    BY <2>4 DEF WriteAddrDies, vars, ReadFindsActive, ActiveHolders
  <2> QED
    BY <2>1, <2>2, <2>3, <2>4 DEF Next, AddReplica, ChangeStatus
<1> QED
  BY <1>1, <1>2, TypeCorrect, PTL DEF Spec

-----------------------------------------------------------------------------
(* The turns of the reads                                                    *)

\* Position p lies on the way from a on to b, both included, around the list; it lies
\* strictly between them (a whole round when they are the same).
InArc(a, b, p) == IF a <= b THEN a <= p /\ p <= b ELSE a <= p \/ p <= b
Between(a, b, p) == IF a < b THEN a < p /\ p < b ELSE a < p \/ p < b

ActiveAt(p) == replica_status[replica_list[p]] = ACTIVE

\* The replicas given from the i-th read on, up to the j-th.
Given(i, j) == {served[k] : k \in i..j}

\* No device holds two replicas; the reads rest on the last one given; between a replica
\* given and the last one given all were given; none is given again before all were.
TurnInv ==
    LET n == Len(replica_list)
        l == Len(served)
    IN  /\ \A p, q \in 1..n : replica_list[p] = replica_list[q] => p = q
        /\ l <= n /\ \A i \in 1..l : served[i] \in ActiveHolders
        /\ l # 0 /\ l < n => rd_req_robin \in 1..n /\ replica_list[rd_req_robin] = served[l]
        /\ \A i \in 1..l : \A a, b, p \in 1..n :
             replica_list[a] = served[i] /\ replica_list[b] = served[l] /\ ActiveAt(p) /\ InArc(a, b, p)
                => replica_list[p] \in Given(i, l)
        /\ \A i, j \in 1..l : i < j /\ served[i] = served[j] => ActiveHolders \subseteq Given(i, j - 1)

LEMMA ArcGrows ==
    ASSUME NEW n \in Nat, NEW a \in 1..n, NEW b \in 1..n, NEW c \in 1..n, NEW p \in 1..n,
           InArc(a, c, p)
    PROVE  InArc(a, b, p) \/ Between(b, c, p) \/ p = c
BY DEF InArc, Between

LEMMA ArcCloses ==
    ASSUME NEW n \in Nat, NEW a \in 1..n, NEW b \in 1..n, NEW p \in 1..n
    PROVE  InArc(a, b, p) \/ Between(b, a, p)
BY DEF InArc, Between

\* The positions strictly between the cursor and the k-th probe were probed before.
LEMMA ProbedBetween ==
    ASSUME NEW n \in Nat, NEW rd \in 1..n, NEW k \in 0..(n - 1), NEW p \in 1..n,
           Between(rd, Slot(n, rd, k), p)
    PROVE  \E j \in 0..(n - 1) : j < k /\ Slot(n, rd, j) = p
<1> DEFINE w == Wrap(n, rd)
           j == IF p > w THEN p - 1 - w ELSE p - 1 - w + n
<1>1. w = (IF rd >= n THEN 0 ELSE rd) /\ w \in Nat
  BY DEF Wrap
<1> HIDE DEF w
<1>2. \A i \in 0..(n - 1) : Slot(n, rd, i) = IF w + i >= n THEN w + i - n + 1 ELSE w + i + 1
  BY <1>1 DEF Slot, w
<1>3. j \in 0..(n - 1) /\ j < k
  BY <1>1, <1>2 DEF Between
<1>4. (IF w + j >= n THEN w + j - n + 1 ELSE w + j + 1) = p
  BY <1>1, <1>3
<1>5. Slot(n, rd, j) = p
  BY <1>2, <1>3, <1>4
<1> QED
  BY <1>3, <1>5

\* A read moves the cursor to the next ACTIVE replica.
LEMMA ReadStep ==
    ASSUME TypeOK, ReadAddr,
           NEW dev, dev = get_read_replica(replica_list, replica_status, rd_req_robin),
           dev # NoDevice
    PROVE  /\ rd_req_robin' \in 1..Len(replica_list)
           /\ replica_list[rd_req_robin'] = dev
           /\ ActiveAt(rd_req_robin') /\ dev \in ActiveHolders
           /\ rd_req_robin \in 1..Len(replica_list) =>
                \A p \in 1..Len(replica_list) :
                  Between(rd_req_robin, rd_req_robin', p) => ~ ActiveAt(p)
<1> DEFINE n == Len(replica_list)
           hits == ReadHits(replica_list, replica_status, rd_req_robin)
           k == FirstOf(hits)
           s == Slot(n, rd_req_robin, k)
<1>1. n \in Nat /\ rd_req_robin \in Nat /\ hits \subseteq 0..(n - 1)
  BY LenProperties DEF TypeOK, ReadHits
<1>2. hits # {} /\ dev = replica_list[s]
  BY DEF get_read_replica
<1>3. k \in hits /\ \A j \in hits : k <= j
  BY <1>1, <1>2, FirstOfLemma
<1>4. k \in 0..(n - 1) /\ s \in 1..n /\ n # 0
  BY <1>1, <1>3, SlotInList
<1>5. rd_req_robin' = s
  BY <1>2, <1>4 DEF ReadAddr, ReadCursor
<1>6. ActiveAt(s)
  BY <1>3 DEF ReadHits, ActiveAt
<1>7. dev \in ActiveHolders
  BY <1>2, <1>4, <1>6 DEF ActiveHolders, Holders, ActiveAt
<1>8. ASSUME rd_req_robin \in 1..n, NEW p \in 1..n, Between(rd_req_robin, s, p)
      PROVE  ~ ActiveAt(p)
  <2>1. PICK j \in 0..(n - 1) : j < k /\ Slot(n, rd_req_robin, j) = p
    BY <1>1, <1>4, <1>8, ProbedBetween
  <2>2. j \notin hits
    BY <1>1, <1>3, <1>4, <2>1
  <2> QED
    BY <2>1, <2>2 DEF ReadHits, ActiveAt
<1> QED
  BY <1>2, <1>4, <1>5, <1>6, <1>7, <1>8

LEMMA ReadTurns ==
    ASSUME TypeOK, TurnInv, ReadAddr
    PROVE  TurnInv'
<1> DEFINE dev == get_read_replica(replica_list, replica_status, rd_req_robin)
           n == Len(replica_list)
           r == rd_req_robin'
<1>0. PICK l : l = Len(served)
  OBVIOUS
<1>1. /\ n \in Nat /\ l \in Nat /\ served \in Seq(Devices) /\ replica_list \in Seq(Devices)
      /\ UNCHANGED <<replica_list, replica_status>>
  BY <1>0, LenProperties DEF TypeOK, ReadAddr
<1>2. /\ ActiveHolders' = ActiveHolders /\ Len(replica_list') = n
      /\ \A p : ActiveAt(p)' = ActiveAt(p)
  BY <1>1 DEF ActiveHolders, ActiveAt
<1>3. /\ \A p, q \in 1..n : replica_list[p] = replica_list[q] => p = q
      /\ l <= n /\ \A i \in 1..l : served[i] \in ActiveHolders
      /\ l # 0 /\ l < n => rd_req_robin \in 1..n /\ replica_list[rd_req_robin] = served[l]
      /\ \A i \in 1..l : \A a, b, p \in 1..n :
           replica_list[a] = served[i] /\ replica_list[b] = served[l] /\ ActiveAt(p) /\ InArc(a, b, p)
              => replica_list[p] \in Given(i, l)
      /\ \A i, j \in 1..l : i < j /\ served[i] = served[j] => ActiveHolders \subseteq Given(i, j - 1)
  BY <1>0 DEF TurnInv
<1>4. CASE dev = NoDevice \/ l = n
  <2>1. served' = served
    BY <1>0, <1>4 DEF ReadAddr
  <2>2. l # 0 => ~ (l < n)
    <3> SUFFICES ASSUME l # 0, l < n PROVE FALSE
      OBVIOUS
    <3>1. dev = NoDevice
      BY <1>1, <1>4
    <3>2. ActiveHolders = {}
      BY <3>1, ReadAnswer
    <3>3. 1 \in 1..l
      BY <1>1
    <3> QED
      BY <1>3, <3>2, <3>3
  <2>3. \A i, j : Given(i, j)' = Given(i, j)
    BY <2>1 DEF Given
  <2> QED
    BY <2>1, <1>1, <1>2, <2>2, <1>0 DEF TurnInv, Given
<1>5. CASE dev # NoDevice /\ l # n
  <2>1. /\ r \in 1..n /\ replica_list[r] = dev /\ ActiveAt(r) /\ dev \in ActiveHolders
        /\ rd_req_robin \in 1..n => \A p \in 1..n : Between(rd_req_robin, r, p) => ~ ActiveAt(p)
    BY <1>5, ReadStep
  <2>2. served' = Append(served, dev)
    BY <1>0, <1>5 DEF ReadAddr
  <2>a. dev \in Devices
    BY <1>1, <2>1, ElementOfSeq
  <2>3. /\ Len(served') = l + 1 /\ served'[l + 1] = dev
        /\ \A i \in 1..l : served'[i] = served[i]
    <3> HIDE DEF dev
    <3> QED
      BY <1>0, <1>1, <2>2, <2>a, AppendProperties
  <2> HIDE DEF dev
  <2>4. \A i, j \in 1..l : Given(i, j)' = Given(i, j)
    <3> SUFFICES ASSUME NEW i \in 1..l, NEW j \in 1..l PROVE Given(i, j)' = Given(i, j)
      OBVIOUS
    <3>1. \A k \in i..j : served'[k] = served[k]
      BY <1>1, <2>3
    <3> QED
      BY <3>1 DEF Given
  <2>5. \A i \in 1..l : Given(i, l) \cup {dev} \subseteq Given(i, l + 1)'
    <3> SUFFICES ASSUME NEW i \in 1..l, NEW d \in Given(i, l) \cup {dev}
                 PROVE  d \in Given(i, l + 1)'
      OBVIOUS
    <3>1. CASE d = dev
      <4>1. l + 1 \in i..(l + 1)
        BY <1>1
      <4> QED
        BY <2>3, <3>1, <4>1 DEF Given
    <3>2. CASE d \in Given(i, l)
      <4>1. PICK k \in i..l : d = served[k]
        BY <3>2 DEF Given
      <4>2. k \in i..(l + 1) /\ served'[k] = served[k]
        BY <1>1, <2>3
      <4> QED
        BY <4>1, <4>2 DEF Given
    <3> QED
      BY <3>1, <3>2
  <2>6. l # 0 => l < n /\ rd_req_robin \in 1..n /\ replica_list[rd_req_robin] = served[l]
    BY <1>1, <1>3, <1>5
  <2>7. \A i \in 1..(l + 1) : served'[i] \in ActiveHolders
    <3> SUFFICES ASSUME NEW i \in 1..(l + 1) PROVE served'[i] \in ActiveHolders
      OBVIOUS
    <3>1. i \in 1..l \/ i = l + 1
      BY <1>1
    <3> QED
      BY <1>3, <2>1, <2>3, <3>1
  <2>8. ASSUME NEW i \in 1..(l + 1), NEW a \in 1..n, NEW p \in 1..n,
               replica_list[a] = served'[i], ActiveAt(p), InArc(a, r, p)
        PROVE  replica_list[p] \in Given(i, l + 1)'
    <3>1. CASE i = l + 1
      <4>1. a = r
        BY <1>3, <2>1, <2>3, <2>8, <3>1
      <4>2. p = r
        BY <1>1, <2>1, <2>8, <4>1 DEF InArc
      <4>3. l + 1 \in (l + 1)..(l + 1)
        BY <1>1
      <4> QED
        BY <2>1, <2>3, <3>1, <4>2, <4>3 DEF Given
    <3>2. CASE i # l + 1
      <4>1. i \in 1..l /\ l # 0
        BY <1>1, <3>2
      <4>2. rd_req_robin \in 1..n /\ replica_list[rd_req_robin] = served[l] /\ served'[i] = served[i]
        BY <2>3, <2>6, <4>1
      <4>3. InArc(a, rd_req_robin, p) \/ Between(rd_req_robin, r, p) \/ p = r
        BY <1>1, <2>1, <2>8, <4>2, ArcGrows
      <4>4. InArc(a, rd_req_robin, p) \/ p = r
        BY <2>1, <2>8, <4>2, <4>3
      <4>5. CASE p = r
        BY <2>1, <2>5, <4>1, <4>5
      <4>6. CASE InArc(a, rd_req_robin, p)
        <5>1. replica_list[p] \in Given(i, l)
          BY <1>3, <2>8, <4>1, <4>2, <4>6
        <5> QED
          BY <2>5, <4>1, <5>1
      <4> QED
        BY <4>4, <4>5, <4>6
    <3> QED
      BY <3>1, <3>2
  <2>9. ASSUME NEW i \in 1..l, served[i] = dev
        PROVE  ActiveHolders \subseteq Given(i, l)
    <3> SUFFICES ASSUME NEW d \in ActiveHolders PROVE d \in Given(i, l)
      OBVIOUS
    <3>1. PICK p \in 1..n : d = replica_list[p] /\ ActiveAt(p)
      BY DEF ActiveHolders, Holders, ActiveAt
    <3>2. l # 0
      BY <1>1
    <3>3. InArc(r, rd_req_robin, p) \/ Between(rd_req_robin, r, p)
      BY <1>1, <2>1, <2>6, <3>2, ArcCloses
    <3>4. InArc(r, rd_req_robin, p)
      BY <2>1, <2>6, <3>1, <3>2, <3>3
    <3> QED
      BY <1>3, <2>1, <2>6, <2>9, <3>1, <3>2, <3>4
  <2>10. ASSUME NEW i \in 1..(l + 1), NEW j \in 1..(l + 1), i < j, served'[i] = served'[j]
         PROVE  ActiveHolders \subseteq Given(i, j - 1)'
    <3>1. CASE j = l + 1
      <4>1. i \in 1..l /\ j - 1 = l /\ l \in 1..l
        BY <1>1, <2>10, <3>1
      <4>2. served[i] = dev
        BY <2>3, <2>10, <3>1, <4>1
      <4> QED
        BY <2>4, <2>9, <4>1, <4>2
    <3>2. CASE j # l + 1
      <4>1. i \in 1..l /\ j \in 1..l /\ j - 1 \in 1..l
        BY <1>1, <2>10, <3>2
      <4>2. PICK h \in 1..l : h = j - 1
        BY <4>1
      <4>3. ActiveHolders \subseteq Given(i, h)
        BY <1>3, <2>3, <2>10, <4>1, <4>2
      <4>4. Given(i, h)' = Given(i, h)
        BY <2>4, <4>1
      <4> QED
        BY <4>2, <4>3, <4>4
    <3> QED
      BY <3>1, <3>2
  <2>11. ASSUME NEW i \in 1..(l + 1), NEW a \in 1..n, NEW b \in 1..n, NEW p \in 1..n,
                replica_list[a] = served'[i], replica_list[b] = served'[l + 1],
                ActiveAt(p), InArc(a, b, p)
         PROVE  replica_list[p] \in Given(i, l + 1)'
    <3>1. b = r
      BY <1>3, <2>1, <2>3, <2>11
    <3> QED
      BY <2>8, <2>11, <3>1
  <2> QED
    <3> DEFINE m == l + 1
    <3>1. m = Len(served') /\ m <= n /\ m \in Nat
      BY <1>1, <1>3, <1>5, <2>3
    <3>2. m # 0 /\ m < n => r \in 1..n /\ replica_list[r] = served'[m]
      BY <2>1, <2>3
    <3>3. \A i \in 1..m : \A a, b, p \in 1..n :
            replica_list[a] = served'[i] /\ replica_list[b] = served'[m] /\ ActiveAt(p) /\ InArc(a, b, p)
               => replica_list[p] \in {served'[k] : k \in i..m}
      BY <2>11 DEF Given
    <3>4. \A i, j \in 1..m : i < j /\ served'[i] = served'[j]
                              => ActiveHolders \subseteq {served'[k] : k \in i..(j - 1)}
      BY <2>10 DEF Given
    <3>5. \A i \in 1..m : served'[i] \in ActiveHolders
      BY <2>7
    <3> HIDE DEF m
    <3> QED
      BY <1>1, <1>2, <1>3, <3>1, <3>2, <3>3, <3>4, <3>5 DEF TurnInv, Given
<1> QED
  BY <1>4, <1>5

LEMMA NoTurnsYet ==
    ASSUME served = <<>>,
           \A p, q \in 1..Len(replica_list) : replica_list[p] = replica_list[q] => p = q,
           Len(replica_list) \in Nat
    PROVE  TurnInv
BY DEF TurnInv

LEMMA InitTurns == Init => TurnInv
<1> SUFFICES ASSUME Init PROVE TurnInv
  OBVIOUS
<1>1. served = <<>> /\ replica_list = <<>> /\ Len(replica_list) = 0
  BY DEF Init
<1> QED
  BY <1>1, NoTurnsYet

LEMMA StepTurns == TypeOK /\ TurnInv /\ [Next]_vars => TurnInv'
<1> SUFFICES ASSUME TypeOK, TurnInv, [Next]_vars PROVE TurnInv'
  OBVIOUS
<1>a. /\ replica_list \in Seq(Devices) /\ Len(replica_list) \in Nat
      /\ \A p, q \in 1..Len(replica_list) : replica_list[p] = replica_list[q] => p = q
  BY LenProperties DEF TypeOK, TurnInv
<1>1. ASSUME NEW d \in Devices, NEW s \in {ONLINE, WAIT_SYNC, ACTIVE}, AddReplica(d, s)
      PROVE  TurnInv'
  <2> DEFINE n == Len(replica_list)
             more == Append(replica_list, d)
  <2>1. served' = <<>> /\ replica_list' = more /\ \A p \in 1..n : replica_list[p] # d
    BY <1>1 DEF AddReplica, Changed, Holders
  <2>2. Len(more) = n + 1 /\ more[n + 1] = d /\ \A p \in 1..n : more[p] = replica_list[p]
    BY <1>a, AppendProperties
  <2> HIDE DEF more
  <2>3. ASSUME NEW p \in 1..(n + 1), NEW q \in 1..(n + 1), more[p] = more[q] PROVE p = q
    <3>1. (p \in 1..n \/ p = n + 1) /\ (q \in 1..n \/ q = n + 1)
      BY <1>a
    <3> QED
      BY <1>a, <2>1, <2>2, <2>3, <3>1
  <2>4. Len(replica_list') = n + 1 /\ n + 1 \in Nat
    BY <1>a, <2>1, <2>2
  <2>5. /\ served' = <<>> /\ Len(replica_list') \in Nat
        /\ \A p, q \in 1..Len(replica_list') : replica_list'[p] = replica_list'[q] => p = q
    BY <2>1, <2>3, <2>4
  <2> QED
    BY <2>5 DEF TurnInv
<1>2. ASSUME NEW d \in Devices, NEW s \in {WAIT_SYNC, COPY_SRC, ACTIVE}, ChangeStatus(d, s)
      PROVE  TurnInv'
  <2>1. served' = <<>> /\ replica_list' = replica_list
    BY <1>2 DEF ChangeStatus, Changed
  <2> QED
    BY <1>a, <2>1 DEF TurnInv
<1>3. CASE ReadAddr
  BY <1>3, ReadTurns
<1>4. CASE WriteAddr \/ WriteAddrDies \/ UNCHANGED vars
  <2>1. UNCHANGED <<replica_list, replica_status, rd_req_robin, served>>
    BY <1>4 DEF WriteAddr, WriteAddrDies, vars
  <2> QED
    BY <2>1 DEF TurnInv, ActiveHolders, ActiveAt, Given
<1> QED
  BY <1>1, <1>2, <1>3, <1>4 DEF Next

\* While the replicas do not change, no ACTIVE one is given twice before every other was
\* given, for any list and cursor (get_read_replica under msg_get_vnode_addr_handle).
THEOREM TakingTurns == Spec => []ReadsTakeTurns
<1>1. TypeOK /\ TurnInv => ReadsTakeTurns
  <2> SUFFICES ASSUME TypeOK, TurnInv,
                      NEW i \in 1..Len(served), NEW j \in 1..Len(served),
                      i < j, j - i < Cardinality(ActiveHolders), served[i] = served[j]
               PROVE  FALSE
    BY DEF ReadsTakeTurns
  <2> DEFINE G == Given(i, j - 1)
             D == i..(j - 1)
             f == [k \in D |-> served[k]]
  <2>1. Len(served) \in Nat
    BY LenProperties DEF TypeOK
  <2>2. ActiveHolders \subseteq G
    BY DEF TurnInv
  <2>3. IsFiniteSet(D) /\ Cardinality(D) = j - i
    <3>1. i \in Int /\ j - 1 \in Int /\ ~ (i > j - 1) /\ (j - 1) - i + 1 = j - i
      BY <2>1
    <3> QED
      BY <3>1, FS_Interval
  <2>4. f \in Surjection(D, G)
    BY DEF Surjection, Given
  <2> HIDE DEF G, D, f
  <2>5. IsFiniteSet(G) /\ Cardinality(G) <= Cardinality(D)
    BY <2>3, <2>4, FS_Surjection
  <2>6. Cardinality(ActiveHolders) <= Cardinality(G)
    BY <2>2, <2>5, FS_Subset
  <2>7. Cardinality(G) \in Nat /\ Cardinality(D) \in Nat /\ Cardinality(ActiveHolders) \in Nat
    BY <2>2, <2>3, <2>5, FS_Subset, FS_CardinalityType
  <2> QED
    BY <2>1, <2>3, <2>5, <2>6, <2>7
<1> QED
  BY <1>1, InitTurns, StepTurns, TypeCorrect, PTL DEF Spec

-----------------------------------------------------------------------------
(* The array of devices.                                                     *)

TableInv == TableTypeOK /\ SlotsFilled

(* The slots stay well formed: the counted ones hold a device each, no      *)
(* object is held twice, and the count stays within the array: the swap of  *)
(* delete_node() and the append of add_node() preserve it.                  *)
THEOREM TableInvHolds == TableSpec => []TableInv
<1>1. TableInit => TableInv
  <2> SUFFICES ASSUME TableInit PROVE TableInv
    OBVIOUS
  <2> USE ContainerAssumption DEF TableInit
  <2>1. m_pnode_container \in [Slots -> Device \cup {NULL}]
    BY DEF Slots
  <2>2. TableTypeOK
    <3>1. m_node_count \in 0 .. KL_PROXY_CONTAINER_SIZE
      OBVIOUS
    <3>2. overrun \in BOOLEAN
      BY Zenon
    <3> QED BY <2>1, <3>1, <3>2 DEF TableTypeOK
  <2>3. Kept = {}
    BY DEF Kept
  <2> QED BY <2>2, <2>3 DEF TableInv, SlotsFilled
<1>2. TableInv /\ [TableNext]_tableVars => TableInv'
  <2> SUFFICES ASSUME TableInv, [TableNext]_tableVars PROVE TableInv'
    OBVIOUS
  <2> USE ContainerAssumption DEF TableInv, TableTypeOK, SlotsFilled, Slots, Kept
  <2>1. ASSUME NEW d \in Device, add_node(d) PROVE TableInv'
    <3>1. TableTypeOK'
      BY <2>1 DEF add_node
    <3>2. \A i \in 0 .. m_node_count : m_pnode_container'[i] =
            IF i = m_node_count THEN d ELSE m_pnode_container[i]
      BY <2>1 DEF add_node
    <3>3. d # NULL
      OBVIOUS
    <3>4. SlotsFilled'
      BY <2>1, <3>2, <3>3 DEF add_node
    <3> QED BY <3>1, <3>4
  <2>2. ASSUME NEW d \in Device, add_node_full(d) PROVE TableInv'
    BY <2>2 DEF add_node_full
  <2>3. ASSUME NEW a \in Addrs, delete_node(a) PROVE TableInv'
    <3>1. PICK i \in Kept : m_pnode_container' = SwapOut(i)
      BY <2>3 DEF delete_node
    <3>2. TableTypeOK'
      BY <2>3, <3>1 DEF delete_node, SwapOut
    <3>3. \A j \in 0 .. m_node_count - 2 : m_pnode_container'[j] =
            IF j = i THEN m_pnode_container[m_node_count - 1] ELSE m_pnode_container[j]
      BY <3>1 DEF SwapOut
    <3>4. m_node_count' = m_node_count - 1
      BY <2>3 DEF delete_node
    <3>5. SlotsFilled'
      <4> DEFINE from(j) == IF j = i THEN m_node_count - 1 ELSE j
      <4>1. ASSUME NEW j \in Kept'
            PROVE  j \in 0 .. m_node_count - 2 /\ from(j) \in Kept
        BY <3>4
      <4>2. ASSUME NEW j \in Kept' PROVE m_pnode_container'[j] = m_pnode_container[from(j)]
        BY <3>3, <4>1
      <4>3. ASSUME NEW j \in Kept', NEW k \in Kept', from(j) = from(k) PROVE j = k
        BY <4>1, <4>3
      <4> HIDE DEF from
      <4> QED
        BY <4>1, <4>2, <4>3
    <3> QED BY <3>2, <3>5
  <2>4. ASSUME NEW a \in Addrs, get_node_by_addr(a) PROVE TableInv'
    BY <2>4 DEF get_node_by_addr, IsFirst
  <2>5. CASE UNCHANGED tableVars
    BY <2>5 DEF tableVars
  <2> QED BY <2>1, <2>2, <2>3, <2>4, <2>5 DEF TableNext
<1> QED BY <1>1, <1>2, PTL DEF TableSpec

-----------------------------------------------------------------------------
\* The devices in the counted slots, the refinement mapping.
TableDevices == {m_pnode_container[i] : i \in Kept}

LEMMA AddAdds ==
  ASSUME TableInv, NEW d \in Device, add_node(d)
  PROVE  TableDevices' = TableDevices \cup {d}
<1> USE ContainerAssumption DEF TableInv, TableTypeOK, Kept, Slots
<1>1. \A i \in 0 .. m_node_count : m_pnode_container'[i] =
        IF i = m_node_count THEN d ELSE m_pnode_container[i]
  BY DEF add_node
<1>2. m_node_count' = m_node_count + 1
  BY DEF add_node
<1>3. TableDevices' = {m_pnode_container'[i] : i \in 0 .. m_node_count}
  BY <1>2 DEF TableDevices
<1>4. ASSUME NEW e \in TableDevices PROVE e \in TableDevices'
  <2>1. PICK i \in Kept : e = m_pnode_container[i]
    BY <1>4 DEF TableDevices
  <2>2. i \in 0 .. m_node_count /\ i # m_node_count
    OBVIOUS
  <2> QED BY <1>1, <1>3, <2>1, <2>2
<1>5. d \in TableDevices'
  BY <1>1, <1>3
<1>6. ASSUME NEW e \in TableDevices' PROVE e \in TableDevices \cup {d}
  <2>1. PICK i \in 0 .. m_node_count : e = m_pnode_container'[i]
    BY <1>3, <1>6
  <2> QED BY <1>1, <2>1 DEF TableDevices
<1> QED BY <1>4, <1>5, <1>6

LEMMA DeleteDeletes ==
  ASSUME TableInv, NEW a \in Addrs, delete_node(a)
  PROVE  \E d \in TableDevices : d.addr = a /\ TableDevices' = TableDevices \ {d}
<1> USE ContainerAssumption DEF TableInv, TableTypeOK, SlotsFilled, Kept, Slots
<1>1. PICK i \in Kept : IsFirst(i, a) /\ m_pnode_container' = SwapOut(i)
  BY DEF delete_node
<1> DEFINE d == m_pnode_container[i]
<1>2. \A j \in 0 .. m_node_count - 2 : m_pnode_container'[j] =
        IF j = i THEN m_pnode_container[m_node_count - 1] ELSE m_pnode_container[j]
  BY <1>1 DEF SwapOut
<1>3. TableDevices' = {m_pnode_container'[j] : j \in 0 .. m_node_count - 2}
  BY DEF TableDevices, delete_node
<1>4. \A j \in Kept : m_pnode_container[j] = d => j = i
  BY <1>1
<1>5. ASSUME NEW e \in TableDevices' PROVE e \in TableDevices \ {d}
  <2>1. PICK j \in 0 .. m_node_count - 2 : e = m_pnode_container'[j]
    BY <1>3, <1>5
  <2>2. CASE j = i
    BY <1>2, <1>4, <2>1, <2>2 DEF TableDevices
  <2>3. CASE j # i
    BY <1>2, <1>4, <2>1, <2>3 DEF TableDevices
  <2> QED BY <2>2, <2>3
<1>6. ASSUME NEW e \in TableDevices \ {d} PROVE e \in TableDevices'
  <2>1. PICK j \in Kept : e = m_pnode_container[j] /\ j # i
    BY <1>6 DEF TableDevices
  <2>2. CASE j = m_node_count - 1
    BY <1>1, <1>2, <1>3, <2>1, <2>2
  <2>3. CASE j # m_node_count - 1
    BY <1>2, <1>3, <2>1, <2>3
  <2> QED BY <2>2, <2>3
<1>7. d \in TableDevices /\ d.addr = a
  BY <1>1 DEF TableDevices, IsFirst
<1>8. TableDevices' = TableDevices \ {d}
  BY <1>5, <1>6
<1> QED BY <1>7, <1>8

(* Every step of the array is the step of the set that its caller asked     *)
(* for, so a device found, deleted or added by address is the one the       *)
(* header names, whatever slot it has (node_container.h:20-60).             *)
THEOREM TableImplementsSet == TableSpec => TableRefined
<1>1. TableInit => Table!SetInit
  BY DEF TableInit, Table!SetInit, Kept
<1>2. TableInv /\ [TableNext]_tableVars => [Table!SetNext]_(Table!setVars)
  <2> SUFFICES ASSUME TableInv, [TableNext]_tableVars PROVE [Table!SetNext]_(Table!setVars)
    OBVIOUS
  <2>1. ASSUME NEW d \in Device, add_node(d) PROVE Table!SetAdd(d)
    <3>1. TableDevices' = TableDevices \cup {d}
      BY <2>1, AddAdds
    <3> QED BY <2>1, <3>1 DEF Table!SetAdd, TableDevices, add_node
  <2>2. ASSUME NEW d \in Device, add_node_full(d) PROVE Table!SetLose
    BY <2>2 DEF Table!SetLose, add_node_full, Kept
  <2>3. ASSUME NEW a \in Addrs, delete_node(a) PROVE Table!SetDelete(a)
    <3>1. PICK d \in TableDevices : d.addr = a /\ TableDevices' = TableDevices \ {d}
      BY <2>3, DeleteDeletes
    <3> QED BY <2>3, <3>1 DEF Table!SetDelete, Table!At, TableDevices, delete_node
  <2>4. ASSUME NEW a \in Addrs, get_node_by_addr(a) PROVE Table!SetFind(a)
    <3>1. UNCHANGED TableDevices /\ ~ overrun /\ UNCHANGED overrun /\ asked_for' = <<"find", a>>
      BY <2>4 DEF get_node_by_addr, TableDevices, Kept
    <3>2. CASE Missing(a) /\ found' = NULL
      <4>1. Table!At(a) = {}
        BY <3>2 DEF Table!At, Missing
      <4> QED BY <3>1, <3>2, <4>1 DEF Table!SetFind, TableDevices
    <3>3. CASE \E i \in Kept : IsFirst(i, a) /\ found' = m_pnode_container[i]
      <4>1. found' \in Table!At(a)
        BY <3>3 DEF Table!At, IsFirst
      <4> QED BY <3>1, <4>1 DEF Table!SetFind, TableDevices
    <3> QED BY <2>4, <3>2, <3>3 DEF get_node_by_addr
  <2>5. CASE UNCHANGED tableVars
    BY <2>5 DEF tableVars, Table!setVars, Kept
  <2>6. Device = Table!Device
    BY DEF Device, Table!Device
  <2> QED BY <2>1, <2>2, <2>3, <2>4, <2>5, <2>6 DEF TableNext, Table!SetNext
<1> QED BY <1>1, <1>2, TableInvHolds, PTL DEF TableSpec, TableRefined

-----------------------------------------------------------------------------
(* The two ends of a stream.  A byte is the number the sender gave it, so a  *)
(* buffer is right when it is a run of consecutive numbers.                  *)

\* w holds the bytes after the first r, up to the s-th.
Numbered(w, r, s) == r <= s /\ w = [i \in 1 .. s - r |-> r + i]

LEMMA MinOfTwo ==
    ASSUME NEW a \in Int, NEW b \in Int
    PROVE  Min({a, b}) \in Int /\ Min({a, b}) <= a /\ Min({a, b}) <= b
<1>1. \E x \in {a, b} : \A y \in {a, b} : x <= y
  OBVIOUS
<1>2. Min({a, b}) \in {a, b} /\ \A y \in {a, b} : Min({a, b}) <= y
  BY <1>1 DEF Min
<1> QED
  BY <1>2

LEMMA BytesLength ==
    ASSUME NEW r \in Nat, NEW s \in Nat, NEW w, Numbered(w, r, s)
    PROVE  w \in Seq(Nat) /\ Len(w) = s - r
<1>1. s - r \in Nat
  BY DEF Numbered
<1>2. \A i \in 1 .. s - r : r + i \in Nat
  OBVIOUS
<1> QED
  BY <1>1, <1>2, IsASeq DEF Numbered

\* What is sent goes behind what is under way.
LEMMA BytesSent ==
    ASSUME NEW r \in Nat, NEW s \in Nat, NEW w, Numbered(w, r, s), NEW n \in Nat
    PROVE  Numbered(w \o [i \in 1 .. n |-> s + i], r, s + n)
<1> DEFINE v == [i \in 1 .. n |-> s + i]
<1>1. w \in Seq(Nat) /\ Len(w) = s - r /\ r <= s
  BY BytesLength DEF Numbered
<1>2. v \in Seq(Nat) /\ Len(v) = n
  <2>1. \A i \in 1 .. n : s + i \in Nat
    OBVIOUS
  <2> QED
    BY <2>1, IsASeq
<1>3. \A i \in 1 .. n : v[i] = s + i
  OBVIOUS
<1>4. \A i \in 1 .. s - r : w[i] = r + i
  BY DEF Numbered
<1> HIDE DEF v
<1>5. /\ w \o v \in Seq(Nat)
      /\ Len(w \o v) = (s + n) - r
      /\ \A i \in 1 .. (s + n) - r : (w \o v)[i] = r + i
  <2>1. /\ w \o v \in Seq(Nat)
        /\ Len(w \o v) = Len(w) + Len(v)
        /\ \A i \in 1 .. Len(w) + Len(v) :
             (w \o v)[i] = IF i <= Len(w) THEN w[i] ELSE v[i - Len(w)]
    BY <1>1, <1>2, ConcatProperties
  <2>2. ASSUME NEW i \in 1 .. (s + n) - r PROVE (w \o v)[i] = r + i
    <3>1. CASE i <= Len(w)
      BY <1>1, <1>2, <1>4, <2>1, <3>1
    <3>2. CASE ~ i <= Len(w)
      <4>1. i - Len(w) \in 1 .. n /\ i \in 1 .. Len(w) + Len(v)
        BY <1>1, <1>2, <3>2
      <4>2. (w \o v)[i] = v[i - Len(w)]
        BY <2>1, <3>2, <4>1
      <4> QED
        BY <1>1, <1>3, <4>1, <4>2
    <3> QED
      BY <3>1, <3>2
  <2> QED
    BY <1>1, <1>2, <2>1, <2>2
<1>6. w \o v = [i \in 1 .. (s + n) - r |-> r + i]
  BY <1>5, LenProperties
<1> QED
  BY <1>1, <1>6 DEF Numbered, v

\* What is taken from the front of the bytes under way goes behind what came before.
LEMMA BytesTaken ==
    ASSUME NEW h \in Nat, NEW r \in Nat, NEW s \in Nat, NEW g, NEW w,
           Numbered(g, h, r), Numbered(w, r, s), NEW n \in 1 .. Len(w)
    PROVE  /\ Numbered(g \o SubSeq(w, 1, n), h, r + n)
           /\ Numbered(SubSeq(w, n + 1, Len(w)), r + n, s)
<1>1. w \in Seq(Nat) /\ Len(w) = s - r /\ r <= s /\ n \in Nat /\ r + n <= s
  <2>1. w \in Seq(Nat) /\ Len(w) = s - r /\ r <= s
    BY BytesLength DEF Numbered
  <2> QED
    BY <2>1
<1>2. \A i \in 1 .. s - r : w[i] = r + i
  BY DEF Numbered
<1>3. SubSeq(w, 1, n) = [i \in 1 .. n |-> r + i]
  <2>1. SubSeq(w, 1, n) = [i \in 1 .. n |-> w[i]]
    BY <1>1
  <2> QED
    BY <1>1, <1>2, <2>1
<1>4. SubSeq(w, n + 1, Len(w)) = [i \in 1 .. s - (r + n) |-> (r + n) + i]
  <2>1. SubSeq(w, n + 1, Len(w)) = [i \in 1 .. s - (r + n) |-> w[i + n]]
    BY <1>1
  <2>2. ASSUME NEW i \in 1 .. s - (r + n) PROVE w[i + n] = (r + n) + i
    BY <1>1, <1>2
  <2> QED
    BY <2>1, <2>2
<1>5. Numbered(g \o SubSeq(w, 1, n), h, r + n)
  BY <1>1, <1>3, BytesSent
<1> QED
  BY <1>1, <1>4, <1>5 DEF Numbered

StreamCalls == [op : {"send", "recv"}, len : Nat]

StreamTypes ==
  /\ script \in [Ends -> Seq(StreamCalls) \ {<<>>}]
  /\ wire \in [Ends -> Seq(Nat)] /\ got \in [Ends -> Seq(Nat)]
  /\ sent \in [Ends -> Nat] /\ call \in [Ends -> Nat] /\ left \in [Ends -> Nat]
  /\ moved \in [Ends -> [send : Nat, recv : Nat]]
  /\ state \in [Ends -> {"closed", "trying", "polling", "done", "failed"}]
  /\ errno \in [Ends -> {"0", "EAGAIN", "EINTR", "ENOTCONN", "EPIPE", "ECONNREFUSED"}]
  /\ closes \in [Ends -> Nat]
  /\ \A e \in Ends :
       /\ call[e] \in 1 .. Len(script[e]) /\ left[e] <= Length(e)
       /\ Len(wire[e]) <= Room /\ closes[e] = IF Gone(e) THEN 1 ELSE 0
  /\ state["client"] = "closed" => state["server"] = "closed"

\* How far the current call is.
Part(e, op) == IF Op(e) = op THEN Length(e) - left[e] ELSE 0

\* The bytes that end e has received with all its calls.
Recd(e) == moved[e].recv + Len(got[e])

\* The buffer holds what the current call received, and nothing else; the bytes under
\* way are those after it, as long as somebody may want them; and what was sent is
\* what the calls before and the current one handed over.
Buffered(e) == Numbered(got[e], moved[e].recv, Recd(e)) /\ Len(got[e]) = Part(e, "recv")
UnderWay(e) == ~ Gone(e) => Numbered(wire[Other(e)], Recd(e), sent[Other(e)])
CountsAgree(e) == sent[e] = moved[e].send + Part(e, "send")

InOrder(e) == Buffered(e) /\ UnderWay(e) /\ CountsAgree(e)

StreamInv == StreamTypes /\ \A e \in Ends : InOrder(e)

LEMMA OtherEnd ==
    ASSUME NEW e \in Ends
    PROVE  Other(e) \in Ends /\ Other(e) # e /\ Other(Other(e)) = e
BY DEF Ends, Other

LEMMA CurrentCall ==
    ASSUME StreamTypes, NEW e \in Ends
    PROVE  /\ script[e] \in Seq(StreamCalls) /\ Len(script[e]) \in Nat /\ call[e] \in DOMAIN script[e]
           /\ Op(e) \in {"send", "recv"} /\ Length(e) \in Nat /\ Length(e) = script[e][call[e]].len
           /\ left[e] \in Nat /\ Length(e) - left[e] \in Nat
           /\ Part(e, "send") \in Nat /\ Part(e, "recv") \in Nat /\ Recd(e) \in Nat
<1>1. script[e] \in Seq(StreamCalls) /\ Len(script[e]) \in Nat /\ call[e] \in DOMAIN script[e]
  BY LenProperties DEF StreamTypes
<1>2. script[e][call[e]] \in StreamCalls
  BY <1>1, ElementOfSeq, LenProperties
<1>3. Op(e) \in {"send", "recv"} /\ Length(e) \in Nat /\ Length(e) = script[e][call[e]].len
  BY <1>1, <1>2 DEF StreamCalls, Op, Length
<1>4. left[e] \in Nat /\ left[e] <= Length(e)
  BY DEF StreamTypes
<1>5. Recd(e) \in Nat
  BY LenProperties DEF StreamTypes, Recd
<1> QED
  BY <1>1, <1>3, <1>4, <1>5 DEF Part

LEMMA StreamStart == StreamInit => StreamInv
<1> SUFFICES ASSUME StreamInit PROVE StreamInv
  OBVIOUS
<1>1. script \in [Ends -> Seq(StreamCalls) \ {<<>>}]
  BY TimedAssumption DEF StreamInit, StreamCalls
<1>2. ASSUME NEW e \in Ends
      PROVE  /\ script[e] \in Seq(StreamCalls) /\ 1 \in 1 .. Len(script[e]) /\ 1 \in DOMAIN script[e]
             /\ script[e][1] \in StreamCalls
  <2>1. script[e] \in Seq(StreamCalls) /\ script[e] # <<>>
    BY <1>1
  <2>2. 1 \in 1 .. Len(script[e]) /\ DOMAIN script[e] = 1 .. Len(script[e])
    BY <2>1, EmptySeq, LenProperties
  <2> QED
    BY <2>1, <2>2, ElementOfSeq
<1>3. ASSUME NEW e \in Ends PROVE call[e] = 1 /\ left[e] = Length(e) /\ Length(e) \in Nat
  BY <1>2 DEF StreamInit, Length, StreamCalls
<1>4. StreamTypes
  <2>1. left \in [Ends -> Nat]
    BY <1>3 DEF StreamInit
  <2>2. /\ wire \in [Ends -> Seq(Nat)] /\ got \in [Ends -> Seq(Nat)]
        /\ \A e \in Ends : Len(wire[e]) <= Room
    <3>1. <<>> \in Seq(Nat) /\ Len(<<>>) = 0 /\ 0 <= Room
      BY TimedAssumption
    <3> QED
      BY <3>1 DEF StreamInit
  <2>3. moved \in [Ends -> [send : Nat, recv : Nat]]
    BY DEF StreamInit
  <2>4. /\ sent \in [Ends -> Nat] /\ call \in [Ends -> Nat] /\ closes \in [Ends -> Nat]
        /\ state \in [Ends -> {"closed", "trying", "polling", "done", "failed"}]
        /\ errno \in [Ends -> {"0", "EAGAIN", "EINTR", "ENOTCONN", "EPIPE", "ECONNREFUSED"}]
    BY DEF StreamInit
  <2>5. ASSUME NEW e \in Ends
        PROVE  call[e] \in 1 .. Len(script[e]) /\ left[e] <= Length(e) /\ closes[e] = IF Gone(e) THEN 1 ELSE 0
    BY <1>2, <1>3 DEF StreamInit, Gone
  <2>6. state["client"] = "closed" => state["server"] = "closed"
    BY DEF StreamInit, Ends
  <2> QED
    BY <1>1, <2>1, <2>2, <2>3, <2>4, <2>5, <2>6 DEF StreamTypes
<1>5. ASSUME NEW e \in Ends PROVE InOrder(e)
  <2>1. /\ Part(e, "send") = 0 /\ Part(e, "recv") = 0 /\ got[e] = <<>> /\ Recd(e) = 0
        /\ moved[e].send = 0 /\ moved[e].recv = 0 /\ sent[e] = 0
        /\ wire[Other(e)] = <<>> /\ sent[Other(e)] = 0
    BY <1>3, OtherEnd DEF StreamInit, Part, Recd
  <2>2. Numbered(<<>>, 0, 0)
    BY DEF Numbered
  <2> QED
    BY <2>1, <2>2 DEF InOrder, Buffered, UnderWay, CountsAgree
<1> QED
  BY <1>4, <1>5 DEF StreamInv

-----------------------------------------------------------------------------
\* Steps that move no byte and end no call.
LEMMA NothingMoves ==
    ASSUME StreamInv, StreamTypes',
           UNCHANGED <<script, wire, sent, call, left, got, moved>>,
           \A e \in Ends : Gone(e) => Gone(e)'
    PROVE  StreamInv'
<1>1. ASSUME NEW e \in Ends PROVE InOrder(e)'
  <2>1. InOrder(e) /\ (Gone(e) => Gone(e)')
    BY DEF StreamInv
  <2>2. Recd(e)' = Recd(e) /\ Part(e, "recv")' = Part(e, "recv") /\ Part(e, "send")' = Part(e, "send")
    BY DEF Recd, Part, Op, Length
  <2> QED
    BY <2>1, <2>2 DEF InOrder, Buffered, UnderWay, CountsAgree
<1> QED
  BY <1>1 DEF StreamInv

LEMMA SendKeeps ==
    ASSUME StreamInv, NEW e \in Ends, SendSome(e)
    PROVE  StreamInv'
<1> DEFINE o == Other(e)
<1>1. o \in Ends /\ o # e /\ Other(o) = e /\ \A f \in Ends : f = e \/ f = o
  BY OtherEnd DEF Ends, Other
<1>2. StreamTypes /\ InOrder(e) /\ InOrder(o)
  BY <1>1 DEF StreamInv
<1>3. /\ Op(e) \in {"send", "recv"} /\ Length(e) \in Nat /\ left[e] \in Nat
      /\ Length(e) - left[e] \in Nat /\ Recd(o) \in Nat
  BY <1>1, <1>2, CurrentCall
<1>4. PICK n \in 1 .. Min({left[e], Room - Len(wire[e])}) :
        /\ wire' = [wire EXCEPT ![e] = IF Gone(Other(e)) THEN @ ELSE @ \o [i \in 1 .. n |-> sent[e] + i]]
        /\ sent' = [sent EXCEPT ![e] = @ + n]
        /\ left' = [left EXCEPT ![e] = @ - n]
  BY DEF SendSome
<1>5. n \in Nat /\ n <= left[e] /\ n <= Room - Len(wire[e])
  <2>1. Room \in Int
    BY TimedAssumption
  <2>2. Len(wire[e]) \in Nat
    BY <1>2, LenProperties DEF StreamTypes
  <2>3. left[e] \in Int /\ Room - Len(wire[e]) \in Int
    BY <1>3, <2>1, <2>2
  <2> DEFINE m == Min({left[e], Room - Len(wire[e])})
  <2>4. m \in Int /\ m <= left[e] /\ m <= Room - Len(wire[e])
    BY <2>3, MinOfTwo
  <2>5. n \in 1 .. m
    OBVIOUS
  <2> HIDE DEF m
  <2> QED
    BY <2>3, <2>4, <2>5
<1>6. UNCHANGED <<script, call, got, moved, state, errno, closes>> /\ Op(e) = "send"
  BY DEF SendSome, Trying
<1>7. sent[e] \in Nat /\ wire[e] \in Seq(Nat)
  BY <1>2 DEF StreamTypes
<1>8. wire'[e] \in Seq(Nat) /\ Len(wire'[e]) <= Room
  <2> DEFINE v == [i \in 1 .. n |-> sent[e] + i]
  <2>1. \A i \in 1 .. n : sent[e] + i \in Nat
    BY <1>5, <1>7
  <2>2. v \in Seq(Nat) /\ Len(v) = n
    BY <1>5, <2>1, IsASeq
  <2>3. wire'[e] = IF Gone(o) THEN wire[e] ELSE wire[e] \o v
    BY <1>2, <1>4 DEF StreamTypes
  <2> HIDE DEF v
  <2>4. wire[e] \o v \in Seq(Nat) /\ Len(wire[e] \o v) = Len(wire[e]) + n
    BY <1>7, <2>2, ConcatProperties
  <2>5. Len(wire[e]) \in Nat /\ Len(wire[e]) <= Room /\ Room \in Nat
    BY <1>2, <1>7, LenProperties, TimedAssumption DEF StreamTypes
  <2> QED
    BY <1>5, <1>7, <2>3, <2>4, <2>5
<1>9. StreamTypes'
  <2>1. wire' \in [Ends -> Seq(Nat)] /\ \A f \in Ends : Len(wire'[f]) <= Room
    BY <1>2, <1>4, <1>8 DEF StreamTypes
  <2>2. sent' \in [Ends -> Nat] /\ left' \in [Ends -> Nat] /\ \A f \in Ends : left'[f] <= left[f]
    <3>1. sent[e] + n \in Nat /\ left[e] - n \in Nat /\ left[e] - n <= left[e]
      BY <1>3, <1>5, <1>7
    <3>2. /\ sent \in [Ends -> Nat] /\ left \in [Ends -> Nat]
          /\ sent' = [sent EXCEPT ![e] = sent[e] + n] /\ left' = [left EXCEPT ![e] = left[e] - n]
      BY <1>2, <1>4 DEF StreamTypes
    <3> QED
      BY <3>1, <3>2
  <2>3. \A f \in Ends : Length(f)' = Length(f) /\ Length(f) \in Nat
    BY <1>2, <1>6, CurrentCall DEF Length
  <2>4. \A f \in Ends : left'[f] <= Length(f)'
    <3>1. \A f \in Ends : left[f] \in Nat /\ left[f] <= Length(f)
      BY <1>2 DEF StreamTypes
    <3>2. ASSUME NEW f \in Ends PROVE left'[f] <= Length(f)'
      <4>1. left'[f] \in Nat /\ left'[f] <= left[f] /\ left[f] \in Nat /\ left[f] <= Length(f)
        BY <2>2, <3>1
      <4>2. Length(f)' = Length(f) /\ Length(f) \in Nat
        BY <2>3
      <4> QED
        BY <4>1, <4>2
    <3> QED
      BY <3>2
  <2>5. \A f \in Ends : Gone(f)' = Gone(f)
    BY <1>6 DEF Gone
  <2> QED
    BY <1>2, <1>6, <2>1, <2>2, <2>4, <2>5 DEF StreamTypes
<1>10. InOrder(e)'
  <2>1. Recd(e)' = Recd(e) /\ Part(e, "recv")' = Part(e, "recv") /\ Part(e, "recv") = 0
    BY <1>6 DEF Recd, Part, Op
  <2>2. Part(e, "send") = Length(e) - left[e] /\ Part(e, "send")' = Length(e) - left[e] + n
    <3>1. left'[e] = left[e] - n
      BY <1>2, <1>4 DEF StreamTypes
    <3> QED
      BY <1>3, <1>5, <1>6, <3>1 DEF Part, Op, Length
  <2>3. sent'[e] = sent[e] + n /\ wire'[o] = wire[o] /\ sent'[o] = sent[o]
    BY <1>1, <1>2, <1>4 DEF StreamTypes
  <2>4. moved[e].send \in Nat
    BY <1>2 DEF StreamTypes
  <2>5. CountsAgree(e)'
    BY <1>2, <1>3, <1>5, <1>6, <2>2, <2>3, <2>4 DEF InOrder, CountsAgree
  <2>6. Buffered(e)'
    BY <1>2, <1>6, <2>1 DEF InOrder, Buffered
  <2>7. UnderWay(e)'
    BY <1>2, <1>6, <2>1, <2>3 DEF InOrder, UnderWay, Gone
  <2> QED
    BY <2>5, <2>6, <2>7 DEF InOrder
<1>11. InOrder(o)'
  <2>1. /\ Recd(o)' = Recd(o) /\ Part(o, "recv")' = Part(o, "recv") /\ Part(o, "send")' = Part(o, "send")
        /\ sent'[o] = sent[o]
    <3>1. left'[o] = left[o] /\ sent'[o] = sent[o]
      BY <1>1, <1>2, <1>4 DEF StreamTypes
    <3> QED
      BY <1>6, <3>1 DEF Recd, Part, Op, Length
  <2>2. UnderWay(o)'
    <3> SUFFICES ASSUME ~ Gone(o) PROVE Numbered(wire'[e], Recd(o), sent'[e])
      BY <1>1, <1>6, <2>1 DEF UnderWay, Gone
    <3>1. Numbered(wire[e], Recd(o), sent[e])
      BY <1>1, <1>2 DEF InOrder, UnderWay
    <3>2. wire'[e] = wire[e] \o [i \in 1 .. n |-> sent[e] + i] /\ sent'[e] = sent[e] + n
      BY <1>2, <1>4 DEF StreamTypes
    <3> QED
      BY <1>3, <1>5, <1>7, <3>1, <3>2, BytesSent
  <2> QED
    BY <1>2, <1>6, <2>1, <2>2 DEF InOrder, Buffered, CountsAgree
<1> QED
  BY <1>1, <1>9, <1>10, <1>11 DEF StreamInv

LEMMA RecvKeeps ==
    ASSUME StreamInv, NEW e \in Ends, RecvSome(e)
    PROVE  StreamInv'
<1> DEFINE o == Other(e)
           w == wire[o]
<1>1. o \in Ends /\ o # e /\ Other(o) = e /\ \A f \in Ends : f = e \/ f = o
  BY OtherEnd DEF Ends, Other
<1>2. StreamTypes /\ InOrder(e) /\ InOrder(o)
  BY <1>1 DEF StreamInv
<1>3. /\ Op(e) \in {"send", "recv"} /\ Length(e) \in Nat /\ left[e] \in Nat
      /\ Length(e) - left[e] \in Nat /\ Recd(e) \in Nat
  BY <1>2, CurrentCall
<1>4. PICK n \in 1 .. Min({left[e], Len(w)}) :
        /\ got' = [got EXCEPT ![e] = @ \o SubSeq(w, 1, n)]
        /\ wire' = [wire EXCEPT ![o] = SubSeq(@, n + 1, Len(@))]
        /\ left' = [left EXCEPT ![e] = @ - n]
  BY DEF RecvSome
<1>5. n \in Nat /\ n <= left[e] /\ n \in 1 .. Len(w)
  <2>1. left[e] \in Int /\ Len(w) \in Int
    BY <1>1, <1>2, <1>3, LenProperties DEF StreamTypes
  <2> DEFINE m == Min({left[e], Len(w)})
  <2>2. m \in Int /\ m <= left[e] /\ m <= Len(w)
    BY <2>1, MinOfTwo
  <2>3. n \in 1 .. m
    OBVIOUS
  <2> HIDE DEF m, w
  <2> QED
    BY <2>1, <2>2, <2>3
<1>6. UNCHANGED <<script, sent, call, moved, state, errno, closes>> /\ Op(e) = "recv" /\ ~ Gone(e)
  BY DEF RecvSome, Trying, Gone
<1>7. /\ w \in Seq(Nat) /\ Len(w) \in Nat /\ got[e] \in Seq(Nat) /\ moved[e].recv \in Nat
      /\ sent[o] \in Nat /\ Len(got[e]) \in Nat
  BY <1>1, <1>2, LenProperties DEF StreamTypes
<1>8. /\ got'[e] = got[e] \o SubSeq(w, 1, n) /\ got'[o] = got[o]
      /\ wire'[o] = SubSeq(w, n + 1, Len(w)) /\ wire'[e] = wire[e]
      /\ left'[e] = left[e] - n /\ left'[o] = left[o]
  BY <1>1, <1>2, <1>4 DEF StreamTypes
<1> HIDE DEF w
<1>9. /\ SubSeq(w, 1, n) \in Seq(Nat) /\ Len(SubSeq(w, 1, n)) = n
      /\ got'[e] \in Seq(Nat) /\ Len(got'[e]) = Len(got[e]) + n
      /\ wire'[o] \in Seq(Nat) /\ Len(wire'[o]) = Len(w) - n
  <2>1. SubSeq(w, 1, n) \in Seq(Nat) /\ Len(SubSeq(w, 1, n)) = n
    <3>1. \A i \in 1 .. n : w[i] \in Nat
      BY <1>5, <1>7, ElementOfSeq
    <3>2. SubSeq(w, 1, n) = [i \in 1 .. n |-> w[i]]
      BY <1>5
    <3> QED
      BY <1>5, <3>1, <3>2, IsASeq
  <2>2. wire'[o] \in Seq(Nat) /\ Len(wire'[o]) = Len(w) - n
    <3> DEFINE k == Len(w) - n
    <3>1. k \in Nat /\ \A i \in 1 .. k : i + n \in 1 .. Len(w)
      BY <1>5, <1>7
    <3>2. \A i \in 1 .. k : w[i + n] \in Nat
      BY <1>7, <3>1, ElementOfSeq
    <3>3. wire'[o] = [i \in 1 .. k |-> w[i + n]]
      <4>1. SubSeq(w, n + 1, Len(w)) = [i \in 1 .. (1 + Len(w)) - (n + 1) |-> w[(i + (n + 1)) - 1]]
        OBVIOUS
      <4>2. (1 + Len(w)) - (n + 1) = k
        BY <1>5, <1>7
      <4>3. \A i \in 1 .. k : (i + (n + 1)) - 1 = i + n
        BY <1>5
      <4> HIDE DEF k
      <4> QED
        BY <1>8, <4>1, <4>2, <4>3
    <3> QED
      BY <3>1, <3>2, <3>3, IsASeq
  <2> QED
    BY <1>7, <1>8, <2>1, <2>2, ConcatProperties
<1>10. StreamTypes'
  <2>1. wire' \in [Ends -> Seq(Nat)] /\ \A f \in Ends : Len(wire'[f]) <= Room
    <3>1. Len(w) <= Room /\ Room \in Nat
      BY <1>1, <1>2, TimedAssumption DEF StreamTypes, w
    <3>2. Len(wire'[o]) <= Room
      BY <1>5, <1>7, <1>9, <3>1
    <3> QED
      BY <1>1, <1>2, <1>4, <1>8, <1>9, <3>2 DEF StreamTypes
  <2>2. got' \in [Ends -> Seq(Nat)]
    BY <1>2, <1>4, <1>9 DEF StreamTypes
  <2>3. left' \in [Ends -> Nat] /\ \A f \in Ends : left'[f] <= left[f]
    <3>1. left[e] - n \in Nat /\ left[e] - n <= left[e]
      BY <1>3, <1>5
    <3>2. left \in [Ends -> Nat] /\ left' = [left EXCEPT ![e] = left[e] - n]
      BY <1>2, <1>4 DEF StreamTypes
    <3> QED
      BY <3>1, <3>2
  <2>4. \A f \in Ends : Length(f)' = Length(f) /\ Length(f) \in Nat
    BY <1>2, <1>6, CurrentCall DEF Length
  <2>5. \A f \in Ends : left'[f] <= Length(f)'
    <3>1. \A f \in Ends : left[f] \in Nat /\ left[f] <= Length(f)
      BY <1>2 DEF StreamTypes
    <3> QED
      BY <2>3, <2>4, <3>1
  <2>6. \A f \in Ends : Gone(f)' = Gone(f)
    BY <1>6 DEF Gone
  <2> QED
    BY <1>2, <1>6, <2>1, <2>2, <2>3, <2>5, <2>6 DEF StreamTypes
<1>11. InOrder(e)'
  <2>1. Numbered(got[e], moved[e].recv, Recd(e)) /\ Numbered(w, Recd(e), sent[o])
    BY <1>2, <1>6 DEF InOrder, Buffered, UnderWay, w
  <2>2. Numbered(got'[e], moved[e].recv, Recd(e) + n) /\ Numbered(wire'[o], Recd(e) + n, sent[o])
    <3> DEFINE r == Recd(e)
               h == moved[e].recv
               g == got[e]
    <3>1. h \in Nat /\ r \in Nat /\ sent[o] \in Nat /\ Numbered(g, h, r) /\ Numbered(w, r, sent[o])
      BY <1>3, <1>7, <2>1
    <3>2. /\ Numbered(g \o SubSeq(w, 1, n), h, r + n)
          /\ Numbered(SubSeq(w, n + 1, Len(w)), r + n, sent[o])
      <4> HIDE DEF h, r, g, o
      <4> QED
        BY <1>5, <3>1, BytesTaken
    <3> QED
      BY <1>8, <3>2
  <2>3. Recd(e)' = Recd(e) + n
    <3>1. Len(got'[e]) = Len(got[e]) + n /\ moved'[e] = moved[e]
      BY <1>6, <1>9
    <3>2. moved[e].recv \in Nat /\ Len(got[e]) \in Nat /\ n \in Nat
      BY <1>5, <1>7
    <3> QED
      BY <3>1, <3>2 DEF Recd
  <2>4. Part(e, "recv")' = Part(e, "recv") + n /\ Part(e, "send")' = Part(e, "send")
    <3>1. Part(e, "recv") = Length(e) - left[e] /\ Part(e, "send") = 0
      BY <1>6 DEF Part
    <3>2. Part(e, "recv")' = Length(e) - (left[e] - n) /\ Part(e, "send")' = 0
      BY <1>6, <1>8 DEF Part, Op, Length
    <3> QED
      BY <1>3, <1>5, <3>1, <3>2
  <2>5. Buffered(e)'
    <3>1. Len(got'[e]) = Part(e, "recv") + n
      BY <1>2, <1>9 DEF InOrder, Buffered
    <3> QED
      BY <1>6, <2>2, <2>3, <2>4, <3>1 DEF Buffered
  <2>6. UnderWay(e)'
    BY <1>6, <2>2, <2>3 DEF UnderWay
  <2>7. CountsAgree(e)'
    BY <1>2, <1>6, <2>4 DEF InOrder, CountsAgree
  <2> QED
    BY <2>5, <2>6, <2>7 DEF InOrder
<1>12. InOrder(o)'
  <2>1. Recd(o)' = Recd(o) /\ Part(o, "recv")' = Part(o, "recv") /\ Part(o, "send")' = Part(o, "send")
    BY <1>6, <1>8 DEF Recd, Part, Op, Length
  <2> QED
    BY <1>1, <1>2, <1>6, <1>8, <2>1 DEF InOrder, Buffered, UnderWay, CountsAgree, Gone
<1> QED
  BY <1>1, <1>10, <1>11, <1>12 DEF StreamInv

\* The call that returns has moved all its bytes, which are now those of an earlier call.
LEMMA ReturnKeeps ==
    ASSUME StreamInv, NEW e \in Ends, Return(e)
    PROVE  StreamInv'
<1> DEFINE o == Other(e)
<1>1. o \in Ends /\ o # e /\ Other(o) = e /\ \A f \in Ends : f = e \/ f = o
  BY OtherEnd DEF Ends, Other
<1>2. StreamTypes /\ InOrder(e) /\ InOrder(o)
  BY <1>1 DEF StreamInv
<1>3. /\ Op(e) \in {"send", "recv"} /\ Length(e) \in Nat /\ Length(e) = script[e][call[e]].len
      /\ script[e] \in Seq(StreamCalls) /\ Len(script[e]) \in Nat
  BY <1>2, CurrentCall
<1>4. /\ left[e] = 0 /\ state[e] = "trying" /\ call[e] \in Nat /\ call[e] < Len(script[e])
      /\ call' = [call EXCEPT ![e] = @ + 1]
      /\ left' = [left EXCEPT ![e] = script[e][call[e] + 1].len]
      /\ got' = [got EXCEPT ![e] = <<>>]
      /\ moved' = [moved EXCEPT ![e][Op(e)] = @ + Length(e)]
      /\ errno' = [errno EXCEPT ![e] = "0"]
      /\ UNCHANGED <<script, wire, sent, state, closes>>
  BY <1>2 DEF Return, StreamTypes
<1> DEFINE k == call[e] + 1
<1>5. /\ k \in 1 .. Len(script[e]) /\ k \in DOMAIN script[e]
      /\ script[e][k].len \in Nat /\ script[e][k].op \in {"send", "recv"}
  <2>1. k \in 1 .. Len(script[e]) /\ k \in DOMAIN script[e]
    BY <1>2, <1>3, <1>4, LenProperties DEF StreamTypes
  <2>2. script[e][k] \in StreamCalls
    BY <1>3, <2>1, ElementOfSeq
  <2> QED
    BY <2>1, <2>2 DEF StreamCalls
<1>6. /\ call'[e] = k /\ left'[e] = script[e][k].len /\ got'[e] = <<>>
      /\ call'[o] = call[o] /\ left'[o] = left[o] /\ got'[o] = got[o]
  BY <1>1, <1>2, <1>4 DEF StreamTypes
<1>7. Length(e)' = script[e][k].len
  BY <1>4, <1>5, <1>6 DEF Length
<1>8. /\ moved[e].send \in Nat /\ moved[e].recv \in Nat
      /\ moved'[o] = moved[o]
      /\ moved'[e].send = moved[e].send + IF Op(e) = "send" THEN Length(e) ELSE 0
      /\ moved'[e].recv = moved[e].recv + IF Op(e) = "recv" THEN Length(e) ELSE 0
      /\ moved' \in [Ends -> [send : Nat, recv : Nat]]
  <2>1. moved \in [Ends -> [send : Nat, recv : Nat]]
    BY <1>2 DEF StreamTypes
  <2>2. moved[e] \in [send : Nat, recv : Nat]
    BY <2>1
  <2> DEFINE m == [moved[e] EXCEPT ![Op(e)] = @ + Length(e)]
  <2>3. /\ m \in [send : Nat, recv : Nat]
        /\ m.send = moved[e].send + IF Op(e) = "send" THEN Length(e) ELSE 0
        /\ m.recv = moved[e].recv + IF Op(e) = "recv" THEN Length(e) ELSE 0
    <3>1. CASE Op(e) = "send"
      BY <1>3, <2>2, <3>1
    <3>2. CASE Op(e) = "recv"
      BY <1>3, <2>2, <3>2
    <3> QED
      BY <1>3, <3>1, <3>2
  <2>4. moved' = [moved EXCEPT ![e] = m]
    BY <1>4
  <2> HIDE DEF m
  <2> QED
    BY <1>1, <2>1, <2>2, <2>3, <2>4
<1>9. StreamTypes'
  <2>1. call' \in [Ends -> Nat] /\ left' \in [Ends -> Nat] /\ got' \in [Ends -> Seq(Nat)]
    <3>1. k \in Nat /\ <<>> \in Seq(Nat)
      BY <1>4
    <3> HIDE DEF k
    <3> QED
      BY <1>2, <1>4, <1>5, <3>1 DEF StreamTypes, k
  <2>2. errno' \in [Ends -> {"0", "EAGAIN", "EINTR", "ENOTCONN", "EPIPE", "ECONNREFUSED"}]
    BY <1>2, <1>4 DEF StreamTypes
  <2>3. call'[e] \in 1 .. Len(script'[e]) /\ left'[e] <= Length(e)'
    BY <1>4, <1>5, <1>6, <1>7
  <2>4. call'[o] \in 1 .. Len(script'[o]) /\ left'[o] <= Length(o)'
    BY <1>1, <1>2, <1>4, <1>6 DEF StreamTypes, Length
  <2>5. \A f \in Ends : Gone(f)' = Gone(f)
    BY <1>4 DEF Gone
  <2> QED
    BY <1>1, <1>2, <1>4, <1>8, <2>1, <2>2, <2>3, <2>4, <2>5 DEF StreamTypes
<1>10. InOrder(e)'
  <2>1. Part(e, "recv")' = 0 /\ Part(e, "send")' = 0
    BY <1>5, <1>6, <1>7 DEF Part
  <2>2. Len(got[e]) = (IF Op(e) = "recv" THEN Length(e) ELSE 0)
    BY <1>2, <1>3, <1>4 DEF InOrder, Buffered, Part
  <2>3. Recd(e)' = Recd(e) /\ Recd(e)' = moved'[e].recv
    <3>1. Recd(e)' = moved'[e].recv + 0
      BY <1>6 DEF Recd
    <3> QED
      BY <1>3, <1>8, <2>2, <3>1 DEF Recd
  <2>4. Buffered(e)'
    <3>1. moved'[e].recv \in Nat
      BY <1>8
    <3>2. Numbered(<<>>, moved'[e].recv, moved'[e].recv)
      BY <3>1 DEF Numbered
    <3> QED
      BY <1>6, <2>1, <2>3, <3>2 DEF Buffered
  <2>5. UnderWay(e)'
    BY <1>2, <1>4, <2>3 DEF InOrder, UnderWay, Gone
  <2>6. CountsAgree(e)'
    <3>1. sent[e] = moved[e].send + (IF Op(e) = "send" THEN Length(e) ELSE 0)
      BY <1>2, <1>3, <1>4 DEF InOrder, CountsAgree, Part
    <3> QED
      BY <1>3, <1>4, <1>8, <2>1, <3>1 DEF CountsAgree
  <2> QED
    BY <2>4, <2>5, <2>6 DEF InOrder
<1>11. InOrder(o)'
  <2>1. Recd(o)' = Recd(o) /\ Part(o, "recv")' = Part(o, "recv") /\ Part(o, "send")' = Part(o, "send")
    <3>1. Op(o)' = Op(o) /\ Length(o)' = Length(o)
      BY <1>4, <1>6 DEF Op, Length
    <3>2. left'[o] = left[o] /\ got'[o] = got[o] /\ moved'[o] = moved[o]
      BY <1>6, <1>8
    <3> QED
      BY <3>1, <3>2 DEF Recd, Part
  <2> QED
    BY <1>1, <1>2, <1>4, <1>6, <1>8, <2>1 DEF InOrder, Buffered, UnderWay, CountsAgree, Gone
<1> QED
  BY <1>1, <1>9, <1>10, <1>11 DEF StreamInv

-----------------------------------------------------------------------------
\* A call that fails, or the last that returns, closes the descriptor once.
LEMMA CloseKeeps ==
    ASSUME StreamInv, NEW e \in Ends, ~ Gone(e), e = "client" \/ Running(e), NEW s \in {"done", "failed"},
           state' = [state EXCEPT ![e] = s],
           NEW code \in {"0", "EAGAIN", "EINTR", "ENOTCONN", "EPIPE", "ECONNREFUSED"},
           errno' = [errno EXCEPT ![e] = code],
           closes' = [closes EXCEPT ![e] = closes[e] + 1],
           UNCHANGED <<script, wire, sent, call, left, got, moved>>
    PROVE  StreamInv'
<1>1. StreamTypes /\ closes[e] = 0
  BY DEF StreamInv, StreamTypes
<1>2. /\ state' \in [Ends -> {"closed", "trying", "polling", "done", "failed"}]
      /\ errno' \in [Ends -> {"0", "EAGAIN", "EINTR", "ENOTCONN", "EPIPE", "ECONNREFUSED"}]
      /\ closes' \in [Ends -> Nat]
  BY <1>1 DEF StreamTypes
<1>3. \A f \in Ends : (Gone(f) => Gone(f)') /\ closes'[f] = IF Gone(f)' THEN 1 ELSE 0
  <2>1. DOMAIN state = Ends /\ DOMAIN closes = Ends /\ \A f \in Ends : closes[f] = IF Gone(f) THEN 1 ELSE 0
    BY <1>1 DEF StreamTypes
  <2>2. state'[e] = s /\ closes'[e] = 1
    BY <1>1, <2>1
  <2>3. \A f \in Ends \ {e} : state'[f] = state[f] /\ closes'[f] = closes[f]
    BY <2>1
  <2>4. \A f \in Ends \ {e} : Gone(f)' = Gone(f)
    BY <2>3 DEF Gone
  <2>5. Gone(e)'
    BY <2>2 DEF Gone
  <2> QED
    BY <2>1, <2>2, <2>3, <2>4, <2>5
<1>4. \A f \in Ends : Length(f)' = Length(f)
  BY DEF Length
<1>5. state'["client"] = "closed" => state'["server"] = "closed"
  BY <1>1 DEF StreamTypes, Ends, Running
<1>6. \A f \in Ends : /\ call'[f] \in 1 .. Len(script'[f]) /\ left'[f] <= Length(f)'
                       /\ Len(wire'[f]) <= Room /\ closes'[f] = IF Gone(f)' THEN 1 ELSE 0
  BY <1>1, <1>3, <1>4 DEF StreamTypes
<1>7. StreamTypes'
  BY <1>1, <1>2, <1>5, <1>6 DEF StreamTypes
<1> QED
  BY <1>3, <1>7, NothingMoves

\* A step that leaves the descriptors alone and moves no byte.
LEMMA WaitKeeps ==
    ASSUME StreamInv,
           state' \in [Ends -> {"closed", "trying", "polling", "done", "failed"}],
           \A e \in Ends : Gone(e)' = Gone(e),
           state'["client"] = "closed" => state'["server"] = "closed",
           errno' \in [Ends -> {"0", "EAGAIN", "EINTR", "ENOTCONN", "EPIPE", "ECONNREFUSED"}],
           UNCHANGED <<script, wire, sent, call, left, got, moved, closes>>
    PROVE  StreamInv'
<1>1. \A f \in Ends : Length(f)' = Length(f)
  BY DEF Length
<1>2. StreamTypes'
  BY <1>1 DEF StreamInv, StreamTypes
<1> QED
  BY <1>2, NothingMoves

LEMMA StreamKept == StreamInv /\ [StreamNext]_streamVars => StreamInv'
<1> SUFFICES ASSUME StreamInv, [StreamNext]_streamVars PROVE StreamInv'
  OBVIOUS
<1>1. StreamTypes
  BY DEF StreamInv
<1>2. CASE Connect
  <2>1. \A e \in Ends : ~ Gone(e)
    BY <1>1, <1>2 DEF Connect, StreamTypes, Gone, Ends
  <2>2. state' = [e \in Ends |-> "trying"] /\ \A e \in Ends : ~ Gone(e)'
    BY <1>2 DEF Connect, Gone
  <2>3. state'["client"] = "trying"
    BY <2>2 DEF Ends
  <2>4. errno' \in [Ends -> {"0", "EAGAIN", "EINTR", "ENOTCONN", "EPIPE", "ECONNREFUSED"}]
    BY <1>1, <1>2 DEF Connect, StreamTypes
  <2>5. UNCHANGED <<script, wire, sent, call, left, got, moved, closes>>
    BY <1>2 DEF Connect
  <2>6. \A e \in Ends : Gone(e)' = Gone(e)
    BY <1>2, <2>1, <2>2 DEF Gone
  <2>7. state' \in [Ends -> {"closed", "trying", "polling", "done", "failed"}]
    BY <2>2
  <2> QED
    BY <2>3, <2>4, <2>5, <2>6, <2>7, WaitKeeps
<1>3. CASE ConnectFails
  <2>1. "client" \in Ends /\ ~ Gone("client")
    BY <1>3 DEF ConnectFails, Ends, Gone
  <2>2. closes["client"] = 0 /\ closes' = [closes EXCEPT !["client"] = closes["client"] + 1]
    <3>1. closes["client"] = 0
      BY <1>1, <2>1 DEF StreamTypes
    <3>2. closes["client"] + 1 = 1
      BY <3>1
    <3> QED
      BY <1>3, <3>1, <3>2 DEF ConnectFails
  <2> QED
    BY <1>3, <2>1, <2>2, CloseKeeps DEF ConnectFails
<1>4. ASSUME NEW e \in Ends, Running(e), NEW code \in {"0", "EAGAIN", "EINTR", "ENOTCONN", "EPIPE", "ECONNREFUSED"},
             Fail(e, code)
      PROVE  StreamInv'
  BY <1>4, CloseKeeps DEF Fail, Running, Gone
<1>5. ASSUME NEW e \in Ends, WouldBlock(e) \/ PollReady(e) PROVE StreamInv'
  <2> DEFINE Sts == {"closed", "trying", "polling", "done", "failed"}
             Errs == {"0", "EAGAIN", "EINTR", "ENOTCONN", "EPIPE", "ECONNREFUSED"}
  <2>1. state \in [Ends -> Sts] /\ errno \in [Ends -> Errs]
    BY <1>1 DEF StreamTypes
  <2>2. PICK s \in {"trying", "polling"} : state' = [state EXCEPT ![e] = s]
    BY <1>5 DEF WouldBlock, PollReady
  <2>3. state[e] \in {"trying", "polling"} /\ (errno' = errno \/ errno' = [errno EXCEPT ![e] = "EAGAIN"])
    BY <1>5 DEF WouldBlock, PollReady
  <2>4. s \in Sts /\ "EAGAIN" \in Errs
    OBVIOUS
  <2>5. state'[e] = s /\ \A f \in Ends \ {e} : state'[f] = state[f]
    BY <2>1, <2>2
  <2>6. state' \in [Ends -> Sts]
    <3> HIDE DEF Sts
    <3> QED
      BY <2>1, <2>2, <2>4
  <2>7. errno' \in [Ends -> Errs]
    <3> HIDE DEF Errs
    <3> QED
      BY <2>1, <2>3, <2>4
  <2>8. \A f \in Ends : Gone(f)' = Gone(f)
    BY <2>3, <2>5 DEF Gone
  <2>9. UNCHANGED <<script, wire, sent, call, left, got, moved, closes>>
    BY <1>5 DEF WouldBlock, PollReady
  <2>10. state'["client"] = "closed" => state'["server"] = "closed"
    <3>1. state["client"] = "closed" => state["server"] = "closed"
      BY <1>1 DEF StreamTypes
    <3>2. state'["client"] = IF e = "client" THEN s ELSE state["client"]
      BY <2>5 DEF Ends
    <3>3. e # "client" => e = "server"
      BY DEF Ends
    <3> QED
      BY <2>3, <3>1, <3>2, <3>3
  <2> QED
    BY <2>6, <2>7, <2>8, <2>9, <2>10, WaitKeeps
<1>6. ASSUME NEW e \in Ends, PollTimeout(e) PROVE StreamInv'
  <2>1. errno[e] \in {"0", "EAGAIN", "EINTR", "ENOTCONN", "EPIPE", "ECONNREFUSED"}
    BY <1>1 DEF StreamTypes
  <2> QED
    BY <1>4, <1>6, <2>1 DEF PollTimeout, Running
<1>7. ASSUME NEW e \in Ends, PollInterrupted(e) PROVE StreamInv'
  BY <1>4, <1>7 DEF PollInterrupted, Running
<1>8. ASSUME NEW e \in Ends, PeerClosed(e) \/ SendReset(e) PROVE StreamInv'
  BY <1>4, <1>8 DEF PeerClosed, SendReset, AtEnd, Trying, Running
<1>9. ASSUME NEW e \in Ends, Finish(e) PROVE StreamInv'
  BY <1>9, CloseKeeps DEF Finish, Gone, Running
<1>10. ASSUME NEW e \in Ends, StreamStep(e) PROVE StreamInv'
  BY <1>5, <1>6, <1>8, <1>9, <1>10, SendKeeps, RecvKeeps, ReturnKeeps DEF StreamStep
<1>11. CASE UNCHANGED streamVars
  BY <1>1, <1>11, WaitKeeps DEF streamVars, StreamTypes, Gone
<1> QED
  BY <1>2, <1>3, <1>7, <1>10, <1>11 DEF StreamNext

\* Every variable keeps its type, no direction ever holds more than the kernel's room,
\* and no descriptor is closed twice: neither by a stream and its connector, nor by a
\* call that fails and the one after it.
THEOREM StreamTypeCorrect == StreamSpec => []StreamTypeOK
<1>1. StreamInv => StreamTypeOK
  <2> SUFFICES ASSUME StreamInv, NEW e \in Ends
               PROVE  /\ wire[e] \in Seq(Nat) /\ Len(wire[e]) <= Room
                      /\ sent[e] \in Nat /\ call[e] \in 1 .. Len(script[e])
                      /\ left[e] \in 0 .. Length(e)
                      /\ state[e] \in {"closed", "trying", "polling", "done", "failed"}
                      /\ errno[e] \in {"0", "EAGAIN", "EINTR", "ENOTCONN", "EPIPE", "ECONNREFUSED"}
                      /\ closes[e] \in 0 .. 1
    BY DEF StreamTypeOK
  <2>1. Length(e) \in Nat /\ left[e] \in Nat
    BY CurrentCall DEF StreamInv
  <2>2. left[e] <= Length(e) /\ closes[e] \in {0, 1}
    BY DEF StreamInv, StreamTypes
  <2>3. left[e] \in 0 .. Length(e) /\ closes[e] \in 0 .. 1
    BY <2>1, <2>2
  <2> QED
    BY <2>3 DEF StreamInv, StreamTypes
<1> QED
  BY <1>1, StreamStart, StreamKept, PTL DEF StreamSpec

\* What a receiver holds are the next bytes its peer sent, and a call that returns has
\* moved exactly the bytes it was asked for.
THEOREM BytesStayInOrder == StreamSpec => []BytesInOrder
<1>1. StreamInv => BytesInOrder
  <2> SUFFICES ASSUME StreamInv, NEW e \in Ends
               PROVE  /\ got[e] = [i \in 1 .. Len(got[e]) |-> moved[e].recv + i]
                      /\ ~ Gone(e) => wire[Other(e)] = [i \in 1 .. sent[Other(e)] - (moved[e].recv + Len(got[e])) |->
                                                          (moved[e].recv + Len(got[e])) + i]
                      /\ Len(got[e]) = IF Op(e) = "recv" THEN Length(e) - left[e] ELSE 0
                      /\ sent[e] = moved[e].send + IF Op(e) = "send" THEN Length(e) - left[e] ELSE 0
    BY DEF BytesInOrder
  <2>1. InOrder(e)
    BY DEF StreamInv
  <2>2. moved[e].recv \in Nat /\ Len(got[e]) \in Nat
    BY LenProperties DEF StreamInv, StreamTypes
  <2>3. got[e] = [i \in 1 .. Len(got[e]) |-> moved[e].recv + i]
    <3>1. got[e] = [i \in 1 .. (moved[e].recv + Len(got[e])) - moved[e].recv |-> moved[e].recv + i]
      BY <2>1 DEF InOrder, Buffered, Numbered, Recd
    <3>2. (moved[e].recv + Len(got[e])) - moved[e].recv = Len(got[e])
      BY <2>2
    <3> QED
      BY <3>1, <3>2
  <2> QED
    BY <2>1, <2>3 DEF InOrder, Buffered, UnderWay, CountsAgree, Numbered, Recd, Part
<1> QED
  BY <1>1, StreamStart, StreamKept, PTL DEF StreamSpec

-----------------------------------------------------------------------------
(* Division, for the two parts that count with it.                            *)

LEMMA DivMod ==
    ASSUME NEW w \in Nat, w > 0, NEW q \in Nat, NEW r \in 0 .. w - 1
    PROVE  /\ (q * w + r) \div w = q
           /\ (q * w + r) % w = r
<1> DEFINE x == q * w + r
           p == x \div w
           t == x % w
<1>1. /\ x \in Nat /\ p \in Int /\ t \in 0 .. w - 1
      /\ x = p * w + t
  OBVIOUS
<1> HIDE DEF p, t
<1>2. ASSUME p < q PROVE FALSE
  <2>1. (p + 1) * w <= q * w
    BY <1>1, <1>2
  <2> QED
    BY <1>1, <2>1
<1>3. ASSUME q < p PROVE FALSE
  <2>1. (q + 1) * w <= p * w
    BY <1>1, <1>3
  <2> QED
    BY <1>1, <2>1
<1>4. p = q
  BY <1>1, <1>2, <1>3
<1> QED
  BY <1>1, <1>4 DEF p, t

LEMMA Division ==
    ASSUME NEW w \in Nat, w > 0, NEW x \in Nat
    PROVE  /\ x \div w \in Nat /\ x % w \in 0 .. w - 1
           /\ x = (x \div w) * w + (x % w)
<1> DEFINE p == x \div w
           t == x % w
<1>1. /\ p \in Int /\ t \in 0 .. w - 1
      /\ x = p * w + t
  OBVIOUS
<1> HIDE DEF p, t
<1>2. ASSUME p < 0 PROVE FALSE
  <2>1. (p + 1) * w <= 0 * w
    BY <1>1, <1>2
  <2> QED
    BY <1>1, <2>1
<1>3. p \in Nat
  BY <1>1, <1>2
<1> QED
  BY <1>1, <1>3 DEF p, t

\* The number of bits of n bytes, as the two words of m_count hold it.
Bits(n) == <<(8 * n) % WordSize, ((8 * n) \div WordSize) % WordSize>>

LEMMA SumOfWords ==
    ASSUME NEW w \in Nat, w > 0, NEW a \in Nat, NEW b \in Nat
    PROVE  LET low == ((a % w) + (b % w)) % w
               carry == IF low < b % w THEN 1 ELSE 0
           IN  /\ low = (a + b) % w
               /\ (a + b) \div w = a \div w + carry + b \div w
<1> DEFINE qa == a \div w
           ra == a % w
           qb == b \div w
           rb == b % w
<1>1. /\ qa \in Nat /\ ra \in 0 .. w - 1 /\ a = qa * w + ra
      /\ qb \in Nat /\ rb \in 0 .. w - 1 /\ b = qb * w + rb
  BY Division
<1> HIDE DEF qa, ra, qb, rb
<1>2. CASE ra + rb < w
  <2>1. a + b = (qa + qb) * w + (ra + rb)
    BY <1>1
  <2>2. /\ (a + b) \div w = qa + qb
        /\ (a + b) % w = ra + rb
    BY <1>1, <1>2, <2>1, DivMod
  <2>3. (ra + rb) % w = ra + rb
    BY <1>1, <1>2, DivMod
  <2> QED
    BY <1>1, <2>2, <2>3 DEF qa, ra, qb, rb
<1>3. CASE ra + rb >= w
  <2>1. a + b = (qa + qb + 1) * w + (ra + rb - w)
    BY <1>1
  <2>2. /\ (a + b) \div w = qa + qb + 1
        /\ (a + b) % w = ra + rb - w
    BY <1>1, <1>3, <2>1, DivMod
  <2>3. (ra + rb) % w = ra + rb - w
    <3>1. ra + rb = 1 * w + (ra + rb - w)
      BY <1>1
    <3> QED
      BY <1>1, <1>3, <3>1, DivMod
  <2>4. ra + rb - w < rb
    BY <1>1
  <2> QED
    <3> DEFINE low == (ra + rb) % w
               carry == IF low < rb THEN 1 ELSE 0
    <3>1. low = ra + rb - w /\ carry = 1
      BY <2>3, <2>4
    <3>2. low = (a + b) % w /\ (a + b) \div w = qa + carry + qb
      BY <1>1, <2>2, <3>1
    <3> QED
      BY <3>2 DEF low, carry, qa, ra, qb, rb
<1> QED
  BY <1>1, <1>2, <1>3

LEMMA ModOfMod ==
    ASSUME NEW w \in Nat, w > 0, NEW a \in Nat, NEW b \in Nat
    PROVE  ((a % w) + b) % w = (a + b) % w
<1>1. /\ a \div w \in Nat /\ a % w \in 0 .. w - 1 /\ a = (a \div w) * w + (a % w)
  BY Division
<1> DEFINE y == (a % w) + b
<1>2. /\ y \in Nat /\ y \div w \in Nat /\ y % w \in 0 .. w - 1 /\ y = (y \div w) * w + (y % w)
  BY <1>1, Division
<1>3. a + b = (a \div w + y \div w) * w + (y % w)
  <2> DEFINE qa == a \div w
             qy == y \div w
             ry == y % w
             ra == a % w
  <2>1. /\ qa \in Nat /\ qy \in Nat /\ ra \in Nat /\ ry \in Nat /\ a = qa * w + ra /\ ra + b = qy * w + ry
    BY <1>1, <1>2
  <2>2. a + b = (qa + qy) * w + ry
    <3> HIDE DEF qa, qy, ra, ry
    <3>1. a + b = qa * w + qy * w + ry
      BY <2>1
    <3> QED
      BY <2>1, <3>1
  <2> QED
    BY <2>2 DEF qa, qy, ry
<1> QED
  <2> DEFINE q == a \div w + y \div w
             r == y % w
  <2>1. q \in Nat /\ r \in 0 .. w - 1 /\ a + b = q * w + r
    BY <1>1, <1>2, <1>3
  <2> HIDE DEF q
  <2>2. (q * w + r) % w = r
    <3> HIDE DEF r
    <3> QED BY <2>1, DivMod
  <2> QED
    BY <2>1, <2>2

LEMMA CountedBits ==
    ASSUME NEW n \in Nat, NEW k \in Nat
    PROVE  Counted(Bits(n), k) = Bits(n + k)
<1> DEFINE W == WordSize
           a == 8 * n
           b == 8 * k
           low == ((a % W) + (b % W)) % W
           carry == IF low < b % W THEN 1 ELSE 0
<1>1. W \in Nat /\ W > 0 /\ a \in Nat /\ b \in Nat /\ 8 * (n + k) = a + b
  BY Md5Assumption
<1> HIDE DEF W, a, b
<1>2. low = (a + b) % W /\ (a + b) \div W = a \div W + carry + b \div W
  BY <1>1, SumOfWords
<1>3. a \div W \in Nat /\ b \div W \in Nat /\ carry \in Nat
  BY <1>1, Division
<1> HIDE DEF carry
<1>4. (((a \div W) % W) + (carry + b \div W)) % W = ((a + b) \div W) % W
  <2>1. (((a \div W) % W) + (carry + b \div W)) % W = (a \div W + (carry + b \div W)) % W
    <3> DEFINE x == a \div W
               y == carry + b \div W
    <3>1. x \in Nat /\ y \in Nat
      BY <1>3
    <3> HIDE DEF x, y
    <3>2. ((x % W) + y) % W = (x + y) % W
      BY <1>1, <3>1, ModOfMod
    <3> QED
      BY <3>2 DEF x, y
  <2> QED
    BY <1>2, <1>3, <2>1
<1>5. ((a \div W) % W) + (carry + b \div W) = ((a \div W) % W) + carry + b \div W
  BY <1>1, <1>3, Division
<1> QED
  BY <1>1, <1>2, <1>4, <1>5 DEF Counted, Bits, W, a, b, carry

LEMMA IndexOfBits ==
    ASSUME NEW n \in Nat
    PROVE  /\ Bits(n) \in (0 .. WordSize - 1) \X (0 .. WordSize - 1)
           /\ Index(Bits(n)) = n % BlockLen
<1> DEFINE B == BlockLen
           W == WordSize
           c == W \div (8 * B)
           q == (8 * n) \div W
           r == (8 * n) % W
<1>1. /\ W \in Nat /\ W > 0 /\ B \in Nat /\ B > 2 /\ W % (8 * B) = 0
  BY Md5Assumption
<1> HIDE DEF B, W
<1>2. c \in Nat /\ W = c * (8 * B)
  <2>1. 8 * B \in Nat /\ 8 * B > 0
    BY <1>1
  <2> QED
    BY <1>1, <2>1, Division
<1>3. q \in Nat /\ r \in 0 .. W - 1 /\ 8 * n = q * W + r
  BY <1>1, Division
<1> HIDE DEF c, q, r
<1> DEFINE z == (q * c) * B
<1>4. 8 * n = 8 * z + r /\ z \in Nat
  <2>1. q * W = 8 * ((q * c) * B)
    BY <1>1, <1>2, <1>3
  <2>2. (q * c) \in Nat
    BY <1>2, <1>3
  <2> QED
    BY <1>1, <1>3, <2>1, <2>2
<1>5. r = 8 * (n - z) /\ n - z \in Nat
  <2> HIDE DEF z
  <2> QED BY <1>3, <1>4
<1>6. r \div 8 = n - z
  <2> HIDE DEF z
  <2> QED BY <1>5
<1> DEFINE y == n - z
<1>7. (y + z) % B = y % B
  <2>1. y \in Nat
    BY <1>5
  <2>2. y \div B \in Nat /\ y % B \in 0 .. B - 1 /\ y = (y \div B) * B + (y % B)
    <3> HIDE DEF y
    <3> QED BY <1>1, <2>1, Division
  <2> DEFINE qy == y \div B
             ry == y % B
             qc == q * c
  <2>3. qy \in Nat /\ ry \in 0 .. B - 1 /\ y = qy * B + ry /\ qc \in Nat
    <3>1. qc \in Nat
      BY <1>2, <1>3
    <3> HIDE DEF y, qc
    <3> QED BY <2>2, <3>1
  <2>4. y + z = (qy + qc) * B + ry
    <3> HIDE DEF y, qy, ry, qc
    <3> QED BY <2>3, <1>1 DEF z, qc
  <2> HIDE DEF qy, ry, qc, y
  <2>5. ((qy + qc) * B + ry) % B = ry
    BY <1>1, <2>3, DivMod
  <2> QED
    BY <2>4, <2>5 DEF ry
<1>8. y + z = n
  BY <1>4
<1>9. Index(Bits(n)) = (r \div 8) % B
  BY DEF Index, Bits, r, B, W
<1>10. Bits(n) \in (0 .. W - 1) \X (0 .. W - 1)
  <2>1. q % W \in 0 .. W - 1
    BY <1>1, <1>3, Division
  <2> QED
    BY <1>3, <2>1 DEF Bits, r, q, W
<1> QED
  BY <1>6, <1>7, <1>8, <1>9, <1>10 DEF B, W

-----------------------------------------------------------------------------
(* MD5: whole blocks (Md5Stream).                                            *)

Block == {b \in Seq(Bytes) : Len(b) = BlockLen}

\* The objects of CMD5, every field of its type.
Md5Types ==
  [count  : (0 .. WordSize - 1) \X (0 .. WordSize - 1),
   buffer : [1 .. BlockLen -> Bytes],
   state  : Seq(Block),
   digest : Seq(Block)]

\* The bytes of n that fill whole blocks.
Whole(n) == (n \div BlockLen) * BlockLen

\* The object has absorbed exactly the bytes f.
Fits(m, f) ==
  /\ m.count = Bits(Len(f))
  /\ m.state = Blocks(f)
  /\ \A j \in 1 .. Len(f) % BlockLen : m.buffer[j] = f[Whole(Len(f)) + j]

\* What index, part and i of update() are, for n bytes waiting to be whole and k more.
LEMMA Cut ==
    ASSUME NEW n \in Nat, NEW k \in Nat
    PROVE  LET B == BlockLen
               r == n % B
               part == B - r
               t == (k - part) \div B
               i == part + B * t
           IN  /\ r \in 0 .. B - 1 /\ n = Whole(n) + r /\ Whole(n) \in Nat
               /\ k < part => /\ (n + k) \div B = n \div B
                              /\ (n + k) % B = r + k
               /\ k >= part => /\ t \in Nat /\ i \in part .. k
                               /\ r + i = (t + 1) * B
                               /\ (n + k) \div B = (n \div B) + t + 1
                               /\ (n + k) % B = k - i
                               /\ Whole(n + k) = n + i
<1> DEFINE B == BlockLen
           q == n \div B
           r == n % B
           part == B - r
           t == (k - part) \div B
           i == part + B * t
<1>1. B \in Nat /\ B > 0
  BY Md5Assumption
<1>2. q \in Nat /\ r \in 0 .. B - 1 /\ n = q * B + r
  <2> HIDE DEF B
  <2> QED BY <1>1, Division
<1>3. Whole(n) = q * B /\ Whole(n) \in Nat
  <2>1. Whole(n) = q * B
    BY DEF Whole
  <2> HIDE DEF q, B
  <2> QED BY <2>1, <1>1, <1>2
<1> HIDE DEF q, r, B
<1>4. ASSUME k < part
      PROVE  (n + k) \div B = q /\ (n + k) % B = r + k
  <2>1. n + k = q * B + (r + k) /\ r + k \in 0 .. B - 1
    BY <1>1, <1>2, <1>4
  <2> QED
    BY <1>1, <1>2, <2>1, DivMod
<1>5. ASSUME k >= part
      PROVE  /\ t \in Nat /\ i \in part .. k
             /\ r + i = (t + 1) * B
             /\ (n + k) \div B = q + t + 1
             /\ (n + k) % B = k - i
             /\ Whole(n + k) = n + i
  <2> DEFINE x == k - part
             u == x % B
  <2>1. x \in Nat
    BY <1>1, <1>2, <1>5
  <2>2. t \in Nat /\ u \in 0 .. B - 1 /\ x = t * B + u
    <3> HIDE DEF x
    <3>1. x \div B \in Nat /\ u \in 0 .. B - 1 /\ x = (x \div B) * B + u
      BY <2>1, <1>1, Division
    <3> QED
      BY <3>1 DEF x
  <2> HIDE DEF t, u
  <2>3. B * t \in Nat /\ B * t = t * B
    BY <1>1, <2>2
  <2>4. i \in part .. k /\ k - i = u
    <3> DEFINE z == B * t
    <3> HIDE DEF z
    <3>1. z \in Nat /\ x = z + u
      BY <2>2, <2>3 DEF z
    <3>2. k - (part + z) = u /\ part + z \in part .. k
      BY <1>1, <1>2, <2>2, <3>1
    <3> QED
      BY <3>2 DEF z
  <2>5. r + i = (t + 1) * B
    BY <1>1, <1>2, <2>2
  <2>6. n + k = (q + t + 1) * B + u
    BY <1>1, <1>2, <2>2
  <2>7. (n + k) \div B = q + t + 1 /\ (n + k) % B = u
    <3> DEFINE qq == q + t + 1
    <3>1. qq \in Nat
      BY <1>2, <2>2
    <3> HIDE DEF qq
    <3>2. (qq * B + u) \div B = qq /\ (qq * B + u) % B = u
      BY <1>1, <2>2, <3>1, DivMod
    <3> QED
      BY <2>6, <3>2 DEF qq
  <2>8. Whole(n + k) = (q + t + 1) * B
    BY <2>7 DEF Whole, B
  <2>9. (q + t + 1) * B = n + i
    BY <1>1, <1>2, <2>2, <2>5
  <2> QED
    BY <2>2, <2>4, <2>5, <2>7, <2>8, <2>9
<1> QED
  BY <1>2, <1>3, <1>4, <1>5 DEF q, r, B

\* The k-th block of a message whose k-th block is whole.
LEMMA BlockWithin ==
    ASSUME NEW n \in Nat, NEW k \in 1 .. n \div BlockLen
    PROVE  /\ (k - 1) * BlockLen \in Nat /\ k * BlockLen \in Nat
           /\ k * BlockLen = (k - 1) * BlockLen + BlockLen
           /\ k * BlockLen <= Whole(n) /\ Whole(n) <= n /\ Whole(n) \in Nat
<1> DEFINE B == BlockLen
           q == n \div B
<1>1. B \in Nat /\ B > 0
  BY Md5Assumption
<1>2. q \in Nat /\ n % B \in 0 .. B - 1 /\ n = q * B + (n % B)
  <2> HIDE DEF B
  <2> QED BY <1>1, Division
<1> DEFINE r == n % B
<1>3. q \in Nat /\ r \in Nat /\ n = q * B + r /\ k \in 1 .. q
  BY <1>2
<1> HIDE DEF q, B, r
<1>4. k * B <= q * B /\ k * B = (k - 1) * B + B /\ (k - 1) * B \in Nat /\ k * B \in Nat
  <2>1. k * B <= q * B
    BY <1>1, <1>3
  <2>2. k * B = (k - 1) * B + B
    BY <1>1, <1>3
  <2>3. (k - 1) * B \in Nat
    BY <1>1, <1>3
  <2> QED
    BY <1>1, <2>1, <2>2, <2>3
<1>5. Whole(n) = q * B
  BY DEF Whole, q, B
<1>6. q * B \in Nat
  BY <1>1, <1>3
<1> QED
  BY <1>1, <1>3, <1>4, <1>5, <1>6 DEF B

\* The bytes of a buffer or message between two places.
LEMMA Piece ==
    ASSUME NEW s, NEW a \in Nat, NEW b \in Nat, a <= b, \A j \in a + 1 .. b : s[j] \in Bytes
    PROVE  /\ SubSeq(s, a + 1, b) \in Seq(Bytes) /\ Len(SubSeq(s, a + 1, b)) = b - a
           /\ \A j \in 1 .. b - a : SubSeq(s, a + 1, b)[j] = s[a + j]
<1>1. /\ SubSeq(s, a + 1, b) \in Seq(Bytes)
      /\ Len(SubSeq(s, a + 1, b)) = IF a + 1 <= b THEN b - (a + 1) + 1 ELSE 0
      /\ \A j \in 1 .. b - (a + 1) + 1 : SubSeq(s, a + 1, b)[j] = s[a + 1 + j - 1]
  <2> HIDE DEF Bytes
  <2> QED BY SubSeqProperties
<1>2. b - (a + 1) + 1 = b - a /\ (IF a + 1 <= b THEN b - (a + 1) + 1 ELSE 0) = b - a
  OBVIOUS
<1>3. \A j \in 1 .. b - a : a + 1 + j - 1 = a + j
  OBVIOUS
<1> QED
  BY <1>1, <1>2, <1>3

LEMMA BlocksProperties ==
    ASSUME NEW f \in Seq(Bytes)
    PROVE  /\ Blocks(f) \in Seq(Block)
           /\ Len(Blocks(f)) = Len(f) \div BlockLen
           /\ \A k \in 1 .. Len(f) \div BlockLen :
                /\ Blocks(f)[k] \in Seq(Bytes) /\ Len(Blocks(f)[k]) = BlockLen
                /\ \A j \in 1 .. BlockLen : Blocks(f)[k][j] = f[(k - 1) * BlockLen + j]
<1> DEFINE q == Len(f) \div BlockLen
           bl(k) == SubSeq(f, (k - 1) * BlockLen + 1, k * BlockLen)
<1>1. Len(f) \in Nat /\ BlockLen \in Nat /\ BlockLen > 0
  BY Md5Assumption, LenProperties
<1>2. q \in Nat
  BY <1>1, Division
<1>3. ASSUME NEW k \in 1 .. q
      PROVE  /\ bl(k) \in Seq(Bytes) /\ Len(bl(k)) = BlockLen
             /\ \A j \in 1 .. BlockLen : bl(k)[j] = f[(k - 1) * BlockLen + j]
  <2> DEFINE a == (k - 1) * BlockLen
             b == k * BlockLen
  <2>1. a \in Nat /\ b \in Nat /\ b = a + BlockLen /\ b <= Len(f)
    BY <1>1, BlockWithin
  <2> HIDE DEF a, b
  <2>2. \A j \in a + 1 .. b : f[j] \in Bytes
    BY <2>1, ElementOfSeq
  <2>3. /\ SubSeq(f, a + 1, b) \in Seq(Bytes) /\ Len(SubSeq(f, a + 1, b)) = b - a
        /\ \A j \in 1 .. b - a : SubSeq(f, a + 1, b)[j] = f[a + j]
    <3>1. a <= b /\ a \in Nat /\ b \in Nat
      BY <1>1, <2>1
    <3> HIDE DEF Bytes
    <3> QED BY <3>1, <2>2, Piece, Zenon
  <2>4. b - a = BlockLen
    BY <1>1, <2>1
  <2> QED
    BY <2>3, <2>4 DEF a, b
<1> HIDE DEF bl, q
<1>4. \A k \in 1 .. q : bl(k) \in Block
  BY <1>3 DEF Block
<1>5. [k \in 1 .. q |-> bl(k)] \in Seq(Block)
  BY <1>2, <1>4, IsASeq
<1>6. Blocks(f) = [k \in 1 .. q |-> bl(k)]
  BY DEF Blocks, q, bl
<1>7. Len(Blocks(f)) = q /\ \A k \in 1 .. q : Blocks(f)[k] = bl(k)
  BY <1>2, <1>5, <1>6, LenProperties
<1> QED
  BY <1>3, <1>5, <1>6, <1>7 DEF q

\* Two sequences of whole blocks, one after the other: the tail of the first that fills
\* no block, and what follows it, are blocks of their own.
LEMMA BlocksSplit ==
    ASSUME NEW f \in Seq(Bytes), NEW g \in Seq(Bytes), NEW done \in Seq(Bytes),
           Len(g) \div BlockLen = (Len(f) \div BlockLen) + (Len(done) \div BlockLen),
           \A j \in 1 .. Whole(Len(f)) : g[j] = f[j],
           \A j \in 1 .. Whole(Len(done)) : g[Whole(Len(f)) + j] = done[j]
    PROVE  Blocks(g) = Blocks(f) \o Blocks(done)
<1> DEFINE B == BlockLen
           q == Len(f) \div B
           t == Len(done) \div B
<1>1. B \in Nat /\ B > 0 /\ Len(f) \in Nat /\ Len(done) \in Nat /\ Len(g) \in Nat
  BY Md5Assumption, LenProperties
<1>2. q \in Nat /\ t \in Nat
  <2> HIDE DEF B
  <2> QED BY <1>1, Division
<1>3. /\ Blocks(f) \in Seq(Block) /\ Len(Blocks(f)) = q
      /\ Blocks(done) \in Seq(Block) /\ Len(Blocks(done)) = t
      /\ Blocks(g) \in Seq(Block) /\ Len(Blocks(g)) = q + t
  BY BlocksProperties
<1>4. /\ Blocks(f) \o Blocks(done) \in Seq(Block)
      /\ Len(Blocks(f) \o Blocks(done)) = q + t
      /\ \A k \in 1 .. q + t : (Blocks(f) \o Blocks(done))[k] =
            IF k <= q THEN Blocks(f)[k] ELSE Blocks(done)[k - q]
  <2> HIDE DEF q, t
  <2> QED BY <1>3, ConcatProperties
<1>5. ASSUME NEW k \in 1 .. q + t
      PROVE  Blocks(g)[k] = IF k <= q THEN Blocks(f)[k] ELSE Blocks(done)[k - q]
  <2>1. /\ Blocks(g)[k] \in Seq(Bytes) /\ Len(Blocks(g)[k]) = B
        /\ \A j \in 1 .. B : Blocks(g)[k][j] = g[(k - 1) * B + j]
    BY BlocksProperties
  <2>2. CASE k <= q
    <3>1. k \in 1 .. q
      BY <1>2, <2>2
    <3>2. /\ Blocks(f)[k] \in Seq(Bytes) /\ Len(Blocks(f)[k]) = B
          /\ \A j \in 1 .. B : Blocks(f)[k][j] = f[(k - 1) * B + j]
      BY <3>1, BlocksProperties
    <3> DEFINE a == (k - 1) * B
    <3>3. a \in Nat /\ a + B <= Whole(Len(f)) /\ Whole(Len(f)) \in Nat
      <4> DEFINE b == k * B
      <4>1. a \in Nat /\ b = a + B /\ b <= Whole(Len(f)) /\ Whole(Len(f)) \in Nat
        BY <1>1, <3>1, BlockWithin
      <4> HIDE DEF a, b
      <4> QED BY <4>1
    <3> HIDE DEF a
    <3>4. \A j \in 1 .. B : g[a + j] = f[a + j]
      <4>1. \A j \in 1 .. B : a + j \in 1 .. Whole(Len(f))
        <5> DEFINE w == Whole(Len(f))
        <5> HIDE DEF w
        <5>1. B \in Nat /\ a \in Nat /\ w \in Nat /\ a + B <= w
          BY <1>1, <3>3 DEF w
        <5>2. \A j \in 1 .. B : a + j \in 1 .. w
          <6> HIDE DEF B
          <6> QED BY <5>1
        <5> QED
          BY <5>2 DEF w
      <4> QED
        BY <4>1, Zenon
    <3>5. \A j \in 1 .. B : Blocks(g)[k][j] = Blocks(f)[k][j]
      BY <2>1, <3>2, <3>4 DEF a
    <3>6. Blocks(g)[k] = Blocks(f)[k]
      <4> DEFINE x == Blocks(g)[k]
                 y == Blocks(f)[k]
      <4>1. x \in Seq(Bytes) /\ y \in Seq(Bytes) /\ Len(x) = Len(y) /\ \A j \in 1 .. Len(x) : x[j] = y[j]
        BY <2>1, <3>2, <3>5
      <4> HIDE DEF x, y
      <4>2. x = y
        BY <4>1, SeqEqual
      <4> QED
        BY <4>2 DEF x, y
    <3> QED
      BY <2>2, <3>6
  <2>3. CASE ~(k <= q)
    <3> DEFINE h == k - q
    <3>1. h \in 1 .. t /\ k = q + h
      BY <1>2, <2>3
    <3> HIDE DEF h
    <3>2. /\ Blocks(done)[h] \in Seq(Bytes) /\ Len(Blocks(done)[h]) = B
          /\ \A j \in 1 .. B : Blocks(done)[h][j] = done[(h - 1) * B + j]
      BY <3>1, BlocksProperties
    <3> DEFINE a == (h - 1) * B
    <3>3. a \in Nat /\ a + B <= Whole(Len(done)) /\ Whole(Len(done)) \in Nat
      <4> DEFINE b == h * B
      <4>1. a \in Nat /\ b = a + B /\ b <= Whole(Len(done)) /\ Whole(Len(done)) \in Nat
        BY <1>1, <3>1, BlockWithin
      <4> HIDE DEF a, b
      <4> QED BY <4>1
    <3>4. (k - 1) * B = Whole(Len(f)) + a /\ Whole(Len(f)) \in Nat
      <4>1. Whole(Len(f)) = q * B
        BY DEF Whole
      <4> HIDE DEF q, t, B
      <4>2. (k - 1) * B = q * B + (h - 1) * B
        BY <1>1, <1>2, <3>1
      <4>3. q * B \in Nat
        BY <1>1, <1>2
      <4> QED
        BY <4>1, <4>2, <4>3
    <3> HIDE DEF a
    <3>5. \A j \in 1 .. B : g[(k - 1) * B + j] = done[a + j]
      <4> DEFINE e == (k - 1) * B
                 w == Whole(Len(f))
      <4>1. e = w + a /\ w \in Nat
        BY <3>4
      <4>2. \A j \in 1 .. Whole(Len(done)) : g[w + j] = done[j]
        OBVIOUS
      <4> HIDE DEF e, w
      <4>3. ASSUME NEW j \in 1 .. B PROVE g[e + j] = done[a + j]
        <5>1. a + j \in 1 .. Whole(Len(done)) /\ e + j = w + (a + j)
          BY <1>1, <3>3, <4>1
        <5> QED
          BY <4>2, <5>1
      <4> QED
        BY <4>3 DEF e
    <3>6. \A j \in 1 .. B : Blocks(g)[k][j] = Blocks(done)[h][j]
      BY <2>1, <3>2, <3>5 DEF a
    <3>7. Blocks(g)[k] = Blocks(done)[h]
      <4> DEFINE x == Blocks(g)[k]
                 y == Blocks(done)[h]
      <4>1. x \in Seq(Bytes) /\ y \in Seq(Bytes) /\ Len(x) = Len(y) /\ \A j \in 1 .. Len(x) : x[j] = y[j]
        BY <2>1, <3>2, <3>6
      <4> HIDE DEF x, y
      <4>2. x = y
        BY <4>1, SeqEqual
      <4> QED
        BY <4>2 DEF x, y
    <3> QED
      BY <2>3, <3>7 DEF h
  <2> QED
    BY <2>2, <2>3
<1> HIDE DEF q, t
<1> DEFINE x == Blocks(g)
           y == Blocks(f) \o Blocks(done)
<1>6. \A k \in 1 .. q + t : x[k] = y[k]
  BY <1>4, <1>5, Zenon
<1>7. x \in Seq(Block) /\ y \in Seq(Block) /\ Len(x) = Len(y) /\ \A k \in 1 .. Len(x) : x[k] = y[k]
  BY <1>3, <1>4, <1>6, Zenon
<1> HIDE DEF x, y
<1>8. x = y
  BY <1>7, SeqEqual, Zenon
<1> QED
  BY <1>8 DEF x, y

-----------------------------------------------------------------------------
(* MD5: what update() does to the bytes that wait.                           *)

LEMMA OverlayProperties ==
    ASSUME NEW buffer \in [1 .. BlockLen -> Bytes], NEW at \in Nat, NEW bytes \in Seq(Bytes)
    PROVE  /\ Overlay(buffer, at, bytes) \in [1 .. BlockLen -> Bytes]
           /\ \A j \in 1 .. BlockLen :
                j <= at \/ j > at + Len(bytes) => Overlay(buffer, at, bytes)[j] = buffer[j]
           /\ \A j \in 1 .. Len(bytes) :
                at + j <= BlockLen => Overlay(buffer, at, bytes)[at + j] = bytes[j]
<1>1. Len(bytes) \in Nat /\ \A j \in 1 .. Len(bytes) : bytes[j] \in Bytes
  BY LenProperties, ElementOfSeq
<1>2. BlockLen \in Nat
  BY Md5Assumption
<1>3. ASSUME NEW j \in 1 .. BlockLen, j \in at + 1 .. at + Len(bytes)
      PROVE  j - at \in 1 .. Len(bytes) /\ bytes[j - at] \in Bytes
  BY <1>1, <1>2, <1>3
<1> HIDE DEF Bytes
<1>4. Overlay(buffer, at, bytes) \in [1 .. BlockLen -> Bytes]
  BY <1>3 DEF Overlay
<1>5. \A j \in 1 .. BlockLen : Overlay(buffer, at, bytes)[j] =
         IF j \in at + 1 .. at + Len(bytes) THEN bytes[j - at] ELSE buffer[j]
  BY DEF Overlay
<1>6. ASSUME NEW j \in 1 .. BlockLen, j <= at \/ j > at + Len(bytes)
      PROVE  Overlay(buffer, at, bytes)[j] = buffer[j]
  <2>1. j \notin at + 1 .. at + Len(bytes)
    BY <1>1, <1>6
  <2> QED
    BY <1>5, <2>1
<1>7. ASSUME NEW j \in 1 .. Len(bytes), at + j <= BlockLen
      PROVE  Overlay(buffer, at, bytes)[at + j] = bytes[j]
  <2>1. (at + j) \in 1 .. BlockLen /\ (at + j) \in at + 1 .. at + Len(bytes) /\ (at + j) - at = j
    BY <1>1, <1>2, <1>7
  <2> QED
    BY <1>5, <2>1
<1> QED
  BY <1>4, <1>6, <1>7

\* What update() writes to each field.
LEMMA UpdateFields ==
    ASSUME NEW m \in Md5Types, NEW input \in Seq(Bytes)
    PROVE  LET index == Index(m.count)
               part == BlockLen - index
               i == IF Len(input) >= part
                    THEN part + BlockLen * ((Len(input) - part) \div BlockLen) ELSE 0
               done == IF i = 0 THEN <<>> ELSE SubSeq(m.buffer, 1, index) \o SubSeq(input, 1, i)
               rest == SubSeq(input, i + 1, Len(input))
           IN  /\ update(m, input).count = Counted(m.count, Len(input))
               /\ update(m, input).state = m.state \o Blocks(done)
               /\ update(m, input).buffer =
                    IF i = 0 THEN Overlay(m.buffer, index, rest)
                    ELSE Overlay(Overlay(m.buffer, index, SubSeq(input, 1, part)), 0, rest)
               /\ update(m, input).digest = m.digest
               /\ update(m, input) \in [count : {Counted(m.count, Len(input))},
                                        buffer : {update(m, input).buffer},
                                        state : {m.state \o Blocks(done)},
                                        digest : {m.digest}]
<1> DEFINE index == Index(m.count)
           part == BlockLen - index
           i == IF Len(input) >= part
                THEN part + BlockLen * ((Len(input) - part) \div BlockLen) ELSE 0
           done == IF i = 0 THEN <<>> ELSE SubSeq(m.buffer, 1, index) \o SubSeq(input, 1, i)
           rest == SubSeq(input, i + 1, Len(input))
           c == Counted(m.count, Len(input))
           s == m.state \o Blocks(done)
           b == IF i = 0 THEN Overlay(m.buffer, index, rest)
                ELSE Overlay(Overlay(m.buffer, index, SubSeq(input, 1, part)), 0, rest)
<1>1. update(m, input) = [m EXCEPT !.count = c, !.state = s, !.buffer = b]
  BY Zenon DEF update, index, part, i, done, rest, c, s, b
<1> HIDE DEF index, part, i, done, rest, c, s, b
<1>2. m = [count |-> m.count, buffer |-> m.buffer, state |-> m.state, digest |-> m.digest]
  BY DEF Md5Types
<1>3. update(m, input) = [count |-> c, buffer |-> b, state |-> s, digest |-> m.digest]
  BY <1>1, <1>2
<1>4. /\ update(m, input).count = c /\ update(m, input).state = s
      /\ update(m, input).buffer = b /\ update(m, input).digest = m.digest
      /\ update(m, input) \in [count : {c}, buffer : {b}, state : {s}, digest : {m.digest}]
  BY <1>3
<1> QED
  BY <1>4, Zenon DEF index, part, i, done, rest, c, s, b

LEMMA IndexType ==
    ASSUME NEW count \in (0 .. WordSize - 1) \X (0 .. WordSize - 1)
    PROVE  Index(count) \in 0 .. BlockLen - 1
<1>1. BlockLen \in Nat /\ BlockLen > 0 /\ WordSize \in Nat
  BY Md5Assumption
<1>2. count[1] \in Nat
  BY <1>1
<1> DEFINE x == count[1] \div 8
<1>3. x \in Nat
  BY <1>2
<1> HIDE DEF x
<1> QED
  BY <1>1, <1>3, Division DEF Index, x

\* A piece that leaves the block open is copied behind the bytes that wait.
LEMMA UpdateSmall ==
    ASSUME NEW m \in Md5Types, NEW input \in Seq(Bytes),
           Len(input) < BlockLen - Index(m.count)
    PROVE  LET after == update(m, input) IN
           /\ after.state = m.state
           /\ after.buffer \in [1 .. BlockLen -> Bytes]
           /\ \A j \in 1 .. Index(m.count) : after.buffer[j] = m.buffer[j]
           /\ \A j \in 1 .. Len(input) : after.buffer[Index(m.count) + j] = input[j]
<1> DEFINE r == Index(m.count)
           k == Len(input)
           b == update(m, input).buffer
           rest == SubSeq(input, 0 + 1, k)
<1>1. /\ BlockLen \in Nat /\ BlockLen > 0 /\ r \in 0 .. BlockLen - 1 /\ k \in Nat
      /\ m.buffer \in [1 .. BlockLen -> Bytes] /\ m.state \in Seq(Block)
  BY Md5Assumption, IndexType, LenProperties DEF Md5Types
<1>2. ~ (k >= BlockLen - r)
  BY <1>1
<1>3. /\ update(m, input).state = m.state \o Blocks(<<>>)
      /\ b = Overlay(m.buffer, r, rest)
  BY <1>2, UpdateFields
<1>4. rest = input
  <2>1. \A j \in 1 .. k : input[j] \in Bytes
    BY ElementOfSeq
  <2>2. \A j \in 0 + 1 .. k : input[j] \in Bytes
    BY <2>1
  <2> HIDE DEF k
  <2>3. /\ rest \in Seq(Bytes) /\ Len(rest) = k - 0
        /\ \A j \in 1 .. k - 0 : rest[j] = input[0 + j]
    <3> HIDE DEF Bytes
    <3>1. 0 \in Nat /\ 0 <= k /\ k \in Nat
      BY <1>1
    <3> QED BY <3>1, <2>2, Piece, Zenon
  <2> HIDE DEF rest
  <2>4. Len(rest) = k /\ \A j \in 1 .. k : rest[j] = input[j]
    BY <1>1, <2>3
  <2> QED
    BY <2>3, <2>4, SeqEqual DEF k
<1>5. m.state \o Blocks(<<>>) = m.state
  <2>1. <<>> \in Seq(Bytes) /\ Len(<<>>) = 0
    BY EmptySeq
  <2>2. Blocks(<<>>) \in Seq(Block) /\ Len(Blocks(<<>>)) = 0
    <3>1. 0 \div BlockLen = 0
      BY <1>1, DivMod
    <3> QED
      BY <2>1, <3>1, BlocksProperties
  <2>3. Blocks(<<>>) = <<>>
    BY <2>2, EmptySeq
  <2> QED
    BY <1>1, <2>3, ConcatEmptySeq
<1> HIDE DEF b, r, k, rest
<1>6. /\ b \in [1 .. BlockLen -> Bytes]
      /\ \A j \in 1 .. BlockLen : j <= r \/ j > r + k => b[j] = m.buffer[j]
      /\ \A j \in 1 .. k : r + j <= BlockLen => b[r + j] = input[j]
  <2>1. /\ r \in Nat /\ m.buffer \in [1 .. BlockLen -> Bytes]
        /\ b = Overlay(m.buffer, r, input)
    BY <1>1, <1>3, <1>4
  <2> QED
    BY <2>1, OverlayProperties, Zenon DEF k
<1>7. /\ \A j \in 1 .. r : b[j] = m.buffer[j]
      /\ \A j \in 1 .. k : b[r + j] = input[j]
  BY <1>1, <1>2, <1>6
<1> QED
  BY <1>3, <1>5, <1>6, <1>7 DEF b, r, k

\* A piece that fills the block: i of its bytes go to transform() with the ones that
\* waited, the others wait in their place.
LEMMA UpdateBig ==
    ASSUME NEW m \in Md5Types, NEW input \in Seq(Bytes),
           Len(input) >= BlockLen - Index(m.count)
    PROVE  LET after == update(m, input)
               r == Index(m.count)
               part == BlockLen - r
               i == part + BlockLen * ((Len(input) - part) \div BlockLen)
           IN  /\ after.buffer \in [1 .. BlockLen -> Bytes]
               /\ \A j \in 1 .. Len(input) - i : after.buffer[j] = input[i + j]
               /\ \A j \in 1 .. r : j > Len(input) - i => after.buffer[j] = m.buffer[j]
               /\ \E done \in Seq(Bytes) :
                    /\ after.state = m.state \o Blocks(done)
                    /\ Len(done) = r + i
                    /\ \A j \in 1 .. r : done[j] = m.buffer[j]
                    /\ \A j \in 1 .. i : done[r + j] = input[j]
<1> DEFINE r == Index(m.count)
           k == Len(input)
           part == BlockLen - r
           i == part + BlockLen * ((k - part) \div BlockLen)
           b == update(m, input).buffer
           head == SubSeq(input, 0 + 1, part)
           taken == SubSeq(input, 0 + 1, i)
           waiting == SubSeq(m.buffer, 0 + 1, r)
           rest == SubSeq(input, i + 1, k)
           first == Overlay(m.buffer, r, head)
<1>1. /\ BlockLen \in Nat /\ BlockLen > 0 /\ r \in 0 .. BlockLen - 1 /\ k \in Nat
      /\ m.buffer \in [1 .. BlockLen -> Bytes] /\ m.state \in Seq(Block)
      /\ \A j \in 1 .. k : input[j] \in Bytes
      /\ k >= part
  BY Md5Assumption, IndexType, LenProperties, ElementOfSeq DEF Md5Types
<1>2. i \in part .. k /\ k - i < BlockLen /\ i # 0
  <2>1. r % BlockLen = r /\ r \in Nat
    <3> HIDE DEF r
    <3>1. (0 * BlockLen + r) % BlockLen = r
      BY <1>1, DivMod
    <3>2. 0 * BlockLen + r = r /\ r \in Nat
      BY <1>1
    <3> QED
      BY <3>1, <3>2
  <2> HIDE DEF r, k
  <2>2. i \in part .. k /\ (r + k) % BlockLen = k - i
    <3> DEFINE p == BlockLen - (r % BlockLen)
               c == p + BlockLen * ((k - p) \div BlockLen)
    <3>1. k >= p => c \in p .. k /\ (r + k) % BlockLen = k - c
      BY <1>1, <2>1, Cut, Zenon
    <3>2. p = part /\ c = i
      BY <2>1, Zenon
    <3> HIDE DEF p, c, part, i
    <3> QED
      BY <1>1, <3>1, <3>2, Zenon
  <2>3. (r + k) % BlockLen \in 0 .. BlockLen - 1
    BY <1>1, Division
  <2>4. k - i \in 0 .. BlockLen - 1
    BY <2>2, <2>3, Zenon
  <2> HIDE DEF i
  <2> QED
    BY <1>1, <2>2, <2>4
<1>3. /\ update(m, input).state = m.state \o Blocks(waiting \o taken)
      /\ b = Overlay(first, 0, rest)
  <2>1. 0 + 1 = 1
    OBVIOUS
  <2> QED
    BY <1>1, <1>2, <2>1, UpdateFields
<1> HIDE DEF b, r, k, i
<1>4. /\ head \in Seq(Bytes) /\ Len(head) = part
      /\ taken \in Seq(Bytes) /\ Len(taken) = i /\ \A j \in 1 .. i : taken[j] = input[j]
      /\ waiting \in Seq(Bytes) /\ Len(waiting) = r /\ \A j \in 1 .. r : waiting[j] = m.buffer[j]
      /\ rest \in Seq(Bytes) /\ Len(rest) = k - i /\ \A j \in 1 .. k - i : rest[j] = input[i + j]
  <2>1. /\ 0 \in Nat /\ part \in Nat /\ 0 <= part /\ i \in Nat /\ 0 <= i /\ i <= k /\ r \in Nat /\ 0 <= r
        /\ \A j \in 0 + 1 .. part : input[j] \in Bytes
        /\ \A j \in 0 + 1 .. i : input[j] \in Bytes
        /\ \A j \in i + 1 .. k : input[j] \in Bytes
        /\ \A j \in 0 + 1 .. r : m.buffer[j] \in Bytes
    <3> HIDE DEF Bytes
    <3>1. 0 \in Nat /\ part \in Nat /\ 0 <= part /\ i \in Nat /\ 0 <= i /\ i <= k /\ r \in Nat /\ 0 <= r /\ part <= k
      BY <1>1, <1>2
    <3>2. \A j : \/ j \in 0 + 1 .. part \/ j \in 0 + 1 .. i \/ j \in i + 1 .. k => j \in 1 .. k
      <4> HIDE DEF part
      <4> QED BY <1>1, <3>1
    <3>3. \A j \in 0 + 1 .. r : j \in 1 .. BlockLen
      BY <1>1
    <3>4. \A j \in 0 + 1 .. r : m.buffer[j] \in Bytes
      BY <1>1, <3>3
    <3> HIDE DEF part
    <3> QED BY <1>1, <3>1, <3>2, <3>4, Zenon
  <2>2. /\ head \in Seq(Bytes) /\ Len(head) = part - 0
        /\ taken \in Seq(Bytes) /\ Len(taken) = i - 0 /\ \A j \in 1 .. i - 0 : taken[j] = input[0 + j]
        /\ waiting \in Seq(Bytes) /\ Len(waiting) = r - 0 /\ \A j \in 1 .. r - 0 : waiting[j] = m.buffer[0 + j]
        /\ rest \in Seq(Bytes) /\ Len(rest) = k - i /\ \A j \in 1 .. k - i : rest[j] = input[i + j]
    BY <1>1, <2>1, Piece, Zenon
  <2> HIDE DEF head, taken, waiting, rest
  <2>3. /\ part - 0 = part /\ i - 0 = i /\ r - 0 = r
        /\ \A j \in 1 .. i : 0 + j = j
        /\ \A j \in 1 .. r : 0 + j = j
    BY <2>1
  <2> QED
    BY <2>2, <2>3
<1> HIDE DEF head, taken, waiting, rest
<1>5. /\ first \in [1 .. BlockLen -> Bytes]
      /\ \A j \in 1 .. r : first[j] = m.buffer[j]
  <2> HIDE DEF Bytes
  <2>1. /\ first \in [1 .. BlockLen -> Bytes]
        /\ \A j \in 1 .. BlockLen : j <= r \/ j > r + Len(head) => first[j] = m.buffer[j]
    <3>1. r \in Nat /\ m.buffer \in [1 .. BlockLen -> Bytes] /\ head \in Seq(Bytes)
      BY <1>1, <1>4
    <3> QED
      BY <3>1, OverlayProperties, Zenon DEF first
  <2>2. Len(head) = BlockLen - r
    BY <1>4
  <2>3. \A j \in 1 .. r : j \in 1 .. BlockLen /\ j <= r
    BY <1>1
  <2> QED
    BY <2>1, <2>3, Zenon
<1> HIDE DEF first
<1>6. /\ b \in [1 .. BlockLen -> Bytes]
      /\ \A j \in 1 .. BlockLen : j <= 0 \/ j > 0 + (k - i) => b[j] = first[j]
      /\ \A j \in 1 .. k - i : 0 + j <= BlockLen => b[0 + j] = rest[j]
  <2>1. 0 \in Nat
    OBVIOUS
  <2>2. /\ Overlay(first, 0, rest) \in [1 .. BlockLen -> Bytes]
        /\ \A j \in 1 .. BlockLen :
             j <= 0 \/ j > 0 + Len(rest) => Overlay(first, 0, rest)[j] = first[j]
        /\ \A j \in 1 .. Len(rest) :
             0 + j <= BlockLen => Overlay(first, 0, rest)[0 + j] = rest[j]
    BY <1>4, <1>5, <2>1, OverlayProperties, Zenon
  <2> QED
    BY <1>3, <1>4, <2>2, Zenon
<1>7. /\ \A j \in 1 .. k - i : b[j] = input[i + j]
      /\ \A j \in 1 .. r : j > k - i => b[j] = m.buffer[j]
  <2>1. /\ \A j \in 1 .. k - i : j <= BlockLen /\ 0 + j = j
        /\ \A j \in 1 .. r : j \in 1 .. BlockLen /\ 0 + (k - i) = k - i
    BY <1>1, <1>2
  <2> QED
    BY <1>4, <1>5, <1>6, <2>1
<1> DEFINE done == waiting \o taken
<1>8. /\ done \in Seq(Bytes) /\ Len(done) = r + i
      /\ \A j \in 1 .. r + i : done[j] = IF j <= r THEN waiting[j] ELSE taken[j - r]
  <2>1. /\ waiting \o taken \in Seq(Bytes) /\ Len(waiting \o taken) = Len(waiting) + Len(taken)
        /\ \A j \in 1 .. Len(waiting) + Len(taken) : (waiting \o taken)[j] =
             IF j <= Len(waiting) THEN waiting[j] ELSE taken[j - Len(waiting)]
    <3>1. waiting \in Seq(Bytes) /\ taken \in Seq(Bytes)
      BY <1>4
    <3> QED
      BY <3>1, ConcatProperties, Zenon
  <2> QED
    BY <1>4, <2>1, Zenon
<1> HIDE DEF done, part
<1>9. /\ \A j \in 1 .. r : done[j] = m.buffer[j]
      /\ \A j \in 1 .. i : done[r + j] = input[j]
  <2>1. ASSUME NEW j \in 1 .. r PROVE done[j] = m.buffer[j]
    <3>1. j \in 1 .. r + i /\ j <= r
      BY <1>1, <1>2 DEF part
    <3> QED
      BY <1>4, <1>8, <2>1, <3>1, Zenon
  <2>2. ASSUME NEW j \in 1 .. i PROVE done[r + j] = input[j]
    <3>1. r + j \in 1 .. r + i /\ ~ (r + j <= r) /\ (r + j) - r = j
      BY <1>1, <1>2 DEF part
    <3>2. done[r + j] = taken[(r + j) - r]
      BY <1>8, <3>1, Zenon
    <3> QED
      BY <1>4, <3>1, <3>2, Zenon
  <2> QED
    BY <2>1, <2>2
<1> QED
  BY <1>3, <1>6, <1>7, <1>8, <1>9, Zenon DEF done, part, b, r, k, i

LEMMA CountedType ==
    ASSUME NEW count \in (0 .. WordSize - 1) \X (0 .. WordSize - 1), NEW n \in Nat
    PROVE  Counted(count, n) \in (0 .. WordSize - 1) \X (0 .. WordSize - 1)
<1> DEFINE W == WordSize
           x == count[1] + ((8 * n) % W)
           carry == IF x % W < (8 * n) % W THEN 1 ELSE 0
           y == count[2] + carry + ((8 * n) \div W)
<1>1. W \in Nat /\ W > 0 /\ 8 * n \in Nat /\ count[1] \in Nat /\ count[2] \in Nat
  BY Md5Assumption
<1>2. (8 * n) % W \in Nat /\ (8 * n) \div W \in Nat
  <2> HIDE DEF W
  <2> QED BY <1>1, Division
<1>3. x \in Nat /\ carry \in Nat
  BY <1>1, <1>2
<1>4. y \in Nat
  <2> HIDE DEF carry
  <2> QED BY <1>1, <1>2, <1>3
<1>5. Counted(count, n) = <<x % W, y % W>>
  BY Zenon DEF Counted, W, x, carry, y
<1> HIDE DEF W, x, y
<1>6. x % W \in 0 .. W - 1 /\ y % W \in 0 .. W - 1
  BY <1>1, <1>3, <1>4, Division
<1> QED
  BY <1>5, <1>6 DEF W

\* update() keeps the types, whatever the buffer holds.
LEMMA UpdateTypes ==
    ASSUME NEW m \in Md5Types, NEW input \in Seq(Bytes)
    PROVE  update(m, input) \in Md5Types /\ update(m, input).digest = m.digest
<1> DEFINE after == update(m, input)
<1>1. /\ m.count \in (0 .. WordSize - 1) \X (0 .. WordSize - 1)
      /\ m.state \in Seq(Block) /\ m.digest \in Seq(Block)
  BY DEF Md5Types
<1>2. Index(m.count) \in 0 .. BlockLen - 1 /\ BlockLen \in Nat /\ Len(input) \in Nat
  BY <1>1, IndexType, Md5Assumption, LenProperties
<1>3. /\ after.digest = m.digest
      /\ after \in [count : {Counted(m.count, Len(input))}, buffer : {after.buffer},
                    state : {after.state}, digest : {m.digest}]
  BY UpdateFields, Zenon
<1>4. Counted(m.count, Len(input)) \in (0 .. WordSize - 1) \X (0 .. WordSize - 1)
  BY <1>1, <1>2, CountedType
<1>5. after.buffer \in [1 .. BlockLen -> Bytes] /\ after.state \in Seq(Block)
  <2>1. CASE Len(input) < BlockLen - Index(m.count)
    BY <1>1, <2>1, UpdateSmall, Zenon
  <2>2. CASE Len(input) >= BlockLen - Index(m.count)
    <3>1. after.buffer \in [1 .. BlockLen -> Bytes]
      BY <2>2, UpdateBig, Zenon
    <3>2. PICK done \in Seq(Bytes) : after.state = m.state \o Blocks(done)
      BY <2>2, UpdateBig, Zenon
    <3> QED
      <4>1. Blocks(done) \in Seq(Block)
        BY BlocksProperties, Zenon
      <4>2. m.state \o Blocks(done) \in Seq(Block)
        BY <1>1, <4>1, ConcatProperties, Zenon
      <4> QED
        BY <3>1, <3>2, <4>2, Zenon
  <2> QED
    BY <1>2, <2>1, <2>2
<1> HIDE DEF after
<1> QED
  BY <1>1, <1>3, <1>4, <1>5 DEF after, Md5Types

\* An object that has absorbed f has absorbed f and the piece after update().
LEMMA UpdateFits ==
    ASSUME NEW m \in Md5Types, NEW f \in Seq(Bytes), NEW input \in Seq(Bytes), Fits(m, f)
    PROVE  Fits(update(m, input), f \o input)
<1> DEFINE after == update(m, input)
           n == Len(f)
           k == Len(input)
           g == f \o input
           B == BlockLen
           q == n \div B
           r == n % B
           w == Whole(n)
<1>1. n \in Nat /\ k \in Nat /\ B \in Nat /\ B > 0
  BY LenProperties, Md5Assumption
<1>2. /\ g \in Seq(Bytes) /\ Len(g) = n + k
      /\ \A j \in 1 .. n + k : g[j] = IF j <= n THEN f[j] ELSE input[j - n]
  BY ConcatProperties, Zenon
<1>3. /\ m.count = Bits(n) /\ m.state = Blocks(f)
      /\ \A j \in 1 .. r : m.buffer[j] = f[w + j]
      /\ Index(m.count) = r
  <2>1. Fits(m, f)
    OBVIOUS
  <2> QED
    BY <1>1, <2>1, IndexOfBits, Zenon DEF Fits, n, r, B, w
<1>4. after.count = Bits(n + k)
  <2>1. after.count = Counted(m.count, k)
    BY UpdateFields, Zenon
  <2> QED
    BY <1>1, <1>3, <2>1, CountedBits, Zenon
<1>5. /\ r \in 0 .. B - 1 /\ n = w + r /\ w \in Nat
  BY <1>1, Cut, Zenon DEF n, r, w, B
<1>6. \A j \in 1 .. k : g[n + j] = input[j]
  <2> HIDE DEF g, n, k
  <2>1. ASSUME NEW j \in 1 .. k PROVE g[n + j] = input[j]
    <3>1. n + j \in 1 .. n + k /\ ~ (n + j <= n) /\ (n + j) - n = j
      BY <1>1
    <3> QED
      BY <1>2, <3>1, Zenon
  <2> QED
    BY <2>1
<1>7. \A j \in 1 .. n : g[j] = f[j]
  <2> HIDE DEF g, n, k
  <2>1. \A j \in 1 .. n : j \in 1 .. n + k /\ j <= n
    BY <1>1
  <2> QED
    BY <1>2, <2>1, Zenon
<1>8. \A j \in 1 .. r : m.buffer[j] = g[w + j]
  <2> HIDE DEF g, n, k, r, w
  <2>1. \A j \in 1 .. r : w + j \in 1 .. n
    BY <1>1, <1>5
  <2> QED
    BY <1>3, <1>7, <2>1, Zenon
<1>9. ASSUME k < B - r
      PROVE  /\ after.state = Blocks(g)
             /\ \A j \in 1 .. (n + k) % B : after.buffer[j] = g[Whole(n + k) + j]
  <2>1. /\ after.state = m.state
        /\ \A j \in 1 .. r : after.buffer[j] = m.buffer[j]
        /\ \A j \in 1 .. k : after.buffer[r + j] = input[j]
    <3>1. Len(input) < BlockLen - Index(m.count)
      BY <1>3, <1>9, Zenon
    <3>2. /\ after.state = m.state
          /\ \A j \in 1 .. Index(m.count) : after.buffer[j] = m.buffer[j]
          /\ \A j \in 1 .. k : after.buffer[Index(m.count) + j] = input[j]
      BY <3>1, UpdateSmall, Zenon
    <3> HIDE DEF after, r, k
    <3> QED
      BY <1>3, <3>2
  <2>2. (n + k) \div B = q /\ (n + k) % B = r + k
    BY <1>1, <1>9, Cut, Zenon
  <2>3. Whole(n + k) = w
    BY <2>2, Zenon DEF Whole
  <2>4. Blocks(g) = Blocks(f)
    <3>1. <<>> \in Seq(Bytes) /\ Len(<<>>) = 0
      BY EmptySeq
    <3>2. 0 \div B = 0
      <4> HIDE DEF B
      <4> QED BY <1>1, DivMod
    <3>3. Whole(0) = 0
      BY <1>1, <3>2 DEF Whole
    <3>4. /\ Len(g) \div B = (Len(f) \div B) + (Len(<<>>) \div B)
          /\ \A j \in 1 .. Whole(Len(<<>>)) : g[Whole(Len(f)) + j] = <<>>[j]
      <4>1. q \in Nat
        BY <1>1, Division, Zenon
      <4> HIDE DEF q
      <4>2. q = q + 0
        BY <4>1
      <4>3. Len(g) \div B = q + 0 /\ Len(<<>>) \div B = 0
        BY <1>2, <2>2, <3>1, <3>2, <4>2, Zenon
      <4>4. \A j \in 1 .. 0 : FALSE
        OBVIOUS
      <4> QED
        BY <3>1, <3>3, <4>3, <4>4, Zenon DEF q
    <3>5. \A j \in 1 .. Whole(Len(f)) : g[j] = f[j]
      <4>1. \A j \in 1 .. w : j \in 1 .. n
        <5> HIDE DEF n, r, w
        <5> QED BY <1>1, <1>5
      <4> QED
        BY <1>7, <4>1, Zenon
    <3>6. Blocks(g) = Blocks(f) \o Blocks(<<>>)
      BY <1>2, <3>1, <3>4, <3>5, BlocksSplit, Zenon
    <3>7. Blocks(<<>>) = <<>>
      <4>1. Blocks(<<>>) \in Seq(Block) /\ Len(Blocks(<<>>)) = 0
        BY <3>1, <3>2, BlocksProperties
      <4> QED
        BY <4>1, EmptySeq
    <3>8. Blocks(f) \in Seq(Block)
      BY BlocksProperties
    <3> QED
      BY <3>6, <3>7, <3>8, ConcatEmptySeq
  <2>5. ASSUME NEW j \in 1 .. r + k PROVE after.buffer[j] = g[w + j]
    <3> HIDE DEF after, g, n, k, r, w
    <3>1. CASE j <= r
      <4>1. j \in 1 .. r
        BY <1>1, <1>5, <3>1
      <4> QED
        BY <1>8, <2>1, <4>1, Zenon
    <3>2. CASE ~ (j <= r)
      <4> DEFINE h == j - r
      <4>1. h \in 1 .. k /\ j = r + h /\ w + j = n + h
        BY <1>1, <1>5, <3>2
      <4> HIDE DEF h
      <4> QED
        BY <1>6, <2>1, <4>1, Zenon
    <3> QED
      BY <3>1, <3>2
  <2> QED
    BY <1>3, <2>1, <2>2, <2>3, <2>4, <2>5, Zenon
<1>10. ASSUME k >= B - r
       PROVE  /\ after.state = Blocks(g)
              /\ \A j \in 1 .. (n + k) % B : after.buffer[j] = g[Whole(n + k) + j]
  <2> DEFINE part == B - r
             t == (k - part) \div B
             i == part + B * t
  <2>1. /\ \A j \in 1 .. k - i : after.buffer[j] = input[i + j]
        /\ \E done \in Seq(Bytes) :
             /\ after.state = m.state \o Blocks(done)
             /\ Len(done) = r + i
             /\ \A j \in 1 .. r : done[j] = m.buffer[j]
             /\ \A j \in 1 .. i : done[r + j] = input[j]
    <3> DEFINE x == Index(m.count)
               p == B - x
               c == p + B * ((k - p) \div B)
    <3>1. Len(input) >= BlockLen - Index(m.count)
      BY <1>3, <1>10, Zenon
    <3>2. /\ \A j \in 1 .. k - c : after.buffer[j] = input[c + j]
          /\ \E done \in Seq(Bytes) :
               /\ after.state = m.state \o Blocks(done)
               /\ Len(done) = x + c
               /\ \A j \in 1 .. x : done[j] = m.buffer[j]
               /\ \A j \in 1 .. c : done[x + j] = input[j]
      BY <3>1, UpdateBig, Zenon
    <3>3. x = r /\ c = i
      BY <1>3, Zenon
    <3> HIDE DEF x, p, c, after, r, i, k
    <3> QED
      BY <3>2, <3>3, Zenon
  <2>2. /\ t \in Nat /\ i \in part .. k /\ r + i = (t + 1) * B
        /\ (n + k) \div B = q + t + 1
        /\ (n + k) % B = k - i
        /\ Whole(n + k) = n + i
    BY <1>1, <1>10, Cut, Zenon
  <2>3. PICK done \in Seq(Bytes) :
             /\ after.state = m.state \o Blocks(done)
             /\ Len(done) = r + i
             /\ \A j \in 1 .. r : done[j] = m.buffer[j]
             /\ \A j \in 1 .. i : done[r + j] = input[j]
    BY <2>1, Zenon
  <2>4. q \in Nat
    BY <1>1, Division, Zenon
  <2> HIDE DEF after, g, n, k, r, w, i, t, q
  <2>5. Len(done) \div B = t + 1 /\ Whole(Len(done)) = r + i
    <3> DEFINE c == t + 1
    <3>1. c \in Nat /\ c * B + 0 = c * B /\ 0 \in 0 .. B - 1
      BY <1>1, <2>2
    <3>2. Len(done) = c * B
      BY <2>2, <2>3, Zenon
    <3> HIDE DEF c, B
    <3>3. (c * B + 0) \div B = c
      BY <1>1, <3>1, DivMod
    <3>4. Len(done) \div B = c
      BY <3>1, <3>2, <3>3, Zenon
    <3>5. Whole(Len(done)) = c * B
      BY <3>4, Zenon DEF Whole, B
    <3> QED
      BY <2>3, <3>2, <3>4, <3>5, Zenon DEF c
  <2>6. Blocks(g) = Blocks(f) \o Blocks(done)
    <3>1. \A j \in 1 .. w : g[j] = f[j]
      <4>1. \A j \in 1 .. w : j \in 1 .. n
        BY <1>1, <1>5
      <4> QED
        BY <1>7, <4>1, Zenon
    <3>2. ASSUME NEW j \in 1 .. r + i PROVE g[w + j] = done[j]
      <4>1. CASE j <= r
        <5>1. j \in 1 .. r
          BY <1>1, <1>5, <2>2, <4>1
        <5> QED
          BY <1>8, <2>3, <5>1, Zenon
      <4>2. CASE ~ (j <= r)
        <5> DEFINE h == j - r
        <5>1. h \in 1 .. i /\ h \in 1 .. k /\ j = r + h /\ w + j = n + h
          BY <1>1, <1>5, <2>2, <4>2
        <5> HIDE DEF h
        <5> QED
          BY <1>6, <2>3, <5>1, Zenon
      <4> QED
        BY <4>1, <4>2
    <3>3. Len(g) \div B = q + (Len(done) \div B)
      <4>1. q + t + 1 = q + (t + 1)
        BY <2>2, <2>4
      <4> QED
        BY <1>2, <2>2, <2>5, <4>1, Zenon
    <3> QED
      <4>1. /\ Len(g) \div BlockLen = (Len(f) \div BlockLen) + (Len(done) \div BlockLen)
            /\ \A j \in 1 .. Whole(Len(f)) : g[j] = f[j]
        BY <3>1, <3>3, Zenon DEF q, w, n
      <4>2. \A j \in 1 .. Whole(Len(done)) : g[Whole(Len(f)) + j] = done[j]
        <5>1. \A j \in 1 .. Whole(Len(done)) : g[w + j] = done[j]
          BY <2>5, <3>2, Zenon
        <5> QED
          BY <5>1, Zenon DEF w, n
      <4> QED
        BY <1>2, <4>1, <4>2, BlocksSplit, Zenon
  <2>7. ASSUME NEW j \in 1 .. k - i PROVE after.buffer[j] = g[n + i + j]
    <3> DEFINE h == i + j
    <3>1. h \in 1 .. k /\ n + i + j = n + h
      BY <1>1, <1>5, <2>2
    <3> HIDE DEF h
    <3>2. g[n + h] = input[h]
      BY <1>6, <3>1, Zenon
    <3>3. after.buffer[j] = input[h]
      BY <2>1, Zenon DEF h
    <3> QED
      BY <3>1, <3>2, <3>3, Zenon
  <2> QED
    BY <1>3, <2>2, <2>3, <2>6, <2>7, Zenon
<1>11. /\ after.state = Blocks(g)
       /\ \A j \in 1 .. (n + k) % B : after.buffer[j] = g[Whole(n + k) + j]
  <2>1. k < B - r \/ k >= B - r
    <3> HIDE DEF k, B, r
    <3> QED BY <1>1, <1>5
  <2> QED
    BY <1>9, <1>10, <2>1, Zenon
<1> QED
  BY <1>2, <1>4, <1>11, Zenon DEF Fits

-----------------------------------------------------------------------------
(* MD5: padding, and the digest.                                             *)

\* The padding of n bytes: it leaves room for the length field, and no more.
LEMMA PadLength ==
    ASSUME NEW n \in Nat
    PROVE  LET p == PadLen(Bits(n))
               r == n % BlockLen
           IN  /\ p \in 1 .. BlockLen
               /\ r < BlockLen - 2 => p = BlockLen - 2 - r
               /\ p - 1 = CHOOSE k \in 0 .. BlockLen - 1 : (n + 1 + k + 2) % BlockLen = 0
<1> DEFINE B == BlockLen
           p == PadLen(Bits(n))
           r == n % B
           w == Whole(n)
           q == n \div B
<1>1. B \in Nat /\ B > 2
  BY Md5Assumption
<1>2. r \in 0 .. B - 1 /\ n = w + r /\ w \in Nat
  BY Cut, Zenon
<1>3. q \in Nat /\ w = q * B
  <2>1. q \in Nat
    BY <1>1, Division
  <2> QED
    BY <2>1, Zenon DEF Whole, w, q, B
<1>4. p = IF r < B - 2 THEN (B - 2) - r ELSE (B - 2) + B - r
  BY IndexOfBits DEF PadLen
<1> HIDE DEF p, r, w, q, B
<1>5. p \in 1 .. B /\ (r < B - 2 => p = B - 2 - r)
  BY <1>1, <1>2, <1>4
<1> DEFINE Fills(k) == (n + 1 + k + 2) % B = 0
<1>6. p - 1 \in 0 .. B - 1 /\ Fills(p - 1)
  <2>1. CASE r < B - 2
    <3>1. n + 1 + (p - 1) + 2 = (q + 1) * B + 0
      BY <1>1, <1>2, <1>3, <1>4, <2>1
    <3>2. ((q + 1) * B + 0) % B = 0
      BY <1>1, <1>3, DivMod
    <3> QED
      BY <1>5, <1>1, <3>1, <3>2
  <2>2. CASE ~ (r < B - 2)
    <3>1. n + 1 + (p - 1) + 2 = (q + 2) * B + 0
      BY <1>1, <1>2, <1>3, <1>4, <2>2
    <3>2. ((q + 2) * B + 0) % B = 0
      BY <1>1, <1>3, DivMod
    <3> QED
      BY <1>5, <1>1, <3>1, <3>2
  <2> QED
    BY <2>1, <2>2
<1>7. ASSUME NEW k \in 0 .. B - 1, NEW l \in 0 .. B - 1, Fills(k), Fills(l), k < l PROVE FALSE
  <2> DEFINE x == n + 1 + k + 2
             y == n + 1 + l + 2
             a == x \div B
             b == y \div B
  <2>1. x \in Nat /\ y \in Nat /\ x < y /\ y < x + B
    BY <1>1, <1>7
  <2>2. a \in Nat /\ b \in Nat /\ x = a * B + (x % B) /\ y = b * B + (y % B)
    <3> HIDE DEF x, y
    <3> QED BY <1>1, <2>1, Division
  <2>3. x % B = 0 /\ y % B = 0
    BY <1>7
  <2> HIDE DEF x, y, a, b
  <2>4. x = a * B /\ y = b * B
    <3>1. a * B \in Nat /\ b * B \in Nat
      BY <1>1, <2>2
    <3> QED
      BY <2>2, <2>3, <3>1
  <2>5. ASSUME b <= a PROVE FALSE
    <3>1. b * B <= a * B
      BY <1>1, <2>2, <2>5
    <3> QED
      BY <2>1, <2>4, <3>1
  <2>6. ASSUME a < b PROVE FALSE
    <3>1. (a + 1) * B <= b * B
      BY <1>1, <2>2, <2>6
    <3>2. (a + 1) * B = a * B + B
      BY <1>1, <2>2
    <3> QED
      BY <1>1, <2>1, <2>4, <3>1, <3>2
  <2> QED
    BY <2>2, <2>5, <2>6
<1>8. p - 1 = CHOOSE k \in 0 .. B - 1 : Fills(k)
  <2>1. \A k \in 0 .. B - 1 : Fills(k) => k = p - 1
    <3> HIDE DEF Fills
    <3>1. ASSUME NEW k \in 0 .. B - 1, Fills(k) PROVE k = p - 1
      <4>1. k < p - 1 \/ p - 1 < k \/ k = p - 1
        BY <1>1, <1>5
      <4> QED
        BY <1>6, <1>7, <3>1, <4>1
    <3> QED
      BY <3>1
  <2> HIDE DEF Fills
  <2> QED
    BY <1>6, <2>1
<1> QED
  BY <1>5, <1>8, Zenon DEF Fills, p, r, B

\* The bytes that final() gives to update().
LEMMA PaddingBytes ==
    ASSUME NEW p \in 1 .. BlockLen, NEW count \in (0 .. WordSize - 1) \X (0 .. WordSize - 1)
    PROVE  /\ SubSeq(PADDING, 1, p) \in Seq(Bytes) /\ Len(SubSeq(PADDING, 1, p)) = p
           /\ encode(count) \in Seq(Bytes) /\ Len(encode(count)) = 2
<1>1. BlockLen \in Nat /\ WordSize \in Nat /\ p \in Nat
  BY Md5Assumption
<1>2. \A j \in 0 + 1 .. p : PADDING[j] \in Bytes
  BY <1>1 DEF PADDING, Bytes
<1>3. SubSeq(PADDING, 0 + 1, p) \in Seq(Bytes) /\ Len(SubSeq(PADDING, 0 + 1, p)) = p - 0
  <2>1. 0 \in Nat /\ 0 <= p
    BY <1>1
  <2> QED
    BY <1>1, <1>2, <2>1, Piece, Zenon
<1>4. 0 + 1 = 1 /\ p - 0 = p
  BY <1>1
<1>5. <<"bits", count[1]>> \in Bytes /\ <<"bits", count[2]>> \in Bytes
  BY <1>1 DEF Bytes
<1>6. encode(count) \in Seq(Bytes) /\ Len(encode(count)) = 2
  <2> HIDE DEF Bytes
  <2> QED BY <1>5 DEF encode
<1> QED
  BY <1>3, <1>4, <1>6

\* digest() takes the digest of the padded message, and where the padding ends the block
\* it began in, the bytes that waited still wait.
LEMMA FinalFits ==
    ASSUME NEW m \in Md5Types, NEW f \in Seq(Bytes), Fits(m, f)
    PROVE  /\ final(m).digest = Blocks(Padded(f))
           /\ Index(m.count) < BlockLen - 2 => Fits(final(m), f)
<1> DEFINE n == Len(f)
           r == n % BlockLen
           p == PadLen(m.count)
           pad == SubSeq(PADDING, 1, p)
           enc == encode(m.count)
           m1 == update(m, pad)
           m2 == update(m1, enc)
<1>1. /\ n \in Nat /\ BlockLen \in Nat /\ BlockLen > 2
      /\ m.count = Bits(n) /\ m.count \in (0 .. WordSize - 1) \X (0 .. WordSize - 1)
      /\ m.state = Blocks(f) /\ \A j \in 1 .. r : m.buffer[j] = f[Whole(n) + j]
  BY LenProperties, Md5Assumption DEF Fits, Md5Types
<1>2. /\ p \in 1 .. BlockLen
      /\ r < BlockLen - 2 => p = BlockLen - 2 - r
      /\ p - 1 = CHOOSE k \in 0 .. BlockLen - 1 : (n + 1 + k + 2) % BlockLen = 0
  BY <1>1, PadLength, Zenon
<1>3. pad \in Seq(Bytes) /\ Len(pad) = p /\ enc \in Seq(Bytes) /\ Len(enc) = 2
  BY <1>1, <1>2, PaddingBytes, Zenon
<1>4. /\ m1 \in Md5Types /\ Fits(m1, f \o pad)
      /\ m2 \in Md5Types /\ f \o pad \in Seq(Bytes) /\ Fits(m2, (f \o pad) \o enc)
      /\ Len(f \o pad) = n + p
  <2>1. m1 \in Md5Types /\ Fits(m1, f \o pad)
    BY <1>3, UpdateTypes, UpdateFits, Zenon
  <2>2. f \o pad \in Seq(Bytes) /\ Len(f \o pad) = n + p
    <3>1. f \o pad \in Seq(Bytes) /\ Len(f \o pad) = Len(f) + Len(pad)
      BY <1>3, ConcatProperties, Zenon
    <3> QED
      BY <1>3, <3>1, Zenon
  <2>3. m2 \in Md5Types /\ Fits(m2, (f \o pad) \o enc)
    BY <1>3, <2>1, <2>2, UpdateTypes, UpdateFits, Zenon
  <2> QED
    BY <2>1, <2>2, <2>3
<1>5. /\ final(m).digest = m2.state /\ final(m).buffer = m2.buffer
      /\ final(m).count = m.count /\ final(m).state = m.state
  <2>1. final(m) = [m EXCEPT !.digest = m2.state, !.buffer = m2.buffer]
    BY Zenon DEF final, m2, m1, enc, pad, p
  <2>2. m = [count |-> m.count, buffer |-> m.buffer, state |-> m.state, digest |-> m.digest]
    BY DEF Md5Types
  <2> HIDE DEF m2
  <2> QED
    BY <2>1, <2>2
<1>6. Padded(f) = (f \o pad) \o enc
  <2> DEFINE zeros == CHOOSE k \in 0 .. BlockLen - 1 : (n + 1 + k + 2) % BlockLen = 0
             bits == <<(8 * n) % WordSize, ((8 * n) \div WordSize) % WordSize>>
  <2>1. Padded(f) = (f \o SubSeq(PADDING, 1, 1 + zeros)) \o encode(bits)
    BY Zenon DEF Padded
  <2>2. bits = m.count
    BY <1>1, Zenon DEF Bits
  <2>3. 1 + zeros = p
    <3> HIDE DEF p
    <3>1. p - 1 = zeros
      BY <1>2, Zenon
    <3> HIDE DEF zeros
    <3> QED
      BY <1>1, <1>2, <3>1
  <2> QED
    BY <2>1, <2>2, <2>3, Zenon
<1>7. final(m).digest = Blocks(Padded(f))
  BY <1>4, <1>5, <1>6, Zenon DEF Fits
<1>8. ASSUME Index(m.count) < BlockLen - 2 PROVE Fits(final(m), f)
  <2>1. Index(m.count) = r /\ r < BlockLen - 2 /\ r \in 0 .. BlockLen - 1
    BY <1>1, <1>8, IndexOfBits, IndexType, Zenon
  <2>2. p = BlockLen - 2 - r /\ p < BlockLen - r /\ r + p = BlockLen - 2
    <3> HIDE DEF p, r
    <3> QED BY <1>1, <1>2, <2>1
  <2>3. \A j \in 1 .. r : m1.buffer[j] = m.buffer[j]
    <3>1. Len(pad) < BlockLen - Index(m.count)
      BY <1>3, <2>1, <2>2, Zenon
    <3>2. \A j \in 1 .. Index(m.count) : m1.buffer[j] = m.buffer[j]
      BY <1>3, <3>1, UpdateSmall, Zenon
    <3> QED
      BY <2>1, <3>2, Zenon
  <2>4. Index(m1.count) = BlockLen - 2
    <3>1. m1.count = Bits(n + p) /\ n + p \in Nat
      <4> HIDE DEF p
      <4>1. n + p \in Nat
        BY <1>1, <1>2
      <4> QED
        BY <1>4, <4>1, Zenon DEF Fits
    <3>2. (n + p) % BlockLen = r + p
      <4>1. p \in Nat
        <5> HIDE DEF p
        <5> QED BY <1>1, <1>2
      <4> QED
        BY <1>1, <2>2, <4>1, Cut, Zenon
    <3> QED
      BY <2>2, <3>1, <3>2, IndexOfBits, Zenon
  <2>5. \A j \in 1 .. r : m2.buffer[j] = m1.buffer[j]
    <3> DEFINE x == Index(m1.count)
               part == BlockLen - x
               i == part + BlockLen * ((Len(enc) - part) \div BlockLen)
    <3>1. /\ \A j \in 1 .. x : j > Len(enc) - i => m2.buffer[j] = m1.buffer[j]
      <4>1. BlockLen - (BlockLen - 2) = 2 /\ 2 >= 2
        BY <1>1
      <4>2. Len(enc) >= BlockLen - Index(m1.count)
        BY <1>3, <2>4, <4>1, Zenon
      <4> QED
        BY <1>3, <1>4, <4>2, UpdateBig, Zenon
    <3>2. i = 2
      <4>1. part = 2 /\ Len(enc) - part = 0
        BY <1>1, <1>3, <2>4
      <4>2. 0 \div BlockLen = 0
        <5>1. (0 * BlockLen + 0) \div BlockLen = 0
          BY <1>1, DivMod
        <5> QED
          BY <1>1, <5>1
      <4>3. i = 2 + BlockLen * 0
        BY <4>1, <4>2, Zenon
      <4> HIDE DEF i
      <4> QED
        BY <1>1, <4>3
    <3> HIDE DEF x, i, m2, m1
    <3>3. ASSUME NEW j \in 1 .. r PROVE m2.buffer[j] = m1.buffer[j]
      <4> HIDE DEF r
      <4>1. x = BlockLen - 2
        BY <2>4, Zenon DEF x, m1
      <4>2. j \in 1 .. x /\ j > Len(enc) - i
        BY <1>1, <1>3, <2>1, <3>2, <4>1
      <4> QED
        BY <3>1, <4>2, Zenon
    <3> QED
      BY <3>3
  <2> QED
    BY <1>1, <1>5, <2>3, <2>5, Zenon DEF Fits
<1> QED
  BY <1>7, <1>8

\* A fresh object, or one that was reset, has absorbed nothing.
LEMMA NothingFits ==
    ASSUME NEW m, m.count = <<0, 0>>, m.state = <<>>
    PROVE  Fits(m, <<>>)
<1>1. BlockLen \in Nat /\ BlockLen > 2 /\ WordSize \in Nat /\ WordSize > 0
  BY Md5Assumption
<1>2. /\ 0 % BlockLen = 0 /\ 0 \div BlockLen = 0
      /\ 0 % WordSize = 0 /\ 0 \div WordSize = 0
  <2>1. 0 * BlockLen + 0 = 0 /\ 0 * WordSize + 0 = 0
    BY <1>1
  <2>2. /\ (0 * BlockLen + 0) % BlockLen = 0 /\ (0 * BlockLen + 0) \div BlockLen = 0
        /\ (0 * WordSize + 0) % WordSize = 0 /\ (0 * WordSize + 0) \div WordSize = 0
    BY <1>1, DivMod
  <2> QED
    BY <2>1, <2>2, Zenon
<1>3. <<>> \in Seq(Bytes) /\ Len(<<>>) = 0
  BY EmptySeq
<1>4. Bits(0) = <<0, 0>>
  <2>1. 8 * 0 = 0
    OBVIOUS
  <2> QED
    BY <1>2, <2>1, Zenon DEF Bits
<1>5. Blocks(<<>>) = <<>>
  <2>1. Blocks(<<>>) \in Seq(Block) /\ Len(Blocks(<<>>)) = 0
    BY <1>2, <1>3, BlocksProperties
  <2> QED
    BY <2>1, EmptySeq
<1>6. \A j \in 1 .. 0 : FALSE
  OBVIOUS
<1> QED
  BY <1>2, <1>3, <1>4, <1>5, <1>6, Zenon DEF Fits

\* The object has absorbed the bytes it was fed unless padding was written over them, and
\* the digest is still the one of the message that was asked for.
Md5Inv ==
  /\ md5 \in Md5Types
  /\ fed \in Seq(Bytes)
  /\ intact \in BOOLEAN
  /\ intact => Fits(md5, fed)
  /\ DigestOfMessage

LEMMA Md5Start == Md5Init => Md5Inv
<1> SUFFICES ASSUME Md5Init PROVE Md5Inv
  OBVIOUS
<1>1. BlockLen \in Nat /\ WordSize \in Nat /\ WordSize > 0
  BY Md5Assumption
<1>2. md5 = [count |-> <<0, 0>>, buffer |-> [i \in 1 .. BlockLen |-> <<"junk", 0>>],
             state |-> <<>>, digest |-> <<>>]
  BY DEF Md5Init, Reset
<1>3. <<"junk", 0>> \in Bytes
  BY DEF Bytes
<1>4. md5 \in Md5Types
  <2>1. <<>> \in Seq(Block)
    BY EmptySeq
  <2>2. [i \in 1 .. BlockLen |-> <<"junk", 0>>] \in [1 .. BlockLen -> Bytes]
    BY <1>3
  <2>3. <<0, 0>> \in (0 .. WordSize - 1) \X (0 .. WordSize - 1)
    BY <1>1
  <2> QED
    BY <1>2, <2>1, <2>2, <2>3 DEF Md5Types
<1>5. Fits(md5, <<>>)
  BY <1>2, NothingFits
<1>6. fed = <<>> /\ asked = <<>> /\ intact = TRUE /\ fed \in Seq(Bytes)
  BY EmptySeq DEF Md5Init
<1> QED
  BY <1>4, <1>5, <1>6 DEF Md5Inv, DigestOfMessage

LEMMA DataBytes ==
    ASSUME NEW from \in Nat, NEW n \in Nat
    PROVE  Data(from, n) \in Seq(Bytes)
<1>1. \A i \in 1 .. n : <<"data", from + i>> \in Bytes
  BY DEF Bytes
<1> HIDE DEF Bytes
<1>2. [i \in 1 .. n |-> <<"data", from + i>>] \in Seq(Bytes)
  BY <1>1, IsASeq
<1> QED
  BY <1>2 DEF Data

LEMMA Md5Kept == Md5Inv /\ [Md5Next]_md5Vars => Md5Inv'
<1> SUFFICES ASSUME Md5Inv, [Md5Next]_md5Vars PROVE Md5Inv'
  OBVIOUS
<1>1. /\ md5 \in Md5Types /\ fed \in Seq(Bytes) /\ intact \in BOOLEAN
      /\ intact => Fits(md5, fed)
      /\ asked # <<>> => md5.digest = Blocks(Padded(asked[1]))
  BY DEF Md5Inv, DigestOfMessage
<1>2. CASE Md5Reset
  <2>1. /\ md5' = [md5 EXCEPT !.count = <<0, 0>>, !.state = <<>>]
        /\ fed' = <<>> /\ intact' = TRUE /\ asked' = asked
    BY <1>2 DEF Md5Reset, Reset
  <2>2. md5' \in Md5Types /\ md5'.count = <<0, 0>> /\ md5'.state = <<>> /\ md5'.digest = md5.digest
    <3>1. <<>> \in Seq(Block) /\ <<0, 0>> \in (0 .. WordSize - 1) \X (0 .. WordSize - 1)
      BY EmptySeq, Md5Assumption
    <3> QED
      BY <1>1, <2>1, <3>1 DEF Md5Types
  <2>3. Fits(md5', <<>>)
    BY <2>2, NothingFits
  <2>4. fed' \in Seq(Bytes)
    BY <2>1, EmptySeq
  <2> QED
    BY <1>1, <2>1, <2>2, <2>3, <2>4, Zenon DEF Md5Inv, DigestOfMessage
<1>3. CASE Md5Update
  <2>1. PICK n \in Pieces :
            /\ md5' = update(md5, Data(Len(fed), n))
            /\ fed' = fed \o Data(Len(fed), n)
            /\ asked' = asked /\ intact' = intact
    BY <1>3 DEF Md5Update
  <2> DEFINE input == Data(Len(fed), n)
  <2>2. input \in Seq(Bytes)
    <3>1. n \in Nat /\ Len(fed) \in Nat
      BY <1>1, Md5Assumption, LenProperties
    <3> QED
      BY <3>1, DataBytes
  <2>3. update(md5, input) \in Md5Types /\ update(md5, input).digest = md5.digest
    BY <1>1, <2>2, UpdateTypes, Zenon
  <2>4. intact => Fits(update(md5, input), fed \o input)
    BY <1>1, <2>2, UpdateFits, Zenon
  <2>5. fed \o input \in Seq(Bytes)
    BY <1>1, <2>2, ConcatProperties, Zenon
  <2> QED
    BY <1>1, <2>1, <2>3, <2>4, <2>5, Zenon DEF Md5Inv, DigestOfMessage
<1>4. CASE Md5Digest
  <2>1. /\ md5' = final(md5) /\ fed' = fed
        /\ asked' = IF intact THEN <<fed>> ELSE <<>>
        /\ intact' = (intact /\ Index(md5.count) < BlockLen - 2)
    BY <1>4 DEF Md5Digest
  <2>2. final(md5) \in Md5Types
    <3> DEFINE p == PadLen(md5.count)
               m1 == update(md5, SubSeq(PADDING, 1, p))
               m2 == update(m1, encode(md5.count))
    <3>1. md5.count \in (0 .. WordSize - 1) \X (0 .. WordSize - 1)
      BY <1>1 DEF Md5Types
    <3>2. p \in 1 .. BlockLen
      BY <3>1, IndexType, Md5Assumption DEF PadLen
    <3>3. m1 \in Md5Types
      BY <1>1, <3>1, <3>2, PaddingBytes, UpdateTypes, Zenon
    <3>4. m2 \in Md5Types
      BY <3>1, <3>2, <3>3, PaddingBytes, UpdateTypes, Zenon
    <3>5. final(md5) = [md5 EXCEPT !.digest = m2.state, !.buffer = m2.buffer]
      BY Zenon DEF final, m1, m2, p
    <3> HIDE DEF m2
    <3> QED
      BY <1>1, <3>4, <3>5 DEF Md5Types
  <2>3. CASE intact
    <3>1. /\ final(md5).digest = Blocks(Padded(fed))
          /\ Index(md5.count) < BlockLen - 2 => Fits(final(md5), fed)
      BY <1>1, <2>3, FinalFits, Zenon
    <3>2. asked' = <<fed>> /\ <<fed>>[1] = fed
      BY <2>1, <2>3
    <3>3. asked'[1] = fed
      BY <3>2
    <3> QED
      BY <1>1, <2>1, <2>2, <3>1, <3>3, Zenon DEF Md5Inv, DigestOfMessage
  <2>4. CASE ~ intact
    <3>1. asked' = <<>> /\ intact' = FALSE
      BY <2>1, <2>4
    <3> QED
      BY <1>1, <2>1, <2>2, <3>1 DEF Md5Inv, DigestOfMessage
  <2> QED
    BY <2>3, <2>4
<1>5. CASE UNCHANGED md5Vars
  BY <1>1, <1>5 DEF Md5Inv, DigestOfMessage, md5Vars
<1> QED
  BY <1>2, <1>3, <1>4, <1>5 DEF Md5Next

\* The count stays in its two words and every block is whole.
THEOREM Md5TypeCorrect == Md5Spec => []Md5TypeOK
<1>1. Md5Inv => Md5TypeOK
  <2> SUFFICES ASSUME Md5Inv PROVE Md5TypeOK
    OBVIOUS
  <2>1. /\ md5.count \in (0 .. WordSize - 1) \X (0 .. WordSize - 1)
        /\ md5.buffer \in [1 .. BlockLen -> Bytes]
        /\ md5.state \in Seq(Block) /\ md5.digest \in Seq(Block)
    BY DEF Md5Inv, Md5Types
  <2>2. md5.buffer \in Seq(Bytes) /\ Len(md5.buffer) = BlockLen
    <3> HIDE DEF Bytes
    <3>1. BlockLen \in Nat
      BY Md5Assumption
    <3> QED
      BY <2>1, <3>1
  <2>3. ASSUME NEW s \in Seq(Block), NEW b \in Range(s) PROVE b \in Seq(Bytes) /\ Len(b) = BlockLen
    <3>1. PICK k \in DOMAIN s : b = s[k]
      BY <2>3 DEF Range
    <3>2. s[k] \in Block
      BY <3>1, LenProperties, ElementOfSeq
    <3> QED
      BY <3>1, <3>2 DEF Block
  <2> QED
    BY <2>1, <2>2, <2>3 DEF Md5TypeOK
<1> QED
  BY <1>1, Md5Start, Md5Kept, PTL DEF Md5Spec

\* The blocks hash_final() has put through the function are those of the message padded, its
\* length in bits at the end, however update() was given it and whatever was hashed before.
THEOREM DigestsOfMessages == Md5Spec => []DigestOfMessage
<1>1. Md5Inv => DigestOfMessage
  BY DEF Md5Inv
<1> QED
  BY <1>1, Md5Start, Md5Kept, PTL DEF Md5Spec

-----------------------------------------------------------------------------
(* The loads of the vnodes (NameHash).                                       *)

\* The two digits that hash to a key, whatever the second is: only every other counts.
LEMMA HashOfDigits ==
    ASSUME NEW k \in 0 .. Keys - 1, NEW other
    PROVE  bkdr_hash(<<k, other>>) = k
<1> DEFINE str == <<k, other>>
           Loop(g) == [i \in 0 .. (Len(str) + 1) \div 2 |->
                         IF i = 0 THEN 0 ELSE (g[i - 1] * 131 + str[2 * i - 1]) % HashSize]
           h == CHOOSE g : g = Loop(g)
           f == [i \in 0 .. 1 |-> IF i = 0 THEN 0 ELSE k]
<1>1. Keys \in Nat /\ HashSize \in Nat /\ HashSize > 0 /\ k \in Nat /\ k \in 0 .. HashSize - 1
  BY NameHashAssumption
<1>2. (Len(str) + 1) \div 2 = 1 /\ str[1] = k
  OBVIOUS
<1>3. k % HashSize = k
  <2>1. (0 * HashSize + k) % HashSize = k
    BY <1>1, DivMod
  <2>2. 0 * HashSize + k = k
    BY <1>1
  <2> QED
    BY <2>1, <2>2
<1>4. f = Loop(f)
  <2>1. ASSUME NEW i \in 0 .. 1
        PROVE  f[i] = IF i = 0 THEN 0 ELSE (f[i - 1] * 131 + str[2 * i - 1]) % HashSize
    <3>1. CASE i = 0
      BY <3>1
    <3>2. CASE i = 1
      <4>1. f[i - 1] = 0 /\ 2 * i - 1 = 1 /\ f[i] = k
        BY <3>2
      <4> HIDE DEF f
      <4>2. f[i - 1] * 131 + str[2 * i - 1] = k
        BY <1>1, <1>2, <4>1
      <4> QED
        BY <1>3, <3>2, <4>1, <4>2
    <3> QED
      BY <3>1, <3>2
  <2>2. f = [i \in 0 .. 1 |-> f[i]]
    OBVIOUS
  <2> HIDE DEF f
  <2> QED
    BY <1>2, <2>1, <2>2
<1>5. h = Loop(h)
  BY <1>4, Zenon
<1>6. bkdr_hash(str) = h[(Len(str) + 1) \div 2]
  BY DEF bkdr_hash
<1> HIDE DEF h
<1>7. h = [i \in 0 .. 1 |-> IF i = 0 THEN 0 ELSE (h[i - 1] * 131 + str[2 * i - 1]) % HashSize]
  BY <1>2, <1>5
<1>8. h[0] = 0
  BY <1>7
<1>9. h[1] = (h[1 - 1] * 131 + str[2 * 1 - 1]) % HashSize
  BY <1>7
<1>10. h[1] = k
  <2>1. h[1 - 1] * 131 + str[2 * 1 - 1] = k
    BY <1>1, <1>2, <1>8
  <2> QED
    BY <1>3, <1>9, <2>1
<1> QED
  BY <1>2, <1>6, <1>10

\* How many of the first k keys lie in the partition that begins at a.
Span(k, a, len) == IF k <= a THEN 0 ELSE IF k - a < len THEN k - a ELSE len

\* The partition whose keys go to vnode v, before the rotation.
Home(v, n) == IF v = 0 THEN n - 1 ELSE v - 1

\* What vnode v was given of the first k keys: its partition, and what is left over of
\* the keys when every vnode has had one, if the turn comes to it again.
ShareOf(v, k, n) == Span(k, Home(v, n) * Partition(n), Partition(n))
                    + Span(k, (Home(v, n) + n) * Partition(n), Partition(n))

\* One key more counts for the partition it lies in, and for no other.
LEMMA SpanGrows ==
    ASSUME NEW len \in Nat, NEW c \in Nat, NEW q \in Nat, NEW s \in 0 .. len - 1
    PROVE  /\ Span(q * len + s, c * len, len) \in Nat
           /\ Span(q * len + s + 1, c * len, len)
                = Span(q * len + s, c * len, len) + (IF c = q THEN 1 ELSE 0)
<1> DEFINE a == c * len
           b == q * len
<1>1. a \in Nat /\ b \in Nat
  OBVIOUS
<1>2. CASE c = q
  <2>1. a = b
    BY <1>2
  <2> HIDE DEF a, b
  <2>2. Span(b + s, a, len) = s /\ Span(b + s + 1, a, len) = s + 1
    BY <1>1, <2>1 DEF Span
  <2> QED
    BY <1>2, <2>2 DEF a, b
<1>3. CASE c < q
  <2>1. (c + 1) * len <= q * len /\ (c + 1) * len = a + len
    BY <1>3
  <2>2. a + len <= b
    BY <2>1
  <2> HIDE DEF a, b
  <2>3. Span(b + s, a, len) = len /\ Span(b + s + 1, a, len) = len
    BY <1>1, <2>2 DEF Span
  <2> QED
    BY <1>3, <2>3 DEF a, b
<1>4. CASE q < c
  <2>1. (q + 1) * len <= c * len /\ (q + 1) * len = b + len
    BY <1>4
  <2>2. b + len <= a
    BY <2>1
  <2> HIDE DEF a, b
  <2>3. Span(b + s, a, len) = 0 /\ Span(b + s + 1, a, len) = 0
    BY <1>1, <2>2 DEF Span
  <2> QED
    BY <1>4, <2>3 DEF a, b
<1> QED
  BY <1>2, <1>3, <1>4

\* The vnode a key goes to is the one whose partition, or the one that many vnodes on, it lies in.
LEMMA VnodeOfKey ==
    ASSUME NEW n \in Nat \ {0}, NEW k \in 0 .. Keys - 1, Partition(n) > 0
    PROVE  LET q == k \div Partition(n) IN
           /\ Partition(n) \in Nat /\ q \in Nat
           /\ \E s \in 0 .. Partition(n) - 1 : k = q * Partition(n) + s
           /\ VnodeOf(k, n) \in 0 .. n - 1
           /\ \A v \in 0 .. n - 1 : v = VnodeOf(k, n) <=> (Home(v, n) = q \/ Home(v, n) + n = q)
<1> DEFINE len == Partition(n)
           q == k \div len
           s == k % len
<1>1. Keys \in Nat /\ k \in Nat /\ k < Keys
  BY NameHashAssumption
<1>2. len \in Nat /\ Keys % n \in 0 .. n - 1 /\ Keys = len * n + (Keys % n)
  BY <1>1, Division DEF Partition
<1>3. q \in Nat /\ s \in 0 .. len - 1 /\ k = q * len + s
  <2> HIDE DEF len
  <2> QED BY <1>1, <1>2, Division DEF len
<1>4. q < n + n
  <2> DEFINE e == Keys % n
  <2>1. e \in 0 .. n - 1 /\ Keys = len * n + e
    BY <1>2
  <2> HIDE DEF q, s, len, e
  <2>2. n <= len * n
    <3>1. 1 * n <= len * n
      BY <1>2 DEF len
    <3> QED
      BY <3>1
  <2>3. len * n \in Nat
    BY <1>2
  <2>4. k < (n + n) * len
    <3>1. (n + n) * len = len * n + len * n
      BY <1>2
    <3> QED
      BY <1>1, <2>1, <2>2, <2>3, <3>1
  <2>5. ASSUME q >= n + n PROVE FALSE
    <3>1. (n + n) * len <= q * len
      BY <1>2, <1>3, <2>5
    <3>2. q * len \in Nat /\ (n + n) * len \in Nat
      BY <1>2, <1>3
    <3> QED
      BY <1>1, <1>3, <2>4, <3>1, <3>2
  <2> QED
    BY <1>3, <2>5
<1>5. VnodeOf(k, n) = IF q + 1 < n THEN q + 1 ELSE IF q + 1 < n + n THEN q + 1 - n ELSE 0
  <2>1. VnodeOf(k, n) = (q + 1) % n
    BY DEF VnodeOf
  <2> HIDE DEF q
  <2>2. CASE q + 1 < n
    <3>1. (0 * n + (q + 1)) % n = q + 1
      BY <1>3, <2>2, DivMod
    <3>2. 0 * n + (q + 1) = q + 1
      BY <1>3
    <3> QED
      BY <2>1, <2>2, <3>1, <3>2
  <2>3. CASE ~ (q + 1 < n) /\ q + 1 < n + n
    <3> DEFINE e == (q + 1) - n
    <3>1. e \in 0 .. n - 1 /\ 1 * n + e = q + 1
      BY <1>3, <2>3
    <3> HIDE DEF e
    <3>2. (1 * n + e) % n = e
      BY <3>1, DivMod
    <3>3. VnodeOf(k, n) = e
      BY <2>1, <3>1, <3>2
    <3>4. e = q + 1 - n
      BY <1>3 DEF e
    <3> QED
      BY <2>3, <3>3, <3>4
  <2>4. CASE ~ (q + 1 < n + n)
    <3>1. q + 1 = 2 * n + 0
      BY <1>3, <1>4, <2>4
    <3>2. (2 * n + 0) % n = 0
      BY DivMod
    <3>3. ~ (q + 1 < n)
      BY <1>3, <2>4
    <3> QED
      BY <2>1, <2>4, <3>1, <3>2, <3>3
  <2> QED
    BY <2>2, <2>3, <2>4
<1> HIDE DEF q, s, len
<1>6. VnodeOf(k, n) \in 0 .. n - 1
  BY <1>3, <1>4, <1>5
<1>7. \A v \in 0 .. n - 1 : v = VnodeOf(k, n) <=> (Home(v, n) = q \/ Home(v, n) + n = q)
  BY <1>3, <1>4, <1>5 DEF Home
<1> QED
  BY <1>2, <1>3, <1>6, <1>7 DEF q, s, len

LEMMA GivenGrows ==
    ASSUME NEW n \in Nat \ {0}, NEW k \in 0 .. Keys - 1, Partition(n) > 0, NEW v \in 0 .. n - 1
    PROVE  /\ ShareOf(v, k, n) \in Nat
           /\ ShareOf(v, k + 1, n) = ShareOf(v, k, n) + (IF v = VnodeOf(k, n) THEN 1 ELSE 0)
<1> DEFINE len == Partition(n)
           q == k \div len
           c == Home(v, n)
           d == c + n
<1>1. len \in Nat /\ q \in Nat /\ (v = VnodeOf(k, n) <=> c = q \/ d = q)
  BY VnodeOfKey
<1>2. PICK s \in 0 .. len - 1 : k = q * len + s
  BY VnodeOfKey
<1>3. c \in Nat /\ d \in Nat /\ c # d
  BY DEF Home
<1> HIDE DEF len, q, c, d
<1>4. /\ Span(k, c * len, len) \in Nat
      /\ Span(k + 1, c * len, len) = Span(k, c * len, len) + (IF c = q THEN 1 ELSE 0)
      /\ Span(k, d * len, len) \in Nat
      /\ Span(k + 1, d * len, len) = Span(k, d * len, len) + (IF d = q THEN 1 ELSE 0)
  <2>1. k + 1 = q * len + s + 1
    BY <1>2
  <2>2. /\ Span(q * len + s, c * len, len) \in Nat
        /\ Span(q * len + s + 1, c * len, len)
             = Span(q * len + s, c * len, len) + (IF c = q THEN 1 ELSE 0)
        /\ Span(q * len + s, d * len, len) \in Nat
        /\ Span(q * len + s + 1, d * len, len)
             = Span(q * len + s, d * len, len) + (IF d = q THEN 1 ELSE 0)
    <3>1. \A e \in Nat : /\ Span(q * len + s, e * len, len) \in Nat
                          /\ Span(q * len + s + 1, e * len, len)
                               = Span(q * len + s, e * len, len) + (IF e = q THEN 1 ELSE 0)
      BY <1>1, SpanGrows
    <3> QED
      BY <1>3, <3>1, Zenon
  <2> QED
    BY <1>2, <2>1, <2>2, Zenon
<1>5. ShareOf(v, k, n) = Span(k, c * len, len) + Span(k, d * len, len)
  BY Zenon DEF ShareOf, c, d, len
<1>6. ShareOf(v, k + 1, n) = Span(k + 1, c * len, len) + Span(k + 1, d * len, len)
  BY Zenon DEF ShareOf, c, d, len
<1> DEFINE x == Span(k, c * len, len)
           y == Span(k, d * len, len)
           xx == Span(k + 1, c * len, len)
           yy == Span(k + 1, d * len, len)
<1>7. /\ x \in Nat /\ xx = x + (IF c = q THEN 1 ELSE 0)
      /\ y \in Nat /\ yy = y + (IF d = q THEN 1 ELSE 0)
      /\ ShareOf(v, k, n) = x + y /\ ShareOf(v, k + 1, n) = xx + yy
  BY <1>4, <1>5, <1>6
<1> HIDE DEF x, y, xx, yy
<1> QED
  BY <1>1, <1>3, <1>7

\* When the keys are out, and before the first.
LEMMA GivenEnds ==
    ASSUME NEW n \in Nat \ {0}, NEW v \in 0 .. n - 1
    PROVE  /\ ShareOf(v, 0, n) = 0
           /\ Partition(n) > 0 => ShareOf(v, Keys, n) \in Partition(n) .. 2 * Partition(n)
<1> DEFINE len == Partition(n)
           c == Home(v, n)
           a == c * len
           b == (c + n) * len
<1>1. Keys \in Nat
  BY NameHashAssumption
<1>2. len \in Nat /\ Keys % n \in 0 .. n - 1 /\ Keys = len * n + (Keys % n)
  BY <1>1, Division DEF Partition
<1>3. c \in Nat /\ c + 1 <= n
  BY DEF Home
<1> DEFINE e == Keys % n
<1>4. e \in Nat /\ Keys = len * n + e
  BY <1>2
<1> HIDE DEF len, c, e
<1>5. a \in Nat /\ b \in Nat /\ a + len <= Keys
  <2>1. (c + 1) * len <= n * len
    BY <1>2, <1>3
  <2>2. (c + 1) * len = a + len /\ n * len = len * n
    BY <1>2, <1>3
  <2>3. a \in Nat /\ b \in Nat /\ len * n \in Nat
    BY <1>2, <1>3
  <2> HIDE DEF a, b
  <2> QED
    BY <1>2, <1>4, <2>1, <2>2, <2>3
<1>6. \A k : ShareOf(v, k, n) = Span(k, a, len) + Span(k, b, len)
  BY Zenon DEF ShareOf, c, a, b, len
<1> HIDE DEF a, b
<1>7. ShareOf(v, 0, n) = 0
  BY <1>2, <1>5, <1>6 DEF Span
<1>8. ASSUME len > 0 PROVE ShareOf(v, Keys, n) \in len .. 2 * len
  BY <1>1, <1>2, <1>5, <1>6, <1>8 DEF Span
<1> QED
  BY <1>7, <1>8 DEF len

\* Every vnode has been given its share of the keys handed out so far.
NameInv ==
  /\ nvnode \in VnodeCounts /\ key \in 0 .. Keys
  /\ Partition(nvnode) = 0 => key = 0
  /\ \/ load = <<>> /\ key = 0
     \/ load = [v \in 0 .. nvnode - 1 |-> ShareOf(v, key, nvnode)]

LEMMA NameStart == NameInit => NameInv
<1> SUFFICES ASSUME NameInit PROVE NameInv
  OBVIOUS
<1>1. nvnode \in VnodeCounts /\ key = 0 /\ load = [v \in 0 .. nvnode - 1 |-> 0]
  BY DEF NameInit
<1>2. nvnode \in Nat \ {0} /\ Keys \in Nat
  BY <1>1, NameHashAssumption
<1>3. \A v \in 0 .. nvnode - 1 : ShareOf(v, 0, nvnode) = 0
  BY <1>2, GivenEnds
<1> QED
  BY <1>1, <1>2, <1>3 DEF NameInv

LEMMA NameKept == NameInv /\ [NameNext]_nameVars => NameInv'
<1> SUFFICES ASSUME NameInv, [NameNext]_nameVars PROVE NameInv'
  OBVIOUS
<1>1. /\ nvnode \in VnodeCounts /\ key \in 0 .. Keys
      /\ Partition(nvnode) = 0 => key = 0
      /\ \/ load = <<>> /\ key = 0
         \/ load = [v \in 0 .. nvnode - 1 |-> ShareOf(v, key, nvnode)]
  BY DEF NameInv
<1>2. nvnode \in Nat \ {0} /\ Keys \in Nat /\ Keys > 0
  BY <1>1, NameHashAssumption
<1>3. CASE NameLookup
  <2>1. PICK other \in 0 .. 1 : LET v == get_vnode_id(<<key, other>>, nvnode) IN
            load' = [u \in DOMAIN load \cup {v} |->
                       (IF u \in DOMAIN load THEN load[u] ELSE 0) + (IF u = v THEN 1 ELSE 0)]
    BY <1>3 DEF NameLookup
  <2>2. key < Keys /\ load # <<>> /\ Partition(nvnode) > 0 /\ key' = key + 1 /\ nvnode' = nvnode
    BY <1>3 DEF NameLookup
  <2>3. key \in 0 .. Keys - 1
    BY <1>1, <1>2, <2>2
  <2> DEFINE v == VnodeOf(key, nvnode)
  <2>4. get_vnode_id(<<key, other>>, nvnode) = v
    <3>1. bkdr_hash(<<key, other>>) = key
      BY <2>3, HashOfDigits
    <3>2. key % Keys = key
      <4>1. (0 * Keys + key) % Keys = key
        BY <1>2, <2>3, DivMod
      <4>2. 0 * Keys + key = key
        BY <1>2, <2>3
      <4> QED
        BY <4>1, <4>2
    <3> QED
      BY <3>1, <3>2, Zenon DEF get_vnode_id
  <2>5. v \in 0 .. nvnode - 1
    BY <1>2, <2>2, <2>3, VnodeOfKey, Zenon
  <2>6. load = [u \in 0 .. nvnode - 1 |-> ShareOf(u, key, nvnode)]
    BY <1>1, <2>2
  <2> HIDE DEF v
  <2>7. load' = [u \in DOMAIN load \cup {v} |->
                   (IF u \in DOMAIN load THEN load[u] ELSE 0) + (IF u = v THEN 1 ELSE 0)]
    BY <2>1, <2>4, Zenon
  <2>8. load' = [u \in 0 .. nvnode - 1 |-> load[u] + (IF u = v THEN 1 ELSE 0)]
    <3>1. DOMAIN load = 0 .. nvnode - 1
      BY <2>6
    <3>2. DOMAIN load \cup {v} = DOMAIN load
      BY <2>5, <3>1
    <3> QED
      BY <2>7, <3>1, <3>2
  <2>9. \A u \in 0 .. nvnode - 1 :
           ShareOf(u, key + 1, nvnode) = ShareOf(u, key, nvnode) + (IF u = v THEN 1 ELSE 0)
    BY <1>2, <2>2, <2>3, GivenGrows, Zenon DEF v
  <2>10. load' = [u \in 0 .. nvnode - 1 |-> ShareOf(u, key + 1, nvnode)]
    BY <2>6, <2>8, <2>9
  <2>11. key + 1 \in 0 .. Keys
    BY <1>2, <2>3
  <2>12. ~ (Partition(nvnode) = 0)
    BY <2>2
  <2> QED
    BY <1>1, <2>2, <2>10, <2>11, <2>12, Zenon DEF NameInv
<1>4. CASE NameLookupDies
  BY <1>1, <1>4 DEF NameLookupDies, NameInv
<1>5. CASE UNCHANGED nameVars
  BY <1>1, <1>5 DEF NameInv, nameVars
<1> QED
  BY <1>3, <1>4, <1>5 DEF NameNext

\* Every vnode there is has a count, and no key is handed out twice.
THEOREM NameTypeCorrect == NameSpec => []NameTypeOK
<1>1. NameInv => NameTypeOK
  BY DEF NameInv, NameTypeOK
<1> QED
  BY <1>1, NameStart, NameKept, PTL DEF NameSpec

\* When every key has been looked up, get_vnode_id() has given each vnode at least the keys
\* of one partition and at most those of two, for any number of keys and of vnodes.
THEOREM LoadsStayEven == NameSpec => []LoadsEven
<1>1. NameInv => LoadsEven
  <2> SUFFICES ASSUME NameInv, key = Keys, NEW v \in 0 .. nvnode - 1
               PROVE  load[v] \in Partition(nvnode) .. 2 * Partition(nvnode)
    BY DEF LoadsEven
  <2>1. nvnode \in Nat \ {0} /\ Keys \in Nat \ {0}
    BY NameHashAssumption DEF NameInv
  <2>2. Partition(nvnode) \in Nat /\ Partition(nvnode) # 0
    BY <2>1, Division DEF NameInv, Partition
  <2>3. load[v] = ShareOf(v, Keys, nvnode)
    BY <2>1 DEF NameInv
  <2>4. Partition(nvnode) > 0
    BY <2>2
  <2> QED
    BY <2>1, <2>3, <2>4, GivenEnds
<1> QED
  BY <1>1, NameStart, NameKept, PTL DEF NameSpec

-----------------------------------------------------------------------------
(* The configuration files.  A text is followed line by line: where a line   *)
(* is, what the parser makes of it, and what the fields are after it.        *)

\* The least and the greatest of a set of positions are in it.
LEMMA MinLemma ==
    ASSUME NEW S \in SUBSET Nat, S # {}
    PROVE  Min(S) \in S /\ \A j \in S : Min(S) <= j
<1>1. \E x \in S : \A y \in S : x <= y
  BY FirstOfLemma
<1> QED
  BY <1>1 DEF Min

LEMMA MaxLemma ==
    ASSUME NEW n \in Nat, NEW S \in SUBSET (1 .. n), S # {}
    PROVE  Max(S) \in S /\ \A j \in S : j <= Max(S)
<1> DEFINE bounds == {m \in Nat : \A j \in S : j <= m}
           top == FirstOf(bounds)
<1>1. n \in bounds /\ bounds \subseteq Nat
  OBVIOUS
<1>2. top \in bounds /\ \A m \in bounds : top <= m
  BY <1>1, FirstOfLemma
<1>3. top \in Nat /\ \A j \in S : j \in Int /\ j >= 1 /\ j <= top
  BY <1>2
<1> HIDE DEF top
<1>4. top \in S
  <2> SUFFICES ASSUME top \notin S PROVE FALSE
    OBVIOUS
  <2>1. (top - 1) \in Nat
    <3>1. PICK j \in S : TRUE
      OBVIOUS
    <3>2. j \in Int /\ j >= 1 /\ j <= top
      BY <1>3
    <3> QED
      BY <1>3, <3>2
  <2>2. \A j \in S : j <= (top - 1)
    BY <1>3
  <2>3. (top - 1) \in bounds
    BY <2>1, <2>2
  <2> QED
    BY <1>2, <1>3, <2>3
<1>5. \E x \in S : \A y \in S : x >= y
  BY <1>3, <1>4
<1>6. Max(S) \in S /\ \A y \in S : Max(S) >= y
  BY <1>5 DEF Max
<1> QED
  BY <1>3, <1>6

\* What Find() finds: the first token of a set, or the position after the text.
LEMMA FindHit ==
    ASSUME NEW s \in Seq(TextBytes), NEW from \in Nat \ {0}, NEW T, NEW at \in from .. Len(s),
           s[at] \in T, \A i \in from .. (at - 1) : s[i] \notin T
    PROVE  Find(s, from, T) = at
<1> DEFINE hits == {i \in from .. Len(s) : s[i] \in T}
<1>1. Len(s) \in Nat /\ hits \in SUBSET Nat /\ at \in hits
  OBVIOUS
<1>2. Min(hits) \in hits /\ \A j \in hits : Min(hits) <= j
  BY <1>1, MinLemma
<1>3. Min(hits) = at
  BY <1>1, <1>2
<1> QED
  BY <1>1, <1>3 DEF Find

LEMMA FindMiss ==
    ASSUME NEW s \in Seq(TextBytes), NEW from \in Nat \ {0}, NEW T,
           \A i \in from .. Len(s) : s[i] \notin T
    PROVE  Find(s, from, T) = Len(s) + 1
BY DEF Find

\* The lines of a file put together one after the other.
LEMMA Concatenations ==
    ASSUME NEW T, NEW s \in Seq(Seq(T)), Len(s) # 0
    PROVE  \E g \in [1 .. Len(s) -> Seq(T)] :
             /\ \A i \in 1 .. Len(s) : g[i] = IF i = 1 THEN s[i] ELSE g[i - 1] \o s[i]
             /\ FlattenSeq(s) = g[Len(s)]
<1> DEFINE n == Len(s)
           body(f, m) == [i \in 1 .. m |-> IF i = 1 THEN s[i] ELSE f[i - 1] \o s[i]]
           bad == {m \in Nat : m <= n /\ ~ \E g \in [1 .. m -> Seq(T)] : g = body(g, m)}
           flatten == CHOOSE f : f = body(f, n)
<1>1. n \in Nat \ {0} /\ \A i \in 1 .. n : s[i] \in Seq(T)
  BY LenProperties, ElementOfSeq
<1> HIDE DEF n
<1>2. bad = {}
  <2> SUFFICES ASSUME bad # {} PROVE FALSE
    OBVIOUS
  <2> DEFINE m == FirstOf(bad)
  <2>1. m \in bad /\ \A j \in bad : m <= j
    BY FirstOfLemma
  <2>2. m \in Nat /\ m <= n
    BY <2>1
  <2> HIDE DEF m
  <2>3. m # 0
    <3> SUFFICES ASSUME m = 0 PROVE FALSE
      OBVIOUS
    <3> DEFINE g == [i \in 1 .. 0 |-> <<>>]
    <3>1. g \in [1 .. 0 -> Seq(T)] /\ g = body(g, 0)
      OBVIOUS
    <3> QED
      BY <2>1, <3>1
  <2>4. (m - 1) \in Nat /\ (m - 1) \notin bad /\ (m - 1) <= n
    <3> HIDE DEF bad
    <3> QED
      BY <1>1, <2>1, <2>2, <2>3
  <2>5. PICK h \in [1 .. (m - 1) -> Seq(T)] : h = body(h, m - 1)
    BY <2>4
  <2> DEFINE g == [i \in 1 .. m |->
                     IF i = m THEN (IF m = 1 THEN s[1] ELSE h[m - 1] \o s[m]) ELSE h[i]]
  <2>6. m = 1 \/ (m - 1) \in 1 .. (m - 1)
    BY <2>2, <2>3
  <2>7. g \in [1 .. m -> Seq(T)]
    <3>1. (IF m = 1 THEN s[1] ELSE h[m - 1] \o s[m]) \in Seq(T)
      BY <1>1, <2>2, <2>3, <2>6
    <3>2. \A i \in 1 .. m : i # m => i \in 1 .. (m - 1)
      BY <2>2
    <3> QED
      BY <3>1, <3>2
  <2>8. \A i \in 1 .. m : g[i] = IF i = 1 THEN s[i] ELSE g[i - 1] \o s[i]
    <3> SUFFICES ASSUME NEW i \in 1 .. m
                 PROVE  g[i] = IF i = 1 THEN s[i] ELSE g[i - 1] \o s[i]
      OBVIOUS
    <3>1. i # 1 => (i - 1) \in 1 .. m /\ (i - 1) # m /\ g[i - 1] = h[i - 1]
      BY <2>2
    <3>2. CASE i = m
      BY <3>1, <3>2
    <3>3. CASE i # m
      <4>1. i \in 1 .. (m - 1)
        BY <2>2, <3>3
      <4>2. h[i] = IF i = 1 THEN s[i] ELSE h[i - 1] \o s[i]
        BY <2>5, <4>1
      <4> QED
        BY <3>1, <3>3, <4>2
    <3> QED
      BY <3>2, <3>3
  <2>9. g = body(g, m)
    BY <2>7, <2>8
  <2> HIDE DEF g
  <2> QED
    BY <2>1, <2>7, <2>9
<1>3. PICK g \in [1 .. n -> Seq(T)] : g = body(g, n)
  <2>1. n \notin bad /\ n \in Nat /\ n <= n
    <3> HIDE DEF bad
    <3> QED
      BY <1>1, <1>2
  <2> QED
    BY <2>1
<1>4. flatten = body(flatten, n)
  BY <1>3
<1>5. FlattenSeq(s) = flatten[n]
  BY <1>1 DEF FlattenSeq, n
<1> HIDE DEF flatten
<1>6. \A i \in 1 .. n : flatten[i] = IF i = 1 THEN s[i] ELSE flatten[i - 1] \o s[i]
  BY <1>4
<1> DEFINE odd == {i \in 1 .. n : flatten[i] \notin Seq(T)}
<1>7. odd = {}
  <2> SUFFICES ASSUME odd # {} PROVE FALSE
    OBVIOUS
  <2> DEFINE m == FirstOf(odd)
  <2>1. m \in odd /\ \A j \in odd : m <= j
    <3>1. odd \subseteq Nat
      OBVIOUS
    <3> HIDE DEF odd
    <3> QED
      BY <3>1, FirstOfLemma
  <2> HIDE DEF m
  <2>2. m \in 1 .. n /\ flatten[m] \notin Seq(T)
    BY <2>1
  <2>3. m # 1 => (m - 1) \in 1 .. n /\ flatten[m - 1] \in Seq(T)
    BY <1>1, <2>1, <2>2
  <2> QED
    <3>1. s[m] \in Seq(T) /\ flatten[m] = IF m = 1 THEN s[m] ELSE flatten[m - 1] \o s[m]
      BY <1>1, <1>6, <2>2
    <3>2. m # 1 => flatten[m - 1] \o s[m] \in Seq(T)
      BY <2>3, <3>1
    <3> QED
      BY <2>2, <3>1, <3>2
<1>8. flatten \in [1 .. n -> Seq(T)]
  BY <1>4, <1>7
<1> QED
  BY <1>5, <1>6, <1>8 DEF n

\* The two line ends.
Feeds == {<<"\n">>, <<"\r", "\n">>}

\* A line l in the text b from p on, with what ends it ...
LineIn(b, p, l) ==
  /\ p \in Nat \ {0} /\ p + Len(l) <= Len(b)
  /\ \A i \in 1 .. Len(l) : b[(p + i) - 1] = l[i]
  /\ \/ b[p + Len(l)] \in LineEnds
     \/ /\ b[p + Len(l)] = "\r"
        /\ p + Len(l) + 1 <= Len(b) /\ b[p + Len(l) + 1] = "\n"

\* ... at its last token.
EndOf(b, p, l) == IF b[p + Len(l)] = "\r" THEN p + Len(l) + 1 ELSE p + Len(l)

\* The lines of a file one after the other in its text, line k from start[k] on.
LaidOut(b, lines, start) ==
  LET n == Len(lines) IN
  /\ start \in [1 .. n + 1 -> Nat \ {0}] /\ start[1] = 1
  /\ n = 0 => b[1] = "NUL"
  /\ \A k \in 1 .. n :
       /\ LineIn(b, start[k], lines[k])
       /\ IF b[EndOf(b, start[k], lines[k])] = "NUL" THEN k = n
          ELSE /\ start[k + 1] = EndOf(b, start[k], lines[k]) + 1
               /\ start[k + 1] <= Len(b)
               /\ k = n => b[start[k + 1]] = "NUL"

\* Two texts put together.
LEMMA JoinedText ==
    ASSUME NEW T, NEW a \in Seq(T), NEW c \in Seq(T)
    PROVE  /\ a \o c \in Seq(T) /\ Len(a \o c) = Len(a) + Len(c)
           /\ Len(a) \in Nat /\ Len(c) \in Nat
           /\ \A i \in 1 .. Len(a) : (a \o c)[i] = a[i]
           /\ \A i \in 1 .. Len(c) : (a \o c)[Len(a) + i] = c[i]
OBVIOUS

\* What is put together of the first lines; it starts what is put together of more.
PutTogether(g, s) ==
  \A i \in 1 .. Len(s) : g[i] = IF i = 1 THEN s[i] ELSE g[i - 1] \o s[i]

Continues(t, a) == Len(a) <= Len(t) /\ \A i \in 1 .. Len(a) : t[i] = a[i]

LEMMA GrowingText ==
    ASSUME NEW T, NEW s \in Seq(Seq(T)), NEW n, n = Len(s),
           NEW g \in [1 .. n -> Seq(T)], PutTogether(g, s), NEW j \in 1 .. n
    PROVE  Continues(g[n], g[j])
<1>1. n \in Nat /\ \A i \in 1 .. n : g[i] = IF i = 1 THEN s[i] ELSE g[i - 1] \o s[i]
  BY LenProperties DEF PutTogether
<1> DEFINE fine(m) == Len(g[j]) <= Len(g[m]) /\ \A i \in 1 .. Len(g[j]) : g[m][i] = g[j][i]
           bad == {m \in Nat : m >= j /\ m <= n /\ ~ fine(m)}
<1>2. bad = {}
  <2> SUFFICES ASSUME bad # {} PROVE FALSE
    OBVIOUS
  <2> DEFINE m == FirstOf(bad)
  <2>1. m \in bad /\ \A k \in bad : m <= k
    <3>1. bad \subseteq Nat
      OBVIOUS
    <3> HIDE DEF bad
    <3> QED
      BY <3>1, FirstOfLemma
  <2> HIDE DEF m
  <2>2. m \in Nat /\ m >= j /\ m <= n /\ ~ fine(m)
    BY <2>1
  <2>3. m # j
    BY <2>2
  <2>4. (m - 1) \in Nat /\ (m - 1) >= j /\ (m - 1) <= n
    BY <1>1, <2>2, <2>3
  <2>5. (m - 1) \notin bad
    <3> HIDE DEF bad
    <3> QED
      BY <2>1, <2>4, <2>2
  <2>6. fine(m - 1)
    BY <2>4, <2>5
  <2>7. m \in 1 .. n /\ m # 1 /\ (m - 1) \in 1 .. n
    BY <1>1, <2>2, <2>4
  <2>8. s[m] \in Seq(T)
    BY <1>1, <2>7, ElementOfSeq
  <2>9. g[m - 1] \in Seq(T) /\ g[j] \in Seq(T)
    BY <2>7
  <2>10. g[m] = g[m - 1] \o s[m]
    BY <1>1, <2>7
  <2>11. /\ Len(g[m]) = Len(g[m - 1]) + Len(s[m])
         /\ Len(g[m - 1]) \in Nat /\ Len(s[m]) \in Nat
         /\ \A i \in 1 .. Len(g[m - 1]) : g[m][i] = g[m - 1][i]
    <3> DEFINE a == g[m - 1]
               c == s[m]
    <3>1. a \in Seq(T) /\ c \in Seq(T)
      BY <2>8, <2>9
    <3>2. g[m] = a \o c
      BY <2>10
    <3> HIDE DEF a, c
    <3>3. /\ Len(a \o c) = Len(a) + Len(c)
          /\ Len(a) \in Nat /\ Len(c) \in Nat
          /\ \A i \in 1 .. Len(a) : (a \o c)[i] = a[i]
      BY <3>1, JoinedText
    <3>4. /\ Len(g[m]) = Len(a) + Len(c)
          /\ Len(a) \in Nat /\ Len(c) \in Nat
          /\ \A i \in 1 .. Len(a) : g[m][i] = a[i]
      BY <3>2, <3>3
    <3> QED
      BY <3>4 DEF a, c
  <2>12. Len(g[j]) \in Nat
    BY <2>9
  <2>13. \A i \in 1 .. Len(g[j]) : i \in 1 .. Len(g[m - 1])
    BY <2>6, <2>11, <2>12
  <2>14. Len(g[j]) <= Len(g[m])
    <3> DEFINE x == Len(g[j])
               y == Len(g[m - 1])
               z == Len(s[m])
    <3>1. x \in Nat /\ y \in Nat /\ z \in Nat /\ x <= y /\ Len(g[m]) = y + z
      BY <2>6, <2>11, <2>12
    <3> HIDE DEF x, y, z
    <3>2. x <= Len(g[m])
      BY <3>1
    <3> QED
      BY <3>2 DEF x
  <2>15. \A i \in 1 .. Len(g[j]) : g[m][i] = g[j][i]
    BY <2>6, <2>11, <2>13
  <2> QED
    BY <2>2, <2>14, <2>15
<1>3. n \notin bad /\ n \in Nat /\ n >= j
  <2> HIDE DEF bad
  <2> QED
    BY <1>2, <1>1
<1>4. fine(n)
  BY <1>3
<1> QED
  BY <1>4 DEF Continues

\* A line with its line end at an offset of a text; the last may be without one.
PieceIn(b, off, l, eol) ==
  /\ off + Len(l \o eol) < Len(b)
  /\ \A i \in 1 .. Len(l \o eol) : b[off + i] = (l \o eol)[i]
  /\ eol = <<>> => b[off + Len(l) + 1] = "NUL"

\* A line has no line end in it.
NoFeeds(l) == \A i \in DOMAIN l : l[i] \notin {"\n", "\r", "NUL"}

\* Line ends are made of tokens of a text.
LEMMA FeedTokens ==
    ASSUME NEW eol \in Feeds \cup {<<>>}
    PROVE  eol \in Seq(TextBytes)
<1>1. <<"\n">> \in Seq(TextBytes)
  BY DEF TextBytes
<1>2. <<"\r", "\n">> \in Seq(TextBytes)
  BY DEF TextBytes
<1>3. <<>> \in Seq(TextBytes)
  OBVIOUS
<1> QED
  BY <1>1, <1>2, <1>3 DEF Feeds

LEMMA FeedParts ==
    ASSUME NEW eol \in Feeds \cup {<<>>}
    PROVE  \/ Len(eol) = 0 /\ eol = <<>>
           \/ Len(eol) = 1 /\ eol[1] = "\n" /\ eol # <<>>
           \/ Len(eol) = 2 /\ eol[1] = "\r" /\ eol[2] = "\n" /\ eol # <<>>
BY DEF Feeds

\* Such a piece of a text is a line that ends where the piece does.
LEMMA OneLine ==
    ASSUME NEW b \in Seq(TextBytes), NEW off \in Nat, NEW l \in Seq(TextBytes),
           NoFeeds(l), NEW eol \in Feeds \cup {<<>>}, PieceIn(b, off, l, eol)
    PROVE  /\ LineIn(b, off + 1, l)
           /\ EndOf(b, off + 1, l) = off + Len(l) + (IF eol = <<>> THEN 1 ELSE Len(eol))
           /\ b[EndOf(b, off + 1, l)] = (IF eol = <<>> THEN "NUL" ELSE "\n")
<1> DEFINE n == Len(l)
           text == l \o eol
<1>1. n \in Nat /\ Len(b) \in Nat /\ eol \in Seq(TextBytes)
  <2>2. eol \in Seq(TextBytes)
    BY FeedTokens
  <2> QED
    BY <2>2, LenProperties
<1>2. /\ Len(text) = n + Len(eol)
      /\ \A i \in 1 .. n : text[i] = l[i]
      /\ \A i \in 1 .. Len(eol) : text[n + i] = eol[i]
  BY <1>1, JoinedText
<1>3. /\ off + Len(text) < Len(b) /\ \A i \in 1 .. Len(text) : b[off + i] = text[i]
      /\ eol = <<>> => b[off + n + 1] = "NUL"
  BY DEF PieceIn
<1> HIDE DEF text
<1>4. \/ Len(eol) = 0 /\ eol = <<>>
      \/ Len(eol) = 1 /\ eol[1] = "\n" /\ eol # <<>>
      \/ Len(eol) = 2 /\ eol[1] = "\r" /\ eol[2] = "\n" /\ eol # <<>>
  BY FeedParts
<1> HIDE DEF n
<1>5. \A i \in 1 .. n : i \in 1 .. Len(text) /\ ((off + 1) + i) - 1 = off + i
  BY <1>1, <1>2, <1>4
<1>6. \A i \in 1 .. n : b[((off + 1) + i) - 1] = l[i]
  BY <1>2, <1>3, <1>5
<1>7. /\ (off + 1) \in Nat \ {0} /\ (off + 1) + n <= Len(b)
      /\ Len(eol) = 2 => (off + 1) + n + 1 <= Len(b)
      /\ Len(eol) \in Nat /\ Len(text) = n + Len(eol)
  <2> DEFINE m == Len(eol)
             top == Len(b)
  <2>1. m \in Nat /\ top \in Nat /\ n \in Nat
    BY <1>1, <1>4
  <2>2. Len(text) = n + m /\ off + Len(text) < top
    BY <1>2, <1>3
  <2> HIDE DEF m, top
  <2>3. (off + 1) + n <= top /\ (m = 2 => (off + 1) + n + 1 <= top)
    BY <2>1, <2>2
  <2> QED
    BY <2>1, <2>2, <2>3 DEF m, top
<1>8. CASE Len(eol) = 0 /\ eol = <<>>
  <2>1. b[(off + 1) + n] = "NUL"
    <3>1. (off + 1) + n = off + n + 1
      BY <1>1
    <3> QED
      BY <1>3, <1>8, <3>1
  <2>2. EndOf(b, off + 1, l) = (off + 1) + n
    BY <2>1 DEF EndOf, n
  <2>3. LineIn(b, off + 1, l)
    BY <1>6, <1>7, <2>1 DEF LineIn, LineEnds, n
  <2> QED
    <3>1. EndOf(b, off + 1, l) = off + n + 1
      BY <1>1, <2>2
    <3>2. b[EndOf(b, off + 1, l)] = "NUL"
      BY <2>1, <2>2
    <3>3. (IF eol = <<>> THEN 1 ELSE Len(eol)) = 1 /\ (IF eol = <<>> THEN "NUL" ELSE "\n") = "NUL"
      BY <1>8
    <3> QED
      BY <2>3, <3>1, <3>2, <3>3 DEF n
<1>9. CASE Len(eol) = 1 /\ eol[1] = "\n" /\ eol # <<>>
  <2>1. b[(off + 1) + n] = "\n"
    <3>1. (off + 1) + n = off + (n + 1) /\ (n + 1) \in 1 .. Len(text) /\ 1 \in 1 .. Len(eol)
      BY <1>1, <1>2, <1>9
    <3>2. b[off + (n + 1)] = text[n + 1] /\ text[n + 1] = eol[1]
      BY <1>2, <1>3, <3>1
    <3> QED
      BY <1>9, <3>1, <3>2
  <2>2. EndOf(b, off + 1, l) = (off + 1) + n
    BY <2>1 DEF EndOf, n
  <2>3. LineIn(b, off + 1, l)
    BY <1>6, <1>7, <2>1 DEF LineIn, LineEnds, n
  <2> QED
    BY <1>1, <1>9, <2>1, <2>2, <2>3 DEF n
<1>10. CASE Len(eol) = 2 /\ eol[1] = "\r" /\ eol[2] = "\n" /\ eol # <<>>
  <2>1. b[(off + 1) + n] = "\r"
    <3>1. (off + 1) + n = off + (n + 1) /\ (n + 1) \in 1 .. Len(text) /\ 1 \in 1 .. Len(eol)
      BY <1>1, <1>7, <1>10
    <3>2. b[off + (n + 1)] = text[n + 1] /\ text[n + 1] = eol[1]
      BY <1>2, <1>3, <3>1
    <3> QED
      BY <1>10, <3>1, <3>2
  <2>2. b[(off + 1) + n + 1] = "\n"
    <3>1. (off + 1) + n + 1 = off + (n + 2) /\ (n + 2) \in 1 .. Len(text) /\ 2 \in 1 .. Len(eol)
      BY <1>1, <1>7, <1>10
    <3>2. b[off + (n + 2)] = text[n + 2] /\ text[n + 2] = eol[2]
      BY <1>2, <1>3, <3>1
    <3> QED
      BY <1>10, <3>1, <3>2
  <2>3. EndOf(b, off + 1, l) = (off + 1) + n + 1
    BY <2>1 DEF EndOf, n
  <2>4. (off + 1) + n + 1 <= Len(b)
    BY <1>7, <1>10
  <2>5. LineIn(b, off + 1, l)
    BY <1>6, <1>7, <2>1, <2>2, <2>4 DEF LineIn, LineEnds, n
  <2> QED
    BY <1>1, <1>10, <2>2, <2>3, <2>5 DEF n
<1> QED
  BY <1>4, <1>8, <1>9, <1>10

\* Lines are sequences of tokens of the text, none of which ends a line.
LEMMA LinesOfTokens ==
    ASSUME NEW line \in Lines
    PROVE  line \in Seq(TextBytes) /\ NoFeeds(line)
<1>1. line \in Seq(Tokens) /\ "\n" \notin Tokens /\ "\r" \notin Tokens /\ "NUL" \notin Tokens
  BY LinesAssumption
<1>2. \A i \in DOMAIN line : line[i] \in Tokens
  BY <1>1
<1>3. NoFeeds(line)
  BY <1>1, <1>2 DEF NoFeeds
<1>4. line \in Seq(TextBytes)
  BY <1>1 DEF TextBytes
<1> QED
  BY <1>3, <1>4

\* A carriage return in a text is followed by a line feed.
Fed(t) == \A i \in 1 .. Len(t) : t[i] = "\r" => i < Len(t) /\ t[i + 1] = "\n"

\* What is put together of such texts is one.
LEMMA FedJoined ==
    ASSUME NEW T, NEW a \in Seq(T), NEW c \in Seq(T), Fed(a), Fed(c)
    PROVE  Fed(a \o c)
<1> DEFINE t == a \o c
           n == Len(a)
           m == Len(c)
<1>1. /\ t \in Seq(T) /\ Len(t) = n + m /\ n \in Nat /\ m \in Nat
      /\ \A i \in 1 .. n : t[i] = a[i]
      /\ \A i \in 1 .. m : t[n + i] = c[i]
  BY JoinedText
<1> HIDE DEF t
<1>2. ASSUME NEW i \in 1 .. Len(t), t[i] = "\r" PROVE i < Len(t) /\ t[i + 1] = "\n"
  <2>1. CASE i <= n
    <3>1. i \in 1 .. n
      BY <1>1, <2>1
    <3>2. a[i] = "\r"
      BY <1>1, <1>2, <3>1
    <3>3. i < n /\ a[i + 1] = "\n"
      BY <3>1, <3>2 DEF Fed
    <3>4. (i + 1) \in 1 .. n
      BY <1>1, <3>1, <3>3
    <3> QED
      BY <1>1, <3>3, <3>4
  <2>2. CASE ~ (i <= n)
    <3> DEFINE j == i - n
    <3>1. j \in 1 .. m /\ n + j = i
      BY <1>1, <2>2
    <3>2. c[j] = "\r"
      BY <1>1, <1>2, <3>1
    <3>3. j < m /\ c[j + 1] = "\n"
      BY <3>1, <3>2 DEF Fed
    <3>4. (j + 1) \in 1 .. m /\ n + (j + 1) = i + 1
      BY <1>1, <3>1, <3>3
    <3>5. t[i + 1] = "\n"
      BY <1>1, <3>3, <3>4
    <3> QED
      BY <1>1, <3>1, <3>3, <3>5
  <2> QED
    BY <2>1, <2>2
<1>3. Fed(t)
  BY <1>2 DEF Fed
<1> QED
  BY <1>3 DEF t

LEMMA FedText ==
    ASSUME NEW T, NEW s \in Seq(Seq(T)), Len(s) # 0, \A i \in 1 .. Len(s) : Fed(s[i])
    PROVE  Fed(FlattenSeq(s))
<1> DEFINE n == Len(s)
<1>1. PICK g \in [1 .. n -> Seq(T)] :
        /\ \A i \in 1 .. n : g[i] = IF i = 1 THEN s[i] ELSE g[i - 1] \o s[i]
        /\ FlattenSeq(s) = g[n]
  BY Concatenations
<1>2. n \in Nat \ {0} /\ \A i \in 1 .. n : s[i] \in Seq(T)
  BY LenProperties, ElementOfSeq
<1>3. \A i \in 1 .. n : Fed(s[i])
  OBVIOUS
<1> DEFINE bad == {i \in 1 .. n : ~ Fed(g[i])}
<1> HIDE DEF n
<1>4. bad = {}
  <2> SUFFICES ASSUME bad # {} PROVE FALSE
    OBVIOUS
  <2> DEFINE m == FirstOf(bad)
  <2>1. m \in bad /\ \A j \in bad : m <= j
    <3>1. bad \subseteq Nat
      OBVIOUS
    <3> HIDE DEF bad
    <3> QED
      BY <3>1, FirstOfLemma
  <2> HIDE DEF m
  <2>2. m \in 1 .. n /\ ~ Fed(g[m])
    BY <2>1
  <2>3. CASE m = 1
    BY <1>1, <1>3, <2>2, <2>3
  <2>4. CASE m # 1
    <3>1. (m - 1) \in 1 .. n /\ ~ (m <= m - 1)
      BY <1>2, <2>2, <2>4
    <3>2. (m - 1) \notin bad
      <4> HIDE DEF bad
      <4> QED
        BY <2>1, <3>1
    <3>3. Fed(g[m - 1])
      BY <3>1, <3>2
    <3>4. g[m] = g[m - 1] \o s[m]
      BY <1>1, <2>2, <2>4
    <3>5. g[m - 1] \in Seq(T) /\ s[m] \in Seq(T) /\ Fed(s[m])
      BY <1>2, <1>3, <2>2, <3>1
    <3>6. Fed(g[m - 1] \o s[m])
      BY <3>3, <3>5, FedJoined
    <3> QED
      BY <2>2, <3>4, <3>6
  <2> QED
    BY <2>3, <2>4
<1>5. n \notin bad
  <2> HIDE DEF bad
  <2> QED
    BY <1>4
<1>6. n \in 1 .. n
  BY <1>2
<1>7. Fed(g[n])
  BY <1>5, <1>6
<1> QED
  BY <1>1, <1>7

\* ConfLoad's text: the lines one after the other, when the byte after it is 0.
LEMMA TextLaidOut ==
    ASSUME NEW lines \in Seq(Lines), NEW eol \in Feeds, NEW ended \in BOOLEAN,
           NEW tail \in {"NUL", "?"}
    PROVE  /\ Text(lines, eol, ended, tail) \in Seq(TextBytes)
           /\ Len(Text(lines, eol, ended, tail)) # 0
           /\ Last(Text(lines, eol, ended, tail)) = "NUL"
           /\ Fed(Text(lines, eol, ended, tail))
           /\ tail = "NUL" => \E start : LaidOut(Text(lines, eol, ended, tail), lines, start)
           /\ tail = "NUL" /\ Len(lines) = 0 => Text(lines, eol, ended, tail) = <<"NUL">>
           /\ tail = "?" => Contains(Text(lines, eol, ended, tail), "?")
<1> DEFINE n == Len(lines)
           ends(i) == IF i < n \/ ended THEN eol ELSE <<>>
           s == [i \in 1 .. n |-> lines[i] \o ends(i)]
           t == FlattenSeq(s)
           b == Text(lines, eol, ended, tail)
           z == IF tail = "NUL" THEN <<"NUL">> ELSE <<tail, "NUL">>
<1>1. n \in Nat
  BY LenProperties
<1>2. \A i \in 1 .. n : lines[i] \in Seq(TextBytes) /\ NoFeeds(lines[i])
  BY LinesOfTokens, ElementOfSeq
<1>3. \A i \in 1 .. n : ends(i) \in Feeds \cup {<<>>} /\ ends(i) \in Seq(TextBytes)
  BY FeedTokens
<1>4. b = t \o z
  BY DEF Text
<1>5. z \in Seq(TextBytes) /\ Len(z) # 0 /\ z[Len(z)] = "NUL" /\ (tail = "NUL" => z = <<"NUL">>)
  <2>1. <<"NUL">> \in Seq(TextBytes) /\ <<"?", "NUL">> \in Seq(TextBytes)
    BY DEF TextBytes
  <2>2. CASE tail = "NUL"
    <3>1. z = <<"NUL">>
      BY <2>2
    <3> QED
      BY <2>1, <3>1
  <2>3. CASE tail = "?"
    <3>1. z = <<"?", "NUL">> /\ tail # "NUL"
      BY <2>3
    <3> QED
      BY <2>1, <3>1
  <2> QED
    BY <2>2, <2>3
<1>6. eol # <<>>
  <2>1. eol = <<"\n">> \/ eol = <<"\r", "\n">>
    BY DEF Feeds
  <2>2. <<"\n">> # <<>> /\ <<"\r", "\n">> # <<>>
    OBVIOUS
  <2> QED
    BY <2>1, <2>2, Zenon
<1>7. \A i \in 1 .. n : ends(i) = <<>> => i = n
  BY <1>1, <1>6
<1> HIDE DEF n, ends, b, z
<1>8. s \in Seq(Seq(TextBytes)) /\ Len(s) = n
  <2>1. \A i \in 1 .. n : lines[i] \o ends(i) \in Seq(TextBytes)
    BY <1>2, <1>3
  <2> QED
    BY <1>1, <2>1
<1>9. \A i \in 1 .. n : s[i] = lines[i] \o ends(i)
  OBVIOUS
<1> HIDE DEF s
<1>10. t \in Seq(TextBytes) /\ (n = 0 => Len(t) = 0)
  <2>1. CASE n = 0
    <3>1. t = s
      BY <1>8, <2>1 DEF FlattenSeq
    <3> QED
      BY <1>8, <2>1, <3>1
  <2>2. CASE n # 0
    <3>1. Len(s) # 0 /\ n \in 1 .. n
      BY <1>1, <1>8, <2>2
    <3>2. PICK g \in [1 .. Len(s) -> Seq(TextBytes)] : FlattenSeq(s) = g[Len(s)]
      BY <1>8, <3>1, Concatenations
    <3> QED
      BY <1>8, <2>2, <3>1, <3>2
  <2> QED
    BY <2>1, <2>2
<1> HIDE DEF t
<1>11. /\ b \in Seq(TextBytes) /\ Len(b) = Len(t) + Len(z) /\ Len(t) \in Nat /\ Len(z) \in Nat
       /\ \A i \in 1 .. Len(t) : b[i] = t[i]
       /\ \A i \in 1 .. Len(z) : b[Len(t) + i] = z[i]
  BY <1>4, <1>5, <1>10, JoinedText
<1>12. Len(b) = Len(t) + Len(z) /\ Len(t) \in Nat /\ Len(z) \in Nat
  BY <1>11
<1>13. \A i \in 1 .. Len(z) : b[Len(t) + i] = z[i]
  BY <1>11
<1>14. Fed(b)
  <2>1. ASSUME NEW i \in 1 .. n PROVE Fed(s[i])
    <3>1. Fed(lines[i])
      BY <1>2, <2>1 DEF Fed, NoFeeds
    <3>2. Fed(ends(i))
      <4> DEFINE e == ends(i)
      <4>1. e \in Feeds \cup {<<>>}
        BY <1>3
      <4> HIDE DEF e
      <4>2. Fed(e)
        BY <4>1, FeedParts DEF Fed
      <4> QED
        BY <4>2 DEF e
    <3>3. Fed(lines[i] \o ends(i))
      BY <1>2, <1>3, <3>1, <3>2, FedJoined
    <3> QED
      BY <1>9, <3>3
  <2>2. Fed(t)
    <3>1. CASE n = 0
      BY <1>10, <3>1 DEF Fed
    <3>2. CASE n # 0
      BY <1>8, <2>1, <3>2, FedText DEF t
    <3> QED
      BY <3>1, <3>2
  <2>3. Fed(z)
    <3>1. Fed(<<"NUL">>) /\ Fed(<<"?", "NUL">>)
      BY DEF Fed
    <3> QED
      BY <3>1 DEF z
  <2> QED
    BY <1>4, <1>5, <1>10, <2>2, <2>3, FedJoined
<1>15. Len(b) # 0 /\ Last(b) = "NUL"
  <2>1. Len(b) # 0 /\ Len(z) \in 1 .. Len(z)
    BY <1>5, <1>11
  <2>2. b[Len(t) + Len(z)] = z[Len(z)]
    BY <1>13, <2>1
  <2>3. z[Len(z)] = "NUL"
    BY <1>5
  <2>4. b[Len(b)] = "NUL"
    BY <1>12, <2>2, <2>3
  <2> QED
    BY <2>1, <2>4 DEF Last
<1>16. ASSUME tail = "NUL" PROVE \E start : LaidOut(b, lines, start)
  <2>1. Len(z) = 1 /\ Len(b) = Len(t) + 1 /\ b[Len(t) + 1] = "NUL"
    <3>1. Len(z) = 1 /\ z[1] = "NUL"
      BY <1>5, <1>16
    <3>2. b[Len(t) + 1] = z[1]
      BY <1>13, <3>1
    <3> QED
      BY <1>12, <3>1, <3>2
  <2>2. CASE n = 0
    <3> DEFINE start == [k \in 1 .. 1 |-> 1]
    <3>1. b[1] = "NUL"
      BY <1>10, <2>1, <2>2
    <3>2. LaidOut(b, lines, start)
      BY <2>2, <3>1 DEF LaidOut, n
    <3> QED
      BY <3>2
  <2>3. CASE n # 0
    <3>1. PICK g \in [1 .. n -> Seq(TextBytes)] :
            /\ \A i \in 1 .. n : g[i] = IF i = 1 THEN s[i] ELSE g[i - 1] \o s[i]
            /\ t = g[n]
      BY <1>8, <2>3, Concatenations DEF t
    <3> DEFINE off(k) == IF k = 1 THEN 0 ELSE Len(g[k - 1])
               start == [k \in 1 .. n + 1 |-> off(k) + 1]
    <3>2. ASSUME NEW k \in 1 .. n
          PROVE  /\ off(k) \in Nat
                 /\ Len(g[k]) = off(k) + Len(s[k]) /\ Len(s[k]) \in Nat
                 /\ \A i \in 1 .. Len(s[k]) : g[k][off(k) + i] = s[k][i]
      <4>1. s[k] \in Seq(TextBytes)
        BY <1>8, ElementOfSeq
      <4>2. CASE k = 1
        <5>1. off(k) = 0 /\ g[k] = s[k]
          BY <3>1, <4>2
        <5> HIDE DEF off
        <5>2. Len(s[k]) \in Nat
          BY <4>1
        <5>3. \A i \in 1 .. Len(s[k]) : off(k) + i = i
          BY <5>1, <5>2
        <5> QED
          BY <5>1, <5>2, <5>3
      <4>3. CASE k # 1
        <5>1. (k - 1) \in 1 .. n
          BY <1>1, <4>3
        <5> DEFINE a == g[k - 1]
                   c == s[k]
        <5>2. a \in Seq(TextBytes) /\ g[k] = a \o c /\ c \in Seq(TextBytes)
          BY <3>1, <4>1, <4>3, <5>1
        <5>3. off(k) = Len(a)
          BY <4>3
        <5> HIDE DEF a, c, off
        <5>4. /\ Len(a \o c) = Len(a) + Len(c)
              /\ Len(a) \in Nat /\ Len(c) \in Nat
              /\ \A i \in 1 .. Len(c) : (a \o c)[Len(a) + i] = c[i]
          BY <5>2, JoinedText
        <5>5. /\ Len(g[k]) = off(k) + Len(c) /\ off(k) \in Nat /\ Len(c) \in Nat
              /\ \A i \in 1 .. Len(c) : g[k][off(k) + i] = c[i]
          BY <5>2, <5>3, <5>4
        <5> QED
          BY <5>5 DEF c
      <4> QED
        BY <4>2, <4>3
    <3>3. ASSUME NEW k \in 1 .. n
          PROVE  /\ Len(g[k]) \in Nat /\ Len(g[k]) <= Len(t)
                 /\ \A i \in 1 .. Len(g[k]) : b[i] = g[k][i]
      <4>1. Len(g[k]) \in Nat
        BY <3>1
      <4>2. Len(g[k]) <= Len(g[n]) /\ \A i \in 1 .. Len(g[k]) : g[n][i] = g[k][i]
        <5>1. n = Len(s) /\ s \in Seq(Seq(TextBytes))
          BY <1>8
        <5>2. PutTogether(g, s)
          BY <3>1, <5>1 DEF PutTogether
        <5> HIDE DEF off, start
        <5>3. g \in [1 .. n -> Seq(TextBytes)] /\ k \in 1 .. n
          OBVIOUS
        <5>4. Continues(g[n], g[k])
          BY <5>1, <5>2, <5>3, GrowingText
        <5> QED
          BY <5>4 DEF Continues
      <4> QED
        BY <1>11, <3>1, <4>1, <4>2
    <3>4. ASSUME NEW k \in 1 .. n PROVE PieceIn(b, off(k), lines[k], ends(k))
      <4>1. off(k) + Len(s[k]) < Len(b)
        <5> HIDE DEF off, start
        <5>1. Len(g[k]) = off(k) + Len(s[k]) /\ Len(g[k]) \in Nat /\ Len(g[k]) <= Len(t)
          BY <3>2, <3>3
        <5> QED
          BY <1>11, <2>1, <5>1
      <4>2. \A i \in 1 .. Len(s[k]) : b[off(k) + i] = s[k][i]
        <5> HIDE DEF off
        <5> SUFFICES ASSUME NEW i \in 1 .. Len(s[k]) PROVE b[off(k) + i] = s[k][i]
          OBVIOUS
        <5>1. off(k) + i \in 1 .. Len(g[k])
          BY <3>2
        <5> QED
          BY <3>2, <3>3, <5>1
      <4>3. ASSUME ends(k) = <<>> PROVE b[off(k) + Len(lines[k]) + 1] = "NUL"
        <5>1. k = n
          BY <1>7, <4>3
        <5>2. lines[k] \in Seq(TextBytes) /\ ends(k) \in Seq(TextBytes)
              /\ Len(lines[k]) \in Nat /\ Len(ends(k)) = 0
          BY <1>2, <1>3, <4>3
        <5>3. Len(s[k]) = Len(lines[k])
          BY <1>9, <5>2, JoinedText
        <5>4. Len(t) = off(k) + Len(lines[k])
          BY <3>1, <3>2, <5>1, <5>3
        <5> QED
          BY <2>1, <5>4
      <4> QED
        BY <1>9, <4>1, <4>2, <4>3 DEF PieceIn
    <3>5. ASSUME NEW k \in 1 .. n
          PROVE  LET end == EndOf(b, off(k) + 1, lines[k]) IN
                 /\ LineIn(b, off(k) + 1, lines[k])
                 /\ end = off(k) + Len(lines[k]) + (IF ends(k) = <<>> THEN 1 ELSE Len(ends(k)))
                 /\ b[end] = (IF ends(k) = <<>> THEN "NUL" ELSE "\n")
      <4> HIDE DEF off
      <4>1. off(k) \in Nat
        BY <3>2
      <4> QED
        <5> DEFINE o == off(k)
                   l == lines[k]
                   e == ends(k)
        <5>1. /\ o \in Nat /\ l \in Seq(TextBytes) /\ NoFeeds(l)
              /\ e \in Feeds \cup {<<>>} /\ PieceIn(b, o, l, e)
          BY <1>2, <1>3, <3>4, <4>1
        <5> HIDE DEF o, l, e
        <5>2. /\ LineIn(b, o + 1, l)
              /\ EndOf(b, o + 1, l) = o + Len(l) + (IF e = <<>> THEN 1 ELSE Len(e))
              /\ b[EndOf(b, o + 1, l)] = (IF e = <<>> THEN "NUL" ELSE "\n")
          BY <1>11, <5>1, OneLine
        <5> QED
          BY <5>2 DEF o, l, e
    <3>6. start \in [1 .. n + 1 -> Nat \ {0}] /\ start[1] = 1
      <4>1. \A k \in 1 .. n + 1 : k # 1 => (k - 1) \in 1 .. n
        BY <1>1
      <4>2. \A k \in 1 .. n + 1 : off(k) \in Nat
        BY <3>3, <4>1
      <4> QED
        BY <1>1, <4>2
    <3>7. ASSUME NEW k \in 1 .. n
          PROVE  LET end == EndOf(b, start[k], lines[k]) IN
                 /\ LineIn(b, start[k], lines[k])
                 /\ IF b[end] = "NUL" THEN k = n
                    ELSE /\ start[k + 1] = end + 1 /\ start[k + 1] <= Len(b)
                         /\ k = n => b[start[k + 1]] = "NUL"
      <4> DEFINE end == EndOf(b, start[k], lines[k])
      <4>1. /\ k \in 1 .. n + 1 /\ (k + 1) \in 1 .. n + 1 /\ (k + 1) # 1 /\ (k + 1) - 1 = k
            /\ start[k] = off(k) + 1 /\ start[k + 1] = Len(g[k]) + 1
        BY <1>1
      <4>2. /\ LineIn(b, start[k], lines[k])
            /\ end = off(k) + Len(lines[k]) + (IF ends(k) = <<>> THEN 1 ELSE Len(ends(k)))
            /\ b[end] = (IF ends(k) = <<>> THEN "NUL" ELSE "\n")
        BY <3>5, <4>1
      <4> HIDE DEF start, end, off
      <4>3. CASE ends(k) = <<>>
        <5>1. k = n
          BY <1>7, <4>3
        <5>2. b[end] = "NUL"
          BY <4>2, <4>3
        <5> QED
          BY <4>2, <5>1, <5>2 DEF end
      <4>4. CASE ends(k) # <<>>
        <5>1. b[end] # "NUL" /\ end = off(k) + Len(lines[k]) + Len(ends(k))
          BY <4>2, <4>4
        <5>2. Len(s[k]) = Len(lines[k]) + Len(ends(k))
              /\ Len(lines[k]) \in Nat /\ Len(ends(k)) \in Nat
          <6> DEFINE l == lines[k]
                     e == ends(k)
          <6>1. l \in Seq(TextBytes) /\ e \in Seq(TextBytes) /\ s[k] = l \o e
            BY <1>2, <1>3, <1>9
          <6> HIDE DEF l, e
          <6>2. Len(l \o e) = Len(l) + Len(e) /\ Len(l) \in Nat /\ Len(e) \in Nat
            BY <6>1, JoinedText
          <6> QED
            BY <6>1, <6>2 DEF l, e
        <5>3. start[k + 1] = end + 1
          <6> DEFINE o == off(k)
                     x == Len(lines[k])
                     y == Len(ends(k))
          <6>1. /\ o \in Nat /\ x \in Nat /\ y \in Nat /\ end = o + x + y
                /\ start[k + 1] = (o + (x + y)) + 1
            BY <3>2, <4>1, <5>1, <5>2
          <6> HIDE DEF o, x, y
          <6> QED
            BY <6>1
        <5>4. start[k + 1] <= Len(b)
          BY <1>11, <2>1, <3>3, <4>1
        <5>5. k = n => b[start[k + 1]] = "NUL"
          BY <2>1, <3>1, <4>1
        <5> QED
          BY <4>2, <5>1, <5>3, <5>4, <5>5 DEF end
      <4> QED
        BY <4>3, <4>4
    <3> HIDE DEF start
    <3>8. LaidOut(b, lines, start)
      BY <2>3, <3>6, <3>7 DEF LaidOut, n
    <3> QED
      BY <3>8
  <2> QED
    BY <2>2, <2>3
<1>17. ASSUME tail = "NUL", n = 0 PROVE b = <<"NUL">>
  <2>1. z = <<"NUL">> /\ t = <<>>
    BY <1>5, <1>10, <1>17
  <2>2. <<>> \o <<"NUL">> = <<"NUL">>
    OBVIOUS
  <2> QED
    BY <1>4, <2>1, <2>2
<1>18. ASSUME tail = "?" PROVE Contains(b, "?")
  <2>1. z = <<"?", "NUL">>
    BY <1>18 DEF z
  <2>2. Len(z) = 2 /\ z[1] = "?"
    BY <2>1
  <2>3. (Len(t) + 1) \in 1 .. Len(b) /\ b[Len(t) + 1] = "?"
    <3>1. b[Len(t) + 1] = z[1]
      BY <1>13, <2>2
    <3> QED
      BY <1>12, <2>2, <3>1
  <2> QED
    BY <2>3 DEF Contains
<1> QED
  BY <1>11, <1>14, <1>15, <1>16, <1>17, <1>18 DEF b, n

\* A line in the text of a file.
LineOf(b, p, l) == /\ b \in Seq(TextBytes) /\ l \in Seq(TextBytes)
                   /\ NoFeeds(l) /\ LineIn(b, p, l)

\* Where a line is, where it ends and with what.
LEMMA LineFacts ==
    ASSUME NEW b, NEW p, NEW l, LineOf(b, p, l)
    PROVE  /\ b \in Seq(TextBytes) /\ l \in Seq(TextBytes)
           /\ p \in Nat \ {0} /\ Len(l) \in Nat /\ Len(b) \in Nat
           /\ p + Len(l) <= EndOf(b, p, l) /\ EndOf(b, p, l) <= Len(b) /\ EndOf(b, p, l) \in Nat
           /\ \A i \in 1 .. Len(l) : b[(p + i) - 1] = l[i]
           /\ b[EndOf(b, p, l)] \in LineEnds
           /\ b[p + Len(l)] \in {"\r", "\n", "NUL"}
           /\ b[p + Len(l)] # "\r" => EndOf(b, p, l) = p + Len(l)
           /\ b[p + Len(l)] = "\r" => EndOf(b, p, l) = p + Len(l) + 1
<1>1. /\ b \in Seq(TextBytes) /\ l \in Seq(TextBytes) /\ LineIn(b, p, l)
      /\ Len(l) \in Nat /\ Len(b) \in Nat
  BY LenProperties DEF LineOf
<1>2. /\ p \in Nat \ {0} /\ p + Len(l) <= Len(b)
      /\ \A i \in 1 .. Len(l) : b[(p + i) - 1] = l[i]
  BY <1>1 DEF LineIn
<1>3. CASE b[p + Len(l)] \in LineEnds
  <2>1. b[p + Len(l)] \in {"\n", "NUL"} /\ EndOf(b, p, l) = p + Len(l)
    BY <1>3 DEF LineEnds, EndOf
  <2> QED
    BY <1>1, <1>2, <2>1 DEF LineEnds
<1>4. CASE b[p + Len(l)] = "\r" /\ p + Len(l) + 1 <= Len(b) /\ b[p + Len(l) + 1] = "\n"
  <2>1. EndOf(b, p, l) = p + Len(l) + 1
    BY <1>4 DEF EndOf
  <2> QED
    BY <1>1, <1>2, <1>4, <2>1 DEF LineEnds
<1> QED
  BY <1>1, <1>3, <1>4 DEF LineIn

LEMMA LineTokens ==
    ASSUME NEW b, NEW p, NEW l, LineOf(b, p, l), NEW i \in p .. (p + Len(l)) - 1
    PROVE  /\ ((i - p) + 1) \in 1 .. Len(l) /\ b[i] = l[(i - p) + 1]
           /\ b[i] \notin {"\n", "\r", "NUL"}
<1>1. /\ p \in Nat \ {0} /\ Len(l) \in Nat /\ l \in Seq(TextBytes)
      /\ \A k \in 1 .. Len(l) : b[(p + k) - 1] = l[k]
  BY LineFacts
<1> DEFINE k == (i - p) + 1
<1>2. k \in 1 .. Len(l) /\ (p + k) - 1 = i
  BY <1>1
<1>3. b[i] = l[k]
  BY <1>1, <1>2
<1>4. l[k] \notin {"\n", "\r", "NUL"}
  BY <1>1, <1>2 DEF LineOf, NoFeeds
<1> QED
  BY <1>2, <1>3, <1>4

\* The part of a line l from i to j is from m to n in a text that has the line at p.
PartOf(p, l, i, j, m, n) ==
  /\ i \in Nat /\ j \in Int /\ 1 <= i /\ i - 1 <= j /\ j <= Len(l)
  /\ m = (p + i) - 1 /\ n = (p + j) - 1

SameText(b, m, n, l, i, j) == SubSeq(b, m, n) = SubSeq(l, i, j)

LEMMA SubText ==
    ASSUME NEW b, NEW p, NEW l, LineOf(b, p, l),
           NEW i, NEW j, NEW m, NEW n, PartOf(p, l, i, j, m, n)
    PROVE  SameText(b, m, n, l, i, j)
<1>1. /\ b \in Seq(TextBytes) /\ l \in Seq(TextBytes)
      /\ p \in Nat \ {0} /\ Len(l) \in Nat /\ Len(b) \in Nat /\ p + Len(l) <= Len(b)
      /\ \A k \in 1 .. Len(l) : b[(p + k) - 1] = l[k]
  <2>1. p + Len(l) <= EndOf(b, p, l) /\ EndOf(b, p, l) <= Len(b) /\ EndOf(b, p, l) \in Nat
    BY LineFacts
  <2> QED
    BY <2>1, LineFacts
<1>2. /\ i \in Nat /\ j \in Int /\ 1 <= i /\ i - 1 <= j /\ j <= Len(l)
      /\ m = (p + i) - 1 /\ n = (p + j) - 1
  BY DEF PartOf
<1>3. m \in 1 .. Len(b) + 1 /\ n \in (m - 1) .. Len(b) /\ (n - m) + 1 = (j - i) + 1
  <2>1. p \in Nat \ {0} /\ Len(l) \in Nat /\ Len(b) \in Nat /\ p + Len(l) <= Len(b)
    BY <1>1
  <2>2. m \in Int /\ n \in Int /\ 1 <= m /\ m - 1 <= n /\ n <= Len(b) /\ n - m = j - i
    BY <1>2, <2>1
  <2> QED
    BY <1>2, <2>1, <2>2
<1>4. /\ SubSeq(b, m, n) \in Seq(TextBytes)
      /\ Len(SubSeq(b, m, n)) = (n - m) + 1
      /\ \A k \in 1 .. (n - m) + 1 : SubSeq(b, m, n)[k] = b[(m + k) - 1]
  <2> QED
    BY <1>1, <1>3, SubSeqProperties
<1>5. /\ SubSeq(l, i, j) \in Seq(TextBytes)
      /\ Len(SubSeq(l, i, j)) = (j - i) + 1
      /\ \A k \in 1 .. (j - i) + 1 : SubSeq(l, i, j)[k] = l[(i + k) - 1]
  BY <1>1, <1>2, SubSeqProperties
<1>6. ASSUME NEW k \in 1 .. (j - i) + 1 PROVE b[(m + k) - 1] = l[(i + k) - 1]
  <2>1. ((i + k) - 1) \in 1 .. Len(l) /\ (m + k) - 1 = (p + ((i + k) - 1)) - 1
    BY <1>1, <1>2
  <2> QED
    BY <1>1, <2>1
<1>7. \A k \in 1 .. Len(SubSeq(b, m, n)) : SubSeq(b, m, n)[k] = SubSeq(l, i, j)[k]
  <2> SUFFICES ASSUME NEW k \in 1 .. Len(SubSeq(b, m, n))
               PROVE  SubSeq(b, m, n)[k] = SubSeq(l, i, j)[k]
    OBVIOUS
  <2>1. k \in 1 .. (n - m) + 1 /\ k \in 1 .. (j - i) + 1
    BY <1>3, <1>4
  <2>2. SubSeq(b, m, n)[k] = b[(m + k) - 1]
    BY <1>4, <2>1
  <2>3. SubSeq(l, i, j)[k] = l[(i + k) - 1]
    BY <1>5, <2>1
  <2> QED
    BY <1>6, <2>1, <2>2, <2>3
<1>8. Len(SubSeq(b, m, n)) = Len(SubSeq(l, i, j))
  BY <1>3, <1>4, <1>5
<1> DEFINE u == SubSeq(b, m, n)
           v == SubSeq(l, i, j)
<1>9. /\ u \in Seq(TextBytes) /\ v \in Seq(TextBytes) /\ Len(u) = Len(v)
      /\ \A k \in 1 .. Len(u) : u[k] = v[k]
  BY <1>4, <1>5, <1>7, <1>8
<1> HIDE DEF u, v
<1>10. u = v
  BY <1>9, SeqEqual
<1> QED
  BY <1>10 DEF u, v, SameText

\* format_string() leaves nothing of spaces alone, and of one word among spaces that word.
LEMMA FormatString ==
    ASSUME NEW s \in Seq(TextBytes)
    PROVE  /\ format_string(s) = <<>> <=> \A i \in 1 .. Len(s) : s[i] = "SP"
           /\ \A k \in 1 .. Len(s) :
                s[k] # "SP" /\ (\A i \in (1 .. Len(s)) \ {k} : s[i] = "SP")
                  => Len(format_string(s)) = 1 /\ Head(format_string(s)) = s[k]
           /\ Len(format_string(s)) = 1 =>
                \E k \in 1 .. Len(s) :
                  s[k] # "SP" /\ \A i \in (1 .. Len(s)) \ {k} : s[i] = "SP"
<1> DEFINE words == {i \in DOMAIN s : s[i] # "SP"}
           n == Len(s)
           f == format_string(s)
<1>1. n \in Nat /\ DOMAIN s = 1 .. n /\ \A i \in 1 .. n : s[i] \in TextBytes
  BY LenProperties, ElementOfSeq
<1>2. words \in SUBSET (1 .. n) /\ words \in SUBSET Nat
  BY <1>1
<1>3. \A i \in 1 .. n : i \in words <=> s[i] # "SP"
  BY <1>1
<1>4. f = IF words = {} THEN <<>> ELSE SubSeq(s, Min(words), Max(words))
  BY DEF format_string
<1> HIDE DEF words, n, f
<1>5. CASE words = {}
  <2>1. f = <<>> /\ \A i \in 1 .. n : s[i] = "SP"
    BY <1>3, <1>4, <1>5
  <2>2. Len(f) # 1
    BY <2>1
  <2> QED
    BY <2>1, <2>2 DEF n, f
<1>6. CASE words # {}
  <2> DEFINE a == Min(words)
             z == Max(words)
  <2>1. a \in words /\ \A j \in words : a <= j
    BY <1>2, <1>6, MinLemma
  <2>2. z \in words /\ \A j \in words : j <= z
    BY <1>1, <1>2, <1>6, MaxLemma
  <2>3. f = SubSeq(s, a, z)
    BY <1>4, <1>6
  <2> HIDE DEF a, z
  <2>4. a \in 1 .. n /\ z \in 1 .. n /\ a <= z
    BY <1>2, <2>1, <2>2
  <2>5. Len(f) = (z - a) + 1 /\ f[1] = s[a] /\ f \in Seq(TextBytes)
    <3>1. \A i \in a .. z : s[i] \in TextBytes
      BY <1>1, <2>4
    <3>2. /\ SubSeq(s, a, z) \in Seq(TextBytes)
          /\ Len(SubSeq(s, a, z)) = IF a <= z THEN (z - a) + 1 ELSE 0
          /\ \A i \in 1 .. (z - a) + 1 : SubSeq(s, a, z)[i] = s[(a + i) - 1]
      BY <1>1, <2>4, <3>1, SubSeqProperties
    <3>3. 1 \in 1 .. (z - a) + 1 /\ (a + 1) - 1 = a
      BY <1>1, <2>4
    <3> QED
      BY <2>3, <2>4, <3>2, <3>3
  <2>6. f # <<>> /\ Head(f) = s[a]
    BY <1>1, <2>4, <2>5
  <2>7. ~ \A i \in 1 .. n : s[i] = "SP"
    BY <1>3, <2>1, <2>4
  <2>8. ASSUME NEW k \in 1 .. n, s[k] # "SP", \A i \in (1 .. n) \ {k} : s[i] = "SP"
        PROVE  Len(f) = 1 /\ Head(f) = s[k]
    <3>1. a = k /\ z = k
      BY <1>3, <2>1, <2>2, <2>4, <2>8
    <3> QED
      BY <1>1, <2>4, <2>5, <2>6, <3>1
  <2>9. ASSUME Len(f) = 1
        PROVE  \E k \in 1 .. n : s[k] # "SP" /\ \A i \in (1 .. n) \ {k} : s[i] = "SP"
    <3>1. a = z
      <4>1. (z - a) + 1 = 1
        BY <2>5, <2>9
      <4>2. a \in Nat /\ z \in Nat
        BY <1>1, <2>4
      <4> QED
        BY <4>1, <4>2
    <3>2. \A i \in 1 .. n : i \in words => i = a
      BY <1>1, <2>1, <2>2, <2>4, <3>1
    <3> QED
      BY <1>3, <2>1, <2>4, <3>2
  <2> QED
    BY <2>6, <2>7, <2>8, <2>9 DEF n, f
<1> QED
  BY <1>5, <1>6

\* A comment or a line of nothing but spaces.
IsBlank(l) == (\A i \in 1 .. Len(l) : l[i] = "SP") \/ (Len(l) # 0 /\ l[1] = "#")

\* The first word of a line is where the spaces are skipped to, or else the line's end.
LEMMA SkipSpaces ==
    ASSUME NEW b, NEW p, NEW l, LineOf(b, p, l), NEW j \in 1 .. Len(l) + 1,
           \A i \in 1 .. j - 1 : l[i] = "SP", j <= Len(l) => l[j] # "SP"
    PROVE  Skip(b, p) = (p + j) - 1
<1> DEFINE at == (p + j) - 1
<1>1. /\ b \in Seq(TextBytes) /\ p \in Nat \ {0} /\ Len(l) \in Nat /\ Len(b) \in Nat
      /\ p + Len(l) <= Len(b)
      /\ \A i \in 1 .. Len(l) : b[(p + i) - 1] = l[i]
      /\ b[p + Len(l)] \in {"\r", "\n", "NUL"}
  <2>1. p + Len(l) <= EndOf(b, p, l) /\ EndOf(b, p, l) <= Len(b) /\ EndOf(b, p, l) \in Nat
    BY LineFacts
  <2> QED
    BY <2>1, LineFacts
<1>2. at \in p .. Len(b)
  BY <1>1
<1>3. b[at] \in TextBytes \ {"SP"}
  <2>1. b[at] \in TextBytes
    BY <1>1, <1>2, ElementOfSeq
  <2>2. CASE j <= Len(l)
    <3>1. b[at] = l[j]
      BY <1>1, <2>2
    <3> QED
      BY <2>1, <2>2, <3>1
  <2>3. CASE j = Len(l) + 1
    <3>1. at = p + Len(l)
      BY <1>1, <2>3
    <3>2. b[at] # "SP"
      BY <1>1, <3>1
    <3> QED
      BY <2>1, <3>2
  <2> QED
    BY <1>1, <2>2, <2>3
<1>4. ASSUME NEW i \in p .. (at - 1) PROVE b[i] \notin TextBytes \ {"SP"}
  <2>1. i \in p .. (p + Len(l)) - 1 /\ ((i - p) + 1) \in 1 .. (j - 1)
    BY <1>1
  <2>2. b[i] = l[(i - p) + 1]
    BY <2>1, LineTokens
  <2>3. b[i] = "SP"
    BY <2>1, <2>2
  <2> QED
    BY <2>3
<1> HIDE DEF at
<1>5. Find(b, p, TextBytes \ {"SP"}) = at
  BY <1>1, <1>2, <1>3, <1>4, FindHit
<1> QED
  BY <1>5 DEF Skip, at

\* A search among the line ends, from anywhere in the line or at its end, ends there.
LEMMA FindEnd ==
    ASSUME NEW b, NEW p, NEW l, LineOf(b, p, l), NEW i \in p .. EndOf(b, p, l)
    PROVE  Find(b, i, LineEnds) = EndOf(b, p, l)
<1>1. /\ b \in Seq(TextBytes) /\ p \in Nat \ {0} /\ Len(l) \in Nat /\ Len(b) \in Nat
      /\ EndOf(b, p, l) <= Len(b) /\ EndOf(b, p, l) \in Nat
      /\ b[EndOf(b, p, l)] \in LineEnds
      /\ b[p + Len(l)] # "\r" => EndOf(b, p, l) = p + Len(l)
      /\ b[p + Len(l)] = "\r" => EndOf(b, p, l) = p + Len(l) + 1
  BY LineFacts
<1>2. ASSUME NEW k \in i .. (EndOf(b, p, l) - 1) PROVE b[k] \notin LineEnds
  <2>1. CASE k = p + Len(l)
    <3>1. b[p + Len(l)] = "\r"
      BY <1>1, <2>1
    <3> QED
      BY <2>1, <3>1 DEF LineEnds
  <2>2. CASE k # p + Len(l)
    <3>1. k \in p .. (p + Len(l)) - 1
      BY <1>1, <2>2
    <3>2. b[k] \notin {"\n", "\r", "NUL"}
      BY <3>1, LineTokens
    <3> QED
      BY <3>2 DEF LineEnds
  <2> QED
    BY <2>1, <2>2
<1>3. i \in Nat \ {0} /\ EndOf(b, p, l) \in i .. Len(b)
  BY <1>1
<1> QED
  BY <1>1, <1>2, <1>3, FindHit

\* BlankLine() finds the end of such a line ...
LEMMA BlankLines ==
    ASSUME NEW b, NEW p, NEW l, LineOf(b, p, l), IsBlank(l)
    PROVE  /\ BlankLine(b, p).pos = EndOf(b, p, l)
           /\ BlankLine(b, p).last = (b[EndOf(b, p, l)] = "NUL")
<1> DEFINE end == EndOf(b, p, l)
<1>1. /\ p \in Nat \ {0} /\ Len(l) \in Nat /\ end \in Nat /\ b[end] \in LineEnds
      /\ p + Len(l) <= end
      /\ \A i \in 1 .. Len(l) : b[(p + i) - 1] = l[i]
      /\ b[p + Len(l)] \in {"\r", "\n", "NUL"}
      /\ b[p + Len(l)] # "\r" => end = p + Len(l)
      /\ b[p + Len(l)] = "\r" => end = p + Len(l) + 1
  BY LineFacts
<1> HIDE DEF end
<1>2. CASE b[p] = "#"
  <2>1. p \in p .. end
    BY <1>1
  <2>2. Find(b, p, LineEnds) = end
    BY <2>1, FindEnd DEF end
  <2> QED
    BY <1>1, <1>2, <2>2 DEF BlankLine, end
<1>3. CASE b[p] # "#"
  <2>1. \A i \in 1 .. Len(l) : l[i] = "SP"
    <3>1. ASSUME Len(l) # 0 PROVE l[1] # "#"
      <4>1. 1 \in 1 .. Len(l) /\ (p + 1) - 1 = p
        BY <1>1, <3>1
      <4> QED
        BY <1>1, <1>3, <4>1
    <3> QED
      BY <3>1 DEF IsBlank
  <2>2. Skip(b, p) = p + Len(l)
    <3> DEFINE j == Len(l) + 1
    <3>1. j \in 1 .. Len(l) + 1 /\ (\A i \in 1 .. j - 1 : l[i] = "SP") /\ ~ (j <= Len(l))
          /\ (p + j) - 1 = p + Len(l)
      BY <1>1, <2>1
    <3> HIDE DEF j
    <3> QED
      BY <3>1, SkipSpaces
  <2>3. AfterReturn(b, Skip(b, p)) = end
    BY <1>1, <2>2 DEF AfterReturn
  <2> QED
    BY <1>1, <1>3, <2>3 DEF BlankLine, end
<1> QED
  BY <1>2, <1>3

\* Where a line that is neither blank nor a comment has its first word.
LEMMA FirstWord ==
    ASSUME NEW b, NEW p, NEW l, LineOf(b, p, l), ~ IsBlank(l)
    PROVE  \E j \in 1 .. Len(l) :
             /\ l[j] # "SP" /\ \A i \in 1 .. j - 1 : l[i] = "SP"
             /\ AfterReturn(b, Skip(b, p)) = (p + j) - 1
             /\ b[(p + j) - 1] = l[j] /\ b[p] # "#"
<1>1. /\ l \in Seq(TextBytes) /\ p \in Nat \ {0} /\ Len(l) \in Nat
      /\ \A i \in 1 .. Len(l) : b[(p + i) - 1] = l[i]
  BY LineFacts
<1> DEFINE words == {i \in 1 .. Len(l) : l[i] # "SP"}
           j == FirstOf(words)
<1>2. words # {} /\ words \subseteq Nat
  BY DEF IsBlank
<1>3. j \in words /\ \A k \in words : j <= k
  <2> HIDE DEF words
  <2> QED
    BY <1>2, FirstOfLemma
<1> HIDE DEF j
<1>4. j \in 1 .. Len(l) /\ l[j] # "SP"
  BY <1>3
<1>5. \A i \in 1 .. j - 1 : l[i] = "SP"
  <2> SUFFICES ASSUME NEW i \in 1 .. j - 1, l[i] # "SP" PROVE FALSE
    OBVIOUS
  <2>1. i \in words /\ ~ (j <= i)
    BY <1>1, <1>4
  <2> QED
    BY <1>3, <2>1
<1>6. Skip(b, p) = (p + j) - 1
  <2>1. j \in 1 .. Len(l) + 1 /\ (j <= Len(l) => l[j] # "SP")
    BY <1>1, <1>4
  <2> QED
    BY <1>5, <2>1, SkipSpaces
<1>7. b[(p + j) - 1] = l[j] /\ l[j] # "\r"
  BY <1>1, <1>4 DEF LineOf, NoFeeds
<1>8. b[p] # "#"
  <2>1. 1 \in 1 .. Len(l) /\ (p + 1) - 1 = p
    BY <1>1, <1>4
  <2>2. b[p] = l[1]
    BY <1>1, <2>1
  <2>3. Len(l) # 0
    BY <1>1, <1>4
  <2> QED
    BY <2>2, <2>3 DEF IsBlank
<1>9. AfterReturn(b, Skip(b, p)) = (p + j) - 1
  BY <1>6, <1>7 DEF AfterReturn
<1> QED
  BY <1>4, <1>5, <1>7, <1>8, <1>9

\* ... and does not take any other for one.
LEMMA SettingsNotBlank ==
    ASSUME NEW b, NEW p, NEW l, LineOf(b, p, l), ~ IsBlank(l)
    PROVE  BlankLine(b, p).pos = 0
<1>1. PICK j \in 1 .. Len(l) :
        /\ AfterReturn(b, Skip(b, p)) = (p + j) - 1
        /\ b[(p + j) - 1] = l[j] /\ b[p] # "#"
  BY FirstWord
<1>2. l[j] \notin LineEnds
  BY DEF LineOf, NoFeeds, LineEnds
<1> QED
  BY <1>1, <1>2 DEF BlankLine

\* A line without '=' is not taken.
LEMMA NoEquals ==
    ASSUME NEW b, NEW p, NEW l, LineOf(b, p, l), ~ IsBlank(l),
           \A i \in 1 .. Len(l) : l[i] # "="
    PROVE  ~ SettingLine(b, p).ok
<1>1. PICK j \in 1 .. Len(l) : AfterReturn(b, Skip(b, p)) = (p + j) - 1
  BY FirstWord
<1> DEFINE q == (p + j) - 1
           end == EndOf(b, p, l)
           stops == {"="} \cup LineEnds
<1>2. /\ b \in Seq(TextBytes) /\ p \in Nat \ {0} /\ Len(l) \in Nat /\ Len(b) \in Nat
      /\ end <= Len(b) /\ end \in Nat /\ p + Len(l) <= end
      /\ b[end] \in LineEnds
      /\ b[p + Len(l)] # "\r" => end = p + Len(l)
      /\ b[p + Len(l)] = "\r" => end = p + Len(l) + 1
  BY LineFacts
<1>3. q \in Nat \ {0} /\ q >= p /\ end \in q .. Len(b)
  BY <1>2
<1>4. ASSUME NEW k \in q .. (end - 1) PROVE b[k] \notin stops
  <2>1. CASE k = p + Len(l)
    <3>1. b[p + Len(l)] = "\r"
      BY <1>2, <2>1
    <3> QED
      BY <2>1, <3>1 DEF LineEnds
  <2>2. CASE k # p + Len(l)
    <3>1. k \in p .. (p + Len(l)) - 1
      BY <1>2, <1>3, <2>2
    <3>2. b[k] \notin {"\n", "\r", "NUL"} /\ b[k] = l[(k - p) + 1] /\ ((k - p) + 1) \in 1 .. Len(l)
      BY <3>1, LineTokens
    <3> QED
      BY <3>2 DEF LineEnds
  <2> QED
    BY <2>1, <2>2
<1> HIDE DEF q, end
<1>5. Find(b, q, stops) = end
  <2>1. b[end] \in stops
    BY <1>2
  <2> HIDE DEF stops
  <2> QED
    BY <1>2, <1>3, <1>4, <2>1, FindHit
<1>6. b[end] # "="
  BY <1>2 DEF LineEnds
<1> QED
  BY <1>1, <1>5, <1>6 DEF SettingLine, q

\* What is before and behind an '=' in the text is what is there in the line.
LEMMA AroundEquals ==
    ASSUME NEW b, NEW p, NEW l, LineOf(b, p, l), NEW i \in 1 .. Len(l)
    PROVE  /\ SameText(b, p, ((p + i) - 1) - 1, l, 1, i - 1)
           /\ SameText(b, ((p + i) - 1) + 1, (p + Len(l)) - 1, l, i + 1, Len(l))
<1>1. p \in Nat \ {0} /\ Len(l) \in Nat
  BY LineFacts
<1> DEFINE m == ((p + i) - 1) - 1
           n == ((p + i) - 1) + 1
           t == (p + Len(l)) - 1
           x == 1
           j == i - 1
           k == i + 1
           y == Len(l)
<1>2. PartOf(p, l, x, j, p, m)
  BY <1>1 DEF PartOf
<1>3. PartOf(p, l, k, y, n, t)
  BY <1>1 DEF PartOf
<1> HIDE DEF m, n, t, x, j, k, y
<1>4. SameText(b, p, m, l, x, j)
  BY <1>2, SubText
<1>5. SameText(b, n, t, l, k, y)
  BY <1>3, SubText
<1> QED
  BY <1>4, <1>5 DEF m, n, t, x, j, k, y

\* The parts of a line whose first '=' is at i.
LEMMA SettingParts ==
    ASSUME NEW b, NEW p, NEW l, LineOf(b, p, l), ~ IsBlank(l),
           NEW i \in 1 .. Len(l), l[i] = "=", \A k \in 1 .. i - 1 : l[k] # "="
    PROVE  LET s == SettingLine(b, p)
               word == format_string(SubSeq(l, 1, i - 1))
               value == format_string(SubSeq(l, i + 1, Len(l)))
           IN  /\ s.ok = (i # 1 /\ word # <<>> /\ value # <<>>)
               /\ s.key = IF i > 1 /\ l[i - 1] = "SP" /\ Len(word) = 1 THEN Head(word) ELSE "none"
               /\ s.value = value
               /\ s.pos = EndOf(b, p, l)
               /\ s.last = (b[EndOf(b, p, l)] = "NUL")
<1>1. PICK j \in 1 .. Len(l) : /\ AfterReturn(b, Skip(b, p)) = (p + j) - 1
                               /\ \A k \in 1 .. j - 1 : l[k] = "SP"
  BY FirstWord
<1> DEFINE q == (p + j) - 1
           e == (p + i) - 1
           at == p + Len(l)
           end == EndOf(b, p, l)
           stops == {"="} \cup LineEnds
           feeds == {"\r"} \cup LineEnds
<1>2. /\ b \in Seq(TextBytes) /\ p \in Nat \ {0} /\ Len(l) \in Nat /\ Len(b) \in Nat
      /\ end <= Len(b) /\ end \in Nat /\ p + Len(l) <= end
      /\ b[end] \in LineEnds
      /\ b[p + Len(l)] # "\r" => end = p + Len(l)
      /\ b[p + Len(l)] = "\r" => end = p + Len(l) + 1
      /\ b[p + Len(l)] \in {"\r", "\n", "NUL"}
      /\ \A k \in 1 .. Len(l) : b[(p + k) - 1] = l[k]
  BY LineFacts
<1>3. j <= i
  <2> SUFFICES ASSUME j > i PROVE FALSE
    BY <1>2
  <2>1. i \in 1 .. j - 1
    BY <1>2
  <2> QED
    BY <1>1, <2>1
<1>4. /\ q \in Nat \ {0} /\ q >= p /\ e \in q .. Len(b) /\ e < at
      /\ (e + 1) \in Nat \ {0} /\ (e + 1) <= at /\ (e + 1) >= p /\ at \in (e + 1) .. Len(b)
      /\ e # p <=> i # 1
      /\ e > p <=> i > 1
      /\ i > 1 => (i - 1) \in 1 .. Len(l) /\ e - 1 = (p + (i - 1)) - 1
  BY <1>2, <1>3
<1>5. b[e] = "=" /\ (i > 1 => b[e - 1] = l[i - 1])
  BY <1>2, <1>4
<1>6. ASSUME NEW k \in q .. (e - 1) PROVE b[k] \notin stops
  <2>1. k \in p .. (p + Len(l)) - 1 /\ ((k - p) + 1) \in 1 .. i - 1
    BY <1>2, <1>4
  <2>2. b[k] \notin {"\n", "\r", "NUL"} /\ b[k] = l[(k - p) + 1]
    BY <2>1, LineTokens
  <2> QED
    BY <2>1, <2>2 DEF LineEnds
<1>7. ASSUME NEW k \in (e + 1) .. (at - 1) PROVE b[k] \notin feeds
  <2>1. k \in p .. (p + Len(l)) - 1
    BY <1>2, <1>4
  <2>2. b[k] \notin {"\n", "\r", "NUL"}
    BY <2>1, LineTokens
  <2> QED
    BY <2>2 DEF LineEnds
<1>8. SubSeq(b, p, e - 1) = SubSeq(l, 1, i - 1)
  <2>1. SameText(b, p, e - 1, l, 1, i - 1)
    BY AroundEquals
  <2> QED
    BY <2>1 DEF SameText
<1>9. SubSeq(b, e + 1, at - 1) = SubSeq(l, i + 1, Len(l))
  <2>1. SameText(b, e + 1, at - 1, l, i + 1, Len(l))
    BY AroundEquals
  <2> QED
    BY <2>1 DEF SameText
<1> HIDE DEF q, e, at, end
<1>10. Find(b, q, stops) = e
  <2>1. b[e] \in stops
    BY <1>5
  <2> HIDE DEF stops
  <2> QED
    BY <1>2, <1>4, <1>6, <2>1, FindHit
<1>11. Find(b, e + 1, feeds) = at
  <2>1. b[at] \in feeds
    BY <1>2 DEF LineEnds, at
  <2> HIDE DEF feeds
  <2> QED
    BY <1>2, <1>4, <1>7, <2>1, FindHit
<1>12. /\ (IF b[at] = "\r" THEN at + 1 ELSE at) = end
       /\ (b[at] = "NUL") = (b[end] = "NUL")
  <2>1. CASE b[at] = "\r"
    <3>1. end = at + 1 /\ b[end] = "\n"
      BY <1>2, <2>1 DEF LineIn, LineOf, LineEnds, at
    <3> QED
      BY <2>1, <3>1
  <2>2. CASE b[at] # "\r"
    BY <1>2, <2>2 DEF at
  <2> QED
    BY <2>1, <2>2
<1> DEFINE s == SettingLine(b, p)
           word == format_string(SubSeq(l, 1, i - 1))
           value == format_string(SubSeq(l, i + 1, Len(l)))
<1>13. s = [ok |-> e # p /\ word # <<>> /\ value # <<>>,
            key |-> IF e > p /\ b[e - 1] = "SP" /\ Len(word) = 1 THEN Head(word) ELSE "none",
            value |-> value, last |-> b[at] = "NUL", pos |-> IF b[at] = "\r" THEN at + 1 ELSE at]
  BY <1>1, <1>5, <1>8, <1>9, <1>10, <1>11 DEF SettingLine, q
<1> HIDE DEF s, word, value
<1>14. /\ s.ok = (e # p /\ word # <<>> /\ value # <<>>)
       /\ s.key = IF e > p /\ b[e - 1] = "SP" /\ Len(word) = 1 THEN Head(word) ELSE "none"
       /\ s.value = value /\ s.last = (b[at] = "NUL")
       /\ s.pos = IF b[at] = "\r" THEN at + 1 ELSE at
  BY <1>13
<1>15. s.ok = (i # 1 /\ word # <<>> /\ value # <<>>)
  BY <1>4, <1>14
<1>16. s.key = IF i > 1 /\ l[i - 1] = "SP" /\ Len(word) = 1 THEN Head(word) ELSE "none"
  BY <1>4, <1>5, <1>14
<1>17. s.value = value /\ s.pos = end /\ s.last = (b[end] = "NUL")
  BY <1>12, <1>14
<1> QED
  BY <1>15, <1>16, <1>17 DEF s, word, value, end

\* IsSetting() says of a line what IsBlank() denies.
LEMMA SettingOrBlank ==
    ASSUME NEW l \in Seq(TextBytes)
    PROVE  IsSetting(l) <=> ~ IsBlank(l)
<1>1. DOMAIN l = 1 .. Len(l) /\ Len(l) \in Nat
  BY LenProperties
<1>2. CASE Len(l) = 0
  BY <1>1, <1>2 DEF IsSetting, IsBlank
<1>3. CASE Len(l) # 0
  BY <1>1, <1>3 DEF IsSetting, IsBlank
<1> QED
  BY <1>2, <1>3

\* The keys of the server that reads the file.
KnownKeys == DOMAIN KeysOf(server)

LEMMA KeyNames == "none" \notin KnownKeys /\ "SP" \notin KnownKeys /\ "=" \notin KnownKeys
BY DEF KnownKeys, KeysOf, Joined, BaseKeys, StorageKeys, ProxyKeys

\* A part of a line, token by token.
LEMMA PartsOfSeq ==
    ASSUME NEW l \in Seq(TextBytes), NEW i \in Nat, NEW j \in Int,
           1 <= i, i - 1 <= j, j <= Len(l), NEW s, s = SubSeq(l, i, j)
    PROVE  /\ s \in Seq(TextBytes)
           /\ Len(s) = (j - i) + 1
           /\ \A k \in 1 .. (j - i) + 1 : s[k] = l[(i + k) - 1]
<1>1. Len(l) \in Nat /\ \A k \in 1 .. Len(l) : l[k] \in TextBytes
  BY LenProperties, ElementOfSeq
<1>2. \A k \in i .. j : l[k] \in TextBytes
  BY <1>1
<1>3. /\ SubSeq(l, i, j) \in Seq(TextBytes)
      /\ Len(SubSeq(l, i, j)) = IF i <= j THEN (j - i) + 1 ELSE 0
      /\ \A k \in 1 .. (j - i) + 1 : SubSeq(l, i, j)[k] = l[(i + k) - 1]
  BY <1>2, SubSeqProperties
<1>4. (IF i <= j THEN (j - i) + 1 ELSE 0) = (j - i) + 1
  BY <1>1
<1> QED
  BY <1>3, <1>4

\* The key before an '=' at i: one word, with spaces around it.
LEMMA KeyOfLine ==
    ASSUME NEW l \in Seq(TextBytes), NEW i \in 1 .. Len(l), NEW word,
           word = format_string(SubSeq(l, 1, i - 1))
    PROVE  /\ Len(word) = 1 =>
                \E k \in 1 .. i - 1 :
                  l[k] # "SP" /\ \A m \in (1 .. i - 1) \ {k} : l[m] = "SP"
           /\ \A k \in 1 .. i - 1 :
                l[k] # "SP" /\ (\A m \in (1 .. i - 1) \ {k} : l[m] = "SP")
                  => Len(word) = 1 /\ Head(word) = l[k] /\ word # <<>>
<1> DEFINE s == SubSeq(l, 1, i - 1)
<1>1. Len(l) \in Nat
  BY LenProperties
<1>2. /\ s \in Seq(TextBytes) /\ Len(s) = ((i - 1) - 1) + 1
      /\ \A k \in 1 .. ((i - 1) - 1) + 1 : s[k] = l[(1 + k) - 1]
  <2> DEFINE x == 1
             y == i - 1
  <2>1. x \in Nat /\ y \in Int /\ 1 <= x /\ x - 1 <= y /\ y <= Len(l)
    BY <1>1
  <2> HIDE DEF x, y
  <2>2. \A t : t = SubSeq(l, x, y) => /\ t \in Seq(TextBytes)
           /\ Len(t) = (y - x) + 1
           /\ \A k \in 1 .. (y - x) + 1 : t[k] = l[(x + k) - 1]
    BY <2>1, PartsOfSeq
  <2> QED
    BY <2>2 DEF x, y
<1>3. word = format_string(s)
  OBVIOUS
<1> HIDE DEF s
<1>4. /\ s \in Seq(TextBytes) /\ Len(s) = i - 1
      /\ \A k \in 1 .. i - 1 : s[k] = l[k]
  BY <1>1, <1>2
<1>5. /\ format_string(s) = <<>> <=> \A m \in 1 .. Len(s) : s[m] = "SP"
      /\ \A k \in 1 .. Len(s) :
           s[k] # "SP" /\ (\A m \in (1 .. Len(s)) \ {k} : s[m] = "SP")
             => Len(format_string(s)) = 1 /\ Head(format_string(s)) = s[k]
      /\ Len(format_string(s)) = 1 =>
           \E k \in 1 .. Len(s) :
             s[k] # "SP" /\ \A m \in (1 .. Len(s)) \ {k} : s[m] = "SP"
  BY <1>4, FormatString
<1>6. ASSUME Len(word) = 1
      PROVE  \E k \in 1 .. i - 1 :
               l[k] # "SP" /\ \A m \in (1 .. i - 1) \ {k} : l[m] = "SP"
  <2>1. PICK k \in 1 .. Len(s) : s[k] # "SP" /\ \A m \in (1 .. Len(s)) \ {k} : s[m] = "SP"
    BY <1>3, <1>5, <1>6
  <2> QED
    BY <1>4, <2>1
<1>7. ASSUME NEW k \in 1 .. i - 1, l[k] # "SP", \A m \in (1 .. i - 1) \ {k} : l[m] = "SP"
      PROVE  Len(word) = 1 /\ Head(word) = l[k] /\ word # <<>>
  <2>1. k \in 1 .. Len(s) /\ s[k] # "SP" /\ \A m \in (1 .. Len(s)) \ {k} : s[m] = "SP"
    BY <1>4, <1>7
  <2>2. Len(word) = 1 /\ Head(word) = s[k] /\ word # <<>>
    BY <1>3, <1>5, <2>1
  <2> QED
    BY <1>4, <2>2
<1> QED
  BY <1>6, <1>7

\* The value behind it: anything but spaces.
LEMMA ValueOfLine ==
    ASSUME NEW l \in Seq(TextBytes), NEW i \in 1 .. Len(l)
    PROVE  format_string(SubSeq(l, i + 1, Len(l))) # <<>>
             <=> \E v \in 1 .. Len(l) : i < v /\ l[v] # "SP"
<1> DEFINE s == SubSeq(l, i + 1, Len(l))
           n == Len(l)
<1>1. Len(l) \in Nat
  BY LenProperties
<1>2. /\ s \in Seq(TextBytes) /\ Len(s) = (n - (i + 1)) + 1
      /\ \A k \in 1 .. (n - (i + 1)) + 1 : s[k] = l[((i + 1) + k) - 1]
  <2> DEFINE x == i + 1
             y == Len(l)
  <2>1. x \in Nat /\ y \in Int /\ 1 <= x /\ x - 1 <= y /\ y <= Len(l)
    BY <1>1
  <2> HIDE DEF x, y
  <2>2. \A t : t = SubSeq(l, x, y) => /\ t \in Seq(TextBytes)
           /\ Len(t) = (y - x) + 1
           /\ \A k \in 1 .. (y - x) + 1 : t[k] = l[(x + k) - 1]
    BY <2>1, PartsOfSeq
  <2> QED
    BY <2>2 DEF x, y
<1> HIDE DEF s, n
<1>3. /\ s \in Seq(TextBytes) /\ Len(s) = n - i
      /\ \A k \in 1 .. n - i : s[k] = l[i + k]
  BY <1>1, <1>2 DEF n
<1>4. format_string(s) = <<>> <=> \A m \in 1 .. Len(s) : s[m] = "SP"
  BY <1>3, FormatString
<1>5. (\A m \in 1 .. Len(s) : s[m] = "SP") <=> ~ \E v \in 1 .. n : i < v /\ l[v] # "SP"
  <2>1. ASSUME \A m \in 1 .. Len(s) : s[m] = "SP", NEW v \in 1 .. n, i < v PROVE l[v] = "SP"
    <3>1. (v - i) \in 1 .. n - i /\ i + (v - i) = v
      BY <1>1, <2>1 DEF n
    <3> QED
      BY <1>3, <2>1, <3>1
  <2>2. ASSUME NEW m \in 1 .. Len(s), s[m] # "SP" PROVE \E v \in 1 .. n : i < v /\ l[v] # "SP"
    <3>1. (i + m) \in 1 .. n /\ i < i + m /\ m \in 1 .. n - i
      BY <1>1, <1>3 DEF n
    <3> QED
      BY <1>3, <2>2, <3>1
  <2> QED
    BY <2>1, <2>2
<1> QED
  BY <1>4, <1>5 DEF s, n

\* KeyOf() and ValueOf() of a line with one word before its first '='.
LEMMA KeyIsWord ==
    ASSUME NEW l \in Seq(TextBytes), NEW k \in 1 .. Len(l), l[k] # "SP",
           \A m \in 1 .. k - 1 : l[m] = "SP"
    PROVE  KeyOf(l) = l[k]
<1> DEFINE words == {i \in DOMAIN l : l[i] # "SP"}
<1>1. DOMAIN l = 1 .. Len(l) /\ Len(l) \in Nat
  BY LenProperties
<1>2. words \in SUBSET Nat /\ k \in words /\ \A m \in words : k <= m
  BY <1>1
<1>3. Min(words) \in words /\ \A m \in words : Min(words) <= m
  BY <1>2, MinLemma
<1>4. Min(words) = k
  <2> DEFINE x == Min(words)
  <2>1. x \in words /\ x <= k /\ k <= x
    BY <1>2, <1>3
  <2>2. x \in Nat
    BY <1>2, <2>1
  <2> HIDE DEF x
  <2>3. x = k
    BY <2>1, <2>2
  <2> QED
    BY <2>3 DEF x
<1> QED
  BY <1>4 DEF KeyOf

LEMMA ValueBehindEquals ==
    ASSUME NEW l \in Seq(TextBytes), NEW k \in 1 .. Len(l), l[k] = "=",
           \A m \in 1 .. k - 1 : l[m] # "="
    PROVE  ValueOf(l) = format_string(SubSeq(l, k + 1, Len(l)))
<1> DEFINE equals == {i \in DOMAIN l : l[i] = "="}
<1>1. DOMAIN l = 1 .. Len(l) /\ Len(l) \in Nat
  BY LenProperties
<1>2. equals \in SUBSET Nat /\ k \in equals /\ \A m \in equals : k <= m
  BY <1>1
<1>3. Min(equals) \in equals /\ \A m \in equals : Min(equals) <= m
  BY <1>2, MinLemma
<1>4. Min(equals) = k
  <2> DEFINE x == Min(equals)
  <2>1. x \in equals /\ x <= k /\ k <= x
    BY <1>2, <1>3
  <2>2. x \in Nat
    BY <1>2, <2>1
  <2> HIDE DEF x
  <2>3. x = k
    BY <2>1, <2>2
  <2> QED
    BY <2>3 DEF x
<1> QED
  BY <1>4 DEF ValueOf

\* What ConfSetting asks of a line.
Taken(s) ==
  /\ s.ok /\ s.key \in KnownKeys
  /\ ~ (KeysOf(server)[s.key] = "addr" /\ get_addr_value(s.value).null)

\* The lines the parser takes are those a file may be written of.
LEMMA DocumentedTaken ==
    ASSUME NEW b, NEW p, NEW l, LineOf(b, p, l), IsSetting(l)
    PROVE  LET s == SettingLine(b, p) IN
           /\ Taken(s) <=> Documented(l)
           /\ Taken(s) =>
                /\ s.key = KeyOf(l) /\ s.value = ValueOf(l)
                /\ s.pos = EndOf(b, p, l) /\ s.last = (b[EndOf(b, p, l)] = "NUL")
<1> DEFINE s == SettingLine(b, p)
           n == Len(l)
<1>1. l \in Seq(TextBytes) /\ n \in Nat /\ DOMAIN l = 1 .. n
  BY LineFacts, LenProperties
<1>2. ~ IsBlank(l)
  BY <1>1, SettingOrBlank
<1>3. CASE \A i \in 1 .. n : l[i] # "="
  <2>1. ~ s.ok
    BY <1>2, <1>3, NoEquals
  <2>2. ~ Documented(l)
    BY <1>1, <1>3 DEF Documented
  <2> QED
    BY <2>1, <2>2 DEF Taken
<1>4. CASE ~ \A i \in 1 .. n : l[i] # "="
  <2> DEFINE equals == {i \in 1 .. n : l[i] = "="}
             i == FirstOf(equals)
  <2>1. i \in equals /\ \A m \in equals : i <= m
    <3>1. equals # {} /\ equals \subseteq Nat
      BY <1>1, <1>4
    <3> HIDE DEF equals
    <3> QED
      BY <3>1, FirstOfLemma
  <2> HIDE DEF i
  <2>2. i \in 1 .. n /\ l[i] = "=" /\ i \in Nat
    BY <1>1, <2>1
  <2>3. \A m \in 1 .. i - 1 : l[m] # "="
    <3> SUFFICES ASSUME NEW m \in 1 .. i - 1, l[m] = "=" PROVE FALSE
      OBVIOUS
    <3>1. m \in equals /\ ~ (i <= m)
      BY <1>1, <2>2
    <3> QED
      BY <2>1, <3>1
  <2> DEFINE word == format_string(SubSeq(l, 1, i - 1))
             value == format_string(SubSeq(l, i + 1, Len(l)))
  <2>4. /\ s.ok = (i # 1 /\ word # <<>> /\ value # <<>>)
        /\ s.key = IF i > 1 /\ l[i - 1] = "SP" /\ Len(word) = 1 THEN Head(word) ELSE "none"
        /\ s.value = value
        /\ s.pos = EndOf(b, p, l) /\ s.last = (b[EndOf(b, p, l)] = "NUL")
    BY <1>2, <2>2, <2>3, SettingParts
  <2>5. ValueOf(l) = value
    BY <1>1, <2>2, <2>3, ValueBehindEquals
  <2>6. /\ Len(word) = 1 =>
             \E k \in 1 .. i - 1 :
               l[k] # "SP" /\ \A m \in (1 .. i - 1) \ {k} : l[m] = "SP"
        /\ \A k \in 1 .. i - 1 :
             l[k] # "SP" /\ (\A m \in (1 .. i - 1) \ {k} : l[m] = "SP")
               => Len(word) = 1 /\ Head(word) = l[k] /\ word # <<>>
    BY <1>1, <2>2, KeyOfLine
  <2>7. value # <<>> <=> \E v \in 1 .. n : i < v /\ l[v] # "SP"
    BY <1>1, <2>2, ValueOfLine
  <2> HIDE DEF word, value, equals, s, n
  <2>8. ASSUME Taken(s)
        PROVE  Documented(l) /\ s.key = KeyOf(l)
    <3>1. /\ i > 1 /\ l[i - 1] = "SP" /\ Len(word) = 1 /\ s.key = Head(word)
          /\ value # <<>> /\ s.key \in KnownKeys
      BY <2>4, <2>8, KeyNames DEF Taken
    <3>2. PICK k \in 1 .. i - 1 : l[k] # "SP" /\ \A m \in (1 .. i - 1) \ {k} : l[m] = "SP"
      BY <2>6, <3>1
    <3>3. s.key = l[k]
      BY <2>6, <3>1, <3>2
    <3>4. PICK v \in 1 .. n : i < v /\ l[v] # "SP"
      BY <2>7, <3>1
    <3>5. k < i - 1 /\ k \in 1 .. n
      BY <1>1, <2>2, <3>1, <3>2
    <3>6. KeysOf(server)[l[k]] = "addr" => ~ get_addr_value(ValueOf(l)).null
      BY <2>4, <2>5, <2>8, <3>3 DEF Taken
    <3>7. l[k] \in DOMAIN KeysOf(server)
      BY <3>1, <3>3 DEF KnownKeys
    <3>8. Documented(l)
      BY <1>1, <2>2, <3>2, <3>4, <3>5, <3>6, <3>7 DEF Documented
    <3>9. KeyOf(l) = l[k]
      <4>1. \A m \in 1 .. k - 1 : l[m] = "SP"
        BY <1>1, <2>2, <3>2, <3>5
      <4> QED
        BY <1>1, <3>2, <3>5, <4>1, KeyIsWord DEF n
    <3> QED
      BY <3>3, <3>8, <3>9
  <2>9. ASSUME Documented(l)
        PROVE  Taken(s)
    <3>1. PICK k \in 1 .. n, e \in 1 .. n, v \in 1 .. n :
            /\ l[k] \in KnownKeys /\ l[e] = "=" /\ l[v] # "SP"
            /\ k < e - 1 /\ e < v
            /\ \A m \in (1 .. e - 1) \ {k} : l[m] = "SP"
            /\ KeysOf(server)[l[k]] = "addr" => ~ get_addr_value(ValueOf(l)).null
      BY <1>1, <2>9 DEF Documented, KnownKeys
    <3>2. l[k] # "SP" /\ l[k] # "="
      BY <3>1, KeyNames
    <3>3. e = i
      <4>1. i <= e
        <5>1. e \in equals
          BY <3>1 DEF equals, n
        <5> QED
          BY <2>1, <5>1
      <4>2. ~ (i < e)
        <5> SUFFICES ASSUME i < e PROVE FALSE
          OBVIOUS
        <5>1. i \in 1 .. e - 1
          BY <1>1, <2>2, <3>1
        <5>2. i # k => l[i] = "SP"
          BY <3>1, <5>1
        <5> QED
          BY <2>2, <3>2, <5>2
      <4> QED
        BY <1>1, <2>2, <4>1, <4>2
    <3>4. k \in 1 .. i - 1 /\ i > 1 /\ i # 1 /\ (i - 1) \in (1 .. i - 1) \ {k}
      BY <1>1, <2>2, <3>1, <3>3
    <3>5. l[i - 1] = "SP" /\ \A m \in (1 .. i - 1) \ {k} : l[m] = "SP"
      BY <3>1, <3>3, <3>4
    <3>6. Len(word) = 1 /\ Head(word) = l[k] /\ word # <<>>
      BY <2>6, <3>2, <3>4, <3>5
    <3>7. value # <<>>
      BY <2>7, <3>1, <3>3
    <3>8. s.ok /\ s.key = l[k] /\ s.value = ValueOf(l)
      BY <2>4, <2>5, <3>4, <3>5, <3>6, <3>7
    <3> QED
      BY <3>1, <3>8 DEF Taken
  <2> QED
    BY <2>4, <2>5, <2>8, <2>9 DEF s
<1> QED
  BY <1>3, <1>4

\* What the list of proxies is made of.
EntryOf(i) == [host |-> ProxyOf(i).host, port |-> ProxyOf(i).port]
EntriesWritten == {EntryOf(i) : i \in DOMAIN written}

\* A further proxy finds its place in the list.
LEMMA ProxyAdded ==
    ASSUME NEW k \in DOMAIN written, NEW lines \in SUBSET (1 .. k - 1), k \in Nat,
           NEW list \in Seq(EntriesWritten), ProxiesOf(list, lines)
    PROVE  /\ AddProxy(list, ProxyOf(k)) \in Seq(EntriesWritten)
           /\ ProxiesOf(AddProxy(list, ProxyOf(k)), lines \cup {k})
<1> DEFINE n == Len(list)
           entry == EntryOf(k)
           new == AddProxy(list, ProxyOf(k))
<1>1. /\ n \in Nat /\ DOMAIN list = 1 .. n /\ entry \in EntriesWritten
      /\ \A m \in lines : m \in Nat /\ m < k
  BY LenProperties DEF EntriesWritten
<1>2. PICK order \in [1 .. n -> lines] :
        /\ \A i \in lines : \E m \in 1 .. n : order[m] = i
        /\ \A m \in 1 .. n : list[m] = EntryOf(order[m])
        /\ \A m, l \in 1 .. n : m < l => Before(order[m], order[l])
  BY <1>1 DEF ProxiesOf, EntryOf
<1>3. new = IF ProxyOf(k).master THEN <<entry>> \o list ELSE Append(list, entry)
  BY DEF AddProxy, EntryOf
<1> HIDE DEF entry, new
<1>4. CASE ProxyOf(k).master
  <2> DEFINE where == [m \in 1 .. n + 1 |-> IF m = 1 THEN k ELSE order[m - 1]]
  <2>1. /\ new \in Seq(EntriesWritten) /\ Len(new) = n + 1 /\ new[1] = entry
        /\ \A m \in 2 .. n + 1 : new[m] = list[m - 1]
    BY <1>1, <1>3, <1>4
  <2>2. \A m \in 1 .. n + 1 : m # 1 => (m - 1) \in 1 .. n /\ m \in 2 .. n + 1
    BY <1>1
  <2>3. /\ where \in [1 .. n + 1 -> lines \cup {k}] /\ where[1] = k
        /\ \A m \in 1 .. n + 1 : m # 1 => where[m] = order[m - 1]
    BY <1>1, <2>2
  <2> HIDE DEF where
  <2>4. \A i \in lines \cup {k} : \E m \in 1 .. n + 1 : where[m] = i
    <3>1. ASSUME NEW i \in lines PROVE \E m \in 1 .. n + 1 : where[m] = i
      <4>1. PICK m \in 1 .. n : order[m] = i
        BY <1>2
      <4>2. (m + 1) \in 1 .. n + 1 /\ (m + 1) # 1 /\ (m + 1) - 1 = m
        BY <1>1
      <4> QED
        BY <2>3, <4>1, <4>2
    <3>2. 1 \in 1 .. n + 1
      BY <1>1
    <3> QED
      BY <2>3, <3>1, <3>2
  <2>5. \A m \in 1 .. n + 1 : new[m] = EntryOf(where[m])
    <3> SUFFICES ASSUME NEW m \in 1 .. n + 1 PROVE new[m] = EntryOf(where[m])
      OBVIOUS
    <3>1. CASE m = 1
      BY <2>1, <2>3, <3>1 DEF entry
    <3>2. CASE m # 1
      BY <1>2, <2>1, <2>2, <2>3, <3>2
    <3> QED
      BY <3>1, <3>2
  <2>6. \A m, l \in 1 .. n + 1 : m < l => Before(where[m], where[l])
    <3> SUFFICES ASSUME NEW m \in 1 .. n + 1, NEW l \in 1 .. n + 1, m < l
                 PROVE  Before(where[m], where[l])
      OBVIOUS
    <3>1. l # 1 /\ (l - 1) \in 1 .. n /\ where[l] = order[l - 1] /\ order[l - 1] \in lines
      <4>1. l # 1
        BY <1>1
      <4>2. (l - 1) \in 1 .. n /\ where[l] = order[l - 1]
        BY <2>2, <2>3, <4>1
      <4> QED
        BY <4>1, <4>2
    <3>2. CASE m = 1
      <4>1. where[m] = k /\ where[l] < k
        BY <1>1, <2>3, <3>1, <3>2
      <4> QED
        BY <1>4, <4>1 DEF Before
    <3>3. CASE m # 1
      <4>1. (m - 1) \in 1 .. n /\ where[m] = order[m - 1] /\ m - 1 < l - 1
        BY <1>1, <2>2, <2>3, <3>3
      <4> QED
        BY <1>2, <3>1, <4>1
    <3> QED
      BY <3>2, <3>3
  <2>7. DOMAIN new = 1 .. n + 1
    BY <2>1
  <2>8. ProxiesOf(new, lines \cup {k})
    <3> DEFINE all == lines \cup {k}
    <3>1. where \in [DOMAIN new -> all] /\ \A i \in all : \E m \in DOMAIN new : where[m] = i
      BY <2>3, <2>4, <2>7
    <3>2. \A m \in DOMAIN new : new[m] = [host |-> ProxyOf(where[m]).host, port |-> ProxyOf(where[m]).port]
      BY <2>5, <2>7 DEF EntryOf
    <3>3. \A m, l \in DOMAIN new : m < l => Before(where[m], where[l])
      BY <2>6, <2>7
    <3> HIDE DEF all
    <3>4. ProxiesOf(new, all)
      BY <3>1, <3>2, <3>3 DEF ProxiesOf
    <3> QED
      BY <3>4 DEF all
  <2> QED
    BY <2>1, <2>8 DEF new
<1>5. CASE ~ ProxyOf(k).master
  <2> DEFINE where == [m \in 1 .. n + 1 |-> IF m = n + 1 THEN k ELSE order[m]]
  <2>1. /\ new \in Seq(EntriesWritten) /\ Len(new) = n + 1 /\ new[n + 1] = entry
        /\ \A m \in 1 .. n : new[m] = list[m]
    BY <1>1, <1>3, <1>5
  <2>2. \A m \in 1 .. n + 1 : m # n + 1 => m \in 1 .. n
    BY <1>1
  <2>3. /\ where \in [1 .. n + 1 -> lines \cup {k}] /\ where[n + 1] = k
        /\ \A m \in 1 .. n : where[m] = order[m]
    BY <1>1, <2>2
  <2> HIDE DEF where
  <2>4. \A i \in lines \cup {k} : \E m \in 1 .. n + 1 : where[m] = i
    <3>1. ASSUME NEW i \in lines PROVE \E m \in 1 .. n + 1 : where[m] = i
      <4>1. PICK m \in 1 .. n : order[m] = i
        BY <1>2
      <4>2. m \in 1 .. n + 1
        BY <1>1
      <4> QED
        BY <2>3, <4>1, <4>2
    <3>2. (n + 1) \in 1 .. n + 1
      BY <1>1
    <3> QED
      BY <2>3, <3>1, <3>2
  <2>5. \A m \in 1 .. n + 1 : new[m] = EntryOf(where[m])
    <3> SUFFICES ASSUME NEW m \in 1 .. n + 1 PROVE new[m] = EntryOf(where[m])
      OBVIOUS
    <3>1. CASE m = n + 1
      BY <2>1, <2>3, <3>1 DEF entry
    <3>2. CASE m # n + 1
      BY <1>2, <2>1, <2>2, <2>3, <3>2
    <3> QED
      BY <3>1, <3>2
  <2>6. \A m, l \in 1 .. n + 1 : m < l => Before(where[m], where[l])
    <3> SUFFICES ASSUME NEW m \in 1 .. n + 1, NEW l \in 1 .. n + 1, m < l
                 PROVE  Before(where[m], where[l])
      OBVIOUS
    <3>1. m \in 1 .. n /\ where[m] = order[m] /\ order[m] \in lines
      BY <1>1, <2>3
    <3>2. CASE l = n + 1
      <4>1. where[l] = k /\ where[m] < k
        BY <1>1, <2>3, <3>1, <3>2
      <4> QED
        BY <1>5, <4>1 DEF Before
    <3>3. CASE l # n + 1
      <4>1. l \in 1 .. n /\ where[l] = order[l]
        BY <2>2, <2>3, <3>3
      <4> QED
        BY <1>2, <3>1, <4>1
    <3> QED
      BY <3>2, <3>3
  <2>7. DOMAIN new = 1 .. n + 1
    BY <2>1
  <2>8. ProxiesOf(new, lines \cup {k})
    <3> DEFINE all == lines \cup {k}
    <3>1. where \in [DOMAIN new -> all] /\ \A i \in all : \E m \in DOMAIN new : where[m] = i
      BY <2>3, <2>4, <2>7
    <3>2. \A m \in DOMAIN new : new[m] = [host |-> ProxyOf(where[m]).host, port |-> ProxyOf(where[m]).port]
      BY <2>5, <2>7 DEF EntryOf
    <3>3. \A m, l \in DOMAIN new : m < l => Before(where[m], where[l])
      BY <2>6, <2>7
    <3> HIDE DEF all
    <3>4. ProxiesOf(new, all)
      BY <3>1, <3>2, <3>3 DEF ProxiesOf
    <3> QED
      BY <3>4 DEF all
  <2> QED
    BY <2>1, <2>8 DEF new
<1> QED
  BY <1>4, <1>5

\* Only the storage server has a list of proxies; it starts empty.
LEMMA AddrKey ==
    ASSUME NEW field \in KnownKeys
    PROVE  KeysOf(server)[field] = "addr" <=> field = "proxy_server_addr"
<1>1. KnownKeys = DOMAIN BaseKeys \cup DOMAIN (IF server = "storage" THEN StorageKeys ELSE ProxyKeys)
  BY DEF KnownKeys, KeysOf, Joined
<1>2. KeysOf(server)[field] =
        IF field \in DOMAIN BaseKeys THEN BaseKeys[field]
        ELSE (IF server = "storage" THEN StorageKeys ELSE ProxyKeys)[field]
  BY DEF KnownKeys, KeysOf, Joined
<1>3. CASE field \in DOMAIN BaseKeys
  BY <1>2, <1>3 DEF BaseKeys
<1>4. CASE field \notin DOMAIN BaseKeys /\ server = "storage"
  BY <1>1, <1>2, <1>4 DEF StorageKeys, BaseKeys
<1>5. CASE field \notin DOMAIN BaseKeys /\ server # "storage"
  BY <1>1, <1>2, <1>5 DEF ProxyKeys, BaseKeys
<1> QED
  BY <1>3, <1>4, <1>5

LEMMA DefaultKeys == DOMAIN init_conf(server) = KnownKeys
<1>1. KnownKeys = DOMAIN BaseKeys \cup DOMAIN (IF server = "storage" THEN StorageKeys ELSE ProxyKeys)
  BY DEF KnownKeys, KeysOf, Joined
<1>2. DOMAIN init_conf(server) =
        DOMAIN BaseDefaults \cup DOMAIN (IF server = "storage" THEN StorageDefaults ELSE ProxyDefaults)
  BY DEF init_conf, Joined
<1>3. DOMAIN BaseDefaults = DOMAIN BaseKeys
  BY DEF BaseDefaults, BaseKeys
<1>4. DOMAIN StorageDefaults = DOMAIN StorageKeys /\ DOMAIN ProxyDefaults = DOMAIN ProxyKeys
  BY DEF StorageDefaults, StorageKeys, ProxyDefaults, ProxyKeys
<1> QED
  BY <1>1, <1>2, <1>3, <1>4

LEMMA DefaultProxies ==
    "proxy_server_addr" \in KnownKeys => init_conf(server)["proxy_server_addr"] = <<>>
<1>1. "proxy_server_addr" \notin DOMAIN BaseDefaults /\ "proxy_server_addr" \notin DOMAIN BaseKeys
      /\ "proxy_server_addr" \notin DOMAIN ProxyKeys
  BY DEF BaseDefaults, BaseKeys, ProxyKeys
<1>2. "proxy_server_addr" \in DOMAIN StorageDefaults /\ StorageDefaults["proxy_server_addr"] = <<>>
  BY DEF StorageDefaults
<1>3. KnownKeys = DOMAIN BaseKeys \cup DOMAIN (IF server = "storage" THEN StorageKeys ELSE ProxyKeys)
  BY DEF KnownKeys, KeysOf, Joined
<1>4. server = "storage" => init_conf(server)["proxy_server_addr"] = <<>>
  BY <1>1, <1>2 DEF init_conf, Joined
<1>5. server # "storage" => "proxy_server_addr" \notin KnownKeys
  BY <1>1, <1>3
<1> QED
  BY <1>4, <1>5

\* What a configuration holds after the first lines of the file ...
ConfUpTo(c, n) ==
  /\ DOMAIN c = KnownKeys
  /\ "proxy_server_addr" \in KnownKeys => c["proxy_server_addr"] \in Seq(EntriesWritten)
  /\ ConfSays(c, n)

\* ... is the defaults before any is read ...
LEMMA DefaultsSaid == ConfUpTo(init_conf(server), 0)
<1> DEFINE c == init_conf(server)
<1>1. DOMAIN c = KnownKeys
  BY DefaultKeys
<1>2. "proxy_server_addr" \in KnownKeys => c["proxy_server_addr"] = <<>>
  BY DefaultProxies
<1>3. \A field : SettingsOf(field, 0) = {}
  BY DEF SettingsOf
<1> HIDE DEF c
<1>4. ProxiesOf(<<>>, {})
  <2> DEFINE list == <<>>
             order == [i \in DOMAIN list |-> 0]
  <2>1. DOMAIN list = {}
    OBVIOUS
  <2>2. order \in [DOMAIN list -> {}]
    BY <2>1
  <2> QED
    BY <2>1, <2>2 DEF ProxiesOf
<1>5. ConfSays(c, 0)
  BY <1>1, <1>2, <1>3, <1>4 DEF ConfSays, c
<1>6. "proxy_server_addr" \in KnownKeys => c["proxy_server_addr"] \in Seq(EntriesWritten)
  <2>1. <<>> \in Seq(EntriesWritten)
    OBVIOUS
  <2> QED
    BY <1>2, <2>1
<1>7. ConfUpTo(c, 0)
  BY <1>1, <1>5, <1>6 DEF ConfUpTo
<1> QED
  BY <1>7 DEF c

\* ... changes with no line that sets nothing ...
LEMMA SaysSkipped ==
    ASSUME NEW k \in Nat \ {0}, NEW c, ConfUpTo(c, k - 1), ~ IsSetting(written[k])
    PROVE  ConfUpTo(c, k)
<1>1. \A field : SettingsOf(field, k) = SettingsOf(field, k - 1)
  <2> SUFFICES ASSUME NEW field PROVE SettingsOf(field, k) = SettingsOf(field, k - 1)
    OBVIOUS
  <2>1. \A i \in 1 .. k : i # k => i \in 1 .. k - 1
    OBVIOUS
  <2>2. \A i \in 1 .. k - 1 : i \in 1 .. k
    OBVIOUS
  <2> QED
    BY <2>1, <2>2 DEF SettingsOf
<1> QED
  BY <1>1 DEF ConfUpTo, ConfSays

\* ... and with a documented one to what it says.
LEMMA SaysSet ==
    ASSUME NEW k \in DOMAIN written, k \in Nat \ {0}, NEW c, ConfUpTo(c, k - 1),
           IsSetting(written[k]), KeyOf(written[k]) \in KnownKeys
    PROVE  ConfUpTo(set_value(c, server, KeyOf(written[k]), ValueOf(written[k])), k)
<1> DEFINE word == KeyOf(written[k])
           value == ValueOf(written[k])
           new == set_value(c, server, word, value)
           proxies == "proxy_server_addr"
<1>1. /\ DOMAIN c = KnownKeys /\ ConfSays(c, k - 1)
      /\ proxies \in KnownKeys => c[proxies] \in Seq(EntriesWritten)
  BY DEF ConfUpTo
<1>2. word \in KnownKeys
  OBVIOUS
<1>3. DOMAIN new = KnownKeys
  BY <1>1 DEF set_value
<1>4. \A field \in KnownKeys : field # word => new[field] = c[field]
  BY <1>1 DEF set_value
<1>5. new[word] = IF KeysOf(server)[word] = "addr" THEN AddProxy(c[word], ProxyOf(k))
                 ELSE Converted(KeysOf(server)[word], value)
  BY <1>1, <1>2 DEF set_value, ProxyOf
<1>6. ASSUME NEW field, field # word PROVE SettingsOf(field, k) = SettingsOf(field, k - 1)
  <2>1. \A i \in 1 .. k : i # k => i \in 1 .. k - 1
    OBVIOUS
  <2>2. \A i \in 1 .. k - 1 : i \in 1 .. k
    OBVIOUS
  <2> QED
    BY <1>6, <2>1, <2>2 DEF SettingsOf
<1>7. SettingsOf(word, k) = SettingsOf(word, k - 1) \cup {k}
  <2>1. \A i \in 1 .. k : i # k => i \in 1 .. k - 1
    OBVIOUS
  <2>2. \A i \in 1 .. k - 1 : i \in 1 .. k
    OBVIOUS
  <2>3. k \in 1 .. k
    OBVIOUS
  <2> QED
    BY <2>1, <2>2, <2>3 DEF SettingsOf
<1> HIDE DEF word, value, new
<1>8. ASSUME word = proxies
      PROVE  new[word] \in Seq(EntriesWritten) /\ ProxiesOf(new[word], SettingsOf(word, k))
  <2>1. new[word] = AddProxy(c[word], ProxyOf(k))
    BY <1>2, <1>5, <1>8, AddrKey
  <2>2. c[word] \in Seq(EntriesWritten) /\ ProxiesOf(c[word], SettingsOf(word, k - 1))
    BY <1>1, <1>2, <1>8 DEF ConfSays
  <2>3. SettingsOf(word, k - 1) \in SUBSET (1 .. k - 1)
    BY DEF SettingsOf
  <2> QED
    BY <1>7, <2>1, <2>2, <2>3, ProxyAdded
<1>9. ASSUME word # proxies
      PROVE  /\ SettingsOf(word, k) # {}
             /\ new[word] = Converted(KeysOf(server)[word], ValueOf(written[Max(SettingsOf(word, k))]))
  <2> DEFINE own == SettingsOf(word, k)
  <2>1. new[word] = Converted(KeysOf(server)[word], value)
    BY <1>2, <1>5, <1>9, AddrKey
  <2>2. own \in SUBSET (1 .. k) /\ k \in own /\ own # {} /\ k \in Nat
    BY <1>7 DEF SettingsOf
  <2> HIDE DEF own
  <2>3. Max(own) \in own /\ \A j \in own : j <= Max(own)
    BY <2>2, MaxLemma
  <2>4. Max(own) = k
    <3> DEFINE m == Max(own)
    <3>1. m \in 1 .. k /\ k <= m
      BY <2>2, <2>3
    <3> HIDE DEF m
    <3>2. m = k
      BY <3>1
    <3> QED
      BY <3>2 DEF m
  <2> QED
    BY <2>1, <2>2, <2>4 DEF own, value
<1>10. ConfSays(new, k)
  <2> SUFFICES ASSUME NEW field \in KnownKeys
               PROVE  LET own == SettingsOf(field, k) IN
                      IF field = proxies THEN ProxiesOf(new[field], own)
                      ELSE new[field] = IF own = {} THEN init_conf(server)[field]
                                        ELSE Converted(KeysOf(server)[field], ValueOf(written[Max(own)]))
    BY <1>3 DEF ConfSays
  <2>1. CASE field = word
    BY <1>8, <1>9, <2>1
  <2>2. CASE field # word
    BY <1>1, <1>4, <1>6, <2>2 DEF ConfSays
  <2> QED
    BY <2>1, <2>2
<1>11. proxies \in KnownKeys => new[proxies] \in Seq(EntriesWritten)
  BY <1>1, <1>4, <1>8
<1>12. ConfUpTo(new, k)
  BY <1>3, <1>10, <1>11 DEF ConfUpTo
<1> QED
  BY <1>12 DEF new, word, value

\* A text that ends with the byte 0 has no position from which nothing is found.
LEMMA FindWithin ==
    ASSUME NEW b \in Seq(TextBytes), Len(b) # 0, Last(b) = "NUL",
           NEW from \in 1 .. Len(b), NEW T, "NUL" \in T
    PROVE  /\ Find(b, from, T) \in from .. Len(b)
           /\ b[Find(b, from, T)] \in T
<1> DEFINE hits == {i \in from .. Len(b) : b[i] \in T}
<1>1. Len(b) \in Nat /\ b[Len(b)] = "NUL"
  BY LenProperties DEF Last
<1>2. Len(b) \in hits /\ hits \in SUBSET Nat
  BY <1>1
<1>3. Min(hits) \in hits
  <2> HIDE DEF hits
  <2> QED
    BY <1>2, MinLemma
<1>4. Find(b, from, T) = Min(hits)
  BY <1>2 DEF Find
<1> QED
  BY <1>3, <1>4

\* What the parser finds of whatever line starts at a position is in the text.
LEMMA BlankWithin ==
    ASSUME NEW b \in Seq(TextBytes), Len(b) # 0, Last(b) = "NUL", Fed(b),
           NEW p \in 1 .. Len(b), BlankLine(b, p).pos # 0
    PROVE  /\ BlankLine(b, p).pos \in 1 .. Len(b)
           /\ ~ BlankLine(b, p).last => BlankLine(b, p).pos < Len(b)
<1> DEFINE x == Skip(b, p)
           y == AfterReturn(b, x)
           z == IF b[p] = "#" THEN Find(b, p, LineEnds) ELSE y
<1>1. Len(b) \in Nat /\ b[Len(b)] = "NUL"
  BY LenProperties DEF Last
<1>2. x \in 1 .. Len(b)
  <2>1. "NUL" \in TextBytes \ {"SP"}
    BY DEF TextBytes
  <2>2. x \in p .. Len(b)
    BY <2>1, FindWithin DEF Skip
  <2> QED
    BY <1>1, <2>2
<1> HIDE DEF x
<1>3. y \in 1 .. Len(b)
  BY <1>1, <1>2 DEF AfterReturn, Fed
<1> HIDE DEF y
<1>4. z \in 1 .. Len(b)
  <2>1. "NUL" \in LineEnds
    BY DEF LineEnds
  <2>2. Find(b, p, LineEnds) \in p .. Len(b)
    BY <2>1, FindWithin
  <2> QED
    BY <1>1, <1>3, <2>2
<1>5. BlankLine(b, p) = IF b[z] \in LineEnds THEN [pos |-> z, last |-> b[z] = "NUL"]
                        ELSE [pos |-> 0, last |-> FALSE]
  BY DEF BlankLine, x, y
<1> HIDE DEF z
<1>6. BlankLine(b, p) = [pos |-> z, last |-> b[z] = "NUL"]
  BY <1>5
<1>7. BlankLine(b, p).pos = z /\ (~ BlankLine(b, p).last => b[z] # "NUL")
  <2>1. BlankLine(b, p).pos = z /\ BlankLine(b, p).last = (b[z] = "NUL")
    BY <1>6
  <2> QED
    BY <2>1, Zenon
<1> HIDE DEF z
<1>8. b[z] # "NUL" => z < Len(b)
  BY <1>1, <1>4
<1> QED
  BY <1>4, <1>7, <1>8

LEMMA SettingWithin ==
    ASSUME NEW b \in Seq(TextBytes), Len(b) # 0, Last(b) = "NUL", Fed(b), NEW p \in 1 .. Len(b)
    PROVE  /\ SettingLine(b, p).pos \in 1 .. Len(b)
           /\ ~ SettingLine(b, p).last => SettingLine(b, p).pos < Len(b)
<1> DEFINE x == AfterReturn(b, Skip(b, p))
           e == Find(b, x, {"="} \cup LineEnds)
           y == IF b[e] = "=" THEN e + 1 ELSE e
           z == Find(b, y, {"\r"} \cup LineEnds)
<1>1. Len(b) \in Nat /\ b[Len(b)] = "NUL"
  BY LenProperties DEF Last
<1>2. "NUL" \in {"="} \cup LineEnds /\ "NUL" \in {"\r"} \cup LineEnds
  BY DEF LineEnds
<1>3. x \in 1 .. Len(b)
  <2>1. "NUL" \in TextBytes \ {"SP"}
    BY DEF TextBytes
  <2>2. Skip(b, p) \in p .. Len(b)
    BY <2>1, FindWithin DEF Skip
  <2> DEFINE w == Skip(b, p)
  <2>3. w \in 1 .. Len(b)
    BY <1>1, <2>2
  <2> HIDE DEF w
  <2>4. AfterReturn(b, w) \in 1 .. Len(b)
    BY <1>1, <2>3 DEF AfterReturn, Fed
  <2> QED
    BY <2>4 DEF w
<1> HIDE DEF x
<1>4. e \in x .. Len(b)
  BY <1>2, <1>3, FindWithin
<1> HIDE DEF e
<1>5. y \in 1 .. Len(b)
  BY <1>1, <1>3, <1>4
<1> HIDE DEF y
<1>6. z \in y .. Len(b) /\ b[z] \in {"\r"} \cup LineEnds
  BY <1>2, <1>5, FindWithin
<1>7. /\ SettingLine(b, p).pos = (IF b[z] = "\r" THEN z + 1 ELSE z)
      /\ ~ SettingLine(b, p).last => b[z] # "NUL"
  BY DEF SettingLine, x, e, y, z
<1> HIDE DEF z
<1>8. z \in 1 .. Len(b)
  BY <1>1, <1>5, <1>6
<1>9. CASE b[z] = "\r"
  <2>1. z < Len(b) /\ b[z + 1] = "\n"
    BY <1>8, <1>9 DEF Fed
  <2>2. z + 1 # Len(b)
    BY <1>1, <2>1
  <2> QED
    BY <1>1, <1>7, <1>8, <1>9, <2>1, <2>2
<1>10. CASE b[z] # "\r"
  <2>1. b[z] # "NUL" => z < Len(b)
    BY <1>1, <1>8
  <2> QED
    BY <1>7, <1>8, <1>10, <2>1
<1> QED
  BY <1>9, <1>10

\* The first lines of the file are taken, and the configuration is what they say.
TakenUpTo(n) == \A i \in 1 .. n : IsSetting(written[i]) => Documented(written[i])
ReadUpTo(n) == TakenUpTo(n) /\ ConfUpTo(conf, n)

\* The parser stands before line k.
AtLine(start, k) == k \in 1 .. Len(written) /\ pos = start[k] /\ ReadUpTo(k - 1)

\* A line that is refused.
Undocumented == \E i \in DOMAIN written : IsSetting(written[i]) /\ ~ Documented(written[i])

\* Of a text whose last byte is 0: the parser is before one of the lines and has read those
\* before it, or has read all, or has stopped at a line that is not documented.
ReadSoFar ==
  /\ \E start : /\ LaidOut(buf, written, start)
                /\ confState = "parsing" => \E k \in 1 .. Len(written) : AtLine(start, k)
  /\ confState = "parsed" => ReadUpTo(Len(written))
  /\ confState \in {"refused", "dead"} => Len(buf) = 1 \/ Undocumented

\* The inductive invariant.
ConfInv ==
  /\ ConfTypeOK
  /\ confState # "load" =>
       /\ DOMAIN conf = KnownKeys
       /\ Fed(buf)
       /\ ~ Contains(buf, "?") => ReadSoFar

\* The lines ConfLoad chooses from.
LEMMA WrittenLines ==
    ASSUME NEW lines \in BoundedSeq(Lines, MaxLines)
    PROVE  /\ lines \in Seq(Lines) /\ Len(lines) \in Nat /\ DOMAIN lines = 1 .. Len(lines)
           /\ \A i \in 1 .. Len(lines) : lines[i] \in Seq(TextBytes) /\ NoFeeds(lines[i])
<1>1. PICK m \in 0 .. MaxLines : lines \in [1 .. m -> Lines]
  BY DEF BoundedSeq, SeqOf
<1>2. m \in Nat
  BY <1>1, ConfAssumption
<1>3. lines \in Seq(Lines)
  BY <1>1, <1>2
<1> QED
  BY <1>3, LinesOfTokens, LenProperties, ElementOfSeq

\* The invariant holds at the start and is kept by the loading of a file ...
LEMMA ConfStart == ConfInit => ConfInv
<1> SUFFICES ASSUME ConfInit PROVE ConfInv
  OBVIOUS
<1>1. <<>> \in BoundedSeq(Lines, MaxLines)
  <2>1. 0 \in 0 .. MaxLines /\ <<>> \in [1 .. 0 -> Lines]
    BY ConfAssumption
  <2> QED
    BY <2>1 DEF BoundedSeq, SeqOf
<1>2. <<"NUL">> \in Seq(TextBytes) /\ Len(<<"NUL">>) = 1 /\ Last(<<"NUL">>) = "NUL"
  BY DEF TextBytes, Last
<1>3. ConfTypeOK
  BY <1>1, <1>2 DEF ConfInit, ConfTypeOK
<1> QED
  BY <1>3 DEF ConfInit, ConfInv

\* Nothing of what was read depends on what a step leaves alone.
LEMMA SameReading ==
    ASSUME UNCHANGED <<server, written>>, NEW n, TakenUpTo(n)
    PROVE  TakenUpTo(n)'
BY DEF TakenUpTo, Documented, KnownKeys

LEMMA SameSaid ==
    ASSUME UNCHANGED <<server, written>>, NEW c, NEW n, ConfUpTo(c, n)
    PROVE  ConfUpTo(c, n)'
<1>1. KnownKeys' = KnownKeys /\ EntriesWritten' = EntriesWritten
  BY DEF KnownKeys, EntriesWritten, EntryOf, ProxyOf
<1>2. ASSUME NEW field PROVE SettingsOf(field, n)' = SettingsOf(field, n)
  BY DEF SettingsOf
<1>3. ASSUME NEW list, NEW lines, ProxiesOf(list, lines) PROVE ProxiesOf(list, lines)'
  BY <1>3 DEF ProxiesOf, ProxyOf, Before
<1>4. ConfSays(c, n)'
  BY <1>2, <1>3 DEF ConfUpTo, ConfSays
<1> QED
  BY <1>1, <1>4 DEF ConfUpTo

LEMMA LoadStep == ConfInv /\ ConfLoad => ConfInv'
<1> SUFFICES ASSUME ConfInv, ConfLoad PROVE ConfInv'
  OBVIOUS
<1>1. PICK lines \in BoundedSeq(Lines, MaxLines), eol \in Feeds,
           ended \in BOOLEAN, tail \in {"NUL", "?"} :
       /\ written' = lines
       /\ buf' = Text(lines, eol, ended, tail)
       /\ confState' = IF Text(lines, eol, ended, "NUL") = <<"NUL">> THEN "refused" ELSE "parsing"
  BY DEF ConfLoad, Feeds
<1>2. server' = server /\ conf' = init_conf(server) /\ pos' = 1 /\ server \in {"storage", "proxy"}
  BY DEF ConfLoad, ConfInv, ConfTypeOK
<1>3. lines \in Seq(Lines) /\ Len(lines) \in Nat /\ DOMAIN lines = 1 .. Len(lines)
  BY WrittenLines
<1> DEFINE b == Text(lines, eol, ended, tail)
<1>4. /\ b \in Seq(TextBytes) /\ Len(b) # 0 /\ Last(b) = "NUL" /\ Fed(b)
      /\ tail = "NUL" => \E start : LaidOut(b, lines, start)
      /\ tail = "NUL" /\ Len(lines) = 0 => b = <<"NUL">>
      /\ tail = "?" => Contains(b, "?")
  BY <1>3, TextLaidOut
<1>5. confState' \in {"refused", "parsing"} /\ buf' = b
      /\ (tail = "NUL" => (confState' = "refused" <=> b = <<"NUL">>))
  BY <1>1
<1> HIDE DEF b
<1>6. Len(b) \in Nat
  BY <1>4, LenProperties
<1>7. DOMAIN conf' = KnownKeys'
  BY <1>2, DefaultKeys DEF KnownKeys
<1>8. ConfTypeOK'
  BY <1>1, <1>2, <1>4, <1>5, <1>6, <1>7 DEF ConfTypeOK, KnownKeys
<1>9. ASSUME ~ Contains(b, "?") PROVE ReadSoFar'
  <2>1. tail = "NUL"
    BY <1>4, <1>9
  <2>2. PICK start : LaidOut(b, lines, start)
    BY <1>4, <2>1
  <2>3. ASSUME confState' = "parsing" PROVE \E k \in 1 .. Len(lines) : AtLine(start, k)'
    <3>1. Len(lines) # 0 /\ 1 \in 1 .. Len(lines) /\ start[1] = 1
          <4>1. Len(lines) # 0
        BY <1>4, <1>5, <2>1, <2>3
      <4>2. start[1] = 1
        BY <2>2 DEF LaidOut
      <4> QED
        BY <1>3, <4>1, <4>2
    <3>2. ConfUpTo(init_conf(server), 0)'
      BY DefaultsSaid, PTL
    <3>3. ReadUpTo(0)'
      BY <1>2, <3>2 DEF ReadUpTo, TakenUpTo
    <3>4. AtLine(start, 1)'
      BY <1>1, <1>2, <3>1, <3>3 DEF AtLine
    <3> QED
      BY <3>1, <3>4
  <2>4. confState' = "refused" => Len(buf') = 1
    BY <1>5, <2>1
  <2> QED
    BY <1>1, <1>5, <2>2, <2>3, <2>4 DEF ReadSoFar
<1> QED
  BY <1>4, <1>5, <1>7, <1>8, <1>9 DEF ConfInv

\* The line that starts where the file's layout says.
LEMMA LineThere ==
    ASSUME ConfInv, NEW start, LaidOut(buf, written, start), NEW k \in 1 .. Len(written)
    PROVE  /\ LineOf(buf, start[k], written[k])
           /\ Len(written) \in Nat /\ k \in Nat \ {0} /\ k \in DOMAIN written
           /\ written[k] \in Seq(TextBytes)
<1>1. /\ Len(written) \in Nat /\ DOMAIN written = 1 .. Len(written)
      /\ written[k] \in Seq(TextBytes) /\ NoFeeds(written[k])
  BY WrittenLines DEF ConfInv, ConfTypeOK
<1>2. buf \in Seq(TextBytes)
  BY DEF ConfInv, ConfTypeOK
<1>3. LineIn(buf, start[k], written[k])
  BY DEF LaidOut
<1> QED
  BY <1>1, <1>2, <1>3 DEF LineOf

\* A line that starts at the end of the text is empty and the last.
LEMMA NothingLeft ==
    ASSUME ConfInv, NEW start, LaidOut(buf, written, start), NEW k \in 1 .. Len(written),
           buf[start[k]] = "NUL"
    PROVE  k = Len(written) /\ ~ IsSetting(written[k])
<1> DEFINE p == start[k]
           l == written[k]
<1>1. LineOf(buf, p, l) /\ l \in Seq(TextBytes) /\ k \in Nat \ {0} /\ Len(written) \in Nat
  BY LineThere
<1>2. IF buf[EndOf(buf, p, l)] = "NUL" THEN k = Len(written) ELSE TRUE
  BY DEF LaidOut
<1>3. buf[p] = "NUL"
  OBVIOUS
<1> HIDE DEF p, l
<1>4. /\ p \in Nat \ {0} /\ Len(l) \in Nat
      /\ \A i \in 1 .. Len(l) : buf[(p + i) - 1] = l[i]
      /\ buf[p + Len(l)] # "\r" => EndOf(buf, p, l) = p + Len(l)
  BY <1>1, LineFacts
<1>5. Len(l) = 0
  <2> SUFFICES ASSUME Len(l) # 0 PROVE FALSE
    OBVIOUS
  <2>1. p \in p .. (p + Len(l)) - 1
    BY <1>4
  <2>2. buf[p] # "NUL"
    BY <1>1, <2>1, LineTokens
  <2> QED
    BY <1>3, <2>2
<1>6. EndOf(buf, p, l) = p
  <2>1. p + Len(l) = p
    BY <1>4, <1>5
  <2> QED
    BY <1>3, <1>4, <2>1
<1>7. k = Len(written)
  BY <1>2, <1>3, <1>6
<1>8. ~ IsSetting(l)
  <2>1. DOMAIN l = {}
    BY <1>1, <1>5
  <2> QED
    BY <2>1 DEF IsSetting
<1> QED
  BY <1>7, <1>8 DEF l

\* What a step that reads a line leaves.
LEMMA LineRead ==
    ASSUME ConfInv, UNCHANGED <<server, written, buf>>,
           NEW start, LaidOut(buf, written, start), NEW k \in 1 .. Len(written),
           NEW c, c = conf', ConfUpTo(c, k), TakenUpTo(k),
           NEW last \in BOOLEAN, last <=> buf[EndOf(buf, start[k], written[k])] = "NUL",
           Advance(EndOf(buf, start[k], written[k]), last)
    PROVE  ReadSoFar'
<1> DEFINE n == Len(written)
           end == EndOf(buf, start[k], written[k])
<1>1. n \in Nat /\ k \in Nat \ {0} /\ k <= n
  BY LineThere
<1>2. IF buf[end] = "NUL" THEN k = n
      ELSE start[k + 1] = end + 1 /\ (k = n => buf[start[k + 1]] = "NUL")
  BY DEF LaidOut
<1>3. /\ pos' = end + 1
      /\ confState' = IF last \/ buf[end + 1] = "NUL" THEN "parsed" ELSE "parsing"
      /\ last <=> buf[end] = "NUL"
  BY DEF Advance
<1>4. LaidOut(buf, written, start)'
  <2>1. LaidOut(buf', written', start)
    OBVIOUS
  <2> QED
    BY <2>1 DEF LaidOut
<1>5. ASSUME ConfUpTo(c, n), TakenUpTo(n) PROVE ReadUpTo(Len(written))'
  <2>1. ConfUpTo(c, n)' /\ TakenUpTo(n)'
    BY <1>5, SameReading, SameSaid
  <2> QED
    BY <2>1 DEF ReadUpTo
<1> HIDE DEF end
<1>6. CASE k = n /\ confState' = "parsed"
  BY <1>4, <1>5, <1>6 DEF ReadSoFar
<1>7. CASE k # n /\ confState' = "parsed"
  <2>1. (k + 1) \in 1 .. n /\ buf[start[k + 1]] = "NUL"
    BY <1>1, <1>2, <1>3, <1>7
  <2>2. k + 1 = n /\ ~ IsSetting(written[k + 1])
    BY <2>1, NothingLeft
  <2>3. (k + 1) \in Nat \ {0} /\ (k + 1) - 1 = k
    BY <1>1
  <2>4. ConfUpTo(c, k + 1)
    BY <2>2, <2>3, SaysSkipped
  <2>5. TakenUpTo(k + 1)
    <3>1. \A i \in 1 .. k + 1 : i \in 1 .. k \/ i = k + 1
      BY <1>1
    <3> QED
      BY <2>2, <3>1 DEF TakenUpTo
  <2>6. ReadUpTo(Len(written))'
    BY <1>5, <2>2, <2>4, <2>5
  <2> QED
    BY <1>4, <1>7, <2>6 DEF ReadSoFar
<1>8. CASE confState' = "parsing"
  <2>1. buf[end] # "NUL" /\ buf[end + 1] # "NUL"
    BY <1>3, <1>8
  <2>2. k # n /\ pos' = start[k + 1]
    BY <1>2, <1>3, <2>1
  <2>3. (k + 1) \in 1 .. n /\ (k + 1) - 1 = k
    BY <1>1, <2>2
  <2>4. ConfUpTo(c, k)' /\ TakenUpTo(k)'
    BY SameReading, SameSaid
  <2>5. ReadUpTo((k + 1) - 1)'
    BY <2>3, <2>4 DEF ReadUpTo
  <2>6. AtLine(start, k + 1)'
    BY <2>2, <2>3, <2>5 DEF AtLine
  <2>7. \E j \in 1 .. Len(written') : AtLine(start, j)'
    BY <2>3, <2>6
  <2> QED
    BY <1>4, <1>8, <2>7 DEF ReadSoFar
<1>9. confState' \in {"parsed", "parsing"}
  BY <1>3
<1> QED
  BY <1>6, <1>7, <1>8, <1>9

\* The parser stays in the text.
LEMMA TypeAdvanced ==
    ASSUME ConfInv, UNCHANGED <<server, written, buf>>,
           NEW at \in 1 .. Len(buf), NEW last \in BOOLEAN, ~ last => at < Len(buf),
           Advance(at, last), DOMAIN conf' = KnownKeys
    PROVE  ConfTypeOK'
<1>1. Len(buf) \in Nat /\ Last(buf) = "NUL" /\ buf[Len(buf)] = "NUL"
  BY LenProperties DEF ConfInv, ConfTypeOK, Last
<1>2. /\ pos' = at + 1
      /\ confState' = IF last \/ buf[at + 1] = "NUL" THEN "parsed" ELSE "parsing"
  BY DEF Advance
<1>3. pos' \in 1 .. Len(buf) + 1 /\ (confState' = "parsing" => pos' \in 1 .. Len(buf))
      /\ confState' \in {"parsed", "parsing"}
  BY <1>1, <1>2
<1> QED
  BY <1>3 DEF ConfInv, ConfTypeOK, KnownKeys

\* ... by a line that sets nothing ...
LEMMA BlankStep == ConfInv /\ ConfBlank => ConfInv'
<1> SUFFICES ASSUME ConfInv, ConfBlank PROVE ConfInv'
  OBVIOUS
<1> DEFINE line == BlankLine(buf, pos)
<1>1. /\ confState = "parsing" /\ line.pos # 0 /\ Advance(line.pos, line.last)
      /\ UNCHANGED <<server, written, buf, conf>>
  BY DEF ConfBlank
<1>2. /\ buf \in Seq(TextBytes) /\ Len(buf) # 0 /\ Last(buf) = "NUL" /\ Fed(buf)
      /\ pos \in 1 .. Len(buf) /\ DOMAIN conf = KnownKeys
      /\ ~ Contains(buf, "?") => ReadSoFar
  BY <1>1 DEF ConfInv, ConfTypeOK
<1>3. line.pos \in 1 .. Len(buf) /\ (~ line.last => line.pos < Len(buf))
  BY <1>1, <1>2, BlankWithin
<1>4. line.last \in BOOLEAN
  BY DEF BlankLine
<1> HIDE DEF line
<1>5. ConfTypeOK'
  BY <1>1, <1>2, <1>3, <1>4, TypeAdvanced
<1>6. confState' # "load"
  BY <1>1 DEF Advance
<1>7. ASSUME ~ Contains(buf, "?") PROVE ReadSoFar'
  <2>1. PICK start : /\ LaidOut(buf, written, start)
                     /\ \E k \in 1 .. Len(written) : AtLine(start, k)
    BY <1>1, <1>2, <1>7 DEF ReadSoFar
  <2>2. PICK k \in 1 .. Len(written) : AtLine(start, k)
    BY <2>1
  <2>3. pos = start[k] /\ ConfUpTo(conf, k - 1) /\ TakenUpTo(k - 1)
    BY <2>2 DEF AtLine, ReadUpTo
  <2>4. /\ LineOf(buf, pos, written[k]) /\ k \in Nat \ {0}
        /\ written[k] \in Seq(TextBytes)
    BY <2>1, <2>3, LineThere
  <2>5. IsBlank(written[k])
    BY <1>1, <2>4, SettingsNotBlank DEF line
  <2>6. ~ IsSetting(written[k])
    BY <2>4, <2>5, SettingOrBlank
  <2>7. line.pos = EndOf(buf, pos, written[k]) /\ line.last = (buf[EndOf(buf, pos, written[k])] = "NUL")
    BY <2>4, <2>5, BlankLines DEF line
  <2>8. ConfUpTo(conf, k)
    BY <2>3, <2>4, <2>6, SaysSkipped
  <2>9. TakenUpTo(k)
    <3>1. \A i \in 1 .. k : i \in 1 .. k - 1 \/ i = k
      BY <2>4
    <3> QED
      BY <2>3, <2>6, <3>1 DEF TakenUpTo
  <2> DEFINE end == EndOf(buf, start[k], written[k])
  <2>10. Advance(end, line.last)
    BY <1>1, <2>3, <2>7
  <2>11. line.last <=> buf[end] = "NUL"
    BY <2>3, <2>7, Zenon
  <2>12. conf = conf'
    BY <1>1
  <2> QED
    BY <1>1, <1>4, <2>1, <2>8, <2>9, <2>10, <2>11, <2>12, LineRead
<1> QED
  BY <1>1, <1>2, <1>5, <1>6, <1>7 DEF ConfInv, KnownKeys

\* ... by one that sets a field ...
LEMMA SettingStep == ConfInv /\ ConfSetting => ConfInv'
<1> SUFFICES ASSUME ConfInv, ConfSetting PROVE ConfInv'
  OBVIOUS
<1> DEFINE line == SettingLine(buf, pos)
           new == set_value(conf, server, line.key, line.value)
<1>1. /\ confState = "parsing" /\ BlankLine(buf, pos).pos = 0 /\ Taken(line)
      /\ conf' = new /\ Advance(line.pos, line.last)
      /\ UNCHANGED <<server, written, buf>>
  BY DEF ConfSetting, Taken, KnownKeys
<1>2. /\ buf \in Seq(TextBytes) /\ Len(buf) # 0 /\ Last(buf) = "NUL" /\ Fed(buf)
      /\ pos \in 1 .. Len(buf) /\ DOMAIN conf = KnownKeys
      /\ ~ Contains(buf, "?") => ReadSoFar
  BY <1>1 DEF ConfInv, ConfTypeOK
<1>3. line.pos \in 1 .. Len(buf) /\ (~ line.last => line.pos < Len(buf))
  BY <1>2, SettingWithin
<1>4. line.last \in BOOLEAN
  BY DEF SettingLine
<1>5. DOMAIN conf' = KnownKeys
  BY <1>1, <1>2 DEF set_value
<1> HIDE DEF line, new
<1>6. ConfTypeOK'
  BY <1>1, <1>3, <1>4, <1>5, TypeAdvanced
<1>7. confState' # "load"
  BY <1>1 DEF Advance
<1>8. ASSUME ~ Contains(buf, "?") PROVE ReadSoFar'
  <2>1. PICK start : /\ LaidOut(buf, written, start)
                     /\ \E k \in 1 .. Len(written) : AtLine(start, k)
    BY <1>1, <1>2, <1>8 DEF ReadSoFar
  <2>2. PICK k \in 1 .. Len(written) : AtLine(start, k)
    BY <2>1
  <2>3. pos = start[k] /\ ConfUpTo(conf, k - 1) /\ TakenUpTo(k - 1)
    BY <2>2 DEF AtLine, ReadUpTo
  <2>4. /\ LineOf(buf, pos, written[k]) /\ k \in Nat \ {0} /\ k \in DOMAIN written
        /\ written[k] \in Seq(TextBytes)
    BY <2>1, <2>3, LineThere
  <2>5. IsSetting(written[k])
    <3>1. ASSUME IsBlank(written[k]) PROVE FALSE
      <4>1. BlankLine(buf, pos).pos = EndOf(buf, pos, written[k])
        BY <2>4, <3>1, BlankLines
      <4>2. pos \in Nat \ {0} /\ Len(written[k]) \in Nat
            /\ pos + Len(written[k]) <= EndOf(buf, pos, written[k])
            /\ EndOf(buf, pos, written[k]) \in Nat
        BY <2>4, LineFacts
      <4> QED
        BY <1>1, <4>1, <4>2
    <3> QED
      BY <2>4, <3>1, SettingOrBlank
  <2>6. /\ Documented(written[k])
        /\ line.key = KeyOf(written[k]) /\ line.value = ValueOf(written[k])
        /\ line.pos = EndOf(buf, pos, written[k])
        /\ line.last = (buf[EndOf(buf, pos, written[k])] = "NUL")
    BY <1>1, <2>4, <2>5, DocumentedTaken DEF line
  <2>7. KeyOf(written[k]) \in KnownKeys
    BY <1>1, <2>6 DEF Taken
  <2>8. ConfUpTo(new, k)
    BY <2>3, <2>4, <2>5, <2>6, <2>7, SaysSet DEF new
  <2>9. TakenUpTo(k)
    <3>1. \A i \in 1 .. k : i \in 1 .. k - 1 \/ i = k
      BY <2>4
    <3> QED
      BY <2>3, <2>6, <3>1 DEF TakenUpTo
  <2> DEFINE end == EndOf(buf, start[k], written[k])
  <2>10. Advance(end, line.last)
    BY <1>1, <2>3, <2>6
  <2>11. line.last <=> buf[end] = "NUL"
    BY <2>3, <2>6, Zenon
  <2>12. new = conf'
    BY <1>1
  <2> QED
    BY <1>1, <1>4, <2>1, <2>8, <2>9, <2>10, <2>11, <2>12, LineRead
<1> QED
  BY <1>1, <1>2, <1>5, <1>6, <1>7, <1>8 DEF ConfInv, KnownKeys

\* A line that is not taken is not documented.
LEMMA StopStep == ConfInv /\ (ConfRefused \/ ConfDies) => ConfInv'
<1> SUFFICES ASSUME ConfInv, ConfRefused \/ ConfDies PROVE ConfInv'
  OBVIOUS
<1> DEFINE line == SettingLine(buf, pos)
<1>1. /\ confState = "parsing" /\ BlankLine(buf, pos).pos = 0 /\ ~ Taken(line)
      /\ confState' \in {"refused", "dead"}
      /\ UNCHANGED <<server, written, buf, pos, conf>>
  BY DEF ConfRefused, ConfDies, Taken, KnownKeys
<1>2. /\ pos \in 1 .. Len(buf) /\ DOMAIN conf = KnownKeys /\ Fed(buf)
      /\ ~ Contains(buf, "?") => ReadSoFar
  BY <1>1 DEF ConfInv, ConfTypeOK
<1>3. ConfTypeOK'
  BY <1>1 DEF ConfInv, ConfTypeOK
<1> HIDE DEF line
<1>4. ASSUME ~ Contains(buf, "?") PROVE ReadSoFar'
  <2>1. PICK start : /\ LaidOut(buf, written, start)
                     /\ \E k \in 1 .. Len(written) : AtLine(start, k)
    BY <1>1, <1>2, <1>4 DEF ReadSoFar
  <2>2. PICK k \in 1 .. Len(written) : AtLine(start, k)
    BY <2>1
  <2>3. pos = start[k]
    BY <2>2 DEF AtLine
  <2>4. /\ LineOf(buf, pos, written[k]) /\ k \in DOMAIN written
        /\ written[k] \in Seq(TextBytes)
    BY <2>1, <2>3, LineThere
  <2>5. IsSetting(written[k])
    <3>1. ASSUME IsBlank(written[k]) PROVE FALSE
      <4>1. BlankLine(buf, pos).pos = EndOf(buf, pos, written[k])
        BY <2>4, <3>1, BlankLines
      <4>2. pos \in Nat \ {0} /\ Len(written[k]) \in Nat
            /\ pos + Len(written[k]) <= EndOf(buf, pos, written[k])
            /\ EndOf(buf, pos, written[k]) \in Nat
        BY <2>4, LineFacts
      <4> QED
        BY <1>1, <4>1, <4>2
    <3> QED
      BY <2>4, <3>1, SettingOrBlank
  <2>6. ~ Documented(written[k])
    BY <1>1, <2>4, <2>5, DocumentedTaken DEF line
  <2>7. Undocumented'
    BY <1>1, <2>4, <2>5, <2>6 DEF Undocumented, Documented
  <2>8. LaidOut(buf, written, start)'
    BY <1>1, <2>1
  <2> QED
    BY <1>1, <2>7, <2>8 DEF ReadSoFar
<1> QED
  BY <1>1, <1>2, <1>3, <1>4 DEF ConfInv, KnownKeys

\* ... and so by every step.
LEMMA ConfStep == ConfInv /\ [ConfNext]_confVars => ConfInv'
<1> SUFFICES ASSUME ConfInv, [ConfNext]_confVars PROVE ConfInv'
  OBVIOUS
<1>1. ASSUME UNCHANGED confVars PROVE ConfInv'
  <2>1. UNCHANGED <<server, written, buf, pos, conf, confState>>
    BY <1>1 DEF confVars
  <2>2. ConfTypeOK' /\ KnownKeys' = KnownKeys
    BY <2>1 DEF ConfInv, ConfTypeOK, KnownKeys
  <2>3. ASSUME NEW n, ReadUpTo(n) PROVE ReadUpTo(n)'
    <3> DEFINE c == conf
    <3>1. TakenUpTo(n)' /\ ConfUpTo(c, n)'
      BY <2>1, <2>3, SameReading, SameSaid DEF ReadUpTo
    <3> QED
      BY <2>1, <3>1 DEF ReadUpTo
  <2>4. ASSUME ReadSoFar PROVE ReadSoFar'
    <3>1. PICK start : /\ LaidOut(buf, written, start)
                       /\ confState = "parsing" => \E k \in 1 .. Len(written) : AtLine(start, k)
      BY <2>4 DEF ReadSoFar
    <3>2. LaidOut(buf, written, start)'
      BY <2>1, <3>1
    <3>3. confState' = "parsing" => \E k \in 1 .. Len(written') : AtLine(start, k)'
      BY <2>1, <2>3, <3>1 DEF AtLine
    <3>4. confState' = "parsed" => ReadUpTo(Len(written))'
      BY <2>1, <2>3, <2>4 DEF ReadSoFar
    <3>5. Undocumented => Undocumented'
      BY <2>1 DEF Undocumented, Documented
    <3>6. confState' \in {"refused", "dead"} => Len(buf') = 1 \/ Undocumented'
      BY <2>1, <2>4, <3>5 DEF ReadSoFar
    <3> QED
      BY <3>2, <3>3, <3>4, <3>6 DEF ReadSoFar
  <2> QED
    BY <2>1, <2>2, <2>4 DEF ConfInv
<1>2. CASE ConfLoad
  BY <1>2, LoadStep
<1>3. CASE ConfBlank
  BY <1>3, BlankStep
<1>4. CASE ConfSetting
  BY <1>4, SettingStep
<1>5. CASE ConfRefused \/ ConfDies
  BY <1>5, StopStep
<1> QED
  BY <1>1, <1>2, <1>3, <1>4, <1>5 DEF ConfNext

LEMMA ConfAlways == ConfSpec => []ConfInv
<1> QED
  BY ConfStart, ConfStep, PTL DEF ConfSpec

\* Every variable of the parser keeps its type whatever the file: in particular p does not
\* pass the byte 0 that ends the text while a line is parsed (base_conf_parser.cpp:86-99).
THEOREM ConfTypeCorrect == ConfSpec => []ConfTypeOK
<1>1. ConfInv => ConfTypeOK
  BY DEF ConfInv
<1> QED
  BY <1>1, ConfAlways, PTL

\* base_conf_parser.cpp:78-243 and storage_conf_parser.cpp:54-68, for files of any number and
\* kind of lines: a file is accepted only when each of its lines is a comment, blank or as
\* documented, every field is then what the last line with its key says, the proxies are in
\* the order in which the master is looked for, and what is refused has another line.
THEOREM FilesReadAsWritten == ConfSpec => []ConfAsWritten
<1>1. ConfInv => ConfAsWritten
  <2> SUFFICES ASSUME ConfInv, ~ Contains(buf, "?"), confState \in {"parsed", "refused", "dead"}
               PROVE  ConfAsWritten
    BY DEF ConfAsWritten
  <2>1. ReadSoFar
    BY DEF ConfInv
  <2>2. DOMAIN written = 1 .. Len(written)
    BY WrittenLines DEF ConfInv, ConfTypeOK
  <2> QED
    BY <2>1, <2>2 DEF ReadSoFar, ReadUpTo, TakenUpTo, ConfUpTo, Undocumented, ConfAsWritten
<1> QED
  BY <1>1, ConfAlways, PTL
=============================================================================
