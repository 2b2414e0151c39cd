---------------------------- MODULE VnodeInfoProofs ----------------------------
(***************************************************************************)
(* What the round robin of vnode_info and its list operations guarantee for  *)
(* lists of any length (src/proxynode/node_info.cpp).                        *)
(***************************************************************************)
EXTENDS VnodeInfo, FiniteSetTheorems, SequenceTheorems, TLAPS

\* The first of a set of positions exists and is the first.
LEMMA FirstOfLemma ==
    ASSUME NEW S, S \subseteq Nat, S # {}
    PROVE  FirstOf(S) \in S /\ \A j \in S : FirstOf(S) <= j
<1> DEFINE upto == {1..k : k \in S}
<1>1. upto \subseteq FiniteSubsetsOf(Nat)
  <2>1. ASSUME NEW k \in S PROVE 1..k \in FiniteSubsetsOf(Nat)
    <3>1. 1 \in Int /\ k \in Int /\ 1..k \in SUBSET Nat
      OBVIOUS
    <3>2. IsFiniteSet(1..k)
      BY <3>1, FS_Interval
    <3> QED
      BY <3>1, <3>2 DEF FiniteSubsetsOf
  <2> QED
    BY <2>1
<1>2. PICK m \in upto : \A l \in upto : ~(<<l, m>> \in StrictSubsetOrdering(Nat))
  <2>1. upto # {}
    OBVIOUS
  <2>2. IsWellFoundedOn(StrictSubsetOrdering(Nat), FiniteSubsetsOf(Nat))
    BY FS_StrictSubsetOrderingWellFounded
  <2> HIDE DEF upto
  <2> QED
    BY <1>1, <2>1, <2>2, WFMin
<1>3. PICK k \in S : m = 1..k
  OBVIOUS
<1>4. ASSUME NEW j \in S, j < k PROVE FALSE
  <2>1. 1..j \subseteq 1..k /\ k \in 1..k /\ k \notin 1..j
    BY <1>4
  <2>2. <<1..j, 1..k>> \in StrictSubsetOrdering(Nat)
    BY <2>1 DEF StrictSubsetOrdering
  <2> QED
    BY <1>2, <1>3, <2>2
<1>5. \A j \in S : k <= j
  BY <1>4
<1> QED
  BY <1>5 DEF FirstOf

\* Every probe looks at a slot of the list ...
LEMMA SlotInList ==
    ASSUME NEW n \in Nat, NEW cursor \in Nat, NEW k \in 0..(n - 1)
    PROVE  Slot(n, cursor, k) \in 1..n
BY DEF Slot, Wrap

\* ... and no slot is left out by n probes, wherever the cursor stands.
LEMMA SlotsCoverList ==
    ASSUME NEW n \in Nat, NEW cursor \in Nat, NEW i \in 1..n
    PROVE  \E k \in 0..(n - 1) : Slot(n, cursor, k) = i
<1> DEFINE w == Wrap(n, cursor)
           k == IF i > w THEN i - 1 - w ELSE i - 1 - w + n
<1>1. w \in 0..(n - 1)
  BY DEF Wrap
<1>2. k \in 0..(n - 1) /\ Slot(n, cursor, k) = i
  BY <1>1 DEF Slot
<1> QED
  BY <1>2

\* A read finds an ACTIVE replica exactly when there is one
\* (get_read_replica(), for any list, statuses and cursor).
THEOREM ReadReplicaCorrect ==
    ASSUME NEW D, NoDevice \notin D, NEW list \in Seq(D),
           NEW status \in [D -> Statuses], NEW rd \in Nat
    PROVE  LET dev == get_read_replica(list, status, rd)
           IN  IF dev = NoDevice THEN \A d \in Holders(list) : status[d] # ACTIVE
                                 ELSE dev \in Holders(list) /\ status[dev] = ACTIVE
<1> DEFINE hits == ReadHits(list, status, rd)
           n == Len(list)
           dev == get_read_replica(list, status, rd)
<1>1. n \in Nat
  BY LenProperties
<1>2. hits \subseteq 0..(n - 1)
  BY DEF ReadHits
<1>3. CASE hits = {}
  <2>1. dev = NoDevice
    BY <1>3 DEF get_read_replica
  <2>2. ASSUME NEW d \in Holders(list) PROVE status[d] # ACTIVE
    <3>1. PICK i \in 1..n : list[i] = d
      BY DEF Holders
    <3>2. PICK k \in 0..(n - 1) : Slot(n, rd, k) = i
      BY <1>1, SlotsCoverList
    <3> QED
      BY <3>1, <3>2, <1>3 DEF ReadHits
  <2> QED
    BY <2>1, <2>2
<1>4. CASE hits # {}
  <2> DEFINE k == FirstOf(hits)
  <2>1. k \in hits
    BY <1>1, <1>2, <1>4, FirstOfLemma
  <2>2. Slot(n, rd, k) \in 1..n
    BY <1>1, <1>2, <2>1, SlotInList
  <2>3. dev = list[Slot(n, rd, k)]
    BY <1>4 DEF get_read_replica
  <2>4. dev \in Holders(list) /\ dev \in D
    BY <2>2, <2>3, ElementOfSeq DEF Holders
  <2>5. status[dev] = ACTIVE
    BY <2>1, <2>3 DEF ReadHits
  <2> QED
    BY <2>4, <2>5
<1> QED
  BY <1>3, <1>4

\* The cursor a read leaves is a position of the list.
LEMMA ReadCursorType ==
    ASSUME NEW D, NEW list \in Seq(D), NEW status, NEW rd \in Nat
    PROVE  /\ ReadCursor(list, status, rd) \in Nat
           /\ rd <= Len(list) => ReadCursor(list, status, rd) <= Len(list)
<1> DEFINE hits == ReadHits(list, status, rd)
           n == Len(list)
           k == IF hits = {} THEN n - 1 ELSE FirstOf(hits)
<1>1. n \in Nat
  BY LenProperties
<1>2. hits \subseteq 0..(n - 1)
  BY DEF ReadHits
<1>3. CASE n = 0
  BY <1>3 DEF ReadCursor
<1>4. CASE n # 0
  <2>1. k \in 0..(n - 1)
    BY <1>1, <1>2, <1>4, FirstOfLemma
  <2>2. Slot(n, rd, k) \in 1..n
    BY <1>1, <2>1, SlotInList
  <2>3. ReadCursor(list, status, rd) = Slot(n, rd, k)
    BY <1>4 DEF ReadCursor
  <2> QED
    BY <1>1, <2>2, <2>3
<1> QED
  BY <1>3, <1>4

\* Taking one entry off a list leaves the others, in order.
LEMMA RemoveAtLemma ==
    ASSUME NEW S, NEW list \in Seq(S), NEW i \in 1..Len(list)
    PROVE  /\ RemoveAt(list, i) \in Seq(S)
           /\ Len(RemoveAt(list, i)) = Len(list) - 1
           /\ \A j \in 1..(Len(list) - 1) :
                 RemoveAt(list, i)[j] = IF j < i THEN list[j] ELSE list[j + 1]
<1> DEFINE n == Len(list)
           a == SubSeq(list, 1, i - 1)
           b == SubSeq(list, i + 1, n)
<1>1. n \in Nat /\ \A j \in 1..n : list[j] \in S
  BY LenProperties, ElementOfSeq
<1>2. /\ a \in Seq(S)
      /\ Len(a) = i - 1
      /\ \A j \in 1..(i - 1) : a[j] = list[j]
  BY <1>1, SubSeqProperties
<1>3. /\ b \in Seq(S)
      /\ Len(b) = n - i
      /\ \A j \in 1..(n - i) : b[j] = list[i + j]
  BY <1>1, SubSeqProperties
<1>4. RemoveAt(list, i) = a \o b
  BY DEF RemoveAt
<1> HIDE DEF a, b
<1>5. /\ a \o b \in Seq(S)
      /\ Len(a \o b) = Len(a) + Len(b)
      /\ \A j \in 1..(Len(a) + Len(b)) :
            (a \o b)[j] = IF j <= Len(a) THEN a[j] ELSE b[j - Len(a)]
  BY <1>2, <1>3, ConcatProperties
<1>6. ASSUME NEW j \in 1..(n - 1)
      PROVE  (a \o b)[j] = IF j < i THEN list[j] ELSE list[j + 1]
  <2>1. CASE j < i
    BY <1>1, <1>2, <1>3, <1>5, <2>1
  <2>2. CASE ~(j < i)
    <3>1. j - Len(a) \in 1..(n - i) /\ i + (j - Len(a)) = j + 1
      BY <1>1, <1>2, <2>2
    <3>2. (a \o b)[j] = b[j - Len(a)]
      BY <1>1, <1>2, <1>3, <1>5, <2>2
    <3> QED
      BY <1>3, <2>2, <3>1, <3>2
  <2> QED
    BY <2>1, <2>2
<1> QED
  BY <1>1, <1>2, <1>3, <1>4, <1>5, <1>6

\* destroy_replica_info() takes a device off a list without repetitions.
LEMMA DestroyLemma ==
    ASSUME NEW D, NEW list \in Seq(D), NEW dev
    PROVE  LET rest == destroy_replica_info(list, dev)
           IN  /\ rest \in Seq(D)
               /\ \A i, j \in 1..Len(rest) : i # j =>
                     \E k, l \in 1..Len(list) :
                        k # l /\ rest[i] = list[k] /\ rest[j] = list[l]
               /\ (\A i, j \in 1..Len(list) : i # j => list[i] # list[j])
                     => Holders(rest) = Holders(list) \ {dev}
<1> DEFINE at == {i \in 1..Len(list) : list[i] = dev}
           p == FirstOf(at)
           rest == destroy_replica_info(list, dev)
<1>1. Len(list) \in Nat
  BY LenProperties
<1>2. CASE at = {}
  <2>1. rest = list
    BY <1>2 DEF destroy_replica_info
  <2> QED
    BY <1>2, <2>1 DEF Holders
<1>3. CASE at # {}
  <2>1. p \in 1..Len(list) /\ list[p] = dev
    BY <1>1, <1>3, FirstOfLemma
  <2>2. rest = RemoveAt(list, p)
    BY <1>3 DEF destroy_replica_info
  <2>3. /\ rest \in Seq(D)
        /\ Len(rest) = Len(list) - 1
        /\ \A j \in 1..(Len(list) - 1) :
              rest[j] = IF j < p THEN list[j] ELSE list[j + 1]
    BY <2>1, <2>2, RemoveAtLemma
  <2> HIDE DEF rest, p
  <2>4. ASSUME NEW i \in 1..Len(rest), NEW j \in 1..Len(rest), i # j
        PROVE  \E k, l \in 1..Len(list) : k # l /\ rest[i] = list[k] /\ rest[j] = list[l]
    <3> DEFINE k == IF i < p THEN i ELSE i + 1
               l == IF j < p THEN j ELSE j + 1
    <3>1. k \in 1..Len(list) /\ l \in 1..Len(list) /\ k # l
      BY <1>1, <2>1, <2>3, <2>4
    <3>2. rest[i] = list[k] /\ rest[j] = list[l]
      BY <1>1, <2>3
    <3> QED
      BY <3>1, <3>2
  <2>5. ASSUME \A i, j \in 1..Len(list) : i # j => list[i] # list[j]
        PROVE  Holders(rest) = Holders(list) \ {dev}
    <3>1. ASSUME NEW d \in Holders(rest) PROVE d \in Holders(list) \ {dev}
      <4>1. PICK j \in 1..Len(rest) : rest[j] = d
        BY DEF Holders
      <4> DEFINE k == IF j < p THEN j ELSE j + 1
      <4>2. k \in 1..Len(list) /\ k # p /\ list[k] = d
        BY <1>1, <2>1, <2>3, <4>1
      <4>3. list[k] # list[p]
        BY <2>1, <2>5, <4>2
      <4> QED
        BY <2>1, <4>2, <4>3 DEF Holders
    <3>2. ASSUME NEW d \in Holders(list), d # dev PROVE d \in Holders(rest)
      <4>1. PICK k \in 1..Len(list) : list[k] = d
        BY DEF Holders
      <4> DEFINE j == IF k < p THEN k ELSE k - 1
      <4>2. k # p
        BY <2>1, <3>2, <4>1
      <4>3. j \in 1..Len(rest) /\ rest[j] = list[k]
        BY <1>1, <2>1, <2>3, <4>2
      <4> QED
        BY <4>1, <4>3 DEF Holders
    <3> QED
      BY <3>1, <3>2
  <2> QED
    BY <2>3, <2>4, <2>5 DEF rest
<1> QED
  BY <1>2, <1>3

-----------------------------------------------------------------------------
(* The entries of lists, and how many of them are of a kind                  *)

LEMMA RangeIsHolders ==
    ASSUME NEW S, NEW list \in Seq(S)
    PROVE  Range(list) = Holders(list)
BY RangeEquality DEF Holders

\* An entry that is pushed joins those of the list.
LEMMA HoldersAppend ==
    ASSUME NEW S, NEW list \in Seq(S), NEW d \in S
    PROVE  Holders(Append(list, d)) = Holders(list) \cup {d}
<1>1. /\ Len(list) \in Nat
      /\ Len(Append(list, d)) = Len(list) + 1
      /\ \A i \in 1..Len(list) : Append(list, d)[i] = list[i]
      /\ Append(list, d)[Len(list) + 1] = d
  BY AppendProperties, LenProperties
<1>2. ASSUME NEW e \in Holders(Append(list, d)) PROVE e \in Holders(list) \cup {d}
  BY <1>1 DEF Holders
<1>3. ASSUME NEW e \in Holders(list) PROVE e \in Holders(Append(list, d))
  <2>1. PICK i \in 1..Len(list) : list[i] = e
    BY DEF Holders
  <2>2. i \in 1..Len(Append(list, d)) /\ Append(list, d)[i] = e
    BY <1>1, <2>1
  <2> QED
    BY <2>2 DEF Holders
<1>4. d \in Holders(Append(list, d))
  BY <1>1 DEF Holders
<1> QED
  BY <1>2, <1>3, <1>4

LEMMA RangeAppend ==
    ASSUME NEW S, NEW list \in Seq(S), NEW d \in S
    PROVE  Range(Append(list, d)) = Range(list) \cup {d}
<1>1. Append(list, d) \in Seq(S)
  BY AppendProperties
<1>2. Range(Append(list, d)) = Holders(Append(list, d)) /\ Range(list) = Holders(list)
  BY <1>1, RangeIsHolders
<1> QED
  BY <1>2, HoldersAppend

\* Taking the first entry off is taking off the entry at 1.
LEMMA TailIsRemoveAt ==
    ASSUME NEW S, NEW list \in Seq(S), list # <<>>
    PROVE  Tail(list) = RemoveAt(list, 1) /\ 1 \in 1..Len(list) /\ Head(list) = list[1]
<1>1. SubSeq(list, 1, 0) = <<>>
  BY SubSeqEmpty
<1>2. Tail(list) = SubSeq(list, 2, Len(list)) /\ Tail(list) \in Seq(S)
  BY TailIsSubSeq, HeadTailProperties
<1>3. <<>> \o Tail(list) = Tail(list)
  BY <1>2, ConcatEmptySeq
<1>4. Len(list) \in Nat \ {0}
  BY EmptySeq
<1> QED
  BY <1>1, <1>2, <1>3, <1>4 DEF RemoveAt

LEMMA RangeRemoveAt ==
    ASSUME NEW S, NEW list \in Seq(S), NEW i \in 1..Len(list)
    PROVE  /\ Range(RemoveAt(list, i)) \subseteq Range(list)
           /\ Range(list) \subseteq Range(RemoveAt(list, i)) \cup {list[i]}
           /\ list[i] \in Range(list)
<1> DEFINE n == Len(list)
           rest == RemoveAt(list, i)
<1>1. /\ n \in Nat
      /\ rest \in Seq(S)
      /\ Len(rest) = n - 1
      /\ \A j \in 1..(n - 1) : rest[j] = IF j < i THEN list[j] ELSE list[j + 1]
  BY RemoveAtLemma, LenProperties
<1> HIDE DEF rest
<1>2. Holders(rest) \subseteq Holders(list)
  <2> SUFFICES ASSUME NEW j \in 1..Len(rest) PROVE rest[j] \in Holders(list)
    BY DEF Holders
  <2>1. CASE j < i
    BY <1>1, <2>1 DEF Holders
  <2>2. CASE ~(j < i)
    <3>1. j + 1 \in 1..n /\ rest[j] = list[j + 1]
      BY <1>1, <2>2
    <3> QED
      BY <3>1 DEF Holders
  <2> QED
    BY <2>1, <2>2
<1>3. ASSUME NEW k \in 1..n, k # i PROVE list[k] \in Holders(rest)
  <2> DEFINE j == IF k < i THEN k ELSE k - 1
  <2>1. j \in 1..Len(rest) /\ rest[j] = list[k]
    BY <1>1, <1>3
  <2> QED
    BY <2>1 DEF Holders
<1>4. Range(rest) = Holders(rest) /\ Range(list) = Holders(list)
  BY <1>1, RangeIsHolders
<1> QED
  BY <1>2, <1>3, <1>4 DEF Holders, rest

LEMMA RangeTail ==
    ASSUME NEW S, NEW list \in Seq(S), list # <<>>
    PROVE  /\ Range(Tail(list)) \subseteq Range(list)
           /\ Range(list) \subseteq Range(Tail(list)) \cup {Head(list)}
           /\ Head(list) \in Range(list)
<1>1. Tail(list) = RemoveAt(list, 1) /\ 1 \in 1..Len(list) /\ Head(list) = list[1]
  BY TailIsRemoveAt
<1>2. /\ Range(RemoveAt(list, 1)) \subseteq Range(list)
      /\ Range(list) \subseteq Range(RemoveAt(list, 1)) \cup {list[1]}
      /\ list[1] \in Range(list)
  BY <1>1, RangeRemoveAt
<1> QED
  BY <1>1, <1>2

\* How many entries of a list are in S.
Count(list, S) == Cardinality({i \in 1..Len(list) : list[i] \in S})

LEMMA CountType ==
    ASSUME NEW T, NEW list \in Seq(T), NEW S
    PROVE  /\ Count(list, S) \in Nat
           /\ IsFiniteSet({i \in 1..Len(list) : list[i] \in S})
           /\ Count(list, S) = 0 <=> Range(list) \cap S = {}
<1> DEFINE hits == {i \in 1..Len(list) : list[i] \in S}
<1>1. Len(list) \in Nat
  BY LenProperties
<1>2. IsFiniteSet(1..Len(list))
  BY <1>1, FS_Interval
<1>3. hits \in SUBSET (1..Len(list))
  OBVIOUS
<1>4. IsFiniteSet(hits)
  <2> HIDE DEF hits
  <2> QED
    BY <1>2, <1>3, FS_Subset
<1>5. hits = {} <=> Range(list) \cap S = {}
  BY RangeEquality
<1> HIDE DEF hits
<1>6. Cardinality(hits) \in Nat /\ (Cardinality(hits) = 0 <=> hits = {})
  BY <1>4, FS_CardinalityType, FS_EmptySet
<1> QED
  BY <1>4, <1>5, <1>6 DEF Count, hits

LEMMA CountEmpty == \A S : Count(<<>>, S) = 0
<1> SUFFICES ASSUME NEW S PROVE Count(<<>>, S) = 0
  OBVIOUS
<1>1. {i \in 1..Len(<<>>) : <<>>[i] \in S} = {}
  BY EmptySeq
<1> QED
  BY <1>1, FS_EmptySet DEF Count

LEMMA CountAppend ==
    ASSUME NEW T, NEW list \in Seq(T), NEW x \in T, NEW S
    PROVE  Count(Append(list, x), S) = Count(list, S) + (IF x \in S THEN 1 ELSE 0)
<1> DEFINE n == Len(list)
           old == {i \in 1..n : list[i] \in S}
           new == {i \in 1..Len(Append(list, x)) : Append(list, x)[i] \in S}
<1>1. /\ n \in Nat
      /\ Len(Append(list, x)) = n + 1
      /\ \A i \in 1..n : Append(list, x)[i] = list[i]
      /\ Append(list, x)[n + 1] = x
  BY AppendProperties, LenProperties
<1>2. /\ IsFiniteSet(old) /\ Cardinality(old) \in Nat
  BY CountType DEF Count
<1>0. Count(list, S) = Cardinality(old) /\ Count(Append(list, x), S) = Cardinality(new)
  BY DEF Count
<1>3. CASE x \in S
  <2>1. new = old \cup {n + 1} /\ n + 1 \notin old
    BY <1>1, <1>3
  <2> HIDE DEF old, new
  <2>2. Cardinality(new) = Cardinality(old) + 1
    BY <1>2, <2>1, FS_AddElement
  <2> QED
    BY <1>2, <1>3, <1>0, <2>2
<1>4. CASE x \notin S
  <2>1. new = old
    BY <1>1, <1>4
  <2> HIDE DEF old, new
  <2>2. Cardinality(new) = Cardinality(old)
    BY <2>1
  <2> QED
    BY <1>2, <1>4, <1>0, <2>2
<1> QED
  BY <1>3, <1>4

LEMMA CountRemoveAt ==
    ASSUME NEW T, NEW list \in Seq(T), NEW i \in 1..Len(list), NEW S
    PROVE  Count(RemoveAt(list, i), S) = Count(list, S) - (IF list[i] \in S THEN 1 ELSE 0)
<1> DEFINE n == Len(list)
           rest == RemoveAt(list, i)
           all == {k \in 1..n : list[k] \in S}
           old == all \ {i}
           new == {k \in 1..Len(rest) : rest[k] \in S}
           f == [k \in new |-> IF k < i THEN k ELSE k + 1]
<1>1. /\ n \in Nat
      /\ rest \in Seq(T)
      /\ Len(rest) = n - 1
      /\ \A j \in 1..(n - 1) : rest[j] = IF j < i THEN list[j] ELSE list[j + 1]
  BY RemoveAtLemma, LenProperties
<1> HIDE DEF rest
<1>2. /\ IsFiniteSet(all) /\ Cardinality(all) \in Nat
      /\ IsFiniteSet(new) /\ Cardinality(new) \in Nat
  <2>1. IsFiniteSet(all) /\ Cardinality(all) \in Nat
    BY CountType DEF Count
  <2>2. IsFiniteSet(new) /\ Cardinality(new) \in Nat
    <3>1. rest \in Seq(T)
      BY <1>1
    <3>2. IsFiniteSet(new) /\ Count(rest, S) \in Nat
      BY <3>1, CountType
    <3> QED
      BY <3>2 DEF Count
  <2> QED
    BY <2>1, <2>2
<1>3. f \in [new -> old]
  BY <1>1
<1>4. \A k, l \in new : f[k] = f[l] => k = l
  BY <1>1
<1>5. ASSUME NEW m \in old PROVE \E k \in new : f[k] = m
  <2> DEFINE k == IF m < i THEN m ELSE m - 1
  <2>1. m \in 1..n /\ m # i /\ list[m] \in S
    BY <1>5
  <2>2. k \in 1..Len(rest) /\ rest[k] = list[m]
    BY <1>1, <2>1
  <2>3. k \in new
    BY <2>1, <2>2
  <2>4. f[k] = m
    BY <2>1, <2>3
  <2> QED
    BY <2>3, <2>4
<1>6. Cardinality(old) = IF i \in all THEN Cardinality(all) - 1 ELSE Cardinality(all)
  <2> HIDE DEF all
  <2> QED
    BY <1>2, FS_RemoveElement
<1>7. i \in all <=> list[i] \in S
  OBVIOUS
<1> HIDE DEF f, old, new, all
<1>8. ExistsBijection(new, old)
  <2>1. f \in Injection(new, old)
    BY <1>3, <1>4 DEF Injection, IsInjective
  <2>2. f \in Surjection(new, old)
    BY <1>3, <1>5 DEF Surjection
  <2> QED
    BY <2>1, <2>2 DEF Bijection, ExistsBijection
<1>9. Cardinality(old) = Cardinality(new)
  BY <1>2, <1>8, FS_Bijection
<1> QED
  BY <1>2, <1>6, <1>7, <1>9 DEF Count, new, all, rest

LEMMA CountTail ==
    ASSUME NEW T, NEW list \in Seq(T), list # <<>>, NEW S
    PROVE  Count(Tail(list), S) = Count(list, S) - (IF Head(list) \in S THEN 1 ELSE 0)
<1>1. Tail(list) = RemoveAt(list, 1) /\ 1 \in 1..Len(list) /\ Head(list) = list[1]
  BY TailIsRemoveAt
<1>2. Count(RemoveAt(list, 1), S) = Count(list, S) - (IF list[1] \in S THEN 1 ELSE 0)
  BY <1>1, CountRemoveAt
<1> QED
  BY <1>1, <1>2
=============================================================================
