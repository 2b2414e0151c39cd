---------------------------- MODULE ServerProofs ----------------------------
(***************************************************************************)
(* What holds in the life of a process for any number of workers, proxies,  *)
(* clients and signals: whom a joined node can serve, what its threads may   *)
(* use and what becomes of its socket (src/common/base_server.cpp,           *)
(* src/storagenode/storage_server.cpp, src/proxynode/proxy_server.cpp).      *)
(***************************************************************************)
EXTENDS Server, SequenceTheorems, TLAPS

Stages == {"init", "run", "serve", "delete", "destroy", "return", "exited", "crashed"}

\* The objects of main()'s plan.
Names == {"conf", "parser", "log", "daemon", "handlers", "queues", "array", "acceptor", "recv",
          "lock", "vnodes", "devices", "names", "syncqueue", "addresses", "sync", "reports", "root",
          "beat", "worker"}
Parts == Names \X Nat

ServerTypes == TypeOK /\ main \in [pc : Stages, i : Nat \ {0}]

\* Construction is done and main() has not begun to tear down.
Serving == main.pc \in {"run", "serve"}

\* The steps of the plan main() has taken: of what they make, only the message parser may
\* be missing, and behind the acceptor's the socket listens.
Passed == {Plan[j] : j \in {k \in DOMAIN Plan : k < main.i}}

PlanFollowed ==
  main.pc = "init" => /\ Passed \subseteq made \cup {One("parser")}
                      /\ One("acceptor") \in Passed => listening

\* Nothing runs, and nothing has run, before construction is done.
NothingStarted == main.pc = "init" => \A t \in Threads : thread[t] \in {"none", "new"}

\* run() starts the threads in their order, the receiver once.
StartsInOrder ==
  main.pc = "run" => /\ main.i \in DOMAIN Starts
                     /\ \A j \in DOMAIN Starts :
                          j >= main.i /\ Starts[j] = Recv => thread[Recv] \in {"none", "new"}

\* A report thread runs in a storage node only.
BeatsOfNodes == \A t \in Beats : thread[t] = "running" => program.name = "storaged"

\* What every thread works with, until main() tears it down.
Common == AsSet(Ones(<<"queues", "lock", "vnodes", "log">>))
CommonMade == Serving => Common \subseteq made

\* The root of a storage node is made anew by then, and is not undone before the end.
RootMade == Alive /\ main.pc # "init" /\ program.name = "storaged" => One("root") \in made

\* The socket goes with the receiver or with the process.
Reachable == Alive /\ main.pc # "init" => listening \/ thread[Recv] = "deleted"

\* main() gets past run() only when a thread could not be started.
TornDown == main.pc \in {"delete", "destroy", "return"} => startFailed

\* A report thread has joined only while its process lives.
JoinedLate == joined # {} => Alive /\ main.pc # "init" /\ program.name = "storaged"

NoCrash == main.pc = "crashed" => startFailed

ServerInv ==
  /\ PlanFollowed /\ NothingStarted /\ StartsInOrder /\ BeatsOfNodes
  /\ CommonMade /\ RootMade /\ Reachable /\ TornDown /\ JoinedLate /\ NoCrash
  /\ NoDeafListener

-----------------------------------------------------------------------------
(* Plans as sequences.                                                       *)

LEMMA ConcatParts ==
  ASSUME NEW S, NEW s \in Seq(S), NEW t \in Seq(S)
  PROVE  /\ s \o t \in Seq(S)
         /\ AsSet(s \o t) = AsSet(s) \cup AsSet(t)
<1> DEFINE st == s \o t
<1>1. /\ st \in Seq(S) /\ Len(st) = Len(s) + Len(t)
      /\ \A i \in 1 .. Len(s) + Len(t) : st[i] = IF i <= Len(s) THEN s[i] ELSE t[i - Len(s)]
  BY ConcatProperties
<1>2. /\ DOMAIN s = 1 .. Len(s) /\ DOMAIN t = 1 .. Len(t) /\ DOMAIN st = 1 .. Len(st)
      /\ Len(s) \in Nat /\ Len(t) \in Nat
  BY <1>1, LenProperties
<1> HIDE DEF st
<1>3. AsSet(st) \subseteq AsSet(s) \cup AsSet(t)
  <2> SUFFICES ASSUME NEW i \in 1 .. Len(s) + Len(t)
               PROVE  st[i] \in AsSet(s) \cup AsSet(t)
    BY <1>1, <1>2 DEF AsSet
  <2>1. CASE i <= Len(s)
    <3>1. i \in 1 .. Len(s) /\ st[i] = s[i]
      BY <1>1, <1>2, <2>1
    <3> QED
      BY <1>2, <3>1 DEF AsSet
  <2>2. CASE ~ (i <= Len(s))
    <3>1. i - Len(s) \in 1 .. Len(t) /\ st[i] = t[i - Len(s)]
      BY <1>1, <1>2, <2>2
    <3> QED
      BY <1>2, <3>1 DEF AsSet
  <2> QED
    BY <2>1, <2>2
<1>4. AsSet(s) \subseteq AsSet(st)
  <2> SUFFICES ASSUME NEW i \in 1 .. Len(s)
               PROVE  s[i] \in AsSet(st)
    BY <1>2 DEF AsSet
  <2>1. i \in 1 .. Len(st) /\ st[i] = s[i]
    BY <1>1, <1>2
  <2> QED
    BY <1>2, <2>1 DEF AsSet
<1>5. AsSet(t) \subseteq AsSet(st)
  <2> SUFFICES ASSUME NEW i \in 1 .. Len(t)
               PROVE  t[i] \in AsSet(st)
    BY <1>2 DEF AsSet
  <2>1. PICK k \in 1 .. Len(s) + Len(t) : k = i + Len(s)
    BY <1>2
  <2>2. st[k] = t[k - Len(s)] /\ k - Len(s) = i
    BY <1>1, <1>2, <2>1
  <2> QED
    BY <1>1, <1>2, <2>2 DEF AsSet
<1> QED
  BY <1>1, <1>3, <1>4, <1>5 DEF st

LEMMA OnesParts ==
  ASSUME NEW xs \in Seq(Names)
  PROVE  /\ Ones(xs) \in Seq(Parts)
         /\ \A i \in DOMAIN xs : One(xs[i]) \in AsSet(Ones(xs))
<1>1. DOMAIN xs = 1 .. Len(xs) /\ Len(xs) \in Nat
  BY LenProperties
<1>2. \A i \in 1 .. Len(xs) : xs[i] \in Names
  BY ElementOfSeq
<1>3. Ones(xs) \in [1 .. Len(xs) -> Parts]
  BY <1>1, <1>2 DEF Ones, One, Parts
<1>4. Ones(xs) \in Seq(Parts)
  BY <1>1, <1>3, SeqDef
<1>5. \A i \in DOMAIN xs : i \in DOMAIN Ones(xs) /\ Ones(xs)[i] = One(xs[i])
  BY DEF Ones
<1> QED
  BY <1>4, <1>5 DEF AsSet

\* The threads of one kind, in the order of their numbers.
LEMMA NumberedParts ==
  ASSUME NEW n \in Nat
  PROVE  /\ [i \in 1 .. n |-> Worker(i)] \in Seq(Parts)
         /\ [i \in 1 .. n |-> Beat(i)] \in Seq(Parts)
<1>1. \A i \in 1 .. n : Worker(i) \in Parts /\ Beat(i) \in Parts
  BY DEF Worker, Beat, Parts, Names
<1> QED
  BY <1>1, SeqDef

LEMMA MainParts == MainPlan \in Seq(Parts) /\ One("log") \in AsSet(MainPlan)
<1> DEFINE xs == <<"conf", "parser", "log", "daemon", "handlers">>
<1>1. xs \in Seq(Names) /\ 3 \in DOMAIN xs /\ xs[3] = "log"
  BY DEF Names
<1> HIDE DEF xs
<1>2. MainPlan = Ones(xs)
  BY DEF MainPlan, xs
<1> QED
  BY <1>1, <1>2, OnesParts

LEMMA BaseParts == /\ BasePlan \in Seq(Parts)
                   /\ {One("queues"), One("acceptor")} \subseteq AsSet(BasePlan)
<1> DEFINE xs == <<"queues", "array", "acceptor", "recv">>
           ws == [i \in 1 .. Workers |-> Worker(i)]
<1>1. xs \in Seq(Names) /\ {1, 3} \subseteq DOMAIN xs /\ xs[1] = "queues" /\ xs[3] = "acceptor"
  BY DEF Names
<1>2. ws \in Seq(Parts)
  BY ServerAssumption, NumberedParts
<1> HIDE DEF xs, ws
<1>3. BasePlan = Ones(xs) \o ws
  BY DEF BasePlan, xs, ws
<1>4. Ones(xs) \in Seq(Parts) /\ {One("queues"), One("acceptor")} \subseteq AsSet(Ones(xs))
  BY <1>1, OnesParts
<1> QED
  BY <1>2, <1>3, <1>4, ConcatParts

LEMMA ProxyParts ==
  /\ ProxyPlan \in Seq(Parts)
  /\ {One("lock"), One("vnodes"), One("queues"), One("acceptor")} \subseteq AsSet(ProxyPlan)
<1> DEFINE xs == <<"lock", "vnodes", "devices", "names">>
<1>1. xs \in Seq(Names) /\ {1, 2} \subseteq DOMAIN xs /\ xs[1] = "lock" /\ xs[2] = "vnodes"
  BY DEF Names
<1> HIDE DEF xs
<1>2. ProxyPlan = Ones(xs) \o BasePlan
  BY DEF ProxyPlan, xs
<1>3. Ones(xs) \in Seq(Parts) /\ {One("lock"), One("vnodes")} \subseteq AsSet(Ones(xs))
  BY <1>1, OnesParts
<1> QED
  BY <1>2, <1>3, BaseParts, ConcatParts

LEMMA StorageParts ==
  ASSUME NEW n \in Nat
  PROVE  /\ StoragePlan(n) \in Seq(Parts)
         /\ {One("lock"), One("vnodes"), One("root"), One("queues"), One("acceptor")}
               \subseteq AsSet(StoragePlan(n))
<1> DEFINE xs == <<"lock", "vnodes", "syncqueue", "addresses", "sync", "reports">>
           bs == [k \in 1 .. n |-> Beat(k)]
           ys == <<"root">>
<1>1. xs \in Seq(Names) /\ {1, 2} \subseteq DOMAIN xs /\ xs[1] = "lock" /\ xs[2] = "vnodes"
  BY DEF Names
<1>2. bs \in Seq(Parts)
  BY NumberedParts
<1>3. ys \in Seq(Names) /\ 1 \in DOMAIN ys /\ ys[1] = "root"
  BY DEF Names
<1> HIDE DEF xs, bs, ys
<1> DEFINE front == Ones(xs) \o bs
           whole == front \o Ones(ys)
<1>4. StoragePlan(n) = whole \o BasePlan
  BY DEF StoragePlan, xs, bs, ys
<1>5. Ones(xs) \in Seq(Parts) /\ {One("lock"), One("vnodes")} \subseteq AsSet(Ones(xs))
  BY <1>1, OnesParts
<1>6. Ones(ys) \in Seq(Parts) /\ One("root") \in AsSet(Ones(ys))
  BY <1>3, OnesParts
<1>7. front \in Seq(Parts) /\ {One("lock"), One("vnodes")} \subseteq AsSet(front)
  BY <1>2, <1>5, ConcatParts
<1> HIDE DEF front
<1>8. whole \in Seq(Parts) /\ {One("lock"), One("vnodes"), One("root")} \subseteq AsSet(whole)
  BY <1>6, <1>7, ConcatParts
<1> HIDE DEF whole
<1> QED
  BY <1>4, <1>8, BaseParts, ConcatParts

\* What each program has made when its plan is at its end.
PlanMakes(parts) ==
  /\ Common \cup {One("acceptor")} \subseteq parts
  /\ program.name = "storaged" => One("root") \in parts

LEMMA CommonIs == Common = {One("queues"), One("lock"), One("vnodes"), One("log")}
<1> DEFINE xs == <<"queues", "lock", "vnodes", "log">>
<1>1. DOMAIN xs = 1 .. 4 /\ xs[1] = "queues" /\ xs[2] = "lock" /\ xs[3] = "vnodes" /\ xs[4] = "log"
  OBVIOUS
<1> HIDE DEF xs
<1>2. Common = {One(xs[i]) : i \in 1 .. 4}
  BY <1>1 DEF Common, Ones, AsSet, xs
<1>3. 1 .. 4 = {1, 2, 3, 4}
  OBVIOUS
<1> QED
  BY <1>1, <1>2, <1>3

LEMMA PlanParts ==
  ASSUME program \in Programs
  PROVE  /\ Plan \in Seq(Parts)
         /\ DOMAIN Plan = 1 .. Len(Plan) /\ Len(Plan) \in Nat
         /\ PlanMakes(AsSet(Plan))
<1> DEFINE rest == IF program.name = "proxyd" THEN ProxyPlan ELSE StoragePlan(program.proxies)
<1>1. /\ rest \in Seq(Parts)
      /\ {One("lock"), One("vnodes"), One("queues"), One("acceptor")} \subseteq AsSet(rest)
      /\ program.name = "storaged" => One("root") \in AsSet(rest)
  <2>1. CASE program.name = "proxyd"
    BY <2>1, ProxyParts
  <2>2. CASE program.name # "proxyd"
    <3>1. program.proxies \in Nat
      BY <2>2, ServerAssumption DEF Programs
    <3> QED
      BY <2>2, <3>1, StorageParts
  <2> QED
    BY <2>1, <2>2
<1>2. Plan = MainPlan \o rest
  BY DEF Plan
<1> HIDE DEF rest
<1>3. Plan \in Seq(Parts) /\ AsSet(Plan) = AsSet(MainPlan) \cup AsSet(rest)
  BY <1>1, <1>2, MainParts, ConcatParts
<1>4. PlanMakes(AsSet(Plan))
  BY <1>1, <1>3, MainParts, CommonIs DEF PlanMakes
<1> QED
  BY <1>3, <1>4, LenProperties

\* run() starts threads that exist; report threads only in a storage node, and never last.
LEMMA StartsParts ==
  ASSUME program \in Programs
  PROVE  /\ Starts \in Seq(Threads) /\ DOMAIN Starts = 1 .. Len(Starts)
         /\ Len(Starts) \in Nat \ {0} /\ Starts[Len(Starts)] \notin Beats
         /\ program.name = "proxyd" => AsSet(Starts) \cap Beats = {}
         /\ \A j, k \in DOMAIN Starts : Starts[j] = Recv /\ Starts[k] = Recv => j = k
<1> DEFINE ws == [i \in 1 .. Workers |-> Worker(i)]
           rs == <<Recv>>
<1>1. ws \in Seq(Threads) /\ Len(ws) = Workers
  <2>1. ws \in [1 .. Workers -> Threads]
    BY DEF Threads, WorkerThreads
  <2>2. ws \in Seq(Threads)
    BY <2>1, ServerAssumption, SeqDef
  <2> QED
    BY <2>2, ServerAssumption, LenProperties
<1>2. rs \in Seq(Threads) /\ Len(rs) = 1 /\ AsSet(rs) = {Recv}
  BY DEF Threads, AsSet
<1>3. \A i \in 1 .. Workers : ws[i] = Worker(i) /\ ws[i] \notin Beats /\ ws[i] # Recv
  BY DEF Worker, Beats, Beat, Recv
<1> HIDE DEF ws, rs
<1>4. BaseStarts = rs \o ws
  BY DEF BaseStarts, ws, rs
<1>5. /\ BaseStarts \in Seq(Threads) /\ Len(BaseStarts) = 1 + Workers
      /\ BaseStarts[1 + Workers] = ws[Workers]
      /\ \A i \in 1 .. 1 + Workers : BaseStarts[i] = Recv => i = 1
  <2> DEFINE n == 1 + Workers
  <2>1. /\ BaseStarts \in Seq(Threads) /\ Len(BaseStarts) = n
        /\ \A i \in 1 .. n : BaseStarts[i] = IF i <= 1 THEN rs[i] ELSE ws[i - 1]
    BY <1>1, <1>2, <1>4, ConcatProperties
  <2>2. n \in 1 .. n /\ ~ (n <= 1) /\ n - 1 = Workers
    BY ServerAssumption
  <2>3. ASSUME NEW i \in 1 .. n, BaseStarts[i] = Recv PROVE i = 1
    <3>1. CASE i > 1
      <4>1. i - 1 \in 1 .. Workers /\ BaseStarts[i] = ws[i - 1]
        BY <2>1, <3>1, ServerAssumption
      <4> QED
        BY <1>3, <2>3, <4>1
    <3> QED
      BY <3>1, ServerAssumption
  <2> QED
    BY <2>1, <2>2, <2>3
<1>6. AsSet(BaseStarts) \cap Beats = {}
  <2>1. AsSet(ws) \cap Beats = {}
    BY <1>1, <1>3, LenProperties DEF AsSet
  <2>2. Recv \notin Beats
    BY DEF Recv, Beats, Beat
  <2>3. AsSet(rs \o ws) = AsSet(rs) \cup AsSet(ws)
    BY <1>1, <1>2, ConcatParts
  <2> QED
    BY <1>2, <1>4, <2>1, <2>2, <2>3
<1>7. BaseStarts[Len(BaseStarts)] \notin Beats /\ Len(BaseStarts) \in Nat \ {0}
  BY <1>3, <1>5, ServerAssumption
<1>8. CASE program.name = "proxyd"
  BY <1>5, <1>6, <1>7, <1>8, LenProperties DEF Starts
<1>9. CASE program.name # "proxyd"
  <2> DEFINE bs == [k \in 1 .. program.proxies |-> Beat(k)]
             fs == bs \o <<SyncThread>>
  <2>1. program.proxies \in Nat /\ program.proxies <= MaxProxies
    BY <1>9, ServerAssumption DEF Programs
  <2>2. bs \in Seq(Threads)
    <3>1. bs \in [1 .. program.proxies -> Threads]
      BY <2>1, ServerAssumption DEF Threads, Beats
    <3> QED
      BY <2>1, <3>1, SeqDef
  <2>3. <<SyncThread>> \in Seq(Threads)
    BY DEF Threads
  <2>4. Starts = (bs \o <<SyncThread>>) \o BaseStarts
    BY <1>9 DEF Starts
  <2> HIDE DEF bs
  <2>5. fs \in Seq(Threads)
    BY <2>2, <2>3, ConcatProperties
  <2>6. Starts = fs \o BaseStarts
    BY <2>4
  <2> HIDE DEF fs
  <2>7. Len(fs) \in Nat /\ DOMAIN fs = 1 .. Len(fs)
    BY <2>5, LenProperties
  <2>9. \A i \in 1 .. Len(fs) : fs[i] # Recv
    <3> DEFINE ss == <<SyncThread>>
    <3>1. AsSet(fs) = AsSet(bs) \cup AsSet(ss)
      BY <2>2, <2>3, ConcatParts DEF fs
    <3>2. Recv \notin AsSet(bs)
      BY <2>1 DEF AsSet, bs, Recv, Beat
    <3>3. Recv \notin AsSet(ss)
      BY DEF AsSet, Recv, SyncThread
    <3> QED
      BY <2>7, <3>1, <3>2, <3>3 DEF AsSet
  <2>8. /\ Starts \in Seq(Threads) /\ Len(Starts) = Len(fs) + Len(BaseStarts)
        /\ Starts[Len(fs) + Len(BaseStarts)] = BaseStarts[Len(BaseStarts)]
        /\ \A j \in 1 .. Len(Starts) : Starts[j] = Recv => j = Len(fs) + 1
    <3> DEFINE bss == BaseStarts
               n == Len(fs) + Len(bss)
    <3>1. bss \in Seq(Threads) /\ Len(bss) \in Nat \ {0} /\ Starts = fs \o bss
      BY <1>5, <1>7, <2>6
    <3> HIDE DEF bss
    <3>2. /\ Starts \in Seq(Threads) /\ Len(Starts) = n
          /\ \A i \in 1 .. n : Starts[i] = IF i <= Len(fs) THEN fs[i] ELSE bss[i - Len(fs)]
      BY <2>5, <3>1, ConcatProperties
    <3>3. n \in 1 .. n /\ ~ (n <= Len(fs)) /\ n - Len(fs) = Len(bss)
      BY <2>7, <3>1
    <3>4. ASSUME NEW j \in 1 .. n, Starts[j] = Recv PROVE j = Len(fs) + 1
      <4>1. CASE j <= Len(fs)
        BY <2>7, <2>9, <3>2, <3>4, <4>1
      <4>2. CASE ~ (j <= Len(fs))
        <5>1. j - Len(fs) \in 1 .. Len(bss) /\ Starts[j] = bss[j - Len(fs)]
          BY <2>7, <3>1, <3>2, <4>2
        <5>2. j - Len(fs) = 1
          BY <1>5, <3>4, <5>1 DEF bss
        <5> QED
          BY <2>7, <5>2
      <4> QED
        BY <4>1, <4>2
    <3> QED
      BY <3>2, <3>3, <3>4 DEF bss
  <2> QED
    BY <1>7, <1>9, <2>7, <2>8, LenProperties
<1> QED
  BY <1>8, <1>9

-----------------------------------------------------------------------------
(* Types.                                                                    *)

LEMMA InitTypes == Init => ServerTypes
<1> SUFFICES ASSUME Init PROVE ServerTypes
  OBVIOUS
<1>1. queueOf \in [1 .. Workers -> -1 .. Workers - 1] /\ robin \in 0 .. Workers - 1
  <2>1. -1 \in -1 .. Workers - 1 /\ 0 \in 0 .. Workers - 1
    BY ServerAssumption
  <2> QED
    BY <2>1 DEF Init
<1>2. main \in [pc : Stages, i : Nat \ {0}] /\ main.pc \in Stages
  BY DEF Init, Stages
<1>3. signals \in 0 .. MaxSignals /\ joined \subseteq 1 .. MaxProxies
  BY ServerAssumption DEF Init
<1> QED
  BY <1>1, <1>2, <1>3 DEF Init, ServerTypes, TypeOK, Stages

LEMMA EndsTypes ==
  ASSUME ServerTypes, NEW how \in {"exited", "crashed"}, Ends(how),
         UNCHANGED <<program, queueOf, robin>>, signals' \in 0 .. MaxSignals
  PROVE  ServerTypes'
  BY DEF ServerTypes, TypeOK, Stages, Ends

LEMMA MakeTypes == ServerTypes /\ Make => ServerTypes'
<1> SUFFICES ASSUME ServerTypes, Make PROVE ServerTypes'
  OBVIOUS
<1> DEFINE step == Plan[main.i]
<1>1. main' \in [pc : Stages, i : Nat \ {0}]
  BY DEF ServerTypes, Make
<1>2. thread' \in [Threads -> {"none", "new", "running", "deleted"}]
  <2>1. thread' = IF step \in Threads THEN [thread EXCEPT ![step] = "new"] ELSE thread
    BY DEF Make
  <2> HIDE DEF step
  <2> QED
    BY <2>1 DEF ServerTypes, TypeOK
<1>3. queueOf' \in [1 .. Workers -> -1 .. Workers - 1] /\ robin' \in 0 .. Workers - 1
  <2>1. IF step \in WorkerThreads THEN queueOf' = [queueOf EXCEPT ![step[2]] = robin] /\ NextQueue
        ELSE UNCHANGED <<queueOf, robin>>
    BY DEF Make
  <2> HIDE DEF step
  <2>2. CASE step \in WorkerThreads
    <3>1. PICK w \in 1 .. Workers : step[2] = w
      BY <2>2 DEF WorkerThreads, Worker
    <3>2. queueOf' = [queueOf EXCEPT ![w] = robin]
      BY <2>1, <2>2, <3>1
    <3>3. robin' \in 0 .. Workers - 1
      BY <2>1, <2>2, ServerAssumption DEF NextQueue, ServerTypes, TypeOK
    <3> QED
      BY <3>2, <3>3, ServerAssumption DEF ServerTypes, TypeOK
  <2>3. CASE step \notin WorkerThreads
    BY <2>1, <2>3 DEF ServerTypes, TypeOK
  <2> QED
    BY <2>2, <2>3
<1>4. listening' \in BOOLEAN
  BY DEF Make, Listens, ServerTypes, TypeOK
<1>5. UNCHANGED <<program, edge, conn, joined, signals>>
  BY DEF Make
<1>6. main'.pc \in Stages
  BY <1>1
<1> QED
  BY <1>1, <1>2, <1>3, <1>4, <1>5, <1>6 DEF ServerTypes, TypeOK, Stages

LEMMA MainTypes == ServerTypes /\ Main => ServerTypes'
<1> SUFFICES ASSUME ServerTypes, Main PROVE ServerTypes'
  OBVIOUS
<1> USE DEF initVars, netVars
<1>0. signals \in 0 .. MaxSignals
  BY DEF ServerTypes, TypeOK
<1>1. CASE Make
  BY <1>1, MakeTypes
<1>2. CASE NoParser
  BY <1>2 DEF NoParser, ServerTypes, TypeOK, Stages
<1>3. CASE MakeFails
  BY <1>0, <1>3, EndsTypes DEF MakeFails
<1>4. CASE Initialized
  BY <1>4 DEF Initialized, ServerTypes, TypeOK, Stages
<1>5. CASE Start
  <2> DEFINE t == Starts[main.i]
  <2>1. thread' = [thread EXCEPT ![t] = "running"]
    BY <1>5 DEF Start
  <2> HIDE DEF t
  <2>2. thread' \in [Threads -> {"none", "new", "running", "deleted"}]
    BY <2>1 DEF ServerTypes, TypeOK
  <2>3. main' = [main EXCEPT !.pc = "serve"] \/ main' = [main EXCEPT !.i = @ + 1]
    BY <1>5 DEF Start
  <2>4. main' \in [pc : Stages, i : Nat \ {0}]
    BY <2>3 DEF ServerTypes, Stages
  <2>5. UNCHANGED <<program, queueOf, robin, listening, edge, conn, joined, signals>>
    BY <1>5 DEF Start
  <2> QED
    BY <2>2, <2>4, <2>5 DEF ServerTypes, TypeOK, Stages
<1>6. CASE StartFails
  <2> DEFINE t == Starts[main.i]
  <2>1. \/ thread' = [thread EXCEPT ![t] = "deleted"] /\ main' = [main EXCEPT !.i = @ + 1]
        \/ thread' = thread /\ main' = [main EXCEPT !.pc = "delete"]
    BY <1>6 DEF StartFails
  <2> HIDE DEF t
  <2>2. thread' \in [Threads -> {"none", "new", "running", "deleted"}]
    BY <2>1 DEF ServerTypes, TypeOK
  <2>3. main' \in [pc : Stages, i : Nat \ {0}]
    BY <2>1 DEF ServerTypes, Stages
  <2>4. UNCHANGED <<program, queueOf, robin, listening, edge, conn, joined, signals>>
    BY <1>6 DEF StartFails
  <2> QED
    BY <2>2, <2>3, <2>4 DEF ServerTypes, TypeOK, Stages
<1>7. CASE DeleteServer
  <2>1. CASE Has("queues") /\ Has("array")
    BY <1>7, <2>1 DEF DeleteServer, ServerTypes, TypeOK, Stages
  <2>2. CASE ~ (Has("queues") /\ Has("array"))
    BY <1>0, <1>7, <2>2, EndsTypes DEF DeleteServer
  <2> QED
    BY <2>1, <2>2
<1>8. CASE DestroyGlobals
  BY <1>8 DEF DestroyGlobals, ServerTypes, TypeOK, Stages
<1>9. CASE Return
  BY <1>0, <1>9, EndsTypes DEF Return
<1> QED
  BY <1>1, <1>2, <1>3, <1>4, <1>5, <1>6, <1>7, <1>8, <1>9 DEF Main

LEMMA RecvOverTypes ==
  ASSUME ServerTypes, RecvOver, UNCHANGED <<program, main, queueOf, robin, joined>>,
         signals' \in 0 .. MaxSignals
  PROVE  ServerTypes'
<1>1. thread' \in [Threads -> {"none", "new", "running", "deleted"}]
  BY DEF RecvOver, Over, ServerTypes, TypeOK
<1>2. conn' \in [Clients -> {"none", "backlog", "open", "closed"}]
  BY DEF RecvOver, Unlisten, ServerTypes, TypeOK
<1> QED
  BY <1>1, <1>2 DEF RecvOver, ServerTypes, TypeOK

LEMMA StepTypes == ServerTypes /\ [Next]_vars => ServerTypes'
<1> SUFFICES ASSUME ServerTypes, [Next]_vars PROVE ServerTypes'
  OBVIOUS
<1> USE DEF initVars, netVars
<1>0. signals \in 0 .. MaxSignals
  BY DEF ServerTypes, TypeOK
<1>1. CASE Main
  BY <1>1, MainTypes
<1>2. CASE RecvAttach
  BY <1>2 DEF RecvAttach, ServerTypes, TypeOK
<1>3. CASE RecvAttachFails
  BY <1>0, <1>3, RecvOverTypes DEF RecvAttachFails
<1>4. CASE RecvAccept
  BY <1>4 DEF RecvAccept, ServerTypes, TypeOK
<1>5. CASE RecvAcceptFails
  BY <1>5 DEF RecvAcceptFails, ServerTypes, TypeOK
<1>6. ASSUME NEW t \in Threads, WorkerEnds(t) \/ BeatEnds(t) PROVE ServerTypes'
  <2>1. Over(t) /\ UNCHANGED <<program, main, queueOf, robin, listening, edge, conn, joined, signals>>
    BY <1>6 DEF WorkerEnds, BeatEnds
  <2> QED
    BY <2>1 DEF Over, ServerTypes, TypeOK
<1>7. ASSUME NEW t \in Threads, UseFreed(t) PROVE ServerTypes'
  BY <1>0, <1>7, EndsTypes DEF UseFreed
<1>8. ASSUME NEW k \in 1 .. MaxProxies, BeatJoins(k) PROVE ServerTypes'
  BY <1>8 DEF BeatJoins, ServerTypes, TypeOK
<1>9. ASSUME NEW c \in Clients, ClientConnects(c) PROVE ServerTypes'
  <2>1. conn' = [conn EXCEPT ![c] = "backlog"] \/ conn' = [conn EXCEPT ![c] = "closed"]
    BY <1>9 DEF ClientConnects
  <2>2. conn' \in [Clients -> {"none", "backlog", "open", "closed"}]
    BY <2>1 DEF ServerTypes, TypeOK
  <2>3. edge' \in BOOLEAN
    BY <1>9 DEF ClientConnects
  <2>4. UNCHANGED <<program, main, thread, queueOf, robin, listening, joined, signals>>
    BY <1>9 DEF ClientConnects
  <2> QED
    BY <2>2, <2>3, <2>4 DEF ServerTypes, TypeOK
<1>10. CASE Signal \/ Killed
  <2>1. signals' \in 0 .. MaxSignals /\ UNCHANGED <<program, queueOf, robin>>
    BY <1>10, ServerAssumption DEF Signal, Killed, ServerTypes, TypeOK
  <2>2. Ends("exited") \/ (RecvOver /\ UNCHANGED <<main, joined>>)
    BY <1>10 DEF Signal, Killed
  <2> QED
    BY <2>1, <2>2, EndsTypes, RecvOverTypes
<1>11. CASE UNCHANGED vars
  BY <1>11 DEF vars, ServerTypes, TypeOK
<1> QED
  BY <1>1, <1>2, <1>3, <1>4, <1>5, <1>6, <1>7, <1>8, <1>9, <1>10, <1>11 DEF Next, Receiver

\* Every variable has its type.
THEOREM TypeCorrectness == Spec => []TypeOK
<1>1. ServerTypes => TypeOK
  BY DEF ServerTypes
<1> QED
  BY <1>1, InitTypes, StepTypes, PTL DEF Spec

-----------------------------------------------------------------------------
(* Construction and the start of the threads.                                *)

LEMMA PlanStays == UNCHANGED program => Plan' = Plan /\ Starts' = Starts
  BY DEF Plan, Starts

LEMMA PassedStays == UNCHANGED <<program, main>> => Passed' = Passed
  BY PlanStays DEF Passed

LEMMA PassedGrows ==
  ASSUME ServerTypes, UNCHANGED program, main.i \in DOMAIN Plan, main'.i = main.i + 1
  PROVE  Passed' = Passed \cup {Plan[main.i]}
<1>1. DOMAIN Plan = 1 .. Len(Plan) /\ Len(Plan) \in Nat /\ main.i \in Nat
  BY PlanParts DEF ServerTypes, TypeOK
<1>2. {k \in DOMAIN Plan : k < main.i + 1} = {k \in DOMAIN Plan : k < main.i} \cup {main.i}
  BY <1>1
<1>3. Passed' = {Plan[j] : j \in {k \in DOMAIN Plan : k < main.i + 1}}
  BY PlanStays DEF Passed
<1> QED
  BY <1>2, <1>3 DEF Passed

LEMMA PassedWhole ==
  ASSUME ServerTypes, main.i > Len(Plan)
  PROVE  Passed = AsSet(Plan)
<1>1. DOMAIN Plan = 1 .. Len(Plan) /\ Len(Plan) \in Nat /\ main.i \in Nat
  BY PlanParts DEF ServerTypes, TypeOK
<1>2. {k \in DOMAIN Plan : k < main.i} = DOMAIN Plan
  BY <1>1
<1> QED
  BY <1>2 DEF Passed, AsSet

\* Objects of different names, and what is no thread.
LEMMA Different == /\ One("parser") \notin Common \cup {One("root"), One("acceptor")}
                   /\ One("acceptor") \notin Threads
                   /\ Recv \notin Beats /\ Recv \notin WorkerThreads /\ Recv # SyncThread
                   /\ Recv \in Threads /\ Beats \subseteq Threads
<1>1. One("parser") \notin Common \cup {One("root"), One("acceptor")}
  BY CommonIs DEF One
<1> QED
  BY <1>1 DEF One, Threads, Recv, Beats, Beat, SyncThread, WorkerThreads, Worker

LEMMA InitServer == Init => ServerInv
<1> SUFFICES ASSUME Init PROVE ServerInv
  OBVIOUS
<1>1. main.pc = "init" /\ main.i = 1 /\ joined = {} /\ listening = FALSE
  BY DEF Init
<1>2. \A t \in Threads : thread[t] = "none"
  BY DEF Init
<1>3. Passed = {}
  <2>1. DOMAIN Plan = 1 .. Len(Plan) /\ Len(Plan) \in Nat
    BY PlanParts DEF Init
  <2> QED
    BY <1>1, <2>1 DEF Passed
<1>4. BeatsOfNodes
  BY <1>2, Different DEF BeatsOfNodes
<1> QED
  BY <1>1, <1>2, <1>3, <1>4
  DEF ServerInv, PlanFollowed, NothingStarted, StartsInOrder, CommonMade, RootMade, Reachable,
      TornDown, JoinedLate, NoCrash, NoDeafListener, Serving

\* The end of the process.
LEMMA EndsKeeps ==
  ASSUME ServerTypes, ServerInv, NEW how \in {"exited", "crashed"}, Ends(how),
         UNCHANGED <<program, startFailed>>, how = "crashed" => startFailed
  PROVE  ServerInv'
<1>1. main'.pc = how /\ joined' = {} /\ listening' = FALSE
  BY DEF Ends, ServerTypes
<1>2. \A t \in Threads : thread'[t] = "none"
  BY DEF Ends
<1>3. BeatsOfNodes'
  BY <1>2, Different DEF BeatsOfNodes
<1> QED
  BY <1>1, <1>2, <1>3
  DEF ServerInv, PlanFollowed, NothingStarted, StartsInOrder, CommonMade, RootMade, Reachable,
      TornDown, JoinedLate, NoCrash, NoDeafListener, Serving, Alive

LEMMA MakeKeeps == ServerTypes /\ ServerInv /\ (Make \/ NoParser) => ServerInv'
<1> SUFFICES ASSUME ServerTypes, ServerInv, Make \/ NoParser PROVE ServerInv'
  OBVIOUS
<1> DEFINE step == Plan[main.i]
<1>1. /\ main.pc = "init" /\ main'.pc = "init" /\ main'.i = main.i + 1 /\ main.i \in DOMAIN Plan
      /\ UNCHANGED <<program, startFailed, joined>>
  <2>1. DOMAIN Plan = 1 .. Len(Plan) /\ Len(Plan) \in Nat
    BY PlanParts DEF ServerTypes, TypeOK
  <2> QED
    BY <2>1 DEF Make, NoParser, ServerTypes, initVars, netVars
<1>2. joined = {}
  BY <1>1 DEF ServerInv, JoinedLate
<1>3. \/ /\ made' = made \cup {step} /\ listening' = (listening \/ step = One("acceptor"))
         /\ thread' = IF step \in Threads THEN [thread EXCEPT ![step] = "new"] ELSE thread
      \/ step = One("parser") /\ UNCHANGED <<made, listening, thread>>
  BY DEF Make, NoParser, Listens, netVars
<1> HIDE DEF step
<1>4. Passed' = Passed \cup {step}
  BY <1>1, PassedGrows DEF step
<1>5. PlanFollowed'
  <2>1. One("acceptor") # One("parser")
    BY DEF One
  <2>2. Passed \subseteq made \cup {One("parser")} /\ (One("acceptor") \in Passed => listening)
    BY <1>1 DEF ServerInv, PlanFollowed
  <2>3. Passed' \subseteq made' \cup {One("parser")}
    BY <1>3, <1>4, <2>2
  <2>4. ASSUME One("acceptor") \in Passed' PROVE listening'
    <3>1. CASE One("acceptor") \in Passed
      BY <1>3, <2>2, <3>1
    <3>2. CASE One("acceptor") = step
      BY <1>3, <2>1, <3>2
    <3> QED
      BY <1>4, <2>4, <3>1, <3>2
  <2> QED
    BY <2>3, <2>4 DEF PlanFollowed
<1>6. \A t \in Threads : thread'[t] \in {"none", "new"}
  <2>1. \A t \in Threads : thread[t] \in {"none", "new"}
    BY <1>1 DEF ServerInv, NothingStarted
  <2> QED
    BY <1>3, <2>1 DEF ServerTypes, TypeOK
<1>7. BeatsOfNodes' /\ NothingStarted' /\ NoDeafListener'
  BY <1>6, Different DEF BeatsOfNodes, NothingStarted, NoDeafListener
<1> QED
  BY <1>1, <1>2, <1>5, <1>7
  DEF ServerInv, StartsInOrder, CommonMade, RootMade, Reachable, TornDown, JoinedLate, NoCrash,
      Serving

LEMMA InitializedKeeps == ServerTypes /\ ServerInv /\ Initialized => ServerInv'
<1> SUFFICES ASSUME ServerTypes, ServerInv, Initialized PROVE ServerInv'
  OBVIOUS
<1>1. /\ main.pc = "init" /\ main.i > Len(Plan) /\ main'.pc = "run" /\ main'.i = 1
      /\ UNCHANGED <<program, startFailed, joined, made, listening, thread>>
  BY DEF Initialized, initVars, netVars
<1>2. Passed = AsSet(Plan) /\ PlanMakes(AsSet(Plan))
  BY <1>1, PassedWhole, PlanParts DEF ServerTypes, TypeOK
<1>3. Passed \subseteq made \cup {One("parser")} /\ (One("acceptor") \in Passed => listening)
  BY <1>1 DEF ServerInv, PlanFollowed
<1>4. /\ Common \subseteq made /\ listening
      /\ program.name = "storaged" => One("root") \in made
  BY <1>2, <1>3, Different DEF PlanMakes
<1>5. StartsInOrder'
  <2>1. 1 \in DOMAIN Starts
    BY StartsParts DEF ServerTypes, TypeOK
  <2>2. thread[Recv] \in {"none", "new"}
    BY <1>1, Different DEF ServerInv, NothingStarted
  <2> QED
    BY <1>1, <2>1, <2>2, PlanStays DEF StartsInOrder
<1>6. CommonMade' /\ RootMade' /\ Reachable'
  BY <1>1, <1>4 DEF CommonMade, RootMade, Reachable
<1>7. BeatsOfNodes' /\ NoDeafListener'
  BY <1>1 DEF ServerInv, BeatsOfNodes, NoDeafListener
<1>8. joined' = {}
  BY <1>1 DEF ServerInv, JoinedLate
<1> QED
  BY <1>1, <1>5, <1>6, <1>7, <1>8
  DEF ServerInv, PlanFollowed, NothingStarted, TornDown, JoinedLate, NoCrash

LEMMA StartKeeps == ServerTypes /\ ServerInv /\ (Start \/ StartFails) => ServerInv'
<1> SUFFICES ASSUME ServerTypes, ServerInv, Start \/ StartFails PROVE ServerInv'
  OBVIOUS
<1> DEFINE t == Starts[main.i]
           n == Len(Starts)
<1>1. main.pc = "run" /\ UNCHANGED <<program, made, joined, listening>>
  BY DEF Start, StartFails, initVars, netVars
<1>2. /\ DOMAIN Starts = 1 .. n /\ n \in Nat \ {0} /\ Starts[n] \notin Beats /\ t \in Threads
      /\ main.i \in 1 .. n
      /\ program.name = "proxyd" => t \notin Beats
      /\ \A j, k \in DOMAIN Starts : Starts[j] = Recv /\ Starts[k] = Recv => j = k
      /\ \A j \in 1 .. n : j >= main.i /\ Starts[j] = Recv => thread[Recv] \in {"none", "new"}
  BY <1>1, StartsParts, ElementOfSeq DEF ServerInv, StartsInOrder, ServerTypes, TypeOK, AsSet
<1>3. main \in [pc : Stages, i : Nat \ {0}]
  BY DEF ServerTypes
<1>4. \/ /\ thread' = [thread EXCEPT ![t] = "running"] /\ startFailed' = startFailed
         /\ main' = IF main.i = n THEN [main EXCEPT !.pc = "serve"] ELSE [main EXCEPT !.i = @ + 1]
      \/ /\ thread' = [thread EXCEPT ![t] = "deleted"] /\ startFailed' = startFailed
         /\ main' = [main EXCEPT !.i = @ + 1] /\ t \in Beats
      \/ /\ thread' = thread /\ startFailed' = TRUE
         /\ main' = [main EXCEPT !.pc = "delete"]
  BY DEF Start, StartFails
<1>5. t \in Beats => main.i # n
  BY <1>2
<1> HIDE DEF t, n
<1>6. /\ main'.pc \in {"run", "serve"} \/ (main'.pc = "delete" /\ startFailed')
      /\ main'.pc = "run" => main'.i \in 1 .. n
  BY <1>1, <1>2, <1>3, <1>4, <1>5
<1>7. thread \in [Threads -> {"none", "new", "running", "deleted"}]
  BY DEF ServerTypes, TypeOK
<1>8. \A u \in Threads : \/ thread'[u] = thread[u]
                         \/ u = t /\ thread'[u] = "running"
                         \/ u \in Beats /\ thread'[u] = "deleted"
  BY <1>4, <1>7
<1>9. StartsInOrder'
  <2> SUFFICES ASSUME main'.pc = "run"
               PROVE  /\ main'.i \in 1 .. n
                      /\ \A j \in 1 .. n : j >= main'.i /\ Starts[j] = Recv
                                              => thread'[Recv] \in {"none", "new"}
    BY <1>1, <1>2, PlanStays DEF StartsInOrder
  <2>1. main'.i = main.i + 1
    BY <1>1, <1>3, <1>4
  <2>2. ASSUME NEW j \in 1 .. n, j >= main'.i, Starts[j] = Recv
        PROVE  thread'[Recv] \in {"none", "new"}
    <3>1. j >= main.i /\ j # main.i
      BY <1>2, <2>1, <2>2
    <3>2. thread[Recv] \in {"none", "new"} /\ t # Recv
      BY <1>2, <2>2, <3>1 DEF t
    <3> QED
      BY <1>8, <3>2, Different
  <2> QED
    BY <1>6, <2>2
<1>10. BeatsOfNodes'
  <2> SUFFICES ASSUME NEW u \in Beats, thread'[u] = "running" PROVE program.name = "storaged"
    BY <1>1 DEF BeatsOfNodes
  <2>1. CASE thread[u] = "running"
    BY <2>1 DEF ServerInv, BeatsOfNodes
  <2>2. CASE thread[u] # "running"
    <3>1. u = t
      BY <1>8, <2>2, Different
    <3>2. program.name # "proxyd"
      BY <1>2, <3>1
    <3> QED
      BY <3>2 DEF ServerTypes, TypeOK, Programs
  <2> QED
    BY <2>1, <2>2
<1>11. Reachable'
  <2>1. listening \/ thread[Recv] = "deleted"
    BY <1>1 DEF ServerInv, Reachable, Alive
  <2>2. t = Recv => thread[Recv] # "deleted"
    BY <1>2 DEF t
  <2> QED
    BY <1>1, <1>8, <2>1, <2>2, Different DEF Reachable
<1>12. NoDeafListener'
  BY <1>1, <1>8, Different DEF ServerInv, NoDeafListener
<1>13. CommonMade' /\ RootMade' /\ JoinedLate'
  BY <1>1, <1>6 DEF ServerInv, CommonMade, RootMade, JoinedLate, Serving, Alive
<1> QED
  BY <1>1, <1>6, <1>9, <1>10, <1>11, <1>12, <1>13
  DEF ServerInv, PlanFollowed, NothingStarted, TornDown, NoCrash

-----------------------------------------------------------------------------
(* The end of main(), and what the threads and the outside do.               *)

LEMMA DeleteKeeps == ServerTypes /\ ServerInv /\ (DeleteServer \/ DestroyGlobals \/ Return) => ServerInv'
<1> SUFFICES ASSUME ServerTypes, ServerInv, DeleteServer \/ DestroyGlobals \/ Return
             PROVE  ServerInv'
  OBVIOUS
<1>1. main.pc \in {"delete", "destroy", "return"} /\ UNCHANGED <<program, startFailed>>
  BY DEF DeleteServer, DestroyGlobals, Return, initVars, netVars
<1>2. startFailed
  BY <1>1 DEF ServerInv, TornDown
<1>3. \/ \E how \in {"exited", "crashed"} : Ends(how)
      \/ \E some \in {ServerObjects, Globals} :
           /\ made' = made \ AsSet(some) /\ UNCHANGED <<thread, joined, listening>>
           /\ \E pc \in {"destroy", "return"} : main' = [main EXCEPT !.pc = pc]
  BY DEF DeleteServer, DestroyGlobals, Return, initVars, netVars
<1>4. CASE \E how \in {"exited", "crashed"} : Ends(how)
  BY <1>1, <1>2, <1>4, EndsKeeps
<1>5. ASSUME NEW some \in {ServerObjects, Globals}, made' = made \ AsSet(some),
             UNCHANGED <<thread, joined, listening>>,
             NEW pc \in {"destroy", "return"}, main' = [main EXCEPT !.pc = pc]
      PROVE  ServerInv'
  <2>1. main'.pc = pc
    BY <1>5 DEF ServerTypes
  <2>2. One("root") \notin AsSet(some)
    BY <1>5 DEF One, Ones, AsSet, ServerObjects, Globals
  <2>3. RootMade'
    BY <1>1, <1>5, <2>1, <2>2 DEF ServerInv, RootMade, Alive
  <2>4. Reachable' /\ BeatsOfNodes' /\ NoDeafListener' /\ JoinedLate'
    BY <1>1, <1>5, <2>1
    DEF ServerInv, Reachable, BeatsOfNodes, NoDeafListener, JoinedLate, Alive
  <2> QED
    BY <1>1, <1>2, <2>1, <2>3, <2>4
    DEF ServerInv, PlanFollowed, NothingStarted, StartsInOrder, CommonMade, TornDown, NoCrash,
        Serving
<1> QED
  BY <1>3, <1>4, <1>5

\* What the threads and the network do to what the invariant speaks of: threads that run
\* end, the socket goes with the receiver, a report thread that runs joins.
Calm ==
  /\ UNCHANGED <<program, main, startFailed>>
  /\ made \subseteq made'
  /\ \A t \in Threads : thread'[t] = thread[t] \/ (Runs(t) /\ thread'[t] = "deleted")
  /\ \/ listening' = listening /\ thread'[Recv] = thread[Recv]
     \/ listening' = FALSE /\ thread'[Recv] = "deleted"
  /\ joined' = joined \/ \E t \in Beats : Runs(t)

LEMMA CalmKeeps == ServerTypes /\ ServerInv /\ Calm => ServerInv'
<1> SUFFICES ASSUME ServerTypes, ServerInv, Calm PROVE ServerInv'
  OBVIOUS
<1>1. UNCHANGED <<program, main, startFailed>> /\ made \subseteq made'
  BY DEF Calm
<1>2. main.pc = "init" => \A t \in Threads : thread'[t] = thread[t]
  BY DEF Calm, ServerInv, NothingStarted, Runs
<1>3. PlanFollowed'
  <2>1. main.pc = "init" => listening' = listening
    BY <1>2, Different DEF Calm, ServerInv, NothingStarted
  <2> QED
    BY <1>1, <2>1, PassedStays DEF ServerInv, PlanFollowed
<1>4. NothingStarted'
  BY <1>1, <1>2 DEF ServerInv, NothingStarted
<1>5. StartsInOrder'
  <2>1. thread[Recv] \in {"none", "new"} => thread'[Recv] \in {"none", "new"}
    BY Different DEF Calm, Runs
  <2> QED
    BY <1>1, <2>1, PlanStays DEF ServerInv, StartsInOrder
<1>6. BeatsOfNodes'
  BY Different DEF Calm, ServerInv, BeatsOfNodes
<1>7. CommonMade' /\ RootMade'
  BY <1>1 DEF ServerInv, CommonMade, RootMade, Serving, Alive
<1>8. Reachable' /\ NoDeafListener'
  BY DEF Calm, ServerInv, Reachable, NoDeafListener, Alive
<1>9. TornDown' /\ NoCrash'
  BY <1>1 DEF ServerInv, TornDown, NoCrash
<1>10. JoinedLate'
  <2>1. CASE joined' = joined
    BY <1>1, <2>1 DEF ServerInv, JoinedLate, Alive
  <2>2. ASSUME NEW t \in Beats, Runs(t) PROVE JoinedLate'
    BY <1>1, <2>2, Different
    DEF ServerInv, NothingStarted, BeatsOfNodes, JoinedLate, Runs, Alive
  <2> QED
    BY <2>1, <2>2 DEF Calm
<1> QED
  BY <1>3, <1>4, <1>5, <1>6, <1>7, <1>8, <1>9, <1>10 DEF ServerInv

LEMMA RecvOverCalm ==
  ASSUME ServerTypes, Runs(Recv), RecvOver, UNCHANGED <<program, main, startFailed, joined>>
  PROVE  Calm
<1>1. thread \in [Threads -> {"none", "new", "running", "deleted"}]
  BY DEF ServerTypes, TypeOK
<1>2. thread' = [thread EXCEPT ![Recv] = "deleted"] /\ listening' = FALSE /\ made' = made
  BY DEF RecvOver, Over
<1> QED
  BY <1>1, <1>2, Different DEF Calm

LEMMA ReceiverCalm == ServerTypes /\ Receiver => Calm
<1> SUFFICES ASSUME ServerTypes, Receiver PROVE Calm
  OBVIOUS
<1>1. CASE RecvAttach \/ RecvAccept \/ RecvAcceptFails
  BY <1>1 DEF RecvAttach, RecvAccept, RecvAcceptFails, Calm, initVars
<1>2. CASE RecvAttachFails
  BY <1>2, RecvOverCalm DEF RecvAttachFails, initVars
<1> QED
  BY <1>1, <1>2 DEF Receiver

LEMMA ThreadCalm ==
  ASSUME ServerTypes, NEW t \in Threads, WorkerEnds(t) \/ BeatEnds(t)
  PROVE  Calm
<1>1. /\ t # Recv /\ Runs(t) /\ thread' = [thread EXCEPT ![t] = "deleted"]
      /\ UNCHANGED <<program, main, made, startFailed, joined, listening>>
  BY Different DEF WorkerEnds, BeatEnds, Over, initVars, netVars
<1>2. thread \in [Threads -> {"none", "new", "running", "deleted"}]
  BY DEF ServerTypes, TypeOK
<1>3. \A u \in Threads : thread'[u] = thread[u] \/ (Runs(u) /\ thread'[u] = "deleted")
  BY <1>1, <1>2
<1>4. thread'[Recv] = thread[Recv]
  BY <1>1, <1>2, Different
<1> QED
  BY <1>1, <1>3, <1>4 DEF Calm

\* What a running thread needs is there as long as every thread could be started.
LEMMA NeedsMet ==
  ASSUME ServerTypes, ServerInv, ~ startFailed, NEW t \in Threads, Runs(t)
  PROVE  ~ Misses(t)
<1>1. Serving /\ Common \subseteq made
  <2>1. main.pc \in Stages
    BY DEF ServerTypes
  <2> QED
    BY <2>1 DEF ServerInv, NothingStarted, TornDown, CommonMade, Serving, Runs, Alive, Stages
<1>2. AsSet(Needs(t)) \subseteq Common
  <2> DEFINE xs == <<"queues", "lock", "vnodes", "log">>
             ys == <<"queues", "log">>
             zs == <<"lock", "vnodes", "log">>
  <2>1. /\ DOMAIN xs = 1 .. 4 /\ DOMAIN ys = 1 .. 2 /\ DOMAIN zs = 1 .. 3
        /\ ys[1] = xs[1] /\ ys[2] = xs[4] /\ zs[1] = xs[2] /\ zs[2] = xs[3] /\ zs[3] = xs[4]
    OBVIOUS
  <2>2. Needs(t) \in {Ones(xs), Ones(ys), Ones(zs)} /\ Common = AsSet(Ones(xs))
    BY DEF Needs, Common
  <2> HIDE DEF xs, ys, zs
  <2>3. /\ AsSet(Ones(xs)) = {One(xs[i]) : i \in 1 .. 4}
        /\ AsSet(Ones(ys)) = {One(ys[i]) : i \in 1 .. 2}
        /\ AsSet(Ones(zs)) = {One(zs[i]) : i \in 1 .. 3}
    BY <2>1 DEF AsSet, Ones
  <2>4. 1 .. 4 = {1, 2, 3, 4} /\ 1 .. 3 = {1, 2, 3} /\ 1 .. 2 = {1, 2}
    OBVIOUS
  <2>5. AsSet(Ones(ys)) \subseteq Common /\ AsSet(Ones(zs)) \subseteq Common
    BY <2>1, <2>2, <2>3, <2>4
  <2> QED
    BY <2>2, <2>5
<1> QED
  BY <1>1, <1>2 DEF Misses

LEMMA StepServer == ServerTypes /\ ServerInv /\ [Next]_vars => ServerInv'
<1> SUFFICES ASSUME ServerTypes, ServerInv, [Next]_vars PROVE ServerInv'
  OBVIOUS
<1> USE DEF initVars, netVars
<1>1. CASE Make \/ NoParser
  BY <1>1, MakeKeeps
<1>2. CASE MakeFails
  BY <1>2, EndsKeeps DEF MakeFails
<1>3. CASE Initialized
  BY <1>3, InitializedKeeps
<1>4. CASE Start \/ StartFails
  BY <1>4, StartKeeps
<1>5. CASE DeleteServer \/ DestroyGlobals \/ Return
  BY <1>5, DeleteKeeps
<1>6. CASE Receiver
  BY <1>6, ReceiverCalm, CalmKeeps
<1>7. ASSUME NEW t \in Threads, WorkerEnds(t) \/ BeatEnds(t) PROVE ServerInv'
  BY <1>7, ThreadCalm, CalmKeeps
<1>8. ASSUME NEW t \in Threads, UseFreed(t) PROVE ServerInv'
  <2>1. startFailed
    BY <1>8, NeedsMet DEF UseFreed
  <2> QED
    BY <1>8, <2>1, EndsKeeps DEF UseFreed
<1>9. ASSUME NEW k \in 1 .. MaxProxies, BeatJoins(k) PROVE ServerInv'
  <2>1. Beat(k) \in Beats
    BY DEF Beats
  <2>2. Calm
    BY <1>9, <2>1 DEF BeatJoins, Calm
  <2> QED
    BY <2>2, CalmKeeps
<1>10. ASSUME NEW c \in Clients, ClientConnects(c) PROVE ServerInv'
  <2>1. Calm
    BY <1>10 DEF ClientConnects, Calm
  <2> QED
    BY <2>1, CalmKeeps
<1>11. CASE Signal \/ Killed
  <2>1. \/ Ends("exited") /\ UNCHANGED <<program, startFailed>>
        \/ Runs(Recv) /\ RecvOver /\ UNCHANGED <<program, main, startFailed, joined>>
    BY <1>11 DEF Signal, Killed
  <2> QED
    BY <2>1, EndsKeeps, RecvOverCalm, CalmKeeps
<1>12. CASE UNCHANGED vars
  <2>1. Calm
    BY <1>12 DEF vars, Calm
  <2> QED
    BY <2>1, CalmKeeps
<1> QED
  BY <1>1, <1>2, <1>3, <1>4, <1>5, <1>6, <1>7, <1>8, <1>9, <1>10, <1>11, <1>12 DEF Next, Main

LEMMA ServerHolds == Spec => [](ServerTypes /\ ServerInv)
<1>1. Init => ServerTypes /\ ServerInv
  BY InitTypes, InitServer
<1>2. (ServerTypes /\ ServerInv) /\ [Next]_vars => (ServerTypes /\ ServerInv)'
  BY StepTypes, StepServer
<1> QED
  BY <1>1, <1>2, PTL DEF Spec

-----------------------------------------------------------------------------
(* The theorems.                                                             *)

\* When a report thread has joined, the node has made its root anew and its socket listens,
\* unless the receiver has ended (storage_server.cpp:51, 299-311, acceptor.cpp:35): the plan
\* is followed to its end before run() starts a thread, and the socket goes with the
\* receiver only.
THEOREM JoinedNodesReady == Spec => []JoinedNodeIsReady
<1>1. ServerTypes /\ ServerInv => JoinedNodeIsReady
  BY DEF ServerInv, JoinedLate, RootMade, Reachable, JoinedNodeIsReady, Has
<1> QED
  BY <1>1, ServerHolds, PTL

\* No thread misses what it uses and no destructor reads an unset pointer, as long as every
\* thread could be started (base_server.cpp:72-92, kunlun_storaged.cpp:176-191): main() tears
\* down only after a failure of run().
THEOREM ThreadsKeepObjects == Spec => []NothingUsedAfterFree
<1>1. ServerTypes /\ ServerInv => NothingUsedAfterFree
  BY NeedsMet DEF ServerInv, NoCrash, NothingUsedAfterFree
<1> QED
  BY <1>1, ServerHolds, PTL

\* The socket is closed with its receiver (thread_msg_recv.cpp:58, thread.cpp:53): the
\* acceptor listens before the receiver is started, and goes when it ends.
THEOREM ListenerHeard == Spec => []NoDeafListener
<1>1. ServerTypes /\ ServerInv => NoDeafListener
  BY DEF ServerInv
<1> QED
  BY <1>1, ServerHolds, PTL

=============================================================================
