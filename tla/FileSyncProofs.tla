--------------------------- MODULE FileSyncProofs ---------------------------
(***************************************************************************)
(* Theorems about FileSync, for any sources, files, tables, versions and   *)
(* turns of fortune.                                                       *)
(*                                                                         *)
(* A source, its stream and the handler of its messages belong together:   *)
(* Fits says how the three fit, as a predicate of their values, so that    *)
(* the steps of one source say nothing of the others.  What the files and  *)
(* the table of the destination have to do with them is Arrived and        *)
(* TableKept.                                                              *)
(***************************************************************************)
EXTENDS FileSync, FiniteSetTheorems, SequenceTheorems, TLAPS

-----------------------------------------------------------------------------
(* Types.                                                                    *)

Tables == (UNION {SourceTables[s] : s \in Sources}) \cup {NoTable}
Some == {m \in SUBSET Data : IsFiniteSet(m)}
Checks == [kind : {"check"}, list : Tables, version : Nat]
Filings == [kind : {"file"}, path : Paths]
Requests == Checks \cup Filings
Answers == [to : Requests, ok : BOOLEAN, count : Nat, slot : Paths, missing : Some]
Syncs == [pc : {"idle", "version", "hash", "wait", "send", "file", "ok", "failed", "crashed"},
          list : Tables, count : Nat, i : Nat, slot : Paths, at : Paths, missing : Some]
Jobs == [pc : {"write", "add", "mark", "query", "entry", "insert", "drop", "answer"},
         req : Requests, stale : BOOLEAN, todo : SUBSET Data, path : Paths,
         left : SUBSET Data, missing : Some, slot : Paths, ok : BOOLEAN, done : BOOLEAN]

\* A line of one stream, which holds one message at most.
Line(S) == {q \in Seq(S) : Len(q) <= 1}
Wires == [req : Line(Requests), resp : Line(Answers)]

DiskTypes ==
  /\ disk = [dbs |-> disk.dbs, table |-> disk.table, files |-> disk.files, dir |-> disk.dir]
  /\ disk.dbs \in {"none", "some", "all"} /\ DOMAIN disk.table \subseteq Data
  /\ disk.files \subseteq Data /\ disk.dir \in BOOLEAN

LinkTypes ==
  /\ src \in [Sources -> Syncs] /\ wire \in [Sources -> Wires]
  /\ job \in [Sources -> {Idle} \cup Jobs]

RestTypes ==
  /\ have \in [Sources -> [vnode : BOOLEAN, table : Tables, files : SUBSET Data]]
  /\ recs \in Seq(Statuses)
  /\ told \in Told \cup {WAIT_SYNC} /\ turns \in 0 .. MaxTurns /\ up \in BOOLEAN
  /\ turns = 0 => told = WAIT_SYNC
  /\ gone \in [Sources -> SUBSET Data]

-----------------------------------------------------------------------------
(* A source x, its stream w and the handler j.                               *)

Nothing == <<>>
Quiet(w, j) == w.req = Nothing /\ w.resp = Nothing /\ j = Idle

\* What the source has asked last.
Asked(x, r) == IF x.pc = "wait" THEN r \in Checks /\ r.list = x.list
                                ELSE r = [kind |-> "file", path |-> x.at]

\* A request is on the stream, in the handler's hands or answered, but one of the three.
OnePlace(w, j) ==
  /\ w.req = Nothing \/ w.resp = Nothing
  /\ j = Idle \/ (w.req = Nothing /\ w.resp = Nothing)

Stream(x, w, j) ==
  /\ x.pc \in {"idle", "version", "hash", "send", "ok"} => Quiet(w, j)
  /\ x.pc \in {"wait", "file"} =>
       /\ OnePlace(w, j)
       /\ w.req # Nothing => Asked(x, Head(w.req))
       /\ w.resp # Nothing => Asked(x, Head(w.resp).to)
       /\ j # Idle => Asked(x, j.req)

\* A record of missing files: the last of them is in the slot.
Counted(count, slot, missing, list) ==
  /\ count = Cardinality(missing) /\ missing \subseteq DOMAIN list
  /\ missing # {} => slot \in missing

SourceFits(x) ==
  /\ x.pc \in {"idle", "version", "hash", "wait"} => x.i = 0 /\ x.missing = {}
  /\ x.pc \in {"send", "file"} => Counted(x.count, x.slot, x.missing, x.list) /\ x.i < x.count
  /\ x.pc = "file" /\ x.i = 0 => x.at = x.slot
  /\ x.pc = "ok" => x.missing \subseteq DOMAIN x.list
  /\ x.pc \in {"failed", "crashed"} => x.list = NoTable

AnswerFits(a) == a.to \in Checks => Counted(a.count, a.slot, a.missing, a.to.list)

\* The handler's way: what is done with, and what is left over.
JobFits(j) ==
  /\ j.pc = "write" => j.req \in Filings
  /\ j.pc \in {"add", "mark", "query", "entry", "insert", "drop"} => j.req \in Checks
  /\ j.pc \notin {"drop", "answer"} => ~ j.done
  /\ j.req \in Checks => /\ j.todo \subseteq DOMAIN j.req.list
                         /\ Counted(Cardinality(j.missing), j.slot, j.missing, j.req.list)
  /\ j.pc \in {"entry", "insert"} => j.left \cap (DOMAIN j.req.list \ j.todo) = {}
  /\ j.pc = "insert" => j.path \in DOMAIN j.req.list \ j.todo
  /\ j.pc = "drop" => j.left \cap DOMAIN j.req.list = {}

Fits(x, w, j) ==
  /\ Stream(x, w, j) /\ SourceFits(x)
  /\ w.resp # Nothing => AnswerFits(Head(w.resp))
  /\ j # Idle => JobFits(j)

AllFit == \A s \in Sources : Fits(src[s], wire[s], job[s])

-----------------------------------------------------------------------------
(* The destination's files and table.                                        *)

\* The one missing file, once it was written, is there or was removed again.
Arrived(x, w, j, there) ==
  \A p \in Data : x.missing = {p} =>
    /\ x.pc = "ok" => p \in there
    /\ x.pc = "file" /\ j # Idle /\ j.pc = "answer" /\ j.ok => p \in there
    /\ x.pc = "file" /\ w.resp # Nothing /\ Head(w.resp).ok => p \in there

There(s) == disk.files \cup gone[s]
AllArrived == \A s \in Sources : Arrived(src[s], wire[s], job[s], There(s))

\* The table while a check is at work on it alone: what is done with is recorded, the
\* rest is left over.
TableKept(j, dbs, T) ==
  LET L == DOMAIN j.req.list
  IN /\ j.pc \in {"entry", "insert"} => dbs # "none" /\ j.left = T \ (L \ j.todo)
     /\ j.pc = "entry" => L \ j.todo \subseteq T
     /\ j.pc = "insert" => (L \ j.todo) \ {j.path} \subseteq T
     /\ j.pc = "drop" => dbs = "all" /\ L \subseteq T /\ j.left = T \ L
     /\ j.pc = "answer" /\ j.done => dbs = "all" /\ T = L

AllKept ==
  \A s \in Sources : up /\ Alone(s) /\ job[s] # Idle => TableKept(job[s], disk.dbs, DOMAIN disk.table)

Types == LinkTypes /\ DiskTypes /\ RestTypes
Inv == Types /\ AllFit

-----------------------------------------------------------------------------
(* Lines, and what is typed whatever happens.                                *)

LEMMA LineEmpty == ASSUME NEW S PROVE <<>> \in Line(S)
BY DEF Line

LEMMA LineHead ==
  ASSUME NEW S, NEW q \in Line(S), q # <<>>
  PROVE  Head(q) \in S /\ Tail(q) = <<>>
BY DEF Line

LEMMA LineOne ==
  ASSUME NEW S, NEW e \in S
  PROVE  /\ Append(<<>>, e) \in Line(S) /\ Append(<<>>, e) # <<>>
         /\ Head(Append(<<>>, e)) = e
BY DEF Line

LEMMA SomeEmpty == {} \in Some
BY FS_EmptySet DEF Some

LEMMA SomeAdd == ASSUME NEW m \in Some, NEW p \in Data PROVE m \cup {p} \in Some
BY FS_AddElement DEF Some

LEMMA SomeCount == ASSUME NEW m \in Some PROVE Cardinality(m) \in Nat /\ (Cardinality(m) = 0 <=> m = {})
BY FS_CardinalityType, FS_EmptySet DEF Some

\* A set that counts one holds the one.
LEMMA SomeSingle == ASSUME NEW p PROVE Cardinality({p}) = 1
<1>1. {p} = {} \cup {p}
  OBVIOUS
<1> QED BY <1>1, FS_AddElement, FS_EmptySet

LEMMA TablesListData == ASSUME NEW t \in Tables PROVE DOMAIN t \subseteq Data
<1>1. CASE t \in UNION {SourceTables[s] : s \in Sources}
  BY <1>1, FileSyncAssumption
<1>2. CASE t = NoTable
  BY <1>2 DEF NoTable
<1> QED BY <1>1, <1>2 DEF Tables

LEMMA FewTyped == NoTable \in Tables /\ NOFILE \in Paths /\ ROOT \in Paths /\ DB \in Paths
<1>1. NoTable \in Tables
  BY Zenon DEF Tables
<1>2. NOFILE \in Paths /\ ROOT \in Paths /\ DB \in Paths
  BY DEF Paths
<1> QED BY <1>1, <1>2

LEMMA SyncTyped ==
  ASSUME NEW pc \in {"idle", "version", "hash", "wait", "send", "file", "ok", "failed", "crashed"}
  PROVE  Sync(pc) \in Syncs
BY FewTyped, SomeEmpty DEF Sync, Syncs

LEMMA JobTyped ==
  ASSUME NEW r \in Requests,
         NEW pc \in {"write", "add", "mark", "query", "entry", "insert", "drop", "answer"}
  PROVE  Job(r, pc) \in Jobs
BY FewTyped, SomeEmpty DEF Job, Jobs

LEMMA IdleNoJob == Idle \notin Jobs /\ \A j \in Jobs : j # Idle /\ j.pc # "idle"
<1>1. \A j \in Jobs : j.pc # "idle"
  BY DEF Jobs
<1>2. Idle.pc = "idle"
  BY DEF Idle
<1> QED BY <1>1, <1>2

LEMMA LinkTyped ==
  ASSUME LinkTypes, AllFit, NEW s \in Sources
  PROVE  /\ src[s] \in Syncs /\ wire[s] \in Wires /\ job[s] \in {Idle} \cup Jobs
         /\ Fits(src[s], wire[s], job[s])
BY DEF LinkTypes, AllFit

\* The values a step of one source gives to the source, its stream and its handler.
Moved(s, x, w, j) ==
  /\ src' = [src EXCEPT ![s] = x] /\ x \in Syncs
  /\ wire' = [wire EXCEPT ![s] = w] /\ w \in Wires
  /\ job' = [job EXCEPT ![s] = j] /\ j \in {Idle} \cup Jobs
  /\ Fits(x, w, j)

LEMMA MovedFits ==
  ASSUME LinkTypes, AllFit, NEW s \in Sources, NEW x, NEW w, NEW j, Moved(s, x, w, j)
  PROVE  /\ LinkTypes' /\ AllFit' /\ src'[s] = x /\ wire'[s] = w /\ job'[s] = j
         /\ \A t \in Sources \ {s} : src'[t] = src[t] /\ wire'[t] = wire[t] /\ job'[t] = job[t]
<1>1. LinkTypes'
  BY DEF LinkTypes, Moved
<1>2. /\ src'[s] = x /\ wire'[s] = w /\ job'[s] = j
      /\ \A t \in Sources \ {s} : src'[t] = src[t] /\ wire'[t] = wire[t] /\ job'[t] = job[t]
  BY DEF LinkTypes, Moved
<1>3. ASSUME NEW t \in Sources PROVE Fits(src'[t], wire'[t], job'[t])
  <2>1. CASE t = s
    BY <1>2, <2>1 DEF Moved
  <2>2. CASE t # s
    BY <1>2, <2>2 DEF AllFit
  <2> QED BY <2>1, <2>2
<1>4. AllFit'
  BY <1>3 DEF AllFit
<1> QED BY <1>1, <1>2, <1>4

-----------------------------------------------------------------------------
(* The steps of the source.                                                  *)

Moves(s) == Moved(s, src'[s], wire'[s], job'[s])

\* A step of the source alone.
LEMMA SourceMoves ==
  ASSUME LinkTypes, AllFit, NEW s \in Sources, NEW x \in Syncs, NEW w \in Wires,
         src' = [src EXCEPT ![s] = x], wire' = [wire EXCEPT ![s] = w], UNCHANGED job,
         Fits(x, w, job[s])
  PROVE  Moves(s)
<1>1. src'[s] = x /\ wire'[s] = w /\ job'[s] = job[s] /\ job' = [job EXCEPT ![s] = job[s]]
  BY DEF LinkTypes
<1>2. job[s] \in {Idle} \cup Jobs
  BY DEF LinkTypes
<1> QED BY <1>1, <1>2 DEF Moves, Moved

\* A step of the source that leaves the stream alone.
LEMMA SourceMovesOn ==
  ASSUME LinkTypes, AllFit, NEW s \in Sources, NEW x \in Syncs,
         src' = [src EXCEPT ![s] = x], UNCHANGED wire, UNCHANGED job,
         Fits(x, wire[s], job[s])
  PROVE  Moves(s)
<1>1. wire' = [wire EXCEPT ![s] = wire[s]] /\ wire[s] \in Wires
  BY DEF LinkTypes
<1> QED BY <1>1, SourceMoves

\* A source that gives up fits whatever is still on its way.
LEMMA GivesUpFits ==
  ASSUME NEW x, NEW w \in Wires, NEW j, Fits(x, w, j), NEW pc \in {"failed", "crashed"}
  PROVE  Fits(Sync(pc), w, j)
BY DEF Fits, Stream, SourceFits, Sync

LEMMA SyncStartMoves ==
  ASSUME LinkTypes, AllFit, RestTypes, NEW s \in Sources, SyncStart(s)
  PROVE  Moves(s)
<1>1. /\ src[s] \in Syncs /\ wire[s] \in Wires /\ Fits(src[s], wire[s], job[s])
      /\ src[s].pc = "idle" /\ UNCHANGED wire /\ UNCHANGED job
  BY LinkTyped DEF SyncStart, destVars
<1>2. CASE up /\ have[s].vnode
  <2> DEFINE x == [src[s] EXCEPT !.pc = "version", !.list = have[s].table]
  <2>1. src' = [src EXCEPT ![s] = x]
    BY <1>2 DEF SyncStart
  <2>2. have[s].table \in Tables
    BY DEF RestTypes
  <2>3. x \in Syncs /\ x.pc = "version" /\ x.i = src[s].i /\ x.missing = src[s].missing
    BY <1>1, <2>2 DEF Syncs
  <2> HIDE DEF x
  <2>4. Fits(x, wire[s], job[s])
    BY <1>1, <2>3 DEF Fits, Stream, SourceFits
  <2> QED BY <1>1, <2>1, <2>3, <2>4, SourceMovesOn
<1>3. CASE ~ (up /\ have[s].vnode)
  <2>1. src' = [src EXCEPT ![s] = Sync("failed")]
    BY <1>3 DEF SyncStart
  <2> QED BY <1>1, <2>1, SyncTyped, GivesUpFits, SourceMovesOn
<1> QED BY <1>2, <1>3

LEMMA ReadVersionMoves ==
  ASSUME LinkTypes, AllFit, RestTypes, NEW s \in Sources, ReadVersion(s)
  PROVE  Moves(s)
<1>1. /\ src[s] \in Syncs /\ wire[s] \in Wires /\ Fits(src[s], wire[s], job[s])
      /\ src[s].pc = "version" /\ UNCHANGED wire /\ UNCHANGED job
  BY LinkTyped DEF ReadVersion, destVars
<1>2. CASE have[s].vnode
  <2> DEFINE x == [src[s] EXCEPT !.pc = "hash"]
  <2>1. src' = [src EXCEPT ![s] = x]
    BY <1>2 DEF ReadVersion, Goes
  <2>2. x \in Syncs /\ x.pc = "hash" /\ x.i = src[s].i /\ x.missing = src[s].missing
    BY <1>1 DEF Syncs
  <2> HIDE DEF x
  <2>3. Fits(x, wire[s], job[s])
    BY <1>1, <2>2 DEF Fits, Stream, SourceFits
  <2> QED BY <1>1, <2>1, <2>2, <2>3, SourceMovesOn
<1>3. CASE ~ have[s].vnode
  <2>1. src' = [src EXCEPT ![s] = Sync("crashed")]
    BY <1>3 DEF ReadVersion, Goes
  <2> QED BY <1>1, <2>1, SyncTyped, GivesUpFits, SourceMovesOn
<1> QED BY <1>2, <1>3

\* A request on a quiet stream.
LEMMA AsksFits ==
  ASSUME NEW x \in Syncs, x.pc \in {"wait", "file"}, SourceFits(x),
         NEW w \in Wires, NEW j, Quiet(w, j), NEW r \in Requests, Asked(x, r)
  PROVE  /\ [w EXCEPT !.req = Append(@, r)] \in Wires
         /\ Fits(x, [w EXCEPT !.req = Append(@, r)], j)
<1> DEFINE v == [w EXCEPT !.req = Append(@, r)]
<1>1. v.req = Append(<<>>, r) /\ v.resp = <<>> /\ v \in Wires
  BY LineOne DEF Wires, Quiet, Nothing
<1>2. v.req # <<>> /\ Head(v.req) = r
  BY <1>1, LineOne
<1>3. j = Idle
  BY DEF Quiet
<1> HIDE DEF v
<1>4. Stream(x, v, j)
  BY <1>1, <1>2, <1>3 DEF Stream, OnePlace, Nothing
<1>5. Fits(x, v, j)
  BY <1>1, <1>3, <1>4 DEF Fits, Nothing
<1> QED BY <1>1, <1>5 DEF v

LEMMA SendCheckMoves ==
  ASSUME LinkTypes, AllFit, RestTypes, NEW s \in Sources, SendCheck(s)
  PROVE  Moves(s)
<1>1. /\ src[s] \in Syncs /\ wire[s] \in Wires /\ Fits(src[s], wire[s], job[s])
      /\ src[s].pc = "hash" /\ UNCHANGED job
  BY LinkTyped DEF SendCheck, destVars
<1>2. CASE have[s].vnode
  <2> DEFINE x == [src[s] EXCEPT !.pc = "wait"]
  <2>1. PICK v \in Versions[s] : Request(s, [kind |-> "check", list |-> src[s].list, version |-> v])
    BY <1>2 DEF SendCheck
  <2> DEFINE r == [kind |-> "check", list |-> src[s].list, version |-> v]
  <2>2. src' = [src EXCEPT ![s] = x]
    BY <1>2 DEF SendCheck, Goes
  <2>3. x \in Syncs /\ x.pc = "wait" /\ x.list = src[s].list
    BY <1>1 DEF Syncs
  <2>31. x.i = 0 /\ x.missing = {}
    BY <1>1 DEF Syncs, Fits, SourceFits
  <2>4. v \in Nat
    BY FileSyncAssumption
  <2>5. r \in Checks /\ r.list = x.list
    BY <1>1, <2>3, <2>4 DEF Checks, Syncs
  <2>6. wire' = [wire EXCEPT ![s] = [wire[s] EXCEPT !.req = Append(@, r)]]
    BY <2>1, <1>1 DEF Request, LinkTypes, Wires
  <2> HIDE DEF x, r
  <2>7. r \in Requests /\ Asked(x, r) /\ SourceFits(x)
    BY <2>3, <2>31, <2>5 DEF Requests, Asked, SourceFits
  <2>8. Quiet(wire[s], job[s])
    BY <1>1 DEF Fits, Stream
  <2> QED BY <1>1, <2>2, <2>3, <2>6, <2>7, <2>8, AsksFits, SourceMoves
<1>3. CASE ~ have[s].vnode
  <2>1. src' = [src EXCEPT ![s] = Sync("failed")] /\ UNCHANGED wire
    BY <1>3 DEF SendCheck, Goes
  <2> QED BY <1>1, <2>1, SyncTyped, GivesUpFits, SourceMovesOn
<1> QED BY <1>2, <1>3

\* A source that has its answer and goes on or ends.
LEMMA TakenFits ==
  ASSUME NEW x \in Syncs, x.pc \in {"send", "ok"}, SourceFits(x),
         NEW w \in Wires, NEW j, OnePlace(w, j), w.resp # <<>>
  PROVE  /\ [w EXCEPT !.resp = Tail(@)] \in Wires
         /\ Fits(x, [w EXCEPT !.resp = Tail(@)], j)
<1> DEFINE v == [w EXCEPT !.resp = Tail(@)]
<1>1. w.resp \in Line(Answers) /\ w.req = <<>> /\ j = Idle
  BY DEF OnePlace, Nothing, Wires
<1>2. v.resp = <<>> /\ v.req = <<>>
  BY <1>1, LineHead DEF Wires
<1>3. v \in Wires
  BY <1>1, <1>2, LineHead, LineEmpty DEF Wires
<1> HIDE DEF v
<1>4. Fits(x, v, j)
  BY <1>1, <1>2 DEF Fits, Stream, Quiet, Nothing
<1> QED BY <1>3, <1>4 DEF v

LEMMA GivesUpTakenFits ==
  ASSUME NEW w \in Wires, NEW j, w.resp # <<>>, OnePlace(w, j)
  PROVE  /\ [w EXCEPT !.resp = Tail(@)] \in Wires
         /\ Fits(Sync("failed"), [w EXCEPT !.resp = Tail(@)], j)
<1> DEFINE v == [w EXCEPT !.resp = Tail(@)]
<1>1. w.resp \in Line(Answers) /\ j = Idle
  BY DEF OnePlace, Nothing, Wires
<1>2. v.resp = <<>>
  BY <1>1, LineHead DEF Wires
<1>3. v \in Wires
  BY <1>1, <1>2, LineHead, LineEmpty DEF Wires
<1> HIDE DEF v
<1>4. Fits(Sync("failed"), v, j)
  BY <1>1, <1>2 DEF Fits, Stream, SourceFits, Sync, Nothing
<1> QED BY <1>3, <1>4 DEF v

\* A sync that ends well.
LEMMA DoneTyped ==
  ASSUME src \in [Sources -> Syncs], NEW s \in Sources,
         src[s].missing \subseteq DOMAIN src[s].list
  PROVE  /\ Done(s) \in Syncs /\ SourceFits(Done(s)) /\ Done(s).pc = "ok"
         /\ Done(s).list = src[s].list
         /\ Done(s).missing = IF Cardinality(src[s].missing) = 1 THEN src[s].missing ELSE {}
<1>1. src[s] \in Syncs /\ Sync("ok") \in Syncs /\ Sync("ok").pc = "ok"
  BY SyncTyped DEF Sync
<1>2. src[s].list \in Tables /\ src[s].missing \in Some
  BY <1>1 DEF Syncs
<1> DEFINE m == IF Cardinality(src[s].missing) = 1 THEN src[s].missing ELSE {}
<1>3. m \in Some /\ m \subseteq DOMAIN src[s].list
  BY <1>2, SomeEmpty
<1>4. Done(s) = [Sync("ok") EXCEPT !.list = src[s].list, !.missing = m]
  BY DEF Done
<1> HIDE DEF m
<1>5. /\ Done(s) \in Syncs /\ Done(s).pc = "ok" /\ Done(s).list = src[s].list /\ Done(s).missing = m
  BY <1>1, <1>2, <1>3, <1>4 DEF Syncs
<1>6. SourceFits(Done(s))
  BY <1>3, <1>5 DEF SourceFits
<1> QED BY <1>5, <1>6 DEF m

LEMMA TakeCheckedMoves ==
  ASSUME LinkTypes, AllFit, RestTypes, NEW s \in Sources, TakeChecked(s)
  PROVE  Moves(s)
<1> DEFINE w == [wire[s] EXCEPT !.resp = Tail(@)]
           a == Head(wire[s].resp)
<1>1. /\ src[s] \in Syncs /\ wire[s] \in Wires /\ Fits(src[s], wire[s], job[s])
      /\ src[s].pc = "wait" /\ UNCHANGED job /\ wire[s].resp # <<>>
  BY LinkTyped DEF TakeChecked
<1>2. wire' = [wire EXCEPT ![s] = w]
  BY <1>1 DEF TakeChecked, Taken, LinkTypes
<1>3. OnePlace(wire[s], job[s]) /\ a.to \in Checks /\ a.to.list = src[s].list /\ AnswerFits(a)
  BY <1>1 DEF Fits, Stream, Asked, Nothing
<1>4. a \in Answers
  BY <1>1, LineHead DEF Wires
<1>5. src[s].i = 0 /\ src[s].missing = {}
  BY <1>1 DEF Fits, SourceFits
<1>6. src' = [src EXCEPT ![s] =
          IF ~ a.ok THEN Sync("failed")
          ELSE IF a.count = 0 THEN Done(s)
          ELSE [src[s] EXCEPT !.pc = "send", !.count = a.count, !.slot = a.slot, !.missing = a.missing]]
  BY DEF TakeChecked, LinkTypes
<1> HIDE DEF a
<1>7. CASE ~ a.ok
  <2>1. w \in Wires /\ Fits(Sync("failed"), w, job[s])
    BY <1>1, <1>3, GivesUpTakenFits
  <2> QED BY <1>1, <1>2, <1>6, <1>7, <2>1, SyncTyped, SourceMoves
<1>8. CASE a.ok /\ a.count = 0
  <2>1. Done(s) \in Syncs /\ SourceFits(Done(s)) /\ Done(s).pc = "ok"
    BY <1>5, DoneTyped DEF LinkTypes
  <2>2. w \in Wires /\ Fits(Done(s), w, job[s])
    BY <1>1, <1>3, <2>1, TakenFits
  <2>3. src' = [src EXCEPT ![s] = Done(s)]
    BY <1>6, <1>8
  <2> QED BY <1>1, <1>2, <2>1, <2>2, <2>3, SourceMoves
<1>9. CASE a.ok /\ a.count # 0
  <2> DEFINE x == [src[s] EXCEPT !.pc = "send", !.count = a.count, !.slot = a.slot, !.missing = a.missing]
  <2>1. a.count \in Nat \ {0} /\ a.slot \in Paths /\ a.missing \in Some
    BY <1>4, <1>9 DEF Answers
  <2>2. /\ x \in Syncs /\ x.pc = "send" /\ x.i = 0 /\ x.count = a.count /\ x.slot = a.slot
        /\ x.missing = a.missing /\ x.list = src[s].list
    BY <1>1, <1>5, <2>1 DEF Syncs
  <2>3. src' = [src EXCEPT ![s] = x]
    BY <1>6, <1>9
  <2> HIDE DEF x
  <2>4. SourceFits(x)
    BY <1>3, <2>1, <2>2 DEF SourceFits, AnswerFits
  <2>5. w \in Wires /\ Fits(x, w, job[s])
    BY <1>1, <1>3, <2>2, <2>4, TakenFits
  <2> QED BY <1>1, <1>2, <2>2, <2>3, <2>5, SourceMoves
<1> QED BY <1>7, <1>8, <1>9

LEMMA SendFileMoves ==
  ASSUME LinkTypes, AllFit, RestTypes, NEW s \in Sources, SendFile(s)
  PROVE  Moves(s)
<1>1. /\ src[s] \in Syncs /\ wire[s] \in Wires /\ Fits(src[s], wire[s], job[s])
      /\ src[s].pc = "send" /\ UNCHANGED job
  BY LinkTyped DEF SendFile, destVars
<1>2. Quiet(wire[s], job[s]) /\ SourceFits(src[s])
  BY <1>1 DEF Fits, Stream
<1>3. PICK p \in IF src[s].i = 0 THEN {src[s].slot} ELSE Paths :
        /\ src' = [src EXCEPT ![s] = IF p \in Opens(s) \ {ROOT} THEN [@ EXCEPT !.pc = "file", !.at = p]
                                     ELSE Sync("failed")]
        /\ IF p \in Opens(s) THEN Request(s, [kind |-> "file", path |-> p]) ELSE UNCHANGED wire
  BY DEF SendFile
<1>4. p \in Paths /\ (src[s].i = 0 => p = src[s].slot)
  BY <1>1, <1>3 DEF Syncs
<1> DEFINE r == [kind |-> "file", path |-> p]
           w == [wire[s] EXCEPT !.req = Append(@, r)]
<1>5. r \in Filings /\ r \in Requests
  BY <1>4 DEF Filings, Requests
<1>6. p \in Opens(s) => wire' = [wire EXCEPT ![s] = w]
  BY <1>1, <1>3 DEF Request, LinkTypes
<1>7. CASE p \in Opens(s) \ {ROOT}
  <2> DEFINE x == [src[s] EXCEPT !.pc = "file", !.at = p]
  <2>1. x \in Syncs /\ x.pc = "file" /\ x.at = p
    BY <1>1, <1>4 DEF Syncs
  <2>2. x.i = src[s].i /\ x.count = src[s].count /\ x.slot = src[s].slot
    BY <1>1 DEF Syncs
  <2>3. x.missing = src[s].missing /\ x.list = src[s].list
    BY <1>1 DEF Syncs
  <2>4. src' = [src EXCEPT ![s] = x]
    BY <1>3, <1>7
  <2> HIDE DEF x
  <2>5. SourceFits(x)
    BY <1>1, <1>2, <1>4, <2>1, <2>2, <2>3 DEF SourceFits
  <2>6. Asked(x, r)
    BY <2>1 DEF Asked
  <2> HIDE DEF r
  <2>7. w \in Wires /\ Fits(x, w, job[s])
    BY <1>1, <1>2, <1>5, <2>1, <2>5, <2>6, AsksFits
  <2> QED BY <1>1, <1>6, <1>7, <2>1, <2>4, <2>7, SourceMoves
<1>8. CASE p \notin Opens(s) \ {ROOT}
  <2>1. src' = [src EXCEPT ![s] = Sync("failed")]
    BY <1>3, <1>8
  <2>2. CASE p \in Opens(s)
    <3>1. w \in Wires
      <4>1. w.req = Append(<<>>, r)
        BY <1>1, <1>2 DEF Wires, Quiet, Nothing
      <4> HIDE DEF r
      <4> QED BY <1>1, <1>5, <4>1, LineOne DEF Wires
    <3>2. Fits(Sync("failed"), w, job[s])
      <4>1. w.resp = <<>> /\ job[s] = Idle
        BY <1>1, <1>2 DEF Wires, Quiet, Nothing
      <4> QED BY <4>1 DEF Fits, Stream, SourceFits, Sync, Nothing
    <3> QED BY <1>1, <1>6, <2>1, <2>2, <3>1, <3>2, SyncTyped, SourceMoves
  <2>3. CASE p \notin Opens(s)
    BY <1>1, <1>3, <2>1, <2>3, SyncTyped, GivesUpFits, SourceMovesOn
  <2> QED BY <2>2, <2>3
<1> QED BY <1>7, <1>8

LEMMA TakeFiledMoves ==
  ASSUME LinkTypes, AllFit, RestTypes, NEW s \in Sources, TakeFiled(s)
  PROVE  Moves(s)
<1> DEFINE w == [wire[s] EXCEPT !.resp = Tail(@)]
<1>1. /\ src[s] \in Syncs /\ wire[s] \in Wires /\ Fits(src[s], wire[s], job[s])
      /\ src[s].pc = "file" /\ UNCHANGED job /\ wire[s].resp # <<>>
  BY LinkTyped DEF TakeFiled, destVars
<1>2. wire' = [wire EXCEPT ![s] = w]
  BY <1>1 DEF TakeFiled, Taken, LinkTypes
<1>3. OnePlace(wire[s], job[s]) /\ SourceFits(src[s])
  BY <1>1 DEF Fits, Stream
<1>4. Counted(src[s].count, src[s].slot, src[s].missing, src[s].list) /\ src[s].i < src[s].count
  BY <1>1, <1>3 DEF SourceFits
<1>5. src' = [src EXCEPT ![s] = IF Head(wire[s].resp).ok THEN NextFile(s, src[s].count - 1) ELSE Sync("failed")]
  BY DEF TakeFiled
<1>6. CASE ~ Head(wire[s].resp).ok
  <2>1. w \in Wires /\ Fits(Sync("failed"), w, job[s])
    BY <1>1, <1>3, GivesUpTakenFits
  <2> QED BY <1>1, <1>2, <1>5, <1>6, <2>1, SyncTyped, SourceMoves
<1>7. CASE Head(wire[s].resp).ok /\ src[s].i = src[s].count - 1
  <2>1. Done(s) \in Syncs /\ SourceFits(Done(s)) /\ Done(s).pc = "ok"
    BY <1>4, DoneTyped DEF LinkTypes, Counted
  <2>2. w \in Wires /\ Fits(Done(s), w, job[s])
    BY <1>1, <1>3, <2>1, TakenFits
  <2>3. src' = [src EXCEPT ![s] = Done(s)]
    BY <1>5, <1>7 DEF NextFile
  <2> QED BY <1>1, <1>2, <2>1, <2>2, <2>3, SourceMoves
<1>8. CASE Head(wire[s].resp).ok /\ src[s].i # src[s].count - 1
  <2> DEFINE x == [src[s] EXCEPT !.pc = "send", !.i = @ + 1]
  <2>1. src[s].i \in Nat /\ src[s].count \in Nat
    BY <1>1 DEF Syncs
  <2>2. x \in Syncs /\ x.pc = "send" /\ x.i = src[s].i + 1
    <3>1. x.pc = "send" /\ x.i = src[s].i + 1
      BY <1>1 DEF Syncs
    <3>2. src[s].i + 1 \in Nat
      BY <2>1
    <3> DEFINE n == src[s].i + 1
    <3> HIDE DEF n
    <3>3. [src[s] EXCEPT !.pc = "send", !.i = n] \in Syncs
      BY <1>1, <3>2 DEF Syncs, n
    <3> QED BY <3>1, <3>3 DEF n
  <2>3. /\ x.count = src[s].count /\ x.slot = src[s].slot
        /\ x.missing = src[s].missing /\ x.list = src[s].list
    BY <1>1 DEF Syncs
  <2>4. src' = [src EXCEPT ![s] = x]
    BY <1>5, <1>8 DEF NextFile
  <2>5. src[s].i + 1 < src[s].count
    BY <1>4, <1>8, <2>1
  <2> HIDE DEF x
  <2>6. SourceFits(x)
    BY <1>4, <2>2, <2>3, <2>5 DEF SourceFits
  <2>7. w \in Wires /\ Fits(x, w, job[s])
    BY <1>1, <1>3, <2>2, <2>6, TakenFits
  <2> QED BY <1>1, <1>2, <2>2, <2>4, <2>7, SourceMoves
<1> QED BY <1>6, <1>7, <1>8

LEMMA SyncTimeoutMoves ==
  ASSUME LinkTypes, AllFit, RestTypes, NEW s \in Sources, SyncTimeout(s)
  PROVE  Moves(s)
<1>1. /\ src[s] \in Syncs /\ wire[s] \in Wires /\ Fits(src[s], wire[s], job[s])
      /\ UNCHANGED job /\ UNCHANGED wire
  BY LinkTyped DEF SyncTimeout, destVars
<1>2. src' = [src EXCEPT ![s] = Sync("failed")]
  BY DEF SyncTimeout, Goes
<1> QED BY <1>1, <1>2, SyncTyped, GivesUpFits, SourceMovesOn

-----------------------------------------------------------------------------
(* The steps of the handler.                                                 *)

\* A handler at work stays within its request.
LEMMA HandlerMovesOn ==
  ASSUME LinkTypes, AllFit, NEW s \in Sources, job[s] \in Jobs, NEW j \in Jobs,
         job' = [job EXCEPT ![s] = j], UNCHANGED src, UNCHANGED wire,
         j.req = job[s].req, JobFits(j)
  PROVE  Moves(s)
<1>1. /\ src' = [src EXCEPT ![s] = src[s]] /\ wire' = [wire EXCEPT ![s] = wire[s]]
      /\ src'[s] = src[s] /\ wire'[s] = wire[s] /\ job'[s] = j
  BY DEF LinkTypes
<1>2. src[s] \in Syncs /\ wire[s] \in Wires /\ Fits(src[s], wire[s], job[s])
  BY LinkTyped
<1>3. job[s] # Idle
  BY IdleNoJob
<1>4. Stream(src[s], wire[s], j)
  BY <1>2, <1>3 DEF Fits, Stream, Quiet, OnePlace
<1>5. Fits(src[s], wire[s], j)
  BY <1>2, <1>4 DEF Fits
<1> QED BY <1>1, <1>2, <1>5 DEF Moves, Moved

LEMMA AtJob ==
  ASSUME LinkTypes, AllFit, NEW s \in Sources,
         NEW pc \in {"write", "add", "mark", "query", "entry", "insert", "drop", "answer"}, At(s, pc)
  PROVE  /\ job[s] \in Jobs /\ job[s].pc = pc /\ up /\ JobFits(job[s]) /\ job[s].req \in Requests
         /\ pc \in {"add", "mark", "query", "entry", "insert", "drop"} =>
              job[s].req \in Checks /\ DOMAIN job[s].req.list \subseteq Data
<1>1. job[s].pc = pc /\ up /\ pc # "idle"
  BY DEF At
<1>2. job[s] \in Jobs
  BY <1>1, LinkTyped DEF Idle
<1>3. JobFits(job[s]) /\ job[s].req \in Requests
  BY <1>2, LinkTyped, IdleNoJob DEF Fits, Jobs
<1>4. ASSUME pc \in {"add", "mark", "query", "entry", "insert", "drop"}
      PROVE job[s].req \in Checks /\ DOMAIN job[s].req.list \subseteq Data
  <2>1. job[s].req \in Checks
    BY <1>1, <1>3, <1>4 DEF JobFits
  <2>2. job[s].req.list \in Tables
    BY <2>1 DEF Checks
  <2> QED BY <2>1, <2>2, TablesListData
<1> QED BY <1>1, <1>2, <1>3, <1>4

\* A handler that answers with an error.
LEMMA RefusesMoves ==
  ASSUME LinkTypes, AllFit, NEW s \in Sources, job[s] \in Jobs, Refuses(s), UNCHANGED src, UNCHANGED wire
  PROVE  Moves(s) /\ job'[s].pc = "answer" /\ ~ job'[s].ok /\ ~ job'[s].done
<1> DEFINE j == [Job(job[s].req, "answer") EXCEPT !.ok = FALSE]
<1>1. job[s].req \in Requests
  BY DEF Jobs
<1>2. Job(job[s].req, "answer") \in Jobs
  BY <1>1, JobTyped
<1>3. /\ j \in Jobs /\ j.req = job[s].req /\ j.pc = "answer" /\ j.ok = FALSE /\ j.done = FALSE
      /\ j.todo = {} /\ j.missing = {}
  BY <1>2 DEF Job, Jobs
<1>4. job' = [job EXCEPT ![s] = j]
  BY DEF Refuses
<1>5. job'[s] = j
  BY <1>4 DEF LinkTypes
<1> HIDE DEF j
<1>6. JobFits(j)
  BY <1>3 DEF JobFits, Counted
<1> QED BY <1>3, <1>4, <1>5, <1>6, HandlerMovesOn

\* A handler that only goes on.
LEMMA GotoMoves ==
  ASSUME LinkTypes, AllFit, NEW s \in Sources, job[s] \in Jobs, UNCHANGED src, UNCHANGED wire,
         NEW pc \in {"query", "answer"}, Goto(s, pc), job[s].pc \in {"add", "mark", "write"},
         pc = "query" => job[s].pc # "write"
  PROVE  /\ Moves(s) /\ job'[s].pc = pc /\ ~ job'[s].done /\ job'[s].ok = job[s].ok
         /\ job'[s].req = job[s].req
<1> DEFINE j == [job[s] EXCEPT !.pc = pc]
<1>1. job' = [job EXCEPT ![s] = j] /\ job'[s] = j
  BY DEF Goto, LinkTypes
<1>2. /\ j \in Jobs /\ j.pc = pc
  BY DEF Jobs
<1>3. /\ j.req = job[s].req /\ j.todo = job[s].todo /\ j.missing = job[s].missing
      /\ j.slot = job[s].slot /\ j.done = job[s].done /\ j.ok = job[s].ok
  BY DEF Jobs
<1>4. JobFits(job[s])
  BY LinkTyped, IdleNoJob DEF Fits
<1> HIDE DEF j
<1>5. ~ j.done
  BY <1>3, <1>4 DEF JobFits
<1>6. JobFits(j)
  BY <1>2, <1>3, <1>4, <1>5 DEF JobFits
<1> QED BY <1>1, <1>2, <1>3, <1>5, <1>6, HandlerMovesOn

LEMMA MarkMoves ==
  ASSUME LinkTypes, AllFit, NEW s \in Sources, Mark(s)
  PROVE  Moves(s)
<1>1. job[s] \in Jobs /\ job[s].pc = "mark"
  BY AtJob DEF Mark
<1>2. PICK pc \in {"query", "answer"} : Goto(s, pc)
  BY DEF Mark
<1>3. UNCHANGED src /\ UNCHANGED wire
  BY DEF Mark
<1> QED BY <1>1, <1>2, <1>3, GotoMoves

LEMMA AddNewMoves ==
  ASSUME LinkTypes, AllFit, NEW s \in Sources, AddNew(s)
  PROVE  Moves(s)
<1>1. job[s] \in Jobs /\ job[s].pc = "add"
  BY AtJob DEF AddNew
<1>2. Goto(s, "query") \/ Refuses(s)
  BY DEF AddNew
<1>3. UNCHANGED src /\ UNCHANGED wire
  BY DEF AddNew
<1> QED BY <1>1, <1>2, <1>3, GotoMoves, RefusesMoves

LEMMA WriteFileMoves ==
  ASSUME LinkTypes, AllFit, NEW s \in Sources, WriteFile(s)
  PROVE  Moves(s)
<1>1. job[s] \in Jobs /\ job[s].pc = "write"
  BY AtJob DEF WriteFile
<1>2. Goto(s, "answer") \/ Refuses(s)
  BY DEF WriteFile
<1>3. UNCHANGED src /\ UNCHANGED wire
  BY DEF WriteFile
<1> QED BY <1>1, <1>2, <1>3, GotoMoves, RefusesMoves

LEMMA QueryMoves ==
  ASSUME LinkTypes, AllFit, DiskTypes, NEW s \in Sources, Query(s)
  PROVE  Moves(s)
<1>1. /\ job[s] \in Jobs /\ job[s].req \in Checks /\ DOMAIN job[s].req.list \subseteq Data
      /\ JobFits(job[s]) /\ job[s].pc = "query"
  BY AtJob DEF Query
<1>2. UNCHANGED src /\ UNCHANGED wire
  BY DEF Query
<1>3. CASE disk.dbs = "none"
  BY <1>1, <1>2, <1>3, RefusesMoves DEF Query
<1>4. CASE disk.dbs # "none"
  <2>1. PICK left \in {DOMAIN disk.table} \cup (IF Busy(s) THEN {{}} ELSE {}) :
          job' = [job EXCEPT ![s].pc = "entry", ![s].left = left, ![s].todo = DOMAIN job[s].req.list]
    BY <1>4 DEF Query
  <2>2. left \in SUBSET Data
    BY <2>1 DEF DiskTypes
  <2> DEFINE L == DOMAIN job[s].req.list
  <2>3. L \in SUBSET Data
    BY <1>1
  <2> HIDE DEF L
  <2> DEFINE j == [job[s] EXCEPT !.pc = "entry", !.left = left, !.todo = L]
  <2>4. job' = [job EXCEPT ![s] = j]
    BY <2>1 DEF LinkTypes, L
  <2>5. j \in Jobs /\ j.pc = "entry" /\ j.left = left /\ j.todo = L
    BY <1>1, <2>2, <2>3 DEF Jobs
  <2>6. /\ j.req = job[s].req /\ j.missing = job[s].missing /\ j.slot = job[s].slot
        /\ j.done = job[s].done
    BY <1>1 DEF Jobs
  <2> HIDE DEF j
  <2>7. JobFits(j)
    BY <1>1, <2>5, <2>6 DEF JobFits, L
  <2> QED BY <1>1, <1>2, <2>4, <2>5, <2>6, <2>7, HandlerMovesOn
<1> QED BY <1>3, <1>4

\* The three ways a listed path is dealt with.
Looked(j, p, missed, inserts) ==
  [j EXCEPT !.todo = @ \ {p}, !.left = @ \ {p},
            !.missing = IF missed THEN @ \cup {p} ELSE @,
            !.slot = IF missed THEN p ELSE @,
            !.pc = IF inserts THEN "insert" ELSE @,
            !.path = IF inserts THEN p ELSE @]

LEMMA LookedAt ==
  ASSUME NEW j \in Jobs, j.req \in Checks, DOMAIN j.req.list \subseteq Data, JobFits(j), j.pc = "entry",
         NEW p \in j.todo,
         NEW missed \in BOOLEAN, NEW inserts \in BOOLEAN, inserts => missed
  PROVE  /\ Looked(j, p, missed, inserts) \in Jobs /\ Looked(j, p, missed, inserts).req = j.req
         /\ JobFits(Looked(j, p, missed, inserts))
<1>1. p \in DOMAIN j.req.list /\ p \in Data /\ p \in Paths
  BY DEF JobFits, Paths
<1> DEFINE missing == IF missed THEN j.missing \cup {p} ELSE j.missing
           slot == IF missed THEN p ELSE j.slot
           pc == IF inserts THEN "insert" ELSE "entry"
           path == IF inserts THEN p ELSE j.path
           k == [j EXCEPT !.todo = j.todo \ {p}, !.left = j.left \ {p}, !.missing = missing,
                          !.slot = slot, !.pc = pc, !.path = path]
<1>2. missing \in Some /\ slot \in Paths /\ pc \in {"entry", "insert"} /\ path \in Paths
  BY <1>1, SomeAdd DEF Jobs
<1>3. j.todo \ {p} \in SUBSET Data /\ j.left \ {p} \in SUBSET Data
  BY DEF Jobs
<1>31. Counted(Cardinality(j.missing), j.slot, j.missing, j.req.list)
  BY DEF JobFits
<1>4. Counted(Cardinality(missing), slot, missing, j.req.list)
  BY <1>1, <1>31 DEF Counted
<1>41. (pc = "insert" => path = p)
  OBVIOUS
<1> HIDE DEF missing, slot, pc, path
<1>5. k \in Jobs
  BY <1>2, <1>3 DEF Jobs
<1>6. /\ k.req = j.req /\ k.done = j.done /\ k.todo = j.todo \ {p} /\ k.left = j.left \ {p}
      /\ k.missing = missing /\ k.slot = slot /\ k.pc = pc /\ k.path = path
  BY DEF Jobs
<1> HIDE DEF k
<1>7. JobFits(k)
  BY <1>1, <1>2, <1>4, <1>41, <1>6 DEF JobFits
<1>8. k = Looked(j, p, missed, inserts)
  BY DEF k, missing, slot, pc, path, Looked, Jobs
<1> QED BY <1>5, <1>6, <1>7, <1>8

LEMMA EntryLooks ==
  ASSUME LinkTypes, AllFit, NEW s \in Sources, Entry(s) \/ EntryLocked(s)
  PROVE  \/ /\ Refuses(s) /\ disk.dbs = "none"
         \/ \E p \in job[s].todo, missed \in BOOLEAN, inserts \in BOOLEAN :
              /\ inserts => missed
              /\ job' = [job EXCEPT ![s] = Looked(job[s], p, missed, inserts)]
              /\ Busy(s) \/ (IF p \in DOMAIN disk.table THEN ~ inserts ELSE inserts)
<1> DEFINE j == job[s]
<1>1. j \in Jobs /\ j.pc = "entry"
  BY AtJob DEF Entry, EntryLocked
<1>2. CASE Entry(s)
  <2>1. PICK p \in j.todo :
          LET k == [j EXCEPT !.todo = @ \ {p}, !.left = @ \ {p}]
          IN IF disk.dbs = "none" THEN Refuses(s)
             ELSE job' = [job EXCEPT ![s] =
                    IF Recorded(s, p) THEN k
                    ELSE IF p \in DOMAIN disk.table THEN Misses(s, k, p)
                    ELSE [Misses(s, k, p) EXCEPT !.pc = "insert", !.path = p]]
    BY <1>2 DEF Entry
  <2> DEFINE k == [j EXCEPT !.todo = @ \ {p}, !.left = @ \ {p}]
  <2>2. CASE disk.dbs = "none"
    BY <2>1, <2>2
  <2>3. CASE disk.dbs # "none" /\ Recorded(s, p)
    <3>1. job' = [job EXCEPT ![s] = k]
      BY <2>1, <2>3
    <3>2. k = Looked(j, p, FALSE, FALSE)
      BY <1>1 DEF Looked, Jobs
    <3>3. p \in DOMAIN disk.table
      BY <2>3 DEF Recorded
    <3> HIDE DEF k
    <3> QED BY <3>1, <3>2, <3>3
  <2>4. CASE disk.dbs # "none" /\ ~ Recorded(s, p) /\ p \in DOMAIN disk.table
    <3>1. job' = [job EXCEPT ![s] = Misses(s, k, p)]
      BY <2>1, <2>4
    <3>2. Misses(s, k, p) = Looked(j, p, TRUE, FALSE)
      BY <1>1 DEF Looked, Misses, Jobs
    <3> HIDE DEF k
    <3> QED BY <3>1, <3>2, <2>4
  <2>5. CASE disk.dbs # "none" /\ ~ Recorded(s, p) /\ p \notin DOMAIN disk.table
    <3>1. job' = [job EXCEPT ![s] = [Misses(s, k, p) EXCEPT !.pc = "insert", !.path = p]]
      BY <2>1, <2>5
    <3>2. [Misses(s, k, p) EXCEPT !.pc = "insert", !.path = p] = Looked(j, p, TRUE, TRUE)
      BY <1>1 DEF Looked, Misses, Jobs
    <3> HIDE DEF k
    <3> QED BY <3>1, <3>2, <2>5
  <2> QED BY <2>2, <2>3, <2>4, <2>5
<1>3. CASE EntryLocked(s)
  <2>1. PICK p \in j.todo :
          job' = [job EXCEPT ![s] = [Misses(s, j, p) EXCEPT !.todo = @ \ {p}, !.left = @ \ {p}]]
    BY <1>3 DEF EntryLocked
  <2>2. [Misses(s, j, p) EXCEPT !.todo = @ \ {p}, !.left = @ \ {p}] = Looked(j, p, TRUE, FALSE)
    BY <1>1 DEF Looked, Misses, Jobs
  <2>3. Busy(s)
    BY <1>3 DEF EntryLocked
  <2> QED BY <2>1, <2>2, <2>3
<1> QED BY <1>2, <1>3

LEMMA EntryMoves ==
  ASSUME LinkTypes, AllFit, NEW s \in Sources, Entry(s) \/ EntryLocked(s)
  PROVE  Moves(s)
<1>1. UNCHANGED src /\ UNCHANGED wire
  BY DEF Entry, EntryLocked
<1>2. /\ job[s] \in Jobs /\ job[s].req \in Checks /\ DOMAIN job[s].req.list \subseteq Data
      /\ JobFits(job[s]) /\ job[s].pc = "entry"
  BY AtJob DEF Entry, EntryLocked
<1>3. CASE Refuses(s)
  BY <1>1, <1>2, <1>3, RefusesMoves
<1>4. ASSUME NEW p \in job[s].todo, NEW missed \in BOOLEAN, NEW inserts \in BOOLEAN, inserts => missed,
             job' = [job EXCEPT ![s] = Looked(job[s], p, missed, inserts)]
      PROVE  Moves(s)
  <2> DEFINE k == Looked(job[s], p, missed, inserts)
  <2>1. k \in Jobs /\ k.req = job[s].req /\ JobFits(k)
    BY <1>2, <1>4, LookedAt
  <2> HIDE DEF k
  <2>2. job' = [job EXCEPT ![s] = k]
    BY <1>4 DEF k
  <2> QED BY <1>1, <1>2, <2>1, <2>2, HandlerMovesOn
<1> QED BY <1>3, <1>4, EntryLooks

LEMMA InsertMoves ==
  ASSUME LinkTypes, AllFit, NEW s \in Sources, Insert(s)
  PROVE  Moves(s)
<1> DEFINE j == [job[s] EXCEPT !.pc = "entry", !.path = NOFILE]
<1>1. UNCHANGED src /\ UNCHANGED wire /\ job' = [job EXCEPT ![s] = j]
  BY DEF Insert, LinkTypes
<1>2. /\ job[s] \in Jobs /\ job[s].req \in Checks /\ JobFits(job[s]) /\ job[s].pc = "insert"
  BY AtJob DEF Insert
<1>3. j \in Jobs /\ j.pc = "entry"
  BY <1>2, FewTyped DEF Jobs
<1>4. /\ j.req = job[s].req /\ j.todo = job[s].todo /\ j.left = job[s].left
      /\ j.missing = job[s].missing /\ j.slot = job[s].slot /\ j.done = job[s].done
  BY <1>2 DEF Jobs
<1> HIDE DEF j
<1>5. JobFits(j)
  BY <1>2, <1>3, <1>4 DEF JobFits
<1> QED BY <1>1, <1>2, <1>3, <1>4, <1>5, HandlerMovesOn

\* The paths of ps are no longer left over.
LEMMA DroppingFits ==
  ASSUME NEW j \in Jobs, JobFits(j), NEW ps \in SUBSET Data, j.req \in Checks,
         j.left \cap DOMAIN j.req.list = {}
  PROVE  /\ Dropping(j, ps) \in Jobs /\ Dropping(j, ps).req = j.req /\ JobFits(Dropping(j, ps))
         /\ Dropping(j, ps).left = j.left \ ps
         /\ Dropping(j, ps).pc = IF j.left \subseteq ps THEN "answer" ELSE "drop"
<1> DEFINE pc == IF j.left \subseteq ps THEN "answer" ELSE "drop"
           left == j.left \ ps
<1>1. pc \in {"answer", "drop"} /\ left \in SUBSET Data
  BY DEF Jobs
<1>11. left \cap DOMAIN j.req.list = {}
  OBVIOUS
<1>2. Dropping(j, ps) = [j EXCEPT !.left = left, !.pc = pc, !.done = TRUE]
  BY DEF Dropping
<1> HIDE DEF pc, left
<1> DEFINE k == Dropping(j, ps)
<1>3. k \in Jobs
  BY <1>1, <1>2 DEF Jobs
<1>4. /\ k.req = j.req /\ k.todo = j.todo /\ k.left = left /\ k.missing = j.missing
      /\ k.slot = j.slot /\ k.pc = pc
  BY <1>2 DEF Jobs
<1> HIDE DEF k
<1>5. JobFits(k)
  BY <1>1, <1>11, <1>4 DEF JobFits
<1> QED BY <1>3, <1>4, <1>5 DEF k, pc, left

LEMMA CheckDbsMoves ==
  ASSUME LinkTypes, AllFit, NEW s \in Sources, CheckDbs(s)
  PROVE  Moves(s)
<1>1. UNCHANGED src /\ UNCHANGED wire
  BY DEF CheckDbs
<1>2. /\ job[s] \in Jobs /\ job[s].req \in Checks /\ JobFits(job[s]) /\ job[s].pc = "entry"
      /\ job[s].todo = {}
  BY AtJob DEF CheckDbs
<1>3. CASE disk.dbs = "all"
  <2>1. job' = [job EXCEPT ![s] = Dropping(job[s], {})]
    BY <1>3 DEF CheckDbs
  <2>2. job[s].left \cap DOMAIN job[s].req.list = {}
    BY <1>2 DEF JobFits
  <2>3. Dropping(job[s], {}) \in Jobs /\ Dropping(job[s], {}).req = job[s].req /\ JobFits(Dropping(job[s], {}))
    BY <1>2, <2>2, DroppingFits
  <2> QED BY <1>1, <1>2, <2>1, <2>3, HandlerMovesOn
<1>4. CASE disk.dbs # "all"
  BY <1>1, <1>2, <1>4, RefusesMoves DEF CheckDbs
<1> QED BY <1>3, <1>4

LEMMA DropMoves ==
  ASSUME LinkTypes, AllFit, NEW s \in Sources, Drop(s)
  PROVE  Moves(s)
<1>1. UNCHANGED src /\ UNCHANGED wire
  BY DEF Drop
<1>2. /\ job[s] \in Jobs /\ job[s].req \in Checks /\ JobFits(job[s]) /\ job[s].pc = "drop"
  BY AtJob DEF Drop
<1>3. PICK p \in job[s].left : job' = [job EXCEPT ![s] = Dropping(job[s], {p})]
  BY DEF Drop
<1>4. job[s].left \cap DOMAIN job[s].req.list = {} /\ {p} \in SUBSET Data
  BY <1>2, <1>3 DEF JobFits, Jobs
<1>5. Dropping(job[s], {p}) \in Jobs /\ Dropping(job[s], {p}).req = job[s].req /\ JobFits(Dropping(job[s], {p}))
  BY <1>2, <1>4, DroppingFits
<1> QED BY <1>1, <1>2, <1>3, <1>5, HandlerMovesOn

LEMMA TakeRequestMoves ==
  ASSUME LinkTypes, AllFit, NEW s \in Sources, TakeRequest(s)
  PROVE  Moves(s)
<1> DEFINE r == Head(wire[s].req)
           pc == IF r.kind = "file" THEN "write" ELSE IF recs = <<>> THEN "add" ELSE "mark"
           j == Job(r, pc)
           w == [wire[s] EXCEPT !.req = Tail(@)]
<1>1. src[s] \in Syncs /\ wire[s] \in Wires /\ Fits(src[s], wire[s], job[s])
  BY LinkTyped
<1>2. wire[s].req # <<>> /\ UNCHANGED src /\ job' = [job EXCEPT ![s] = j]
  BY DEF TakeRequest
<1>3. wire' = [wire EXCEPT ![s] = w]
  BY DEF TakeRequest, LinkTypes
<1>4. r \in Requests /\ w.req = <<>> /\ w.resp = wire[s].resp /\ w \in Wires
  BY <1>1, <1>2, LineHead, LineEmpty DEF Wires
<1>5. /\ pc \in {"write", "add", "mark"} /\ (pc = "write" => r \in Filings)
      /\ (pc \in {"add", "mark"} => r \in Checks)
  BY <1>4 DEF Requests, Checks, Filings
<1>6. src' = [src EXCEPT ![s] = src[s]] /\ src'[s] = src[s] /\ wire'[s] = w /\ job'[s] = j
  BY <1>2, <1>3 DEF LinkTypes
<1>7. /\ src[s].pc \in {"wait", "file"} => OnePlace(wire[s], job[s]) /\ Asked(src[s], r)
      /\ src[s].pc \notin {"idle", "version", "hash", "send", "ok"}
      /\ SourceFits(src[s]) /\ (wire[s].resp # <<>> => AnswerFits(Head(wire[s].resp)))
  BY <1>1, <1>2 DEF Fits, Stream, Quiet, Nothing
<1> HIDE DEF r, pc, w
<1>8. j \in Jobs /\ j.req = r /\ j.pc = pc /\ j.todo = {} /\ j.missing = {} /\ j.done = FALSE
  BY <1>4, <1>5, JobTyped DEF Job
<1> HIDE DEF j
<1>9. JobFits(j)
  BY <1>5, <1>8 DEF JobFits, Counted
<1>10. Stream(src[s], w, j)
  BY <1>2, <1>4, <1>7, <1>8 DEF Stream, OnePlace, Nothing
<1>11. Fits(src[s], w, j)
  BY <1>4, <1>7, <1>9, <1>10 DEF Fits, Nothing
<1> QED BY <1>1, <1>2, <1>3, <1>4, <1>6, <1>8, <1>11 DEF Moves, Moved

LEMMA ReplyMoves ==
  ASSUME LinkTypes, AllFit, NEW s \in Sources, Reply(s)
  PROVE  Moves(s)
<1> DEFINE j == job[s]
           a == [to |-> j.req, ok |-> j.ok, count |-> Cardinality(j.missing),
                 slot |-> j.slot, missing |-> j.missing]
<1>1. src[s] \in Syncs /\ wire[s] \in Wires /\ Fits(src[s], wire[s], job[s])
  BY LinkTyped
<1>2. j \in Jobs /\ j # Idle /\ j.pc = "answer" /\ JobFits(j)
  BY AtJob, IdleNoJob DEF Reply
<1>3. UNCHANGED src /\ job' = [job EXCEPT ![s] = Idle]
  BY DEF Reply
<1>4. src' = [src EXCEPT ![s] = src[s]] /\ src'[s] = src[s] /\ job'[s] = Idle
  BY <1>3 DEF LinkTypes
<1>5. SourceFits(src[s]) /\ src[s].pc \notin {"idle", "version", "hash", "send", "ok"}
  BY <1>1, <1>2 DEF Fits, Stream, Quiet
<1>6. CASE ~ Waits(s)
  <2>1. wire' = [wire EXCEPT ![s] = wire[s]] /\ wire'[s] = wire[s]
    <3>1. [wire[s] EXCEPT !.resp = wire[s].resp] = wire[s]
      BY <1>1 DEF Wires
    <3> QED BY <1>6, <3>1 DEF Reply, LinkTypes
  <2>2. Fits(src[s], wire[s], Idle)
    BY <1>1, <1>5, <1>6 DEF Fits, Stream, Waits
  <2> QED BY <1>1, <1>3, <1>4, <2>1, <2>2 DEF Moves, Moved
<1>7. CASE Waits(s)
  <2> DEFINE w == [wire[s] EXCEPT !.resp = Append(@, a)]
  <2>1. wire' = [wire EXCEPT ![s] = w] /\ wire'[s] = w
    BY <1>7 DEF Reply, LinkTypes, Wires
  <2>2. /\ wire[s].req = <<>> /\ wire[s].resp = <<>> /\ Asked(src[s], j.req)
    BY <1>1, <1>2, <1>7 DEF Fits, Stream, Waits, OnePlace, Nothing
  <2>3. a \in Answers /\ a.to = j.req
    BY <1>2, SomeCount DEF Answers, Jobs
  <2>4. AnswerFits(a)
    BY <1>2 DEF AnswerFits, JobFits, Counted
  <2> HIDE DEF a
  <2>5. w.req = <<>> /\ w.resp = Append(<<>>, a)
    BY <1>1, <2>2 DEF Wires
  <2>6. w \in Wires /\ w.resp # <<>> /\ Head(w.resp) = a
    BY <1>1, <2>3, <2>5, LineOne DEF Wires
  <2> HIDE DEF w
  <2>7. Stream(src[s], w, Idle)
    BY <1>7, <2>2, <2>3, <2>5, <2>6 DEF Stream, OnePlace, Nothing, Waits
  <2>8. Fits(src[s], w, Idle)
    BY <1>5, <2>4, <2>6, <2>7 DEF Fits
  <2> QED BY <1>1, <1>3, <1>4, <2>1, <2>6, <2>8 DEF Moves, Moved
<1> QED BY <1>6, <1>7

-----------------------------------------------------------------------------
(* The beat thread, the end of the process, and the types of the rest.       *)

LEMMA OthersFit ==
  ASSUME LinkTypes, AllFit, UNCHANGED <<src, wire, job>>
  PROVE  LinkTypes' /\ AllFit'
BY DEF LinkTypes, AllFit

LEMMA BeatDeletesFit ==
  ASSUME LinkTypes, AllFit, BeatDeletes
  PROVE  LinkTypes' /\ AllFit' /\ UNCHANGED <<src, wire>>
<1>1. UNCHANGED <<src, wire>>
  BY DEF BeatDeletes
<1>2. job' = [s \in Sources |-> IF job[s].pc = "mark" THEN [job[s] EXCEPT !.stale = TRUE] ELSE job[s]]
  BY DEF BeatDeletes
<1>3. ASSUME NEW s \in Sources
      PROVE  job'[s] \in {Idle} \cup Jobs /\ Fits(src[s], wire[s], job'[s])
  <2>1. src[s] \in Syncs /\ wire[s] \in Wires /\ job[s] \in {Idle} \cup Jobs /\ Fits(src[s], wire[s], job[s])
    BY LinkTyped
  <2>2. CASE job[s].pc # "mark"
    BY <1>2, <2>1, <2>2
  <2>3. CASE job[s].pc = "mark"
    <3> DEFINE j == [job[s] EXCEPT !.stale = TRUE]
    <3>1. job'[s] = j
      BY <1>2, <2>3
    <3>2. job[s] \in Jobs /\ job[s] # Idle
      BY <2>1, <2>3, IdleNoJob DEF Idle
    <3>3. /\ j \in Jobs /\ j.pc = job[s].pc /\ j.req = job[s].req /\ j.done = job[s].done
      BY <3>2 DEF Jobs
    <3>4. /\ j.todo = job[s].todo /\ j.left = job[s].left /\ j.path = job[s].path
          /\ j.missing = job[s].missing /\ j.slot = job[s].slot
      BY <3>2 DEF Jobs
    <3>5. j # Idle
      BY <3>3, IdleNoJob
    <3> HIDE DEF j
    <3>6. JobFits(j)
      BY <2>1, <3>2, <3>3, <3>4 DEF Fits, JobFits
    <3>7. Fits(src[s], wire[s], j)
      BY <2>1, <3>2, <3>3, <3>6 DEF Fits, Stream, Quiet, OnePlace
    <3> QED BY <3>1, <3>3, <3>7
  <2> QED BY <2>2, <2>3
<1>4. job' \in [Sources -> {Idle} \cup Jobs]
  BY <1>2, <1>3
<1> QED BY <1>1, <1>3, <1>4 DEF LinkTypes, AllFit

LEMMA DestDiesFits ==
  ASSUME LinkTypes, AllFit, DestDies
  PROVE  LinkTypes' /\ AllFit' /\ UNCHANGED src
<1>1. UNCHANGED src /\ job' = [s \in Sources |-> Idle]
  BY DEF DestDies
<1>2. wire' = [s \in Sources |-> [wire[s] EXCEPT !.req = <<>>]]
  BY DEF DestDies
<1>3. ASSUME NEW s \in Sources
      PROVE  wire'[s] \in Wires /\ Fits(src[s], wire'[s], Idle)
  <2> DEFINE w == [wire[s] EXCEPT !.req = <<>>]
  <2>1. src[s] \in Syncs /\ wire[s] \in Wires /\ Fits(src[s], wire[s], job[s])
    BY LinkTyped
  <2>2. w \in Wires /\ w.req = <<>> /\ w.resp = wire[s].resp /\ wire'[s] = w
    BY <1>2, <2>1, LineEmpty DEF Wires
  <2> HIDE DEF w
  <2>3. Fits(src[s], w, Idle)
    BY <2>1, <2>2 DEF Fits, Stream, Quiet, OnePlace, Nothing
  <2> QED BY <2>2, <2>3
<1>4. wire' \in [Sources -> Wires] /\ job' \in [Sources -> {Idle} \cup Jobs]
  BY <1>1, <1>2, <1>3
<1> QED BY <1>1, <1>3, <1>4 DEF LinkTypes, AllFit

\* A step of one source, whichever it is.
LEMMA SourceStepMoves ==
  ASSUME Types, AllFit, NEW s \in Sources, SyncThread(s) \/ Handler(s)
  PROVE  Moves(s)
BY SyncStartMoves, ReadVersionMoves, SendCheckMoves, TakeCheckedMoves, SendFileMoves, TakeFiledMoves,
   SyncTimeoutMoves, TakeRequestMoves, MarkMoves, AddNewMoves, QueryMoves, EntryMoves, InsertMoves,
   CheckDbsMoves, DropMoves, WriteFileMoves, ReplyMoves
   DEF Types, SyncThread, Handler

LEMMA StepFits ==
  ASSUME Types, AllFit, [Next]_vars
  PROVE  LinkTypes' /\ AllFit'
<1> USE DEF Types
<1>1. ASSUME NEW s \in Sources, SyncThread(s) \/ Handler(s) PROVE LinkTypes' /\ AllFit'
  BY <1>1, SourceStepMoves, MovedFits DEF Moves
<1>2. ASSUME NEW s \in Sources, SourceLoses(s) PROVE LinkTypes' /\ AllFit'
  BY <1>2, OthersFit DEF SourceLoses, destVars
<1>3. CASE TellStatus
  BY <1>3, OthersFit DEF TellStatus, destVars
<1>4. CASE BeatDeletes
  BY <1>4, BeatDeletesFit
<1>5. CASE BeatMerges
  BY <1>5, OthersFit DEF BeatMerges
<1>6. CASE DestDies
  BY <1>6, DestDiesFits
<1>7. CASE UNCHANGED vars
  BY <1>7, OthersFit DEF vars
<1> QED BY <1>1, <1>2, <1>3, <1>4, <1>5, <1>6, <1>7 DEF Next

-----------------------------------------------------------------------------
(* The disk.                                                                 *)

\* What a step may do to the disk's fields.
DiskBecomes(dbs, table, files, dir) ==
  disk' = [dbs |-> dbs, table |-> table, files |-> files, dir |-> dir]

LEMMA DiskBecomesTyped ==
  ASSUME NEW dbs \in {"none", "some", "all"}, NEW table, DOMAIN table \subseteq Data,
         NEW files \in SUBSET Data, NEW dir \in BOOLEAN, DiskBecomes(dbs, table, files, dir)
  PROVE  DiskTypes'
BY DEF DiskTypes, DiskBecomes

LEMMA AddVnodeDisk ==
  ASSUME DiskTypes, NEW status, NEW dbs \in {"none", "some", "all"}, AddVnode(status, dbs)
  PROVE  /\ DiskTypes' /\ DiskBecomes(dbs, disk.table, disk.files, disk.dir)
         /\ disk'.dbs = dbs /\ disk'.table = disk.table /\ disk'.files = disk.files /\ disk'.dir = disk.dir
<1>1. PICK d, t, f, r : disk = [dbs |-> d, table |-> t, files |-> f, dir |-> r]
  BY DEF DiskTypes
<1>2. DiskBecomes(dbs, disk.table, disk.files, disk.dir)
  BY <1>1 DEF AddVnode, DiskBecomes
<1> QED BY <1>2, DiskBecomesTyped DEF DiskTypes, DiskBecomes

LEMMA InsertDisk ==
  ASSUME DiskTypes, NEW s \in Sources, Insert(s), job[s].path \in Data
  PROVE  /\ DiskTypes' /\ disk'.dbs = disk.dbs /\ disk'.files = disk.files
         /\ \/ disk.dbs # "none" /\ DOMAIN disk'.table = DOMAIN disk.table \cup {job[s].path}
            \/ /\ DOMAIN disk'.table = DOMAIN disk.table
               /\ job[s].path \in DOMAIN disk.table \/ disk.dbs = "none" \/ Busy(s)
<1>1. PICK d, t, f, r : disk = [dbs |-> d, table |-> t, files |-> f, dir |-> r]
  BY DEF DiskTypes
<1>2. CASE UNCHANGED disk /\ (job[s].path \in DOMAIN disk.table \/ disk.dbs = "none" \/ Busy(s))
  BY <1>2 DEF DiskTypes
<1>3. CASE /\ disk.dbs # "none"
           /\ disk' = [disk EXCEPT !.table = Put(@, job[s].path, job[s].req.list[job[s].path])]
  <2> DEFINE u == Put(disk.table, job[s].path, job[s].req.list[job[s].path])
  <2>1. DOMAIN u = DOMAIN disk.table \cup {job[s].path}
    BY DEF Put
  <2>2. disk' = [disk EXCEPT !.table = u]
    BY <1>1, <1>3
  <2> HIDE DEF u
  <2>3. DiskBecomes(disk.dbs, u, disk.files, disk.dir)
    BY <1>1, <2>2 DEF DiskBecomes
  <2>4. DOMAIN u \subseteq Data
    BY <2>1 DEF DiskTypes
  <2>5. disk'.dbs = disk.dbs /\ disk'.files = disk.files /\ disk'.table = u
    BY <2>3 DEF DiskBecomes
  <2>6. disk.dbs \in {"none", "some", "all"} /\ disk.files \in SUBSET Data /\ disk.dir \in BOOLEAN
    BY DEF DiskTypes
  <2>7. DiskTypes'
    BY <2>3, <2>4, <2>6, DiskBecomesTyped
  <2> QED BY <1>3, <2>1, <2>5, <2>7
<1> QED BY <1>2, <1>3 DEF Insert

LEMMA DropDisk ==
  ASSUME DiskTypes, NEW s \in Sources, Drop(s)
  PROVE  \E p \in job[s].left :
           /\ DiskTypes' /\ disk'.dbs = disk.dbs /\ disk'.files = disk.files \ {p}
           /\ DOMAIN disk'.table = DOMAIN disk.table \ {p} \/ (Busy(s) /\ DOMAIN disk'.table = DOMAIN disk.table)
           /\ job' = [job EXCEPT ![s] = Dropping(job[s], {p})] /\ Removed({p})
<1>1. PICK d, t, f, r : disk = [dbs |-> d, table |-> t, files |-> f, dir |-> r]
  BY DEF DiskTypes
<1>2. PICK p \in job[s].left, locked \in {FALSE, Busy(s)} :
        /\ job' = [job EXCEPT ![s] = Dropping(job[s], {p})]
        /\ disk' = [disk EXCEPT !.files = @ \ {p},
                                !.table = IF locked THEN @ ELSE Restrict(@, DOMAIN @ \ {p})]
        /\ Removed({p})
  BY DEF Drop
<1> DEFINE u == IF locked THEN disk.table ELSE Restrict(disk.table, DOMAIN disk.table \ {p})
           g == disk.files \ {p}
<1>3. locked => Busy(s)
  BY <1>2
<1>4. DOMAIN u = IF locked THEN DOMAIN disk.table ELSE DOMAIN disk.table \ {p}
  BY DEF Restrict
<1>5. disk' = [disk EXCEPT !.files = g, !.table = u]
  BY <1>1, <1>2
<1>6. g \in SUBSET Data
  BY DEF DiskTypes
<1> HIDE DEF u, g
<1>7. DiskBecomes(disk.dbs, u, g, disk.dir)
  BY <1>1, <1>5 DEF DiskBecomes
<1>8. DOMAIN u \subseteq Data
  BY <1>4 DEF DiskTypes
<1>9. DiskTypes' /\ disk'.dbs = disk.dbs /\ disk'.files = g /\ disk'.table = u
  BY <1>6, <1>7, <1>8, DiskBecomesTyped DEF DiskTypes, DiskBecomes
<1> QED BY <1>2, <1>3, <1>4, <1>9 DEF g

LEMMA WriteFileDisk ==
  ASSUME LinkTypes, AllFit, DiskTypes, NEW s \in Sources, WriteFile(s)
  PROVE  /\ DiskTypes' /\ disk'.dbs = disk.dbs /\ disk'.table = disk.table
         /\ disk.files \subseteq disk'.files
         /\ job'[s].ok => (job[s].req.path \in Data => job[s].req.path \in disk'.files)
<1>1. PICK d, t, f, r : disk = [dbs |-> d, table |-> t, files |-> f, dir |-> r]
  BY DEF DiskTypes
<1> DEFINE p == job[s].req.path
           ok == IF p = DB THEN disk.dbs = "all" ELSE p \in Data /\ disk.dir
<1>2. job[s] \in Jobs
  BY AtJob DEF WriteFile
<1>3. CASE ok /\ p \in Data
  <2> DEFINE g == disk.files \cup {p}
  <2>1. disk' = [disk EXCEPT !.files = g]
    BY <1>1, <1>3 DEF WriteFile
  <2>2. g \in SUBSET Data
    BY <1>3 DEF DiskTypes
  <2>3. p \in g /\ disk.files \subseteq g
    OBVIOUS
  <2> HIDE DEF g
  <2>4. DiskBecomes(disk.dbs, disk.table, g, disk.dir)
    BY <1>1, <2>1 DEF DiskBecomes
  <2> QED BY <2>2, <2>3, <2>4, DiskBecomesTyped DEF DiskTypes, DiskBecomes
<1>4. CASE ~ ok
  <2>1. UNCHANGED disk /\ Refuses(s)
    BY <1>4 DEF WriteFile
  <2>2. UNCHANGED src /\ UNCHANGED wire
    BY DEF WriteFile
  <2>3. ~ job'[s].ok
    BY <1>2, <2>1, <2>2, RefusesMoves
  <2> QED BY <2>1, <2>3 DEF DiskTypes
<1>5. CASE ok /\ p \notin Data
  <2>1. UNCHANGED disk
    BY <1>5 DEF WriteFile
  <2> QED BY <1>5, <2>1 DEF DiskTypes
<1> QED BY <1>3, <1>4, <1>5

LEMMA NoDirTyped == ASSUME disk' = NoDir PROVE DiskTypes'
BY DEF NoDir, NoTable, DiskTypes

LEMMA RemoveDirDisk ==
  ASSUME DiskTypes, RemoveDir
  PROVE  /\ DiskTypes'
         /\ \/ Removed(disk.files)
            \/ UNCHANGED gone /\ disk'.files = disk.files
<1>1. CASE disk' = NoDir /\ Removed(disk.files)
  BY <1>1, NoDirTyped
<1>2. CASE disk' = [disk EXCEPT !.dbs = "some"] /\ UNCHANGED gone
  <2>1. PICK d, t, f, r : disk = [dbs |-> d, table |-> t, files |-> f, dir |-> r]
    BY DEF DiskTypes
  <2>2. DiskBecomes("some", disk.table, disk.files, disk.dir)
    BY <1>2, <2>1 DEF DiskBecomes
  <2> QED BY <1>2, <2>2, DiskBecomesTyped DEF DiskTypes, DiskBecomes
<1> QED BY <1>1, <1>2 DEF RemoveDir

\* The steps that leave the disk alone.
LEMMA SameDisk == ASSUME DiskTypes, UNCHANGED disk PROVE DiskTypes'
BY DEF DiskTypes

LEMMA StepDisk ==
  ASSUME Types, AllFit, [Next]_vars
  PROVE  DiskTypes'
<1> USE DEF Types
<1>1. ASSUME NEW s \in Sources, SyncThread(s) \/ SourceLoses(s) PROVE DiskTypes'
  <2>1. UNCHANGED disk
    BY <1>1 DEF SyncThread, SourceLoses, SyncStart, ReadVersion, SendCheck, TakeChecked, SendFile,
               TakeFiled, SyncTimeout, destVars
  <2> QED BY <2>1, SameDisk
<1>2. ASSUME NEW s \in Sources,
             TakeRequest(s) \/ Mark(s) \/ Query(s) \/ Entry(s) \/ EntryLocked(s) \/ CheckDbs(s) \/ Reply(s)
      PROVE  DiskTypes'
  <2>1. UNCHANGED disk
    BY <1>2 DEF TakeRequest, Mark, Query, Entry, EntryLocked, CheckDbs, Reply
  <2> QED BY <2>1, SameDisk
<1>3. ASSUME NEW s \in Sources, AddNew(s) PROVE DiskTypes'
  BY <1>3, AddVnodeDisk DEF AddNew
<1>4. ASSUME NEW s \in Sources, Insert(s) PROVE DiskTypes'
  <2>1. job[s].path \in Data
    BY <1>4, AtJob DEF Insert, JobFits
  <2> QED BY <1>4, <2>1, InsertDisk
<1>5. ASSUME NEW s \in Sources, Drop(s) \/ WriteFile(s) PROVE DiskTypes'
  BY <1>5, DropDisk, WriteFileDisk
<1>6. CASE TellStatus
  BY <1>6, SameDisk DEF TellStatus, destVars
<1>7. CASE BeatDeletes
  BY <1>7, RemoveDirDisk DEF BeatDeletes
<1>8. CASE BeatMerges
  BY <1>8, AddVnodeDisk, SameDisk DEF BeatMerges
<1>9. CASE DestDies
  BY <1>9, NoDirTyped DEF DestDies
<1>10. CASE UNCHANGED vars
  BY <1>10, SameDisk DEF vars
<1> QED BY <1>1, <1>2, <1>3, <1>4, <1>5, <1>6, <1>7, <1>8, <1>9, <1>10 DEF Next, Handler

-----------------------------------------------------------------------------
(* The rest.                                                                 *)

LEMMA FirstSet ==
  ASSUME NEW q \in Seq(Statuses), NEW v \in Statuses
  PROVE  [q EXCEPT ![1] = v] \in Seq(Statuses)
<1>1. q \in [1 .. Len(q) -> Statuses] /\ Len(q) \in Nat
  BY LenProperties
<1>2. [q EXCEPT ![1] = v] \in [1 .. Len(q) -> Statuses]
  BY <1>1
<1>3. [1 .. Len(q) -> Statuses] \subseteq Seq(Statuses)
  BY <1>1, SeqDef
<1> QED BY <1>2, <1>3

LEMMA StatusTyped == WAIT_SYNC \in Statuses /\ ACTIVE \in Statuses
BY DEF WAIT_SYNC, ACTIVE, Statuses, INIT, OFFLINE

LEMMA ToldTyped == ASSUME RestTypes PROVE told \in Statuses
BY StatusTyped, FileSyncAssumption DEF RestTypes

LEMMA StepRecs ==
  ASSUME Types, AllFit, [Next]_vars
  PROVE  recs' \in Seq(Statuses)
<1>0. recs \in Seq(Statuses) /\ told \in Statuses
  BY ToldTyped DEF Types, RestTypes
<1>1. ASSUME NEW s \in Sources, SyncThread(s) \/ SourceLoses(s) PROVE UNCHANGED recs
  BY <1>1 DEF SyncThread, SourceLoses, SyncStart, ReadVersion, SendCheck, TakeChecked, SendFile,
             TakeFiled, SyncTimeout, destVars
<1>2. ASSUME NEW s \in Sources,
             TakeRequest(s) \/ Query(s) \/ Entry(s) \/ EntryLocked(s) \/ CheckDbs(s) \/ Reply(s)
             \/ Insert(s) \/ Drop(s) \/ WriteFile(s)
      PROVE  UNCHANGED recs
  BY <1>2 DEF TakeRequest, Query, Entry, EntryLocked, CheckDbs, Reply, Insert, Drop, WriteFile
<1>3. ASSUME NEW s \in Sources, Mark(s) PROVE recs' \in Seq(Statuses)
  BY <1>0, <1>3, FirstSet, StatusTyped DEF Mark
<1>4. ASSUME NEW s \in Sources, AddNew(s) PROVE recs' \in Seq(Statuses)
  BY <1>0, <1>4, StatusTyped, AppendProperties DEF AddNew, AddVnode
<1>5. CASE TellStatus \/ UNCHANGED vars
  BY <1>0, <1>5 DEF TellStatus, destVars, vars
<1>6. CASE BeatDeletes
  BY <1>0, <1>6, HeadTailProperties DEF BeatDeletes
<1>7. CASE BeatMerges
  BY <1>0, <1>7, FirstSet, AppendProperties DEF BeatMerges, AddVnode
<1>8. CASE DestDies
  BY <1>8 DEF DestDies
<1> QED BY <1>0, <1>1, <1>2, <1>3, <1>4, <1>5, <1>6, <1>7, <1>8 DEF Next, Handler

LEMMA RemovedTyped ==
  ASSUME gone \in [Sources -> SUBSET Data], NEW ps \in SUBSET Data, Removed(ps)
  PROVE  gone' \in [Sources -> SUBSET Data]
BY DEF Removed

LEMMA TakeCheckedGone ==
  ASSUME gone \in [Sources -> SUBSET Data], NEW s \in Sources, TakeChecked(s)
  PROVE  /\ gone' \in [Sources -> SUBSET Data]
         /\ \A t \in Sources \ {s} : gone'[t] = gone[t]
BY DEF TakeChecked

LEMMA StepGone ==
  ASSUME Types, AllFit, [Next]_vars
  PROVE  gone' \in [Sources -> SUBSET Data]
<1>0. gone \in [Sources -> SUBSET Data] /\ disk.files \in SUBSET Data
  BY DEF Types, RestTypes, DiskTypes
<1>1. ASSUME NEW s \in Sources, SyncThread(s) \/ SourceLoses(s), ~ TakeChecked(s) PROVE UNCHANGED gone
  BY <1>1 DEF SyncThread, SourceLoses, SyncStart, ReadVersion, SendCheck, SendFile,
             TakeFiled, SyncTimeout, destVars
<1>2. ASSUME NEW s \in Sources,
             TakeRequest(s) \/ Query(s) \/ Entry(s) \/ EntryLocked(s) \/ CheckDbs(s) \/ Reply(s)
             \/ Insert(s) \/ Mark(s) \/ AddNew(s) \/ WriteFile(s)
      PROVE  UNCHANGED gone
  BY <1>2 DEF TakeRequest, Query, Entry, EntryLocked, CheckDbs, Reply, Insert, Mark, AddNew, WriteFile
<1>3. ASSUME NEW s \in Sources, TakeChecked(s) PROVE gone' \in [Sources -> SUBSET Data]
  BY <1>0, <1>3, TakeCheckedGone
<1>4. ASSUME NEW s \in Sources, Drop(s) PROVE gone' \in [Sources -> SUBSET Data]
  <2>1. job[s] \in Jobs
    BY <1>4, AtJob DEF Drop, Types
  <2>2. PICK p \in job[s].left : Removed({p})
    BY <1>4, DropDisk DEF Types
  <2>3. {p} \in SUBSET Data
    BY <2>1, <2>2 DEF Jobs
  <2> QED BY <1>0, <2>2, <2>3, RemovedTyped
<1>5. CASE TellStatus \/ BeatMerges \/ UNCHANGED vars
  BY <1>0, <1>5 DEF TellStatus, BeatMerges, destVars, vars
<1>6. CASE BeatDeletes
  BY <1>0, <1>6, RemovedTyped DEF BeatDeletes, RemoveDir
<1>7. CASE DestDies
  BY <1>0, <1>7, RemovedTyped DEF DestDies
<1> QED BY <1>0, <1>1, <1>2, <1>3, <1>4, <1>5, <1>6, <1>7 DEF Next, Handler

\* What the source has, the master's word and the process.
LEMMA StepMaster ==
  ASSUME Types, AllFit, [Next]_vars
  PROVE  /\ have' \in [Sources -> [vnode : BOOLEAN, table : Tables, files : SUBSET Data]]
         /\ told' \in Told \cup {WAIT_SYNC} /\ turns' \in 0 .. MaxTurns /\ up' \in BOOLEAN
         /\ turns' = 0 => told' = WAIT_SYNC
<1>0. /\ have \in [Sources -> [vnode : BOOLEAN, table : Tables, files : SUBSET Data]]
      /\ told \in Told \cup {WAIT_SYNC} /\ turns \in 0 .. MaxTurns /\ up \in BOOLEAN
      /\ turns = 0 => told = WAIT_SYNC
  BY DEF Types, RestTypes
<1>1. ASSUME NEW s \in Sources, SyncThread(s) PROVE UNCHANGED <<have, told, turns, up>>
  BY <1>1 DEF SyncThread, SyncStart, ReadVersion, SendCheck, TakeChecked, SendFile,
             TakeFiled, SyncTimeout, destVars, masterVars
<1>2. ASSUME NEW s \in Sources, Handler(s) PROVE UNCHANGED <<have, told, turns, up>>
  BY <1>2 DEF Handler, TakeRequest, Mark, AddNew, Query, Entry, EntryLocked, Insert, CheckDbs, Drop,
             WriteFile, Reply, masterVars
<1>3. CASE BeatDeletes \/ BeatMerges \/ UNCHANGED vars
  <2>1. UNCHANGED <<have, told, turns, up>>
    BY <1>3 DEF BeatDeletes, BeatMerges, masterVars, vars
  <2> QED BY <1>0, <2>1
<1>4. Turn => turns' \in 0 .. MaxTurns /\ turns' # 0
  BY <1>0, FileSyncAssumption DEF Turn
<1>5. CASE TellStatus
  BY <1>0, <1>4, <1>5 DEF TellStatus, destVars
<1>6. ASSUME NEW s \in Sources, SourceLoses(s)
      PROVE  /\ have' \in [Sources -> [vnode : BOOLEAN, table : Tables, files : SUBSET Data]]
             /\ Turn /\ UNCHANGED <<told, up>>
  BY <1>0, <1>6, FewTyped DEF SourceLoses, destVars
<1>7. CASE DestDies
  BY <1>0, <1>4, <1>7 DEF DestDies
<1> QED BY <1>0, <1>1, <1>2, <1>3, <1>4, <1>5, <1>6, <1>7 DEF Next

LEMMA InitInv == Init => Inv
<1> SUFFICES ASSUME Init PROVE Inv
  OBVIOUS
<1>1. Sync("idle") \in Syncs
  BY SyncTyped
<1>2. PICK table \in [Sources -> UNION {SourceTables[s] : s \in Sources}] :
        have = [s \in Sources |-> [vnode |-> TRUE, table |-> table[s], files |-> DOMAIN table[s]]]
  BY DEF Init
<1>3. \A s \in Sources : table[s] \in Tables /\ DOMAIN table[s] \subseteq Data
  BY TablesListData DEF Tables
<1>4. have \in [Sources -> [vnode : BOOLEAN, table : Tables, files : SUBSET Data]]
  BY <1>2, <1>3
<1>5. DiskTypes
  <2>1. CASE disk = NoDir
    BY <2>1 DEF NoDir, NoTable, DiskTypes
  <2>2. ASSUME NEW t \in DestTables, NEW d \in BOOLEAN, NEW f \in SUBSET (IF d THEN DOMAIN t ELSE {}),
               disk = [dbs |-> "all", table |-> t, files |-> f, dir |-> d]
        PROVE  DiskTypes
    <3>1. DOMAIN t \subseteq Data
      BY FileSyncAssumption
    <3> QED BY <2>2, <3>1 DEF DiskTypes
  <2> QED BY <2>1, <2>2 DEF Init
<1>6. recs \in Seq(Statuses)
  <2>1. recs = <<>> \/ recs = <<WAIT_SYNC>>
    BY DEF Init
  <2>2. \A v \in Statuses : <<v>> \in Seq(Statuses)
    OBVIOUS
  <2>3. <<>> \in Seq(Statuses)
    OBVIOUS
  <2> QED BY <2>1, <2>2, <2>3, StatusTyped
<1>7. RestTypes
  BY <1>4, <1>6, FileSyncAssumption DEF Init, RestTypes
<1>8. [req |-> <<>>, resp |-> <<>>] \in Wires
  BY LineEmpty DEF Wires
<1>9. LinkTypes
  BY <1>1, <1>8 DEF Init, LinkTypes
<1>10. Fits(Sync("idle"), [req |-> <<>>, resp |-> <<>>], Idle)
  BY DEF Fits, Stream, SourceFits, Sync, Quiet, Nothing
<1>11. AllFit
  BY <1>10 DEF Init, AllFit
<1> QED BY <1>5, <1>7, <1>9, <1>11 DEF Inv, Types

LEMMA StepInv == Inv /\ [Next]_vars => Inv'
<1> SUFFICES ASSUME Inv, [Next]_vars PROVE Inv'
  OBVIOUS
<1>1. Types /\ AllFit
  BY DEF Inv
<1>2. RestTypes'
  BY <1>1, StepRecs, StepGone, StepMaster DEF RestTypes
<1> QED BY <1>1, <1>2, StepFits, StepDisk DEF Inv, Types

LEMMA InvHolds == Spec => []Inv
BY InitInv, StepInv, PTL DEF Spec

(* Every variable keeps its type; among the rest, the place of the next file *)
(* is within the number the answer gave, and no stream holds two messages    *)
(* (thread_sync_data.cpp:388-470).                                           *)
THEOREM TypeCorrect == Spec => []TypeOK
<1>1. Inv => TypeOK
  <2> SUFFICES ASSUME Inv PROVE TypeOK
    OBVIOUS
  <2>1. ASSUME NEW s \in Sources
        PROVE  /\ src[s].pc \in {"idle", "version", "hash", "wait", "send", "file", "ok", "failed", "crashed"}
               /\ src[s].pc \in {"send", "file"} => src[s].i \in 0 .. src[s].count - 1
               /\ {src[s].slot, src[s].at} \subseteq Paths
               /\ Len(wire[s].req) <= 1 /\ Len(wire[s].resp) <= 1
    <3>1. src[s] \in Syncs /\ wire[s] \in Wires /\ SourceFits(src[s])
      BY LinkTyped DEF Inv, Types, Fits
    <3>2. Len(wire[s].req) <= 1 /\ Len(wire[s].resp) <= 1
      BY <3>1 DEF Wires, Line
    <3>3. src[s].pc \in {"send", "file"} => src[s].i < src[s].count
      BY <3>1 DEF SourceFits
    <3>4. src[s].i \in Nat /\ src[s].count \in Nat /\ src[s].slot \in Paths /\ src[s].at \in Paths
      BY <3>1 DEF Syncs
    <3>5. src[s].pc \in {"idle", "version", "hash", "wait", "send", "file", "ok", "failed", "crashed"}
      BY <3>1 DEF Syncs
    <3> QED BY <3>2, <3>3, <3>4, <3>5
  <2> QED BY <2>1 DEF Inv, Types, TypeOK, DiskTypes, RestTypes
<1> QED BY <1>1, InvHolds, PTL

(* Whatever is answered late, reset or lost, the source never takes the      *)
(* answer to one request for the answer to another: AnswerIsForRequest.      *)
THEOREM AnswersForRequests == Spec => []AnswerIsForRequest
<1>1. Inv => AnswerIsForRequest
  <2> SUFFICES ASSUME Inv, NEW s \in Sources, Waits(s), wire[s].resp # <<>>
               PROVE  LET to == Head(wire[s].resp).to
                      IN IF src[s].pc = "wait" THEN to.kind = "check"
                         ELSE to.kind = "file" /\ to.path = src[s].at
    BY DEF AnswerIsForRequest
  <2>1. Asked(src[s], Head(wire[s].resp).to)
    BY LinkTyped DEF Inv, Types, Fits, Stream, Waits, Nothing
  <2> QED BY <2>1 DEF Asked, Checks
<1> QED BY <1>1, InvHolds, PTL

-----------------------------------------------------------------------------
(* The files.                                                                *)

\* A step adds files, or removes some and remembers them.
LEMMA FilesStep ==
  ASSUME Inv, [Next]_vars
  PROVE  \/ disk.files \subseteq disk'.files /\ UNCHANGED gone
         \/ \E ps \in SUBSET Data :
              /\ Removed(ps) /\ disk.files \ ps \subseteq disk'.files
              /\ told = OFFLINE \/ ~ up' \/ \E s \in Sources : Drop(s) /\ ps \subseteq job[s].left
         \/ UNCHANGED disk /\ \E s \in Sources : TakeChecked(s)
<1> DEFINE Goal ==
         \/ disk.files \subseteq disk'.files /\ UNCHANGED gone
         \/ \E ps \in SUBSET Data :
              /\ Removed(ps) /\ disk.files \ ps \subseteq disk'.files
              /\ told = OFFLINE \/ ~ up' \/ \E s \in Sources : Drop(s) /\ ps \subseteq job[s].left
         \/ UNCHANGED disk /\ \E s \in Sources : TakeChecked(s)
<1>0. disk.files \in SUBSET Data /\ LinkTypes /\ AllFit /\ DiskTypes
  BY DEF Inv, Types, DiskTypes
<1>1. ASSUME NEW s \in Sources, SyncThread(s) \/ SourceLoses(s), ~ TakeChecked(s) PROVE Goal
  <2>1. UNCHANGED <<disk, gone>>
    BY <1>1 DEF SyncThread, SourceLoses, SyncStart, ReadVersion, SendCheck, SendFile,
               TakeFiled, SyncTimeout, destVars
  <2> QED BY <2>1
<1>2. ASSUME NEW s \in Sources, TakeChecked(s) PROVE Goal
  <2>1. UNCHANGED disk
    BY <1>2 DEF TakeChecked
  <2> QED BY <1>2, <2>1
<1>3. ASSUME NEW s \in Sources,
             TakeRequest(s) \/ Mark(s) \/ Query(s) \/ Entry(s) \/ EntryLocked(s) \/ CheckDbs(s) \/ Reply(s)
      PROVE  Goal
  <2>1. UNCHANGED <<disk, gone>>
    BY <1>3 DEF TakeRequest, Mark, Query, Entry, EntryLocked, CheckDbs, Reply
  <2> QED BY <2>1
<1>4. ASSUME NEW s \in Sources, AddNew(s) PROVE Goal
  <2>1. disk'.files = disk.files /\ UNCHANGED gone
    BY <1>0, <1>4, AddVnodeDisk DEF AddNew
  <2> QED BY <2>1
<1>5. ASSUME NEW s \in Sources, Insert(s) PROVE Goal
  <2>1. job[s].path \in Data
    BY <1>0, <1>5, AtJob DEF Insert, JobFits
  <2>2. disk'.files = disk.files /\ UNCHANGED gone
    BY <1>0, <1>5, <2>1, InsertDisk DEF Insert
  <2> QED BY <2>2
<1>6. ASSUME NEW s \in Sources, WriteFile(s) PROVE Goal
  <2>1. disk.files \subseteq disk'.files /\ UNCHANGED gone
    BY <1>0, <1>6, WriteFileDisk DEF WriteFile
  <2> QED BY <2>1
<1>7. ASSUME NEW s \in Sources, Drop(s) PROVE Goal
  <2>1. job[s] \in Jobs
    BY <1>0, <1>7, AtJob DEF Drop
  <2>2. PICK p \in job[s].left : disk'.files = disk.files \ {p} /\ Removed({p})
    BY <1>0, <1>7, DropDisk
  <2>3. {p} \in SUBSET Data /\ {p} \subseteq job[s].left
    BY <2>1, <2>2 DEF Jobs
  <2>4. disk.files \ {p} \subseteq disk'.files
    BY <2>2
  <2> QED BY <1>7, <2>2, <2>3, <2>4
<1>8. ASSUME TellStatus \/ UNCHANGED vars PROVE Goal
  <2>1. UNCHANGED <<disk, gone>>
    BY <1>8 DEF TellStatus, destVars, vars
  <2> QED BY <2>1
<1>9. ASSUME BeatDeletes PROVE Goal
  <2>1. told = OFFLINE /\ RemoveDir
    BY <1>9 DEF BeatDeletes
  <2>2. CASE Removed(disk.files)
    BY <1>0, <2>1, <2>2
  <2>3. CASE UNCHANGED gone /\ disk'.files = disk.files
    BY <2>3
  <2> QED BY <1>0, <2>1, <2>2, <2>3, RemoveDirDisk
<1>10. ASSUME BeatMerges PROVE Goal
  <2>1. disk'.files = disk.files /\ UNCHANGED gone
    BY <1>0, <1>10, AddVnodeDisk DEF BeatMerges
  <2> QED BY <2>1
<1>11. ASSUME DestDies PROVE Goal
  <2>1. ~ up' /\ Removed(disk.files)
    BY <1>11 DEF DestDies
  <2> QED BY <1>0, <2>1
<1> QED
  <2> HIDE DEF Goal
  <2>1. ASSUME NEW s \in Sources, Handler(s) PROVE Goal
    BY <1>3, <1>4, <1>5, <1>6, <1>7, <2>1 DEF Handler
  <2>2. ASSUME NEW s \in Sources, SyncThread(s) \/ SourceLoses(s) PROVE Goal
    BY <1>1, <1>2, <2>2
  <2>3. Goal
    BY <1>8, <1>9, <1>10, <1>11, <2>1, <2>2 DEF Next
  <2> QED BY <2>3 DEF Goal

\* A handler that drops files knows the list of its source, if that has not given up.
LEMMA DropSpares ==
  ASSUME Inv, NEW s \in Sources, job[s].pc = "drop", src[s].pc # "idle"
  PROVE  job[s].left \cap DOMAIN src[s].list = {}
<1>1. /\ src[s] \in Syncs /\ job[s] \in {Idle} \cup Jobs /\ Fits(src[s], wire[s], job[s])
  BY LinkTyped DEF Inv, Types
<1>2. job[s] # Idle /\ JobFits(job[s]) /\ job[s].req \in Checks
      /\ job[s].left \cap DOMAIN job[s].req.list = {}
  BY <1>1 DEF Idle, Fits, JobFits
<1>3. CASE src[s].pc = "wait"
  BY <1>1, <1>2, <1>3 DEF Fits, Stream, Asked
<1>4. CASE src[s].pc = "file"
  <2>1. job[s].req.kind = "file"
    BY <1>1, <1>2, <1>4 DEF Fits, Stream, Asked
  <2> QED BY <1>2, <2>1 DEF Checks
<1>5. CASE src[s].pc \in {"failed", "crashed"}
  BY <1>1, <1>5 DEF Fits, SourceFits, NoTable
<1>6. src[s].pc \in {"wait", "file", "failed", "crashed"}
  <2>1. src[s].pc \notin {"version", "hash", "send", "ok"}
    BY <1>1, <1>2 DEF Fits, Stream, Quiet
  <2> QED BY <1>1, <2>1 DEF Syncs
<1> QED BY <1>3, <1>4, <1>5, <1>6

(* No check removes a file that every source lists, however many checks run  *)
(* at once and whatever statement finds its database locked: the records a   *)
(* check drops were never on its own list: CommonFilesKept.                  *)
THEOREM CommonFilesStay == Spec => CommonFilesKept
<1>1. Inv /\ [Next]_vars =>
        (up' /\ told # OFFLINE => \A p \in Common : p \in disk.files => p \in disk.files')
  <2> SUFFICES ASSUME Inv, [Next]_vars, up', told # OFFLINE, NEW p \in Common, p \in disk.files
               PROVE  p \in disk.files'
    OBVIOUS
  <2>1. CASE disk.files \subseteq disk'.files \/ UNCHANGED disk
    BY <2>1
  <2>2. ASSUME NEW s \in Sources, Drop(s), NEW ps \in SUBSET Data, ps \subseteq job[s].left,
               disk.files \ ps \subseteq disk'.files
        PROVE  p \in disk.files'
    <3>1. job[s].pc = "drop"
      BY <2>2 DEF Drop, At
    <3>2. src[s].pc # "idle" /\ p \in DOMAIN src[s].list
      BY DEF Common
    <3>3. p \notin job[s].left
      BY <3>1, <3>2, DropSpares
    <3> QED BY <2>2, <3>3
  <2> QED BY <2>1, <2>2, FilesStep
<1>2. Inv /\ [Next]_vars =>
        [up' /\ told # OFFLINE => \A p \in Common : p \in disk.files => p \in disk.files']_vars
  BY <1>1
<1> QED BY <1>2, InvHolds, PTL DEF Spec, CommonFilesKept

\* A file that was there for a source is there, or was removed.
LEMMA ThereStays ==
  ASSUME Inv, [Next]_vars, NEW s \in Sources, src[s].pc \in {"file", "ok"},
         NEW p \in There(s), p \in DOMAIN src[s].list
  PROVE  p \in disk'.files \cup gone'[s]
<1>0. gone \in [Sources -> SUBSET Data]
  BY DEF Inv, Types, RestTypes
<1>1. CASE disk.files \subseteq disk'.files /\ UNCHANGED gone
  BY <1>1 DEF There
<1>2. ASSUME NEW ps \in SUBSET Data, Removed(ps), disk.files \ ps \subseteq disk'.files
      PROVE  p \in disk'.files \cup gone'[s]
  <2>1. gone'[s] = gone[s] \cup (ps \cap DOMAIN src[s].list)
    BY <1>2 DEF Removed
  <2> QED BY <1>2, <2>1 DEF There
<1>3. ASSUME UNCHANGED disk, NEW t \in Sources, TakeChecked(t)
      PROVE  p \in disk'.files \cup gone'[s]
  <2>1. t # s
    BY <1>3 DEF TakeChecked
  <2>2. gone'[s] = gone[s]
    BY <1>0, <1>3, <2>1, TakeCheckedGone
  <2> QED BY <1>3, <2>2 DEF There
<1> QED BY <1>1, <1>2, <1>3, FilesStep

\* With one missing file the source is at its first and last one.
LEMMA OneMissing ==
  ASSUME NEW x \in Syncs, SourceFits(x), x.pc = "file", NEW p, x.missing = {p}
  PROVE  x.at = p /\ x.count = 1 /\ x.i = 0 /\ p \in DOMAIN x.list
<1>1. Counted(x.count, x.slot, x.missing, x.list) /\ x.i < x.count /\ (x.i = 0 => x.at = x.slot)
  BY DEF SourceFits
<1>2. x.count = 1 /\ x.slot = p /\ p \in DOMAIN x.list
  BY <1>1, SomeSingle DEF Counted
<1>3. x.i \in Nat
  BY DEF Syncs
<1> QED BY <1>1, <1>2, <1>3

\* The source's own steps.
LEMMA SourceArrives ==
  ASSUME Inv, AllArrived, NEW s \in Sources, SyncThread(s)
  PROVE  Arrived(src'[s], wire'[s], job'[s], disk'.files \cup gone'[s])
<1>0. /\ LinkTypes /\ AllFit /\ RestTypes
      /\ src[s] \in Syncs /\ wire[s] \in Wires /\ Fits(src[s], wire[s], job[s])
  BY LinkTyped DEF Inv, Types
<1>1. /\ src'[s] \in Syncs /\ Fits(src'[s], wire'[s], job'[s])
  BY SourceStepMoves DEF Inv, Moves, Moved, Handler
<1>2. ASSUME src'[s].pc \notin {"ok", "file"}
      PROVE  Arrived(src'[s], wire'[s], job'[s], disk'.files \cup gone'[s])
  BY <1>2 DEF Arrived
<1>3. ASSUME SyncStart(s) \/ ReadVersion(s) \/ SendCheck(s) \/ SyncTimeout(s)
      PROVE  src'[s].pc \notin {"ok", "file"}
  <2>1. \/ \E x \in Syncs : x.pc = "version" /\ src' = [src EXCEPT ![s] = x]
        \/ \E x \in Syncs : x.pc \in {"hash", "wait"} /\ src' = [src EXCEPT ![s] = x]
        \/ \E pc \in {"failed", "crashed"} : src' = [src EXCEPT ![s] = Sync(pc)]
    <3>1. CASE SyncStart(s)
      <4>1. have[s].table \in Tables
        BY <1>0 DEF RestTypes
      <4>2. /\ [src[s] EXCEPT !.pc = "version", !.list = have[s].table] \in Syncs
            /\ [src[s] EXCEPT !.pc = "version", !.list = have[s].table].pc = "version"
        BY <1>0, <4>1 DEF Syncs
      <4> QED BY <3>1, <4>2 DEF SyncStart
    <3>2. ASSUME NEW pc \in {"hash", "wait"}
          PROVE  [src[s] EXCEPT !.pc = pc] \in Syncs /\ [src[s] EXCEPT !.pc = pc].pc = pc
      BY <1>0 DEF Syncs
    <3>3. CASE ReadVersion(s)
      BY <3>2, <3>3 DEF ReadVersion, Goes
    <3>4. CASE SendCheck(s)
      BY <3>2, <3>4 DEF SendCheck, Goes
    <3>5. CASE SyncTimeout(s)
      BY <3>5 DEF SyncTimeout, Goes
    <3> QED BY <1>3, <3>1, <3>3, <3>4, <3>5
  <2> QED BY <1>0, <2>1 DEF Sync, LinkTypes
<1>4. CASE TakeChecked(s)
  <2>1. src[s].missing = {} /\ src[s].pc = "wait"
    BY <1>0, <1>4 DEF TakeChecked, Fits, SourceFits
  <2>2. CASE src'[s] = Done(s)
    <3>1. Done(s).missing = {}
      BY <1>0, <2>1, DoneTyped, SomeEmpty, SomeCount DEF LinkTypes
    <3> QED BY <2>2, <3>1 DEF Arrived
  <2>3. CASE src'[s] # Done(s)
    <3>1. src'[s].pc \in {"failed", "send"}
      <4> DEFINE a == Head(wire[s].resp)
      <4>1. src'[s] = IF ~ a.ok THEN Sync("failed")
                      ELSE IF a.count = 0 THEN Done(s)
                      ELSE [src[s] EXCEPT !.pc = "send", !.count = a.count, !.slot = a.slot, !.missing = a.missing]
        BY <1>0, <1>4 DEF TakeChecked, LinkTypes
      <4> HIDE DEF a
      <4>2. [src[s] EXCEPT !.pc = "send", !.count = a.count, !.slot = a.slot, !.missing = a.missing].pc = "send"
        BY <1>0 DEF Syncs
      <4> QED BY <2>3, <4>1, <4>2 DEF Sync
    <3> QED BY <1>2, <3>1
  <2> QED BY <2>2, <2>3
<1>5. CASE SendFile(s)
  <2>1. job'[s] = Idle /\ wire'[s].resp = Nothing
    <3>1. Quiet(wire[s], job[s]) /\ UNCHANGED job
      BY <1>0, <1>5 DEF SendFile, Fits, Stream, destVars
    <3>2. (\E r : Request(s, r)) \/ UNCHANGED wire
      BY <1>5 DEF SendFile
    <3>3. wire'[s].resp = wire[s].resp
      BY <1>0, <3>2 DEF Request, LinkTypes, Wires
    <3> QED BY <3>1, <3>3 DEF Quiet
  <2>2. src'[s].pc # "ok"
    <3>1. \E p : src'[s] = [src[s] EXCEPT !.pc = "file", !.at = p] \/ src'[s] = Sync("failed")
      BY <1>0, <1>5 DEF SendFile, LinkTypes
    <3>2. ASSUME NEW p PROVE [src[s] EXCEPT !.pc = "file", !.at = p].pc = "file"
      BY <1>0 DEF Syncs
    <3>3. Sync("failed").pc = "failed"
      BY DEF Sync
    <3>4. PICK p : src'[s] = [src[s] EXCEPT !.pc = "file", !.at = p] \/ src'[s] = Sync("failed")
      BY <3>1
    <3>5. src'[s].pc = "file" \/ src'[s].pc = "failed"
      BY <3>2, <3>3, <3>4
    <3> QED BY <3>5
  <2> QED BY <2>1, <2>2 DEF Arrived
<1>6. CASE TakeFiled(s)
  <2>1. UNCHANGED <<disk, gone>> /\ src[s].pc = "file" /\ wire[s].resp # Nothing
    BY <1>6 DEF TakeFiled, destVars, Nothing
  <2>2. src'[s] = IF Head(wire[s].resp).ok THEN NextFile(s, src[s].count - 1) ELSE Sync("failed")
    BY <1>0, <1>6 DEF TakeFiled, LinkTypes
  <2>3. CASE Head(wire[s].resp).ok /\ src'[s] = Done(s)
    <3>1. src[s].missing \subseteq DOMAIN src[s].list
      BY <1>0, <2>1 DEF Fits, SourceFits, Counted
    <3>2. Done(s).missing = IF Cardinality(src[s].missing) = 1 THEN src[s].missing ELSE {}
      BY <1>0, <3>1, DoneTyped DEF LinkTypes
    <3>3. ASSUME NEW p \in Data, Done(s).missing = {p} PROVE p \in There(s)
      <4>1. src[s].missing = {p}
        BY <3>2, <3>3
      <4> QED BY <2>1, <2>3, <4>1 DEF AllArrived, Arrived
    <3>4. Done(s).pc = "ok"
      BY <1>0, <3>1, DoneTyped DEF LinkTypes
    <3> QED BY <2>1, <2>3, <3>3, <3>4 DEF Arrived, There
  <2>4. CASE ~ Head(wire[s].resp).ok \/ src'[s] # Done(s)
    <3>1. src'[s].pc \in {"failed", "send"}
      <4>1. [src[s] EXCEPT !.pc = "send", !.i = @ + 1].pc = "send"
        BY <1>0 DEF Syncs
      <4> QED BY <2>2, <2>4, <4>1 DEF Sync, NextFile
    <3> QED BY <1>2, <3>1
  <2> QED BY <2>3, <2>4
<1> QED BY <1>2, <1>3, <1>4, <1>5, <1>6 DEF SyncThread

\* The handler's steps.
LEMMA HandlerArrives ==
  ASSUME Inv, AllArrived, [Next]_vars, NEW s \in Sources, Handler(s)
  PROVE  Arrived(src'[s], wire'[s], job'[s], disk'.files \cup gone'[s])
<1>0. /\ LinkTypes /\ AllFit /\ RestTypes /\ DiskTypes
      /\ src[s] \in Syncs /\ wire[s] \in Wires /\ Fits(src[s], wire[s], job[s])
      /\ job[s] \in {Idle} \cup Jobs
  BY LinkTyped DEF Inv, Types
<1>1. UNCHANGED src
  BY DEF Handler, TakeRequest, Mark, AddNew, Query, Entry, EntryLocked, Insert, CheckDbs, Drop,
         WriteFile, Reply
<1>2. SourceFits(src[s]) /\ Arrived(src[s], wire[s], job[s], There(s))
  BY <1>0 DEF Fits, AllArrived
<1>3. ASSUME NEW p \in Data, src[s].missing = {p}, src[s].pc = "ok"
      PROVE  p \in disk'.files \cup gone'[s]
  <2>1. p \in There(s) /\ p \in DOMAIN src[s].list
    BY <1>2, <1>3 DEF Arrived, SourceFits
  <2> QED BY <1>3, <2>1, ThereStays
<1>4. ASSUME NEW p \in Data, src[s].missing = {p}, src[s].pc = "file",
             p \in There(s)
      PROVE  p \in disk'.files \cup gone'[s]
  <2>1. p \in DOMAIN src[s].list
    BY <1>0, <1>2, <1>4, OneMissing
  <2> QED BY <1>4, <2>1, ThereStays
<1>5. CASE TakeRequest(s)
  <2>1. job'[s].pc \in {"write", "add", "mark"}
    <3>1. \E r : \E pc \in {"write", "add", "mark"} : job'[s] = Job(r, pc)
      BY <1>0, <1>5 DEF TakeRequest, LinkTypes
    <3> QED BY <3>1 DEF Job
  <2>2. wire'[s].resp = wire[s].resp
    BY <1>0, <1>5 DEF TakeRequest, LinkTypes, Wires
  <2> QED BY <1>1, <1>2, <1>3, <1>4, <2>1, <2>2 DEF Arrived
<1>6. ASSUME Mark(s) \/ AddNew(s) \/ Query(s) \/ Entry(s) \/ EntryLocked(s) \/ Insert(s) \/ CheckDbs(s)
             \/ Drop(s)
      PROVE  Arrived(src'[s], wire'[s], job'[s], disk'.files \cup gone'[s])
  <2>1. job[s].pc \in {"mark", "add", "query", "entry", "insert", "drop"}
    BY <1>6 DEF Mark, AddNew, Query, Entry, EntryLocked, Insert, CheckDbs, Drop, At
  <2>2. job[s] # Idle /\ job[s].req \in Checks
    BY <1>0, <2>1 DEF Idle, Fits, JobFits
  <2>3. src[s].pc # "ok"
    BY <1>0, <2>2 DEF Fits, Stream, Quiet
  <2>4. src[s].pc # "file"
    BY <1>0, <2>2 DEF Fits, Stream, Asked, Checks
  <2> QED BY <1>1, <2>3, <2>4 DEF Arrived
<1>7. CASE WriteFile(s)
  <2>1. UNCHANGED wire /\ job[s] \in Jobs /\ job[s] # Idle
    BY <1>0, <1>7, AtJob, IdleNoJob DEF WriteFile
  <2>2. wire'[s].resp = wire[s].resp
    BY <2>1
  <2>3. ASSUME NEW p \in Data, src[s].missing = {p}, src[s].pc = "file", job'[s].ok
        PROVE  p \in disk'.files
    <3>1. src[s].at = p
      BY <1>0, <1>2, <2>3, OneMissing
    <3>2. job[s].req.path = p
      BY <1>0, <2>1, <2>3, <3>1 DEF Fits, Stream, Asked
    <3> QED BY <1>0, <1>7, <2>3, <3>2, WriteFileDisk
  <2> QED BY <1>1, <1>2, <1>3, <1>4, <2>2, <2>3 DEF Arrived
<1>8. CASE Reply(s)
  <2>1. job'[s] = Idle /\ job[s].pc = "answer" /\ job[s] # Idle
    BY <1>0, <1>8, AtJob, IdleNoJob DEF Reply, LinkTypes
  <2>2. ASSUME src[s].pc = "file", Head(wire'[s].resp).ok
        PROVE  job[s].ok
    <3> DEFINE a == [to |-> job[s].req, ok |-> job[s].ok, count |-> Cardinality(job[s].missing),
                     slot |-> job[s].slot, missing |-> job[s].missing]
    <3>1. wire[s].resp = <<>>
      BY <1>0, <2>1, <2>2 DEF Fits, Stream, OnePlace, Nothing
    <3>2. wire'[s] = [wire[s] EXCEPT !.resp = Append(@, a)]
      BY <1>0, <1>8, <2>2 DEF Reply, Waits, LinkTypes, Wires
    <3>3. wire'[s].resp = Append(<<>>, a)
      BY <1>0, <3>1, <3>2 DEF Wires
    <3>4. Head(wire'[s].resp) = a /\ a.ok = job[s].ok
      <4>1. a.ok = job[s].ok
        OBVIOUS
      <4> HIDE DEF a
      <4>2. Head(Append(<<>>, a)) = a
        BY LineOne
      <4> QED BY <3>3, <4>1, <4>2
    <3> QED BY <2>2, <3>4
  <2>3. ASSUME NEW p \in Data, src[s].missing = {p}, src[s].pc = "file", Head(wire'[s].resp).ok
        PROVE  p \in There(s)
    BY <1>2, <2>1, <2>2, <2>3 DEF Arrived
  <2> QED BY <1>1, <1>3, <1>4, <2>1, <2>3 DEF Arrived
<1> QED BY <1>5, <1>6, <1>7, <1>8 DEF Handler

\* The steps of others.
LEMMA OthersArrive ==
  ASSUME Inv, AllArrived, [Next]_vars, NEW s \in Sources, UNCHANGED src[s],
         wire'[s].resp = wire[s].resp \/ wire'[s].resp = Nothing,
         job'[s] = job[s] \/ job'[s] = Idle \/ job'[s].pc = "mark"
  PROVE  Arrived(src'[s], wire'[s], job'[s], disk'.files \cup gone'[s])
<1>0. /\ src[s] \in Syncs /\ SourceFits(src[s]) /\ Arrived(src[s], wire[s], job[s], There(s))
  BY LinkTyped DEF Inv, Types, Fits, AllArrived
<1>1. ASSUME NEW p \in Data, src[s].missing = {p}, src[s].pc \in {"file", "ok"}, p \in There(s)
      PROVE  p \in disk'.files \cup gone'[s]
  <2>1. p \in DOMAIN src[s].list
    BY <1>0, <1>1, OneMissing DEF SourceFits
  <2> QED BY <1>1, <2>1, ThereStays
<1> QED BY <1>0, <1>1 DEF Arrived

LEMMA StepArrived == Inv /\ AllArrived /\ [Next]_vars => AllArrived'
<1> SUFFICES ASSUME Inv, AllArrived, [Next]_vars, NEW s \in Sources
             PROVE  Arrived(src'[s], wire'[s], job'[s], disk'.files \cup gone'[s])
  BY DEF AllArrived, There
<1>0. LinkTypes /\ AllFit /\ Types /\ wire[s] \in Wires /\ job[s] \in {Idle} \cup Jobs
  BY LinkTyped DEF Inv, Types
<1>1. ASSUME NEW t \in Sources, SyncThread(t) \/ Handler(t), t # s
      PROVE  Arrived(src'[s], wire'[s], job'[s], disk'.files \cup gone'[s])
  <2>1. src'[s] = src[s] /\ wire'[s] = wire[s] /\ job'[s] = job[s]
    BY <1>0, <1>1, SourceStepMoves, MovedFits DEF Moves
  <2> QED BY <2>1, OthersArrive
<1>2. ASSUME \/ \E t \in Sources : SourceLoses(t)
             \/ TellStatus \/ BeatMerges \/ UNCHANGED vars
      PROVE  Arrived(src'[s], wire'[s], job'[s], disk'.files \cup gone'[s])
  <2>1. UNCHANGED <<src, wire, job>>
    BY <1>2 DEF SourceLoses, TellStatus, BeatMerges, destVars, vars
  <2> QED BY <2>1, OthersArrive
<1>3. CASE BeatDeletes
  <2>1. job'[s] = IF job[s].pc = "mark" THEN [job[s] EXCEPT !.stale = TRUE] ELSE job[s]
    BY <1>3 DEF BeatDeletes
  <2>2. job[s].pc = "mark" => job'[s].pc = "mark"
    BY <1>0, <2>1 DEF Jobs, Idle
  <2> QED BY <1>0, <1>3, <2>1, <2>2, BeatDeletesFit, OthersArrive
<1>4. CASE DestDies
  <2>1. UNCHANGED src /\ job'[s] = Idle /\ wire'[s].resp = wire[s].resp
    BY <1>0, <1>4 DEF DestDies, Wires
  <2> QED BY <2>1, OthersArrive
<1>5. CASE SyncThread(s)
  BY <1>5, SourceArrives
<1>6. CASE Handler(s)
  BY <1>6, HandlerArrives
<1> QED BY <1>1, <1>2, <1>3, <1>4, <1>5, <1>6 DEF Next

LEMMA InitArrived == Init => AllArrived
<1>1. Sync("idle").pc = "idle"
  BY DEF Sync
<1> QED BY <1>1 DEF Init, AllArrived, Arrived

(* A sync that ended well has brought the one file that was missing, however *)
(* checks, files, beats and deaths interleave, unless somebody removed it:   *)
(* OneMissingFileArrives.                                                    *)
THEOREM MissingFileArrives == Spec => []OneMissingFileArrives
<1>1. Spec => []AllArrived
  BY InvHolds, InitArrived, StepArrived, PTL DEF Spec
<1>2. AllArrived => OneMissingFileArrives
  BY DEF AllArrived, Arrived, There, OneMissingFileArrives
<1> QED BY <1>1, <1>2, PTL

-----------------------------------------------------------------------------
(* The table of a check that runs alone.                                     *)

LEMMA AloneBefore ==
  ASSUME Inv, [Next]_vars, NEW s \in Sources, Alone(s)', up'
  PROVE  Alone(s) /\ up
<1>0. /\ LinkTypes /\ AllFit /\ Types /\ turns \in 0 .. MaxTurns
      /\ turns = 0 => told = WAIT_SYNC
  BY DEF Inv, Types, RestTypes
<1>1. (\A t \in Sources \ {s} : src'[t].pc = "idle") /\ turns' <= 1 /\ told' # OFFLINE
  BY DEF Alone
<1>2. ASSUME NEW u \in Sources, SyncThread(u)
      PROVE  (\A t \in Sources \ {s} : src[t].pc = "idle") /\ UNCHANGED <<turns, told, up>>
  <2>1. UNCHANGED <<turns, told, up>>
    BY <1>2 DEF SyncThread, SyncStart, ReadVersion, SendCheck, TakeChecked, SendFile,
               TakeFiled, SyncTimeout, destVars, masterVars
  <2>2. \A t \in Sources \ {u} : src'[t] = src[t]
    BY <1>0, <1>2, SourceStepMoves, MovedFits DEF Moves
  <2>3. CASE u = s
    BY <1>1, <2>1, <2>2, <2>3
  <2>4. CASE u # s
    <3>1. src'[u].pc = "idle"
      BY <1>1, <2>4
    <3>2. src'[u].pc # "idle"
      <4>1. ASSUME NEW x, x.pc # "idle", src' = [src EXCEPT ![u] = x] PROVE src'[u].pc # "idle"
        BY <1>0, <4>1 DEF LinkTypes
      <4>2. src[u] \in Syncs
        BY <1>0, LinkTyped
      <4>3. \A pc \in {"version", "hash", "wait", "send", "file"} :
              /\ \A v : [src[u] EXCEPT !.pc = pc, !.list = v].pc # "idle"
              /\ [src[u] EXCEPT !.pc = pc].pc # "idle"
              /\ \A v : [src[u] EXCEPT !.pc = pc, !.at = v].pc # "idle"
              /\ \A v : [src[u] EXCEPT !.pc = pc, !.i = v].pc # "idle"
        BY <4>2 DEF Syncs
      <4>4. Sync("failed").pc # "idle" /\ Sync("crashed").pc # "idle"
        BY DEF Sync
      <4>5. Done(u).pc # "idle"
        BY DEF Done, Sync
      <4>6. CASE SyncStart(u)
        BY <4>1, <4>3, <4>4, <4>6 DEF SyncStart
      <4>7. CASE ReadVersion(u) \/ SendCheck(u) \/ SyncTimeout(u)
        BY <4>1, <4>3, <4>4, <4>7 DEF ReadVersion, SendCheck, SyncTimeout, Goes
      <4>8. CASE TakeChecked(u)
        <5> DEFINE a == Head(wire[u].resp)
        <5>1. \/ src' = [src EXCEPT ![u] = Sync("failed")] \/ src' = [src EXCEPT ![u] = Done(u)]
              \/ src' = [src EXCEPT ![u] = [src[u] EXCEPT !.pc = "send", !.count = a.count, !.slot = a.slot,
                                                          !.missing = a.missing]]
          BY <1>0, <4>8 DEF TakeChecked, LinkTypes
        <5> HIDE DEF a
        <5>2. CASE src' = [src EXCEPT ![u] = Sync("failed")]
          BY <4>1, <4>4, <5>2
        <5>3. CASE src' = [src EXCEPT ![u] = Done(u)]
          BY <4>1, <4>5, <5>3
        <5>4. CASE src' = [src EXCEPT ![u] = [src[u] EXCEPT !.pc = "send", !.count = a.count,
                                                            !.slot = a.slot, !.missing = a.missing]]
          <6> DEFINE x == [src[u] EXCEPT !.pc = "send", !.count = a.count, !.slot = a.slot, !.missing = a.missing]
          <6>1. x.pc # "idle"
            BY <4>2 DEF Syncs
          <6>2. src' = [src EXCEPT ![u] = x]
            BY <5>4
          <6> HIDE DEF x
          <6> QED BY <4>1, <6>1, <6>2
        <5> QED BY <5>1, <5>2, <5>3, <5>4
      <4>9. CASE SendFile(u)
        BY <4>1, <4>3, <4>4, <4>9 DEF SendFile
      <4>10. CASE TakeFiled(u)
        BY <4>1, <4>3, <4>4, <4>5, <4>10 DEF TakeFiled, NextFile
      <4> QED BY <1>2, <4>6, <4>7, <4>8, <4>9, <4>10 DEF SyncThread
    <3> QED BY <3>1, <3>2
  <2> QED BY <2>1, <2>3, <2>4
<1>3. ASSUME NEW u \in Sources, Handler(u) PROVE UNCHANGED <<src, turns, told, up>>
  BY <1>3 DEF Handler, TakeRequest, Mark, AddNew, Query, Entry, EntryLocked, Insert, CheckDbs, Drop,
             WriteFile, Reply, masterVars
<1>4. CASE BeatDeletes \/ BeatMerges \/ UNCHANGED vars
  <2>1. UNCHANGED <<src, turns, told, up>>
    BY <1>4 DEF BeatDeletes, BeatMerges, masterVars, vars
  <2> QED BY <1>1, <2>1 DEF Alone
<1>5. CASE TellStatus
  <2>1. turns' = turns + 1 /\ UNCHANGED <<src, up>>
    BY <1>5 DEF TellStatus, Turn, destVars
  <2>2. turns = 0 /\ told = WAIT_SYNC
    BY <1>0, <1>1, <2>1, FileSyncAssumption
  <2>3. told # OFFLINE
    BY <2>2 DEF WAIT_SYNC, OFFLINE
  <2> QED BY <1>1, <2>1, <2>2, <2>3 DEF Alone
<1>6. ASSUME NEW u \in Sources, SourceLoses(u) PROVE Alone(s) /\ up
  <2>1. turns' = turns + 1 /\ UNCHANGED <<src, told, up>>
    BY <1>6 DEF SourceLoses, Turn, destVars
  <2>2. turns <= 1
    BY <1>0, <1>1, <2>1, FileSyncAssumption
  <2> QED BY <1>1, <2>1, <2>2 DEF Alone
<1>7. CASE DestDies
  BY <1>7 DEF DestDies
<1> QED BY <1>1, <1>2, <1>3, <1>4, <1>5, <1>6, <1>7 DEF Next, Alone

LEMMA AloneQuiet ==
  ASSUME Inv, NEW s \in Sources, Alone(s)
  PROVE  ~ Busy(s) /\ \A t \in Sources \ {s} : job[t] = Idle /\ wire[t].req = <<>>
<1>1. \A t \in Sources \ {s} : Quiet(wire[t], job[t])
  BY DEF Alone, Inv, AllFit, Fits, Stream
<1> QED BY <1>1 DEF Quiet, Busy, Idle, Nothing

\* The handler's own steps, when nobody else is at work.
LEMMA HandlerKeeps ==
  ASSUME Inv, NEW s \in Sources, Handler(s), ~ Busy(s),
         job[s] # Idle => TableKept(job[s], disk.dbs, DOMAIN disk.table), job'[s] # Idle
  PROVE  TableKept(job'[s], disk'.dbs, DOMAIN disk'.table)
<1> DEFINE j == job[s]
           k == job'[s]
           Goal == TableKept(k, disk'.dbs, DOMAIN disk'.table)
<1>0. /\ LinkTypes /\ AllFit /\ DiskTypes /\ Types
      /\ j \in {Idle} \cup Jobs
  BY LinkTyped DEF Inv, Types
<1>1. CASE TakeRequest(s)
  <2>1. \E r : \E pc \in {"write", "add", "mark"} : k = Job(r, pc)
    BY <1>0, <1>1 DEF TakeRequest, LinkTypes
  <2>2. k.pc \in {"write", "add", "mark"}
    BY <2>1 DEF Job
  <2> QED BY <2>2 DEF TableKept
<1>2. ASSUME Refuses(s), UNCHANGED src, UNCHANGED wire, j \in Jobs PROVE Goal
  BY <1>0, <1>2, RefusesMoves DEF TableKept
<1>3. ASSUME NEW pc \in {"query", "answer"}, Goto(s, pc), UNCHANGED src, UNCHANGED wire, j \in Jobs,
             j.pc \in {"add", "mark", "write"}, pc = "query" => j.pc # "write" PROVE Goal
  <2>1. k.pc = pc /\ ~ k.done
    BY <1>0, <1>3, GotoMoves
  <2> QED BY <2>1 DEF TableKept
<1>4. CASE Mark(s) \/ AddNew(s) \/ WriteFile(s)
  <2>1. UNCHANGED src /\ UNCHANGED wire
    BY <1>4 DEF Mark, AddNew, WriteFile
  <2>2. j \in Jobs /\ j.pc \in {"mark", "add", "write"}
    BY <1>0, <1>4, AtJob DEF Mark, AddNew, WriteFile
  <2>3. \/ Refuses(s) \/ Goto(s, "answer")
        \/ Goto(s, "query") /\ j.pc # "write"
    BY <1>4, <2>2 DEF Mark, AddNew, WriteFile, At
  <2> HIDE DEF Goal
  <2>4. Goal
    BY <1>2, <1>3, <2>1, <2>2, <2>3
  <2> QED BY <2>4 DEF Goal
<1>5. CASE Query(s)
  <2>1. UNCHANGED src /\ UNCHANGED wire /\ UNCHANGED disk /\ j \in Jobs
    BY <1>0, <1>5, AtJob DEF Query
  <2>2. CASE Refuses(s)
    BY <1>2, <2>1, <2>2
  <2>3. CASE disk.dbs # "none"
    <3>1. PICK left \in {DOMAIN disk.table} \cup (IF Busy(s) THEN {{}} ELSE {}) :
            job' = [job EXCEPT ![s].pc = "entry", ![s].left = left, ![s].todo = DOMAIN job[s].req.list]
      BY <1>5, <2>3 DEF Query
    <3>2. left = DOMAIN disk.table
      BY <3>1
    <3> DEFINE L == DOMAIN j.req.list
    <3>3. k = [j EXCEPT !.pc = "entry", !.left = left, !.todo = L]
      BY <1>0, <3>1 DEF LinkTypes
    <3> HIDE DEF L
    <3>4. k.pc = "entry" /\ k.left = left /\ k.todo = L /\ k.req = j.req
      BY <2>1, <3>3 DEF Jobs
    <3> QED BY <2>1, <2>3, <3>2, <3>4 DEF TableKept, L
  <2> QED BY <1>5, <2>2, <2>3 DEF Query
<1>6. CASE Entry(s) \/ EntryLocked(s)
  <2>1. UNCHANGED src /\ UNCHANGED wire /\ UNCHANGED disk
    BY <1>6 DEF Entry, EntryLocked
  <2>2. j \in Jobs /\ j.pc = "entry" /\ j # Idle /\ j.req \in Checks /\ JobFits(j)
    BY <1>0, <1>6, AtJob, IdleNoJob DEF Entry, EntryLocked
  <2>3. CASE Refuses(s)
    BY <1>2, <2>1, <2>2, <2>3
  <2>4. ASSUME NEW p \in j.todo, NEW missed \in BOOLEAN, NEW inserts \in BOOLEAN,
               job' = [job EXCEPT ![s] = Looked(j, p, missed, inserts)],
               IF p \in DOMAIN disk.table THEN ~ inserts ELSE inserts
        PROVE  TableKept(k, disk'.dbs, DOMAIN disk'.table)
    <3> DEFINE T == DOMAIN disk.table
               L == DOMAIN j.req.list
    <3>1. k = Looked(j, p, missed, inserts)
      BY <1>0, <2>4 DEF LinkTypes
    <3>2. /\ k.todo = j.todo \ {p} /\ k.left = j.left \ {p} /\ k.req = j.req
          /\ k.pc = IF inserts THEN "insert" ELSE "entry"
          /\ inserts => k.path = p
      BY <2>2, <3>1 DEF Looked, Jobs
    <3>3. disk.dbs # "none" /\ j.left = T \ (L \ j.todo) /\ L \ j.todo \subseteq T
      BY <2>2 DEF TableKept
    <3>4. p \in L
      BY <2>2, <2>4 DEF JobFits
    <3>5. k.left = T \ (L \ k.todo)
      BY <3>2, <3>3, <3>4
    <3>6. (L \ k.todo) \ {p} \subseteq T
      BY <3>2, <3>3
    <3>7. ~ inserts => L \ k.todo \subseteq T
      BY <2>4, <3>6
    <3>8. UNCHANGED disk
      BY <2>1
    <3> QED BY <3>2, <3>3, <3>5, <3>6, <3>7, <3>8 DEF TableKept
  <2> QED BY <1>0, <1>6, <2>3, <2>4, EntryLooks
<1>7. CASE Insert(s)
  <2>1. j \in Jobs /\ j.pc = "insert" /\ j # Idle /\ j.req \in Checks /\ JobFits(j)
        /\ DOMAIN j.req.list \subseteq Data
    BY <1>0, <1>7, AtJob, IdleNoJob DEF Insert
  <2> DEFINE T == DOMAIN disk.table
             U == DOMAIN disk'.table
             L == DOMAIN j.req.list
  <2>2. disk.dbs # "none" /\ j.left = T \ (L \ j.todo) /\ (L \ j.todo) \ {j.path} \subseteq T
    BY <2>1 DEF TableKept
  <2>3. j.path \in L \ j.todo /\ j.path \in Data
    BY <2>1 DEF JobFits
  <2>4. disk'.dbs = disk.dbs /\ U = T \cup {j.path}
    BY <1>0, <1>7, <2>2, <2>3, InsertDisk
  <2>5. k = [j EXCEPT !.pc = "entry", !.path = NOFILE]
    BY <1>0, <1>7 DEF Insert, LinkTypes
  <2>6. k.pc = "entry" /\ k.todo = j.todo /\ k.left = j.left /\ k.req = j.req
    BY <2>1, <2>5 DEF Jobs
  <2>7. k.left = U \ (L \ k.todo) /\ L \ k.todo \subseteq U
    BY <2>2, <2>3, <2>4, <2>6
  <2> QED BY <2>2, <2>4, <2>6, <2>7 DEF TableKept
<1>8. CASE CheckDbs(s)
  <2>1. UNCHANGED src /\ UNCHANGED wire /\ UNCHANGED disk
    BY <1>8 DEF CheckDbs
  <2>2. j \in Jobs /\ j.pc = "entry" /\ j # Idle /\ j.req \in Checks /\ JobFits(j) /\ j.todo = {}
    BY <1>0, <1>8, AtJob, IdleNoJob DEF CheckDbs
  <2>3. CASE disk.dbs # "all"
    BY <1>2, <1>8, <2>1, <2>2, <2>3 DEF CheckDbs
  <2>4. CASE disk.dbs = "all"
    <3> DEFINE T == DOMAIN disk.table
               L == DOMAIN j.req.list
    <3>1. k = Dropping(j, {})
      BY <1>0, <1>8, <2>4 DEF CheckDbs, LinkTypes
    <3>2. j.left = T \ L /\ L \subseteq T
      BY <2>2 DEF TableKept
    <3>3. j.left \cap L = {}
      BY <3>2
    <3>31. {} \in SUBSET Data
      OBVIOUS
    <3>4. k.req = j.req /\ k.left = j.left \ {} /\ k.pc = IF j.left \subseteq {} THEN "answer" ELSE "drop"
      <4> HIDE DEF j, k
      <4> QED BY <2>2, <3>1, <3>3, <3>31, DroppingFits
    <3>5. k.left = T \ L /\ (k.pc = "answer" => T = L) /\ k.pc \in {"answer", "drop"}
      BY <3>2, <3>4
    <3>6. UNCHANGED disk
      BY <2>1
    <3> QED BY <2>4, <3>2, <3>4, <3>5, <3>6 DEF TableKept
  <2> QED BY <2>3, <2>4
<1>9. CASE Drop(s)
  <2>1. j \in Jobs /\ j.pc = "drop" /\ j # Idle /\ j.req \in Checks /\ JobFits(j)
    BY <1>0, <1>9, AtJob, IdleNoJob DEF Drop
  <2> DEFINE T == DOMAIN disk.table
             U == DOMAIN disk'.table
             L == DOMAIN j.req.list
  <2>2. disk.dbs = "all" /\ L \subseteq T /\ j.left = T \ L
    BY <2>1 DEF TableKept
  <2>3. PICK p \in j.left : /\ disk'.dbs = disk.dbs /\ U = T \ {p}
                            /\ job' = [job EXCEPT ![s] = Dropping(j, {p})]
    BY <1>0, <1>9, DropDisk
  <2>4. k = Dropping(j, {p}) /\ {p} \in SUBSET Data /\ j.left \cap L = {}
    BY <1>0, <2>1, <2>2, <2>3 DEF LinkTypes, Jobs
  <2>5. k.req = j.req /\ k.left = j.left \ {p} /\ k.pc = IF j.left \subseteq {p} THEN "answer" ELSE "drop"
    BY <2>1, <2>4, DroppingFits
  <2>6. k.left = U \ L /\ L \subseteq U /\ (k.pc = "answer" => U = L) /\ k.pc \in {"answer", "drop"}
    <3>1. p \notin L /\ p \in T
      BY <2>2, <2>3
    <3>2. k.left = U \ L /\ L \subseteq U
      BY <2>2, <2>3, <2>5, <3>1
    <3>3. k.pc \in {"answer", "drop"} /\ (k.pc = "answer" => j.left \subseteq {p})
      BY <2>5
    <3>4. k.pc = "answer" => U \subseteq L
      BY <2>2, <2>3, <3>3
    <3> QED BY <3>2, <3>3, <3>4
  <2> QED BY <2>2, <2>3, <2>5, <2>6 DEF TableKept
<1>10. CASE Reply(s)
  BY <1>0, <1>10 DEF Reply, LinkTypes
<1> QED BY <1>1, <1>4, <1>5, <1>6, <1>7, <1>8, <1>9, <1>10 DEF Handler

LEMMA StepKept == Inv /\ AllKept /\ [Next]_vars => AllKept'
<1> SUFFICES ASSUME Inv, AllKept, [Next]_vars, NEW s \in Sources, up', Alone(s)', job'[s] # Idle
             PROVE  TableKept(job'[s], disk'.dbs, DOMAIN disk'.table)
  BY DEF AllKept
<1>0. /\ LinkTypes /\ AllFit /\ DiskTypes /\ Types
  BY DEF Inv, Types
<1>1. Alone(s) /\ up
  BY AloneBefore
<1>2. ~ Busy(s) /\ \A t \in Sources \ {s} : job[t] = Idle /\ wire[t].req = <<>>
  BY <1>1, AloneQuiet
<1>3. job[s] # Idle => TableKept(job[s], disk.dbs, DOMAIN disk.table)
  BY <1>1 DEF AllKept
<1>4. ASSUME UNCHANGED <<job, disk>>
      PROVE  TableKept(job'[s], disk'.dbs, DOMAIN disk'.table)
  BY <1>3, <1>4
<1>5. ASSUME NEW t \in Sources, SyncThread(t) \/ SourceLoses(t) PROVE UNCHANGED <<job, disk>>
  BY <1>5 DEF SyncThread, SourceLoses, SyncStart, ReadVersion, SendCheck, TakeChecked, SendFile,
             TakeFiled, SyncTimeout, destVars
<1>6. ASSUME NEW t \in Sources \ {s}, Handler(t) PROVE FALSE
  <2>1. job[t].pc = "idle" /\ wire[t].req = <<>>
    BY <1>2 DEF Idle
  <2> QED BY <1>6, <2>1 DEF Handler, TakeRequest, Mark, AddNew, Query, Entry, EntryLocked, Insert,
             CheckDbs, Drop, WriteFile, Reply, At
<1>7. CASE Handler(s)
  BY <1>2, <1>3, <1>7, HandlerKeeps
<1>8. CASE TellStatus \/ UNCHANGED vars
  BY <1>4, <1>8 DEF TellStatus, destVars, vars
<1>9. CASE BeatDeletes
  BY <1>1, <1>9 DEF BeatDeletes, Alone
<1>10. CASE BeatMerges
  <2>1. UNCHANGED job
    BY <1>10 DEF BeatMerges
  <2>2. CASE UNCHANGED disk
    BY <1>4, <2>1, <2>2
  <2>3. ASSUME NEW dbs \in {"none", "some", "all"}, AddVnode(told, dbs)
        PROVE  TableKept(job'[s], disk'.dbs, DOMAIN disk'.table)
    <3>1. disk'.table = disk.table /\ disk'.dbs = dbs
      BY <1>0, <2>3, AddVnodeDisk
    <3>2. dbs \in {disk.dbs, "some", "all"} /\ (disk.dbs = "all" => dbs = "all")
      BY <2>3 DEF AddVnode
    <3> QED BY <1>3, <2>1, <3>1, <3>2 DEF TableKept
  <2> QED BY <1>10, <2>2, <2>3 DEF BeatMerges
<1>11. CASE DestDies
  BY <1>11 DEF DestDies
<1> QED BY <1>4, <1>5, <1>6, <1>7, <1>8, <1>9, <1>10, <1>11 DEF Next

(* A check that runs alone and ends with success leaves the table of the     *)
(* destination with the paths it listed and no other: CheckedTable.          *)
THEOREM ChecksLeaveTable == Spec => []CheckedTable
<1>1. Init => AllKept
  BY DEF Init, AllKept
<1>2. Spec => []AllKept
  BY <1>1, InvHolds, StepKept, PTL DEF Spec
<1>3. AllKept => CheckedTable
  <2> SUFFICES ASSUME AllKept, NEW s \in Sources, At(s, "answer"), job[s].done, Alone(s)
               PROVE  disk.dbs = "all" /\ DOMAIN disk.table = DOMAIN job[s].req.list
    BY DEF CheckedTable
  <2>1. up /\ job[s].pc = "answer" /\ job[s] # Idle
    BY DEF At, Idle
  <2> QED BY <2>1 DEF AllKept, TableKept
<1> QED BY <1>2, <1>3, PTL
=============================================================================
