---------------------------- MODULE UploadProofs ----------------------------
(***************************************************************************)
(* What the versions of a vnode count and which uploads they count, for any  *)
(* number of worker threads, clients and replicas                            *)
(* (src/storagenode/storage_msg_parser.cpp).                                 *)
(***************************************************************************)
EXTENDS Upload, FiniteSetTheorems, TLAPS

Stages == {"look", "test", "access", "mkdir", "write", "lock", "copy", "wait", "answer"}

Requests == [from : Actors, kind : {"upload", "ctrl"}, legal : BOOLEAN, len : Nat, seconds : Nat]

Jobs == [pc : Stages, from : Actors, kind : {"upload", "ctrl"}, len : Nat, seconds : Nat,
         copy : Nat, ret : Codes, active : BOOLEAN]

Calls == [pc : {"manager", "ask", "connect", "send", "sent", "ended"}, proxies : Nat, robin : Nat,
          tries : Nat, len : Nat, seconds : Nat, ret : Codes, dirErrors : Nat]

ClientTypes == client \in [Actors -> Calls] /\ inbox \subseteq Requests
NodeTypes == /\ job \in [Workers -> Jobs \cup {Idle}]
             /\ vnode \in [status : Statuses \cup {NONE}, version : Nat]
             /\ written \in Nat

\* The workers that wrote a file which is not counted yet.
Behind == {w \in Workers : At(w, "lock")}

\* A job that runs while the vnode is ACTIVE has seen it so, and none passes the test unseen.
ActiveSeen == \A w \in Workers : /\ IsActive /\ ~ At(w, "idle") => job[w].active
                                 /\ job[w].pc \in Stages \ {"look", "test", "answer"} => job[w].active

UploadInv == ClientTypes /\ NodeTypes /\ VersionCountsWrites /\ ActiveSeen

LEMMA BehindFinite == IsFiniteSet(Behind) /\ Cardinality(Behind) \in Nat
<1>1. IsFiniteSet(Workers) /\ Behind \subseteq Workers
  BY UploadAssumption DEF Behind
<1> QED
  BY <1>1, FS_Subset, FS_CardinalityType

LEMMA InitUpload == Init => UploadInv
<1> SUFFICES ASSUME Init PROVE UploadInv
  OBVIOUS
<1>1. ClientTypes
  BY DEF Init, ClientTypes, Calls, Codes
<1>2. NodeTypes
  BY DEF Init, NodeTypes
<1>3. VersionCountsWrites
  <2>1. {w \in Workers : At(w, "lock")} = {}
    BY DEF Init, At, Idle
  <2> QED
    BY <2>1, FS_EmptySet DEF Init, VersionCountsWrites
<1>4. ActiveSeen
  <2>1. \A w \in Workers : job[w].pc = "idle"
    BY DEF Init, Idle
  <2> QED
    BY <2>1 DEF ActiveSeen, At, Stages
<1> QED
  BY <1>1, <1>2, <1>3, <1>4 DEF UploadInv

\* What clients and peers do: their calls and requests stay well formed.
LEMMA ClientKeepsTypes ==
    ASSUME ClientTypes, NEW c \in Actors, ClientNext(c)
    PROVE  ClientTypes'
<1>1. client[c] \in Calls /\ client \in [Actors -> Calls]
  BY DEF ClientTypes
<1> USE DEF ClientTypes, Calls, Codes
<1>2. CASE ManagerConnects(c)
  <2> DEFINE pc == IF client[c].proxies + 1 = Proxies THEN "ask" ELSE client[c].pc
             e == [client[c] EXCEPT !.proxies = client[c].proxies + 1, !.pc = pc]
  <2>1. pc \in {"manager", "ask"} /\ client[c].proxies + 1 \in Nat
    BY <1>1, <1>2 DEF ManagerConnects
  <2> HIDE DEF pc
  <2>2. e \in Calls
    BY <1>1, <2>1
  <2>3. client' = [client EXCEPT ![c] = e] /\ UNCHANGED inbox
    BY <1>1, <1>2 DEF ManagerConnects, pc
  <2> QED
    BY <2>2, <2>3
<1>3. CASE ManagerFails(c) \/ ClientRefused(c) \/ ClientMisses(c) \/ ClientTimeout(c)
  BY <1>1, <1>3 DEF ManagerFails, ClientRefused, ClientMisses, ClientTimeout, Returns
<1>4. CASE ClientAsks(c)
  <2>1. NextRobin(client[c].robin) \in Nat
    BY <1>1, UploadAssumption DEF NextRobin
  <2>2. PICK n \in Seconds, len \in Lengths :
          client' = [client EXCEPT ![c].pc = "connect", ![c].robin = NextRobin(client[c].robin),
                                   ![c].tries = client[c].tries + 1,
                                   ![c].seconds = n, ![c].len = len]
    BY <1>4 DEF ClientAsks
  <2>3. n \in Nat /\ len \in Nat
    BY UploadAssumption
  <2> QED
    BY <1>1, <1>4, <2>1, <2>2, <2>3 DEF ClientAsks
<1>5. CASE ClientRetries(c)
  BY <1>1, <1>5 DEF ClientRetries
<1>6. CASE ClientSends(c)
  <2>1. Message(c, "upload", TRUE) \in Requests
    BY <1>1 DEF Message, Requests
  <2> QED
    BY <1>1, <1>6, <2>1 DEF ClientSends
<1>7. CASE PeerSends(c)
  <2>1. \A legal \in BOOLEAN : Message(c, "ctrl", legal) \in Requests
    BY <1>1 DEF Message, Requests
  <2> QED
    BY <1>1, <1>7, <2>1 DEF PeerSends
<1> QED
  BY <1>2, <1>3, <1>4, <1>5, <1>6, <1>7 DEF ClientNext

\* A step of one worker that neither comes to the lock nor leaves it.
LEMMA OtherWorkersStay ==
    ASSUME UploadInv, NEW w \in Workers, NEW j \in Jobs \cup {Idle},
           job' = [job EXCEPT ![w] = j], UNCHANGED vnode,
           (job[w].pc = "lock") <=> (j.pc = "lock"), UNCHANGED written,
           IsActive /\ j.pc # "idle" => j.active,
           j.pc \in Stages \ {"look", "test", "answer"} => j.active
    PROVE  NodeTypes' /\ VersionCountsWrites' /\ ActiveSeen'
<1>1. NodeTypes'
  BY DEF UploadInv, NodeTypes
<1>2. job'[w] = j /\ \A v \in Workers \ {w} : job'[v] = job[v]
  BY DEF UploadInv, NodeTypes
<1>3. VersionCountsWrites'
  <2>1. {v \in Workers : At(v, "lock")}' = {v \in Workers : At(v, "lock")}
    BY <1>2 DEF At
  <2> QED
    BY <2>1 DEF UploadInv, VersionCountsWrites
<1>4. ActiveSeen'
  BY <1>2 DEF UploadInv, ActiveSeen, At, IsActive
<1> QED
  BY <1>1, <1>3, <1>4


\* A worker counts its file under the lock: one more version and one behind less.
LEMMA LockCounts ==
    ASSUME UploadInv, NEW w \in Workers, At(w, "lock"), NEW j \in Jobs,
           job' = [job EXCEPT ![w] = j], j.pc \in {"answer", "copy"}, j.active,
           vnode' = [vnode EXCEPT !.version = vnode.version + 1], UNCHANGED written
    PROVE  NodeTypes' /\ VersionCountsWrites' /\ ActiveSeen'
<1>1. NodeTypes'
  BY DEF UploadInv, NodeTypes
<1>2. job'[w] = j /\ \A v \in Workers \ {w} : job'[v] = job[v]
  BY DEF UploadInv, NodeTypes
<1>3. vnode'.version = vnode.version + 1 /\ vnode'.status = vnode.status /\ vnode.version \in Nat
  BY DEF UploadInv, NodeTypes
<1>4. VersionCountsWrites'
  <2>1. w \in Behind /\ Behind' = Behind \ {w}
    BY <1>2 DEF Behind, At
  <2>2. Cardinality(Behind') = Cardinality(Behind) - 1
    BY <2>1, BehindFinite, FS_RemoveElement
  <2>3. vnode.version + Cardinality(Behind) = written
    BY DEF UploadInv, VersionCountsWrites, Behind
  <2>4. vnode'.version + Cardinality(Behind') = written'
    BY <1>3, <2>2, <2>3, BehindFinite
  <2> QED
    BY <2>4 DEF VersionCountsWrites, Behind
<1>5. ActiveSeen'
  BY <1>2, <1>3 DEF UploadInv, ActiveSeen, At, IsActive
<1> QED
  BY <1>1, <1>4, <1>5

\* A job goes on, or ends, and its other fields stay.
LEMMA JobGoes ==
    ASSUME NodeTypes, NEW w \in Workers, job[w] \in Jobs, NEW pc \in Stages, Goto(w, pc)
    PROVE  \E j \in Jobs : job' = [job EXCEPT ![w] = j] /\ j.pc = pc /\ j.active = job[w].active
<1> DEFINE j == [job[w] EXCEPT !.pc = pc]
<1>1. j \in Jobs /\ j.pc = pc /\ j.active = job[w].active
  BY DEF Jobs
<1>2. job' = [job EXCEPT ![w] = j]
  BY DEF Goto
<1> QED
  BY <1>1, <1>2

LEMMA JobFails ==
    ASSUME NodeTypes, NEW w \in Workers, job[w] \in Jobs, NEW code \in Codes, Fails(w, code)
    PROVE  \E j \in Jobs : job' = [job EXCEPT ![w] = j] /\ j.pc = "answer" /\ j.active = job[w].active
<1> DEFINE j == [job[w] EXCEPT !.pc = "answer", !.ret = code]
<1>1. j \in Jobs /\ j.pc = "answer" /\ j.active = job[w].active
  BY DEF Jobs, Stages
<1>2. job' = [job EXCEPT ![w] = j]
  BY DEF Fails
<1> QED
  BY <1>1, <1>2

LEMMA JobCopies ==
    ASSUME NodeTypes, NEW w \in Workers, job[w] \in Jobs,
           job' = [job EXCEPT ![w].pc = "copy", ![w].copy = job[w].copy + 1]
    PROVE  \E j \in Jobs : job' = [job EXCEPT ![w] = j] /\ j.pc = "copy" /\ j.active = job[w].active
<1> DEFINE j == [job[w] EXCEPT !.pc = "copy", !.copy = job[w].copy + 1]
<1>a. job[w].copy + 1 \in Nat /\ "copy" \in Stages
  BY DEF Jobs, Stages
<1>1. j \in Jobs /\ j.pc = "copy" /\ j.active = job[w].active
  BY <1>a DEF Jobs
<1>2. job' = [job EXCEPT ![w] = j]
  BY DEF NodeTypes
<1> QED
  BY <1>1, <1>2

\* Such a step keeps the invariant where it does not touch the lock stage and where only a
\* job that saw the vnode ACTIVE passes the test.
LEMMA JobStays ==
    ASSUME UploadInv, NEW w \in Workers, NEW from \in Stages \ {"lock"}, At(w, from),
           UNCHANGED <<client, inbox, vnode, written>>,
           NEW to \in Stages \ {"lock"},
           \E j \in Jobs : job' = [job EXCEPT ![w] = j] /\ j.pc = to /\ j.active = job[w].active,
           to \in {"look", "test", "answer"} \/ IsActive \/ from \notin {"look", "test", "answer"}
    PROVE  UploadInv'
<1>1. PICK j \in Jobs : job' = [job EXCEPT ![w] = j] /\ j.pc = to /\ j.active = job[w].active
  OBVIOUS
<1>2. job[w].pc = from /\ from # "idle" /\ from # "lock" /\ to # "lock"
  BY DEF At, Stages
<1>3. IsActive => j.active
  BY <1>1, <1>2 DEF UploadInv, ActiveSeen, At
<1>4. j.pc \in Stages \ {"look", "test", "answer"} => j.active
  BY <1>1, <1>2, <1>3 DEF UploadInv, ActiveSeen
<1>5. NodeTypes' /\ VersionCountsWrites' /\ ActiveSeen'
  BY <1>1, <1>2, <1>3, <1>4, OtherWorkersStay
<1> QED
  BY <1>5 DEF UploadInv, ClientTypes

LEMMA JobTyped ==
    ASSUME NodeTypes, NEW w \in Workers, NEW from \in Stages, At(w, from)
    PROVE  job[w] \in Jobs
BY DEF NodeTypes, At, Idle, Stages

LEMMA StepUpload == UploadInv /\ [Next]_vars => UploadInv'
<1> SUFFICES ASSUME UploadInv, [Next]_vars PROVE UploadInv'
  OBVIOUS
<1>a. ClientTypes /\ NodeTypes /\ VersionCountsWrites /\ ActiveSeen
  BY DEF UploadInv
<1>1. ASSUME NEW c \in Actors, ClientNext(c) PROVE UploadInv'
  <2>1. UNCHANGED nodeVars
    BY <1>1 DEF ClientNext, ManagerConnects, ManagerFails, ClientAsks, ClientRefused, ClientMisses,
                ClientSends, ClientTimeout, ClientRetries, PeerSends
  <2>2. ClientTypes'
    BY <1>1, <1>a, ClientKeepsTypes
  <2> QED
    BY <1>a, <2>1, <2>2 DEF UploadInv, NodeTypes, VersionCountsWrites, ActiveSeen, At, IsActive, nodeVars
<1>2. ASSUME NEW w \in Workers, Take(w) PROVE UploadInv'
  <2>1. PICK m \in inbox :
          /\ inbox' = inbox \ {m}
          /\ job' = IF m.legal
                    THEN [job EXCEPT ![w] =
                            [pc |-> "look", from |-> m.from, kind |-> m.kind, len |-> m.len,
                             seconds |-> m.seconds, copy |-> 0, ret |-> "0", active |-> IsActive]]
                    ELSE job
    BY <1>2 DEF Take
  <2>2. ClientTypes'
    BY <1>2, <1>a, <2>1 DEF Take, ClientTypes
  <2>3. job[w].pc = "idle" /\ UNCHANGED <<vnode, written>>
    BY <1>2 DEF Take, At
  <2>4. CASE ~ m.legal
    <3>1. UNCHANGED job
      BY <2>1, <2>4
    <3> QED
      BY <1>a, <2>2, <2>3, <3>1 DEF UploadInv, NodeTypes, VersionCountsWrites, ActiveSeen, At, IsActive
  <2>5. CASE m.legal
    <3> DEFINE j == [pc |-> "look", from |-> m.from, kind |-> m.kind, len |-> m.len,
                     seconds |-> m.seconds, copy |-> 0, ret |-> "0", active |-> IsActive]
    <3>1. m \in Requests
      BY <1>a DEF ClientTypes
    <3>2. j \in Jobs
      BY <3>1 DEF Requests, Jobs, Stages, Codes, IsActive
    <3>3. j.pc = "look" /\ j.active = IsActive /\ job' = [job EXCEPT ![w] = j]
      BY <2>1, <2>5
    <3> HIDE DEF j
    <3> QED
      BY <2>2, <2>3, <3>2, <3>3, OtherWorkersStay DEF UploadInv
  <2> QED
    BY <2>4, <2>5
<1>3. ASSUME NEW w \in Workers, Look(w) PROVE UploadInv'
  <2>1. At(w, "look") /\ UNCHANGED <<client, inbox, vnode, written>>
    BY <1>3 DEF Look
  <2>2. job[w] \in Jobs
    BY <1>a, <2>1, JobTyped DEF Stages
  <2>3. CASE vnode.status = NONE
    <3>1. \E j \in Jobs : job' = [job EXCEPT ![w] = j] /\ j.pc = "answer" /\ j.active = job[w].active
      BY <1>3, <1>a, <2>2, <2>3, JobFails DEF Look, Stages, Codes
    <3>2. /\ "look" \in Stages \ {"lock"} /\ "answer" \in Stages \ {"lock"}
          /\ "answer" \in {"look", "test", "answer"} \/ IsActive \/ "look" \notin {"look", "test", "answer"}
      BY <2>3 DEF Stages
    <3> QED
      BY <2>1, <2>3, <3>1, <3>2, JobStays
  <2>4. CASE vnode.status # NONE
    <3>1. \E j \in Jobs : job' = [job EXCEPT ![w] = j] /\ j.pc = "test" /\ j.active = job[w].active
      BY <1>3, <1>a, <2>2, <2>4, JobGoes DEF Look, Stages, Codes
    <3>2. /\ "look" \in Stages \ {"lock"} /\ "test" \in Stages \ {"lock"}
          /\ "test" \in {"look", "test", "answer"} \/ IsActive \/ "look" \notin {"look", "test", "answer"}
      BY <2>4 DEF Stages
    <3> QED
      BY <2>1, <2>4, <3>1, <3>2, JobStays
  <2> QED
    BY <2>3, <2>4
<1>4. ASSUME NEW w \in Workers, Test(w) PROVE UploadInv'
  <2>1. At(w, "test") /\ UNCHANGED <<client, inbox, vnode, written>>
    BY <1>4 DEF Test
  <2>2. job[w] \in Jobs
    BY <1>a, <2>1, JobTyped DEF Stages
  <2>3. CASE IsActive
    <3>1. \E j \in Jobs : job' = [job EXCEPT ![w] = j] /\ j.pc = "access" /\ j.active = job[w].active
      BY <1>4, <1>a, <2>2, <2>3, JobGoes DEF Test, Stages, Codes
    <3>2. /\ "test" \in Stages \ {"lock"} /\ "access" \in Stages \ {"lock"}
          /\ "access" \in {"look", "test", "answer"} \/ IsActive \/ "test" \notin {"look", "test", "answer"}
      BY <2>3 DEF Stages
    <3> QED
      BY <2>1, <2>3, <3>1, <3>2, JobStays
  <2>4. CASE ~ IsActive
    <3>1. \E j \in Jobs : job' = [job EXCEPT ![w] = j] /\ j.pc = "answer" /\ j.active = job[w].active
      BY <1>4, <1>a, <2>2, <2>4, JobFails DEF Test, Stages, Codes
    <3>2. /\ "test" \in Stages \ {"lock"} /\ "answer" \in Stages \ {"lock"}
          /\ "answer" \in {"look", "test", "answer"} \/ IsActive \/ "test" \notin {"look", "test", "answer"}
      BY <2>4 DEF Stages
    <3> QED
      BY <2>1, <2>4, <3>1, <3>2, JobStays
  <2> QED
    BY <2>3, <2>4
<1>5. ASSUME NEW w \in Workers, Access(w) PROVE UploadInv'
  <2>1. At(w, "access") /\ UNCHANGED <<client, inbox, vnode, written>>
    BY <1>5 DEF Access
  <2>2. job[w] \in Jobs
    BY <1>a, <2>1, JobTyped DEF Stages
  <2>3. CASE dir
    <3>1. \E j \in Jobs : job' = [job EXCEPT ![w] = j] /\ j.pc = "write" /\ j.active = job[w].active
      BY <1>5, <1>a, <2>2, <2>3, JobGoes DEF Access, Stages, Codes
    <3>2. /\ "access" \in Stages \ {"lock"} /\ "write" \in Stages \ {"lock"}
          /\ "write" \in {"look", "test", "answer"} \/ IsActive \/ "access" \notin {"look", "test", "answer"}
      BY <2>3 DEF Stages
    <3> QED
      BY <2>1, <2>3, <3>1, <3>2, JobStays
  <2>4. CASE ~ dir
    <3>1. \E j \in Jobs : job' = [job EXCEPT ![w] = j] /\ j.pc = "mkdir" /\ j.active = job[w].active
      BY <1>5, <1>a, <2>2, <2>4, JobGoes DEF Access, Stages, Codes
    <3>2. /\ "access" \in Stages \ {"lock"} /\ "mkdir" \in Stages \ {"lock"}
          /\ "mkdir" \in {"look", "test", "answer"} \/ IsActive \/ "access" \notin {"look", "test", "answer"}
      BY <2>4 DEF Stages
    <3> QED
      BY <2>1, <2>4, <3>1, <3>2, JobStays
  <2> QED
    BY <2>3, <2>4
<1>6. ASSUME NEW w \in Workers, Mkdir(w) PROVE UploadInv'
  <2>1. At(w, "mkdir") /\ UNCHANGED <<client, inbox, vnode, written>>
    BY <1>6 DEF Mkdir
  <2>2. job[w] \in Jobs
    BY <1>a, <2>1, JobTyped DEF Stages
  <2>3. CASE dir
    <3>1. \E j \in Jobs : job' = [job EXCEPT ![w] = j] /\ j.pc = "answer" /\ j.active = job[w].active
      BY <1>6, <1>a, <2>2, <2>3, JobFails DEF Mkdir, Stages, Codes
    <3>2. /\ "mkdir" \in Stages \ {"lock"} /\ "answer" \in Stages \ {"lock"}
          /\ "answer" \in {"look", "test", "answer"} \/ IsActive \/ "mkdir" \notin {"look", "test", "answer"}
      BY <2>3 DEF Stages
    <3> QED
      BY <2>1, <2>3, <3>1, <3>2, JobStays
  <2>4. CASE ~ dir
    <3>1. \E j \in Jobs : job' = [job EXCEPT ![w] = j] /\ j.pc = "write" /\ j.active = job[w].active
      BY <1>6, <1>a, <2>2, <2>4, JobGoes DEF Mkdir, Stages, Codes
    <3>2. /\ "mkdir" \in Stages \ {"lock"} /\ "write" \in Stages \ {"lock"}
          /\ "write" \in {"look", "test", "answer"} \/ IsActive \/ "mkdir" \notin {"look", "test", "answer"}
      BY <2>4 DEF Stages
    <3> QED
      BY <2>1, <2>4, <3>1, <3>2, JobStays
  <2> QED
    BY <2>3, <2>4
<1>7. ASSUME NEW w \in Workers, CopySent(w) PROVE UploadInv'
  <2>1. At(w, "copy") /\ UNCHANGED <<client, inbox, vnode, written>>
    BY <1>7 DEF CopySent
  <2>2. job[w] \in Jobs
    BY <1>a, <2>1, JobTyped DEF Stages
  <2>3. \E j \in Jobs : job' = [job EXCEPT ![w] = j] /\ j.pc = "wait" /\ j.active = job[w].active
    BY <1>7, <1>a, <2>2, JobGoes DEF CopySent, Stages, Codes
  <2>4. /\ "copy" \in Stages \ {"lock"} /\ "wait" \in Stages \ {"lock"}
        /\ "wait" \in {"look", "test", "answer"} \/ IsActive \/ "copy" \notin {"look", "test", "answer"}
    BY DEF Stages
  <2> QED
    BY <2>1, <2>3, <2>4, JobStays
<1>8. ASSUME NEW w \in Workers, CopyFails(w) PROVE UploadInv'
  <2>1. At(w, "copy") /\ UNCHANGED <<client, inbox, vnode, written>>
    BY <1>8 DEF CopyFails
  <2>2. job[w] \in Jobs
    BY <1>a, <2>1, JobTyped DEF Stages
  <2>3. \E j \in Jobs : job' = [job EXCEPT ![w] = j] /\ j.pc = "copy" /\ j.active = job[w].active
    <3> DEFINE j == [job[w] EXCEPT !.copy = job[w].copy + 1]
    <3>1. j \in Jobs /\ j.pc = "copy" /\ j.active = job[w].active
      BY <2>1, <2>2 DEF Jobs, At
    <3>2. job' = [job EXCEPT ![w] = j]
      BY <1>8 DEF CopyFails
    <3> QED
      BY <3>1, <3>2
  <2>4. /\ "copy" \in Stages \ {"lock"} /\ "copy" \in Stages \ {"lock"}
        /\ "copy" \in {"look", "test", "answer"} \/ IsActive \/ "copy" \notin {"look", "test", "answer"}
    BY DEF Stages
  <2> QED
    BY <2>1, <2>3, <2>4, JobStays
<1>9. ASSUME NEW w \in Workers, CopyTimeout(w) PROVE UploadInv'
  <2>1. At(w, "wait") /\ UNCHANGED <<client, inbox, vnode, written>>
    BY <1>9 DEF CopyTimeout
  <2>2. job[w] \in Jobs
    BY <1>a, <2>1, JobTyped DEF Stages
  <2>3. \E j \in Jobs : job' = [job EXCEPT ![w] = j] /\ j.pc = "copy" /\ j.active = job[w].active
    BY <1>9, <1>a, <2>2, JobCopies DEF CopyTimeout, Stages, Codes
  <2>4. /\ "wait" \in Stages \ {"lock"} /\ "copy" \in Stages \ {"lock"}
        /\ "copy" \in {"look", "test", "answer"} \/ IsActive \/ "wait" \notin {"look", "test", "answer"}
    BY DEF Stages
  <2> QED
    BY <2>1, <2>3, <2>4, JobStays
<1>10. ASSUME NEW w \in Workers, Unlock(w) PROVE UploadInv'
  <2>1. At(w, "copy") /\ UNCHANGED <<client, inbox, vnode, written>>
    BY <1>10 DEF Unlock
  <2>2. job[w] \in Jobs
    BY <1>a, <2>1, JobTyped DEF Stages
  <2>3. \E j \in Jobs : job' = [job EXCEPT ![w] = j] /\ j.pc = "answer" /\ j.active = job[w].active
    BY <1>10, <1>a, <2>2, JobFails DEF Unlock, Stages, Codes
  <2>4. /\ "copy" \in Stages \ {"lock"} /\ "answer" \in Stages \ {"lock"}
        /\ "answer" \in {"look", "test", "answer"} \/ IsActive \/ "copy" \notin {"look", "test", "answer"}
    BY DEF Stages
  <2> QED
    BY <2>1, <2>3, <2>4, JobStays
<1>11. ASSUME NEW w \in Workers, Write(w) PROVE UploadInv'
  <2>1. At(w, "write") /\ UNCHANGED <<client, inbox, vnode>> /\ job[w].active
    BY <1>11, <1>a DEF Write, ActiveSeen, At, Stages
  <2>2. job[w] \in Jobs
    BY <1>a, <2>1, JobTyped DEF Stages
  <2>3. CASE job[w].len = 0
    <3>1. PICK j \in Jobs : job' = [job EXCEPT ![w] = j] /\ j.pc = "lock" /\ j.active = job[w].active
      BY <1>11, <1>a, <2>2, <2>3, JobGoes DEF Write, Stages
    <3>2. written' = written + 1
      BY <1>11, <2>3 DEF Write
    <3>3. NodeTypes'
      BY <1>a, <2>1, <3>1, <3>2 DEF NodeTypes
    <3>4. job'[w] = j /\ \A v \in Workers \ {w} : job'[v] = job[v]
      BY <1>a, <3>1 DEF NodeTypes
    <3>5. Behind' = Behind \cup {w} /\ w \notin Behind
      BY <2>1, <3>1, <3>4 DEF Behind, At
    <3>6. Cardinality(Behind') = Cardinality(Behind) + 1
      BY <3>5, BehindFinite, FS_AddElement
    <3>7. vnode.version + Cardinality(Behind) = written /\ vnode.version \in Nat
      BY <1>a DEF VersionCountsWrites, Behind, NodeTypes
    <3>8. vnode.version + Cardinality(Behind') = written'
      BY <3>2, <3>6, <3>7, BehindFinite
    <3>9. VersionCountsWrites'
      BY <2>1, <3>8 DEF VersionCountsWrites, Behind
    <3>10. ActiveSeen'
      BY <1>a, <2>1, <3>1, <3>4 DEF ActiveSeen, At, IsActive
    <3> QED
      BY <1>a, <2>1, <3>3, <3>9, <3>10 DEF UploadInv, ClientTypes
  <2>4. CASE job[w].len # 0
    <3>1. \E j \in Jobs : job' = [job EXCEPT ![w] = j] /\ j.pc = "answer" /\ j.active = job[w].active
      BY <1>11, <1>a, <2>2, <2>4, JobFails DEF Write, Codes
    <3>2. UNCHANGED <<client, inbox, vnode, written>>
      BY <1>11, <2>4 DEF Write
    <3> QED
      BY <2>1, <3>1, <3>2, JobStays DEF Stages
  <2> QED
    BY <2>3, <2>4
<1>12. ASSUME NEW w \in Workers, LockCtrl(w) \/ LockUpload(w) \/ LockAlone(w) PROVE UploadInv'
  <2>1. /\ At(w, "lock") /\ UNCHANGED <<client, inbox, written>>
        /\ vnode' = [vnode EXCEPT !.version = vnode.version + 1]
    BY <1>12 DEF LockCtrl, LockUpload, LockAlone
  <2>2. job[w] \in Jobs /\ job[w].active
    BY <1>a, <2>1, JobTyped DEF ActiveSeen, At, Stages
  <2>3. PICK j \in Jobs : /\ job' = [job EXCEPT ![w] = j] /\ j.pc \in {"answer", "copy"}
                          /\ j.active = job[w].active
    <3>1. CASE LockCtrl(w)
      BY <1>a, <2>2, <3>1, JobGoes DEF LockCtrl, Stages
    <3>2. CASE LockUpload(w)
      BY <1>a, <2>2, <3>2, JobGoes DEF LockUpload, Stages
    <3>3. CASE LockAlone(w)
      BY <1>a, <2>2, <3>3, JobFails DEF LockAlone, Codes
    <3> QED
      BY <1>12, <3>1, <3>2, <3>3
  <2>4. NodeTypes' /\ VersionCountsWrites' /\ ActiveSeen'
    BY <2>1, <2>2, <2>3, LockCounts
  <2> QED
    BY <1>a, <2>1, <2>4 DEF UploadInv, ClientTypes
<1>13. ASSUME NEW w \in Workers, Answer(w) PROVE UploadInv'
  <2>1. /\ At(w, "answer") /\ job' = [job EXCEPT ![w] = Idle]
        /\ UNCHANGED <<inbox, vnode, written>>
    BY <1>13 DEF Answer
  <2>2. job[w] \in Jobs
    BY <1>a, <2>1, JobTyped DEF Stages
  <2>3. ClientTypes'
    <3>1. job[w].from \in Actors /\ job[w].ret \in Codes
      BY <2>2 DEF Jobs
    <3>2. client[job[w].from] \in Calls
      BY <1>a, <3>1 DEF ClientTypes
    <3>3. CASE UNCHANGED client
      BY <1>a, <2>1, <3>3 DEF ClientTypes
    <3>4. CASE Returns(job[w].from, job[w].ret)
      BY <1>a, <2>1, <3>1, <3>2, <3>4 DEF Returns, ClientTypes, Calls
    <3> QED
      BY <1>13, <3>3, <3>4 DEF Answer
  <2>4. NodeTypes' /\ VersionCountsWrites' /\ ActiveSeen'
    <3>1. Idle.pc = "idle" /\ job[w].pc = "answer"
      BY <2>1 DEF Idle, At
    <3> QED
      BY <2>1, <3>1, OtherWorkersStay DEF Stages
  <2> QED
    BY <2>3, <2>4 DEF UploadInv
<1>14. ASSUME BeatMerges PROVE UploadInv'
  <2>1. PICK s \in Statuses :
          /\ vnode' = [vnode EXCEPT !.status = s]
          /\ job' = [w \in Workers |-> IF At(w, "idle") THEN job[w]
                                       ELSE [job[w] EXCEPT !.active = @ \/ s = ACTIVE]]
    BY <1>14 DEF BeatMerges
  <2>2. UNCHANGED <<client, inbox, written>>
    BY <1>14 DEF BeatMerges
  <2>3. \A w \in Workers : At(w, "idle") => job'[w] = job[w]
    BY <2>1
  <2>4. ASSUME NEW w \in Workers, ~ At(w, "idle")
        PROVE  /\ job'[w] \in Jobs /\ job'[w].pc = job[w].pc
               /\ job'[w].active = (job[w].active \/ s = ACTIVE)
    <3>1. job'[w] = [job[w] EXCEPT !.active = job[w].active \/ s = ACTIVE]
      BY <2>1, <2>4
    <3>2. job[w] \in Jobs
      BY <1>a, <2>4 DEF NodeTypes, At, Idle
    <3> QED
      BY <3>1, <3>2 DEF Jobs
  <2>5. /\ vnode' \in [status : Statuses \cup {NONE}, version : Nat]
        /\ vnode'.version = vnode.version /\ vnode'.status = s
    BY <1>a, <2>1 DEF NodeTypes
  <2>6. NodeTypes'
    BY <1>a, <2>1, <2>2, <2>3, <2>4, <2>5 DEF NodeTypes
  <2>7. VersionCountsWrites'
    <3>1. {w \in Workers : At(w, "lock")}' = {w \in Workers : At(w, "lock")}
      BY <2>3, <2>4 DEF At
    <3> QED
      BY <1>a, <2>2, <2>5, <3>1 DEF VersionCountsWrites
  <2>8. ActiveSeen'
    BY <1>a, <2>3, <2>4, <2>5 DEF ActiveSeen, At, IsActive, Stages
  <2> QED
    BY <1>a, <2>2, <2>6, <2>7, <2>8 DEF UploadInv, ClientTypes
<1>15. CASE BeatStarts \/ BeatReports \/ UNCHANGED vars
  <2>1. UNCHANGED <<client, inbox, job, vnode, written>>
    BY <1>15 DEF BeatStarts, BeatReports, vars
  <2> QED
    BY <1>a, <2>1 DEF UploadInv, ClientTypes, NodeTypes, VersionCountsWrites, ActiveSeen, At, IsActive
<1> QED
  BY <1>1, <1>2, <1>3, <1>4, <1>5, <1>6, <1>7, <1>8, <1>9, <1>10, <1>11, <1>12, <1>13, <1>14, <1>15
     DEF Next, WorkerStep, WorkerLocks

LEMMA UploadInvHolds == Spec => []UploadInv
  BY InitUpload, StepUpload, PTL DEF Spec

\* The version of a vnode and the files written agree up to the workers that wait for the
\* lock, for any number of them (storage_msg_parser.cpp:497-529, 912-939).
THEOREM VersionCounts == Spec => []VersionCountsWrites
<1>1. UploadInv => VersionCountsWrites
  BY DEF UploadInv
<1> QED
  BY <1>1, UploadInvHolds, PTL

\* No upload is counted that never saw the vnode ACTIVE (storage_msg_parser.cpp:472, 886).
THEOREM CountedSawActive == Spec => []CountedWasActive
<1>1. UploadInv => CountedWasActive
  BY DEF UploadInv, ActiveSeen, CountedWasActive, Stages
<1> QED
  BY <1>1, UploadInvHolds, PTL

-----------------------------------------------------------------------------
(* A directory that was made                                                 *)

MessagesOf(c) == {m \in inbox : m.from = c}
JobsOf(c) == {w \in Workers : ~ At(w, "idle") /\ job[w].from = c}

\* A job that was refused the directory, and one that still may be.
Refused(w) == ~ At(w, "idle") /\ job[w].ret = "EEXIST"
MayFail(w) == At(w, "mkdir") \/ Refused(w)

\* A client calls again only when nothing of its last call is under way.
OneAtATime ==
    \A c \in Clients :
      /\ client[c].pc # "send"
      /\ client[c].pc \in {"manager", "ask", "connect"} => MessagesOf(c) = {} /\ JobsOf(c) = {}
      /\ MessagesOf(c) = {} \/ JobsOf(c) = {}
      /\ \A m, n \in MessagesOf(c) : m = n
      /\ \A v, w \in JobsOf(c) : v = w

RefusedHaveDir == \A w \in Workers : Refused(w) => dir /\ At(w, "answer")

\* Who was refused once finds the directory from then on.
RefusedOnce ==
    \A c \in Clients : /\ client[c].dirErrors \in {0, 1}
                       /\ client[c].dirErrors = 1 => dir /\ \A w \in JobsOf(c) : ~ MayFail(w)

DirInv == OneAtATime /\ RefusedHaveDir /\ RefusedOnce

LEMMA InitDir == Init => DirInv
<1> SUFFICES ASSUME Init PROVE DirInv
  OBVIOUS
<1>1. \A c \in Clients : client[c].pc = "manager" /\ client[c].dirErrors = 0
  BY DEF Init, Actors
<1>2. inbox = {} /\ \A w \in Workers : job[w].pc = "idle"
  BY DEF Init, Idle
<1> QED
  BY <1>1, <1>2 DEF DirInv, OneAtATime, RefusedHaveDir, RefusedOnce, MessagesOf, JobsOf, Refused,
                    MayFail, At

\* The calls of the clients go on while the node does nothing.
LEMMA ClientKeepsDir ==
    ASSUME UploadInv, DirInv, NEW c \in Actors, ClientNext(c)
    PROVE  DirInv'
<1>1. client \in [Actors -> Calls] /\ client[c] \in Calls
  BY DEF UploadInv, ClientTypes
<1>2. job' = job /\ dir' = dir /\ \A d \in Clients : JobsOf(d)' = JobsOf(d)
  BY DEF ClientNext, ManagerConnects, ManagerFails, ClientAsks, ClientRefused, ClientMisses,
         ClientSends, ClientTimeout, ClientRetries, PeerSends, nodeVars, JobsOf, At
<1>3. \A d \in Actors : /\ d # c => client'[d] = client[d]
                        /\ client'[d].dirErrors = client[d].dirErrors
  <2>1. CASE ManagerConnects(c)
    BY <1>1, <2>1 DEF ManagerConnects, Calls
  <2>2. CASE ManagerFails(c) \/ ClientRefused(c) \/ ClientMisses(c) \/ ClientTimeout(c)
    <3>1. PICK code \in {"ECONNREFUSED", "EACCES", "ETIMEDOUT"} : Returns(c, code)
      BY <2>2 DEF ManagerFails, ClientRefused, ClientMisses, ClientTimeout
    <3>2. client' = [client EXCEPT ![c].pc = "ended", ![c].ret = code, ![c].dirErrors = @ + 0]
      BY <3>1 DEF Returns
    <3> QED
      BY <1>1, <3>2 DEF Calls
  <2>3. CASE ClientAsks(c) \/ ClientSends(c) \/ ClientRetries(c) \/ PeerSends(c)
    <3>1. CASE ClientAsks(c)
      <4>1. PICK n, len : client' = [client EXCEPT ![c].pc = "connect", ![c].robin = NextRobin(@),
                                                   ![c].tries = @ + 1, ![c].seconds = n, ![c].len = len]
        BY <3>1 DEF ClientAsks
      <4> QED
        BY <1>1, <4>1 DEF Calls
    <3>2. CASE ClientSends(c) \/ ClientRetries(c) \/ PeerSends(c)
      <4>1. PICK pc : client' = [client EXCEPT ![c].pc = pc]
        BY <3>2 DEF ClientSends, ClientRetries, PeerSends
      <4> QED
        BY <1>1, <4>1 DEF Calls
    <3> QED
      BY <2>3, <3>1, <3>2
  <2> QED
    BY <2>1, <2>2, <2>3 DEF ClientNext
<1>4. RefusedHaveDir' /\ RefusedOnce'
  <2>1. \A d \in Clients : d \in Actors
    BY DEF Actors
  <2> QED
    BY <1>2, <1>3, <2>1 DEF DirInv, RefusedHaveDir, RefusedOnce, Refused, MayFail, At
<1>5. OneAtATime'
  <2> SUFFICES ASSUME NEW d \in Clients
               PROVE  /\ client'[d].pc # "send"
                      /\ client'[d].pc \in {"manager", "ask", "connect"} =>
                            MessagesOf(d)' = {} /\ JobsOf(d) = {}
                      /\ MessagesOf(d)' = {} \/ JobsOf(d) = {}
                      /\ \A m, n \in MessagesOf(d)' : m = n
                      /\ \A v, w \in JobsOf(d) : v = w
    BY <1>2 DEF OneAtATime
  <2>a. /\ client[d].pc # "send"
        /\ client[d].pc \in {"manager", "ask", "connect"} => MessagesOf(d) = {} /\ JobsOf(d) = {}
        /\ MessagesOf(d) = {} \/ JobsOf(d) = {}
        /\ \A m, n \in MessagesOf(d) : m = n
        /\ \A v, w \in JobsOf(d) : v = w
    BY DEF DirInv, OneAtATime
  <2>b. d \in Actors
    BY DEF Actors
  <2>1. CASE d # c
    <3>1. client'[d] = client[d]
      BY <1>3, <2>1, <2>b
    <3>2. MessagesOf(d)' = MessagesOf(d)
      <4>1. CASE ClientSends(c) \/ PeerSends(c)
        <5>1. PICK m : inbox' = inbox \cup {m} /\ m.from = c
          <6>1. PICK kind, legal : inbox' = inbox \cup {Message(c, kind, legal)}
            BY <4>1 DEF ClientSends, PeerSends
          <6>2. Message(c, kind, legal).from = c
            BY DEF Message
          <6> QED
            BY <6>1, <6>2
        <5> QED
          BY <2>1, <5>1 DEF MessagesOf
      <4>2. CASE ~ (ClientSends(c) \/ PeerSends(c))
        <5>1. inbox' = inbox
          BY <4>2 DEF ClientNext, ManagerConnects, ManagerFails, ClientAsks, ClientRefused,
                      ClientMisses, ClientTimeout, ClientRetries
        <5> QED
          BY <5>1 DEF MessagesOf
      <4> QED
        BY <4>1, <4>2
    <3> QED
      BY <2>a, <3>1, <3>2
  <2>2. CASE d = c /\ ClientSends(c)
    <3>1. client[c].pc = "connect" /\ client'[c].pc = "sent"
      BY <1>1, <2>2 DEF ClientSends, Calls
    <3>2. MessagesOf(c) = {} /\ JobsOf(c) = {}
      BY <2>2, <2>a, <3>1
    <3>3. PICK m : inbox' = inbox \cup {m}
      BY <2>2 DEF ClientSends
    <3>4. MessagesOf(c)' \subseteq {m}
      BY <3>2, <3>3 DEF MessagesOf
    <3> QED
      BY <2>2, <3>1, <3>2, <3>4
  <2>3. CASE d = c /\ ClientRetries(c)
    <3>1. client'[c].pc = "ask" /\ inbox' = inbox
      BY <1>1, <2>3 DEF ClientRetries, Calls
    <3>2. MessagesOf(c) = {} /\ JobsOf(c) = {} /\ MessagesOf(c)' = MessagesOf(c)
      BY <2>3, <3>1 DEF ClientRetries, MessagesOf, JobsOf, At
    <3> QED
      BY <2>3, <3>1, <3>2
  <2>4. CASE d = c /\ ~ ClientSends(c) /\ ~ ClientRetries(c)
    <3>1. ~ PeerSends(c)
      BY <2>4, <2>a DEF PeerSends
    <3>2. inbox' = inbox
      BY <2>4, <3>1 DEF ClientNext, ManagerConnects, ManagerFails, ClientAsks, ClientRefused,
                        ClientMisses, ClientTimeout
    <3>3. MessagesOf(d)' = MessagesOf(d)
      BY <3>2 DEF MessagesOf
    <3>4. /\ client'[c].pc # "send"
          /\ client'[c].pc \in {"manager", "ask", "connect"} =>
               client[c].pc \in {"manager", "ask", "connect"}
      <4>1. CASE ManagerConnects(c)
        BY <1>1, <4>1 DEF ManagerConnects, Calls
      <4>2. CASE ManagerFails(c) \/ ClientRefused(c) \/ ClientMisses(c) \/ ClientTimeout(c)
        BY <1>1, <4>2 DEF ManagerFails, ClientRefused, ClientMisses, ClientTimeout, Returns, Calls
      <4>3. CASE ClientAsks(c)
        BY <1>1, <4>3 DEF ClientAsks, Calls
      <4> QED
        BY <2>4, <3>1, <4>1, <4>2, <4>3 DEF ClientNext
    <3> QED
      BY <2>4, <2>a, <3>3, <3>4
  <2> QED
    BY <2>1, <2>2, <2>3, <2>4
<1> QED
  BY <1>4, <1>5 DEF DirInv

\* Jobs go on: whoever is refused came from mkdir() with the directory there, and whoever
\* comes to mkdir() found none.
LEMMA JobsGoOn ==
    ASSUME DirInv, UNCHANGED <<client, inbox>>, dir => dir',
           \A w \in Workers : (job[w].pc = "idle") <=> (job'[w].pc = "idle"),
           \A w \in Workers : ~ At(w, "idle") => job'[w].from = job[w].from,
           \A w \in Workers : Refused(w)' => dir' /\ At(w, "answer")' /\ MayFail(w),
           \A w \in Workers : At(w, "mkdir")' => At(w, "mkdir") \/ ~ dir
    PROVE  DirInv'
<1>1. \A c \in Clients : MessagesOf(c)' = MessagesOf(c) /\ JobsOf(c)' = JobsOf(c)
  BY DEF MessagesOf, JobsOf, At
<1>2. OneAtATime'
  BY <1>1 DEF DirInv, OneAtATime
<1>3. RefusedHaveDir'
  BY DEF RefusedHaveDir
<1>4. RefusedOnce'
  <2>1. ASSUME NEW c \in Clients, client[c].dirErrors = 1, NEW w \in JobsOf(c)
        PROVE  dir /\ ~ MayFail(w)'
    <3>1. dir /\ ~ MayFail(w) /\ w \in Workers
      BY <2>1 DEF DirInv, RefusedOnce, JobsOf
    <3> QED
      BY <3>1 DEF MayFail
  <2> QED
    BY <1>1, <2>1 DEF DirInv, RefusedOnce
<1> QED
  BY <1>2, <1>3, <1>4 DEF DirInv

\* One job goes on with what it knows.
LEMMA JobGoesOn ==
    ASSUME UploadInv, DirInv, UNCHANGED <<client, inbox, dir>>, NEW w \in Workers,
           job[w] \in Jobs, ~ At(w, "answer"), NEW pc \in Stages \ {"answer", "mkdir"},
           \/ Goto(w, pc)
           \/ job' = [job EXCEPT ![w].copy = job[w].copy + 1] /\ job[w].pc = pc
           \/ job' = [job EXCEPT ![w].pc = pc, ![w].copy = job[w].copy + 1]
    PROVE  DirInv'
<1>1. /\ job'[w].pc = pc /\ job'[w].from = job[w].from /\ job'[w].ret = job[w].ret
      /\ \A v \in Workers \ {w} : job'[v] = job[v]
  BY DEF UploadInv, NodeTypes, Goto, Jobs
<1>2. job[w].pc # "idle" /\ pc # "idle" /\ pc # "answer" /\ pc # "mkdir"
  BY DEF Jobs, Stages
<1>3. \A v \in Workers : Refused(v) => dir /\ At(v, "answer")
  BY DEF DirInv, RefusedHaveDir
<1>4. \A v \in Workers : /\ (job[v].pc = "idle") <=> (job'[v].pc = "idle")
                         /\ ~ At(v, "idle") => job'[v].from = job[v].from
  BY <1>1, <1>2
<1>5. \A v \in Workers : /\ Refused(v)' => dir' /\ At(v, "answer")' /\ MayFail(v)
                         /\ At(v, "mkdir")' => At(v, "mkdir") \/ ~ dir
  <2> SUFFICES ASSUME NEW v \in Workers
               PROVE  /\ Refused(v)' => dir' /\ At(v, "answer")' /\ MayFail(v)
                      /\ At(v, "mkdir")' => At(v, "mkdir") \/ ~ dir
    OBVIOUS
  <2>1. CASE v = w
    <3>a. ~ At(v, "mkdir")'
      BY <1>1, <1>2, <2>1 DEF At
    <3>b. ~ At(v, "answer")
      BY <2>1
    <3>1. ~ At(v, "mkdir")' /\ ~ Refused(v)
      BY <1>3, <3>a, <3>b
    <3>2. ~ Refused(v)'
      BY <1>1, <1>2, <2>1, <3>1 DEF Refused, At
    <3> QED
      BY <3>1, <3>2
  <2>2. CASE v # w
    BY <1>1, <1>3, <2>2 DEF Refused, MayFail, At
  <2> QED
    BY <2>1, <2>2
<1> QED
  BY <1>4, <1>5, JobsGoOn

\* One job ends, for a reason that has nothing to do with the directory.
LEMMA JobEndsWell ==
    ASSUME UploadInv, DirInv, UNCHANGED <<client, inbox, dir>>, NEW w \in Workers,
           job[w] \in Jobs, ~ At(w, "answer"),
           \/ \E code \in Codes \ {"EEXIST"} : Fails(w, code)
           \/ Goto(w, "answer")
    PROVE  DirInv'
<1>1. /\ job'[w].pc = "answer" /\ job'[w].from = job[w].from /\ job'[w].ret # "EEXIST"
      /\ \A v \in Workers \ {w} : job'[v] = job[v]
  <2>1. job[w].ret # "EEXIST"
    BY DEF DirInv, RefusedHaveDir, Refused, At, Jobs, Stages
  <2> QED
    BY <2>1 DEF UploadInv, NodeTypes, Goto, Fails, Jobs
<1>2. job[w].pc # "idle"
  BY DEF Jobs, Stages
<1>3. \A v \in Workers : Refused(v) => dir /\ At(v, "answer")
  BY DEF DirInv, RefusedHaveDir
<1>4. \A v \in Workers : /\ (job[v].pc = "idle") <=> (job'[v].pc = "idle")
                         /\ ~ At(v, "idle") => job'[v].from = job[v].from
  BY <1>1, <1>2
<1>5. \A v \in Workers : /\ Refused(v)' => dir' /\ At(v, "answer")' /\ MayFail(v)
                         /\ At(v, "mkdir")' => At(v, "mkdir") \/ ~ dir
  BY <1>1, <1>2, <1>3 DEF Refused, MayFail, At
<1> QED
  BY <1>4, <1>5, JobsGoOn

LEMMA StepDir == UploadInv /\ DirInv /\ [Next]_vars => DirInv'
<1> SUFFICES ASSUME UploadInv, DirInv, [Next]_vars PROVE DirInv'
  OBVIOUS
<1>a. NodeTypes /\ ClientTypes /\ OneAtATime /\ RefusedHaveDir /\ RefusedOnce
  BY DEF UploadInv, DirInv
<1>b. \A w \in Workers : Refused(w) => dir /\ At(w, "answer")
  BY <1>a DEF RefusedHaveDir
<1>1. ASSUME NEW c \in Actors, ClientNext(c) PROVE DirInv'
  BY <1>1, ClientKeepsDir
<1>2. ASSUME NEW w \in Workers, Take(w) PROVE DirInv'
  <2>1. PICK m \in inbox :
          /\ inbox' = inbox \ {m}
          /\ job' = IF m.legal
                    THEN [job EXCEPT ![w] =
                            [pc |-> "look", from |-> m.from, kind |-> m.kind, len |-> m.len,
                             seconds |-> m.seconds, copy |-> 0, ret |-> "0", active |-> IsActive]]
                    ELSE job
    BY <1>2 DEF Take
  <2>2. job[w].pc = "idle" /\ client' = client /\ dir' = dir
    BY <1>2 DEF Take, At
  <2>3. \A c \in Clients : MessagesOf(c)' = MessagesOf(c) \ {m}
    BY <2>1 DEF MessagesOf
  <2>4. CASE ~ m.legal
    <3>1. job' = job
      BY <2>1, <2>4
    <3>2. \A c \in Clients : JobsOf(c)' = JobsOf(c)
      BY <3>1 DEF JobsOf, At
    <3>3. OneAtATime'
      BY <1>a, <2>2, <2>3, <3>2 DEF OneAtATime
    <3> QED
      BY <1>a, <2>2, <3>1, <3>2, <3>3 DEF DirInv, RefusedHaveDir, RefusedOnce, Refused, MayFail, At
  <2>5. CASE m.legal
    <3>1. /\ job'[w].pc = "look" /\ job'[w].from = m.from /\ job'[w].ret = "0"
          /\ \A v \in Workers \ {w} : job'[v] = job[v]
      BY <1>a, <2>1, <2>5 DEF NodeTypes
    <3>2. ASSUME NEW c \in Clients, m.from # c
          PROVE  JobsOf(c)' = JobsOf(c) /\ MessagesOf(c)' = MessagesOf(c)
      BY <2>1, <2>2, <3>1, <3>2 DEF JobsOf, MessagesOf, At
    <3>3. ASSUME NEW c \in Clients, m.from = c
          PROVE  /\ JobsOf(c)' = {w} /\ MessagesOf(c)' = {}
                 /\ client[c].pc \notin {"manager", "ask", "connect"}
      <4>1. m \in MessagesOf(c)
        BY <2>1, <3>3 DEF MessagesOf
      <4>2. /\ JobsOf(c) = {} /\ \A x \in MessagesOf(c) : x = m
            /\ client[c].pc \notin {"manager", "ask", "connect"}
        BY <1>a, <4>1 DEF OneAtATime
      <4>3. JobsOf(c)' = {w}
        BY <3>1, <3>3, <4>2 DEF JobsOf, At
      <4> QED
        BY <2>3, <4>2, <4>3
    <3>4. OneAtATime'
      <4> SUFFICES ASSUME NEW c \in Clients
                   PROVE  /\ client[c].pc # "send"
                          /\ client[c].pc \in {"manager", "ask", "connect"} =>
                               MessagesOf(c)' = {} /\ JobsOf(c)' = {}
                          /\ MessagesOf(c)' = {} \/ JobsOf(c)' = {}
                          /\ \A x, y \in MessagesOf(c)' : x = y
                          /\ \A x, y \in JobsOf(c)' : x = y
        BY <2>2 DEF OneAtATime
      <4>1. CASE m.from # c
        BY <1>a, <3>2, <4>1 DEF OneAtATime
      <4>2. CASE m.from = c
        BY <1>a, <3>3, <4>2 DEF OneAtATime
      <4> QED
        BY <4>1, <4>2
    <3>5. ~ Refused(w)' /\ ~ MayFail(w)'
      BY <3>1 DEF Refused, MayFail, At
    <3>6. \A v \in Workers \ {w} : Refused(v)' = Refused(v) /\ MayFail(v)' = MayFail(v)
      BY <3>1 DEF Refused, MayFail, At
    <3>7. RefusedHaveDir'
      BY <1>b, <2>2, <3>1, <3>5, <3>6 DEF RefusedHaveDir, At
    <3>8. RefusedOnce'
      <4> SUFFICES ASSUME NEW c \in Clients
                   PROVE  /\ client[c].dirErrors \in {0, 1}
                          /\ client[c].dirErrors = 1 => dir /\ \A v \in JobsOf(c)' : ~ MayFail(v)'
        BY <2>2 DEF RefusedOnce
      <4>1. \A v \in JobsOf(c)' : v \in Workers /\ (v = w \/ v \in JobsOf(c))
        BY <3>1 DEF JobsOf, At
      <4> QED
        BY <1>a, <3>5, <3>6, <4>1 DEF RefusedOnce
    <3> QED
      BY <3>4, <3>7, <3>8 DEF DirInv
  <2> QED
    BY <2>4, <2>5
<1>3. ASSUME NEW w \in Workers, Look(w) \/ Test(w) \/ Access(w) PROVE DirInv'
  <2>1. /\ job[w] \in Jobs /\ ~ At(w, "answer") /\ UNCHANGED <<client, inbox, dir>>
        /\ ~ At(w, "idle") /\ ~ At(w, "mkdir")
    BY <1>3, <1>a, JobTyped DEF Look, Test, Access, At, Stages
  <2>2. \/ \E code \in Codes \ {"EEXIST"} : Fails(w, code)
        \/ \E pc \in Stages \ {"answer", "mkdir"} : Goto(w, pc)
        \/ Goto(w, "mkdir") /\ ~ dir
    BY <1>3 DEF Look, Test, Access, Codes, Stages
  <2>3. CASE Goto(w, "mkdir") /\ ~ dir
    <3>1. /\ job'[w].pc = "mkdir" /\ job'[w].from = job[w].from /\ job'[w].ret = job[w].ret
          /\ \A v \in Workers \ {w} : job'[v] = job[v]
      BY <1>a, <2>1, <2>3 DEF NodeTypes, Goto, Jobs
    <3>2. ~ Refused(w)'
      BY <1>b, <2>1, <3>1 DEF Refused, At
    <3>3. \A v \in Workers : /\ (job[v].pc = "idle") <=> (job'[v].pc = "idle")
                             /\ ~ At(v, "idle") => job'[v].from = job[v].from
      BY <2>1, <3>1 DEF At
    <3>4. \A v \in Workers : /\ Refused(v)' => dir' /\ At(v, "answer")' /\ MayFail(v)
                             /\ At(v, "mkdir")' => At(v, "mkdir") \/ ~ dir
      BY <1>b, <2>1, <2>3, <3>1, <3>2 DEF Refused, MayFail, At
    <3> QED
      BY <2>1, <3>3, <3>4, JobsGoOn
  <2> QED
    BY <2>1, <2>2, <2>3, JobGoesOn, JobEndsWell
<1>4. ASSUME NEW w \in Workers, Mkdir(w) PROVE DirInv'
  <2>1. At(w, "mkdir") /\ job[w] \in Jobs /\ dir' = TRUE /\ UNCHANGED <<client, inbox>>
    BY <1>4, <1>a, JobTyped DEF Mkdir, Stages
  <2>2. /\ job'[w].pc \in {"answer", "write"} /\ job'[w].from = job[w].from
        /\ job'[w].pc = "answer" \/ job'[w].ret = job[w].ret
        /\ \A v \in Workers \ {w} : job'[v] = job[v]
    <3>1. Fails(w, "EEXIST") \/ Goto(w, "write")
      BY <1>4 DEF Mkdir
    <3> QED
      BY <1>a, <2>1, <3>1 DEF NodeTypes, Fails, Goto, Jobs
  <2>3. \A v \in Workers : /\ (job[v].pc = "idle") <=> (job'[v].pc = "idle")
                           /\ ~ At(v, "idle") => job'[v].from = job[v].from
    BY <2>1, <2>2 DEF At
  <2>4. \A v \in Workers : /\ Refused(v)' => dir' /\ At(v, "answer")' /\ MayFail(v)
                           /\ At(v, "mkdir")' => At(v, "mkdir") \/ ~ dir
    BY <1>b, <2>1, <2>2 DEF Refused, MayFail, At
  <2> QED
    BY <2>1, <2>3, <2>4, JobsGoOn
<1>5. ASSUME NEW w \in Workers,
             \/ Write(w) \/ LockCtrl(w) \/ LockUpload(w) \/ LockAlone(w)
             \/ CopySent(w) \/ CopyFails(w) \/ CopyTimeout(w) \/ Unlock(w)
      PROVE  DirInv'
  <2>1. UNCHANGED <<client, inbox, dir>>
    BY <1>5 DEF Write, LockCtrl, LockUpload, LockAlone, CopySent, CopyFails, CopyTimeout, Unlock
  <2>2. job[w].pc \in {"write", "lock", "copy", "wait"}
    BY <1>5 DEF Write, LockCtrl, LockUpload, LockAlone, CopySent, CopyFails, CopyTimeout, Unlock, At
  <2>3. job[w] \in Jobs /\ ~ At(w, "answer")
    BY <1>a, <2>2 DEF NodeTypes, Idle, At
  <2>4. \/ \E code \in Codes \ {"EEXIST"} : Fails(w, code)
        \/ Goto(w, "answer")
        \/ \E pc \in Stages \ {"answer", "mkdir"} : Goto(w, pc)
        \/ job' = [job EXCEPT ![w].copy = job[w].copy + 1] /\ job[w].pc = "copy"
        \/ job' = [job EXCEPT ![w].pc = "copy", ![w].copy = job[w].copy + 1]
    <3>1. CASE Write(w)
      BY <3>1 DEF Write, Codes, Stages
    <3>2. CASE LockCtrl(w) \/ LockUpload(w) \/ LockAlone(w)
      BY <3>2 DEF LockCtrl, LockUpload, LockAlone, Codes, Stages
    <3>3. CASE CopySent(w) \/ Unlock(w)
      BY <3>3 DEF CopySent, Unlock, Codes, Stages
    <3>4. CASE CopyFails(w)
      BY <3>4 DEF CopyFails, At
    <3>5. CASE CopyTimeout(w)
      BY <1>a, <2>2, <3>5 DEF CopyTimeout, NodeTypes
    <3> QED
      BY <1>5, <3>1, <3>2, <3>3, <3>4, <3>5
  <2>5. "copy" \in Stages \ {"answer", "mkdir"}
    BY DEF Stages
  <2> QED
    BY <2>1, <2>3, <2>4, <2>5, JobGoesOn, JobEndsWell
<1>6. ASSUME NEW w \in Workers, Answer(w) PROVE DirInv'
  <2>1. /\ At(w, "answer") /\ job' = [job EXCEPT ![w] = Idle] /\ UNCHANGED <<inbox, dir>>
        /\ job[w] \in Jobs
    BY <1>6, <1>a, JobTyped DEF Answer, Stages
  <2>2. PICK a : a = job[w].from
    OBVIOUS
  <2>3. a \in Actors /\ client[a] \in Calls /\ client \in [Actors -> Calls]
    BY <1>a, <2>1, <2>2 DEF Jobs, ClientTypes
  <2>4. job'[w].pc = "idle" /\ \A v \in Workers \ {w} : job'[v] = job[v]
    BY <1>a, <2>1 DEF NodeTypes, Idle
  <2>5. /\ \A d \in Actors \ {a} : client'[d] = client[d]
        /\ client'[a].pc \in {client[a].pc, "ended"}
        /\ client[a].pc # "sent" => client' = client
        /\ client'[a].dirErrors = client[a].dirErrors \/
             (client'[a].dirErrors = client[a].dirErrors + 1 /\ job[w].ret = "EEXIST")
    <3>1. CASE UNCHANGED client
      BY <3>1
    <3>2. CASE client[a].pc = "sent" /\ Returns(a, job[w].ret)
      <4>1. \A d \in Actors \ {a} : client'[d] = client[d]
        BY <2>3, <3>2 DEF Returns
      <4>2. client'[a].pc = "ended"
        BY <2>3, <3>2 DEF Returns, Calls
      <4>3. client'[a].dirErrors = client[a].dirErrors + IF job[w].ret = "EEXIST" THEN 1 ELSE 0
        BY <2>3, <3>2 DEF Returns, Calls
      <4>4. client[a].dirErrors \in Nat
        BY <2>3 DEF Calls
      <4> QED
        BY <3>2, <4>1, <4>2, <4>3, <4>4
    <3> QED
      BY <1>6, <2>2, <3>1, <3>2 DEF Answer
  <2>6. \A d \in Clients : JobsOf(d)' = JobsOf(d) \ {w} /\ MessagesOf(d)' = MessagesOf(d)
    BY <2>1, <2>4 DEF JobsOf, MessagesOf, At
  <2>7. \A d \in Clients : d \in Actors
    BY DEF Actors
  <2>8. w \in JobsOf(a)
    BY <2>1, <2>2 DEF JobsOf, At
  <2>9. OneAtATime'
    <3> SUFFICES ASSUME NEW d \in Clients
                 PROVE  /\ client'[d].pc # "send"
                        /\ client'[d].pc \in {"manager", "ask", "connect"} =>
                             MessagesOf(d)' = {} /\ JobsOf(d)' = {}
                        /\ MessagesOf(d)' = {} \/ JobsOf(d)' = {}
                        /\ \A x, y \in MessagesOf(d)' : x = y
                        /\ \A x, y \in JobsOf(d)' : x = y
      BY DEF OneAtATime
    <3>1. client'[d].pc = client[d].pc \/ client'[d].pc = "ended"
      BY <2>5, <2>7
    <3> QED
      BY <1>a, <2>6, <3>1 DEF OneAtATime
  <2>10. /\ ~ Refused(w)' /\ ~ MayFail(w)'
         /\ \A v \in Workers \ {w} : Refused(v)' = Refused(v) /\ MayFail(v)' = MayFail(v)
    BY <2>4 DEF Refused, MayFail, At
  <2>11. RefusedHaveDir'
    BY <1>b, <2>1, <2>4, <2>10 DEF RefusedHaveDir, At
  <2>12. RefusedOnce'
    <3> SUFFICES ASSUME NEW d \in Clients
                 PROVE  /\ client'[d].dirErrors \in {0, 1}
                        /\ client'[d].dirErrors = 1 => dir' /\ \A v \in JobsOf(d)' : ~ MayFail(v)'
      BY DEF RefusedOnce
    <3>a. /\ client[d].dirErrors \in {0, 1}
          /\ client[d].dirErrors = 1 => dir /\ \A v \in JobsOf(d) : ~ MayFail(v)
      BY <1>a DEF RefusedOnce
    <3>b. \A v \in JobsOf(d)' : v \in JobsOf(d) /\ v \in Workers \ {w}
      BY <2>6 DEF JobsOf
    <3>1. CASE client'[d].dirErrors = client[d].dirErrors
      BY <2>1, <2>10, <3>1, <3>a, <3>b
    <3>2. CASE client'[d].dirErrors # client[d].dirErrors
      <4>1. d = a /\ client'[d].dirErrors = client[d].dirErrors + 1 /\ job[w].ret = "EEXIST"
        BY <2>5, <2>7, <3>2
      <4>2. Refused(w) /\ MayFail(w) /\ dir
        BY <1>b, <2>1, <4>1 DEF Refused, MayFail, At
      <4>3. client[d].dirErrors = 0 /\ client'[d].dirErrors = 1
        BY <2>8, <3>a, <4>1, <4>2
      <4>4. JobsOf(d)' = {}
        BY <1>a, <2>6, <2>8, <4>1 DEF OneAtATime
      <4> QED
        BY <2>1, <4>2, <4>3, <4>4
    <3> QED
      BY <3>1, <3>2
  <2> QED
    BY <2>9, <2>11, <2>12 DEF DirInv
<1>7. ASSUME BeatMerges PROVE DirInv'
  <2>1. PICK s \in Statuses :
          job' = [w \in Workers |-> IF At(w, "idle") THEN job[w]
                                    ELSE [job[w] EXCEPT !.active = @ \/ s = ACTIVE]]
    BY <1>7 DEF BeatMerges
  <2>2. UNCHANGED <<client, inbox, dir>>
    BY <1>7 DEF BeatMerges
  <2>3. ASSUME NEW w \in Workers
        PROVE  /\ job'[w].pc = job[w].pc
               /\ ~ At(w, "idle") => job'[w].from = job[w].from /\ job'[w].ret = job[w].ret
    <3>1. CASE At(w, "idle")
      BY <2>1, <3>1
    <3>2. CASE ~ At(w, "idle")
      <4>1. job[w] \in Jobs
        BY <1>a, <3>2 DEF NodeTypes, At, Idle
      <4>2. job'[w] = [job[w] EXCEPT !.active = job[w].active \/ s = ACTIVE]
        BY <2>1, <3>2
      <4> QED
        BY <4>1, <4>2 DEF Jobs
    <3> QED
      BY <3>1, <3>2
  <2>4. \A v \in Workers : /\ Refused(v)' => dir' /\ At(v, "answer")' /\ MayFail(v)
                           /\ At(v, "mkdir")' => At(v, "mkdir") \/ ~ dir
    BY <1>b, <2>2, <2>3 DEF Refused, MayFail, At
  <2> QED
    BY <2>2, <2>3, <2>4, JobsGoOn
<1>8. CASE BeatStarts \/ BeatReports \/ UNCHANGED vars
  <2>1. UNCHANGED <<client, inbox, job, dir>>
    BY <1>8 DEF BeatStarts, BeatReports, vars
  <2> QED
    BY <2>1 DEF DirInv, OneAtATime, RefusedHaveDir, RefusedOnce, MessagesOf, JobsOf, Refused,
                MayFail, At
<1> QED
  BY <1>1, <1>2, <1>3, <1>4, <1>5, <1>6, <1>7, <1>8
     DEF Next, WorkerStep, WorkerLocks

\* A client is refused the directory of its object at most once (directory.cpp:50-54).
THEOREM RefusedDirOnce == Spec => []DirFailsOnce
<1>1. DirInv => DirFailsOnce
  BY DEF DirInv, RefusedOnce, DirFailsOnce
<1> QED
  BY <1>1, InitDir, StepDir, UploadInvHolds, PTL DEF Spec
=============================================================================
