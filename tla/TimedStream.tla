---------------------------- MODULE TimedStream ----------------------------
(***************************************************************************)
(* common/timed_stream.cpp over common/sockstream.cpp, sock.cpp and        *)
(* connector.cpp: two ends of a connection that send and receive fixed     *)
(* numbers of bytes with a timeout.  A call tries the non-blocking socket, *)
(* polls when it would block, and tries again; each wait has the whole     *)
(* timeout of the call.  Every end runs a script of calls and stops at the *)
(* first that fails, as every caller in the program does.                  *)
(***************************************************************************)
EXTENDS Integers, Sequences, FiniteSetsExt

CONSTANTS
  Scripts,  \* the pairs of scripts: [client |-> <<call, ...>>, server |-> <<call, ...>>]
  Room      \* bytes the kernel buffers for one direction

Ends == {"client", "server"}
Other(e) == IF e = "client" THEN "server" ELSE "client"

ASSUME TimedAssumption ==
  /\ Room \in Nat \ {0}
  /\ \A s \in Scripts : s \in [Ends -> Seq([op : {"send", "recv"}, len : Nat]) \ {<<>>}]

VARIABLES
  script,   \* what each end does
  wire,     \* wire[e]: bytes e sent that the other end has not received
  sent,     \* sent[e]: bytes the kernel took from e; bytes are numbered by it
  call,     \* call[e]: the current call of e's script
  left,     \* left[e]: nleft_bytes
  got,      \* got[e]: the caller's buffer of the current call
  moved,    \* history: moved[e][op]: the bytes that e's calls before the current one asked for
  state,    \* state[e]: "closed", "trying", "polling", "done", "failed"
  errno,    \* errno[e]: what the last call returned: "0", "EAGAIN", "ENOTCONN", ...
  closes    \* closes[e]: close() calls on e's descriptor

streamVars == <<script, wire, sent, call, left, got, moved, state, errno, closes>>

Running(e) == state[e] \in {"trying", "polling"}
Gone(e) == state[e] \in {"done", "failed"}
Op(e) == script[e][call[e]].op
Length(e) == IF call[e] \in DOMAIN script[e] THEN script[e][call[e]].len ELSE 0

StreamInit ==
  /\ script \in Scripts
  /\ wire = [e \in Ends |-> <<>>] /\ sent = [e \in Ends |-> 0]
  /\ call = [e \in Ends |-> 1] /\ left = [e \in Ends |-> Length(e)]
  /\ got = [e \in Ends |-> <<>>] /\ moved = [e \in Ends |-> [send |-> 0, recv |-> 0]]
  /\ state = [e \in Ends |-> "closed"] /\ errno = [e \in Ends |-> "0"]
  /\ closes = [e \in Ends |-> 0]

\* stream_connect(): the descriptor passes to the stream, which makes it non-blocking.
Connect ==
  /\ state["client"] = "closed"
  /\ state' = [e \in Ends |-> "trying"]
  /\ UNCHANGED <<script, wire, sent, call, left, got, moved, errno, closes>>

\* connect() fails: the connector still owns the descriptor and its destructor closes it.
ConnectFails ==
  /\ state["client"] = "closed"
  /\ state' = [state EXCEPT !["client"] = "failed"]
  /\ errno' = [errno EXCEPT !["client"] = "ECONNREFUSED"]
  /\ closes' = [closes EXCEPT !["client"] = 1]
  /\ UNCHANGED <<script, wire, sent, call, left, got, moved>>

Trying(e, op) == state[e] = "trying" /\ left[e] > 0 /\ Op(e) = op

\* send() takes some of the bytes; nobody reads them when the other end is gone.
SendSome(e) ==
  /\ Trying(e, "send")
  /\ \E n \in 1 .. Min({left[e], Room - Len(wire[e])}) :
       /\ wire' = [wire EXCEPT ![e] = IF Gone(Other(e)) THEN @ ELSE @ \o [i \in 1 .. n |-> sent[e] + i]]
       /\ sent' = [sent EXCEPT ![e] = @ + n]
       /\ left' = [left EXCEPT ![e] = @ - n]
  /\ UNCHANGED <<script, call, got, moved, state, errno, closes>>

\* A plausible slip: the buffer is taken for full after one recv().
RecvSomeShort(e) ==
  LET w == wire[Other(e)] IN
  /\ Trying(e, "recv")
  /\ \E n \in 1 .. Min({left[e], Len(w)}) :
       /\ got' = [got EXCEPT ![e] = @ \o SubSeq(w, 1, n)]
       /\ wire' = [wire EXCEPT ![Other(e)] = SubSeq(@, n + 1, Len(@))]
       /\ left' = [left EXCEPT ![e] = 0]
  /\ UNCHANGED <<script, sent, call, moved, state, errno, closes>>

\* recv() yields some of the bytes that wait; ptr and nleft_bytes move on.
RecvSome(e) ==
  LET w == wire[Other(e)] IN
  /\ Trying(e, "recv")
  /\ \E n \in 1 .. Min({left[e], Len(w)}) :
       /\ got' = [got EXCEPT ![e] = @ \o SubSeq(w, 1, n)]
       /\ wire' = [wire EXCEPT ![Other(e)] = SubSeq(@, n + 1, Len(@))]
       /\ left' = [left EXCEPT ![e] = @ - n]
  /\ UNCHANGED <<script, sent, call, moved, state, errno, closes>>

\* The kernel has no room, or no byte: errno is EAGAIN and the call polls.
Blocked(e) ==
  IF Op(e) = "send" THEN Len(wire[e]) = Room /\ ~ Gone(Other(e))
  ELSE wire[Other(e)] = <<>> /\ ~ Gone(Other(e))

WouldBlock(e) ==
  /\ state[e] = "trying" /\ left[e] > 0 /\ Blocked(e)
  /\ state' = [state EXCEPT ![e] = "polling"]
  /\ errno' = [errno EXCEPT ![e] = "EAGAIN"]
  /\ UNCHANGED <<script, wire, sent, call, left, got, moved, closes>>

PollReady(e) ==
  /\ state[e] = "polling" /\ ~ Blocked(e)
  /\ state' = [state EXCEPT ![e] = "trying"]
  /\ UNCHANGED <<script, wire, sent, call, left, got, moved, errno, closes>>

\* The caller deletes its stream: the destructor of CSock closes the descriptor, the
\* connector's leaves it alone (m_isconnected).
Fail(e, code) ==
  /\ state' = [state EXCEPT ![e] = "failed"]
  /\ errno' = [errno EXCEPT ![e] = code]
  /\ closes' = [closes EXCEPT ![e] = @ + 1]
  /\ UNCHANGED <<script, wire, sent, call, left, got, moved>>

\* On a timeout poll() sets no revents, so the first test of its result returns, with
\* the errno the socket left; the branch for ETIMEDOUT is never reached.
PollTimeout(e) == state[e] = "polling" /\ Blocked(e) /\ Fail(e, errno[e])

\* A signal ends poll(), there is no retry.
PollInterrupted(e) == state[e] = "polling" /\ Fail(e, "EINTR")

\* recv() returns 0 at the end of the other end's bytes.
AtEnd(e) == Trying(e, "recv") /\ wire[Other(e)] = <<>> /\ Gone(Other(e))

\* A plausible slip: 0 bytes are taken for a reason to poll, which then reports the end at once.
PeerClosedPolls(e) ==
  /\ AtEnd(e)
  /\ state' = [state EXCEPT ![e] = "polling"]
  /\ UNCHANGED <<script, wire, sent, call, left, got, moved, errno, closes>>

PeerClosed(e) == AtEnd(e) /\ Fail(e, "ENOTCONN")

\* send() to an end that is gone.
SendReset(e) == Trying(e, "send") /\ Gone(Other(e)) /\ Fail(e, "EPIPE")

\* The call returns 0: the caller goes on to its next one.
Return(e) ==
  /\ state[e] = "trying" /\ left[e] = 0 /\ call[e] < Len(script[e])
  /\ call' = [call EXCEPT ![e] = @ + 1]
  /\ left' = [left EXCEPT ![e] = script[e][call[e] + 1].len]
  /\ got' = [got EXCEPT ![e] = <<>>]
  /\ moved' = [moved EXCEPT ![e][Op(e)] = @ + Length(e)]
  /\ errno' = [errno EXCEPT ![e] = "0"]
  /\ UNCHANGED <<script, wire, sent, state, closes>>

\* The last call returns 0.
Finish(e) ==
  /\ state[e] = "trying" /\ left[e] = 0 /\ call[e] = Len(script[e])
  /\ state' = [state EXCEPT ![e] = "done"]
  /\ errno' = [errno EXCEPT ![e] = "0"]
  /\ closes' = [closes EXCEPT ![e] = @ + 1]
  /\ UNCHANGED <<script, wire, sent, call, left, got, moved>>

\* What an end does without a signal or a timeout.
StreamStep(e) ==
  \/ SendSome(e) \/ RecvSome(e) \/ WouldBlock(e) \/ PollReady(e)
  \/ PollTimeout(e) \/ PeerClosed(e) \/ SendReset(e) \/ Return(e) \/ Finish(e)

StreamNext ==
  Connect \/ ConnectFails \/ \E e \in Ends : StreamStep(e) \/ PollInterrupted(e)

\* Threads run, and the kernel ends a poll() after its timeout at the latest.
StreamFairness == \A e \in Ends : WF_streamVars(StreamStep(e))

StreamSpec == StreamInit /\ [][StreamNext]_streamVars /\ StreamFairness

-----------------------------------------------------------------------------
StreamTypeOK ==
  /\ \A e \in Ends :
       /\ wire[e] \in Seq(Nat) /\ Len(wire[e]) <= Room
       /\ sent[e] \in Nat /\ call[e] \in 1 .. Len(script[e])
       /\ left[e] \in 0 .. Length(e)
       /\ state[e] \in {"closed", "trying", "polling", "done", "failed"}
       /\ errno[e] \in {"0", "EAGAIN", "EINTR", "ENOTCONN", "EPIPE", "ECONNREFUSED"}
       /\ closes[e] \in 0 .. 1

(* Whatever pieces the kernel takes and gives, however often a call polls,  *)
(* a call that returns 0 has moved exactly its bytes: what a receiver has   *)
(* in its buffer are the next bytes the other end sent, in order, the bytes *)
(* under way are those after them, and a sender that goes on to its next    *)
(* call has handed over every byte of the last (timed_stream.cpp:47-57,     *)
(* 112-122).                                                                *)
BytesInOrder ==
  \A e \in Ends :
    LET peer == Other(e)
        had  == moved[e].recv
        recd == had + Len(got[e])
        part == Length(e) - left[e]
    IN /\ got[e] = [i \in 1 .. Len(got[e]) |-> had + i]
       /\ ~ Gone(e) => wire[peer] = [i \in 1 .. sent[peer] - recd |-> recd + i]
       /\ Len(got[e]) = IF Op(e) = "recv" THEN part ELSE 0
       /\ sent[e] = moved[e].send + IF Op(e) = "send" THEN part ELSE 0

(* No end waits for ever, though each may wait for the other and each wait  *)
(* has the whole timeout again: both calls of a pair that are sent into     *)
(* full buffers, or wait for bytes nobody sends, end (timed_stream.cpp:69,  *)
(* 139).                                                                    *)
StreamsEnd == \A e \in Ends : Running(e) ~> Gone(e)
=============================================================================
