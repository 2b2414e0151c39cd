------------------------------ MODULE VnodeInfo ------------------------------
(***************************************************************************)
(* The class vnode_info of the proxy node (src/proxynode/node_info.cpp):    *)
(* the replicas of one vnode and how a request picks one of them.           *)
(*                                                                          *)
(* replica_list is a sequence of devices in the order they were pushed; the *)
(* status of the replica a device holds is kept beside it, in a function    *)
(* from devices to statuses.  Devices are positive naturals; NoDevice is    *)
(* the NULL replica_info pointer.                                           *)
(***************************************************************************)
EXTENDS SequencesExt

\* The replica statuses of proxy_protocol.h.
INIT      == 0
ONLINE    == 1
WAIT_SYNC == 2
COPY_SRC  == 3
MOVE_SRC  == 4
ACTIVE    == 5
OFFLINE   == 6

Statuses == INIT .. OFFLINE

\* Mutant: a copy's source is not one.
IsSourceMove(s) == s = MOVE_SRC

IsSource(s) == s \in {COPY_SRC, MOVE_SRC}

NoDevice == 0

Holders(list) == {list[i] : i \in 1..Len(list)}

-----------------------------------------------------------------------------
(* Round robin.  A cursor (rd_req_robin, wr_req_robin) counts from 0; a      *)
(* request probes at most Len(list) slots, resetting the cursor when it has  *)
(* run past the list and advancing it at every probe.                        *)

Wrap(n, cursor) == IF cursor >= n THEN 0 ELSE cursor

\* The 1-based slot of the k-th probe (k from 0); it is also the cursor's
\* value after that probe.
Slot(n, cursor, k) == LET s == Wrap(n, cursor) + k
                      IN  IF s >= n THEN s - n + 1 ELSE s + 1

\* Mutant: the loop makes one probe too few (i < size - 1).
ReadHitsShort(list, status, rd) ==
    {k \in 0..(Len(list) - 1) : /\ k + 1 < Len(list)
                                /\ status[list[Slot(Len(list), rd, k)]] = ACTIVE}

\* The probes of a read that would find an ACTIVE replica.
ReadHits(list, status, rd) ==
    {k \in 0..(Len(list) - 1) : status[list[Slot(Len(list), rd, k)]] = ACTIVE}

FirstOf(S) == CHOOSE k \in S : \A j \in S : k <= j

\* The replica get_read_replica() answers with, NoDevice when it answers -1 or -2.
get_read_replica(list, status, rd) ==
    LET hits == ReadHits(list, status, rd)
    IN  IF hits = {} THEN NoDevice
                     ELSE list[Slot(Len(list), rd, FirstOf(hits))]

\* Mutant: the cursor stays on the replica it gave (no rd_req_robin++ on a hit).
ReadCursorStays(list, status, rd) ==
    LET hits == ReadHits(list, status, rd)
    IN  IF hits = {} THEN Wrap(Len(list), rd)
                     ELSE Slot(Len(list), rd, FirstOf(hits)) - 1

\* rd_req_robin after the call.
ReadCursor(list, status, rd) ==
    LET hits == ReadHits(list, status, rd)
        n    == Len(list)
    IN  IF n = 0 THEN rd
        ELSE Slot(n, rd, IF hits = {} THEN n - 1 ELSE FirstOf(hits))

\* get_write_replica() steps its iterator rd_req_robin times, whatever
\* wr_req_robin is, so all its probes look at the same element ...
get_write_replica(list, status, rd) ==
    IF list # <<>> /\ status[list[rd + 1]] = ACTIVE THEN list[rd + 1] ELSE NoDevice

\* ... and when the read cursor rests on the list's size it dereferences end().
WritePastEnd(list, rd) == list # <<>> /\ rd >= Len(list)

\* wr_req_robin after a call that returned `dev'.
WriteCursor(list, wr, dev) ==
    LET n == Len(list)
    IN  IF n = 0 THEN wr ELSE Slot(n, wr, IF dev = NoDevice THEN n - 1 ELSE 0)

-----------------------------------------------------------------------------
\* Mutant: only the first replica is compared.
is_diff_zonesFirst(list, zoneOf, zone) ==
    \A d \in {list[i] : i \in {1} \cap 1..Len(list)} : zoneOf[d] # zone

\* Is `zone' different from the zones of all replicas?  zoneOf maps devices to zones.
is_diff_zones(list, zoneOf, zone) == \A d \in Holders(list) : zoneOf[d] # zone

\* destroy_replica_info(): drop the replica `dev' holds, if there is one.
destroy_replica_info(list, dev) ==
    LET at == {i \in 1..Len(list) : list[i] = dev}
    IN  IF at = {} THEN list ELSE RemoveAt(list, FirstOf(at))
=============================================================================
