\* Two nodes in two zones, one vnode: all interleavings of joins, beats and
\* sync-downs.  The master may run out of the named bounds, so it may stop.
SPECIFICATION Spec
CONSTANTS
    a1 = a1
    a2 = a2
    a3 = a3
    Addrs = {a1, a2}
    Zone <- MCZone
    Weight <- MCWeight
    NoAddr = NoAddr
    VnodeCount = 1
    ReplicaCount = 2
    MaxDevices = 2
    MaxAllocFails = 0
    MaxVersion = 1
    MaxEvents = 3
    MaxBatch = 3
    Batches <- MCBatches
INVARIANTS
    TypeOK
    SomeCopy
    WaitSyncHasEvent
    SourceHasWork
    MasterStaysUp
CHECK_DEADLOCK FALSE
