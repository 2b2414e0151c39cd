\* Two nodes in two zones, one vnode, one crash or timeout.
SPECIFICATION SysSpec
CONSTANTS
    a1 = a1
    a2 = a2
    a3 = a3
    Addrs = {a1, a2}
    Zone <- MCZone
    Weight <- MCWeight
    NoAddr = NoAddr
    VnodeCount = 1
    ReplicaCount = 3
    MaxDevices = 3
    MaxAllocFails = 0
    MaxVersion = 1
    MaxFaults = 1
    MaxEvents = 1
    MaxBatch = 3
    Batches <- MCBatches
INVARIANTS
    
    SyncedVnodeKept
PROPERTY
    MasterRefined
SYMMETRY Nodes
CHECK_DEADLOCK FALSE
