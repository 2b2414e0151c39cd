\* The documented completion of a sync, when nothing fails.
SPECIFICATION FairSpec
CONSTANTS
    a1 = a1
    a2 = a2
    a3 = a3
    Addrs = {a1, a2}
    Zone <- MCZone
    Weight <- MCWeight
    NoAddr = NoAddr
    VnodeCount = 1
    ReplicaCount = 2
    MaxDevices = 2
    MaxAllocFails = 0
    MaxVersion = 0
    MaxFaults = 0
    MaxEvents = 6
    MaxBatch = 6
    Batches <- MCBatches
PROPERTIES
    SyncCompleted
CHECK_DEADLOCK FALSE
