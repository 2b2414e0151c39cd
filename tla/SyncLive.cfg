\* Two nodes and nothing that fails: the progress every beat makes.
SPECIFICATION FairSpec
CONSTANTS
    a1 = a1
    a2 = a2
    a3 = a3
    Addrs = {a1, a2}
    Zone <- MCZone
    Weight <- MCWeight
    NoAddr = NoAddr
    VnodeCount = 1
    ReplicaCount = 2
    MaxDevices = 2
    MaxAllocFails = 0
    MaxVersion = 1
    MaxFaults = 0
    MaxEvents = 6
    MaxBatch = 6
    Batches <- MCBatches
PROPERTIES
    RequestsAnswered
    
CHECK_DEADLOCK FALSE
