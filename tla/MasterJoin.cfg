\* Joins only: three addresses in two zones, two vnodes, rejoins, and a join that
\* runs out of memory.
SPECIFICATION JoinSpec
CONSTANTS
    a1 = a1
    a2 = a2
    a3 = a3
    Addrs = {a1, a2, a3}
    Zone <- MCZone
    Weight <- MCWeight
    NoAddr = NoAddr
    VnodeCount = 2
    ReplicaCount = 3
    MaxDevices = 4
    MaxAllocFails = 2
    MaxVersion = 0
    MaxEvents = 0
    MaxBatch = 0
    Batches <- MCBatches
INVARIANTS
    ZoneSeparation
    ListsAgree
CHECK_DEADLOCK FALSE
