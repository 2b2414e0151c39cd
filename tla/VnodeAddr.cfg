\* Three devices, two replicas per write answer.  WriteAddrDies stops the system.
SPECIFICATION Spec
CONSTANTS
    Devices = {1, 2, 3}
    ReplicaCount = 3
INVARIANTS
    ReadFindsActive
    ReadsTakeTurns
CHECK_DEADLOCK FALSE
