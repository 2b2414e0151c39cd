----------------------------- MODULE DeviceSet -----------------------------
(***************************************************************************)
(* What proxynode/node_container.h promises of CDeviceContainer: it keeps  *)
(* the devices that joined, it never holds one twice or loses one it was   *)
(* not asked to delete, and a device is found by its address whenever one  *)
(* with that address is kept, whatever order they are kept in.             *)
(***************************************************************************)
EXTENDS Integers

CONSTANTS
  Addrs,    \* ip and port of a device
  Objects,  \* device_info objects: a node that joins again comes with a new one
  NULL

Device == [addr : Addrs, object : Objects]

VARIABLES
  devices,  \* the devices kept
  request,  \* the last call
  answer,   \* what the last lookup returned
  lost      \* the promise ended: one device more than the container was made for

setVars == <<devices, request, answer, lost>>

SetInit == devices = {} /\ request = <<>> /\ answer = NULL /\ lost = FALSE

At(a) == {d \in devices : d.addr = a}

SetAdd(d) ==
  /\ ~ lost /\ \A e \in devices : e.object # d.object
  /\ devices' = devices \cup {d} /\ request' = <<"add", d>>
  /\ UNCHANGED <<answer, lost>>

SetDelete(a) ==
  /\ ~ lost
  /\ \E d \in At(a) : devices' = devices \ {d}
  /\ request' = <<"delete", a>>
  /\ UNCHANGED <<answer, lost>>

SetFind(a) ==
  /\ ~ lost
  /\ IF At(a) = {} THEN answer' = NULL ELSE answer' \in At(a)
  /\ request' = <<"find", a>>
  /\ UNCHANGED <<devices, lost>>

SetLose == lost' = TRUE /\ UNCHANGED <<devices, request, answer>>

SetNext ==
  \/ \E d \in Device : SetAdd(d)
  \/ \E a \in Addrs : SetDelete(a) \/ SetFind(a)
  \/ SetLose

SetSpec == SetInit /\ [][SetNext]_setVars
=============================================================================
