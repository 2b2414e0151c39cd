--------------------------- MODULE NodeContainer ---------------------------
(***************************************************************************)
(* CDeviceContainer of proxynode/node_container.cpp: an array of pointers  *)
(* and a count.  Slots are counted from 0 as in the code.                  *)
(***************************************************************************)
EXTENDS Integers

CONSTANTS
  Addrs, Objects, NULL,
  KL_PROXY_CONTAINER_SIZE  \* slots allocated by the constructor (100)

Device == [addr : Addrs, object : Objects]

ASSUME ContainerAssumption ==
  /\ KL_PROXY_CONTAINER_SIZE \in Nat \ {0}
  /\ NULL \notin Device

VARIABLES
  m_pnode_container,  \* the slots
  m_node_count,
  asked_for,          \* history: the last call
  found,              \* what the last get_node_by_addr() returned
  overrun             \* a slot outside the allocated memory was written

tableVars == <<m_pnode_container, m_node_count, asked_for, found, overrun>>

Slots == 0 .. KL_PROXY_CONTAINER_SIZE - 1
Kept == 0 .. m_node_count - 1

TableInit ==
  /\ m_pnode_container = [i \in Slots |-> NULL]
  /\ m_node_count = 0 /\ asked_for = <<>> /\ found = NULL /\ overrun = FALSE

\* The loops over the slots with node_diff_cmp(): the first device of an address.
IsFirst(i, a) ==
  /\ i \in Kept /\ m_pnode_container[i].addr = a
  /\ \A j \in Kept : j < i => m_pnode_container[j].addr # a

Missing(a) == \A i \in Kept : m_pnode_container[i].addr # a

\* add_node() of a device created on the heap: nothing asks whether its address is known.
add_node(d) ==
  /\ ~ overrun /\ m_node_count < KL_PROXY_CONTAINER_SIZE
  /\ \A i \in Kept : m_pnode_container[i].object # d.object
  /\ m_pnode_container' = [m_pnode_container EXCEPT ![m_node_count] = d]
  /\ m_node_count' = m_node_count + 1 /\ asked_for' = <<"add", d>>
  /\ UNCHANGED <<found, overrun>>

\* The array is full: realloc() is given the new number of slots for a number of bytes, so
\* the new slot, and most of the old ones, lie behind the end of the memory.
add_node_full(d) ==
  /\ ~ overrun /\ m_node_count = KL_PROXY_CONTAINER_SIZE
  /\ overrun' = TRUE
  /\ UNCHANGED <<m_pnode_container, m_node_count, asked_for, found>>

\* A plausible slip: the last slot is cleared without the swap.
SwapOutForgotten(i) ==
  [m_pnode_container EXCEPT ![m_node_count - 1] = NULL]

\* The last device takes the slot of the deleted one.
SwapOut(i) ==
  [m_pnode_container EXCEPT ![i] = m_pnode_container[m_node_count - 1], ![m_node_count - 1] = NULL]

\* delete_node() of an address the container holds, as its comment asks.
delete_node(a) ==
  /\ ~ overrun
  /\ \E i \in Kept : IsFirst(i, a) /\ m_pnode_container' = SwapOut(i)
  /\ m_node_count' = m_node_count - 1 /\ asked_for' = <<"delete", a>>
  /\ UNCHANGED <<found, overrun>>

get_node_by_addr(a) ==
  /\ ~ overrun
  /\ \/ Missing(a) /\ found' = NULL
     \/ \E i \in Kept : IsFirst(i, a) /\ found' = m_pnode_container[i]
  /\ asked_for' = <<"find", a>>
  /\ UNCHANGED <<m_pnode_container, m_node_count, overrun>>

TableNext ==
  \/ \E d \in Device : add_node(d) \/ add_node_full(d)
  \/ \E a \in Addrs : delete_node(a) \/ get_node_by_addr(a)

TableSpec == TableInit /\ [][TableNext]_tableVars

-----------------------------------------------------------------------------
TableTypeOK ==
  /\ m_pnode_container \in [Slots -> Device \cup {NULL}]
  /\ m_node_count \in 0 .. KL_PROXY_CONTAINER_SIZE
  /\ found \in Device \cup {NULL} /\ overrun \in BOOLEAN

\* The counted slots hold devices, each object once.
SlotsFilled ==
  /\ \A i \in Kept : m_pnode_container[i] # NULL
  /\ \A i, j \in Kept : m_pnode_container[i].object = m_pnode_container[j].object => i = j

(* The array implements the set: adding, deleting with the swap of the last *)
(* device and finding by address do to the devices in the counted slots     *)
(* what DeviceSet says (node_container.cpp:119-179, 240-254), until a       *)
(* device more than KL_PROXY_CONTAINER_SIZE joins (node_container.cpp:160). *)
Table == INSTANCE DeviceSet WITH
  devices <- {m_pnode_container[i] : i \in Kept}, request <- asked_for, answer <- found, lost <- overrun

TableRefined == Table!SetInit /\ [][Table!SetNext]_(Table!setVars)
=============================================================================
