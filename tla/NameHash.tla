------------------------------ MODULE NameHash ------------------------------
(***************************************************************************)
(* CNameSpaceHash of common/hash.cpp: the name of a file is hashed to a    *)
(* key, the keys are cut into one partition per vnode.  The machine hands  *)
(* out the keys one after the other, for every number of vnodes a          *)
(* configuration may ask for, and counts what each vnode gets.             *)
(***************************************************************************)
EXTENDS Integers, Sequences

CONSTANTS
  Keys,         \* 1 << m_nname_power, the number of keys
  VnodeCounts,  \* the configured values of m_nvnode_count
  HashSize      \* 2^64: uhash is a uint64_t

ASSUME NameHashAssumption ==
  /\ Keys \in Nat \ {0} /\ HashSize \in Nat
  /\ Keys <= HashSize  \* 1 << m_nname_power is itself a uint64_t
  /\ VnodeCounts \subseteq Nat \ {0}

VARIABLES
  nvnode,  \* m_nvnode_count
  key,     \* the next key
  load     \* how many keys each vnode was given, <<>> when the proxy died

nameVars == <<nvnode, key, load>>

\* bkdr_hash(): the loop and its body each advance p, so every other character counts.
bkdr_hash(str) ==
  LET h[i \in 0 .. (Len(str) + 1) \div 2] ==
        IF i = 0 THEN 0 ELSE (h[i - 1] * 131 + str[2 * i - 1]) % HashSize
  IN h[(Len(str) + 1) \div 2]

Partition(n) == Keys \div n

\* A plausible slip: the modulo is taken before the rotation.
VnodeOfUnwrapped(k, n) ==
  ((k \div Partition(n)) % n) + 1

\* The vnode of a key: its partition, rotated by one.
VnodeOf(k, n) ==
  (k \div Partition(n) + 1) % n

\* get_vnode_id(): digits is the MD5 of the name as 32 hexadecimal characters.
get_vnode_id(digits, n) == VnodeOf(bkdr_hash(digits) % Keys, n)

NameInit == nvnode \in VnodeCounts /\ key = 0 /\ load = [v \in 0 .. nvnode - 1 |-> 0]

\* A name is looked up whose digits hash to the next key, whatever the digit in between.
NameLookup ==
  /\ key < Keys /\ load # <<>> /\ Partition(nvnode) > 0
  /\ \E other \in 0 .. 1 : LET v == get_vnode_id(<<key, other>>, nvnode) IN
       load' = [u \in DOMAIN load \cup {v} |->
                  (IF u \in DOMAIN load THEN load[u] ELSE 0) + (IF u = v THEN 1 ELSE 0)]
  /\ key' = key + 1
  /\ UNCHANGED nvnode

\* More vnodes than keys: key_hash / key_partition divides by zero, the process is killed.
NameLookupDies ==
  /\ load # <<>> /\ Partition(nvnode) = 0
  /\ load' = <<>>
  /\ UNCHANGED <<nvnode, key>>

NameNext == NameLookup \/ NameLookupDies
NameSpec == NameInit /\ [][NameNext]_nameVars

NameTypeOK ==
  /\ nvnode \in VnodeCounts /\ key \in 0 .. Keys
  /\ load = <<>> \/ DOMAIN load = 0 .. nvnode - 1

(* Once every key was handed out each vnode has had its partition, and none *)
(* has had more than twice that, though the keys left over when the number   *)
(* of vnodes does not divide the number of keys start again at the vnode the *)
(* rotation started at (hash.cpp:428-430).                                   *)
LoadsEven ==
  key = Keys => \A v \in 0 .. nvnode - 1 : load[v] \in Partition(nvnode) .. 2 * Partition(nvnode)
=============================================================================
