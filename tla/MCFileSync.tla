----------------------------- MODULE MCFileSync -----------------------------
(* Two sources, two data files: a destination may lack a file, have one of   *)
(* another hash code, or have one no source lists.                           *)
EXTENDS FileSync

CONSTANTS f1, f2, s1, s2

Table(fs) == [p \in fs |-> 1]
MCSourceTables == [s \in Sources |-> IF s = s1 THEN {Table({f1})} ELSE {Table({f1, f2})}]
MCDestTables == {Table({f2})}
\* Only one source meets the destination's shortcut for version 2.
MCVersions == [s \in Sources |-> IF s = s1 THEN {1, 2} ELSE {1}]
MCTold == {ACTIVE, OFFLINE}
=============================================================================
