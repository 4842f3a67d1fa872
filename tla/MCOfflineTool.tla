---------------------------- MODULE MCOfflineTool ----------------------------
(* Model values of OfflineTool for TLC.                                    *)
EXTENDS OfflineTool, TLC

CONSTANTS k1, k2, n1

\* A table with integer ids that holds a key of the file.
OldTable == <<[id |-> 1, name |-> n1, key |-> k1]>>

\* A file with a malformed entry and a duplicate one.
OldFile == <<[key |-> k1, name |-> n1], [key |-> NoKey, name |-> n1], [key |-> k1, name |-> n1],
             [key |-> k2, name |-> n1]>>

\* No id is named in the values above, and only safety is checked.
Symmetry == Permutations(Ids)
=============================================================================
