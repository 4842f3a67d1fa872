---------------------------- MODULE MCAdminSocket ----------------------------
(* Model values of AdminSocket for TLC.                                    *)
EXTENDS AdminSocket

CONSTANTS k1, k2, n1, i1

\* Revocations by a name, and by an id.
AllWants ==
    {[op |-> "generate", arg |-> n1], [op |-> "revoke", arg |-> n1], [op |-> "revoke", arg |-> i1],
     [op |-> "stats", arg |-> n1], [op |-> "junk", arg |-> n1]}

\* A table with integer ids and two keys that share a name.
LegacyTable == <<[id |-> 1, name |-> n1, key |-> k1], [id |-> 2, name |-> n1, key |-> k2]>>

None == <<>>
=============================================================================
