----------------------------- MODULE KeyRegistry -----------------------------
(***************************************************************************)
(* What the rest of the program assumes of the keys: a key becomes valid   *)
(* at most once, keys are revoked one at a time, and a revoked key never   *)
(* comes back.  UsageStorage's GenerateKey and RevokeKey are these two     *)
(* actions; KeyStore is the table that has to provide them.                *)
(***************************************************************************)
CONSTANT Keys

VARIABLES
    valid,      \* the keys that pass authentication
    dead        \* the keys that were revoked

Init == valid \in SUBSET Keys /\ dead = {}

Issue(k) ==
    /\ k \notin valid \cup dead
    /\ valid' = valid \cup {k}
    /\ UNCHANGED dead

Revoke(k) ==
    /\ k \in valid
    /\ valid' = valid \ {k}
    /\ dead' = dead \cup {k}

Next == \E k \in Keys: Issue(k) \/ Revoke(k)

Spec == Init /\ [][Next]_<<valid, dead>>
=============================================================================
