----------------------------- MODULE MCKeyStore ------------------------------
(* Model values of KeyStore for TLC.                                       *)
EXTENDS KeyStore

CONSTANTS k1, k2, n1, n2

\* A file with a duplicate entry and a malformed one.
JsonFile == <<[key |-> k1, name |-> n1], [key |-> k1, name |-> n2],
              [key |-> NoKey, name |-> n1], [key |-> k2, name |-> n1]>>

None == <<>>
=============================================================================
