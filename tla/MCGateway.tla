------------------------------ MODULE MCGateway ------------------------------
(* Model values of Gateway for TLC.                                        *)
EXTENDS Gateway

\* Two keys that share a name.
SharedName == [k \in Keys |-> <<"name">>]

\* A model whose own id differs from the advertised one.
OneModel == [m \in {"p/m"} |-> "m"]
=============================================================================
