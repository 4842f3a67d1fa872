-------------------------- MODULE MCDashboardStats ---------------------------
(* Model values of DashboardStats for TLC.                                 *)
EXTENDS DashboardStats, TLC

Symmetry == Permutations(Keys) \cup Permutations(Models) \cup Permutations(Requests)
=============================================================================
