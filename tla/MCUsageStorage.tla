--------------------------- MODULE MCUsageStorage ----------------------------
(* Model values of UsageStorage for TLC.                                   *)
EXTENDS UsageStorage, TLC

\* Keys, models and requests are interchangeable (safety runs only).
Symmetry == Permutations(Keys) \cup Permutations(Models) \cup Permutations(Requests)
=============================================================================
