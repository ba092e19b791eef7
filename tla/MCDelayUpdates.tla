--------------------------- MODULE MCDelayUpdates ---------------------------
(* Symmetry of the runs of DelayUpdates: sessions and files are alike.     *)
EXTENDS DelayUpdates, TLC

Symmetry == Permutations(Sessions) \cup Permutations(Files)
=============================================================================
