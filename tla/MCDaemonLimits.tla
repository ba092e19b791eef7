--------------------------- MODULE MCDaemonLimits ---------------------------
(* DaemonLimits for TLC. *)
EXTENDS DaemonLimits, TLC

(* Process ids are interchangeable; slots are not, being searched in order. *)
Symmetry == Permutations(Pids)

===========================================================================
