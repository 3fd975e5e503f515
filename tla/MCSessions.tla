----------------------------- MODULE MCSessions -----------------------------
(* Small instances of Sessions. *)
EXTENDS Sessions, TLC

Symmetry == Permutations(Sessions) \cup Permutations(Handlers)

=============================================================================
