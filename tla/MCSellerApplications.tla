------------------------ MODULE MCSellerApplications ------------------------
(* Small instances of SellerApplications. *)
EXTENDS SellerApplications, TLC

Symmetry == Permutations(Handlers)

=============================================================================
