---------------------------- MODULE MCEmailLinks ----------------------------
(* Small instances of EmailLinks. *)
EXTENDS EmailLinks

=============================================================================
