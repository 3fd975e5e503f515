--------------------------- MODULE MCSerialCodes ----------------------------
(* A small instance of SerialCodes. *)
EXTENDS SerialCodes, TLC

Symmetry == Permutations(Handlers) \cup Permutations(Users)
                \cup Permutations(Phones)

\* The state without what is no longer read of a code that is used up.
Relevant ==
    <<phone, verified, handler, accepted,
      [i \in DOMAIN tokens |->
            IF tokens[i].used THEN <<tokens[i].phone, tokens[i].user>>
                              ELSE tokens[i]]>>

=============================================================================
