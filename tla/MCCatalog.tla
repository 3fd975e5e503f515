----------------------------- MODULE MCCatalog ------------------------------
(* Small instances of Catalog. *)
EXTENDS Catalog, TLC

Symmetry == Permutations(Handlers)

\* The responses in the cache and on their way to it.
Responding ==
    {cache[k].response : k \in {l \in Keys : Cached(l)}}
    \cup {handler[h].response : h \in {g \in Handlers : At(g, "store")}}

\* The state without the ages of values that no such response holds: they
\* count from zero when the row takes the value again.
Relevant ==
    <<row, unborn, cache, search, handler,
      {<<p, r[p], since[p][r[p]]>> :
            <<p, r>> \in {x \in Products \X Responding : x[1] \in DOMAIN x[2]}}>>

=============================================================================
