---------------------------- MODULE MCIndex ----------------------------
(* Small instances of IndexClients. *)
EXTENDS IndexQueries, IndexRefinement

MCNodeLists == {<<"s1">>}

Symmetry == Permutations(Threads)
=============================================================================
