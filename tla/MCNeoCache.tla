----------------------------- MODULE MCNeoCache -----------------------------
(* Three loaders for NeoCache. *)
EXTENDS NeoCache, TLC

CONSTANTS l1, l2, l3

MCLoaders == {l1, l2, l3}
Symmetry == Permutations(Loaders)
=============================================================================
