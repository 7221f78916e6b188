----------------------------- MODULE MCTreeBins -----------------------------
(* Words of five bits: bins of the sizes 4-5, 6-7 and 8-11, and one of all  *)
(* larger ones, whose trie branches from the highest bit on.                *)
EXTENDS TreeBins, TLC
MCFreeSizes == {5, 8, 10, 12, 28, 30}
MCRequests == {1, 8, 9, 13}
MCSymmetry == Permutations(Chunks)
=============================================================================
