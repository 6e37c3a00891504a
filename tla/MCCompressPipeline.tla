------------------------- MODULE MCCompressPipeline -------------------------
(* Instances of CompressPipeline for TLC: two workers, so that each channel *)
(* holds four, and enough chunks to fill one.                               *)
EXTENDS CompressPipeline, TLC

CONSTANTS w1, w2, k1, k2

MCWorker == {w1, w2}
MCOneKey == {k1}
MCKey == {k1, k2}

Symmetry == Permutations(MCWorker) \union Permutations(MCKey)
=============================================================================
