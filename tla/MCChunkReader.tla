---------------------------- MODULE MCChunkReader ----------------------------
(* Instances of ChunkReader for TLC: two archives, whose dictionaries differ *)
(* though their IDs agree, and four chunks for caches of two.                *)
EXTENDS ChunkReader, TLC

CONSTANTS a1, a2, r1, r2

MCArchive == {a1, a2}
MCReader == {r1, r2}
MCDict == [a \in MCArchive |-> [d \in {1} |-> a]]
MCDictOf == [c \in {1, 2, 3, 4} |-> IF c = 1 THEN 1 ELSE 0]

Symmetry == Permutations(MCReader)
=============================================================================
