---------------------------- MODULE MCChunkWriter ----------------------------
(* Instances of ChunkWriter for TLC.  Two bytes fill a chunk and are no *)
(* longer small, so that the contents give the html entries both keys.  *)
EXTENDS ChunkWriter

MCMimeGroup == {"html", "image"}
MCGroupRank == [html |-> 1, image |-> 2]
MCContent == {<<>>, <<1>>, <<2>>, <<1, 2>>}
=============================================================================
