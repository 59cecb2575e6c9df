---------------------------- MODULE MCChunkCache ----------------------------
(* Values of the constants of ChunkCache for TLC: a file of four chunks    *)
(* of two bytes and a last one of one byte.                                *)
EXTENDS ChunkCache

(* Across one and two boundaries, past the end of the file, and empty.     *)
MCRequests == {<<3, 2>>, <<5, 4>>, <<10, 1>>, <<2, 0>>}

(* One whole chunk at a time. *)
MCChunkRequests == {<<0, 2>>, <<2, 2>>, <<4, 2>>}
=============================================================================
