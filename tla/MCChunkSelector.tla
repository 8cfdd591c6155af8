--------------------------- MODULE MCChunkSelector ---------------------------
(***************************************************************************)
(* Instances of ChunkSelector, and of the ChunkManager below it, for TLC:  *)
(* small torrents whose files meet in the ways that the rules for border   *)
(* chunks tell apart.                                                      *)
(***************************************************************************)
EXTENDS ChunkSelector, SequencesExt

(* A layout is a sequence of <<first chunk, last chunk>>, one per file. *)
Firsts(layout) == [f \in 0 .. Len(layout) - 1 |-> layout[f + 1][1]]
Lasts(layout) == [f \in 0 .. Len(layout) - 1 |-> layout[f + 1][2]]

(* A file of three chunks whose border chunks hold a small file each. *)
SmallAtBothEnds == <<<<0, 0>>, <<0, 2>>, <<2, 2>>>>
Ends_First == Firsts(SmallAtBothEnds)
Ends_Last == Lasts(SmallAtBothEnds)

(* The smallest torrent with a border chunk and another one. *)
TwoChunks == <<<<0, 1>>, <<1, 1>>>>
Two_First == Firsts(TwoChunks)
Two_Last == Lasts(TwoChunks)

(* A file of two chunks, both shared with its neighbours. *)
TwoBorders == <<<<0, 1>>, <<1, 2>>, <<2, 3>>>>
Borders_First == Firsts(TwoBorders)
Borders_Last == Lasts(TwoBorders)

OneEach == [f \in File |-> 1]
=============================================================================
