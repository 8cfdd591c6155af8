---------------------------- MODULE WebSeedRange ----------------------------
(***************************************************************************)
(* How a range of chunks is chosen for an idle webseed:                    *)
(* downloadFrom for webseeds of bt::Downloader                             *)
(* (src/src/download/downloader.cpp)                                       *)
(* and the loop of ChunkSelector::selectRange                              *)
(* (src/src/download/chunkselector.cpp), one iteration per step.           *)
(***************************************************************************)
EXTENDS Integers, FiniteSets

CONSTANTS
    MaxChunks,      \* bound on the number of chunks of the torrent
    MaxWebSeeds,    \* bound on the number of webseeds
    RangeShares     \* a range is at most this part of the torrent: a tenth in
                    \* the code; a larger part gives long ranges to few chunks

ASSUME RangeSizes ==
    /\ MaxChunks \in Nat \ {0}
    /\ MaxWebSeeds \in Nat
    /\ RangeShares \subseteq Nat \ {0}

VARIABLES
    num_chunks,             \* ChunkManager::getNumChunks()
    bitset,                 \* the downloaded chunks
    busy,                   \* chunks that peers or other webseeds download
    webseed_range_size,
    webseed_endgame_mode,
    i, curr, best,          \* the locals of selectRange
    status,                 \* "looking", "selected" or "failed"
    range                   \* the range that is returned

vars == <<num_chunks, bitset, busy, webseed_range_size, webseed_endgame_mode,
          i, curr, best, status, range>>

Chunk == 0 .. num_chunks - 1
NoRange == [start |-> 0, len |-> 0]
Range(r) == r.start .. r.start + r.len - 1

(* canDownloadFromWebSeed *)
canDownloadFromWebSeed(c) == webseed_endgame_mode \/ c \notin busy

Available(c) == c \notin bitset /\ canDownloadFromWebSeed(c)

(* The constructor's webseed_range_size for chunks shared out over         *)
(* webseeds.  It is 0 for a torrent that is too short.                     *)
RangeSize(chunks, webseeds, share) ==
    LET each == IF chunks < webseeds THEN 1 ELSE chunks \div webseeds
        most == chunks \div share
    IN  IF webseeds = 0 THEN 1 ELSE IF each > most THEN most ELSE each

Init ==
    /\ num_chunks \in 1 .. MaxChunks
    /\ bitset \in SUBSET Chunk
    /\ busy \in SUBSET (Chunk \ bitset)
    /\ \E webseeds \in 0 .. MaxWebSeeds, share \in RangeShares :
         webseed_range_size = RangeSize(num_chunks, webseeds, share)
    /\ webseed_endgame_mode = FALSE
    /\ i = 0
    /\ curr = NoRange
    /\ best = NoRange
    /\ status = "looking"
    /\ range = NoRange

(* The current range after a chunk that is not available. *)
Shrink(r) == NoRange

(* Fault: the range ends one chunk too late. *)
Grow_OneMore(r, c) ==
    IF r = NoRange THEN [start |-> c, len |-> 2] ELSE [r EXCEPT !.len = @ + 1]

(* The current range after the available chunk c. *)
Grow(r, c) ==
    IF r = NoRange THEN [start |-> c, len |-> 1] ELSE [r EXCEPT !.len = @ + 1]

(* Fault: the first range is kept, not the longest. *)
Better_First(r, b) == IF r.start > 0 /\ b.len = 0 THEN r ELSE b

(* The best range once range r has ended. *)
Better(r, b) == IF r.start > 0 /\ r.len > b.len THEN r ELSE b

(* One iteration of the loop of selectRange. *)
Iterate ==
    LET grown == Grow(curr, i)
    IN  /\ status = "looking"
        /\ i < num_chunks
        /\ \/ /\ Available(i)
              /\ grown.len >= webseed_range_size
              /\ status' = "selected"
              /\ range' = grown
              /\ UNCHANGED <<curr, best>>
           \/ /\ Available(i)
              /\ grown.len < webseed_range_size
              /\ curr' = grown
              /\ best' = IF i = num_chunks - 1 THEN Better(grown, best) ELSE best
              /\ UNCHANGED <<status, range>>
           \/ /\ ~Available(i)
              /\ best' = Better(curr, best)
              /\ curr' = Shrink(curr)
              /\ UNCHANGED <<status, range>>
        /\ i' = i + 1
        /\ UNCHANGED <<num_chunks, bitset, busy, webseed_range_size,
                       webseed_endgame_mode>>

(* The end of selectRange, and the second attempt of downloadFrom. *)
EndOfList ==
    /\ status = "looking"
    /\ i = num_chunks
    /\ \/ /\ best.len > 0
          /\ status' = "selected"
          /\ range' = best
          /\ UNCHANGED <<webseed_endgame_mode, i, curr, best>>
       \/ /\ best.len = 0
          /\ ~webseed_endgame_mode
          /\ webseed_endgame_mode' = TRUE
          /\ i' = 0
          /\ curr' = NoRange
          /\ UNCHANGED <<best, status, range>>
       \/ /\ best.len = 0
          /\ webseed_endgame_mode
          /\ status' = "failed"
          /\ UNCHANGED <<webseed_endgame_mode, i, curr, best, range>>
    /\ UNCHANGED <<num_chunks, bitset, busy, webseed_range_size>>

Next == Iterate \/ EndOfList

Spec == Init /\ [][Next]_vars

-----------------------------------------------------------------------------
(* Properties. *)

selected == status = "selected"

(* The ranges of available chunks. *)
Runs == {r \in [start : Chunk, len : 1 .. num_chunks] :
            Range(r) \subseteq {c \in Chunk : Available(c)}}

(* The range that selectRange returns exists and has only missing chunks;  *)
(* it is no longer than asked for, or one chunk long when 0 was asked for. *)
(* It has chunks that others download only if every other choice was a     *)
(* part of a range from chunk 0 (the second attempt, in endgame mode).     *)
RangeSound ==
    selected =>
        /\ Range(range) \subseteq Chunk \ bitset
        /\ range.len <= webseed_range_size \/ range.len = 1
        /\ \/ Range(range) \cap busy = {}
           \/ \A c \in Chunk \ (bitset \cup busy) :
                  0 .. c \subseteq Chunk \ (bitset \cup busy)

(* A range of full size is the first there is.  Without one, the longest   *)
(* range is selected, leaving aside the one from chunk 0, which            *)
(* selectRange passes over (curr.start > 0); without any there is no range. *)
FirstOrLongest ==
    LET fromZero(r) == \A c \in 0 .. r.start : Available(c)
    IN  /\ selected =>
             IF range.len >= webseed_range_size
             THEN \A r \in Runs : r.len = range.len => range.start <= r.start
             ELSE \A r \in Runs : r.len <= range.len \/ fromZero(r)
        /\ status = "failed" => \A r \in Runs : fromZero(r)

=============================================================================
