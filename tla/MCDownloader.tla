---------------------------- MODULE MCDownloader ----------------------------
(* Small instances of Downloader for TLC. *)
EXTENDS Downloader

(* Every peer is a seed. *)
AllSeeds == [p \in PD |-> Chunk]

(* The limit of the wait queue: the least that update sets, whatever       *)
(* max_reqs is, or twice max_reqs.                                         *)
Least == [n \in ReqLimits |-> 1]
Twice == [n \in ReqLimits |-> 2 * n]

(* A single peer connects from each address, or two from that of a liar. *)
Once == [p \in PD |-> 1]
LiarsTwice == [p \in PD |-> IF p \in Liars THEN 2 ELSE 1]

(* The reliable peers are seeds, the others have the first chunk. *)
ReliableSeeds == [p \in PD |-> IF p \in Reliable THEN Chunk ELSE {0}]

=============================================================================
