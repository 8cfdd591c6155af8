---------------------------- MODULE ChunkDownload ----------------------------
(***************************************************************************)
(* How one chunk is fetched piece by piece from several peers at once:     *)
(* bt::ChunkDownload (src/src/download/chunkdownload.cpp) and the queues of *)
(* bt::PeerDownloader (src/src/peer/peerdownloader.cpp) it fills.          *)
(*                                                                         *)
(* The methods are operators on a record s: the downloads in progress, the *)
(* PieceDownloader of every peer, and the requests the peers have been     *)
(* sent.  Module Downloader has the variables and the actions.             *)
(***************************************************************************)
EXTENDS Integers, Sequences, FiniteSets

CONSTANTS
    NumChunks,          \* Torrent::getNumChunks()
    NumPieces,          \* total_pieces_number
    PD,                 \* the addresses of PieceDownloader objects
    NoPD,               \* the null PieceDownloader
    ReqLimits,          \* what max_reqs of PeerDownloader::update may be
    WaitQueueFor,       \* max(10, 2 * max_reqs), per value of max_reqs
    FirstWaitQueue      \* 25, the first max_wait_queue_size

ASSUME DownloadSizes ==
    /\ NumChunks \in Nat \ {0}
    /\ NumPieces \in Nat \ {0}
    /\ NoPD \notin PD
    /\ ReqLimits \in SUBSET (Nat \ {0}) \ {{}}
    /\ WaitQueueFor \in [ReqLimits -> Nat \ {0}]
    /\ FirstWaitQueue \in Nat \ {0}

Chunk == 0 .. NumChunks - 1
Piece == 0 .. NumPieces - 1
Request == Chunk \X Piece

Elements(q) == {q[k] : k \in DOMAIN q}

(* The fields of a ChunkDownload.  status[p] is the DownloadStatus of p,   *)
(* which is empty for a PieceDownloader that is not in pdown; bad are the  *)
(* pieces of which the bytes are wrong, suppliers the connections that     *)
(* really sent the pieces (neither is known to the program).               *)
Download ==
    [pieces : SUBSET Piece,
     bad : SUBSET Piece,
     piece_providers : SUBSET (PD \cup {NoPD}),
     suppliers : SUBSET ((PD \X Nat) \cup {NoPD}),
     pdown : Seq(PD),
     status : [PD -> SUBSET Piece]]

NewDownload ==
    [pieces |-> {}, bad |-> {}, piece_providers |-> {}, suppliers |-> {},
     pdown |-> <<>>, status |-> [p \in PD |-> {}]]

(* The fields of a PeerDownloader and of its Peer that downloads look at. *)
PieceDownloader ==
    [choked : BOOLEAN,
     grabbed : Nat,
     nearly_done : BOOLEAN,
     reqs : Seq(Request),
     wait_queue : Seq(Request),
     max_wait_queue_size : Nat]

NewPD == [choked |-> TRUE, grabbed |-> 0, nearly_done |-> FALSE,
          reqs |-> <<>>, wait_queue |-> <<>>,
          max_wait_queue_size |-> FirstWaitQueue]

DownloadState ==
    [active : SUBSET Chunk,                \* the keys of downloading_chunks
     dl : [Chunk -> Download],
     pd : [PD -> PieceDownloader],
     sent : [PD -> SUBSET Request]]        \* requests the peer may answer

Asked(d) == Elements(d.reqs) \cup Elements(d.wait_queue)

-----------------------------------------------------------------------------
(* PeerDownloader *)

(* update: requests leave the wait queue while less than max_reqs are out. *)
(* max_reqs follows the download rate of that moment (capped by what the   *)
(* peer allows), which may have fallen below the requests that are out;    *)
(* the limit of the wait queue follows it.                                 *)
PdUpdate(s, p, max_reqs) ==
    LET d == s.pd[p]
        room == IF Len(d.reqs) < max_reqs THEN max_reqs - Len(d.reqs) ELSE 0
        n == IF room < Len(d.wait_queue) THEN room ELSE Len(d.wait_queue)
        now == SubSeq(d.wait_queue, 1, n)
    IN  [s EXCEPT
           !.pd[p].reqs = d.reqs \o now,
           !.pd[p].wait_queue = SubSeq(d.wait_queue, n + 1, Len(d.wait_queue)),
           !.pd[p].max_wait_queue_size = WaitQueueFor[max_reqs],
           !.sent[p] = @ \cup Elements(now)]

(* download *)
PdDownload(s, p, r, max_reqs) ==
    PdUpdate([s EXCEPT !.pd[p].wait_queue = Append(@, r)], p, max_reqs)

(* cancel, for all requests of R; the peer may still answer what was sent. *)
Cancelled(d, R) ==
    LET waiting == R \cap Elements(d.wait_queue)
        Kept(r) == r \notin R
        Unsent(r) == r \notin R \/ r \in waiting
    IN  [d EXCEPT !.wait_queue = SelectSeq(d.wait_queue, Kept),
                  !.reqs = SelectSeq(d.reqs, Unsent)]

(* piece: the request is answered. *)
Answered(d, r) ==
    LET Other(x) == x # r
    IN  IF r \in Elements(d.reqs)
        THEN [d EXCEPT !.reqs = SelectSeq(d.reqs, Other)]
        ELSE [d EXCEPT !.wait_queue = SelectSeq(d.wait_queue, Other)]

canAddRequest(d) == Len(d.wait_queue) < d.max_wait_queue_size

-----------------------------------------------------------------------------
(* ChunkDownload *)

(* Fault: one piece too many. *)
Candidates_PastEnd(d, p) == (0 .. NumPieces) \ (d.pieces \cup d.status[p])

(* Fault: a piece that p is asked for is asked for again. *)
Candidates_AskedAgain(d, p) == Piece \ d.pieces

(* bestPiece: a missing piece that p is not asked for, the first of those  *)
(* that the fewest others are asked for.                                   *)
Candidates(d, p) == Piece \ (d.pieces \cup d.status[p])

TimesDownloading(d, p, i) ==
    Cardinality({q \in PD \ {p} : i \in d.status[q]})

BestPiece(d, p) ==
    CHOOSE i \in Candidates(d, p) : \A j \in Candidates(d, p) :
        \/ TimesDownloading(d, p, i) < TimesDownloading(d, p, j)
        \/ TimesDownloading(d, p, i) = TimesDownloading(d, p, j) /\ i <= j

(* nearlyDone *)
NearlyDone(d) == Cardinality(d.pieces) = NumPieces - 1

(* The conditions under which sendRequest sends one. *)
CanSendRequest(s, c, p) ==
    /\ ~s.pd[p].choked
    /\ canAddRequest(s.pd[p])
    /\ p \in Elements(s.dl[c].pdown)
    /\ Candidates(s.dl[c], p) # {}

SendRequest(s, c, p, max_reqs) ==
    LET i == BestPiece(s.dl[c], p)
        s1 == PdDownload(s, p, <<c, i>>, max_reqs)
    IN  [s1 EXCEPT !.dl[c].status[p] = @ \cup {i},
                   !.pd[p].nearly_done = @ \/ NearlyDone(s.dl[c])]

(* Fault: no cancels. *)
Released_NoCancels(d, R) ==
    [d EXCEPT !.grabbed = IF d.grabbed > 0 THEN d.grabbed - 1 ELSE 0]

(* release, and the cancels of sendCancels, for all PieceDownloaders of P. *)
Released(d, R) ==
    [Cancelled(d, R) EXCEPT !.grabbed = IF d.grabbed > 0 THEN d.grabbed - 1 ELSE 0]

Release(s, c, P) ==
    LET In(p) == p \notin P
        d == s.dl[c]
    IN  [s EXCEPT
           !.pd = [p \in PD |-> IF p \in P \cap Elements(d.pdown)
                                THEN Released(s.pd[p], {c} \X d.status[p])
                                ELSE s.pd[p]],
           !.dl[c].pdown = SelectSeq(d.pdown, In),
           !.dl[c].status = [p \in PD |-> IF p \in P THEN {} ELSE d.status[p]]]

(* releaseAllPDs *)
ReleaseAllPDs(s, c) == Release(s, c, Elements(s.dl[c].pdown))

(* Fault: only the requests that were sent are cancelled. *)
CancelAll_OnlySent(s, c) ==
    LET d == s.dl[c]
        Kept(r) == r[1] # c
    IN  [s EXCEPT
           !.pd = [p \in PD |-> IF p \in Elements(d.pdown)
                                THEN [s.pd[p] EXCEPT !.reqs = SelectSeq(@, Kept)]
                                ELSE s.pd[p]],
           !.dl[c].status = [p \in PD |-> {}]]

(* cancelAll: the requests go, the PieceDownloaders stay grabbed. *)
CancelAll(s, c) ==
    LET d == s.dl[c]
    IN  [s EXCEPT
           !.pd = [p \in PD |-> IF p \in Elements(d.pdown)
                                THEN Cancelled(s.pd[p], {c} \X d.status[p])
                                ELSE s.pd[p]],
           !.dl[c].status = [p \in PD |-> {}]]

(* Fault: grabbed only tells whether there is a user. *)
Assign_Flag(s, c, p) ==
    [s EXCEPT !.pd[p].grabbed = 1,
              !.dl[c].pdown = Append(@, p)]

(* assign, up to sendRequests. *)
Assign(s, c, p) ==
    [s EXCEPT !.pd[p].grabbed = @ + 1,
              !.dl[c].pdown = Append(@, p)]

(* endgameCancel: nobody else needs to send piece i any more. *)
EndgameCancel(s, c, i) ==
    LET d == s.dl[c]
    IN  IF Len(d.pdown) <= 1 THEN s
        ELSE [s EXCEPT
                !.pd = [p \in PD |-> IF i \in d.status[p]
                                     THEN Cancelled(s.pd[p], {<<c, i>>})
                                     ELSE s.pd[p]],
                !.dl[c].status = [p \in PD |-> d.status[p] \ {i}]]

(* pieceReceived, for a missing piece i that connection k of p sent, until *)
(* it finds out whether the chunk is complete.                             *)
StorePiece(s, c, i, p, k, ok) ==
    EndgameCancel(
        [s EXCEPT !.dl[c].status[p] = @ \ {i},
                  !.dl[c].pieces = @ \cup {i},
                  !.dl[c].bad = IF ok THEN @ ELSE @ \cup {i},
                  !.dl[c].piece_providers = @ \cup {p},
                  !.dl[c].suppliers = @ \cup {<<p, k>>}],
        c, i)

(* erase from downloading_chunks; the destructor releases nobody. *)
Erase(s, c) == [s EXCEPT !.active = @ \ {c}, !.dl[c] = NewDownload]

=============================================================================
