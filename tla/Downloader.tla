----------------------------- MODULE Downloader -----------------------------
(***************************************************************************)
(* bt::Downloader (src/src/download/downloader.cpp) with the peers it      *)
(* downloads from: which ChunkDownloads run, which PieceDownloaders they   *)
(* use and which requests are out, while peers connect and leave, choke,   *)
(* reject, answer late or not at all, and chunks are excluded, checked,    *)
(* paused or fail their hash.                                              *)
(*                                                                         *)
(* Everything runs in one thread.  A handler that loops is run one turn at *)
(* a time: agenda holds the calls that the current handler still has to    *)
(* make, and no other event is handled before it is empty.                 *)
(***************************************************************************)
EXTENDS ChunkDownload

CONSTANTS
    Has,                \* the chunks that the peer at each address has
    FastExtensions,     \* the peers with stats.fast_extensions
    Liars,              \* the peers that may send wrong bytes
    Reliable,           \* peers that stay, unchoke and answer every request
    ChunkLimits,        \* what getMaxChunkDownloads() may be
    MaxConnections,     \* how many peers ever connect from each address
    Exclusions,         \* whether the user excludes chunks
    DataChecks,         \* whether a data check finds downloaded chunks
    Pausing,            \* whether the torrent is paused
    Stopping,           \* whether the torrent is stopped and started
    WebSeeding,         \* whether webseeds deliver chunks
    DiskErrors          \* whether pieces and chunks may fail to be stored

ASSUME PeersAssumption ==
    /\ Has \in [PD -> SUBSET Chunk]
    /\ FastExtensions \subseteq PD
    /\ Liars \subseteq PD
    /\ Reliable \subseteq PD
    /\ ChunkLimits \in SUBSET (Nat \ {0}) \ {{}}
    /\ MaxConnections \in [PD -> Nat]
    /\ {Exclusions, DataChecks, Pausing, Stopping, WebSeeding,
        DiskErrors} \subseteq BOOLEAN

VARIABLES
    s,                  \* the downloads, PieceDownloaders and sent requests
    piece_downloaders,  \* Downloader::piece_downloaders
    bitset,             \* the chunks that ChunkManager has
    excluded,           \* the chunks that ChunkManager excludes
    agenda,             \* the calls left to the current handler
    mode,               \* "running", "paused" or "stopped"
    saved,              \* the current_chunks file: pieces and bad, per chunk
    connections,        \* how often a peer has connected from each address
    banned              \* the ban of the last bad chunk: who, and who sent it

vars == <<s, piece_downloaders, bitset, excluded, agenda, mode, saved,
          connections, banned>>

Connected == Elements(piece_downloaders)

(* ChunkManager::completed() *)
completed == Chunk \ excluded \subseteq bitset /\ bitset # {}

idle == agenda = <<>>

(* The calls that an agenda holds. *)
SendRequestsCall(d, c) == [call |-> "sendRequests", chunk |-> c, tmp |-> d.pdown]
CheckDownloadCall(c) == [call |-> "checkDownload", chunk |-> c]
DownloadFromCall(p) == [call |-> "downloadFrom", pd |-> p]
AssignedCall(p) == [call |-> "assigned", pd |-> p]
UpdateCall(p) == [call |-> "update", pd |-> p]

Call == [call : {"sendRequests"}, chunk : Chunk, tmp : Seq(PD)]
          \cup [call : {"checkDownload"}, chunk : Chunk]
          \cup [call : {"downloadFrom", "assigned", "update"}, pd : PD]

InOrder(C) == SelectSeq([k \in 1 .. NumChunks |-> k - 1], LAMBDA c : c \in C)

-----------------------------------------------------------------------------
Init ==
    /\ s = [active |-> {}, dl |-> [c \in Chunk |-> NewDownload],
            pd |-> [p \in PD |-> NewPD], sent |-> [p \in PD |-> {}]]
    /\ piece_downloaders = <<>>
    /\ bitset = {}
    /\ excluded = {}
    /\ agenda = <<>>
    /\ mode = "running"
    /\ saved = <<>>
    /\ connections = [p \in PD |-> 0]
    /\ banned = {}

-----------------------------------------------------------------------------
(* The turns of the loops. *)

(* sendRequests: the next PieceDownloader of tmp is asked for one piece,   *)
(* or leaves tmp.                                                          *)
SendRequestsTurn ==
    LET top == Head(agenda)
        p == Head(top.tmp)
        again == [top EXCEPT !.tmp = Append(Tail(top.tmp), p)]
        without == [top EXCEPT !.tmp = Tail(top.tmp)]
    IN  /\ ~idle
        /\ top.call = "sendRequests"
        /\ IF top.tmp = <<>> THEN agenda' = Tail(agenda) /\ UNCHANGED s
           ELSE IF CanSendRequest(s, top.chunk, p)
           THEN /\ \E max_reqs \in ReqLimits : s' = SendRequest(s, top.chunk, p, max_reqs)
                /\ agenda' = <<again>> \o Tail(agenda)
           ELSE agenda' = <<without>> \o Tail(agenda) /\ UNCHANGED s
        /\ UNCHANGED <<piece_downloaders, bitset, excluded, mode, saved,
                       connections, banned>>

(* normalUpdate, first loop: a ChunkDownload of which all PieceDownloaders *)
(* are choked gives them up; one that was not active sends requests again. *)
CheckDownloadTurn ==
    LET top == Head(agenda)
        d == s.dl[top.chunk]
    IN  /\ ~idle
        /\ top.call = "checkDownload"
        /\ \/ /\ d.pdown # <<>>
              /\ \A p \in Elements(d.pdown) : s.pd[p].choked
              /\ s' = ReleaseAllPDs(s, top.chunk)
              /\ agenda' = Tail(agenda)
           \/ /\ \E p \in Elements(d.pdown) : ~s.pd[p].choked
              /\ agenda' = <<SendRequestsCall(d, top.chunk)>> \o Tail(agenda)
              /\ UNCHANGED s
           \/ /\ d.pdown = <<>> \/ \E p \in Elements(d.pdown) : ~s.pd[p].choked
              /\ agenda' = Tail(agenda)
              /\ UNCHANGED s
        /\ UNCHANGED <<piece_downloaders, bitset, excluded, mode, saved,
                       connections, banned>>

(* canDownloadChunk; the limit follows the download rate of that moment. *)
canDownloadChunk(d, max) ==
    /\ d.grabbed < max \/ (d.grabbed = 1 /\ d.nearly_done)
    /\ canAddRequest(d)

(* selectExistingUnfinishedDownloadChunk: the idle download with the       *)
(* fewest pieces to go.                                                    *)
Idle(p) == {c \in s.active \cap Has[p] : s.dl[c].pdown = <<>>}
PiecesLeft(c) == NumPieces - Cardinality(s.dl[c].pieces)
Unfinished(p) ==
    CHOOSE c \in Idle(p) : \A e \in Idle(p) :
        \/ PiecesLeft(c) < PiecesLeft(e)
        \/ PiecesLeft(c) = PiecesLeft(e) /\ c <= e

(* ChunkSelector::select: the chunks it may choose for p.  A chunk that is *)
(* not being downloaded is found first; priorities may replace it by one   *)
(* that is.                                                                *)
Wanted(p) == (Has[p] \ excluded) \ bitset
Selectable(p) ==
    IF Idle(p) # {} THEN {Unfinished(p)}
    ELSE IF Wanted(p) \ s.active # {} THEN Wanted(p)
    ELSE {}

(* Fault: a peer may only join a chunk that it already downloads. *)
Joinable_None(p) == {c \in s.active \cap Has[p] : p \in Elements(s.dl[c].pdown)}

(* selectWorst: the downloads that a peer without any may join. *)
Joinable(p) == {c \in s.active \cap Has[p] : p \notin Elements(s.dl[c].pdown)}

(* normalUpdate, second loop, and downloadFrom: p starts on one more chunk, *)
(* or there is none for it.                                                *)
DownloadFromTurn ==
    LET top == Head(agenda)
        p == top.pd
        Able(max) == ~s.pd[p].choked /\ canDownloadChunk(s.pd[p], max)
        Start(c) ==
            /\ p \notin Elements(s.dl[c].pdown)
            /\ s' = [Assign(s, c, p) EXCEPT !.active = @ \cup {c}]
            /\ agenda' = <<SendRequestsCall(s'.dl[c], c), AssignedCall(p)>>
                            \o agenda
        Stop == agenda' = Tail(agenda) /\ UNCHANGED s
    IN  /\ ~idle
        /\ top.call = "downloadFrom"
        /\ \/ /\ \E max \in ChunkLimits : Able(max)
              /\ \E c \in Selectable(p) : Start(c)
           \/ /\ \E max \in ChunkLimits : Able(max)
              /\ Selectable(p) = {} /\ s.pd[p].grabbed = 0
              /\ \E c \in Joinable(p) : Start(c)
           \/ (\E max \in ChunkLimits : ~Able(max)) /\ Stop
           \/ \E c \in Selectable(p) : p \in Elements(s.dl[c].pdown) /\ Stop
           \/ Selectable(p) = {} /\ (s.pd[p].grabbed > 0 \/ Joinable(p) = {}) /\ Stop
        /\ UNCHANGED <<piece_downloaders, bitset, excluded, mode, saved,
                       connections, banned>>

(* setNearlyDone(false) after downloadFrom succeeded. *)
AssignedTurn ==
    /\ ~idle
    /\ Head(agenda).call = "assigned"
    /\ s' = [s EXCEPT !.pd[Head(agenda).pd].nearly_done = FALSE]
    /\ agenda' = Tail(agenda)
    /\ UNCHANGED <<piece_downloaders, bitset, excluded, mode, saved,
                   connections, banned>>

(* The downloader->update() with which Peer::handlePiece ends. *)
UpdateTurn ==
    /\ ~idle
    /\ Head(agenda).call = "update"
    /\ \E max_reqs \in ReqLimits : s' = PdUpdate(s, Head(agenda).pd, max_reqs)
    /\ agenda' = Tail(agenda)
    /\ UNCHANGED <<piece_downloaders, bitset, excluded, mode, saved,
                   connections, banned>>

Turn == SendRequestsTurn \/ CheckDownloadTurn \/ DownloadFromTurn
          \/ AssignedTurn \/ UpdateTurn

-----------------------------------------------------------------------------
(* The events. *)

(* Downloader::update; checkTimeouts is action Timeout. *)
Update ==
    /\ idle
    /\ mode = "running"
    /\ ~completed
    /\ agenda' = [k \in 1 .. Cardinality(s.active) |->
                      CheckDownloadCall(InOrder(s.active)[k])]
                 \o [k \in DOMAIN piece_downloaders |->
                      DownloadFromCall(piece_downloaders[k])]
    /\ UNCHANGED <<s, piece_downloaders, bitset, excluded, mode, saved,
                   connections, banned>>

(* Fault: the ChunkDownload does not hear of it. *)
Timeout_Unnoticed(p) ==
    /\ idle
    /\ mode = "running"
    /\ ~completed
    /\ p \in Connected \ Reliable
    /\ s.pd[p].reqs # <<>>
    /\ s' = [s EXCEPT !.pd[p].reqs = Tail(@)]
    /\ UNCHANGED <<piece_downloaders, bitset, excluded, agenda, mode, saved,
                   connections, banned>>

(* checkTimeouts, for the oldest request of p: onTimeout gives p up. *)
Timeout(p) ==
    LET r == Head(s.pd[p].reqs)
        c == r[1]
        s1 == [s EXCEPT !.pd[p].reqs = Tail(@)]
        s2 == [s1 EXCEPT !.dl[c].status[p] = @ \ {r[2]}]
    IN  /\ idle
        /\ mode = "running"
        /\ ~completed
        /\ p \in Connected \ Reliable
        /\ s.pd[p].reqs # <<>>
        /\ IF p \in Elements(s.dl[c].pdown)
           THEN /\ s' = Release(s2, c, {p})
                /\ agenda' = <<SendRequestsCall(s'.dl[c], c)>>
           ELSE s' = s1 /\ UNCHANGED agenda
        /\ UNCHANGED <<piece_downloaders, bitset, excluded, mode, saved,
                       connections, banned>>

(* Peer::handleReject: p is not going to send piece r. *)
Rejected(p, r) ==
    LET c == r[1]
        Other(x) == x # r
        s1 == [s EXCEPT !.sent[p] = @ \ {r},
                        !.pd[p].reqs = SelectSeq(@, Other)]
        s2 == [s1 EXCEPT !.dl[c].status[p] = @ \ {r[2]}]
    IN  /\ idle
        /\ p \in Connected \ Reliable
        /\ r \in s.sent[p]
        /\ IF r \in Elements(s.pd[p].reqs) /\ p \in Elements(s.dl[c].pdown)
           THEN /\ s' = Release(s2, c, {p})
                /\ agenda' = <<SendRequestsCall(s'.dl[c], c)>>
           ELSE s' = s1 /\ UNCHANGED agenda
        /\ UNCHANGED <<piece_downloaders, bitset, excluded, mode, saved,
                       connections, banned>>

(* Fault: the requests are forgotten without a reject. *)
Choke_NothingRejected(p) ==
    /\ idle
    /\ p \in Connected \ Reliable
    /\ ~s.pd[p].choked
    /\ s' = [s EXCEPT !.pd[p].choked = TRUE, !.pd[p].reqs = <<>>,
                      !.pd[p].wait_queue = <<>>]
    /\ UNCHANGED <<piece_downloaders, bitset, excluded, agenda, mode, saved,
                   connections, banned>>

(* Peer::handleChoke: without the fast extensions all requests of p are    *)
(* rejected, chunk by chunk in the order of the queues.                    *)
Choke(p) ==
    LET d == s.pd[p]
        queue == d.reqs \o d.wait_queue
        First(k) == \A j \in 1 .. k - 1 : queue[j][1] # queue[k][1]
        chunks == [k \in DOMAIN queue |-> queue[k][1]]
        firsts == SelectSeq([k \in DOMAIN queue |-> k], First)
        assigned == {c \in Elements(chunks) : p \in Elements(s.dl[c].pdown)}
        s1 == [s EXCEPT !.pd[p] =
                  [d EXCEPT !.choked = TRUE, !.reqs = <<>>, !.wait_queue = <<>>,
                            !.grabbed = IF @ > Cardinality(assigned)
                                        THEN @ - Cardinality(assigned) ELSE 0]]
        Without(e) == [e EXCEPT !.pdown = SelectSeq(@, LAMBDA q : q # p),
                                !.status[p] = {}]
        s2 == [s1 EXCEPT !.dl = [c \in Chunk |-> IF c \in assigned
                                   THEN Without(s.dl[c]) ELSE s.dl[c]]]
        sends == SelectSeq(firsts, LAMBDA k : chunks[k] \in assigned)
    IN  /\ idle
        /\ p \in Connected \ Reliable
        /\ ~d.choked
        /\ IF p \in FastExtensions
           THEN s' = [s EXCEPT !.pd[p].choked = TRUE] /\ UNCHANGED agenda
           ELSE /\ s' = s2
                /\ agenda' = [k \in DOMAIN sends |->
                       SendRequestsCall(s2.dl[chunks[sends[k]]], chunks[sends[k]])]
        /\ UNCHANGED <<piece_downloaders, bitset, excluded, mode, saved,
                       connections, banned>>

(* Peer::handleUnchoke *)
Unchoke(p) ==
    /\ idle
    /\ p \in Connected
    /\ s.pd[p].choked
    /\ s' = [s EXCEPT !.pd[p].choked = FALSE]
    /\ UNCHANGED <<piece_downloaders, bitset, excluded, agenda, mode, saved,
                   connections, banned>>

(* A peer forgets a request that it was sent. *)
Lose(p, r) ==
    /\ idle
    /\ p \in PD \ Reliable
    /\ r \in s.sent[p]
    /\ s' = [s EXCEPT !.sent[p] = @ \ {r}]
    /\ UNCHANGED <<piece_downloaders, bitset, excluded, agenda, mode, saved,
                   connections, banned>>

(* onNewPeer, addPieceDownloader *)
AddPieceDownloader(p) ==
    /\ idle
    /\ mode # "stopped"
    /\ p \notin Connected
    /\ connections[p] < MaxConnections[p]
    /\ piece_downloaders' = Append(piece_downloaders, p)
    /\ s' = [s EXCEPT !.pd[p] = NewPD, !.sent[p] = {}]
    /\ connections' = [connections EXCEPT ![p] = @ + 1]
    /\ UNCHANGED <<bitset, excluded, agenda, mode, saved, banned>>

(* onPeerRemoved, removePieceDownloader *)
RemovePieceDownloader(p) ==
    LET Other(q) == q # p
        Without(e) == [e EXCEPT !.pdown = SelectSeq(@, Other), !.status[p] = {}]
    IN  /\ idle
        /\ p \in Connected \ Reliable
        /\ s' = [s EXCEPT !.dl = [c \in Chunk |-> Without(s.dl[c])],
                          !.pd[p] = NewPD, !.sent[p] = {}]
        /\ piece_downloaders' = SelectSeq(piece_downloaders, Other)
        /\ UNCHANGED <<bitset, excluded, agenda, mode, saved, connections, banned>>

(* Downloader::finished, for a complete download: a good chunk is kept; a  *)
(* bad one will be selected again, and who alone sent it is banned when    *)
(* findPeer still knows the PieceDownloader.  Saving the chunk may fail.   *)
Finished(d, c) ==
    \/ /\ d.bad = {}
       /\ bitset' = bitset \cup {c}
       /\ UNCHANGED banned
    \/ /\ d.bad = {}
       /\ DiskErrors
       /\ UNCHANGED <<bitset, banned>>
    \/ /\ d.bad # {}
       /\ UNCHANGED bitset
       /\ banned' =
              {<<<<p, connections[p]>>, d.suppliers>> :
                  p \in {q \in Connected : d.piece_providers = {q}}}

(* Peer::handlePiece and Downloader::pieceReceived.  In the last case the  *)
(* piece cannot be stored.  A peer that was there when the torrent was     *)
(* paused drops the piece; one that came later is not paused itself, but   *)
(* is asked for nothing before the torrent runs again.                     *)
PieceArrives(p, r, ok) ==
    LET c == r[1]
        i == r[2]
        s1 == [s EXCEPT !.sent[p] = @ \ {r}, !.pd[p] = Answered(@, r)]
        needed == ~completed /\ c \in s.active /\ i \notin s.dl[c].pieces
        s2 == StorePiece(s1, c, i, p, connections[p], ok)
        unstored == [s1 EXCEPT !.dl[c].status[p] = @ \ {i}]
    IN  /\ idle
        /\ p \in Connected
        /\ r \in s.sent[p]
        /\ ok \/ p \in Liars
        /\ IF mode # "running"
           THEN /\ s' = [s EXCEPT !.sent[p] = @ \ {r}]
                /\ UNCHANGED <<bitset, agenda, banned>>
           ELSE IF ~needed
           THEN /\ s' = s1
                /\ agenda' = <<UpdateCall(p)>>
                /\ UNCHANGED <<bitset, banned>>
           ELSE \/ /\ s2.dl[c].pieces = Piece
                   /\ s' = Erase(ReleaseAllPDs(s2, c), c)
                   /\ agenda' = <<UpdateCall(p)>>
                   /\ Finished(s2.dl[c], c)
                \/ /\ s2.dl[c].pieces # Piece
                   /\ s' = s2
                   /\ agenda' = <<SendRequestsCall(s2.dl[c], c), UpdateCall(p)>>
                   /\ UNCHANGED <<bitset, banned>>
                \/ /\ DiskErrors
                   /\ s' = unstored
                   /\ agenda' = <<SendRequestsCall(s1.dl[c], c), UpdateCall(p)>>
                   /\ UNCHANGED <<bitset, banned>>
        /\ UNCHANGED <<piece_downloaders, excluded, mode, saved, connections>>

(* Fault: the PieceDownloaders are not released. *)
Exclude_StillGrabbed(c) ==
    /\ idle
    /\ Exclusions
    /\ c \notin excluded
    /\ excluded' = excluded \cup {c}
    /\ bitset' = bitset \ {c}
    /\ s' = IF c \in s.active THEN Erase(CancelAll(s, c), c) ELSE s
    /\ UNCHANGED <<piece_downloaders, agenda, mode, saved, connections, banned>>

(* ChunkManager::exclude and onExcluded *)
Exclude(c) ==
    /\ idle
    /\ Exclusions
    /\ c \notin excluded
    /\ excluded' = excluded \cup {c}
    /\ bitset' = bitset \ {c}
    /\ s' = IF c \in s.active THEN Erase(ReleaseAllPDs(CancelAll(s, c), c), c) ELSE s
    /\ UNCHANGED <<piece_downloaders, agenda, mode, saved, connections, banned>>

(* onIncluded *)
Include(c) ==
    /\ idle
    /\ c \in excluded
    /\ excluded' = excluded \ {c}
    /\ UNCHANGED <<s, piece_downloaders, bitset, agenda, mode, saved, connections, banned>>

(* dataChecked: chunk c turns out to be on the disk, or not.  A data check *)
(* is a job, for which JobQueue pauses a running torrent.                  *)
DataChecked(c, ok) ==
    /\ idle
    /\ DataChecks
    /\ mode # "running"
    /\ bitset' = IF ok THEN bitset \cup {c} ELSE bitset \ {c}
    /\ s' = IF ok /\ c \in s.active THEN Erase(ReleaseAllPDs(s, c), c) ELSE s
    /\ UNCHANGED <<piece_downloaders, excluded, agenda, mode, saved, connections, banned>>

(* onChunkReady: a webseed delivered chunk c.  When saving it fails the    *)
(* download is gone all the same; a chunk with a bad hash is selected      *)
(* again, and leaves a download of it as it is.                            *)
ChunkReady(c) ==
    /\ idle
    /\ WebSeeding
    /\ mode = "running"
    /\ c \notin bitset \cup excluded
    /\ \/ /\ \/ bitset' = bitset \cup {c}
             \/ DiskErrors /\ UNCHANGED bitset
          /\ s' = IF c \in s.active THEN Erase(CancelAll(s, c), c) ELSE s
       \/ UNCHANGED <<s, bitset>>
    /\ UNCHANGED <<piece_downloaders, excluded, agenda, mode, saved, connections, banned>>

(* saveDownloads writes the pieces per chunk. *)
SaveDownloads(st) ==
    [c \in st.active |-> [pieces |-> st.dl[c].pieces, bad |-> st.dl[c].bad]]

(* Fault: pieces of an earlier session count as sent by nobody. *)
LoadDownloads_NoNullProvider(st, file) ==
    LET loaded == DOMAIN file \ (bitset \cup excluded)
        Load(f) == LET old == IF f.pieces = {} THEN {} ELSE {NoPD}
                   IN  [NewDownload EXCEPT !.pieces = f.pieces, !.bad = f.bad,
                            !.suppliers = old]
    IN  IF completed THEN st
        ELSE [st EXCEPT !.active = loaded,
                        !.dl = [c \in Chunk |-> IF c \in loaded THEN Load(file[c])
                                                ELSE NewDownload]]

(* loadDownloads reads them, and adds the null provider. *)
LoadDownloads(st, file) ==
    LET loaded == DOMAIN file \ (bitset \cup excluded)
        Load(f) == LET old == IF f.pieces = {} THEN {} ELSE {NoPD}
                   IN  [NewDownload EXCEPT !.pieces = f.pieces, !.bad = f.bad,
                            !.piece_providers = old, !.suppliers = old]
    IN  IF completed THEN st
        ELSE [st EXCEPT !.active = loaded,
                        !.dl = [c \in Chunk |-> IF c \in loaded THEN Load(file[c])
                                                ELSE NewDownload]]

NoDownloads(st) ==
    [st EXCEPT !.active = {}, !.dl = [c \in Chunk |-> NewDownload]]

(* Fault: the downloads are deleted before they are saved. *)
Pause_SavesLate ==
    /\ idle
    /\ Pausing
    /\ mode = "running"
    /\ mode' = "paused"
    /\ saved' = SaveDownloads(NoDownloads(s))
    /\ s' = [NoDownloads(s) EXCEPT
               !.pd = [p \in PD |-> [s.pd[p] EXCEPT !.reqs = <<>>, !.wait_queue = <<>>]]]
    /\ UNCHANGED <<piece_downloaders, bitset, excluded, agenda, connections, banned>>

(* TorrentControl::pause: the peers cancel everything (PeerDownloader::    *)
(* cancelAll), the downloads are saved and deleted (Downloader::pause).    *)
Pause ==
    /\ idle
    /\ Pausing
    /\ mode = "running"
    /\ mode' = "paused"
    /\ saved' = SaveDownloads(s)
    /\ s' = [NoDownloads(s) EXCEPT
               !.pd = [p \in PD |-> [s.pd[p] EXCEPT !.reqs = <<>>, !.wait_queue = <<>>]]]
    /\ UNCHANGED <<piece_downloaders, bitset, excluded, agenda, connections, banned>>

(* TorrentControl::unpause *)
Unpause ==
    /\ idle
    /\ mode = "paused"
    /\ mode' = "running"
    /\ s' = LoadDownloads(s, saved)
    /\ UNCHANGED <<piece_downloaders, bitset, excluded, agenda, saved, connections, banned>>

(* TorrentControl::stop: the downloads are saved, and all peers leave. *)
Stop ==
    /\ idle
    /\ Stopping
    /\ mode # "stopped"
    /\ mode' = "stopped"
    /\ saved' = SaveDownloads(s)
    /\ s' = [NoDownloads(s) EXCEPT !.pd = [p \in PD |-> NewPD],
                                   !.sent = [p \in PD |-> {}]]
    /\ piece_downloaders' = <<>>
    /\ UNCHANGED <<bitset, excluded, agenda, connections, banned>>

(* TorrentControl::continueStart *)
Start ==
    /\ idle
    /\ mode = "stopped"
    /\ mode' = "running"
    /\ s' = LoadDownloads(s, saved)
    /\ UNCHANGED <<piece_downloaders, bitset, excluded, agenda, saved, connections, banned>>

Next ==
    \/ Turn
    \/ Update
    \/ \E p \in PD : \/ Timeout(p)
                     \/ Choke(p)
                     \/ Unchoke(p)
                     \/ AddPieceDownloader(p)
                     \/ RemovePieceDownloader(p)
                     \/ \E r \in s.sent[p] : \/ Rejected(p, r)
                                             \/ Lose(p, r)
                                             \/ \E ok \in BOOLEAN : PieceArrives(p, r, ok)
    \/ \E c \in Chunk : \/ Exclude(c)
                        \/ Include(c)
                        \/ \E ok \in BOOLEAN : DataChecked(c, ok)
                        \/ ChunkReady(c)
    \/ Pause \/ Unpause \/ Stop \/ Start

Spec == Init /\ [][Next]_vars

(* The event loop runs: handlers end, the timer fires, requests that stay  *)
(* unanswered expire, and the reliable peers connect, unchoke and answer   *)
(* each request within a minute.                                           *)
Fairness ==
    /\ WF_vars(Turn)
    /\ SF_vars(Update)
    /\ \A p \in PD : SF_vars(Timeout(p))
    /\ \A p \in Reliable :
          /\ SF_vars(AddPieceDownloader(p))
          /\ SF_vars(Unchoke(p))
          /\ \A r \in Request : SF_vars(r \in s.sent[p] /\ PieceArrives(p, r, TRUE))

FairSpec == Spec /\ Fairness

-----------------------------------------------------------------------------
(* Properties. *)

(* Every part of the downloader's state has its type. *)
TypeOK ==
    /\ s.active \subseteq Chunk
    /\ s.dl \in [Chunk -> Download]
    /\ s.pd \in [PD -> PieceDownloader]
    /\ s.sent \in [PD -> SUBSET Request]
    /\ piece_downloaders \in Seq(PD)
    /\ bitset \subseteq Chunk
    /\ excluded \subseteq Chunk
    /\ agenda \in Seq(Call)
    /\ mode \in {"running", "paused", "stopped"}
    /\ connections \in [PD -> Nat]

(* grab() counts how many ChunkDownloads use a PieceDownloader: a count    *)
(* that stays too high keeps the peer from ever getting another chunk.     *)
GrabExact ==
    \A p \in PD : s.pd[p].grabbed =
        Cardinality({c \in s.active : p \in Elements(s.dl[c].pdown)})

(* A missing piece that a ChunkDownload counts as asked of a peer is in    *)
(* the queues of that peer: it is answered, rejected or times out, and is  *)
(* never waited for in vain.                                               *)
WaitedIsAsked ==
    \A c \in s.active, p \in PD :
        \A i \in s.dl[c].status[p] \ s.dl[c].pieces : <<c, i>> \in Asked(s.pd[p])

(* A request in the queues of a peer is one that a ChunkDownload using the *)
(* peer knows of: whatever ends a download also cancels its requests.      *)
AskedIsWaited ==
    \A p \in PD : \A r \in Asked(s.pd[p]) :
        r[1] \in s.active /\ r[2] \in s.dl[r[1]].status[p]

(* No request is in the queues of a peer twice. *)
NoDuplicates ==
    \A p \in PD : Cardinality(Asked(s.pd[p])) =
                      Len(s.pd[p].reqs) + Len(s.pd[p].wait_queue)

(* Pausing and webseeds leave grab counts too high, but nothing makes them *)
(* too low: a peer is never given more chunks than getMaxChunkDownloads    *)
(* allows, and no ChunkDownload uses a PieceDownloader that was deleted    *)
(* when its peer left.                                                     *)
GrabNeverLow ==
    \A p \in PD : s.pd[p].grabbed >=
        Cardinality({c \in s.active : p \in Elements(s.dl[c].pdown)})

(* A peer is banned only when every piece of the bad chunk came through a  *)
(* PieceDownloader at the address of its own, and none from an earlier     *)
(* session: peers that sent a part of the chunk from elsewhere, and what   *)
(* was loaded, keep getOnlyDownloader from naming one.                     *)
BanIsJust ==
    \A b \in banned : \A x \in b[2] : x # NoPD /\ x[1] = b[1][1]

(* A peer is banned only when it sent every piece of the bad chunk itself. *)
OnlyPeerBanned == \A b \in banned : b[2] = {b[1]}

(* The pieces of c that the program can still make use of. *)
Known(c) ==
    IF mode = "running" THEN s.dl[c].pieces
    ELSE IF c \in DOMAIN saved THEN saved[c].pieces ELSE {}

(* Pausing, stopping and starting lose no piece of a chunk that is still   *)
(* wanted: saveDownloads writes all of them and loadDownloads reads them.  *)
(* Stopping a torrent that is paused is left out: it does lose them, as    *)
(* stop writes the downloads again, and Downloader::pause has cleared them.*)
PiecesKept ==
    [][mode' # mode /\ ~(mode = "paused" /\ mode' = "stopped") =>
         \A c \in Chunk \ (bitset' \cup excluded') : Known(c) \subseteq Known(c)']_vars

(* With one reliable peer that has all chunks, everything that is wanted   *)
(* gets downloaded.                                                        *)
Progress == <>[]completed

(* A request that waits is sent or cancelled at some time. *)
StoredTemporarily ==
    \A p \in PD : \A r \in Request :
        (r \in Elements(s.pd[p].wait_queue)) ~> (r \notin Elements(s.pd[p].wait_queue))

=============================================================================
