----------------------------- MODULE PeerManager -----------------------------
(***************************************************************************)
(* bt::PeerManager (src/src/peer/peermanager.cpp) of one torrent, with the *)
(* part of bt::Peer (src/src/peer/peer.cpp) that announces chunks and      *)
(* interest, the tokens of ConnectionLimit and the SuperSeeder.            *)
(*                                                                         *)
(* A peer has the address it is connected at and the peer id of its        *)
(* handshake; which id answers at an address is not known before.          *)
(* peer_map is the sequence of its peers in the order they were created.   *)
(* update goes through it one peer per step, and then through the          *)
(* potential peers; nothing else runs in between but the packets of the    *)
(* peer it is at.                                                          *)
(***************************************************************************)
EXTENDS ConnectionLimit, SuperSeeder

CONSTANTS
    PeerID,           \* the ids peers have
    Address,          \* numbers, in the order of the map potential_peers
    Allowed,          \* the addresses that AccessManager lets through
    MaxPotential,     \* the bound on potential_peers
    MaxCount,         \* bound: how often a chunk is counted
    WantedSets,       \* the sets of wanted chunks that TorrentControl computes
    Limits,           \* pairs <<global_limit, torrent_limit>>
    MaxAuths          \* MAX_SIMULTANIOUS_AUTHS

ASSUME PeerManagerAssumption ==
    /\ NumChunks \in Nat \ {0}
    /\ Address \subseteq Nat
    /\ Allowed \subseteq Address
    /\ MaxPotential \in Nat \ {0}
    /\ MaxCount \in Nat
    /\ WantedSets \subseteq SUBSET Chunk
    /\ Limits \subseteq Nat \X Nat
    /\ Torrents = {"this", "other"}

VARIABLES
    started, paused,
    peer_map,
    cnt,              \* the ChunkCounter
    available_chunks, wanted_chunks, wanted_changed,
    connectors,       \* the sequence of PeerConnectors
    potential_peers,
    incoming,         \* the peer id of an incoming connection, or NoPeer
    superseeder,      \* NoSuperSeeder or a record
    climit,           \* the ConnectionLimit, shared by all torrents
    loop, itr,        \* where update is, and the peer it is at
    repeated          \* history: chunks that some peer announced twice

vars == <<started, paused, peer_map, cnt, available_chunks, wanted_chunks,
          wanted_changed, connectors, potential_peers, incoming, superseeder,
          climit, loop, itr, repeated>>

chunkVars == <<cnt, available_chunks, repeated>>
wantedVars == <<wanted_chunks, wanted_changed>>
loopVars == <<loop, itr>>

NoPeer == 0

PeerRecord ==
    [id : PeerID, addr : Address, chunks : SUBSET Chunk, killed : BOOLEAN,
     am_interested : BOOLEAN]

NoSuperSeeder == [chunk_counter |-> <<>>, num_seeders |-> 0,
                  active_chunks |-> {}, active_peers |-> <<>>]

-----------------------------------------------------------------------------
(* Helpers. *)

Ids(pm) == {pm[n].id : n \in DOMAIN pm}

connectedTo(k) == started /\ k \in Ids(peer_map)
connectedToAddr(a) == \E n \in DOMAIN peer_map : peer_map[n].addr = a

addPotentialPeer(S, a) == IF Cardinality(S) < MaxPotential THEN S \cup {a} ELSE S

hasWantedChunks(p, wanted) == p.chunks \cap wanted # {}

(* What every connected peer has announced. *)
Has(pm) == [k \in Ids(pm) |-> pm[CHOOSE n \in DOMAIN pm : pm[n].id = k].chunks]

(* Peer::kill: the token is given back. *)
kill(p) == [p EXCEPT !.killed = TRUE]

(* Fault: a killed peer keeps its token. *)
KillThose_KeepsToken(S) ==
    /\ peer_map' = [n \in DOMAIN peer_map |->
                      IF n \in S THEN kill(peer_map[n]) ELSE peer_map[n]]
    /\ UNCHANGED climit

KillThose(S) ==
    /\ peer_map' = [n \in DOMAIN peer_map |->
                      IF n \in S THEN kill(peer_map[n]) ELSE peer_map[n]]
    /\ climit' = release(climit, "this",
                         Cardinality({n \in S : ~peer_map[n].killed}))

NewPeer(k, a) == [id |-> k, addr |-> a, chunks |-> {}, killed |-> FALSE,
               am_interested |-> FALSE]

SuperSeeding == superseeder # NoSuperSeeder

(* createPeer, from the peers pm that are there already. *)
createPeer(pm, k, a) ==
    /\ peer_map' = Append(pm, NewPeer(k, a))
    /\ IF SuperSeeding
       THEN superseeder' \in peerAdded(superseeder, k, Has(Append(pm, NewPeer(k, a))))
       ELSE UNCHANGED superseeder

-----------------------------------------------------------------------------
Init ==
    /\ started = FALSE
    /\ paused = FALSE
    /\ peer_map = <<>>
    /\ cnt = NoCounts
    /\ available_chunks = {}
    /\ wanted_chunks = Chunk
    /\ wanted_changed = FALSE
    /\ connectors = <<>>
    /\ potential_peers = {}
    /\ incoming = NoPeer
    /\ repeated = {}
    /\ superseeder = NoSuperSeeder
    /\ \E l \in Limits : climit = setLimits(NoConnections, l[1], l[2])
    /\ loop = "none"
    /\ itr = 1

idle == loop = "none"

(* start; unpause is part of it. *)
Interested(pm, wanted) ==
    [n \in DOMAIN pm |-> [pm[n] EXCEPT
       !.am_interested = @ \/ hasWantedChunks(pm[n], wanted)]]

Start(superseed) ==
    /\ idle
    /\ ~started
    /\ started' = TRUE
    /\ superseeder' = IF superseed /\ ~SuperSeeding THEN FreshSuperSeeder
                      ELSE superseeder
    /\ paused' = FALSE
    /\ peer_map' = IF paused THEN Interested(peer_map, wanted_chunks) ELSE peer_map
    /\ UNCHANGED <<incoming, chunkVars, wantedVars, connectors, potential_peers, climit, loopVars>>

(* Fault: the counters are not reset. *)
Stop_KeepsCounters ==
    /\ idle
    /\ started' = FALSE
    /\ connectors' = <<>>
    /\ superseeder' = NoSuperSeeder
    /\ peer_map' = <<>>
    /\ climit' = release(climit, "this", Len(connectors) +
                   Cardinality({n \in DOMAIN peer_map : ~peer_map[n].killed}))
    /\ UNCHANGED <<incoming, chunkVars, paused, wantedVars, potential_peers, loopVars>>

(* stop: the peers and connectors are destroyed with their tokens. *)
Stop ==
    /\ idle
    /\ cnt' = NoCounts
    /\ repeated' = {}
    /\ available_chunks' = {}
    /\ started' = FALSE
    /\ connectors' = <<>>
    /\ superseeder' = NoSuperSeeder
    /\ peer_map' = <<>>
    /\ climit' = release(climit, "this", Len(connectors) +
                   Cardinality({n \in DOMAIN peer_map : ~peer_map[n].killed}))
    /\ UNCHANGED <<incoming, paused, wantedVars, potential_peers, loopVars>>

(* pause: every peer is told that we are not interested. *)
Pause ==
    /\ idle
    /\ ~paused
    /\ paused' = TRUE
    /\ peer_map' = [n \in DOMAIN peer_map |->
                      [peer_map[n] EXCEPT !.am_interested = FALSE]]
    /\ UNCHANGED <<incoming, started, chunkVars, wantedVars, connectors, potential_peers,
                   superseeder, climit, loopVars>>

(* Fault: the peers are not told of interest again. *)
Unpause_Silent ==
    /\ idle
    /\ paused
    /\ paused' = FALSE
    /\ UNCHANGED <<incoming, started, peer_map, chunkVars, wantedVars, connectors,
                   potential_peers, superseeder, climit, loopVars>>

Unpause ==
    /\ idle
    /\ paused
    /\ paused' = FALSE
    /\ peer_map' = Interested(peer_map, wanted_chunks)
    /\ UNCHANGED <<incoming, started, chunkVars, wantedVars, connectors, potential_peers,
                   superseeder, climit, loopVars>>

(* setWantedChunks, at the end of a TorrentControl::update without pause. *)
SetWantedChunks(W) ==
    /\ idle
    /\ started
    /\ ~paused
    /\ wanted_chunks' = W
    /\ wanted_changed' = TRUE
    /\ UNCHANGED <<incoming, started, paused, peer_map, chunkVars, connectors,
                   potential_peers, superseeder, climit, loopVars>>

(* addPotentialPeer, by a peer source or a peer list. *)
AddPotentialPeer(a) ==
    /\ idle
    /\ potential_peers' = addPotentialPeer(potential_peers, a)
    /\ UNCHANGED <<incoming, started, paused, peer_map, chunkVars, wantedVars, connectors,
                   superseeder, climit, loopVars>>

(* killSeeders, killStalePeers and killUninterested: some of the peers. *)
KillPeers(S) ==
    /\ idle
    /\ S # {}
    /\ KillThose(S)
    /\ UNCHANGED <<incoming, started, paused, chunkVars, wantedVars, connectors,
                   potential_peers, superseeder, loopVars>>

(* setSuperSeeding: all peers are killed, to be connected to later.        *)
(* TorrentControl only turns it on while the torrent runs.                 *)
SetSuperSeeding(on) ==
    /\ idle
    /\ SuperSeeding # on
    /\ on => started
    /\ superseeder' = IF on THEN FreshSuperSeeder ELSE NoSuperSeeder
    /\ potential_peers' = FoldLeft(LAMBDA S, p : addPotentialPeer(S, p.addr),
                                   potential_peers, peer_map)
    /\ KillThose(DOMAIN peer_map)
    /\ UNCHANGED <<incoming, started, paused, chunkVars, wantedVars, connectors, loopVars>>

(* The Server accepts a connection and begins to authenticate it. *)
Incoming(k) ==
    /\ idle
    /\ incoming = NoPeer
    /\ incoming' = k
    /\ UNCHANGED <<started, paused, peer_map, chunkVars, wantedVars, connectors,
                   potential_peers, superseeder, climit, loopVars>>

(* ServerAuthenticate::handshakeReceived hands the connection over to      *)
(* newConnection, called once the handshake of an incoming connection is   *)
(* complete: a token that is acquired at once is given back on return, and *)
(* the connection only becomes a peer if no token was left and killBadPeer *)
(* freed one.  Which peers have a bad score, if any, is left open.         *)
NewConnection(a) ==
    LET handedOver == started /\ a \in Allowed /\ ~connectedTo(incoming)
        NoBadPeer == UNCHANGED <<peer_map, superseeder, climit>>
        BadPeer(n) ==
            LET freed == IF peer_map[n].killed THEN climit
                         ELSE release(climit, "this", 1)
                pm == [peer_map EXCEPT ![n] = kill(@)]
            IN  IF canAcquire(freed, "this")
                THEN climit' = acquire(freed, "this") /\ createPeer(pm, incoming, a)
                ELSE climit' = freed /\ peer_map' = pm /\ UNCHANGED superseeder
    IN  /\ idle
        /\ incoming # NoPeer
        /\ incoming' = NoPeer
        /\ IF ~handedOver \/ canAcquire(climit, "this")
           THEN UNCHANGED <<peer_map, superseeder, climit>>
           ELSE NoBadPeer \/ \E n \in DOMAIN peer_map : BadPeer(n)
        /\ UNCHANGED <<started, paused, chunkVars, wantedVars, connectors,
                       potential_peers, loopVars>>

(* Fault: nobody asks whether the peer is connected already. *)
PeerAuthenticated_Twice(c, k, ok) ==
    LET a == connectors[c]
    IN  /\ idle
        /\ connectors' = RemoveAt(connectors, c)
        /\ IF started /\ ok
           THEN createPeer(peer_map, k, a) /\ UNCHANGED climit
           ELSE /\ climit' = release(climit, "this", 1)
                /\ UNCHANGED <<peer_map, superseeder>>
        /\ UNCHANGED <<incoming, started, paused, chunkVars, wantedVars, potential_peers, loopVars>>

(* peerAuthenticated: the peer takes the token of the connector over. *)
PeerAuthenticated(c, k, ok) ==
    LET a == connectors[c]
    IN  /\ idle
        /\ connectors' = RemoveAt(connectors, c)
        /\ IF started /\ ok /\ ~connectedTo(k)
           THEN createPeer(peer_map, k, a) /\ UNCHANGED climit
           ELSE /\ climit' = release(climit, "this", 1)
                /\ UNCHANGED <<peer_map, superseeder>>
        /\ UNCHANGED <<incoming, started, paused, chunkVars, wantedVars, potential_peers, loopVars>>

-----------------------------------------------------------------------------
(* update *)

UpdateBegins ==
    /\ idle
    /\ started
    /\ loop' = "peers"
    /\ itr' = 1
    /\ UNCHANGED <<incoming, started, paused, peer_map, chunkVars, wantedVars, connectors,
                   potential_peers, superseeder, climit>>

AtPeer == loop = "peers" /\ itr \in DOMAIN peer_map

(* A killed peer, or one that has stalled, is removed. *)
RemovePeer ==
    LET p == peer_map[itr]
    IN  /\ AtPeer
        /\ \/ p.killed /\ UNCHANGED <<potential_peers, climit>>
           \/ /\ ~p.killed
              /\ potential_peers' = addPotentialPeer(potential_peers, p.addr)
              /\ climit' = release(climit, "this", 1)
        /\ cnt' = decBitSet(cnt, p.chunks)
        /\ UNCHANGED repeated
        /\ available_chunks' = {i \in Chunk : cnt'[i] > 0}
        /\ peer_map' = RemoveAt(peer_map, itr)
        /\ superseeder' = IF SuperSeeding THEN peerRemoved(superseeder, p.id, p.chunks)
                          ELSE superseeder
        /\ UNCHANGED <<incoming, started, paused, wantedVars, connectors, loopVars>>

(* The end of the loop's body: interest follows the wanted chunks. *)
FollowWanted(p) ==
    [p EXCEPT !.am_interested =
       IF wanted_changed THEN hasWantedChunks(p, wanted_chunks) ELSE @]

(* Peer::update kills a peer whose connection is closed, or whose packet   *)
(* is malformed.                                                           *)
PeerCloses ==
    /\ AtPeer
    /\ ~peer_map[itr].killed
    /\ peer_map' = [peer_map EXCEPT ![itr] = FollowWanted(kill(@))]
    /\ climit' = release(climit, "this", 1)
    /\ itr' = itr + 1
    /\ UNCHANGED <<incoming, started, paused, chunkVars, wantedVars, connectors,
                   potential_peers, superseeder, loop>>

(* handleBitField, handleHaveAll, handleHaveNone and bitSetReceived. *)
BitSetReceived(bs) ==
    LET p == [peer_map[itr] EXCEPT
                !.chunks = bs,
                !.am_interested = @ \/ (bs \cap wanted_chunks # {} /\ ~paused)]
    IN  /\ AtPeer
        /\ ~peer_map[itr].killed
        /\ \A i \in bs : cnt[i] < MaxCount
        /\ peer_map' = [peer_map EXCEPT ![itr] = p]
        /\ available_chunks' = available_chunks \cup bs
        /\ cnt' = incBitSet(cnt, bs)
        /\ repeated' = repeated \cup peer_map[itr].chunks
        /\ IF SuperSeeding
           THEN superseeder' \in bitset(superseeder, p.id, bs, Has(peer_map'))
           ELSE UNCHANGED superseeder
        /\ UNCHANGED <<incoming, started, paused, wantedVars, connectors, potential_peers,
                       climit, loopVars>>

(* handleHave and have; the SuperSeeder is told before the peer has it. *)
HaveReceived(i) ==
    LET p == [peer_map[itr] EXCEPT
                !.am_interested = @ \/ (i \in wanted_chunks /\ ~paused)]
    IN  /\ AtPeer
        /\ ~peer_map[itr].killed
        /\ cnt[i] < MaxCount
        /\ peer_map' = [peer_map EXCEPT ![itr] = [p EXCEPT !.chunks = @ \cup {i}]]
        /\ available_chunks' = available_chunks \cup {i}
        /\ repeated' = repeated \cup ({i} \cap p.chunks)
        /\ cnt' = incBitSet(cnt, {i})
        /\ IF SuperSeeding
           THEN superseeder' \in have(superseeder, p.id, i, Has(peer_map))
           ELSE UNCHANGED superseeder
        /\ UNCHANGED <<incoming, started, paused, wantedVars, connectors,
                       potential_peers, climit, loopVars>>

(* The packets of the peer have been handled. *)
NextPeer ==
    /\ AtPeer
    /\ ~peer_map[itr].killed
    /\ peer_map' = [peer_map EXCEPT ![itr] = FollowWanted(@)]
    /\ itr' = itr + 1
    /\ UNCHANGED <<incoming, started, paused, chunkVars, wantedVars, connectors,
                   potential_peers, superseeder, climit, loop>>

PeersDone ==
    /\ loop = "peers"
    /\ itr > Len(peer_map)
    /\ wanted_changed' = FALSE
    /\ loop' = "connect"
    /\ itr' = 1
    /\ UNCHANGED <<incoming, started, paused, peer_map, chunkVars, wanted_chunks,
                   connectors, potential_peers, superseeder, climit>>

(* connectToPeers: one potential peer per step, in the order of addresses. *)
mayConnect ==
    /\ ~paused
    /\ potential_peers # {}
    /\ Len(connectors) <= MaxAuths

FirstPotential == CHOOSE a \in potential_peers : \A b \in potential_peers : a <= b

eligible(a) == a \in Allowed /\ ~connectedToAddr(a)

ConnectToPeer ==
    LET a == FirstPotential
    IN  /\ loop = "connect"
        /\ mayConnect
        /\ \/ ~eligible(a) /\ UNCHANGED <<connectors, climit>>
           \/ /\ eligible(a)
              /\ canAcquire(climit, "this")
              /\ climit' = acquire(climit, "this")
              /\ connectors' = Append(connectors, a)
        /\ potential_peers' = potential_peers \ {a}
        /\ UNCHANGED <<incoming, started, paused, peer_map, chunkVars, wantedVars,
                       superseeder, loopVars>>

UpdateEnds ==
    /\ loop = "connect"
    /\ \/ ~mayConnect
       \/ mayConnect /\ eligible(FirstPotential) /\ ~canAcquire(climit, "this")
    /\ loop' = "none"
    /\ UNCHANGED <<incoming, started, paused, peer_map, chunkVars, wantedVars, connectors,
                   potential_peers, superseeder, climit, itr>>

-----------------------------------------------------------------------------
(* Another torrent, and the user, use the same limits. *)

OtherTorrent ==
    /\ idle
    /\ \/ /\ canAcquire(climit, "other")
          /\ climit.torrent_totals["other"] = 0
          /\ climit' = acquire(climit, "other")
       \/ /\ climit.torrent_totals["other"] > 0
          /\ climit' = release(climit, "other", 1)
    /\ UNCHANGED <<incoming, started, paused, peer_map, chunkVars, wantedVars, connectors,
                   potential_peers, superseeder, loopVars>>

SetLimits(l) ==
    /\ idle
    /\ climit' = setLimits(climit, l[1], l[2])
    /\ UNCHANGED <<incoming, started, paused, peer_map, chunkVars, wantedVars, connectors,
                   potential_peers, superseeder, loopVars>>

Next ==
    \/ \E b \in BOOLEAN : Start(b) \/ SetSuperSeeding(b)
    \/ Stop
    \/ Pause
    \/ Unpause
    \/ \E W \in WantedSets : SetWantedChunks(W)
    \/ \E a \in Address : AddPotentialPeer(a) \/ NewConnection(a)
    \/ \E k \in PeerID : Incoming(k)
    \/ \E S \in SUBSET DOMAIN peer_map : KillPeers(S)
    \/ \E c \in DOMAIN connectors, k \in PeerID, ok \in BOOLEAN :
          PeerAuthenticated(c, k, ok)
    \/ UpdateBegins
    \/ RemovePeer
    \/ PeerCloses
    \/ \E bs \in SUBSET Chunk : BitSetReceived(bs)
    \/ \E i \in Chunk : HaveReceived(i)
    \/ NextPeer
    \/ PeersDone
    \/ ConnectToPeer
    \/ UpdateEnds
    \/ OtherTorrent
    \/ \E l \in Limits : SetLimits(l)

Spec == Init /\ [][Next]_vars

-----------------------------------------------------------------------------
(* Properties. *)

(* Every field has its type. *)
TypeOK ==
    /\ started \in BOOLEAN /\ paused \in BOOLEAN /\ wanted_changed \in BOOLEAN
    /\ peer_map \in Seq(PeerRecord)
    /\ cnt \in [Chunk -> Nat]
    /\ available_chunks \subseteq Chunk
    /\ wanted_chunks \subseteq Chunk
    /\ connectors \in Seq(Address)
    /\ potential_peers \subseteq Address
    /\ incoming \in PeerID \cup {NoPeer}
    /\ climit \in ConnectionLimits
    /\ SuperSeeding =>
         /\ superseeder.chunk_counter \in [Chunk -> Nat]
         /\ superseeder.num_seeders \in Nat
         /\ superseeder.active_chunks \subseteq Chunk \X PeerID
    /\ repeated \subseteq Chunk
    /\ loop \in {"none", "peers", "connect"}
    /\ itr \in Nat \ {0}

(* The counter that chooses the rarest chunk counts, for every chunk, the  *)
(* connected peers that announced it, and a chunk is available exactly     *)
(* when it is counted, while peers come, go, stall and are killed.  Only a *)
(* chunk that a peer announced twice may be counted too often, never too   *)
(* seldom.                                                                 *)
CountersExact ==
    /\ \A i \in Chunk :
         LET having == Cardinality({n \in DOMAIN peer_map : i \in peer_map[n].chunks})
         IN  IF i \in repeated THEN cnt[i] >= having ELSE cnt[i] = having
    /\ available_chunks = {i \in Chunk : cnt[i] > 0}

(* The tokens that are taken are those of the connectors and of the peers  *)
(* that are not killed: a leaked token would lower the limit for good.     *)
TokensExact ==
    LET alive == Cardinality({n \in DOMAIN peer_map : ~peer_map[n].killed})
    IN  /\ climit.torrent_totals["this"] = Len(connectors) + alive
        /\ climit.global_total = climit.torrent_totals["this"]
                                   + climit.torrent_totals["other"]

(* A peer that has a chunk we want knows that we are interested, except    *)
(* while the torrent is paused and between a change of the wanted chunks   *)
(* and the end of the update after it.                                     *)
InterestKnown ==
    ~paused /\ ~wanted_changed =>
      \A n \in DOMAIN peer_map :
        ~peer_map[n].killed /\ hasWantedChunks(peer_map[n], wanted_chunks)
          => peer_map[n].am_interested

(* No peer id is connected twice, whether it connects to us, we to it, or  *)
(* both at the same time.                                                  *)
ConnectedOnce ==
    \A m, n \in DOMAIN peer_map : peer_map[m].id = peer_map[n].id => m = n

(* The two tables of the SuperSeeder agree, and hold no pointer to a peer  *)
(* that is gone.                                                           *)
ActiveConnected ==
    SuperSeeding =>
      /\ superseeder.active_chunks =
           {<<superseeder.active_peers[p], p>> : p \in DOMAIN superseeder.active_peers}
      /\ DOMAIN superseeder.active_peers \subseteq Ids(peer_map)

(* An incoming connection that authenticates, of a peer that is not        *)
(* connected, while there is a token for it, becomes a peer.               *)
IncomingAccepted ==
    [][/\ incoming # NoPeer /\ incoming' = NoPeer
       /\ started /\ ~connectedTo(incoming) /\ canAcquire(climit, "this")
       => incoming \in Ids(peer_map')]_vars
==============================================================================
