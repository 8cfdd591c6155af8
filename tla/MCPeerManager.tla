---------------------------- MODULE MCPeerManager ----------------------------
(* Small instances of PeerManager for TLC. *)
EXTENDS PeerManager

(* As many connections as the system allows, or two per torrent. *)
TwoLimits == {<<2, 0>>, <<0, 2>>}

CONSTANTS AtOnce, MaxConnections

(* Bound: how many of these complications there are at a time; that the    *)
(* wanted chunks changed, and that the torrent is paused, are one.         *)
Complications ==
    <<SuperSeeding,
      paused \/ wanted_changed \/ wanted_chunks # Chunk,
      incoming # NoPeer,
      repeated # {},
      climit.torrent_totals["other"] > 0>>

FewAtOnce ==
    /\ Cardinality({c \in DOMAIN Complications : Complications[c]}) <= AtOnce
    /\ Len(peer_map) + Len(connectors) <= MaxConnections
==============================================================================
