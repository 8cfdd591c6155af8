--------------------------- MODULE ConnectionLimit ---------------------------
(***************************************************************************)
(* bt::ConnectionLimit (src/src/peer/connectionlimit.cpp): tokens for      *)
(* connections, limited globally and per torrent.  A record holds its      *)
(* fields; a torrent without an entry in torrent_totals has total 0.       *)
(***************************************************************************)
EXTENDS Integers

CONSTANTS
    Torrents,
    SystemConnectionLimit   \* how many connections the system allows

ASSUME SystemLimitAssumption == SystemConnectionLimit \in Nat

Unlimited == 0

ConnectionLimits ==
    [global_limit : Nat,
     torrent_limit : Nat,
     global_total : Nat,
     torrent_totals : [Torrents -> Nat]]

(* The constructor. *)
NoConnections ==
    [global_limit |-> SystemConnectionLimit,
     torrent_limit |-> Unlimited,
     global_total |-> 0,
     torrent_totals |-> [t \in Torrents |-> 0]]

(* acquire: whether torrent t gets a token. *)
canAcquire(l, t) ==
    /\ l.global_limit = Unlimited \/ l.global_total < l.global_limit
    /\ \/ l.torrent_totals[t] = 0
       \/ l.torrent_limit = Unlimited
       \/ l.torrent_totals[t] < l.torrent_limit

acquire(l, t) ==
    [l EXCEPT !.global_total = @ + 1, !.torrent_totals[t] = @ + 1]

(* release, for n tokens of torrent t. *)
release(l, t, n) ==
    [l EXCEPT !.global_total = IF @ > n THEN @ - n ELSE 0,
              !.torrent_totals[t] = IF @ > n THEN @ - n ELSE 0]

(* setLimits: the system may allow fewer connections than the user. *)
setLimits(l, global, torrent) ==
    [l EXCEPT !.global_limit = IF global > SystemConnectionLimit
                               THEN SystemConnectionLimit ELSE global,
              !.torrent_limit = torrent]
==============================================================================
