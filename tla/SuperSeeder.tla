----------------------------- MODULE SuperSeeder -----------------------------
(***************************************************************************)
(* bt::SuperSeeder (src/src/peer/superseeder.cpp) and the ChunkCounter     *)
(* (src/src/peer/chunkcounter.cpp) it counts with.  Its fields are a       *)
(* record; sendChunk begins to search at a random chunk, so operations     *)
(* that call it are sets of the records they may leave behind.             *)
(***************************************************************************)
EXTENDS Integers, FiniteSets, SequencesExt

CONSTANT NumChunks

Chunk == 0 .. NumChunks - 1
NoChunk == NumChunks

(* ChunkCounter: inc, incBitSet, dec and decBitSet. *)
incBitSet(cnt, bs) == [i \in Chunk |-> IF i \in bs THEN cnt[i] + 1 ELSE cnt[i]]

(* Fault: the guard against 0 is dropped. *)
decBitSet_Unguarded(cnt, bs) ==
    [i \in Chunk |-> IF i \in bs THEN cnt[i] - 1 ELSE cnt[i]]

decBitSet(cnt, bs) ==
    [i \in Chunk |-> IF i \in bs /\ cnt[i] > 0 THEN cnt[i] - 1 ELSE cnt[i]]

NoCounts == [i \in Chunk |-> 0]

(* A new SuperSeeder. *)
FreshSuperSeeder ==
    [chunk_counter |-> NoCounts,
     num_seeders |-> 0,
     active_chunks |-> {},          \* pairs <<chunk, peer>>
     active_peers |-> <<>>]         \* function from peers to chunks

-----------------------------------------------------------------------------
(* The order in which sendChunk looks at chunks: start + 1 is passed over. *)
Visited(start) == [k \in 1 .. NumChunks - 1 |-> (start + 1 + k) % NumChunks]

(* The chunk that sendChunk settles for, for a peer that has the chunks of *)
(* bs: the first that nobody has, or else the one at which the loop ended. *)
Settled(s, bs, start) ==
    LET missing == {k \in DOMAIN Visited(start) : Visited(start)[k] \notin bs}
        rare == {k \in missing :
                   s.chunk_counter[Visited(start)[k]] = s.num_seeders}
    IN  IF rare # {} THEN Visited(start)[CHOOSE k \in rare : \A m \in rare : k <= m]
        ELSE IF missing # {} THEN start
        ELSE NoChunk

Offers(s, p, bs) ==
    IF p \in DOMAIN s.active_peers \/ bs = Chunk THEN {NoChunk}
    ELSE {Settled(s, bs, start) : start \in Chunk}

(* The peers of offer are told of a chunk each. *)
Activate(s, offer) ==
    LET told == {p \in DOMAIN offer : offer[p] # NoChunk}
    IN  [s EXCEPT !.active_chunks = @ \cup {<<offer[p], p>> : p \in told},
                  !.active_peers = [p \in DOMAIN @ \cup told |->
                                      IF p \in told THEN offer[p] ELSE @[p]]]

(* sendChunk for every peer of ps; has gives the chunks peers have. *)
sendChunks(s, ps, has) ==
    {Activate(s, offer) :
       offer \in {f \in [ps -> Chunk \cup {NoChunk}] :
                    \A p \in ps : f[p] \in Offers(s, p, has[p])}}

(* The removal of a peer from both tables. *)
Deactivate(s, ps) ==
    [s EXCEPT !.active_chunks = {cp \in @ : cp[2] \notin ps},
              !.active_peers = [p \in DOMAIN @ \ ps |-> @[p]]]

(* have: chunk i of peer p is new, so those who were told of it may be     *)
(* told of another one.                                                    *)
have(s, p, i, has) ==
    LET counted == [s EXCEPT
                      !.chunk_counter[i] = @ + 1,
                      !.num_seeders = IF has[p] = Chunk THEN @ + 1 ELSE @]
        others == {cp[2] : cp \in {cp \in s.active_chunks : cp[1] = i /\ cp[2] # p}}
    IN  sendChunks(Deactivate(counted, others), others, has)

haveAll(s, p) == [Deactivate(s, {p}) EXCEPT !.num_seeders = @ + 1]

(* bitset *)
bitset(s, p, bs, has) ==
    IF bs = Chunk THEN {haveAll(s, p)}
    ELSE FoldLeft(LAMBDA S, i : UNION {have(r, p, i, has) : r \in S},
                  {s}, SetToSortSeq(bs, <))

peerAdded(s, p, has) ==
    IF has[p] = Chunk THEN {[s EXCEPT !.num_seeders = @ + 1]}
    ELSE sendChunks([s EXCEPT !.chunk_counter = incBitSet(@, has[p])], {p}, has)

(* Fault: the peer stays in the tables. *)
peerRemoved_StaysActive(s, p, bs) ==
    [s EXCEPT
       !.num_seeders = IF bs = Chunk /\ @ > 0 THEN @ - 1 ELSE @,
       !.chunk_counter = decBitSet(@, bs)]

peerRemoved(s, p, bs) ==
    [Deactivate(s, {p}) EXCEPT
       !.num_seeders = IF bs = Chunk /\ @ > 0 THEN @ - 1 ELSE @,
       !.chunk_counter = decBitSet(@, bs)]
==============================================================================
