# Specifications of libktorrent

TLA+ modules for the parts of this BitTorrent library whose correctness depends
on the order of events: which chunks are downloaded, wanted and selectable,
which peer is asked for what, and who may connect. TLC checks them on small
instances, and TLAPS proves the theorems about the chunk book-keeping for
torrents of every size.

## The system

Almost everything runs in the Qt event loop of one thread: a timer calls
`TorrentControl::update` several times a second, and sockets, jobs and the user
interface deliver events in between. The concurrency is that of handlers
interleaving, of peers that answer late or never, and of state that outlives the
handler that made it. Real threads exist only below the sockets (the upload and
download threads), in the data checker and in preallocation.

| Part | Sources (below `src/src/`) | Role | Module |
|---|---|---|---|
| ChunkManager | `diskio/chunkmanager.cpp`, `chunk.cpp` | which chunks exist, are wanted, excluded, recorded in files | `ChunkManager` |
| ChunkSelector | `download/chunkselector.cpp` | the list of chunks to choose from; ranges for webseeds | `ChunkSelector`, `WebSeedRange` |
| Downloader, ChunkDownload | `download/downloader.cpp`, `chunkdownload.cpp` | assigns peers to chunks, collects pieces, checks hashes | `Downloader`, `ChunkDownload` |
| PeerDownloader | `peer/peerdownloader.cpp` | the two request queues of a peer, timeouts, rejects | `ChunkDownload`, `Downloader` |
| PeerManager, Peer | `peer/peermanager.cpp`, `peer.cpp` | connections, counters of chunks, interest | `PeerManager` |
| ConnectionLimit | `peer/connectionlimit.cpp` | tokens shared by all torrents | `ConnectionLimit` |
| SuperSeeder, ChunkCounter | `peer/superseeder.cpp`, `chunkcounter.cpp` | offers one chunk to a peer at a time | `SuperSeeder` |
| TorrentControl, JobQueue | `torrent/torrentcontrol.cpp`, `jobqueue.cpp` | life cycle of a torrent, jobs | its calls into the above |
| Choker, uploads | `torrent/choker.cpp`, `advancedchokealgorithm.cpp`, `uploader.cpp`, `peer/peeruploader.cpp` | upload slots | none yet |
| Streaming | `torrent/torrentfilestream.cpp`, `download/streamingchunkselector.cpp`, `download/managerofstream.cpp` | reads a file while it is downloaded | none yet |
| WebSeed | `download/webseed.cpp`, `httpconnection.cpp` | downloads ranges over HTTP | the range, and its delivery |
| Cache, files | `diskio/*cache*.cpp`, `cachefile.cpp`, `piecedata.cpp`, disk jobs | mapped files, moves | none yet |
| Data checker | `datachecker/` | hashes existing data in a thread | its result |
| Torrent layout | `torrent/torrent.cpp` | files over chunks | `LayoutAssumption` |
| Handshakes, encryption | `mse/`, `peer/authenticate*.cpp`, `serverauthenticate.cpp`, `peerconnector.cpp` | authenticated connections | their outcome |
| Sockets and threads | `net/` | packet queues, speed limits | none yet |
| uTP | `utp/` | reliable connections over UDP | none yet |
| Trackers, peer sources | `tracker/`, `torrent/peersourcemanager.cpp` | announces and scrapes | potential peers |
| DHT | `dht/` | calls, tasks, routing table | potential peers |
| Magnet links | `magnet/`, `peer/utmetadata.cpp` | metadata from peers | none yet |
| UPnP, bencoding, migration, utilities, torrent creation | `upnp/`, `bcodec/`, `migrate/`, `util/`, `torrent/torrentcreator.cpp` | support | none |

`TorrentControl::update` runs `PeerManager::update`, then `Downloader::update`.
PeerManager creates Peers, whose PeerDownloaders the Downloader uses; the
Downloader asks the ChunkSelector for a chunk, which asks the ChunkManager;
a complete chunk goes to the ChunkManager, whose wanted chunks go back to
PeerManager, which tells the peers.

## Modules

**ChunkManager.** The record `cm` holds the fields of the class that are about
chunks (`bitset`, `todo`, `excluded_chunks`, `only_seed_chunks`, the status and
priority of each chunk, the cached number of chunks left); `fprio` the priorities
of the files; `index_file` and `file_priority` the two files on disk; `data` the
chunks whose bytes are really there. Methods that others call (`prioritise`,
`exclude`, `include`, `resetChunk`, `downloadPriorityChanged`, ...) are operators
from a record to the record they leave, and actions are the entry points: a chunk
arrives or fails its hash, a data check reports on a range, the user sets the
priority of a file, files are lost and recreated or deselected, the program stops
and loads its files again. Loading takes one step per file, since the code is
consistent only at the end of it. With `DiskErrors`, every write of the index file
may break off at any entry, and what the code does after the write is skipped.
Files that existed before the torrent was added are marked as downloaded whatever
their bytes are, as in the code.
Only torrents of several files are modelled.

**ChunkSelector** extends it with the list `chunks` that the selector keeps on its
own. Each action is the action of ChunkManager together with the signal or call
that tells the selector of it, or leaves it untold.

**ChunkDownload** has the operators of one ChunkDownload and one PeerDownloader:
`pieces`, the providers, who was asked for what (`DownloadStatus`), the request
queues `reqs` and `wait_queue`, and the network between (`sent`).
**Downloader** has the actions. A handler that loops is run one call at a time by
`Turn`: `agenda` holds the calls left to it, and no other event is handled until
it is empty. A piece may be answered, rejected, lost or answered after its
timeout; a peer may choke, leave, and another come at the same address. How many
requests a peer may be sent (`max_reqs`, from its rate) is chosen anew in every
`PeerDownloader::update`, and the length of the wait queue follows it
(`WaitQueueFor`, in the code twice as many and at least 10). `saved` is the
`current_chunks` file. `banned` is the ban that followed the last bad chunk, with
the connections that sent its pieces.

**WebSeedRange** is the loop of `ChunkSelector::selectRange` and the second
attempt of `Downloader::downloadFrom(WebSeed*)`, checked for every bitset, busy
set and size against a definition by quantifiers. The size is what the constructor
of Downloader computes from the numbers of chunks and webseeds: no more than a
tenth of the torrent, hence 0 for fewer than ten chunks. `RangeShares` also has
another share, so that small torrents get longer ranges.

**ConnectionLimit** and **SuperSeeder** are operators on a record each.
**PeerManager** has the actions: `update` visits the peers one per step, in which
the packets of that peer are handled or the dead peer is removed, and then the
potential peers; start, stop, pause, kills, connections that succeed or fail,
incoming ones, super-seeding and limits come between updates. The peer id that
answers at an address is not known before the handshake. The other torrents are
one, which acquires and releases tokens.

Definitions whose name ends in an underscore and a word (`Prioritise_IgnoresBitset`)
are faults: the definition after them with a plausible mistake. They are used to
confirm that each property notices such a mistake, and nowhere else.

## Runs

Each is `tlc -config <cfg> <module>` in this directory.

| Run | Instance | Distinct states | Result |
|---|---|---|---|
| `Chunks.cfg`, MCChunkSelector | 3 chunks, 3 files; chunks 0 and 2 hold two files each | 71,072 | holds |
| `ChunksDiskErrors.cfg`, MCChunkSelector | 2 chunks, 2 files, one border chunk | 18,268 | holds |
| `ChunksTwoBorders.cfg`, MCChunkSelector | 4 chunks, 3 files, the middle one of two border chunks | | violated |
| `DownloaderEndgame.cfg`, MCDownloader | 1 chunk of 2 pieces, 2 peers, one of which may send wrong bytes and come back | 957,916 | holds |
| `DownloaderPaused.cfg`, MCDownloader | 2 chunks of 2 pieces, 1 peer | 1,395,679 | holds |
| `DownloaderProgress.cfg`, MCDownloader | 2 chunks, a reliable seed and an unreliable peer | 5,624 | holds |
| `DownloaderWaitQueue.cfg`, MCDownloader | 2 chunks, 1 peer | | violated |
| `DownloaderPauseGrab.cfg`, MCDownloader | 2 chunks, 1 peer | | violated |
| `DownloaderBan.cfg`, MCDownloader | 1 chunk, 1 peer that comes back | | violated |
| `WebSeedRange.cfg`, WebSeedRange | up to 7 chunks and 3 webseeds | 77,059 | holds |
| `Peers.cfg`, MCPeerManager | 2 peer ids, 2 addresses, 2 chunks, another torrent | 554,810 | holds |
| `PeersIncoming.cfg`, MCPeerManager | the same | | violated |

What they show:

- *Chunks.* However priorities, arrivals, failures, data checks, lost files and
  restarts follow each other, a chunk is excluded exactly when all its files are
  (`ExcludedExact`), left to do exactly when it is missing and a file wants it
  (`TodoExact`), counted correctly (`ChunksLeftExact`), uploaded only if the
  bitset has it (`OnDiskInBitset`), recorded in the index file as soon as it is
  downloaded (`DownloadedIsRecorded`), never claimed without its bytes while the
  program runs, unless its files existed before (`BitsetStaysHonest`), and in the selector's list as long as it is
  left to do (`SelectorComplete`). This last one is what makes a torrent
  complete: `select` removes chunks lazily, and five different events must put
  them back.
- *Disk errors.* The sets still agree when the index file cannot be written.
  `SelectorComplete` and `ChunksLeftExact` do not hold then (see below).
  `SelectorKeeps` does: no chunk leaves the list while it is left to do. And both
  hold again after the next check of all data and the next load
  (`ErrorsAreRepaired`).
- *Downloader.* A piece that a ChunkDownload waits for is in a queue
  (`WaitedIsAsked`), where a timeout or an answer finds it; no request outlives
  its download (`AskedIsWaited`) or is queued twice (`NoDuplicates`), while the
  limits of the queues change; use counts are exact (`GrabExact`), except after a
  pause or a webseed, which leave them too high but never too low
  (`GrabNeverLow`); nobody is banned for a chunk of which a peer elsewhere, or an
  earlier session, delivered a piece (`BanIsJust`); pausing, stopping and starting
  lose no piece (`PiecesKept`), except that stopping a paused torrent does.
- *Progress.* With one reliable seed everything is downloaded, in spite of a peer
  that chokes, rejects, ignores requests and leaves.
- *Peers.* Chunk counters equal the peers that announced the chunk, unless one
  announced it twice (`CountersExact`); tokens in use are those of live
  connections (`TokensExact`); peers that have what we want are told (`InterestKnown`);
  nobody is connected twice (`ConnectedOnce`); the super seeder holds no pointer
  to a peer that is gone (`ActiveConnected`).

### Bounds

The rules of ChunkManager tell apart chunks inside a file, chunks shared at its
beginning or end, and files of one, two or more chunks; the layouts of the runs
have each of these, and the proofs cover all others. Two pieces are the least
for which a chunk can be partly there, two peers for endgame, two chunks for a
wait queue that holds requests of another chunk. `MaxConnections` in Downloader
bounds how often an address is used: twice for the peer that may send wrong bytes,
so that a PieceDownloader can come to be where an earlier one was, once for the
others. The limits of the request queues change between two values in
`DownloaderEndgame.cfg`; everywhere they are small enough to be reached.
`SystemConnectionLimit` in `Peers.cfg` is below one of the limits that the user
sets, and so caps it. A second share in `WebSeedRange.cfg` beside the tenth of the
code makes sizes 0 to 3 occur.

`Peers.cfg` bounds how often a chunk is counted (`MaxCount`), the number of peers
and connectors, and, by the constraint `FewAtOnce`, how many of five
complications exist at a time: super-seeding; a pause or changed wanted chunks;
an incoming connection; a repeated announcement; connections of the other
torrent. They begin and end, so each follows each other, but with `AtOnce = 1`
no two overlap; with `AtOnce = 2` the run has 8,869,150 states and holds as well
(7 minutes). A violation that needs three at a time would be missed.

`CHECK_DEADLOCK FALSE` is set where the system may rest: a complete torrent, no
peers left, the end of an algorithm.

### Fairness

Only `FairSpec` of Downloader assumes any: the handler that runs goes on (`Turn`,
weak: nothing disables it); the timer of TorrentControl fires again and again
(`Update`), and so does the check for timeouts of every peer, which
`Peer::update` makes (`Timeout`). These are strong because other handlers
disable them for a while by occupying the thread. For peers in `Reliable` it also
assumes that they connect, unchoke and answer every request they are sent; this
is an assumption about the peer, not about this code, and the other peer has none.

## Disagreements that the runs show

- `PeersIncoming.cfg`: `PeerManager::newConnection` (peermanager.cpp:224) creates
  a peer only if the *first* attempt to get a token failed. A connection for which
  there is a token is dropped.
- `DownloaderWaitQueue.cfg`: after the last request in `reqs` times out or is
  rejected, nothing calls `PeerDownloader::update`, and requests in `wait_queue`
  wait for ever (peerdownloader.cpp:214).
- `DownloaderPauseGrab.cfg`: `Downloader::pause` deletes downloads without
  releasing their peers, which then count as used (downloader.cpp:505).
- `DownloaderBan.cfg`: `piece_providers` keeps the addresses of PieceDownloaders
  that may be gone (chunkdownload.cpp:517). One that is created at such an address
  is taken for the sender of the earlier one's pieces, and its peer is banned.
- `ChunksTwoBorders.cfg`: for a file of two chunks, both shared, `first++` makes
  the test of the last chunk be skipped; it is excluded with its status kept, and
  `reincluded` then does not put it back (chunkmanager.cpp:1264,
  chunkselector.cpp:323).

Met while modelling, kept in the models as the code has them, and excluded from
the properties above by their hypotheses or the instances of the runs:

- The same skipped test excludes a chunk that the next file needs
  (chunkmanager.cpp:1266); hence `NoTwoChunkBorderFile`.
- `doPreviewPriority` does not stop at the end of the file
  (chunkmanager.cpp:1104); hence `PreviewFits`.
- Excluding a file resets its chunks but does not save the index file, so a
  restart claims them again (chunkmanager.cpp:1216).
- When `saveIndexFile` throws, `recreateMissingFiles` does not tell the selector
  and does not count the chunks left again (torrentcontrol.cpp:1494,
  chunkmanager.cpp:780).
- `markExistingFilesAsDownloaded` does not look at the bytes of the files
  (chunkmanager.cpp:683); hence the exception in `BitsetStaysHonest`.
- A webseed that completes a chunk leaves its peers grabbed (downloader.cpp:776).
- A stop during a pause saves an empty list of downloads (torrentcontrol.cpp:486);
  hence the exception in `PiecesKept`.
- `webseed_range_size` is 0 for a torrent of fewer than ten chunks, and
  `selectRange` then returns a range of one chunk (downloader.cpp:95).
- Lowering the connection limit closes nothing: more tokens than the new limit
  stay in use (connectionlimit.cpp:47).
- `selectRange` passes over a range from chunk 0 and takes excluded chunks
  (chunkselector.cpp:357, 376).
- A repeated HAVE_ALL or BITFIELD is counted again (peermanager.cpp:196).
- An update during a pause sends INTERESTED when the wanted chunks changed
  (peermanager.cpp:645).

## Proofs

`ChunkManagerProofs` proves, for every number of chunks and files and every layout
that satisfies `SizesAssumption` and `LayoutAssumption` (files follow each other
and cover the chunks):

- `TypeCorrect`: `Spec => []TypeOK`, without further hypotheses;
- `ExcludedCorrect`, `TodoCorrect`, `OnDiskCorrect`: `ExcludedExact`, `TodoExact`
  and `OnDiskInBitset` are invariants if previews fit into their files
  (`PreviewFits`) and no file of two chunks begins in a border chunk
  (`NoTwoChunkBorderFile`), index file errors included;
- `RecordedCorrect`: without such errors, so is `DownloadedIsRecorded`.

Neither hypothesis can be dropped: TLC violates `ExcludedExact` in the layout of
`ChunksTwoBorders.cfg`, and in one of two files `0 .. 1` and `2 .. 2` with a
preview of two chunks.

None of the four is inductive alone. What `exclude` leaves in `todo` depends on
`bitset`, whether a chunk comes back depends on its priority, and the priority of
a border chunk is that of whichever of its files is highest. The inductive
invariant `Inv` therefore says of every chunk, in one formula (`ChunkConsistent`),
what its files make of it: excluded, only seeded, to do, and which of the two
extreme priorities it has. It also says that chunks of status ON_DISK are in the
bitset, and without disk errors the converse; that nothing is marked as downloaded
before the index file is loaded; and, without disk errors, that the index file
lists the chunks of status ON_DISK.
The argument has three layers. The `...Fields` lemmas give each
operator's effect on each field. `RaiseFile`, `ExcludeFile` and `SetPriorityInv`
show that a changed priority of one file takes a consistent record to one that is
consistent with the new priorities; the heart of them is that a chunk outside the
border belongs to one file only (`OnlyFile`, `MiddleChunk`). `InvStep` then has
one case per action.

Only model-checked: `ChunksLeftExact`, `BitsetStaysHonest`, `SelectorComplete`,
`SelectorKeeps`, `ErrorsAreRepaired`, everything about Downloader, PeerManager and WebSeedRange.
Liveness under fairness (`Progress`, `StoredTemporarily`) is beyond the prover and
stays with TLC.

## Not modelled

Speeds, scores and the preference among equally possible choices are left open:
the models allow every choice. Of piece data the models only know whether the
bytes are right. UPnP, bencoding, migration and the creation of torrents are I/O
or formats without interleaving. The big integers and ciphers of `mse/` are
computations whose correctness is not about states.

## Plan

In this order, each with a module of its own:

1. `TorrentControl`: start, stop, pause, jobs (`JobQueue`), data checks with
   their thread, moves, preallocation. Abstract specification: the user's last
   wish (running, paused or stopped) is what holds when no job runs. Composition
   with the `saved` file of Downloader.
2. `PacketSocket`: the upload thread and the main thread at the packet queues,
   with the lock as the code takes it. Abstract specification: a FIFO of packets
   from which unsent pieces may be withdrawn.
3. `UtpConnection` with the local and remote windows over a lossy, duplicating and
   reordering network; it should implement a FIFO of bytes.
4. `Handshake`: encrypted and plain, with bytes in any portions, and
   `PeerConnector`'s fallback.
5. `UDPTracker` and `TrackerManager`: transactions, timeouts, back-off, stop.
6. `RPCServer` (calls, transaction ids, tasks) and `KBucketTable` (the buckets
   partition the key space) of the DHT.
7. `Choker`, `Stream`, `CacheFile`, `MetadataDownload`, `WebSeed`.
8. Algorithms beside `WebSeedRange`: `Torrent::calcChunkPos` (which should satisfy
   `LayoutAssumption`), `CircularBuffer`, `ResourceManager`.

Parts that do not interact share a run, with the disjoint sum of their state
spaces. Bounds: two or three packets in flight for the windows and queues, two
trackers, three task slots, a key space of three or four bits for the table.

Theorems to follow: `SelectorComplete` of ChunkSelector under the hypotheses of
`ChunkManagerProofs` and without disk errors; `BitsetStaysHonest`; `TokensExact`; the partition of `KBucketTable`; the safety part of the
refinements of items 2 and 3.
