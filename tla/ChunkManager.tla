---------------------------- MODULE ChunkManager ----------------------------
(***************************************************************************)
(* The book-keeping of bt::ChunkManager (src/src/diskio/chunkmanager.cpp): *)
(* which chunks are downloaded, which are still to do, which are excluded  *)
(* or only seeded, as the files' priorities change, chunks arrive, data    *)
(* checks report and the program stops and reloads its index file.         *)
(*                                                                         *)
(* The record cm holds the fields of the class that belong to chunks.  The *)
(* methods that other methods call are operators from such a record to the *)
(* record they leave behind; the actions below are the entry points.       *)
(***************************************************************************)
EXTENDS Integers, FiniteSets

CONSTANTS
    NumChunks,        \* Torrent::getNumChunks()
    NumFiles,         \* Torrent::getNumFiles(), no file is empty
    FirstChunk,       \* TorrentFile::getFirstChunk(), per file
    LastChunk,        \* TorrentFile::getLastChunk(), per file
    Multimedia,       \* the files for which TorrentFile::isMultimedia() holds
    PreviewChunks,    \* previewChunkRangeSize(), per file of several chunks
    UserPriorities,   \* the priorities the user gives to files
    DiskErrors        \* whether writing the index file may fail

Chunk == 0 .. NumChunks - 1
File == 0 .. NumFiles - 1

(* enum Priority, with the values that the comparisons rely on. *)
PREVIEW_PRIORITY == 60
FIRST_PRIORITY == 50
NORMAL_PRIORITY == 40
LAST_PRIORITY == 30
ONLY_SEED_PRIORITY == 20
EXCLUDED == 10

FilePriority == {FIRST_PRIORITY, NORMAL_PRIORITY, LAST_PRIORITY,
                 ONLY_SEED_PRIORITY, EXCLUDED}
Priority == FilePriority \cup {PREVIEW_PRIORITY}

ASSUME SizesAssumption ==
    /\ NumChunks \in Nat \ {0}
    /\ NumFiles \in Nat \ {0}
    /\ PreviewChunks \in [File -> Nat \ {0}]
    /\ Multimedia \subseteq File
    /\ UserPriorities \subseteq FilePriority
    /\ DiskErrors \in BOOLEAN

(* The files lie one after the other in the torrent: a file may begin in   *)
(* the chunk in which an earlier one ends, and every chunk belongs to one. *)
ASSUME LayoutAssumption ==
    /\ FirstChunk \in [File -> Chunk]
    /\ LastChunk \in [File -> Chunk]
    /\ \A f \in File : FirstChunk[f] <= LastChunk[f]
    /\ \A f, g \in File : f < g => LastChunk[f] <= FirstChunk[g]
    /\ \A i \in Chunk : \E f \in File : FirstChunk[f] <= i /\ i <= LastChunk[f]

(* The fields of ChunkManager and of its chunks. *)
ChunkRecord ==
    [on_disk : SUBSET Chunk,            \* the chunks of status ON_DISK
     bitset : SUBSET Chunk,
     todo : SUBSET Chunk,
     excluded_chunks : SUBSET Chunk,
     only_seed_chunks : SUBSET Chunk,
     priority : [Chunk -> Priority],    \* Chunk::priority
     recalc_chunks_left : BOOLEAN,
     chunks_left : Nat]

VARIABLES
    cm,             \* the per-chunk state of ChunkManager
    fprio,          \* TorrentFile::priority of every file
    phase,          \* how far the constructor and loadIndexFile have come
    index_file,     \* the chunks the index file on disk lists
    file_priority,  \* the priorities the file_priority file on disk holds
    data            \* the chunks of which the data files hold the right bytes

vars == <<cm, fprio, phase, index_file, file_priority, data>>

(* loadIndexFile works on file phase while phase < NumFiles, then on the   *)
(* index file, and is done when phase is Running.                          *)
Running == NumFiles + 1
during_load == phase # Running

-----------------------------------------------------------------------------
(* Ranges and files of a chunk. *)

FileChunks(f) == FirstChunk[f] .. LastChunk[f]

(* Torrent::calcChunkPos: the files with bytes in chunk i. *)
FilesOf(i) == {f \in File : FirstChunk[f] <= i /\ i <= LastChunk[f]}

(* createBorderChunkSet: the last chunk of a file that the next begins in. *)
border_chunks == {LastChunk[f] : f \in {g \in File : g + 1 \in File
                                          /\ LastChunk[g] = FirstChunk[g + 1]}}

(* setBorderChunkPriority: the highest priority of the files of chunk i. *)
Highest(fp, i) == CHOOSE p \in {fp[f] : f \in FilesOf(i)} :
                      \A f \in FilesOf(i) : fp[f] <= p

(* doPreviewPriority: the chunks it prioritises for a multimedia file. *)
PreviewRange(f) ==
    LET first == FirstChunk[f]
        last == LastChunk[f]
    IN  IF first = last THEN {first}
        ELSE Chunk \cap ((first .. first + PreviewChunks[f]) \cup
               (IF last - first > PreviewChunks[f]
                THEN last - PreviewChunks[f] .. last ELSE {}))

-----------------------------------------------------------------------------
(* Operations on the chunk record. *)

(* chunksLeft(): what it counts when it has to count again. *)
Left(c) == {i \in Chunk : i \notin c.bitset /\ c.priority[i] # EXCLUDED}

ChunksLeft(c) == IF c.recalc_chunks_left
                 THEN [c EXCEPT !.recalc_chunks_left = FALSE,
                                !.chunks_left = Cardinality(Left(c))]
                 ELSE c

(* The updateStats signal makes TorrentControl call chunksLeft(), but it   *)
(* is connected only once the index file has been loaded.                  *)
UpdateStats(c) == IF during_load THEN c ELSE ChunksLeft(c)

(* Fault: downloaded chunks are left to do again. *)
Prioritise_IgnoresBitset(c, R, pr) ==
    UpdateStats([c EXCEPT
       !.priority = [i \in Chunk |-> IF i \in R THEN pr[i] ELSE c.priority[i]],
       !.only_seed_chunks =
           {i \in Chunk : IF i \in R THEN pr[i] = ONLY_SEED_PRIORITY
                                     ELSE i \in c.only_seed_chunks},
       !.todo =
           {i \in Chunk : IF i \in R
                          THEN pr[i] \notin {ONLY_SEED_PRIORITY, EXCLUDED}
                          ELSE i \in c.todo}])

(* prioritise: the chunks of R get the priorities that pr gives them. *)
Prioritise(c, R, pr) ==
    UpdateStats([c EXCEPT
       !.priority = [i \in Chunk |-> IF i \in R THEN pr[i] ELSE c.priority[i]],
       !.only_seed_chunks =
           {i \in Chunk : IF i \in R THEN pr[i] = ONLY_SEED_PRIORITY
                                     ELSE i \in c.only_seed_chunks},
       !.todo =
           {i \in Chunk : IF i \in R
                          THEN /\ pr[i] \notin {ONLY_SEED_PRIORITY, EXCLUDED}
                               /\ i \notin c.bitset
                          ELSE i \in c.todo}])

(* Fault: the number of old chunk info files is stored for EXCLUDED. *)
Exclude_OldNumber(c, R) ==
    UpdateStats([c EXCEPT
       !.priority = [i \in Chunk |-> IF i \in R THEN 0 ELSE c.priority[i]],
       !.excluded_chunks = c.excluded_chunks \cup R,
       !.only_seed_chunks = c.only_seed_chunks \ R,
       !.todo = c.todo \ R,
       !.bitset = c.bitset \ R,
       !.recalc_chunks_left = TRUE])

(* Fault: the cached number of chunks left is not marked stale. *)
Exclude_NoRecalc(c, R) ==
    UpdateStats([c EXCEPT
       !.priority = [i \in Chunk |-> IF i \in R THEN EXCLUDED ELSE c.priority[i]],
       !.excluded_chunks = c.excluded_chunks \cup R,
       !.only_seed_chunks = c.only_seed_chunks \ R,
       !.todo = c.todo \ R,
       !.bitset = c.bitset \ R])

Exclude(c, R) ==
    UpdateStats([c EXCEPT
       !.priority = [i \in Chunk |-> IF i \in R THEN EXCLUDED ELSE c.priority[i]],
       !.excluded_chunks = c.excluded_chunks \cup R,
       !.only_seed_chunks = c.only_seed_chunks \ R,
       !.todo = c.todo \ R,
       !.bitset = c.bitset \ R,
       !.recalc_chunks_left = TRUE])

Include(c, R) ==
    UpdateStats([c EXCEPT
       !.priority = [i \in Chunk |-> IF i \in R THEN NORMAL_PRIORITY
                                                ELSE c.priority[i]],
       !.excluded_chunks = c.excluded_chunks \ R,
       !.todo = c.todo \cup (R \ c.bitset),
       !.recalc_chunks_left = TRUE])

(* Fault: the status of the chunk stays ON_DISK. *)
ResetChunks_KeepsStatus(c, R) ==
    IF during_load THEN c
    ELSE [c EXCEPT
            !.bitset = c.bitset \ R,
            !.todo = {i \in Chunk : IF i \in R
                                    THEN /\ i \notin c.excluded_chunks
                                         /\ i \notin c.only_seed_chunks
                                    ELSE i \in c.todo}]

(* resetChunk on every chunk of R; it does nothing while the index loads. *)
ResetChunks(c, R) ==
    IF during_load THEN c
    ELSE [c EXCEPT
            !.on_disk = c.on_disk \ R,
            !.bitset = c.bitset \ R,
            !.todo = {i \in Chunk : IF i \in R
                                    THEN /\ i \notin c.excluded_chunks
                                         /\ i \notin c.only_seed_chunks
                                    ELSE i \in c.todo}]

(* What dataChecked and markExistingFilesAsDownloaded do with good chunks, *)
(* and loadIndexFile with the chunks that the index file lists.            *)
MarkDownloaded(c, R) ==
    [c EXCEPT !.on_disk = c.on_disk \cup R,
              !.bitset = c.bitset \cup R,
              !.todo = c.todo \ R,
              !.recalc_chunks_left = TRUE]

(* doPreviewPriority *)
DoPreviewPriority(c, fp, f) ==
    IF f \notin Multimedia \/ fp[f] \in {EXCLUDED, ONLY_SEED_PRIORITY} THEN c
    ELSE Prioritise(c, PreviewRange(f), [i \in Chunk |-> PREVIEW_PRIORITY])

(* Fault: a file that is only seeded does not need its border chunk. *)
StillNeeded_NormalOnly(fp, i, f) ==
    \E g \in FilesOf(i) \ {f} : fp[g] \notin {EXCLUDED, ONLY_SEED_PRIORITY}

(* resetBorderChunk: another file of chunk i still has to be downloaded. *)
StillNeeded(fp, i, f) == \E g \in FilesOf(i) \ {f} : fp[g] # EXCLUDED

(* downloadStatusChanged(tf, false).  The last chunk is only looked at when *)
(* it differs from the first one left after the first chunk was dealt with. *)
StopDownloading(c, fp, f) ==
    LET first == FirstChunk[f]
        last == LastChunk[f]
        keepFirst == first \in border_chunks /\ StillNeeded(fp, first, f)
        lo == IF keepFirst THEN first + 1 ELSE first
        keepLast == /\ last # lo
                    /\ last \in border_chunks
                    /\ StillNeeded(fp, last, f)
        hi == IF keepLast THEN last - 1 ELSE last
        kept == (IF keepFirst THEN {first} ELSE {})
                  \cup (IF keepLast THEN {last} ELSE {})
        untouched == IF keepFirst /\ last = lo THEN {last} ELSE {}
        c1 == ResetChunks(c, FileChunks(f) \ (kept \cup untouched))
        c2 == IF kept = {} THEN c1
              ELSE Prioritise(c1, kept, [i \in Chunk |-> Highest(fp, i)])
    IN  IF lo <= hi THEN Exclude(c2, lo .. hi) ELSE c2

(* downloadStatusChanged(tf, true) *)
ResumeDownloading(c, fp, f) ==
    DoPreviewPriority(Include(c, FileChunks(f)), fp, f)

(* downloadPriorityChanged: fp already holds the new priority of f. *)
DownloadPriorityChanged(c, fp, f, newpriority, oldpriority) ==
    LET c1 == IF oldpriority = EXCLUDED THEN ResumeDownloading(c, fp, f) ELSE c
        c2 == IF oldpriority = ONLY_SEED_PRIORITY
              THEN Include(c1, FileChunks(f)) ELSE c1
        c3 == Prioritise(c2, FileChunks(f),
                  [i \in Chunk |-> IF i \in border_chunks THEN Highest(fp, i)
                                   ELSE newpriority])
    IN  IF newpriority = EXCLUDED THEN StopDownloading(c, fp, f)
        ELSE DoPreviewPriority(c3, fp, f)

(* TorrentFile::setPriority: an excluded file first becomes a normal one.  *)
SetPriority(c, fp, f, p) ==
    LET normal == [fp EXCEPT ![f] = NORMAL_PRIORITY]
        new == [fp EXCEPT ![f] = p]
    IN  IF fp[f] = p THEN c
        ELSE IF fp[f] = EXCLUDED
        THEN DownloadPriorityChanged(
                 DownloadPriorityChanged(c, normal, f, NORMAL_PRIORITY, EXCLUDED),
                 new, f, p, NORMAL_PRIORITY)
        ELSE DownloadPriorityChanged(c, new, f, p, fp[f])

(* The constructor: nothing downloaded, every file of normal priority, the *)
(* preview ranges prioritised (setupPriorities).                           *)
Fresh ==
    [on_disk |-> {},
     bitset |-> {},
     todo |-> Chunk,
     excluded_chunks |-> {},
     only_seed_chunks |-> {},
     priority |-> [i \in Chunk |->
                     IF \E f \in Multimedia : i \in PreviewRange(f)
                     THEN PREVIEW_PRIORITY ELSE NORMAL_PRIORITY],
     recalc_chunks_left |-> TRUE,
     chunks_left |-> 0]

-----------------------------------------------------------------------------
(* The entry points. *)

(* A new torrent: no index file yet; some of its files may already exist. *)
Init ==
    /\ cm = Fresh
    /\ fprio = [f \in File |-> NORMAL_PRIORITY]
    /\ phase = 0
    /\ index_file = {}
    /\ file_priority = [f \in File |-> NORMAL_PRIORITY]
    /\ \E E \in SUBSET File : data = {i \in Chunk : FilesOf(i) \subseteq E}

(* Fault: the index file is not written. *)
ChunkDownloaded_NotWritten(i) ==
    /\ ~during_load
    /\ i \notin cm.bitset
    /\ IF cm.priority[i] = EXCLUDED THEN UNCHANGED <<cm, data>>
       ELSE /\ cm' = MarkDownloaded(cm, {i})
            /\ data' = data \cup {i}
    /\ UNCHANGED <<fprio, phase, index_file, file_priority>>

(* chunkDownloaded, for a chunk that the Downloader found to be good. *)
ChunkDownloaded(i) ==
    /\ ~during_load
    /\ i \notin cm.bitset
    /\ IF cm.priority[i] = EXCLUDED THEN UNCHANGED <<cm, index_file, data>>
       ELSE /\ cm' = MarkDownloaded(cm, {i})
            /\ index_file' = index_file \cup {i}
            /\ data' = data \cup {i}
    /\ UNCHANGED <<fprio, phase, file_priority>>

(* Fault: todo is only cleared once the entry is written. *)
ChunkDownloadedUnrecorded_TodoLast(i) ==
    /\ DiskErrors
    /\ ~during_load
    /\ i \notin cm.bitset
    /\ cm.priority[i] # EXCLUDED
    /\ cm' = [cm EXCEPT !.bitset = cm.bitset \cup {i},
                        !.recalc_chunks_left = TRUE]
    /\ data' = data \cup {i}
    /\ UNCHANGED <<fprio, phase, index_file, file_priority>>

(* Fault: the status is set first, bitset and todo after the entry. *)
ChunkDownloadedUnrecorded_StatusFirst(i) ==
    /\ DiskErrors
    /\ ~during_load
    /\ i \notin cm.bitset
    /\ cm.priority[i] # EXCLUDED
    /\ cm' = [cm EXCEPT !.on_disk = cm.on_disk \cup {i}]
    /\ data' = data \cup {i}
    /\ UNCHANGED <<fprio, phase, index_file, file_priority>>

(* The same when writeIndexFileEntry throws: setStatus is never reached.   *)
ChunkDownloadedUnrecorded(i) ==
    /\ DiskErrors
    /\ ~during_load
    /\ i \notin cm.bitset
    /\ cm.priority[i] # EXCLUDED
    /\ cm' = [cm EXCEPT !.bitset = cm.bitset \cup {i},
                        !.todo = cm.todo \ {i},
                        !.recalc_chunks_left = TRUE]
    /\ data' = data \cup {i}
    /\ UNCHANGED <<fprio, phase, index_file, file_priority>>

(* resetChunk, called by Downloader::finished for a chunk with a bad hash. *)
ChunkFailed(i) ==
    /\ ~during_load
    /\ i \notin cm.bitset
    /\ cm' = ResetChunks(cm, {i})
    /\ data' = data \ {i}
    /\ UNCHANGED <<fprio, phase, index_file, file_priority>>

(* saveIndexFile: writes an entry per chunk whose status is ON_DISK. *)
SaveIndexFile(c, fp) == index_file' = c.on_disk /\ file_priority' = fp

(* It throws when the file cannot be opened, or after some of the entries; *)
(* fp is what the file_priority file holds by then.                        *)
SaveIndexFileFails(c, fp) ==
    /\ DiskErrors
    /\ \/ UNCHANGED index_file
       \/ \E k \in Chunk : index_file' = {i \in c.on_disk : i < k}
    /\ file_priority' = fp

(* dataChecked: the data checker found the chunks of data to be good. *)
DataChecked(from, to) ==
    LET good == ((from .. to) \cap data) \ cm.bitset
        bad == ((from .. to) \ data) \cap cm.bitset
        c == [cm EXCEPT
                !.on_disk = (cm.on_disk \cup good) \ bad,
                !.bitset = (cm.bitset \cup good) \ bad,
                !.todo = {i \in Chunk : IF i \in bad
                            THEN /\ i \notin cm.only_seed_chunks
                                 /\ i \notin cm.excluded_chunks
                            ELSE i \in cm.todo /\ i \notin good},
                !.recalc_chunks_left = TRUE]
    IN  /\ ~during_load
        /\ from <= to
        /\ cm' = ChunksLeft(c)
        /\ SaveIndexFile(c, fprio) \/ SaveIndexFileFails(c, file_priority)
        /\ UNCHANGED <<fprio, phase, data>>

(* TorrentFile::setPriority by the user.  MultiFileCache deletes the file  *)
(* of an excluded one and keeps only its first and its last chunk.         *)
UserSetsPriority(f, p) ==
    /\ ~during_load
    /\ fprio[f] # p
    /\ cm' = SetPriority(cm, fprio, f, p)
    /\ fprio' = [fprio EXCEPT ![f] = p]
    /\ file_priority' = fprio'
    /\ data' = IF p = EXCLUDED
               THEN data \ (FirstChunk[f] + 1 .. LastChunk[f] - 1) ELSE data
    /\ UNCHANGED <<phase, index_file>>

(* chunksLeft() by way of TorrentControl::updateStats. *)
StatsUpdated ==
    /\ ~during_load
    /\ cm.recalc_chunks_left
    /\ cm' = ChunksLeft(cm)
    /\ UNCHANGED <<fprio, phase, index_file, file_priority, data>>

(* markExistingFilesAsDownloaded: the middle of every file of E, and a     *)
(* first or last chunk when all the files it lies in exist.  E are the     *)
(* files that were there when touch() last looked: it does not look at     *)
(* their bytes, and they may hold anything.                                *)
ExistingChunks(E) ==
    UNION {{i \in FileChunks(f) : \/ FirstChunk[f] < i /\ i < LastChunk[f]
                                  \/ FilesOf(i) \subseteq E} : f \in E}

MarkExistingFilesAsDownloaded(E) ==
    /\ ~during_load
    /\ LET c == MarkDownloaded(cm, ExistingChunks(E))
       IN  /\ cm' = ChunksLeft(c)
           /\ SaveIndexFile(c, fprio) \/ SaveIndexFileFails(c, file_priority)
    /\ UNCHANGED <<fprio, phase, data>>

(* recreateMissingFiles: the files of M had vanished from the disk.  What  *)
(* comes after saveIndexFile is skipped when it throws.                    *)
LostChunks(M) == UNION {FileChunks(f) : f \in M}

(* Fault: the last chunk of a file is not reset. *)
RecreateSaved_OffByOne(M) ==
    LET c == ResetChunks(cm, UNION {FirstChunk[f] .. LastChunk[f] - 1 : f \in M})
    IN  /\ ~during_load
        /\ SaveIndexFile(c, fprio)
        /\ cm' = ChunksLeft([c EXCEPT !.recalc_chunks_left = TRUE])
        /\ data' = data \ LostChunks(M)
        /\ UNCHANGED <<fprio, phase>>

RecreateSaved(M) ==
    LET c == ResetChunks(cm, LostChunks(M))
    IN  /\ ~during_load
        /\ SaveIndexFile(c, fprio)
        /\ cm' = ChunksLeft([c EXCEPT !.recalc_chunks_left = TRUE])
        /\ data' = data \ LostChunks(M)
        /\ UNCHANGED <<fprio, phase>>

RecreateUnsaved(M) ==
    LET c == ResetChunks(cm, LostChunks(M))
    IN  /\ ~during_load
        /\ SaveIndexFileFails(c, file_priority)
        /\ cm' = c
        /\ data' = data \ LostChunks(M)
        /\ UNCHANGED <<fprio, phase>>

RecreateMissingFiles(M) == RecreateSaved(M) \/ RecreateUnsaved(M)

(* dndMissingFiles, when file f had vanished.  Several files are dealt     *)
(* with one after the other, here in a step each; the code saves the index *)
(* once, after the last.  The priorities are saved before the index.       *)
DndRecord(f) ==
    LET new == [fprio EXCEPT ![f] = EXCLUDED]
        c == ResetChunks(cm, FileChunks(f))
    IN  IF fprio[f] = EXCLUDED THEN c
        ELSE DownloadPriorityChanged(c, new, f, EXCLUDED, fprio[f])

DndSaved(f) ==
    /\ ~during_load
    /\ EXCLUDED \in UserPriorities
    /\ fprio' = [fprio EXCEPT ![f] = EXCLUDED]
    /\ SaveIndexFile(DndRecord(f), fprio')
    /\ cm' = ChunksLeft([DndRecord(f) EXCEPT !.recalc_chunks_left = TRUE])
    /\ data' = data \ FileChunks(f)
    /\ UNCHANGED phase

DndUnsaved(f) ==
    /\ ~during_load
    /\ EXCLUDED \in UserPriorities
    /\ fprio' = [fprio EXCEPT ![f] = EXCLUDED]
    /\ SaveIndexFileFails(DndRecord(f), fprio')
    /\ cm' = DndRecord(f)
    /\ data' = data \ FileChunks(f)
    /\ UNCHANGED phase

DndMissingFiles(f) == DndSaved(f) \/ DndUnsaved(f)

-----------------------------------------------------------------------------
(* Stopping at any moment, and starting again from the files on disk. *)

Restart ==
    /\ cm' = Fresh
    /\ fprio' = [f \in File |-> NORMAL_PRIORITY]
    /\ phase' = 0
    /\ UNCHANGED <<index_file, file_priority, data>>

(* loadPriorityInfo, one file per step. *)
LoadPriorityInfo ==
    /\ phase < NumFiles
    /\ IF file_priority[phase] = NORMAL_PRIORITY THEN UNCHANGED <<cm, fprio>>
       ELSE /\ cm' = SetPriority(cm, fprio, phase, file_priority[phase])
            /\ fprio' = [fprio EXCEPT ![phase] = file_priority[phase]]
    /\ phase' = phase + 1
    /\ UNCHANGED <<index_file, file_priority, data>>

(* loadIndexFile, once the priorities are known, and the first chunksLeft. *)
LoadIndexFile ==
    /\ phase = NumFiles
    /\ cm' = ChunksLeft(MarkDownloaded(cm, index_file))
    /\ phase' = Running
    /\ UNCHANGED <<fprio, index_file, file_priority, data>>

Next ==
    \/ \E i \in Chunk : \/ ChunkDownloaded(i)
                        \/ ChunkDownloadedUnrecorded(i)
                        \/ ChunkFailed(i)
    \/ \E from, to \in Chunk : DataChecked(from, to)
    \/ \E f \in File, p \in UserPriorities : UserSetsPriority(f, p)
    \/ StatsUpdated
    \/ \E E \in SUBSET File : \/ MarkExistingFilesAsDownloaded(E)
                              \/ RecreateMissingFiles(E)
    \/ \E f \in File : DndMissingFiles(f)
    \/ Restart
    \/ LoadPriorityInfo
    \/ LoadIndexFile

Spec == Init /\ [][Next]_vars

-----------------------------------------------------------------------------
(* Properties. *)

(* Every field of the chunk record and every file on disk has its type. *)
TypeOK ==
    /\ cm \in ChunkRecord
    /\ fprio \in [File -> FilePriority]
    /\ phase \in 0 .. Running
    /\ index_file \in SUBSET Chunk
    /\ file_priority \in [File -> FilePriority]
    /\ data \in SUBSET Chunk

(* A chunk is excluded exactly when all the files it lies in are excluded, *)
(* however the priorities were changed and reloaded: excluding a file never *)
(* takes away a chunk that a neighbouring file still needs.                *)
ExcludedExact ==
    /\ cm.excluded_chunks =
           {i \in Chunk : \A f \in FilesOf(i) : fprio[f] = EXCLUDED}
    /\ \A i \in Chunk : cm.priority[i] = EXCLUDED <=> i \in cm.excluded_chunks

(* A chunk is left to do exactly when it is not downloaded and some file   *)
(* it lies in is wanted: this is what completed() and the chunk selector   *)
(* rely on, and it holds in every step of a reload too.                    *)
TodoExact ==
    cm.todo = {i \in Chunk : /\ i \notin cm.bitset
                             /\ \E f \in FilesOf(i) :
                                  fprio[f] \notin {EXCLUDED, ONLY_SEED_PRIORITY}}

(* The cached number of chunks left is right whenever it is not marked to  *)
(* be counted again.                                                       *)
ChunksLeftExact ==
    cm.recalc_chunks_left \/ cm.chunks_left = Cardinality(Left(cm))

(* A chunk whose status is ON_DISK, and that is uploaded to peers, is one  *)
(* that the bitset says is downloaded.                                     *)
OnDiskInBitset == cm.on_disk \subseteq cm.bitset

(* The index file lists every downloaded chunk: stopping at any moment and *)
(* starting again loses none of them.                                      *)
DownloadedIsRecorded == ~during_load => cm.bitset \subseteq index_file

(* While the program runs, no step makes the bitset claim a chunk whose    *)
(* bytes are not on the disk: what is lost with a file, or fails its hash, *)
(* leaves the bitset in the same step.  Only markExistingFilesAsDownloaded *)
(* takes the user's word for the chunks of the files that exist, and it    *)
(* claims no others.  (A reload may bring a wrong chunk back, since        *)
(* excluding a file does not save the index file.)                         *)
BitsetStaysHonest ==
    [][~during_load /\ ~during_load'
         => \/ cm'.bitset \ data' \subseteq cm.bitset \ data
            \/ \E E \in SUBSET File :
                  /\ MarkExistingFilesAsDownloaded(E)
                  /\ cm'.bitset \subseteq cm.bitset \cup ExistingChunks(E)]_vars

=============================================================================
