---------------------------- MODULE ChunkSelector ----------------------------
(***************************************************************************)
(* bt::ChunkSelector (src/src/download/chunkselector.cpp) beside the       *)
(* ChunkManager it selects for.  The selector keeps a list of its own of   *)
(* the chunks to choose from, which it updates when signals tell it of     *)
(* chunks that are included again, failed or checked, and from which       *)
(* select removes lazily what is excluded or downloaded.                   *)
(***************************************************************************)
EXTENDS ChunkManager

VARIABLE chunks     \* ChunkSelector::chunks; its order is left out

selVars == <<vars, chunks>>

-----------------------------------------------------------------------------
(* init *)
init(c) == Chunk \ c.bitset

(* Fault: a chunk that is not excluded, but only of a low priority, goes. *)
Removable_LowPriority == {i \in chunks : \/ cm.priority[i] <= LAST_PRIORITY
                                         \/ i \in cm.bitset}

(* The chunks that select removes when it meets them: those that are       *)
(* downloaded, excluded, or excluded for downloading.                      *)
Removable == {i \in chunks : \/ cm.priority[i] \in {EXCLUDED, ONLY_SEED_PRIORITY}
                             \/ i \in cm.bitset}

(* select goes through a part of the list. *)
Select(R) ==
    /\ ~during_load
    /\ R # {}
    /\ chunks' = chunks \ R
    /\ UNCHANGED vars

(* Fault: only chunks that were downloaded before are put back. *)
dataChecked_OnlyLost(ok_chunks, from, to) ==
    (chunks \ ((from .. to) \cap ok_chunks))
        \cup (((from .. to) \cap cm.bitset) \ ok_chunks)

(* dataChecked *)
dataChecked(ok_chunks, from, to) ==
    (chunks \ ((from .. to) \cap ok_chunks)) \cup ((from .. to) \ ok_chunks)

(* reincluded *)
reincluded(R) == chunks \cup {i \in R : i \notin cm.on_disk}

(* reinsert *)
reinsert(i) == chunks \cup {i}

-----------------------------------------------------------------------------
SelInit == Init /\ chunks = {}

(* Downloader::finished: a chunk is downloaded, or failed its hash check. *)
SelChunkDownloaded(i) ==
    /\ ChunkDownloaded(i) \/ ChunkDownloadedUnrecorded(i)
    /\ UNCHANGED chunks

SelChunkFailed(i) == ChunkFailed(i) /\ chunks' = reinsert(i)

(* TorrentControl::afterDataCheck *)
SelDataChecked(from, to) ==
    /\ DataChecked(from, to)
    /\ chunks' = dataChecked(data, from, to)

(* Fault: a file that was only seeded is not included again. *)
SelUserSetsPriority_OnlyExcluded(f, p) ==
    /\ UserSetsPriority(f, p)
    /\ chunks' = IF p # EXCLUDED /\ fprio[f] = EXCLUDED
                 THEN reincluded(FileChunks(f)) ELSE chunks

(* A new priority: include emits included, which is onIncluded. *)
SelUserSetsPriority(f, p) ==
    /\ UserSetsPriority(f, p)
    /\ chunks' = IF p # EXCLUDED /\ fprio[f] \in {EXCLUDED, ONLY_SEED_PRIORITY}
                 THEN reincluded(FileChunks(f)) ELSE chunks

(* TorrentControl::recreateMissingFiles and dndMissingFiles: an error in   *)
(* saving the index file skips the update of the selector.                 *)
SelMissingFiles ==
    /\ \/ \E M \in SUBSET File : RecreateSaved(M)
       \/ \E f \in File : DndSaved(f)
    /\ chunks' = dataChecked(cm'.bitset, 0, NumChunks - 1)

SelMissingFilesFails ==
    /\ \/ \E M \in SUBSET File : RecreateUnsaved(M)
       \/ \E f \in File : DndUnsaved(f)
    /\ UNCHANGED chunks

(* TorrentControl::setupData: the selector is made after loadIndexFile. *)
SelRestart == Restart /\ chunks' = {}
SelLoadPriorityInfo == LoadPriorityInfo /\ UNCHANGED chunks
SelLoadIndexFile == LoadIndexFile /\ chunks' = init(cm')

(* What the selector is not told of. *)
SelOther ==
    /\ \/ StatsUpdated
       \/ \E E \in SUBSET File : MarkExistingFilesAsDownloaded(E)
    /\ UNCHANGED chunks

SelNext ==
    \/ \E i \in Chunk : SelChunkDownloaded(i) \/ SelChunkFailed(i)
    \/ \E from, to \in Chunk : SelDataChecked(from, to)
    \/ \E f \in File, p \in UserPriorities : SelUserSetsPriority(f, p)
    \/ SelMissingFiles
    \/ SelMissingFilesFails
    \/ SelRestart
    \/ SelLoadPriorityInfo
    \/ SelLoadIndexFile
    \/ SelOther
    \/ \E R \in SUBSET Removable : Select(R)

SelSpec == SelInit /\ [][SelNext]_selVars

-----------------------------------------------------------------------------
(* Properties. *)

(* Every chunk that is left to do is in the list of the selector: whatever *)
(* was excluded, removed from the list, failed or lost in between, select  *)
(* can find it, and the torrent can complete.                              *)
SelectorComplete == ~during_load => cm.todo \subseteq chunks

(* Even when the index file cannot be saved, a chunk that stays left to do *)
(* does not leave the list: select and dataChecked only drop what is       *)
(* downloaded or excluded at that moment.                                  *)
SelectorKeeps ==
    [][~during_load /\ ~during_load'
         => cm.todo \cap cm'.todo \cap chunks \subseteq chunks']_selVars

(* When saving the index file fails, recreateMissingFiles and              *)
(* dndMissingFiles leave without counting the chunks that are left again   *)
(* and without telling the selector.  That damage does not last: a check   *)
(* of all the data, or a restart, puts every chunk that is left to do back *)
(* into the list and the count right, even if saving fails once more.      *)
ErrorsAreRepaired ==
    [][SelDataChecked(0, NumChunks - 1) \/ SelLoadIndexFile
         => SelectorComplete' /\ ChunksLeftExact']_selVars

=============================================================================
