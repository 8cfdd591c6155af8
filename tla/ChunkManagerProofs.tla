------------------------- MODULE ChunkManagerProofs -------------------------
(***************************************************************************)
(* Proofs about ChunkManager, for every number of chunks and files.        *)
(***************************************************************************)
EXTENDS ChunkManager, FiniteSetTheorems, TLAPS

(* The priorities of the files decide what chunk i is. *)
AllExcluded(fp, i) == \A f \in FilesOf(i) : fp[f] = EXCLUDED
Wanted(fp, i) == \E f \in FilesOf(i) : fp[f] \notin {EXCLUDED, ONLY_SEED_PRIORITY}

(* The inductive part: every chunk is what the files make of it. *)
ChunkConsistent(c, fp, i) ==
    /\ i \in c.excluded_chunks <=> AllExcluded(fp, i)
    /\ c.priority[i] = EXCLUDED <=> AllExcluded(fp, i)
    /\ i \in c.only_seed_chunks <=> ~AllExcluded(fp, i) /\ ~Wanted(fp, i)
    /\ i \in c.todo <=> i \notin c.bitset /\ Wanted(fp, i)
Consistent(c, fp) == \A i \in Chunk : ChunkConsistent(c, fp, i)

(* The layouts for which the book-keeping is right: a preview stays in its *)
(* file, and no file of two chunks begins in a border chunk.               *)
PreviewFits == \A f \in Multimedia : FirstChunk[f] = LastChunk[f]
                  \/ FirstChunk[f] + PreviewChunks[f] <= LastChunk[f]
NoTwoChunkBorderFile == \A f \in File : FirstChunk[f] \in border_chunks
                           => LastChunk[f] # FirstChunk[f] + 1

-----------------------------------------------------------------------------
(* Files and chunks. *)

(* The layout assumption, as facts about integers. *)
LEMMA LayoutFacts ==
    /\ \A f \in File : /\ f \in Int
                       /\ FirstChunk[f] \in Int
                       /\ LastChunk[f] \in Int
                       /\ FirstChunk[f] <= LastChunk[f]
    /\ \A f, g \in File : f < g => LastChunk[f] <= FirstChunk[g]
    /\ \A i \in Chunk : i \in Int
<1>1. File \subseteq Int /\ Chunk \subseteq Int
  BY SizesAssumption DEF File, Chunk
<1> QED BY <1>1, LayoutAssumption

(* A chunk of file f that is not a border chunk lies in no other file. *)
LEMMA OnlyFile ==
    ASSUME NEW f \in File, NEW i \in FileChunks(f), i \notin border_chunks
    PROVE  FilesOf(i) = {f}
<1>1. ASSUME NEW g \in FilesOf(i), f < g PROVE FALSE
  <2>1. g \in File /\ FirstChunk[g] <= i /\ i <= LastChunk[g]
    BY <1>1 DEF FilesOf
  <2>2. f + 1 \in File /\ f + 1 <= g
    BY <1>1, <2>1, SizesAssumption DEF File
  <2>3. FirstChunk[f + 1] = i /\ LastChunk[f] = i
    <3>1. LastChunk[f] <= FirstChunk[g] /\ i <= LastChunk[f] /\ i \in Int
      BY <1>1, <2>1, LayoutFacts DEF FileChunks
    <3>2. LastChunk[f] <= FirstChunk[f + 1]
      BY <2>2, LayoutFacts
    <3>3. FirstChunk[f + 1] <= FirstChunk[g]
      <4>1. CASE f + 1 = g BY <4>1, <2>1, LayoutFacts
      <4>2. CASE f + 1 < g BY <4>2, <2>1, <2>2, LayoutFacts
      <4> QED BY <4>1, <4>2, <2>1, <2>2, LayoutFacts
    <3> QED BY <2>1, <2>2, <3>1, <3>2, <3>3, LayoutFacts
  <2> QED BY <2>2, <2>3 DEF border_chunks
<1>2. ASSUME NEW g \in FilesOf(i), g < f PROVE FALSE
  <2>1. g \in File /\ FirstChunk[g] <= i /\ i <= LastChunk[g]
    BY <1>2 DEF FilesOf
  <2>2. f - 1 \in File /\ g <= f - 1 /\ (f - 1) + 1 = f
    BY <1>2, <2>1, SizesAssumption DEF File
  <2>3. LastChunk[f - 1] = i /\ FirstChunk[f] = i
    <3>1. LastChunk[g] <= FirstChunk[f] /\ FirstChunk[f] <= i /\ i \in Int
      BY <1>2, <2>1, LayoutFacts DEF FileChunks
    <3>2. LastChunk[f - 1] <= FirstChunk[f]
      BY <2>2, LayoutFacts
    <3>3. LastChunk[g] <= LastChunk[f - 1]
      <4>1. CASE g = f - 1 BY <4>1, <2>1, LayoutFacts
      <4>2. CASE g < f - 1 BY <4>2, <2>1, <2>2, LayoutFacts
      <4> QED BY <4>1, <4>2, <2>1, <2>2, LayoutFacts
    <3> QED BY <2>1, <2>2, <3>1, <3>2, <3>3, LayoutFacts
  <2> QED BY <2>2, <2>3 DEF border_chunks
<1>3. f \in FilesOf(i)
  BY DEF FilesOf, FileChunks
<1>4. ASSUME NEW g \in FilesOf(i) PROVE g = f
  BY <1>1, <1>2, LayoutFacts DEF FilesOf
<1> QED BY <1>3, <1>4

(* A chunk in the middle of file f lies in no other file. *)
LEMMA MiddleChunk ==
    ASSUME NEW f \in File, NEW i \in Int, FirstChunk[f] < i, i < LastChunk[f]
    PROVE  FilesOf(i) = {f}
<1>1. f \in FilesOf(i)
  BY LayoutFacts DEF FilesOf
<1>2. ASSUME NEW g \in FilesOf(i) PROVE g = f
  BY LayoutFacts DEF FilesOf
<1> QED BY <1>1, <1>2

(* Every chunk lies in a file. *)
LEMMA ChunkInFile ==
    ASSUME NEW i \in Chunk
    PROVE  FilesOf(i) # {}
BY LayoutAssumption DEF FilesOf

(* FileChunks and FilesOf are two views of the same relation. *)
LEMMA FileChunksInChunk ==
    ASSUME NEW f \in File
    PROVE  /\ FileChunks(f) \subseteq Chunk
           /\ \A i \in Chunk : i \in FileChunks(f) <=> f \in FilesOf(i)
BY LayoutAssumption, SizesAssumption DEF FileChunks, Chunk, FilesOf

(* The highest of the priorities of a chunk's files. *)
LEMMA HighestPriority ==
    ASSUME NEW fp \in [File -> FilePriority], NEW i \in Chunk
    PROVE  /\ Highest(fp, i) \in FilePriority
           /\ Highest(fp, i) = EXCLUDED <=> AllExcluded(fp, i)
           /\ Highest(fp, i) = ONLY_SEED_PRIORITY
                <=> ~AllExcluded(fp, i) /\ ~Wanted(fp, i)
<1> DEFINE P == {fp[f] : f \in FilesOf(i)}
<1>1. P \subseteq {50, 40, 30, 20, 10} /\ P # {}
  BY ChunkInFile DEF FilesOf, FilePriority, FIRST_PRIORITY, NORMAL_PRIORITY,
     LAST_PRIORITY, ONLY_SEED_PRIORITY, EXCLUDED
<1>2. \E p \in P : \A q \in P : q <= p
  <2> HIDE DEF P
  <2>1. CASE 50 \in P BY <1>1, <2>1
  <2>2. CASE 50 \notin P /\ 40 \in P BY <1>1, <2>2
  <2>3. CASE 50 \notin P /\ 40 \notin P /\ 30 \in P BY <1>1, <2>3
  <2>4. CASE 50 \notin P /\ 40 \notin P /\ 30 \notin P /\ 20 \in P BY <1>1, <2>4
  <2>5. CASE \A q \in P : q = 10
    <3>1. PICK p \in P : p = 10 BY <1>1, <2>5
    <3> QED BY <2>5, <3>1
  <2>6. 50 \in P \/ 40 \in P \/ 30 \in P \/ 20 \in P \/ \A q \in P : q = 10
    BY <1>1
  <2> QED BY <2>1, <2>2, <2>3, <2>4, <2>5, <2>6
<1>3. \E p \in P : \A f \in FilesOf(i) : fp[f] <= p
  BY <1>2
<1>4. Highest(fp, i) \in P /\ \A f \in FilesOf(i) : fp[f] <= Highest(fp, i)
  BY <1>3 DEF Highest
<1>5. \A f \in FilesOf(i) : fp[f] \in {50, 40, 30, 20, 10}
  BY <1>1
<1>6. PICK h \in FilesOf(i) : Highest(fp, i) = fp[h]
  BY <1>4
<1> HIDE DEF P
<1> QED
  BY <1>4, <1>5, <1>6 DEF FilePriority, FIRST_PRIORITY, NORMAL_PRIORITY,
     LAST_PRIORITY, ONLY_SEED_PRIORITY, EXCLUDED, AllExcluded, Wanted

-----------------------------------------------------------------------------
(* The operations on the chunk record, field by field. *)

(* The number of chunks left is a number. *)
LEMMA LeftFinite ==
    ASSUME NEW c
    PROVE  Cardinality(Left(c)) \in Nat
<1>1. IsFiniteSet(Chunk)
  <2>1. 0 \in Int /\ NumChunks - 1 \in Int
    BY SizesAssumption
  <2> QED BY <2>1, FS_Interval DEF Chunk
<1>2. Left(c) \subseteq Chunk
  BY DEF Left
<1> QED BY <1>1, <1>2, FS_Subset, FS_CardinalityType

(* d has the fields of c except the cached number of chunks left. *)
SameChunks(d, c) ==
    /\ d \in ChunkRecord
    /\ d.on_disk = c.on_disk
    /\ d.bitset = c.bitset
    /\ d.todo = c.todo
    /\ d.excluded_chunks = c.excluded_chunks
    /\ d.only_seed_chunks = c.only_seed_chunks
    /\ d.priority = c.priority

(* chunksLeft only changes the cached number. *)
LEMMA ChunksLeftFields ==
    ASSUME NEW c \in ChunkRecord
    PROVE  SameChunks(ChunksLeft(c), c)
BY LeftFinite DEF SameChunks, ChunksLeft, ChunkRecord

(* updateStats only changes the cached number. *)
LEMMA UpdateStatsFields ==
    ASSUME NEW c \in ChunkRecord
    PROVE  SameChunks(UpdateStats(c), c)
<1>1. SameChunks(c, c)
  BY DEF SameChunks
<1> QED BY <1>1, ChunksLeftFields DEF UpdateStats

(* What prioritise does to every field: the chunks of the range get their  *)
(* priority, and return to todo unless they are downloaded.                *)
LEMMA PrioritiseFields ==
    ASSUME NEW c \in ChunkRecord, NEW R, NEW pr \in [Chunk -> Priority]
    PROVE  LET d == Prioritise(c, R, pr) IN
           /\ d \in ChunkRecord
           /\ d.on_disk = c.on_disk
           /\ d.bitset = c.bitset
           /\ d.excluded_chunks = c.excluded_chunks
           /\ \A i \in Chunk :
                /\ d.priority[i] = IF i \in R THEN pr[i] ELSE c.priority[i]
                /\ i \in d.only_seed_chunks
                     <=> IF i \in R THEN pr[i] = ONLY_SEED_PRIORITY
                                    ELSE i \in c.only_seed_chunks
                /\ i \in d.todo
                     <=> IF i \in R
                         THEN /\ pr[i] \notin {ONLY_SEED_PRIORITY, EXCLUDED}
                              /\ i \notin c.bitset
                         ELSE i \in c.todo
<1> DEFINE e ==
      [c EXCEPT
       !.priority = [i \in Chunk |-> IF i \in R THEN pr[i] ELSE c.priority[i]],
       !.only_seed_chunks =
           {i \in Chunk : IF i \in R THEN pr[i] = ONLY_SEED_PRIORITY
                                     ELSE i \in c.only_seed_chunks},
       !.todo =
           {i \in Chunk : IF i \in R
                          THEN /\ pr[i] \notin {ONLY_SEED_PRIORITY, EXCLUDED}
                               /\ i \notin c.bitset
                          ELSE i \in c.todo}]
<1>1. e \in ChunkRecord
  BY DEF ChunkRecord
<1>2. SameChunks(Prioritise(c, R, pr), e)
  <2> HIDE DEF e
  <2>1. SameChunks(UpdateStats(e), e)
    BY <1>1, UpdateStatsFields
  <2> QED BY <2>1 DEF Prioritise, e
<1>3. /\ e.on_disk = c.on_disk
      /\ e.bitset = c.bitset
      /\ e.excluded_chunks = c.excluded_chunks
      /\ \A i \in Chunk :
                /\ e.priority[i] = IF i \in R THEN pr[i] ELSE c.priority[i]
                /\ i \in e.only_seed_chunks
                     <=> IF i \in R THEN pr[i] = ONLY_SEED_PRIORITY
                                    ELSE i \in c.only_seed_chunks
                /\ i \in e.todo
                     <=> IF i \in R
                         THEN /\ pr[i] \notin {ONLY_SEED_PRIORITY, EXCLUDED}
                              /\ i \notin c.bitset
                         ELSE i \in c.todo
  BY DEF ChunkRecord
<1> HIDE DEF e
<1> QED BY <1>2, <1>3 DEF SameChunks

(* What exclude does to every field. *)
LEMMA ExcludeFields ==
    ASSUME NEW c \in ChunkRecord, NEW R \in SUBSET Chunk
    PROVE  LET d == Exclude(c, R) IN
           /\ d \in ChunkRecord
           /\ d.on_disk = c.on_disk
           /\ d.bitset = c.bitset \ R
           /\ d.excluded_chunks = c.excluded_chunks \cup R
           /\ d.only_seed_chunks = c.only_seed_chunks \ R
           /\ d.todo = c.todo \ R
           /\ \A i \in Chunk :
                d.priority[i] = IF i \in R THEN EXCLUDED ELSE c.priority[i]
<1> DEFINE e ==
      [c EXCEPT
       !.priority = [i \in Chunk |-> IF i \in R THEN EXCLUDED ELSE c.priority[i]],
       !.excluded_chunks = c.excluded_chunks \cup R,
       !.only_seed_chunks = c.only_seed_chunks \ R,
       !.todo = c.todo \ R,
       !.bitset = c.bitset \ R,
       !.recalc_chunks_left = TRUE]
<1>1. e \in ChunkRecord
  BY DEF ChunkRecord, Priority, FilePriority
<1>2. SameChunks(Exclude(c, R), e)
  <2> HIDE DEF e
  <2>1. SameChunks(UpdateStats(e), e)
    BY <1>1, UpdateStatsFields
  <2> QED BY <2>1 DEF Exclude, e
<1>3. /\ e.on_disk = c.on_disk
      /\ e.bitset = c.bitset \ R
      /\ e.excluded_chunks = c.excluded_chunks \cup R
      /\ e.only_seed_chunks = c.only_seed_chunks \ R
      /\ e.todo = c.todo \ R
      /\ \A i \in Chunk :
                e.priority[i] = IF i \in R THEN EXCLUDED ELSE c.priority[i]
  BY DEF ChunkRecord
<1> HIDE DEF e
<1> QED BY <1>2, <1>3 DEF SameChunks

(* What include does to every field. *)
LEMMA IncludeFields ==
    ASSUME NEW c \in ChunkRecord, NEW R \in SUBSET Chunk
    PROVE  LET d == Include(c, R) IN
           /\ d \in ChunkRecord
           /\ d.on_disk = c.on_disk
           /\ d.bitset = c.bitset
           /\ d.excluded_chunks = c.excluded_chunks \ R
           /\ d.only_seed_chunks = c.only_seed_chunks
           /\ d.todo = c.todo \cup (R \ c.bitset)
           /\ \A i \in Chunk :
                d.priority[i] = IF i \in R THEN NORMAL_PRIORITY ELSE c.priority[i]
<1> DEFINE e ==
      [c EXCEPT
       !.priority = [i \in Chunk |-> IF i \in R THEN NORMAL_PRIORITY
                                                ELSE c.priority[i]],
       !.excluded_chunks = c.excluded_chunks \ R,
       !.todo = c.todo \cup (R \ c.bitset),
       !.recalc_chunks_left = TRUE]
<1>1. e \in ChunkRecord
  BY DEF ChunkRecord, Priority, FilePriority
<1>2. SameChunks(Include(c, R), e)
  <2> HIDE DEF e
  <2>1. SameChunks(UpdateStats(e), e)
    BY <1>1, UpdateStatsFields
  <2> QED BY <2>1 DEF Include, e
<1>3. /\ e.on_disk = c.on_disk
      /\ e.bitset = c.bitset
      /\ e.excluded_chunks = c.excluded_chunks \ R
      /\ e.only_seed_chunks = c.only_seed_chunks
      /\ e.todo = c.todo \cup (R \ c.bitset)
      /\ \A i \in Chunk :
                e.priority[i] = IF i \in R THEN NORMAL_PRIORITY ELSE c.priority[i]
  BY DEF ChunkRecord
<1> HIDE DEF e
<1> QED BY <1>2, <1>3 DEF SameChunks

(* While the index file is being loaded nothing is downloaded yet, so that *)
(* it makes no difference that resetChunk does nothing then.               *)
LoadedNothing(c) == during_load => c.bitset = {} /\ c.on_disk = {}

(* What resetChunk, for every chunk of a set, does to every field. *)
LEMMA ResetChunksFields ==
    ASSUME NEW c \in ChunkRecord, NEW R \in SUBSET Chunk, LoadedNothing(c)
    PROVE  LET d == ResetChunks(c, R) IN
           /\ d \in ChunkRecord
           /\ d.on_disk = c.on_disk \ R
           /\ d.bitset = c.bitset \ R
           /\ d.excluded_chunks = c.excluded_chunks
           /\ d.only_seed_chunks = c.only_seed_chunks
           /\ d.priority = c.priority
           /\ \A i \in Chunk : i \in d.todo
                <=> IF i \in R /\ ~during_load
                    THEN i \notin c.excluded_chunks /\ i \notin c.only_seed_chunks
                    ELSE i \in c.todo
<1>1. CASE during_load
  BY <1>1 DEF ResetChunks, LoadedNothing
<1>2. CASE ~during_load
  BY <1>2 DEF ResetChunks, ChunkRecord
<1> QED BY <1>1, <1>2

(* What marking a set of chunks as downloaded does to every field. *)
LEMMA MarkDownloadedFields ==
    ASSUME NEW c \in ChunkRecord, NEW R \in SUBSET Chunk
    PROVE  LET d == MarkDownloaded(c, R) IN
           /\ d \in ChunkRecord
           /\ d.on_disk = c.on_disk \cup R
           /\ d.bitset = c.bitset \cup R
           /\ d.todo = c.todo \ R
           /\ d.excluded_chunks = c.excluded_chunks
           /\ d.only_seed_chunks = c.only_seed_chunks
           /\ d.priority = c.priority
BY DEF MarkDownloaded, ChunkRecord

-----------------------------------------------------------------------------
(* Changing the priority of a file. *)

(* What the entry points preserve of the chunk record. *)
RecordInv(c, fp) ==
    /\ c \in ChunkRecord
    /\ Consistent(c, fp)
    /\ c.on_disk \subseteq c.bitset
    /\ ~DiskErrors => c.bitset \subseteq c.on_disk
    /\ LoadedNothing(c)

NoMoreOnDisk(d, c) == d.on_disk \subseteq c.on_disk

(* Only the chunks of file f feel a change of its priority. *)
LEMMA OtherChunks ==
    ASSUME NEW fp \in [File -> FilePriority], NEW f \in File,
           NEW p \in FilePriority, NEW i \in Chunk, i \notin FileChunks(f)
    PROVE  /\ AllExcluded([fp EXCEPT ![f] = p], i) <=> AllExcluded(fp, i)
           /\ Wanted([fp EXCEPT ![f] = p], i) <=> Wanted(fp, i)
<1>1. f \notin FilesOf(i) /\ FilesOf(i) \subseteq File
  BY FileChunksInChunk DEF FilesOf
<1>2. \A g \in FilesOf(i) : [fp EXCEPT ![f] = p][g] = fp[g]
  BY <1>1
<1> QED BY <1>2 DEF AllExcluded, Wanted

(* A preview prioritises chunks of its own file only, which are wanted. *)
LEMMA PreviewOfFile ==
    ASSUME PreviewFits, NEW c \in ChunkRecord, NEW f \in File,
           NEW fp \in [File -> FilePriority]
    PROVE  LET d == DoPreviewPriority(c, fp, f) IN
           /\ d \in ChunkRecord
           /\ d.on_disk = c.on_disk
           /\ d.bitset = c.bitset
           /\ d.excluded_chunks = c.excluded_chunks
           /\ \A i \in Chunk \ FileChunks(f) :
                /\ d.priority[i] = c.priority[i]
                /\ i \in d.only_seed_chunks <=> i \in c.only_seed_chunks
                /\ i \in d.todo <=> i \in c.todo
           /\ Consistent(c, fp) => Consistent(d, fp)
<1>1. CASE f \notin Multimedia \/ fp[f] \in {EXCLUDED, ONLY_SEED_PRIORITY}
  BY <1>1 DEF DoPreviewPriority
<1>2. CASE f \in Multimedia /\ fp[f] \notin {EXCLUDED, ONLY_SEED_PRIORITY}
  <2> DEFINE pr == [i \in Chunk |-> PREVIEW_PRIORITY]
             d == Prioritise(c, PreviewRange(f), pr)
  <2>1. DoPreviewPriority(c, fp, f) = d
    BY <1>2 DEF DoPreviewPriority
  <2>2. pr \in [Chunk -> Priority]
    BY DEF Priority
  <2>3. PreviewRange(f) \subseteq FileChunks(f)
    <3>1. FirstChunk[f] = LastChunk[f]
             \/ FirstChunk[f] + PreviewChunks[f] <= LastChunk[f]
      BY <1>2 DEF PreviewFits
    <3>2. PreviewChunks[f] \in Nat \ {0}
      BY SizesAssumption
    <3>3. FirstChunk[f] \in Int /\ LastChunk[f] \in Int /\ FirstChunk[f] <= LastChunk[f]
      BY LayoutFacts
    <3>4. ASSUME NEW i \in PreviewRange(f) PROVE i \in FileChunks(f)
      <4>1. CASE FirstChunk[f] = LastChunk[f]
        BY <3>3, <3>4, <4>1 DEF PreviewRange, FileChunks
      <4>2. CASE FirstChunk[f] # LastChunk[f]
        <5>1. \/ i \in FirstChunk[f] .. FirstChunk[f] + PreviewChunks[f]
              \/ /\ LastChunk[f] - FirstChunk[f] > PreviewChunks[f]
                 /\ i \in LastChunk[f] - PreviewChunks[f] .. LastChunk[f]
          BY <3>4, <4>2 DEF PreviewRange
        <5> QED BY <3>1, <3>2, <3>3, <4>2, <5>1 DEF FileChunks
      <4> QED BY <4>1, <4>2
    <3> QED BY <3>4
  <2>4. \A i \in Chunk : i \in FileChunks(f) => Wanted(fp, i) /\ ~AllExcluded(fp, i)
    BY <1>2, FileChunksInChunk DEF Wanted, AllExcluded
  <2>5. \A i \in Chunk : pr[i] = PREVIEW_PRIORITY
    OBVIOUS
  <2> HIDE DEF pr
  <2> USE PrioritiseFields, <2>2
  <2>6. /\ d \in ChunkRecord
        /\ d.on_disk = c.on_disk
        /\ d.bitset = c.bitset
        /\ d.excluded_chunks = c.excluded_chunks
    OBVIOUS
  <2>7. \A i \in Chunk \ FileChunks(f) :
            /\ d.priority[i] = c.priority[i]
            /\ i \in d.only_seed_chunks <=> i \in c.only_seed_chunks
            /\ i \in d.todo <=> i \in c.todo
    BY <2>3
  <2>8. ASSUME Consistent(c, fp), NEW i \in Chunk PROVE ChunkConsistent(d, fp, i)
    <3>1. ChunkConsistent(c, fp, i)
      BY <2>8 DEF Consistent
    <3> QED BY <2>3, <2>4, <2>5, <2>6, <3>1 DEF ChunkConsistent,
          PREVIEW_PRIORITY, ONLY_SEED_PRIORITY, EXCLUDED
  <2> HIDE DEF d
  <2> QED BY <2>1, <2>6, <2>7, <2>8 DEF Consistent
<1> QED BY <1>1, <1>2

(* The priorities that downloadPriorityChanged gives to the chunks of f. *)
LEMMA NewPriorities ==
    ASSUME NEW fp \in [File -> FilePriority], NEW f \in File,
           NEW i \in FileChunks(f), i \in Chunk
    PROVE  (IF i \in border_chunks THEN Highest(fp, i) ELSE fp[f]) = Highest(fp, i)
<1>1. CASE i \notin border_chunks
  <2>1. FilesOf(i) = {f}
    BY <1>1, OnlyFile
  <2>2. fp[f] \in Int
    BY DEF FilePriority, FIRST_PRIORITY, NORMAL_PRIORITY,
       LAST_PRIORITY, ONLY_SEED_PRIORITY, EXCLUDED
  <2>3. \E p \in {fp[g] : g \in FilesOf(i)} : \A g \in FilesOf(i) : fp[g] <= p
    BY <2>1, <2>2
  <2>4. Highest(fp, i) \in {fp[g] : g \in FilesOf(i)}
    BY <2>3 DEF Highest
  <2> QED BY <1>1, <2>1, <2>4
<1> QED BY <1>1

(* Giving file f another priority than excluded. *)
LEMMA RaiseFile ==
    ASSUME PreviewFits,
           NEW fp \in [File -> FilePriority], NEW f \in File,
           NEW p \in FilePriority \ {EXCLUDED},
           NEW c, RecordInv(c, fp)
    PROVE  /\ RecordInv(DownloadPriorityChanged(c, [fp EXCEPT ![f] = p], f, p, fp[f]),
                        [fp EXCEPT ![f] = p])
           /\ NoMoreOnDisk(DownloadPriorityChanged(c, [fp EXCEPT ![f] = p], f, p, fp[f]),
                           c)
<1> DEFINE new == [fp EXCEPT ![f] = p]
           R == FileChunks(f)
           pr == [i \in Chunk |-> IF i \in border_chunks THEN Highest(new, i) ELSE p]
           c1 == IF fp[f] = EXCLUDED THEN ResumeDownloading(c, new, f) ELSE c
           c2 == IF fp[f] = ONLY_SEED_PRIORITY THEN Include(c1, R) ELSE c1
           c3 == Prioritise(c2, R, pr)
           d == DoPreviewPriority(c3, new, f)
<1>1. new \in [File -> FilePriority] /\ new[f] = p
  OBVIOUS
<1>2. pr \in [Chunk -> Priority] /\ \A i \in R : pr[i] = Highest(new, i)
  <2>1. \A i \in Chunk : Highest(new, i) \in FilePriority
    BY <1>1, HighestPriority
  <2>2. R \subseteq Chunk
    BY FileChunksInChunk
  <2>3. ASSUME NEW i \in R PROVE pr[i] = Highest(new, i)
    BY <1>1, <2>2, NewPriorities
  <2> HIDE DEF new
  <2> QED BY <2>1, <2>3 DEF Priority
<1>3. DownloadPriorityChanged(c, new, f, p, fp[f]) = d
  BY DEF DownloadPriorityChanged
<1>4. \A i \in R : ~AllExcluded(new, i)
  <2>1. \A i \in R : f \in FilesOf(i)
    BY FileChunksInChunk
  <2> QED BY <1>1, <2>1 DEF AllExcluded
<1>5. \A i \in Chunk \ R : /\ AllExcluded(new, i) <=> AllExcluded(fp, i)
                           /\ Wanted(new, i) <=> Wanted(fp, i)
  BY OtherChunks
<1>6. R \subseteq Chunk
  BY FileChunksInChunk
<1>7. c \in ChunkRecord /\ \A i \in Chunk : ChunkConsistent(c, fp, i)
  BY DEF RecordInv, Consistent
<1>8. \A i \in R : i \in c.excluded_chunks => fp[f] = EXCLUDED
  <2>1. \A i \in R : f \in FilesOf(i)
    BY FileChunksInChunk
  <2> QED BY <1>6, <1>7, <2>1 DEF ChunkConsistent, AllExcluded
<1> DEFINE Kept(e) ==
      /\ e \in ChunkRecord
      /\ e.on_disk = c.on_disk
      /\ e.bitset = c.bitset
      /\ \A i \in R : i \in e.excluded_chunks =>
                        i \in c.excluded_chunks
      /\ \A i \in Chunk \ R :
           /\ e.priority[i] = c.priority[i]
           /\ i \in e.only_seed_chunks <=> i \in c.only_seed_chunks
           /\ i \in e.excluded_chunks <=> i \in c.excluded_chunks
           /\ i \in e.todo <=> i \in c.todo
<1> HIDE DEF new, R, pr
<1>9. Kept(c1) /\ (fp[f] = EXCLUDED => c1.excluded_chunks \cap R = {})
  <2>1. CASE fp[f] # EXCLUDED
    BY <1>7, <2>1
  <2>2. CASE fp[f] = EXCLUDED
    <3> DEFINE e == Include(c, R)
    <3>1. /\ e \in ChunkRecord
          /\ e.on_disk = c.on_disk
          /\ e.bitset = c.bitset
          /\ e.excluded_chunks = c.excluded_chunks \ R
          /\ e.only_seed_chunks = c.only_seed_chunks
          /\ e.todo = c.todo \cup (R \ c.bitset)
          /\ \A i \in Chunk :
               e.priority[i] = IF i \in R THEN NORMAL_PRIORITY ELSE c.priority[i]
      BY <1>6, <1>7, IncludeFields
    <3>2. c1 = DoPreviewPriority(e, new, f)
      BY <2>2 DEF ResumeDownloading, R
    <3> HIDE DEF e
    <3>3. /\ c1 \in ChunkRecord
          /\ c1.on_disk = e.on_disk
          /\ c1.bitset = e.bitset
          /\ c1.excluded_chunks = e.excluded_chunks
          /\ \A i \in Chunk \ R :
               /\ c1.priority[i] = e.priority[i]
               /\ i \in c1.only_seed_chunks <=> i \in e.only_seed_chunks
               /\ i \in c1.todo <=> i \in e.todo
      BY <1>1, <3>1, <3>2, PreviewOfFile DEF R
    <3> HIDE DEF c1
    <3> QED BY <3>1, <3>3
  <2> QED BY <2>1, <2>2
<1> HIDE DEF c1
<1>10. Kept(c2) /\ c2.excluded_chunks \cap R = {}
  <2>1. CASE fp[f] # ONLY_SEED_PRIORITY
    BY <1>8, <1>9, <2>1
  <2>2. CASE fp[f] = ONLY_SEED_PRIORITY
    BY <1>6, <1>9, <2>2, IncludeFields
  <2> QED BY <2>1, <2>2
<1> HIDE DEF c2
<1>11. /\ c3 \in ChunkRecord
       /\ c3.on_disk = c.on_disk
       /\ c3.bitset = c.bitset
       /\ c3.excluded_chunks = c2.excluded_chunks
       /\ \A i \in Chunk :
            /\ c3.priority[i] = IF i \in R THEN pr[i] ELSE c2.priority[i]
            /\ i \in c3.only_seed_chunks
                 <=> IF i \in R THEN pr[i] = ONLY_SEED_PRIORITY
                                ELSE i \in c2.only_seed_chunks
            /\ i \in c3.todo
                 <=> IF i \in R
                     THEN /\ pr[i] \notin {ONLY_SEED_PRIORITY, EXCLUDED}
                          /\ i \notin c2.bitset
                     ELSE i \in c2.todo
  BY <1>2, <1>10, PrioritiseFields
<1> HIDE DEF c3
<1>12. Consistent(c3, new)
  <2> SUFFICES ASSUME NEW i \in Chunk PROVE ChunkConsistent(c3, new, i)
    BY DEF Consistent
  <2>1. CASE i \in R
    <3>1. /\ pr[i] = EXCLUDED <=> AllExcluded(new, i)
          /\ pr[i] = ONLY_SEED_PRIORITY <=> ~AllExcluded(new, i) /\ ~Wanted(new, i)
      BY <1>1, <1>2, <2>1, HighestPriority
    <3>2. ~AllExcluded(new, i)
      BY <1>4, <2>1
    <3> QED BY <1>10, <1>11, <2>1, <3>1, <3>2 DEF ChunkConsistent
  <2>2. CASE i \notin R
    <3>1. ChunkConsistent(c, fp, i)
      BY <1>7
    <3> QED BY <1>5, <1>10, <1>11, <2>2, <3>1 DEF ChunkConsistent
  <2> QED BY <2>1, <2>2
<1>13. /\ d \in ChunkRecord /\ Consistent(d, new)
       /\ d.on_disk = c.on_disk /\ d.bitset = c.bitset
  BY <1>1, <1>11, <1>12, PreviewOfFile
<1> HIDE DEF d
<1>14. RecordInv(d, new) /\ NoMoreOnDisk(d, c)
  BY <1>13 DEF RecordInv, LoadedNothing, NoMoreOnDisk
<1> QED BY <1>3, <1>14 DEF new

(* Excluding file f, the layout having no file of two chunks that begins   *)
(* in a border chunk.                                                      *)
LEMMA ExcludeFile ==
    ASSUME NoTwoChunkBorderFile,
           NEW fp \in [File -> FilePriority], NEW f \in File, fp[f] # EXCLUDED,
           NEW c, RecordInv(c, fp)
    PROVE  /\ RecordInv(StopDownloading(c, [fp EXCEPT ![f] = EXCLUDED], f),
                        [fp EXCEPT ![f] = EXCLUDED])
           /\ NoMoreOnDisk(StopDownloading(c, [fp EXCEPT ![f] = EXCLUDED], f), c)
<1> DEFINE new == [fp EXCEPT ![f] = EXCLUDED]
           R == FileChunks(f)
           first == FirstChunk[f]
           last == LastChunk[f]
           keepFirst == first \in border_chunks /\ StillNeeded(new, first, f)
           lo == IF keepFirst THEN first + 1 ELSE first
           keepLast == /\ last # lo
                       /\ last \in border_chunks
                       /\ StillNeeded(new, last, f)
           hi == IF keepLast THEN last - 1 ELSE last
           kept == (IF keepFirst THEN {first} ELSE {})
                     \cup (IF keepLast THEN {last} ELSE {})
           untouched == IF keepFirst /\ last = lo THEN {last} ELSE {}
           pr == [i \in Chunk |-> Highest(new, i)]
           c1 == ResetChunks(c, R \ (kept \cup untouched))
           c2 == IF kept = {} THEN c1 ELSE Prioritise(c1, kept, pr)
           d == IF lo <= hi THEN Exclude(c2, lo .. hi) ELSE c2
<1>1. StopDownloading(c, new, f) = d
  BY DEF StopDownloading
<1>2. new \in [File -> FilePriority] /\ new[f] = EXCLUDED
  BY DEF FilePriority
<1>3. /\ first \in Int /\ last \in Int /\ first <= last
      /\ R = first .. last
      /\ R \subseteq Chunk
  BY LayoutFacts, FileChunksInChunk DEF FileChunks
<1>4. \A i \in R : f \in FilesOf(i)
  BY FileChunksInChunk
<1>5. \A i \in R : StillNeeded(new, i, f) <=> ~AllExcluded(new, i)
  BY <1>2, <1>4 DEF StillNeeded, AllExcluded
<1>6. \A i \in R : i \notin border_chunks => AllExcluded(new, i)
  BY <1>2, OnlyFile DEF AllExcluded
<1>7. \A i \in R : first < i /\ i < last => AllExcluded(new, i)
  BY <1>2, <1>3, MiddleChunk DEF AllExcluded
<1>8. \A i \in Chunk \ R : /\ AllExcluded(new, i) <=> AllExcluded(fp, i)
                           /\ Wanted(new, i) <=> Wanted(fp, i)
  BY OtherChunks DEF FilePriority
<1>9. \A i \in R : ~AllExcluded(fp, i)
  BY <1>4 DEF AllExcluded
<1>10. c \in ChunkRecord /\ \A i \in Chunk : ChunkConsistent(c, fp, i)
  BY DEF RecordInv, Consistent
<1>11. first \in border_chunks => last # first + 1
  BY DEF NoTwoChunkBorderFile
<1>12. pr \in [Chunk -> Priority]
  BY <1>2, HighestPriority DEF Priority
<1> HIDE DEF new, R, first, last
<1>13. untouched = {}
  BY <1>3, <1>11
<1>14. kept \subseteq R /\ \A i \in kept : ~AllExcluded(new, i)
  BY <1>3, <1>5
<1>15. \A i \in R \ kept : AllExcluded(new, i)
  <2> SUFFICES ASSUME NEW i \in R, i \notin kept PROVE AllExcluded(new, i)
    OBVIOUS
  <2>1. CASE i = first BY <1>3, <1>5, <1>6, <2>1
  <2>2. CASE i = last /\ i # first
    <3>1. last # lo \/ keepFirst
      BY <2>2
    <3>2. last # lo
      BY <1>3, <1>11, <2>2
    <3> QED BY <1>5, <1>6, <2>2, <3>2
  <2>3. CASE i # first /\ i # last BY <1>3, <1>7, <2>3
  <2> QED BY <2>1, <2>2, <2>3
<1>16. lo <= hi => lo .. hi = R \ kept
  BY <1>3, <1>11
<1>17. ~(lo <= hi) => R \ kept = {}
  BY <1>3, <1>11
<1> HIDE DEF kept, untouched, lo, hi, keepFirst, keepLast, pr
<1>18. /\ c1 \in ChunkRecord
       /\ c1.on_disk = c.on_disk \ (R \ kept)
       /\ c1.bitset = c.bitset \ (R \ kept)
       /\ c1.excluded_chunks = c.excluded_chunks
       /\ c1.only_seed_chunks = c.only_seed_chunks
       /\ c1.priority = c.priority
       /\ \A i \in Chunk \ (R \ kept) : i \in c1.todo <=> i \in c.todo
  <2>1. R \ (kept \cup untouched) = R \ kept /\ R \ kept \in SUBSET Chunk
    BY <1>3, <1>13
  <2>2. LoadedNothing(c)
    BY DEF RecordInv
  <2> QED BY <1>10, <2>1, <2>2, ResetChunksFields
<1> HIDE DEF c1
<1>19. /\ c2 \in ChunkRecord
       /\ c2.on_disk = c1.on_disk
       /\ c2.bitset = c1.bitset
       /\ c2.excluded_chunks = c1.excluded_chunks
       /\ \A i \in Chunk :
            /\ c2.priority[i] = IF i \in kept THEN pr[i] ELSE c1.priority[i]
            /\ i \in c2.only_seed_chunks
                 <=> IF i \in kept THEN pr[i] = ONLY_SEED_PRIORITY
                                   ELSE i \in c1.only_seed_chunks
            /\ i \in c2.todo
                 <=> IF i \in kept
                     THEN /\ pr[i] \notin {ONLY_SEED_PRIORITY, EXCLUDED}
                          /\ i \notin c1.bitset
                     ELSE i \in c1.todo
  <2>1. CASE kept = {} BY <1>18, <2>1
  <2>2. CASE kept # {} BY <1>12, <1>18, <2>2, PrioritiseFields
  <2> QED BY <2>1, <2>2
<1> HIDE DEF c2
<1>20. /\ d \in ChunkRecord
       /\ d.on_disk = c2.on_disk
       /\ d.bitset = c2.bitset \ (R \ kept)
       /\ d.excluded_chunks = c2.excluded_chunks \cup (R \ kept)
       /\ d.only_seed_chunks = c2.only_seed_chunks \ (R \ kept)
       /\ d.todo = c2.todo \ (R \ kept)
       /\ \A i \in Chunk :
            d.priority[i] = IF i \in R \ kept THEN EXCLUDED ELSE c2.priority[i]
  <2>1. CASE lo <= hi
    <3>1. lo .. hi = R \ kept /\ R \ kept \in SUBSET Chunk
      BY <1>3, <1>16, <2>1
    <3> DEFINE X == R \ kept
    <3>2. d = Exclude(c2, X) /\ X \in SUBSET Chunk
      BY <2>1, <3>1
    <3> HIDE DEF d, X
    <3>3. /\ d \in ChunkRecord
          /\ d.on_disk = c2.on_disk
          /\ d.bitset = c2.bitset \ X
          /\ d.excluded_chunks = c2.excluded_chunks \cup X
          /\ d.only_seed_chunks = c2.only_seed_chunks \ X
          /\ d.todo = c2.todo \ X
          /\ \A i \in Chunk :
               d.priority[i] = IF i \in X THEN EXCLUDED ELSE c2.priority[i]
      BY <1>19, <3>2, ExcludeFields
    <3> QED BY <3>3 DEF X
  <2>2. CASE ~(lo <= hi)
    <3>1. d = c2 /\ R \ kept = {}
      BY <1>17, <2>2
    <3>2. \A S : S \ {} = S /\ S \cup {} = S
      OBVIOUS
    <3> HIDE DEF d
    <3> QED BY <1>19, <3>1, <3>2
  <2> QED BY <2>1, <2>2
<1> HIDE DEF d
<1>21. Consistent(d, new)
  <2> SUFFICES ASSUME NEW i \in Chunk PROVE ChunkConsistent(d, new, i)
    BY DEF Consistent
  <2>1. CASE i \in kept
    <3>1. /\ pr[i] = EXCLUDED <=> AllExcluded(new, i)
          /\ pr[i] = ONLY_SEED_PRIORITY <=> ~AllExcluded(new, i) /\ ~Wanted(new, i)
      BY <1>2, HighestPriority DEF pr
    <3>2. ~AllExcluded(new, i) /\ i \in R /\ i \notin c.excluded_chunks
      BY <1>9, <1>10, <1>14, <2>1 DEF ChunkConsistent
    <3> QED BY <1>18, <1>19, <1>20, <2>1, <3>1, <3>2 DEF ChunkConsistent
  <2>2. CASE i \in R \ kept
    <3>1. AllExcluded(new, i) /\ ~Wanted(new, i)
      BY <1>15, <2>2 DEF AllExcluded, Wanted
    <3> QED BY <1>18, <1>19, <1>20, <2>2, <3>1 DEF ChunkConsistent
  <2>3. CASE i \notin R
    <3>1. ChunkConsistent(c, fp, i) /\ i \notin kept
      BY <1>10, <1>14, <2>3
    <3> QED BY <1>8, <1>18, <1>19, <1>20, <2>3, <3>1 DEF ChunkConsistent
  <2> QED BY <2>1, <2>2, <2>3
<1>22. RecordInv(d, new) /\ NoMoreOnDisk(d, c)
  BY <1>18, <1>19, <1>20, <1>21 DEF RecordInv, LoadedNothing, NoMoreOnDisk
<1> QED BY <1>1, <1>22 DEF new

(* TorrentFile::setPriority keeps the chunks consistent with the files. *)
LEMMA SetPriorityInv ==
    ASSUME PreviewFits, NoTwoChunkBorderFile,
           NEW fp \in [File -> FilePriority], NEW f \in File,
           NEW p \in FilePriority,
           NEW c, RecordInv(c, fp)
    PROVE  /\ RecordInv(SetPriority(c, fp, f, p), [fp EXCEPT ![f] = p])
           /\ NoMoreOnDisk(SetPriority(c, fp, f, p), c)
<1> DEFINE normal == [fp EXCEPT ![f] = NORMAL_PRIORITY]
           new == [fp EXCEPT ![f] = p]
           s == SetPriority(c, fp, f, p)
<1> SUFFICES RecordInv(s, new) /\ NoMoreOnDisk(s, c)
  OBVIOUS
<1>1. CASE fp[f] = p
  <2>1. s = c /\ new = fp
    BY <1>1 DEF SetPriority
  <2> QED BY <2>1 DEF NoMoreOnDisk
<1>2. CASE fp[f] # p /\ p = EXCLUDED
  <2>1. s = StopDownloading(c, new, f)
    BY <1>2 DEF SetPriority, DownloadPriorityChanged
  <2> QED BY <1>2, <2>1, ExcludeFile
<1>3. CASE fp[f] # p /\ p # EXCLUDED /\ fp[f] # EXCLUDED
  BY <1>3, RaiseFile DEF SetPriority
<1>4. CASE fp[f] # p /\ p # EXCLUDED /\ fp[f] = EXCLUDED
  <2> DEFINE e == DownloadPriorityChanged(c, normal, f, NORMAL_PRIORITY, EXCLUDED)
             d == DownloadPriorityChanged(e, [normal EXCEPT ![f] = p], f, p, normal[f])
  <2>1. NORMAL_PRIORITY \in FilePriority \ {EXCLUDED}
    BY DEF FilePriority, NORMAL_PRIORITY, EXCLUDED
  <2>2. RecordInv(e, normal) /\ NoMoreOnDisk(e, c)
    BY <1>4, <2>1, RaiseFile
  <2>3. normal \in [File -> FilePriority] /\ normal[f] = NORMAL_PRIORITY
        /\ [normal EXCEPT ![f] = p] = new
    BY <2>1
  <2> HIDE DEF e, normal
  <2>4. RecordInv(d, [normal EXCEPT ![f] = p]) /\ NoMoreOnDisk(d, e)
    BY <1>4, <2>2, <2>3, RaiseFile
  <2>5. s = d
    BY <1>4, <2>3 DEF SetPriority, e, normal
  <2> HIDE DEF d, s, new
  <2> QED BY <2>2, <2>3, <2>4, <2>5 DEF NoMoreOnDisk
<1> QED BY <1>1, <1>2, <1>3, <1>4

-----------------------------------------------------------------------------
(* Types, for every layout. *)

(* resetChunk keeps the types of the fields. *)
LEMMA ResetChunksType ==
    ASSUME NEW c \in ChunkRecord, NEW R
    PROVE  ResetChunks(c, R) \in ChunkRecord
BY DEF ResetChunks, ChunkRecord

(* doPreviewPriority keeps the types of the fields. *)
LEMMA DoPreviewType ==
    ASSUME NEW c \in ChunkRecord, NEW fp, NEW f
    PROVE  DoPreviewPriority(c, fp, f) \in ChunkRecord
<1>1. [i \in Chunk |-> PREVIEW_PRIORITY] \in [Chunk -> Priority]
  BY DEF Priority
<1> QED BY <1>1, PrioritiseFields DEF DoPreviewPriority

(* downloadStatusChanged keeps them when a file is excluded. *)
LEMMA StopDownloadingType ==
    ASSUME NEW c \in ChunkRecord, NEW fp \in [File -> FilePriority], NEW f \in File
    PROVE  StopDownloading(c, fp, f) \in ChunkRecord
<1> DEFINE pr == [i \in Chunk |-> Highest(fp, i)]
<1>1. pr \in [Chunk -> Priority]
  BY HighestPriority DEF Priority
<1>2. /\ FirstChunk[f] \in Int /\ LastChunk[f] \in Int
      /\ FirstChunk[f] .. LastChunk[f] \subseteq Chunk
  BY LayoutFacts, FileChunksInChunk DEF FileChunks
<1> HIDE DEF pr
<1>3. ASSUME NEW R, NEW K, NEW lo \in Int, NEW hi \in Int,
             FirstChunk[f] <= lo, hi <= LastChunk[f]
      PROVE  LET c1 == ResetChunks(c, R)
                 c2 == IF K = {} THEN c1 ELSE Prioritise(c1, K, pr)
             IN  (IF lo <= hi THEN Exclude(c2, lo .. hi) ELSE c2) \in ChunkRecord
  <2> DEFINE c1 == ResetChunks(c, R)
             c2 == IF K = {} THEN c1 ELSE Prioritise(c1, K, pr)
  <2>1. c1 \in ChunkRecord
    BY ResetChunksType
  <2> HIDE DEF c1
  <2>2. c2 \in ChunkRecord
    BY <1>1, <2>1, PrioritiseFields
  <2> HIDE DEF c2
  <2>3. lo .. hi \in SUBSET Chunk
    BY <1>2, <1>3
  <2>4. (IF lo <= hi THEN Exclude(c2, lo .. hi) ELSE c2) \in ChunkRecord
    BY <2>2, <2>3, ExcludeFields
  <2> QED BY <2>4 DEF c1, c2
<1> DEFINE first == FirstChunk[f]
           last == LastChunk[f]
           keepFirst == first \in border_chunks /\ StillNeeded(fp, first, f)
           lo == IF keepFirst THEN first + 1 ELSE first
           keepLast == /\ last # lo
                       /\ last \in border_chunks
                       /\ StillNeeded(fp, last, f)
           hi == IF keepLast THEN last - 1 ELSE last
           kept == (IF keepFirst THEN {first} ELSE {})
                     \cup (IF keepLast THEN {last} ELSE {})
           untouched == IF keepFirst /\ last = lo THEN {last} ELSE {}
           R == FileChunks(f) \ (kept \cup untouched)
           c1 == ResetChunks(c, R)
           c2 == IF kept = {} THEN c1 ELSE Prioritise(c1, kept, pr)
           d == IF lo <= hi THEN Exclude(c2, lo .. hi) ELSE c2
<1>4. StopDownloading(c, fp, f) = d
  BY DEF StopDownloading, pr
<1> HIDE DEF keepFirst, keepLast, kept, untouched, R, c1, c2, d
<1>5. lo \in Int /\ hi \in Int /\ first <= lo /\ hi <= last
  BY <1>2
<1> HIDE DEF lo, hi
<1> USE DEF c1, c2, d
<1>6. d \in ChunkRecord
  BY <1>3, <1>5
<1> QED BY <1>4, <1>6

(* downloadPriorityChanged keeps them. *)
LEMMA DownloadPriorityChangedType ==
    ASSUME NEW c \in ChunkRecord, NEW fp \in [File -> FilePriority], NEW f \in File,
           NEW p \in FilePriority, NEW old
    PROVE  DownloadPriorityChanged(c, fp, f, p, old) \in ChunkRecord
<1> DEFINE R == FileChunks(f)
           pr == [i \in Chunk |-> IF i \in border_chunks THEN Highest(fp, i) ELSE p]
           c1 == IF old = EXCLUDED THEN ResumeDownloading(c, fp, f) ELSE c
           c2 == IF old = ONLY_SEED_PRIORITY THEN Include(c1, R) ELSE c1
           c3 == Prioritise(c2, R, pr)
           d == IF p = EXCLUDED THEN StopDownloading(c, fp, f)
                ELSE DoPreviewPriority(c3, fp, f)
<1>1. DownloadPriorityChanged(c, fp, f, p, old) = d
  BY DEF DownloadPriorityChanged
<1>2. R \in SUBSET Chunk
  BY FileChunksInChunk
<1>3. pr \in [Chunk -> Priority]
  BY HighestPriority DEF Priority
<1> HIDE DEF pr
<1>4. Include(c, R) \in ChunkRecord
  BY <1>2, IncludeFields
<1>5. c1 \in ChunkRecord
  BY <1>4, DoPreviewType DEF ResumeDownloading
<1> HIDE DEF c1, R
<1>6. c2 \in ChunkRecord
  BY <1>2, <1>5, IncludeFields
<1> HIDE DEF c2
<1>7. c3 \in ChunkRecord
  BY <1>3, <1>6, PrioritiseFields
<1> HIDE DEF c3
<1>8. d \in ChunkRecord
  BY <1>7, DoPreviewType, StopDownloadingType
<1> QED BY <1>1, <1>8

(* A new priority of a file, with all the calls it leads to, keeps them. *)
LEMMA SetPriorityType ==
    ASSUME NEW c \in ChunkRecord, NEW fp \in [File -> FilePriority], NEW f \in File,
           NEW p \in FilePriority
    PROVE  SetPriority(c, fp, f, p) \in ChunkRecord
<1> DEFINE normal == [fp EXCEPT ![f] = NORMAL_PRIORITY]
           new == [fp EXCEPT ![f] = p]
           e == DownloadPriorityChanged(c, normal, f, NORMAL_PRIORITY, EXCLUDED)
<1>1. normal \in [File -> FilePriority] /\ new \in [File -> FilePriority]
  BY DEF FilePriority
<1>2. NORMAL_PRIORITY \in FilePriority
  BY DEF FilePriority
<1> HIDE DEF normal, new
<1>3. e \in ChunkRecord
  BY <1>1, <1>2, DownloadPriorityChangedType
<1> HIDE DEF e
<1>4. DownloadPriorityChanged(e, new, f, p, NORMAL_PRIORITY) \in ChunkRecord
  BY <1>1, <1>3, DownloadPriorityChangedType
<1>5. DownloadPriorityChanged(c, new, f, p, fp[f]) \in ChunkRecord
  BY <1>1, DownloadPriorityChangedType
<1> QED BY <1>4, <1>5 DEF SetPriority, e, normal, new

(* The fields have their types after the constructor. *)
LEMMA FreshType == Fresh \in ChunkRecord
BY DEF Fresh, ChunkRecord, Priority, FilePriority

(* The record that dataChecked leaves. *)
LEMMA DataCheckedType ==
    ASSUME NEW c \in ChunkRecord, NEW good \in SUBSET Chunk, NEW bad \in SUBSET Chunk
    PROVE  [c EXCEPT
                !.on_disk = (c.on_disk \cup good) \ bad,
                !.bitset = (c.bitset \cup good) \ bad,
                !.todo = {i \in Chunk : IF i \in bad
                            THEN /\ i \notin c.only_seed_chunks
                                 /\ i \notin c.excluded_chunks
                            ELSE i \in c.todo /\ i \notin good},
                !.recalc_chunks_left = TRUE] \in ChunkRecord
BY DEF ChunkRecord

(* Marking the number of chunks left, and counting it, keeps the types. *)
LEMMA RecalcType ==
    ASSUME NEW c \in ChunkRecord
    PROVE  /\ [c EXCEPT !.recalc_chunks_left = TRUE] \in ChunkRecord
           /\ ChunksLeft([c EXCEPT !.recalc_chunks_left = TRUE]) \in ChunkRecord
<1>1. [c EXCEPT !.recalc_chunks_left = TRUE] \in ChunkRecord
  BY DEF ChunkRecord
<1> QED BY <1>1, ChunksLeftFields DEF SameChunks

(* saveIndexFile, complete or broken off, leaves files of the right type. *)
LEMMA SavedType ==
    ASSUME TypeOK, NEW c \in ChunkRecord, NEW fp \in [File -> FilePriority],
           \/ SaveIndexFile(c, fp)
           \/ SaveIndexFileFails(c, fp)
           \/ SaveIndexFileFails(c, file_priority)
    PROVE  index_file' \in SUBSET Chunk /\ file_priority' \in [File -> FilePriority]
BY DEF TypeOK, SaveIndexFile, SaveIndexFileFails, ChunkRecord

(* The types hold initially. *)
LEMMA TypeInit == Init => TypeOK
<1>1. NORMAL_PRIORITY \in FilePriority /\ 0 \in 0 .. Running
  BY SizesAssumption DEF FilePriority, Running
<1> QED BY <1>1, FreshType DEF Init, TypeOK

(* Every step keeps the types. *)
LEMMA TypeStep == TypeOK /\ [Next]_vars => TypeOK'
<1> SUFFICES ASSUME TypeOK, [Next]_vars PROVE TypeOK'
  OBVIOUS
<1>0. /\ cm \in ChunkRecord
      /\ fprio \in [File -> FilePriority]
      /\ phase \in 0 .. Running
      /\ index_file \in SUBSET Chunk
      /\ file_priority \in [File -> FilePriority]
      /\ data \in SUBSET Chunk
  BY DEF TypeOK
<1>1. ASSUME NEW i \in Chunk, ChunkDownloaded(i) PROVE TypeOK'
  <2>1. MarkDownloaded(cm, {i}) \in ChunkRecord
    BY <1>0, MarkDownloadedFields
  <2> QED BY <1>0, <1>1, <2>1 DEF ChunkDownloaded, TypeOK
<1>2. ASSUME NEW i \in Chunk, ChunkDownloadedUnrecorded(i) PROVE TypeOK'
  <2>1. [cm EXCEPT !.bitset = cm.bitset \cup {i}, !.todo = cm.todo \ {i},
                   !.recalc_chunks_left = TRUE] \in ChunkRecord
    BY <1>0 DEF ChunkRecord
  <2> QED BY <1>0, <1>2, <2>1 DEF ChunkDownloadedUnrecorded, TypeOK
<1>3. ASSUME NEW i \in Chunk, ChunkFailed(i) PROVE TypeOK'
  BY <1>0, <1>3, ResetChunksType DEF ChunkFailed, TypeOK
<1>4. ASSUME NEW from \in Chunk, NEW to \in Chunk, DataChecked(from, to)
      PROVE  TypeOK'
  <2> DEFINE good == ((from .. to) \cap data) \ cm.bitset
             bad == ((from .. to) \ data) \cap cm.bitset
             c == [cm EXCEPT
                     !.on_disk = (cm.on_disk \cup good) \ bad,
                     !.bitset = (cm.bitset \cup good) \ bad,
                     !.todo = {i \in Chunk : IF i \in bad
                                 THEN /\ i \notin cm.only_seed_chunks
                                      /\ i \notin cm.excluded_chunks
                                 ELSE i \in cm.todo /\ i \notin good},
                     !.recalc_chunks_left = TRUE]
  <2>1. good \in SUBSET Chunk /\ bad \in SUBSET Chunk
    <3>1. cm.bitset \in SUBSET Chunk
      BY <1>0 DEF ChunkRecord
    <3> QED BY <1>0, <3>1
  <2>2. /\ cm' = ChunksLeft(c)
        /\ SaveIndexFile(c, fprio) \/ SaveIndexFileFails(c, file_priority)
        /\ UNCHANGED <<fprio, phase, data>>
    BY <1>4 DEF DataChecked
  <2> HIDE DEF good, bad
  <2>3. c \in ChunkRecord
    BY <1>0, <2>1, DataCheckedType
  <2> HIDE DEF c
  <2>4. cm' \in ChunkRecord
    BY <2>2, <2>3, ChunksLeftFields DEF SameChunks
  <2> QED BY <1>0, <2>2, <2>3, <2>4, SavedType DEF TypeOK
<1>5. ASSUME NEW f \in File, NEW p \in UserPriorities, UserSetsPriority(f, p)
      PROVE  TypeOK'
  <2>1. p \in FilePriority
    BY SizesAssumption
  <2>2. cm' \in ChunkRecord
    BY <1>0, <1>5, <2>1, SetPriorityType DEF UserSetsPriority
  <2> QED BY <1>0, <1>5, <2>1, <2>2 DEF UserSetsPriority, TypeOK
<1>6. CASE StatsUpdated
  BY <1>0, <1>6, ChunksLeftFields DEF StatsUpdated, TypeOK, SameChunks
<1>7. ASSUME NEW E \in SUBSET File, MarkExistingFilesAsDownloaded(E) PROVE TypeOK'
  <2> DEFINE c == MarkDownloaded(cm, ExistingChunks(E))
  <2>1. c \in ChunkRecord
    <3>1. ExistingChunks(E) \in SUBSET Chunk
      BY FileChunksInChunk DEF ExistingChunks
    <3> QED BY <1>0, <3>1, MarkDownloadedFields
  <2>2. /\ cm' = ChunksLeft(c)
        /\ SaveIndexFile(c, fprio) \/ SaveIndexFileFails(c, file_priority)
        /\ UNCHANGED <<fprio, phase, data>>
    BY <1>7 DEF MarkExistingFilesAsDownloaded
  <2> HIDE DEF c
  <2>3. cm' \in ChunkRecord
    BY <2>1, <2>2, ChunksLeftFields DEF SameChunks
  <2> QED BY <1>0, <2>1, <2>2, <2>3, SavedType DEF TypeOK
<1>8. ASSUME NEW E \in SUBSET File, RecreateMissingFiles(E) PROVE TypeOK'
  <2> DEFINE lost == UNION {FileChunks(f) : f \in E}
             c == ResetChunks(cm, lost)
  <2>1. /\ \/ /\ SaveIndexFile(c, fprio)
              /\ cm' = ChunksLeft([c EXCEPT !.recalc_chunks_left = TRUE])
           \/ SaveIndexFileFails(c, file_priority) /\ cm' = c
        /\ data' = data \ lost
        /\ UNCHANGED <<fprio, phase>>
    BY <1>8 DEF RecreateMissingFiles, RecreateSaved, RecreateUnsaved, LostChunks
  <2>2. c \in ChunkRecord
    BY <1>0, ResetChunksType
  <2> HIDE DEF c, lost
  <2>3. cm' \in ChunkRecord
    BY <2>1, <2>2, RecalcType
  <2> QED BY <1>0, <2>1, <2>2, <2>3, SavedType DEF TypeOK
<1>9. ASSUME NEW f \in File, DndMissingFiles(f) PROVE TypeOK'
  <2> DEFINE new == [fprio EXCEPT ![f] = EXCLUDED]
             c1 == ResetChunks(cm, FileChunks(f))
             c == IF fprio[f] = EXCLUDED THEN c1
                  ELSE DownloadPriorityChanged(c1, new, f, EXCLUDED, fprio[f])
  <2>1. /\ fprio' = new
        /\ \/ /\ SaveIndexFile(c, new)
              /\ cm' = ChunksLeft([c EXCEPT !.recalc_chunks_left = TRUE])
           \/ SaveIndexFileFails(c, new) /\ cm' = c
        /\ data' = data \ FileChunks(f)
        /\ UNCHANGED phase
    BY <1>9 DEF DndMissingFiles, DndSaved, DndUnsaved, DndRecord
  <2>2. EXCLUDED \in FilePriority /\ new \in [File -> FilePriority]
    BY <1>0 DEF FilePriority
  <2>3. c1 \in ChunkRecord
    BY <1>0, ResetChunksType
  <2> HIDE DEF c1, new
  <2>4. c \in ChunkRecord
    BY <2>2, <2>3, DownloadPriorityChangedType
  <2> HIDE DEF c
  <2>5. cm' \in ChunkRecord
    BY <2>1, <2>4, RecalcType
  <2> QED BY <1>0, <2>1, <2>2, <2>4, <2>5, SavedType DEF TypeOK
<1>10. CASE Restart
  <2>1. NORMAL_PRIORITY \in FilePriority /\ 0 \in 0 .. Running
    BY SizesAssumption DEF FilePriority, Running
  <2> QED BY <1>0, <1>10, <2>1, FreshType DEF Restart, TypeOK
<1>11. CASE LoadPriorityInfo
  <2>1. phase \in File /\ phase + 1 \in 0 .. Running
    BY <1>0, <1>11, SizesAssumption DEF LoadPriorityInfo, File, Running
  <2>2. cm' \in ChunkRecord /\ fprio' \in [File -> FilePriority]
    BY <1>0, <1>11, <2>1, SetPriorityType DEF LoadPriorityInfo
  <2> QED BY <1>0, <1>11, <2>1, <2>2 DEF LoadPriorityInfo, TypeOK
<1>12. CASE LoadIndexFile
  <2>1. MarkDownloaded(cm, index_file) \in ChunkRecord
    BY <1>0, MarkDownloadedFields
  <2>2. ChunksLeft(MarkDownloaded(cm, index_file)) \in ChunkRecord
    BY <2>1, ChunksLeftFields DEF SameChunks
  <2>3. Running \in 0 .. Running
    BY SizesAssumption DEF Running
  <2> QED BY <1>0, <1>12, <2>2, <2>3 DEF LoadIndexFile, TypeOK
<1>13. CASE UNCHANGED vars
  BY <1>0, <1>13 DEF vars, TypeOK
<1> QED BY <1>1, <1>2, <1>3, <1>4, <1>5, <1>6, <1>7, <1>8, <1>9, <1>10,
           <1>11, <1>12, <1>13 DEF Next

(* TypeOK holds in every state, whatever the layout of the files. *)
THEOREM TypeCorrect == Spec => []TypeOK
BY TypeInit, TypeStep, PTL DEF Spec

-----------------------------------------------------------------------------
(* The chunks are what the files make of them, in every reachable state. *)

Inv ==
    /\ TypeOK
    /\ RecordInv(cm, fprio)
    /\ ~DiskErrors /\ ~during_load => cm.on_disk \subseteq index_file

(* Resetting chunks keeps the book-keeping consistent. *)
LEMMA ResetInv ==
    ASSUME NEW c, NEW fp, RecordInv(c, fp), NEW R \in SUBSET Chunk, ~during_load
    PROVE  /\ RecordInv(ResetChunks(c, R), fp)
           /\ ResetChunks(c, R).on_disk \subseteq c.on_disk
<1> DEFINE d == ResetChunks(c, R)
<1>1. /\ d \in ChunkRecord
      /\ d.on_disk = c.on_disk \ R
      /\ d.bitset = c.bitset \ R
      /\ d.excluded_chunks = c.excluded_chunks
      /\ d.only_seed_chunks = c.only_seed_chunks
      /\ d.priority = c.priority
      /\ \A i \in Chunk : i \in d.todo
           <=> IF i \in R
               THEN i \notin c.excluded_chunks /\ i \notin c.only_seed_chunks
               ELSE i \in c.todo
  BY ResetChunksFields DEF RecordInv
<1> HIDE DEF d
<1>2. ASSUME NEW i \in Chunk PROVE ChunkConsistent(d, fp, i)
  <2>1. ChunkConsistent(c, fp, i)
    BY DEF RecordInv, Consistent
  <2>2. AllExcluded(fp, i) => ~Wanted(fp, i)
    BY DEF AllExcluded, Wanted
  <2> QED BY <1>1, <2>1, <2>2 DEF ChunkConsistent
<1>3. RecordInv(d, fp)
  BY <1>1, <1>2 DEF RecordInv, Consistent, LoadedNothing
<1> QED BY <1>1, <1>3 DEF d

(* Marking chunks as downloaded keeps it consistent. *)
LEMMA MarkDownloadedInv ==
    ASSUME NEW c, NEW fp, RecordInv(c, fp), NEW R \in SUBSET Chunk
    PROVE  LET d == MarkDownloaded(c, R) IN
           /\ d \in ChunkRecord
           /\ Consistent(d, fp)
           /\ d.on_disk \subseteq d.bitset
           /\ ~DiskErrors => d.bitset \subseteq d.on_disk
           /\ d.on_disk = c.on_disk \cup R
<1> DEFINE d == MarkDownloaded(c, R)
<1>1. /\ d \in ChunkRecord
      /\ d.on_disk = c.on_disk \cup R
      /\ d.bitset = c.bitset \cup R
      /\ d.todo = c.todo \ R
      /\ d.excluded_chunks = c.excluded_chunks
      /\ d.only_seed_chunks = c.only_seed_chunks
      /\ d.priority = c.priority
  BY MarkDownloadedFields DEF RecordInv
<1> HIDE DEF d
<1>2. ASSUME NEW i \in Chunk PROVE ChunkConsistent(d, fp, i)
  <2>1. ChunkConsistent(c, fp, i)
    BY DEF RecordInv, Consistent
  <2> QED BY <1>1, <2>1 DEF ChunkConsistent
<1>3. /\ Consistent(d, fp)
      /\ d.on_disk \subseteq d.bitset
      /\ ~DiskErrors => d.bitset \subseteq d.on_disk
  BY <1>1, <1>2 DEF RecordInv, Consistent
<1> QED BY <1>1, <1>3 DEF d

(* The invariant does not depend on the cached number of chunks left. *)
LEMMA SameChunksInv ==
    ASSUME NEW c, NEW d, NEW fp, SameChunks(d, c),
           Consistent(c, fp), c.on_disk \subseteq c.bitset,
           ~DiskErrors => c.bitset \subseteq c.on_disk
    PROVE  /\ d \in ChunkRecord
           /\ Consistent(d, fp)
           /\ d.on_disk \subseteq d.bitset
           /\ ~DiskErrors => d.bitset \subseteq d.on_disk
<1>1. ASSUME NEW i \in Chunk PROVE ChunkConsistent(d, fp, i)
  BY DEF SameChunks, Consistent, ChunkConsistent
<1> QED BY <1>1 DEF SameChunks, Consistent

(* Counting the chunks left changes no other field. *)
LEMMA RecalcFields ==
    ASSUME NEW c \in ChunkRecord
    PROVE  SameChunks(ChunksLeft([c EXCEPT !.recalc_chunks_left = TRUE]), c)
<1> DEFINE e == [c EXCEPT !.recalc_chunks_left = TRUE]
<1>1. SameChunks(e, c) /\ e \in ChunkRecord
  BY DEF SameChunks, ChunkRecord
<1> HIDE DEF e
<1>2. SameChunks(ChunksLeft(e), e)
  BY <1>1, ChunksLeftFields
<1> QED BY <1>1, <1>2 DEF SameChunks, e

(* The book-keeping is consistent after the constructor, when all files    *)
(* have normal priority.                                                   *)
LEMMA FreshConsistent ==
    /\ Consistent(Fresh, [f \in File |-> NORMAL_PRIORITY])
    /\ Fresh.on_disk = {}
    /\ Fresh.bitset = {}
<1> DEFINE fp == [f \in File |-> NORMAL_PRIORITY]
<1>1. ASSUME NEW i \in Chunk PROVE ChunkConsistent(Fresh, fp, i)
  <2>1. PICK f \in FilesOf(i) : f \in File
    BY ChunkInFile DEF FilesOf
  <2>2. fp[f] = NORMAL_PRIORITY
    BY <2>1
  <2> HIDE DEF fp
  <2>3. Wanted(fp, i) /\ ~AllExcluded(fp, i)
    BY <2>1, <2>2 DEF Wanted, AllExcluded, NORMAL_PRIORITY, EXCLUDED, ONLY_SEED_PRIORITY
  <2>4. Fresh.priority[i] # EXCLUDED
    BY DEF Fresh, EXCLUDED, NORMAL_PRIORITY, PREVIEW_PRIORITY
  <2> QED BY <2>3, <2>4 DEF ChunkConsistent, Fresh
<1> QED BY <1>1 DEF Consistent, Fresh

(* What saveIndexFile leaves when it does not fail. *)
LEMMA SavedOnDisk ==
    ASSUME NEW c, NEW fp, NEW left, ~DiskErrors,
           SaveIndexFile(c, fp) \/ SaveIndexFileFails(c, left)
    PROVE  index_file' = c.on_disk
BY DEF SaveIndexFile, SaveIndexFileFails

(* The inductive invariant holds initially. *)
LEMMA InvInit == Init => Inv
<1> SUFFICES ASSUME Init PROVE Inv
  OBVIOUS
<1>1. TypeOK
  BY TypeInit
<1>2. RecordInv(cm, fprio)
  BY <1>1, FreshConsistent DEF Init, TypeOK, RecordInv, LoadedNothing
<1>3. during_load
  BY SizesAssumption DEF Init, during_load, Running
<1> QED BY <1>1, <1>2, <1>3 DEF Inv

(* Every step keeps the inductive invariant: a chunk changes its state     *)
(* only together with the files that want it.                              *)
LEMMA InvStep ==
    ASSUME PreviewFits, NoTwoChunkBorderFile
    PROVE  Inv /\ [Next]_vars => Inv'
<1> SUFFICES ASSUME Inv, [Next]_vars PROVE Inv'
  OBVIOUS
<1>0. TypeOK' /\ TypeOK /\ RecordInv(cm, fprio)
  BY TypeStep DEF Inv
<1> DEFINE Good ==
      /\ Consistent(cm', fprio')
      /\ cm'.on_disk \subseteq cm'.bitset
      /\ ~DiskErrors => cm'.bitset \subseteq cm'.on_disk
      /\ (during_load)' => cm'.bitset = {} /\ cm'.on_disk = {}
      /\ ~DiskErrors /\ ~(during_load)' => cm'.on_disk \subseteq index_file'
<1>a. SUFFICES Good
  BY <1>0 DEF Inv, RecordInv, LoadedNothing, TypeOK
<1>b. ~DiskErrors /\ ~during_load => cm.on_disk \subseteq index_file
  BY DEF Inv
<1>c. /\ cm \in ChunkRecord
      /\ fprio \in [File -> FilePriority]
      /\ file_priority \in [File -> FilePriority]
      /\ index_file \in SUBSET Chunk
      /\ data \in SUBSET Chunk
      /\ phase \in 0 .. Running
  BY <1>0 DEF TypeOK
<1>d. phase' = phase => ((during_load)' <=> during_load)
  BY DEF during_load
<1>e. ASSUME phase' = phase, ~during_load,
             Consistent(cm', fprio'),
             cm'.on_disk \subseteq cm'.bitset,
             ~DiskErrors => cm'.bitset \subseteq cm'.on_disk,
             ~DiskErrors => cm'.on_disk \subseteq index_file'
      PROVE  Good
  BY <1>d, <1>e
<1>1. ASSUME NEW i \in Chunk, ChunkDownloaded(i) PROVE Good
  <2>1. CASE cm.priority[i] = EXCLUDED
    BY <1>0, <1>1, <1>b, <1>d, <2>1 DEF ChunkDownloaded, RecordInv, LoadedNothing
  <2>2. CASE cm.priority[i] # EXCLUDED
    <3>1. /\ cm' = MarkDownloaded(cm, {i}) /\ index_file' = index_file \cup {i}
          /\ UNCHANGED <<fprio, phase>> /\ ~during_load
      BY <1>1, <2>2 DEF ChunkDownloaded
    <3>2. /\ Consistent(cm', fprio)
          /\ cm'.on_disk \subseteq cm'.bitset
          /\ ~DiskErrors => cm'.bitset \subseteq cm'.on_disk
          /\ cm'.on_disk = cm.on_disk \cup {i}
      BY <1>0, <3>1, MarkDownloadedInv
    <3>3. ~DiskErrors => cm'.on_disk \subseteq index_file'
      BY <1>b, <3>1, <3>2
    <3> QED BY <1>e, <3>1, <3>2, <3>3
  <2> QED BY <2>1, <2>2
<1>2. ASSUME NEW i \in Chunk, ChunkDownloadedUnrecorded(i) PROVE Good
  <2>1. /\ cm' = [cm EXCEPT !.bitset = cm.bitset \cup {i}, !.todo = cm.todo \ {i},
                            !.recalc_chunks_left = TRUE]
        /\ DiskErrors /\ ~during_load /\ UNCHANGED <<fprio, phase>>
    BY <1>2 DEF ChunkDownloadedUnrecorded
  <2>2. /\ cm'.bitset = cm.bitset \cup {i}
        /\ cm'.todo = cm.todo \ {i}
        /\ cm'.on_disk = cm.on_disk
        /\ cm'.excluded_chunks = cm.excluded_chunks
        /\ cm'.only_seed_chunks = cm.only_seed_chunks
        /\ cm'.priority = cm.priority
    BY <1>c, <2>1 DEF ChunkRecord
  <2>3. ASSUME NEW j \in Chunk PROVE ChunkConsistent(cm', fprio', j)
    <3>1. ChunkConsistent(cm, fprio, j)
      BY <1>0 DEF RecordInv, Consistent
    <3> QED BY <2>1, <2>2, <3>1 DEF ChunkConsistent
  <2>4. Consistent(cm', fprio') /\ cm'.on_disk \subseteq cm'.bitset
    BY <1>0, <2>2, <2>3 DEF RecordInv, Consistent
  <2> QED BY <1>e, <2>1, <2>4
<1>3. ASSUME NEW i \in Chunk, ChunkFailed(i) PROVE Good
  <2>1. /\ cm' = ResetChunks(cm, {i}) /\ ~during_load
        /\ UNCHANGED <<fprio, phase, index_file>>
    BY <1>3 DEF ChunkFailed
  <2>2. RecordInv(cm', fprio) /\ cm'.on_disk \subseteq cm.on_disk
    BY <1>0, <2>1, ResetInv
  <2>3. ~DiskErrors => cm'.on_disk \subseteq index_file'
    BY <1>b, <2>1, <2>2
  <2> QED BY <1>e, <2>1, <2>2, <2>3 DEF RecordInv
<1>4. ASSUME NEW from \in Chunk, NEW to \in Chunk, DataChecked(from, to) PROVE Good
  <2> DEFINE good == ((from .. to) \cap data) \ cm.bitset
             bad == ((from .. to) \ data) \cap cm.bitset
             c == [cm EXCEPT
                     !.on_disk = (cm.on_disk \cup good) \ bad,
                     !.bitset = (cm.bitset \cup good) \ bad,
                     !.todo = {i \in Chunk : IF i \in bad
                                 THEN /\ i \notin cm.only_seed_chunks
                                      /\ i \notin cm.excluded_chunks
                                 ELSE i \in cm.todo /\ i \notin good},
                     !.recalc_chunks_left = TRUE]
  <2>1. good \in SUBSET Chunk /\ bad \in SUBSET Chunk
    <3>1. cm.bitset \in SUBSET Chunk
      BY <1>c DEF ChunkRecord
    <3> QED BY <1>c, <3>1
  <2>2. /\ cm' = ChunksLeft(c) /\ ~during_load
        /\ SaveIndexFile(c, fprio) \/ SaveIndexFileFails(c, file_priority)
        /\ UNCHANGED <<fprio, phase>>
    BY <1>4 DEF DataChecked
  <2> HIDE DEF good, bad
  <2>3. /\ c \in ChunkRecord
        /\ c.on_disk = (cm.on_disk \cup good) \ bad
        /\ c.bitset = (cm.bitset \cup good) \ bad
        /\ c.excluded_chunks = cm.excluded_chunks
        /\ c.only_seed_chunks = cm.only_seed_chunks
        /\ c.priority = cm.priority
        /\ \A i \in Chunk : i \in c.todo <=>
               IF i \in bad THEN /\ i \notin cm.only_seed_chunks
                                 /\ i \notin cm.excluded_chunks
               ELSE i \in cm.todo /\ i \notin good
    BY <1>c, <2>1, DataCheckedType DEF ChunkRecord
  <2> HIDE DEF c
  <2>4. ASSUME NEW i \in Chunk PROVE ChunkConsistent(c, fprio, i)
    <3>1. ChunkConsistent(cm, fprio, i)
      BY <1>0 DEF RecordInv, Consistent
    <3>2. AllExcluded(fprio, i) => ~Wanted(fprio, i)
      BY DEF AllExcluded, Wanted
    <3> QED BY <2>3, <3>1, <3>2 DEF ChunkConsistent
  <2>5. /\ Consistent(c, fprio)
        /\ c.on_disk \subseteq c.bitset
        /\ ~DiskErrors => c.bitset \subseteq c.on_disk
    BY <1>0, <2>3, <2>4 DEF Consistent, RecordInv
  <2>6. SameChunks(cm', c)
    BY <2>2, <2>3, ChunksLeftFields
  <2>7. /\ Consistent(cm', fprio)
        /\ cm'.on_disk \subseteq cm'.bitset
        /\ ~DiskErrors => cm'.bitset \subseteq cm'.on_disk
        /\ cm'.on_disk = c.on_disk
    BY <2>5, <2>6, SameChunksInv DEF SameChunks
  <2>8. ~DiskErrors => cm'.on_disk \subseteq index_file'
    BY <2>2, <2>7, SavedOnDisk
  <2> QED BY <1>e, <2>2, <2>7, <2>8
<1>5. ASSUME NEW f \in File, NEW p \in UserPriorities, UserSetsPriority(f, p)
      PROVE  Good
  <2>1. p \in FilePriority
    BY SizesAssumption
  <2>2. /\ cm' = SetPriority(cm, fprio, f, p) /\ ~during_load /\ fprio[f] # p
        /\ fprio' = [fprio EXCEPT ![f] = p]
        /\ UNCHANGED <<phase, index_file>>
    BY <1>5 DEF UserSetsPriority
  <2>3. RecordInv(cm', fprio') /\ cm'.on_disk \subseteq cm.on_disk
    BY <1>0, <1>c, <2>1, <2>2, SetPriorityInv DEF NoMoreOnDisk
  <2>4. ~DiskErrors => cm'.on_disk \subseteq index_file'
    BY <1>b, <2>2, <2>3
  <2> QED BY <1>e, <2>2, <2>3, <2>4 DEF RecordInv
<1>6. CASE StatsUpdated
  <2>1. cm' = ChunksLeft(cm) /\ UNCHANGED <<fprio, phase, index_file>> /\ ~during_load
    BY <1>6 DEF StatsUpdated
  <2>2. SameChunks(cm', cm)
    BY <1>c, <2>1, ChunksLeftFields
  <2>3. /\ Consistent(cm', fprio)
        /\ cm'.on_disk \subseteq cm'.bitset
        /\ ~DiskErrors => cm'.bitset \subseteq cm'.on_disk
        /\ cm'.on_disk = cm.on_disk /\ cm'.bitset = cm.bitset
    BY <1>0, <2>2, SameChunksInv DEF SameChunks, RecordInv
  <2>4. ~DiskErrors => cm'.on_disk \subseteq index_file'
    BY <1>b, <2>1, <2>3
  <2> QED BY <1>e, <2>1, <2>3, <2>4
<1>7. ASSUME NEW E \in SUBSET File, MarkExistingFilesAsDownloaded(E) PROVE Good
  <2> DEFINE c == MarkDownloaded(cm, ExistingChunks(E))
  <2>1. /\ cm' = ChunksLeft(c) /\ ~during_load
        /\ SaveIndexFile(c, fprio) \/ SaveIndexFileFails(c, file_priority)
        /\ UNCHANGED <<fprio, phase>>
    BY <1>7 DEF MarkExistingFilesAsDownloaded
  <2>2. ExistingChunks(E) \in SUBSET Chunk
    BY FileChunksInChunk DEF ExistingChunks
  <2>3. /\ c \in ChunkRecord
        /\ Consistent(c, fprio)
        /\ c.on_disk \subseteq c.bitset
        /\ ~DiskErrors => c.bitset \subseteq c.on_disk
    BY <1>0, <2>2, MarkDownloadedInv
  <2> HIDE DEF c
  <2>4. SameChunks(cm', c)
    BY <2>1, <2>3, ChunksLeftFields
  <2>5. /\ Consistent(cm', fprio)
        /\ cm'.on_disk \subseteq cm'.bitset
        /\ ~DiskErrors => cm'.bitset \subseteq cm'.on_disk
        /\ cm'.on_disk = c.on_disk
    BY <2>3, <2>4, SameChunksInv DEF SameChunks
  <2>6. ~DiskErrors => cm'.on_disk \subseteq index_file'
    BY <2>1, <2>5, SavedOnDisk
  <2> QED BY <1>e, <2>1, <2>5, <2>6
<1>8. ASSUME NEW c, NEW fp, NEW left, RecordInv(c, fp), fprio' = fp, phase' = phase, ~during_load,
             \/ /\ SaveIndexFile(c, fp)
                /\ cm' = ChunksLeft([c EXCEPT !.recalc_chunks_left = TRUE])
             \/ SaveIndexFileFails(c, left) /\ cm' = c
      PROVE  Good
  <2>1. SameChunks(cm', c)
    <3>1. c \in ChunkRecord
      BY <1>8 DEF RecordInv
    <3> QED BY <1>8, <3>1, RecalcFields DEF SameChunks
  <2>2. /\ Consistent(cm', fp)
        /\ cm'.on_disk \subseteq cm'.bitset
        /\ ~DiskErrors => cm'.bitset \subseteq cm'.on_disk
        /\ cm'.on_disk = c.on_disk
    BY <1>8, <2>1, SameChunksInv DEF SameChunks, RecordInv
  <2>3. ~DiskErrors => cm'.on_disk \subseteq index_file'
    BY <1>8, <2>2, SavedOnDisk
  <2> QED BY <1>e, <1>8, <2>2, <2>3
<1>9. ASSUME NEW E \in SUBSET File, RecreateMissingFiles(E) PROVE Good
  <2> DEFINE lost == UNION {FileChunks(f) : f \in E}
             c == ResetChunks(cm, lost)
  <2>1. /\ \/ /\ SaveIndexFile(c, fprio)
              /\ cm' = ChunksLeft([c EXCEPT !.recalc_chunks_left = TRUE])
           \/ SaveIndexFileFails(c, file_priority) /\ cm' = c
        /\ fprio' = fprio /\ phase' = phase /\ ~during_load
    BY <1>9 DEF RecreateMissingFiles, RecreateSaved, RecreateUnsaved, LostChunks
  <2>2. lost \in SUBSET Chunk
    BY FileChunksInChunk
  <2> HIDE DEF lost
  <2>3. RecordInv(c, fprio)
    BY <1>0, <2>1, <2>2, ResetInv
  <2> QED BY <1>8, <2>1, <2>3
<1>10. ASSUME NEW f \in File, DndMissingFiles(f) PROVE Good
  <2> DEFINE new == [fprio EXCEPT ![f] = EXCLUDED]
             c1 == ResetChunks(cm, FileChunks(f))
             c == IF fprio[f] = EXCLUDED THEN c1
                  ELSE DownloadPriorityChanged(c1, new, f, EXCLUDED, fprio[f])
  <2>1. /\ fprio' = new
        /\ \/ /\ SaveIndexFile(c, new)
              /\ cm' = ChunksLeft([c EXCEPT !.recalc_chunks_left = TRUE])
           \/ SaveIndexFileFails(c, new) /\ cm' = c
        /\ phase' = phase /\ ~during_load
    BY <1>10 DEF DndMissingFiles, DndSaved, DndUnsaved, DndRecord
  <2>2. RecordInv(c1, fprio)
    BY <1>0, <2>1, ResetInv, FileChunksInChunk
  <2> HIDE DEF c1
  <2>3. RecordInv(c, new)
    <3>1. CASE fprio[f] = EXCLUDED
      <4>1. new = fprio
        BY <1>c, <3>1
      <4> QED BY <2>2, <3>1, <4>1
    <3>2. CASE fprio[f] # EXCLUDED
      <4>1. c = StopDownloading(c1, new, f)
        BY <3>2 DEF DownloadPriorityChanged
      <4> QED BY <1>c, <2>2, <3>2, <4>1, ExcludeFile
    <3> QED BY <3>1, <3>2
  <2> HIDE DEF c, new
  <2> QED BY <1>8, <2>1, <2>3
<1>11. CASE Restart
  <2>1. (during_load)'
    BY <1>11, SizesAssumption DEF Restart, during_load, Running
  <2> QED BY <1>11, <2>1, FreshConsistent DEF Restart
<1>12. CASE LoadPriorityInfo
  <2>1. phase \in File /\ during_load /\ (during_load)'
    BY <1>c, <1>12, SizesAssumption DEF LoadPriorityInfo, File, Running, during_load
  <2>2. CASE file_priority[phase] = NORMAL_PRIORITY
    BY <1>0, <1>12, <2>1, <2>2 DEF LoadPriorityInfo, RecordInv, LoadedNothing
  <2>3. CASE file_priority[phase] # NORMAL_PRIORITY
    <3>1. /\ cm' = SetPriority(cm, fprio, phase, file_priority[phase])
          /\ fprio' = [fprio EXCEPT ![phase] = file_priority[phase]]
      BY <1>12, <2>3 DEF LoadPriorityInfo
    <3>2. file_priority[phase] \in FilePriority
      BY <1>c, <2>1
    <3>3. RecordInv(cm', fprio')
      BY <1>0, <1>c, <2>1, <3>1, <3>2, SetPriorityInv
    <3> QED BY <2>1, <3>3 DEF RecordInv, LoadedNothing
  <2> QED BY <2>2, <2>3
<1>13. CASE LoadIndexFile
  <2> DEFINE c == MarkDownloaded(cm, index_file)
  <2>1. /\ cm' = ChunksLeft(c) /\ phase' = Running /\ phase = NumFiles
        /\ UNCHANGED <<fprio, index_file>>
    BY <1>13 DEF LoadIndexFile
  <2>2. during_load /\ ~(during_load)'
    BY <2>1, SizesAssumption DEF during_load, Running
  <2>3. cm.on_disk = {}
    BY <1>0, <2>2 DEF RecordInv, LoadedNothing
  <2>4. /\ c \in ChunkRecord
        /\ Consistent(c, fprio)
        /\ c.on_disk \subseteq c.bitset
        /\ ~DiskErrors => c.bitset \subseteq c.on_disk
        /\ c.on_disk = cm.on_disk \cup index_file
    BY <1>0, <1>c, MarkDownloadedInv
  <2> HIDE DEF c
  <2>5. SameChunks(cm', c)
    BY <2>1, <2>4, ChunksLeftFields
  <2>6. /\ Consistent(cm', fprio)
        /\ cm'.on_disk \subseteq cm'.bitset
        /\ ~DiskErrors => cm'.bitset \subseteq cm'.on_disk
        /\ cm'.on_disk = c.on_disk
    BY <2>4, <2>5, SameChunksInv DEF SameChunks
  <2> QED BY <2>1, <2>2, <2>3, <2>4, <2>6
<1>14. CASE UNCHANGED vars
  BY <1>0, <1>b, <1>d, <1>14 DEF vars, RecordInv, LoadedNothing
<1> HIDE DEF Good
<1> QED BY <1>1, <1>2, <1>3, <1>4, <1>5, <1>6, <1>7, <1>9, <1>10, <1>11,
           <1>12, <1>13, <1>14 DEF Next

(* The inductive invariant implies the properties. *)
LEMMA InvProperties ==
    Inv => /\ ExcludedExact
           /\ TodoExact
           /\ OnDiskInBitset
           /\ ~DiskErrors => DownloadedIsRecorded
<1> SUFFICES ASSUME Inv PROVE /\ ExcludedExact
                              /\ TodoExact
                              /\ OnDiskInBitset
                              /\ ~DiskErrors => DownloadedIsRecorded
  OBVIOUS
<1>1. cm \in ChunkRecord /\ \A i \in Chunk : ChunkConsistent(cm, fprio, i)
  BY DEF Inv, RecordInv, Consistent
<1>2. cm.todo \subseteq Chunk /\ cm.excluded_chunks \subseteq Chunk
  BY <1>1 DEF ChunkRecord
<1>3. ExcludedExact
  BY <1>1, <1>2 DEF ExcludedExact, ChunkConsistent, AllExcluded
<1>4. TodoExact
  BY <1>1, <1>2 DEF TodoExact, ChunkConsistent, Wanted
<1>5. OnDiskInBitset /\ (~DiskErrors => DownloadedIsRecorded)
  BY DEF Inv, RecordInv, OnDiskInBitset, DownloadedIsRecorded
<1> QED BY <1>3, <1>4, <1>5

(* Excluding files never takes a chunk from a file that is still needed,   *)
(* and never leaves one that no file needs, for every torrent whose layout *)
(* has the two properties above.                                           *)
THEOREM ExcludedCorrect ==
    ASSUME PreviewFits, NoTwoChunkBorderFile
    PROVE  Spec => []ExcludedExact
BY InvInit, InvStep, InvProperties, PTL DEF Spec

(* What is left to do is what the files need and the bitset lacks. *)
THEOREM TodoCorrect ==
    ASSUME PreviewFits, NoTwoChunkBorderFile
    PROVE  Spec => []TodoExact
BY InvInit, InvStep, InvProperties, PTL DEF Spec

(* No chunk is uploaded that the bitset does not list, even when writing   *)
(* the index file fails.                                                   *)
THEOREM OnDiskCorrect ==
    ASSUME PreviewFits, NoTwoChunkBorderFile
    PROVE  Spec => []OnDiskInBitset
BY InvInit, InvStep, InvProperties, PTL DEF Spec

(* As long as the index file can be written, stopping at any moment loses  *)
(* no downloaded chunk.                                                    *)
THEOREM RecordedCorrect ==
    ASSUME PreviewFits, NoTwoChunkBorderFile, ~DiskErrors
    PROVE  Spec => []DownloadedIsRecorded
<1>1. Inv => DownloadedIsRecorded
  BY InvProperties
<1> QED BY <1>1, InvInit, InvStep, PTL DEF Spec

=============================================================================
