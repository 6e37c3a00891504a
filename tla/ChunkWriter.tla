----------------------------- MODULE ChunkWriter -----------------------------
(***************************************************************************)
(* The front end of ozawrite.Writer: AddEntry with deduplication and the   *)
(* dictionary-training buffer, the grouping of blobs into chunks           *)
(* (addToChunk), flushing them on the serial path or to the compression    *)
(* pipeline (flushChunk), and Close up to the chunk table.                 *)
(*                                                                         *)
(* Contents are sequences of bytes, so that offsets and sizes mean what    *)
(* they mean in the code.  A compressed chunk occupies one cell of the     *)
(* temp file.  The pipeline is what CompressPipeline is proved to          *)
(* implement, ChunkLog.  There is one caller: a call that has begun runs   *)
(* to its return before the next one.                                      *)
(***************************************************************************)
EXTENDS Naturals, Sequences, FiniteSets, Functions

CONSTANTS
  MimeGroup,            \* mimeGroup's values
  GroupRank,            \* their place in the order of the strings
  Byte,                 \* byte values
  Content,              \* contents after transformContent
  SmallEntryThreshold,  \* contents below this size have chunks of their own
  ChunkTargetSize,      \* a chunk of this many bytes is full
  TrainDict,            \* WriterOptions.TrainDict
  DictSamples,          \* WriterOptions.DictSamples
  CompressWorkers,      \* WriterOptions.CompressWorkers
  MaxEntries,           \* bound: AddEntry calls
  MaxFaults             \* bound: failed flushes

ASSUME WriterAssumption ==
  /\ GroupRank \in [MimeGroup -> Nat]
  /\ Content \subseteq Seq(Byte)
  /\ SmallEntryThreshold \in Nat
  /\ ChunkTargetSize \in Nat \ {0}
  /\ TrainDict \in BOOLEAN
  /\ DictSamples \in Nat \ {0}
  /\ CompressWorkers \in Nat \ {0}
  /\ MaxEntries \in Nat /\ MaxFaults \in Nat

VARIABLES
  pc,              \* where the calling goroutine is
  closed,          \* Writer.closed
  work,            \* entries on their way into a chunk
  entries,         \* Writer.entries
  dedup,           \* the dedup map, keyed by content: hashes do not collide
  trained,         \* dictTrained
  pendingEntries,  \* entries that wait for the dictionaries
  openChunks,      \* the chunk builders in the open-chunk map
  nextChunk,       \* next chunk ID to assign
  inFlight,        \* the jobs sent to the pipeline and not yet in the file
  broken,          \* the pipeline has met an error
  tmp,             \* the temp file, one cell per write
  chunkOff,        \* offset for the next chunk descriptor
  chunkDescs,      \* descriptors of the written chunks
  pipelineErr,     \* Writer.pipelineErr is set
  reported,        \* history: some AddEntry has returned an error
  skipped,         \* history: chunks Close has not flushed
  faults,          \* history: flushes that failed on the serial path
  lost,            \* history: the chunks they were of
  closeResult      \* what Close has returned

callVars == <<pc, closed, work>>
entryVars == <<entries, trained, pendingEntries>>
chunkVars == <<dedup, openChunks, nextChunk>>
fileVars == <<inFlight, broken, tmp, chunkOff, chunkDescs, faults, lost>>
outcomeVars == <<pipelineErr, reported, skipped, closeResult>>
vars == <<callVars, entryVars, chunkVars, fileVars, outcomeVars>>

(* startPipeline is called once, when the dictionaries have been trained: *)
(* without training all chunks are written on the serial path.            *)
Pipelined == TrainDict /\ CompressWorkers > 1

Ref == [chunkID : Nat, blobOffset : Nat, blobSize : Nat]
Entry == [mime : MimeGroup, content : Content, ref : Ref]
Key == [group : MimeGroup, small : BOOLEAN]
ChunkBuilder ==
  [key : Key, id : Nat, data : Seq(Byte), uncompSize : Nat]

(* What an entry holds until addToChunk or the dedup map fills it in.       *)
ZeroRef == [chunkID |-> 0, blobOffset |-> 0, blobSize |-> 0]

(* The chunk key of an entry: its MIME group and, but for images, its size *)
(* bucket.                                                                 *)
ChunkKey(e) ==
  [group |-> e.mime,
   small |-> e.mime # "image" /\ Len(e.content) < SmallEntryThreshold]

KeyLess(k, l) ==
  \/ GroupRank[k.group] < GroupRank[l.group]
  \/ k.group = l.group /\ ~k.small /\ l.small

TypeOK ==
  /\ pc \in {"idle", "adding", "training", "closing", "done"}
  /\ closed \in BOOLEAN
  /\ work \subseteq DOMAIN entries
  /\ entries \in Seq(Entry) /\ Len(entries) <= MaxEntries
  /\ DOMAIN dedup \subseteq Content /\ Range(dedup) \subseteq Ref
  /\ trained \in BOOLEAN
  /\ pendingEntries \subseteq DOMAIN entries
  /\ openChunks \subseteq ChunkBuilder
  /\ nextChunk \in Nat
  /\ inFlight \subseteq [id : Nat, data : Seq(Byte)]
  /\ broken \in BOOLEAN
  /\ tmp \in Seq([whole : BOOLEAN, data : Seq(Byte)])
  /\ chunkOff \in Nat
  /\ chunkDescs \in Seq([id : Nat, off : Nat])
  /\ pipelineErr \in BOOLEAN
  /\ reported \in BOOLEAN
  /\ skipped \subseteq Nat
  /\ faults \in 0 .. MaxFaults /\ lost \subseteq Nat
  /\ closeResult \in {"none", "nil", "error"}

Init ==
  /\ pc = "idle" /\ closed = FALSE /\ work = {}
  /\ entries = <<>> /\ dedup = [c \in {} |-> ZeroRef]
  /\ trained = ~TrainDict /\ pendingEntries = {}
  /\ openChunks = {} /\ nextChunk = 0
  /\ inFlight = {} /\ broken = FALSE
  /\ tmp = <<>> /\ chunkOff = 0 /\ chunkDescs = <<>>
  /\ pipelineErr = FALSE /\ reported = FALSE /\ skipped = {} /\ faults = 0 /\ lost = {}
  /\ closeResult = "none"

-----------------------------------------------------------------------------
(* AddEntry.                                                               *)

AppendEntry(m, c, ref) ==
  entries' = Append(entries, [mime |-> m, content |-> c, ref |-> ref])

(* trainAndFlushPending moves the buffered entries S on to their chunks.    *)
Train(S) ==
  /\ trained' = TRUE
  /\ pendingEntries' = {}
  /\ work' = S

(* haveSufficientSamples; at most DictSamples samples are kept per key.     *)
SufficientSamples(S) ==
  \/ Cardinality({i \in S : entries'[i].mime = "html"}) >= DictSamples
  \/ Cardinality(S) >= 2 * DictSamples

(* The content is known: the entry shares the stored blob. *)
AddDuplicate(m, c) ==
  /\ c \in DOMAIN dedup
  /\ AppendEntry(m, c, dedup[c])
  /\ UNCHANGED <<callVars, trained, pendingEntries>>

(* The content is new; until dictionaries are trained the entry waits. *)
AddBuffered(m, c) ==
  /\ c \notin DOMAIN dedup
  /\ ~trained
  /\ AppendEntry(m, c, ZeroRef)
  /\ LET S == pendingEntries \union {Len(entries) + 1}
     IN  IF SufficientSamples(S)
           THEN Train(S) /\ pc' = "training"
           ELSE pendingEntries' = S /\ UNCHANGED <<pc, work, trained>>
  /\ UNCHANGED closed

(* Mutant: the entry is looked up past the end of the entries.              *)
MutAddPastEnd(m, c) ==
  /\ c \notin DOMAIN dedup
  /\ trained
  /\ AppendEntry(m, c, ZeroRef)
  /\ work' = {Len(entries) + 2}
  /\ pc' = "adding"
  /\ UNCHANGED <<closed, trained, pendingEntries>>

AddDirect(m, c) ==
  /\ c \notin DOMAIN dedup
  /\ trained
  /\ AppendEntry(m, c, ZeroRef)
  /\ work' = {Len(entries) + 1}
  /\ pc' = "adding"
  /\ UNCHANGED <<closed, trained, pendingEntries>>

AddEntry(m, c) ==
  /\ pc = "idle"
  /\ Len(entries) < MaxEntries
  /\ AddDuplicate(m, c) \/ AddBuffered(m, c) \/ AddDirect(m, c)
  /\ UNCHANGED <<chunkVars, fileVars, outcomeVars>>

-----------------------------------------------------------------------------
(* flushChunk: the chunk goes to the pipeline, or compressed to the file.  *)

Store(cb) ==
  IF Pipelined
    THEN /\ inFlight' = inFlight \union {[id |-> cb.id, data |-> cb.data]}
         /\ UNCHANGED <<tmp, chunkOff, chunkDescs, broken, faults, lost>>
    ELSE /\ tmp' = Append(tmp, [whole |-> TRUE, data |-> cb.data])
         /\ chunkDescs' = Append(chunkDescs, [id |-> cb.id, off |-> chunkOff])
         /\ chunkOff' = chunkOff + 1
         /\ UNCHANGED <<inFlight, broken, faults, lost>>

(* A write that fails leaves nothing in the file, or a part of the chunk.   *)
TornWrite ==
  \/ UNCHANGED tmp
  \/ tmp' = Append(tmp, [whole |-> FALSE, data |-> <<>>])

StoreFails(cb) ==
  /\ ~Pipelined
  /\ faults < MaxFaults
  /\ faults' = faults + 1 /\ lost' = lost \union {cb.id}
  /\ TornWrite
  /\ UNCHANGED <<inFlight, broken, chunkOff, chunkDescs>>

(* Mutant: the emptied chunk is used again from its start.                  *)
MutEmptied(cb) == [cb EXCEPT !.data = <<>>, !.uncompSize = 0]

(* flushChunk drops the blobs first: a chunk it could not store stays open, *)
(* without data and still full.                                             *)
Emptied(cb) == [cb EXCEPT !.data = <<>>]

-----------------------------------------------------------------------------
(* addToChunk, for an entry that AddEntry or trainAndFlushPending hands it. *)

IsFull(cb) == cb.uncompSize >= ChunkTargetSize

(* The training flush sorts by chunk key, then by path. *)
IsNext(i) ==
  /\ i \in work
  /\ \A j \in work : ~KeyLess(ChunkKey(entries[j]), ChunkKey(entries[i]))

Returned == IF closed THEN "closing" ELSE "idle"

(* trainAndFlushPending keeps the error and drops the entries that are *)
(* left; AddEntry returns it.                                          *)
Abandon ==
  /\ work' = {}
  /\ pc' = Returned
  /\ pipelineErr' = (pipelineErr \/ pc = "training")
  /\ reported' = (reported \/ pc = "adding")
  /\ UNCHANGED <<closed, skipped, closeResult>>

(* A full chunk is still open because a flush has failed: try it again.     *)
FlushStale ==
  \E i \in work, cb \in openChunks :
    /\ IsNext(i)
    /\ cb.key = ChunkKey(entries[i]) /\ IsFull(cb)
    /\ \/ /\ Store(cb)
          /\ openChunks' = openChunks \ {cb}
          /\ UNCHANGED <<callVars, outcomeVars>>
       \/ /\ StoreFails(cb)
          /\ openChunks' = (openChunks \ {cb}) \union {Emptied(cb)}
          /\ Abandon
    /\ UNCHANGED <<entryVars, dedup, nextChunk>>

NewChunk(k) == [key |-> k, id |-> nextChunk, data |-> <<>>, uncompSize |-> 0]

AddBlob(cb, c) ==
  [key |-> cb.key, id |-> cb.id, data |-> cb.data \o c,
   uncompSize |-> cb.uncompSize + Len(c)]

(* Mutant: the blob is registered once its chunk is stored.                 *)
MutRegister(c, ref) ==
  IF faults' # faults THEN UNCHANGED dedup
  ELSE dedup' = [x \in DOMAIN dedup \union {c} |-> IF x = c THEN ref ELSE dedup[x]]

Register(c, ref) ==
  dedup' = [x \in DOMAIN dedup \union {c} |-> IF x = c THEN ref ELSE dedup[x]]

(* The entry's blob joins the chunk old; when that fills it, it is flushed. *)
PlaceIn(i, old) ==
  LET c == entries[i].content
      cb == AddBlob(old, c)
      ref == [chunkID |-> old.id, blobOffset |-> old.uncompSize,
              blobSize |-> Len(c)]
      others == openChunks \ {old}
  IN  /\ entries' = [entries EXCEPT ![i].ref = ref]
      /\ \/ /\ IsFull(cb) /\ StoreFails(cb)
            /\ openChunks' = others \union {Emptied(cb)}
            /\ Abandon
         \/ /\ IF IsFull(cb)
                 THEN Store(cb) /\ openChunks' = others
                 ELSE openChunks' = others \union {cb} /\ UNCHANGED fileVars
            /\ work' = work \ {i}
            /\ pc' = IF work = {i} THEN Returned ELSE pc
            /\ UNCHANGED <<closed, outcomeVars>>
      /\ Register(c, ref)
      /\ UNCHANGED <<trained, pendingEntries>>

PlaceBlob ==
  \E i \in work :
    /\ IsNext(i)
    /\ LET k == ChunkKey(entries[i])
       IN  \/ /\ \A cb \in openChunks : cb.key # k
              /\ PlaceIn(i, NewChunk(k))
              /\ nextChunk' = nextChunk + 1
           \/ \E cb \in openChunks :
                /\ cb.key = k /\ ~IsFull(cb)
                /\ PlaceIn(i, cb)
                /\ UNCHANGED nextChunk

-----------------------------------------------------------------------------
(* Close.                                                                  *)

(* Mutant: Close forgets the entries that wait for the dictionaries.        *)
MutCloseForgets ==
  /\ pc = "idle"
  /\ closed' = TRUE
  /\ trained' = TRUE /\ pendingEntries' = {} /\ work' = {}
  /\ pc' = "closing"
  /\ UNCHANGED <<entries, chunkVars, fileVars, outcomeVars>>

CloseBegin ==
  /\ pc = "idle"
  /\ closed' = TRUE
  /\ IF trained THEN UNCHANGED <<trained, pendingEntries, work>>
                ELSE Train(pendingEntries)
  /\ pc' = IF pendingEntries = {} THEN "closing" ELSE "training"
  /\ UNCHANGED <<entries, chunkVars, fileVars, outcomeVars>>

CloseFlush ==
  /\ pc = "closing"
  /\ \E cb \in openChunks :
       /\ cb.uncompSize > 0
       /\ \/ /\ Store(cb)
             /\ openChunks' = openChunks \ {cb}
             /\ UNCHANGED <<pc, closeResult>>
          \/ /\ StoreFails(cb)
             /\ openChunks' = (openChunks \ {cb}) \union {Emptied(cb)}
             /\ pc' = "done" /\ closeResult' = "error"
  /\ UNCHANGED <<closed, work, entryVars, dedup, nextChunk,
                 pipelineErr, reported, skipped>>

(* A chunk that holds nothing but empty blobs is dropped. *)
CloseSkip ==
  /\ pc = "closing"
  /\ \E cb \in openChunks :
       /\ cb.uncompSize = 0
       /\ openChunks' = openChunks \ {cb}
       /\ skipped' = skipped \union {cb.id}
  /\ UNCHANGED <<callVars, entryVars, dedup, nextChunk, fileVars,
                 pipelineErr, reported, closeResult>>

NextInLine == Len(chunkDescs) \in {job.id : job \in inFlight}

(* Mutant: Close goes on while chunks are in flight.                        *)
MutCloseAtOnce ==
  /\ pc = "closing"
  /\ openChunks = {}
  /\ closeResult' = IF broken THEN "error" ELSE "nil"
  /\ pc' = "done"
  /\ UNCHANGED <<closed, work, entryVars, chunkVars, fileVars,
                 pipelineErr, reported, skipped>>

(* The chunk table is complete; Close has waited for the pipeline. *)
CloseDrain ==
  /\ pc = "closing"
  /\ openChunks = {}
  /\ broken \/ ~NextInLine
  /\ closeResult' = IF broken THEN "error" ELSE "nil"
  /\ pc' = "done"
  /\ UNCHANGED <<closed, work, entryVars, chunkVars, fileVars,
                 pipelineErr, reported, skipped>>

-----------------------------------------------------------------------------
(* The pipeline: ChunkLog's AppendNext and Break.                          *)

PipelineWrite ==
  /\ pc # "done" /\ ~broken
  /\ \E job \in inFlight :
       /\ job.id = Len(chunkDescs)
       /\ inFlight' = inFlight \ {job}
       /\ tmp' = Append(tmp, [whole |-> TRUE, data |-> job.data])
       /\ chunkDescs' = Append(chunkDescs, [id |-> job.id, off |-> chunkOff])
       /\ chunkOff' = chunkOff + 1
  /\ UNCHANGED <<broken, faults, lost, callVars, entryVars, chunkVars, outcomeVars>>

PipelineBreak ==
  /\ pc # "done" /\ ~broken
  /\ inFlight # {}
  /\ broken' = TRUE
  /\ TornWrite
  /\ UNCHANGED <<inFlight, chunkOff, chunkDescs, faults, lost,
                 callVars, entryVars, chunkVars, outcomeVars>>

Terminated == pc = "done" /\ UNCHANGED vars

Next ==
  \/ \E m \in MimeGroup, c \in Content : AddEntry(m, c)
  \/ FlushStale
  \/ PlaceBlob
  \/ CloseBegin
  \/ CloseFlush
  \/ CloseSkip
  \/ CloseDrain
  \/ PipelineWrite
  \/ PipelineBreak
  \/ Terminated

Spec == Init /\ [][Next]_vars
-----------------------------------------------------------------------------
(* The reader, oza.Archive: it opens the archive only if the chunk table, *)
(* which Close sorts, holds the IDs 0, 1, 2, ...; and readBlob cuts the   *)
(* blob out of the chunk.                                                 *)
Opens == {d.id : d \in Range(chunkDescs)} = 0 .. Len(chunkDescs) - 1

Reads(e) ==
  \E d \in Range(chunkDescs) :
    /\ d.id = e.ref.chunkID
    /\ tmp[d.off + 1].whole
    /\ LET data == tmp[d.off + 1].data
           end == e.ref.blobOffset + e.ref.blobSize
       IN  /\ end <= Len(data)
           /\ SubSeq(data, e.ref.blobOffset + 1, end) = e.content

(* readBlob refuses a blob that ends behind its chunk. *)
Refused(e) ==
  \A d \in Range(chunkDescs) :
    d.id = e.ref.chunkID => e.ref.blobOffset + e.ref.blobSize > Len(tmp[d.off + 1].data)

(* The flush that failed has kept addToChunk from this entry, which reads   *)
(* as an empty one: AddEntry has told, or pipelineErr.                      *)
Dropped(e) ==
  /\ pipelineErr \/ reported
  /\ e.content # <<>> /\ e.ref = ZeroRef

TornTmp == \E k \in DOMAIN tmp : ~tmp[k].whole

(* When Close returns nil, after flushes that failed and were tried again   *)
(* too, the archive opens, the CONTENT section is as long as its            *)
(* descriptors say, and every entry reads back the content it was added     *)
(* with, deduplicated or not, whichever chunk and path it took; or the      *)
(* reader refuses it, as the flush that failed was of its chunk and has     *)
(* emptied it; or the flush that failed was in its way to a chunk, as       *)
(* AddEntry or pipelineErr has told.  No entry reads the bytes of another.  *)
(* Two things are left out: a chunk of empty blobs that Close has skipped,  *)
(* and a failed write that has left a part of a chunk in the temp file,     *)
(* which ArchiveFile is about.                                              *)
Readback ==
  closeResult = "nil" /\ skipped = {} /\ ~TornTmp =>
    /\ Opens
    /\ chunkOff = Len(tmp)
    /\ \A i \in DOMAIN entries :
         \/ Reads(entries[i])
         \/ entries[i].ref.chunkID \in lost /\ Refused(entries[i])
         \/ Dropped(entries[i])

(* At any time, whatever flushes have failed, entries of equal content that *)
(* have been placed share one blob: also with a blob that was lost, for     *)
(* which the AddEntry of the later one returns nil.  This is for a writer   *)
(* that trains no dictionaries: while entries wait for the dictionaries     *)
(* their contents are not in the dedup map yet, and equal ones among them   *)
(* are stored twice.                                                        *)
StoredOnce ==
  \A i, j \in DOMAIN entries :
    entries[i].content = entries[j].content =>
      \/ ZeroRef \in {entries[i].ref, entries[j].ref}
      \/ entries[i].ref = entries[j].ref

(* The writer uses the pipeline as ChunkLog says, and relies on no more.    *)
Log == INSTANCE ChunkLog WITH
         Chunk <- 0 .. MaxEntries - 1,
         submitted <- {job.id : job \in inFlight}
                        \union {d.id : d \in Range(chunkDescs)},
         log <- [i \in DOMAIN chunkDescs |-> chunkDescs[i].id],
         broken <- broken,
         verdict <- CASE closeResult = "none" -> "none"
                      [] closeResult = "nil" -> "ok"
                      [] closeResult = "error" -> "error"

UsesLog == Log!Spec
=============================================================================
