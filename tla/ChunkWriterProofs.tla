-------------------------- MODULE ChunkWriterProofs --------------------------
(***************************************************************************)
(* Proofs about ChunkWriter, for every set of contents and MIME groups,    *)
(* every chunk size, with and without training and the pipeline, and for   *)
(* every number of entries and of failed writes.                           *)
(***************************************************************************)
EXTENDS ChunkWriter, FiniteSetTheorems, TLAPS

(* Facts about sequences that the steps below use. *)
LEMMA SeqAppend ==
  ASSUME NEW S, NEW s \in Seq(S), NEW e \in S
  PROVE  /\ Append(s, e) \in Seq(S)
         /\ Len(Append(s, e)) = Len(s) + 1
         /\ DOMAIN s = 1 .. Len(s)
         /\ DOMAIN Append(s, e) = 1 .. Len(s) + 1
         /\ \A i \in 1 .. Len(s) : Append(s, e)[i] = s[i]
         /\ Append(s, e)[Len(s) + 1] = e
OBVIOUS

LEMMA SeqElement ==
  ASSUME NEW S, NEW s \in Seq(S), NEW i \in DOMAIN s
  PROVE  s[i] \in S
OBVIOUS

LEMMA SeqConcat ==
  ASSUME NEW S, NEW s \in Seq(S), NEW t \in Seq(S)
  PROVE  /\ s \o t \in Seq(S)
         /\ Len(s \o t) = Len(s) + Len(t)
         /\ \A i \in 1 .. Len(s) : (s \o t)[i] = s[i]
         /\ \A i \in 1 .. Len(t) : (s \o t)[Len(s) + i] = t[i]
OBVIOUS

(* Changing the ref of one entry leaves a sequence of entries. *)
LEMMA SetRef ==
  ASSUME NEW es \in Seq(Entry), NEW i \in DOMAIN es, NEW ref \in Ref
  PROVE  LET es2 == [es EXCEPT ![i].ref = ref]
         IN  /\ es2 \in Seq(Entry)
             /\ Len(es2) = Len(es)
             /\ DOMAIN es2 = DOMAIN es
             /\ \A j \in DOMAIN es : j # i => es2[j] = es[j]
             /\ es2[i].ref = ref
             /\ es2[i].content = es[i].content
<1> DEFINE es2 == [es EXCEPT ![i].ref = ref]
<1>1. /\ Len(es) \in Nat
      /\ DOMAIN es = 1 .. Len(es)
      /\ \A j \in 1 .. Len(es) : es[j] \in Entry
  OBVIOUS
<1>2. /\ DOMAIN es2 = 1 .. Len(es)
      /\ es2 = [j \in 1 .. Len(es) |-> IF j = i THEN [es[i] EXCEPT !.ref = ref] ELSE es[j]]
  BY <1>1
<1>3. [es[i] EXCEPT !.ref = ref] \in Entry
  BY <1>1 DEF Entry
<1>4. \A j \in 1 .. Len(es) : es2[j] \in Entry
  BY <1>1, <1>2, <1>3
<1>5. es2 \in Seq(Entry) /\ Len(es2) = Len(es)
  BY <1>1, <1>2, <1>4, SMTT(30)
<1>6. /\ \A j \in DOMAIN es : j # i => es2[j] = es[j]
      /\ es2[i].ref = ref
      /\ es2[i].content = es[i].content
  BY <1>1, <1>2 DEF Entry
<1>7. QED  BY <1>1, <1>2, <1>5, <1>6

(* Every builder, job and cell is well formed after the steps of flushChunk. *)
LEMMA StoreType ==
  ASSUME TypeOK, NEW cb \in ChunkBuilder, Store(cb)
  PROVE  /\ inFlight' \subseteq [id : Nat, data : Seq(Byte)]
         /\ broken' \in BOOLEAN
         /\ tmp' \in Seq([whole : BOOLEAN, data : Seq(Byte)])
         /\ chunkOff' \in Nat
         /\ chunkDescs' \in Seq([id : Nat, off : Nat])
         /\ faults' \in 0 .. MaxFaults /\ lost' \subseteq Nat
<1>1. cb.id \in Nat /\ cb.data \in Seq(Byte)
  BY DEF ChunkBuilder
<1>2. CASE Pipelined
  <2>1. /\ inFlight' = inFlight \union {[id |-> cb.id, data |-> cb.data]}
        /\ UNCHANGED <<tmp, chunkOff, chunkDescs, broken, faults, lost>>
    BY <1>2 DEF Store
  <2>2. inFlight' \subseteq [id : Nat, data : Seq(Byte)]
    BY <1>1, <2>1 DEF TypeOK
  <2>3. QED  BY <2>1, <2>2 DEF TypeOK
<1>3. CASE ~Pipelined
  <2> DEFINE cell == [whole |-> TRUE, data |-> cb.data]
             desc == [id |-> cb.id, off |-> chunkOff]
  <2>1. /\ cell \in [whole : BOOLEAN, data : Seq(Byte)]
        /\ desc \in [id : Nat, off : Nat]
    BY <1>1 DEF TypeOK
  <2>2. /\ tmp \in Seq([whole : BOOLEAN, data : Seq(Byte)])
        /\ chunkDescs \in Seq([id : Nat, off : Nat])
        /\ chunkOff \in Nat /\ broken \in BOOLEAN
        /\ faults \in 0 .. MaxFaults /\ lost \subseteq Nat
        /\ inFlight \subseteq [id : Nat, data : Seq(Byte)]
    BY DEF TypeOK
  <2>3. /\ tmp' = Append(tmp, cell)
        /\ chunkDescs' = Append(chunkDescs, desc)
        /\ chunkOff' = chunkOff + 1
        /\ UNCHANGED <<inFlight, broken, faults, lost>>
    BY <1>3 DEF Store
  <2>4. /\ tmp' \in Seq([whole : BOOLEAN, data : Seq(Byte)])
        /\ chunkDescs' \in Seq([id : Nat, off : Nat])
    BY <2>1, <2>2, <2>3, SeqAppend
  <2>5. QED  BY <2>2, <2>3, <2>4
<1>4. QED  BY <1>2, <1>3

LEMMA TornType ==
  ASSUME TypeOK, TornWrite
  PROVE  tmp' \in Seq([whole : BOOLEAN, data : Seq(Byte)])
<1> DEFINE cell == [whole |-> FALSE, data |-> <<>>]
<1>1. cell \in [whole : BOOLEAN, data : Seq(Byte)]
  OBVIOUS
<1>2. tmp \in Seq([whole : BOOLEAN, data : Seq(Byte)])
  BY DEF TypeOK
<1>3. tmp' = tmp \/ tmp' = Append(tmp, cell)
  BY DEF TornWrite
<1>4. Append(tmp, cell) \in Seq([whole : BOOLEAN, data : Seq(Byte)])
  BY <1>1, <1>2, SeqAppend
<1>5. QED  BY <1>2, <1>3, <1>4

LEMMA StoreFailsType ==
  ASSUME TypeOK, NEW cb \in ChunkBuilder, StoreFails(cb)
  PROVE  /\ inFlight' \subseteq [id : Nat, data : Seq(Byte)]
         /\ broken' \in BOOLEAN
         /\ tmp' \in Seq([whole : BOOLEAN, data : Seq(Byte)])
         /\ chunkOff' \in Nat
         /\ chunkDescs' \in Seq([id : Nat, off : Nat])
         /\ faults' \in 0 .. MaxFaults /\ lost' \subseteq Nat
<1>1. TornWrite
  BY DEF StoreFails
<1>2. tmp' \in Seq([whole : BOOLEAN, data : Seq(Byte)])
  BY <1>1, TornType
<1>3. /\ inFlight' = inFlight /\ broken' = broken
      /\ chunkOff' = chunkOff /\ chunkDescs' = chunkDescs
      /\ faults < MaxFaults /\ faults' = faults + 1 /\ lost' = lost \union {cb.id}
  BY DEF StoreFails
<1>4. MaxFaults \in Nat /\ faults \in 0 .. MaxFaults
  BY WriterAssumption DEF WriterAssumption, TypeOK
<1>5. faults' \in 0 .. MaxFaults
  BY <1>3, <1>4
<1>6. /\ inFlight \subseteq [id : Nat, data : Seq(Byte)] /\ broken \in BOOLEAN
      /\ chunkOff \in Nat /\ chunkDescs \in Seq([id : Nat, off : Nat])
      /\ lost \subseteq Nat /\ cb.id \in Nat
  BY DEF TypeOK, ChunkBuilder
<1>7. QED  BY <1>2, <1>3, <1>5, <1>6

LEMMA EmptiedType ==
  ASSUME NEW cb \in ChunkBuilder
  PROVE  Emptied(cb) \in ChunkBuilder /\ Emptied(cb).id = cb.id
<1>1. <<>> \in Seq(Byte)
  OBVIOUS
<1>2. QED  BY <1>1 DEF Emptied, ChunkBuilder

(* A blob extends the chunk it joins. *)
LEMMA AddBlobType ==
  ASSUME NEW cb \in ChunkBuilder, NEW c \in Seq(Byte)
  PROVE  /\ AddBlob(cb, c) \in ChunkBuilder
         /\ AddBlob(cb, c).id = cb.id
         /\ AddBlob(cb, c).data = cb.data \o c
         /\ AddBlob(cb, c).uncompSize = cb.uncompSize + Len(c)
         /\ Len(cb.data) = cb.uncompSize
              => Len(AddBlob(cb, c).data) = AddBlob(cb, c).uncompSize
<1>0. Len(cb.data \o c) = Len(cb.data) + Len(c)
  BY SeqConcat DEF ChunkBuilder
<1>1. cb.data \o c \in Seq(Byte) /\ Len(c) \in Nat
  BY DEF ChunkBuilder
<1>2. QED  BY <1>0, <1>1 DEF AddBlob, ChunkBuilder

-----------------------------------------------------------------------------
LEMMA KeyType ==
  ASSUME NEW e \in Entry
  PROVE  ChunkKey(e) \in Key
  BY DEF Entry, ChunkKey, Key

LEMMA NewChunkType ==
  ASSUME NEW k \in Key, nextChunk \in Nat
  PROVE  NewChunk(k) \in ChunkBuilder
<1>1. <<>> \in Seq(Byte)
  OBVIOUS
<1>2. QED  BY <1>1 DEF NewChunk, ChunkBuilder

LEMMA PlaceInType ==
  ASSUME TypeOK, pc \in {"adding", "training"}, nextChunk' \in Nat,
         NEW i \in work, NEW old \in ChunkBuilder, PlaceIn(i, old)
  PROVE  TypeOK'
<1> DEFINE c == entries[i].content
           cb == AddBlob(old, c)
           ref == [chunkID |-> old.id, blobOffset |-> old.uncompSize,
                   blobSize |-> Len(c)]
           others == openChunks \ {old}
<1>1. /\ i \in DOMAIN entries /\ entries \in Seq(Entry)
      /\ Len(entries) <= MaxEntries
  BY DEF TypeOK
<1>2. entries[i] \in Entry
  BY <1>1
<1>3. c \in Content /\ c \in Seq(Byte) /\ Len(c) \in Nat
  BY <1>2, WriterAssumption DEF Entry, WriterAssumption
<1>4. ref \in Ref
  BY <1>3 DEF Ref, ChunkBuilder
<1>5. /\ entries' \in Seq(Entry) /\ Len(entries') = Len(entries)
      /\ DOMAIN entries' = DOMAIN entries
  <2>1. entries' = [entries EXCEPT ![i].ref = ref]
    BY DEF PlaceIn
  <2>2. QED  BY <1>1, <1>4, <2>1, SetRef
<1>6. DOMAIN dedup' \subseteq Content /\ Range(dedup') \subseteq Ref
  <2>1. dedup' = [x \in DOMAIN dedup \union {c} |-> IF x = c THEN ref ELSE dedup[x]]
    BY DEF PlaceIn, Register
  <2>2. DOMAIN dedup \subseteq Content /\ Range(dedup) \subseteq Ref
    BY DEF TypeOK
  <2>3. DOMAIN dedup' = DOMAIN dedup \union {c}
    BY <2>1
  <2>4. \A x \in DOMAIN dedup' : dedup'[x] \in Ref
    BY <1>4, <2>1, <2>2 DEF Range
  <2>5. QED  BY <1>3, <2>2, <2>3, <2>4 DEF Range
<1>7. cb \in ChunkBuilder /\ Emptied(cb) \in ChunkBuilder
  BY <1>3, AddBlobType, EmptiedType
<1>8. others \subseteq ChunkBuilder
  BY DEF TypeOK
<1>9. /\ closed \in BOOLEAN /\ trained \in BOOLEAN /\ pendingEntries \subseteq DOMAIN entries
      /\ pipelineErr \in BOOLEAN /\ reported \in BOOLEAN /\ skipped \subseteq Nat
      /\ closeResult \in {"none", "nil", "error"} /\ work \subseteq DOMAIN entries
  BY DEF TypeOK
<1>10. UNCHANGED <<trained, pendingEntries>>
  BY DEF PlaceIn
<1>11. CASE /\ StoreFails(cb)
            /\ openChunks' = others \union {Emptied(cb)}
            /\ Abandon
  <2>1. openChunks' \subseteq ChunkBuilder
    BY <1>7, <1>8, <1>11
  <2>2. /\ pc' \in {"idle", "closing"} /\ work' = {}
        /\ UNCHANGED <<closed, skipped, closeResult>>
        /\ pipelineErr' \in BOOLEAN /\ reported' \in BOOLEAN
    BY <1>11 DEF Abandon, Returned
  <2>3. /\ inFlight' \subseteq [id : Nat, data : Seq(Byte)]
        /\ broken' \in BOOLEAN
        /\ tmp' \in Seq([whole : BOOLEAN, data : Seq(Byte)])
        /\ chunkOff' \in Nat
        /\ chunkDescs' \in Seq([id : Nat, off : Nat])
        /\ faults' \in 0 .. MaxFaults /\ lost' \subseteq Nat
    BY <1>7, <1>11, StoreFailsType
  <2> HIDE DEF cb, ref, others, c
  <2>4. QED
    BY <1>1, <1>5, <1>6, <1>9, <1>10, <2>1, <2>2, <2>3 DEF TypeOK
<1>12. CASE /\ IF IsFull(cb)
                 THEN Store(cb) /\ openChunks' = others
                 ELSE openChunks' = others \union {cb} /\ UNCHANGED fileVars
            /\ work' = work \ {i}
            /\ pc' = IF work = {i} THEN Returned ELSE pc
            /\ UNCHANGED <<closed, outcomeVars>>
  <2>1. openChunks' \subseteq ChunkBuilder
    BY <1>7, <1>8, <1>12
  <2>2. /\ pc' \in {"idle", "closing", "adding", "training"}
        /\ work' \subseteq DOMAIN entries
        /\ UNCHANGED <<closed, skipped, closeResult, pipelineErr, reported>>
    BY <1>9, <1>12 DEF Returned, outcomeVars
  <2>3. /\ inFlight' \subseteq [id : Nat, data : Seq(Byte)]
        /\ broken' \in BOOLEAN
        /\ tmp' \in Seq([whole : BOOLEAN, data : Seq(Byte)])
        /\ chunkOff' \in Nat
        /\ chunkDescs' \in Seq([id : Nat, off : Nat])
        /\ faults' \in 0 .. MaxFaults /\ lost' \subseteq Nat
    <3>1. CASE IsFull(cb)
      BY <1>7, <1>12, <3>1, StoreType
    <3>2. CASE ~IsFull(cb)
      BY <1>12, <3>2 DEF TypeOK, fileVars
    <3>3. QED  BY <3>1, <3>2
  <2>4. QED
    BY <1>1, <1>5, <1>6, <1>9, <1>10, <2>1, <2>2, <2>3 DEF TypeOK
<1>13. QED  BY <1>11, <1>12 DEF PlaceIn

(* Placing and training go together, and nothing is left to place when a *)
(* call returns.                                                         *)
Placing == work # {} => pc \in {"adding", "training"}

LEMMA TypeCorrect == Spec => [](TypeOK /\ Placing)
<1>1. Init => TypeOK /\ Placing
  <2> SUFFICES ASSUME Init PROVE TypeOK /\ Placing
    OBVIOUS
  <2>1. /\ entries \in Seq(Entry) /\ Len(entries) <= MaxEntries
        /\ tmp \in Seq([whole : BOOLEAN, data : Seq(Byte)])
        /\ chunkDescs \in Seq([id : Nat, off : Nat])
    BY WriterAssumption DEF Init, WriterAssumption
  <2>2. DOMAIN dedup \subseteq Content /\ Range(dedup) \subseteq Ref
    BY DEF Init, Range
  <2>3. trained \in BOOLEAN /\ faults \in 0 .. MaxFaults
    BY WriterAssumption DEF Init, WriterAssumption
  <2>4. QED  BY <2>1, <2>2, <2>3 DEF Init, TypeOK, Placing
<1>2. TypeOK /\ Placing /\ [Next]_vars => (TypeOK /\ Placing)'
  <2> SUFFICES ASSUME TypeOK, Placing, [Next]_vars  PROVE (TypeOK /\ Placing)'
    OBVIOUS
  <2>0. /\ entries \in Seq(Entry) /\ Len(entries) \in Nat /\ DOMAIN entries = 1 .. Len(entries)
        /\ work \subseteq DOMAIN entries /\ pendingEntries \subseteq DOMAIN entries
        /\ openChunks \subseteq ChunkBuilder /\ nextChunk \in Nat
        /\ DOMAIN dedup \subseteq Content /\ Range(dedup) \subseteq Ref
    BY DEF TypeOK
  <2>1. ASSUME NEW m \in MimeGroup, NEW c \in Content, AddEntry(m, c)
        PROVE  (TypeOK /\ Placing)'
    <3>1. PICK ref \in Ref : AppendEntry(m, c, ref)
      <4>1. ZeroRef \in Ref
        BY DEF ZeroRef, Ref
      <4>2. c \in DOMAIN dedup => dedup[c] \in Ref
        BY <2>0 DEF Range
      <4>3. QED  BY <2>1, <4>1, <4>2 DEF AddEntry, AddDuplicate, AddBuffered, AddDirect
    <3>2. [mime |-> m, content |-> c, ref |-> ref] \in Entry
      BY DEF Entry
    <3>3. /\ entries' \in Seq(Entry) /\ Len(entries') = Len(entries) + 1
          /\ DOMAIN entries' = 1 .. Len(entries) + 1
      BY <2>0, <3>1, <3>2, SeqAppend DEF AppendEntry
    <3>4. DOMAIN entries \subseteq DOMAIN entries' /\ Len(entries) + 1 \in DOMAIN entries'
      BY <2>0, <3>3
    <3>5. Len(entries') <= MaxEntries
      BY <2>0, <2>1, <3>3, WriterAssumption DEF AddEntry, WriterAssumption
    <3>6. /\ pc' \in {"idle", "adding", "training"} /\ closed' = closed /\ trained' \in BOOLEAN
          /\ work' \subseteq DOMAIN entries' /\ pendingEntries' \subseteq DOMAIN entries'
          /\ Placing'
      BY <2>0, <2>1, <3>4
      DEF AddEntry, AddDuplicate, AddBuffered, AddDirect, callVars, Train, TypeOK, Placing
    <3>7. UNCHANGED <<chunkVars, fileVars, outcomeVars>>
      BY <2>1 DEF AddEntry
    <3>8. QED  BY <3>3, <3>5, <3>6, <3>7 DEF TypeOK, chunkVars, fileVars, outcomeVars
  <2>2. CASE FlushStale
    <3>1. PICK i \in work, cb \in openChunks :
            /\ \/ /\ Store(cb)
                  /\ openChunks' = openChunks \ {cb}
                  /\ UNCHANGED <<callVars, outcomeVars>>
               \/ /\ StoreFails(cb)
                  /\ openChunks' = (openChunks \ {cb}) \union {Emptied(cb)}
                  /\ Abandon
            /\ UNCHANGED <<entryVars, dedup, nextChunk>>
      BY <2>2 DEF FlushStale
    <3>2. cb \in ChunkBuilder /\ Emptied(cb) \in ChunkBuilder
      BY <2>0, EmptiedType
    <3>3. CASE /\ Store(cb)
               /\ openChunks' = openChunks \ {cb}
               /\ UNCHANGED <<callVars, outcomeVars>>
      <4>1. openChunks' \subseteq ChunkBuilder
        BY <2>0, <3>3
      <4>2. UNCHANGED <<callVars, outcomeVars, entryVars, dedup, nextChunk>>
        BY <3>1, <3>3
      <4>3. QED
        BY <3>2, <3>3, <4>1, <4>2, StoreType
        DEF TypeOK, Placing, callVars, outcomeVars, entryVars
    <3>4. CASE /\ StoreFails(cb)
               /\ openChunks' = (openChunks \ {cb}) \union {Emptied(cb)}
               /\ Abandon
      <4>1. openChunks' \subseteq ChunkBuilder
        BY <2>0, <3>2, <3>4
      <4>2. /\ pc' \in {"idle", "closing"} /\ work' = {}
            /\ UNCHANGED <<closed, skipped, closeResult>>
            /\ pipelineErr' \in BOOLEAN /\ reported' \in BOOLEAN
        BY <3>4 DEF Abandon, Returned, TypeOK
      <4>3. QED
        BY <3>1, <3>4, <4>1, <4>2, StoreFailsType DEF TypeOK, Placing, entryVars
    <3>5. QED  BY <3>1, <3>3, <3>4
  <2>3. CASE PlaceBlob
    <3>1. PICK i \in work :
            LET k == ChunkKey(entries[i])
            IN  \/ /\ PlaceIn(i, NewChunk(k))
                   /\ nextChunk' = nextChunk + 1
                \/ \E cb \in openChunks :
                     /\ PlaceIn(i, cb)
                     /\ UNCHANGED nextChunk
      BY <2>3 DEF PlaceBlob
    <3>2. pc \in {"adding", "training"}
      BY DEF Placing
    <3>3. NewChunk(ChunkKey(entries[i])) \in ChunkBuilder
      BY <2>0, KeyType, NewChunkType
    <3>4. PICK old \in ChunkBuilder : PlaceIn(i, old) /\ nextChunk' \in Nat
      BY <2>0, <3>1, <3>3
    <3>5. TypeOK'
      BY <3>2, <3>4, PlaceInType
    <3>6. Placing'
      BY <3>2, <3>4 DEF PlaceIn, Placing, Abandon, TypeOK
    <3>7. QED  BY <3>5, <3>6
  <2>4. CASE CloseBegin
    BY <2>4 DEF CloseBegin, Train, TypeOK, Placing, chunkVars, fileVars, outcomeVars
  <2>5. CASE CloseFlush
    <3>1. PICK cb \in openChunks :
            \/ /\ Store(cb)
               /\ openChunks' = openChunks \ {cb}
               /\ UNCHANGED <<pc, closeResult>>
            \/ /\ StoreFails(cb)
               /\ openChunks' = (openChunks \ {cb}) \union {Emptied(cb)}
               /\ pc' = "done" /\ closeResult' = "error"
      BY <2>5 DEF CloseFlush
    <3>2. cb \in ChunkBuilder /\ Emptied(cb) \in ChunkBuilder
      BY <2>0, EmptiedType
    <3>3. openChunks' \subseteq ChunkBuilder
      BY <2>0, <3>1, <3>2
    <3>4. /\ pc' \in {"closing", "done"} /\ closeResult' \in {"none", "nil", "error"}
          /\ UNCHANGED <<closed, work, entryVars, dedup, nextChunk,
                         pipelineErr, reported, skipped>>
      BY <2>5, <3>1 DEF CloseFlush, TypeOK
    <3>5. Store(cb) \/ StoreFails(cb)
      BY <3>1
    <3>6. work' = {}
      BY <2>5, <3>4 DEF CloseFlush, Placing
    <3>7. QED
      BY <3>2, <3>3, <3>4, <3>5, <3>6, StoreType, StoreFailsType DEF TypeOK, entryVars, Placing
  <2>6. CASE CloseSkip
    <3>1. openChunks' \subseteq ChunkBuilder /\ skipped' \subseteq Nat
      BY <2>0, <2>6 DEF CloseSkip, ChunkBuilder, TypeOK
    <3>2. QED  BY <2>6, <3>1 DEF CloseSkip, TypeOK, Placing, callVars, entryVars, fileVars
  <2>7. CASE CloseDrain
    BY <2>7 DEF CloseDrain, TypeOK, Placing, entryVars, chunkVars, fileVars
  <2>8. CASE PipelineWrite
    <3>1. PICK job \in inFlight :
            /\ inFlight' = inFlight \ {job}
            /\ tmp' = Append(tmp, [whole |-> TRUE, data |-> job.data])
            /\ chunkDescs' = Append(chunkDescs, [id |-> job.id, off |-> chunkOff])
            /\ chunkOff' = chunkOff + 1
      BY <2>8 DEF PipelineWrite
    <3> DEFINE cell == [whole |-> TRUE, data |-> job.data]
               desc == [id |-> job.id, off |-> chunkOff]
    <3>2. /\ job.id \in Nat /\ job.data \in Seq(Byte) /\ chunkOff \in Nat
          /\ tmp \in Seq([whole : BOOLEAN, data : Seq(Byte)])
          /\ chunkDescs \in Seq([id : Nat, off : Nat])
      BY DEF TypeOK
    <3>3. cell \in [whole : BOOLEAN, data : Seq(Byte)] /\ desc \in [id : Nat, off : Nat]
      BY <3>2
    <3>4. /\ Append(tmp, cell) \in Seq([whole : BOOLEAN, data : Seq(Byte)])
          /\ Append(chunkDescs, desc) \in Seq([id : Nat, off : Nat])
      BY <3>2, <3>3, SeqAppend
    <3>5. QED
      BY <2>8, <3>1, <3>2, <3>4
      DEF PipelineWrite, TypeOK, Placing, callVars, entryVars, chunkVars, outcomeVars
  <2>9. CASE PipelineBreak
    BY <2>9, TornType
    DEF PipelineBreak, TypeOK, Placing, callVars, entryVars, chunkVars, outcomeVars
  <2>10. CASE UNCHANGED vars
    BY <2>10 DEF vars, TypeOK, Placing, callVars, entryVars, chunkVars, fileVars, outcomeVars
  <2>11. QED
    BY <2>1, <2>2, <2>3, <2>4, <2>5, <2>6, <2>7, <2>8, <2>9, <2>10 DEF Next, Terminated
<1>3. QED  BY <1>1, <1>2, PTL DEF Spec

-----------------------------------------------------------------------------
(* Chunk IDs.  o, f, d, n and k stand for openChunks, inFlight, chunkDescs, *)
(* nextChunk and skipped: every ID below n has exactly one place.           *)
IdsOK(o, f, d, n, k) ==
  /\ \A a \in o : a.id \in 0 .. n - 1
  /\ \A j \in f : j.id \in 0 .. n - 1
  /\ \A i \in DOMAIN d : d[i].id \in 0 .. n - 1
  /\ \A a, b \in o : a.id = b.id => a = b
  /\ \A j, l \in f : j.id = l.id => j = l
  /\ \A i, j \in DOMAIN d : d[i].id = d[j].id => i = j
  /\ \A a \in o, j \in f : a.id # j.id
  /\ \A a \in o, i \in DOMAIN d : a.id # d[i].id
  /\ \A j \in f, i \in DOMAIN d : j.id # d[i].id
  /\ \A x \in 0 .. n - 1 :
       \/ x \in k
       \/ \E a \in o : a.id = x
       \/ \E j \in f : j.id = x
       \/ \E i \in DOMAIN d : d[i].id = x

LEMMA IdsNew ==
  ASSUME NEW o, NEW f, NEW d, NEW n \in Nat, NEW k, IdsOK(o, f, d, n, k),
         NEW cb, cb.id = n
  PROVE  IdsOK(o \union {cb}, f, d, n + 1, k)
<1>1. \A x \in 0 .. n : x = n \/ x \in 0 .. n - 1
  OBVIOUS
<1>2. \A x \in 0 .. n - 1 : x # n /\ x \in 0 .. (n + 1) - 1
  OBVIOUS
<1>3. n \in 0 .. (n + 1) - 1 /\ (n + 1) - 1 = n
  OBVIOUS
<1>4. QED  BY <1>1, <1>2, <1>3 DEF IdsOK

LEMMA IdsReplace ==
  ASSUME NEW o, NEW f, NEW d, NEW n \in Nat, NEW k, IdsOK(o, f, d, n, k),
         NEW old \in o, NEW cb, cb.id = old.id
  PROVE  IdsOK((o \ {old}) \union {cb}, f, d, n, k)
<1>1. \A a \in o : a # old => a.id # old.id
  BY DEF IdsOK
<1>2. QED  BY <1>1 DEF IdsOK

LEMMA IdsToPipeline ==
  ASSUME NEW o, NEW f, NEW d, NEW n \in Nat, NEW k, IdsOK(o, f, d, n, k),
         NEW old \in o, NEW job, job.id = old.id
  PROVE  IdsOK(o \ {old}, f \union {job}, d, n, k)
<1>1. \A a \in o : a # old => a.id # old.id
  BY DEF IdsOK
<1>2. QED  BY <1>1 DEF IdsOK

LEMMA IdsToFile ==
  ASSUME NEW o, NEW f, NEW D, NEW d \in Seq(D), NEW n \in Nat, NEW k,
         IdsOK(o, f, d, n, k), NEW old \in o, NEW desc \in D, desc.id = old.id
  PROVE  IdsOK(o \ {old}, f, Append(d, desc), n, k)
<1>1. \A a \in o : a # old => a.id # old.id
  BY DEF IdsOK
<1> DEFINE d2 == Append(d, desc)
<1>2. /\ DOMAIN d = 1 .. Len(d) /\ Len(d) \in Nat
      /\ DOMAIN d2 = 1 .. Len(d) + 1
      /\ \A i \in 1 .. Len(d) : d2[i] = d[i]
      /\ d2[Len(d) + 1] = desc
  BY SeqAppend
<1>3. \A i \in DOMAIN d2 : \/ i \in DOMAIN d /\ d2[i] = d[i]
                           \/ i = Len(d) + 1 /\ d2[i].id = old.id
  BY <1>2
<1>4. \A i \in DOMAIN d : i \in DOMAIN d2 /\ d2[i].id = d[i].id
  BY <1>2
<1>5. Len(d) + 1 \in DOMAIN d2 /\ d2[Len(d) + 1].id = old.id
  BY <1>2
<1>6. \A i \in DOMAIN d : d[i].id # old.id
  BY DEF IdsOK
<1> HIDE DEF d2
<1>7. \A a \in o \ {old}, i \in DOMAIN d2 : a.id # d2[i].id
  BY <1>1, <1>3 DEF IdsOK
<1>8. \A j \in f, i \in DOMAIN d2 : j.id # d2[i].id
  BY <1>3 DEF IdsOK
<1>9. /\ \A i \in DOMAIN d2 : d2[i].id \in 0 .. n - 1
      /\ \A i, j \in DOMAIN d2 : d2[i].id = d2[j].id => i = j
  BY <1>3, <1>6 DEF IdsOK
<1>10. \A x \in 0 .. n - 1 :
         \/ x \in k
         \/ \E a \in o \ {old} : a.id = x
         \/ \E j \in f : j.id = x
         \/ \E i \in DOMAIN d2 : d2[i].id = x
  <2> SUFFICES ASSUME NEW x \in 0 .. n - 1, x # old.id
               PROVE  \/ x \in k
                      \/ \E a \in o \ {old} : a.id = x
                      \/ \E j \in f : j.id = x
                      \/ \E i \in DOMAIN d2 : d2[i].id = x
    BY <1>5
  <2>1. \/ x \in k
        \/ \E a \in o : a.id = x
        \/ \E j \in f : j.id = x
        \/ \E i \in DOMAIN d : d[i].id = x
    BY DEF IdsOK
  <2>2. QED  BY <2>1, <1>4
<1>11. /\ \A a \in o \ {old} : a.id \in 0 .. n - 1
       /\ \A j \in f : j.id \in 0 .. n - 1
       /\ \A a, b \in o \ {old} : a.id = b.id => a = b
       /\ \A j, l \in f : j.id = l.id => j = l
       /\ \A a \in o \ {old}, j \in f : a.id # j.id
  BY DEF IdsOK
<1>12. IdsOK(o \ {old}, f, d2, n, k)
  BY <1>7, <1>8, <1>9, <1>10, <1>11 DEF IdsOK
<1>13. QED  BY <1>12 DEF d2

LEMMA IdsWrite ==
  ASSUME NEW o, NEW f, NEW D, NEW d \in Seq(D), NEW n \in Nat, NEW k,
         IdsOK(o, f, d, n, k), NEW job \in f, NEW desc \in D, desc.id = job.id
  PROVE  IdsOK(o, f \ {job}, Append(d, desc), n, k)
<1>1. \A j \in f : j # job => j.id # job.id
  BY DEF IdsOK
<1> DEFINE d2 == Append(d, desc)
           f2 == f \ {job}
<1>2. /\ DOMAIN d = 1 .. Len(d) /\ Len(d) \in Nat
      /\ DOMAIN d2 = 1 .. Len(d) + 1
      /\ \A i \in 1 .. Len(d) : d2[i] = d[i]
      /\ d2[Len(d) + 1] = desc
  BY SeqAppend
<1>3. \A i \in DOMAIN d2 : \/ i \in DOMAIN d /\ d2[i] = d[i]
                           \/ i = Len(d) + 1 /\ d2[i].id = job.id
  BY <1>2
<1>4. \A i \in DOMAIN d : i \in DOMAIN d2 /\ d2[i].id = d[i].id
  BY <1>2
<1>5. Len(d) + 1 \in DOMAIN d2 /\ d2[Len(d) + 1].id = job.id
  BY <1>2
<1>6. \A i \in DOMAIN d : d[i].id # job.id
  BY DEF IdsOK
<1>7. \A j : j \in f2 <=> j \in f /\ j # job
  OBVIOUS
<1> HIDE DEF d2, f2
<1>8. \A a \in o, i \in DOMAIN d2 : a.id # d2[i].id
  BY <1>3 DEF IdsOK
<1>9. \A j \in f2, i \in DOMAIN d2 : j.id # d2[i].id
  BY <1>1, <1>3, <1>7 DEF IdsOK
<1>10. \A i \in DOMAIN d2 : d2[i].id \in 0 .. n - 1
  BY <1>3 DEF IdsOK
<1>11. \A i, j \in DOMAIN d2 : d2[i].id = d2[j].id => i = j
  BY <1>3, <1>6 DEF IdsOK
<1>12. ASSUME NEW x \in 0 .. n - 1
       PROVE  \/ x \in k
              \/ \E a \in o : a.id = x
              \/ \E j \in f2 : j.id = x
              \/ \E i \in DOMAIN d2 : d2[i].id = x
  <2>1. CASE x = job.id
    BY <2>1, <1>5
  <2>2. CASE x # job.id
    <3>1. \/ x \in k
          \/ \E a \in o : a.id = x
          \/ \E j \in f : j.id = x
          \/ \E i \in DOMAIN d : d[i].id = x
      BY DEF IdsOK
    <3>2. QED  BY <2>2, <3>1, <1>4, <1>7
  <2>3. QED  BY <2>1, <2>2
<1>13. /\ \A a \in o : a.id \in 0 .. n - 1
       /\ \A j \in f2 : j.id \in 0 .. n - 1
       /\ \A a, b \in o : a.id = b.id => a = b
       /\ \A j, l \in f2 : j.id = l.id => j = l
       /\ \A a \in o, j \in f2 : a.id # j.id
  BY <1>7 DEF IdsOK
<1>14. IdsOK(o, f2, d2, n, k)
  BY <1>8, <1>9, <1>10, <1>11, <1>12, <1>13 DEF IdsOK
<1>15. QED  BY <1>14 DEF d2, f2

LEMMA IdsSkip ==
  ASSUME NEW o, NEW f, NEW d, NEW n \in Nat, NEW k, IdsOK(o, f, d, n, k),
         NEW old \in o
  PROVE  IdsOK(o \ {old}, f, d, n, k \union {old.id})
  BY DEF IdsOK

-----------------------------------------------------------------------------
(* The bytes of a blob.  Fits: the blob c lies in data where ref says.      *)
Fits(data, ref, c) ==
  /\ ref.blobSize = Len(c)
  /\ ref.blobOffset + Len(c) <= Len(data)
  /\ \A j \in 1 .. Len(c) : data[ref.blobOffset + j] = c[j]

(* Some place of chunk ref.chunkID holds the blob c; t stands for tmp. *)
HeldIn(o, f, d, t, ref, c) ==
  \/ \E a \in o : a.id = ref.chunkID /\ Fits(a.data, ref, c)
  \/ \E j \in f : j.id = ref.chunkID /\ Fits(j.data, ref, c)
  \/ \E i \in DOMAIN d : d[i].id = ref.chunkID /\ Fits(t[i].data, ref, c)

(* A blob stays where it is when its chunk grows... *)
LEMMA FitsLonger ==
  ASSUME NEW data \in Seq(Byte), NEW more \in Seq(Byte), NEW ref \in Ref,
         NEW c \in Seq(Byte), Fits(data, ref, c)
  PROVE  Fits(data \o more, ref, c)
<1>1. /\ Len(data \o more) = Len(data) + Len(more)
      /\ \A i \in 1 .. Len(data) : (data \o more)[i] = data[i]
  BY SeqConcat
<1>2. ref.blobOffset \in Nat /\ Len(c) \in Nat /\ Len(data) \in Nat /\ Len(more) \in Nat
  BY DEF Ref
<1>3. \A j \in 1 .. Len(c) : ref.blobOffset + j \in 1 .. Len(data)
  BY <1>2 DEF Fits
<1>4. QED  BY <1>1, <1>2, <1>3 DEF Fits

(* ... and a blob that is added lies at the old end. *)
LEMMA FitsNew ==
  ASSUME NEW data \in Seq(Byte), NEW c \in Seq(Byte), NEW ref \in Ref,
         ref.blobOffset = Len(data), ref.blobSize = Len(c)
  PROVE  Fits(data \o c, ref, c)
<1>1. /\ Len(data \o c) = Len(data) + Len(c)
      /\ \A i \in 1 .. Len(c) : (data \o c)[Len(data) + i] = c[i]
  BY SeqConcat
<1>2. Len(c) \in Nat /\ Len(data) \in Nat
  OBVIOUS
<1>3. QED  BY <1>1, <1>2 DEF Fits

LEMMA HeldNew ==
  ASSUME NEW o, NEW f, NEW d, NEW t, NEW ref, NEW c, HeldIn(o, f, d, t, ref, c), NEW cb
  PROVE  HeldIn(o \union {cb}, f, d, t, ref, c)
  BY DEF HeldIn

LEMMA HeldReplace ==
  ASSUME NEW o, NEW f, NEW d, NEW t, NEW ref, NEW c, HeldIn(o, f, d, t, ref, c),
         NEW old, NEW cb, cb.id = old.id,
         Fits(old.data, ref, c) => Fits(cb.data, ref, c)
  PROVE  HeldIn((o \ {old}) \union {cb}, f, d, t, ref, c)
  BY DEF HeldIn

LEMMA HeldToPipeline ==
  ASSUME NEW o, NEW f, NEW d, NEW t, NEW ref, NEW c, HeldIn(o, f, d, t, ref, c),
         NEW old, NEW job, job.id = old.id,
         Fits(old.data, ref, c) => Fits(job.data, ref, c)
  PROVE  HeldIn(o \ {old}, f \union {job}, d, t, ref, c)
  BY DEF HeldIn

(* What appending a chunk to the file means for d and t. *)
LEMMA FileAppend ==
  ASSUME NEW D, NEW d \in Seq(D), NEW desc \in D, NEW T, NEW t \in Seq(T), NEW cell \in T,
         Len(t) = Len(d)
  PROVE  /\ Len(Append(d, desc)) = Len(d) + 1 /\ Len(Append(t, cell)) = Len(d) + 1
         /\ DOMAIN d = 1 .. Len(d) /\ DOMAIN Append(d, desc) = 1 .. Len(d) + 1
         /\ \A i \in DOMAIN d : /\ i \in DOMAIN Append(d, desc)
                                /\ Append(d, desc)[i] = d[i] /\ Append(t, cell)[i] = t[i]
         /\ Len(d) + 1 \in DOMAIN Append(d, desc)
         /\ Append(d, desc)[Len(d) + 1] = desc /\ Append(t, cell)[Len(d) + 1] = cell
         /\ \A i \in DOMAIN Append(d, desc) : i \in DOMAIN d \/ i = Len(d) + 1
  BY SeqAppend

LEMMA HeldToFile ==
  ASSUME NEW o, NEW f, NEW D, NEW d \in Seq(D), NEW T, NEW t \in Seq(T), Len(t) = Len(d),
         NEW ref, NEW c, HeldIn(o, f, d, t, ref, c),
         NEW old, NEW desc \in D, NEW cell \in T, desc.id = old.id,
         Fits(old.data, ref, c) => Fits(cell.data, ref, c)
  PROVE  HeldIn(o \ {old}, f, Append(d, desc), Append(t, cell), ref, c)
<1> DEFINE d2 == Append(d, desc)
           t2 == Append(t, cell)
<1>1. /\ \A i \in DOMAIN d : i \in DOMAIN d2 /\ d2[i] = d[i] /\ t2[i] = t[i]
      /\ Len(d) + 1 \in DOMAIN d2 /\ d2[Len(d) + 1] = desc /\ t2[Len(d) + 1] = cell
  BY FileAppend
<1> HIDE DEF d2, t2
<1>2. HeldIn(o \ {old}, f, d2, t2, ref, c)
  BY <1>1 DEF HeldIn
<1>3. QED  BY <1>2 DEF d2, t2

LEMMA HeldWrite ==
  ASSUME NEW o, NEW f, NEW D, NEW d \in Seq(D), NEW T, NEW t \in Seq(T), Len(t) = Len(d),
         NEW ref, NEW c, HeldIn(o, f, d, t, ref, c),
         NEW job, NEW desc \in D, NEW cell \in T, desc.id = job.id, cell.data = job.data
  PROVE  HeldIn(o, f \ {job}, Append(d, desc), Append(t, cell), ref, c)
<1> DEFINE d2 == Append(d, desc)
           t2 == Append(t, cell)
<1>1. /\ \A i \in DOMAIN d : i \in DOMAIN d2 /\ d2[i] = d[i] /\ t2[i] = t[i]
      /\ Len(d) + 1 \in DOMAIN d2 /\ d2[Len(d) + 1] = desc /\ t2[Len(d) + 1] = cell
  BY FileAppend
<1> HIDE DEF d2, t2
<1>2. HeldIn(o, f \ {job}, d2, t2, ref, c)
  BY <1>1 DEF HeldIn
<1>3. QED  BY <1>2 DEF d2, t2

-----------------------------------------------------------------------------
(* Every chunk ID has one place.  Only the pipeline has chunks in flight or *)
(* breaks; Close returns nil only when nothing is open or next in line.     *)
Ids == IdsOK(openChunks, inFlight, chunkDescs, nextChunk, skipped)

Mode == Pipelined \/ (inFlight = {} /\ ~broken)

Control ==
  /\ trained => pendingEntries = {}
  /\ pc \in {"adding", "training", "closing", "done"} => trained
  /\ pc = "done" <=> closeResult # "none"
  /\ closeResult = "nil" => openChunks = {} /\ ~NextInLine /\ ~broken

LEMMA FlushIds ==
  ASSUME TypeOK, Mode, NEW o, NEW n \in Nat,
         IdsOK(o, inFlight, chunkDescs, n, skipped),
         NEW old \in o, NEW cb \in ChunkBuilder, cb.id = old.id, Store(cb)
  PROVE  IdsOK(o \ {old}, inFlight', chunkDescs', n, skipped) /\ Mode'
<1>1. CASE Pipelined
  <2> DEFINE job == [id |-> cb.id, data |-> cb.data]
  <2>1. inFlight' = inFlight \union {job} /\ chunkDescs' = chunkDescs
    BY <1>1 DEF Store
  <2>2. QED  BY <1>1, <2>1, IdsToPipeline DEF Mode, Pipelined
<1>2. CASE ~Pipelined
  <2> DEFINE desc == [id |-> cb.id, off |-> chunkOff]
  <2>1. /\ inFlight' = inFlight /\ broken' = broken
        /\ chunkDescs' = Append(chunkDescs, desc)
    BY <1>2 DEF Store
  <2>2. chunkDescs \in Seq([id : Nat, off : Nat]) /\ desc \in [id : Nat, off : Nat]
    BY DEF TypeOK, ChunkBuilder
  <2>3. desc.id = old.id
    OBVIOUS
  <2> HIDE DEF desc
  <2>4. IdsOK(o \ {old}, inFlight, Append(chunkDescs, desc), n, skipped)
    BY <2>2, <2>3, IdsToFile
  <2>5. QED  BY <1>2, <2>1, <2>4 DEF Mode, Pipelined
<1>3. QED  BY <1>1, <1>2

LEMMA PlaceInIds ==
  ASSUME TypeOK, Mode, NEW i \in work, NEW old \in ChunkBuilder, NEW n \in Nat,
         IdsOK(openChunks \union {old}, inFlight, chunkDescs, n, skipped),
         nextChunk' = n, PlaceIn(i, old)
  PROVE  Ids' /\ Mode'
<1> DEFINE c == entries[i].content
           cb == AddBlob(old, c)
           o == openChunks \union {old}
<1>1. cb \in ChunkBuilder /\ cb.id = old.id
  <2>1. entries[i] \in Entry
    BY DEF TypeOK
  <2>2. c \in Seq(Byte)
    BY <2>1, WriterAssumption DEF Entry, WriterAssumption
  <2>3. QED  BY <2>2, AddBlobType
<1>2. Emptied(cb).id = old.id
  BY <1>1, EmptiedType
<1>3. openChunks \ {old} = o \ {old} /\ old \in o
  OBVIOUS
<1>4. CASE /\ IsFull(cb) /\ StoreFails(cb)
           /\ openChunks' = (openChunks \ {old}) \union {Emptied(cb)}
           /\ Abandon
  <2>1. openChunks' = (o \ {old}) \union {Emptied(cb)}
    BY <1>3, <1>4
  <2>2. IdsOK(openChunks', inFlight, chunkDescs, n, skipped)
    BY <1>2, <1>3, <2>1, IdsReplace
  <2>3. UNCHANGED <<inFlight, chunkDescs, skipped, broken>> /\ ~Pipelined
    BY <1>4 DEF StoreFails, Abandon
  <2>4. QED  BY <2>2, <2>3 DEF Ids, Mode, Pipelined
<1>5. CASE /\ IF IsFull(cb)
                THEN Store(cb) /\ openChunks' = openChunks \ {old}
                ELSE openChunks' = (openChunks \ {old}) \union {cb} /\ UNCHANGED fileVars
           /\ UNCHANGED <<closed, outcomeVars>>
  <2>0. skipped' = skipped
    BY <1>5 DEF outcomeVars
  <2>1. CASE IsFull(cb)
    <3>1. Store(cb) /\ openChunks' = o \ {old}
      BY <1>3, <1>5, <2>1
    <3>2. IdsOK(o \ {old}, inFlight', chunkDescs', n, skipped) /\ Mode'
      BY <1>1, <1>3, <3>1, FlushIds
    <3>3. QED  BY <2>0, <3>1, <3>2 DEF Ids
  <2>2. CASE ~IsFull(cb)
    <3>1. openChunks' = (o \ {old}) \union {cb} /\ UNCHANGED <<inFlight, chunkDescs, broken>>
      BY <1>3, <1>5, <2>2 DEF fileVars
    <3>2. IdsOK(openChunks', inFlight, chunkDescs, n, skipped)
      BY <1>1, <1>3, <3>1, IdsReplace
    <3>3. QED  BY <2>0, <3>1, <3>2 DEF Ids, Mode, Pipelined
  <2>3. QED  BY <2>1, <2>2
<1>6. QED  BY <1>4, <1>5 DEF PlaceIn

(* A step of PlaceBlob puts entry i in the chunk old, a new one or an open *)
(* one, and both ways o is the set of open chunks once old is open.        *)
LEMMA PlaceBlobIds ==
  ASSUME TypeOK, Ids, PlaceBlob
  PROVE  \E i \in work, old \in ChunkBuilder :
           /\ PlaceIn(i, old)
           /\ nextChunk' \in Nat
           /\ IdsOK(openChunks \union {old}, inFlight, chunkDescs, nextChunk', skipped)
           /\ nextChunk' >= nextChunk
           /\ \/ old \in openChunks /\ ~IsFull(old)
              \/ old.id = nextChunk /\ old.data = <<>> /\ old.uncompSize = 0
<1>0. nextChunk \in Nat /\ openChunks \subseteq ChunkBuilder /\ work \subseteq DOMAIN entries
  BY DEF TypeOK
<1>1. PICK i \in work :
        LET k == ChunkKey(entries[i])
        IN  \/ /\ PlaceIn(i, NewChunk(k))
               /\ nextChunk' = nextChunk + 1
            \/ \E cb \in openChunks :
                 /\ ~IsFull(cb) /\ PlaceIn(i, cb)
                 /\ UNCHANGED nextChunk
  BY DEF PlaceBlob
<1> DEFINE k == ChunkKey(entries[i])
<1>2. k \in Key
  BY <1>0, KeyType DEF TypeOK
<1>3. CASE PlaceIn(i, NewChunk(k)) /\ nextChunk' = nextChunk + 1
  <2>1. /\ NewChunk(k) \in ChunkBuilder /\ NewChunk(k).id = nextChunk
        /\ NewChunk(k).data = <<>> /\ NewChunk(k).uncompSize = 0
    BY <1>0, <1>2, NewChunkType DEF NewChunk
  <2>2. IdsOK(openChunks \union {NewChunk(k)}, inFlight, chunkDescs, nextChunk + 1, skipped)
    BY <1>0, <2>1, IdsNew DEF Ids
  <2> DEFINE new == NewChunk(k)
  <2>3. /\ new \in ChunkBuilder /\ new.data = <<>> /\ new.uncompSize = 0
        /\ new.id = nextChunk /\ nextChunk' >= nextChunk
        /\ PlaceIn(i, new) /\ nextChunk' \in Nat
        /\ IdsOK(openChunks \union {new}, inFlight, chunkDescs, nextChunk', skipped)
    BY <1>0, <1>3, <2>1, <2>2
  <2> HIDE DEF new
  <2>4. QED  BY <2>3
<1>4. CASE \E cb \in openChunks : ~IsFull(cb) /\ PlaceIn(i, cb) /\ UNCHANGED nextChunk
  <2>1. PICK cb \in openChunks : ~IsFull(cb) /\ PlaceIn(i, cb) /\ UNCHANGED nextChunk
    BY <1>4
  <2>2. openChunks \union {cb} = openChunks
    OBVIOUS
  <2>3. /\ cb \in ChunkBuilder /\ nextChunk' \in Nat /\ nextChunk' >= nextChunk
        /\ IdsOK(openChunks \union {cb}, inFlight, chunkDescs, nextChunk', skipped)
    BY <1>0, <2>1, <2>2 DEF Ids
  <2>4. QED  BY <2>1, <2>3
<1>5. QED  BY <1>1, <1>3, <1>4

LEMMA StructureInvariant == Spec => [](Ids /\ Mode /\ Control)
<1>1. Init => Ids /\ Mode /\ Control
  BY WriterAssumption DEF Init, Ids, IdsOK, Mode, Control, WriterAssumption
<1>2. /\ TypeOK /\ Placing /\ Ids /\ Mode /\ Control
      /\ [Next]_vars
      => (Ids /\ Mode /\ Control)'
  <2> SUFFICES ASSUME TypeOK, Placing, Ids, Mode, Control, [Next]_vars
               PROVE  (Ids /\ Mode /\ Control)'
    OBVIOUS
  <2>0. /\ openChunks \subseteq ChunkBuilder /\ nextChunk \in Nat
        /\ chunkDescs \in Seq([id : Nat, off : Nat])
    BY DEF TypeOK
  <2>1. ASSUME NEW m \in MimeGroup, NEW c \in Content, AddEntry(m, c)
        PROVE  (Ids /\ Mode /\ Control)'
    <3>1. UNCHANGED <<openChunks, nextChunk, inFlight, chunkDescs, broken, skipped, closeResult>>
          /\ pc = "idle"
      BY <2>1 DEF AddEntry, chunkVars, fileVars, outcomeVars
    <3>2. Control'
      BY <2>1, <3>1
      DEF AddEntry, AddDuplicate, AddBuffered, AddDirect, Train, callVars, Control, TypeOK
    <3>3. QED  BY <3>1, <3>2 DEF Ids, Mode, Pipelined
  <2>2. CASE FlushStale
    <3>1. PICK i \in work, cb \in openChunks :
            /\ \/ /\ Store(cb)
                  /\ openChunks' = openChunks \ {cb}
                  /\ UNCHANGED <<callVars, outcomeVars>>
               \/ /\ StoreFails(cb)
                  /\ openChunks' = (openChunks \ {cb}) \union {Emptied(cb)}
                  /\ Abandon
            /\ UNCHANGED <<entryVars, dedup, nextChunk>>
      BY <2>2 DEF FlushStale
    <3>2. pc \in {"adding", "training"} /\ closeResult = "none"
      BY DEF Placing, Control
    <3>3. CASE /\ Store(cb)
               /\ openChunks' = openChunks \ {cb}
               /\ UNCHANGED <<callVars, outcomeVars>>
      <4>1. IdsOK(openChunks \ {cb}, inFlight', chunkDescs', nextChunk, skipped) /\ Mode'
        BY <2>0, <3>3, FlushIds DEF Ids
      <4>2. QED
        BY <3>1, <3>2, <3>3, <4>1 DEF Ids, Control, callVars, outcomeVars, entryVars
    <3>4. CASE /\ StoreFails(cb)
               /\ openChunks' = (openChunks \ {cb}) \union {Emptied(cb)}
               /\ Abandon
      <4>1. Emptied(cb).id = cb.id
        BY <2>0, EmptiedType
      <4>2. IdsOK(openChunks', inFlight, chunkDescs, nextChunk, skipped)
        BY <2>0, <3>4, <4>1, IdsReplace DEF Ids
      <4>3. QED
        BY <3>1, <3>2, <3>4, <4>2
        DEF Ids, Mode, Pipelined, Control, StoreFails, Abandon, Returned, entryVars
    <3>5. QED  BY <3>1, <3>3, <3>4
  <2>3. CASE PlaceBlob
    <3>1. PICK i \in work, old \in ChunkBuilder :
            /\ PlaceIn(i, old)
            /\ nextChunk' \in Nat
            /\ IdsOK(openChunks \union {old}, inFlight, chunkDescs, nextChunk', skipped)
      BY <2>3, PlaceBlobIds
    <3>2. Ids' /\ Mode'
      BY <3>1, PlaceInIds
    <3>3. pc \in {"adding", "training"} /\ closeResult = "none"
      BY DEF Placing, Control
    <3>4. /\ closeResult' = "none" /\ pc' \in {"idle", "closing", "adding", "training"}
          /\ UNCHANGED <<trained, pendingEntries>>
      BY <3>1, <3>3 DEF PlaceIn, Abandon, Returned, outcomeVars
    <3>5. QED  BY <3>2, <3>3, <3>4 DEF Control
  <2>4. CASE CloseBegin
    BY <2>4 DEF CloseBegin, Train, Ids, Mode, Pipelined, Control, chunkVars, fileVars, outcomeVars
  <2>5. CASE CloseFlush
    <3>1. PICK cb \in openChunks :
            \/ /\ Store(cb)
               /\ openChunks' = openChunks \ {cb}
               /\ UNCHANGED <<pc, closeResult>>
            \/ /\ StoreFails(cb)
               /\ openChunks' = (openChunks \ {cb}) \union {Emptied(cb)}
               /\ pc' = "done" /\ closeResult' = "error"
      BY <2>5 DEF CloseFlush
    <3>2. /\ pc = "closing" /\ closeResult = "none"
          /\ UNCHANGED <<entryVars, nextChunk, skipped>>
      BY <2>5 DEF CloseFlush, Control
    <3>3. CASE /\ Store(cb)
               /\ openChunks' = openChunks \ {cb}
               /\ UNCHANGED <<pc, closeResult>>
      <4>1. IdsOK(openChunks \ {cb}, inFlight', chunkDescs', nextChunk, skipped) /\ Mode'
        BY <2>0, <3>3, FlushIds DEF Ids
      <4>2. QED  BY <3>2, <3>3, <4>1 DEF Ids, Control, entryVars
    <3>4. CASE /\ StoreFails(cb)
               /\ openChunks' = (openChunks \ {cb}) \union {Emptied(cb)}
               /\ pc' = "done" /\ closeResult' = "error"
      <4>1. Emptied(cb).id = cb.id
        BY <2>0, EmptiedType
      <4>2. IdsOK(openChunks', inFlight, chunkDescs, nextChunk, skipped)
        BY <2>0, <3>4, <4>1, IdsReplace DEF Ids
      <4>3. QED
        BY <3>2, <3>4, <4>2 DEF Ids, Mode, Pipelined, Control, StoreFails, entryVars
    <3>5. QED  BY <3>1, <3>3, <3>4
  <2>6. CASE CloseSkip
    <3>1. PICK cb \in openChunks :
            openChunks' = openChunks \ {cb} /\ skipped' = skipped \union {cb.id}
      BY <2>6 DEF CloseSkip
    <3>2. IdsOK(openChunks', inFlight, chunkDescs, nextChunk, skipped')
      BY <2>0, <3>1, IdsSkip DEF Ids
    <3>3. QED
      BY <2>6, <3>2 DEF CloseSkip, Ids, Mode, Pipelined, Control, callVars, entryVars, fileVars
  <2>7. CASE CloseDrain
    BY <2>7 DEF CloseDrain, Ids, Mode, Pipelined, Control, NextInLine, entryVars, chunkVars, fileVars
  <2>8. CASE PipelineWrite
    <3>1. PICK job \in inFlight :
            /\ inFlight' = inFlight \ {job}
            /\ chunkDescs' = Append(chunkDescs, [id |-> job.id, off |-> chunkOff])
      BY <2>8 DEF PipelineWrite
    <3> DEFINE desc == [id |-> job.id, off |-> chunkOff]
    <3>2. desc \in [id : Nat, off : Nat] /\ desc.id = job.id
      BY DEF TypeOK
    <3> HIDE DEF desc
    <3>3. IdsOK(openChunks, inFlight \ {job}, Append(chunkDescs, desc), nextChunk, skipped)
      BY <2>0, <3>2, IdsWrite DEF Ids
    <3>4. Ids'
      BY <2>8, <3>1, <3>3 DEF Ids, desc, PipelineWrite, chunkVars, outcomeVars
    <3>5. pc # "done" /\ closeResult = "none"
      BY <2>8 DEF PipelineWrite, Control
    <3>6. QED
      BY <2>8, <3>4, <3>5 DEF PipelineWrite, Mode, Control, callVars, entryVars, outcomeVars
  <2>9. CASE PipelineBreak
    <3>1. pc # "done" /\ closeResult = "none" /\ inFlight # {}
      BY <2>9 DEF PipelineBreak, Control
    <3>2. QED
      BY <2>9, <3>1
      DEF PipelineBreak, Ids, Mode, Pipelined, Control, callVars, entryVars, chunkVars, outcomeVars
  <2>10. CASE UNCHANGED vars
    BY <2>10 DEF vars, Ids, Mode, Pipelined, Control, NextInLine,
                callVars, entryVars, chunkVars, fileVars, outcomeVars
  <2>11. QED
    BY <2>1, <2>2, <2>3, <2>4, <2>5, <2>6, <2>7, <2>8, <2>9, <2>10 DEF Next, Terminated
<1>3. QED  BY <1>1, <1>2, TypeCorrect, PTL DEF Spec

-----------------------------------------------------------------------------
(* As long as nothing is torn, broken or skipped, every entry that has left *)
(* the buffers is held somewhere, or a flush of its chunk has failed, which *)
(* is empty then, or it was dropped; and the temp file agrees with its      *)
(* descriptors.                                                             *)
Healthy ==
  /\ ~broken
  /\ skipped = {}
  /\ closeResult # "error"
  /\ ~TornTmp

FileOK ==
  /\ Len(tmp) = Len(chunkDescs)
  /\ chunkOff = Len(chunkDescs)
  /\ \A i \in DOMAIN chunkDescs :
       /\ chunkDescs[i].off = i - 1
       /\ tmp[i].whole
       /\ Pipelined => chunkDescs[i].id = i - 1
       /\ chunkDescs[i].id \in lost => tmp[i].data = <<>>

LostOK ==
  /\ Pipelined => lost = {}
  /\ \A x \in lost : x < nextChunk
  /\ \A cb \in openChunks : cb.id \in lost => cb.data = <<>> /\ IsFull(cb)

Held(ref, c) == HeldIn(openChunks, inFlight, chunkDescs, tmp, ref, c)
HeldNext(ref, c) == HeldIn(openChunks', inFlight', chunkDescs', tmp', ref, c)

Kept(ref, c) == (ref.chunkID \in lost /\ ref.blobSize = Len(c)) \/ Held(ref, c)
KeptNext(ref, c) == (ref.chunkID \in lost' /\ ref.blobSize = Len(c)) \/ HeldNext(ref, c)

Told == pipelineErr \/ reported

DroppedNext(e) == Told' /\ e.content # <<>> /\ e.ref = ZeroRef

SizesOK == \A cb \in openChunks : cb.id \in lost \/ Len(cb.data) = cb.uncompSize

EntriesOK ==
  \A i \in DOMAIN entries :
    IF i \in work \union pendingEntries
      THEN entries[i].ref = ZeroRef
      ELSE Dropped(entries[i]) \/ Kept(entries[i].ref, entries[i].content)

DedupOK == \A c \in DOMAIN dedup : Kept(dedup[c], c)

ChunksOK == FileOK /\ LostOK /\ SizesOK

DataOK == ChunksOK /\ EntriesOK /\ DedupOK

LEMMA RefTypes ==
  ASSUME TypeOK
  PROVE  /\ entries \in Seq(Entry) /\ work \subseteq DOMAIN entries
         /\ \A j \in DOMAIN entries : entries[j].ref \in Ref /\ entries[j].content \in Content
         /\ \A x \in DOMAIN dedup : x \in Content /\ dedup[x] \in Ref
         /\ openChunks \subseteq ChunkBuilder
<1>1. entries \in Seq(Entry)
  BY DEF TypeOK
<1>2. \A j \in DOMAIN entries : entries[j] \in Entry
  BY <1>1
<1>3. QED  BY <1>1, <1>2 DEF TypeOK, Entry, Range

(* What is kept stays kept, and what is dropped was never placed. *)
LEMMA DataKept ==
  ASSUME TypeOK, DataOK, ChunksOK', Told => Told',
         \A ref \in Ref, c \in Content : Kept(ref, c) => KeptNext(ref, c),
         UNCHANGED <<entries, pendingEntries, dedup>>,
         work' = work \/ (work' = {} /\ Told' /\ KeptNext(ZeroRef, <<>>))
  PROVE  DataOK'
<1>1. EntriesOK'
  <2> SUFFICES ASSUME NEW i \in DOMAIN entries, i \notin work' \union pendingEntries
               PROVE  DroppedNext(entries[i]) \/ KeptNext(entries[i].ref, entries[i].content)
    BY DEF DataOK, EntriesOK, Kept, KeptNext, Held, HeldNext, Dropped, DroppedNext, Told
  <2>1. CASE i \in work
    BY <2>1 DEF DataOK, EntriesOK, DroppedNext
  <2>2. CASE i \notin work
    BY <2>2, RefTypes DEF DataOK, EntriesOK, Dropped, DroppedNext, Told
  <2>3. QED  BY <2>1, <2>2
<1>2. DedupOK'
  BY RefTypes DEF DataOK, DedupOK, Kept, KeptNext, Held, HeldNext
<1>3. QED  BY <1>1, <1>2 DEF DataOK

LEMMA HeldMore ==
  ASSUME NEW o, NEW p, o \subseteq p,
         NEW f, NEW d, NEW t, NEW ref, NEW c, HeldIn(o, f, d, t, ref, c)
  PROVE  HeldIn(p, f, d, t, ref, c)
  BY DEF HeldIn

LEMMA StoreFile ==
  ASSUME TypeOK, FileOK, NEW cb \in ChunkBuilder, Store(cb),
         cb.id \in lost => cb.data = <<>>
  PROVE  FileOK' /\ lost' = lost
<1>1. CASE Pipelined
  BY <1>1 DEF Store, FileOK, Pipelined
<1>2. CASE ~Pipelined
  <2> DEFINE desc == [id |-> cb.id, off |-> chunkOff]
             cell == [whole |-> TRUE, data |-> cb.data]
  <2>1. /\ chunkDescs' = Append(chunkDescs, desc)
        /\ tmp' = Append(tmp, cell)
        /\ chunkOff' = chunkOff + 1 /\ lost' = lost
    BY <1>2 DEF Store
  <2>2. /\ chunkDescs \in Seq([id : Nat, off : Nat]) /\ desc \in [id : Nat, off : Nat]
        /\ tmp \in Seq([whole : BOOLEAN, data : Seq(Byte)])
        /\ cell \in [whole : BOOLEAN, data : Seq(Byte)]
    BY DEF TypeOK, ChunkBuilder
  <2>3. /\ desc.off = chunkOff /\ cell.whole
        /\ desc.id = cb.id /\ cell.data = cb.data
    OBVIOUS
  <2> HIDE DEF desc, cell
  <2>4. /\ Len(chunkDescs') = Len(chunkDescs) + 1 /\ Len(tmp') = Len(chunkDescs) + 1
        /\ \A i \in DOMAIN chunkDescs : chunkDescs'[i] = chunkDescs[i] /\ tmp'[i] = tmp[i]
        /\ chunkDescs'[Len(chunkDescs) + 1] = desc /\ tmp'[Len(chunkDescs) + 1] = cell
        /\ \A i \in DOMAIN chunkDescs' : i \in DOMAIN chunkDescs \/ i = Len(chunkDescs) + 1
    BY <2>1, <2>2, FileAppend DEF FileOK
  <2>5. Len(chunkDescs) \in Nat
    BY <2>2
  <2>6. QED  BY <1>2, <2>1, <2>3, <2>4, <2>5 DEF FileOK, Pipelined
<1>3. QED  BY <1>1, <1>2

LEMMA StoreHeld ==
  ASSUME TypeOK, FileOK, NEW o, NEW cb \in ChunkBuilder, Store(cb),
         NEW ref, NEW c, HeldIn(o, inFlight, chunkDescs, tmp, ref, c)
  PROVE  HeldIn(o \ {cb}, inFlight', chunkDescs', tmp', ref, c)
<1>1. CASE Pipelined
  <2> DEFINE job == [id |-> cb.id, data |-> cb.data]
  <2>1. /\ inFlight' = inFlight \union {job} /\ UNCHANGED <<chunkDescs, tmp>>
        /\ job.id = cb.id /\ job.data = cb.data
    BY <1>1 DEF Store
  <2> HIDE DEF job
  <2>2. HeldIn(o \ {cb}, inFlight \union {job}, chunkDescs, tmp, ref, c)
    BY <2>1, HeldToPipeline
  <2>3. QED  BY <2>1, <2>2
<1>2. CASE ~Pipelined
  <2> DEFINE desc == [id |-> cb.id, off |-> chunkOff]
             cell == [whole |-> TRUE, data |-> cb.data]
  <2>1. /\ chunkDescs' = Append(chunkDescs, desc)
        /\ tmp' = Append(tmp, cell)
        /\ inFlight' = inFlight
        /\ desc.id = cb.id /\ cell.data = cb.data
    BY <1>2 DEF Store
  <2>2. /\ chunkDescs \in Seq([id : Nat, off : Nat]) /\ desc \in [id : Nat, off : Nat]
        /\ tmp \in Seq([whole : BOOLEAN, data : Seq(Byte)])
        /\ cell \in [whole : BOOLEAN, data : Seq(Byte)]
        /\ Len(tmp) = Len(chunkDescs)
    BY DEF TypeOK, ChunkBuilder, FileOK
  <2> HIDE DEF desc, cell
  <2>3. HeldIn(o \ {cb}, inFlight, Append(chunkDescs, desc), Append(tmp, cell), ref, c)
    BY <2>1, <2>2, HeldToFile
  <2>4. QED  BY <2>1, <2>3
<1>3. QED  BY <1>1, <1>2

(* A torn cell stays, so what is whole was whole. *)
LEMMA WholeBefore ==
  ASSUME TypeOK, ~TornTmp', NEW cell \in [whole : BOOLEAN, data : Seq(Byte)],
         tmp' = tmp \/ tmp' = Append(tmp, cell)
  PROVE  ~TornTmp /\ (tmp' = Append(tmp, cell) => cell.whole)
<1>1. tmp \in Seq([whole : BOOLEAN, data : Seq(Byte)])
  BY DEF TypeOK
<1>2. CASE tmp' = Append(tmp, cell)
  <2>1. /\ DOMAIN tmp = 1 .. Len(tmp) /\ DOMAIN tmp' = 1 .. Len(tmp) + 1 /\ Len(tmp) \in Nat
        /\ \A k \in 1 .. Len(tmp) : tmp'[k] = tmp[k]
        /\ tmp'[Len(tmp) + 1] = cell
    BY <1>1, <1>2, SeqAppend
  <2>2. QED  BY <2>1 DEF TornTmp
<1>3. CASE tmp' = tmp /\ tmp' # Append(tmp, cell)
  BY <1>3 DEF TornTmp
<1>4. QED  BY <1>2, <1>3

(* Chunk 0 serves the reference of an entry that was dropped, with nothing. *)
LEMMA EmptyHeld ==
  ASSUME NEW o \in SUBSET ChunkBuilder, NEW f \in SUBSET [id : Nat, data : Seq(Byte)],
         NEW d, NEW t, \A i \in DOMAIN d : t[i].data \in Seq(Byte),
         NEW n \in Nat \ {0}, IdsOK(o, f, d, n, {})
  PROVE  HeldIn(o, f, d, t, ZeroRef, <<>>)
<1>1. \A data \in Seq(Byte) : Fits(data, ZeroRef, <<>>)
  BY DEF Fits, ZeroRef
<1>2. 0 \in 0 .. n - 1
  OBVIOUS
<1>3. \/ \E a \in o : a.id = 0
      \/ \E j \in f : j.id = 0
      \/ \E i \in DOMAIN d : d[i].id = 0
  BY <1>2 DEF IdsOK
<1>4. \A a \in o : a.data \in Seq(Byte)
  BY DEF ChunkBuilder
<1>5. ZeroRef.chunkID = 0
  BY DEF ZeroRef
<1>6. QED  BY <1>1, <1>3, <1>4, <1>5 DEF HeldIn

(* A flush on the serial path that fails and leaves the temp file as it is *)
(* loses the chunk old, which cb has become, and no other.                 *)
LEMMA FlushLoses ==
  ASSUME TypeOK, Mode, ChunksOK, Healthy', skipped = {},
         NEW old \in ChunkBuilder, NEW cb \in ChunkBuilder, cb.id = old.id, IsFull(cb),
         NEW n \in Nat, n >= nextChunk, nextChunk' = n,
         IdsOK(openChunks \union {old}, inFlight, chunkDescs, n, skipped),
         StoreFails(cb), openChunks' = (openChunks \ {old}) \union {Emptied(cb)}
  PROVE  /\ ChunksOK'
         /\ \A r, x : Kept(r, x) => KeptNext(r, x)
         /\ KeptNext(ZeroRef, <<>>)
         /\ old.id \in lost'
<1> DEFINE o == openChunks \union {old}
           e == Emptied(cb)
<1>1. /\ ~Pipelined /\ lost' = lost \union {old.id}
      /\ UNCHANGED <<inFlight, broken, chunkOff, chunkDescs>>
  BY DEF StoreFails
<1>2. tmp' = tmp
  <2> DEFINE cell == [whole |-> FALSE, data |-> <<>>]
  <2>1. cell \in [whole : BOOLEAN, data : Seq(Byte)] /\ ~cell.whole
    OBVIOUS
  <2>2. tmp' = tmp \/ tmp' = Append(tmp, cell)
    BY DEF StoreFails, TornWrite
  <2>3. ~TornTmp'
    BY DEF Healthy
  <2> HIDE DEF cell
  <2>4. QED  BY <2>1, <2>2, <2>3, WholeBefore
<1>3. e \in ChunkBuilder /\ e.id = old.id /\ e.data = <<>> /\ IsFull(e)
  BY EmptiedType DEF Emptied, IsFull, ChunkBuilder
<1>4. openChunks' = (o \ {old}) \union {e} /\ old \in o
  OBVIOUS
<1> HIDE DEF e
<1>5. IdsOK(openChunks', inFlight, chunkDescs, n, skipped)
  BY <1>3, <1>4, IdsReplace
<1>6. /\ \A a \in openChunks : a # old => a.id # old.id
      /\ \A i \in DOMAIN chunkDescs : chunkDescs[i].id # old.id
      /\ old.id \in 0 .. n - 1
  BY <1>4 DEF IdsOK
<1>7. old.id < n /\ n # 0 /\ nextChunk \in Nat /\ old.id \in Nat /\ lost \subseteq Nat
  BY <1>6 DEF TypeOK, ChunkBuilder
<1>8. FileOK'
  BY <1>1, <1>2, <1>6 DEF ChunksOK, FileOK, Pipelined
<1>9. LostOK'
  <2>1. \A x \in lost' : x < n
    BY <1>1, <1>7 DEF ChunksOK, LostOK
  <2>2. ASSUME NEW a \in openChunks', a.id \in lost'  PROVE a.data = <<>> /\ IsFull(a)
    <3>1. CASE a = e
      BY <1>3, <3>1
    <3>2. CASE a # e
      BY <1>1, <1>4, <1>6, <2>2, <3>2 DEF ChunksOK, LostOK
    <3>3. QED  BY <3>1, <3>2
  <2>3. QED  BY <1>1, <2>1, <2>2 DEF LostOK, Pipelined, IsFull
<1>10. SizesOK'
  BY <1>1, <1>3, <1>4 DEF ChunksOK, SizesOK
<1>11. ASSUME NEW r, NEW x, Kept(r, x)  PROVE KeptNext(r, x)
  <2>1. r.blobSize = Len(x)
    BY <1>11 DEF Kept, Held, HeldIn, Fits
  <2>2. CASE r.chunkID \notin lost'
    <3>1. Held(r, x) /\ r.chunkID # old.id
      BY <1>1, <1>11, <2>2 DEF Kept
    <3>2. HeldNext(r, x)
      BY <1>1, <1>2, <1>4, <3>1 DEF Held, HeldNext, HeldIn
    <3>3. QED  BY <3>2 DEF KeptNext
  <2>3. QED  BY <2>1, <2>2 DEF KeptNext
<1>12. HeldNext(ZeroRef, <<>>)
  <2>1. openChunks' \in SUBSET ChunkBuilder
    BY <1>3, <1>4 DEF TypeOK
  <2>2. \A i \in DOMAIN chunkDescs : tmp[i].data \in Seq(Byte)
    <3>1. /\ tmp \in Seq([whole : BOOLEAN, data : Seq(Byte)])
          /\ chunkDescs \in Seq([id : Nat, off : Nat])
      BY DEF TypeOK
    <3>2. DOMAIN tmp = DOMAIN chunkDescs
      BY <3>1 DEF ChunksOK, FileOK
    <3>3. \A i \in DOMAIN tmp : tmp[i] \in [whole : BOOLEAN, data : Seq(Byte)]
      BY <3>1, SeqElement
    <3>4. QED  BY <3>2, <3>3
  <2>3. inFlight \in SUBSET [id : Nat, data : Seq(Byte)]
    BY DEF TypeOK
  <2>4. IdsOK(openChunks', inFlight, chunkDescs, n, {})
    BY <1>5
  <2>5. HeldIn(openChunks', inFlight, chunkDescs, tmp, ZeroRef, <<>>)
    BY <1>7, <2>1, <2>2, <2>3, <2>4, EmptyHeld
  <2>6. QED  BY <1>1, <1>2, <2>5 DEF HeldNext
<1>13. QED  BY <1>1, <1>8, <1>9, <1>10, <1>11, <1>12 DEF ChunksOK, KeptNext

LEMMA PlaceInData ==
  ASSUME TypeOK, Placing, Mode, Control, DataOK, Healthy', skipped = {},
         NEW i \in work, NEW old \in ChunkBuilder, PlaceIn(i, old),
         NEW n \in Nat, n >= nextChunk, nextChunk' = n,
         IdsOK(openChunks \union {old}, inFlight, chunkDescs, n, skipped),
         \/ old \in openChunks /\ ~IsFull(old)
         \/ old.id = nextChunk /\ old.data = <<>> /\ old.uncompSize = 0
  PROVE  DataOK'
<1> DEFINE c == entries[i].content
           cb == AddBlob(old, c)
           ref == [chunkID |-> old.id, blobOffset |-> old.uncompSize,
                   blobSize |-> Len(c)]
           o == openChunks \union {old}
           p == (o \ {old}) \union {cb}
<1>1. pendingEntries = {}
  BY DEF Placing, Control
<1>2. \/ /\ IF IsFull(cb)
               THEN Store(cb) /\ openChunks' = openChunks \ {old}
               ELSE openChunks' = (openChunks \ {old}) \union {cb} /\ UNCHANGED fileVars
         /\ work' = work \ {i} /\ UNCHANGED outcomeVars
      \/ /\ IsFull(cb) /\ StoreFails(cb)
         /\ openChunks' = (openChunks \ {old}) \union {Emptied(cb)}
         /\ Abandon
  BY DEF PlaceIn
<1>3. /\ entries' = [entries EXCEPT ![i].ref = ref]
      /\ dedup' = [x \in DOMAIN dedup \union {c} |-> IF x = c THEN ref ELSE dedup[x]]
      /\ UNCHANGED pendingEntries
  BY DEF PlaceIn, Register
<1>4. /\ entries \in Seq(Entry) /\ i \in DOMAIN entries
      /\ \A j \in DOMAIN entries : entries[j].ref \in Ref /\ entries[j].content \in Content
      /\ \A x \in DOMAIN dedup : x \in Content /\ dedup[x] \in Ref
      /\ openChunks \subseteq ChunkBuilder
  BY RefTypes
<1>5. /\ c \in Content /\ c \in Seq(Byte) /\ Len(c) \in Nat
      /\ Content \subseteq Seq(Byte)
  BY <1>4, WriterAssumption DEF WriterAssumption
<1>6. /\ old.id \in Nat /\ old.uncompSize \in Nat /\ old.data \in Seq(Byte)
      /\ Len(old.data) = old.uncompSize /\ old.id \notin lost
  <2>1. nextChunk \in Nat /\ lost \subseteq Nat
    BY DEF TypeOK
  <2>2. old.id \notin lost
    BY <2>1 DEF DataOK, ChunksOK, LostOK
  <2>3. QED  BY <2>2 DEF ChunkBuilder, DataOK, ChunksOK, SizesOK
<1>7. /\ cb \in ChunkBuilder /\ cb.id = old.id /\ cb.data = old.data \o c
      /\ cb.uncompSize = old.uncompSize + Len(c)
  BY <1>5, AddBlobType
<1>8. ref \in Ref /\ ref.chunkID = old.id /\ ref.blobOffset = Len(old.data) /\ ref.blobSize = Len(c)
  BY <1>5, <1>6 DEF Ref
<1>9. Fits(cb.data, ref, c)
  BY <1>5, <1>6, <1>7, <1>8, FitsNew
<1>10. HeldIn(p, inFlight, chunkDescs, tmp, ref, c)
  BY <1>7, <1>8, <1>9 DEF HeldIn
<1>11. ASSUME NEW r \in Ref, NEW x \in Content, Held(r, x)
       PROVE  HeldIn(p, inFlight, chunkDescs, tmp, r, x)
  <2>1. HeldIn(o, inFlight, chunkDescs, tmp, r, x)
    BY <1>11, HeldNew DEF Held
  <2>2. Fits(old.data, r, x) => Fits(cb.data, r, x)
    BY <1>5, <1>6, <1>7, FitsLonger
  <2> HIDE DEF cb
  <2>3. QED  BY <1>7, <2>1, <2>2, HeldReplace
<1>12. ASSUME IF IsFull(cb)
                THEN Store(cb) /\ openChunks' = openChunks \ {old}
                ELSE openChunks' = (openChunks \ {old}) \union {cb} /\ UNCHANGED fileVars
       PROVE  /\ ChunksOK'
              /\ \A r, x : HeldIn(p, inFlight, chunkDescs, tmp, r, x) => HeldNext(r, x)
              /\ lost' = lost
  <2>0. /\ FileOK /\ SizesOK /\ LostOK /\ Len(cb.data) = cb.uncompSize
        /\ cb.id \notin lost
    BY <1>5, <1>6, <1>7, AddBlobType DEF DataOK, ChunksOK
  <2>a. lost' = lost /\ openChunks' \subseteq p => LostOK'
    <3> SUFFICES ASSUME lost' = lost, openChunks' \subseteq p  PROVE LostOK'
      OBVIOUS
    <3>1. \A a \in openChunks' : a \in openChunks \/ a = cb
      OBVIOUS
    <3>2. \A x \in lost : x < n
      BY <2>0 DEF LostOK, TypeOK
    <3> HIDE DEF cb, p
    <3>3. QED  BY <2>0, <3>1, <3>2 DEF LostOK, Pipelined, IsFull
  <2>1. CASE IsFull(cb)
    <3>1. Store(cb) /\ openChunks' = openChunks \ {old}
      BY <1>12, <2>1
    <3>2. FileOK' /\ lost' = lost
      BY <1>7, <2>0, <3>1, StoreFile
    <3>a. SizesOK' /\ LostOK'
      BY <2>0, <2>a, <3>1, <3>2 DEF SizesOK
    <3>3. p \ {cb} \subseteq openChunks'
      BY <3>1
    <3>4. ASSUME NEW r, NEW x, HeldIn(p, inFlight, chunkDescs, tmp, r, x)
          PROVE  HeldNext(r, x)
      <4> HIDE DEF cb, p
      <4>1. HeldIn(p \ {cb}, inFlight', chunkDescs', tmp', r, x)
        BY <1>7, <2>0, <3>1, <3>4, StoreHeld
      <4>2. HeldIn(openChunks', inFlight', chunkDescs', tmp', r, x)
        BY <3>3, <4>1, HeldMore
      <4>3. QED  BY <4>2 DEF HeldNext
    <3>5. QED  BY <3>2, <3>a, <3>4 DEF ChunksOK
  <2>2. CASE ~IsFull(cb)
    <3>1. openChunks' = p /\ UNCHANGED <<inFlight, tmp, chunkOff, chunkDescs, lost>>
      BY <1>12, <2>2 DEF fileVars
    <3>2. FileOK'
      BY <2>0, <3>1 DEF FileOK, Pipelined
    <3>3. SizesOK' /\ LostOK'
      BY <2>0, <2>a, <3>1 DEF SizesOK
    <3>4. QED  BY <3>1, <3>2, <3>3 DEF HeldNext, ChunksOK
  <2>3. QED  BY <2>1, <2>2
<1>13. /\ ChunksOK'
       /\ \A r \in Ref, x \in Content : Kept(r, x) => KeptNext(r, x)
       /\ KeptNext(ref, c)
       /\ work' = work \ {i} \/ (work' = {} /\ Told' /\ KeptNext(ZeroRef, <<>>))
       /\ Told => Told'
  <2> HIDE DEF p
  <2>1. CASE /\ IF IsFull(cb)
                  THEN Store(cb) /\ openChunks' = openChunks \ {old}
                  ELSE openChunks' = (openChunks \ {old}) \union {cb} /\ UNCHANGED fileVars
             /\ work' = work \ {i} /\ UNCHANGED outcomeVars
    <3> HIDE DEF cb, ref, c
    <3>1. /\ ChunksOK' /\ lost' = lost
          /\ \A r, x : HeldIn(p, inFlight, chunkDescs, tmp, r, x) => HeldNext(r, x)
      BY <1>12, <2>1
    <3>2. Told => Told'
      BY <2>1 DEF Told, outcomeVars
    <3>3. QED  BY <1>10, <1>11, <2>1, <3>1, <3>2 DEF Kept, KeptNext
  <2>2. CASE /\ IsFull(cb) /\ StoreFails(cb)
             /\ openChunks' = (openChunks \ {old}) \union {Emptied(cb)}
             /\ Abandon
    <3> HIDE DEF cb
    <3>1. /\ ChunksOK' /\ KeptNext(ZeroRef, <<>>) /\ old.id \in lost'
          /\ \A r, x : Kept(r, x) => KeptNext(r, x)
      BY <1>7, <2>2, FlushLoses DEF DataOK
    <3>2. KeptNext(ref, c)
      BY <1>8, <3>1 DEF KeptNext
    <3>3. work' = {} /\ Told' /\ (Told => Told')
      BY <1>1, <2>2 DEF Abandon, Placing, Told
    <3> HIDE DEF ref, c
    <3>4. QED  BY <3>1, <3>2, <3>3
  <2>3. QED  BY <1>2, <2>1, <2>2
<1> HIDE DEF cb, ref, c, p
<1>15. /\ DOMAIN entries' = DOMAIN entries
       /\ \A j \in DOMAIN entries : j # i => entries'[j] = entries[j]
       /\ entries'[i].ref = ref /\ entries'[i].content = c
  BY <1>3, <1>4, <1>8, SetRef DEF c
<1>16. EntriesOK'
  <2>1. ASSUME NEW j \in DOMAIN entries, j # i
        PROVE  IF j \in work' \union pendingEntries'
                 THEN entries[j].ref = ZeroRef
                 ELSE DroppedNext(entries[j]) \/ KeptNext(entries[j].ref, entries[j].content)
    <3>1. CASE j \in work'
      BY <1>13, <2>1, <3>1 DEF DataOK, EntriesOK
    <3>2. CASE j \notin work' /\ j \in work
      BY <1>1, <1>3, <1>13, <2>1, <3>2 DEF DataOK, EntriesOK, DroppedNext
    <3>3. CASE j \notin work' /\ j \notin work
      BY <1>1, <1>3, <1>4, <1>13, <2>1, <3>3
      DEF DataOK, EntriesOK, Dropped, DroppedNext, Told
    <3>4. QED  BY <3>1, <3>2, <3>3
  <2>2. i \notin work' \union pendingEntries'
    BY <1>1, <1>3, <1>13
  <2>3. QED
    BY <1>13, <1>15, <2>1, <2>2
    DEF EntriesOK, Kept, KeptNext, Held, HeldNext, Dropped, DroppedNext, Told
<1>17. DedupOK'
  <2>1. \A x \in DOMAIN dedup : KeptNext(dedup[x], x)
    BY <1>4, <1>13 DEF DataOK, DedupOK
  <2>2. ASSUME NEW x \in DOMAIN dedup'  PROVE KeptNext(dedup'[x], x)
    BY <1>3, <1>13, <2>1
  <2>3. QED  BY <2>2 DEF DedupOK, Kept, KeptNext, Held, HeldNext
<1>18. QED  BY <1>13, <1>16, <1>17 DEF DataOK

LEMMA DataInvariant == Spec => [](Healthy => DataOK)
<1>1. Init => DataOK
  BY DEF Init, DataOK, ChunksOK, FileOK, LostOK, SizesOK, EntriesOK, DedupOK
<1>2. /\ TypeOK /\ Placing /\ Ids /\ Mode /\ Control
      /\ Healthy => DataOK
      /\ [Next]_vars
      => (Healthy => DataOK)'
  <2> SUFFICES ASSUME TypeOK, Placing, Ids, Mode, Control, Healthy => DataOK,
                      [Next]_vars, Healthy'
               PROVE  DataOK'
    OBVIOUS
  <2>1. Healthy /\ skipped' = {}
    <3>1. /\ broken => broken'
          /\ skipped \subseteq skipped'
          /\ closeResult = "error" => closeResult' = "error"
          /\ \E cell \in [whole : BOOLEAN, data : Seq(Byte)] :
               tmp' = tmp \/ tmp' = Append(tmp, cell)
      <4> DEFINE Cell == [whole : BOOLEAN, data : Seq(Byte)]
                 Grows == \E cell \in Cell : tmp' = tmp \/ tmp' = Append(tmp, cell)
      <4>0. /\ tmp' = tmp => Grows
            /\ TornWrite => Grows
        <5>1. [whole |-> FALSE, data |-> <<>>] \in Cell
          OBVIOUS
        <5>2. QED  BY <5>1 DEF TornWrite
      <4>1. ASSUME NEW m \in MimeGroup, NEW c \in Content, AddEntry(m, c)
            PROVE  UNCHANGED <<broken, skipped, closeResult, tmp>>
        BY <4>1 DEF AddEntry, fileVars, outcomeVars
      <4>2. Abandon => UNCHANGED <<skipped, closeResult>>
        BY DEF Abandon
      <4>3. ASSUME NEW cb \in ChunkBuilder, Store(cb) \/ StoreFails(cb)
            PROVE  broken' = broken /\ Grows
        <5>1. [whole |-> TRUE, data |-> cb.data] \in Cell
          BY DEF ChunkBuilder
        <5> HIDE DEF Grows
        <5>2. CASE StoreFails(cb)
          BY <4>0, <5>2 DEF StoreFails
        <5>3. CASE Store(cb)
          <6>1. tmp' = tmp \/ tmp' = Append(tmp, [whole |-> TRUE, data |-> cb.data])
            BY <5>3 DEF Store
          <6>2. Grows
            BY <5>1, <6>1 DEF Grows
          <6>3. QED  BY <5>3, <6>2 DEF Store
        <5>4. QED  BY <4>3, <5>2, <5>3
      <4>a. openChunks \subseteq ChunkBuilder
        BY DEF TypeOK
      <4> SUFFICES /\ broken => broken'
                   /\ skipped \subseteq skipped'
                   /\ closeResult = "error" => closeResult' = "error"
                   /\ Grows
        OBVIOUS
      <4> HIDE DEF Grows
      <4>4. CASE FlushStale
        BY <4>2, <4>3, <4>4, <4>a DEF FlushStale, outcomeVars
      <4>5. CASE PlaceBlob
        <5>1. PICK i \in work, old \in ChunkBuilder : PlaceIn(i, old)
          BY <4>5, PlaceBlobIds
        <5>2. AddBlob(old, entries[i].content) \in ChunkBuilder
          BY RefTypes, AddBlobType, WriterAssumption DEF WriterAssumption
        <5>3. QED  BY <4>0, <4>2, <4>3, <5>1, <5>2 DEF PlaceIn, outcomeVars, fileVars
      <4>6. CASE CloseBegin \/ CloseSkip
        BY <4>0, <4>6 DEF CloseBegin, CloseSkip, fileVars, outcomeVars
      <4>7. CASE CloseFlush
        BY <4>3, <4>7, <4>a DEF CloseFlush, Control
      <4>8. CASE CloseDrain
        BY <4>0, <4>8 DEF CloseDrain, Control, fileVars
      <4>9. CASE PipelineBreak \/ UNCHANGED vars
        BY <4>0, <4>9 DEF PipelineBreak, vars, fileVars, outcomeVars
      <4>10. CASE PipelineWrite
        <5>1. PICK job \in inFlight : tmp' = Append(tmp, [whole |-> TRUE, data |-> job.data])
          BY <4>10 DEF PipelineWrite
        <5>2. [whole |-> TRUE, data |-> job.data] \in Cell
          BY DEF TypeOK
        <5>3. Grows
          BY <5>1, <5>2 DEF Grows
        <5>4. QED  BY <4>10, <5>3 DEF PipelineWrite, outcomeVars
      <4>11. QED
        BY <4>0, <4>1, <4>4, <4>5, <4>6, <4>7, <4>8, <4>9, <4>10 DEF Next, Terminated
    <3>2. ~TornTmp
      BY <3>1, WholeBefore DEF Healthy
    <3>3. QED  BY <3>1, <3>2 DEF Healthy
  <2>2. DataOK /\ skipped = {}
    BY <2>1 DEF Healthy
  <2>3. /\ openChunks \subseteq ChunkBuilder /\ FileOK /\ SizesOK /\ LostOK
        /\ nextChunk \in Nat
    BY <2>2, RefTypes DEF DataOK, ChunksOK, TypeOK
  <2>a. ASSUME NEW cb \in openChunks, Store(cb), openChunks' = openChunks \ {cb},
               nextChunk' = nextChunk
        PROVE  ChunksOK' /\ \A r, x : Kept(r, x) => KeptNext(r, x)
    <3>1. FileOK' /\ lost' = lost
      BY <2>3, <2>a, StoreFile DEF LostOK
    <3>2. SizesOK' /\ LostOK'
      BY <2>3, <2>a, <3>1 DEF SizesOK, LostOK, Pipelined, IsFull
    <3>3. \A r, x : Held(r, x) => HeldNext(r, x)
      BY <2>3, <2>a, StoreHeld DEF Held, HeldNext
    <3>4. QED  BY <3>1, <3>2, <3>3 DEF ChunksOK, Kept, KeptNext
  <2>4. ASSUME NEW m \in MimeGroup, NEW c \in Content, AddEntry(m, c)
        PROVE  DataOK'
    <3>1. /\ UNCHANGED <<openChunks, inFlight, tmp, chunkOff, chunkDescs, dedup, lost,
                       nextChunk>>
          /\ pc = "idle" /\ work = {} /\ Told' = Told
      BY <2>4 DEF AddEntry, chunkVars, fileVars, outcomeVars, Placing, Told
    <3>2. PICK ref \in Ref :
            /\ AppendEntry(m, c, ref)
            /\ \/ /\ c \in DOMAIN dedup /\ ref = dedup[c]
                  /\ work' = {} /\ pendingEntries' = pendingEntries
               \/ /\ ref = ZeroRef
                  /\ work' \union pendingEntries' = pendingEntries \union {Len(entries) + 1}
      <4>1. ZeroRef \in Ref
        BY DEF ZeroRef, Ref
      <4>2. CASE AddDuplicate(m, c)
        BY <3>1, <4>2, RefTypes DEF AddDuplicate, callVars
      <4>3. CASE AddBuffered(m, c)
        BY <3>1, <4>1, <4>3 DEF AddBuffered, Train
      <4>4. CASE AddDirect(m, c)
        <5>1. work' \union pendingEntries' = pendingEntries \union {Len(entries) + 1}
          BY <4>4 DEF AddDirect
        <5>2. QED  BY <4>1, <4>4, <5>1 DEF AddDirect
      <4>5. QED  BY <2>4, <4>2, <4>3, <4>4 DEF AddEntry
    <3>a. /\ pendingEntries \subseteq DOMAIN entries
          /\ pendingEntries \subseteq work' \union pendingEntries'
          /\ work' \union pendingEntries' \subseteq pendingEntries \union {Len(entries) + 1}
      BY <3>2 DEF TypeOK
    <3> DEFINE new == [mime |-> m, content |-> c, ref |-> ref]
    <3>3. new \in Entry /\ new.ref = ref /\ new.content = c
      BY DEF Entry
    <3> HIDE DEF new
    <3>4. entries' = Append(entries, new) /\ entries \in Seq(Entry)
      BY <3>2, RefTypes DEF AppendEntry, new
    <3>5. /\ DOMAIN entries = 1 .. Len(entries) /\ DOMAIN entries' = 1 .. Len(entries) + 1
          /\ \A i \in 1 .. Len(entries) : entries'[i] = entries[i]
          /\ entries'[Len(entries) + 1] = new
          /\ Len(entries) \in Nat
      BY <3>3, <3>4, SeqAppend
    <3>6. \A r, x : KeptNext(r, x) <=> Kept(r, x)
      BY <3>1 DEF Held, HeldNext, Kept, KeptNext
    <3>7. ASSUME NEW i \in DOMAIN entries'
          PROVE  IF i \in work' \union pendingEntries'
                   THEN entries'[i].ref = ZeroRef
                   ELSE DroppedNext(entries'[i]) \/ KeptNext(entries'[i].ref, entries'[i].content)
      <4>1. CASE i \in DOMAIN entries
        <5>1. entries'[i] = entries[i] /\ i # Len(entries) + 1
          BY <3>5, <4>1
        <5>2. i \in work' \union pendingEntries' <=> i \in pendingEntries
          BY <3>a, <5>1
        <5>3. QED
          BY <2>2, <3>1, <3>6, <4>1, <5>1, <5>2
          DEF DataOK, EntriesOK, Dropped, DroppedNext, Told
      <4>2. CASE i = Len(entries) + 1
        <5>1. i \notin pendingEntries
          BY <3>5, <3>a, <4>2
        <5>2. QED  BY <2>2, <3>2, <3>3, <3>5, <3>6, <4>2, <5>1 DEF DataOK, DedupOK
      <4>3. QED  BY <3>5, <4>1, <4>2
    <3>8. EntriesOK'
      BY <3>7 DEF EntriesOK, Held, HeldNext, Kept, KeptNext, Dropped, DroppedNext, Told
    <3>9. ChunksOK' /\ DedupOK'
      BY <2>2, <3>1
      DEF DataOK, ChunksOK, FileOK, LostOK, SizesOK, DedupOK, Kept, Held, Pipelined, IsFull
    <3>10. QED  BY <3>8, <3>9 DEF DataOK
  <2>5. CASE FlushStale
    <3>1. PICK i \in work, cb \in openChunks :
            /\ IsFull(cb)
            /\ \/ /\ Store(cb)
                  /\ openChunks' = openChunks \ {cb}
                  /\ UNCHANGED <<callVars, outcomeVars>>
               \/ /\ StoreFails(cb)
                  /\ openChunks' = (openChunks \ {cb}) \union {Emptied(cb)}
                  /\ Abandon
            /\ UNCHANGED <<entryVars, dedup, nextChunk>>
      BY <2>5 DEF FlushStale
    <3>2. CASE /\ Store(cb) /\ openChunks' = openChunks \ {cb}
               /\ UNCHANGED <<callVars, outcomeVars>>
      <4>1. Told => Told'
        BY <3>2 DEF Told, outcomeVars
      <4>2. QED  BY <2>2, <2>a, <3>1, <3>2, <4>1, DataKept DEF callVars, entryVars
    <3>3. CASE /\ StoreFails(cb)
               /\ openChunks' = (openChunks \ {cb}) \union {Emptied(cb)}
               /\ Abandon
      <4>1. openChunks \union {cb} = openChunks
        OBVIOUS
      <4>2. IdsOK(openChunks \union {cb}, inFlight, chunkDescs, nextChunk, skipped)
        BY <4>1 DEF Ids
      <4>a. /\ cb \in ChunkBuilder /\ IsFull(cb) /\ nextChunk >= nextChunk
            /\ nextChunk' = nextChunk /\ ChunksOK
        BY <2>2, <2>3, <3>1 DEF DataOK
      <4>3. /\ ChunksOK' /\ KeptNext(ZeroRef, <<>>)
            /\ \A r, x : Kept(r, x) => KeptNext(r, x)
        BY <2>2, <2>3, <3>3, <4>2, <4>a, FlushLoses
      <4>4. work' = {} /\ Told'
        BY <3>1, <3>3 DEF Abandon, Placing, Told
      <4>5. QED  BY <2>2, <3>1, <4>3, <4>4, DataKept DEF entryVars
    <3>4. QED  BY <3>1, <3>2, <3>3
  <2>6. CASE PlaceBlob
    <3>1. PICK i \in work, old \in ChunkBuilder :
            /\ PlaceIn(i, old)
            /\ nextChunk' \in Nat
            /\ IdsOK(openChunks \union {old}, inFlight, chunkDescs, nextChunk', skipped)
            /\ nextChunk' >= nextChunk
            /\ \/ old \in openChunks /\ ~IsFull(old)
               \/ old.id = nextChunk /\ old.data = <<>> /\ old.uncompSize = 0
      BY <2>6, PlaceBlobIds
    <3>2. PICK n \in Nat : n = nextChunk'
      BY <3>1
    <3>3. QED  BY <2>2, <3>1, <3>2, PlaceInData
  <2>7. CASE CloseBegin
    <3>1. /\ UNCHANGED <<entries, dedup, openChunks, inFlight, tmp, chunkOff, chunkDescs,
                        lost, nextChunk>>
          /\ work' \union pendingEntries' = work \union pendingEntries
          /\ UNCHANGED outcomeVars
      BY <2>7 DEF CloseBegin, Train, Placing, chunkVars, fileVars
    <3>2. EntriesOK'
      BY <2>2, <3>1 DEF DataOK, EntriesOK, Kept, Held, Dropped, outcomeVars
    <3>3. QED
      BY <2>2, <3>1, <3>2
      DEF DataOK, ChunksOK, FileOK, LostOK, SizesOK, DedupOK, Kept, Held, Pipelined, IsFull
  <2>8. CASE CloseFlush
    <3>1. PICK cb \in openChunks :
            /\ Store(cb)
            /\ openChunks' = openChunks \ {cb}
            /\ UNCHANGED <<work, entryVars, dedup, nextChunk>>
            /\ Told' = Told
      BY <2>8 DEF CloseFlush, Healthy, Told
    <3>2. QED  BY <2>2, <2>a, <3>1, DataKept DEF entryVars
  <2>9. CASE CloseSkip
    BY <2>9 DEF CloseSkip, Healthy
  <2>10. CASE CloseDrain
    BY <2>2, <2>10
    DEF CloseDrain, DataOK, ChunksOK, FileOK, LostOK, SizesOK, EntriesOK, DedupOK, Held, Kept,
        Pipelined, IsFull, Dropped, entryVars, chunkVars, fileVars
  <2>11. CASE PipelineWrite
    <3>1. PICK job \in inFlight :
            /\ job.id = Len(chunkDescs)
            /\ inFlight' = inFlight \ {job}
            /\ tmp' = Append(tmp, [whole |-> TRUE, data |-> job.data])
            /\ chunkDescs' = Append(chunkDescs, [id |-> job.id, off |-> chunkOff])
            /\ chunkOff' = chunkOff + 1
            /\ UNCHANGED <<callVars, entryVars, chunkVars, lost, outcomeVars>>
      BY <2>11 DEF PipelineWrite
    <3>a. Pipelined /\ lost = {}
      BY <2>3 DEF Mode, LostOK
    <3> DEFINE desc == [id |-> job.id, off |-> chunkOff]
               cell == [whole |-> TRUE, data |-> job.data]
    <3>2. /\ chunkDescs \in Seq([id : Nat, off : Nat]) /\ desc \in [id : Nat, off : Nat]
          /\ tmp \in Seq([whole : BOOLEAN, data : Seq(Byte)])
          /\ cell \in [whole : BOOLEAN, data : Seq(Byte)]
          /\ Len(tmp) = Len(chunkDescs) /\ chunkOff = Len(chunkDescs)
          /\ Len(chunkDescs) \in Nat
      BY <2>3 DEF TypeOK, FileOK
    <3>3. /\ desc.id = job.id /\ desc.off = chunkOff /\ cell.whole /\ cell.data = job.data
          /\ tmp' = Append(tmp, cell) /\ chunkDescs' = Append(chunkDescs, desc)
      BY <3>1
    <3> HIDE DEF desc, cell
    <3>4. /\ Len(chunkDescs') = Len(chunkDescs) + 1 /\ Len(tmp') = Len(chunkDescs) + 1
          /\ \A i \in DOMAIN chunkDescs : chunkDescs'[i] = chunkDescs[i] /\ tmp'[i] = tmp[i]
          /\ chunkDescs'[Len(chunkDescs) + 1] = desc /\ tmp'[Len(chunkDescs) + 1] = cell
          /\ \A i \in DOMAIN chunkDescs' : i \in DOMAIN chunkDescs \/ i = Len(chunkDescs) + 1
      BY <3>2, <3>3, FileAppend
    <3>5. FileOK'
      BY <2>3, <3>1, <3>2, <3>3, <3>4, <3>a DEF FileOK, Pipelined
    <3>6. ASSUME NEW r, NEW x, Held(r, x)  PROVE HeldNext(r, x)
      <4>1. HeldIn(openChunks, inFlight \ {job}, Append(chunkDescs, desc), Append(tmp, cell), r, x)
        BY <3>2, <3>3, <3>6, HeldWrite DEF Held
      <4>2. QED  BY <3>1, <3>3, <4>1 DEF HeldNext, chunkVars
    <3>7. ChunksOK'
      BY <2>3, <3>1, <3>5, <3>a DEF ChunksOK, SizesOK, LostOK, chunkVars
    <3>8. \A r, x : Kept(r, x) => KeptNext(r, x)
      BY <3>1, <3>6 DEF Kept, KeptNext
    <3>9. Told => Told'
      BY <3>1 DEF Told, outcomeVars
    <3>10. QED
      BY <2>2, <3>1, <3>7, <3>8, <3>9, DataKept DEF callVars, entryVars, chunkVars
  <2>12. CASE PipelineBreak
    BY <2>12 DEF PipelineBreak, Healthy
  <2>13. CASE UNCHANGED vars
    BY <2>2, <2>13
    DEF vars, DataOK, ChunksOK, FileOK, LostOK, SizesOK, EntriesOK, DedupOK, Held, Kept,
        Pipelined, IsFull, Dropped, callVars, entryVars, chunkVars, fileVars, outcomeVars
  <2>14. QED
    BY <2>4, <2>5, <2>6, <2>7, <2>8, <2>9, <2>10, <2>11, <2>12, <2>13 DEF Next, Terminated
<1>3. QED  BY <1>1, <1>2, TypeCorrect, StructureInvariant, PTL DEF Spec

-----------------------------------------------------------------------------
LEMMA FitsSubSeq ==
  ASSUME NEW data \in Seq(Byte), NEW c \in Seq(Byte), NEW ref \in Ref, Fits(data, ref, c)
  PROVE  /\ ref.blobOffset + ref.blobSize <= Len(data)
         /\ SubSeq(data, ref.blobOffset + 1, ref.blobOffset + ref.blobSize) = c
<1> DEFINE off == ref.blobOffset
           n == Len(c)
           s == SubSeq(data, off + 1, off + n)
<1>1. off \in Nat /\ n \in Nat /\ Len(data) \in Nat /\ ref.blobSize = n /\ off + n <= Len(data)
  BY DEF Ref, Fits
<1>2. \A i \in 1 .. n : data[off + i] = c[i]
  BY DEF Fits
<1> HIDE DEF off
<1>3. Len(s) = n /\ \A i \in 1 .. n : s[i] = data[off + i]
  BY <1>1
<1>4. s \in Seq(Byte)
  BY <1>1
<1> HIDE DEF s
<1>5. \A i \in 1 .. n : s[i] = c[i]
  BY <1>2, <1>3 DEF off
<1>6. s = c
  BY <1>3, <1>4, <1>5
<1>7. QED  BY <1>1, <1>6 DEF s, off

(* On the serial path the IDs of the chunk table are as many as it has *)
(* descriptors.                                                        *)
LEMMA DenseSerial ==
  ASSUME NEW d, NEW m \in Nat, DOMAIN d = 1 .. m, NEW n \in Nat,
         \A i \in DOMAIN d : d[i].id \in 0 .. n - 1,
         \A i, j \in DOMAIN d : d[i].id = d[j].id => i = j,
         \A x \in 0 .. n - 1 : \E i \in DOMAIN d : d[i].id = x
  PROVE  n = m
<1> DEFINE f == [i \in 1 .. m |-> d[i].id]
<1>1. f \in [1 .. m -> 0 .. n - 1]
  OBVIOUS
<1>2. f \in Bijection(1 .. m, 0 .. n - 1)
  BY <1>1 DEF Bijection, Injection, Surjection, IsInjective
<1>3. ExistsBijection(1 .. m, 0 .. n - 1)
  BY <1>2 DEF ExistsBijection
<1>4. IsFiniteSet(1 .. m) /\ Cardinality(1 .. m) = m
  BY FS_Interval
<1>5. Cardinality(0 .. n - 1) = n
  BY FS_Interval
<1>6. QED  BY <1>3, <1>4, <1>5, FS_Bijection

(* Whatever AddEntry and Close have met, if Close returns nil, has skipped  *)
(* no chunk of empty blobs and nothing was torn in the temp file, every     *)
(* entry reads back the content it was added with, whichever path it took   *)
(* to the file, or is refused because a flush of its chunk has failed, or   *)
(* was never placed because of such a failure.                              *)
THEOREM ReadbackAlways == Spec => []Readback
<1>1. TypeOK /\ Placing /\ Ids /\ Mode /\ Control /\ (Healthy => DataOK) => Readback
  <2> SUFFICES ASSUME TypeOK, Placing, Ids, Mode, Control, Healthy => DataOK,
                      closeResult = "nil", skipped = {}, ~TornTmp
               PROVE  /\ Opens
                      /\ chunkOff = Len(tmp)
                      /\ \A i \in DOMAIN entries :
                           \/ Reads(entries[i])
                           \/ entries[i].ref.chunkID \in lost /\ Refused(entries[i])
                           \/ Dropped(entries[i])
    BY DEF Readback
  <2>1. /\ openChunks = {} /\ ~NextInLine /\ ~broken
        /\ pc = "done" /\ work = {} /\ pendingEntries = {}
    BY DEF Control, Placing
  <2>2. FileOK /\ EntriesOK
    BY <2>1 DEF Healthy, DataOK, ChunksOK
  <2>3. /\ chunkDescs \in Seq([id : Nat, off : Nat]) /\ Len(chunkDescs) \in Nat
        /\ DOMAIN chunkDescs = 1 .. Len(chunkDescs)
        /\ nextChunk \in Nat
        /\ tmp \in Seq([whole : BOOLEAN, data : Seq(Byte)])
        /\ DOMAIN tmp = 1 .. Len(tmp)
    BY DEF TypeOK
  <2>4. inFlight = {}
    <3>1. CASE Pipelined
      <4> SUFFICES ASSUME NEW job \in inFlight PROVE FALSE
        OBVIOUS
      <4>1. job.id \in 0 .. nextChunk - 1
            /\ \A i \in DOMAIN chunkDescs : chunkDescs[i].id # job.id
        BY DEF Ids, IdsOK
      <4>2. \A i \in 1 .. Len(chunkDescs) : i - 1 # job.id
        BY <2>2, <2>3, <3>1, <4>1 DEF FileOK
      <4>3. job.id >= Len(chunkDescs)
        <5>1. SUFFICES ASSUME job.id < Len(chunkDescs) PROVE FALSE
          BY <2>3, <4>1
        <5>2. job.id + 1 \in 1 .. Len(chunkDescs) /\ (job.id + 1) - 1 = job.id
          BY <2>3, <4>1, <5>1
        <5>3. QED  BY <4>2, <5>2
      <4>4. Len(chunkDescs) \in 0 .. nextChunk - 1
        BY <2>3, <4>1, <4>3
      <4>5. \A i \in DOMAIN chunkDescs : chunkDescs[i].id # Len(chunkDescs)
        BY <2>2, <2>3, <3>1 DEF FileOK
      <4>6. \E j \in inFlight : j.id = Len(chunkDescs)
        BY <2>1, <4>4, <4>5 DEF Ids, IdsOK
      <4>7. QED  BY <2>1, <4>6 DEF NextInLine
    <3>2. CASE ~Pipelined
      BY <3>2 DEF Mode
    <3>3. QED  BY <3>1, <3>2
  <2>5. Opens
    <3>1. CASE Pipelined
      <4>1. \A i \in 1 .. Len(chunkDescs) : chunkDescs[i].id = i - 1
        BY <2>2, <2>3, <3>1 DEF FileOK
      <4>2. ASSUME NEW x \in 0 .. Len(chunkDescs) - 1
            PROVE  \E i \in DOMAIN chunkDescs : chunkDescs[i].id = x
        <5>1. x + 1 \in 1 .. Len(chunkDescs) /\ (x + 1) - 1 = x
          BY <2>3
        <5>2. QED  BY <2>3, <4>1, <5>1
      <4>3. \A i \in DOMAIN chunkDescs : chunkDescs[i].id \in 0 .. Len(chunkDescs) - 1
        BY <2>3, <4>1
      <4>4. QED  BY <4>2, <4>3 DEF Opens, Range
    <3>2. CASE ~Pipelined
      <4>1. /\ \A i \in DOMAIN chunkDescs : chunkDescs[i].id \in 0 .. nextChunk - 1
            /\ \A i, j \in DOMAIN chunkDescs : chunkDescs[i].id = chunkDescs[j].id => i = j
            /\ \A x \in 0 .. nextChunk - 1 : \E i \in DOMAIN chunkDescs : chunkDescs[i].id = x
        BY <2>1, <2>4 DEF Ids, IdsOK
      <4>2. nextChunk = Len(chunkDescs)
        BY <2>3, <4>1, DenseSerial
      <4>3. QED  BY <4>1, <4>2 DEF Opens, Range
    <3>3. QED  BY <3>1, <3>2
  <2>a. ASSUME NEW k \in DOMAIN chunkDescs
        PROVE  /\ chunkDescs[k].off + 1 = k /\ tmp[k].whole /\ tmp[k].data \in Seq(Byte)
               /\ chunkDescs[k] \in Range(chunkDescs)
    <3>1. k \in 1 .. Len(chunkDescs) /\ k \in DOMAIN tmp
      BY <2>2, <2>3 DEF FileOK
    <3>2. tmp[k] \in [whole : BOOLEAN, data : Seq(Byte)]
      BY <2>3, <3>1, SeqElement
    <3>3. QED  BY <2>2, <3>1, <3>2 DEF FileOK, Range
  <2>6. ASSUME NEW i \in DOMAIN entries, ~Dropped(entries[i])
        PROVE  \/ Reads(entries[i])
               \/ entries[i].ref.chunkID \in lost /\ Refused(entries[i])
    <3> DEFINE e == entries[i]
    <3>1. e.ref \in Ref /\ e.content \in Seq(Byte)
      BY RefTypes, WriterAssumption DEF WriterAssumption
    <3>2. Kept(e.ref, e.content)
      BY <2>1, <2>2, <2>6 DEF EntriesOK
    <3>3. CASE Held(e.ref, e.content)
      <4>1. PICK k \in DOMAIN chunkDescs :
              chunkDescs[k].id = e.ref.chunkID /\ Fits(tmp[k].data, e.ref, e.content)
        BY <2>1, <2>4, <3>3 DEF Held, HeldIn
      <4>2. /\ e.ref.blobOffset + e.ref.blobSize <= Len(tmp[k].data)
            /\ SubSeq(tmp[k].data, e.ref.blobOffset + 1, e.ref.blobOffset + e.ref.blobSize)
                 = e.content
        BY <2>a, <3>1, <4>1, FitsSubSeq
      <4>3. QED  BY <2>a, <4>1, <4>2 DEF Reads
    <3>4. CASE /\ e.ref.chunkID \in lost /\ e.ref.blobSize = Len(e.content)
               /\ e.ref.blobOffset + e.ref.blobSize > 0
      <4>1. \A k \in DOMAIN chunkDescs :
              chunkDescs[k].id = e.ref.chunkID => Len(tmp[chunkDescs[k].off + 1].data) = 0
        BY <2>2, <2>a, <3>4 DEF FileOK
      <4>2. Refused(e)
        BY <3>4, <4>1 DEF Refused, Range
      <4>3. QED  BY <3>4, <4>2
    <3>5. CASE /\ e.ref.chunkID \in lost /\ e.ref.blobSize = Len(e.content)
               /\ ~(e.ref.blobOffset + e.ref.blobSize > 0)
      <4>1. e.ref.blobOffset = 0 /\ e.ref.blobSize = 0 /\ Len(e.content) = 0
        BY <3>1, <3>5 DEF Ref
      <4>2. e.content = <<>>
        BY <3>1, <4>1
      <4>3. e.ref.chunkID \in 0 .. nextChunk - 1
        BY <2>1, <2>3, <3>1, <3>5 DEF Healthy, DataOK, ChunksOK, LostOK, Ref
      <4>4. PICK k \in DOMAIN chunkDescs : chunkDescs[k].id = e.ref.chunkID
        BY <2>1, <2>4, <4>3 DEF Ids, IdsOK
      <4>5. /\ 0 <= Len(tmp[k].data) /\ SubSeq(tmp[k].data, 1, 0) = <<>>
        BY <2>a
      <4>6. /\ e.ref.blobOffset + e.ref.blobSize <= Len(tmp[k].data)
            /\ SubSeq(tmp[k].data, e.ref.blobOffset + 1, e.ref.blobOffset + e.ref.blobSize)
                 = e.content
        BY <4>1, <4>2, <4>5
      <4>7. QED  BY <2>a, <4>4, <4>6 DEF Reads
    <3>6. QED  BY <3>1, <3>2, <3>3, <3>4, <3>5 DEF Kept
  <2>7. QED  BY <2>2, <2>5, <2>6 DEF FileOK
<1>2. QED  BY <1>1, TypeCorrect, StructureInvariant, DataInvariant, PTL

(* Every value of a variable of ChunkWriter has its type. *)
THEOREM TypeAlways == Spec => []TypeOK
  BY TypeCorrect, PTL

-----------------------------------------------------------------------------
(* Without training every entry goes to its chunk, and into the dedup map, *)
(* before the next one is added.                                           *)
OnceOK ==
  /\ trained
  /\ pc # "training"
  /\ \A i, j \in work : i = j
  /\ \A i \in DOMAIN entries :
       IF i \in work
         THEN entries[i].content \notin DOMAIN dedup /\ entries[i].ref = ZeroRef
         ELSE \/ entries[i].ref = ZeroRef
              \/ /\ entries[i].content \in DOMAIN dedup
                 /\ dedup[entries[i].content] = entries[i].ref

LEMMA OnceInvariant ==
  ASSUME ~TrainDict
  PROVE  Spec => []OnceOK
<1>1. Init => OnceOK
  <2> SUFFICES ASSUME Init  PROVE OnceOK
    OBVIOUS
  <2>1. trained
    BY Zenon DEF Init
  <2>2. work = {} /\ entries = <<>> /\ pc # "training"
    BY DEF Init
  <2>3. QED  BY <2>1, <2>2 DEF OnceOK
<1>2. TypeOK /\ Placing /\ Ids /\ Control /\ OnceOK /\ [Next]_vars => OnceOK'
  <2> SUFFICES ASSUME TypeOK, Placing, Ids, Control, OnceOK, [Next]_vars
               PROVE  OnceOK'
    OBVIOUS
  <2>0. /\ entries \in Seq(Entry) /\ Len(entries) \in Nat /\ DOMAIN entries = 1 .. Len(entries)
        /\ work \subseteq DOMAIN entries
    BY RefTypes
  <2>1. ASSUME NEW m \in MimeGroup, NEW c \in Content, AddEntry(m, c)
        PROVE  OnceOK'
    <3>1. work = {} /\ UNCHANGED dedup /\ trained
      BY <2>1 DEF AddEntry, Placing, OnceOK, chunkVars
    <3>2. PICK ref \in Ref :
            /\ AppendEntry(m, c, ref)
            /\ trained' /\ pc' # "training"
            /\ IF c \in DOMAIN dedup THEN ref = dedup[c] /\ work' = {}
                                     ELSE ref = ZeroRef /\ work' = {Len(entries) + 1}
      <4>1. ZeroRef \in Ref
        BY DEF ZeroRef, Ref
      <4>2. QED
        BY <2>1, <3>1, <4>1, RefTypes
        DEF AddEntry, AddDuplicate, AddBuffered, AddDirect, callVars
    <3> DEFINE new == [mime |-> m, content |-> c, ref |-> ref]
    <3>3. new \in Entry /\ new.ref = ref /\ new.content = c
      BY DEF Entry
    <3> HIDE DEF new
    <3>4. /\ DOMAIN entries' = 1 .. Len(entries) + 1
          /\ \A i \in 1 .. Len(entries) : entries'[i] = entries[i]
          /\ entries'[Len(entries) + 1] = new
      BY <2>0, <3>2, <3>3, SeqAppend DEF AppendEntry, new
    <3>5. ASSUME NEW i \in DOMAIN entries'
          PROVE  IF i \in work'
                   THEN entries'[i].content \notin DOMAIN dedup' /\ entries'[i].ref = ZeroRef
                   ELSE \/ entries'[i].ref = ZeroRef
                        \/ /\ entries'[i].content \in DOMAIN dedup'
                           /\ dedup'[entries'[i].content] = entries'[i].ref
      <4>1. CASE i \in DOMAIN entries
        <5>1. i \notin work' /\ entries'[i] = entries[i]
          BY <2>0, <3>2, <3>4, <4>1
        <5>2. QED  BY <3>1, <3>5, <4>1, <5>1 DEF OnceOK
      <4>2. CASE i = Len(entries) + 1
        BY <3>1, <3>2, <3>3, <3>4, <4>2
      <4>3. QED  BY <2>0, <3>4, <4>1, <4>2
    <3>6. QED  BY <3>2, <3>5 DEF OnceOK
  <2>2. CASE FlushStale
    <3>1. UNCHANGED <<entryVars, dedup>>
      BY <2>2 DEF FlushStale
    <3>2. CASE UNCHANGED <<callVars, outcomeVars>>
      BY <3>1, <3>2 DEF entryVars, callVars, outcomeVars, OnceOK
    <3>3. CASE Abandon
      <4>1. pc = "adding"
        BY <2>2 DEF FlushStale, Placing, OnceOK
      <4>2. QED  BY <3>1, <3>3, <4>1 DEF Abandon, Returned, OnceOK, entryVars
    <3>4. QED  BY <2>2, <3>2, <3>3 DEF FlushStale
  <2>3. CASE PlaceBlob
    <3>1. PICK i \in work, old \in ChunkBuilder : PlaceIn(i, old)
      BY <2>3, PlaceBlobIds
    <3> DEFINE c == entries[i].content
               ref == [chunkID |-> old.id, blobOffset |-> old.uncompSize,
                       blobSize |-> Len(c)]
    <3>2. /\ entries' = [entries EXCEPT ![i].ref = ref]
          /\ dedup' = [x \in DOMAIN dedup \union {c} |-> IF x = c THEN ref ELSE dedup[x]]
          /\ trained'
      BY <3>1 DEF PlaceIn, Register, OnceOK
    <3>3. pc = "adding"
      BY DEF Placing, OnceOK
    <3>4. work' = {} /\ pc' # "training"
      BY <3>1, <3>3 DEF PlaceIn, Abandon, Returned, OnceOK
    <3>5. c \in Seq(Byte) /\ ref \in Ref
      <4>1. c \in Seq(Byte)
        BY <2>0, RefTypes, WriterAssumption DEF WriterAssumption
      <4>2. Len(c) \in Nat
        BY <4>1
      <4>3. QED  BY <4>1, <4>2 DEF Ref, ChunkBuilder
    <3> HIDE DEF ref
    <3>6. /\ DOMAIN entries' = DOMAIN entries
          /\ \A j \in DOMAIN entries : j # i => entries'[j] = entries[j]
          /\ entries'[i].ref = ref /\ entries'[i].content = c
      BY <2>0, <3>2, <3>5, SetRef
    <3> HIDE DEF c
    <3>7. ASSUME NEW j \in DOMAIN entries, j # i
          PROVE  \/ entries'[j].ref = ZeroRef
                 \/ /\ entries'[j].content \in DOMAIN dedup'
                    /\ dedup'[entries'[j].content] = entries'[j].ref
      <4>1. j \notin work
        BY <3>7 DEF OnceOK
      <4>2. c \notin DOMAIN dedup
        <5>1. i \in DOMAIN entries
          BY <2>0
        <5>2. entries[i].content \notin DOMAIN dedup
          BY <5>1 DEF OnceOK
        <5>3. QED  BY <5>2 DEF c
      <4>3. CASE /\ entries[j].content \in DOMAIN dedup
                 /\ dedup[entries[j].content] = entries[j].ref
        BY <3>2, <3>6, <3>7, <4>2, <4>3
      <4>4. QED  BY <3>6, <3>7, <4>1, <4>3 DEF OnceOK
    <3>8. /\ entries'[i].content \in DOMAIN dedup'
          /\ dedup'[entries'[i].content] = entries'[i].ref
      BY <3>2, <3>6
    <3>9. QED  BY <3>2, <3>4, <3>6, <3>7, <3>8 DEF OnceOK
  <2>4. CASE CloseBegin
    BY <2>4 DEF CloseBegin, OnceOK, Control, Placing, chunkVars, outcomeVars
  <2>5. CASE CloseFlush \/ CloseDrain \/ CloseSkip
    BY <2>5 DEF CloseFlush, CloseDrain, CloseSkip, OnceOK, entryVars, callVars, chunkVars
  <2>6. CASE PipelineWrite \/ PipelineBreak \/ UNCHANGED vars
    BY <2>6 DEF PipelineWrite, PipelineBreak, OnceOK, vars,
                entryVars, callVars, chunkVars, outcomeVars
  <2>7. QED  BY <2>1, <2>2, <2>3, <2>4, <2>5, <2>6 DEF Next, Terminated
<1>3. QED  BY <1>1, <1>2, TypeCorrect, StructureInvariant, PTL DEF Spec

(* Without dictionary training no content is stored twice: at any time, and *)
(* whatever flushes have failed, placed entries of equal content share one  *)
(* blob.                                                                    *)
THEOREM StoredOnceStreaming ==
  ASSUME ~TrainDict
  PROVE  Spec => []StoredOnce
<1>1. OnceOK => StoredOnce
  BY DEF OnceOK, StoredOnce
<1>2. QED  BY <1>1, OnceInvariant, PTL

-----------------------------------------------------------------------------
(* With training and several workers the writer uses the pipeline as       *)
(* ChunkLog says.  A chunk ID is below MaxEntries because the entries that *)
(* have left the buffers are at least as many as the chunks.               *)
PlacedIn(e, w, p) == DOMAIN e \ (w \union p)

Counted == nextChunk <= Cardinality(PlacedIn(entries, work, pendingEntries))

LogOK == \A i \in DOMAIN chunkDescs : chunkDescs[i].id = i - 1

LEMMA PlacedFinite ==
  ASSUME NEW e \in Seq(Entry), NEW w, NEW p
  PROVE  /\ IsFiniteSet(PlacedIn(e, w, p))
         /\ Cardinality(PlacedIn(e, w, p)) \in Nat
         /\ Cardinality(PlacedIn(e, w, p)) <= Len(e)
<1>1. DOMAIN e = 1 .. Len(e) /\ Len(e) \in Nat
  OBVIOUS
<1>2. IsFiniteSet(1 .. Len(e)) /\ Cardinality(1 .. Len(e)) = Len(e)
  BY <1>1, FS_Interval
<1>3. PlacedIn(e, w, p) \subseteq 1 .. Len(e)
  BY <1>1 DEF PlacedIn
<1>4. QED  BY <1>2, <1>3, FS_Subset, FS_CardinalityType

LEMMA CountedKept ==
  ASSUME TypeOK, TypeOK', Counted, nextChunk' = nextChunk,
         PlacedIn(entries, work, pendingEntries)
           \subseteq PlacedIn(entries', work', pendingEntries')
  PROVE  Counted'
<1>1. entries \in Seq(Entry) /\ entries' \in Seq(Entry) /\ nextChunk \in Nat
  BY DEF TypeOK
<1> DEFINE P == PlacedIn(entries, work, pendingEntries)
           Q == PlacedIn(entries', work', pendingEntries')
<1>2. /\ IsFiniteSet(Q) /\ Cardinality(P) \in Nat /\ Cardinality(Q) \in Nat
  BY <1>1, PlacedFinite
<1> HIDE DEF P, Q
<1>3. Cardinality(P) <= Cardinality(Q)
  BY <1>2, FS_Subset DEF P, Q
<1>4. QED  BY <1>1, <1>2, <1>3 DEF Counted, P, Q

(* A blob that opens a new chunk leaves the buffers.                        *)
LEMMA CountedNew ==
  ASSUME TypeOK, TypeOK', Counted, nextChunk' = nextChunk + 1, NEW i,
         i \notin PlacedIn(entries, work, pendingEntries),
         i \in PlacedIn(entries', work', pendingEntries'),
         PlacedIn(entries, work, pendingEntries)
           \subseteq PlacedIn(entries', work', pendingEntries')
  PROVE  Counted'
<1>1. entries \in Seq(Entry) /\ entries' \in Seq(Entry) /\ nextChunk \in Nat
  BY DEF TypeOK
<1> DEFINE P == PlacedIn(entries, work, pendingEntries)
           Q == PlacedIn(entries', work', pendingEntries')
<1>2. /\ IsFiniteSet(P) /\ IsFiniteSet(Q)
      /\ Cardinality(P) \in Nat /\ Cardinality(Q) \in Nat
  BY <1>1, PlacedFinite
<1> HIDE DEF P, Q
<1>3. IsFiniteSet(P \union {i}) /\ Cardinality(P \union {i}) = Cardinality(P) + 1
  BY <1>2, FS_AddElement DEF P
<1>4. P \union {i} \subseteq Q
  BY DEF P, Q
<1>5. Cardinality(P \union {i}) <= Cardinality(Q)
  BY <1>2, <1>4, FS_Subset
<1>6. QED  BY <1>1, <1>2, <1>3, <1>5 DEF Counted, P, Q

(* What PlaceIn does to the entries and their places. *)
LEMMA PlaceInPlaced ==
  ASSUME TypeOK, Placing, Control, NEW i \in work, NEW old \in ChunkBuilder,
         PlaceIn(i, old)
  PROVE  /\ i \notin PlacedIn(entries, work, pendingEntries)
         /\ i \in PlacedIn(entries', work', pendingEntries')
         /\ PlacedIn(entries, work, pendingEntries)
              \subseteq PlacedIn(entries', work', pendingEntries')
<1>1. DOMAIN entries' = DOMAIN entries /\ i \in DOMAIN entries
  BY DEF PlaceIn, TypeOK
<1>2. pendingEntries = {} /\ pendingEntries' = {}
  BY DEF Placing, Control, PlaceIn
<1>3. work' \subseteq work \ {i}
  BY DEF PlaceIn, Abandon
<1>4. QED  BY <1>1, <1>2, <1>3 DEF PlacedIn

LEMMA LogInvariant ==
  ASSUME Pipelined
  PROVE  Spec => [](Counted /\ LogOK)
<1>1. Init => Counted /\ LogOK
  <2> SUFFICES ASSUME Init  PROVE Counted /\ LogOK
    OBVIOUS
  <2>1. nextChunk = 0 /\ entries \in Seq(Entry) /\ DOMAIN chunkDescs = {}
    BY DEF Init
  <2>2. QED  BY <2>1, PlacedFinite DEF Counted, LogOK
<1>2. /\ TypeOK /\ TypeOK' /\ Placing /\ Ids /\ Mode /\ Control
      /\ Counted /\ LogOK /\ [Next]_vars
      => (Counted /\ LogOK)'
  <2> SUFFICES ASSUME TypeOK, TypeOK', Placing, Ids, Mode, Control, Counted, LogOK,
                      [Next]_vars
               PROVE  Counted' /\ LogOK'
    BY DEF Counted, LogOK
  <2>0. /\ entries \in Seq(Entry) /\ Len(entries) \in Nat
        /\ DOMAIN entries = 1 .. Len(entries)
        /\ openChunks \subseteq ChunkBuilder
    BY DEF TypeOK
  <2>a. ASSUME UNCHANGED <<chunkDescs>>  PROVE LogOK'
    BY <2>a DEF LogOK
  <2>b. ASSUME NEW cb, Store(cb)  PROVE UNCHANGED chunkDescs
    BY <2>b DEF Store
  <2>1. ASSUME NEW m \in MimeGroup, NEW c \in Content, AddEntry(m, c)
        PROVE  Counted' /\ LogOK'
    <3>1. UNCHANGED <<chunkDescs, nextChunk>> /\ work = {}
      BY <2>1 DEF AddEntry, Placing, chunkVars, fileVars
    <3>2. PICK ref : AppendEntry(m, c, ref)
      BY <2>1 DEF AddEntry, AddDuplicate, AddBuffered, AddDirect
    <3>3. /\ Len(entries) + 1 \notin DOMAIN entries
          /\ DOMAIN entries' = DOMAIN entries \union {Len(entries) + 1}
      BY <2>0, <3>2 DEF AppendEntry
    <3>4. /\ work' \subseteq pendingEntries \union {Len(entries) + 1}
          /\ pendingEntries' \subseteq pendingEntries \union {Len(entries) + 1}
      BY <2>1, <3>1
      DEF AddEntry, AddDuplicate, AddBuffered, AddDirect, Train, callVars
    <3>5. PlacedIn(entries, work, pendingEntries)
            \subseteq PlacedIn(entries', work', pendingEntries')
      BY <3>3, <3>4 DEF PlacedIn
    <3>6. QED  BY <2>a, <3>1, <3>5, CountedKept
  <2>2. CASE FlushStale
    <3>1. /\ UNCHANGED <<entries, pendingEntries, nextChunk, chunkDescs>>
          /\ work' \subseteq work
      BY <2>2, <2>b DEF FlushStale, entryVars, callVars, StoreFails, Abandon
    <3>2. PlacedIn(entries, work, pendingEntries)
            \subseteq PlacedIn(entries', work', pendingEntries')
      BY <3>1 DEF PlacedIn
    <3>3. QED  BY <2>a, <3>1, <3>2, CountedKept
  <2>3. CASE PlaceBlob
    <3>1. PICK i \in work, old \in ChunkBuilder :
            PlaceIn(i, old) /\ nextChunk' \in {nextChunk, nextChunk + 1}
      <4>1. PICK i \in work :
              \/ PlaceIn(i, NewChunk(ChunkKey(entries[i]))) /\ nextChunk' = nextChunk + 1
              \/ \E cb \in openChunks : PlaceIn(i, cb) /\ UNCHANGED nextChunk
        BY <2>3 DEF PlaceBlob
      <4>2. NewChunk(ChunkKey(entries[i])) \in ChunkBuilder
        <5>1. entries[i] \in Entry
          BY DEF TypeOK
        <5>2. QED  BY <5>1, KeyType, NewChunkType DEF TypeOK
      <4>3. QED  BY <2>0, <4>1, <4>2
    <3>2. UNCHANGED chunkDescs
      BY <3>1, <2>b DEF PlaceIn, StoreFails, fileVars
    <3>3. Counted'
      BY <3>1, PlaceInPlaced, CountedKept, CountedNew
    <3>4. QED  BY <2>a, <3>2, <3>3
  <2>4. CASE CloseBegin
    <3>1. /\ UNCHANGED <<entries, nextChunk, chunkDescs>> /\ work = {}
          /\ work' \subseteq pendingEntries /\ pendingEntries' \subseteq pendingEntries
      BY <2>4 DEF CloseBegin, Train, Placing, chunkVars, fileVars
    <3>2. PlacedIn(entries, work, pendingEntries)
            \subseteq PlacedIn(entries', work', pendingEntries')
      BY <3>1 DEF PlacedIn
    <3>3. QED  BY <2>a, <3>1, <3>2, CountedKept
  <2>5. CASE \/ CloseFlush \/ CloseSkip \/ CloseDrain \/ PipelineBreak
             \/ UNCHANGED vars
    <3>1. UNCHANGED <<entries, work, pendingEntries, nextChunk, chunkDescs>>
      BY <2>5, <2>b
      DEF CloseFlush, CloseSkip, CloseDrain, PipelineBreak, StoreFails,
          vars, callVars, entryVars, chunkVars, fileVars
    <3>2. QED  BY <2>a, <3>1 DEF Counted
  <2>6. CASE PipelineWrite
    <3>1. UNCHANGED <<entries, work, pendingEntries, nextChunk>>
      BY <2>6 DEF PipelineWrite, callVars, entryVars, chunkVars
    <3>2. PICK job \in inFlight :
            /\ job.id = Len(chunkDescs)
            /\ chunkDescs' = Append(chunkDescs, [id |-> job.id, off |-> chunkOff])
      BY <2>6 DEF PipelineWrite
    <3> DEFINE desc == [id |-> job.id, off |-> chunkOff]
    <3>3. /\ desc \in [id : Nat, off : Nat] /\ desc.id = job.id
          /\ chunkDescs \in Seq([id : Nat, off : Nat])
      BY DEF TypeOK
    <3> HIDE DEF desc
    <3>4. /\ DOMAIN chunkDescs = 1 .. Len(chunkDescs) /\ Len(chunkDescs) \in Nat
          /\ DOMAIN chunkDescs' = 1 .. Len(chunkDescs) + 1
          /\ \A k \in 1 .. Len(chunkDescs) : chunkDescs'[k] = chunkDescs[k]
          /\ chunkDescs'[Len(chunkDescs) + 1] = desc
      BY <3>2, <3>3, SeqAppend DEF desc
    <3>5. LogOK'
      BY <3>2, <3>3, <3>4 DEF LogOK
    <3>6. QED  BY <3>1, <3>5 DEF Counted
  <2>7. QED  BY <2>1, <2>2, <2>3, <2>4, <2>5, <2>6 DEF Next, Terminated
<1>3. QED  BY <1>1, <1>2, TypeCorrect, StructureInvariant, PTL DEF Spec

LEMMA SeqEqual ==
  ASSUME NEW S, NEW s \in Seq(S), NEW t \in Seq(S), Len(s) = Len(t),
         \A i \in 1 .. Len(s) : s[i] = t[i]
  PROVE  s = t
OBVIOUS

(* The log of ChunkLog: its length and elements. *)
LEMMA LogSeq ==
  ASSUME NEW d \in Seq([id : Nat, off : Nat]), NEW e \in [id : Nat, off : Nat]
  PROVE  /\ [i \in DOMAIN d |-> d[i].id] \in Seq(Nat)
         /\ Len([i \in DOMAIN d |-> d[i].id]) = Len(d)
         /\ [i \in DOMAIN Append(d, e) |-> Append(d, e)[i].id]
              = Append([i \in DOMAIN d |-> d[i].id], e.id)
<1>1. /\ DOMAIN d = 1 .. Len(d) /\ Len(d) \in Nat
      /\ \A i \in DOMAIN d : d[i].id \in Nat
  <2>1. \A i \in DOMAIN d : d[i] \in [id : Nat, off : Nat]
    BY SeqElement
  <2>2. QED  BY <2>1
<1> DEFINE l == [i \in DOMAIN d |-> d[i].id]
           m == [i \in DOMAIN Append(d, e) |-> Append(d, e)[i].id]
<1>2. l \in Seq(Nat) /\ Len(l) = Len(d)
  BY <1>1
<1>3. /\ DOMAIN Append(d, e) = 1 .. Len(d) + 1
      /\ \A i \in 1 .. Len(d) : Append(d, e)[i] = d[i]
      /\ Append(d, e)[Len(d) + 1] = e
  BY SeqAppend
<1>4. /\ Append(l, e.id) \in Seq(Nat)
      /\ Len(Append(l, e.id)) = Len(d) + 1
      /\ \A i \in 1 .. Len(d) : Append(l, e.id)[i] = l[i]
      /\ Append(l, e.id)[Len(d) + 1] = e.id
  BY <1>2
<1>5. /\ m \in Seq(Nat) /\ Len(m) = Len(d) + 1
      /\ \A i \in 1 .. Len(d) : m[i] = d[i].id
      /\ m[Len(d) + 1] = e.id
  BY <1>1, <1>3
<1>6. \A i \in 1 .. Len(d) : l[i] = d[i].id
  BY <1>1
<1> HIDE DEF l, m
<1>7. m = Append(l, e.id)
  <2>1. \A i \in 1 .. Len(d) : m[i] = Append(l, e.id)[i]
    BY <1>4, <1>5, <1>6
  <2>2. m[Len(d) + 1] = Append(l, e.id)[Len(d) + 1]
    BY <1>4, <1>5
  <2>3. \A i \in 1 .. Len(d) + 1 : i \in 1 .. Len(d) \/ i = Len(d) + 1
    BY <1>1
  <2>4. \A i \in 1 .. Len(d) + 1 : m[i] = Append(l, e.id)[i]
    BY <2>1, <2>2, <2>3
  <2>5. QED  BY <1>4, <1>5, <2>4, SeqEqual
<1>8. QED  BY <1>2, <1>7 DEF l, m

LEMMA SubmitStep ==
  ASSUME Pipelined, TypeOK, NEW cb \in ChunkBuilder, Store(cb),
         cb.id \in 0 .. MaxEntries - 1,
         \A job \in inFlight : job.id # cb.id,
         \A i \in DOMAIN chunkDescs : chunkDescs[i].id # cb.id,
         closeResult = "none", closeResult' = "none"
  PROVE  Log!Next
<1> DEFINE new == [id |-> cb.id, data |-> cb.data]
<1>1. /\ inFlight' = inFlight \union {new} /\ new.id = cb.id
      /\ UNCHANGED <<chunkDescs, broken>>
  BY DEF Store
<1> HIDE DEF new
<1>2. {job.id : job \in inFlight'} = {job.id : job \in inFlight} \union {cb.id}
  BY <1>1
<1>3. Log!Submit(cb.id)
  BY <1>1, <1>2 DEF Log!Submit, Range
<1>4. QED  BY <1>3 DEF Log!Next

(* The pipelined writer implements ChunkLog: it dispatches each chunk ID *)
(* once, and Close waits for the verdict.                                *)
THEOREM WriterUsesLog ==
  ASSUME Pipelined
  PROVE  Spec => UsesLog
<1>1. Init => Log!Init
  BY DEF Init, Log!Init, Range
<1>2. /\ TypeOK /\ Placing /\ Ids /\ Ids' /\ Mode /\ Control /\ Control'
      /\ Counted' /\ TypeOK' /\ LogOK /\ [Next]_vars
      => [Log!Next]_(Log!vars)
  <2> SUFFICES ASSUME TypeOK, Placing, Ids, Ids', Mode, Control, Control',
                      Counted', TypeOK', LogOK, [Next]_vars
               PROVE  [Log!Next]_(Log!vars)
    OBVIOUS
  <2>0. /\ openChunks \subseteq ChunkBuilder
        /\ chunkDescs \in Seq([id : Nat, off : Nat])
        /\ closeResult \in {"none", "nil", "error"}
    BY DEF TypeOK
  <2>1. CASE UNCHANGED <<inFlight, chunkDescs, broken, closeResult>>
    BY <2>1 DEF Log!vars
  <2>2. ASSUME NEW cb \in ChunkBuilder, Store(cb), NEW n \in Nat, nextChunk' = n,
               NEW o, NEW k, cb.id \in {a.id : a \in o},
               IdsOK(o, inFlight, chunkDescs, n, k),
               closeResult = "none", closeResult' = "none"
        PROVE  Log!Next
    <3>1. n <= MaxEntries
      <4>1. entries' \in Seq(Entry) /\ Len(entries') <= MaxEntries /\ Len(entries') \in Nat
        BY DEF TypeOK
      <4>2. QED  BY <2>2, <4>1, PlacedFinite, WriterAssumption DEF Counted, WriterAssumption
    <3>2. cb.id \in 0 .. MaxEntries - 1
      BY <2>2, <3>1, WriterAssumption DEF IdsOK, WriterAssumption
    <3>3. /\ \A job \in inFlight : job.id # cb.id
          /\ \A i \in DOMAIN chunkDescs : chunkDescs[i].id # cb.id
      BY <2>2 DEF IdsOK
    <3>4. QED  BY <2>2, <3>2, <3>3, SubmitStep
  <2>3. CASE FlushStale
    <3>1. PICK cb \in openChunks : Store(cb) /\ UNCHANGED <<callVars, outcomeVars, nextChunk>>
      BY <2>3 DEF FlushStale, StoreFails
    <3>2. closeResult = "none" /\ closeResult' = "none"
      BY <2>3, <3>1 DEF FlushStale, Placing, Control, outcomeVars
    <3>3. QED  BY <2>0, <2>2, <3>1, <3>2 DEF Ids, TypeOK
  <2>4. CASE PlaceBlob
    <3>1. PICK i \in work, old \in ChunkBuilder :
            /\ PlaceIn(i, old)
            /\ nextChunk' \in Nat
            /\ IdsOK(openChunks \union {old}, inFlight, chunkDescs, nextChunk', skipped)
      BY <2>4, PlaceBlobIds
    <3>2. closeResult = "none" /\ closeResult' = closeResult
      BY <3>1 DEF Placing, Control, PlaceIn, Abandon, outcomeVars
    <3> DEFINE cb == AddBlob(old, entries[i].content)
    <3>3. CASE UNCHANGED fileVars
      BY <2>1, <3>2, <3>3 DEF fileVars
    <3>4. CASE Store(cb)
      <4>1. cb \in ChunkBuilder /\ cb.id = old.id
        <5>1. entries[i] \in Entry
          BY DEF TypeOK
        <5>2. entries[i].content \in Seq(Byte)
          BY <5>1, WriterAssumption DEF Entry, WriterAssumption
        <5>3. QED  BY <5>2, AddBlobType
      <4>2. cb.id \in {a.id : a \in openChunks \union {old}}
        BY <4>1
      <4> HIDE DEF cb
      <4>3. QED  BY <2>2, <3>1, <3>2, <3>4, <4>1, <4>2
    <3>5. QED  BY <3>1, <3>3, <3>4 DEF PlaceIn, StoreFails
  <2>5. CASE CloseFlush
    <3>1. PICK cb \in openChunks :
            Store(cb) /\ UNCHANGED <<closeResult, nextChunk>>
      BY <2>5 DEF CloseFlush, StoreFails
    <3>2. closeResult = "none" /\ closeResult' = "none"
      BY <2>5, <3>1 DEF CloseFlush, Control
    <3>3. QED  BY <2>0, <2>2, <3>1, <3>2 DEF Ids, TypeOK
  <2>6. CASE CloseDrain
    <3>1. /\ UNCHANGED <<inFlight, chunkDescs, broken>>
          /\ closeResult = "none"
          /\ closeResult' = IF broken THEN "error" ELSE "nil"
          /\ broken \/ ~NextInLine
      BY <2>6 DEF CloseDrain, fileVars, Control
    <3>2. /\ Len([i \in DOMAIN chunkDescs |-> chunkDescs[i].id]) = Len(chunkDescs)
          /\ Len(chunkDescs) \in Nat /\ DOMAIN chunkDescs = 1 .. Len(chunkDescs)
      BY <2>0, LogSeq
    <3>3. Len(chunkDescs) \notin {d.id : d \in Range(chunkDescs)}
      BY <3>2 DEF LogOK, Range
    <3>4. Log!Report
      BY <3>1, <3>2, <3>3 DEF Log!Report, NextInLine
    <3>5. QED  BY <3>4 DEF Log!Next
  <2>7. CASE PipelineWrite
    <3>1. PICK job \in inFlight :
            /\ job.id = Len(chunkDescs)
            /\ inFlight' = inFlight \ {job}
            /\ chunkDescs' = Append(chunkDescs, [id |-> job.id, off |-> chunkOff])
      BY <2>7 DEF PipelineWrite
    <3>2. /\ ~broken /\ broken' = broken
          /\ closeResult = "none" /\ closeResult' = "none"
      BY <2>7 DEF PipelineWrite, Control, outcomeVars
    <3> DEFINE desc == [id |-> job.id, off |-> chunkOff]
    <3>3. desc \in [id : Nat, off : Nat] /\ desc.id = job.id
      BY DEF TypeOK
    <3>a. chunkDescs' = Append(chunkDescs, desc)
      BY <3>1
    <3> HIDE DEF desc
    <3>4. /\ [i \in DOMAIN chunkDescs' |-> chunkDescs'[i].id]
               = Append([i \in DOMAIN chunkDescs |-> chunkDescs[i].id], job.id)
          /\ Len([i \in DOMAIN chunkDescs |-> chunkDescs[i].id]) = job.id
      BY <2>0, <3>1, <3>3, <3>a, LogSeq
    <3>5. Range(chunkDescs') = Range(chunkDescs) \union {desc}
      <4>1. /\ DOMAIN chunkDescs = 1 .. Len(chunkDescs) /\ Len(chunkDescs) \in Nat
            /\ DOMAIN chunkDescs' = 1 .. Len(chunkDescs) + 1
            /\ \A k \in 1 .. Len(chunkDescs) : chunkDescs'[k] = chunkDescs[k]
            /\ chunkDescs'[Len(chunkDescs) + 1] = desc
        BY <2>0, <3>3, <3>a, SeqAppend
      <4>2. QED  BY <4>1 DEF Range
    <3>6. \A l \in inFlight : l # job => l.id # job.id
      BY DEF Ids, IdsOK
    <3>7. {l.id : l \in inFlight'} \union {d.id : d \in Range(chunkDescs')}
            = {l.id : l \in inFlight} \union {d.id : d \in Range(chunkDescs)}
      BY <3>1, <3>3, <3>5
    <3>8. Log!AppendNext
      BY <3>1, <3>2, <3>4, <3>7 DEF Log!AppendNext
    <3>9. QED  BY <3>8 DEF Log!Next
  <2>8. CASE PipelineBreak
    <3>1. /\ broken' = TRUE /\ UNCHANGED <<inFlight, chunkDescs>>
          /\ closeResult = "none" /\ closeResult' = "none"
      BY <2>8 DEF PipelineBreak, Control, outcomeVars
    <3>2. PICK job \in inFlight : TRUE
      BY <2>8 DEF PipelineBreak
    <3>3. \A i \in DOMAIN chunkDescs : chunkDescs[i].id # job.id
      BY <3>2 DEF Ids, IdsOK
    <3>4. Log!Break
      BY <3>1, <3>2, <3>3 DEF Log!Break
    <3>5. QED  BY <3>4 DEF Log!Next
  <2>9. CASE (\E m \in MimeGroup, c \in Content : AddEntry(m, c))
             \/ CloseBegin \/ CloseSkip \/ UNCHANGED vars
    BY <2>1, <2>9 DEF AddEntry, CloseBegin, CloseSkip, vars, fileVars, outcomeVars
  <2>10. QED
    BY <2>3, <2>4, <2>5, <2>6, <2>7, <2>8, <2>9 DEF Next, Terminated
<1>3. QED
  BY <1>1, <1>2, TypeCorrect, StructureInvariant, LogInvariant, PTL
  DEF Spec, UsesLog, Log!Spec
=============================================================================
