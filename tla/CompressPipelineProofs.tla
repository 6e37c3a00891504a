----------------------- MODULE CompressPipelineProofs -----------------------
(***************************************************************************)
(* Proofs about CompressPipeline, for every set of workers and keys, every *)
(* chunk size and every number of chunks.                                  *)
(***************************************************************************)
EXTENDS CompressPipeline, FiniteSetTheorems, TLAPS

(* What the channel operations do to the set of elements in a channel. *)
LEMMA RangeAppend ==
  ASSUME NEW S, NEW s \in Seq(S), NEW e \in S
  PROVE  Range(Append(s, e)) = Range(s) \union {e}
<1>1. /\ DOMAIN Append(s, e) = 1 .. Len(s) + 1
      /\ \A i \in 1 .. Len(s) : Append(s, e)[i] = s[i]
      /\ Append(s, e)[Len(s) + 1] = e
  OBVIOUS
<1>2. DOMAIN s = 1 .. Len(s) /\ Len(s) \in Nat
  OBVIOUS
<1>3. 1 .. Len(s) + 1 = (1 .. Len(s)) \union {Len(s) + 1}
  BY <1>2
<1>4. QED  BY <1>1, <1>2, <1>3 DEF Range

LEMMA RangeTail ==
  ASSUME NEW S, NEW s \in Seq(S), s # <<>>
  PROVE  /\ Head(s) \in S
         /\ Tail(s) \in Seq(S)
         /\ Range(s) = Range(Tail(s)) \union {Head(s)}
<1>1. /\ Len(s) \in Nat \ {0}
      /\ Head(s) = s[1]
      /\ Head(s) \in S
      /\ Tail(s) \in Seq(S)
      /\ DOMAIN s = 1 .. Len(s)
      /\ DOMAIN Tail(s) = 1 .. Len(s) - 1
      /\ \A i \in 1 .. Len(s) - 1 : Tail(s)[i] = s[i + 1]
  OBVIOUS
<1>2. \A j \in 1 .. Len(s) : j = 1 \/ (j - 1 \in 1 .. Len(s) - 1 /\ s[j] = Tail(s)[j - 1])
  BY <1>1
<1>3. \A i \in 1 .. Len(s) - 1 : i + 1 \in 1 .. Len(s)
  BY <1>1
<1>4. ASSUME NEW x \in Range(s)  PROVE x \in Range(Tail(s)) \union {Head(s)}
  <2>1. PICK j \in 1 .. Len(s) : x = s[j]
    BY <1>1 DEF Range
  <2>2. CASE j = 1
    BY <1>1, <2>1, <2>2
  <2>3. CASE j - 1 \in 1 .. Len(s) - 1 /\ s[j] = Tail(s)[j - 1]
    BY <1>1, <2>1, <2>3 DEF Range
  <2>4. QED  BY <1>2, <2>2, <2>3
<1>5. Range(Tail(s)) \union {Head(s)} \subseteq Range(s)
  BY <1>1, <1>3 DEF Range
<1>6. QED  BY <1>1, <1>4, <1>5

(* The variables of the pipeline keep their types: whatever is open, in a    *)
(* channel, with a worker, pending or written is a chunk ID within the bound *)
(* (pipeline.go:119-209, compress.go:239-351).                               *)
THEOREM TypeAlways == Spec => []TypeOK
<1> USE PipelineAssumption DEF PipelineAssumption
<1>1. Init => TypeOK
  <2> SUFFICES ASSUME Init PROVE TypeOK
    OBVIOUS
  <2>1. nextChunk \in 0 .. MaxChunks
    BY DEF Init
  <2>2. job \in [Worker -> SUBSET ChunkID]
    BY DEF Init
  <2>3. compressIn \in Seq(ChunkID) /\ compressOut \in Seq(Result) /\ chunkDescs \in Seq(ChunkID)
    BY DEF Init
  <2>4. QED  BY <2>1, <2>2, <2>3 DEF Init, TypeOK, Error
<1>2. TypeOK /\ [Next]_vars => TypeOK'
  <2> SUFFICES ASSUME TypeOK, [Next]_vars  PROVE TypeOK'
    OBVIOUS
  <2> USE DEF TypeOK, callerVars, channelVars, workerVars, writerVars
  <2>1. ASSUME NEW k \in Key, NEW size \in BlobSize, AddToNewChunk(k, size)
        PROVE  TypeOK'
    <3> DEFINE new == [key |-> k, id |-> nextChunk, uncompSize |-> 0]
    <3>a. nextChunk \in ChunkID /\ new \in ChunkBuilder
      BY <2>1 DEF AddToNewChunk, ChunkBuilder, ChunkID
    <3>1. Grow(new, size) \in ChunkBuilder
      BY <3>a DEF Grow, ChunkBuilder, BlobSize
    <3>2. openChunks' \subseteq ChunkBuilder
      BY <2>1, <3>1 DEF AddToNewChunk
    <3>3. nextChunk' \in 0 .. MaxChunks
      BY <2>1 DEF AddToNewChunk
    <3>4. pc' \in {"idle", "sending"}
      BY <2>1 DEF AddToNewChunk, AfterBlob
    <3>5. QED  BY <2>1, <3>2, <3>3, <3>4 DEF AddToNewChunk
  <2>2. ASSUME NEW cb \in openChunks, NEW size \in BlobSize, AddToOpenChunk(cb, size)
        PROVE  TypeOK'
    <3>1. Grow(cb, size) \in ChunkBuilder
      BY DEF Grow, ChunkBuilder, BlobSize
    <3>2. openChunks' \subseteq ChunkBuilder
      BY <2>2, <3>1 DEF AddToOpenChunk
    <3>4. pc' \in {"idle", "sending"}
      BY <2>2 DEF AddToOpenChunk, AfterBlob
    <3>5. QED  BY <2>2, <3>2, <3>4 DEF AddToOpenChunk
  <2>3. ASSUME NEW cb \in openChunks, SendJob(cb)
        PROVE  /\ compressIn' \in Seq(ChunkID)
               /\ openChunks' \subseteq ChunkBuilder
               /\ sent' \subseteq ChunkID
    <3>1. cb.id \in ChunkID  BY DEF ChunkBuilder
    <3>2. QED  BY <2>3, <3>1 DEF SendJob
  <2>4. CASE Dispatch
    BY <2>3, <2>4 DEF Dispatch
  <2>5. CASE CloseBegin
    BY <2>5 DEF CloseBegin
  <2>6. CASE CloseFlush
    BY <2>3, <2>6 DEF CloseFlush
  <2>7. CASE CloseSkip
    BY <2>7 DEF CloseSkip
  <2>8. CASE CloseIn
    BY <2>8 DEF CloseIn
  <2>9. CASE AwaitWriter
    BY <2>9 DEF AwaitWriter
  <2>10. ASSUME NEW w \in Worker, TakeJob(w)
         PROVE  TypeOK'
    <3>1. Head(compressIn) \in ChunkID /\ Tail(compressIn) \in Seq(ChunkID)
      BY <2>10, RangeTail DEF TakeJob
    <3>2. QED  BY <2>10, <3>1 DEF TakeJob
  <2>11. ASSUME NEW w \in Worker, NEW err \in {"nil", "compress"}, SendResult(w, err)
         PROVE  TypeOK'
    <3>1. compressOut' \in Seq(Result)
      BY <2>11 DEF SendResult, Result
    <3>2. QED  BY <2>11, <3>1 DEF SendResult
  <2>12. ASSUME NEW w \in Worker, WorkerExit(w)
         PROVE  TypeOK'
    BY <2>12 DEF WorkerExit
  <2>13. CASE CloseOut
    BY <2>13 DEF CloseOut
  <2>14. CASE Receive
    <3>1. Head(compressOut) \in Result /\ Tail(compressOut) \in Seq(Result)
      BY <2>14, RangeTail DEF Receive
    <3>2. firstErr' \in Error /\ pending' \subseteq ChunkID
      BY <2>14, <3>1 DEF Receive, Result, Error
    <3>3. QED  BY <2>14, <3>1, <3>2 DEF Receive
  <2>15. CASE WriteChunk
    <3>1. nextExpected \in ChunkID
      BY <2>15 DEF WriteChunk, Draining
    <3>2. QED  BY <2>15, <3>1 DEF WriteChunk
  <2>16. CASE WriteFails
    BY <2>16 DEF WriteFails, Error
  <2>17. CASE WriterExit
    BY <2>17 DEF WriterExit
  <2>18. CASE Terminated \/ UNCHANGED vars
    BY <2>18 DEF Terminated, vars
  <2>19. QED
    BY <2>1, <2>2, <2>4, <2>5, <2>6, <2>7, <2>8, <2>9, <2>10, <2>11, <2>12,
       <2>13, <2>14, <2>15, <2>16, <2>17, <2>18
       DEF Next, Caller, WorkerStep, WriterStep
<1>3. QED  BY <1>1, <1>2, PTL DEF Spec
-----------------------------------------------------------------------------
(* The order in which the goroutines end: the caller closes the job channel, *)
(* the workers leave, the result channel is closed, the writer reports.      *)
Shutdown ==
  /\ inClosed <=> pc \in {"draining", "done"}
  /\ exited # {} => inClosed /\ compressIn = <<>>
  /\ \A w \in exited : job[w] = {}
  /\ outClosed => exited = Worker
  /\ writerDone # "empty" => /\ outClosed
                            /\ compressOut = <<>>
                            /\ ~Draining
                            /\ writerDone = firstErr
  /\ pc = "done" => writerDone # "empty" /\ closeErr = writerDone

LEMMA WorkerNonEmpty == Worker # {}
BY PipelineAssumption, FS_EmptySet DEF PipelineAssumption

LEMMA ShutdownInvariant == Spec => []Shutdown
<1>1. Init => Shutdown
  BY DEF Init, Shutdown
<1>2. TypeOK /\ Shutdown /\ [Next]_vars => Shutdown'
  <2> SUFFICES ASSUME TypeOK, Shutdown, [Next]_vars  PROVE Shutdown'
    OBVIOUS
  <2> USE DEF Shutdown, callerVars, channelVars, workerVars, writerVars
  <2> DEFINE busy == pc \in {"idle", "sending", "closing"}
  <2>0. /\ busy => ~inClosed /\ exited = {} /\ ~outClosed /\ writerDone = "empty"
        /\ pc = "draining" => inClosed
    BY WorkerNonEmpty
  <2>1. ASSUME busy,
               pc' \in {"idle", "sending", "closing"},
               inClosed' = inClosed,
               UNCHANGED <<workerVars, outClosed, writerDone>>
        PROVE  Shutdown'
    BY <2>0, <2>1
  <2>2. ASSUME NEW k \in Key, NEW size \in BlobSize, AddToNewChunk(k, size)
        PROVE  Shutdown'
    BY <2>1, <2>2 DEF AddToNewChunk, AfterBlob
  <2>3. ASSUME NEW cb \in openChunks, NEW size \in BlobSize, AddToOpenChunk(cb, size)
        PROVE  Shutdown'
    BY <2>1, <2>3 DEF AddToOpenChunk, AfterBlob
  <2>4. CASE Dispatch
    BY <2>1, <2>4 DEF Dispatch
  <2>5. CASE CloseBegin
    BY <2>1, <2>5 DEF CloseBegin
  <2>6. CASE CloseFlush
    BY <2>1, <2>6 DEF CloseFlush
  <2>7. CASE CloseSkip
    BY <2>1, <2>7 DEF CloseSkip
  <2>8. CASE CloseIn
    BY <2>0, <2>8 DEF CloseIn
  <2>9. CASE AwaitWriter
    BY <2>0, <2>9 DEF AwaitWriter, Draining, nextExpected
  <2>10. ASSUME NEW w \in Worker, TakeJob(w)
         PROVE  Shutdown'
    <3>1. w \notin exited /\ exited = {} /\ ~outClosed /\ writerDone = "empty"
      BY <2>10, WorkerNonEmpty DEF TakeJob
    <3>2. QED  BY <2>10, <3>1 DEF TakeJob
  <2>11. ASSUME NEW w \in Worker, NEW err \in {"nil", "compress"}, SendResult(w, err)
         PROVE  Shutdown'
    <3>1. w \notin exited /\ ~outClosed /\ writerDone = "empty"
      BY <2>11 DEF SendResult
    <3>2. \A v \in exited : job'[v] = job[v]
      BY <2>11, <3>1 DEF SendResult, TypeOK
    <3>3. QED  BY <2>11, <3>1, <3>2 DEF SendResult
  <2>12. ASSUME NEW w \in Worker, WorkerExit(w)
         PROVE  Shutdown'
    BY <2>12 DEF WorkerExit, Draining, nextExpected
  <2>13. CASE CloseOut
    BY <2>13 DEF CloseOut
  <2>14. CASE Receive \/ WriteChunk \/ WriteFails
    <3>1. writerDone = "empty"
      BY <2>14 DEF Receive, WriteChunk, WriteFails
    <3>2. QED  BY <2>14, <3>1 DEF Receive, WriteChunk, WriteFails
  <2>15. CASE WriterExit
    BY <2>0, <2>15 DEF WriterExit, Draining, nextExpected, TypeOK, Error
  <2>16. CASE Terminated \/ UNCHANGED vars
    BY <2>16 DEF Terminated, vars, Draining, nextExpected
  <2>17. QED
    BY <2>2, <2>3, <2>4, <2>5, <2>6, <2>7, <2>8, <2>9, <2>10, <2>11, <2>12,
       <2>13, <2>14, <2>15, <2>16
       DEF Next, Caller, WorkerStep, WriterStep
<1>3. QED  BY <1>1, <1>2, TypeAlways, PTL DEF Spec

(* The check for an early error in flushChunk never finds one. *)
THEOREM NoEarlyErrorEver == Spec => []NoEarlyError
<1>1. TypeOK /\ Shutdown => NoEarlyError
  <2> SUFFICES ASSUME TypeOK, Shutdown, writerDone # "empty"
               PROVE  pc \notin {"idle", "sending", "closing"}
    BY DEF NoEarlyError
  <2>1. exited # {} /\ inClosed
    BY WorkerNonEmpty DEF Shutdown
  <2>2. QED  BY <2>1 DEF Shutdown
<1>2. QED  BY <1>1, TypeAlways, ShutdownInvariant, PTL

(* Close reads the chunk table only when no goroutine writes it any more. *)
THEOREM DescsFrozenAfterClose == Spec => DescsFrozen
<1>1. Shutdown /\ [Next]_vars => [pc = "done" => UNCHANGED <<chunkDescs, pending>>]_vars
  <2> SUFFICES ASSUME Shutdown, [Next]_vars, pc = "done"
               PROVE  UNCHANGED <<chunkDescs, pending>>
    OBVIOUS
  <2>1. compressOut = <<>> /\ ~Draining
    BY DEF Shutdown
  <2>2. QED
    BY <2>1 DEF Next, Caller, WorkerStep, WriterStep, AddToNewChunk, AddToOpenChunk,
         Dispatch, CloseBegin, CloseFlush, CloseSkip, CloseIn, AwaitWriter, TakeJob,
         SendResult, WorkerExit, CloseOut, Receive, WriteChunk, WriteFails, WriterExit,
         Terminated, vars, callerVars, channelVars, workerVars, writerVars
<1>2. QED  BY <1>1, ShutdownInvariant, PTL DEF Spec, DescsFrozen
-----------------------------------------------------------------------------
(* How each hand-over moves a chunk from one place to the next. *)
LEMMA SendJobMoves ==
  ASSUME TypeOK, NEW cb \in openChunks, SendJob(cb)
  PROVE  InQueue' = InQueue \union {cb.id}
<1>1. cb.id \in ChunkID
  BY DEF TypeOK, ChunkBuilder
<1>2. QED  BY <1>1, RangeAppend DEF SendJob, InQueue, TypeOK

LEMMA TakeJobMoves ==
  ASSUME TypeOK, NEW w \in Worker, TakeJob(w)
  PROVE  /\ InQueue = InQueue' \union {Head(compressIn)}
         /\ InWorker' = InWorker \union {Head(compressIn)}
<1>1. InQueue = InQueue' \union {Head(compressIn)}
  BY RangeTail DEF TakeJob, InQueue, TypeOK
<1>2. /\ job' = [job EXCEPT ![w] = {Head(compressIn)}]
      /\ job \in [Worker -> SUBSET ChunkID]
      /\ job[w] = {}
  BY DEF TakeJob, TypeOK
<1>3. InWorker' = InWorker \union {Head(compressIn)}
  BY <1>2 DEF InWorker
<1>4. QED  BY <1>1, <1>3

LEMMA SendResultMoves ==
  ASSUME TypeOK, NEW w \in Worker, NEW err \in {"nil", "compress"}, SendResult(w, err)
  PROVE  \E c \in job[w] :
           /\ InResult' = InResult \union {c}
           /\ \A d \in InWorker : d \in InWorker' \/ d \in job[w]
           /\ \A d \in InWorker' : \E v \in Worker \ {w} : d \in job[v]
           /\ compressOut' = Append(compressOut, [chunkID |-> c, err |-> err])
<1>1. PICK c \in job[w] : compressOut' = Append(compressOut, [chunkID |-> c, err |-> err])
  BY DEF SendResult
<1>2. /\ compressOut \in Seq(Result)
      /\ [chunkID |-> c, err |-> err] \in Result
  BY <1>1 DEF TypeOK, Result
<1>3. Range(compressOut') = Range(compressOut) \union {[chunkID |-> c, err |-> err]}
  BY <1>1, <1>2, RangeAppend
<1>4. InResult' = InResult \union {c}
  <2>1. [chunkID |-> c, err |-> err].chunkID = c
    OBVIOUS
  <2>2. InResult' \subseteq InResult \union {c}
    BY <1>3, <2>1 DEF InResult
  <2>3. InResult \subseteq InResult' /\ c \in InResult'
    BY <1>3, <2>1 DEF InResult
  <2>4. QED  BY <2>2, <2>3
<1>5. /\ job' = [job EXCEPT ![w] = {}]
      /\ job \in [Worker -> SUBSET ChunkID]
  BY DEF SendResult, TypeOK
<1>6. \A d \in InWorker : d \in InWorker' \/ d \in job[w]
  BY <1>5 DEF InWorker
<1>7. \A d \in InWorker' : \E v \in Worker \ {w} : d \in job[v]
  BY <1>5 DEF InWorker
<1>8. QED  BY <1>1, <1>4, <1>6, <1>7

LEMMA ReceiveMoves ==
  ASSUME TypeOK, Receive
  PROVE  /\ Head(compressOut) \in Result
         /\ InResult = InResult' \union {Head(compressOut).chunkID}
<1>1. /\ Range(compressOut) = Range(compressOut') \union {Head(compressOut)}
      /\ Head(compressOut) \in Result
  BY RangeTail DEF Receive, TypeOK
<1>2. QED  BY <1>1 DEF InResult

LEMMA WriteMoves ==
  ASSUME TypeOK, WriteChunk
  PROVE  Written' = Written \union {nextExpected}
<1>1. nextExpected \in ChunkID
  BY DEF WriteChunk, Draining, TypeOK
<1>2. QED  BY <1>1, RangeAppend DEF WriteChunk, Written, TypeOK

-----------------------------------------------------------------------------
(* What is written is in order, and every chunk anywhere was dispatched. *)
Placed ==
  /\ \A i \in DOMAIN chunkDescs : chunkDescs[i] = i - 1
  /\ InQueue \union InWorker \union InResult \union pending \union Written \subseteq sent

PlacesUnchanged == UNCHANGED <<compressIn, job, compressOut, pending, chunkDescs, sent>>

LEMMA PlacedInvariant == Spec => []Placed
<1>1. Init => Placed
  BY DEF Init, Placed, InQueue, InWorker, InResult, Written, Range
<1>2. TypeOK /\ Placed /\ [Next]_vars => Placed'
  <2> SUFFICES ASSUME TypeOK, Placed, [Next]_vars  PROVE Placed'
    OBVIOUS
  <2> USE DEF callerVars, channelVars, workerVars, writerVars
  <2>1. ASSUME PlacesUnchanged  PROVE Placed'
    BY <2>1 DEF PlacesUnchanged, Placed, InQueue, InWorker, InResult, Written
  <2>2. CASE \/ \E k \in Key, size \in BlobSize : AddToNewChunk(k, size)
             \/ \E cb \in openChunks, size \in BlobSize : AddToOpenChunk(cb, size)
             \/ CloseBegin \/ CloseSkip \/ CloseIn \/ AwaitWriter
             \/ \E w \in Worker : WorkerExit(w)
             \/ CloseOut \/ WriterExit \/ Terminated \/ UNCHANGED vars
    BY <2>1, <2>2 DEF PlacesUnchanged, AddToNewChunk, AddToOpenChunk, CloseBegin, CloseSkip,
         CloseIn, AwaitWriter, WorkerExit, CloseOut, WriterExit, Terminated, vars
  <2>3. ASSUME NEW cb \in openChunks, SendJob(cb),
               UNCHANGED <<job, compressOut, pending, chunkDescs>>
        PROVE  Placed'
    BY <2>3, SendJobMoves DEF SendJob, Placed, InWorker, InResult, Written
  <2>4. CASE Dispatch
    BY <2>3, <2>4 DEF Dispatch
  <2>5. CASE CloseFlush
    BY <2>3, <2>5 DEF CloseFlush
  <2>6. ASSUME NEW w \in Worker, TakeJob(w)
        PROVE  Placed'
    BY <2>6, TakeJobMoves DEF TakeJob, Placed, InResult, Written
  <2>7. ASSUME NEW w \in Worker, NEW err \in {"nil", "compress"}, SendResult(w, err)
        PROVE  Placed'
    <3>1. PICK c \in job[w] :
            /\ InResult' = InResult \union {c}
            /\ \A d \in InWorker : d \in InWorker' \/ d \in job[w]
            /\ \A d \in InWorker' : \E v \in Worker \ {w} : d \in job[v]
            /\ compressOut' = Append(compressOut, [chunkID |-> c, err |-> err])
      BY <2>7, SendResultMoves
    <3>2. InWorker' \subseteq InWorker /\ c \in InWorker
      BY <3>1 DEF InWorker
    <3>3. UNCHANGED <<compressIn, pending, chunkDescs, sent>>
      BY <2>7 DEF SendResult
    <3>4. QED  BY <3>1, <3>2, <3>3 DEF Placed, InQueue, Written
  <2>8. CASE Receive
    <3>1. pending' \subseteq pending \union {Head(compressOut).chunkID}
      BY <2>8 DEF Receive
    <3>2. UNCHANGED <<compressIn, job, chunkDescs, sent>>
      BY <2>8 DEF Receive
    <3>3. QED  BY <2>8, ReceiveMoves, <3>1, <3>2 DEF Placed, InQueue, InWorker, Written
  <2>9. CASE WriteChunk
    <3>1. /\ nextExpected \in pending
          /\ pending' \subseteq pending
          /\ chunkDescs' = Append(chunkDescs, Len(chunkDescs))
          /\ UNCHANGED <<compressIn, job, compressOut, sent>>
      BY <2>9 DEF WriteChunk, Draining, nextExpected
    <3>2. \A i \in DOMAIN chunkDescs' : chunkDescs'[i] = i - 1
      BY <3>1 DEF TypeOK, Placed
    <3>3. QED  BY <2>9, WriteMoves, <3>1, <3>2 DEF Placed, InQueue, InWorker, InResult
  <2>10. CASE WriteFails
    BY <2>10 DEF WriteFails, Placed, InQueue, InWorker, InResult, Written
  <2>11. QED
    BY <2>2, <2>4, <2>5, <2>6, <2>7, <2>8, <2>9, <2>10
       DEF Next, Caller, WorkerStep, WriterStep
<1>3. QED  BY <1>1, <1>2, TypeAlways, PTL DEF Spec

(* The temp file holds a prefix of the chunk IDs, each dispatched before.    *)
THEOREM WrittenInOrderAlways == Spec => []WrittenInOrder
<1>1. Placed => WrittenInOrder
  BY DEF Placed, WrittenInOrder
<1>2. QED  BY <1>1, PlacedInvariant, PTL
-----------------------------------------------------------------------------
(* Until the first error, every dispatched chunk is somewhere. *)
Accounted ==
  /\ \A w \in Worker : \A c, d \in job[w] : c = d
  /\ firstErr = "nil" =>
       sent \subseteq InQueue \union InWorker \union InResult \union pending \union Written

LEMMA AccountedInvariant == Spec => []Accounted
<1>1. Init => Accounted
  BY DEF Init, Accounted
<1>2. TypeOK /\ Accounted /\ [Next]_vars => Accounted'
  <2> SUFFICES ASSUME TypeOK, Accounted, [Next]_vars  PROVE Accounted'
    OBVIOUS
  <2> USE DEF callerVars, channelVars, workerVars, writerVars
  <2>1. ASSUME PlacesUnchanged, firstErr' = firstErr  PROVE Accounted'
    BY <2>1 DEF PlacesUnchanged, Accounted, InQueue, InWorker, InResult, Written
  <2>2. CASE \/ \E k \in Key, size \in BlobSize : AddToNewChunk(k, size)
             \/ \E cb \in openChunks, size \in BlobSize : AddToOpenChunk(cb, size)
             \/ CloseBegin \/ CloseSkip \/ CloseIn \/ AwaitWriter
             \/ \E w \in Worker : WorkerExit(w)
             \/ CloseOut \/ WriterExit \/ Terminated \/ UNCHANGED vars
    BY <2>1, <2>2 DEF PlacesUnchanged, AddToNewChunk, AddToOpenChunk, CloseBegin, CloseSkip,
         CloseIn, AwaitWriter, WorkerExit, CloseOut, WriterExit, Terminated, vars
  <2>3. ASSUME NEW cb \in openChunks, SendJob(cb),
               UNCHANGED <<job, compressOut, pending, firstErr, chunkDescs>>
        PROVE  Accounted'
    BY <2>3, SendJobMoves DEF SendJob, Accounted, InWorker, InResult, Written
  <2>4. CASE Dispatch
    BY <2>3, <2>4 DEF Dispatch
  <2>5. CASE CloseFlush
    BY <2>3, <2>5 DEF CloseFlush
  <2>6. ASSUME NEW w \in Worker, TakeJob(w)
        PROVE  Accounted'
    <3>1. /\ job' = [job EXCEPT ![w] = {Head(compressIn)}]
          /\ UNCHANGED <<compressOut, pending, firstErr, chunkDescs, sent>>
      BY <2>6 DEF TakeJob
    <3>2. \A v \in Worker : \A c, d \in job'[v] : c = d
      BY <3>1 DEF Accounted, TypeOK
    <3>3. QED  BY <2>6, TakeJobMoves, <3>1, <3>2 DEF Accounted, InResult, Written
  <2>7. ASSUME NEW w \in Worker, NEW err \in {"nil", "compress"}, SendResult(w, err)
        PROVE  Accounted'
    <3>1. PICK c \in job[w] :
            /\ InResult' = InResult \union {c}
            /\ \A d \in InWorker : d \in InWorker' \/ d \in job[w]
            /\ \A d \in InWorker' : \E v \in Worker \ {w} : d \in job[v]
            /\ compressOut' = Append(compressOut, [chunkID |-> c, err |-> err])
      BY <2>7, SendResultMoves
    <3>2. InWorker \subseteq InWorker' \union {c}
      BY <3>1 DEF Accounted
    <3>3. /\ job' = [job EXCEPT ![w] = {}]
          /\ UNCHANGED <<compressIn, pending, firstErr, chunkDescs, sent>>
      BY <2>7 DEF SendResult
    <3>4. \A v \in Worker : \A d, e \in job'[v] : d = e
      BY <3>3 DEF Accounted, TypeOK
    <3>5. QED  BY <3>1, <3>2, <3>3, <3>4 DEF Accounted, InQueue, Written
  <2>8. CASE Receive
    <3>1. UNCHANGED <<compressIn, job, chunkDescs, sent>>
      BY <2>8 DEF Receive
    <3>2. ASSUME firstErr' = "nil"
          PROVE  /\ firstErr = "nil"
                 /\ pending' = pending \union {Head(compressOut).chunkID}
      BY <2>8, <3>2 DEF Receive
    <3>3. QED  BY <2>8, ReceiveMoves, <3>1, <3>2 DEF Accounted, InQueue, InWorker, Written
  <2>9. CASE WriteChunk
    <3>1. /\ pending' = pending \ {nextExpected}
          /\ UNCHANGED <<compressIn, job, compressOut, firstErr, sent>>
      BY <2>9 DEF WriteChunk
    <3>2. QED  BY <2>9, WriteMoves, <3>1 DEF Accounted, InQueue, InWorker, InResult
  <2>10. CASE WriteFails
    BY <2>10 DEF WriteFails, Accounted
  <2>11. QED
    BY <2>2, <2>4, <2>5, <2>6, <2>7, <2>8, <2>9, <2>10
       DEF Next, Caller, WorkerStep, WriterStep
<1>3. QED  BY <1>1, <1>2, TypeAlways, PTL DEF Spec

(* No chunk is lost between the goroutines before an error is recorded.      *)
THEOREM NoChunkLostEver == Spec => []NoChunkLost
<1>1. Placed /\ Accounted => NoChunkLost
  BY DEF Placed, Accounted, NoChunkLost
<1>2. QED  BY <1>1, PlacedInvariant, AccountedInvariant, PTL

(* If the pipeline reports success, only a gap in the IDs dispatched keeps a *)
(* chunk out of the file.                                                    *)
THEOREM NilMeansCompleteAlways == Spec => []NilMeansComplete
<1>1. TypeOK /\ Shutdown /\ Placed /\ Accounted => NilMeansComplete
  <2> SUFFICES ASSUME TypeOK, Shutdown, Placed, Accounted,
                      pc = "done", closeErr = "nil",
                      NEW c \in sent, 0 .. c \subseteq sent, c \notin Written
               PROVE  FALSE
    BY DEF NilMeansComplete
  <2>1. /\ firstErr = "nil" /\ nextExpected \notin pending
        /\ compressOut = <<>>
        /\ exited = Worker /\ compressIn = <<>>
        /\ \A w \in Worker : job[w] = {}
    BY WorkerNonEmpty DEF Shutdown, Draining
  <2>2. InQueue = {} /\ InWorker = {} /\ InResult = {}
    BY <2>1 DEF InQueue, InWorker, InResult, Range
  <2>3. sent = pending \union Written
    BY <2>1, <2>2 DEF Placed, Accounted
  <2>4. Written = 0 .. nextExpected - 1
    <3>1. /\ nextExpected \in Nat
          /\ DOMAIN chunkDescs = 1 .. nextExpected
          /\ \A i \in 1 .. nextExpected : chunkDescs[i] = i - 1
      BY DEF TypeOK, Placed, nextExpected
    <3>2. \A k \in 0 .. nextExpected - 1 : k + 1 \in 1 .. nextExpected /\ chunkDescs[k + 1] = k
      BY <3>1
    <3>3. \A i \in 1 .. nextExpected : i - 1 \in 0 .. nextExpected - 1
      BY <3>1
    <3>4. Written \subseteq 0 .. nextExpected - 1
      BY <3>1, <3>3 DEF Written, Range
    <3>5. 0 .. nextExpected - 1 \subseteq Written
      BY <3>1, <3>2 DEF Written, Range
    <3>6. QED  BY <3>4, <3>5
  <2>5. c \in Nat /\ nextExpected \in 0 .. c
    BY <2>4 DEF TypeOK, ChunkID, nextExpected
  <2>6. nextExpected \in pending
    BY <2>3, <2>4, <2>5
  <2>7. QED  BY <2>1, <2>6
<1>2. QED
  BY <1>1, TypeAlways, ShutdownInvariant, PlacedInvariant, AccountedInvariant, PTL
-----------------------------------------------------------------------------
(* No chunk is in two places, or twice in one.                             *)
Settled == pending \union Written

Unsent ==
  /\ sent \subseteq 0 .. nextChunk - 1
  /\ \A cb \in openChunks : cb.id < nextChunk /\ cb.id \notin sent
  /\ \A a, b \in openChunks : a.id = b.id => a = b

Once ==
  /\ \A i, j \in DOMAIN compressIn : compressIn[i] = compressIn[j] => i = j
  /\ \A i, j \in DOMAIN compressOut :
       compressOut[i].chunkID = compressOut[j].chunkID => i = j
  /\ \A v, w \in Worker, c \in ChunkID : c \in job[v] /\ c \in job[w] => v = w
  /\ InQueue \intersect (InWorker \union InResult \union Settled) = {}
  /\ InWorker \intersect (InResult \union Settled) = {}
  /\ InResult \intersect Settled = {}

LEMMA UnsentInvariant == Spec => []Unsent
<1>1. Init => Unsent
  BY DEF Init, Unsent
<1>2. TypeOK /\ Unsent /\ [Next]_vars => Unsent'
  <2> SUFFICES ASSUME TypeOK, Unsent, [Next]_vars  PROVE Unsent'
    OBVIOUS
  <2> USE DEF callerVars, channelVars, workerVars, writerVars
  <2>1. CASE UNCHANGED <<nextChunk, openChunks, sent>>
    BY <2>1 DEF Unsent
  <2>2. ASSUME NEW k \in Key, NEW size \in BlobSize, AddToNewChunk(k, size)
        PROVE  Unsent'
    <3>1. PICK cb : /\ cb.id = nextChunk
                    /\ openChunks' = openChunks \union {cb}
      BY <2>2 DEF AddToNewChunk, Grow
    <3>2. nextChunk' = nextChunk + 1 /\ sent' = sent /\ nextChunk \in Nat
      BY <2>2 DEF AddToNewChunk, TypeOK
    <3>3. \A x \in 0 .. nextChunk - 1 : x < nextChunk /\ x \in 0 .. nextChunk
      BY <3>2
    <3>4. \A a \in openChunks : a.id \in Nat /\ a.id < nextChunk
      BY DEF Unsent, TypeOK, ChunkBuilder, ChunkID
    <3>5. \A a, b \in openChunks' : a.id = b.id => a = b
      BY <3>1, <3>2, <3>4 DEF Unsent
    <3>6. \A a \in openChunks' : a.id < nextChunk' /\ a.id \notin sent'
      BY <3>1, <3>2, <3>3, <3>4 DEF Unsent
    <3>7. sent' \subseteq 0 .. nextChunk' - 1
      BY <3>2, <3>3 DEF Unsent
    <3>8. QED  BY <3>5, <3>6, <3>7 DEF Unsent
  <2>3. ASSUME NEW cb \in openChunks, NEW size \in BlobSize, AddToOpenChunk(cb, size)
        PROVE  Unsent'
    <3>1. /\ Grow(cb, size).id = cb.id
          /\ openChunks' = (openChunks \ {cb}) \union {Grow(cb, size)}
          /\ UNCHANGED <<nextChunk, sent>>
      BY <2>3 DEF AddToOpenChunk, Grow, TypeOK, ChunkBuilder
    <3>2. QED  BY <3>1 DEF Unsent
  <2>4. ASSUME NEW cb \in openChunks, SendJob(cb), UNCHANGED nextChunk
        PROVE  Unsent'
    <3>1. cb.id \in 0 .. nextChunk - 1
      BY DEF Unsent, TypeOK, ChunkBuilder, ChunkID
    <3>2. QED  BY <2>4, <3>1 DEF SendJob, Unsent
  <2>5. CASE CloseSkip
    BY <2>5 DEF CloseSkip, Unsent
  <2>6. CASE Dispatch \/ CloseFlush
    BY <2>4, <2>6 DEF Dispatch, CloseFlush
  <2>7. QED
    BY <2>1, <2>2, <2>3, <2>5, <2>6 DEF Next, Caller, WorkerStep, WriterStep,
         CloseBegin, CloseIn, AwaitWriter, TakeJob, SendResult, WorkerExit, CloseOut,
         Receive, WriteChunk, WriteFails, WriterExit, Terminated, vars
<1>3. QED  BY <1>1, <1>2, TypeAlways, PTL DEF Spec

LEMMA OnceInvariant == Spec => []Once
<1>1. Init => Once
  BY DEF Init, Once, Settled, InQueue, InWorker, InResult, Written, Range
<1>2. TypeOK /\ Unsent /\ Placed /\ Accounted /\ Once /\ [Next]_vars => Once'
  <2> SUFFICES ASSUME TypeOK, Unsent, Placed, Accounted, Once, [Next]_vars  PROVE Once'
    OBVIOUS
  <2> USE DEF callerVars, channelVars, workerVars, writerVars
  <2>1. ASSUME PlacesUnchanged  PROVE Once'
    BY <2>1 DEF PlacesUnchanged, Once, Settled, InQueue, InWorker, InResult, Written
  <2>2. CASE \/ \E k \in Key, size \in BlobSize : AddToNewChunk(k, size)
             \/ \E cb \in openChunks, size \in BlobSize : AddToOpenChunk(cb, size)
             \/ CloseBegin \/ CloseSkip \/ CloseIn \/ AwaitWriter
             \/ \E w \in Worker : WorkerExit(w)
             \/ CloseOut \/ WriterExit \/ Terminated \/ UNCHANGED vars
    BY <2>1, <2>2 DEF PlacesUnchanged, AddToNewChunk, AddToOpenChunk, CloseBegin, CloseSkip,
         CloseIn, AwaitWriter, WorkerExit, CloseOut, WriterExit, Terminated, vars
  <2>3. ASSUME NEW cb \in openChunks, SendJob(cb),
               UNCHANGED <<job, compressOut, pending, chunkDescs>>
        PROVE  Once'
    <3>1. /\ cb.id \notin InQueue \union InWorker \union InResult \union Settled
          /\ UNCHANGED <<InWorker, InResult, Settled>>
      BY <2>3 DEF Unsent, Placed, Settled, InWorker, InResult, Written
    <3>2. \A i, j \in DOMAIN compressIn' : compressIn'[i] = compressIn'[j] => i = j
      <4>1. cb.id \in ChunkID /\ compressIn \in Seq(ChunkID)
        BY DEF TypeOK, ChunkBuilder
      <4>2. \A i \in DOMAIN compressIn : compressIn[i] # cb.id
        BY <3>1 DEF InQueue, Range
      <4>3. QED  BY <2>3, <4>1, <4>2 DEF SendJob, Once
    <3>3. QED  BY <2>3, SendJobMoves, <3>1, <3>2 DEF Once
  <2>4. CASE Dispatch \/ CloseFlush
    BY <2>3, <2>4 DEF Dispatch, CloseFlush
  <2>5. ASSUME NEW w \in Worker, TakeJob(w)
        PROVE  Once'
    <3> DEFINE c == Head(compressIn)
    <3>1. /\ job' = [job EXCEPT ![w] = {c}]
          /\ compressIn' = Tail(compressIn)
          /\ compressIn \in Seq(ChunkID) /\ compressIn # <<>>
          /\ UNCHANGED <<compressOut, InResult, Settled>>
      BY <2>5 DEF TakeJob, TypeOK, InResult, Settled, Written
    <3>2. /\ \A i, j \in DOMAIN compressIn' : compressIn'[i] = compressIn'[j] => i = j
          /\ \A i \in DOMAIN compressIn' : compressIn'[i] # c
      BY <3>1 DEF Once
    <3>3. c \notin InQueue'
      BY <3>2 DEF InQueue, Range
    <3>4. c \in InQueue /\ c \notin InWorker
      BY <2>5, TakeJobMoves DEF Once
    <3>5. \A u, v \in Worker, d \in ChunkID : d \in job'[u] /\ d \in job'[v] => u = v
      <4>1. \A u \in Worker : c \notin job[u]
        BY <3>4 DEF InWorker
      <4>2. QED  BY <3>1, <4>1 DEF Once, TypeOK
    <3>6. QED  BY <2>5, TakeJobMoves, <3>1, <3>2, <3>3, <3>4, <3>5 DEF Once
  <2>6. ASSUME NEW w \in Worker, NEW err \in {"nil", "compress"}, SendResult(w, err)
        PROVE  Once'
    <3>1. PICK c \in job[w] :
            /\ InResult' = InResult \union {c}
            /\ \A d \in InWorker : d \in InWorker' \/ d \in job[w]
            /\ \A d \in InWorker' : \E v \in Worker \ {w} : d \in job[v]
            /\ compressOut' = Append(compressOut, [chunkID |-> c, err |-> err])
      BY <2>6, SendResultMoves
    <3>2. /\ job' = [job EXCEPT ![w] = {}]
          /\ UNCHANGED <<compressIn, InQueue, Settled>>
      BY <2>6 DEF SendResult, InQueue, Settled, Written
    <3>3. c \in InWorker /\ c \in ChunkID
      BY <3>1 DEF InWorker, TypeOK
    <3>4. InWorker' \subseteq InWorker /\ c \notin InWorker'
      BY <3>1, <3>3 DEF InWorker, Once
    <3>5. \A u, v \in Worker, d \in ChunkID : d \in job'[u] /\ d \in job'[v] => u = v
      BY <3>2 DEF Once, TypeOK
    <3>6. \A i, j \in DOMAIN compressOut' :
            compressOut'[i].chunkID = compressOut'[j].chunkID => i = j
      <4>1. \A i \in DOMAIN compressOut : compressOut[i].chunkID # c
        BY <3>3 DEF Once, InResult, Range
      <4>2. /\ compressOut \in Seq(Result)
            /\ [chunkID |-> c, err |-> err] \in Result
            /\ [chunkID |-> c, err |-> err].chunkID = c
        BY <3>3 DEF TypeOK, Result
      <4>3. QED  BY <3>1, <4>1, <4>2 DEF Once
    <3>7. QED  BY <3>1, <3>2, <3>3, <3>4, <3>5, <3>6 DEF Once
  <2>7. CASE Receive
    <3> DEFINE c == Head(compressOut).chunkID
    <3>1. /\ compressOut' = Tail(compressOut)
          /\ compressOut \in Seq(Result) /\ compressOut # <<>>
          /\ Settled' \subseteq Settled \union {c}
          /\ UNCHANGED <<compressIn, job, InQueue, InWorker>>
      BY <2>7 DEF Receive, TypeOK, Settled, InQueue, InWorker, Written
    <3>2. /\ \A i, j \in DOMAIN compressOut' :
               compressOut'[i].chunkID = compressOut'[j].chunkID => i = j
          /\ \A i \in DOMAIN compressOut' : compressOut'[i].chunkID # c
      BY <3>1 DEF Once
    <3>3. c \notin InResult'
      BY <3>2 DEF InResult, Range
    <3>4. QED  BY <2>7, ReceiveMoves, <3>1, <3>2, <3>3 DEF Once
  <2>8. CASE WriteChunk
    <3>1. /\ UNCHANGED <<compressIn, job, compressOut, InQueue, InWorker, InResult>>
          /\ Settled' \subseteq Settled
      BY <2>8, WriteMoves DEF WriteChunk, Draining, Settled, InQueue, InWorker, InResult
    <3>2. QED  BY <3>1 DEF Once
  <2>9. CASE WriteFails
    <3>1. /\ UNCHANGED <<compressIn, job, compressOut, InQueue, InWorker, InResult>>
          /\ Settled' \subseteq Settled
      BY <2>9 DEF WriteFails, Settled, Written, InQueue, InWorker, InResult
    <3>2. QED  BY <3>1 DEF Once
  <2>10. QED
    BY <2>2, <2>4, <2>5, <2>6, <2>7, <2>8, <2>9
       DEF Next, Caller, WorkerStep, WriterStep
<1>3. QED
  BY <1>1, <1>2, TypeAlways, UnsentInvariant, PlacedInvariant, AccountedInvariant, PTL
     DEF Spec
-----------------------------------------------------------------------------
(* The pipeline implements ChunkLog: whatever the goroutines do, the caller  *)
(* sees a log that grows in ID order, stops at the first error, and gets one *)
(* verdict, after which nothing changes.                                     *)
THEOREM PipelineImplementsLog == Spec => ImplementsLog
<1> USE DEF Verdict
<1>1. Init => Log!Init
  BY DEF Init, Log!Init
<1>2. /\ TypeOK /\ Shutdown /\ Unsent /\ Placed /\ Accounted /\ Once
      /\ [Next]_vars
      => [Log!Next]_(Log!vars)
  <2> SUFFICES ASSUME TypeOK, Shutdown, Unsent, Placed, Accounted, Once, [Next]_vars
               PROVE  [Log!Next]_(Log!vars)
    OBVIOUS
  <2> USE DEF callerVars, channelVars, workerVars, writerVars
  <2>1. CASE UNCHANGED <<sent, chunkDescs, firstErr, writerDone>>
    BY <2>1 DEF Log!vars
  <2>2. ASSUME NEW cb \in openChunks, SendJob(cb), UNCHANGED writerVars
        PROVE  Log!Next
    <3>1. cb.id \in ChunkID /\ cb.id \notin sent
      BY DEF Unsent, TypeOK, ChunkBuilder
    <3>2. Log!Submit(cb.id)
      BY <2>2, <3>1 DEF SendJob, Log!Submit
    <3>3. QED  BY <3>1, <3>2 DEF Log!Next
  <2>3. CASE Dispatch \/ CloseFlush
    BY <2>2, <2>3 DEF Dispatch, CloseFlush
  <2>4. CASE Receive
    <3>1. CASE firstErr' = firstErr
      BY <2>1, <2>4, <3>1 DEF Receive
    <3>2. CASE firstErr' # firstErr
      <4>1. firstErr = "nil" /\ firstErr' # "nil"
        BY <2>4, <3>2 DEF Receive
      <4>2. writerDone = "empty"
        BY <2>4 DEF Receive, Shutdown
      <4>3. \E c \in sent : \A i \in DOMAIN chunkDescs : chunkDescs[i] # c
        <5> DEFINE c == Head(compressOut).chunkID
        <5>1. c \in sent /\ c \notin Written
          BY <2>4, ReceiveMoves DEF Placed, Once, Settled
        <5>2. QED  BY <5>1 DEF Written, Range
      <4>4. Log!Break
        BY <2>4, <4>1, <4>2, <4>3 DEF Receive, Log!Break
      <4>5. QED  BY <4>4 DEF Log!Next
    <3>3. QED  BY <3>1, <3>2
  <2>5. CASE WriteChunk
    <3>1. writerDone = "empty"
      BY <2>5 DEF WriteChunk, Shutdown
    <3>2. Len(chunkDescs) \in sent
      BY <2>5 DEF WriteChunk, Draining, Placed, nextExpected
    <3>3. Log!AppendNext
      BY <2>5, <3>1, <3>2 DEF WriteChunk, Draining, nextExpected, Log!AppendNext
    <3>4. QED  BY <3>3 DEF Log!Next
  <2>6. CASE WriteFails
    <3>1. writerDone = "empty" /\ firstErr = "nil"
      BY <2>6 DEF WriteFails, Draining, Shutdown
    <3>2. nextExpected \in sent
      BY <2>6 DEF WriteFails, Draining, Placed
    <3>3. \A i \in DOMAIN chunkDescs : chunkDescs[i] # nextExpected
      BY DEF Placed, TypeOK, nextExpected
    <3>4. Log!Break
      BY <2>6, <3>1, <3>2, <3>3 DEF WriteFails, Log!Break
    <3>5. QED  BY <3>4 DEF Log!Next
  <2>7. CASE WriterExit
    <3>1. ASSUME firstErr = "nil"  PROVE Len(chunkDescs) \notin sent
      <4>1. /\ exited = Worker /\ compressIn = <<>> /\ compressOut = <<>>
            /\ \A w \in Worker : job[w] = {}
            /\ nextExpected \notin pending
        BY <2>7, <3>1, WorkerNonEmpty DEF WriterExit, Draining, Shutdown
      <4>2. InQueue = {} /\ InWorker = {} /\ InResult = {}
        BY <4>1 DEF InQueue, InWorker, InResult, Range
      <4>3. nextExpected \notin Written
        BY DEF Placed, TypeOK, nextExpected, Written, Range
      <4>4. QED  BY <3>1, <4>1, <4>2, <4>3 DEF Accounted, nextExpected
    <3>2. /\ writerDone = "empty" /\ writerDone' = firstErr
          /\ firstErr \in Error /\ firstErr # "empty"
          /\ UNCHANGED <<sent, chunkDescs, firstErr>>
      BY <2>7 DEF WriterExit, TypeOK, Error
    <3>3. Log!Report
      BY <3>1, <3>2 DEF Log!Report
    <3>4. QED  BY <3>3 DEF Log!Next
  <2>8. QED
    BY <2>1, <2>3, <2>4, <2>5, <2>6, <2>7 DEF Next, Caller, WorkerStep, WriterStep,
         AddToNewChunk, AddToOpenChunk, CloseBegin, CloseSkip, CloseIn, AwaitWriter,
         TakeJob, SendResult, WorkerExit, CloseOut, Terminated, vars
<1>3. QED
  BY <1>1, <1>2, TypeAlways, ShutdownInvariant, UnsentInvariant, PlacedInvariant,
     AccountedInvariant, OnceInvariant, PTL DEF Spec, ImplementsLog, Log!Spec
=============================================================================
