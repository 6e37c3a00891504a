-------------------------- MODULE CompressPipeline --------------------------
(***************************************************************************)
(* The parallel chunk-compression pipeline of ozawrite.Writer: the calling *)
(* goroutine fills one open chunk per chunk key and dispatches full chunks *)
(* (addToChunk, flushChunk), CompressWorkers goroutines compress them      *)
(* (compressionWorker), and one goroutine puts the results back in chunk   *)
(* ID order and appends them to the temp file (chunkWriterLoop).  Close    *)
(* flushes what is still open, closes the job channel and waits for the    *)
(* writer goroutine.                                                       *)
(*                                                                         *)
(* A chunk is its ID; the bytes, the codecs and the MIME types are         *)
(* abstracted away.  A blob is its size, 0 or 1.                           *)
(***************************************************************************)
EXTENDS Naturals, Sequences, FiniteSets, Functions

CONSTANTS Worker,           \* the compressionWorker goroutines
          Key,              \* the chunk keys (MIME group and size bucket)
          ChunkTargetSize,  \* a chunk of this many bytes is full
          MaxChunks         \* bound: how many chunks the caller opens

ASSUME PipelineAssumption ==
  /\ IsFiniteSet(Worker) /\ Cardinality(Worker) > 1
  /\ ChunkTargetSize \in Nat \ {0}
  /\ MaxChunks \in Nat

VARIABLES
  pc,          \* where the calling goroutine is
  nextChunk,   \* next chunk ID to assign
  openChunks,  \* the chunk builders in the open-chunk map
  sent,        \* history: the chunk IDs dispatched so far
  compressIn,  \* job channel
  inClosed,    \* compressIn has been closed
  job,         \* job[w]: the chunk worker w holds, a set of at most one ID
  exited,      \* workers whose loop has ended
  compressOut, \* result channel
  outClosed,   \* compressOut has been closed
  pending,     \* chunkWriterLoop's map of results that arrived early
  firstErr,    \* chunkWriterLoop's first error
  chunkDescs,  \* the IDs of the written chunks, in file order
  writerDone,  \* what chunkWriterLoop has sent on the writerDone channel
  closeErr     \* what Close got from writerDone

callerVars == <<pc, nextChunk, openChunks, sent, closeErr>>
channelVars == <<compressIn, inClosed, compressOut, outClosed>>
workerVars == <<job, exited>>
writerVars == <<pending, firstErr, chunkDescs, writerDone>>
vars == <<callerVars, channelVars, workerVars, writerVars>>

ChunkID == 0 .. MaxChunks - 1
ChunkBuilder == [key : Key, id : ChunkID, uncompSize : Nat]
BlobSize == {0, 1}
Error == {"nil", "compress", "write"}
Result == [chunkID : ChunkID, err : {"nil", "compress"}]

(* Both channels are made with room for two chunks per worker. *)
ChannelCap == 2 * Cardinality(Worker)

(* chunkWriterLoop's nextExpected counts the chunks it has written. *)
nextExpected == Len(chunkDescs)

Written == Range(chunkDescs)

TypeOK ==
  /\ pc \in {"idle", "sending", "closing", "draining", "done"}
  /\ nextChunk \in 0 .. MaxChunks
  /\ openChunks \subseteq ChunkBuilder
  /\ sent \subseteq ChunkID
  /\ compressIn \in Seq(ChunkID)
  /\ inClosed \in BOOLEAN
  /\ job \in [Worker -> SUBSET ChunkID]
  /\ exited \subseteq Worker
  /\ compressOut \in Seq(Result)
  /\ outClosed \in BOOLEAN
  /\ pending \subseteq ChunkID
  /\ firstErr \in Error
  /\ chunkDescs \in Seq(ChunkID)
  /\ writerDone \in Error \union {"empty"}
  /\ closeErr \in Error

Init ==
  /\ pc = "idle"
  /\ nextChunk = 0
  /\ openChunks = {}
  /\ sent = {}
  /\ compressIn = <<>>
  /\ inClosed = FALSE
  /\ job = [w \in Worker |-> {}]
  /\ exited = {}
  /\ compressOut = <<>>
  /\ outClosed = FALSE
  /\ pending = {}
  /\ firstErr = "nil"
  /\ chunkDescs = <<>>
  /\ writerDone = "empty"
  /\ closeErr = "nil"

-----------------------------------------------------------------------------
(* The calling goroutine: AddEntry and Close.                              *)

IsFull(cb) == cb.uncompSize >= ChunkTargetSize

Grow(cb, size) == [cb EXCEPT !.uncompSize = @ + size]

(* After addToChunk has put a blob in its chunk the caller goes on to      *)
(* flushChunk if the chunk is full, and otherwise returns.                 *)
AfterBlob(cb) == pc' = IF IsFull(cb) THEN "sending" ELSE "idle"

(* addToChunk: the key has no open chunk, so one with the next ID is made. *)
AddToNewChunk(k, size) ==
  /\ pc = "idle"
  /\ nextChunk < MaxChunks
  /\ \A cb \in openChunks : cb.key # k
  /\ LET cb == Grow([key |-> k, id |-> nextChunk, uncompSize |-> 0], size)
     IN  /\ openChunks' = openChunks \union {cb}
         /\ AfterBlob(cb)
  /\ nextChunk' = nextChunk + 1
  /\ UNCHANGED <<sent, closeErr, channelVars, workerVars, writerVars>>

(* addToChunk: the blob joins the open chunk of its key. *)
AddToOpenChunk(cb, size) ==
  /\ pc = "idle"
  /\ cb \in openChunks
  /\ openChunks' = (openChunks \ {cb}) \union {Grow(cb, size)}
  /\ AfterBlob(Grow(cb, size))
  /\ UNCHANGED <<nextChunk, sent, closeErr, channelVars, workerVars, writerVars>>

(* flushChunk returns the error it finds in writerDone, and otherwise   *)
(* sends, blocking while the channel is full.  NoEarlyError below shows *)
(* that it never finds one, so that outcome has no action.              *)
SendJob(cb) ==
  /\ writerDone = "empty"
  /\ Len(compressIn) < ChannelCap
  /\ compressIn' = Append(compressIn, cb.id)
  /\ openChunks' = openChunks \ {cb}
  /\ sent' = sent \union {cb.id}

(* flushChunk of the chunk that addToChunk has just filled. *)
Dispatch ==
  /\ pc = "sending"
  /\ \E cb \in openChunks : IsFull(cb) /\ SendJob(cb)
  /\ pc' = "idle"
  /\ UNCHANGED <<nextChunk, closeErr, inClosed, compressOut, outClosed,
                 workerVars, writerVars>>

CloseBegin ==
  /\ pc = "idle"
  /\ pc' = "closing"
  /\ UNCHANGED <<nextChunk, openChunks, sent, closeErr,
                 channelVars, workerVars, writerVars>>

(* Close visits the open chunks in map order and flushes those with data... *)
CloseFlush ==
  /\ pc = "closing"
  /\ \E cb \in openChunks : cb.uncompSize > 0 /\ SendJob(cb)
  /\ UNCHANGED <<pc, nextChunk, closeErr, inClosed, compressOut, outClosed,
                 workerVars, writerVars>>

(* ... and only deletes those that hold nothing but empty blobs.           *)
CloseSkip ==
  /\ pc = "closing"
  /\ \E cb \in openChunks : cb.uncompSize = 0 /\ openChunks' = openChunks \ {cb}
  /\ UNCHANGED <<pc, nextChunk, sent, closeErr, channelVars, workerVars, writerVars>>

CloseIn ==
  /\ pc = "closing"
  /\ openChunks = {}
  /\ inClosed' = TRUE
  /\ pc' = "draining"
  /\ UNCHANGED <<nextChunk, openChunks, sent, closeErr, compressIn, compressOut,
                 outClosed, workerVars, writerVars>>

(* Mutant: Close goes on without waiting for the writer goroutine.          *)
MutAwaitNothing ==
  /\ pc = "draining"
  /\ closeErr' = firstErr
  /\ pc' = "done"
  /\ UNCHANGED <<nextChunk, openChunks, sent, channelVars, workerVars, writerVars>>

AwaitWriter ==
  /\ pc = "draining"
  /\ writerDone # "empty"
  /\ closeErr' = writerDone
  /\ pc' = "done"
  /\ UNCHANGED <<nextChunk, openChunks, sent, channelVars, workerVars, writerVars>>

-----------------------------------------------------------------------------
(* compressionWorker.                                                      *)

TakeJob(w) ==
  /\ w \notin exited
  /\ job[w] = {}
  /\ compressIn # <<>>
  /\ job' = [job EXCEPT ![w] = {Head(compressIn)}]
  /\ compressIn' = Tail(compressIn)
  /\ UNCHANGED <<callerVars, inClosed, compressOut, outClosed, exited, writerVars>>

(* The worker has compressed its chunk, or failed to, and sends the result; *)
(* the send blocks while compressOut is full.                               *)
SendResult(w, err) ==
  /\ Len(compressOut) < ChannelCap
  /\ \E c \in job[w] :
       compressOut' = Append(compressOut, [chunkID |-> c, err |-> err])
  /\ job' = [job EXCEPT ![w] = {}]
  /\ UNCHANGED <<callerVars, compressIn, inClosed, outClosed, exited, writerVars>>

(* Mutant: a worker ends when the queue is closed but not empty. *)
MutExitOnClosed(w) ==
  /\ w \notin exited
  /\ job[w] = {}
  /\ inClosed
  /\ exited' = exited \union {w}
  /\ UNCHANGED <<callerVars, channelVars, job, writerVars>>

WorkerExit(w) ==
  /\ w \notin exited
  /\ job[w] = {}
  /\ inClosed
  /\ compressIn = <<>>
  /\ exited' = exited \union {w}
  /\ UNCHANGED <<callerVars, channelVars, job, writerVars>>

(* The goroutine that waits for the workers closes the result channel.     *)
CloseOut ==
  /\ exited = Worker
  /\ ~outClosed
  /\ outClosed' = TRUE
  /\ UNCHANGED <<callerVars, compressIn, inClosed, compressOut, workerVars, writerVars>>

-----------------------------------------------------------------------------
(* chunkWriterLoop.                                                        *)

(* The inner loop has a chunk to write. *)
Draining == firstErr = "nil" /\ nextExpected \in pending

(* Mutants: a result that is not next in line is dropped; after an error *)
(* the loop stops receiving instead of draining.                         *)
MutReceiveInOrder ==
  /\ compressOut # <<>>
  /\ ~Draining
  /\ compressOut' = Tail(compressOut)
  /\ LET res == Head(compressOut)
     IN  /\ firstErr' = IF firstErr = "nil" THEN res.err ELSE firstErr
         /\ pending' = IF res.err = "nil" /\ res.chunkID = nextExpected
                         THEN {res.chunkID} ELSE pending
  /\ UNCHANGED <<callerVars, compressIn, inClosed, outClosed, workerVars,
                 chunkDescs, writerDone>>

MutReceiveUntilError ==
  /\ firstErr = "nil"
  /\ compressOut # <<>>
  /\ ~Draining
  /\ compressOut' = Tail(compressOut)
  /\ LET res == Head(compressOut)
     IN  /\ firstErr' = res.err
         /\ pending' = IF res.err = "nil" THEN pending \union {res.chunkID} ELSE pending
  /\ UNCHANGED <<callerVars, compressIn, inClosed, outClosed, workerVars,
                 chunkDescs, writerDone>>

(* Once there is an error the loop only drains, to unblock the workers.    *)
Receive ==
  /\ compressOut # <<>>
  /\ ~Draining
  /\ compressOut' = Tail(compressOut)
  /\ LET res == Head(compressOut)
     IN  /\ firstErr' = IF firstErr = "nil" THEN res.err ELSE firstErr
         /\ pending' = IF firstErr = "nil" /\ res.err = "nil"
                         THEN pending \union {res.chunkID} ELSE pending
  /\ UNCHANGED <<callerVars, compressIn, inClosed, outClosed, workerVars,
                 chunkDescs, writerDone>>

(* Mutant: the chunk's descriptor gets the next ID, one too high. *)
MutWriteNextID ==
  /\ Draining
  /\ pending' = pending \ {nextExpected}
  /\ chunkDescs' = Append(chunkDescs, nextExpected + 1)
  /\ UNCHANGED <<callerVars, channelVars, workerVars, firstErr, writerDone>>

WriteChunk ==
  /\ Draining
  /\ pending' = pending \ {nextExpected}
  /\ chunkDescs' = Append(chunkDescs, nextExpected)
  /\ UNCHANGED <<callerVars, channelVars, workerVars, firstErr, writerDone>>

(* Creating the temp file or writing to it fails. *)
WriteFails ==
  /\ Draining
  /\ pending' = pending \ {nextExpected}
  /\ firstErr' = "write"
  /\ UNCHANGED <<callerVars, channelVars, workerVars, chunkDescs, writerDone>>

(* Mutant: the error is not passed on to Close.                             *)
MutReportNil ==
  /\ outClosed
  /\ compressOut = <<>>
  /\ ~Draining
  /\ writerDone = "empty"
  /\ writerDone' = "nil"
  /\ UNCHANGED <<callerVars, channelVars, workerVars, pending, firstErr, chunkDescs>>

WriterExit ==
  /\ outClosed
  /\ compressOut = <<>>
  /\ ~Draining
  /\ writerDone = "empty"
  /\ writerDone' = firstErr
  /\ UNCHANGED <<callerVars, channelVars, workerVars, pending, firstErr, chunkDescs>>

-----------------------------------------------------------------------------
(* Close has returned from the pipeline and its goroutines have ended. *)
Terminated ==
  /\ pc = "done"
  /\ exited = Worker
  /\ UNCHANGED vars

Caller ==
  \/ \E k \in Key, size \in BlobSize : AddToNewChunk(k, size)
  \/ \E cb \in openChunks, size \in BlobSize : AddToOpenChunk(cb, size)
  \/ Dispatch
  \/ CloseBegin
  \/ CloseFlush
  \/ CloseSkip
  \/ CloseIn
  \/ AwaitWriter

WorkerStep(w) ==
  \/ TakeJob(w)
  \/ \E err \in {"nil", "compress"} : SendResult(w, err)
  \/ WorkerExit(w)

WriterStep == Receive \/ WriteChunk \/ WriteFails \/ WriterExit

Next ==
  \/ Caller
  \/ \E w \in Worker : WorkerStep(w)
  \/ CloseOut
  \/ WriterStep
  \/ Terminated

Spec == Init /\ [][Next]_vars

(* Every goroutine that can run does; the user need not call anything, but *)
(* a call that is under way is carried through.                            *)
Fairness ==
  /\ WF_vars(Dispatch)
  /\ WF_vars(CloseFlush \/ CloseSkip \/ CloseIn \/ AwaitWriter)
  /\ \A w \in Worker : WF_vars(WorkerStep(w))
  /\ WF_vars(CloseOut)
  /\ WF_vars(WriterStep)

FairSpec == Spec /\ Fairness
-----------------------------------------------------------------------------
(* Where a dispatched chunk is. *)
InQueue == Range(compressIn)
InWorker == UNION {job[w] : w \in Worker}
InResult == {res.chunkID : res \in Range(compressOut)}

(* The pipeline implements ChunkLog: its file is the log, and what Close *)
(* receives is the verdict.                                              *)
Verdict ==
  IF writerDone = "empty" THEN "none"
  ELSE IF writerDone = "nil" THEN "ok" ELSE "error"

Log == INSTANCE ChunkLog WITH
         Chunk <- ChunkID,
         submitted <- sent,
         log <- chunkDescs,
         broken <- firstErr # "nil",
         verdict <- Verdict

ImplementsLog == Log!Spec

(* A chunk never gets lost between the goroutines: until the writer       *)
(* goroutine has met an error, every chunk dispatched by flushChunk is in *)
(* one of the channels, with a worker, waiting for its turn, or written.  *)
NoChunkLost ==
  firstErr = "nil" =>
    sent = InQueue \union InWorker \union InResult \union pending \union Written

(* chunkWriterLoop writes the chunks in ID order and each one once,         *)
(* whatever order the workers finish in: the file holds a prefix of the IDs *)
(* and every one of them was dispatched.                                    *)
WrittenInOrder ==
  /\ \A i \in DOMAIN chunkDescs : chunkDescs[i] = i - 1
  /\ Written \subseteq sent

(* When Close gets nil from the pipeline, a dispatched chunk is missing  *)
(* from the file only if a chunk with a smaller ID was never dispatched. *)
NilMeansComplete ==
  pc = "done" /\ closeErr = "nil" =>
    \A c \in sent : (0 .. c \subseteq sent) => c \in Written

(* The select in flushChunk that looks for an early pipeline error finds *)
(* none: chunkWriterLoop reports only after compressIn is closed.        *)
NoEarlyError == pc \in {"idle", "sending", "closing"} => writerDone = "empty"

(* When Close goes on to read chunkDescs, without a lock, the goroutine *)
(* that writes it has finished: the table no longer changes.            *)
DescsFrozen == [][pc = "done" => UNCHANGED <<chunkDescs, pending>>]_vars

(* The caller is never stuck behind a full pipeline: an AddEntry that waits *)
(* for room goes on, and Close gets its answer, also after a compression or *)
(* a write has failed and the writer goroutine only drains.                 *)
CallsReturn ==
  /\ pc = "sending" ~> pc = "idle"
  /\ pc = "closing" ~> pc = "done"

(* A chunk reaches the temp file, or an error is recorded, as soon as every *)
(* chunk with a smaller ID has been dispatched, without waiting for Close.  *)
NoStall ==
  \A c \in ChunkID :
    (0 .. c \subseteq sent) ~> (c \in Written \/ firstErr # "nil")

(* What the comment on chunkWriterLoop says: it writes the results it       *)
(* receives and then sends the first error, or nil.  It fails after Close   *)
(* has skipped a chunk of empty blobs: the loop waits for that ID until the *)
(* results end, drops the later chunks and still sends nil.                 *)
CloseNilAllWritten ==
  pc = "done" /\ closeErr = "nil" => sent \subseteq Written
=============================================================================
