------------------------------ MODULE ZimConvert ------------------------------
(****************************************************************************)
(* zim2oza (cmd/zim2oza/convert.go): a ZIM archive is scanned, its content  *)
(* is copied to a temp file in cluster order, the entries are sorted again  *)
(* for compression and handed to the archive writer, one by one or through  *)
(* a pool of transcoding goroutines, and at last come the redirects, each   *)
(* resolved to the entry at the end of its chain.                           *)
(*                                                                          *)
(* The goroutines of addEntriesParallel are processes: the producer, the    *)
(* workers, the goroutine that closes resultCh, and the consumer, which is  *)
(* the converter itself.  The writer is an append-only list of what it was  *)
(* given (ChunkWriter and Catalogue model its inside).  A temp-file, writer *)
(* or Close error may strike at any such call, at most MaxFaults times.     *)
(****************************************************************************)
EXTENDS Integers, Sequences, FiniteSets

CONSTANTS
    Jobs,       \* the conversions: [zim, main, meta, parallel], see below
    Worker,     \* the transcoding goroutines
    ChanCap,    \* capacity of workCh and resultCh (numWorkers * 2)
    MaxFaults   \* bound on the failing calls
    
(* A job's zim is the sequence of its directory entries, index 0 first:    *)
(*   ns, path     namespace and path                                       *)
(*   to           for a redirect the index of its target, else NoIndex     *)
(*   mime, size   of the content; key, the rank of ChunkKey(mime, size)    *)
(*   cluster      rank of (cluster, blob); readable, whether it decodes    *)
(* main is the index of the main page or NoIndex, meta the OZA keys of the *)
(* readable M/ entries.                                                    *)
NoIndex == -1

ZimConvertAssumption ==
    /\ Worker # {}
    /\ IsFiniteSet(Worker)
    /\ ChanCap \in Nat \ {0}
    /\ MaxFaults \in Nat

ASSUME ZimConvertAssumption

EntryRecord ==
    [ns : STRING, path : Int, to : Int, mime : STRING, key : Int, cluster : Int,
     size : Nat, readable : BOOLEAN]

ASSUME JobsAssumption ==
    Jobs \subseteq [zim : Seq(EntryRecord), main : Int, meta : SUBSET STRING, parallel : BOOLEAN]

VARIABLES
    job,         \* the Converter: its input and options
    pc,          \* where Run is
    plan,        \* scanPlan: content, redirects (sequences of ZIM indices)
    meta,        \* the writer's metadata: a set of keys, and main_entry
    readPos,     \* entries of plan.content read so far
    contentTmp,  \* the temp file, a sequence of bytes
    tmpOpen,     \* the temp file is open
    buffered,    \* bufferedEntry records
    zimIndexToOzaID,
    entries,     \* what AddEntry was given, in order
    redirects,   \* what AddRedirect was given, in order
    linkPos,     \* redirects of the plan handled so far
    addFailed,   \* AddEntry returned an error (history)
    faults       \* failing calls so far

(* The goroutines of addEntriesParallel. *)
VARIABLES
    prodPos,      \* entries the producer has taken on
    workCh, workClosed,
    item,         \* Worker -> the item in hand, Idle, or Gone
    resultCh, resultClosed,
    pending,      \* results ahead of their turn, by index
    nextIdx,      \* entries added
    readErr       \* the producer's error

mainVars == <<job, plan, meta, redirects, linkPos>>
chanVars == <<prodPos, workCh, workClosed, item, resultCh, resultClosed, readErr>>
vars == <<job, pc, plan, meta, readPos, contentTmp, tmpOpen, buffered,
          zimIndexToOzaID, entries, redirects, linkPos, addFailed, faults,
          prodPos, workCh, workClosed, item, resultCh, resultClosed, pending,
          nextIdx, readErr>>

zim == job.zim
Index == 0 .. Len(zim) - 1
Dirent(z) == zim[z + 1]
Bytes(z) == [k \in 1 .. Dirent(z).size |-> <<z, k>>]
Idle == [idx |-> -1]
Gone == [idx |-> -2]

(***************************************************************************)
(* Scan                                                                    *)
(***************************************************************************)
(* OZA has one space of paths: a path is kept as it is, or put under a     *)
(* directory that tells its namespace.  Areas and paths compare by rank.   *)
Mediawiki == -1    \* a path under _mw_/

mapZIMPath(ns, path) ==
    CASE ns = "C" /\ path = Mediawiki -> [cat |-> "chrome", path |-> <<>>]
      [] ns = "M" -> [cat |-> "metadata", path |-> <<>>]
      [] ns = "X" -> [cat |-> "skip", path |-> <<>>]
      [] ns \in {"C", "-"} -> [cat |-> "content", path |-> <<2, path>>]
      [] ns = "W" -> [cat |-> "content", path |-> <<1, path>>]
      [] OTHER -> [cat |-> "content", path |-> <<0, path>>]

OzaPath(z) == mapZIMPath(Dirent(z).ns, Dirent(z).path).path
IsContentPath(z) == mapZIMPath(Dirent(z).ns, Dirent(z).path).cat = "content"
IsRedirect(z) == Dirent(z).to # NoIndex
IsFront(z) == Dirent(z).ns = "C" /\ Dirent(z).mime = "html"

(* All orders sort.Slice may leave S in: ties come in any order.           *)
Sorted(S, Before(_, _)) ==
    {s \in [1 .. Cardinality(S) -> S] :
        \A i, j \in DOMAIN s : i < j => s[i] # s[j] /\ ~Before(s[j], s[i])}

InIndexOrder(S) == CHOOSE s \in Sorted(S, <) : TRUE

Scan ==
    LET kept == {z \in Index : IsContentPath(z)}
    IN  [content |-> {z \in kept : ~IsRedirect(z)},
         redirects |-> InIndexOrder({z \in kept : IsRedirect(z) /\ Dirent(z).to \in Index})]

sortByClusterOrder(S) ==
    Sorted(S, LAMBDA a, b : Dirent(a).cluster < Dirent(b).cluster)

(***************************************************************************)
(* Metadata                                                                *)
(***************************************************************************)
Required == {"title", "language", "creator", "date", "source"}

(* zim's Resolve (external): the end of the chain, or NoIndex on an error. *)
EndOf(dirents, z) ==
    LET end[k \in Nat, y \in Int] ==
            IF y + 1 \notin DOMAIN dirents \/ k > Len(dirents) THEN NoIndex
            ELSE IF dirents[y + 1].to # NoIndex THEN end[k + 1, dirents[y + 1].to] ELSE y
    IN  end[0, z]

ResolveZIM(z) == EndOf(zim, z)

(* Mutant: the main page's own path, resolved or not. *)
MutwriteMetadata ==
    LET named == job.main \in Index /\ IsContentPath(job.main)
    IN  [keys |-> job.meta \cup Required \cup {"converter"}
                  \cup (IF named THEN {"main_entry"} ELSE {}),
         main |-> CASE "main_entry" \in job.meta -> <<3, 0>>
                    [] "main_entry" \notin job.meta /\ named -> OzaPath(job.main)
                    [] OTHER -> <<>>]

(* The keys of the source come last, main_entry among them if it has one.  *)
writeMetadata ==
    LET end == ResolveZIM(job.main)
        named == end # NoIndex /\ IsContentPath(end)
    IN  [keys |-> job.meta \cup Required \cup {"converter"}
                  \cup (IF named THEN {"main_entry"} ELSE {}),
         main |-> CASE "main_entry" \in job.meta -> <<3, 0>>
                    [] "main_entry" \notin job.meta /\ named -> OzaPath(end)
                    [] OTHER -> <<>>]

Init ==
    /\ job \in Jobs
    /\ pc = "scan"
    /\ plan = [content |-> <<>>, redirects |-> <<>>]
    /\ meta = [keys |-> {}, main |-> <<>>]
    /\ readPos = 0 /\ contentTmp = <<>> /\ tmpOpen = FALSE
    /\ buffered = <<>> /\ zimIndexToOzaID = <<>>
    /\ entries = <<>> /\ redirects = <<>> /\ linkPos = 0
    /\ addFailed = FALSE /\ faults = 0
    /\ prodPos = 0 /\ workCh = <<>> /\ workClosed = FALSE
    /\ item = [w \in Worker |-> Idle]
    /\ resultCh = <<>> /\ resultClosed = FALSE
    /\ pending = <<>> /\ nextIdx = 0 /\ readErr = FALSE

Fault == faults < MaxFaults /\ faults' = faults + 1

(* write returns: its deferred calls close and remove the temp file.       *)
Fail == pc' = "failed" /\ tmpOpen' = FALSE

(* scan, sortByClusterOrder, the head of write: metadata and temp file.    *)
ScanAndPlan ==
    /\ pc = "scan"
    /\ \E order \in sortByClusterOrder(Scan.content) :
           plan' = [content |-> order, redirects |-> Scan.redirects]
    /\ meta' = writeMetadata
    /\ tmpOpen' = TRUE
    /\ pc' = "read"
    /\ UNCHANGED <<job, readPos, contentTmp, buffered, zimIndexToOzaID, entries,
                   redirects, linkPos, addFailed, faults, chanVars, pending, nextIdx>>

-----------------------------------------------------------------------------
(* One turn of the read loop: an unreadable entry is left out, a failed *)
(* write to the temp file ends the conversion.                          *)
ReadEntry ==
    /\ pc = "read" /\ readPos < Len(plan.content)
    /\ LET z == plan.content[readPos + 1]
       IN  \/ /\ Dirent(z).readable
              /\ contentTmp' = contentTmp \o Bytes(z)
              /\ buffered' = Append(buffered,
                     [zimIndex |-> z, off |-> Len(contentTmp), len |-> Dirent(z).size])
              /\ readPos' = readPos + 1
              /\ UNCHANGED <<pc, tmpOpen, faults>>
           \/ /\ ~Dirent(z).readable
              /\ readPos' = readPos + 1
              /\ UNCHANGED <<pc, tmpOpen, contentTmp, buffered, faults>>
           \/ /\ Dirent(z).readable /\ Fault /\ Fail
              /\ UNCHANGED <<readPos, contentTmp, buffered>>
    /\ UNCHANGED <<mainVars, zimIndexToOzaID, entries, addFailed, chanVars,
                   pending, nextIdx>>

PathBefore(p, q) == p[1] < q[1] \/ (p[1] = q[1] /\ p[2] < q[2])

(* The order the writer gets the entries in: by ChunkKey, then by path.      *)
ByChunkKey(be) ==
    LET Before(x, y) ==
            LET a == x.zimIndex  b == y.zimIndex
            IN  \/ Dirent(a).key < Dirent(b).key
                \/ Dirent(a).key = Dirent(b).key /\ PathBefore(OzaPath(a), OzaPath(b))
    IN  Sorted({be[i] : i \in DOMAIN be}, Before)

(* OZA IDs are fixed here, before any entry is added.                        *)
IDsOf(be) ==
    [z \in {be[i].zimIndex : i \in DOMAIN be} |->
        (CHOOSE i \in DOMAIN be : be[i].zimIndex = z) - 1]

(* Mutant: the IDs are taken from the order of the reads. *)
MutSortAndNumber ==
    /\ pc = "read" /\ readPos = Len(plan.content)
    /\ \E order \in ByChunkKey(buffered) :
          /\ buffered' = order
          /\ zimIndexToOzaID' = IDsOf(buffered)
    /\ pc' = IF job.parallel THEN "receive" ELSE "add"
    /\ UNCHANGED <<mainVars, readPos, contentTmp, tmpOpen, entries, addFailed,
                   faults, chanVars, pending, nextIdx>>

SortAndNumber ==
    /\ pc = "read" /\ readPos = Len(plan.content)
    /\ \E order \in ByChunkKey(buffered) :
          /\ buffered' = order
          /\ zimIndexToOzaID' = IDsOf(order)
    /\ pc' = IF job.parallel THEN "receive" ELSE "add"
    /\ UNCHANGED <<mainVars, readPos, contentTmp, tmpOpen, entries, addFailed,
                   faults, chanVars, pending, nextIdx>>

-----------------------------------------------------------------------------
(***************************************************************************)
(* Adding the entries                                                      *)
(***************************************************************************)
ReadAt(be) == SubSeq(contentTmp, be.off + 1, be.off + be.len)

needsTranscode(z) == Dirent(z).mime = "image"

(* An entry as AddEntry stores it.  The writer transcodes an image itself *)
(* when the converter has not, so both ways end in the same content.      *)
Added(i, content) ==
    LET z == buffered[i + 1].zimIndex
    IN  [path |-> OzaPath(z), content |-> content,
         transcoded |-> needsTranscode(z) /\ job.parallel, front |-> IsFront(z)]

(* The sequential loop: read back, add.                                      *)
AddNext ==
    /\ pc = "add" /\ nextIdx < Len(buffered)
    /\ \/ /\ entries' = Append(entries, Added(nextIdx, ReadAt(buffered[nextIdx + 1])))
          /\ nextIdx' = nextIdx + 1
          /\ UNCHANGED <<pc, tmpOpen, addFailed, faults>>
       \/ /\ Fault /\ Fail
          /\ addFailed' \in BOOLEAN      \* AddEntry failed, or the read before it
          /\ UNCHANGED <<entries, nextIdx>>
    /\ UNCHANGED <<mainVars, readPos, contentTmp, buffered, zimIndexToOzaID,
                   chanVars, pending>>

(* The producer: reads an entry back and sends it; on an error, or at the *)
(* end, it closes workCh.                                                 *)
Parallel == /\ job.parallel /\ pc \notin {"scan", "read"}
            /\ readPos = Len(plan.content)

(* Mutant: after a read error the producer returns and workCh stays open.    *)
MutProduce ==
    /\ Parallel /\ ~workClosed
    /\ \/ /\ prodPos < Len(buffered) /\ tmpOpen /\ Len(workCh) < ChanCap
          /\ workCh' = Append(workCh,
                 [idx |-> prodPos, content |-> ReadAt(buffered[prodPos + 1]),
                  mime |-> Dirent(buffered[prodPos + 1].zimIndex).mime])
          /\ prodPos' = prodPos + 1
          /\ UNCHANGED <<workClosed, readErr, faults>>
       \/ /\ prodPos < Len(buffered) /\ tmpOpen /\ Fault
          /\ readErr' = TRUE
          /\ prodPos' = Len(buffered) + 1
          /\ UNCHANGED <<workClosed, workCh>>
       \/ /\ prodPos = Len(buffered)
          /\ workClosed' = TRUE
          /\ UNCHANGED <<prodPos, workCh, readErr, faults>>
    /\ UNCHANGED <<mainVars, pc, readPos, contentTmp, tmpOpen, buffered, zimIndexToOzaID,
                   entries, addFailed, item, resultCh, resultClosed, pending, nextIdx>>

Produce ==
    /\ Parallel /\ ~workClosed
    /\ \/ /\ prodPos < Len(buffered) /\ tmpOpen /\ Len(workCh) < ChanCap
          /\ workCh' = Append(workCh,
                 [idx |-> prodPos, content |-> ReadAt(buffered[prodPos + 1]),
                  mime |-> Dirent(buffered[prodPos + 1].zimIndex).mime])
          /\ prodPos' = prodPos + 1
          /\ UNCHANGED <<workClosed, readErr, faults>>
       \/ /\ prodPos < Len(buffered)
          /\ IF tmpOpen THEN Fault ELSE UNCHANGED faults
          /\ readErr' = TRUE
          /\ workClosed' = TRUE
          /\ UNCHANGED <<prodPos, workCh>>
       \/ /\ prodPos = Len(buffered)
          /\ workClosed' = TRUE
          /\ UNCHANGED <<prodPos, workCh, readErr, faults>>
    /\ UNCHANGED <<mainVars, pc, readPos, contentTmp, tmpOpen, buffered, zimIndexToOzaID,
                   entries, addFailed, item, resultCh, resultClosed, pending, nextIdx>>

workerFrame == <<mainVars, pc, readPos, contentTmp, tmpOpen, buffered, zimIndexToOzaID,
                 entries, addFailed, faults, prodPos, workClosed, pending, nextIdx, readErr>>

(* A worker takes an item and transcodes it, or ends with the channel.       *)
Take(w) ==
    /\ Parallel /\ item[w] = Idle
    /\ \/ /\ workCh # <<>>
          /\ item' = [item EXCEPT ![w] =
                [idx |-> Head(workCh).idx, content |-> Head(workCh).content,
                 transcoded |-> Head(workCh).mime = "image"]]
          /\ workCh' = Tail(workCh)
       \/ /\ workCh = <<>> /\ workClosed
          /\ item' = [item EXCEPT ![w] = Gone]
          /\ UNCHANGED workCh
    /\ UNCHANGED <<workerFrame, resultCh, resultClosed>>

Send(w) ==
    /\ item[w] \notin {Idle, Gone} /\ Len(resultCh) < ChanCap
    /\ resultCh' = Append(resultCh, item[w])
    /\ item' = [item EXCEPT ![w] = Idle]
    /\ UNCHANGED <<workerFrame, workCh, resultClosed>>

(* Mutant: the results end with the first worker that ends. *)
MutCloseResults ==
    /\ Parallel /\ ~resultClosed
    /\ \E w \in Worker : item[w] = Gone
    /\ resultClosed' = TRUE
    /\ UNCHANGED <<workerFrame, workCh, item, resultCh>>

(* wg.Wait, then close(resultCh).                                            *)
CloseResults ==
    /\ Parallel /\ ~resultClosed
    /\ \A w \in Worker : item[w] = Gone
    /\ resultClosed' = TRUE
    /\ UNCHANGED <<workerFrame, workCh, item, resultCh>>

(* The consumer waits for a result, ...                                      *)
Receive ==
    /\ pc = "receive" /\ resultCh # <<>>
    /\ LET r == Head(resultCh)
       IN  pending' = [i \in DOMAIN pending \cup {r.idx} |-> IF i = r.idx THEN r ELSE pending[i]]
    /\ resultCh' = Tail(resultCh)
    /\ pc' = "reorder"
    /\ UNCHANGED <<mainVars, readPos, contentTmp, tmpOpen, buffered, zimIndexToOzaID,
                   entries, addFailed, faults, prodPos, workCh, workClosed, item,
                   resultClosed, nextIdx, readErr>>

(* ... and adds all that follow one another; a failing AddEntry returns at *)
(* once and leaves the goroutines behind.                                  *)
AddPending ==
    /\ pc = "reorder"
    /\ \/ /\ nextIdx \in DOMAIN pending
          /\ pending' = [i \in DOMAIN pending \ {nextIdx} |-> pending[i]]
          /\ \/ /\ entries' = Append(entries,
                        [Added(nextIdx, pending[nextIdx].content)
                           EXCEPT !.transcoded = pending[nextIdx].transcoded])
                /\ nextIdx' = nextIdx + 1
                /\ UNCHANGED <<pc, tmpOpen, addFailed, faults>>
             \/ /\ Fault /\ Fail
                /\ addFailed' = TRUE
                /\ UNCHANGED <<entries, nextIdx>>
       \/ /\ nextIdx \notin DOMAIN pending
          /\ pc' = "receive"
          /\ UNCHANGED <<pending, entries, nextIdx, tmpOpen, addFailed, faults>>
    /\ UNCHANGED <<mainVars, readPos, contentTmp, buffered, zimIndexToOzaID, chanVars>>

(* The temp file is closed and removed once every entry has been added.      *)
EntriesDone ==
    /\ \/ pc = "add" /\ nextIdx = Len(buffered)
       \/ pc = "receive" /\ resultCh = <<>> /\ resultClosed
    /\ pc' = IF pc = "receive" /\ readErr THEN "failed" ELSE "redirects"
    /\ tmpOpen' = FALSE
    /\ UNCHANGED <<mainVars, readPos, contentTmp, buffered, zimIndexToOzaID, entries,
                   addFailed, faults, chanVars, pending, nextIdx>>

-----------------------------------------------------------------------------
(***************************************************************************)
(* Redirects                                                               *)
(***************************************************************************)
(* Mutant: only a redirect straight to an entry is resolved.               *)
MutResolveChain(z) ==
    IF z \in DOMAIN zimIndexToOzaID THEN zimIndexToOzaID[z] ELSE NoIndex

(* The OZA ID at the end of the chain from z, or NoIndex: the chain leaves *)
(* the plan, or comes back to where it was.                                *)
ResolveChain(z) ==
    LET planned == {plan.redirects[i] : i \in DOMAIN plan.redirects}
        walk[at \in (SUBSET Index) \X Index] ==
            LET visited == at[1]  cur == at[2]
            IN  IF cur \in visited THEN NoIndex
                ELSE IF cur \in DOMAIN zimIndexToOzaID THEN zimIndexToOzaID[cur]
                ELSE IF cur \in planned THEN walk[<<visited \cup {cur}, Dirent(cur).to>>]
                ELSE NoIndex
    IN  walk[<<{}, z>>]

AddRedirect ==
    /\ pc = "redirects" /\ linkPos < Len(plan.redirects)
    /\ LET z == plan.redirects[linkPos + 1]
           id == ResolveChain(Dirent(z).to)
       IN  \/ /\ id # NoIndex
              /\ redirects' = Append(redirects, [path |-> OzaPath(z), target |-> id, from |-> z])
              /\ UNCHANGED <<pc, tmpOpen, faults>>
           \/ /\ id = NoIndex
              /\ UNCHANGED <<redirects, pc, tmpOpen, faults>>
           \/ /\ id # NoIndex /\ Fault /\ Fail
              /\ UNCHANGED redirects
    /\ linkPos' = linkPos + 1
    /\ UNCHANGED <<job, plan, meta, readPos, contentTmp, buffered, zimIndexToOzaID,
                   entries, addFailed, chanVars, pending, nextIdx>>

(* The writer's Close, which checks the required metadata.                   *)
Finish ==
    /\ pc = "redirects" /\ linkPos = Len(plan.redirects)
    /\ \/ /\ pc' = IF Required \subseteq meta.keys THEN "done" ELSE "failed"
          /\ UNCHANGED <<tmpOpen, faults>>
       \/ Fault /\ Fail
    /\ UNCHANGED <<mainVars, readPos, contentTmp, buffered, zimIndexToOzaID, entries,
                   addFailed, chanVars, pending, nextIdx>>

-----------------------------------------------------------------------------
Next ==
    \/ ScanAndPlan \/ ReadEntry \/ SortAndNumber
    \/ AddNext \/ Produce \/ CloseResults \/ Receive \/ AddPending \/ EntriesDone
    \/ \E w \in Worker : Take(w) \/ Send(w)
    \/ AddRedirect \/ Finish

(* Each goroutine that can run is scheduled some time.                       *)
Converter == ScanAndPlan \/ ReadEntry \/ SortAndNumber \/ AddNext \/ Receive
             \/ AddPending \/ EntriesDone \/ AddRedirect \/ Finish

Spec == /\ Init /\ [][Next]_vars
        /\ WF_vars(Converter) /\ WF_vars(Produce) /\ WF_vars(CloseResults)
        /\ \A w \in Worker : WF_vars(Take(w) \/ Send(w))

-----------------------------------------------------------------------------
(***************************************************************************)
(* Properties                                                              *)
(***************************************************************************)
Over == pc \in {"done", "failed"}
Kept == {z \in Index : IsContentPath(z) /\ ~IsRedirect(z) /\ Dirent(z).readable}

(* What the converter holds is well-formed, the channels keep to their *)
(* capacity and an index is in one goroutine's hands at a time.        *)
TypeOK ==
    /\ job \in Jobs
    /\ pc \in {"scan", "read", "add", "receive", "reorder", "redirects", "done", "failed"}
    /\ readPos \in 0 .. Len(plan.content) /\ nextIdx = Len(entries)
    /\ nextIdx \in 0 .. Len(buffered) /\ prodPos \in 0 .. Len(buffered)
    /\ DOMAIN zimIndexToOzaID \subseteq Index
    /\ Len(workCh) <= ChanCap /\ Len(resultCh) <= ChanCap
    /\ \A w \in Worker : item[w].idx \in -2 .. prodPos - 1
    /\ DOMAIN pending \subseteq nextIdx .. prodPos - 1
    /\ faults \in 0 .. MaxFaults

(* Whatever the goroutines' order, the entry with the ID that                *)
(* zimIndexToOzaID holds for a ZIM entry is that entry: its path and its own *)
(* bytes, read back from the temp file.  A conversion that succeeds has      *)
(* added every readable content entry, and no read error was dropped.        *)
AddedRight ==
    /\ \A z \in DOMAIN zimIndexToOzaID :
          LET id == zimIndexToOzaID[z]
          IN  id < Len(entries) =>
                 /\ entries[id + 1].path = OzaPath(z)
                 /\ entries[id + 1].content = Bytes(z)
                 /\ entries[id + 1].transcoded = (job.parallel /\ needsTranscode(z))
    /\ pc \in {"redirects", "done"} =>
          /\ ~readErr
          /\ DOMAIN zimIndexToOzaID = Kept /\ Len(entries) = Cardinality(Kept)

(* The entries that following redirects of the plan from z leads to.         *)
Ends(z) ==
    LET next(S) == S \cup {Dirent(y).to : y \in {x \in S : IsRedirect(x) /\ IsContentPath(x)}}
        reach[k \in 0 .. Len(zim)] == IF k = 0 THEN {z} ELSE next(reach[k - 1] \cap Index)
    IN  reach[Len(zim)] \cap Kept

(* A conversion that succeeds has one redirect for each redirect of the ZIM  *)
(* whose chain ends in an entry that was kept, and it names that entry: none *)
(* to another redirect, none for a chain that breaks or turns in a circle.   *)
RedirectsRight ==
    pc = "done" =>
        /\ {redirects[i].from : i \in DOMAIN redirects}
              = {z \in Index : IsRedirect(z) /\ IsContentPath(z) /\ Ends(z) # {}}
        /\ \A i \in DOMAIN redirects :
              \E y \in Ends(redirects[i].from) :
                  /\ redirects[i].path = OzaPath(redirects[i].from)
                  /\ entries[redirects[i].target + 1].content = Bytes(y)

(* The main entry of a finished archive is the page the ZIM's main page   *)
(* resolves to, unless that page could not be read -- main_entry is set   *)
(* before the contents are -- or the ZIM's own metadata has a main_entry. *)
MainEntryRight ==
    LET end == ResolveZIM(job.main)
    IN  (pc = "done" /\ meta.main # <<>> /\ "main_entry" \notin job.meta /\ end \in Kept) =>
               \E i \in DOMAIN entries :
                   entries[i].path = meta.main /\ entries[i].content = Bytes(end)

(* When the entries have been added, or the producer's error has been      *)
(* reported, no goroutine is left that could use the temp file or wait for *)
(* ever: only a failing AddEntry leaves goroutines behind.  Channels and   *)
(* counters stay within their bounds (TypeOK).                             *)
QuietEnd ==
    /\ TypeOK
    /\ (/\ job.parallel /\ ~addFailed
        /\ pc \in {"redirects", "done"} \/ (pc = "failed" /\ readErr)) =>
           /\ workClosed /\ resultClosed /\ workCh = <<>> /\ resultCh = <<>>
           /\ \A w \in Worker : item[w] = Gone

(* The conversion ends, with an archive or an error.                         *)
Finishes == <>Over

=============================================================================
