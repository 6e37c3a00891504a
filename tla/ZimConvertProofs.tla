--------------------------- MODULE ZimConvertProofs ---------------------------
(****************************************************************************)
(* What every conversion keeps to, whatever the ZIM, the workers and the    *)
(* capacity of the channels: the four invariants that the run checks, from  *)
(* one inductive invariant, and the redirects by induction over the chain.  *)
(****************************************************************************)
EXTENDS ZimConvert, FiniteSetTheorems, TLAPS

(***************************************************************************)
(* The inductive invariant                                                 *)
(***************************************************************************)
(* Everything that is read of the ZIM is written and sorted.               *)
Numbered == pc \notin {"scan", "read"} /\ readPos = Len(plan.content)

(* ScanAndPlan has put what it found into the plan, in some order. *)
PlanInv ==
    /\ job \in Jobs
    /\ pc \in {"scan", "read", "add", "receive", "reorder", "redirects", "done", "failed"}
    /\ readPos \in 0 .. Len(plan.content)
    /\ pc = "scan" => plan.content = <<>>
    /\ pc # "scan" =>
         /\ plan.content \in sortByClusterOrder(Scan.content)
         /\ plan.redirects = Scan.redirects
         /\ meta = writeMetadata
    /\ pc \in {"add", "receive", "reorder", "redirects", "done"} => readPos = Len(plan.content)
    /\ faults \in 0 .. MaxFaults

(* The first n entries of the plan that were readable, and those written.  *)
ReadSet(n) == {z \in {plan.content[k] : k \in 1 .. n} : Dirent(z).readable}
BufferSet == {buffered[i].zimIndex : i \in 1 .. Len(buffered)}

(* The contents that have been read, where their bytes are, and their IDs. *)
BufferInv ==
    /\ contentTmp \in Seq(Nat \X Nat)
    /\ buffered \in Seq([zimIndex : Index, off : Nat, len : Nat])
    /\ \A i \in 1 .. Len(buffered) :
         /\ buffered[i].off + buffered[i].len <= Len(contentTmp)
         /\ ReadAt(buffered[i]) = Bytes(buffered[i].zimIndex)
    /\ \A i, j \in 1 .. Len(buffered) : buffered[i].zimIndex = buffered[j].zimIndex => i = j
    /\ BufferSet = ReadSet(readPos)
    /\ IF Numbered
       THEN /\ DOMAIN zimIndexToOzaID = BufferSet
            /\ \A i \in 1 .. Len(buffered) : zimIndexToOzaID[buffered[i].zimIndex] = i - 1
       ELSE DOMAIN zimIndexToOzaID = {}

(* How the goroutines end: the producer closes workCh behind its last entry *)
(* or an error, the workers go when it is empty, resultCh is closed behind  *)
(* the last of them, and then only the consumer goes on -- unless AddEntry  *)
(* has failed.  Without the goroutines all is as at the start.              *)
ShutInv ==
    /\ DOMAIN item = Worker
    /\ (readErr => workClosed) /\ (workClosed /\ ~readErr => prodPos = Len(buffered))
    /\ \A w \in Worker : item[w] = Gone => workClosed /\ workCh = <<>>
    /\ resultClosed => \A w \in Worker : item[w] = Gone
    /\ pc = "add" => ~job.parallel
    /\ pc \in {"receive", "reorder"} => job.parallel
    /\ pc = "receive" => nextIdx \notin DOMAIN pending
    /\ pc # "failed" => ~addFailed
    /\ Parallel /\ pc \in {"redirects", "done", "failed"} /\ ~addFailed =>
         resultClosed /\ resultCh = <<>>
    /\ pc \in {"redirects", "done"} => ~readErr
    /\ ~Parallel => /\ ~readErr /\ ~workClosed /\ ~resultClosed
                    /\ workCh = <<>> /\ resultCh = <<>> /\ pending = <<>> /\ prodPos = 0
                    /\ \A w \in Worker : item[w] = Idle

(* What the producer sends for place i, and a worker makes of it.           *)
WorkItem(i) ==
    LET z == buffered[i + 1].zimIndex
    IN  [idx |-> i, content |-> Bytes(z), mime |-> Dirent(z).mime]
Result(i) ==
    LET z == buffered[i + 1].zimIndex
    IN  [idx |-> i, content |-> Bytes(z), transcoded |-> needsTranscode(z)]
WorkItems == {WorkItem(i) : i \in 0 .. prodPos - 1}
Results == {Result(i) : i \in 0 .. prodPos - 1}

(* Whatever is in the channels and in the goroutines' hands is right. *)
HandsInv ==
    /\ prodPos \in 0 .. Len(buffered)
    /\ workCh \in Seq(WorkItems) /\ Len(workCh) <= ChanCap
    /\ item \in [Worker -> Results \cup {Idle, Gone}]
    /\ resultCh \in Seq(Results) /\ Len(resultCh) <= ChanCap
    /\ DOMAIN pending \subseteq 0 .. prodPos - 1
    /\ \A i \in DOMAIN pending : pending[i] = Result(i)

(* The entry that belongs at place i. *)
Expected(i) ==
    LET z == buffered[i + 1].zimIndex
    IN  [path |-> OzaPath(z), content |-> Bytes(z),
         transcoded |-> needsTranscode(z) /\ job.parallel, front |-> IsFront(z)]

(* The writer has been given the entries in their order, all of them when *)
(* the redirects begin.                                                   *)
EntriesInv ==
    /\ nextIdx \in 0 .. Len(buffered)
    /\ entries = [k \in 1 .. nextIdx |-> Expected(k - 1)]
    /\ ~Numbered => nextIdx = 0
    /\ job.parallel => nextIdx <= prodPos
    /\ pc \in {"redirects", "done"} => nextIdx = Len(buffered)

(* The worker has an item in hand. *)
Real(w) == item[w] \notin {Idle, Gone}

(* An index is in one place at a time, and not added yet. *)
OnceInv ==
    /\ \A i, j \in 1 .. Len(workCh) : workCh[i].idx = workCh[j].idx => i = j
    /\ \A i, j \in 1 .. Len(resultCh) : resultCh[i].idx = resultCh[j].idx => i = j
    /\ \A v, w \in Worker : Real(v) /\ Real(w) /\ item[v].idx = item[w].idx => v = w
    /\ \A i \in 1 .. Len(workCh), w \in Worker : Real(w) => workCh[i].idx # item[w].idx
    /\ \A i \in 1 .. Len(workCh), j \in 1 .. Len(resultCh) : workCh[i].idx # resultCh[j].idx
    /\ \A i \in 1 .. Len(resultCh), w \in Worker : Real(w) => resultCh[i].idx # item[w].idx
    /\ \A i \in 1 .. Len(workCh) : workCh[i].idx >= nextIdx /\ workCh[i].idx \notin DOMAIN pending
    /\ \A i \in 1 .. Len(resultCh) : resultCh[i].idx >= nextIdx /\ resultCh[i].idx \notin DOMAIN pending
    /\ \A w \in Worker : Real(w) => item[w].idx >= nextIdx /\ item[w].idx \notin DOMAIN pending
    /\ \A i \in DOMAIN pending : i >= nextIdx

(* No index the producer has sent is lost before a failing AddEntry. *)
Accounted ==
    ~addFailed => \A i \in 0 .. prodPos - 1 :
        \/ i < nextIdx
        \/ i \in DOMAIN pending
        \/ \E k \in 1 .. Len(workCh) : workCh[k].idx = i
        \/ \E k \in 1 .. Len(resultCh) : resultCh[k].idx = i
        \/ \E w \in Worker : Real(w) /\ item[w].idx = i

-----------------------------------------------------------------------------
LEMMA JobFacts ==
    ASSUME job \in Jobs
    PROVE  /\ zim \in Seq(EntryRecord) /\ Index = 0 .. Len(zim) - 1 /\ Index \subseteq Nat
           /\ IsFiniteSet(Index)
           /\ \A z \in Index : Dirent(z) \in EntryRecord
           /\ job.parallel \in BOOLEAN
<1>1. zim \in Seq(EntryRecord) /\ job.parallel \in BOOLEAN
  BY JobsAssumption DEF zim
<1>2. Index = 0 .. Len(zim) - 1 /\ Index \subseteq Nat
  BY <1>1 DEF Index
<1>3. IsFiniteSet(Index)
  BY <1>1, <1>2, FS_Interval
<1>4. \A z \in Index : Dirent(z) \in EntryRecord
  BY <1>1, <1>2 DEF Dirent
<1> QED BY <1>1, <1>2, <1>3, <1>4

(* What the ZIM says stays. *)
LEMMA JobFixed ==
    ASSUME UNCHANGED job
    PROVE  /\ Index' = Index
           /\ \A z : /\ Dirent(z)' = Dirent(z) /\ OzaPath(z)' = OzaPath(z)
                     /\ Bytes(z)' = Bytes(z) /\ IsFront(z)' = IsFront(z)
                     /\ needsTranscode(z)' = needsTranscode(z)
                     /\ IsContentPath(z)' = IsContentPath(z) /\ IsRedirect(z)' = IsRedirect(z)
           /\ Scan' = Scan /\ writeMetadata' = writeMetadata
           /\ \A S : sortByClusterOrder(S)' = sortByClusterOrder(S)
<1>1. zim' = zim /\ Index' = Index
  BY DEF zim, Index
<1>2. ASSUME NEW z
      PROVE  /\ Dirent(z)' = Dirent(z) /\ OzaPath(z)' = OzaPath(z)
             /\ Bytes(z)' = Bytes(z) /\ IsFront(z)' = IsFront(z)
             /\ needsTranscode(z)' = needsTranscode(z)
             /\ IsContentPath(z)' = IsContentPath(z) /\ IsRedirect(z)' = IsRedirect(z)
  BY <1>1 DEF Dirent, OzaPath, Bytes, IsFront, needsTranscode, IsContentPath, IsRedirect
<1>3. Scan' = Scan
  <2> DEFINE kept == {z \in Index : IsContentPath(z)}
             links == {z \in kept : IsRedirect(z) /\ Dirent(z).to \in Index}
  <2>1. links' = links
    BY <1>1, <1>2
  <2>2. {z \in kept : ~IsRedirect(z)}' = {z \in kept : ~IsRedirect(z)}
    BY <1>1, <1>2
  <2>3. Scan = [content |-> {z \in kept : ~IsRedirect(z)}, redirects |-> InIndexOrder(links)]
    BY DEF Scan
  <2>4. Scan' = [content |-> {z \in kept : ~IsRedirect(z)}', redirects |-> InIndexOrder(links')]
    BY DEF Scan
  <2> HIDE DEF links, kept
  <2> QED BY <2>1, <2>2, <2>3, <2>4
<1>4. writeMetadata' = writeMetadata
  BY <1>1, <1>2 DEF writeMetadata, ResolveZIM
<1>5. ASSUME NEW S PROVE sortByClusterOrder(S)' = sortByClusterOrder(S)
  BY <1>2 DEF sortByClusterOrder, Sorted
<1> QED BY <1>1, <1>2, <1>3, <1>4, <1>5

(* The result of a sort has every element once. *)
LEMMA SortedAll ==
    ASSUME NEW S, IsFiniteSet(S), NEW s \in [1 .. Cardinality(S) -> S],
           \A i, j \in DOMAIN s : i < j => s[i] # s[j]
    PROVE  /\ s \in Seq(S) /\ Len(s) = Cardinality(S)
           /\ {s[i] : i \in 1 .. Len(s)} = S
           /\ \A i, j \in 1 .. Len(s) : s[i] = s[j] => i = j
<1>1. Cardinality(S) \in Nat
  BY FS_CardinalityType
<1>2. DOMAIN s = 1 .. Cardinality(S)
  OBVIOUS
<1>3. s \in Seq(S) /\ Len(s) = Cardinality(S)
  BY <1>1, <1>2
<1>4. ASSUME NEW i \in DOMAIN s, NEW j \in DOMAIN s, s[i] = s[j] PROVE i = j
  <2>1. i \in Int /\ j \in Int
    BY <1>1
  <2>2. ~(i < j) /\ ~(j < i)
    BY <1>4
  <2> QED BY <2>1, <2>2
<1>5. s \in Injection(1 .. Cardinality(S), S)
  BY <1>4 DEF Injection, IsInjective
<1>6. Cardinality(1 .. Cardinality(S)) = Cardinality(S)
  BY <1>1, FS_Interval
<1>7. s \in Surjection(1 .. Cardinality(S), S)
  BY <1>5, <1>6, FS_Injection
<1>8. {s[i] : i \in 1 .. Len(s)} = S
  BY <1>7, <1>3 DEF Surjection
<1> QED BY <1>3, <1>4, <1>8

-----------------------------------------------------------------------------
LEMMA PlanInit == Init => PlanInv
BY ZimConvertAssumption DEF Init, PlanInv, ZimConvertAssumption

LEMMA PlanNext == PlanInv /\ [Next]_vars => PlanInv'
<1> SUFFICES ASSUME PlanInv, [Next]_vars PROVE PlanInv'
  OBVIOUS
<1> USE DEF PlanInv
<1>1. CASE ScanAndPlan
  BY <1>1, JobFixed DEF ScanAndPlan
<1> DEFINE Frame == UNCHANGED <<job, plan, meta>> /\ faults' \in 0 .. MaxFaults
<1>2. ASSUME Frame, UNCHANGED <<readPos, pc>> PROVE PlanInv'
  BY <1>2, JobFixed
<1>3. ASSUME Frame, readPos' = readPos, pc # "scan", pc' \in {"failed"} PROVE PlanInv'
  BY <1>3, JobFixed
<1>4. ASSUME Frame, readPos' = readPos, pc # "scan", readPos = Len(plan.content), pc' \in {"add", "receive", "reorder", "redirects", "done", "failed"} PROVE PlanInv'
  BY <1>4, JobFixed
<1>5. ASSUME Fault PROVE faults' \in 0 .. MaxFaults
  BY <1>5, ZimConvertAssumption DEF Fault, ZimConvertAssumption, PlanInv
<1>6. CASE ReadEntry
  <2>1. Frame /\ pc = "read"
    BY <1>5, <1>6 DEF ReadEntry, mainVars
  <2>2. \/ pc' = pc /\ readPos' = readPos + 1 /\ readPos < Len(plan.content)
        \/ pc' = "failed" /\ readPos' = readPos
    BY <1>6 DEF ReadEntry, Fail
  <2> QED BY <2>1, <2>2, <1>3, JobFixed
<1>7. CASE SortAndNumber
  BY <1>7, <1>4 DEF SortAndNumber, mainVars
<1>8. CASE AddNext
  BY <1>8, <1>2, <1>4, <1>5 DEF AddNext, mainVars, Fail
<1>9. CASE Produce
  BY <1>9, <1>2, <1>5 DEF Produce, mainVars
<1>10. CASE CloseResults \/ \E w \in Worker : Take(w) \/ Send(w)
  BY <1>10, <1>2 DEF CloseResults, Take, Send, workerFrame, mainVars
<1>11. CASE Receive \/ AddPending
  BY <1>11, <1>2, <1>4, <1>5 DEF Receive, AddPending, mainVars, Fail
<1>12. CASE EntriesDone
  BY <1>12, <1>4 DEF EntriesDone, mainVars
<1>13. CASE AddRedirect
  BY <1>13, <1>2, <1>4, <1>5 DEF AddRedirect, mainVars, Fail
<1>14. CASE Finish
  BY <1>14, <1>4, <1>5 DEF Finish, mainVars, Fail
<1>15. CASE UNCHANGED vars
  BY <1>15, <1>2 DEF vars
<1> QED BY <1>1, <1>6, <1>7, <1>8, <1>9, <1>10, <1>11, <1>12, <1>13, <1>14, <1>15 DEF Next

-----------------------------------------------------------------------------
(* The temp file keeps what it holds when something is written behind it. *)
LEMMA ReadOld ==
    ASSUME NEW S, NEW s \in Seq(S), NEW t \in Seq(S), NEW a \in Nat, NEW b \in Nat,
           1 <= a, b <= Len(s)
    PROVE  SubSeq(s \o t, a, b) = SubSeq(s, a, b)
OBVIOUS

LEMMA ReadNew ==
    ASSUME NEW S, NEW s \in Seq(S), NEW t \in Seq(S)
    PROVE  SubSeq(s \o t, Len(s) + 1, Len(s) + Len(t)) = t
OBVIOUS

(* The plan lists each content entry once. *)
LEMMA PlanFacts ==
    ASSUME PlanInv, pc # "scan"
    PROVE  /\ plan.content \in Seq(Scan.content) /\ Scan.content \subseteq Index
           /\ {plan.content[k] : k \in 1 .. Len(plan.content)} = Scan.content
           /\ \A i, j \in 1 .. Len(plan.content) : plan.content[i] = plan.content[j] => i = j
<1>1. Scan.content \subseteq Index /\ IsFiniteSet(Scan.content)
  BY JobFacts, FS_Subset DEF PlanInv, Scan
<1>2. /\ plan.content \in [1 .. Cardinality(Scan.content) -> Scan.content]
      /\ \A i, j \in DOMAIN plan.content : i < j => plan.content[i] # plan.content[j]
  BY DEF PlanInv, sortByClusterOrder, Sorted
<1> QED BY <1>1, <1>2, SortedAll

LEMMA BufferInit == Init => BufferInv
BY DEF Init, BufferInv, Numbered, BufferSet, ReadSet

LEMMA BufferReadEntry ==
    ASSUME PlanInv, BufferInv, ReadEntry
    PROVE  BufferInv'
<1> DEFINE z == plan.content[readPos + 1]
           rec == [zimIndex |-> z, off |-> Len(contentTmp), len |-> Dirent(z).size]
<1>1. /\ UNCHANGED <<job, plan, zimIndexToOzaID>> /\ pc = "read" /\ readPos < Len(plan.content)
  BY DEF ReadEntry, mainVars
<1>2. /\ readPos \in Nat /\ Len(plan.content) \in Nat /\ z \in Index
      /\ Dirent(z).size \in Nat /\ Bytes(z) \in Seq(Nat \X Nat) /\ Len(Bytes(z)) = Dirent(z).size
  <2>1. readPos \in Nat /\ Len(plan.content) \in Nat /\ readPos + 1 \in 1 .. Len(plan.content)
    BY <1>1, PlanFacts DEF PlanInv
  <2>2. z \in Index /\ z \in Nat
    BY <1>1, <2>1, PlanFacts, JobFacts DEF PlanInv
  <2>3. Dirent(z).size \in Nat
    BY <2>2, JobFacts DEF PlanInv, EntryRecord
  <2> HIDE DEF z
  <2>4. Bytes(z) \in Seq(Nat \X Nat) /\ Len(Bytes(z)) = Dirent(z).size
    BY <2>2, <2>3 DEF Bytes
  <2> QED BY <2>1, <2>2, <2>3, <2>4
<1>3. z \notin ReadSet(readPos)
  <2>1. ASSUME NEW k \in 1 .. readPos PROVE plan.content[k] # z
    <3>1. k \in 1 .. Len(plan.content) /\ readPos + 1 \in 1 .. Len(plan.content) /\ k # readPos + 1
      BY <1>1, <1>2
    <3> QED BY <1>1, <3>1, PlanFacts
  <2> QED BY <2>1 DEF ReadSet
<1>4. ReadSet(readPos + 1) = IF Dirent(z).readable THEN ReadSet(readPos) \cup {z} ELSE ReadSet(readPos)
  BY <1>2 DEF ReadSet
<1>5. \A n : ReadSet(n)' = ReadSet(n)
  BY <1>1, JobFixed DEF ReadSet
<1> HIDE DEF z
<1> DEFINE Cells == Nat \X Nat
           Recs == [zimIndex : Index, off : Nat, len : Nat]
<1>8. contentTmp \in Seq(Cells) /\ buffered \in Seq(Recs) /\ Bytes(z) \in Seq(Cells)
  BY <1>2 DEF BufferInv
<1> HIDE DEF Cells, Recs
<1>6. CASE /\ Dirent(z).readable /\ readPos' = readPos + 1 /\ pc' = pc
           /\ contentTmp' = contentTmp \o Bytes(z) /\ buffered' = Append(buffered, rec)
  <2>1. contentTmp' \in Seq(Cells) /\ Len(contentTmp') = Len(contentTmp) + Dirent(z).size
    <3>1. contentTmp' = contentTmp \o Bytes(z)
      BY <1>6
    <3>2. contentTmp \o Bytes(z) \in Seq(Cells)
      BY <1>8
    <3>3. Len(contentTmp \o Bytes(z)) = Len(contentTmp) + Len(Bytes(z))
      BY <1>8
    <3>4. Len(Bytes(z)) = Dirent(z).size
      BY <1>2
    <3> QED BY <3>1, <3>2, <3>3, <3>4
  <2>2. /\ buffered' \in Seq(Recs)
        /\ Len(buffered') = Len(buffered) + 1 /\ buffered'[Len(buffered) + 1] = rec
        /\ \A i \in 1 .. Len(buffered) : buffered'[i] = buffered[i]
        /\ Len(buffered) \in Nat
    <3>1. rec \in Recs
      BY <1>2, <1>8 DEF Recs
    <3> QED BY <1>6, <1>8, <3>1
  <2>3. ASSUME NEW i \in 1 .. Len(buffered)
        PROVE  /\ buffered[i].off + buffered[i].len <= Len(contentTmp')
               /\ ReadAt(buffered[i])' = Bytes(buffered[i].zimIndex)
    <3>1. buffered[i] \in Recs
      BY <1>8
    <3>2. buffered[i].off + buffered[i].len <= Len(contentTmp)
      BY DEF BufferInv
    <3>3. buffered'[i] = buffered[i]
      BY <2>2
    <3>4. ReadAt(buffered[i])' = ReadAt(buffered[i])
      <4>1. buffered[i].off \in Nat /\ buffered[i].len \in Nat
        BY <3>1 DEF Recs
      <4>2. ReadAt(buffered[i])' = SubSeq(contentTmp \o Bytes(z), buffered[i].off + 1, buffered[i].off + buffered[i].len)
        BY <1>6, <3>3 DEF ReadAt
      <4>3. SubSeq(contentTmp \o Bytes(z), buffered[i].off + 1, buffered[i].off + buffered[i].len) = SubSeq(contentTmp, buffered[i].off + 1, buffered[i].off + buffered[i].len)
        <5>1. buffered[i].off + 1 \in Nat /\ buffered[i].off + buffered[i].len \in Nat /\ 1 <= buffered[i].off + 1
          BY <4>1
        <5> QED BY <1>8, <3>2, <5>1, ReadOld
      <4> QED BY <4>2, <4>3 DEF ReadAt
    <3>5. ReadAt(buffered[i]) = Bytes(buffered[i].zimIndex)
      BY DEF BufferInv
    <3>6. Len(contentTmp) <= Len(contentTmp') /\ Len(contentTmp) \in Nat /\ Len(contentTmp') \in Nat
      BY <2>1, <1>2, <1>8
    <3> QED BY <3>1, <3>2, <3>4, <3>5, <3>6 DEF Recs
  <2>4. PICK r : r = rec
    OBVIOUS
  <2>5. r.off + r.len <= Len(contentTmp') /\ ReadAt(r)' = Bytes(z)
    <3>1. ReadAt(r)' = SubSeq(contentTmp \o Bytes(z), Len(contentTmp) + 1, Len(contentTmp) + Len(Bytes(z)))
      BY <1>2, <1>6, <2>4 DEF ReadAt
    <3>2. ReadAt(r)' = Bytes(z)
      BY <1>8, <3>1, ReadNew
    <3> QED BY <1>2, <1>8, <2>1, <2>4, <3>2
  <2>6. \A i \in 1 .. Len(buffered') :
          /\ buffered'[i].off + buffered'[i].len <= Len(contentTmp')
          /\ ReadAt(buffered[i])' = Bytes(buffered'[i].zimIndex)
    <3>1. ASSUME NEW i \in 1 .. Len(buffered)
          PROVE  /\ buffered'[i].off + buffered'[i].len <= Len(contentTmp')
                 /\ ReadAt(buffered[i])' = Bytes(buffered'[i].zimIndex)
      BY <2>2, <2>3
    <3>2. LET i == Len(buffered) + 1
          IN  /\ buffered'[i].off + buffered'[i].len <= Len(contentTmp')
              /\ SubSeq(contentTmp', buffered'[i].off + 1, buffered'[i].off + buffered'[i].len) = Bytes(buffered'[i].zimIndex)
      BY <2>2, <2>4, <2>5 DEF ReadAt
    <3>3. \A i \in 1 .. Len(buffered') : i \in 1 .. Len(buffered) \/ i = Len(buffered) + 1
      BY <2>2
    <3> QED BY <3>1, <3>2, <3>3 DEF ReadAt
  <2>7. \A i \in 1 .. Len(buffered) : buffered[i].zimIndex # z
    BY <1>3 DEF BufferInv, BufferSet
  <2>8. ASSUME NEW i \in 1 .. Len(buffered'), NEW j \in 1 .. Len(buffered'),
               buffered'[i].zimIndex = buffered'[j].zimIndex
        PROVE  i = j
    <3>1. \A k \in 1 .. Len(buffered') :
             \/ k \in 1 .. Len(buffered) /\ buffered'[k] = buffered[k] /\ buffered'[k].zimIndex # z
             \/ k = Len(buffered) + 1 /\ buffered'[k].zimIndex = z
      BY <2>2, <2>7
    <3>2. \A k, l \in 1 .. Len(buffered) : buffered[k].zimIndex = buffered[l].zimIndex => k = l
      BY DEF BufferInv
    <3> QED BY <2>8, <3>1, <3>2
  <2>9. BufferSet' = ReadSet(readPos')
    <3>1. BufferSet = ReadSet(readPos)
      BY DEF BufferInv
    <3>2. BufferSet' = BufferSet \cup {z}
      BY <2>2 DEF BufferSet
    <3> QED BY <1>4, <1>6, <3>1, <3>2
  <2>10. DOMAIN zimIndexToOzaID = {} /\ ~Numbered'
    BY <1>1, <1>6 DEF BufferInv, Numbered
  <2>11. ReadSet(readPos)' = ReadSet(readPos')
    BY <1>1, JobFixed DEF ReadSet
  <2>12. Recs' = Recs
    BY <1>1, JobFixed DEF Recs
  <2> QED BY <1>1, <2>1, <2>2, <2>6, <2>8, <2>9, <2>10, <2>11, <2>12, JobFixed DEF BufferInv, Cells, Recs
<1>7. CASE /\ UNCHANGED <<buffered, contentTmp>>
           /\ \/ ~Dirent(z).readable /\ readPos' = readPos + 1 /\ pc' = pc
              \/ readPos' = readPos /\ pc' = "failed"
  <2>1. DOMAIN zimIndexToOzaID = {} /\ ~Numbered'
    BY <1>1, <1>7 DEF BufferInv, Numbered
  <2>2. \A i : ReadAt(buffered[i])' = ReadAt(buffered[i])
    BY <1>7 DEF ReadAt
  <2>3. BufferSet' = ReadSet(readPos)'
    <3>1. BufferSet' = BufferSet
      BY <1>7 DEF BufferSet
    <3>2. ReadSet(readPos)' = ReadSet(readPos')
      BY <1>1, JobFixed DEF ReadSet
    <3> QED BY <1>4, <1>7, <3>1, <3>2 DEF BufferInv
  <2> QED BY <1>1, <1>7, <2>1, <2>2, <2>3, JobFixed DEF BufferInv
<1> QED BY <1>6, <1>7 DEF ReadEntry, z, Fail

(* Sorting changes the order only, and IDs are places in the new order. *)
LEMMA BufferSort ==
    ASSUME PlanInv, BufferInv, SortAndNumber
    PROVE  BufferInv'
<1> DEFINE Recs == [zimIndex : Index, off : Nat, len : Nat]
           S == {buffered[i] : i \in DOMAIN buffered}
<1>1. /\ UNCHANGED <<job, plan, readPos, contentTmp>> /\ Numbered'
  BY DEF SortAndNumber, mainVars, Numbered
<1>2. PICK order \in ByChunkKey(buffered) : buffered' = order /\ zimIndexToOzaID' = IDsOf(order)
  BY DEF SortAndNumber
<1>3. buffered \in Seq(Recs) /\ Len(buffered) \in Nat /\ DOMAIN buffered = 1 .. Len(buffered)
  BY DEF BufferInv
<1>4. IsFiniteSet(S)
  <2>1. IsFiniteSet(DOMAIN buffered)
    BY <1>3, FS_Interval
  <2>2. [i \in DOMAIN buffered |-> buffered[i]] \in Surjection(DOMAIN buffered, S)
    BY DEF Surjection
  <2> QED BY <2>1, <2>2, FS_Surjection
<1>5. order \in [1 .. Cardinality(S) -> S] /\ \A i, j \in DOMAIN order : i < j => order[i] # order[j]
  BY <1>2 DEF ByChunkKey, Sorted
<1>6. /\ order \in Seq(S) /\ {order[i] : i \in 1 .. Len(order)} = S
      /\ \A i, j \in 1 .. Len(order) : order[i] = order[j] => i = j
  <2> HIDE DEF S
  <2> QED BY <1>4, <1>5, SortedAll
<1>7. \A x \in S : \E i \in 1 .. Len(buffered) : x = buffered[i]
  BY <1>3
<1>8. S \subseteq Recs
  <2> HIDE DEF Recs
  <2> QED BY <1>3
<1>9. order \in Seq(Recs)
  <2> HIDE DEF Recs, S
  <2> QED BY <1>6, <1>8
<1>10. ASSUME NEW i \in 1 .. Len(order), NEW j \in 1 .. Len(order), order[i].zimIndex = order[j].zimIndex
       PROVE  i = j
  <2>1. PICK k \in 1 .. Len(buffered), l \in 1 .. Len(buffered) : order[i] = buffered[k] /\ order[j] = buffered[l]
    BY <1>6, <1>7
  <2>2. k = l
    BY <1>10, <2>1 DEF BufferInv
  <2> QED BY <1>6, <2>1, <2>2
<1>11. ASSUME NEW i \in 1 .. Len(order)
       PROVE  /\ order[i].off + order[i].len <= Len(contentTmp)
              /\ ReadAt(order[i]) = Bytes(order[i].zimIndex)
  <2>1. PICK k \in 1 .. Len(buffered) : order[i] = buffered[k]
    BY <1>6, <1>7
  <2> QED BY <2>1 DEF BufferInv
<1>12. {order[i].zimIndex : i \in 1 .. Len(order)} = BufferSet
  <2>1. ASSUME NEW k \in 1 .. Len(buffered) PROVE \E i \in 1 .. Len(order) : order[i] = buffered[k]
    <3>1. buffered[k] \in S
      BY <1>3
    <3> HIDE DEF S, Recs
    <3> QED BY <1>6, <3>1
  <2>2. \A i \in 1 .. Len(order) : \E k \in 1 .. Len(buffered) : order[i] = buffered[k]
    BY <1>6, <1>7
  <2>3. {order[i].zimIndex : i \in 1 .. Len(order)} \subseteq BufferSet
    BY <2>2 DEF BufferSet
  <2>4. BufferSet \subseteq {order[i].zimIndex : i \in 1 .. Len(order)}
    BY <2>1 DEF BufferSet
  <2> QED BY <2>3, <2>4
<1>13. /\ DOMAIN IDsOf(order) = BufferSet
       /\ \A i \in 1 .. Len(order) : IDsOf(order)[order[i].zimIndex] = i - 1
  <2>1. DOMAIN order = 1 .. Len(order)
    BY <1>9
  <2>2. DOMAIN IDsOf(order) = BufferSet
    BY <1>12, <2>1 DEF IDsOf
  <2>3. ASSUME NEW i \in 1 .. Len(order) PROVE IDsOf(order)[order[i].zimIndex] = i - 1
    <3>1. \A j \in DOMAIN order : order[j].zimIndex = order[i].zimIndex <=> j = i
      BY <1>10, <2>1
    <3>2. (CHOOSE j \in DOMAIN order : order[j].zimIndex = order[i].zimIndex) = i
      BY <2>1, <3>1
    <3>3. order[i].zimIndex \in {order[j].zimIndex : j \in DOMAIN order}
      BY <2>1
    <3> QED BY <3>2, <3>3 DEF IDsOf
  <2> QED BY <2>2, <2>3
<1>14. BufferSet' = BufferSet /\ ReadSet(readPos)' = ReadSet(readPos) /\ Recs' = Recs
  <2>1. BufferSet' = {order[i].zimIndex : i \in 1 .. Len(order)}
    BY <1>2 DEF BufferSet
  <2>2. ReadSet(readPos)' = ReadSet(readPos)
    BY <1>1, JobFixed DEF ReadSet
  <2>3. Recs' = Recs
    BY <1>1, JobFixed
  <2> QED BY <1>12, <2>1, <2>2, <2>3
<1>15. \A i : ReadAt(buffered[i])' = ReadAt(order[i])
  BY <1>1, <1>2 DEF ReadAt
<1> HIDE DEF S
<1> QED BY <1>1, <1>2, <1>9, <1>10, <1>11, <1>13, <1>14, <1>15, JobFixed DEF BufferInv

LEMMA BufferNext == PlanInv /\ BufferInv /\ [Next]_vars => BufferInv'
<1> SUFFICES ASSUME PlanInv, BufferInv, [Next]_vars PROVE BufferInv'
  OBVIOUS
<1> DEFINE Frame == UNCHANGED <<job, plan, readPos, contentTmp, buffered, zimIndexToOzaID>>
<1>1. ASSUME Frame, Numbered' = Numbered PROVE BufferInv'
  <2>1. BufferSet' = BufferSet /\ ReadSet(readPos)' = ReadSet(readPos)
    BY <1>1, JobFixed DEF BufferSet, ReadSet
  <2>2. \A i : ReadAt(buffered[i])' = ReadAt(buffered[i])
    BY <1>1 DEF ReadAt
  <2> QED BY <1>1, <2>1, <2>2, JobFixed DEF BufferInv
<1>2. ASSUME Frame, pc \notin {"scan", "read"}, pc' \notin {"scan", "read"} PROVE BufferInv'
  BY <1>1, <1>2 DEF Numbered
<1>3. ASSUME Frame, pc' = pc PROVE BufferInv'
  BY <1>1, <1>3 DEF Numbered
<1>4. CASE ScanAndPlan
  <2>1. /\ UNCHANGED <<job, readPos, contentTmp, buffered, zimIndexToOzaID>>
        /\ ~Numbered /\ ~Numbered' /\ readPos = 0
    BY <1>4 DEF ScanAndPlan, PlanInv, Numbered
  <2>2. BufferSet' = BufferSet /\ ReadSet(readPos)' = ReadSet(readPos)
    BY <2>1, JobFixed DEF BufferSet, ReadSet
  <2>3. \A i : ReadAt(buffered[i])' = ReadAt(buffered[i])
    BY <2>1 DEF ReadAt
  <2> QED BY <2>1, <2>2, <2>3, JobFixed DEF BufferInv
<1>5. CASE AddNext \/ AddRedirect \/ Finish
  BY <1>2, <1>3, <1>5 DEF AddNext, AddRedirect, Finish, mainVars, Fail
<1>6. CASE Produce \/ CloseResults \/ \E w \in Worker : Take(w) \/ Send(w)
  BY <1>3, <1>6 DEF Produce, CloseResults, Take, Send, mainVars, workerFrame
<1>7. CASE Receive \/ AddPending \/ EntriesDone
  BY <1>2, <1>3, <1>7 DEF Receive, AddPending, EntriesDone, mainVars, Fail
<1>8. CASE UNCHANGED vars
  BY <1>3, <1>8 DEF vars
<1> QED BY <1>4, <1>5, <1>6, <1>7, <1>8, BufferReadEntry, BufferSort DEF Next

-----------------------------------------------------------------------------
LEMMA ShutInit == Init => ShutInv
BY DEF Init, ShutInv, Parallel, Idle, Gone

LEMMA HandsInit == Init => HandsInv
BY ZimConvertAssumption DEF Init, HandsInv, ZimConvertAssumption, WorkItems, Results

(* An item in hand is no mark. *)
LEMMA HandsFacts ==
    ASSUME HandsInv, BufferInv
    PROVE  /\ prodPos \in Nat /\ Len(buffered) \in Nat
           /\ \A x \in Results : x \notin {Idle, Gone} /\ x.idx \in 0 .. prodPos - 1 /\ x = Result(x.idx)
           /\ \A x \in WorkItems :
                /\ x.idx \in 0 .. prodPos - 1 /\ x = WorkItem(x.idx)
                /\ [idx |-> x.idx, content |-> x.content, transcoded |-> x.mime = "image"] = Result(x.idx)
<1>1. prodPos \in Nat /\ Len(buffered) \in Nat
  BY DEF HandsInv, BufferInv
<1>2. ASSUME NEW x \in Results
      PROVE  x \notin {Idle, Gone} /\ x.idx \in 0 .. prodPos - 1 /\ x = Result(x.idx)
  <2>1. PICK i \in 0 .. prodPos - 1 : x = Result(i)
    BY DEF Results
  <2>2. x.idx = i
    BY <2>1 DEF Result
  <2>3. Idle.idx = -1 /\ Gone.idx = -2
    BY DEF Idle, Gone
  <2> QED BY <1>1, <2>1, <2>2, <2>3
<1>3. ASSUME NEW x \in WorkItems
      PROVE  /\ x.idx \in 0 .. prodPos - 1 /\ x = WorkItem(x.idx)
             /\ [idx |-> x.idx, content |-> x.content, transcoded |-> x.mime = "image"] = Result(x.idx)
  <2>1. PICK i \in 0 .. prodPos - 1 : x = WorkItem(i)
    BY DEF WorkItems
  <2>2. x.idx = i
    BY <2>1 DEF WorkItem
  <2> QED BY <2>1, <2>2 DEF WorkItem, Result, needsTranscode
<1> QED BY <1>1, <1>2, <1>3

LEMMA ShutNext == PlanInv /\ BufferInv /\ HandsInv /\ ShutInv /\ [Next]_vars => ShutInv'
<1> SUFFICES ASSUME PlanInv, BufferInv, HandsInv, ShutInv, [Next]_vars PROVE ShutInv'
  OBVIOUS
<1> USE DEF ShutInv
<1>1. CASE ScanAndPlan
  BY <1>1 DEF ScanAndPlan, chanVars, Parallel
<1>2. CASE ReadEntry
  BY <1>2 DEF ReadEntry, mainVars, chanVars, Parallel, Fail, PlanInv
<1>3. CASE SortAndNumber
  BY <1>3 DEF SortAndNumber, mainVars, chanVars, Parallel
<1>4. CASE AddNext
  BY <1>4 DEF AddNext, mainVars, chanVars, Parallel, Fail
<1>5. CASE Produce
  <2>1. /\ Parallel /\ Parallel' /\ ~workClosed
        /\ UNCHANGED <<job, pc, buffered, item, resultCh, resultClosed, pending, nextIdx, addFailed>>
    BY <1>5 DEF Produce, mainVars, Parallel
  <2>2. \A w \in Worker : item[w] # Gone
    BY <2>1
  <2>3. (readErr' => workClosed') /\ (workClosed' /\ ~readErr' => prodPos' = Len(buffered))
    BY <1>5, <2>1 DEF Produce
  <2>4. pc \in {"redirects", "done"} => ~readErr'
    BY <2>1, <2>2, ZimConvertAssumption DEF ZimConvertAssumption
  <2> QED BY <2>1, <2>2, <2>3, <2>4
<1>6. ASSUME NEW w \in Worker, Take(w) PROVE ShutInv'
  <2>1. /\ Parallel /\ Parallel' /\ item[w] = Idle /\ item[w] # Gone
        /\ UNCHANGED <<job, pc, buffered, prodPos, workClosed, readErr, resultCh, resultClosed,
                       pending, nextIdx, addFailed>>
    BY <1>6 DEF Take, mainVars, workerFrame, Parallel, Idle, Gone
  <2>2. CASE workCh = <<>> /\ workClosed /\ item' = [item EXCEPT ![w] = Gone] /\ UNCHANGED workCh
    BY <2>1, <2>2
  <2>3. CASE workCh # <<>> /\ DOMAIN item' = Worker /\ item'[w] # Gone
             /\ \A v \in Worker \ {w} : item'[v] = item[v]
    BY <2>1, <2>3
  <2>4. ASSUME workCh # <<>> PROVE Result(Head(workCh).idx) # Gone
    <3>1. Head(workCh) \in WorkItems
      BY <2>4 DEF HandsInv
    <3>2. Result(Head(workCh).idx) \in Results
      BY <3>1, HandsFacts DEF Results
    <3> QED BY <3>2, HandsFacts
  <2>5. ASSUME workCh # <<>>
        PROVE  [idx |-> Head(workCh).idx, content |-> Head(workCh).content, transcoded |-> Head(workCh).mime = "image"] # Gone
    <3>1. Head(workCh) \in WorkItems
      BY <2>5 DEF HandsInv
    <3> QED BY <2>4, <2>5, <3>1, HandsFacts
  <2> QED BY <1>6, <2>2, <2>3, <2>5 DEF Take
<1>7. ASSUME NEW w \in Worker, Send(w) PROVE ShutInv'
  BY <1>7 DEF Send, mainVars, workerFrame, Parallel, Idle, Gone
<1>8. CASE CloseResults
  BY <1>8 DEF CloseResults, mainVars, workerFrame, Parallel
<1>9. CASE Receive
  BY <1>9 DEF Receive, mainVars, Parallel, PlanInv
<1>10. CASE AddPending
  BY <1>10 DEF AddPending, mainVars, chanVars, Parallel, Fail, PlanInv
<1>11. CASE EntriesDone
  BY <1>11 DEF EntriesDone, mainVars, chanVars, Parallel, PlanInv
<1>12. CASE AddRedirect
  BY <1>12 DEF AddRedirect, mainVars, chanVars, Parallel, Fail, PlanInv
<1>13. CASE Finish
  BY <1>13 DEF Finish, mainVars, chanVars, Parallel, Fail, PlanInv
<1>14. CASE UNCHANGED vars
  BY <1>14 DEF vars, Parallel
<1> QED BY <1>1, <1>2, <1>3, <1>4, <1>5, <1>6, <1>7, <1>8, <1>9, <1>10, <1>11, <1>12, <1>13, <1>14 DEF Next
(* A list taken from the front, or added to at the back. *)
LEMMA TailFacts ==
    ASSUME NEW S, NEW s \in Seq(S), s # <<>>
    PROVE  /\ Head(s) \in S /\ Head(s) = s[1] /\ Tail(s) \in Seq(S) /\ Len(s) \in Nat \ {0}
           /\ Len(Tail(s)) = Len(s) - 1
           /\ \A k \in 1 .. Len(s) - 1 : Tail(s)[k] = s[k + 1]
OBVIOUS

LEMMA AppendFacts ==
    ASSUME NEW S, NEW s \in Seq(S), NEW x
    PROVE  /\ Len(s) \in Nat /\ Len(Append(s, x)) = Len(s) + 1
           /\ \A k \in 1 .. Len(s) : Append(s, x)[k] = s[k]
           /\ Append(s, x)[Len(s) + 1] = x
           /\ \A T : S \subseteq T /\ x \in T => Append(s, x) \in Seq(T)
OBVIOUS

LEMMA SeqMonotone ==
    ASSUME NEW S, NEW T, S \subseteq T, NEW s \in Seq(S)
    PROVE  s \in Seq(T)
OBVIOUS

LEMMA HandsNext == PlanInv /\ BufferInv /\ HandsInv /\ ShutInv /\ [Next]_vars => HandsInv'
<1> SUFFICES ASSUME PlanInv, BufferInv, HandsInv, ShutInv, [Next]_vars PROVE HandsInv'
  OBVIOUS
<1> DEFINE Still == UNCHANGED <<job, buffered>>
           Hands == UNCHANGED <<prodPos, workCh, item, resultCh, pending>>
<1>1. ASSUME Still PROVE \A i : WorkItem(i)' = WorkItem(i) /\ Result(i)' = Result(i)
  BY <1>1, JobFixed DEF WorkItem, Result
<1>2. ASSUME Still, prodPos' = prodPos PROVE WorkItems' = WorkItems /\ Results' = Results
  BY <1>1, <1>2 DEF WorkItems, Results
<1>3. ASSUME Still, Hands PROVE HandsInv'
  BY <1>1, <1>2, <1>3 DEF HandsInv
<1>4. prodPos \in Nat /\ Len(buffered) \in Nat
  BY HandsFacts
<1>5. ASSUME ~Parallel, Hands, Len(buffered') \in Nat PROVE HandsInv'
  <2>1. workCh = <<>> /\ resultCh = <<>> /\ pending = <<>> /\ prodPos = 0 /\ item = [w \in Worker |-> Idle]
    BY <1>5 DEF ShutInv, HandsInv
  <2> QED BY <1>5, <2>1, ZimConvertAssumption DEF HandsInv, ZimConvertAssumption
<1>6. CASE ScanAndPlan \/ ReadEntry \/ SortAndNumber
  <2>1. ~Parallel /\ Hands
    BY <1>6 DEF ScanAndPlan, ReadEntry, SortAndNumber, mainVars, chanVars, Parallel
  <2>2. BufferInv'
    BY BufferNext
  <2>3. Len(buffered') \in Nat
    BY <2>2 DEF BufferInv
  <2> QED BY <1>5, <2>1, <2>3
<1>7. CASE AddNext \/ CloseResults \/ EntriesDone \/ AddRedirect \/ Finish
  BY <1>3, <1>7 DEF AddNext, CloseResults, EntriesDone, AddRedirect, Finish, mainVars, chanVars, workerFrame
<1>8. CASE UNCHANGED vars
  BY <1>3, <1>8 DEF vars
<1>9. CASE Produce
  <2>1. Still /\ UNCHANGED <<item, resultCh, pending>>
    BY <1>9 DEF Produce, mainVars
  <2>2. CASE UNCHANGED <<prodPos, workCh>>
    BY <1>3, <2>1, <2>2
  <2> DEFINE x == [idx |-> prodPos, content |-> ReadAt(buffered[prodPos + 1]),
                   mime |-> Dirent(buffered[prodPos + 1].zimIndex).mime]
  <2>3. CASE /\ prodPos < Len(buffered) /\ Len(workCh) < ChanCap
             /\ workCh' = Append(workCh, x) /\ prodPos' = prodPos + 1
    <3>1. prodPos' \in 0 .. Len(buffered) /\ prodPos + 1 \in 1 .. Len(buffered)
      BY <1>4, <2>3
    <3>2. x = WorkItem(prodPos)
      BY <3>1 DEF WorkItem, BufferInv
    <3>3. WorkItems \subseteq WorkItems' /\ Results \subseteq Results' /\ x \in WorkItems'
      <4>1. \A i \in 0 .. prodPos - 1 : i \in 0 .. prodPos' - 1
        BY <1>4, <2>3
      <4>2. prodPos \in 0 .. prodPos' - 1
        BY <1>4, <2>3
      <4>3. WorkItems' = {WorkItem(i) : i \in 0 .. prodPos' - 1} /\ Results' = {Result(i) : i \in 0 .. prodPos' - 1}
        BY <1>1, <2>1 DEF WorkItems, Results
      <4> HIDE DEF x
      <4> QED BY <3>2, <4>1, <4>2, <4>3 DEF WorkItems, Results
    <3> HIDE DEF x
    <3>4. workCh \in Seq(WorkItems) /\ Len(workCh) <= ChanCap /\ ChanCap \in Nat
      BY ZimConvertAssumption DEF HandsInv, ZimConvertAssumption
    <3>5. workCh' \in Seq(WorkItems') /\ Len(workCh') <= ChanCap
      BY <2>3, <3>3, <3>4, AppendFacts
    <3>6. resultCh' \in Seq(Results') /\ Len(resultCh') <= ChanCap
      BY <2>1, <3>3, SeqMonotone DEF HandsInv
    <3>7. item' \in [Worker -> Results' \cup {Idle, Gone}]
      BY <2>1, <3>3 DEF HandsInv
    <3>8. DOMAIN pending \subseteq 0 .. prodPos' - 1
      BY <1>4, <2>3 DEF HandsInv
    <3> QED BY <1>1, <2>1, <3>1, <3>5, <3>6, <3>7, <3>8 DEF HandsInv
  <2> QED BY <1>9, <2>2, <2>3 DEF Produce
<1>10. ASSUME NEW w \in Worker, Take(w) PROVE HandsInv'
  <2>1. Still /\ UNCHANGED <<prodPos, resultCh, pending>>
    BY <1>10 DEF Take, workerFrame, mainVars
  <2>2. WorkItems' = WorkItems /\ Results' = Results
    BY <1>2, <2>1
  <2>3. workCh' \in Seq(WorkItems) /\ Len(workCh') <= ChanCap
    <3>1. workCh' = workCh \/ (workCh # <<>> /\ workCh' = Tail(workCh))
      BY <1>10 DEF Take
    <3>2. workCh \in Seq(WorkItems) /\ Len(workCh) <= ChanCap /\ ChanCap \in Nat
      BY ZimConvertAssumption DEF HandsInv, ZimConvertAssumption
    <3> QED BY <3>1, <3>2, TailFacts
  <2>4. item' \in [Worker -> Results \cup {Idle, Gone}]
    <3>1. CASE item' = [item EXCEPT ![w] = Gone]
      BY <3>1 DEF HandsInv
    <3>2. CASE /\ workCh # <<>>
               /\ item' = [item EXCEPT ![w] = [idx |-> Head(workCh).idx,
                     content |-> Head(workCh).content, transcoded |-> Head(workCh).mime = "image"]]
      <4>1. Head(workCh) \in WorkItems
        BY <3>2 DEF HandsInv
      <4>2. item' = [item EXCEPT ![w] = Result(Head(workCh).idx)] /\ Head(workCh).idx \in 0 .. prodPos - 1
        BY <3>2, <4>1, HandsFacts
      <4>3. Result(Head(workCh).idx) \in Results
        BY <4>2 DEF Results
      <4> QED BY <4>2, <4>3 DEF HandsInv
    <3> QED BY <1>10, <3>1, <3>2 DEF Take
  <2> QED BY <1>1, <2>1, <2>2, <2>3, <2>4 DEF HandsInv
<1>11. ASSUME NEW w \in Worker, Send(w) PROVE HandsInv'
  <2>1. Still /\ UNCHANGED <<prodPos, workCh, pending>>
    BY <1>11 DEF Send, workerFrame, mainVars
  <2>2. WorkItems' = WorkItems /\ Results' = Results
    BY <1>2, <2>1
  <2>3. /\ item[w] \in Results /\ Len(resultCh) < ChanCap
        /\ resultCh' = Append(resultCh, item[w]) /\ item' = [item EXCEPT ![w] = Idle]
    BY <1>11 DEF Send, HandsInv
  <2>4. resultCh' \in Seq(Results) /\ Len(resultCh') <= ChanCap
    <3>1. resultCh \in Seq(Results) /\ ChanCap \in Nat
      BY ZimConvertAssumption DEF HandsInv, ZimConvertAssumption
    <3> QED BY <2>3, <3>1, AppendFacts
  <2>5. item' \in [Worker -> Results \cup {Idle, Gone}]
    BY <2>3 DEF HandsInv
  <2> QED BY <1>1, <2>1, <2>2, <2>4, <2>5 DEF HandsInv
<1>12. CASE Receive
  <2>1. Still /\ UNCHANGED <<prodPos, workCh, item>>
    BY <1>12 DEF Receive, mainVars
  <2>2. WorkItems' = WorkItems /\ Results' = Results
    BY <1>2, <2>1
  <2> DEFINE r == Head(resultCh)
  <2>3. /\ resultCh # <<>> /\ resultCh' = Tail(resultCh)
        /\ pending' = [i \in DOMAIN pending \cup {r.idx} |-> IF i = r.idx THEN r ELSE pending[i]]
    BY <1>12 DEF Receive
  <2>4. resultCh' \in Seq(Results) /\ Len(resultCh') <= ChanCap /\ r \in Results
    <3>1. resultCh \in Seq(Results) /\ Len(resultCh) <= ChanCap /\ ChanCap \in Nat
      BY ZimConvertAssumption DEF HandsInv, ZimConvertAssumption
    <3> QED BY <2>3, <3>1, TailFacts
  <2>5. r.idx \in 0 .. prodPos - 1 /\ r = Result(r.idx)
    BY <2>4, HandsFacts
  <2> HIDE DEF r
  <2>6. DOMAIN pending' \subseteq 0 .. prodPos - 1 /\ \A i \in DOMAIN pending' : pending'[i] = Result(i)
    BY <2>3, <2>5 DEF HandsInv
  <2> QED BY <1>1, <2>1, <2>2, <2>4, <2>6 DEF HandsInv
<1>13. CASE AddPending
  <2>1. Still /\ UNCHANGED <<prodPos, workCh, item, resultCh>>
    BY <1>13 DEF AddPending, mainVars, chanVars
  <2>2. WorkItems' = WorkItems /\ Results' = Results
    BY <1>2, <2>1
  <2>3. pending' = pending \/ pending' = [i \in DOMAIN pending \ {nextIdx} |-> pending[i]]
    BY <1>13 DEF AddPending
  <2>4. DOMAIN pending' \subseteq 0 .. prodPos - 1 /\ \A i \in DOMAIN pending' : pending'[i] = Result(i)
    BY <2>3 DEF HandsInv
  <2> QED BY <1>1, <2>1, <2>2, <2>4 DEF HandsInv
<1> QED BY <1>6, <1>7, <1>8, <1>9, <1>10, <1>11, <1>12, <1>13 DEF Next
-----------------------------------------------------------------------------
LEMMA OnceInit == Init => OnceInv /\ Accounted
BY DEF Init, OnceInv, Accounted, Real

(* The items that are under way, and the numbers they carry. *)
LEMMA FlightFacts ==
    ASSUME HandsInv, BufferInv
    PROVE  /\ Len(workCh) \in Nat /\ Len(resultCh) \in Nat /\ prodPos \in Nat
           /\ \A k \in 1 .. Len(workCh) : workCh[k].idx \in 0 .. prodPos - 1
           /\ \A k \in 1 .. Len(resultCh) : resultCh[k].idx \in 0 .. prodPos - 1
           /\ \A w \in Worker : Real(w) => item[w].idx \in 0 .. prodPos - 1
           /\ DOMAIN pending \subseteq 0 .. prodPos - 1
<1>1. workCh \in Seq(WorkItems) /\ resultCh \in Seq(Results)
  BY DEF HandsInv
<1>2. ASSUME NEW k \in 1 .. Len(workCh) PROVE workCh[k] \in WorkItems
  BY <1>1
<1>3. ASSUME NEW k \in 1 .. Len(resultCh) PROVE resultCh[k] \in Results
  BY <1>1
<1>4. ASSUME NEW w \in Worker, Real(w) PROVE item[w] \in Results
  BY <1>4 DEF HandsInv, Real
<1>5. \A x \in WorkItems \cup Results : x.idx \in 0 .. prodPos - 1
  BY HandsFacts
<1>6. Len(workCh) \in Nat /\ Len(resultCh) \in Nat /\ prodPos \in Nat /\ DOMAIN pending \subseteq 0 .. prodPos - 1
  BY <1>1, HandsFacts DEF HandsInv
<1> QED BY <1>2, <1>3, <1>4, <1>5, <1>6

LEMMA OnceNext ==
    PlanInv /\ BufferInv /\ HandsInv /\ ShutInv /\ EntriesInv /\ OnceInv /\ Accounted /\ [Next]_vars
      => OnceInv' /\ Accounted'
<1> SUFFICES ASSUME PlanInv, BufferInv, HandsInv, ShutInv, EntriesInv, OnceInv, Accounted, [Next]_vars
             PROVE  OnceInv' /\ Accounted'
  OBVIOUS
<1> DEFINE Flight == UNCHANGED <<workCh, resultCh, item, pending, prodPos>>
<1>1. nextIdx \in Nat /\ prodPos \in Nat
  BY FlightFacts, HandsFacts DEF EntriesInv
<1>2. ASSUME Flight, nextIdx' = nextIdx, addFailed => addFailed' PROVE OnceInv' /\ Accounted'
  BY <1>2 DEF OnceInv, Accounted, Real
<1>3. CASE ScanAndPlan \/ ReadEntry \/ SortAndNumber \/ CloseResults \/ EntriesDone \/ AddRedirect \/ Finish
  BY <1>2, <1>3 DEF ScanAndPlan, ReadEntry, SortAndNumber, CloseResults, EntriesDone, AddRedirect, Finish,
     mainVars, chanVars, workerFrame
<1>4. CASE UNCHANGED vars
  BY <1>2, <1>4 DEF vars
<1>5. CASE AddNext
  <2>1. Flight /\ ~Parallel
    BY <1>5 DEF AddNext, mainVars, chanVars, ShutInv, Parallel
  <2>2. workCh = <<>> /\ resultCh = <<>> /\ pending = <<>> /\ prodPos = 0 /\ \A w \in Worker : ~Real(w)
    BY <2>1 DEF ShutInv, Real
  <2> QED BY <2>1, <2>2 DEF OnceInv, Accounted, Real
<1>6. CASE Produce
  <2>1. UNCHANGED <<resultCh, item, pending, nextIdx, addFailed>>
    BY <1>6 DEF Produce
  <2>2. CASE UNCHANGED <<prodPos, workCh>>
    BY <1>2, <2>1, <2>2
  <2>3. CASE prodPos' = prodPos + 1 /\ \E x : x.idx = prodPos /\ workCh' = Append(workCh, x)
    <3>1. /\ Len(workCh') = Len(workCh) + 1 /\ workCh'[Len(workCh) + 1].idx = prodPos
          /\ \A k \in 1 .. Len(workCh) : workCh'[k].idx = workCh[k].idx
      <4>1. PICK x : x.idx = prodPos /\ workCh' = Append(workCh, x)
        BY <2>3
      <4> QED BY <4>1, AppendFacts DEF HandsInv
    <3>2. prodPos >= nextIdx
      BY <1>1, <1>6 DEF Produce, Parallel, EntriesInv
    <3>3. OnceInv'
      <4>0. PICK n \in Nat : n = Len(workCh) /\ Len(workCh') = n + 1
        BY <3>1, FlightFacts
      <4>1. /\ \A k \in 1 .. n : workCh'[k].idx = workCh[k].idx /\ workCh[k].idx \in 0 .. prodPos - 1
            /\ workCh'[n + 1].idx = prodPos
            /\ \A k \in 1 .. n + 1 : k \in 1 .. n \/ k = n + 1
        BY <3>1, <4>0, FlightFacts
      <4>2. \A w \in Worker : Real(w)' = Real(w) /\ item'[w] = item[w]
        BY <2>1 DEF Real
      <4>3. \A i, j \in 1 .. n + 1 : workCh'[i].idx = workCh'[j].idx => i = j
        BY <1>1, <4>0, <4>1 DEF OnceInv
      <4>4. ASSUME NEW i \in 1 .. n + 1, NEW w \in Worker, Real(w) PROVE workCh'[i].idx # item[w].idx
        <5>1. item[w].idx \in 0 .. prodPos - 1
          BY <1>1, <4>4, FlightFacts
        <5>2. CASE i \in 1 .. n
          BY <1>1, <4>0, <4>1, <4>4, <5>2 DEF OnceInv
        <5>3. CASE i = n + 1
          BY <4>1, <5>1, <5>3
        <5> QED BY <4>1, <5>2, <5>3
      <4>5. ASSUME NEW i \in 1 .. n + 1, NEW j \in 1 .. Len(resultCh) PROVE workCh'[i].idx # resultCh[j].idx
        <5>1. resultCh[j].idx \in 0 .. prodPos - 1
          BY <1>1, FlightFacts
        <5>2. CASE i \in 1 .. n
          BY <1>1, <4>0, <4>1, <5>2 DEF OnceInv
        <5>3. CASE i = n + 1
          BY <4>1, <5>1, <5>3
        <5> QED BY <4>1, <5>2, <5>3
      <4>6. \A i \in 1 .. n + 1 : workCh'[i].idx >= nextIdx /\ workCh'[i].idx \notin DOMAIN pending
        <5>1. prodPos \notin DOMAIN pending
          BY <1>1, FlightFacts
        <5> QED BY <1>1, <3>2, <4>0, <4>1, <5>1 DEF OnceInv
      <4>7. Len(workCh') = n + 1
        BY <4>0
      <4> QED BY <2>1, <4>2, <4>3, <4>4, <4>5, <4>6, <4>7 DEF OnceInv
    <3>4. Accounted'
      <4> SUFFICES ASSUME ~addFailed, NEW i \in 0 .. prodPos
                   PROVE  \/ i < nextIdx
                          \/ i \in DOMAIN pending
                          \/ \E k \in 1 .. Len(workCh') : workCh'[k].idx = i
                          \/ \E k \in 1 .. Len(resultCh) : resultCh[k].idx = i
                          \/ \E v \in Worker : Real(v) /\ item[v].idx = i
        BY <1>1, <2>1, <2>3 DEF Accounted, Real
      <4>1. CASE i = prodPos
        <5>1. Len(workCh) + 1 \in 1 .. Len(workCh')
          BY <3>1, FlightFacts
        <5> QED BY <3>1, <4>1, <5>1
      <4>2. CASE i \in 0 .. prodPos - 1
        <5>1. ASSUME NEW k \in 1 .. Len(workCh) PROVE k \in 1 .. Len(workCh') /\ workCh'[k].idx = workCh[k].idx
          BY <3>1, FlightFacts
        <5> QED BY <4>2, <5>1 DEF Accounted
      <4> QED BY <1>1, <4>1, <4>2
    <3> QED BY <3>3, <3>4
  <2>4. ASSUME NEW c, NEW m, workCh' = Append(workCh, [idx |-> prodPos, content |-> c, mime |-> m]),
               prodPos' = prodPos + 1
        PROVE  OnceInv' /\ Accounted'
    BY <2>3, <2>4
  <2> QED BY <1>6, <2>2, <2>4 DEF Produce
<1>7. ASSUME NEW w \in Worker, Take(w) PROVE OnceInv' /\ Accounted'
  <2>1. UNCHANGED <<resultCh, pending, prodPos, nextIdx, addFailed>> /\ ~Real(w)
    BY <1>7 DEF Take, workerFrame, Real
  <2>2. CASE item' = [item EXCEPT ![w] = Gone] /\ UNCHANGED workCh
    <3>1. \A v \in Worker : Real(v)' = Real(v) /\ (Real(v) => item'[v] = item[v])
      BY <2>1, <2>2 DEF Real, HandsInv
    <3> QED BY <2>1, <2>2, <3>1 DEF OnceInv, Accounted
  <2>3. CASE /\ workCh # <<>> /\ workCh' = Tail(workCh)
             /\ \E x : x.idx = Head(workCh).idx /\ x \notin {Idle, Gone} /\ item' = [item EXCEPT ![w] = x]
    <3>1. /\ Len(workCh) \in Nat \ {0} /\ Len(workCh') = Len(workCh) - 1
          /\ \A k \in 1 .. Len(workCh) - 1 : workCh'[k] = workCh[k + 1]
          /\ Head(workCh) = workCh[1]
      BY <2>3, TailFacts DEF HandsInv
    <3>2. /\ Real(w)' /\ item'[w].idx = workCh[1].idx
          /\ \A v \in Worker \ {w} : Real(v)' = Real(v) /\ item'[v] = item[v]
      BY <2>3, <3>1 DEF Real, HandsInv
    <3>a. \A k \in 1 .. Len(workCh') : k + 1 \in 1 .. Len(workCh) /\ k + 1 # 1 /\ workCh'[k] = workCh[k + 1]
      BY <3>1
    <3>3. OnceInv'
      <4>1. (\A i, j \in 1 .. Len(workCh) : workCh[i].idx = workCh[j].idx => i = j)'
        <5>1. ASSUME NEW i \in 1 .. Len(workCh'), NEW j \in 1 .. Len(workCh'),
                     workCh'[i].idx = workCh'[j].idx
              PROVE  i = j
          <6>1. /\ i + 1 \in 1 .. Len(workCh) /\ j + 1 \in 1 .. Len(workCh)
                /\ workCh[i + 1].idx = workCh[j + 1].idx
            BY <3>a, <5>1
          <6>2. i + 1 = j + 1
            BY <6>1 DEF OnceInv
          <6>3. i \in Int /\ j \in Int
            OBVIOUS
          <6> QED BY <6>2, <6>3
        <5> QED BY <5>1
      <4>2. (\A i, j \in 1 .. Len(resultCh) : resultCh[i].idx = resultCh[j].idx => i = j)'
        BY <2>1, <3>1, <3>2, <3>a DEF OnceInv
      <4>3. (\A v, u \in Worker : Real(v) /\ Real(u) /\ item[v].idx = item[u].idx => v = u)'
        BY <2>1, <3>1, <3>2, <3>a DEF OnceInv
      <4>4. (\A i \in 1 .. Len(workCh), v \in Worker : Real(v) => workCh[i].idx # item[v].idx)'
        BY <2>1, <3>1, <3>2, <3>a DEF OnceInv
      <4>5. (\A i \in 1 .. Len(workCh), j \in 1 .. Len(resultCh) : workCh[i].idx # resultCh[j].idx)'
        <5>1. ASSUME NEW i \in 1 .. Len(workCh'), NEW j \in 1 .. Len(resultCh) PROVE workCh'[i].idx # resultCh[j].idx
          BY <3>a DEF OnceInv
        <5> QED BY <2>1, <5>1
      <4>6. (\A i \in 1 .. Len(resultCh), v \in Worker : Real(v) => resultCh[i].idx # item[v].idx)'
        BY <2>1, <3>1, <3>2, <3>a DEF OnceInv
      <4>7. (\A i \in 1 .. Len(workCh) : workCh[i].idx >= nextIdx /\ workCh[i].idx \notin DOMAIN pending)'
        BY <2>1, <3>1, <3>2, <3>a DEF OnceInv
      <4>8. (\A i \in 1 .. Len(resultCh) : resultCh[i].idx >= nextIdx /\ resultCh[i].idx \notin DOMAIN pending)'
        BY <2>1, <3>1, <3>2, <3>a DEF OnceInv
      <4>9. (\A v \in Worker : Real(v) => item[v].idx >= nextIdx /\ item[v].idx \notin DOMAIN pending)'
        BY <2>1, <3>1, <3>2, <3>a DEF OnceInv
      <4>10. (\A i \in DOMAIN pending : i >= nextIdx)'
        BY <2>1, <3>1, <3>2, <3>a DEF OnceInv
      <4> QED BY <4>1, <4>2, <4>3, <4>4, <4>5, <4>6, <4>7, <4>8, <4>9, <4>10 DEF OnceInv
    <3>4. Accounted'
      <4> SUFFICES ASSUME ~addFailed, NEW i \in 0 .. prodPos - 1
                   PROVE  \/ i < nextIdx
                          \/ i \in DOMAIN pending
                          \/ \E k \in 1 .. Len(workCh') : workCh'[k].idx = i
                          \/ \E k \in 1 .. Len(resultCh) : resultCh[k].idx = i
                          \/ \E v \in Worker : Real(v)' /\ item'[v].idx = i
        BY <2>1 DEF Accounted
      <4>1. CASE \E k \in 1 .. Len(workCh) : workCh[k].idx = i
        <5>1. PICK k \in 1 .. Len(workCh) : workCh[k].idx = i
          BY <4>1
        <5>2. CASE k = 1
          BY <3>2, <5>1, <5>2
        <5>3. CASE k # 1
          <6>1. k - 1 \in 1 .. Len(workCh') /\ workCh'[k - 1].idx = i
            BY <3>1, <5>1, <5>3
          <6> QED BY <6>1
        <5> QED BY <5>2, <5>3
      <4>2. CASE \E v \in Worker : Real(v) /\ item[v].idx = i
        BY <2>1, <3>2, <4>2
      <4> QED BY <4>1, <4>2 DEF Accounted
    <3> QED BY <3>3, <3>4
  <2>4. ASSUME workCh # <<>>
        PROVE  [idx |-> Head(workCh).idx, content |-> Head(workCh).content,
                transcoded |-> Head(workCh).mime = "image"] \notin {Idle, Gone}
    <3>1. Head(workCh) \in WorkItems
      BY <2>4 DEF HandsInv
    <3>2. Result(Head(workCh).idx) \in Results
      BY <3>1, HandsFacts DEF Results
    <3> QED BY <3>1, <3>2, HandsFacts
  <2> QED BY <1>7, <2>2, <2>3, <2>4 DEF Take
<1>8. ASSUME NEW w \in Worker, Send(w) PROVE OnceInv' /\ Accounted'
  <2>1. UNCHANGED <<workCh, pending, prodPos, nextIdx, addFailed>> /\ Real(w)
    BY <1>8 DEF Send, workerFrame, Real
  <2>2. /\ Len(resultCh) \in Nat /\ Len(resultCh') = Len(resultCh) + 1
        /\ \A k \in 1 .. Len(resultCh) : resultCh'[k] = resultCh[k]
        /\ resultCh'[Len(resultCh) + 1] = item[w]
    BY <1>8, AppendFacts DEF Send, HandsInv
  <2>3. ~Real(w)' /\ \A v \in Worker \ {w} : Real(v)' = Real(v) /\ item'[v] = item[v]
    BY <1>8 DEF Send, Real, HandsInv
  <2>a. \A k \in 1 .. Len(resultCh') :
            (k \in 1 .. Len(resultCh) /\ resultCh'[k] = resultCh[k]) \/ (k = Len(resultCh') /\ resultCh'[k] = item[w])
    BY <2>2
  <2>4. OnceInv'
    <3>1. (\A i, j \in 1 .. Len(workCh) : workCh[i].idx = workCh[j].idx => i = j)'
      BY <2>1 DEF OnceInv
    <3>2. (\A i, j \in 1 .. Len(resultCh) : resultCh[i].idx = resultCh[j].idx => i = j)'
      BY <2>1, <2>2, <2>a DEF OnceInv
    <3>3. (\A v, u \in Worker : Real(v) /\ Real(u) /\ item[v].idx = item[u].idx => v = u)'
      BY <2>1, <2>3 DEF OnceInv
    <3>4. (\A i \in 1 .. Len(workCh), v \in Worker : Real(v) => workCh[i].idx # item[v].idx)'
      BY <2>1, <2>3 DEF OnceInv
    <3>5. (\A i \in 1 .. Len(workCh), j \in 1 .. Len(resultCh) : workCh[i].idx # resultCh[j].idx)'
      BY <2>1, <2>a DEF OnceInv
    <3>6. (\A i \in 1 .. Len(resultCh), v \in Worker : Real(v) => resultCh[i].idx # item[v].idx)'
      BY <2>1, <2>a, <2>3 DEF OnceInv
    <3>7. (\A i \in 1 .. Len(workCh) : workCh[i].idx >= nextIdx /\ workCh[i].idx \notin DOMAIN pending)'
      BY <2>1 DEF OnceInv
    <3>8. (\A i \in 1 .. Len(resultCh) : resultCh[i].idx >= nextIdx /\ resultCh[i].idx \notin DOMAIN pending)'
      BY <2>1, <2>a DEF OnceInv
    <3>9. (\A v \in Worker : Real(v) => item[v].idx >= nextIdx /\ item[v].idx \notin DOMAIN pending)'
      BY <2>1, <2>3 DEF OnceInv
    <3>10. (\A i \in DOMAIN pending : i >= nextIdx)'
      BY <2>1 DEF OnceInv
    <3> QED BY <3>1, <3>2, <3>3, <3>4, <3>5, <3>6, <3>7, <3>8, <3>9, <3>10 DEF OnceInv
  <2>5. Accounted'
    <3> SUFFICES ASSUME ~addFailed, NEW i \in 0 .. prodPos - 1
                 PROVE  \/ i < nextIdx
                        \/ i \in DOMAIN pending
                        \/ \E k \in 1 .. Len(workCh) : workCh[k].idx = i
                        \/ \E k \in 1 .. Len(resultCh') : resultCh'[k].idx = i
                        \/ \E v \in Worker : Real(v)' /\ item'[v].idx = i
      BY <2>1 DEF Accounted
    <3>1. CASE \E k \in 1 .. Len(resultCh) : resultCh[k].idx = i
      BY <2>2, <3>1
    <3>2. CASE \E v \in Worker : Real(v) /\ item[v].idx = i
      <4>1. Len(resultCh') \in 1 .. Len(resultCh') /\ resultCh'[Len(resultCh')].idx = item[w].idx
        BY <2>2
      <4> QED BY <2>3, <3>2, <4>1
    <3> QED BY <3>1, <3>2 DEF Accounted
  <2> QED BY <2>4, <2>5
<1>9. CASE Receive
  <2>1. UNCHANGED <<workCh, item, prodPos, nextIdx, addFailed>>
    BY <1>9 DEF Receive
  <2>2. /\ Len(resultCh) \in Nat \ {0} /\ Len(resultCh') = Len(resultCh) - 1
        /\ \A k \in 1 .. Len(resultCh) - 1 : resultCh'[k] = resultCh[k + 1]
        /\ Head(resultCh) = resultCh[1]
    BY <1>9, TailFacts DEF Receive, HandsInv
  <2>3. DOMAIN pending' = DOMAIN pending \cup {resultCh[1].idx}
    BY <1>9, <2>2 DEF Receive
  <2>4. \A v \in Worker : Real(v)' = Real(v)
    BY <2>1 DEF Real
  <2>a. \A k \in 1 .. Len(resultCh') : k + 1 \in 1 .. Len(resultCh) /\ k + 1 # 1 /\ resultCh'[k] = resultCh[k + 1]
    BY <2>2
  <2>b. 1 \in 1 .. Len(resultCh)
    BY <2>2
  <2>5. OnceInv'
    <3>1. (\A i, j \in 1 .. Len(workCh) : workCh[i].idx = workCh[j].idx => i = j)'
      BY <2>1, <2>2, <2>3, <2>4, <2>a, <2>b DEF OnceInv
    <3>2. (\A i, j \in 1 .. Len(resultCh) : resultCh[i].idx = resultCh[j].idx => i = j)'
      BY <2>1, <2>2, <2>3, <2>4, <2>a, <2>b DEF OnceInv
    <3>3. (\A v, u \in Worker : Real(v) /\ Real(u) /\ item[v].idx = item[u].idx => v = u)'
      BY <2>1, <2>2, <2>3, <2>4, <2>a, <2>b DEF OnceInv
    <3>4. (\A i \in 1 .. Len(workCh), v \in Worker : Real(v) => workCh[i].idx # item[v].idx)'
      BY <2>1, <2>2, <2>3, <2>4, <2>a, <2>b DEF OnceInv
    <3>5. (\A i \in 1 .. Len(workCh), j \in 1 .. Len(resultCh) : workCh[i].idx # resultCh[j].idx)'
      <4>1. ASSUME NEW i \in 1 .. Len(workCh), NEW j \in 1 .. Len(resultCh')
            PROVE  workCh[i].idx # resultCh'[j].idx
        <5>1. j + 1 \in 1 .. Len(resultCh) /\ resultCh'[j] = resultCh[j + 1]
          BY <2>a
        <5> QED BY <1>1, <5>1 DEF OnceInv
      <4> QED BY <2>1, <4>1
    <3>6. (\A i \in 1 .. Len(resultCh), v \in Worker : Real(v) => resultCh[i].idx # item[v].idx)'
      BY <2>1, <2>2, <2>3, <2>4, <2>a, <2>b DEF OnceInv
    <3>7. (\A i \in 1 .. Len(workCh) : workCh[i].idx >= nextIdx /\ workCh[i].idx \notin DOMAIN pending)'
      BY <2>1, <2>2, <2>3, <2>4, <2>a, <2>b DEF OnceInv
    <3>8. (\A i \in 1 .. Len(resultCh) : resultCh[i].idx >= nextIdx /\ resultCh[i].idx \notin DOMAIN pending)'
      BY <2>1, <2>2, <2>3, <2>4, <2>a, <2>b DEF OnceInv
    <3>9. (\A v \in Worker : Real(v) => item[v].idx >= nextIdx /\ item[v].idx \notin DOMAIN pending)'
      BY <2>1, <2>2, <2>3, <2>4, <2>a, <2>b DEF OnceInv
    <3>10. (\A i \in DOMAIN pending : i >= nextIdx)'
      BY <2>1, <2>2, <2>3, <2>4, <2>a, <2>b DEF OnceInv
    <3> QED BY <3>1, <3>2, <3>3, <3>4, <3>5, <3>6, <3>7, <3>8, <3>9, <3>10 DEF OnceInv
  <2>6. Accounted'
    <3> SUFFICES ASSUME ~addFailed, NEW i \in 0 .. prodPos - 1
                 PROVE  \/ i < nextIdx
                        \/ i \in DOMAIN pending'
                        \/ \E k \in 1 .. Len(workCh) : workCh[k].idx = i
                        \/ \E k \in 1 .. Len(resultCh') : resultCh'[k].idx = i
                        \/ \E v \in Worker : Real(v) /\ item[v].idx = i
      BY <2>1, <2>4 DEF Accounted
    <3>1. CASE \E k \in 1 .. Len(resultCh) : resultCh[k].idx = i
      <4>1. PICK k \in 1 .. Len(resultCh) : resultCh[k].idx = i
        BY <3>1
      <4>2. CASE k = 1
        BY <2>3, <4>1, <4>2
      <4>3. CASE k # 1
        <5>1. k - 1 \in 1 .. Len(resultCh') /\ resultCh'[k - 1].idx = i
          BY <2>2, <4>1, <4>3
        <5> QED BY <5>1
      <4> QED BY <4>2, <4>3
    <3> QED BY <2>3, <3>1 DEF Accounted
  <2> QED BY <2>5, <2>6
<1>10. CASE AddPending
  <2>1. UNCHANGED <<workCh, resultCh, item, prodPos>> /\ \A v : Real(v)' = Real(v)
    BY <1>10 DEF AddPending, chanVars, Real
  <2>2. CASE UNCHANGED <<pending, nextIdx, addFailed>>
    BY <1>2, <2>1, <2>2
  <2>3. CASE nextIdx \in DOMAIN pending /\ DOMAIN pending' = DOMAIN pending \ {nextIdx} /\ nextIdx' = nextIdx + 1
             /\ UNCHANGED addFailed
    BY <1>1, <2>1, <2>3, FlightFacts DEF OnceInv, Accounted
  <2>4. CASE nextIdx \in DOMAIN pending /\ DOMAIN pending' = DOMAIN pending \ {nextIdx} /\ nextIdx' = nextIdx
             /\ addFailed'
    BY <1>1, <2>1, <2>4, FlightFacts DEF OnceInv, Accounted
  <2> QED BY <1>10, <2>2, <2>3, <2>4 DEF AddPending
<1> QED BY <1>3, <1>4, <1>5, <1>6, <1>7, <1>8, <1>9, <1>10 DEF Next
-----------------------------------------------------------------------------
LEMMA EntriesInit == Init => EntriesInv
BY DEF Init, EntriesInv, Numbered

(* Where the entries have all been added. *)
LEMMA AllAdded ==
    ASSUME PlanInv, BufferInv, HandsInv, ShutInv, EntriesInv, OnceInv, Accounted, EntriesDone,
           ~(pc = "receive" /\ readErr)
    PROVE  nextIdx = Len(buffered)
<1>1. CASE pc = "add"
  BY <1>1 DEF EntriesDone
<1>2. CASE pc = "receive" /\ resultCh = <<>> /\ resultClosed
  <2>1. ~addFailed /\ nextIdx \notin DOMAIN pending /\ job.parallel
    BY <1>2 DEF ShutInv
  <2>2. Parallel /\ \A w \in Worker : ~Real(w)
    BY <1>2, <2>1 DEF ShutInv, Parallel, PlanInv, Real
  <2>3. workCh = <<>> /\ prodPos = Len(buffered)
    BY <1>2, ZimConvertAssumption DEF ShutInv, ZimConvertAssumption
  <2>4. nextIdx \notin 0 .. prodPos - 1
    BY <1>2, <2>1, <2>2, <2>3 DEF Accounted
  <2> QED BY <2>3, <2>4, HandsFacts DEF EntriesInv
<1> QED BY <1>1, <1>2 DEF EntriesDone

LEMMA EntriesNext ==
    PlanInv /\ BufferInv /\ HandsInv /\ ShutInv /\ EntriesInv /\ OnceInv /\ Accounted /\ [Next]_vars
      => EntriesInv'
<1> SUFFICES ASSUME PlanInv, BufferInv, HandsInv, ShutInv, EntriesInv, OnceInv, Accounted, [Next]_vars
             PROVE  EntriesInv'
  OBVIOUS
<1>1. nextIdx \in Nat /\ prodPos \in Nat /\ Len(buffered) \in Nat
  BY HandsFacts DEF EntriesInv
<1>2. ASSUME UNCHANGED <<job, buffered>> PROVE \A i : Expected(i)' = Expected(i)
  BY <1>2, JobFixed DEF Expected
<1>3. ASSUME UNCHANGED <<job, buffered, nextIdx, entries>>, Numbered' \/ ~Numbered, prodPos' >= prodPos, prodPos' \in Nat,
             pc' \in {"redirects", "done"} => nextIdx = Len(buffered)
      PROVE  EntriesInv'
  BY <1>1, <1>2, <1>3 DEF EntriesInv
<1>4. ASSUME UNCHANGED <<job, plan, buffered, nextIdx, entries, readPos, pc>>, prodPos' >= prodPos, prodPos' \in Nat
      PROVE  EntriesInv'
  BY <1>3, <1>4 DEF Numbered, EntriesInv
<1>5. CASE ScanAndPlan \/ ReadEntry \/ SortAndNumber
  <2>1. ~Numbered /\ UNCHANGED <<job, nextIdx, entries, prodPos>> /\ pc' \notin {"redirects", "done"}
    BY <1>5 DEF ScanAndPlan, ReadEntry, SortAndNumber, mainVars, chanVars, Numbered, Fail
  <2>2. nextIdx = 0 /\ entries = [k \in 1 .. 0 |-> Expected(k - 1)]
    BY <2>1 DEF EntriesInv
  <2>3. [k \in 1 .. 0 |-> Expected(k - 1)] = [k \in 1 .. 0 |-> Expected(k - 1)']
    OBVIOUS
  <2>4. Len(buffered') \in Nat
    BY BufferNext DEF BufferInv
  <2> QED BY <1>1, <2>1, <2>2, <2>3, <2>4 DEF EntriesInv
<1>6. ASSUME UNCHANGED <<job, plan, buffered, readPos, prodPos>>, nextIdx < Len(buffered), nextIdx' = nextIdx + 1,
             entries' = Append(entries, Expected(nextIdx)), pc' = pc, pc \in {"add", "reorder"},
             job.parallel => nextIdx < prodPos
      PROVE  EntriesInv'
  <2>1. entries' = [k \in 1 .. nextIdx + 1 |-> Expected(k - 1)]
    <3> DEFINE E(k) == Expected(k - 1)
    <3>1. entries = [k \in 1 .. nextIdx |-> E(k)] /\ E(nextIdx + 1) = Expected(nextIdx)
      BY <1>1 DEF EntriesInv
    <3> HIDE DEF E
    <3>2. Append([k \in 1 .. nextIdx |-> E(k)], E(nextIdx + 1)) = [k \in 1 .. nextIdx + 1 |-> E(k)]
      BY <1>1
    <3>3. entries' = [k \in 1 .. nextIdx + 1 |-> E(k)]
      BY <1>6, <3>1, <3>2
    <3> QED BY <3>3 DEF E
  <2>2. Numbered /\ Numbered'
    BY <1>6 DEF Numbered, PlanInv
  <2> QED BY <1>1, <1>2, <1>6, <2>1, <2>2 DEF EntriesInv
<1>7. CASE AddNext
  <2>1. /\ UNCHANGED <<job, plan, buffered, readPos, prodPos>> /\ ~job.parallel /\ pc = "add" /\ nextIdx < Len(buffered)
    BY <1>7 DEF AddNext, mainVars, chanVars, ShutInv
  <2>2. CASE entries' = Append(entries, Added(nextIdx, ReadAt(buffered[nextIdx + 1]))) /\ nextIdx' = nextIdx + 1 /\ pc' = pc
    <3>1. ReadAt(buffered[nextIdx + 1]) = Bytes(buffered[nextIdx + 1].zimIndex)
      BY <1>1, <2>1 DEF BufferInv
    <3>2. Added(nextIdx, ReadAt(buffered[nextIdx + 1])) = Expected(nextIdx)
      BY <3>1 DEF Added, Expected
    <3> QED BY <1>6, <2>1, <2>2, <3>2
  <2>3. CASE UNCHANGED <<entries, nextIdx>> /\ pc' = "failed"
    BY <1>1, <1>3, <2>1, <2>3 DEF Numbered
  <2> QED BY <1>7, <2>2, <2>3 DEF AddNext, Fail
<1>8. CASE Produce
  BY <1>1, <1>4, <1>8 DEF Produce, mainVars
<1>9. CASE CloseResults \/ Receive \/ \E w \in Worker : Take(w) \/ Send(w)
  <2>1. UNCHANGED <<job, plan, buffered, nextIdx, entries, readPos, prodPos>> /\ pc' \in {pc, "reorder"}
    BY <1>9 DEF CloseResults, Receive, Take, Send, workerFrame, mainVars
  <2>2. Receive => pc = "receive"
    BY DEF Receive
  <2>3. CloseResults \/ (\E w \in Worker : Take(w) \/ Send(w)) => pc' = pc
    BY DEF CloseResults, Take, Send, workerFrame
  <2> QED BY <1>1, <1>3, <1>4, <1>9, <2>1, <2>2, <2>3 DEF Numbered
<1>10. CASE AddPending
  <2>1. UNCHANGED <<job, plan, buffered, readPos, prodPos>> /\ pc = "reorder"
    BY <1>10 DEF AddPending, mainVars, chanVars
  <2>2. CASE UNCHANGED <<entries, nextIdx>> /\ pc' \in {"receive", "failed"}
    BY <1>1, <1>3, <2>1, <2>2 DEF Numbered
  <2>3. CASE /\ nextIdx \in DOMAIN pending /\ nextIdx' = nextIdx + 1 /\ pc' = pc
             /\ entries' = Append(entries, [Added(nextIdx, pending[nextIdx].content)
                                               EXCEPT !.transcoded = pending[nextIdx].transcoded])
    <3>1. pending[nextIdx] = Result(nextIdx) /\ nextIdx < prodPos /\ prodPos <= Len(buffered)
      BY <1>1, <2>3 DEF HandsInv
    <3>2. job.parallel = TRUE
      BY <2>1, JobFacts DEF ShutInv, PlanInv
    <3>3. [Added(nextIdx, pending[nextIdx].content) EXCEPT !.transcoded = pending[nextIdx].transcoded]
            = Expected(nextIdx)
      <4> DEFINE z == buffered[nextIdx + 1].zimIndex
      <4>1. pending[nextIdx].content = Bytes(z) /\ pending[nextIdx].transcoded = needsTranscode(z)
        BY <3>1 DEF Result
      <4>2. Added(nextIdx, pending[nextIdx].content) =
              [path |-> OzaPath(z), content |-> Bytes(z), transcoded |-> needsTranscode(z) /\ job.parallel,
               front |-> IsFront(z)]
        BY <4>1 DEF Added
      <4>3. (needsTranscode(z) /\ job.parallel) = needsTranscode(z)
        BY <3>2 DEF needsTranscode
      <4>4. Expected(nextIdx) =
              [path |-> OzaPath(z), content |-> Bytes(z), transcoded |-> needsTranscode(z), front |-> IsFront(z)]
        BY <4>3 DEF Expected
      <4> HIDE DEF z
      <4> QED BY <4>1, <4>2, <4>4
    <3> QED BY <1>1, <1>6, <2>1, <2>3, <3>1, <3>3
  <2> QED BY <1>10, <2>2, <2>3 DEF AddPending, Fail
<1>11. CASE EntriesDone
  <2>1. UNCHANGED <<job, plan, buffered, nextIdx, entries, readPos, prodPos>> /\ pc \in {"add", "receive"}
        /\ pc' \in {"redirects", "failed"} /\ (pc' = "redirects" => ~(pc = "receive" /\ readErr))
    BY <1>11 DEF EntriesDone, mainVars, chanVars
  <2> QED BY <1>1, <1>3, <1>11, <2>1, AllAdded DEF Numbered
<1>12. CASE AddRedirect \/ Finish
  <2>1. UNCHANGED <<job, plan, buffered, nextIdx, entries, readPos, prodPos>> /\ pc = "redirects"
        /\ pc' \in {"redirects", "failed", "done"}
    BY <1>12 DEF AddRedirect, Finish, mainVars, chanVars, Fail
  <2> QED BY <1>1, <1>3, <2>1 DEF Numbered, EntriesInv
<1>13. CASE UNCHANGED vars
  BY <1>1, <1>4, <1>13 DEF vars
<1> QED BY <1>5, <1>7, <1>8, <1>9, <1>10, <1>11, <1>12, <1>13 DEF Next
-----------------------------------------------------------------------------
(* The plan, the buffer, the order of the shutdown, what is in hand, what *)
(* has been added, each place in one hand only, and none of them lost.    *)
IInv == PlanInv /\ BufferInv /\ HandsInv /\ ShutInv /\ EntriesInv /\ OnceInv /\ Accounted

(* The scan, the sorts, the reading into the temp file and the hand-over *)
(* between producer, workers and consumer (convert.go: scan, write,      *)
(* addEntriesParallel) never leave the inductive invariant.              *)
THEOREM IInvAlways == Spec => []IInv
<1>1. Init => IInv
  BY PlanInit, BufferInit, HandsInit, ShutInit, EntriesInit, OnceInit DEF IInv
<1>2. IInv /\ [Next]_vars => IInv'
  BY PlanNext, BufferNext, HandsNext, ShutNext, EntriesNext, OnceNext DEF IInv
<1> QED BY <1>1, <1>2, PTL DEF Spec

(* All of it that a success needs. *)
LEMMA KeptFacts ==
    ASSUME IInv, pc \in {"redirects", "done"}
    PROVE  /\ DOMAIN zimIndexToOzaID = Kept /\ BufferSet = Kept
           /\ Len(entries) = Len(buffered)
           /\ IsFiniteSet(Kept) /\ Len(buffered) = Cardinality(Kept)
<1> USE DEF IInv
<1>1. pc # "scan" /\ Numbered /\ readPos = Len(plan.content)
  BY DEF PlanInv, Numbered
<1>2. BufferSet = ReadSet(Len(plan.content)) /\ DOMAIN zimIndexToOzaID = BufferSet
  BY <1>1 DEF BufferInv
<1>3. ReadSet(Len(plan.content)) = {z \in Scan.content : Dirent(z).readable}
  BY <1>1, PlanFacts DEF ReadSet
<1>4. {z \in Scan.content : Dirent(z).readable} = Kept
  BY DEF Scan, Kept
<1>5. nextIdx = Len(buffered) /\ Len(buffered) \in Nat
  BY DEF EntriesInv, BufferInv
<1>6. Len(entries) = Len(buffered)
  BY <1>5 DEF EntriesInv
<1>7. IsFiniteSet(Kept) /\ Len(buffered) = Cardinality(Kept)
  <2>a. PICK n \in Nat : n = Len(buffered)
    BY <1>5
  <2> DEFINE f == [i \in 1 .. n |-> buffered[i].zimIndex]
  <2>1. f \in Bijection(1 .. n, BufferSet)
    <3>1. f \in [1 .. n -> BufferSet]
      BY <2>a DEF BufferSet
    <3>2. \A x \in BufferSet : \E i \in 1 .. n : f[i] = x
      BY <2>a DEF BufferSet
    <3>3. \A i, j \in 1 .. n : f[i] = f[j] => i = j
      BY <2>a DEF BufferInv
    <3> HIDE DEF f
    <3> QED BY <3>1, <3>2, <3>3 DEF Bijection, Injection, IsInjective, Surjection
  <2>2. IsFiniteSet(1 .. n) /\ Cardinality(1 .. n) = n
    BY FS_Interval
  <2> HIDE DEF f
  <2>3. IsFiniteSet(BufferSet) /\ Cardinality(BufferSet) = n
    BY <2>1, <2>2, FS_Bijection DEF ExistsBijection
  <2> QED BY <1>2, <1>3, <1>4, <2>a, <2>3
<1> QED BY <1>2, <1>3, <1>4, <1>6, <1>7

LEMMA AddedInv == IInv => AddedRight
<1> SUFFICES ASSUME IInv PROVE AddedRight
  OBVIOUS
<1>1. ASSUME NEW z \in DOMAIN zimIndexToOzaID, zimIndexToOzaID[z] < Len(entries)
      PROVE  /\ entries[zimIndexToOzaID[z] + 1].path = OzaPath(z)
             /\ entries[zimIndexToOzaID[z] + 1].content = Bytes(z)
             /\ entries[zimIndexToOzaID[z] + 1].transcoded = (job.parallel /\ needsTranscode(z))
  <2>1. PICK i \in 1 .. Len(buffered) : buffered[i].zimIndex = z /\ zimIndexToOzaID[z] = i - 1
    <3>1. Numbered /\ z \in BufferSet
      BY DEF IInv, BufferInv
    <3>2. PICK i \in 1 .. Len(buffered) : z = buffered[i].zimIndex
      BY <3>1 DEF BufferSet
    <3> QED BY <3>1, <3>2 DEF IInv, BufferInv
  <2>2. nextIdx \in Nat /\ Len(entries) = nextIdx /\ Len(buffered) \in Nat
    BY DEF IInv, EntriesInv, BufferInv
  <2>3. i \in 1 .. nextIdx
    BY <1>1, <2>1, <2>2
  <2>4. entries[i] = Expected(i - 1) /\ i - 1 + 1 = i
    BY <2>2, <2>3 DEF IInv, EntriesInv
  <2>5. entries[i] = [path |-> OzaPath(z), content |-> Bytes(z),
                      transcoded |-> needsTranscode(z) /\ job.parallel, front |-> IsFront(z)]
    BY <2>1, <2>4 DEF Expected
  <2>6. (needsTranscode(z) /\ job.parallel) = (job.parallel /\ needsTranscode(z))
    OBVIOUS
  <2> QED BY <2>1, <2>2, <2>5, <2>6
<1>2. pc \in {"redirects", "done"} => ~readErr
  BY DEF IInv, ShutInv
<1> QED BY <1>1, <1>2, KeptFacts DEF AddedRight

(* The entry that has the ID which write assigned to a ZIM entry is that *)
(* entry with its own bytes, however the workers of addEntriesParallel   *)
(* overtake each other; a success has added each readable one once.      *)
THEOREM AddedRightAlways == Spec => []AddedRight
BY IInvAlways, AddedInv, PTL

(* Behind a conversion that ends without a failed add nothing is left over. *)
LEMMA QuietInv == IInv => QuietEnd
<1> SUFFICES ASSUME IInv PROVE QuietEnd
  OBVIOUS
<1> USE DEF IInv
<1>1. nextIdx \in Nat /\ Len(entries) = nextIdx /\ Len(buffered) \in Nat /\ prodPos \in Nat
  BY HandsFacts DEF EntriesInv, BufferInv
<1>2. DOMAIN zimIndexToOzaID \subseteq Index
  <2> DEFINE Recs == [zimIndex : Index, off : Nat, len : Nat]
  <2>1. buffered \in Seq(Recs)
    BY DEF BufferInv
  <2> HIDE DEF Recs
  <2>2. \A i \in 1 .. Len(buffered) : buffered[i] \in Recs
    BY <2>1
  <2>3. BufferSet \subseteq Index
    BY <2>2 DEF BufferSet, Recs
  <2> QED BY <2>3 DEF BufferInv
<1>3. ASSUME NEW w \in Worker PROVE item[w].idx \in -2 .. prodPos - 1
  <2>1. CASE Real(w)
    BY <1>1, <2>1, FlightFacts
  <2>2. CASE item[w] \in {Idle, Gone}
    BY <1>1, <2>2 DEF Idle, Gone
  <2> QED BY <2>1, <2>2 DEF Real
<1>4. DOMAIN pending \subseteq nextIdx .. prodPos - 1
  BY <1>1, FlightFacts DEF OnceInv
<1>5. TypeOK
  BY <1>1, <1>2, <1>3, <1>4 DEF TypeOK, PlanInv, EntriesInv, HandsInv
<1>6. ASSUME job.parallel, ~addFailed, pc \in {"redirects", "done"} \/ (pc = "failed" /\ readErr)
      PROVE  /\ workClosed /\ resultClosed /\ workCh = <<>> /\ resultCh = <<>>
             /\ \A w \in Worker : item[w] = Gone
  <2>1. Parallel
    <3>1. CASE pc \in {"redirects", "done"}
      BY <1>6, <3>1 DEF Parallel, PlanInv
    <3>2. CASE readErr
      BY <3>2 DEF ShutInv
    <3> QED BY <1>6, <3>1, <3>2
  <2>2. resultClosed /\ resultCh = <<>> /\ \A w \in Worker : item[w] = Gone
    BY <1>6, <2>1 DEF ShutInv
  <2> QED BY <2>2, ZimConvertAssumption DEF ShutInv, ZimConvertAssumption
<1> QED BY <1>5, <1>6 DEF QuietEnd

(* When addEntriesParallel has returned, with success or with the error of *)
(* a read, no goroutine is left and nothing is in a channel.               *)
THEOREM QuietEndAlways == Spec => []QuietEnd
BY IInvAlways, QuietInv, PTL

(* The path of the main entry is that of an entry that was added. *)
LEMMA MainEntryInv == IInv => MainEntryRight
<1> SUFFICES ASSUME IInv PROVE MainEntryRight
  OBVIOUS
<1> DEFINE end == ResolveZIM(job.main)
<1> SUFFICES ASSUME pc = "done", meta.main # <<>>, "main_entry" \notin job.meta, end \in Kept
             PROVE  \E i \in DOMAIN entries : entries[i].path = meta.main /\ entries[i].content = Bytes(end)
  BY DEF MainEntryRight
<1> HIDE DEF end
<1>1. meta.main = OzaPath(end)
  <2>1. meta = writeMetadata
    BY DEF IInv, PlanInv
  <2> QED BY <2>1 DEF writeMetadata, end
<1>2. PICK i \in 1 .. Len(buffered) : buffered[i].zimIndex = end
  BY KeptFacts DEF BufferSet
<1>3. nextIdx = Len(buffered) /\ entries = [k \in 1 .. nextIdx |-> Expected(k - 1)]
  BY DEF IInv, EntriesInv
<1>4. Len(buffered) \in Nat /\ i - 1 + 1 = i
  BY DEF IInv, BufferInv
<1>5. entries[i] = Expected(i - 1) /\ i \in DOMAIN entries
  BY <1>3, <1>4
<1>6. entries[i].path = OzaPath(end) /\ entries[i].content = Bytes(end)
  BY <1>2, <1>4, <1>5 DEF Expected
<1> QED BY <1>1, <1>5, <1>6

(* The main_entry that writeMetadata sets is the path of an entry with the *)
(* content of what the ZIM's main page leads to, if that could be read.    *)
THEOREM MainEntryRightAlways == Spec => []MainEntryRight
BY IInvAlways, MainEntryInv, PTL

-----------------------------------------------------------------------------
(****************************************************************************)
(* Induction, and functions that are defined by recursion                   *)
(****************************************************************************)
(* Every set of numbers has a least one; so what holds of 0 and goes from n *)
(* to n + 1 holds of all of them.                                           *)
LEMMA LeastElement ==
  ASSUME NEW T \in SUBSET Nat, T # {}
  PROVE  \E x \in T : \A y \in T : x <= y
<1>1. PICK R : R = OpToRel(<, Nat)
  OBVIOUS
<1>2. IsWellFoundedOn(R, Nat)
  BY <1>1, NatLessThanWellFounded
<1>3. \A x, y \in Nat : y < x => <<y, x>> \in R
  BY <1>1 DEF OpToRel
<1>4. PICK x \in T : \A y \in T : ~ (<<y, x>> \in R)
  BY <1>2, WFMin
<1>5. ASSUME NEW y \in T PROVE x <= y
  <2>1. x \in Nat /\ y \in Nat
    OBVIOUS
  <2>2. ~(y < x)
    BY <1>3, <1>4, <2>1
  <2> QED BY <2>1, <2>2
<1> QED BY <1>5

LEMMA NatSetInduction ==
  ASSUME NEW S, 0 \in S, \A n \in Nat : n \in S => n + 1 \in S
  PROVE  Nat \subseteq S
<1>1. SUFFICES ASSUME Nat \ S # {}  PROVE FALSE
  OBVIOUS
<1>2. PICK x \in Nat \ S : \A y \in Nat \ S : x <= y
  BY <1>1, LeastElement
<1>3. x - 1 \in Nat /\ x - 1 \in S
  BY <1>2
<1> QED BY <1>2, <1>3

(* f starts in c and goes on by the steps; there is always one that does.   *)
Iterates(f, V, c, step) ==
  f \in [Nat -> V] /\ f[0] = c /\ \A n \in Nat : f[n + 1] = step[n][f[n]]

LEMMA Recursion ==
  ASSUME NEW V, NEW c \in V, NEW step \in [Nat -> [V -> V]]
  PROVE  \E f : Iterates(f, V, c, step)
<1> DEFINE Upto(n, f) == f[0] = c /\ \A i \in 0 .. n - 1 : f[i + 1] = step[i][f[i]]
           S == {n \in Nat : \E f \in [0 .. n -> V] : Upto(n, f)}
           Same == {n \in Nat : \A m, k \in Nat : \A f \in [0 .. m -> V], g \in [0 .. k -> V] :
                      n <= m /\ n <= k /\ Upto(m, f) /\ Upto(k, g) => f[n] = g[n]}
<1>1. Nat \subseteq S
  <2>1. 0 \in S
    <3> DEFINE f0 == [i \in 0 .. 0 |-> c]
    <3>1. f0 \in [0 .. 0 -> V] /\ Upto(0, f0)
      OBVIOUS
    <3> QED BY <3>1
  <2>2. ASSUME NEW n \in Nat, n \in S PROVE n + 1 \in S
    <3>1. PICK f \in [0 .. n -> V] : Upto(n, f)
      BY <2>2
    <3> DEFINE g == [i \in 0 .. n + 1 |-> IF i = n + 1 THEN step[n][f[n]] ELSE f[i]]
    <3>2. g \in [0 .. n + 1 -> V]
      OBVIOUS
    <3>3. g[n + 1] = step[n][f[n]] /\ \A i \in 0 .. n : g[i] = f[i]
      OBVIOUS
    <3> HIDE DEF g
    <3>4. ASSUME NEW i \in 0 .. n PROVE g[i + 1] = step[i][g[i]]
      <4>1. CASE i = n
        BY <3>3, <4>1
      <4>2. CASE i # n
        <5>1. i \in 0 .. n - 1 /\ i + 1 \in 0 .. n
          BY <4>2
        <5> QED BY <3>1, <3>3, <5>1
      <4> QED BY <4>1, <4>2
    <3>5. g[0] = c /\ 0 .. (n + 1) - 1 = 0 .. n
      BY <3>1, <3>3
    <3>6. Upto(n + 1, g)
      BY <3>4, <3>5
    <3> QED BY <3>2, <3>6
  <2>3. \A n \in Nat : n \in S => n + 1 \in S
    BY <2>2
  <2> HIDE DEF S
  <2> QED BY <2>1, <2>3, NatSetInduction
<1>2. Nat \subseteq Same
  <2>1. 0 \in Same
    OBVIOUS
  <2>2. ASSUME NEW n \in Nat, n \in Same PROVE n + 1 \in Same
    <3>0. ASSUME NEW m \in Nat, NEW k \in Nat, NEW f \in [0 .. m -> V], NEW g \in [0 .. k -> V],
                 n + 1 <= m, n + 1 <= k, Upto(m, f), Upto(k, g)
          PROVE  f[n + 1] = g[n + 1]
      <4>1. n <= m /\ n <= k /\ n \in 0 .. m - 1 /\ n \in 0 .. k - 1
        BY <3>0
      <4>2. f[n] = g[n]
        <5> HIDE DEF Upto
        <5> QED BY <2>2, <3>0, <4>1
      <4> QED BY <3>0, <4>1, <4>2
    <3>1. n + 1 \in Nat
      OBVIOUS
    <3> HIDE DEF Upto
    <3> QED BY <3>0, <3>1
  <2>3. \A n \in Nat : n \in Same => n + 1 \in Same
    BY <2>2
  <2> HIDE DEF Same
  <2> QED BY <2>1, <2>3, NatSetInduction
<1> DEFINE F == [n \in Nat |-> CHOOSE f \in [0 .. n -> V] : Upto(n, f)]
           h == [n \in Nat |-> F[n][n]]
<1>3. \A n \in Nat : F[n] \in [0 .. n -> V] /\ Upto(n, F[n])
  <2> TAKE n \in Nat
  <2>1. \E f \in [0 .. n -> V] : Upto(n, f)
    BY <1>1
  <2> HIDE DEF Upto
  <2> QED BY <2>1
<1>4. h \in [Nat -> V] /\ h[0] = c
  <2> HIDE DEF F
  <2> QED BY <1>3
<1>5. ASSUME NEW n \in Nat PROVE h[n + 1] = step[n][h[n]]
  <2> HIDE DEF F
  <2>1. F[n + 1][n + 1] = step[n][F[n + 1][n]]
    <3>1. n + 1 \in Nat /\ n \in 0 .. (n + 1) - 1
      OBVIOUS
    <3> QED BY <1>3, <3>1
  <2>2. F[n + 1][n] = F[n][n]
    <3> HIDE DEF Upto
    <3>1. n \in Same /\ n + 1 \in Nat /\ n <= n + 1 /\ n <= n
      BY <1>2
    <3> QED BY <1>3, <3>1
  <2>3. h[n] = F[n][n] /\ h[n + 1] = F[n + 1][n + 1]
    OBVIOUS
  <2> HIDE DEF h
  <2> QED BY <2>1, <2>2, <2>3
<1> HIDE DEF h
<1> QED BY <1>4, <1>5 DEF Iterates

(* w follows the steps s from place to place, remembers where it was, and  *)
(* gives the number of the place of K it gets to, or -1.                   *)
WalksBy(w, I, P, K, s, id) ==
  \A at \in (SUBSET I) \X I :
     w[at] = IF at[2] \in at[1] THEN -1
             ELSE IF at[2] \in K THEN id[at[2]]
             ELSE IF at[2] \in P THEN w[<<at[1] \cup {at[2]}, s[at[2]]>>] ELSE -1

LEMMA WalkExists ==
  ASSUME NEW I, IsFiniteSet(I), NEW P \in SUBSET I, NEW K \in SUBSET I,
         NEW s \in [P -> I], NEW id \in [K -> Int]
  PROVE  \E w : w \in [(SUBSET I) \X I -> Int] /\ WalksBy(w, I, P, K, s, id)
<1> DEFINE A == (SUBSET I) \X I
           V == [A -> Int]
           Turn(w, v, c) == IF c \in v THEN -1
                            ELSE IF c \in K THEN id[c]
                            ELSE IF c \in P THEN w[<<v \cup {c}, s[c]>>] ELSE -1
           step == [n \in Nat |-> [w \in V |-> [a \in A |-> Turn(w, a[1], a[2])]]]
           start == [a \in A |-> -1]
<1>1. ASSUME NEW w \in V, NEW v \in SUBSET I, NEW c \in I PROVE Turn(w, v, c) \in Int
  <2>1. c \in P => <<v \cup {c}, s[c]>> \in A
    OBVIOUS
  <2>2. c \in P => w[<<v \cup {c}, s[c]>>] \in Int
    BY <2>1
  <2>3. c \in K => id[c] \in Int
    OBVIOUS
  <2> QED BY <2>2, <2>3
<1> HIDE DEF Turn
<1>2. ASSUME NEW n \in Nat, NEW w \in V
      PROVE  /\ step[n][w] \in V
             /\ \A v \in SUBSET I, c \in I : step[n][w][<<v, c>>] = Turn(w, v, c)
  <2>1. step[n][w] = [a \in A |-> Turn(w, a[1], a[2])]
    <3> HIDE DEF V, A
    <3> QED OBVIOUS
  <2>2. \A a \in A : a[1] \in SUBSET I /\ a[2] \in I
    OBVIOUS
  <2>3. \A v \in SUBSET I, c \in I : <<v, c>> \in A
    OBVIOUS
  <2> HIDE DEF step, A
  <2>4. [a \in A |-> Turn(w, a[1], a[2])] \in [A -> Int]
    BY <1>1, <2>2
  <2> QED BY <2>1, <2>3, <2>4
<1>2a. step \in [Nat -> [V -> V]]
  <2>1. \A n \in Nat, w \in V : [a \in A |-> Turn(w, a[1], a[2])] \in V
    <3>1. \A a \in A : a[1] \in SUBSET I /\ a[2] \in I
      OBVIOUS
    <3> HIDE DEF A
    <3> QED BY <1>1, <3>1
  <2> HIDE DEF V, A
  <2> QED BY <2>1
<1>3. start \in V
  OBVIOUS
<1> HIDE DEF step, start
<1>4. \E f : Iterates(f, V, start, step)
  <2> HIDE DEF V
  <2> QED BY <1>3, <1>2a, Recursion
<1>5. PICK h : h \in [Nat -> V] /\ \A n \in Nat : h[n + 1] = step[n][h[n]]
  <2> HIDE DEF V
  <2> QED BY <1>4 DEF Iterates
<1>5a. ASSUME NEW n \in Nat, NEW v \in SUBSET I, NEW c \in I PROVE h[n] \in V /\ h[n + 1][<<v, c>>] = Turn(h[n], v, c)
  <2>1. h[n] \in V
    <3> HIDE DEF V
    <3> QED BY <1>5
  <2> HIDE DEF V
  <2>2. h[n + 1] = step[n][h[n]]
    BY <1>5
  <2> QED BY <1>2, <2>1, <2>2
<1> DEFINE Left(v) == Cardinality(I \ v)
<1>6. ASSUME NEW v \in SUBSET I
      PROVE  Left(v) \in Nat /\ Left(v) <= Cardinality(I) /\ \A c \in I \ v : Left(v \cup {c}) = Left(v) - 1
  <2>1. (I \ v) \in SUBSET I
    OBVIOUS
  <2>2. IsFiniteSet(I \ v) /\ Left(v) <= Cardinality(I)
    BY <2>1, FS_Subset
  <2>3. ASSUME NEW c \in I \ v PROVE Left(v \cup {c}) = Left(v) - 1
    <3>1. Cardinality((I \ v) \ {c}) = Cardinality(I \ v) - 1
      BY <2>2, FS_RemoveElement
    <3>2. I \ (v \cup {c}) = (I \ v) \ {c}
      OBVIOUS
    <3> QED BY <3>1, <3>2
  <2> QED BY <2>2, <2>3, FS_CardinalityType
<1> HIDE DEF Left
<1> DEFINE S == {n \in Nat : \A v \in SUBSET I, c \in I :
                   Left(v) < n => h[n + 1][<<v, c>>] = h[n][<<v, c>>]}
<1>7. 0 \in S
  <2>1. \A v \in SUBSET I : ~(Left(v) < 0)
    BY <1>6
  <2> QED BY <2>1
<1>8. ASSUME NEW n \in Nat, n \in S PROVE n + 1 \in S
  <2>0. ASSUME NEW v \in SUBSET I, NEW c \in I, Left(v) < n + 1
        PROVE  h[n + 1 + 1][<<v, c>>] = h[n + 1][<<v, c>>]
    <3>1. h[n + 1 + 1][<<v, c>>] = Turn(h[n + 1], v, c) /\ h[n + 1][<<v, c>>] = Turn(h[n], v, c)
      <4>1. n + 1 \in Nat
        OBVIOUS
      <4> QED BY <1>5a, <4>1
    <3>2. ASSUME c \notin v, c \in P
          PROVE  h[n + 1][<<v \cup {c}, s[c]>>] = h[n][<<v \cup {c}, s[c]>>]
      <4>1. Left(v \cup {c}) < n
        BY <1>6, <2>0, <3>2
      <4>2. v \cup {c} \in SUBSET I /\ s[c] \in I
        BY <3>2
      <4> QED BY <1>8, <4>1, <4>2
    <3> QED BY <3>1, <3>2 DEF Turn
  <2>1. n + 1 \in Nat
    OBVIOUS
  <2> QED BY <2>0, <2>1
<1>9. Nat \subseteq S
  <2>1. \A n \in Nat : n \in S => n + 1 \in S
    BY <1>8
  <2> HIDE DEF S
  <2> QED BY <1>7, <2>1, NatSetInduction
<1>10. PICK N \in Nat : \A v \in SUBSET I : Left(v) < N
  <2>1. Cardinality(I) \in Nat /\ Cardinality(I) + 1 \in Nat
    BY FS_CardinalityType
  <2>2. \A v \in SUBSET I : Left(v) < Cardinality(I) + 1
    BY <1>6, <2>1
  <2> QED BY <2>1, <2>2
<1>11. \A v \in SUBSET I, c \in I : h[N][<<v, c>>] = Turn(h[N], v, c)
  <2> TAKE v \in SUBSET I, c \in I
  <2>1. N \in S
    BY <1>9
  <2>2. h[N + 1][<<v, c>>] = h[N][<<v, c>>]
    BY <1>10, <2>1
  <2> QED BY <1>5a, <2>2
<1>12. h[N] \in V
  <2> HIDE DEF V
  <2> QED BY <1>5, <1>10
<1>13. \A at \in A : h[N][at] = Turn(h[N], at[1], at[2])
  <2> TAKE at \in A
  <2>1. at = <<at[1], at[2]>> /\ at[1] \in SUBSET I /\ at[2] \in I
    OBVIOUS
  <2> QED BY <1>11, <2>1
<1> QED BY <1>12, <1>13 DEF Turn, WalksBy

(* Where a chain of the walk leads. *)
ClosedUnder(D, P, s) == \A x \in D \cap P : s[x] \in D

(* What the number r says of where the steps from z lead. *)
LeadsRight(r, z, I, P, K, s, id) ==
  \/ /\ r = -1
     /\ \E D \in SUBSET I : z \in D /\ ClosedUnder(D, P, s) /\ D \cap K = {}
  \/ \E y \in K :
       /\ r = id[y]
       /\ \A D \in SUBSET I : z \in D /\ ClosedUnder(D, P, s) => y \in D
       /\ \E D \in SUBSET I : z \in D /\ ClosedUnder(D, P, s) /\ D \cap K = {y}

LEMMA WalkRight ==
  ASSUME NEW I, IsFiniteSet(I), NEW P \in SUBSET I, NEW K \in SUBSET I, K \cap P = {},
         NEW s \in [P -> I], NEW id \in [K -> Nat],
         NEW w, WalksBy(w, I, P, K, s, id),
         NEW z \in I
  PROVE  LeadsRight(w[<<{}, z>>], z, I, P, K, s, id)
<1> DEFINE None(v, c) == /\ w[<<v, c>>] = -1
                         /\ \E D \in SUBSET I : c \in D /\ ClosedUnder(D, P, s) /\ D \cap K = {}
           One(v, c) == \E y \in K :
              /\ w[<<v, c>>] = id[y]
              /\ \A D \in SUBSET I : c \in D /\ ClosedUnder(D, P, s) => y \in D
              /\ \E D \in SUBSET I : c \in D /\ ClosedUnder(D, P, s) /\ D \cap K = {y}
           Behind(v, c) == v \subseteq P /\ \A x \in v : s[x] \in v \cup {c}
           Left(v) == Cardinality(I \ v)
<1>1. ASSUME NEW v \in SUBSET I, NEW c \in I
      PROVE  w[<<v, c>>] = IF c \in v THEN -1
                           ELSE IF c \in K THEN id[c]
                           ELSE IF c \in P THEN w[<<v \cup {c}, s[c]>>] ELSE -1
  <2>1. <<v, c>> \in (SUBSET I) \X I
    OBVIOUS
  <2> QED BY <2>1 DEF WalksBy
<1>6. ASSUME NEW v \in SUBSET I
      PROVE  Left(v) \in Nat /\ Left(v) <= Cardinality(I) /\ \A c \in I \ v : Left(v \cup {c}) = Left(v) - 1
  <2>1. (I \ v) \in SUBSET I
    OBVIOUS
  <2>2. IsFiniteSet(I \ v) /\ Left(v) <= Cardinality(I)
    BY <2>1, FS_Subset
  <2>3. ASSUME NEW c \in I \ v PROVE Left(v \cup {c}) = Left(v) - 1
    <3>1. Cardinality((I \ v) \ {c}) = Cardinality(I \ v) - 1
      BY <2>2, FS_RemoveElement
    <3>2. I \ (v \cup {c}) = (I \ v) \ {c}
      OBVIOUS
    <3> QED BY <3>1, <3>2
  <2> QED BY <2>2, <2>3, FS_CardinalityType
<1> HIDE DEF Left
<1> DEFINE S == {n \in Nat : \A v \in SUBSET I, c \in I :
                   Left(v) < n /\ Behind(v, c) => None(v, c) \/ One(v, c)}
<1>7. 0 \in S
  <2>1. \A v \in SUBSET I : ~(Left(v) < 0)
    BY <1>6
  <2> QED BY <2>1
<1>8. ASSUME NEW n \in Nat, n \in S PROVE n + 1 \in S
  <2>0. ASSUME NEW v \in SUBSET I, NEW c \in I, Left(v) < n + 1, Behind(v, c)
        PROVE  None(v, c) \/ One(v, c)
    <3>1. CASE c \in v
      <4>1. w[<<v, c>>] = -1
        BY <1>1, <3>1
      <4>2. c \in v /\ ClosedUnder(v, P, s) /\ v \cap K = {}
        BY <2>0, <3>1 DEF ClosedUnder
      <4> QED BY <4>1, <4>2
    <3>2. CASE c \notin v /\ c \in K
      <4>1. w[<<v, c>>] = id[c]
        BY <1>1, <3>2
      <4>2. {c} \in SUBSET I /\ ClosedUnder({c}, P, s) /\ {c} \cap K = {c}
        BY <3>2 DEF ClosedUnder
      <4> QED BY <3>2, <4>1, <4>2
    <3>3. CASE c \notin v /\ c \notin K /\ c \notin P
      <4>1. w[<<v, c>>] = -1
        BY <1>1, <3>3
      <4>2. {c} \in SUBSET I /\ ClosedUnder({c}, P, s) /\ {c} \cap K = {}
        BY <3>3 DEF ClosedUnder
      <4> QED BY <4>1, <4>2
    <3>4. CASE c \notin v /\ c \notin K /\ c \in P
      <4>1. w[<<v, c>>] = w[<<v \cup {c}, s[c]>>] /\ s[c] \in I /\ v \cup {c} \in SUBSET I
        BY <1>1, <3>4
      <4>2. Left(v \cup {c}) < n
        BY <1>6, <2>0, <3>4
      <4>3. Behind(v \cup {c}, s[c])
        BY <2>0, <3>4
      <4>4. None(v \cup {c}, s[c]) \/ One(v \cup {c}, s[c])
        <5> HIDE DEF None, One, Behind
        <5> QED BY <1>8, <4>1, <4>2, <4>3
      <4>5. ASSUME NEW D \in SUBSET I, s[c] \in D, ClosedUnder(D, P, s)
            PROVE  D \cup {c} \in SUBSET I /\ c \in D \cup {c} /\ ClosedUnder(D \cup {c}, P, s) /\ (D \cup {c}) \cap K = D \cap K
        BY <3>4, <4>5 DEF ClosedUnder
      <4>6. ASSUME None(v \cup {c}, s[c]) PROVE None(v, c)
        <5>1. PICK D \in SUBSET I : s[c] \in D /\ ClosedUnder(D, P, s) /\ D \cap K = {}
          BY <4>6
        <5>2. D \cup {c} \in SUBSET I /\ c \in D \cup {c} /\ ClosedUnder(D \cup {c}, P, s) /\ (D \cup {c}) \cap K = {}
          BY <4>5, <5>1
        <5> QED BY <4>1, <4>6, <5>2
      <4>7. ASSUME One(v \cup {c}, s[c]) PROVE One(v, c)
        <5>1. PICK y \in K :
                /\ w[<<v \cup {c}, s[c]>>] = id[y]
                /\ \A D \in SUBSET I : s[c] \in D /\ ClosedUnder(D, P, s) => y \in D
                /\ \E D \in SUBSET I : s[c] \in D /\ ClosedUnder(D, P, s) /\ D \cap K = {y}
          BY <4>7
        <5>2. PICK D \in SUBSET I : s[c] \in D /\ ClosedUnder(D, P, s) /\ D \cap K = {y}
          BY <5>1
        <5>3. D \cup {c} \in SUBSET I /\ c \in D \cup {c} /\ ClosedUnder(D \cup {c}, P, s) /\ (D \cup {c}) \cap K = {y}
          BY <4>5, <5>2
        <5>4. ASSUME NEW E \in SUBSET I, c \in E, ClosedUnder(E, P, s) PROVE y \in E
          <6>1. s[c] \in E
            BY <3>4, <5>4 DEF ClosedUnder
          <6> QED BY <5>1, <5>4, <6>1
        <5> QED BY <4>1, <5>1, <5>3, <5>4
      <4> QED BY <4>4, <4>6, <4>7
    <3> QED BY <3>1, <3>2, <3>3, <3>4
  <2>1. n + 1 \in Nat
    OBVIOUS
  <2> HIDE DEF None, One, Behind
  <2> QED BY <2>0, <2>1
<1>9. Nat \subseteq S
  <2>1. \A n \in Nat : n \in S => n + 1 \in S
    BY <1>8
  <2> HIDE DEF S
  <2> QED BY <1>7, <2>1, NatSetInduction
<1>10. Left({}) \in Nat /\ Left({}) + 1 \in Nat /\ Left({}) < Left({}) + 1
  BY <1>6
<1>11. Behind({}, z)
  OBVIOUS
<1>12. None({}, z) \/ One({}, z)
  <2> HIDE DEF None, One, Behind
  <2> QED BY <1>9, <1>10, <1>11
<1> QED BY <1>12 DEF LeadsRight

(* The sets that L steps from z reach. *)
Reaches(G, L, I, P, s, z) ==
  /\ G \in [0 .. L -> SUBSET I] /\ G[0] = {z}
  /\ \A k \in 0 .. L - 1 : G[k + 1] = G[k] \cup {s[x] : x \in G[k] \cap P}

(* The least set that z is in and that no step leaves. *)
LeastClosed(C, z, I, P, s) ==
  /\ z \in C /\ ClosedUnder(C, P, s)
  /\ \A D \in SUBSET I : z \in D /\ ClosedUnder(D, P, s) => C \subseteq D

LEMMA ReachRight ==
  ASSUME NEW I, IsFiniteSet(I), NEW P \in SUBSET I, NEW s \in [P -> I], NEW z \in I,
         NEW L \in Nat, Cardinality(I) <= L,
         NEW G, Reaches(G, L, I, P, s, z)
  PROVE  LeastClosed(G[L], z, I, P, s)
<1> DEFINE Goal(k) == /\ z \in G[k]
                      /\ \A D \in SUBSET I : z \in D /\ ClosedUnder(D, P, s) => G[k] \subseteq D
                      /\ ClosedUnder(G[k], P, s) \/ Cardinality(G[k]) >= k + 1
           S == {k \in Nat : k <= L => Goal(k)}
<1> USE DEF Reaches
<1>1. ASSUME NEW k \in 0 .. L PROVE IsFiniteSet(G[k]) /\ Cardinality(G[k]) \in Nat /\ Cardinality(G[k]) <= Cardinality(I)
  BY FS_Subset, FS_CardinalityType
<1>2. 0 \in S
  <2>1. Cardinality({z}) = 1
    BY FS_Singleton
  <2>2. Goal(0)
    BY <2>1
  <2> QED BY <2>2
<1>3. ASSUME NEW k \in Nat, k \in S PROVE k + 1 \in S
  <2> SUFFICES ASSUME k + 1 <= L PROVE Goal(k + 1)
    BY <1>3
  <2>1. k \in 0 .. L - 1 /\ k \in 0 .. L /\ k + 1 \in 0 .. L /\ Goal(k)
    BY <1>3
  <2>2. G[k + 1] = G[k] \cup {s[x] : x \in G[k] \cap P}
    BY <2>1
  <2>3. z \in G[k + 1]
    BY <2>1, <2>2
  <2>4. ASSUME NEW D \in SUBSET I, z \in D, ClosedUnder(D, P, s) PROVE G[k + 1] \subseteq D
    <3>1. G[k] \subseteq D
      BY <2>1, <2>4
    <3> QED BY <2>2, <2>4, <3>1 DEF ClosedUnder
  <2>5. ClosedUnder(G[k + 1], P, s) \/ Cardinality(G[k + 1]) >= (k + 1) + 1
    <3>1. CASE ClosedUnder(G[k], P, s)
      <4>1. G[k + 1] = G[k]
        BY <2>2, <3>1 DEF ClosedUnder
      <4> QED BY <3>1, <4>1
    <3>2. CASE ~ClosedUnder(G[k], P, s)
      <4>1. PICK x \in G[k] \cap P : s[x] \notin G[k]
        BY <3>2 DEF ClosedUnder
      <4>2. Cardinality(G[k] \cup {s[x]}) = Cardinality(G[k]) + 1
        <5>1. IsFiniteSet(G[k]) /\ Cardinality(G[k]) \in Nat
          BY <1>1, <2>1
        <5>2. Cardinality(G[k] \cup {s[x]}) = IF s[x] \in G[k] THEN Cardinality(G[k]) ELSE Cardinality(G[k]) + 1
          <6>1. ASSUME NEW T, IsFiniteSet(T), NEW e
                PROVE  Cardinality(T \cup {e}) = IF e \in T THEN Cardinality(T) ELSE Cardinality(T) + 1
            BY <6>1, FS_AddElement
          <6> QED BY <5>1, <6>1
        <5> QED BY <4>1, <5>2
      <4>3. (G[k] \cup {s[x]}) \in SUBSET G[k + 1]
        BY <2>2, <4>1
      <4>4. Cardinality(G[k] \cup {s[x]}) <= Cardinality(G[k + 1])
        BY <1>1, <2>1, <4>3, FS_Subset
      <4>5. Cardinality(G[k]) >= k + 1 /\ Cardinality(G[k]) \in Nat /\ Cardinality(G[k + 1]) \in Nat
        BY <1>1, <2>1, <3>2
      <4> QED BY <4>2, <4>4, <4>5
    <3> QED BY <3>1, <3>2
  <2> QED BY <2>3, <2>4, <2>5
<1>4. Goal(L)
  <2>1. \A k \in Nat : k \in S => k + 1 \in S
    BY <1>3
  <2>2. Nat \subseteq S
    <3> HIDE DEF S
    <3> QED BY <1>2, <2>1, NatSetInduction
  <2>3. L \in S
    BY <2>2
  <2> HIDE DEF Goal
  <2> QED BY <2>3
<1>5. ~(Cardinality(G[L]) >= L + 1)
  <2>1. L \in 0 .. L /\ Cardinality(I) \in Nat
    BY FS_CardinalityType
  <2> QED BY <1>1, <2>1
<1> QED BY <1>4, <1>5 DEF LeastClosed

-----------------------------------------------------------------------------
(***************************************************************************)
(* The redirects                                                           *)
(***************************************************************************)
(* The redirects of the plan, where each points, and the entries that the  *)
(* chain from z ends in: those in every set that no redirect leads out of. *)
Links == {x \in Index : IsRedirect(x) /\ IsContentPath(x) /\ Dirent(x).to \in Index}
Target == [x \in Links |-> Dirent(x).to]
ChainEnds(z) == {y \in Kept : \A D \in SUBSET Index : z \in D /\ ClosedUnder(D, Links, Target) => y \in D}

LEMMA EndsRight ==
  ASSUME job \in Jobs, NEW z \in Index
  PROVE  Ends(z) = ChainEnds(z)
<1> DEFINE next(S) == S \cup {Dirent(y).to : y \in {x \in S : IsRedirect(x) /\ IsContentPath(x)}}
           L == Len(zim)
           Body(f) == [k \in 0 .. L |-> IF k = 0 THEN {z} ELSE next(f[k - 1] \cap Index)]
           reach == CHOOSE f : f = Body(f)
<1>1. Ends(z) = reach[L] \cap Kept
  BY DEF Ends
<1>2. L \in Nat /\ IsFiniteSet(Index) /\ Cardinality(Index) = L /\ Index \subseteq Int
  <2>1. L \in Nat /\ Index = 0 .. L - 1
    BY JobFacts
  <2> HIDE DEF L
  <2>2. Cardinality(0 .. L - 1) = L /\ IsFiniteSet(0 .. L - 1)
    <3>1. 0 \in Int /\ L - 1 \in Int
      BY <2>1
    <3>2. IsFiniteSet(0 .. L - 1) /\ Cardinality(0 .. L - 1) = IF 0 > L - 1 THEN 0 ELSE (L - 1) - 0 + 1
      BY <3>1, FS_Interval
    <3> QED BY <2>1, <3>2
  <2> QED BY <2>1, <2>2
<1> HIDE DEF L
<1>3. ASSUME NEW S \in SUBSET Index PROVE next(S) \in SUBSET Int /\ next(S) \cap Index = S \cup {Target[x] : x \in S \cap Links}
  <2>1. \A x \in S : Dirent(x).to \in Int
    BY JobFacts DEF EntryRecord
  <2>2. \A x \in S \cap Links : Target[x] = Dirent(x).to /\ Target[x] \in Index /\ IsRedirect(x) /\ IsContentPath(x)
    BY DEF Links, Target
  <2>3. \A x \in S : IsRedirect(x) /\ IsContentPath(x) /\ Dirent(x).to \in Index => x \in Links
    BY DEF Links
  <2>4. next(S) \in SUBSET Int
    BY <1>2, <2>1
  <2>5. next(S) \cap Index \subseteq S \cup {Target[x] : x \in S \cap Links}
    BY <2>2, <2>3
  <2>6. S \cup {Target[x] : x \in S \cap Links} \subseteq next(S) \cap Index
    BY <2>2
  <2> QED BY <2>4, <2>5, <2>6
<1> HIDE DEF next
<1>4. \E f : f = Body(f) /\ f \in [0 .. L -> SUBSET Int]
  <2> DEFINE V == SUBSET Int
             step == [n \in Nat |-> [S \in V |-> next(S \cap Index)]]
  <2>1. \A S \in V : next(S \cap Index) \in V
    BY <1>3
  <2>2. {z} \in V
    BY <1>2
  <2> HIDE DEF V
  <2>3. step \in [Nat -> [V -> V]]
    BY <2>1
  <2>4. \A n \in Nat, S \in V : step[n][S] = next(S \cap Index)
    OBVIOUS
  <2> HIDE DEF step
  <2>5. \E f : Iterates(f, V, {z}, step)
    BY <2>2, <2>3, Recursion
  <2>6. PICK h : h \in [Nat -> V] /\ h[0] = {z} /\ \A n \in Nat : h[n + 1] = step[n][h[n]]
    BY <2>5 DEF Iterates
  <2> DEFINE f == [k \in 0 .. L |-> h[k]]
  <2>7. ASSUME NEW k \in 0 .. L PROVE f[k] = IF k = 0 THEN {z} ELSE next(f[k - 1] \cap Index)
    <3>1. CASE k = 0
      BY <2>6, <3>1
    <3>2. CASE k # 0
      <4>1. k - 1 \in Nat /\ k - 1 \in 0 .. L /\ (k - 1) + 1 = k /\ k \in Nat
        BY <1>2, <3>2
      <4>2. h[k] = step[k - 1][h[k - 1]] /\ h[k - 1] \in V
        BY <2>6, <4>1
      <4> QED BY <2>4, <3>2, <4>1, <4>2
    <3> QED BY <3>1, <3>2
  <2>8. f \in [0 .. L -> V]
    BY <1>2, <2>6
  <2>9. f = [k \in 0 .. L |-> f[k]]
    OBVIOUS
  <2> HIDE DEF f
  <2>10. f = Body(f)
    BY <2>7, <2>9
  <2> QED BY <2>8, <2>10 DEF V
<1>5. reach = Body(reach)
  <2> HIDE DEF Body
  <2> QED BY <1>4
<1> HIDE DEF reach
<1> DEFINE G == [k \in 0 .. L |-> reach[k] \cap Index]
<1>6. \A k \in 0 .. L : reach[k] = IF k = 0 THEN {z} ELSE next(reach[k - 1] \cap Index)
  BY <1>5
<1>7. G \in [0 .. L -> SUBSET Index] /\ G[0] = {z}
  <2>1. G \in [0 .. L -> SUBSET Index]
    OBVIOUS
  <2>2. 0 \in 0 .. L
    BY <1>2
  <2>3. reach[0] = {z}
    BY <1>6, <2>2
  <2> QED BY <2>1, <2>2, <2>3
<1>8. ASSUME NEW k \in 0 .. L - 1 PROVE G[k + 1] = G[k] \cup {Target[x] : x \in G[k] \cap Links}
  <2>1. k \in 0 .. L /\ k + 1 \in 0 .. L /\ k + 1 # 0 /\ (k + 1) - 1 = k
    BY <1>2
  <2>2. reach[k + 1] = next(reach[k] \cap Index)
    BY <1>6, <2>1
  <2>3. G[k] = reach[k] \cap Index /\ G[k + 1] = next(G[k]) \cap Index /\ G[k] \in SUBSET Index
    BY <2>1, <2>2
  <2> HIDE DEF G
  <2> QED BY <1>3, <2>3
<1>9. Links \in SUBSET Index /\ Target \in [Links -> Index]
  BY DEF Links, Target
<1> HIDE DEF G
<1>10. LeastClosed(G[L], z, Index, Links, Target)
  <2>1. Cardinality(Index) <= L
    BY <1>2
  <2>2. \A k \in 0 .. L - 1 : G[k + 1] = G[k] \cup {Target[x] : x \in G[k] \cap Links}
    BY <1>8
  <2>3. Reaches(G, L, Index, Links, Target, z)
    BY <1>7, <2>2 DEF Reaches
  <2> QED BY <1>2, <1>9, <2>1, <2>3, ReachRight
<1>11. G[L] = reach[L] \cap Index /\ G[L] \in SUBSET Index
  BY <1>2 DEF G
<1>12. Kept \subseteq Index
  BY DEF Kept
<1> QED BY <1>1, <1>10, <1>11, <1>12 DEF ChainEnds, LeastClosed

(* Whatever finite set of numbers there is, it can be put into its order. *)
LEMMA SortedExists ==
  ASSUME NEW N \in Nat, NEW S \in SUBSET (0 .. N - 1)
  PROVE  /\ IsFiniteSet(S)
         /\ \E s \in [1 .. Cardinality(S) -> S] :
              \A i, j \in DOMAIN s : i < j => s[i] # s[j] /\ ~(s[j] < s[i])
<1> DEFINE Order(T) == \E s \in [1 .. Cardinality(T) -> T] : \A i, j \in 1 .. Cardinality(T) : i < j => s[i] < s[j]
           M == {n \in Nat : \A T \in SUBSET (0 .. n - 1) : IsFiniteSet(T) /\ Order(T)}
<1>1. 0 \in M
  <2>1. IsFiniteSet({}) /\ Cardinality({}) = 0
    BY FS_EmptySet
  <2>2. [i \in 1 .. 0 |-> 0] \in [1 .. 0 -> {}]
    OBVIOUS
  <2>3. \A T \in SUBSET (0 .. 0 - 1) : T = {}
    OBVIOUS
  <2> QED BY <2>1, <2>2, <2>3
<1>2. ASSUME NEW n \in Nat, n \in M PROVE n + 1 \in M
  <2>1. ASSUME NEW T \in SUBSET (0 .. n) PROVE IsFiniteSet(T) /\ Order(T)
    <3>1. CASE n \notin T
      <4>1. T \in SUBSET (0 .. n - 1)
        BY <3>1
      <4> HIDE DEF Order
      <4> QED BY <1>2, <4>1
    <3>2. CASE n \in T
      <4> DEFINE U == T \ {n}
      <4>1. U \in SUBSET (0 .. n - 1) /\ T = U \cup {n} /\ n \notin U
        BY <3>2
      <4> HIDE DEF U
      <4>2. IsFiniteSet(U) /\ Order(U)
        <5> HIDE DEF Order
        <5> QED BY <1>2, <4>1
      <4>3. PICK c \in Nat : c = Cardinality(U)
        BY <4>2, FS_CardinalityType
      <4>4. IsFiniteSet(T) /\ Cardinality(T) = c + 1
        BY <4>1, <4>2, <4>3, FS_AddElement
      <4>5. PICK s \in [1 .. c -> U] : \A i, j \in 1 .. c : i < j => s[i] < s[j]
        BY <4>2, <4>3
      <4> DEFINE t == [i \in 1 .. c + 1 |-> IF i = c + 1 THEN n ELSE s[i]]
      <4>6. t \in [1 .. c + 1 -> T]
        BY <4>1, <4>3
      <4>7. ASSUME NEW i \in 1 .. c + 1, NEW j \in 1 .. c + 1, i < j PROVE t[i] < t[j]
        <5>1. i \in 1 .. c /\ t[i] = s[i] /\ s[i] \in U
          BY <4>3, <4>7
        <5>2. CASE j = c + 1
          <6>1. t[j] = n
            BY <4>3, <5>2
          <6>2. s[i] \in 0 .. n - 1
            BY <4>1, <5>1
          <6> QED BY <5>1, <6>1, <6>2
        <5>3. CASE j # c + 1
          <6>1. j \in 1 .. c /\ t[j] = s[j]
            BY <4>3, <5>3
          <6> QED BY <4>5, <4>7, <5>1, <6>1
        <5> QED BY <5>2, <5>3
      <4> HIDE DEF t
      <4> QED BY <4>4, <4>6, <4>7
    <3> QED BY <3>1, <3>2
  <2>2. n + 1 \in Nat /\ (n + 1) - 1 = n
    OBVIOUS
  <2> HIDE DEF Order
  <2> QED BY <2>1, <2>2
<1>3. Nat \subseteq M
  <2>1. \A n \in Nat : n \in M => n + 1 \in M
    BY <1>2
  <2> HIDE DEF M
  <2> QED BY <1>1, <2>1, NatSetInduction
<1>4. IsFiniteSet(S) /\ Order(S)
  <2> HIDE DEF Order
  <2> QED BY <1>3
<1>5. PICK s \in [1 .. Cardinality(S) -> S] : \A i, j \in 1 .. Cardinality(S) : i < j => s[i] < s[j]
  BY <1>4
<1>6. Cardinality(S) \in Nat
  BY <1>4, FS_CardinalityType
<1>7. ASSUME NEW i \in DOMAIN s, NEW j \in DOMAIN s, i < j PROVE s[i] # s[j] /\ ~(s[j] < s[i])
  <2>1. s[i] \in Int /\ s[j] \in Int /\ s[i] < s[j]
    <3>1. i \in 1 .. Cardinality(S) /\ j \in 1 .. Cardinality(S)
      BY <1>7
    <3>2. s[i] \in S /\ s[j] \in S
      BY <3>1
    <3>3. s[i] \in Int /\ s[j] \in Int
      <4>1. \A x \in S : x \in Int
        OBVIOUS
      <4> QED BY <3>2, <4>1
    <3>4. s[i] < s[j]
      BY <1>5, <1>7, <3>1
    <3> QED BY <3>3, <3>4
  <2> QED BY <2>1
<1> QED BY <1>4, <1>7

-----------------------------------------------------------------------------
(* The plan lists each redirect that can be followed. *)
LEMMA PlanLinks ==
    ASSUME job \in Jobs
    PROVE  /\ Scan.redirects \in Seq(Links)
           /\ {Scan.redirects[k] : k \in 1 .. Len(Scan.redirects)} = Links
<1> DEFINE links == {z \in {y \in Index : IsContentPath(y)} : IsRedirect(z) /\ Dirent(z).to \in Index}
<1>1. links = Links
  BY DEF Links
<1>2. Scan.redirects = InIndexOrder(links)
  BY DEF Scan
<1> HIDE DEF links
<1>3. Len(zim) \in Nat /\ Links \in SUBSET (0 .. Len(zim) - 1)
  BY JobFacts DEF Links
<1>4. IsFiniteSet(Links) /\ \E s : s \in Sorted(Links, <)
  BY <1>3, SortedExists DEF Sorted
<1>5. InIndexOrder(Links) \in Sorted(Links, <)
  BY <1>4 DEF InIndexOrder
<1>6. PICK s : s = InIndexOrder(Links)
  OBVIOUS
<1>7. s \in [1 .. Cardinality(Links) -> Links] /\ \A i, j \in DOMAIN s : i < j => s[i] # s[j]
  BY <1>5, <1>6 DEF Sorted
<1>8. s \in Seq(Links) /\ {s[i] : i \in 1 .. Len(s)} = Links
  BY <1>4, <1>7, SortedAll
<1> QED BY <1>1, <1>2, <1>6, <1>8

LEMMA LinkFacts ==
    /\ Links \in SUBSET Index /\ Target \in [Links -> Index] /\ Kept \in SUBSET Index /\ Kept \cap Links = {}
    /\ \A z \in Links : Target[z] = Dirent(z).to /\ Dirent(z).to \in Index
BY DEF Links, Target, Kept

(* A chain goes on from the redirect's target. *)
LEMMA ChainStep ==
    ASSUME NEW z \in Links
    PROVE  ChainEnds(z) = ChainEnds(Dirent(z).to)
<1> DEFINE to == Dirent(z).to
<1>1. Target[z] = to /\ z \notin Kept /\ to \in Index /\ z \in Index
  BY LinkFacts
<1>2. ASSUME NEW D \in SUBSET Index, z \in D, ClosedUnder(D, Links, Target) PROVE to \in D
  BY <1>1, <1>2 DEF ClosedUnder
<1>3. ASSUME NEW D \in SUBSET Index, to \in D, ClosedUnder(D, Links, Target)
      PROVE  D \cup {z} \in SUBSET Index /\ z \in D \cup {z} /\ ClosedUnder(D \cup {z}, Links, Target)
  BY <1>1, <1>3 DEF ClosedUnder
<1>4. ASSUME NEW y \in ChainEnds(to) PROVE y \in ChainEnds(z)
  BY <1>2, <1>4 DEF ChainEnds
<1>5. ASSUME NEW y \in ChainEnds(z) PROVE y \in ChainEnds(to)
  <2>1. y \in Kept /\ y # z
    BY <1>1 DEF ChainEnds
  <2>2. ASSUME NEW D \in SUBSET Index, to \in D, ClosedUnder(D, Links, Target) PROVE y \in D
    BY <1>3, <2>1, <2>2 DEF ChainEnds
  <2> QED BY <2>1, <2>2 DEF ChainEnds
<1> QED BY <1>4, <1>5

(* ResolveChain finds the entry at the end of the chain, if there is one. *)
LEMMA ChainRight ==
    ASSUME IInv, pc = "redirects", NEW z \in Index
    PROVE  \/ ResolveChain(z) = NoIndex /\ ChainEnds(z) = {}
           \/ \E y \in Kept : ResolveChain(z) = zimIndexToOzaID[y] /\ zimIndexToOzaID[y] \in Nat /\ ChainEnds(z) = {y}
<1> DEFINE planned == {plan.redirects[i] : i \in DOMAIN plan.redirects}
           A == (SUBSET Index) \X Index
           Turn(w, at) == IF at[2] \in at[1] THEN NoIndex
                          ELSE IF at[2] \in DOMAIN zimIndexToOzaID THEN zimIndexToOzaID[at[2]]
                          ELSE IF at[2] \in planned THEN w[<<at[1] \cup {at[2]}, Dirent(at[2]).to>>]
                          ELSE NoIndex
           Body(w) == [at \in A |-> Turn(w, at)]
           walk == CHOOSE w : w = Body(w)
<1>1. ResolveChain(z) = walk[<<{}, z>>]
  BY DEF ResolveChain
<1>2. planned = Links
  <2>1. job \in Jobs /\ plan.redirects = Scan.redirects
    BY DEF IInv, PlanInv
  <2>2. DOMAIN plan.redirects = 1 .. Len(plan.redirects)
    BY <2>1, PlanLinks
  <2> QED BY <2>1, <2>2, PlanLinks
<1>3. DOMAIN zimIndexToOzaID = Kept /\ \A y \in Kept : zimIndexToOzaID[y] \in Nat
  <2>1. DOMAIN zimIndexToOzaID = Kept /\ BufferSet = Kept /\ Numbered /\ Len(buffered) \in Nat
    BY KeptFacts DEF IInv, PlanInv, BufferInv, Numbered
  <2>2. \A i \in 1 .. Len(buffered) : zimIndexToOzaID[buffered[i].zimIndex] = i - 1
    BY <2>1 DEF IInv, BufferInv
  <2> QED BY <2>1, <2>2 DEF BufferSet
<1>4. IsFiniteSet(Index)
  BY JobFacts DEF IInv, PlanInv
<1> DEFINE id == [y \in Kept |-> zimIndexToOzaID[y]]
<1>5. id \in [Kept -> Nat] /\ id \in [Kept -> Int] /\ NoIndex \in Int /\ NoIndex = -1
  BY <1>3 DEF NoIndex
<1>6. ASSUME NEW w, NEW at \in A
      PROVE  Turn(w, at) = IF at[2] \in at[1] THEN -1
                    ELSE IF at[2] \in Kept THEN id[at[2]]
                    ELSE IF at[2] \in Links THEN w[<<at[1] \cup {at[2]}, Target[at[2]]>>] ELSE -1
  BY <1>2, <1>3, <1>5, LinkFacts
<1> HIDE DEF id
<1>7. \E w : w = Body(w)
  <2>1. PICK w : w \in [(SUBSET Index) \X Index -> Int] /\ WalksBy(w, Index, Links, Kept, Target, id)
    BY <1>4, <1>5, LinkFacts, WalkExists
  <2>2. \A at \in A : w[at] = Turn(w, at)
    BY <1>6, <2>1 DEF WalksBy
  <2>2a. w \in [A -> Int]
    BY <2>1
  <2> HIDE DEF A, Turn
  <2>3. w = Body(w)
    BY <2>2, <2>2a
  <2> QED BY <2>3
<1>8. walk = Body(walk)
  <2> HIDE DEF Body
  <2> QED BY <1>7
<1> HIDE DEF walk
<1>9. \A at \in A : walk[at] = Turn(walk, at)
  <2> HIDE DEF A, Turn
  <2> QED BY <1>8
<1>10. WalksBy(walk, Index, Links, Kept, Target, id)
  <2>1. \A at \in A : walk[at] = IF at[2] \in at[1] THEN -1
                    ELSE IF at[2] \in Kept THEN id[at[2]]
                    ELSE IF at[2] \in Links THEN walk[<<at[1] \cup {at[2]}, Target[at[2]]>>] ELSE -1
    <3> HIDE DEF A, Turn
    <3> QED BY <1>6, <1>9
  <2> QED BY <2>1 DEF WalksBy
<1>11. LeadsRight(walk[<<{}, z>>], z, Index, Links, Kept, Target, id)
  BY <1>4, <1>5, <1>10, LinkFacts, WalkRight
<1>12. \A y \in Kept : id[y] = zimIndexToOzaID[y]
  BY DEF id
<1> QED BY <1>1, <1>3, <1>5, <1>11, <1>12 DEF ChainEnds, LeadsRight

-----------------------------------------------------------------------------
(* The redirects handled so far have been given to the writer if, and only *)
(* if, their chains end in an entry, and with the ID of that entry.        *)
LinkRecord == [path : {OzaPath(z) : z \in Index}, target : Nat, from : Index]
RightLink(r) ==
    \E y \in ChainEnds(r.from) : r.path = OzaPath(r.from) /\ r.target = zimIndexToOzaID[y]
Ending(n) == {z \in {plan.redirects[k] : k \in 1 .. n} : ChainEnds(z) # {}}

LinkInv ==
    /\ linkPos \in 0 .. Len(plan.redirects)
    /\ redirects \in Seq(LinkRecord)
    /\ pc \notin {"redirects", "done", "failed"} => redirects = <<>> /\ linkPos = 0
    /\ pc = "done" => linkPos = Len(plan.redirects)
    /\ pc # "failed" =>
         /\ {redirects[i].from : i \in 1 .. Len(redirects)} = Ending(linkPos)
         /\ \A i \in 1 .. Len(redirects) : RightLink(redirects[i])

LEMMA LinkInit == Init => LinkInv
BY DEF Init, LinkInv, Ending

LEMMA ChainFixed ==
    ASSUME UNCHANGED job
    PROVE  \A z : ChainEnds(z)' = ChainEnds(z)
<1>1. Kept' = Kept /\ Links' = Links /\ Index' = Index
  BY JobFixed DEF Kept, Links
<1>2. Target' = Target
  BY <1>1, JobFixed DEF Target
<1> QED BY <1>1, <1>2 DEF ChainEnds, ClosedUnder

LEMMA LinkFixed ==
    ASSUME UNCHANGED job
    PROVE  /\ LinkRecord' = LinkRecord
           /\ UNCHANGED zimIndexToOzaID => \A r : RightLink(r)' = RightLink(r)
           /\ UNCHANGED plan => \A n : Ending(n)' = Ending(n)
<1>1. LinkRecord' = LinkRecord
  <2>1. {OzaPath(z) : z \in Index}' = {OzaPath(z) : z \in Index} /\ Index' = Index
    BY JobFixed
  <2> QED BY <2>1 DEF LinkRecord
<1>2. ASSUME UNCHANGED zimIndexToOzaID, NEW r PROVE RightLink(r)' = RightLink(r)
  BY <1>2, JobFixed, ChainFixed DEF RightLink
<1>3. ASSUME UNCHANGED plan, NEW n PROVE Ending(n)' = Ending(n)
  BY <1>3, ChainFixed DEF Ending
<1> QED BY <1>1, <1>2, <1>3

(* One turn of the loop over the redirects of the plan. *)
LEMMA LinkAdd ==
    ASSUME IInv, LinkInv, AddRedirect
    PROVE  LinkInv'
<1> DEFINE z == plan.redirects[linkPos + 1]
           id == ResolveChain(Dirent(z).to)
<1>1. /\ UNCHANGED <<job, plan, zimIndexToOzaID>> /\ pc = "redirects" /\ linkPos < Len(plan.redirects)
      /\ linkPos' = linkPos + 1
  BY DEF AddRedirect
<1>2. /\ plan.redirects \in Seq(Links) /\ linkPos \in Nat /\ Len(plan.redirects) \in Nat
      /\ linkPos + 1 \in 1 .. Len(plan.redirects)
  BY <1>1, PlanLinks DEF IInv, PlanInv, LinkInv
<1>3. z \in Links /\ z \in Index
  BY <1>2, LinkFacts
<1> HIDE DEF z
<1>4. \/ id = NoIndex /\ ChainEnds(z) = {}
      \/ id # NoIndex /\ id \in Nat /\ \E y \in ChainEnds(z) : id = zimIndexToOzaID[y]
  <2>1. Dirent(z).to \in Index /\ ChainEnds(z) = ChainEnds(Dirent(z).to)
    BY <1>3, LinkFacts, ChainStep
  <2> QED BY <1>1, <2>1, ChainRight DEF NoIndex
<1> HIDE DEF id
<1>5. redirects \in Seq(LinkRecord)
  BY DEF LinkInv
<1>6. LinkRecord' = LinkRecord /\ (\A r : RightLink(r)' = RightLink(r)) /\ \A n : Ending(n)' = Ending(n)
  BY <1>1, LinkFixed
<1>7. Ending(linkPos + 1) = Ending(linkPos) \cup (IF ChainEnds(z) # {} THEN {z} ELSE {})
  <2>1. 1 .. linkPos + 1 = 1 .. linkPos \cup {linkPos + 1}
    BY <1>2
  <2> QED BY <2>1 DEF z, Ending
<1>8. /\ {redirects[i].from : i \in 1 .. Len(redirects)} = Ending(linkPos)
      /\ \A i \in 1 .. Len(redirects) : RightLink(redirects[i])
  BY <1>1 DEF LinkInv
<1>9. linkPos' \in 0 .. Len(plan.redirects)
  BY <1>1, <1>2
<1>10. ASSUME redirects' \in Seq(LinkRecord), pc' = "redirects",
              {redirects'[i].from : i \in 1 .. Len(redirects')} = Ending(linkPos + 1),
              \A i \in 1 .. Len(redirects') : RightLink(redirects'[i])
       PROVE  LinkInv'
  BY <1>1, <1>6, <1>9, <1>10 DEF LinkInv
<1>11. CASE id = NoIndex /\ UNCHANGED <<redirects, pc>>
  <2>1. ChainEnds(z) = {}
    BY <1>4, <1>11
  <2> QED BY <1>1, <1>5, <1>7, <1>8, <1>10, <1>11, <2>1
<1>12. CASE pc' = "failed" /\ UNCHANGED redirects
  BY <1>1, <1>5, <1>6, <1>9, <1>12 DEF LinkInv
<1> DEFINE rec == [path |-> OzaPath(z), target |-> id, from |-> z]
<1>13. CASE id # NoIndex /\ redirects' = Append(redirects, rec) /\ UNCHANGED pc
  <2>1. rec \in LinkRecord /\ RightLink(rec) /\ rec.from = z
    BY <1>3, <1>4, <1>13 DEF LinkRecord, RightLink
  <2>2. ChainEnds(z) # {}
    BY <1>4, <1>13
  <2> HIDE DEF rec
  <2>3. /\ redirects' \in Seq(LinkRecord) /\ Len(redirects') = Len(redirects) + 1 /\ Len(redirects) \in Nat
        /\ \A k \in 1 .. Len(redirects) : redirects'[k] = redirects[k]
        /\ redirects'[Len(redirects) + 1] = rec
    BY <1>5, <1>13, <2>1, AppendFacts
  <2>4. 1 .. Len(redirects') = 1 .. Len(redirects) \cup {Len(redirects) + 1}
    BY <2>3
  <2>5. {redirects'[i].from : i \in 1 .. Len(redirects')}
          = {redirects[i].from : i \in 1 .. Len(redirects)} \cup {z}
    BY <2>1, <2>3, <2>4
  <2>6. \A i \in 1 .. Len(redirects') : RightLink(redirects'[i])
    BY <1>8, <2>1, <2>3, <2>4
  <2> QED BY <1>1, <1>7, <1>8, <1>10, <1>13, <2>2, <2>3, <2>5, <2>6
<1> QED BY <1>11, <1>12, <1>13 DEF AddRedirect, Fail, id, z

LEMMA LinkNext == IInv /\ LinkInv /\ [Next]_vars => LinkInv'
<1> SUFFICES ASSUME IInv, LinkInv, [Next]_vars PROVE LinkInv'
  OBVIOUS
<1>1. ASSUME UNCHANGED <<job, plan, redirects, linkPos, zimIndexToOzaID>>,
             pc' = pc \/ pc' = "failed" \/ (pc \notin {"redirects", "done", "failed"} /\ pc' # "done")
                \/ (pc = "redirects" /\ pc' = "done" /\ linkPos = Len(plan.redirects))
      PROVE  LinkInv'
  <2>1. LinkRecord' = LinkRecord /\ (\A r : RightLink(r)' = RightLink(r)) /\ \A n : Ending(n)' = Ending(n)
    BY <1>1, LinkFixed
  <2> QED BY <1>1, <2>1 DEF LinkInv
<1>2. ASSUME pc \notin {"redirects", "done", "failed"}, pc' \notin {"redirects", "done"},
             UNCHANGED <<redirects, linkPos, job>>, Len(plan.redirects)' \in Nat
      PROVE  LinkInv'
  <2>1. redirects = <<>> /\ linkPos = 0
    BY <1>2 DEF LinkInv
  <2> QED BY <1>2, <2>1 DEF LinkInv, Ending
<1>3. CASE ScanAndPlan
  <2>1. plan'.redirects = Scan.redirects /\ job \in Jobs
    BY <1>3 DEF ScanAndPlan, IInv, PlanInv
  <2>2. Len(plan.redirects)' \in Nat
    BY <2>1, PlanLinks
  <2> QED BY <1>2, <1>3, <2>2 DEF ScanAndPlan
<1>4. CASE ReadEntry
  BY <1>1, <1>4 DEF ReadEntry, mainVars, Fail
<1>5. CASE SortAndNumber
  <2>1. Len(plan.redirects)' \in Nat
    BY <1>5, PlanLinks DEF SortAndNumber, mainVars, IInv, PlanInv
  <2> QED BY <1>2, <1>5, <2>1 DEF SortAndNumber, mainVars
<1>6. CASE AddNext \/ AddPending \/ EntriesDone \/ Receive
  BY <1>1, <1>6 DEF AddNext, AddPending, EntriesDone, Receive, mainVars, Fail
<1>7. CASE Produce \/ CloseResults \/ \E w \in Worker : Take(w) \/ Send(w)
  BY <1>1, <1>7 DEF Produce, CloseResults, Take, Send, workerFrame, mainVars
<1>8. CASE Finish
  BY <1>1, <1>8 DEF Finish, mainVars, Fail
<1>9. CASE UNCHANGED vars
  BY <1>1, <1>9 DEF vars
<1> QED BY <1>3, <1>4, <1>5, <1>6, <1>7, <1>8, <1>9, LinkAdd DEF Next

LEMMA RedirectsInv == IInv /\ LinkInv => RedirectsRight
<1> SUFFICES ASSUME IInv, LinkInv, pc = "done" PROVE
        /\ {redirects[i].from : i \in DOMAIN redirects}
              = {z \in Index : IsRedirect(z) /\ IsContentPath(z) /\ Ends(z) # {}}
        /\ \A i \in DOMAIN redirects :
              \E y \in Ends(redirects[i].from) :
                  /\ redirects[i].path = OzaPath(redirects[i].from)
                  /\ entries[redirects[i].target + 1].content = Bytes(y)
  BY DEF RedirectsRight
<1>1. redirects \in Seq(LinkRecord)
  BY DEF LinkInv
<1>2. DOMAIN redirects = 1 .. Len(redirects) /\ \A i \in 1 .. Len(redirects) : redirects[i].from \in Index
  <2>1. DOMAIN redirects = 1 .. Len(redirects)
    BY <1>1
  <2>2. \A i \in 1 .. Len(redirects) : redirects[i] \in LinkRecord
    BY <1>1
  <2> QED BY <2>1, <2>2 DEF LinkRecord
<1>3. job \in Jobs /\ plan.redirects = Scan.redirects /\ linkPos = Len(plan.redirects)
  BY DEF IInv, PlanInv, LinkInv
<1>4. {plan.redirects[k] : k \in 1 .. linkPos} = Links
  BY <1>3, PlanLinks
<1>5. ASSUME NEW z \in Index, IsRedirect(z), IsContentPath(z), z \notin Links PROVE ChainEnds(z) = {}
  <2>1. {z} \in SUBSET Index /\ ClosedUnder({z}, Links, Target) /\ z \notin Kept
    BY <1>5 DEF ClosedUnder, Kept
  <2> QED BY <2>1 DEF ChainEnds
<1>6. {redirects[i].from : i \in DOMAIN redirects}
        = {z \in Index : IsRedirect(z) /\ IsContentPath(z) /\ Ends(z) # {}}
  <2>1. {redirects[i].from : i \in DOMAIN redirects} = {z \in Links : ChainEnds(z) # {}}
    BY <1>2, <1>4 DEF LinkInv, Ending
  <2>2. \A z \in Links : z \in Index /\ IsRedirect(z) /\ IsContentPath(z)
    BY DEF Links
  <2>3. {z \in Links : ChainEnds(z) # {}} = {z \in Index : IsRedirect(z) /\ IsContentPath(z) /\ ChainEnds(z) # {}}
    BY <1>5, <2>2
  <2>4. \A z \in Index : Ends(z) = ChainEnds(z)
    BY <1>3, EndsRight
  <2> QED BY <2>1, <2>3, <2>4
<1>7. ASSUME NEW y \in Kept PROVE zimIndexToOzaID[y] < Len(entries) /\ y \in DOMAIN zimIndexToOzaID
  <2>1. y \in BufferSet /\ Numbered /\ Len(entries) = Len(buffered) /\ y \in DOMAIN zimIndexToOzaID
    BY KeptFacts DEF IInv, PlanInv, Numbered
  <2>2. PICK i \in 1 .. Len(buffered) : y = buffered[i].zimIndex
    BY <2>1 DEF BufferSet
  <2>3. zimIndexToOzaID[y] = i - 1 /\ Len(buffered) \in Nat
    BY <2>1, <2>2 DEF IInv, BufferInv
  <2> QED BY <2>1, <2>3
<1>8. ASSUME NEW i \in DOMAIN redirects
      PROVE  \E y \in Ends(redirects[i].from) :
                  /\ redirects[i].path = OzaPath(redirects[i].from)
                  /\ entries[redirects[i].target + 1].content = Bytes(y)
  <2>1. PICK y \in ChainEnds(redirects[i].from) :
              redirects[i].path = OzaPath(redirects[i].from) /\ redirects[i].target = zimIndexToOzaID[y]
    BY <1>2 DEF LinkInv, RightLink
  <2>2. y \in Kept
    BY DEF ChainEnds
  <2>3. entries[zimIndexToOzaID[y] + 1].content = Bytes(y)
    BY <1>7, <2>2, AddedInv DEF AddedRight
  <2>4. y \in Ends(redirects[i].from)
    BY <1>2, <1>3, EndsRight
  <2> QED BY <2>1, <2>3, <2>4
<1> QED BY <1>6, <1>8

(* A redirect of the archive points to the entry its chain in the ZIM ends *)
(* at, and exactly the chains that end at a kept entry have one            *)
(* (write and resolveChain).                                               *)
THEOREM RedirectsRightAlways == Spec => []RedirectsRight
<1>1. Init => LinkInv
  BY LinkInit
<1>2. IInv /\ LinkInv /\ [Next]_vars => LinkInv'
  BY LinkNext
<1>3. IInv /\ LinkInv => RedirectsRight
  BY RedirectsInv
<1> QED BY <1>1, <1>2, <1>3, IInvAlways, PTL DEF Spec
=============================================================================
