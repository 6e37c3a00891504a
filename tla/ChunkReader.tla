------------------------------ MODULE ChunkReader ------------------------------
(***************************************************************************)
(* oza.Archive.readChunk, as goroutines call it on the open archives of    *)
(* one process: each archive has a chunkCache, an LRU cache behind a       *)
(* mutex; dictionary decoders come from pools that all archives share.     *)
(*                                                                         *)
(* A goroutine holds no lock while it reads and decodes, so another one    *)
(* may use or change the cache between its get and its put.  The archives  *)
(* are intact: what a chunk holds is the pair of its archive and its ID.   *)
(***************************************************************************)
EXTENDS Naturals, Sequences, FiniteSets, Functions

CONSTANTS
  Archive,    \* the open archives
  Reader,     \* the goroutines
  ChunkID,    \* chunk IDs, the same in all archives
  DictID,     \* dictionary IDs, the same in all archives
  DictOf,     \* the dictionary each chunk is compressed with, or 0
  Dict,       \* Dict[a][d]: the bytes of dictionary d of archive a
  Oversize,   \* the chunks beyond maxDecompressedSize
  MaxSize,    \* the capacity of a chunk cache
  MaxReads    \* bound: calls of readChunk

ASSUME ReaderAssumption ==
  /\ 0 \notin DictID
  /\ DictOf \in [ChunkID -> DictID \union {0}]
  /\ \A a \in Archive : DOMAIN Dict[a] = DictID
  /\ Oversize \subseteq ChunkID
  /\ MaxSize \in Nat \ {0}
  /\ MaxReads \in Nat

VARIABLES
  m,       \* m[a]: chunkCache.m, the cached chunks by their ID
  lru,     \* lru[a]: the IDs in chunkCache.lru, most recently used first
  pools,   \* dictPools: the dictionary that each pool's decoders have
  rd,      \* rd[r]: the call of readChunk that r is in, or its last one
  reads,   \* history: how many calls have begun
  uses,    \* history: how often a chunk was found in, or put into, a cache
  last     \* history: the number of the use that was the chunk's last, or 0

vars == <<m, lru, pools, rd, reads, uses, last>>

Data == (Archive \X ChunkID) \union {<<>>}
Outcome == {"ok", "io", "codec", "size"}

(* A call: where it is, and what it has returned or holds so far.          *)
Call == [at : {"returned", "missed", "read", "pooled", "decoded"},
         archive : Archive, chunk : ChunkID, outcome : Outcome, data : Data]

Cached(a) == DOMAIN m[a]

TypeOK ==
  /\ DOMAIN m = Archive
  /\ \A a \in Archive : Cached(a) \subseteq ChunkID /\ Range(m[a]) \subseteq Data
  /\ lru \in [Archive -> Seq(ChunkID)]
  /\ DOMAIN pools \subseteq DictID
  /\ DOMAIN rd \subseteq Reader
  /\ \A r \in DOMAIN rd : rd[r] \in Call
  /\ reads \in 0 .. MaxReads
  /\ uses \in Nat
  /\ last \in [Archive -> [ChunkID -> 0 .. uses]]

Init ==
  /\ m = [a \in Archive |-> [c \in {} |-> <<>>]]
  /\ lru = [a \in Archive |-> <<>>]
  /\ pools = [d \in {} |-> <<>>]
  /\ rd = [r \in {} |-> <<>>]
  /\ reads = 0
  /\ uses = 0
  /\ last = [a \in Archive |-> [c \in ChunkID |-> 0]]

Idle(r) == r \in DOMAIN rd => rd[r].at = "returned"

Advance(r, call) ==
  rd' = [q \in DOMAIN rd \union {r} |-> IF q = r THEN call ELSE rd[q]]

Step(r, at) == Advance(r, [rd[r] EXCEPT !.at = at])

Fail(r, why) ==
  Advance(r, [at |-> "returned", archive |-> rd[r].archive, chunk |-> rd[r].chunk,
              outcome |-> why, data |-> <<>>])

-----------------------------------------------------------------------------
(* The cache. *)

Use(a, c) ==
  /\ uses' = uses + 1
  /\ last' = [last EXCEPT ![a][c] = uses + 1]

(* list.MoveToFront of the element at index i. *)
MoveToFront(s, i) ==
  [k \in 1 .. Len(s) |-> IF k = 1 THEN s[i] ELSE IF k <= i THEN s[k - 1] ELSE s[k]]

(* Mutant: a hit does not move the chunk to the front. *)
MutHitInPlace(a, c) ==
  /\ c \in Cached(a)
  /\ Use(a, c)
  /\ UNCHANGED lru

Hit(a, c) ==
  /\ c \in Cached(a)
  /\ \E i \in DOMAIN lru[a] :
       lru[a][i] = c /\ lru' = [lru EXCEPT ![a] = MoveToFront(lru[a], i)]
  /\ Use(a, c)

(* The call begins: chunkCache.get finds the chunk, or the goroutine goes *)
(* on without the lock.                                                   *)
Get(r, a, c) ==
  /\ Idle(r)
  /\ reads < MaxReads
  /\ reads' = reads + 1
  /\ \/ /\ Hit(a, c)
        /\ Advance(r, [at |-> "returned", archive |-> a, chunk |-> c,
                       outcome |-> "ok", data |-> m[a][c]])
     \/ /\ c \notin Cached(a)
        /\ Advance(r, [at |-> "missed", archive |-> a, chunk |-> c,
                       outcome |-> "ok", data |-> <<>>])
        /\ UNCHANGED <<lru, uses, last>>
  /\ UNCHANGED <<m, pools>>

(* The list without its back element, when the cache is full. *)
Evicted(s) == IF Len(s) >= MaxSize THEN SubSeq(s, 1, Len(s) - 1) ELSE s

(* Mutant: the cache gets what was read from the file, not yet decoded. *)
MutInsertRaw(a, c, data) ==
  LET kept == Evicted(lru[a])
      out == IF Len(lru[a]) >= MaxSize THEN {lru[a][Len(lru[a])]} ELSE {}
  IN  /\ lru' = [lru EXCEPT ![a] = <<c>> \o kept]
      /\ m' = [m EXCEPT ![a] =
                [x \in (Cached(a) \ out) \union {c} |-> IF x = c THEN <<c>> ELSE m[a][x]]]
      /\ Use(a, c)

Insert(a, c, data) ==
  LET kept == Evicted(lru[a])
      out == IF Len(lru[a]) >= MaxSize THEN {lru[a][Len(lru[a])]} ELSE {}
  IN  /\ lru' = [lru EXCEPT ![a] = <<c>> \o kept]
      /\ m' = [m EXCEPT ![a] =
                [x \in (Cached(a) \ out) \union {c} |-> IF x = c THEN data ELSE m[a][x]]]
      /\ Use(a, c)

(* Mutant: put does not look whether the chunk has been cached meanwhile.   *)
MutPutUnchecked(r) ==
  /\ r \in DOMAIN rd /\ rd[r].at = "decoded"
  /\ Insert(rd[r].archive, rd[r].chunk, rd[r].data)
  /\ Step(r, "returned")
  /\ UNCHANGED <<pools, reads>>

(* chunkCache.put; the chunk may have been cached by a concurrent reader.   *)
Put(r) ==
  /\ r \in DOMAIN rd /\ rd[r].at = "decoded"
  /\ LET a == rd[r].archive
         c == rd[r].chunk
     IN  IF c \in Cached(a)
           THEN UNCHANGED <<m, lru, uses, last>>
           ELSE Insert(a, c, rd[r].data)
  /\ Step(r, "returned")
  /\ UNCHANGED <<pools, reads>>

-----------------------------------------------------------------------------
(* Reading and decoding, without a lock. *)

ReadFile(r) ==
  /\ r \in DOMAIN rd /\ rd[r].at = "missed"
  /\ Step(r, "read") \/ Fail(r, "io")
  /\ UNCHANGED <<m, lru, pools, reads, uses, last>>

(* What decompressChunk returns goes on to the size check. *)
Decoded(r) ==
  LET call == rd[r]
  IN  IF call.chunk \in Oversize
        THEN Fail(r, "size")
        ELSE Advance(r, [at |-> "decoded", archive |-> call.archive, chunk |-> call.chunk,
                         outcome |-> "ok", data |-> <<call.archive, call.chunk>>])

DecodePlain(r) ==
  /\ r \in DOMAIN rd /\ rd[r].at = "read"
  /\ DictOf[rd[r].chunk] = 0
  /\ Decoded(r)
  /\ UNCHANGED <<m, lru, pools, reads, uses, last>>

(* decodeZstdDict, under dictPoolsMu: the first use of a dictionary ID in *)
(* the process makes the pool, with the dictionary of that archive.       *)
FindPool(r) ==
  /\ r \in DOMAIN rd /\ rd[r].at = "read"
  /\ LET d == DictOf[rd[r].chunk]
     IN  /\ d # 0
         /\ pools' = [x \in DOMAIN pools \union {d} |->
                        IF x \in DOMAIN pools THEN pools[x] ELSE Dict[rd[r].archive][d]]
  /\ Step(r, "pooled")
  /\ UNCHANGED <<m, lru, reads, uses, last>>

(* Mutant: the decoder ignores the frame's checksum.                        *)
MutDecodeUnchecked(r) ==
  /\ r \in DOMAIN rd /\ rd[r].at = "pooled"
  /\ LET d == DictOf[rd[r].chunk]
     IN  IF pools[d] = Dict[rd[r].archive][d] THEN Decoded(r) ELSE Step(r, "decoded")
  /\ UNCHANGED <<m, lru, pools, reads, uses, last>>

(* A chunk decoded with another dictionary fails the frame's checksum, *)
(* unless the frame happens to use nothing of the dictionary.          *)
DecodeDict(r) ==
  /\ r \in DOMAIN rd /\ rd[r].at = "pooled"
  /\ LET d == DictOf[rd[r].chunk]
     IN  Decoded(r) \/ (pools[d] # Dict[rd[r].archive][d] /\ Fail(r, "codec"))
  /\ UNCHANGED <<m, lru, pools, reads, uses, last>>

-----------------------------------------------------------------------------
Terminated ==
  /\ reads = MaxReads
  /\ \A r \in Reader : Idle(r)
  /\ UNCHANGED vars

Next ==
  \/ \E r \in Reader, a \in Archive, c \in ChunkID : Get(r, a, c)
  \/ \E r \in Reader : \/ ReadFile(r)
                       \/ DecodePlain(r)
                       \/ FindPool(r)
                       \/ DecodeDict(r)
                       \/ Put(r)
  \/ Terminated

Spec == Init /\ [][Next]_vars
-----------------------------------------------------------------------------
(* The map and the list of a cache always agree, whatever readers interleave *)
(* between a miss and its put: each cached chunk is in the list once, and    *)
(* the cache never grows beyond its capacity.                                *)
CacheAgrees ==
  \A a \in Archive :
    /\ Range(lru[a]) = Cached(a)
    /\ IsInjective(lru[a])
    /\ Len(lru[a]) <= MaxSize

(* The pool of the call's dictionary was made with another archive's.        *)
ForeignPool(call) ==
  LET d == DictOf[call.chunk]
  IN  d \in DOMAIN pools /\ pools[d] # Dict[call.archive][d]

(* A read that succeeds returns the chunk that was asked for, of the archive *)
(* it was asked of, from the cache or decoded.  An intact chunk fails to     *)
(* decode only because another archive has used its dictionary's ID first in *)
(* the process, which archive.go:12-16 rules out ("never modified").         *)
ReadsRight ==
  \A r \in DOMAIN rd :
    /\ rd[r].at = "returned" /\ rd[r].outcome = "ok" =>
         rd[r].data = <<rd[r].archive, rd[r].chunk>>
    /\ rd[r].outcome = "codec" => ForeignPool(rd[r])

(* The cache keeps the chunks used last: whatever is not cached was used *)
(* before everything that is, and nothing is evicted before the cache is *)
(* full.                                                                 *)
KeepsRecent ==
  \A a \in Archive, c \in ChunkID :
    c \notin Cached(a) =>
      /\ \A d \in Cached(a) : last[a][c] < last[a][d]
      /\ Len(lru[a]) < MaxSize => last[a][c] = 0
=============================================================================
