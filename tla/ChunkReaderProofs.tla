--------------------------- MODULE ChunkReaderProofs ---------------------------
(***************************************************************************)
(* Proofs about ChunkReader, for any archives, goroutines and chunks and   *)
(* any cache capacity.                                                     *)
(***************************************************************************)
EXTENDS ChunkReader, TLAPS

(* The list operations of the cache. *)
LEMMA MoveFacts ==
  ASSUME NEW S, NEW s \in Seq(S), NEW i \in DOMAIN s
  PROVE  /\ MoveToFront(s, i) \in Seq(S)
         /\ Len(MoveToFront(s, i)) = Len(s)
         /\ DOMAIN MoveToFront(s, i) = 1 .. Len(s)
         /\ MoveToFront(s, i)[1] = s[i]
         /\ \A k \in 2 .. i : MoveToFront(s, i)[k] = s[k - 1]
         /\ \A k \in i + 1 .. Len(s) : MoveToFront(s, i)[k] = s[k]
<1>1. Len(s) \in Nat /\ i \in 1 .. Len(s) /\ \A k \in 1 .. Len(s) : s[k] \in S
  OBVIOUS
<1> DEFINE t == MoveToFront(s, i)
<1>2. /\ DOMAIN t = 1 .. Len(s)
      /\ \A k \in 1 .. Len(s) :
           t[k] = IF k = 1 THEN s[i] ELSE IF k <= i THEN s[k - 1] ELSE s[k]
  BY DEF MoveToFront
<1>3. \A k \in 1 .. Len(s) : t[k] \in S
  BY <1>1, <1>2
<1>4. t = [k \in 1 .. Len(s) |-> t[k]]
  BY <1>2 DEF MoveToFront
<1>5. t \in Seq(S) /\ Len(t) = Len(s)
  BY <1>1, <1>3, <1>4
<1>6. QED  BY <1>1, <1>2, <1>5

LEMMA SubSeqFacts ==
  ASSUME NEW S, NEW s \in Seq(S), NEW n \in 0 .. Len(s)
  PROVE  /\ SubSeq(s, 1, n) \in Seq(S)
         /\ Len(SubSeq(s, 1, n)) = n
         /\ \A k \in 1 .. n : SubSeq(s, 1, n)[k] = s[k]
OBVIOUS

LEMMA EvictFacts ==
  ASSUME NEW S, NEW s \in Seq(S)
  PROVE  /\ Evicted(s) \in Seq(S)
         /\ Len(Evicted(s)) \in Nat /\ Len(Evicted(s)) <= Len(s)
         /\ Len(s) >= MaxSize => Len(Evicted(s)) = Len(s) - 1
         /\ Len(s) < MaxSize => Len(Evicted(s)) = Len(s)
         /\ \A k \in 1 .. Len(Evicted(s)) : Evicted(s)[k] = s[k]
<1>1. Len(s) \in Nat /\ MaxSize \in Nat \ {0}
  BY ReaderAssumption DEF ReaderAssumption
<1>2. CASE Len(s) >= MaxSize
  <2>1. Evicted(s) = SubSeq(s, 1, Len(s) - 1) /\ Len(s) - 1 \in 0 .. Len(s)
    BY <1>1, <1>2 DEF Evicted
  <2>2. /\ Evicted(s) \in Seq(S) /\ Len(Evicted(s)) = Len(s) - 1
        /\ \A k \in 1 .. Len(s) - 1 : Evicted(s)[k] = s[k]
    BY <2>1, SubSeqFacts
  <2>3. QED  BY <1>1, <1>2, <2>2
<1>3. CASE Len(s) < MaxSize
  BY <1>1, <1>3 DEF Evicted
<1>4. QED  BY <1>1, <1>2, <1>3

LEMMA PushFacts ==
  ASSUME NEW S, NEW s \in Seq(S), NEW c \in S
  PROVE  /\ <<c>> \o s \in Seq(S)
         /\ Len(<<c>> \o s) = Len(s) + 1
         /\ DOMAIN (<<c>> \o s) = 1 .. Len(s) + 1
         /\ (<<c>> \o s)[1] = c
         /\ \A k \in 1 .. Len(s) : (<<c>> \o s)[k + 1] = s[k]
OBVIOUS

-----------------------------------------------------------------------------
(* The cache of archive a with map f and list s, when l are the last uses *)
(* of the chunks, out of n.                                               *)
CacheOK(a, f, s, l, n) ==
  /\ DOMAIN f \subseteq ChunkID
  /\ \A c \in DOMAIN f : f[c] = <<a, c>>
  /\ s \in Seq(ChunkID)
  /\ Range(s) = DOMAIN f
  /\ IsInjective(s)
  /\ Len(s) <= MaxSize
  /\ l \in [ChunkID -> 0 .. n]
  /\ \A i, j \in DOMAIN s : i < j => l[s[j]] < l[s[i]]
  /\ \A c \in ChunkID \ DOMAIN f :
       /\ \A d \in DOMAIN f : l[c] < l[d]
       /\ Len(s) < MaxSize => l[c] = 0

LEMMA HitOK ==
  ASSUME NEW a, NEW f, NEW s, NEW l, NEW n \in Nat, CacheOK(a, f, s, l, n),
         NEW i \in DOMAIN s
  PROVE  CacheOK(a, f, MoveToFront(s, i), [l EXCEPT ![s[i]] = n + 1], n + 1)
<1> DEFINE t == MoveToFront(s, i)
           h == [l EXCEPT ![s[i]] = n + 1]
<1>1. /\ s \in Seq(ChunkID) /\ Len(s) \in Nat /\ DOMAIN s = 1 .. Len(s)
      /\ i \in 1 .. Len(s) /\ i \in Nat
      /\ \A k \in DOMAIN s : s[k] \in ChunkID
      /\ MaxSize \in Nat
  BY ReaderAssumption DEF CacheOK, ReaderAssumption
<1>2. /\ t \in Seq(ChunkID) /\ Len(t) = Len(s) /\ DOMAIN t = 1 .. Len(s)
      /\ t[1] = s[i]
      /\ \A k \in 2 .. i : t[k] = s[k - 1]
      /\ \A k \in i + 1 .. Len(s) : t[k] = s[k]
  BY <1>1, MoveFacts, ZenonT(30)
<1> HIDE DEF t
<1>3. /\ h \in [ChunkID -> 0 .. n + 1]
      /\ h[s[i]] = n + 1
      /\ \A c \in ChunkID : c # s[i] => h[c] = l[c]
      /\ \A c \in ChunkID : l[c] \in 0 .. n
  BY <1>1 DEF CacheOK
<1> HIDE DEF h
<1>4. \A k \in DOMAIN t : \E j \in DOMAIN s : t[k] = s[j]
  <2>1. ASSUME NEW k \in 1 .. Len(s)  PROVE k = 1 \/ k \in 2 .. i \/ k \in i + 1 .. Len(s)
    BY <1>1
  <2>2. \A k \in 2 .. i : k - 1 \in 1 .. Len(s)
    BY <1>1
  <2>3. QED  BY <1>1, <1>2, <2>1, <2>2
<1>5. \A j \in DOMAIN s : \E k \in DOMAIN t : t[k] = s[j]
  <2> SUFFICES ASSUME NEW j \in DOMAIN s  PROVE \E k \in DOMAIN t : t[k] = s[j]
    OBVIOUS
  <2>1. CASE j = i
    BY <1>1, <1>2, <2>1
  <2>2. CASE j < i
    <3>1. j + 1 \in 2 .. i /\ (j + 1) - 1 = j /\ j + 1 \in DOMAIN t
      BY <1>1, <1>2, <2>2
    <3>2. QED  BY <1>2, <3>1
  <2>3. CASE j > i
    BY <1>1, <1>2, <2>3
  <2>4. QED  BY <1>1, <2>1, <2>2, <2>3
<1>6. Range(t) = Range(s)
  BY <1>4, <1>5 DEF Range
<1>7. \A j, k \in DOMAIN t : j < k => t[j] # t[k] /\ h[t[k]] < h[t[j]]
  <2> SUFFICES ASSUME NEW j \in DOMAIN t, NEW k \in DOMAIN t, j < k
               PROVE  t[j] # t[k] /\ h[t[k]] < h[t[j]]
    OBVIOUS
  <2>1. PICK q \in DOMAIN s : q # i /\ t[k] = s[q] /\ (k <= i => q = k - 1) /\ (k > i => q = k)
    <3>1. CASE k <= i
      <4>1. k \in 2 .. i /\ k - 1 \in DOMAIN s /\ k - 1 # i
        BY <1>1, <1>2, <3>1
      <4>2. QED  BY <1>1, <1>2, <3>1, <4>1
    <3>2. CASE k > i
      BY <1>1, <1>2, <3>2
    <3>3. QED  BY <1>1, <1>2, <3>1, <3>2
  <2>2. s[q] # s[i]
    BY <2>1 DEF CacheOK, IsInjective
  <2>3. CASE j = 1
    <3>1. t[j] = s[i] /\ h[t[j]] = n + 1
      BY <1>2, <1>3, <2>3
    <3>2. h[t[k]] = l[s[q]] /\ l[s[q]] \in 0 .. n
      BY <1>1, <1>3, <2>1, <2>2
    <3>3. QED  BY <2>1, <2>2, <3>1, <3>2
  <2>4. CASE j # 1
    <3>1. PICK p \in DOMAIN s : p # i /\ t[j] = s[p] /\ (j <= i => p = j - 1) /\ (j > i => p = j)
      <4>1. CASE j <= i
        <5>1. j \in 2 .. i /\ j - 1 \in DOMAIN s /\ j - 1 # i
          BY <1>1, <1>2, <2>4, <4>1
        <5>2. QED  BY <1>1, <1>2, <4>1, <5>1
      <4>2. CASE j > i
        BY <1>1, <1>2, <4>2
      <4>3. QED  BY <1>1, <1>2, <4>1, <4>2
    <3>2. p < q
      BY <1>1, <1>2, <2>1, <3>1
    <3>3. s[p] # s[i] /\ s[p] # s[q] /\ l[s[q]] < l[s[p]]
      BY <1>1, <2>1, <3>1, <3>2 DEF CacheOK, IsInjective
    <3>4. QED  BY <1>1, <1>3, <2>1, <2>2, <3>1, <3>3
  <2>5. QED  BY <2>3, <2>4
<1>8. IsInjective(t)
  BY <1>1, <1>2, <1>7 DEF IsInjective
<1>9. ASSUME NEW c \in ChunkID \ DOMAIN f
      PROVE  /\ \A d \in DOMAIN f : h[c] < h[d]
             /\ Len(t) < MaxSize => h[c] = 0
  <2>1. c # s[i] /\ h[c] = l[c] /\ l[c] \in 0 .. n
    BY <1>1, <1>3, <1>9 DEF CacheOK, Range
  <2>2. ASSUME NEW d \in DOMAIN f  PROVE h[c] < h[d]
    <3>1. d \in ChunkID /\ l[c] < l[d] /\ l[d] \in 0 .. n
      BY <1>3, <1>9, <2>2 DEF CacheOK
    <3>2. QED  BY <1>3, <2>1, <3>1
  <2>3. QED  BY <1>2, <1>9, <2>1, <2>2 DEF CacheOK
<1>10. QED
  BY <1>2, <1>3, <1>6, <1>7, <1>8, <1>9 DEF CacheOK, t, h

(* What an insertion evicts, and the map it leaves. *)
Out(s) == IF Len(s) >= MaxSize THEN {s[Len(s)]} ELSE {}

WithChunk(a, f, s, c) ==
  [x \in (DOMAIN f \ Out(s)) \union {c} |-> IF x = c THEN <<a, c>> ELSE f[x]]

LEMMA InsertOK ==
  ASSUME NEW a, NEW f, NEW s, NEW l, NEW n \in Nat, CacheOK(a, f, s, l, n),
         NEW c \in ChunkID \ DOMAIN f
  PROVE  CacheOK(a, WithChunk(a, f, s, c), <<c>> \o Evicted(s),
                 [l EXCEPT ![c] = n + 1], n + 1)
<1> DEFINE out == Out(s)
           g == WithChunk(a, f, s, c)
           e == Evicted(s)
           t == <<c>> \o e
           h == [l EXCEPT ![c] = n + 1]
<1>1. /\ s \in Seq(ChunkID) /\ Len(s) \in Nat /\ DOMAIN s = 1 .. Len(s)
      /\ \A k \in DOMAIN s : s[k] \in ChunkID
      /\ MaxSize \in Nat \ {0}
      /\ Len(s) <= MaxSize
      /\ Range(s) = DOMAIN f
  BY ReaderAssumption DEF CacheOK, ReaderAssumption
<1>2. /\ e \in Seq(ChunkID)
      /\ \A k \in 1 .. Len(e) : e[k] = s[k]
  BY <1>1, EvictFacts
<1>2a. /\ Len(e) \in Nat /\ Len(s) \in Nat /\ MaxSize \in Nat
       /\ Len(e) <= Len(s) /\ Len(s) <= MaxSize
       /\ Len(s) >= MaxSize => Len(e) = Len(s) - 1
       /\ Len(s) < MaxSize => Len(e) = Len(s)
  BY <1>1, EvictFacts
<1> HIDE DEF e
<1>2b. ASSUME NEW k \in 1 .. Len(e)
       PROVE  k \in DOMAIN s /\ s[k] \in DOMAIN f /\ s[k] \in ChunkID
  <2>1. k \in 1 .. Len(s)
    BY <1>2a
  <2>2. k \in DOMAIN s
    BY <1>1, <2>1
  <2>3. QED  BY <1>1, <2>2 DEF Range
<1>3. /\ t \in Seq(ChunkID) /\ Len(t) = Len(e) + 1 /\ DOMAIN t = 1 .. Len(e) + 1
      /\ t[1] = c
      /\ \A k \in 1 .. Len(e) : t[k + 1] = s[k]
  BY <1>2, <1>2a, PushFacts
<1> HIDE DEF t
<1>4. /\ h \in [ChunkID -> 0 .. n + 1]
      /\ h[c] = n + 1
      /\ \A x \in ChunkID : x # c => h[x] = l[x]
      /\ \A x \in ChunkID : l[x] \in 0 .. n
  BY DEF CacheOK
<1> HIDE DEF h
<1>5. /\ DOMAIN g = (DOMAIN f \ out) \union {c}
      /\ \A x \in DOMAIN g : g[x] = IF x = c THEN <<a, c>> ELSE f[x]
      /\ Len(s) >= MaxSize => out = {s[Len(s)]}
      /\ Len(s) < MaxSize => out = {}
  BY <1>1 DEF WithChunk, Out
<1> HIDE DEF g, out
(* The list holds c and the elements that were not evicted. *)
<1>6. \A k \in 1 .. Len(e) : s[k] \in DOMAIN f \ out /\ s[k] # c
  <2> SUFFICES ASSUME NEW k \in 1 .. Len(e)  PROVE s[k] \in DOMAIN f \ out /\ s[k] # c
    OBVIOUS
  <2>1. k \in DOMAIN s /\ s[k] \in DOMAIN f
    BY <1>2b
  <2>2. s[k] \notin out
    <3>1. CASE Len(s) >= MaxSize
      <4>1. k # Len(s) /\ Len(s) \in DOMAIN s
        BY <1>2a, <3>1
      <4>2. s[k] # s[Len(s)]
        BY <2>1, <4>1 DEF CacheOK, IsInjective
      <4>3. QED  BY <1>5, <3>1, <4>2
    <3>2. CASE Len(s) < MaxSize
      BY <1>5, <3>2
    <3>3. QED  BY <1>1, <3>1, <3>2
  <2>3. QED  BY <2>1, <2>2
<1>7. \A x \in DOMAIN f \ out : \E k \in 1 .. Len(e) : s[k] = x
  <2> SUFFICES ASSUME NEW x \in DOMAIN f \ out  PROVE \E k \in 1 .. Len(e) : s[k] = x
    OBVIOUS
  <2>1. PICK k \in DOMAIN s : s[k] = x
    BY <1>1 DEF Range
  <2>2. k \in 1 .. Len(e)
    <3>1. CASE Len(s) >= MaxSize
      BY <1>1, <1>2a, <1>5, <2>1, <3>1
    <3>2. CASE Len(s) < MaxSize
      BY <1>1, <1>2a, <2>1, <3>2
    <3>3. QED  BY <1>1, <3>1, <3>2
  <2>3. QED  BY <2>1, <2>2
<1>8. Range(t) = DOMAIN g
  <2>1. \A k \in DOMAIN t : t[k] \in DOMAIN g
    <3> SUFFICES ASSUME NEW k \in DOMAIN t, k # 1  PROVE t[k] \in DOMAIN g
      BY <1>3, <1>5
    <3>1. k - 1 \in 1 .. Len(e) /\ (k - 1) + 1 = k
      BY <1>2a, <1>3
    <3>2. t[k] = s[k - 1]
      BY <1>3, <3>1
    <3>3. QED  BY <1>5, <1>6, <3>1, <3>2
  <2>2. \A x \in DOMAIN g : \E k \in DOMAIN t : t[k] = x
    <3> SUFFICES ASSUME NEW x \in DOMAIN f \ out  PROVE \E k \in DOMAIN t : t[k] = x
      BY <1>2a, <1>3, <1>5
    <3>1. PICK k \in 1 .. Len(e) : s[k] = x
      BY <1>7
    <3>2. k + 1 \in DOMAIN t /\ t[k + 1] = x
      BY <1>2a, <1>3, <3>1
    <3>3. QED  BY <3>2
  <2>3. QED  BY <2>1, <2>2 DEF Range
<1>9. \A j, k \in DOMAIN t : j < k => t[j] # t[k] /\ h[t[k]] < h[t[j]]
  <2> SUFFICES ASSUME NEW j \in DOMAIN t, NEW k \in DOMAIN t, j < k
               PROVE  t[j] # t[k] /\ h[t[k]] < h[t[j]]
    OBVIOUS
  <2>1. k - 1 \in 1 .. Len(e) /\ (k - 1) + 1 = k /\ k - 1 \in DOMAIN s
    BY <1>2a, <1>3
  <2>2. t[k] = s[k - 1] /\ t[k] # c /\ t[k] \in ChunkID
    BY <1>1, <1>3, <1>6, <2>1
  <2>3. CASE j = 1
    <3>1. t[j] = c /\ h[t[j]] = n + 1
      BY <1>3, <1>4, <2>3
    <3>2. h[t[k]] = l[t[k]] /\ l[t[k]] \in 0 .. n
      BY <1>4, <2>2
    <3>3. QED  BY <2>2, <3>1, <3>2
  <2>4. CASE j # 1
    <3>1. /\ j - 1 \in 1 .. Len(e) /\ (j - 1) + 1 = j /\ j - 1 \in DOMAIN s
          /\ j - 1 < k - 1
      BY <1>2a, <1>3, <2>1, <2>4
    <3>2. t[j] = s[j - 1] /\ t[j] # c /\ t[j] \in ChunkID
      BY <1>1, <1>3, <1>6, <3>1
    <3>3. t[j] # t[k] /\ l[t[k]] < l[t[j]]
      BY <2>1, <2>2, <3>1, <3>2 DEF CacheOK, IsInjective
    <3>4. QED  BY <1>4, <2>2, <3>2, <3>3
  <2>5. QED  BY <2>3, <2>4
<1>10. IsInjective(t)
  BY <1>2a, <1>3, <1>9 DEF IsInjective
<1>11. ASSUME NEW x \in ChunkID \ DOMAIN g
       PROVE  /\ \A d \in DOMAIN g : h[x] < h[d]
              /\ Len(t) < MaxSize => h[x] = 0
  <2>1. x # c /\ h[x] = l[x] /\ l[x] \in 0 .. n /\ (x \in out \/ x \notin DOMAIN f)
    BY <1>4, <1>5, <1>11
  <2>2. ASSUME NEW k \in 1 .. Len(e)  PROVE l[x] < l[s[k]]
    <3>1. k \in DOMAIN s /\ s[k] \in DOMAIN f
      BY <1>2b
    <3>2. CASE x \notin DOMAIN f
      BY <1>11, <3>1, <3>2 DEF CacheOK
    <3>3. CASE x \in out
      <4>1. Len(s) >= MaxSize /\ x = s[Len(s)]
        BY <1>1, <1>5, <3>3
      <4>2. Len(s) \in DOMAIN s /\ k < Len(s)
        BY <1>2a, <4>1
      <4>3. QED  BY <3>1, <4>1, <4>2 DEF CacheOK
    <3>4. QED  BY <2>1, <3>2, <3>3
  <2>3. ASSUME NEW d \in DOMAIN g  PROVE h[x] < h[d]
    <3>1. CASE d = c
      BY <1>4, <2>1, <3>1
    <3>2. CASE d # c
      <4>1. PICK k \in 1 .. Len(e) : s[k] = d
        BY <1>5, <1>7, <2>3, <3>2
      <4>2. d \in ChunkID
        BY <1>2b, <4>1
      <4>3. QED  BY <1>4, <2>1, <2>2, <3>2, <4>1, <4>2
    <3>3. QED  BY <3>1, <3>2
  <2>4. ASSUME Len(t) < MaxSize  PROVE h[x] = 0
    <3>1. Len(s) < MaxSize /\ out = {}
      BY <1>2a, <1>3, <1>5, <2>4
    <3>2. QED  BY <1>11, <2>1, <3>1 DEF CacheOK
  <2>5. QED  BY <2>3, <2>4
<1>12. \A x \in DOMAIN g : x \in ChunkID /\ g[x] = <<a, x>>
  BY <1>5 DEF CacheOK
<1>13. Len(t) <= MaxSize
  BY <1>2a, <1>3
<1>14. QED
  BY <1>3, <1>4, <1>8, <1>9, <1>10, <1>11, <1>12, <1>13 DEF CacheOK, g, t, h, e

LEMMA LaterOK ==
  ASSUME NEW a, NEW f, NEW s, NEW l, NEW n \in Nat, CacheOK(a, f, s, l, n)
  PROVE  CacheOK(a, f, s, l, n + 1)
<1>1. l \in [ChunkID -> 0 .. n + 1]
  BY DEF CacheOK
<1>2. QED  BY <1>1 DEF CacheOK

-----------------------------------------------------------------------------
(* The inductive invariant: the caches, and the calls.  A call that has   *)
(* decoded a chunk, or has returned without error, holds the right chunk: *)
(* without that, put could spoil a cache.                                 *)
Caches ==
  /\ DOMAIN m = Archive
  /\ lru \in [Archive -> Seq(ChunkID)]
  /\ last \in [Archive -> [ChunkID -> 0 .. uses]]
  /\ uses \in Nat
  /\ \A a \in Archive : CacheOK(a, m[a], lru[a], last[a], uses)

Right(call) ==
  call.at = "decoded" \/ (call.at = "returned" /\ call.outcome = "ok") =>
    call.data = <<call.archive, call.chunk>>

Calls ==
  /\ DOMAIN rd \subseteq Reader
  /\ \A r \in DOMAIN rd : rd[r] \in Call /\ Right(rd[r])

IInv ==
  /\ Caches
  /\ Calls
  /\ DOMAIN pools \subseteq DictID
  /\ reads \in 0 .. MaxReads

LEMMA InitOK == Init => IInv
<1> SUFFICES ASSUME Init  PROVE IInv
  OBVIOUS
<1>1. ReaderAssumption
  BY ReaderAssumption
<1>2. ASSUME NEW a \in Archive  PROVE CacheOK(a, m[a], lru[a], last[a], uses)
  <2>1. /\ m[a] = [c \in {} |-> <<>>] /\ lru[a] = <<>> /\ uses = 0
        /\ last[a] = [c \in ChunkID |-> 0]
    BY DEF Init
  <2>2. DOMAIN m[a] = {} /\ DOMAIN lru[a] = {} /\ Len(lru[a]) = 0 /\ lru[a] \in Seq(ChunkID)
    BY <2>1
  <2>3. Range(lru[a]) = {} /\ IsInjective(lru[a])
    BY <2>2 DEF Range, IsInjective
  <2>4. last[a] \in [ChunkID -> 0 .. uses] /\ \A c \in ChunkID : last[a][c] = 0
    BY <2>1
  <2>5. MaxSize \in Nat
    BY <1>1 DEF ReaderAssumption
  <2>6. QED  BY <2>2, <2>3, <2>4, <2>5 DEF CacheOK
<1>3. Caches
  BY <1>2 DEF Init, Caches
<1>4. Calls /\ DOMAIN pools \subseteq DictID
  BY DEF Init, Calls
<1>5. reads \in 0 .. MaxReads
  BY <1>1 DEF Init, ReaderAssumption
<1>6. QED  BY <1>3, <1>4, <1>5 DEF IInv

(* A use of a chunk changes the list and the last uses of one cache only.   *)
LEMMA UseOK ==
  ASSUME Caches, NEW a \in Archive, NEW c \in ChunkID, Use(a, c),
         DOMAIN m' = Archive, NEW t \in Seq(ChunkID), lru' = [lru EXCEPT ![a] = t],
         \A b \in Archive \ {a} : m'[b] = m[b],
         CacheOK(a, m'[a], t, [last[a] EXCEPT ![c] = uses + 1], uses + 1)
  PROVE  Caches'
<1>1. uses \in Nat /\ uses' = uses + 1 /\ uses' \in Nat
  BY DEF Caches, Use
<1>2. lru' \in [Archive -> Seq(ChunkID)] /\ lru'[a] = t
      /\ \A b \in Archive \ {a} : lru'[b] = lru[b]
  BY DEF Caches
<1>3. /\ last' = [last EXCEPT ![a][c] = uses + 1]
      /\ last \in [Archive -> [ChunkID -> 0 .. uses]]
  BY DEF Caches, Use
<1>4. /\ DOMAIN last' = Archive
      /\ last'[a] = [last[a] EXCEPT ![c] = uses + 1]
      /\ \A b \in Archive \ {a} : last'[b] = last[b]
      /\ last' = [b \in Archive |-> last'[b]]
  BY <1>3
<1>5. ASSUME NEW b \in Archive  PROVE CacheOK(b, m'[b], lru'[b], last'[b], uses')
  <2>1. CASE b = a
    BY <1>1, <1>2, <1>4, <2>1
  <2>2. CASE b # a
    <3>1. CacheOK(b, m[b], lru[b], last[b], uses + 1)
      BY <1>1, LaterOK DEF Caches
    <3>2. QED  BY <1>1, <1>2, <1>4, <2>2, <3>1
  <2>3. QED  BY <2>1, <2>2
<1>6. \A b \in Archive : last'[b] \in [ChunkID -> 0 .. uses']
  BY <1>5 DEF CacheOK
<1>7. last' \in [Archive -> [ChunkID -> 0 .. uses']]
  BY <1>4, <1>6
<1>8. QED  BY <1>1, <1>2, <1>5, <1>7 DEF Caches

LEMMA HitKeepsCaches ==
  ASSUME Caches, NEW a \in Archive, NEW c, Hit(a, c), UNCHANGED m
  PROVE  Caches'
<1>1. PICK i \in DOMAIN lru[a] :
        lru[a][i] = c /\ lru' = [lru EXCEPT ![a] = MoveToFront(lru[a], i)]
  BY DEF Hit
<1>2. CacheOK(a, m[a], lru[a], last[a], uses) /\ uses \in Nat /\ DOMAIN m = Archive
  BY DEF Caches
<1>3. c \in ChunkID /\ Use(a, c) /\ m' = m
  BY <1>2 DEF Hit, Cached, CacheOK
<1>4. CacheOK(a, m[a], MoveToFront(lru[a], i), [last[a] EXCEPT ![c] = uses + 1], uses + 1)
  BY <1>1, <1>2, HitOK
<1>5. MoveToFront(lru[a], i) \in Seq(ChunkID)
  BY <1>4 DEF CacheOK
<1>6. QED  BY <1>1, <1>2, <1>3, <1>4, <1>5, UseOK

LEMMA InsertKeepsCaches ==
  ASSUME Caches, NEW a \in Archive, NEW c \in ChunkID \ Cached(a), Insert(a, c, <<a, c>>)
  PROVE  Caches'
<1> DEFINE g == WithChunk(a, m[a], lru[a], c)
           t == <<c>> \o Evicted(lru[a])
<1>1. CacheOK(a, m[a], lru[a], last[a], uses) /\ uses \in Nat /\ DOMAIN m = Archive
  BY DEF Caches
<1>2. CacheOK(a, g, t, [last[a] EXCEPT ![c] = uses + 1], uses + 1)
  BY <1>1, InsertOK DEF Cached
<1>3. lru' = [lru EXCEPT ![a] = t] /\ m' = [m EXCEPT ![a] = g] /\ Use(a, c)
  BY DEF Insert, WithChunk, Out, Cached
<1> HIDE DEF g, t
<1>4. DOMAIN m' = Archive /\ m'[a] = g /\ \A b \in Archive \ {a} : m'[b] = m[b]
  BY <1>1, <1>3
<1>5. t \in Seq(ChunkID)
  BY <1>2 DEF CacheOK
<1>6. QED  BY <1>2, <1>3, <1>4, <1>5, UseOK

LEMMA SameKeepsCaches ==
  ASSUME Caches, UNCHANGED <<m, lru, uses, last>>
  PROVE  Caches'
BY DEF Caches

LEMMA AdvanceKeepsCalls ==
  ASSUME Calls, NEW r \in Reader, NEW call \in Call, Right(call), Advance(r, call)
  PROVE  Calls'
BY DEF Calls, Advance

(* What the steps leave in rd. *)
LEMMA CallFacts ==
  ASSUME Calls, NEW r \in DOMAIN rd
  PROVE  /\ rd[r].archive \in Archive
         /\ rd[r].chunk \in ChunkID
         /\ \A at \in {"read", "pooled"} :
              [rd[r] EXCEPT !.at = at] \in Call /\ Right([rd[r] EXCEPT !.at = at])
         /\ rd[r].at = "decoded" =>
              /\ rd[r].data = <<rd[r].archive, rd[r].chunk>>
              /\ [rd[r] EXCEPT !.at = "returned"] \in Call
              /\ Right([rd[r] EXCEPT !.at = "returned"])
<1>1. rd[r] \in Call /\ Right(rd[r])
  BY DEF Calls
<1>2. QED  BY <1>1 DEF Call, Right

LEMMA FailKeepsCalls ==
  ASSUME Calls, NEW r \in DOMAIN rd, NEW why \in {"io", "codec", "size"}, Fail(r, why)
  PROVE  Calls'
<1> DEFINE call == [at |-> "returned", archive |-> rd[r].archive, chunk |-> rd[r].chunk,
                    outcome |-> why, data |-> <<>>]
<1>1. call \in Call /\ Right(call)
  BY CallFacts DEF Call, Right, Data, Outcome
<1>2. r \in Reader /\ Advance(r, call)
  BY DEF Calls, Fail
<1> HIDE DEF call
<1>3. QED  BY <1>1, <1>2, AdvanceKeepsCalls

LEMMA DecodedKeepsCalls ==
  ASSUME Calls, NEW r \in DOMAIN rd, Decoded(r)
  PROVE  Calls'
<1> DEFINE call == [at |-> "decoded", archive |-> rd[r].archive, chunk |-> rd[r].chunk,
                    outcome |-> "ok", data |-> <<rd[r].archive, rd[r].chunk>>]
<1>1. call \in Call /\ Right(call)
  BY CallFacts DEF Call, Right, Data, Outcome
<1>2. r \in Reader
  BY DEF Calls
<1>3. CASE Fail(r, "size")
  BY <1>3, FailKeepsCalls
<1>4. CASE Advance(r, call)
  <2> HIDE DEF call
  <2>1. QED  BY <1>1, <1>2, <1>4, AdvanceKeepsCalls
<1>5. QED  BY <1>3, <1>4 DEF Decoded

-----------------------------------------------------------------------------
(* One lemma per action. *)

LEMMA GetOK ==
  ASSUME IInv, NEW r \in Reader, NEW a \in Archive, NEW c \in ChunkID, Get(r, a, c)
  PROVE  IInv'
<1>1. reads' \in 0 .. MaxReads
  BY ReaderAssumption DEF Get, IInv, ReaderAssumption
<1>2. Caches /\ Calls /\ DOMAIN pools' \subseteq DictID /\ m' = m
  BY DEF IInv, Get
<1> DEFINE call(at, data) == [at |-> at, archive |-> a, chunk |-> c,
                              outcome |-> "ok", data |-> data]
<1>3. CASE Hit(a, c) /\ Advance(r, call("returned", m[a][c]))
  <2>1. m[a][c] = <<a, c>>
    BY <1>2, <1>3 DEF Hit, Cached, Caches, CacheOK
  <2>2. call("returned", <<a, c>>) \in Call /\ Right(call("returned", <<a, c>>))
    BY DEF Call, Right, Data, Outcome
  <2>3. Advance(r, call("returned", <<a, c>>))
    BY <1>3, <2>1
  <2> HIDE DEF call
  <2>4. Calls'
    BY <1>2, <2>2, <2>3, AdvanceKeepsCalls
  <2>5. Caches'
    BY <1>2, <1>3, HitKeepsCaches
  <2>6. QED  BY <1>1, <1>2, <2>4, <2>5 DEF IInv
<1>4. CASE Advance(r, call("missed", <<>>)) /\ UNCHANGED <<lru, uses, last>>
  <2>1. call("missed", <<>>) \in Call /\ Right(call("missed", <<>>))
    BY DEF Call, Right, Data, Outcome
  <2> HIDE DEF call
  <2>2. Calls'
    BY <1>2, <1>4, <2>1, AdvanceKeepsCalls
  <2>3. Caches'
    BY <1>2, <1>4, SameKeepsCaches
  <2>4. QED  BY <1>1, <1>2, <2>2, <2>3 DEF IInv
<1>5. QED  BY <1>3, <1>4 DEF Get

LEMMA ReadFileOK ==
  ASSUME IInv, NEW r, ReadFile(r)
  PROVE  IInv'
<1>1. /\ Caches /\ Calls /\ r \in DOMAIN rd /\ r \in Reader
      /\ UNCHANGED <<m, lru, pools, reads, uses, last>>
  BY DEF IInv, Calls, ReadFile
<1>2. Calls'
  <2>1. CASE Fail(r, "io")
    BY <1>1, <2>1, FailKeepsCalls
  <2>2. CASE Step(r, "read")
    BY <1>1, <2>2, CallFacts, AdvanceKeepsCalls DEF Step
  <2>3. QED  BY <2>1, <2>2 DEF ReadFile
<1>3. Caches'
  BY <1>1, SameKeepsCaches
<1>4. QED  BY <1>1, <1>2, <1>3 DEF IInv

LEMMA DecodeOK ==
  ASSUME IInv, NEW r, DecodePlain(r) \/ DecodeDict(r)
  PROVE  IInv'
<1>1. /\ Caches /\ Calls /\ r \in DOMAIN rd
      /\ UNCHANGED <<m, lru, pools, reads, uses, last>>
      /\ Decoded(r) \/ Fail(r, "codec")
  BY DEF IInv, DecodePlain, DecodeDict
<1>2. Calls'
  BY <1>1, DecodedKeepsCalls, FailKeepsCalls
<1>3. Caches'
  BY <1>1, SameKeepsCaches
<1>4. QED  BY <1>1, <1>2, <1>3 DEF IInv

LEMMA FindPoolOK ==
  ASSUME IInv, NEW r, FindPool(r)
  PROVE  IInv'
<1>1. /\ Caches /\ Calls /\ r \in DOMAIN rd /\ r \in Reader
      /\ UNCHANGED <<m, lru, reads, uses, last>>
  BY DEF IInv, Calls, FindPool
<1>2. Calls'
  BY <1>1, CallFacts, AdvanceKeepsCalls DEF Step, FindPool
<1>3. Caches'
  BY <1>1, SameKeepsCaches
<1>4. DictOf[rd[r].chunk] \in DictID
  BY <1>1, CallFacts, ReaderAssumption DEF ReaderAssumption, FindPool
<1>5. DOMAIN pools' \subseteq DictID
  BY <1>4 DEF FindPool, IInv
<1>6. QED  BY <1>1, <1>2, <1>3, <1>5 DEF IInv

LEMMA PutOK ==
  ASSUME IInv, NEW r, Put(r)
  PROVE  IInv'
<1>1. /\ Caches /\ Calls /\ r \in DOMAIN rd /\ r \in Reader /\ rd[r].at = "decoded"
      /\ UNCHANGED <<pools, reads>>
      /\ Step(r, "returned")
  BY DEF IInv, Calls, Put
<1>2. Calls'
  BY <1>1, CallFacts, AdvanceKeepsCalls DEF Step
<1> DEFINE a == rd[r].archive
           c == rd[r].chunk
<1>3. a \in Archive /\ c \in ChunkID /\ rd[r].data = <<a, c>>
  BY <1>1, CallFacts
<1>4. Caches'
  <2>1. CASE c \in Cached(a)
    BY <1>1, <2>1, SameKeepsCaches DEF Put
  <2>2. CASE c \notin Cached(a)
    <3>1. Insert(a, c, <<a, c>>)
      BY <1>3, <2>2 DEF Put
    <3> HIDE DEF a, c
    <3>2. QED  BY <1>1, <1>3, <2>2, <3>1, InsertKeepsCaches
  <2>3. QED  BY <2>1, <2>2
<1>5. QED  BY <1>1, <1>2, <1>4 DEF IInv

LEMMA NextOK == IInv /\ [Next]_vars => IInv'
<1> SUFFICES ASSUME IInv, [Next]_vars  PROVE IInv'
  OBVIOUS
<1>1. ASSUME NEW r \in Reader, NEW a \in Archive, NEW c \in ChunkID, Get(r, a, c)
      PROVE  IInv'
  BY <1>1, GetOK
<1>2. ASSUME NEW r \in Reader, ReadFile(r)  PROVE IInv'
  BY <1>2, ReadFileOK
<1>3. ASSUME NEW r \in Reader, DecodePlain(r) \/ DecodeDict(r)  PROVE IInv'
  BY <1>3, DecodeOK
<1>4. ASSUME NEW r \in Reader, FindPool(r)  PROVE IInv'
  BY <1>4, FindPoolOK
<1>5. ASSUME NEW r \in Reader, Put(r)  PROVE IInv'
  BY <1>5, PutOK
<1>6. CASE UNCHANGED vars
  BY <1>6, SameKeepsCaches DEF vars, IInv, Calls
<1>7. QED  BY <1>1, <1>2, <1>3, <1>4, <1>5, <1>6 DEF Next, Terminated

-----------------------------------------------------------------------------
(* A pool that was made stays as it is: a call that has found one will find *)
(* it, and one that failed by a foreign dictionary did so for good.         *)
PoolOK(call) ==
  /\ call.at = "pooled" => DictOf[call.chunk] \in DOMAIN pools
  /\ call.outcome = "codec" => ForeignPool(call)

PoolsOK == \A r \in DOMAIN rd : PoolOK(rd[r])

(* No step changes a pool. *)
PoolsStay == \A d \in DOMAIN pools : d \in DOMAIN pools' /\ pools'[d] = pools[d]

LEMMA PoolOKStays ==
  ASSUME PoolsStay, NEW call, PoolOK(call)
  PROVE  /\ call.at = "pooled" => DictOf[call.chunk] \in DOMAIN pools'
         /\ call.outcome = "codec" =>
              /\ DictOf[call.chunk] \in DOMAIN pools'
              /\ pools'[DictOf[call.chunk]] # Dict[call.archive][DictOf[call.chunk]]
BY DEF PoolsStay, PoolOK, ForeignPool

(* A call goes on: what it holds then must fit the pools of then. *)
LEMMA AdvancePools ==
  ASSUME PoolsOK, PoolsStay, NEW r, NEW call, Advance(r, call),
         call.at = "pooled" => DictOf[call.chunk] \in DOMAIN pools',
         call.outcome = "codec" =>
           /\ DictOf[call.chunk] \in DOMAIN pools'
           /\ pools'[DictOf[call.chunk]] # Dict[call.archive][DictOf[call.chunk]]
  PROVE  PoolsOK'
<1>1. ASSUME NEW q \in DOMAIN rd'
      PROVE  /\ rd'[q].at = "pooled" => DictOf[rd'[q].chunk] \in DOMAIN pools'
             /\ rd'[q].outcome = "codec" =>
                  /\ DictOf[rd'[q].chunk] \in DOMAIN pools'
                  /\ pools'[DictOf[rd'[q].chunk]] # Dict[rd'[q].archive][DictOf[rd'[q].chunk]]
  <2>1. CASE q = r
    <3>1. rd'[q] = call
      BY <2>1 DEF Advance
    <3>2. QED  BY <3>1
  <2>2. CASE q # r
    <3>1. q \in DOMAIN rd /\ rd'[q] = rd[q] /\ PoolOK(rd[q])
      BY <1>1, <2>2 DEF Advance, PoolsOK
    <3>2. QED  BY <3>1, PoolOKStays
  <2>3. QED  BY <2>1, <2>2
<1>2. QED  BY <1>1 DEF PoolsOK, PoolOK, ForeignPool

LEMMA PoolsNext == IInv /\ PoolsOK /\ [Next]_vars => PoolsOK'
<1> SUFFICES ASSUME IInv, PoolsOK, [Next]_vars  PROVE PoolsOK'
  OBVIOUS
<1>1. ASSUME UNCHANGED pools  PROVE PoolsStay
  BY <1>1 DEF PoolsStay
<1>2. ASSUME NEW r \in Reader, NEW a \in Archive, NEW c \in ChunkID, Get(r, a, c)
      PROVE  PoolsOK'
  <2> DEFINE call(at, data) == [at |-> at, archive |-> a, chunk |-> c,
                                outcome |-> "ok", data |-> data]
  <2>1. PoolsStay
    BY <1>1, <1>2 DEF Get
  <2>2. PICK at, data : at \in {"returned", "missed"} /\ Advance(r, call(at, data))
    <3>1. \/ Advance(r, call("returned", m[a][c]))
          \/ Advance(r, call("missed", <<>>))
      BY <1>2 DEF Get
    <3> HIDE DEF call
    <3>2. QED  BY <3>1
  <2>3. call(at, data).at # "pooled" /\ call(at, data).outcome # "codec"
    BY <2>2
  <2> HIDE DEF call
  <2>4. QED  BY <2>1, <2>2, <2>3, AdvancePools
<1>3. ASSUME NEW r \in DOMAIN rd, NEW why \in {"io", "size"}, Fail(r, why), PoolsStay
      PROVE  PoolsOK'
  <2> DEFINE call == [at |-> "returned", archive |-> rd[r].archive, chunk |-> rd[r].chunk,
                      outcome |-> why, data |-> <<>>]
  <2>1. Advance(r, call)
    BY <1>3 DEF Fail
  <2>2. call.at # "pooled" /\ call.outcome # "codec"
    OBVIOUS
  <2> HIDE DEF call
  <2>3. QED  BY <1>3, <2>1, <2>2, AdvancePools
<1>4. ASSUME NEW r \in DOMAIN rd, NEW at \in {"read", "returned"}, Step(r, at), PoolsStay
      PROVE  PoolsOK'
  <2> DEFINE call == [rd[r] EXCEPT !.at = at]
  <2>1. rd[r] \in Call /\ PoolOK(rd[r])
    BY <1>4 DEF IInv, Calls, PoolsOK
  <2>2. /\ call.at = at /\ call.chunk = rd[r].chunk /\ call.archive = rd[r].archive
        /\ call.outcome = rd[r].outcome
    BY <2>1 DEF Call
  <2>3. Advance(r, call)
    BY <1>4 DEF Step
  <2> HIDE DEF call
  <2>4. call.at # "pooled"
    BY <1>4, <2>2
  <2>5. call.outcome = "codec" =>
           /\ DictOf[call.chunk] \in DOMAIN pools'
           /\ pools'[DictOf[call.chunk]] # Dict[call.archive][DictOf[call.chunk]]
    BY <1>4, <2>1, <2>2, PoolOKStays
  <2>6. QED  BY <1>4, <2>3, <2>4, <2>5, AdvancePools
<1>5. ASSUME NEW r \in DOMAIN rd, Decoded(r), PoolsStay  PROVE PoolsOK'
  <2> DEFINE call == [at |-> "decoded", archive |-> rd[r].archive, chunk |-> rd[r].chunk,
                      outcome |-> "ok", data |-> <<rd[r].archive, rd[r].chunk>>]
  <2>1. CASE Fail(r, "size")
    BY <1>3, <1>5, <2>1
  <2>2. CASE Advance(r, call)
    <3>1. call.at # "pooled" /\ call.outcome # "codec"
      OBVIOUS
    <3> HIDE DEF call
    <3>2. QED  BY <1>5, <2>2, <3>1, AdvancePools
  <2>3. QED  BY <1>5, <2>1, <2>2 DEF Decoded
<1>6. ASSUME NEW r \in Reader, ReadFile(r)  PROVE PoolsOK'
  <2>1. PoolsStay /\ r \in DOMAIN rd
    BY <1>1, <1>6 DEF ReadFile
  <2>2. QED  BY <1>3, <1>4, <1>6, <2>1 DEF ReadFile
<1>7. ASSUME NEW r \in Reader, DecodePlain(r)  PROVE PoolsOK'
  BY <1>1, <1>5, <1>7 DEF DecodePlain
<1>8. ASSUME NEW r \in Reader, DecodeDict(r)  PROVE PoolsOK'
  <2>1. PoolsStay /\ r \in DOMAIN rd /\ rd[r].at = "pooled" /\ pools' = pools
    BY <1>1, <1>8 DEF DecodeDict
  <2>2. CASE Decoded(r)
    BY <1>5, <2>1, <2>2
  <2>3. CASE pools[DictOf[rd[r].chunk]] # Dict[rd[r].archive][DictOf[rd[r].chunk]]
             /\ Fail(r, "codec")
    <3> DEFINE call == [at |-> "returned", archive |-> rd[r].archive,
                        chunk |-> rd[r].chunk, outcome |-> "codec", data |-> <<>>]
    <3>1. DictOf[rd[r].chunk] \in DOMAIN pools
      BY <2>1 DEF PoolsOK, PoolOK
    <3>2. Advance(r, call)
      BY <2>3 DEF Fail
    <3>3. call.at # "pooled" /\ call.chunk = rd[r].chunk /\ call.archive = rd[r].archive
      OBVIOUS
    <3> HIDE DEF call
    <3>4. QED  BY <2>1, <2>3, <3>1, <3>2, <3>3, AdvancePools
  <2>4. QED  BY <1>8, <2>2, <2>3 DEF DecodeDict
<1>9. ASSUME NEW r \in Reader, FindPool(r)  PROVE PoolsOK'
  <2> DEFINE call == [rd[r] EXCEPT !.at = "pooled"]
  <2>1. /\ r \in DOMAIN rd /\ rd[r].at = "read" /\ rd[r] \in Call /\ PoolOK(rd[r])
        /\ Step(r, "pooled")
    BY <1>9 DEF FindPool, IInv, Calls, PoolsOK
  <2>2. PoolsStay /\ DictOf[rd[r].chunk] \in DOMAIN pools'
    BY <1>9 DEF FindPool, PoolsStay
  <2>3. /\ call.chunk = rd[r].chunk /\ call.archive = rd[r].archive
        /\ call.outcome = rd[r].outcome
    BY <2>1 DEF Call
  <2>4. Advance(r, call)
    BY <2>1 DEF Step
  <2> HIDE DEF call
  <2>5. call.outcome = "codec" =>
           /\ DictOf[call.chunk] \in DOMAIN pools'
           /\ pools'[DictOf[call.chunk]] # Dict[call.archive][DictOf[call.chunk]]
    BY <2>1, <2>2, <2>3, PoolOKStays
  <2>6. QED  BY <2>2, <2>3, <2>4, <2>5, AdvancePools
<1>10. ASSUME NEW r \in Reader, Put(r)  PROVE PoolsOK'
  BY <1>1, <1>4, <1>10 DEF Put
<1>11. CASE UNCHANGED vars
  BY <1>11 DEF vars, PoolsOK, PoolOK, ForeignPool
<1>12. QED  BY <1>2, <1>6, <1>7, <1>8, <1>9, <1>10, <1>11 DEF Next, Terminated

LEMMA PoolsInductive == Spec => [](IInv /\ PoolsOK)
<1>1. Init => PoolsOK
  BY DEF Init, PoolsOK
<1>2. QED  BY InitOK, NextOK, PoolsNext, <1>1, PTL DEF Spec

LEMMA Consequences == IInv /\ PoolsOK => TypeOK /\ CacheAgrees /\ ReadsRight /\ KeepsRecent
<1> SUFFICES ASSUME IInv, PoolsOK  PROVE TypeOK /\ CacheAgrees /\ ReadsRight /\ KeepsRecent
  OBVIOUS
<1>1. \A a \in Archive : CacheOK(a, m[a], lru[a], last[a], uses)
  BY DEF IInv, Caches
<1>2. ASSUME NEW a \in Archive
      PROVE  Cached(a) \subseteq ChunkID /\ Range(m[a]) \subseteq Data
  <2>1. DOMAIN m[a] \subseteq ChunkID /\ \A c \in DOMAIN m[a] : m[a][c] = <<a, c>>
    BY <1>1 DEF CacheOK
  <2>2. ASSUME NEW c \in DOMAIN m[a]  PROVE m[a][c] \in Data
    <3>1. c \in ChunkID /\ m[a][c] = <<a, c>>
      BY <2>1
    <3>2. <<a, c>> \in Data
      BY <3>1 DEF Data
    <3>3. QED  BY <3>1, <3>2
  <2>3. QED  BY <2>1, <2>2 DEF Cached, Range
<1>3. TypeOK
  BY <1>2 DEF IInv, Caches, Calls, TypeOK
<1>4. CacheAgrees
  BY <1>1 DEF CacheOK, CacheAgrees, Cached
<1>5. ReadsRight
  BY DEF IInv, Calls, Right, ReadsRight, PoolsOK, PoolOK
<1>6. KeepsRecent
  BY <1>1 DEF CacheOK, KeepsRecent, Cached
<1>7. QED  BY <1>3, <1>4, <1>5, <1>6

-----------------------------------------------------------------------------
(* The variables keep their types. *)
THEOREM TypeAlways == Spec => []TypeOK
BY PoolsInductive, Consequences, PTL

(* The map and the list of every cache agree, and no cache grows beyond its *)
(* capacity, whatever readers interleave between a get and its put.         *)
THEOREM CacheAgreesAlways == Spec => []CacheAgrees
BY PoolsInductive, Consequences, PTL

(* A read that succeeds returns the chunk asked for, of the archive it was *)
(* asked of, whichever reader has filled the cache.                        *)
THEOREM ReadsRightAlways == Spec => []ReadsRight
BY PoolsInductive, Consequences, PTL

(* Each cache holds the chunks used last: the order of the list is the *)
(* order of the last uses, and only a full cache evicts.               *)
THEOREM KeepsRecentAlways == Spec => []KeepsRecent
BY PoolsInductive, Consequences, PTL
=============================================================================
