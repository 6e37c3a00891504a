--------------------------- MODULE SearchIndexProofs ---------------------------
(***************************************************************************)
(* Proofs about SearchIndex, for any corpus, queries, goroutines and       *)
(* capacity of the cache: the map of the cache stays with its list; a      *)
(* search returns nothing that has not all its grams, although searches    *)
(* change the posting lists that they share; and, unless they have, it     *)
(* misses nothing whose text contains the query.                           *)
(***************************************************************************)
EXTENDS SearchIndex, FiniteSetTheorems, SequenceTheorems, WellFoundedInduction, TLAPS

-----------------------------------------------------------------------------
(* What holds of 0 and goes from n to n + 1 below N holds up to N. *)
LEMMA IntervalInduction ==
  ASSUME NEW N \in Nat, NEW S, 0 \in S, \A n \in 0 .. N - 1 : n \in S => n + 1 \in S
  PROVE  0 .. N \subseteq S
<1> SUFFICES ASSUME (0 .. N) \ S # {}  PROVE FALSE
  OBVIOUS
<1> DEFINE T == (0 .. N) \ S
<1>1. PICK R : R = OpToRel(<, Nat)
  OBVIOUS
<1>2. IsWellFoundedOn(R, Nat)
  BY <1>1, NatLessThanWellFounded
<1>3. T \subseteq Nat /\ T # {}
  OBVIOUS
<1> HIDE DEF T
<1>4. PICK x \in T : \A y \in T : ~ (<<y, x>> \in R)
  BY <1>2, <1>3, WFMin
<1>5. x \in Nat /\ x \in 0 .. N /\ x \notin S /\ x # 0
  BY <1>3 DEF T
<1>6. x - 1 \in 0 .. N - 1 /\ x - 1 \in Nat /\ x - 1 < x /\ (x - 1) + 1 = x
  BY <1>5
<1>7. <<x - 1, x>> \in R
  BY <1>1, <1>5, <1>6 DEF OpToRel
<1>8. x - 1 \in S
  BY <1>4, <1>5, <1>6, <1>7 DEF T
<1>9. QED  BY <1>5, <1>6, <1>8

(* f starts in c and goes on by the steps, up to N. *)
Steps(f, N, V, c, step) ==
  f \in [0 .. N -> V] /\ f[0] = c /\ \A n \in 1 .. N : f[n] = step[n][f[n - 1]]

(* There is always such a function. *)
LEMMA StepsExist ==
  ASSUME NEW N \in Nat, NEW V, NEW c \in V, NEW step \in [1 .. N -> [V -> V]]
  PROVE  \E f : Steps(f, N, V, c, step)
<1> DEFINE Upto(n, f) == /\ f \in [0 .. n -> V] /\ f[0] = c
                         /\ \A i \in 1 .. n : f[i] = step[i][f[i - 1]]
           S == {n \in 0 .. N : \E f : Upto(n, f)}
<1>1. 0 \in S
  <2>1. Upto(0, [i \in 0 .. 0 |-> c])
    OBVIOUS
  <2>2. 0 \in 0 .. N
    OBVIOUS
  <2>3. QED  BY <2>1, <2>2
<1>2. ASSUME NEW n \in 0 .. N - 1, n \in S  PROVE n + 1 \in S
  <2>1. PICK f : Upto(n, f)
    BY <1>2
  <2>2. n \in Nat /\ n + 1 \in 1 .. N /\ n + 1 \in 0 .. N /\ (n + 1) - 1 = n /\ n \in 0 .. n /\ 0 \in 0 .. n
    OBVIOUS
  <2> DEFINE x == step[n + 1][f[n]]
             g == [i \in 0 .. n + 1 |-> IF i = n + 1 THEN x ELSE f[i]]
  <2>3. f[n] \in V /\ step[n + 1] \in [V -> V] /\ x \in V
    BY <2>1, <2>2
  <2>4. ASSUME NEW i \in 0 .. n + 1, i # n + 1  PROVE i \in 0 .. n /\ f[i] \in V
    BY <2>1, <2>2, <2>4
  <2> HIDE DEF x
  <2>5. g \in [0 .. n + 1 -> V] /\ g[0] = c
    BY <2>1, <2>2, <2>3, <2>4
  <2>6. ASSUME NEW i \in 1 .. n + 1  PROVE g[i] = step[i][g[i - 1]]
    <3>1. i - 1 \in 0 .. n /\ i - 1 # n + 1 /\ i - 1 \in 0 .. n + 1 /\ i \in 0 .. n + 1
      BY <2>2
    <3>2. g[i - 1] = f[i - 1]
      BY <3>1
    <3>3. CASE i = n + 1
      BY <2>2, <3>1, <3>2, <3>3 DEF x
    <3>4. CASE i # n + 1
      <4>1. i \in 1 .. n
        BY <2>2, <3>4
      <4>2. QED  BY <2>1, <3>1, <3>2, <3>4, <4>1
    <3>5. QED  BY <3>3, <3>4
  <2> HIDE DEF g
  <2>7. Upto(n + 1, g)
    BY <2>5, <2>6
  <2>8. QED  BY <2>2, <2>7
<1> HIDE DEF S
<1>3. N \in S
  <2>1. 0 .. N \subseteq S
    BY <1>1, <1>2, IntervalInduction
  <2>2. N \in 0 .. N
    OBVIOUS
  <2>3. QED  BY <2>1, <2>2
<1>4. PICK f : Upto(N, f)
  BY <1>3 DEF S
<1>5. QED  BY <1>4 DEF Steps

-----------------------------------------------------------------------------
(* Ranges and windows. *)
LEMMA RangeConcat ==
  ASSUME NEW A, NEW s \in Seq(A), NEW t \in Seq(A)
  PROVE  s \o t \in Seq(A) /\ Range(s \o t) = Range(s) \union Range(t)
<1> DEFINE n == Len(s)
           m == Len(t)
           u == s \o t
<1>1. /\ n \in Nat /\ m \in Nat /\ DOMAIN s = 1 .. n /\ DOMAIN t = 1 .. m
      /\ u \in Seq(A) /\ DOMAIN u = 1 .. n + m
      /\ \A k \in 1 .. n : u[k] = s[k]
      /\ \A k \in 1 .. m : u[n + k] = t[k]
  OBVIOUS
<1> HIDE DEF n, m, u
<1>2. ASSUME NEW k \in 1 .. n + m  PROVE u[k] \in Range(s) \union Range(t)
  <2>1. CASE k <= n
    <3>1. k \in 1 .. n
      BY <1>1, <2>1
    <3>2. QED  BY <1>1, <3>1 DEF Range
  <2>2. CASE ~(k <= n)
    <3>1. k - n \in 1 .. m /\ n + (k - n) = k
      BY <1>1, <2>2
    <3>2. QED  BY <1>1, <3>1 DEF Range
  <2>3. QED  BY <2>1, <2>2
<1>3. ASSUME NEW k \in 1 .. n  PROVE s[k] \in Range(u)
  <2>1. k \in 1 .. n + m
    BY <1>1
  <2>2. QED  BY <1>1, <2>1 DEF Range
<1>4. ASSUME NEW k \in 1 .. m  PROVE t[k] \in Range(u)
  <2>1. n + k \in 1 .. n + m
    BY <1>1
  <2>2. QED  BY <1>1, <2>1 DEF Range
<1>5. Range(u) = Range(s) \union Range(t)
  BY <1>1, <1>2, <1>3, <1>4 DEF Range
<1>6. QED  BY <1>1, <1>5 DEF u

LEMMA Associative ==
  ASSUME NEW a \in Seq(Nat), NEW b \in Seq(Nat), NEW c \in Seq(Nat)
  PROVE  (a \o b) \o c = a \o (b \o c)
<1> DEFINE u == (a \o b) \o c
           v == a \o (b \o c)
<1>1. PICK l \in Nat, m \in Nat, n \in Nat : l = Len(a) /\ m = Len(b) /\ n = Len(c)
  OBVIOUS
<1>2. /\ a \o b \in Seq(Nat) /\ Len(a \o b) = l + m
      /\ b \o c \in Seq(Nat) /\ Len(b \o c) = m + n
      /\ \A i \in 1 .. l + m : (a \o b)[i] = IF i <= l THEN a[i] ELSE b[i - l]
      /\ \A i \in 1 .. m + n : (b \o c)[i] = IF i <= m THEN b[i] ELSE c[i - m]
  BY <1>1, ConcatProperties
<1>3. /\ u \in Seq(Nat) /\ Len(u) = (l + m) + n
      /\ \A i \in 1 .. (l + m) + n : u[i] = IF i <= l + m THEN (a \o b)[i] ELSE c[i - (l + m)]
  <2>1. PICK x \in Seq(Nat) : x = a \o b
    BY <1>2
  <2>2. /\ x \o c \in Seq(Nat) /\ Len(x \o c) = Len(x) + Len(c)
        /\ \A i \in 1 .. Len(x) + Len(c) : (x \o c)[i] = IF i <= Len(x) THEN x[i] ELSE c[i - Len(x)]
    BY ConcatProperties
  <2>3. QED  BY <1>1, <1>2, <2>1, <2>2
<1>4. /\ v \in Seq(Nat) /\ Len(v) = l + (m + n)
      /\ \A i \in 1 .. l + (m + n) : v[i] = IF i <= l THEN a[i] ELSE (b \o c)[i - l]
  <2>1. PICK x \in Seq(Nat) : x = b \o c
    BY <1>2
  <2>2. /\ a \o x \in Seq(Nat) /\ Len(a \o x) = Len(a) + Len(x)
        /\ \A i \in 1 .. Len(a) + Len(x) : (a \o x)[i] = IF i <= Len(a) THEN a[i] ELSE x[i - Len(a)]
    BY ConcatProperties
  <2>3. QED  BY <1>1, <1>2, <2>1, <2>2
<1> HIDE DEF u, v
<1>5. ASSUME NEW i \in 1 .. (l + m) + n  PROVE u[i] = v[i]
  <2>1. CASE i <= l
    <3>1. i \in 1 .. l + m /\ i <= l + m /\ i \in 1 .. l + (m + n)
      BY <2>1
    <3>2. QED  BY <1>2, <1>3, <1>4, <2>1, <3>1
  <2>2. CASE ~(i <= l) /\ i <= l + m
    <3>1. i \in 1 .. l + m /\ i \in 1 .. l + (m + n) /\ i - l \in 1 .. m + n /\ i - l <= m
      BY <2>2
    <3>2. QED  BY <1>2, <1>3, <1>4, <2>2, <3>1
  <2>3. CASE ~(i <= l + m)
    <3>1. /\ ~(i <= l) /\ i \in 1 .. l + (m + n) /\ i - l \in 1 .. m + n /\ ~(i - l <= m)
          /\ (i - l) - m = i - (l + m)
      BY <2>3
    <3>2. QED  BY <1>2, <1>3, <1>4, <2>3, <3>1
  <2>4. QED  BY <2>1, <2>2, <2>3
<1>6. PICK k \in Nat : k = (l + m) + n
  OBVIOUS
<1>7. DOMAIN u = 1 .. k /\ DOMAIN v = 1 .. k
  BY <1>3, <1>4, <1>6
<1>8. u = [i \in 1 .. k |-> u[i]] /\ v = [i \in 1 .. k |-> v[i]]
  BY <1>3, <1>4, <1>7
<1>9. u = v
  BY <1>5, <1>6, <1>8
<1>10. QED  BY <1>9 DEF u, v

LEMMA WindowsFacts ==
  ASSUME NEW b \in Seq(Nat)
  PROVE  /\ Windows(b) \in Seq(Seq(Nat))
         /\ Range(Windows(b)) = {SubSeq(b, j, j + 2) : j \in 1 .. Len(b) - 2}
         /\ Len(b) >= 3 => Windows(b) # <<>>
<1> DEFINE n == Len(b)
<1>1. n \in Nat
  OBVIOUS
<1>2. CASE n < 3
  <2>1. Windows(b) = <<>>
    BY <1>2 DEF Windows
  <2>2. 1 .. n - 2 = {}
    BY <1>1, <1>2
  <2>3. Range(<<>>) = {} /\ <<>> \in Seq(Seq(Nat))
    BY DEF Range
  <2>4. QED  BY <1>1, <1>2, <2>1, <2>2, <2>3
<1>3. CASE ~(n < 3)
  <2> DEFINE w == [j \in 1 .. n - 2 |-> SubSeq(b, j, j + 2)]
  <2>1. Windows(b) = w
    BY <1>3 DEF Windows
  <2>2. n - 2 \in Nat /\ 1 \in 1 .. n - 2
    BY <1>1, <1>3
  <2>3. ASSUME NEW j \in 1 .. n - 2  PROVE SubSeq(b, j, j + 2) \in Seq(Nat)
    <3>1. j \in Int /\ j + 2 \in Int /\ \A i \in j .. j + 2 : b[i] \in Nat
      BY <1>1
    <3>2. QED  BY <3>1, SubSeqProperties
  <2>4. w \in [1 .. n - 2 -> Seq(Nat)] /\ DOMAIN w = 1 .. n - 2
    BY <2>3
  <2>5. w \in Seq(Seq(Nat)) /\ w # <<>>
    <3> DEFINE S == Seq(Nat)
    <3>1. w \in [1 .. n - 2 -> S]
      BY <2>4
    <3> HIDE DEF S, w
    <3>2. w \in Seq(S) /\ Len(w) = n - 2
      <4>1. PICK k \in Nat : k = n - 2
        BY <2>2
      <4>2. w \in [1 .. k -> S]
        BY <3>1, <4>1
      <4>3. w \in Seq(S) /\ Len(w) = k
        BY <4>2
      <4>4. QED  BY <4>1, <4>3
    <3>3. w # <<>>
      BY <2>2, <3>2
    <3>4. QED  BY <3>2, <3>3 DEF S
  <2>6. Range(w) = {SubSeq(b, j, j + 2) : j \in 1 .. n - 2}
    BY <2>4 DEF Range
  <2>7. QED  BY <2>1, <2>5, <2>6
<1>4. QED  BY <1>2, <1>3

(* A window of a part is a window of the whole. *)
LEMMA ConcatWindows ==
  ASSUME NEW a \in Seq(Nat), NEW b \in Seq(Nat)
  PROVE  Range(Windows(a)) \union Range(Windows(b)) \subseteq Range(Windows(a \o b))
<1> DEFINE c == a \o b
           n == Len(a)
           m == Len(b)
<1>1. /\ c \in Seq(Nat) /\ Len(c) = n + m /\ n \in Nat /\ m \in Nat
      /\ \A k \in 1 .. n : c[k] = a[k]
      /\ \A k \in 1 .. m : c[n + k] = b[k]
  OBVIOUS
<1> HIDE DEF c, n, m
<1>2. ASSUME NEW s \in Seq(Nat), NEW p \in Nat, p + Len(s) <= n + m,
             \A k \in 1 .. Len(s) : c[p + k] = s[k],
             NEW j \in 1 .. Len(s) - 2
      PROVE  SubSeq(s, j, j + 2) \in {SubSeq(c, i, i + 2) : i \in 1 .. (n + m) - 2}
  <2>1. PICK l \in Nat : l = Len(s)
    OBVIOUS
  <2>2. j + p \in 1 .. (n + m) - 2 /\ j \in Int /\ j + p \in Int
    BY <1>1, <1>2, <2>1
  <2>3. /\ \A i \in j .. j + 2 : s[i] \in Nat
        /\ \A i \in j + p .. (j + p) + 2 : c[i] \in Nat
    <3>1. j \in 1 .. l - 2 /\ p + l <= n + m
      BY <1>2, <2>1
    <3>2. \A i \in j .. j + 2 : i \in 1 .. l
      BY <2>1, <3>1
    <3>3. \A i \in j + p .. (j + p) + 2 : i \in 1 .. n + m
      BY <1>1, <2>1, <3>1
    <3>4. (\A i \in 1 .. l : s[i] \in Nat) /\ \A i \in 1 .. n + m : c[i] \in Nat
      <4>1. \A i \in 1 .. Len(c) : c[i] \in Nat
        BY <1>1
      <4>2. \A i \in 1 .. Len(s) : s[i] \in Nat
        OBVIOUS
      <4>3. QED  BY <1>1, <2>1, <4>1, <4>2
    <3>5. QED  BY <3>2, <3>3, <3>4
  <2>4. /\ SubSeq(s, j, j + 2) \in Seq(Nat) /\ Len(SubSeq(s, j, j + 2)) = 3
        /\ \A i \in 1 .. 3 : SubSeq(s, j, j + 2)[i] = s[j + i - 1]
    BY <2>2, <2>3, SubSeqProperties
  <2>5. /\ SubSeq(c, j + p, (j + p) + 2) \in Seq(Nat) /\ Len(SubSeq(c, j + p, (j + p) + 2)) = 3
        /\ \A i \in 1 .. 3 : SubSeq(c, j + p, (j + p) + 2)[i] = c[(j + p) + i - 1]
    BY <2>2, <2>3, SubSeqProperties
  <2>6. ASSUME NEW i \in 1 .. 3  PROVE s[j + i - 1] = c[(j + p) + i - 1]
    <3>1. j + i - 1 \in 1 .. l /\ p + (j + i - 1) = (j + p) + i - 1
      BY <2>1
    <3>2. QED  BY <1>2, <2>1, <3>1
  <2>7. SubSeq(s, j, j + 2) = SubSeq(c, j + p, (j + p) + 2)
    <3> DEFINE u == SubSeq(s, j, j + 2)
               v == SubSeq(c, j + p, (j + p) + 2)
    <3>1. u \in Seq(Nat) /\ v \in Seq(Nat) /\ Len(u) = 3 /\ Len(v) = 3 /\ \A i \in 1 .. 3 : u[i] = v[i]
      <4>1. u \in Seq(Nat) /\ Len(u) = 3
        BY <2>4
      <4>2. v \in Seq(Nat) /\ Len(v) = 3
        BY <2>5
      <4>3. ASSUME NEW i \in 1 .. 3  PROVE u[i] = v[i]
        <5>1. u[i] = s[j + i - 1]
          BY <2>4
        <5>2. v[i] = c[(j + p) + i - 1]
          BY <2>5
        <5>3. QED  BY <5>1, <5>2, <2>6
      <4>4. QED  BY <4>1, <4>2, <4>3
    <3> HIDE DEF u, v
    <3>2. u = v
      <4>1. DOMAIN u = 1 .. 3 /\ DOMAIN v = 1 .. 3
        BY <3>1
      <4>2. u = [i \in 1 .. 3 |-> u[i]] /\ v = [i \in 1 .. 3 |-> v[i]]
        BY <3>1, <4>1
      <4>3. QED  BY <3>1, <4>2
    <3>3. QED  BY <3>2 DEF u, v
  <2>8. QED  BY <2>2, <2>7
<1>3. \A j \in 1 .. n - 2 : SubSeq(a, j, j + 2) \in {SubSeq(c, i, i + 2) : i \in 1 .. (n + m) - 2}
  <2>1. 0 \in Nat /\ 0 + Len(a) <= n + m /\ \A k \in 1 .. Len(a) : c[0 + k] = a[k]
    BY <1>1 DEF n
  <2>2. QED  BY <1>2, <2>1 DEF n
<1>4. \A j \in 1 .. m - 2 : SubSeq(b, j, j + 2) \in {SubSeq(c, i, i + 2) : i \in 1 .. (n + m) - 2}
  <2>1. n \in Nat /\ n + Len(b) <= n + m /\ \A k \in 1 .. Len(b) : c[n + k] = b[k]
    BY <1>1 DEF m
  <2>2. QED  BY <1>2, <2>1 DEF m
<1>5. Range(Windows(c)) = {SubSeq(c, i, i + 2) : i \in 1 .. (n + m) - 2}
  BY <1>1, WindowsFacts
<1>6. /\ Range(Windows(a)) = {SubSeq(a, j, j + 2) : j \in 1 .. n - 2}
      /\ Range(Windows(b)) = {SubSeq(b, j, j + 2) : j \in 1 .. m - 2}
  BY WindowsFacts DEF n, m
<1>7. QED  BY <1>3, <1>4, <1>5, <1>6 DEF c
-----------------------------------------------------------------------------
(* The loop over a text. *)
States == [grams : Seq(Seq(Nat)), run : Seq(Nat), prevLast : Seq(Nat)]

Start == [grams |-> <<>>, run |-> <<>>, prevLast |-> <<>>]

(* The grams that a state has, with those of the run that it is in. *)
GramsSoFar(s) == Range(s.grams) \union Range(Windows(s.run))

LEMMA StartFacts == Start \in States /\ Start.grams = <<>> /\ Start.run = <<>> /\ Start.prevLast = <<>>
<1>1. <<>> \in Seq(Seq(Nat)) /\ <<>> \in Seq(Nat)
  OBVIOUS
<1>2. QED  BY <1>1 DEF Start, States

(* What the bytes of a character can do for a gram. *)
LEMMA CharFacts ==
  ASSUME NEW c \in Char
  PROVE  /\ Bytes[c] \in Seq(Nat)
         /\ c \in CJK => SubSeq(Bytes[c], 1, 2) \in Seq(Nat) /\ Bytes[c][3] \in Nat
<1>1. Bytes[c] \in Seq(Nat)
  BY SearchAssumption DEF SearchAssumption
<1>2. ASSUME c \in CJK  PROVE SubSeq(Bytes[c], 1, 2) \in Seq(Nat) /\ Bytes[c][3] \in Nat
  <2>1. PICK b \in Seq(Nat) : b = Bytes[c] /\ Len(b) = 3
    BY <1>1, <1>2, SearchAssumption DEF SearchAssumption
  <2>2. SubSeq(b, 1, 2) \in Seq(Nat) /\ b[3] \in Nat
    BY <2>1
  <2>3. QED  BY <2>1, <2>2
<1>3. QED  BY <1>1, <1>2

(* The gram that a CJK character makes with the one before it, if any. *)
PairGrams(s, c) == {s.prevLast \o SubSeq(Bytes[c], 1, 2) : i \in DOMAIN s.prevLast}

(* A CJK character. *)
LEMMA ScanCJK ==
  ASSUME NEW s \in States, NEW c \in Char, c \in CJK
  PROVE  /\ ScanChar(s, c) \in States
         /\ ScanChar(s, c).run = <<>> /\ ScanChar(s, c).prevLast = <<Bytes[c][3]>>
         /\ Range(ScanChar(s, c).grams) =
              Range(s.grams) \union Range(Windows(s.run)) \union {Bytes[c]} \union PairGrams(s, c)
<1> DEFINE G == Seq(Nat)
           w == Windows(s.run)
           p == [i \in DOMAIN s.prevLast |-> s.prevLast \o SubSeq(Bytes[c], 1, 2)]
           g == s.grams \o w \o <<Bytes[c]>> \o p
<1>1. s.grams \in Seq(G) /\ s.run \in Seq(Nat) /\ s.prevLast \in Seq(Nat)
  BY DEF States
<1>2. Bytes[c] \in G /\ SubSeq(Bytes[c], 1, 2) \in G /\ Bytes[c][3] \in Nat
  BY CharFacts
<1>3. w \in Seq(G)
  BY <1>1, WindowsFacts
<1>4. p \in Seq(G) /\ Range(p) = PairGrams(s, c)
  <2>1. PICK l \in Nat : DOMAIN s.prevLast = 1 .. l
    BY <1>1
  <2>2. s.prevLast \o SubSeq(Bytes[c], 1, 2) \in G
    BY <1>1, <1>2, ConcatProperties
  <2> HIDE DEF G
  <2>3. p \in [1 .. l -> G]
    BY <2>1, <2>2
  <2>4. p \in Seq(G)
    <3> HIDE DEF p
    <3>1. QED  BY <2>3
  <2>5. Range(p) = PairGrams(s, c)
    BY DEF Range, PairGrams
  <2>6. QED  BY <2>4, <2>5
<1>5. <<Bytes[c]>> \in Seq(G) /\ Range(<<Bytes[c]>>) = {Bytes[c]}
  <2>1. PICK x \in G : x = Bytes[c]
    BY <1>2
  <2> HIDE DEF G
  <2>2. <<x>> \in Seq(G) /\ DOMAIN <<x>> = {1} /\ <<x>>[1] = x
    OBVIOUS
  <2>3. Range(<<x>>) = {x}
    BY <2>2 DEF Range
  <2>4. QED  BY <2>1, <2>2, <2>3
<1> HIDE DEF G, w, p
<1>6. /\ s.grams \o w \in Seq(G)
      /\ Range(s.grams \o w) = Range(s.grams) \union Range(w)
  BY <1>1, <1>3, RangeConcat
<1>7. /\ (s.grams \o w) \o <<Bytes[c]>> \in Seq(G)
      /\ Range((s.grams \o w) \o <<Bytes[c]>>) = Range(s.grams) \union Range(w) \union {Bytes[c]}
  <2>1. PICK x \in Seq(G), y \in Seq(G) : x = s.grams \o w /\ y = <<Bytes[c]>>
    BY <1>5, <1>6
  <2>2. x \o y \in Seq(G) /\ Range(x \o y) = Range(x) \union Range(y)
    BY RangeConcat
  <2>3. QED  BY <1>5, <1>6, <2>1, <2>2
<1>8. /\ g \in Seq(G)
      /\ Range(g) = Range(s.grams) \union Range(w) \union {Bytes[c]} \union Range(p)
  <2>1. PICK x \in Seq(G) : x = (s.grams \o w) \o <<Bytes[c]>>
    BY <1>7
  <2>2. x \o p \in Seq(G) /\ Range(x \o p) = Range(x) \union Range(p)
    BY <1>4, RangeConcat
  <2>3. QED  BY <1>7, <2>1, <2>2
<1>9. ScanChar(s, c) = [grams |-> g, run |-> <<>>, prevLast |-> <<Bytes[c][3]>>]
  BY DEF ScanChar, w, p
<1> HIDE DEF g
<1>10. <<>> \in Seq(Nat) /\ <<Bytes[c][3]>> \in Seq(Nat)
  BY <1>2
<1>11. /\ ScanChar(s, c).grams = g
       /\ ScanChar(s, c).run = <<>> /\ ScanChar(s, c).prevLast = <<Bytes[c][3]>>
  BY <1>9
<1>12. ScanChar(s, c) \in States
  BY <1>8, <1>9, <1>10 DEF States, G
<1>13. QED  BY <1>4, <1>8, <1>11, <1>12 DEF w

(* Another character. *)
LEMMA ScanOther ==
  ASSUME NEW s \in States, NEW c \in Char, c \notin CJK
  PROVE  /\ ScanChar(s, c) \in States
         /\ ScanChar(s, c).grams = s.grams /\ ScanChar(s, c).run = s.run \o Bytes[c]
         /\ ScanChar(s, c).prevLast = <<>>
<1>1. s.grams \in Seq(Seq(Nat)) /\ s.run \in Seq(Nat)
  BY DEF States
<1>2. s.run \o Bytes[c] \in Seq(Nat)
  BY <1>1, CharFacts, ConcatProperties
<1>3. ScanChar(s, c) = [grams |-> s.grams, run |-> s.run \o Bytes[c], prevLast |-> <<>>]
  BY DEF ScanChar
<1>4. <<>> \in Seq(Nat)
  OBVIOUS
<1>5. QED  BY <1>1, <1>2, <1>3, <1>4 DEF States

(* No character takes a gram away. *)
LEMMA ScanKeeps ==
  ASSUME NEW s \in States, NEW c \in Char
  PROVE  ScanChar(s, c) \in States /\ GramsSoFar(s) \subseteq GramsSoFar(ScanChar(s, c))
<1>1. CASE c \in CJK
  BY <1>1, ScanCJK DEF GramsSoFar
<1>2. CASE c \notin CJK
  <2>1. s.run \in Seq(Nat) /\ Bytes[c] \in Seq(Nat)
    BY CharFacts DEF States
  <2>2. Range(Windows(s.run)) \subseteq Range(Windows(s.run \o Bytes[c]))
    BY <2>1, ConcatWindows
  <2>3. QED  BY <1>2, <2>2, ScanOther DEF GramsSoFar
<1>3. QED  BY <1>1, <1>2

(* State s has found less than u, but in the same place: the run that it is *)
(* in is the end of the run that u is in.                                   *)
Behind(s, u) ==
  /\ Range(s.grams) \subseteq Range(u.grams)
  /\ \E p \in Seq(Nat) : u.run = p \o s.run
  /\ s.prevLast # <<>> => u.prevLast = s.prevLast

LEMMA BehindGrams ==
  ASSUME NEW s \in States, NEW u \in States, Behind(s, u)
  PROVE  Range(Windows(s.run)) \subseteq Range(Windows(u.run)) /\ GramsSoFar(s) \subseteq GramsSoFar(u)
<1>1. s.run \in Seq(Nat)
  BY DEF States
<1>2. PICK p \in Seq(Nat) : u.run = p \o s.run
  BY DEF Behind
<1>3. Range(Windows(s.run)) \subseteq Range(Windows(p \o s.run))
  BY <1>1, ConcatWindows
<1>4. QED  BY <1>2, <1>3 DEF Behind, GramsSoFar

LEMMA BehindStart ==
  ASSUME NEW u \in States
  PROVE  Behind(Start, u)
<1>1. u.run \in Seq(Nat) /\ u.run = u.run \o <<>>
  BY DEF States
<1>2. Range(<<>>) = {}
  BY DEF Range
<1>3. QED  BY <1>1, <1>2, StartFacts DEF Behind

(* The same character leaves the one behind the other. *)
LEMMA BehindStep ==
  ASSUME NEW s \in States, NEW u \in States, Behind(s, u), NEW c \in Char
  PROVE  Behind(ScanChar(s, c), ScanChar(u, c))
<1>1. CASE c \in CJK
  <2>1. PairGrams(s, c) \subseteq PairGrams(u, c)
    <3>1. CASE s.prevLast = <<>>
      <4>1. DOMAIN s.prevLast = {}
        BY <3>1
      <4>2. QED  BY <4>1 DEF PairGrams
    <3>2. CASE s.prevLast # <<>>
      BY <3>2 DEF Behind, PairGrams
    <3>3. QED  BY <3>1, <3>2
  <2>2. Range(ScanChar(s, c).grams) \subseteq Range(ScanChar(u, c).grams)
    <3>1. Range(ScanChar(s, c).grams) =
            Range(s.grams) \union Range(Windows(s.run)) \union {Bytes[c]} \union PairGrams(s, c)
      BY <1>1, ScanCJK
    <3>2. Range(ScanChar(u, c).grams) =
            Range(u.grams) \union Range(Windows(u.run)) \union {Bytes[c]} \union PairGrams(u, c)
      BY <1>1, ScanCJK
    <3>3. Range(s.grams) \subseteq Range(u.grams) /\ Range(Windows(s.run)) \subseteq Range(Windows(u.run))
      BY BehindGrams DEF Behind
    <3>4. QED  BY <2>1, <3>1, <3>2, <3>3
  <2>3. /\ ScanChar(s, c).run = <<>> /\ ScanChar(u, c).run = <<>>
        /\ ScanChar(s, c).prevLast = ScanChar(u, c).prevLast
    BY <1>1, ScanCJK
  <2>4. <<>> \in Seq(Nat) /\ <<>> = <<>> \o <<>>
    OBVIOUS
  <2>5. QED  BY <2>2, <2>3, <2>4 DEF Behind
<1>2. CASE c \notin CJK
  <2>1. s.run \in Seq(Nat) /\ Bytes[c] \in Seq(Nat)
    BY CharFacts DEF States
  <2>2. PICK p \in Seq(Nat) : u.run = p \o s.run
    BY DEF Behind
  <2>3. u.run \o Bytes[c] = p \o (s.run \o Bytes[c])
    <3>1. PICK x \in Seq(Nat), y \in Seq(Nat) : x = s.run /\ y = Bytes[c]
      BY <2>1
    <3>2. (p \o x) \o y = p \o (x \o y)
      BY Associative
    <3>3. QED  BY <2>2, <3>1, <3>2
  <2>4. /\ ScanChar(s, c).grams = s.grams /\ ScanChar(s, c).run = s.run \o Bytes[c]
        /\ ScanChar(s, c).prevLast = <<>>
        /\ ScanChar(u, c).grams = u.grams /\ ScanChar(u, c).run = u.run \o Bytes[c]
    BY <1>2, ScanOther
  <2>5. QED  BY <2>3, <2>4 DEF Behind
<1>3. QED  BY <1>1, <1>2
(* The loop over t, as the function that Loop defines. *)
LEMMA LoopFacts ==
  ASSUME NEW t \in Seq(Char)
  PROVE  /\ Loop(t) \in [0 .. Len(t) -> States]
         /\ Loop(t)[0] = Start
         /\ \A i \in 1 .. Len(t) : Loop(t)[i] = ScanChar(Loop(t)[i - 1], t[i])
<1> DEFINE N == Len(t)
           Body(f) == [i \in 0 .. N |-> IF i = 0 THEN Start ELSE ScanChar(f[i - 1], t[i])]
           step == [n \in 1 .. N |-> [s \in States |-> ScanChar(s, t[n])]]
<1>1. N \in Nat /\ \A i \in 1 .. N : t[i] \in Char
  OBVIOUS
<1>2. step \in [1 .. N -> [States -> States]]
  <2>1. ASSUME NEW n \in 1 .. N, NEW s \in States  PROVE ScanChar(s, t[n]) \in States
    BY <1>1, ScanKeeps
  <2>2. QED  BY <2>1
<1>3. PICK f : Steps(f, N, States, Start, step)
  <2> HIDE DEF N, step
  <2>1. QED  BY <1>1, <1>2, StartFacts, StepsExist
<1>4. /\ f \in [0 .. N -> States] /\ f[0] = Start
      /\ \A i \in 1 .. N : f[i] = ScanChar(f[i - 1], t[i])
  <2>1. f \in [0 .. N -> States] /\ f[0] = Start
    BY <1>3 DEF Steps
  <2>2. ASSUME NEW i \in 1 .. N  PROVE f[i] = ScanChar(f[i - 1], t[i])
    <3>1. i - 1 \in 0 .. N
      BY <1>1
    <3>2. f[i - 1] \in States
      BY <2>1, <3>1
    <3>3. f[i] = step[i][f[i - 1]]
      BY <1>3 DEF Steps
    <3>4. QED  BY <3>2, <3>3
  <2>3. QED  BY <2>1, <2>2
<1> HIDE DEF step
<1>5. f = Body(f)
  <2>1. ASSUME NEW i \in 0 .. N  PROVE f[i] = IF i = 0 THEN Start ELSE ScanChar(f[i - 1], t[i])
    <3>1. i # 0 => i \in 1 .. N
      BY <1>1
    <3>2. QED  BY <1>4, <3>1
  <2>2. f = [i \in 0 .. N |-> f[i]]
    BY <1>4
  <2>3. QED  BY <2>1, <2>2
<1>6. Loop(t) = CHOOSE g : g = Body(g)
  BY DEF Loop, Start
<1>7. Loop(t) = Body(Loop(t))
  <2> HIDE DEF Body
  <2>1. QED  BY <1>5, <1>6
<1>8. PICK g : g = Loop(t)
  OBVIOUS
<1>9. g = [i \in 0 .. N |-> IF i = 0 THEN Start ELSE ScanChar(g[i - 1], t[i])]
  BY <1>7, <1>8
<1>10. DOMAIN g = 0 .. N /\ g[0] = Start /\ \A i \in 1 .. N : g[i] = ScanChar(g[i - 1], t[i])
  <2>1. 0 \in 0 .. N /\ \A i \in 1 .. N : i \in 0 .. N /\ i # 0
    BY <1>1
  <2>2. QED  BY <1>9, <2>1
<1> DEFINE S == {i \in 0 .. N : g[i] \in States}
<1>11. 0 \in S
  <2>1. 0 \in 0 .. N
    BY <1>1
  <2>2. QED  BY <1>10, <2>1, StartFacts
<1>12. ASSUME NEW n \in 0 .. N - 1, n \in S  PROVE n + 1 \in S
  <2>1. n + 1 \in 1 .. N /\ (n + 1) - 1 = n /\ n + 1 \in 0 .. N
    BY <1>1
  <2>2. g[n] \in States /\ t[n + 1] \in Char /\ g[n + 1] = ScanChar(g[n], t[n + 1])
    BY <1>1, <1>10, <1>12, <2>1
  <2>3. QED  BY <2>1, <2>2, ScanKeeps
<1>13. 0 .. N \subseteq S
  <2> HIDE DEF S, N
  <2>1. QED  BY <1>1, <1>11, <1>12, IntervalInduction
<1>14. g \in [0 .. N -> States]
  <2>1. \A i \in 0 .. N : g[i] \in States
    BY <1>13
  <2>2. g = [i \in 0 .. N |-> g[i]]
    BY <1>9, <1>10
  <2>3. QED  BY <2>1, <2>2
<1>15. QED  BY <1>8, <1>10, <1>14

(* What the loop has found stays found. *)
LEMMA LoopKeeps ==
  ASSUME NEW t \in Seq(Char), NEW m \in 0 .. Len(t)
  PROVE  GramsSoFar(Loop(t)[m]) \subseteq GramsSoFar(Loop(t)[Len(t)])
<1> DEFINE N == Len(t)
           S == {d \in 0 .. N - m : GramsSoFar(Loop(t)[m]) \subseteq GramsSoFar(Loop(t)[m + d])}
<1>1. N \in Nat /\ m \in Nat /\ m <= N /\ N - m \in Nat
  OBVIOUS
<1>2. 0 \in S
  BY <1>1
<1>3. ASSUME NEW d \in 0 .. (N - m) - 1, d \in S  PROVE d + 1 \in S
  <2>1. /\ m + d \in 0 .. N /\ m + (d + 1) \in 1 .. N /\ (m + (d + 1)) - 1 = m + d
        /\ d + 1 \in 0 .. N - m
    BY <1>1
  <2>2. Loop(t)[m + d] \in States /\ t[m + (d + 1)] \in Char
    BY <2>1, LoopFacts
  <2>3. Loop(t)[m + (d + 1)] = ScanChar(Loop(t)[m + d], t[m + (d + 1)])
    BY <2>1, LoopFacts
  <2>4. GramsSoFar(Loop(t)[m + d]) \subseteq GramsSoFar(Loop(t)[m + (d + 1)])
    BY <2>2, <2>3, ScanKeeps
  <2>5. QED  BY <1>3, <2>1, <2>4
<1>4. 0 .. N - m \subseteq S
  <2> HIDE DEF S, N
  <2>1. QED  BY <1>1, <1>2, <1>3, IntervalInduction
<1>5. N - m \in 0 .. N - m /\ m + (N - m) = N
  BY <1>1
<1>6. N - m \in S
  <2> HIDE DEF S
  <2>1. QED  BY <1>4, <1>5
<1>7. QED  BY <1>5, <1>6

(* The grams of a text are those of the last state. *)
LEMMA ScanFacts ==
  ASSUME NEW t \in Seq(Char)
  PROVE  Scan(t) \in Seq(Seq(Nat)) /\ Range(Scan(t)) = GramsSoFar(Loop(t)[Len(t)])
<1>1. Len(t) \in 0 .. Len(t)
  OBVIOUS
<1>2. PICK s \in States : s = Loop(t)[Len(t)]
  BY <1>1, LoopFacts
<1>3. s.grams \in Seq(Seq(Nat)) /\ Windows(s.run) \in Seq(Seq(Nat))
  BY WindowsFacts DEF States
<1>4. /\ s.grams \o Windows(s.run) \in Seq(Seq(Nat))
      /\ Range(s.grams \o Windows(s.run)) = Range(s.grams) \union Range(Windows(s.run))
  BY <1>3, RangeConcat
<1>5. QED  BY <1>2, <1>4 DEF Scan, GramsSoFar

(* The grams of a part of a text are grams of the text: the loop over the  *)
(* part stays behind the loop over the text, at the place of the part, and *)
(* what the latter has found there stays found.                            *)
LEMMA PartGrams ==
  ASSUME NEW t \in Seq(Char), NEW q \in Seq(Char), ContainsText(t, q)
  PROVE  Range(Scan(q)) \subseteq Range(Scan(t))
<1>1. PICK n \in Nat, l \in Nat : n = Len(t) /\ l = Len(q)
  OBVIOUS
<1>2. PICK o \in 0 .. n - l : SubSeq(t, o + 1, o + l) = q
  BY <1>1 DEF ContainsText
<1>3. o \in Nat /\ o + l <= n /\ l <= n
  BY <1>1
<1>4. ASSUME NEW k \in 1 .. l  PROVE q[k] = t[o + k] /\ q[k] \in Char
  <2>1. o + 1 \in Int /\ o + l \in Int /\ \A i \in o + 1 .. o + l : i \in 1 .. n
    BY <1>3
  <2>2. \A i \in o + 1 .. o + l : t[i] \in Char
    BY <1>1, <2>1
  <2>3. \A i \in 1 .. (o + l) - (o + 1) + 1 : SubSeq(t, o + 1, o + l)[i] = t[(o + 1) + i - 1]
    BY <2>1, <2>2, SubSeqProperties
  <2>4. k \in 1 .. (o + l) - (o + 1) + 1 /\ (o + 1) + k - 1 = o + k
    BY <1>3
  <2>5. q[k] \in Char
    BY <1>1
  <2>6. QED  BY <1>2, <2>3, <2>4, <2>5
<1> DEFINE S == {k \in 0 .. l : Behind(Loop(q)[k], Loop(t)[o + k])}
<1>5. 0 \in S
  <2>1. o + 0 \in 0 .. n /\ 0 \in 0 .. l
    BY <1>3
  <2>2. Loop(t)[o + 0] \in States /\ Loop(q)[0] = Start
    BY <1>1, <2>1, LoopFacts
  <2>3. QED  BY <2>1, <2>2, BehindStart
<1>6. ASSUME NEW k \in 0 .. l - 1, k \in S  PROVE k + 1 \in S
  <2>1. /\ k \in 0 .. l /\ k + 1 \in 1 .. l /\ (k + 1) - 1 = k /\ k + 1 \in 0 .. l
        /\ o + k \in 0 .. n /\ o + (k + 1) \in 1 .. n /\ (o + (k + 1)) - 1 = o + k
    BY <1>3
  <2>2. Loop(q)[k] \in States /\ Loop(t)[o + k] \in States
    BY <1>1, <2>1, LoopFacts
  <2>3. Loop(q)[k + 1] = ScanChar(Loop(q)[k], q[k + 1])
    BY <1>1, <2>1, LoopFacts
  <2>4. Loop(t)[o + (k + 1)] = ScanChar(Loop(t)[o + k], t[o + (k + 1)])
    BY <1>1, <2>1, LoopFacts
  <2>5. q[k + 1] = t[o + (k + 1)] /\ q[k + 1] \in Char
    BY <1>4, <2>1
  <2>6. Behind(Loop(q)[k], Loop(t)[o + k])
    BY <1>6
  <2>7. QED  BY <2>1, <2>2, <2>3, <2>4, <2>5, <2>6, BehindStep
<1>7. 0 .. l \subseteq S
  <2> HIDE DEF S
  <2>1. QED  BY <1>5, <1>6, IntervalInduction
<1>8. Behind(Loop(q)[l], Loop(t)[o + l])
  <2>1. l \in 0 .. l
    OBVIOUS
  <2>2. l \in S
    <3> HIDE DEF S
    <3>1. QED  BY <1>7, <2>1
  <2>3. QED  BY <2>2
<1>9. l \in 0 .. l /\ o + l \in 0 .. n
  BY <1>3
<1>10. Loop(q)[l] \in States /\ Loop(t)[o + l] \in States
  BY <1>1, <1>9, LoopFacts
<1>11. GramsSoFar(Loop(q)[l]) \subseteq GramsSoFar(Loop(t)[o + l])
  BY <1>8, <1>10, BehindGrams
<1>12. GramsSoFar(Loop(t)[o + l]) \subseteq GramsSoFar(Loop(t)[n])
  BY <1>1, <1>9, LoopKeeps
<1>13. QED  BY <1>1, <1>11, <1>12, ScanFacts
-----------------------------------------------------------------------------
(* Distinct keeps each gram. *)
LEMMA DistinctFacts ==
  ASSUME NEW G, NEW s \in Seq(G)
  PROVE  Distinct(s) \in Seq(G) /\ Range(Distinct(s)) = Range(s)
<1> DEFINE N == Len(s)
           V == Seq(G)
           step == [n \in 1 .. N |-> [x \in V |-> AddGram(x, s[n])]]
           Body(f) == [i \in 0 .. N |-> IF i = 0 THEN <<>> ELSE AddGram(f[i - 1], s[i])]
           seen == CHOOSE f : f = Body(f)
           Upto(n) == {s[k] : k \in 1 .. n}
           S == {i \in 0 .. N : seen[i] \in V /\ Range(seen[i]) = Upto(i)}
<1>1. N \in Nat /\ \A i \in 1 .. N : s[i] \in G
  OBVIOUS
<1>2. ASSUME NEW x \in V, NEW g \in G
      PROVE  AddGram(x, g) \in V /\ Range(AddGram(x, g)) = Range(x) \union {g}
  <2>1. CASE g \in Range(x)
    BY <2>1 DEF AddGram
  <2>2. CASE g \notin Range(x)
    <3>1. /\ Append(x, g) \in V /\ Len(x) \in Nat /\ DOMAIN x = 1 .. Len(x)
          /\ DOMAIN Append(x, g) = 1 .. Len(x) + 1
          /\ Append(x, g)[Len(x) + 1] = g /\ \A k \in 1 .. Len(x) : Append(x, g)[k] = x[k]
      OBVIOUS
    <3>2. \A k \in 1 .. Len(x) + 1 : k \in 1 .. Len(x) \/ k = Len(x) + 1
      BY <3>1
    <3>3. (\A k \in 1 .. Len(x) : k \in 1 .. Len(x) + 1) /\ Len(x) + 1 \in 1 .. Len(x) + 1
      BY <3>1
    <3>4. Range(Append(x, g)) = Range(x) \union {g}
      BY <3>1, <3>2, <3>3 DEF Range
    <3>5. QED  BY <2>2, <3>1, <3>4 DEF AddGram
  <2>3. QED  BY <2>1, <2>2
<1>3. <<>> \in V /\ Range(<<>>) = {}
  BY DEF Range
<1> HIDE DEF V
<1>4. \E f : f = Body(f)
  <2>1. step \in [1 .. N -> [V -> V]]
    BY <1>1, <1>2
  <2>2. PICK f : Steps(f, N, V, <<>>, step)
    <3> HIDE DEF N, step
    <3>1. QED  BY <1>1, <1>3, <2>1, StepsExist
  <2>3. f \in [0 .. N -> V] /\ f[0] = <<>>
    BY <2>2 DEF Steps
  <2>4. ASSUME NEW i \in 1 .. N  PROVE f[i] = AddGram(f[i - 1], s[i])
    <3>1. i - 1 \in 0 .. N
      BY <1>1
    <3>2. f[i] = step[i][f[i - 1]]
      BY <2>2 DEF Steps
    <3>3. QED  BY <2>3, <3>1, <3>2
  <2>5. ASSUME NEW i \in 0 .. N  PROVE f[i] = IF i = 0 THEN <<>> ELSE AddGram(f[i - 1], s[i])
    <3>1. i # 0 => i \in 1 .. N
      BY <1>1
    <3>2. QED  BY <2>3, <2>4, <3>1
  <2>6. f = [i \in 0 .. N |-> f[i]]
    BY <2>3
  <2>7. f = Body(f)
    BY <2>5, <2>6
  <2>8. QED  BY <2>7
<1>5. seen = Body(seen)
  <2> HIDE DEF Body
  <2>1. QED  BY <1>4
<1>6. Distinct(s) = seen[N]
  BY DEF Distinct
<1> HIDE DEF seen
<1>7. \A i \in 0 .. N : seen[i] = IF i = 0 THEN <<>> ELSE AddGram(seen[i - 1], s[i])
  BY <1>5
<1>8. 0 \in S
  <2>1. 0 \in 0 .. N /\ Upto(0) = {}
    BY <1>1
  <2>2. QED  BY <1>3, <1>7, <2>1
<1>9. ASSUME NEW n \in 0 .. N - 1, n \in S  PROVE n + 1 \in S
  <2>1. n + 1 \in 1 .. N /\ n + 1 \in 0 .. N /\ n + 1 # 0 /\ (n + 1) - 1 = n
    BY <1>1
  <2>2. seen[n + 1] = AddGram(seen[n], s[n + 1])
    BY <1>7, <2>1
  <2>3. seen[n] \in V /\ Range(seen[n]) = Upto(n) /\ s[n + 1] \in G
    BY <1>1, <1>9, <2>1
  <2>4. seen[n + 1] \in V /\ Range(seen[n + 1]) = Upto(n) \union {s[n + 1]}
    BY <1>2, <2>2, <2>3
  <2>5. \A k : k \in 1 .. n + 1 <=> k \in 1 .. n \/ k = n + 1
    BY <2>1
  <2>6. Upto(n + 1) = Upto(n) \union {s[n + 1]}
    BY <2>5
  <2>7. QED  BY <2>1, <2>4, <2>6
<1>10. 0 .. N \subseteq S
  <2> HIDE DEF S, N
  <2>1. QED  BY <1>1, <1>8, <1>9, IntervalInduction
<1>11. N \in 0 .. N
  BY <1>1
<1>12. seen[N] \in V /\ Range(seen[N]) = Upto(N)
  BY <1>10, <1>11
<1>13. Upto(N) = Range(s)
  BY DEF Range
<1>14. QED  BY <1>6, <1>12, <1>13 DEF V

(* FlattenSeq joins from left to right. *)
LEMMA FlattenSteps ==
  ASSUME NEW N \in Nat, NEW b \in [1 .. N -> Seq(Nat)], NEW g \in [0 .. N -> Seq(Nat)],
         g[0] = <<>>, \A i \in 1 .. N : g[i] = g[i - 1] \o b[i]
  PROVE  FlattenSeq(b) = g[N]
<1>1. Len(b) = N
  OBVIOUS
<1>2. CASE N = 0
  <2>1. b = <<>>
    BY <1>2
  <2>2. QED  BY <1>1, <1>2, <2>1 DEF FlattenSeq
<1>3. CASE N # 0
  <2> DEFINE Body(f) == [i \in 1 .. N |-> IF i = 1 THEN b[i] ELSE f[i - 1] \o b[i]]
             f == CHOOSE f : f = Body(f)
             h == [i \in 1 .. N |-> g[i]]
             T == {i \in 0 .. N : i # 0 => f[i] = g[i]}
  <2>1. FlattenSeq(b) = f[N]
    BY <1>1, <1>3 DEF FlattenSeq
  <2>2. g[1] = b[1]
    <3>1. 1 \in 1 .. N /\ 1 - 1 = 0
      BY <1>3
    <3>2. g[1] = <<>> \o b[1] /\ b[1] \in Seq(Nat)
      BY <3>1
    <3>3. QED  BY <3>2, ConcatEmptySeq
  <2>3. ASSUME NEW i \in 1 .. N  PROVE h[i] = IF i = 1 THEN b[i] ELSE h[i - 1] \o b[i]
    <3>1. i # 1 => i - 1 \in 1 .. N
      OBVIOUS
    <3>2. QED  BY <2>2, <3>1
  <2>4. h = Body(h)
    BY <2>3
  <2>5. f = Body(f)
    <3> HIDE DEF Body, h
    <3>1. QED  BY <2>4
  <2> HIDE DEF f
  <2>6. \A i \in 1 .. N : f[i] = IF i = 1 THEN b[i] ELSE f[i - 1] \o b[i]
    BY <2>5
  <2>7. 0 \in T
    OBVIOUS
  <2>8. ASSUME NEW n \in 0 .. N - 1, n \in T  PROVE n + 1 \in T
    <3>1. n + 1 \in 1 .. N /\ n + 1 \in 0 .. N /\ (n + 1) - 1 = n
      OBVIOUS
    <3>2. CASE n = 0
      <4>1. n + 1 = 1
        BY <3>2
      <4>2. QED  BY <2>2, <2>6, <3>1, <4>1
    <3>3. CASE n # 0
      <4>1. n + 1 # 1
        BY <3>3
      <4>2. f[n + 1] = f[(n + 1) - 1] \o b[n + 1]
        BY <2>6, <3>1, <4>1
      <4>3. f[n] = g[n]
        BY <2>8, <3>3
      <4>4. g[n + 1] = g[n] \o b[n + 1]
        BY <3>1
      <4>5. QED  BY <3>1, <4>2, <4>3, <4>4
    <3>4. QED  BY <3>2, <3>3
  <2>9. 0 .. N \subseteq T
    <3> HIDE DEF T
    <3>1. QED  BY <2>7, <2>8, IntervalInduction
  <2>10. N \in 0 .. N
    OBVIOUS
  <2>11. f[N] = g[N]
    BY <1>3, <2>9, <2>10
  <2>12. QED  BY <2>1, <2>11
<1>4. QED  BY <1>2, <1>3

(* The bytes of each character of a text. *)
LEMMA TextBytes ==
  ASSUME NEW t \in Seq(Char)
  PROVE  [i \in DOMAIN t |-> Bytes[t[i]]] \in [1 .. Len(t) -> Seq(Nat)]
<1>1. DOMAIN t = 1 .. Len(t) /\ \A i \in 1 .. Len(t) : t[i] \in Char
  OBVIOUS
<1>2. \A i \in 1 .. Len(t) : Bytes[t[i]] \in Seq(Nat)
  BY <1>1, CharFacts
<1>3. QED  BY <1>1, <1>2

LEMMA BytesFacts ==
  ASSUME NEW t \in Seq(Char)
  PROVE  BytesOf(t) \in Seq(Nat)
<1> DEFINE N == Len(t)
           b == [i \in DOMAIN t |-> Bytes[t[i]]]
           V == Seq(Nat)
           step == [n \in 1 .. N |-> [x \in V |-> x \o b[n]]]
<1>1. N \in Nat /\ b \in [1 .. N -> V]
  BY TextBytes
<1>2. BytesOf(t) = FlattenSeq(b)
  BY DEF BytesOf
<1> HIDE DEF b
<1>3. step \in [1 .. N -> [V -> V]]
  <2>1. ASSUME NEW n \in 1 .. N, NEW x \in V  PROVE x \o b[n] \in V
    <3>1. b[n] \in V
      BY <1>1
    <3>2. QED  BY <3>1, ConcatProperties
  <2>2. QED  BY <2>1
<1>4. <<>> \in V
  OBVIOUS
<1>5. PICK f : Steps(f, N, V, <<>>, step)
  <2> HIDE DEF N, V, step
  <2>1. QED  BY <1>1, <1>3, <1>4, StepsExist
<1>6. f \in [0 .. N -> V] /\ f[0] = <<>>
  BY <1>5 DEF Steps
<1>7. ASSUME NEW n \in 1 .. N  PROVE f[n] = f[n - 1] \o b[n]
  <2>1. n - 1 \in 0 .. N
    BY <1>1
  <2>2. f[n] = step[n][f[n - 1]]
    BY <1>5 DEF Steps
  <2>3. f[n - 1] \in V
    BY <1>6, <2>1
  <2> HIDE DEF V
  <2>4. QED  BY <2>2, <2>3
<1>8. N \in 0 .. N
  BY <1>1
<1>9. FlattenSeq(b) = f[N]
  BY <1>1, <1>6, <1>7, FlattenSteps
<1>10. QED  BY <1>2, <1>6, <1>8, <1>9

(* In a text without CJK characters the loop only gathers the bytes. *)
LEMMA PlainLoop ==
  ASSUME NEW t \in Seq(Char), Range(t) \intersect CJK = {}
  PROVE  Scan(t) = Windows(BytesOf(t))
<1> DEFINE N == Len(t)
           b == [i \in DOMAIN t |-> Bytes[t[i]]]
           g == [i \in 0 .. N |-> Loop(t)[i].run]
           S == {i \in 0 .. N : Loop(t)[i].grams = <<>>}
<1>1. /\ N \in Nat /\ DOMAIN t = 1 .. N /\ \A i \in 1 .. N : t[i] \in Char /\ t[i] \notin CJK
      /\ DOMAIN b = 1 .. N /\ \A i \in 1 .. N : b[i] = Bytes[t[i]]
  BY DEF Range
<1>2. Loop(t)[0] = Start /\ \A i \in 0 .. N : Loop(t)[i] \in States
  BY LoopFacts
<1>3. ASSUME NEW i \in 1 .. N
      PROVE  /\ Loop(t)[i].grams = Loop(t)[i - 1].grams
             /\ Loop(t)[i].run = Loop(t)[i - 1].run \o b[i]
  <2>1. i - 1 \in 0 .. N
    BY <1>1
  <2>2. Loop(t)[i] = ScanChar(Loop(t)[i - 1], t[i])
    BY LoopFacts
  <2>3. PICK s \in States : s = Loop(t)[i - 1]
    BY <1>2, <2>1
  <2>4. PICK c \in Char : c = t[i] /\ c \notin CJK /\ b[i] = Bytes[c]
    BY <1>1
  <2>5. ScanChar(s, c).grams = s.grams /\ ScanChar(s, c).run = s.run \o Bytes[c]
    BY <2>4, ScanOther
  <2>6. QED  BY <2>2, <2>3, <2>4, <2>5
<1>4. 0 \in S
  BY <1>1, <1>2, StartFacts
<1>5. ASSUME NEW n \in 0 .. N - 1, n \in S  PROVE n + 1 \in S
  <2>1. n + 1 \in 1 .. N /\ n + 1 \in 0 .. N /\ (n + 1) - 1 = n
    BY <1>1
  <2>2. Loop(t)[n + 1].grams = Loop(t)[n].grams
    BY <1>3, <2>1
  <2>3. QED  BY <1>5, <2>1, <2>2
<1>6. 0 .. N \subseteq S
  <2> HIDE DEF S, N
  <2>1. QED  BY <1>1, <1>4, <1>5, IntervalInduction
<1>7. N \in 0 .. N
  BY <1>1
<1>8. Loop(t)[N].grams = <<>>
  BY <1>6, <1>7
<1>9. BytesOf(t) = Loop(t)[N].run
  <2>1. b \in [1 .. N -> Seq(Nat)] /\ BytesOf(t) = FlattenSeq(b)
    BY TextBytes DEF BytesOf
  <2>2. \A i \in 0 .. N : Loop(t)[i].run \in Seq(Nat) /\ g[i] = Loop(t)[i].run
    BY <1>2 DEF States
  <2>3. g \in [0 .. N -> Seq(Nat)] /\ g[0] = <<>>
    <3>1. 0 \in 0 .. N
      BY <1>1
    <3>2. QED  BY <1>2, <2>2, <3>1, StartFacts
  <2> HIDE DEF b
  <2>4. ASSUME NEW i \in 1 .. N  PROVE g[i] = g[i - 1] \o b[i]
    <3>1. i \in 0 .. N /\ i - 1 \in 0 .. N
      BY <1>1
    <3>2. QED  BY <1>3, <2>2, <3>1
  <2> HIDE DEF g, N
  <2>5. FlattenSeq(b) = g[N]
    BY <1>1, <2>1, <2>3, <2>4, FlattenSteps
  <2>6. QED  BY <1>7, <2>1, <2>2, <2>5
<1>10. Loop(t)[N].run \in Seq(Nat)
  BY <1>2, <1>7 DEF States
<1>11. Scan(t) = <<>> \o Windows(Loop(t)[N].run)
  BY <1>8 DEF Scan
<1>12. Windows(Loop(t)[N].run) \in Seq(Seq(Nat))
  BY <1>10, WindowsFacts
<1>13. Scan(t) = Windows(Loop(t)[N].run)
  BY <1>11, <1>12, ConcatEmptySeq
<1>14. QED  BY <1>9, <1>13

(* A text of three bytes has a gram. *)
LEMMA SomeGram ==
  ASSUME NEW t \in Seq(Char), Len(BytesOf(t)) >= 3
  PROVE  Range(Scan(t)) # {}
<1>1. CASE Range(t) \intersect CJK = {}
  <2>1. Scan(t) = Windows(BytesOf(t)) /\ Windows(BytesOf(t)) # <<>>
    BY <1>1, PlainLoop, BytesFacts, WindowsFacts
  <2>2. PICK s \in Seq(Seq(Nat)) : s = Scan(t)
    BY ScanFacts
  <2>3. Len(s) \in Nat /\ Len(s) # 0 /\ DOMAIN s = 1 .. Len(s)
    BY <2>1, <2>2
  <2>4. s[1] \in Range(s)
    <3>1. 1 \in DOMAIN s
      BY <2>3
    <3>2. QED  BY <3>1 DEF Range
  <2>5. QED  BY <2>2, <2>4
<1>2. CASE Range(t) \intersect CJK # {}
  <2>1. PICK i \in 1 .. Len(t) : t[i] \in CJK
    BY <1>2 DEF Range
  <2>2. i - 1 \in 0 .. Len(t) /\ i \in 0 .. Len(t) /\ t[i] \in Char
    OBVIOUS
  <2>3. Loop(t)[i - 1] \in States /\ Loop(t)[i] = ScanChar(Loop(t)[i - 1], t[i])
    BY <2>2, LoopFacts
  <2>4. Bytes[t[i]] \in Range(Loop(t)[i].grams)
    BY <2>1, <2>2, <2>3, ScanCJK
  <2>5. Bytes[t[i]] \in GramsSoFar(Loop(t)[i])
    BY <2>4 DEF GramsSoFar
  <2>6. Bytes[t[i]] \in Range(Scan(t))
    BY <2>2, <2>5, LoopKeeps, ScanFacts
  <2>7. QED  BY <2>6
<1>3. QED  BY <1>1, <1>2
(* The case of a text. *)
LEMMA LowerFacts ==
  ASSUME NEW t \in Seq(Char)
  PROVE  /\ Lower(t, LowerIndexed) \in Seq(Char) /\ Lower(t, LowerQueried) \in Seq(Char)
         /\ Range(t) \intersect CJK = {} => Range(Lower(t, LowerIndexed)) \intersect CJK = {}
<1>1. /\ Len(t) \in Nat /\ DOMAIN t = 1 .. Len(t) /\ \A i \in 1 .. Len(t) : t[i] \in Char
      /\ LowerIndexed \in [Char -> Char] /\ LowerQueried \in [Char -> Char]
      /\ \A c \in Char : LowerIndexed[c] \in CJK => c \in CJK
  BY SearchAssumption DEF SearchAssumption
<1>2. \A i \in 1 .. Len(t) : LowerIndexed[t[i]] \in Char /\ LowerQueried[t[i]] \in Char
  BY <1>1
<1>3. PICK n \in Nat : n = Len(t)
  BY <1>1
<1>4. /\ Lower(t, LowerIndexed) \in [1 .. n -> Char] /\ Lower(t, LowerQueried) \in [1 .. n -> Char]
      /\ \A i \in 1 .. n : Lower(t, LowerIndexed)[i] = LowerIndexed[t[i]]
  BY <1>1, <1>2, <1>3 DEF Lower
<1>5. Lower(t, LowerIndexed) \in Seq(Char) /\ Lower(t, LowerQueried) \in Seq(Char)
  BY <1>4
<1>6. ASSUME Range(t) \intersect CJK = {}
      PROVE  Range(Lower(t, LowerIndexed)) \intersect CJK = {}
  <2>1. \A i \in 1 .. n : t[i] \notin CJK
    BY <1>1, <1>3, <1>6 DEF Range
  <2>2. \A i \in 1 .. n : Lower(t, LowerIndexed)[i] \notin CJK
    BY <1>1, <1>3, <1>4, <2>1
  <2>3. DOMAIN Lower(t, LowerIndexed) = 1 .. n
    BY <1>4
  <2>4. QED  BY <2>2, <2>3 DEF Range
<1>7. QED  BY <1>5, <1>6

(* A part of a text without CJK characters has none. *)
LEMMA PartRange ==
  ASSUME NEW t \in Seq(Char), NEW q \in Seq(Char), ContainsText(t, q)
  PROVE  Range(q) \subseteq Range(t)
<1>1. PICK n \in Nat, l \in Nat : n = Len(t) /\ l = Len(q)
  OBVIOUS
<1>2. PICK o \in 0 .. n - l : SubSeq(t, o + 1, o + l) = q
  BY <1>1 DEF ContainsText
<1>3. ASSUME NEW k \in 1 .. l  PROVE q[k] \in Range(t)
  <2>1. o + 1 \in Int /\ o + l \in Int /\ \A i \in o + 1 .. o + l : i \in 1 .. n
    BY <1>1
  <2>2. \A i \in o + 1 .. o + l : t[i] \in Char
    BY <1>1, <2>1
  <2>3. \A i \in 1 .. (o + l) - (o + 1) + 1 : SubSeq(t, o + 1, o + l)[i] = t[(o + 1) + i - 1]
    BY <2>1, <2>2, SubSeqProperties
  <2>4. k \in 1 .. (o + l) - (o + 1) + 1 /\ (o + 1) + k - 1 = o + k /\ o + k \in 1 .. n
    BY <1>1
  <2>5. q[k] = t[o + k] /\ o + k \in DOMAIN t
    BY <1>1, <1>2, <2>3, <2>4
  <2>6. QED  BY <2>5 DEF Range
<1>4. DOMAIN q = 1 .. l
  BY <1>1
<1>5. QED  BY <1>3, <1>4 DEF Range
-----------------------------------------------------------------------------

(* The posting list of each gram and the grams of each query, as values: *)
(* no step changes them.                                                 *)
Postings == [g \in Seq(Nat) |-> Posting(g)]
Grams == [q \in Query |-> QueryGrams(q)]

(* The entries that a search must find: they have all its grams, none of *)
(* which was left out of the table.                                      *)
Matching(q) ==
  {d \in Doc : /\ QueryGrams(q) # <<>>
               /\ \A g \in Range(QueryGrams(q)) : d \in Posting(g) /\ ~ Pruned(g)}

Matches == [q \in Query |-> Matching(q)]

Call == [at : {"idle", "lookup", "load", "sort", "and", "done"},
         query : Query \union {<<>>}, todo : Seq(Seq(Nat)), held : SUBSET Nat,
         order : Seq(Nat), result : SUBSET Doc, whole : BOOLEAN]

(* A call c where the bitmaps in D exist and the grams in T have a list. *)
CallOK(c, D, T) ==
  /\ c.held \subseteq D
  /\ Range(c.order) \subseteq c.held
  /\ c.at # "idle" => c.query \in Query
  /\ c.at \in {"lookup", "load"} => c.todo # <<>>
  /\ c.at = "load" => Head(c.todo) \in T
  /\ c.at = "sort" => c.todo = <<>>

(* Each gram of the query is still to be looked up, or one of the bitmaps *)
(* that the call goes on with has only entries with that gram.            *)
CallSound(c, bm, post, grams) ==
  c.at # "idle" =>
    \A g \in Range(grams[c.query]) :
      /\ c.at \in {"lookup", "load", "sort"} =>
           g \in Range(c.todo) \/ \E b \in c.held : bm[b] \subseteq post[g]
      /\ c.at = "and" => \E b \in Range(c.order) : bm[b] \subseteq post[g]
      /\ c.at = "done" => c.result \subseteq post[g]

(* As long as its bitmaps were whole, a call c has lost nothing that it must *)
(* find, and it looks only for its grams.                                   *)
CallWhole(c, bm, match, grams) ==
  c.at # "idle" =>
    /\ c.at \in {"lookup", "load"} => Range(c.todo) \subseteq Range(grams[c.query])
    /\ c.whole =>
         /\ c.at \in {"lookup", "load", "sort"} => \A b \in c.held : match[c.query] \subseteq bm[b]
         /\ c.at = "and" => \A b \in Range(c.order) : match[c.query] \subseteq bm[b]
         /\ c.at = "done" => match[c.query] \subseteq c.result

Fixed ==
  /\ text \in Corpus
  /\ table = Build

Bitmaps ==
  /\ bitmaps \in Seq(SUBSET Doc)
  /\ searches \in 0 .. MaxSearches /\ raced \in BOOLEAN

Cache ==
  /\ lru \in Seq([gram : DOMAIN table, bitmap : Nat])
  /\ \A i \in 1 .. Len(lru) : lru[i].bitmap \in DOMAIN bitmaps
  /\ Len(lru) <= BitmapMax
  /\ DOMAIN cache \subseteq DOMAIN table
  /\ \A g \in DOMAIN cache : cache[g] \in DOMAIN bitmaps
  /\ \A g \in DOMAIN cache : \E i \in 1 .. Len(lru) : lru[i] = [gram |-> g, bitmap |-> cache[g]]

Calls ==
  /\ search \in [Searcher -> Call]
  /\ \A r \in Searcher : CallOK(search[r], DOMAIN bitmaps, DOMAIN table)

(* Without a race bitmaps only lose entries, so that what was once below a *)
(* posting list stays below it.                                            *)
SoundSoFar ==
  ~raced =>
    /\ \A g \in DOMAIN cache : bitmaps[cache[g]] \subseteq Postings[g]
    /\ \A r \in Searcher : CallSound(search[r], bitmaps, Postings, Grams)

IInv == Fixed /\ Bitmaps /\ Cache /\ Calls /\ SoundSoFar

(* What Found needs on top of that. *)
WholeSoFar == ~raced => \A r \in Searcher : CallWhole(search[r], bitmaps, Matches, Grams)

-----------------------------------------------------------------------------
(* The section is what Build made of the text. *)
LEMMA TableFacts ==
  ASSUME Fixed
  PROVE  /\ \A g \in DOMAIN table : table[g] = Posting(g)
         /\ \A g : Posting(g) \subseteq Doc
BY DEF Fixed, Build, Posting

(* The grams of a query, and which they are. *)
LEMMA QueryFacts ==
  ASSUME NEW q \in Query
  PROVE  /\ Lower(q, LowerQueried) \in Seq(Char)
         /\ ScannedGrams(q) \in Seq(Seq(Nat)) /\ PlainGrams(q) \in Seq(Seq(Nat))
         /\ Range(ScannedGrams(q)) = Range(Scan(Lower(q, LowerQueried)))
         /\ Range(PlainGrams(q)) = Range(Windows(BytesOf(Lower(q, LowerQueried))))
<1>1. q \in Seq(Char)
  BY SearchAssumption DEF SearchAssumption
<1>2. PICK p \in Seq(Char) : p = Lower(q, LowerQueried)
  BY <1>1, LowerFacts
<1>3. Scan(p) \in Seq(Seq(Nat)) /\ Windows(BytesOf(p)) \in Seq(Seq(Nat))
  BY ScanFacts, BytesFacts, WindowsFacts
<1>4. /\ Distinct(Scan(p)) \in Seq(Seq(Nat)) /\ Range(Distinct(Scan(p))) = Range(Scan(p))
      /\ Distinct(Windows(BytesOf(p))) \in Seq(Seq(Nat))
      /\ Range(Distinct(Windows(BytesOf(p)))) = Range(Windows(BytesOf(p)))
  BY <1>3, DistinctFacts
<1>5. QED  BY <1>2, <1>4 DEF ScannedGrams, PlainGrams

LEMMA GramFacts ==
  ASSUME NEW q \in Query
  PROVE  QueryGrams(q) \in Seq(Seq(Nat)) /\ Grams[q] = QueryGrams(q)
BY QueryFacts DEF QueryGrams, Grams

LEMMA FixedStays ==
  ASSUME Fixed, UNCHANGED <<text, table>>
  PROVE  /\ Fixed' /\ Doc' = Doc /\ Postings' = Postings /\ Grams' = Grams /\ Call' = Call
         /\ Matches' = Matches
<1>1. Doc' = Doc
  BY DEF Doc
<1>2. \A d : TextGrams(d)' = TextGrams(d)
  BY DEF TextGrams
<1>3. \A g : Posting(g)' = Posting(g)
  BY <1>1, <1>2 DEF Posting
<1>4. HasCJK' <=> HasCJK
  BY <1>1 DEF HasCJK
<1>5. \A q : QueryGrams(q)' = QueryGrams(q)
  BY <1>4 DEF QueryGrams
<1>6. \A g : Pruned(g)' <=> Pruned(g)
  BY <1>1, <1>3 DEF Pruned
<1>7. Build' = Build
  <2>1. UNION {TextGrams(d) : d \in Doc}' = UNION {TextGrams(d) : d \in Doc}
    BY <1>1, <1>2
  <2>2. QED  BY <1>3, <1>6, <2>1 DEF Build
<1>8. \A q : Matching(q)' = Matching(q)
  BY <1>1, <1>3, <1>5, <1>6 DEF Matching
<1>9. QED  BY <1>1, <1>3, <1>5, <1>7, <1>8 DEF Fixed, Postings, Grams, Call, Matches

LEMMA IdleFacts ==
  /\ Idle \in Call
  /\ Idle.at = "idle" /\ Idle.held = {} /\ Idle.order = <<>> /\ Idle.result = {}
BY DEF Idle, Call

LEMMA InitOK == Init => IInv
<1> SUFFICES ASSUME Init  PROVE IInv
  OBVIOUS
<1>1. Fixed
  BY DEF Init, Fixed
<1>2. Bitmaps
  <2>1. MaxSearches \in Nat
    BY SearchAssumption DEF SearchAssumption
  <2>2. bitmaps = <<>> /\ searches = 0 /\ raced = FALSE
    BY DEF Init
  <2>3. bitmaps \in Seq(SUBSET Doc)
    BY <2>2
  <2>4. searches \in 0 .. MaxSearches
    BY <2>1, <2>2
  <2>5. raced \in BOOLEAN
    BY <2>2
  <2>6. QED  BY <2>3, <2>4, <2>5 DEF Bitmaps
<1>3. Cache
  <2>1. lru = <<>> /\ cache = <<>> /\ Len(lru) = 0 /\ DOMAIN cache = {} /\ BitmapMax \in Nat
    BY SearchAssumption DEF Init, SearchAssumption
  <2>2. QED  BY <2>1 DEF Cache
<1>4. Idle \in Call
  BY IdleFacts
<1>5. search \in [Searcher -> Call] /\ \A r \in Searcher : search[r] = Idle
  BY <1>4 DEF Init
<1>6. \A D, T : CallOK(Idle, D, T)
  <2>1. Idle.order = <<>> /\ Range(Idle.order) = {} /\ Idle.held = {} /\ Idle.at = "idle"
    BY DEF Idle, Range
  <2>2. QED  BY <2>1 DEF CallOK
<1>7. Calls
  BY <1>5, <1>6 DEF Calls
<1>8. SoundSoFar
  <2>1. DOMAIN cache = {}
    BY DEF Init
  <2>2. \A r \in Searcher : search[r].at = "idle"
    BY <1>5 DEF Idle
  <2>3. QED  BY <2>1, <2>2 DEF SoundSoFar, CallSound
<1>9. QED  BY <1>1, <1>2, <1>3, <1>7, <1>8 DEF IInv

-----------------------------------------------------------------------------
(* A step that gives call c to r: the others keep what they have, but may *)
(* learn that a bitmap of theirs is not whole; bitmaps are added and lose *)
(* entries, unless there was a race.                                      *)
Alike(c, d) ==
  /\ c.at = d.at /\ c.query = d.query /\ c.todo = d.todo
  /\ c.held = d.held /\ c.order = d.order /\ c.result = d.result

Narrowed ==
  /\ DOMAIN bitmaps \subseteq DOMAIN bitmaps'
  /\ ~raced' => ~raced /\ \A b \in DOMAIN bitmaps : bitmaps'[b] \subseteq bitmaps[b]

LEMMA AlikeOK ==
  ASSUME NEW c, NEW d, NEW D, NEW E, NEW T, Alike(d, c), CallOK(c, D, T), D \subseteq E
  PROVE  CallOK(d, E, T)
BY DEF Alike, CallOK

LEMMA AlikeSound ==
  ASSUME NEW c, NEW d, NEW D, NEW T, NEW bm, NEW bn, NEW P, NEW G,
         Alike(d, c), CallOK(c, D, T), CallSound(c, bm, P, G),
         \A b \in D : bn[b] \subseteq bm[b]
  PROVE  CallSound(d, bn, P, G)
<1> SUFFICES ASSUME d.at # "idle", NEW g \in Range(G[d.query])
             PROVE  /\ d.at \in {"lookup", "load", "sort"} =>
                          g \in Range(d.todo) \/ \E b \in d.held : bn[b] \subseteq P[g]
                    /\ d.at = "and" => \E b \in Range(d.order) : bn[b] \subseteq P[g]
                    /\ d.at = "done" => d.result \subseteq P[g]
  BY DEF CallSound
<1>1. /\ c.at \in {"lookup", "load", "sort"} =>
           g \in Range(c.todo) \/ \E b \in c.held : bm[b] \subseteq P[g]
      /\ c.at = "and" => \E b \in Range(c.order) : bm[b] \subseteq P[g]
      /\ c.at = "done" => c.result \subseteq P[g]
  BY DEF Alike, CallSound
<1>2. \A b \in c.held : b \in D
  BY DEF CallOK
<1>3. \A b \in Range(c.order) : b \in D
  BY DEF CallOK
<1>4. QED  BY <1>1, <1>2, <1>3 DEF Alike

LEMMA CallsStep ==
  ASSUME IInv, UNCHANGED <<text, table>>, Narrowed,
         NEW r \in Searcher, search' \in [Searcher -> Call],
         \A s \in Searcher \ {r} : Alike(search'[s], search[s]),
         CallOK(search'[r], DOMAIN bitmaps', DOMAIN table),
         ~raced' => CallSound(search'[r], bitmaps', Postings, Grams)
  PROVE  /\ Calls'
         /\ ~raced' => \A s \in Searcher : CallSound(search'[s], bitmaps', Postings, Grams)
<1>1. \A s \in Searcher : CallOK(search[s], DOMAIN bitmaps, DOMAIN table)
  BY DEF IInv, Calls
<1>2. \A s \in Searcher \ {r} : CallOK(search'[s], DOMAIN bitmaps', DOMAIN table)
  BY <1>1, AlikeOK DEF Narrowed
<1>3. Call' = Call
  BY FixedStays DEF IInv
<1>4. Calls'
  BY <1>2, <1>3 DEF Calls
<1>5. ASSUME ~raced', NEW s \in Searcher \ {r}
      PROVE  CallSound(search'[s], bitmaps', Postings, Grams)
  <2>1. CallSound(search[s], bitmaps, Postings, Grams)
    BY <1>5 DEF IInv, SoundSoFar, Narrowed
  <2>2. \A b \in DOMAIN bitmaps : bitmaps'[b] \subseteq bitmaps[b]
    BY <1>5 DEF Narrowed
  <2>3. QED  BY <1>1, <2>1, <2>2, AlikeSound
<1>6. QED  BY <1>4, <1>5

(* The cache is as it was. *)
LEMMA CacheSame ==
  ASSUME IInv, Narrowed, UNCHANGED <<table, cache, lru>>
  PROVE  /\ Cache'
         /\ ~raced' => \A g \in DOMAIN cache' : bitmaps'[cache'[g]] \subseteq Postings[g]
<1>1. Cache'
  BY DEF IInv, Cache, Narrowed
<1>2. ASSUME ~raced', NEW g \in DOMAIN cache
      PROVE  bitmaps'[cache[g]] \subseteq Postings[g]
  <2>1. cache[g] \in DOMAIN bitmaps /\ bitmaps[cache[g]] \subseteq Postings[g]
    BY <1>2 DEF IInv, Cache, SoundSoFar, Narrowed
  <2>2. bitmaps'[cache[g]] \subseteq bitmaps[cache[g]]
    BY <1>2, <2>1 DEF Narrowed
  <2>3. QED  BY <2>1, <2>2
<1>3. QED  BY <1>1, <1>2

(* What is to be shown of a step. *)
LEMMA Assemble ==
  ASSUME IInv, UNCHANGED <<text, table>>, Bitmaps', Cache', Calls',
         ~raced' => \A g \in DOMAIN cache' : bitmaps'[cache'[g]] \subseteq Postings[g],
         ~raced' => \A s \in Searcher : CallSound(search'[s], bitmaps', Postings, Grams)
  PROVE  IInv'
BY FixedStays DEF IInv, SoundSoFar

(* The types of a call's record, and an update of it. *)
LEMMA CallFacts ==
  ASSUME IInv, NEW r \in Searcher
  PROVE  /\ search[r] \in Call /\ DOMAIN search = Searcher
         /\ CallOK(search[r], DOMAIN bitmaps, DOMAIN table)
         /\ ~raced => CallSound(search[r], bitmaps, Postings, Grams)
BY DEF IInv, Calls, SoundSoFar

LEMMA UpdateFacts ==
  ASSUME IInv, NEW r \in Searcher, NEW c \in Call, search' = [search EXCEPT ![r] = c]
  PROVE  /\ search' \in [Searcher -> Call] /\ search'[r] = c
         /\ \A s \in Searcher \ {r} : Alike(search'[s], search[s])
BY DEF IInv, Calls, Alike

(* An idle call, and one that returns docs. *)
LEMMA ReturnedFacts ==
  ASSUME IInv, NEW r \in Searcher, NEW docs \in SUBSET Doc, search[r].query \in Query
  PROVE  /\ Returned(r, docs) \in Call
         /\ \A D, T : CallOK(Returned(r, docs), D, T)
         /\ Returned(r, docs).at = "done" /\ Returned(r, docs).query = search[r].query
         /\ Returned(r, docs).result = docs
<1> DEFINE c == Returned(r, docs)
<1>1. search[r].whole \in BOOLEAN /\ search[r].query \in Query \union {<<>>}
  BY CallFacts DEF Call
<1>2. /\ c \in Call
      /\ c.at = "done" /\ c.query = search[r].query /\ c.result = docs
      /\ c.held = Idle.held /\ c.order = Idle.order
  BY <1>1, IdleFacts DEF Returned, Call
<1>3. c.order = <<>> /\ Range(c.order) = {} /\ c.held = {}
  BY <1>2, IdleFacts DEF Range
<1>4. QED  BY <1>2, <1>3 DEF CallOK

LEMMA ReturnedSound ==
  ASSUME IInv, NEW r \in Searcher, NEW docs \in SUBSET Doc, search[r].query \in Query, NEW bm,
         \A g \in Range(Grams[search[r].query]) : docs \subseteq Postings[g]
  PROVE  CallSound(Returned(r, docs), bm, Postings, Grams)
BY ReturnedFacts DEF CallSound

(* A step that leaves bitmaps and cache alone. *)
LEMMA QuietStep ==
  ASSUME IInv, UNCHANGED <<text, table, bitmaps, cache, lru, raced>>,
         searches' \in 0 .. MaxSearches,
         NEW r \in Searcher, NEW c \in Call, search' = [search EXCEPT ![r] = c],
         CallOK(c, DOMAIN bitmaps, DOMAIN table),
         ~raced => CallSound(c, bitmaps, Postings, Grams)
  PROVE  IInv'
<1>1. Narrowed
  BY DEF Narrowed
<1>2. Bitmaps'
  BY FixedStays DEF IInv, Bitmaps
<1>3. /\ Cache'
      /\ ~raced' => \A g \in DOMAIN cache' : bitmaps'[cache'[g]] \subseteq Postings[g]
  BY <1>1, CacheSame
<1>4. /\ search' \in [Searcher -> Call] /\ search'[r] = c
      /\ \A s \in Searcher \ {r} : Alike(search'[s], search[s])
  BY UpdateFacts
<1>5. /\ Calls'
      /\ ~raced' => \A s \in Searcher : CallSound(search'[s], bitmaps', Postings, Grams)
  BY <1>1, <1>4, CallsStep
<1>6. QED  BY <1>2, <1>3, <1>5, Assemble

LEMMA BeginOK ==
  ASSUME IInv, NEW r \in Searcher, NEW q \in Query, Begin(r, q)
  PROVE  IInv'
<1> DEFINE c == [Idle EXCEPT !.at = IF QueryGrams(q) = <<>> THEN "done" ELSE "lookup",
                             !.query = q, !.todo = QueryGrams(q)]
<1>1. search' = [search EXCEPT ![r] = c] /\ UNCHANGED <<text, table, bitmaps, cache, lru, raced>>
  BY DEF Begin
<1>2. searches' \in 0 .. MaxSearches
  <2>1. MaxSearches \in Nat /\ searches \in 0 .. MaxSearches
    BY SearchAssumption DEF SearchAssumption, IInv, Bitmaps
  <2>2. searches < MaxSearches /\ searches' = searches + 1
    BY DEF Begin
  <2>3. QED  BY <2>1, <2>2
<1>3. /\ c \in Call
      /\ c.at = IF QueryGrams(q) = <<>> THEN "done" ELSE "lookup"
      /\ c.query = q /\ c.todo = QueryGrams(q)
      /\ c.held = {} /\ c.order = <<>> /\ c.result = {}
  BY GramFacts, IdleFacts DEF Call
<1> HIDE DEF c
<1>4. CallOK(c, DOMAIN bitmaps, DOMAIN table)
  <2>1. c.order = <<>> /\ Range(c.order) = {}
    BY <1>3 DEF Range
  <2>2. QED  BY <1>3, <2>1 DEF CallOK
<1>5. CallSound(c, bitmaps, Postings, Grams)
  <2>1. Grams[c.query] = c.todo
    BY <1>3, GramFacts
  <2>2. QED  BY <1>3, <2>1 DEF CallSound
<1>6. QED  BY <1>1, <1>2, <1>3, <1>4, <1>5, QuietStep

LEMMA FinishOK ==
  ASSUME IInv, NEW r \in Searcher, Finish(r)
  PROVE  IInv'
<1> DEFINE docs == bitmaps[search[r].order[1]]
<1>1. /\ search[r].at = "and" /\ Len(search[r].order) = 1
      /\ search' = [search EXCEPT ![r] = Returned(r, docs)]
      /\ UNCHANGED <<text, table, bitmaps, cache, lru, searches, raced>>
  BY DEF Finish, Return
<1>2. search[r].order \in Seq(Nat) /\ search[r].query \in Query
  BY <1>1, CallFacts DEF Call, CallOK
<1>3. DOMAIN search[r].order = {1}
  BY <1>1, <1>2
<1>4. Range(search[r].order) = {search[r].order[1]}
  BY <1>3 DEF Range
<1>5. search[r].order[1] \in DOMAIN bitmaps
  BY <1>4, CallFacts DEF CallOK
<1>6. docs \in SUBSET Doc
  BY <1>5 DEF IInv, Bitmaps
<1>7. ASSUME ~raced  PROVE \A g \in Range(Grams[search[r].query]) : docs \subseteq Postings[g]
  BY <1>1, <1>4, <1>7, CallFacts DEF CallSound
<1> HIDE DEF docs
<1>8. searches' \in 0 .. MaxSearches
  BY <1>1 DEF IInv, Bitmaps
<1>9. QED
  BY <1>1, <1>2, <1>6, <1>7, <1>8, ReturnedFacts, ReturnedSound, QuietStep

(* A gram without a list ends the search with nothing. *)
LEMMA LookupMissOK ==
  ASSUME IInv, NEW r \in Searcher, LookupMiss(r)
  PROVE  IInv'
<1>1. /\ search[r].at = "lookup"
      /\ UNCHANGED <<text, table, bitmaps, cache, lru, searches, raced>>
  BY DEF LookupMiss
<1>2. searches' \in 0 .. MaxSearches /\ search[r].query \in Query
  BY <1>1, CallFacts DEF IInv, Bitmaps, CallOK
<1>3. CASE NextGram(r) \in DOMAIN table
  <2> DEFINE c == [search[r] EXCEPT !.at = "load"]
  <2>1. search' = [search EXCEPT ![r] = c]
    BY <1>3 DEF LookupMiss
  <2>2. /\ c \in Call /\ c.at = "load" /\ c.query = search[r].query /\ c.todo = search[r].todo
        /\ c.held = search[r].held /\ c.order = search[r].order
    BY CallFacts DEF Call
  <2> HIDE DEF c
  <2>3. CallOK(c, DOMAIN bitmaps, DOMAIN table)
    BY <1>1, <1>3, <2>2, CallFacts DEF CallOK, NextGram
  <2>4. ~raced => CallSound(c, bitmaps, Postings, Grams)
    BY <1>1, <2>2, CallFacts DEF CallSound
  <2>5. QED  BY <1>1, <1>2, <2>1, <2>2, <2>3, <2>4, QuietStep
<1>4. CASE NextGram(r) \notin DOMAIN table
  <2>1. search' = [search EXCEPT ![r] = Returned(r, {})]
    BY <1>4 DEF LookupMiss, Return
  <2>2. QED  BY <1>1, <1>2, <2>1, ReturnedFacts, ReturnedSound, QuietStep
<1>5. QED  BY <1>3, <1>4

-----------------------------------------------------------------------------
(* A bitmap for the next gram. *)
LEMMA HeadTail ==
  ASSUME NEW S, NEW s \in Seq(S), s # <<>>
  PROVE  /\ Head(s) \in S /\ Tail(s) \in Seq(S)
         /\ \A x \in Range(s) : x = Head(s) \/ x \in Range(Tail(s))
         /\ Len(s) = 1 => Tail(s) = <<>>
         /\ Len(s) # 1 => Tail(s) # <<>>
<1>1. Len(s) \in Nat /\ Len(s) # 0 /\ DOMAIN s = 1 .. Len(s)
  OBVIOUS
<1>2. /\ Head(s) \in S /\ Tail(s) \in Seq(S) /\ Len(Tail(s)) = Len(s) - 1
      /\ Head(s) = s[1] /\ DOMAIN Tail(s) = 1 .. Len(s) - 1
      /\ \A k \in 1 .. Len(s) - 1 : Tail(s)[k] = s[k + 1]
  BY <1>1
<1>3. ASSUME NEW k \in DOMAIN s, k # 1  PROVE s[k] \in Range(Tail(s))
  <2>1. k - 1 \in 1 .. Len(s) - 1 /\ (k - 1) + 1 = k
    BY <1>1, <1>3
  <2>2. Tail(s)[k - 1] = s[k]
    BY <1>2, <2>1
  <2>3. QED  BY <1>2, <2>1, <2>2 DEF Range
<1>4. \A x \in Range(s) : x = Head(s) \/ x \in Range(Tail(s))
  BY <1>2, <1>3 DEF Range
<1>5. Len(s) = 1 => Tail(s) = <<>>
  BY <1>1, <1>2
<1>6. Len(s) # 1 => Tail(s) # <<>>
  <2>1. Len(s) # 1 => Len(Tail(s)) # 0
    BY <1>1, <1>2
  <2>2. QED  BY <2>1
<1>7. QED  BY <1>2, <1>4, <1>5, <1>6

LEMMA TakeOK ==
  ASSUME IInv, Narrowed, NEW r \in Searcher, NEW b \in Nat, Take(r, b),
         search[r].at \in {"lookup", "load"}, b \in DOMAIN bitmaps',
         ~raced' => bitmaps'[b] \subseteq Postings[NextGram(r)]
  PROVE  /\ search' \in [Searcher -> Call]
         /\ \A s \in Searcher \ {r} : Alike(search'[s], search[s])
         /\ CallOK(search'[r], DOMAIN bitmaps', DOMAIN table)
         /\ ~raced' => CallSound(search'[r], bitmaps', Postings, Grams)
<1> DEFINE w == bitmaps'[b] = table[NextGram(r)]
           d == [search[r] EXCEPT
                   !.at = IF Len(search[r].todo) = 1 THEN "sort" ELSE "lookup",
                   !.todo = Tail(@), !.held = @ \union {b}, !.whole = @ /\ w]
<1>1. search[r] \in Call /\ CallOK(search[r], DOMAIN bitmaps, DOMAIN table)
  BY CallFacts
<1>2. search[r].todo \in Seq(Seq(Nat)) /\ search[r].todo # <<>>
  BY <1>1 DEF Call, CallOK
<1>3. Tail(search[r].todo) \in Seq(Seq(Nat))
  BY <1>2, HeadTail
<1>4. search[r].held \union {b} \subseteq Nat
  BY <1>1 DEF Call
<1>5. (search[r].whole /\ w) \in BOOLEAN
  OBVIOUS
<1>6. search' = [search EXCEPT ![r] = d]
  BY DEF Take, IInv, Calls
<1>7. /\ d \in Call /\ d.todo = Tail(search[r].todo)
      /\ d.at = IF Len(search[r].todo) = 1 THEN "sort" ELSE "lookup"
      /\ d.held = search[r].held \union {b} /\ d.order = search[r].order
      /\ d.query = search[r].query
  BY <1>1, <1>3, <1>4, <1>5 DEF Call
<1> HIDE DEF d, w
<1>8. /\ search' \in [Searcher -> Call] /\ search'[r] = d
      /\ \A s \in Searcher \ {r} : Alike(search'[s], search[s])
  BY <1>6, <1>7, UpdateFacts
<1>9. CallOK(d, DOMAIN bitmaps', DOMAIN table)
  <2>1. d.at \in {"sort", "lookup"} /\ d.query \in Query
    BY <1>1, <1>7 DEF CallOK
  <2>2. d.at = "sort" => d.todo = <<>>
    BY <1>2, <1>7, HeadTail
  <2>3. d.at = "lookup" => d.todo # <<>>
    BY <1>2, <1>7, HeadTail
  <2>4. d.held \subseteq DOMAIN bitmaps' /\ Range(d.order) \subseteq d.held
    BY <1>1, <1>7 DEF CallOK, Narrowed
  <2>5. QED  BY <2>1, <2>2, <2>3, <2>4 DEF CallOK
<1>10. ASSUME ~raced'  PROVE CallSound(d, bitmaps', Postings, Grams)
  <2> SUFFICES ASSUME NEW g \in Range(Grams[search[r].query])
               PROVE  g \in Range(d.todo) \/ \E x \in d.held : bitmaps'[x] \subseteq Postings[g]
    BY <1>7 DEF CallSound
  <2>1. g \in Range(search[r].todo) \/ \E x \in search[r].held : bitmaps[x] \subseteq Postings[g]
    BY <1>10, CallFacts DEF Narrowed, CallSound
  <2>2. CASE g = NextGram(r)
    BY <1>7, <1>10, <2>2
  <2>3. CASE g \in Range(search[r].todo) /\ g # NextGram(r)
    BY <1>2, <1>7, <2>3, HeadTail DEF NextGram
  <2>4. CASE \E x \in search[r].held : bitmaps[x] \subseteq Postings[g]
    <3>1. PICK x \in search[r].held : bitmaps[x] \subseteq Postings[g]
      BY <2>4
    <3>2. x \in DOMAIN bitmaps
      BY <1>1 DEF CallOK
    <3>3. bitmaps'[x] \subseteq Postings[g]
      BY <1>10, <3>1, <3>2 DEF Narrowed
    <3>4. QED  BY <1>7, <3>3
  <2>5. QED  BY <2>1, <2>2, <2>3, <2>4
<1>11. QED  BY <1>8, <1>9, <1>10

-----------------------------------------------------------------------------
(* The operations of the cache: a move keeps the elements of the list. *)
LEMMA MoveFacts ==
  ASSUME NEW S, NEW s \in Seq(S), NEW i \in 1 .. Len(s)
  PROVE  /\ MoveToFront(s, i) \in Seq(S) /\ Len(MoveToFront(s, i)) = Len(s)
         /\ \A k \in 1 .. Len(s) : \E j \in 1 .. Len(s) : MoveToFront(s, i)[k] = s[j]
         /\ \A j \in 1 .. Len(s) : \E k \in 1 .. Len(s) : MoveToFront(s, i)[k] = s[j]
<1> DEFINE t == MoveToFront(s, i)
<1>1. Len(s) \in Nat /\ \A k \in 1 .. Len(s) : s[k] \in S
  OBVIOUS
<1>2. /\ DOMAIN t = 1 .. Len(s)
      /\ \A k \in 1 .. Len(s) :
           t[k] = IF k = 1 THEN s[i] ELSE IF k <= i THEN s[k - 1] ELSE s[k]
      /\ t = [k \in 1 .. Len(s) |-> t[k]]
  BY DEF MoveToFront
<1> HIDE DEF t
<1>3. \A k \in 1 .. Len(s) : \E j \in 1 .. Len(s) : t[k] = s[j]
  <2> SUFFICES ASSUME NEW k \in 1 .. Len(s)  PROVE \E j \in 1 .. Len(s) : t[k] = s[j]
    OBVIOUS
  <2>1. k # 1 => k - 1 \in 1 .. Len(s)
    BY <1>1
  <2>2. QED  BY <1>2, <2>1
<1>4. \A j \in 1 .. Len(s) : \E k \in 1 .. Len(s) : t[k] = s[j]
  <2> SUFFICES ASSUME NEW j \in 1 .. Len(s)  PROVE \E k \in 1 .. Len(s) : t[k] = s[j]
    OBVIOUS
  <2>1. CASE j = i
    <3>1. 1 \in 1 .. Len(s)
      BY <1>1
    <3>2. t[1] = s[i]
      BY <1>2, <3>1
    <3>3. QED  BY <2>1, <3>1, <3>2
  <2>2. CASE j < i
    <3>1. j + 1 \in 1 .. Len(s) /\ j + 1 # 1 /\ j + 1 <= i /\ (j + 1) - 1 = j
      BY <1>1, <2>2
    <3>2. QED  BY <1>2, <3>1
  <2>3. CASE j > i
    <3>1. j # 1 /\ ~(j <= i)
      BY <1>1, <2>3
    <3>2. QED  BY <1>2, <3>1
  <2>4. QED  BY <1>1, <2>1, <2>2, <2>3
<1>5. \A k \in 1 .. Len(s) : t[k] \in S
  BY <1>1, <1>3
<1>6. t \in Seq(S) /\ Len(t) = Len(s)
  BY <1>1, <1>2, <1>5
<1>7. QED  BY <1>3, <1>4, <1>6 DEF t

LEMMA LookupHitOK ==
  ASSUME IInv, NEW r \in Searcher, LookupHit(r)
  PROVE  IInv'
<1> DEFINE g == NextGram(r)
           b == cache[g]
<1>1. /\ search[r].at = "lookup" /\ g \in DOMAIN cache
      /\ UNCHANGED <<text, table, bitmaps, cache, searches, raced>>
      /\ Take(r, b)
  BY DEF LookupHit
<1>2. PICK i \in DOMAIN lru : lru' = MoveToFront(lru, i)
  BY DEF LookupHit
<1>3. lru \in Seq([gram : DOMAIN table, bitmap : Nat]) /\ i \in 1 .. Len(lru)
  BY DEF IInv, Cache
<1>4. /\ lru' \in Seq([gram : DOMAIN table, bitmap : Nat]) /\ Len(lru') = Len(lru)
      /\ \A k \in 1 .. Len(lru) : \E j \in 1 .. Len(lru) : lru'[k] = lru[j]
      /\ \A j \in 1 .. Len(lru) : \E k \in 1 .. Len(lru) : lru'[k] = lru[j]
  BY <1>2, <1>3, MoveFacts, ZenonT(30)
<1>5. b \in DOMAIN bitmaps /\ DOMAIN bitmaps' = DOMAIN bitmaps /\ b \in Nat
  BY <1>1 DEF IInv, Cache, Bitmaps
<1>6. Narrowed
  BY <1>1 DEF Narrowed
<1>7. Cache'
  <2>1. \A k \in 1 .. Len(lru') : lru'[k].bitmap \in DOMAIN bitmaps'
    BY <1>4, <1>5 DEF IInv, Cache
  <2>2. \A x \in DOMAIN cache' : \E k \in 1 .. Len(lru') : lru'[k] = [gram |-> x, bitmap |-> cache'[x]]
    <3> SUFFICES ASSUME NEW x \in DOMAIN cache
                 PROVE  \E k \in 1 .. Len(lru') : lru'[k] = [gram |-> x, bitmap |-> cache[x]]
      BY <1>1
    <3>1. PICK j \in 1 .. Len(lru) : lru[j] = [gram |-> x, bitmap |-> cache[x]]
      BY DEF IInv, Cache
    <3>2. PICK k \in 1 .. Len(lru) : lru'[k] = lru[j]
      BY <1>4
    <3>3. QED  BY <1>4, <3>1, <3>2
  <2>3. Len(lru') <= BitmapMax
    BY <1>4 DEF IInv, Cache
  <2>4. QED  BY <1>1, <1>4, <2>1, <2>2, <2>3 DEF IInv, Cache
<1>8. ~raced' => bitmaps'[b] \subseteq Postings[g]
  BY <1>1 DEF IInv, SoundSoFar
<1>9. /\ search' \in [Searcher -> Call]
      /\ \A s \in Searcher \ {r} : Alike(search'[s], search[s])
      /\ CallOK(search'[r], DOMAIN bitmaps', DOMAIN table)
      /\ ~raced' => CallSound(search'[r], bitmaps', Postings, Grams)
  BY <1>1, <1>5, <1>6, <1>8, TakeOK
<1>10. /\ Calls'
       /\ ~raced' => \A s \in Searcher : CallSound(search'[s], bitmaps', Postings, Grams)
  BY <1>1, <1>6, <1>9, CallsStep
<1>11. Bitmaps'
  BY <1>1, FixedStays DEF IInv, Bitmaps
<1>12. ~raced' => \A x \in DOMAIN cache' : bitmaps'[cache'[x]] \subseteq Postings[x]
  BY <1>1 DEF IInv, SoundSoFar
<1>13. QED  BY <1>1, <1>7, <1>10, <1>11, <1>12, Assemble

LEMMA SubSeqFacts ==
  ASSUME NEW S, NEW s \in Seq(S), NEW n \in 0 .. Len(s)
  PROVE  /\ SubSeq(s, 1, n) \in Seq(S)
         /\ Len(SubSeq(s, 1, n)) = n
         /\ \A k \in 1 .. n : SubSeq(s, 1, n)[k] = s[k]
OBVIOUS

(* Room for an element; what the map still has is still in the list. *)
LEMMA RoomFacts ==
  ASSUME Cache
  PROVE  /\ Room.list \in Seq([gram : DOMAIN table, bitmap : Nat])
         /\ Len(Room.list) + 1 <= BitmapMax
         /\ \A k \in 1 .. Len(Room.list) : k \in 1 .. Len(lru) /\ Room.list[k] = lru[k]
         /\ DOMAIN Room.map \subseteq DOMAIN cache
         /\ \A g \in DOMAIN Room.map :
              /\ Room.map[g] = cache[g]
              /\ \E k \in 1 .. Len(Room.list) : Room.list[k] = [gram |-> g, bitmap |-> cache[g]]
<1>1. BitmapMax \in Nat /\ BitmapMax # 0
  BY SearchAssumption DEF SearchAssumption
<1>2. lru \in Seq([gram : DOMAIN table, bitmap : Nat]) /\ Len(lru) \in Nat /\ Len(lru) <= BitmapMax
  BY DEF Cache
<1>3. CASE Len(lru) >= BitmapMax
  <2>1. Len(lru) = BitmapMax /\ Len(lru) - 1 \in 0 .. Len(lru) /\ Len(lru) \in 1 .. Len(lru)
    BY <1>1, <1>2, <1>3
  <2>2. /\ Room.list = SubSeq(lru, 1, Len(lru) - 1)
        /\ Room.map = [x \in DOMAIN cache \ {lru[Len(lru)].gram} |-> cache[x]]
    BY <1>3 DEF Room, Front, Last, Restrict
  <2>3. /\ Room.list \in Seq([gram : DOMAIN table, bitmap : Nat])
        /\ Len(Room.list) = Len(lru) - 1
        /\ \A k \in 1 .. Len(lru) - 1 : Room.list[k] = lru[k]
    <3> DEFINE S == [gram : DOMAIN table, bitmap : Nat]
               n == Len(lru) - 1
    <3>1. lru \in Seq(S) /\ n \in 0 .. Len(lru) /\ Room.list = SubSeq(lru, 1, n)
      BY <1>2, <2>1, <2>2
    <3> HIDE DEF S, n
    <3>2. /\ Room.list \in Seq(S) /\ Len(Room.list) = n
          /\ \A k \in 1 .. n : Room.list[k] = lru[k]
      BY <3>1, SubSeqFacts
    <3>3. QED  BY <3>2 DEF S, n
  <2>4. ASSUME NEW g \in DOMAIN cache, g # lru[Len(lru)].gram
        PROVE  \E k \in 1 .. Len(lru) - 1 : Room.list[k] = [gram |-> g, bitmap |-> cache[g]]
    <3>1. PICK k \in 1 .. Len(lru) : lru[k] = [gram |-> g, bitmap |-> cache[g]]
      BY DEF Cache
    <3>2. lru[k].gram = g
      BY <3>1
    <3>3. k # Len(lru)
      BY <2>4, <3>2
    <3>4. k \in 1 .. Len(lru) - 1
      BY <1>2, <3>3
    <3>5. QED  BY <2>3, <3>1, <3>4
  <2>5. \A k \in 1 .. Len(lru) - 1 : k \in 1 .. Len(lru)
    BY <1>2
  <2>6. Len(Room.list) + 1 <= BitmapMax
    BY <1>1, <1>2, <2>1, <2>3
  <2>7. QED  BY <2>2, <2>3, <2>4, <2>5, <2>6
<1>4. CASE ~(Len(lru) >= BitmapMax)
  <2>1. Room.list = lru /\ Room.map = cache
    BY <1>4 DEF Room
  <2>2. Len(lru) + 1 <= BitmapMax
    BY <1>1, <1>2, <1>4
  <2>3. QED  BY <1>2, <2>1, <2>2 DEF Cache
<1>5. QED  BY <1>3, <1>4

LEMMA PushFacts ==
  ASSUME NEW S, NEW s \in Seq(S), NEW c \in S
  PROVE  /\ <<c>> \o s \in Seq(S)
         /\ Len(<<c>> \o s) = Len(s) + 1
         /\ (<<c>> \o s)[1] = c
         /\ \A k \in 1 .. Len(s) : (<<c>> \o s)[k + 1] = s[k]
OBVIOUS

LEMMA AppendFacts ==
  ASSUME NEW S, NEW s \in Seq(S), NEW c \in S
  PROVE  /\ Append(s, c) \in Seq(S)
         /\ DOMAIN Append(s, c) = 1 .. Len(s) + 1
         /\ Append(s, c)[Len(s) + 1] = c
         /\ \A k \in DOMAIN s : k \in DOMAIN Append(s, c) /\ Append(s, c)[k] = s[k]
OBVIOUS

LEMMA LoadOK ==
  ASSUME IInv, NEW r \in Searcher, Load(r)
  PROVE  IInv'
<1> DEFINE g == NextGram(r)
           new == Len(bitmaps) + 1
           e == [gram |-> g, bitmap |-> new]
           S == [gram : DOMAIN table, bitmap : Nat]
<1>1. /\ search[r].at = "load"
      /\ bitmaps' = Append(bitmaps, table[g])
      /\ lru' = <<e>> \o Room.list
      /\ cache' = [x \in DOMAIN Room.map \union {g} |-> IF x = g THEN new ELSE Room.map[x]]
      /\ Take(r, new)
      /\ UNCHANGED <<text, table, searches, raced>>
  BY DEF Load
<1>2. g \in DOMAIN table /\ g \in Seq(Nat)
  <2>1. search[r].todo \in Seq(Seq(Nat)) /\ search[r].todo # <<>> /\ g \in DOMAIN table
    BY <1>1, CallFacts DEF Call, CallOK, NextGram
  <2>2. QED  BY <2>1, HeadTail DEF NextGram
<1>3. table[g] = Postings[g] /\ table[g] \in SUBSET Doc
  BY <1>2, TableFacts DEF IInv, Postings
<1>4. /\ bitmaps' \in Seq(SUBSET Doc) /\ new \in DOMAIN bitmaps' /\ new \in Nat
      /\ bitmaps'[new] = table[g]
      /\ \A b \in DOMAIN bitmaps : b \in DOMAIN bitmaps' /\ bitmaps'[b] = bitmaps[b]
  <2>1. bitmaps \in Seq(SUBSET Doc) /\ Len(bitmaps) \in Nat
    BY DEF IInv, Bitmaps
  <2>2. new \in Nat /\ new \in 1 .. new
    BY <2>1
  <2>3. QED  BY <1>1, <1>3, <2>1, <2>2, AppendFacts
<1>5. /\ Room.list \in Seq(S)
      /\ Len(Room.list) + 1 <= BitmapMax
      /\ \A k \in 1 .. Len(Room.list) : k \in 1 .. Len(lru) /\ Room.list[k] = lru[k]
      /\ DOMAIN Room.map \subseteq DOMAIN cache
      /\ \A x \in DOMAIN Room.map :
           /\ Room.map[x] = cache[x]
           /\ \E k \in 1 .. Len(Room.list) : Room.list[k] = [gram |-> x, bitmap |-> cache[x]]
  BY RoomFacts DEF IInv
<1>6. e \in S
  BY <1>2, <1>4
<1> HIDE DEF g, new, S
<1>7. /\ lru' \in Seq(S) /\ Len(lru') = Len(Room.list) + 1 /\ Len(Room.list) \in Nat
      /\ lru'[1] = e
      /\ \A k \in 1 .. Len(Room.list) : lru'[k + 1] = Room.list[k]
  BY <1>1, <1>5, <1>6, PushFacts
<1>8. Narrowed
  BY <1>1, <1>4 DEF Narrowed
<1>9. Cache'
  <2>1. ASSUME NEW i \in 1 .. Len(lru')  PROVE lru'[i].bitmap \in DOMAIN bitmaps'
    <3>1. CASE i = 1
      BY <1>4, <1>7, <3>1
    <3>2. CASE i # 1
      <4>1. i - 1 \in 1 .. Len(Room.list) /\ (i - 1) + 1 = i
        BY <1>7, <3>2
      <4>2. lru'[i] = lru[i - 1] /\ i - 1 \in 1 .. Len(lru)
        BY <1>5, <1>7, <4>1
      <4>3. lru[i - 1].bitmap \in DOMAIN bitmaps
        BY <4>2 DEF IInv, Cache
      <4>4. QED  BY <1>4, <4>2, <4>3
    <3>3. QED  BY <3>1, <3>2
  <2>2. DOMAIN cache' = DOMAIN Room.map \union {g}
    BY <1>1
  <2>3. ASSUME NEW x \in DOMAIN cache'
        PROVE  /\ cache'[x] \in DOMAIN bitmaps'
               /\ \E k \in 1 .. Len(lru') : lru'[k] = [gram |-> x, bitmap |-> cache'[x]]
    <3>1. CASE x = g
      <4>1. cache'[x] = new /\ 1 \in 1 .. Len(lru')
        BY <1>1, <1>7, <2>2, <3>1
      <4>2. lru'[1] = [gram |-> x, bitmap |-> cache'[x]]
        BY <1>7, <3>1, <4>1
      <4>3. QED  BY <1>4, <4>1, <4>2
    <3>2. CASE x # g
      <4>1. cache'[x] = cache[x] /\ x \in DOMAIN Room.map /\ x \in DOMAIN cache
        BY <1>1, <1>5, <2>2, <2>3, <3>2
      <4>2. PICK k \in 1 .. Len(Room.list) : Room.list[k] = [gram |-> x, bitmap |-> cache[x]]
        BY <1>5, <4>1
      <4>3. k + 1 \in 1 .. Len(lru')
        BY <1>7
      <4>4. lru'[k + 1] = [gram |-> x, bitmap |-> cache'[x]]
        BY <1>7, <4>1, <4>2
      <4>5. cache'[x] \in DOMAIN bitmaps'
        BY <1>4, <4>1 DEF IInv, Cache
      <4>6. QED  BY <4>3, <4>4, <4>5
    <3>3. QED  BY <3>1, <3>2
  <2>4. DOMAIN cache' \subseteq DOMAIN table'
    BY <1>1, <1>2, <1>5, <2>2 DEF IInv, Cache
  <2>5. lru' \in Seq([gram : DOMAIN table', bitmap : Nat]) /\ Len(lru') <= BitmapMax
    BY <1>1, <1>5, <1>7 DEF S
  <2>6. QED  BY <2>1, <2>3, <2>4, <2>5 DEF Cache
<1>10. ~raced' => \A x \in DOMAIN cache' : bitmaps'[cache'[x]] \subseteq Postings[x]
  <2> SUFFICES ASSUME ~raced', NEW x \in DOMAIN cache'
               PROVE  bitmaps'[cache'[x]] \subseteq Postings[x]
    OBVIOUS
  <2>1. CASE x = g
    BY <1>1, <1>3, <1>4, <2>1
  <2>2. CASE x # g
    <3>1. cache'[x] = cache[x] /\ x \in DOMAIN cache
      BY <1>1, <1>5, <2>2
    <3>2. cache[x] \in DOMAIN bitmaps /\ bitmaps[cache[x]] \subseteq Postings[x]
      BY <1>1, <3>1 DEF IInv, Cache, SoundSoFar
    <3>3. QED  BY <1>4, <3>1, <3>2
  <2>3. QED  BY <2>1, <2>2
<1>11. /\ search' \in [Searcher -> Call]
       /\ \A s \in Searcher \ {r} : Alike(search'[s], search[s])
       /\ CallOK(search'[r], DOMAIN bitmaps', DOMAIN table)
       /\ ~raced' => CallSound(search'[r], bitmaps', Postings, Grams)
  BY <1>1, <1>3, <1>4, <1>8, TakeOK DEF g
<1>12. /\ Calls'
       /\ ~raced' => \A s \in Searcher : CallSound(search'[s], bitmaps', Postings, Grams)
  BY <1>1, <1>8, <1>11, CallsStep
<1>13. Bitmaps'
  BY <1>1, <1>4, FixedStays DEF IInv, Bitmaps
<1>14. QED  BY <1>1, <1>9, <1>10, <1>12, <1>13, Assemble

-----------------------------------------------------------------------------
(* The order has all the bitmaps that the call took. *)
LEMMA OrderFacts ==
  ASSUME NEW n \in Nat, NEW H \in SUBSET (1 .. n), NEW order \in SetToSeqs(H)
  PROVE  order \in Seq(Nat) /\ Range(order) = H
<1> DEFINE m == Cardinality(H)
<1>1. IsFiniteSet(H) /\ m \in Nat
  <2>1. IsFiniteSet(1 .. n)
    BY FS_Interval
  <2>2. IsFiniteSet(H)
    BY <2>1, FS_Subset
  <2>3. QED  BY <2>2, FS_CardinalityType
<1>2. /\ order \in [1 .. m -> H]
      /\ \A i, j \in 1 .. m : i # j => order[i] # order[j]
  BY DEF SetToSeqs
<1> HIDE DEF m
<1>3. IsFiniteSet(1 .. m) /\ Cardinality(1 .. m) = m
  <2>1. 1 \in Int /\ m \in Int
    BY <1>1
  <2>2. IsFiniteSet(1 .. m) /\ Cardinality(1 .. m) = IF 1 > m THEN 0 ELSE m - 1 + 1
    BY <2>1, FS_Interval
  <2>3. QED  BY <1>1, <2>2
<1>4. order \in Injection(1 .. m, H)
  BY <1>2 DEF Injection, IsInjective
<1>5. order \in Surjection(1 .. m, H)
  BY <1>1, <1>3, <1>4, FS_Injection DEF m
<1>6. Range(order) = H
  <2>1. DOMAIN order = 1 .. m
    BY <1>2
  <2>2. \A h \in H : \E i \in 1 .. m : order[i] = h
    BY <1>5 DEF Surjection
  <2>3. \A i \in 1 .. m : order[i] \in H
    BY <1>2
  <2>4. Range(order) = {order[i] : i \in 1 .. m}
    BY <2>1 DEF Range
  <2>5. QED  BY <2>2, <2>3, <2>4
<1>7. order \in Seq(Nat)
  <2>1. H \subseteq Nat
    OBVIOUS
  <2>2. order \in [1 .. m -> Nat]
    BY <1>2, <2>1
  <2>3. QED  BY <1>1, <2>2
<1>8. QED  BY <1>6, <1>7

LEMMA SortOK ==
  ASSUME IInv, NEW r \in Searcher, Sort(r)
  PROVE  IInv'
<1>1. /\ search[r].at = "sort"
      /\ UNCHANGED <<text, table, bitmaps, cache, lru, searches, raced>>
  BY DEF Sort
<1>2. PICK order \in SetToSeqs(search[r].held) :
         search' = [search EXCEPT ![r].at = "and", ![r].order = order]
  BY DEF Sort
<1>3. search[r].held \in SUBSET (1 .. Len(bitmaps)) /\ Len(bitmaps) \in Nat
  BY CallFacts DEF CallOK, IInv, Bitmaps
<1>4. order \in Seq(Nat) /\ Range(order) = search[r].held
  BY <1>3, OrderFacts
<1> DEFINE c == [search[r] EXCEPT !.at = "and", !.order = order]
<1>5. search' = [search EXCEPT ![r] = c]
  BY <1>2, CallFacts
<1>6. /\ c \in Call /\ c.at = "and" /\ c.order = order /\ c.held = search[r].held
      /\ c.query = search[r].query
  BY <1>4, CallFacts DEF Call
<1> HIDE DEF c
<1>7. CallOK(c, DOMAIN bitmaps, DOMAIN table)
  BY <1>1, <1>4, <1>6, CallFacts DEF CallOK
<1>8. ASSUME ~raced  PROVE CallSound(c, bitmaps, Postings, Grams)
  <2>1. search[r].todo = <<>>
    BY <1>1, CallFacts DEF CallOK
  <2>2. Range(search[r].todo) = {}
    BY <2>1 DEF Range
  <2>3. QED  BY <1>1, <1>4, <1>6, <1>8, <2>2, CallFacts DEF CallSound
<1>9. searches' \in 0 .. MaxSearches
  BY <1>1 DEF IInv, Bitmaps
<1>10. QED  BY <1>1, <1>5, <1>6, <1>7, <1>8, <1>9, QuietStep

-----------------------------------------------------------------------------
(* Without the second element nothing else is lost from an order. *)
LEMMA RemoveFacts ==
  ASSUME NEW s \in Seq(Nat), Len(s) >= 2
  PROVE  /\ RemoveAt(s, 2) \in Seq(Nat)
         /\ Range(RemoveAt(s, 2)) \subseteq Range(s)
         /\ s[1] \in Range(RemoveAt(s, 2)) /\ s[1] \in Range(s) /\ s[2] \in Range(s)
         /\ \A x \in Range(s) : x = s[2] \/ x \in Range(RemoveAt(s, 2))
<1> DEFINE t == RemoveAt(s, 2)
           n == Len(s)
<1>1. n \in Nat /\ n >= 2 /\ DOMAIN s = 1 .. n /\ \A k \in 1 .. n : s[k] \in Nat
  OBVIOUS
<1>2. t = SubSeq(s, 1, 1) \o SubSeq(s, 3, n)
  BY DEF RemoveAt
<1>3. /\ SubSeq(s, 1, 1) \in Seq(Nat) /\ Len(SubSeq(s, 1, 1)) = 1 /\ SubSeq(s, 1, 1)[1] = s[1]
      /\ SubSeq(s, 3, n) \in Seq(Nat) /\ Len(SubSeq(s, 3, n)) = n - 2
      /\ \A k \in 1 .. n - 2 : SubSeq(s, 3, n)[k] = s[k + 2]
  BY <1>1
<1>4. /\ t \in Seq(Nat) /\ Len(t) = n - 1 /\ DOMAIN t = 1 .. n - 1
      /\ t[1] = s[1]
      /\ \A k \in 2 .. n - 1 : t[k] = s[k + 1]
  <2> DEFINE p == s[1]
             q == SubSeq(s, 3, n)
  <2>1. /\ p \in Nat /\ SubSeq(s, 1, 1) = <<p>>
        /\ q \in Seq(Nat) /\ Len(q) = n - 2 /\ n - 2 \in Nat
        /\ \A k \in 1 .. n - 2 : q[k] = s[k + 2]
    <3>1. p \in Nat /\ n - 2 \in Nat
      BY <1>1
    <3>2. SubSeq(s, 1, 1) = <<p>>
      <4> DEFINE u == SubSeq(s, 1, 1)
      <4>1. u \in Seq(Nat) /\ Len(u) = 1 /\ u[1] = p
        BY <1>3
      <4> HIDE DEF u, p
      <4>2. u = <<p>>
        BY <4>1
      <4>3. QED  BY <4>2 DEF u
    <3>3. QED  BY <1>3, <3>1, <3>2
  <2>2. t = <<p>> \o q
    BY <1>2, <2>1
  <2> HIDE DEF p, q, t, n
  <2>3. /\ t \in Seq(Nat) /\ Len(t) = Len(q) + 1 /\ t[1] = p
        /\ \A k \in 1 .. Len(q) : t[k + 1] = q[k]
    BY <2>1, <2>2, PushFacts
  <2>4. ASSUME NEW k \in 2 .. n - 1  PROVE t[k] = s[k + 1]
    <3>1. k - 1 \in 1 .. n - 2 /\ (k - 1) + 1 = k /\ (k - 1) + 2 = k + 1
      BY <1>1
    <3>2. QED  BY <2>1, <2>3, <3>1
  <2>5. Len(t) = n - 1
    BY <1>1, <2>1, <2>3
  <2>6. QED  BY <2>3, <2>4, <2>5 DEF p
<1> HIDE DEF t, n
<1>5. 1 \in 1 .. n /\ 2 \in 1 .. n /\ 1 \in 1 .. n - 1
  BY <1>1
<1>6. ASSUME NEW k \in 1 .. n - 1  PROVE t[k] \in Range(s)
  <2>1. CASE k = 1
    BY <1>1, <1>4, <1>5, <2>1 DEF Range
  <2>2. CASE k # 1
    <3>1. k \in 2 .. n - 1 /\ k + 1 \in 1 .. n
      BY <1>1, <2>2
    <3>2. QED  BY <1>1, <1>4, <3>1 DEF Range
  <2>3. QED  BY <2>1, <2>2
<1>7. ASSUME NEW k \in 1 .. n, k # 2  PROVE s[k] \in Range(t)
  <2>1. CASE k = 1
    BY <1>4, <1>5, <2>1 DEF Range
  <2>2. CASE k # 1
    <3>1. k - 1 \in 2 .. n - 1 /\ k - 1 \in 1 .. n - 1 /\ (k - 1) + 1 = k
      BY <1>1, <1>7, <2>2
    <3>2. t[k - 1] = s[k]
      BY <1>4, <3>1
    <3>3. QED  BY <1>4, <3>1, <3>2 DEF Range
  <2>3. QED  BY <2>1, <2>2
<1>8. Range(t) \subseteq Range(s)
  BY <1>4, <1>6 DEF Range
<1>9. \A x \in Range(s) : x = s[2] \/ x \in Range(t)
  BY <1>1, <1>7 DEF Range
<1>10. s[1] \in Range(t) /\ s[1] \in Range(s) /\ s[2] \in Range(s)
  BY <1>1, <1>4, <1>5 DEF Range
<1>11. QED  BY <1>4, <1>8, <1>9, <1>10 DEF t

(* The first bitmap loses what is not in the second; then the second has *)
(* nothing to say that the first does not.  After a race nothing is said *)
(* but that a bitmap holds entries.                                      *)
LEMMA NarrowOK ==
  ASSUME IInv, NEW r \in Searcher, NEW docs \in SUBSET Doc, Narrow(r, docs),
         search[r].at = "and", Len(search[r].order) >= 2,
         UNCHANGED <<text, table, cache, lru, searches>>, raced' \in BOOLEAN,
         ~raced' => ~raced /\ docs = bitmaps[search[r].order[1]] \intersect bitmaps[search[r].order[2]]
  PROVE  IInv'
<1> DEFINE order == search[r].order
           b == order[1]
           c == [search[r] EXCEPT !.order = RemoveAt(@, 2)]
<1>1. /\ order \in Seq(Nat) /\ search[r].query \in Query
      /\ Range(order) \subseteq search[r].held /\ search[r].held \subseteq DOMAIN bitmaps
  BY CallFacts DEF Call, CallOK
<1>2. /\ RemoveAt(order, 2) \in Seq(Nat)
      /\ Range(RemoveAt(order, 2)) \subseteq Range(order)
      /\ b \in Range(RemoveAt(order, 2)) /\ b \in Range(order) /\ order[2] \in Range(order)
      /\ \A x \in Range(order) : x = order[2] \/ x \in Range(RemoveAt(order, 2))
  BY <1>1, RemoveFacts
<1>3. b \in DOMAIN bitmaps /\ order[2] \in DOMAIN bitmaps
  BY <1>1, <1>2
<1>4. bitmaps' = [bitmaps EXCEPT ![b] = docs]
  BY DEF Narrow
<1>5. /\ bitmaps' \in Seq(SUBSET Doc) /\ DOMAIN bitmaps' = DOMAIN bitmaps
      /\ bitmaps'[b] = docs /\ \A x \in DOMAIN bitmaps \ {b} : bitmaps'[x] = bitmaps[x]
  BY <1>3, <1>4 DEF IInv, Bitmaps
<1>6. Narrowed
  BY <1>5 DEF Narrowed
<1>7. Bitmaps'
  BY <1>5, FixedStays DEF IInv, Bitmaps
<1>8. /\ Cache'
      /\ ~raced' => \A g \in DOMAIN cache' : bitmaps'[cache'[g]] \subseteq Postings[g]
  BY <1>6, CacheSame
<1>9. search' = [s \in Searcher |->
        IF s = r THEN IF docs = {} THEN Returned(r, {}) ELSE c
        ELSE IF b \in search[s].held
               THEN [search[s] EXCEPT !.whole = @ /\ docs = bitmaps[b]]
               ELSE search[s]]
  BY DEF Narrow
<1>10. /\ c \in Call /\ c.at = "and" /\ c.order = RemoveAt(order, 2) /\ c.held = search[r].held
       /\ c.query = search[r].query
  BY <1>2, CallFacts DEF Call
<1>11. ASSUME NEW s \in Searcher, s # r  PROVE search'[s] \in Call /\ Alike(search'[s], search[s])
  <2>1. search[s] \in Call
    BY CallFacts
  <2>2. CASE b \in search[s].held
    <3> DEFINE w == docs = bitmaps[b]
               d == [search[s] EXCEPT !.whole = @ /\ w]
    <3>1. search'[s] = d
      BY <1>9, <1>11, <2>2
    <3>2. (search[s].whole /\ w) \in BOOLEAN
      OBVIOUS
    <3> HIDE DEF w
    <3>3. d \in Call /\ Alike(d, search[s])
      BY <2>1, <3>2 DEF Call, Alike
    <3>4. QED  BY <3>1, <3>3
  <2>3. CASE b \notin search[s].held
    BY <1>9, <1>11, <2>1, <2>3 DEF Alike
  <2>4. QED  BY <2>2, <2>3
<1>12. CASE docs = {}
  <2>1. search'[r] = Returned(r, {})
    BY <1>9, <1>12
  <2>2. search'[r] \in Call /\ CallOK(search'[r], DOMAIN bitmaps', DOMAIN table)
    BY <1>1, <2>1, ReturnedFacts
  <2>3. CallSound(search'[r], bitmaps', Postings, Grams)
    BY <1>1, <2>1, ReturnedSound
  <2>4. search' \in [Searcher -> Call]
    BY <1>9, <1>11, <2>2
  <2>5. /\ Calls'
        /\ ~raced' => \A s \in Searcher : CallSound(search'[s], bitmaps', Postings, Grams)
    BY <1>6, <1>11, <2>2, <2>3, <2>4, CallsStep
  <2>6. QED  BY <1>7, <1>8, <2>5, Assemble
<1>13. CASE docs # {}
  <2>1. search'[r] = c
    BY <1>9, <1>13
  <2>2. CallOK(c, DOMAIN bitmaps', DOMAIN table)
    BY <1>1, <1>2, <1>5, <1>10 DEF CallOK
  <2>3. ASSUME ~raced'  PROVE CallSound(c, bitmaps', Postings, Grams)
    <3> SUFFICES ASSUME NEW g \in Range(Grams[search[r].query])
                 PROVE  \E x \in Range(RemoveAt(order, 2)) : bitmaps'[x] \subseteq Postings[g]
      BY <1>10 DEF CallSound
    <3>1. PICK x \in Range(order) : bitmaps[x] \subseteq Postings[g]
      BY <2>3, CallFacts DEF CallSound
    <3>2. CASE x = order[2]
      <4>1. docs \subseteq bitmaps[x]
        BY <2>3, <3>2
      <4>2. bitmaps'[b] \subseteq Postings[g]
        BY <1>5, <3>1, <4>1
      <4>3. QED  BY <1>2, <4>2
    <3>3. CASE x # order[2]
      <4>1. x \in Range(RemoveAt(order, 2)) /\ x \in DOMAIN bitmaps
        BY <1>1, <1>2, <3>3
      <4>2. bitmaps'[x] \subseteq bitmaps[x]
        BY <1>6, <2>3, <4>1 DEF Narrowed
      <4>3. QED  BY <3>1, <4>1, <4>2
    <3>4. QED  BY <3>2, <3>3
  <2>4. search' \in [Searcher -> Call]
    BY <1>9, <1>10, <1>11, <2>1
  <2>5. /\ Calls'
        /\ ~raced' => \A s \in Searcher : CallSound(search'[s], bitmaps', Postings, Grams)
    BY <1>6, <1>11, <2>1, <2>2, <2>3, <2>4, CallsStep
  <2>6. QED  BY <1>7, <1>8, <2>5, Assemble
<1>14. QED  BY <1>12, <1>13

LEMMA AndOK ==
  ASSUME IInv, NEW r \in Searcher, And(r) \/ RacyAnd(r)
  PROVE  IInv'
<1>1. CASE And(r)
  <2> DEFINE docs == bitmaps[search[r].order[1]] \intersect bitmaps[search[r].order[2]]
  <2>1. /\ search[r].at = "and" /\ Len(search[r].order) >= 2 /\ Narrow(r, docs)
        /\ UNCHANGED <<text, table, cache, lru, searches, raced>>
    BY <1>1 DEF And
  <2>2. search[r].order \in Seq(Nat)
    BY CallFacts DEF Call
  <2>3. search[r].order[1] \in DOMAIN bitmaps
    BY <2>1, <2>2, CallFacts, RemoveFacts DEF CallOK
  <2>4. docs \in SUBSET Doc
    BY <2>3 DEF IInv, Bitmaps
  <2>5. raced' \in BOOLEAN
    BY <2>1 DEF IInv, Bitmaps
  <2> HIDE DEF docs
  <2>6. QED  BY <2>1, <2>4, <2>5, NarrowOK DEF docs
<1>2. CASE RacyAnd(r)
  <2>1. /\ search[r].at = "and" /\ Len(search[r].order) >= 2 /\ raced' = TRUE
        /\ UNCHANGED <<text, table, cache, lru, searches>>
    BY <1>2 DEF RacyAnd
  <2>2. PICK docs \in SUBSET Doc : Narrow(r, docs)
    BY <1>2 DEF RacyAnd
  <2>3. raced' \in BOOLEAN
    BY <2>1
  <2>4. QED  BY <2>1, <2>2, <2>3, NarrowOK
<1>3. QED  BY <1>1, <1>2

LEMMA NextOK == IInv /\ [Next]_vars => IInv'
<1> SUFFICES ASSUME IInv, [Next]_vars  PROVE IInv'
  OBVIOUS
<1>1. CASE UNCHANGED vars
  <2>1. UNCHANGED <<text, table, bitmaps, cache, lru, search, searches, raced>>
    BY <1>1 DEF vars
  <2>2. Doc' = Doc /\ Postings' = Postings /\ Grams' = Grams /\ Call' = Call /\ Fixed'
    BY <2>1, FixedStays DEF IInv
  <2>3. Bitmaps' /\ Cache' /\ Calls' /\ SoundSoFar'
    BY <2>1, <2>2 DEF IInv, Bitmaps, Cache, Calls, SoundSoFar
  <2>4. QED  BY <2>2, <2>3 DEF IInv
<1>2. ASSUME NEW r \in Searcher, NEW q \in Query, Begin(r, q)  PROVE IInv'
  BY <1>2, BeginOK
<1>3. ASSUME NEW r \in Searcher,
             \/ LookupHit(r) \/ LookupMiss(r) \/ Load(r)
             \/ Sort(r) \/ And(r) \/ RacyAnd(r) \/ Finish(r)
      PROVE  IInv'
  BY <1>3, LookupHitOK, LookupMissOK, LoadOK, SortOK, AndOK, FinishOK
<1>4. CASE Terminated
  BY <1>1, <1>4 DEF Terminated
<1>5. QED  BY <1>1, <1>2, <1>3, <1>4 DEF Next

LEMMA Inductive == Spec => []IInv
<1>1. Init => IInv
  BY InitOK
<1>2. IInv /\ [Next]_vars => IInv'
  BY NextOK
<1>3. QED  BY <1>1, <1>2, PTL DEF Spec

LEMMA Consequences == IInv => CacheMapped /\ Sound
<1> SUFFICES ASSUME IInv  PROVE CacheMapped /\ Sound
  OBVIOUS
<1>1. TypeOK
  <2>1. text \in Corpus /\ bitmaps \in Seq(SUBSET Doc) /\ searches \in 0 .. MaxSearches
    BY DEF IInv, Fixed, Bitmaps
  <2>2. raced \in BOOLEAN
    BY DEF IInv, Bitmaps
  <2>3. DOMAIN cache \subseteq DOMAIN table /\ Range(cache) \subseteq DOMAIN bitmaps
    BY DEF IInv, Cache, Range
  <2>4. lru \in Seq([gram : DOMAIN table, bitmap : DOMAIN bitmaps]) /\ Len(lru) <= BitmapMax
    <3>1. lru \in Seq([gram : DOMAIN table, bitmap : Nat]) /\ Len(lru) <= BitmapMax
      BY DEF IInv, Cache
    <3>2. \A i \in 1 .. Len(lru) : lru[i].bitmap \in DOMAIN bitmaps
      BY DEF IInv, Cache
    <3> DEFINE S == [gram : DOMAIN table, bitmap : DOMAIN bitmaps]
    <3>3. ASSUME NEW i \in 1 .. Len(lru)  PROVE lru[i] \in S
      <4>1. lru[i] \in [gram : DOMAIN table, bitmap : Nat]
        <5> DEFINE U == [gram : DOMAIN table, bitmap : Nat]
        <5>1. lru \in Seq(U)
          BY <3>1
        <5> HIDE DEF U
        <5>2. lru[i] \in U
          BY <5>1
        <5>3. QED  BY <5>2 DEF U
      <4>2. lru[i].bitmap \in DOMAIN bitmaps
        BY <3>2
      <4>3. QED  BY <4>1, <4>2
    <3> HIDE DEF S
    <3>4. lru \in Seq(S)
      BY <3>1, <3>3
    <3>5. QED  BY <3>1, <3>4 DEF S
  <2>5. ASSUME NEW r \in Searcher
        PROVE  /\ search[r].at \in {"idle", "lookup", "load", "sort", "and", "done"}
               /\ search[r].query \in Query \union {<<>>}
               /\ search[r].todo \in Seq(Seq(Nat))
               /\ search[r].at \in {"lookup", "load"} => search[r].todo # <<>>
               /\ search[r].held \subseteq DOMAIN bitmaps
               /\ Range(search[r].order) \subseteq search[r].held
               /\ search[r].result \subseteq Doc
               /\ search[r].whole \in BOOLEAN
    BY CallFacts DEF Call, CallOK
  <2>6. QED  BY <2>1, <2>2, <2>3, <2>4, <2>5 DEF TypeOK
<1>2. CacheMapped
  <2>1. ASSUME NEW g \in DOMAIN cache  PROVE [gram |-> g, bitmap |-> cache[g]] \in Range(lru)
    <3>1. PICK i \in 1 .. Len(lru) : lru[i] = [gram |-> g, bitmap |-> cache[g]]
      BY DEF IInv, Cache
    <3>2. i \in DOMAIN lru
      BY DEF IInv, Cache
    <3>3. QED  BY <3>1, <3>2 DEF Range
  <2>2. QED  BY <1>1, <2>1 DEF CacheMapped
<1>3. Sound
  <2> SUFFICES ASSUME NEW r \in Searcher, Done(r), ~raced, NEW d \in search[r].result,
                      NEW g \in Range(QueryGrams(search[r].query))
               PROVE  g \in TextGrams(d)
    BY DEF Sound
  <2>1. search[r].at = "done" /\ search[r].query \in Query
    BY CallFacts DEF Done, CallOK
  <2>2. g \in Range(Grams[search[r].query]) /\ g \in Seq(Nat)
    <3>1. Grams[search[r].query] = QueryGrams(search[r].query)
      BY <2>1, GramFacts
    <3>2. QueryGrams(search[r].query) \in Seq(Seq(Nat))
      BY <2>1, GramFacts
    <3>3. g \in Seq(Nat)
      <4> DEFINE S == Seq(Nat)
                 s == QueryGrams(search[r].query)
      <4>1. s \in Seq(S) /\ g \in Range(s)
        BY <3>2
      <4> HIDE DEF S, s
      <4>2. g \in S
        BY <4>1 DEF Range
      <4>3. QED  BY <4>2 DEF S
    <3>4. QED  BY <3>1, <3>3
  <2>3. search[r].result \subseteq Postings[g]
    BY <2>1, <2>2, CallFacts DEF CallSound
  <2>4. Postings[g] = Posting(g)
    BY <2>2 DEF Postings
  <2>5. QED  BY <2>3, <2>4 DEF Posting
<1>4. QED  BY <1>2, <1>3

-----------------------------------------------------------------------------
(* A text that contains a query has the grams that Search looks up for it. *)
LEMMA PartFound ==
  ASSUME Fixed, NEW q \in Query, NEW d \in Doc, NEW t \in text[d],
         ContainsText(Lower(t, LowerIndexed), Lower(q, LowerQueried))
  PROVE  Range(QueryGrams(q)) \subseteq TextGrams(d)
<1>1. t \in Seq(Char)
  <2>1. Range(text) \subseteq SUBSET Seq(Char)
    BY SearchAssumption DEF SearchAssumption, Fixed
  <2>2. text[d] \in Range(text)
    BY DEF Doc, Range
  <2>3. QED  BY <2>1, <2>2
<1>2. PICK u \in Seq(Char), p \in Seq(Char) : u = Lower(t, LowerIndexed) /\ p = Lower(q, LowerQueried)
  BY <1>1, LowerFacts, QueryFacts
<1>3. ContainsText(u, p)
  BY <1>2
<1>4. Range(Scan(p)) \subseteq Range(Scan(u))
  BY <1>3, PartGrams
<1>5. Range(Scan(u)) \subseteq TextGrams(d)
  BY <1>2 DEF TextGrams
<1>6. CASE HasCJK
  <2>1. Range(QueryGrams(q)) = Range(Scan(p))
    BY <1>2, <1>6, QueryFacts DEF QueryGrams
  <2>2. QED  BY <1>4, <1>5, <2>1
<1>7. CASE ~HasCJK
  <2>1. Range(t) \intersect CJK = {}
    BY <1>7 DEF HasCJK
  <2>2. Range(u) \intersect CJK = {}
    BY <1>1, <1>2, <2>1, LowerFacts
  <2>3. Range(p) \intersect CJK = {}
    BY <1>3, <2>2, PartRange
  <2>4. Scan(p) = Windows(BytesOf(p))
    BY <2>3, PlainLoop
  <2>5. Range(QueryGrams(q)) = Range(Windows(BytesOf(p)))
    BY <1>2, <1>7, QueryFacts DEF QueryGrams
  <2>6. QED  BY <1>4, <1>5, <2>4, <2>5
<1>8. QED  BY <1>6, <1>7

(* A query of three bytes has a gram. *)
LEMMA GramsExist ==
  ASSUME NEW q \in Query, Len(BytesOf(Lower(q, LowerQueried))) >= 3
  PROVE  QueryGrams(q) # <<>>
<1>1. PICK p \in Seq(Char) : p = Lower(q, LowerQueried)
  BY QueryFacts
<1>2. Range(Scan(p)) # {}
  BY <1>1, SomeGram
<1>3. Range(Windows(BytesOf(p))) # {}
  <2>1. PICK b \in Seq(Nat) : b = BytesOf(p)
    BY BytesFacts
  <2>2. PICK w \in Seq(Seq(Nat)) : w = Windows(b) /\ w # <<>>
    BY <1>1, <2>1, WindowsFacts
  <2>3. 1 \in DOMAIN w
    BY <2>2
  <2>4. w[1] \in Range(w)
    BY <2>3 DEF Range
  <2>5. QED  BY <2>1, <2>2, <2>4
<1>4. Range(QueryGrams(q)) # {}
  BY <1>1, <1>2, <1>3, QueryFacts DEF QueryGrams
<1>5. Range(<<>>) = {}
  BY DEF Range
<1>6. QED  BY <1>4, <1>5

(* What must be found is in the posting list of each gram of the query, and *)
(* every such gram is in the table.                                         *)
LEMMA MatchFacts ==
  ASSUME Fixed, NEW q \in Query
  PROVE  /\ Matches[q] = Matching(q)
         /\ QueryGrams(q) = <<>> => Matches[q] = {}
         /\ \A g \in Range(Grams[q]) :
              /\ g \in DOMAIN table => Matches[q] \subseteq table[g]
              /\ g \notin DOMAIN table => Matches[q] = {}
<1>1. Matches[q] = Matching(q) /\ Grams[q] = QueryGrams(q)
  BY GramFacts DEF Matches
<1>2. QueryGrams(q) = <<>> => Matching(q) = {}
  BY DEF Matching
<1>3. ASSUME NEW g \in Range(QueryGrams(q)), NEW d \in Matching(q)
      PROVE  g \in DOMAIN table /\ d \in table[g]
  <2>1. d \in Doc /\ d \in Posting(g) /\ ~Pruned(g)
    BY <1>3 DEF Matching
  <2>2. g \in TextGrams(d)
    BY <2>1 DEF Posting
  <2>3. g \in UNION {TextGrams(e) : e \in Doc}
    BY <2>1, <2>2
  <2>4. g \in DOMAIN table
    BY <2>1, <2>3 DEF Fixed, Build
  <2>5. QED  BY <2>1, <2>4, TableFacts
<1>4. QED  BY <1>1, <1>2, <1>3

LEMMA InitWhole == Init => WholeSoFar
<1> SUFFICES ASSUME Init, NEW r \in Searcher  PROVE CallWhole(search[r], bitmaps, Matches, Grams)
  BY DEF WholeSoFar
<1>1. search[r].at = "idle"
  BY IdleFacts DEF Init
<1>2. QED  BY <1>1 DEF CallWhole

(* A step of r that leaves the other calls and the bitmaps alone. *)
LEMMA WholeStep ==
  ASSUME IInv, WholeSoFar, NEW r \in Searcher, UNCHANGED <<text, table, raced>>,
         \A b \in DOMAIN bitmaps : bitmaps'[b] = bitmaps[b],
         \A s \in Searcher \ {r} : search'[s] = search[s],
         ~raced => CallWhole(search'[r], bitmaps', Matches, Grams)
  PROVE  WholeSoFar'
<1> SUFFICES ASSUME ~raced, NEW s \in Searcher
             PROVE  CallWhole(search'[s], bitmaps', Matches, Grams)
  BY FixedStays DEF WholeSoFar, IInv
<1>1. CASE s = r
  BY <1>1
<1>2. CASE s # r
  <2>1. search'[s] = search[s] /\ CallWhole(search[s], bitmaps, Matches, Grams)
    BY <1>2 DEF WholeSoFar
  <2>2. search[s].held \subseteq DOMAIN bitmaps /\ Range(search[s].order) \subseteq DOMAIN bitmaps
    BY CallFacts DEF CallOK
  <2>3. QED  BY <2>1, <2>2 DEF CallWhole
<1>3. QED  BY <1>1, <1>2

LEMMA BeginWhole ==
  ASSUME IInv, WholeSoFar, NEW r \in Searcher, NEW q \in Query, Begin(r, q)
  PROVE  WholeSoFar'
<1> DEFINE c == [Idle EXCEPT !.at = IF QueryGrams(q) = <<>> THEN "done" ELSE "lookup",
                             !.query = q, !.todo = QueryGrams(q)]
<1>1. search' = [search EXCEPT ![r] = c] /\ UNCHANGED <<text, table, bitmaps, cache, lru, raced>>
  BY DEF Begin
<1>2. /\ c.at = IF QueryGrams(q) = <<>> THEN "done" ELSE "lookup"
      /\ c.query = q /\ c.todo = QueryGrams(q) /\ c.held = {}
  BY IdleFacts DEF Idle
<1> HIDE DEF c
<1>3. search'[r] = c /\ \A s \in Searcher \ {r} : search'[s] = search[s]
  BY <1>1, CallFacts
<1>4. Grams[q] = QueryGrams(q) /\ (QueryGrams(q) = <<>> => Matches[q] = {})
  BY GramFacts, MatchFacts DEF IInv
<1>5. CallWhole(c, bitmaps, Matches, Grams)
  BY <1>2, <1>4 DEF CallWhole
<1>6. QED  BY <1>1, <1>3, <1>5, WholeStep

LEMMA FinishWhole ==
  ASSUME IInv, WholeSoFar, NEW r \in Searcher, Finish(r)
  PROVE  WholeSoFar'
<1> DEFINE docs == bitmaps[search[r].order[1]]
           c == Returned(r, docs)
<1>1. /\ search[r].at = "and" /\ Len(search[r].order) = 1 /\ search' = [search EXCEPT ![r] = c]
      /\ UNCHANGED <<text, table, bitmaps, raced>>
  BY DEF Finish, Return
<1>2. search[r].order \in Seq(Nat)
  BY CallFacts DEF Call
<1>3. search[r].order[1] \in Range(search[r].order)
  <2>1. 1 \in DOMAIN search[r].order
    BY <1>1, <1>2
  <2>2. QED  BY <2>1 DEF Range
<1>4. /\ c.at = "done" /\ c.query = search[r].query /\ c.result = docs
      /\ c.whole = search[r].whole
  BY IdleFacts DEF Returned, Idle
<1> HIDE DEF c
<1>5. search'[r] = c /\ \A s \in Searcher \ {r} : search'[s] = search[s]
  BY <1>1, CallFacts
<1>6. ASSUME ~raced  PROVE CallWhole(c, bitmaps, Matches, Grams)
  <2>1. CallWhole(search[r], bitmaps, Matches, Grams)
    BY <1>6 DEF WholeSoFar
  <2>2. QED  BY <1>1, <1>3, <1>4, <2>1 DEF CallWhole
<1>7. QED  BY <1>1, <1>5, <1>6, WholeStep

LEMMA LookupMissWhole ==
  ASSUME IInv, WholeSoFar, NEW r \in Searcher, LookupMiss(r)
  PROVE  WholeSoFar'
<1>1. search[r].at = "lookup" /\ UNCHANGED <<text, table, bitmaps, cache, lru, raced>>
  BY DEF LookupMiss
<1>2. /\ search[r].todo \in Seq(Seq(Nat)) /\ search[r].todo # <<>> /\ search[r].query \in Query
  BY <1>1, CallFacts DEF Call, CallOK
<1>3. NextGram(r) \in Range(search[r].todo)
  <2>1. 1 \in DOMAIN search[r].todo /\ Head(search[r].todo) = search[r].todo[1]
    BY <1>2
  <2>2. QED  BY <2>1 DEF Range, NextGram
<1>4. CASE NextGram(r) \in DOMAIN table
  <2> DEFINE c == [search[r] EXCEPT !.at = "load"]
  <2>1. search' = [search EXCEPT ![r] = c]
    BY <1>4 DEF LookupMiss
  <2>2. /\ c.at = "load" /\ c.query = search[r].query /\ c.todo = search[r].todo
        /\ c.held = search[r].held /\ c.whole = search[r].whole
    BY CallFacts DEF Call
  <2> HIDE DEF c
  <2>3. search'[r] = c /\ \A s \in Searcher \ {r} : search'[s] = search[s]
    BY <2>1, CallFacts
  <2>4. ASSUME ~raced  PROVE CallWhole(c, bitmaps, Matches, Grams)
    <3>1. CallWhole(search[r], bitmaps, Matches, Grams)
      BY <2>4 DEF WholeSoFar
    <3>2. QED  BY <1>1, <2>2, <3>1 DEF CallWhole
  <2>5. QED  BY <1>1, <2>3, <2>4, WholeStep
<1>5. CASE NextGram(r) \notin DOMAIN table
  <2> DEFINE c == Returned(r, {})
  <2>1. search' = [search EXCEPT ![r] = c]
    BY <1>5 DEF LookupMiss, Return
  <2>2. c.at = "done" /\ c.query = search[r].query /\ c.result = {}
    BY IdleFacts DEF Returned, Idle
  <2> HIDE DEF c
  <2>3. search'[r] = c /\ \A s \in Searcher \ {r} : search'[s] = search[s]
    BY <2>1, CallFacts
  <2>4. ASSUME ~raced  PROVE CallWhole(c, bitmaps, Matches, Grams)
    <3>1. NextGram(r) \in Range(Grams[search[r].query])
      BY <1>1, <1>3, <2>4 DEF WholeSoFar, CallWhole
    <3>2. Matches[search[r].query] = {}
      BY <1>2, <1>5, <3>1, MatchFacts DEF IInv
    <3>3. QED  BY <2>2, <3>2 DEF CallWhole
  <2>5. QED  BY <1>1, <2>3, <2>4, WholeStep
<1>6. QED  BY <1>4, <1>5

(* The call that has bitmap b for its next gram: if b is the posting list, *)
(* it has all that must be found.                                          *)
LEMMA TakeWhole ==
  ASSUME IInv, NEW r \in Searcher, NEW b \in Nat, Take(r, b),
         search[r].at \in {"lookup", "load"}, NextGram(r) \in DOMAIN table,
         \A x \in DOMAIN bitmaps : bitmaps'[x] = bitmaps[x],
         CallWhole(search[r], bitmaps, Matches, Grams)
  PROVE  /\ \A s \in Searcher \ {r} : search'[s] = search[s]
         /\ CallWhole(search'[r], bitmaps', Matches, Grams)
<1> DEFINE w == bitmaps'[b] = table[NextGram(r)]
           d == [search[r] EXCEPT
                   !.at = IF Len(search[r].todo) = 1 THEN "sort" ELSE "lookup",
                   !.todo = Tail(@), !.held = @ \union {b}, !.whole = @ /\ w]
           match == Matches[search[r].query]
<1>1. search[r] \in Call /\ CallOK(search[r], DOMAIN bitmaps, DOMAIN table)
  BY CallFacts
<1>2. search[r].todo \in Seq(Seq(Nat)) /\ search[r].todo # <<>> /\ search[r].query \in Query
  BY <1>1 DEF Call, CallOK
<1>3. search' = [search EXCEPT ![r] = d]
  BY DEF Take, IInv, Calls
<1>4. /\ d.at = IF Len(search[r].todo) = 1 THEN "sort" ELSE "lookup"
      /\ d.todo = Tail(search[r].todo) /\ d.held = search[r].held \union {b}
      /\ d.query = search[r].query /\ (d.whole => search[r].whole /\ w)
  BY <1>1 DEF Call
<1> HIDE DEF d
<1>5. search'[r] = d /\ \A s \in Searcher \ {r} : search'[s] = search[s]
  BY <1>3, CallFacts
<1>6. NextGram(r) \in Range(search[r].todo) /\ Range(Tail(search[r].todo)) \subseteq Range(search[r].todo)
  <2> DEFINE s == search[r].todo
  <2>1. PICK n \in Nat \ {0} : n = Len(s) /\ DOMAIN s = 1 .. n
    BY <1>2
  <2>2. /\ Head(s) = s[1] /\ DOMAIN Tail(s) = 1 .. n - 1
        /\ \A k \in 1 .. n - 1 : Tail(s)[k] = s[k + 1] /\ k + 1 \in 1 .. n
    BY <1>2, <2>1
  <2>3. 1 \in 1 .. n
    BY <2>1
  <2>4. NextGram(r) \in Range(s)
    BY <2>1, <2>2, <2>3 DEF Range, NextGram
  <2>5. Range(Tail(s)) \subseteq Range(s)
    BY <2>1, <2>2 DEF Range
  <2>6. QED  BY <2>4, <2>5
<1>7. Range(search[r].todo) \subseteq Range(Grams[search[r].query])
  BY DEF CallWhole
<1>8. match \subseteq table[NextGram(r)]
  BY <1>2, <1>6, <1>7, MatchFacts DEF IInv
<1>9. ASSUME d.whole, NEW x \in d.held  PROVE match \subseteq bitmaps'[x]
  <2>1. search[r].whole /\ w
    BY <1>4, <1>9
  <2>2. CASE x = b
    BY <1>8, <2>1, <2>2
  <2>3. CASE x \in search[r].held
    <3>1. x \in DOMAIN bitmaps
      BY <1>1, <2>3 DEF CallOK
    <3>2. match \subseteq bitmaps[x]
      BY <2>1, <2>3 DEF CallWhole
    <3>3. QED  BY <3>1, <3>2
  <2>4. QED  BY <1>4, <2>2, <2>3
<1>10. CallWhole(d, bitmaps', Matches, Grams)
  <2>1. d.at \in {"sort", "lookup"}
    BY <1>4
  <2>2. Range(d.todo) \subseteq Range(Grams[d.query])
    BY <1>4, <1>6, <1>7
  <2>3. d.whole => \A x \in d.held : Matches[d.query] \subseteq bitmaps'[x]
    BY <1>4, <1>9
  <2>4. QED  BY <2>1, <2>2, <2>3 DEF CallWhole
<1>11. QED  BY <1>5, <1>10

LEMMA TakingWhole ==
  ASSUME IInv, WholeSoFar, NEW r \in Searcher, LookupHit(r) \/ Load(r)
  PROVE  WholeSoFar'
<1>1. CASE LookupHit(r)
  <2> DEFINE b == cache[NextGram(r)]
  <2>1. /\ search[r].at = "lookup" /\ NextGram(r) \in DOMAIN cache
        /\ UNCHANGED <<text, table, bitmaps, raced>> /\ Take(r, b)
    BY <1>1 DEF LookupHit
  <2>2. NextGram(r) \in DOMAIN table /\ b \in Nat
    BY <2>1 DEF IInv, Cache, Bitmaps
  <2> HIDE DEF b
  <2>3. \A x \in DOMAIN bitmaps : bitmaps'[x] = bitmaps[x]
    BY <2>1
  <2>4. ASSUME ~raced  PROVE CallWhole(search'[r], bitmaps', Matches, Grams)
    BY <2>1, <2>2, <2>3, <2>4, TakeWhole DEF WholeSoFar
  <2>5. \A s \in Searcher \ {r} : search'[s] = search[s]
    BY <2>1 DEF Take, IInv, Calls
  <2>6. QED  BY <2>1, <2>3, <2>4, <2>5, WholeStep
<1>2. CASE Load(r)
  <2> DEFINE new == Len(bitmaps) + 1
  <2>1. /\ search[r].at = "load" /\ bitmaps' = Append(bitmaps, table[NextGram(r)])
        /\ UNCHANGED <<text, table, raced>> /\ Take(r, new)
    BY <1>2 DEF Load
  <2>2. NextGram(r) \in DOMAIN table
    BY <2>1, CallFacts DEF CallOK, NextGram
  <2>3. bitmaps \in Seq(SUBSET Doc) /\ new \in Nat /\ table[NextGram(r)] \in SUBSET Doc
    BY <2>2, TableFacts DEF IInv, Bitmaps
  <2> HIDE DEF new
  <2>4. \A x \in DOMAIN bitmaps : bitmaps'[x] = bitmaps[x]
    BY <2>1, <2>3, AppendFacts
  <2>5. ASSUME ~raced  PROVE CallWhole(search'[r], bitmaps', Matches, Grams)
    BY <2>1, <2>2, <2>3, <2>4, <2>5, TakeWhole DEF WholeSoFar
  <2>6. \A s \in Searcher \ {r} : search'[s] = search[s]
    BY <2>1 DEF Take, IInv, Calls
  <2>7. QED  BY <2>1, <2>4, <2>5, <2>6, WholeStep
<1>3. QED  BY <1>1, <1>2

LEMMA SortWhole ==
  ASSUME IInv, WholeSoFar, NEW r \in Searcher, Sort(r)
  PROVE  WholeSoFar'
<1>1. search[r].at = "sort" /\ UNCHANGED <<text, table, bitmaps, raced>>
  BY DEF Sort
<1>2. PICK order \in SetToSeqs(search[r].held) :
         search' = [search EXCEPT ![r].at = "and", ![r].order = order]
  BY DEF Sort
<1>3. search[r].held \in SUBSET (1 .. Len(bitmaps)) /\ Len(bitmaps) \in Nat
  BY CallFacts DEF CallOK, IInv, Bitmaps
<1>4. Range(order) = search[r].held
  BY <1>3, OrderFacts
<1> DEFINE c == [search[r] EXCEPT !.at = "and", !.order = order]
<1>5. search' = [search EXCEPT ![r] = c]
  BY <1>2, CallFacts
<1>6. c.at = "and" /\ c.order = order /\ c.query = search[r].query /\ c.whole = search[r].whole
  BY CallFacts DEF Call
<1> HIDE DEF c
<1>7. search'[r] = c /\ \A s \in Searcher \ {r} : search'[s] = search[s]
  BY <1>5, CallFacts
<1>8. ASSUME ~raced  PROVE CallWhole(c, bitmaps, Matches, Grams)
  <2>1. CallWhole(search[r], bitmaps, Matches, Grams)
    BY <1>8 DEF WholeSoFar
  <2>2. QED  BY <1>1, <1>4, <1>6, <2>1 DEF CallWhole
<1>9. QED  BY <1>1, <1>7, <1>8, WholeStep

(* Both bitmaps have what must be found, and so has what they share; a call *)
(* that holds the first knows whether it is still whole.                    *)
LEMMA AndWhole ==
  ASSUME IInv, WholeSoFar, NEW r \in Searcher, And(r)
  PROVE  WholeSoFar'
<1> DEFINE order == search[r].order
           b == order[1]
           docs == bitmaps[order[1]] \intersect bitmaps[order[2]]
           c == [search[r] EXCEPT !.order = RemoveAt(@, 2)]
<1>1. /\ search[r].at = "and" /\ Len(order) >= 2 /\ Narrow(r, docs)
      /\ UNCHANGED <<text, table, raced>>
  BY DEF And
<1>2. /\ order \in Seq(Nat)
      /\ Range(order) \subseteq DOMAIN bitmaps
  BY CallFacts DEF Call, CallOK
<1>3. /\ Range(RemoveAt(order, 2)) \subseteq Range(order)
      /\ b \in Range(order) /\ order[2] \in Range(order)
  BY <1>1, <1>2, RemoveFacts
<1>4. bitmaps' = [bitmaps EXCEPT ![b] = docs]
  BY <1>1 DEF Narrow
<1>5. search' = [s \in Searcher |->
        IF s = r THEN IF docs = {} THEN Returned(r, {}) ELSE c
        ELSE IF b \in search[s].held
               THEN [search[s] EXCEPT !.whole = @ /\ docs = bitmaps[b]]
               ELSE search[s]]
  BY <1>1 DEF Narrow
<1>6. /\ c.at = "and" /\ c.order = RemoveAt(order, 2) /\ c.query = search[r].query
      /\ c.whole = search[r].whole
  BY <1>1, CallFacts DEF Call
<1>7. bitmaps'[b] = docs /\ \A x \in DOMAIN bitmaps \ {b} : bitmaps'[x] = bitmaps[x]
  BY <1>2, <1>3, <1>4
<1> HIDE DEF c
<1> SUFFICES ASSUME ~raced, NEW s \in Searcher
             PROVE  CallWhole(search'[s], bitmaps', Matches, Grams)
  BY <1>1, FixedStays DEF WholeSoFar, IInv
<1>8. CallWhole(search[s], bitmaps, Matches, Grams) /\ CallWhole(search[r], bitmaps, Matches, Grams)
  BY DEF WholeSoFar
<1>9. CASE s = r
  <2>1. search[r].whole => Matches[search[r].query] \subseteq docs
    BY <1>1, <1>3, <1>8 DEF CallWhole
  <2>2. CASE docs = {}
    <3> DEFINE d == Returned(r, {})
    <3>1. /\ d.at = "done" /\ d.query = search[r].query /\ d.result = {}
          /\ d.whole = search[r].whole
      BY IdleFacts DEF Returned, Idle
    <3> HIDE DEF d
    <3>2. search'[s] = d
      BY <1>5, <1>9, <2>2 DEF d
    <3>3. CallWhole(d, bitmaps', Matches, Grams)
      BY <2>1, <2>2, <3>1 DEF CallWhole
    <3>4. QED  BY <3>2, <3>3
  <2>3. CASE docs # {}
    <3>1. search'[s] = c
      BY <1>5, <1>9, <2>3
    <3>2. ASSUME search[r].whole, NEW x \in Range(RemoveAt(order, 2))
          PROVE  Matches[search[r].query] \subseteq bitmaps'[x]
      <4>1. CASE x = b
        BY <1>7, <2>1, <3>2, <4>1
      <4>2. CASE x # b
        <5>1. x \in Range(order) /\ x \in DOMAIN bitmaps
          BY <1>2, <1>3
        <5>2. Matches[search[r].query] \subseteq bitmaps[x]
          BY <1>1, <1>8, <3>2, <5>1 DEF CallWhole
        <5>3. QED  BY <1>7, <4>2, <5>1, <5>2
      <4>3. QED  BY <4>1, <4>2
    <3>3. CallWhole(c, bitmaps', Matches, Grams)
      BY <1>6, <3>2 DEF CallWhole
    <3>4. QED  BY <3>1, <3>3
  <2>4. QED  BY <2>2, <2>3
<1>10. CASE s # r
  <2>1. search[s] \in Call /\ search[s].held \subseteq DOMAIN bitmaps /\ Range(search[s].order) \subseteq search[s].held
    BY CallFacts DEF CallOK
  <2>2. CASE b \in search[s].held
    <3> DEFINE w == docs = bitmaps[b]
               d == [search[s] EXCEPT !.whole = @ /\ w]
    <3>1. search'[s] = d
      BY <1>5, <1>10, <2>2
    <3>2. /\ d.at = search[s].at /\ d.query = search[s].query /\ d.todo = search[s].todo
          /\ d.held = search[s].held /\ d.order = search[s].order /\ d.result = search[s].result
          /\ d.whole => search[s].whole /\ w
      BY <2>1 DEF Call
    <3> HIDE DEF d
    <3>3. d.whole => \A x \in DOMAIN bitmaps : bitmaps'[x] = bitmaps[x]
      BY <1>7, <3>2
    <3>4. CallWhole(d, bitmaps', Matches, Grams)
      BY <1>8, <2>1, <3>2, <3>3 DEF CallWhole
    <3>5. QED  BY <3>1, <3>4
  <2>3. CASE b \notin search[s].held
    <3>1. search'[s] = search[s]
      BY <1>5, <1>10, <2>3
    <3>2. \A x \in search[s].held : bitmaps'[x] = bitmaps[x]
      BY <1>7, <2>1, <2>3
    <3>3. QED  BY <1>8, <2>1, <3>1, <3>2 DEF CallWhole
  <2>4. QED  BY <2>2, <2>3
<1>11. QED  BY <1>9, <1>10

LEMMA NextWhole == IInv /\ WholeSoFar /\ [Next]_vars => WholeSoFar'
<1> SUFFICES ASSUME IInv, WholeSoFar, [Next]_vars  PROVE WholeSoFar'
  OBVIOUS
<1>1. CASE UNCHANGED vars
  <2>1. UNCHANGED <<text, table, bitmaps, search, raced>>
    BY <1>1 DEF vars
  <2>2. Matches' = Matches /\ Grams' = Grams
    BY <2>1, FixedStays DEF IInv
  <2>3. QED  BY <2>1, <2>2 DEF WholeSoFar
<1>2. ASSUME NEW r \in Searcher, NEW q \in Query, Begin(r, q)  PROVE WholeSoFar'
  BY <1>2, BeginWhole
<1>3. ASSUME NEW r \in Searcher, RacyAnd(r)  PROVE WholeSoFar'
  BY <1>3 DEF RacyAnd, WholeSoFar
<1>4. ASSUME NEW r \in Searcher,
             LookupHit(r) \/ LookupMiss(r) \/ Load(r) \/ Sort(r) \/ And(r) \/ Finish(r)
      PROVE  WholeSoFar'
  BY <1>4, TakingWhole, LookupMissWhole, SortWhole, AndWhole, FinishWhole
<1>5. CASE Terminated
  BY <1>1, <1>5 DEF Terminated
<1>6. QED  BY <1>1, <1>2, <1>3, <1>4, <1>5 DEF Next

LEMMA FoundOK == IInv /\ WholeSoFar => Found
<1> SUFFICES ASSUME IInv, WholeSoFar, NEW r \in Searcher, Done(r), ~raced, search[r].whole,
                    Len(BytesOf(Lower(search[r].query, LowerQueried))) >= 3,
                    NEW d \in Doc \ search[r].result, NEW t \in text[d],
                    ContainsText(Lower(t, LowerIndexed), Lower(search[r].query, LowerQueried)),
                    \A g \in Range(QueryGrams(search[r].query)) : ~Pruned(g)
             PROVE  FALSE
  BY DEF Found
<1> DEFINE q == search[r].query
<1>1. search[r].at = "done" /\ q \in Query
  BY CallFacts DEF Done, CallOK
<1>2. Range(QueryGrams(q)) \subseteq TextGrams(d)
  BY <1>1, PartFound DEF IInv
<1>3. QueryGrams(q) # <<>>
  BY <1>1, GramsExist
<1>4. d \in Matching(q)
  BY <1>2, <1>3 DEF Matching, Posting
<1>5. Matches[q] \subseteq search[r].result
  BY <1>1 DEF WholeSoFar, CallWhole
<1>6. QED  BY <1>1, <1>4, <1>5, MatchFacts DEF IInv

-----------------------------------------------------------------------------
(* The map of the cache leads to elements of its list, of the gram they are *)
(* found under, and the list keeps its capacity, although two goroutines    *)
(* may store the same gram and evict each other's element (oza/search.go:   *)
(* 244-296).                                                                *)
THEOREM CacheMappedAlways == Spec => []CacheMapped
<1>1. IInv => CacheMapped
  BY Consequences
<1>2. QED  BY <1>1, Inductive, PTL

(* As long as no two goroutines touched a bitmap at the same time, a search *)
(* returns only entries that have all grams of its query, although searches *)
(* intersect into bitmaps that the cache and others hold (oza/search.go:    *)
(* 174-239).                                                                *)
THEOREM SoundAlways == Spec => []Sound
<1>1. IInv => Sound
  BY Consequences
<1>2. QED  BY <1>1, Inductive, PTL
(* As long as no two goroutines touched a bitmap at the same time, a search  *)
(* that took whole posting lists finds every entry with a text that contains *)
(* the query, for every corpus, query and alphabet: the builder and Search   *)
(* cut a text and a part of it into the same grams, CJK or not, and nothing  *)
(* that has them all is lost on the way (ozawrite/search.go:95-157,          *)
(* oza/search.go:105-239).                                                   *)
THEOREM FoundAlways == Spec => []Found
<1>1. Init => IInv /\ WholeSoFar
  BY InitOK, InitWhole
<1>2. IInv /\ WholeSoFar /\ [Next]_vars => IInv' /\ WholeSoFar'
  BY NextOK, NextWhole
<1>3. IInv /\ WholeSoFar => Found
  BY FoundOK
<1>4. QED  BY <1>1, <1>2, <1>3, PTL DEF Spec
=============================================================================
