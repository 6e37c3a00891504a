---------------------------- MODULE OzaServeProofs ----------------------------
(****************************************************************************)
(* Proofs about OzaServe, for any archives, command lines, clients and       *)
(* requests: every archive is loaded whole, under a slug of its own; a page, *)
(* a search, a browse listing or a tool answers what the archive it names    *)
(* holds; a cached page is confirmed only if it is what would be sent; and a *)
(* handler runs into archives closed under it only after the deadline.       *)
(****************************************************************************)
EXTENDS OzaServe, FiniteSetTheorems, SequenceTheorems, WellFoundedInduction, TLAPS

(****************************************************************************)
(* Numbers, orders and sequences                                            *)
(****************************************************************************)
(* Every set of numbers that is not empty has a least one.                   *)
LEMMA LeastElement ==
  ASSUME NEW T \in SUBSET Nat, T # {}
  PROVE  \E x \in T : \A y \in T : x <= y
<1>1. PICK R : R = OpToRel(<, Nat)
  OBVIOUS
<1>2. IsWellFoundedOn(R, Nat)
  BY <1>1, NatLessThanWellFounded
<1>3. \A x, y \in Nat : y < x => <<y, x>> \in R
  BY <1>1 DEF OpToRel
<1>4. PICK x \in T : \A y \in T : ~ (<<y, x>> \in R)
  BY <1>2, WFMin
<1>5. ASSUME NEW y \in T PROVE x <= y
  <2>1. x \in Nat /\ y \in Nat
    OBVIOUS
  <2>2. ~(y < x)
    BY <1>3, <1>4, <2>1
  <2> QED BY <2>1, <2>2
<1> QED BY <1>5

(* What holds of 0 and goes from n to n + 1 holds of every number. *)
LEMMA NatSetInduction ==
  ASSUME NEW S, 0 \in S, \A n \in Nat : n \in S => n + 1 \in S
  PROVE  Nat \subseteq S
<1>1. SUFFICES ASSUME Nat \ S # {}  PROVE FALSE
  OBVIOUS
<1>2. PICK x \in Nat \ S : \A y \in Nat \ S : x <= y
  BY <1>1, LeastElement
<1>3. x - 1 \in Nat /\ x - 1 \in S
  BY <1>2
<1> QED BY <1>2, <1>3

(* What holds of 0 and goes from n to n + 1 below N holds up to N. *)
LEMMA IntervalInduction ==
  ASSUME NEW N \in Nat, NEW S, 0 \in S, \A n \in 0 .. N - 1 : n \in S => n + 1 \in S
  PROVE  0 .. N \subseteq S
<1> DEFINE T == {n \in Nat : n <= N => n \in S}
<1>1. 0 \in T
  OBVIOUS
<1>2. \A n \in Nat : n \in T => n + 1 \in T
  <2> SUFFICES ASSUME NEW n \in Nat, n \in T, n + 1 <= N PROVE n + 1 \in S
    OBVIOUS
  <2>1. n \in 0 .. N - 1 /\ n <= N
    OBVIOUS
  <2> QED BY <2>1
<1> HIDE DEF T
<1>3. Nat \subseteq T
  BY <1>1, <1>2, NatSetInduction
<1>4. ASSUME NEW n \in 0 .. N PROVE n \in S
  <2>1. n \in T
    BY <1>3
  <2> QED BY <2>1 DEF T
<1> QED BY <1>4

(* f starts in c and goes on by the steps, up to N. *)
Steps(f, N, V, c, step) ==
  f \in [0 .. N -> V] /\ f[0] = c /\ \A n \in 1 .. N : f[n] = step[n][f[n - 1]]

(* There is always such a function. *)
LEMMA StepsExist ==
  ASSUME NEW N \in Nat, NEW V, NEW c \in V, NEW step \in [1 .. N -> [V -> V]]
  PROVE  \E f : Steps(f, N, V, c, step)
<1> DEFINE Upto(n, f) == /\ f \in [0 .. n -> V] /\ f[0] = c
                         /\ \A i \in 1 .. n : f[i] = step[i][f[i - 1]]
           S == {n \in 0 .. N : \E f : Upto(n, f)}
<1>1. 0 \in S
  <2>1. Upto(0, [i \in 0 .. 0 |-> c])
    OBVIOUS
  <2>2. 0 \in 0 .. N
    OBVIOUS
  <2>3. QED  BY <2>1, <2>2
<1>2. ASSUME NEW n \in 0 .. N - 1, n \in S  PROVE n + 1 \in S
  <2>1. PICK f : Upto(n, f)
    BY <1>2
  <2>2. n \in Nat /\ n + 1 \in 1 .. N /\ n + 1 \in 0 .. N /\ (n + 1) - 1 = n /\ n \in 0 .. n /\ 0 \in 0 .. n
    OBVIOUS
  <2> DEFINE x == step[n + 1][f[n]]
             g == [i \in 0 .. n + 1 |-> IF i = n + 1 THEN x ELSE f[i]]
  <2>3. f[n] \in V /\ step[n + 1] \in [V -> V] /\ x \in V
    BY <2>1, <2>2
  <2>4. ASSUME NEW i \in 0 .. n + 1, i # n + 1  PROVE i \in 0 .. n /\ f[i] \in V
    BY <2>1, <2>2, <2>4
  <2> HIDE DEF x
  <2>5. g \in [0 .. n + 1 -> V] /\ g[0] = c
    BY <2>1, <2>2, <2>3, <2>4
  <2>6. ASSUME NEW i \in 1 .. n + 1  PROVE g[i] = step[i][g[i - 1]]
    <3>1. i - 1 \in 0 .. n /\ i - 1 # n + 1 /\ i - 1 \in 0 .. n + 1 /\ i \in 0 .. n + 1
      BY <2>2
    <3>2. g[i - 1] = f[i - 1]
      BY <3>1
    <3>3. CASE i = n + 1
      BY <2>2, <3>1, <3>2, <3>3 DEF x
    <3>4. CASE i # n + 1
      <4>1. i \in 1 .. n
        BY <2>2, <3>4
      <4>2. QED  BY <2>1, <3>1, <3>2, <3>4, <4>1
    <3>5. QED  BY <3>3, <3>4
  <2> HIDE DEF g
  <2>7. Upto(n + 1, g)
    BY <2>5, <2>6
  <2>8. QED  BY <2>2, <2>7
<1> HIDE DEF S
<1>3. N \in S
  <2>1. 0 .. N \subseteq S
    BY <1>1, <1>2, IntervalInduction
  <2>2. N \in 0 .. N
    OBVIOUS
  <2>3. QED  BY <2>1, <2>2
<1>4. PICK f : Upto(N, f)
  BY <1>3 DEF S
<1>5. QED  BY <1>4 DEF Steps

(* R, a set of pairs, puts any two elements of S into an order.              *)
TotalOrder(R, S) ==
  /\ \A x \in S : <<x, x>> \notin R
  /\ \A x, y \in S : x # y => <<x, y>> \in R \/ <<y, x>> \in R
  /\ \A x, y, z \in S : <<x, y>> \in R /\ <<y, z>> \in R => <<x, z>> \in R

(* s is the set S in the order R. *)
InOrder(s, S, R) ==
  /\ s \in [1 .. Cardinality(S) -> S]
  /\ \A i, j \in 1 .. Cardinality(S) : i < j => <<s[i], s[j]>> \in R

(* An order of a set is one of its subsets. *)
LEMMA SubOrder ==
  ASSUME NEW S, NEW R, TotalOrder(R, S), NEW T \in SUBSET S
  PROVE  TotalOrder(R, T)
BY DEF TotalOrder

(* A finite set in an order has a last element. *)
LEMMA LastElement ==
  ASSUME NEW S, NEW R, IsFiniteSet(S), TotalOrder(R, S), S # {}
  PROVE  \E m \in S : \A x \in S : x # m => <<x, m>> \in R
<1> DEFINE Has(T) == \E m \in T : \A x \in T : x # m => <<x, m>> \in R
           M == {n \in Nat : \A T \in SUBSET S : Cardinality(T) = n /\ T # {} => Has(T)}
<1>0. ASSUME NEW T \in SUBSET S PROVE IsFiniteSet(T) /\ Cardinality(T) \in Nat
  BY FS_Subset, FS_CardinalityType
<1>1. 0 \in M
  <2>1. ASSUME NEW T \in SUBSET S, Cardinality(T) = 0 PROVE T = {}
    BY <1>0, <2>1, FS_EmptySet
  <2> QED BY <2>1
<1>2. ASSUME NEW n \in Nat, n \in M PROVE n + 1 \in M
  <2>1. ASSUME NEW T \in SUBSET S, Cardinality(T) = n + 1, T # {} PROVE Has(T)
    <3>1. PICK t \in T : TRUE
      BY <2>1
    <3>2. PICK U : U = T \ {t}
      OBVIOUS
    <3>3. Cardinality(U) = n
      <4>1. Cardinality(T \ {t}) = IF t \in T THEN Cardinality(T) - 1 ELSE Cardinality(T)
        BY <1>0, FS_RemoveElement
      <4> QED BY <2>1, <3>2, <4>1
    <3>4. U \in SUBSET S /\ t \in S /\ t \notin U
      BY <3>2
    <3>5. CASE U = {}
      BY <3>1, <3>2, <3>5
    <3>6. CASE U # {}
      <4>1. Has(U)
        <5> HIDE DEF Has
        <5> QED BY <1>2, <3>3, <3>4, <3>6
      <4>2. PICK m \in U : \A x \in U : x # m => <<x, m>> \in R
        BY <4>1
      <4>3. m \in S /\ m # t /\ m \in T
        BY <3>2, <3>4
      <4>4. CASE <<t, m>> \in R
        <5>1. \A x \in T : x # m => <<x, m>> \in R
          BY <3>2, <4>2, <4>4
        <5> QED BY <4>3, <5>1
      <4>5. CASE <<m, t>> \in R
        <5>1. ASSUME NEW x \in T, x # t PROVE <<x, t>> \in R
          <6>1. x \in U /\ x \in S
            BY <3>2, <5>1
          <6>2. x = m \/ <<x, m>> \in R
            BY <4>2, <6>1
          <6> QED BY <3>4, <4>3, <4>5, <6>1, <6>2 DEF TotalOrder
        <5> QED BY <5>1
      <4> QED BY <3>4, <4>3, <4>4, <4>5 DEF TotalOrder
    <3> QED BY <3>5, <3>6
  <2> HIDE DEF Has
  <2> QED BY <2>1
<1>3. Nat \subseteq M
  <2>1. \A n \in Nat : n \in M => n + 1 \in M
    BY <1>2
  <2> HIDE DEF M
  <2> QED BY <1>1, <2>1, NatSetInduction
<1>4. Has(S)
  <2> HIDE DEF Has
  <2>1. Cardinality(S) \in M
    BY <1>0, <1>3
  <2> QED BY <2>1
<1> QED BY <1>4

(* Every finite set can be put into its order: what sort.Slice may rely *)
(* on.                                                                  *)
LEMMA OrderExists ==
  ASSUME NEW S, NEW R, IsFiniteSet(S), TotalOrder(R, S)
  PROVE  \E s : InOrder(s, S, R)
<1> DEFINE M == {n \in Nat : \A T \in SUBSET S : Cardinality(T) = n => \E s : InOrder(s, T, R)}
<1>0. ASSUME NEW T \in SUBSET S PROVE IsFiniteSet(T) /\ Cardinality(T) \in Nat
  BY FS_Subset, FS_CardinalityType
<1>1. 0 \in M
  <2>1. ASSUME NEW T \in SUBSET S, Cardinality(T) = 0 PROVE \E s : InOrder(s, T, R)
    <3> DEFINE e == [i \in 1 .. 0 |-> 0]
    <3>1. e \in [1 .. 0 -> T] /\ \A i \in 1 .. 0 : FALSE
      OBVIOUS
    <3> HIDE DEF e
    <3>2. InOrder(e, T, R)
      BY <2>1, <3>1 DEF InOrder
    <3> QED BY <3>2
  <2> QED BY <2>1
<1>2. ASSUME NEW n \in Nat, n \in M PROVE n + 1 \in M
  <2>1. ASSUME NEW T \in SUBSET S, Cardinality(T) = n + 1 PROVE \E s : InOrder(s, T, R)
    <3>1. T # {}
      <4>1. Cardinality({}) = 0
        BY FS_EmptySet
      <4> QED BY <2>1, <4>1
    <3>2. PICK m \in T : \A x \in T : x # m => <<x, m>> \in R
      <4>1. IsFiniteSet(T) /\ TotalOrder(R, T)
        BY <1>0, SubOrder
      <4> QED BY <3>1, <4>1, LastElement
    <3>3. PICK U : U = T \ {m}
      OBVIOUS
    <3>4. Cardinality(U) = n
      <4>1. Cardinality(T \ {m}) = IF m \in T THEN Cardinality(T) - 1 ELSE Cardinality(T)
        BY <1>0, FS_RemoveElement
      <4> QED BY <2>1, <3>3, <4>1
    <3>5. PICK s : InOrder(s, U, R)
      BY <1>2, <3>3, <3>4
    <3>6. /\ s \in [1 .. n -> U]
          /\ \A i, j \in 1 .. n : i < j => <<s[i], s[j]>> \in R
      BY <3>4, <3>5 DEF InOrder
    <3> DEFINE t == [i \in 1 .. n + 1 |-> IF i = n + 1 THEN m ELSE s[i]]
    <3>7. t \in [1 .. n + 1 -> T]
      BY <3>3, <3>6
    <3>8. ASSUME NEW i \in 1 .. n + 1, NEW j \in 1 .. n + 1, i < j PROVE <<t[i], t[j]>> \in R
      <4>1. i \in 1 .. n /\ t[i] = s[i] /\ s[i] \in U
        BY <3>6, <3>8
      <4>2. CASE j = n + 1
        BY <3>2, <3>3, <4>1, <4>2
      <4>3. CASE j # n + 1
        <5>1. j \in 1 .. n /\ t[j] = s[j]
          BY <4>3
        <5> QED BY <3>6, <3>8, <4>1, <5>1
      <4> QED BY <4>2, <4>3
    <3> HIDE DEF t
    <3> QED BY <2>1, <3>7, <3>8 DEF InOrder
  <2> QED BY <2>1
<1>3. Nat \subseteq M
  <2>1. \A n \in Nat : n \in M => n + 1 \in M
    BY <1>2
  <2> HIDE DEF M
  <2> QED BY <1>1, <2>1, NatSetInduction
<1> QED BY <1>0, <1>3

(* A set in its order has each element at one place. *)
LEMMA OrderFacts ==
  ASSUME NEW S, NEW R, IsFiniteSet(S), TotalOrder(R, S), NEW s, InOrder(s, S, R)
  PROVE  /\ s \in Seq(S) /\ Len(s) = Cardinality(S) /\ Len(s) \in Nat
         /\ \A x \in S : \E i \in 1 .. Len(s) : s[i] = x
         /\ \A i, j \in 1 .. Len(s) : s[i] = s[j] => i = j
<1>1. PICK n \in Nat : n = Cardinality(S)
  BY FS_CardinalityType
<1>2. s \in [1 .. n -> S] /\ \A i, j \in 1 .. n : i < j => <<s[i], s[j]>> \in R
  BY <1>1 DEF InOrder
<1>3. s \in Seq(S) /\ Len(s) = n
  BY <1>2
<1>4. ASSUME NEW i \in 1 .. n, NEW j \in 1 .. n, s[i] = s[j] PROVE i = j
  <2>1. ~(i < j) /\ ~(j < i)
    BY <1>2, <1>4 DEF TotalOrder
  <2> QED BY <2>1
<1>5. s \in Injection(1 .. n, S)
  BY <1>2, <1>4 DEF Injection, IsInjective
<1>6. IsFiniteSet(1 .. n) /\ Cardinality(1 .. n) = n
  <2>1. 1 \in Int /\ n \in Int
    OBVIOUS
  <2>2. IsFiniteSet(1 .. n) /\ Cardinality(1 .. n) = IF 1 > n THEN 0 ELSE n - 1 + 1
    BY <2>1, FS_Interval
  <2> QED BY <2>2
<1>7. s \in Surjection(1 .. n, S)
  BY <1>1, <1>5, <1>6, FS_Injection
<1> QED BY <1>1, <1>3, <1>4, <1>7 DEF Surjection

(* The order of numbers, as pairs. *)
Less(S) == {p \in S \X S : p[1] < p[2]}

(* < is an order of any set of integers. *)
LEMMA LessIsOrder ==
  ASSUME NEW S \in SUBSET Int
  PROVE  TotalOrder(Less(S), S) /\ \A x, y \in S : <<x, y>> \in Less(S) <=> x < y
<1> DEFINE R == Less(S)
<1>1. \A x, y \in S : <<x, y>> \in R <=> x < y
  BY DEF Less
<1> HIDE DEF R
<1>2. ASSUME NEW x \in S PROVE <<x, x>> \notin R
  <2>1. ~(x < x)
    OBVIOUS
  <2> QED BY <1>1, <2>1
<1>3. ASSUME NEW x \in S, NEW y \in S, x # y PROVE <<x, y>> \in R \/ <<y, x>> \in R
  <2>1. x < y \/ y < x
    BY <1>3
  <2> QED BY <1>1, <2>1
<1>4. ASSUME NEW x \in S, NEW y \in S, NEW z \in S, <<x, y>> \in R, <<y, z>> \in R
      PROVE  <<x, z>> \in R
  <2>1. x < y /\ y < z
    BY <1>1, <1>4
  <2>2. x < z
    BY <2>1
  <2> QED BY <1>1, <2>2
<1>5. TotalOrder(R, S)
  BY <1>2, <1>3, <1>4 DEF TotalOrder
<1> QED BY <1>1, <1>5 DEF R

(****************************************************************************)
(* Names and paths                                                          *)
(****************************************************************************)
LEMMA Constants ==
    /\ Browser \in Client /\ DefaultLimit \in Nat \ {0} /\ PageLimit \in Nat \ {0}
    /\ MaxRestarts \in Nat /\ RedirectBit \in Nat /\ IDSpace \in Nat \ {0} /\ BrowseLimit \in Nat \ {0}
BY OzaServeAssumption DEF OzaServeAssumption

(* Min is the least element. *)
LEMMA MinIsLeast ==
    ASSUME NEW S \in SUBSET Nat, S # {}
    PROVE  Min(S) \in S /\ \A x \in S : Min(S) <= x
<1>1. \E x \in S : \A y \in S : x <= y
  BY LeastElement
<1>2. QED  BY <1>1 DEF Min

(* A sequence has no more elements than places. *)
LEMMA RangeSize ==
    ASSUME NEW A, NEW s \in Seq(A)
    PROVE  IsFiniteSet(Range(s)) /\ Cardinality(Range(s)) \in Nat /\ Cardinality(Range(s)) <= Len(s)
<1>1. PICK n \in Nat : n = Len(s)
  BY LenProperties
<1>2. DOMAIN s = 1 .. n /\ s \in [1 .. n -> Range(s)]
  BY <1>1 DEF Range
<1>3. s \in Surjection(1 .. n, Range(s))
  BY <1>2 DEF Surjection, Range
<1>4. IsFiniteSet(1 .. n) /\ Cardinality(1 .. n) = n
  <2>1. IsFiniteSet(1 .. n) /\ Cardinality(1 .. n) = IF 1 > n THEN 0 ELSE n - 1 + 1
    BY FS_Interval
  <2>2. QED  BY <2>1
<1>5. IsFiniteSet(Range(s)) /\ Cardinality(Range(s)) <= n
  BY <1>3, <1>4, FS_Surjection
<1>6. QED  BY <1>1, <1>5, FS_CardinalityType

(* The files of the directories can be put into the order of their paths.   *)
LEMMA SortedFiles ==
    ASSUME NEW dirs, NEW F \in SUBSET Nat, IsFiniteSet(UNION dirs), UNION dirs \subseteq F
    PROVE  CollectOZAPaths(dirs) \in Seq(F)
<1> DEFINE S == UNION dirs
<1>1. PICK n \in Nat : n = Cardinality(S)
  BY FS_CardinalityType
<1>2. PICK s : InOrder(s, S, Less(S))
  <2>0. S \subseteq F
    OBVIOUS
  <2> HIDE DEF S
  <2>1. S \in SUBSET Int
    BY <2>0
  <2>2. TotalOrder(Less(S), S)
    BY <2>1, LessIsOrder
  <2>3. IsFiniteSet(S)
    BY DEF S
  <2>4. QED  BY <2>2, <2>3, OrderExists
<1>3. s \in [1 .. n -> S] /\ \A i, j \in 1 .. n : i < j => s[i] < s[j]
  BY <1>1, <1>2 DEF InOrder, Less
<1>4. CollectOZAPaths(dirs) = CHOOSE t \in [1 .. n -> S] : \A i, j \in 1 .. n : i < j => t[i] < t[j]
  BY <1>1 DEF CollectOZAPaths
<1>5. CollectOZAPaths(dirs) \in [1 .. n -> S]
  <2> HIDE DEF S
  <2>1. QED  BY <1>3, <1>4
<1>6. QED  BY <1>5

(* What Paths has are files; the positional ones come first.                *)
LEMMA PathsFacts ==
    ASSUME NEW n \in DOMAIN Shelves
    PROVE  /\ Paths[n] \in Seq(DOMAIN Shelves[n].file) /\ Len(Paths[n]) \in Nat
           /\ DOMAIN Paths[n] = 1 .. Len(Paths[n])
           /\ DOMAIN Shelves[n].positional \subseteq DOMAIN Paths[n]
<1> DEFINE F == DOMAIN Shelves[n].file
           p == Shelves[n].positional
           c == CollectOZAPaths(Shelves[n].dirs)
<1>1. F \in SUBSET Nat /\ p \in Seq(F)
  BY ShelvesAssumption
<1>2. c \in Seq(F)
  BY ShelvesAssumption, SortedFiles
<1>3. Paths[n] = p \o c
  BY DEF Paths
<1> HIDE DEF F, p, c
<1>4. p \o c \in Seq(F) /\ Len(p \o c) = Len(p) + Len(c)
  BY <1>1, <1>2, ConcatProperties
<1>5. PICK k \in Nat, l \in Nat : k = Len(p) /\ l = Len(c)
  BY <1>1, <1>2, LenProperties
<1>6. DOMAIN p = 1 .. k /\ DOMAIN (p \o c) = 1 .. k + l
  BY <1>1, <1>4, <1>5
<1>7. QED  BY <1>3, <1>4, <1>5, <1>6 DEF F, p

(* What is at a place is a file with a name, and an archive if it opens.    *)
LEMMA AtFacts ==
    ASSUME shelf \in DOMAIN Shelves, NEW i \in DOMAIN allPaths
    PROVE  /\ FileAt(i).name \in Seq(STRING) \ {<<>>}
           /\ ArchAt(i) = Bad \/ ArchAt(i) \in AllArchives
<1>1. PICK f \in DOMAIN Shelves[shelf].file : f = allPaths[i]
  <2>1. allPaths[i] \in DOMAIN Shelves[shelf].file
    BY PathsFacts DEF allPaths
  <2>2. QED  BY <2>1
<1>2. FileAt(i) = Shelves[shelf].file[f]
  BY <1>1 DEF FileAt
<1>3. FileAt(i).name \in Seq(STRING) \ {<<>>}
  BY <1>2, ShelvesAssumption
<1>4. ArchAt(i) \in UNION {{Shelves[n].file[g].arch : g \in DOMAIN Shelves[n].file} : n \in DOMAIN Shelves}
  BY <1>2 DEF ArchAt
<1>5. QED  BY <1>3, <1>4 DEF AllArchives

(* A name keeps a segment. *)
LEMMA SlugFacts ==
    ASSUME NEW name \in Seq(STRING) \ {<<>>}
    PROVE  MakeSlug(name) \in Seq(STRING) \ {<<>>}
<1> DEFINE ends == {n \in DOMAIN name : \A k \in n + 1 .. Len(name) : name[k] \in DateLike}
<1>1. PICK l \in Nat : l = Len(name) /\ DOMAIN name = 1 .. l /\ l # 0
  OBVIOUS
<1>2. l \in ends
  <2>1. \A k \in l + 1 .. l : FALSE
    OBVIOUS
  <2>2. QED  BY <1>1, <2>1
<1>3. ends \in SUBSET Nat /\ ends \subseteq 1 .. l
  BY <1>1
<1>4. Min(ends) \in 1 .. l
  <2> HIDE DEF ends
  <2>1. QED  BY <1>2, <1>3, MinIsLeast
<1>5. MakeSlug(name) = SubSeq(name, 1, Min(ends))
  BY DEF MakeSlug
<1> HIDE DEF ends
<1>6. SubSeq(name, 1, Min(ends)) \in Seq(STRING) /\ Len(SubSeq(name, 1, Min(ends))) = Min(ends)
  BY <1>1, <1>4
<1>7. QED  BY <1>4, <1>5, <1>6

(* One more element. *)
Longer(t, s, A) == t \in Seq(A) \ {<<>>} /\ Len(t) = Len(s) + 1 /\ IsPrefix(s, t)

(* One more element is a longer sequence. *)
LEMMA AppendFacts ==
    ASSUME NEW A, NEW s \in Seq(A), NEW x \in A
    PROVE  Longer(Append(s, x), s, A)
<1>1. PICK t, m : t = Append(s, x) /\ m = Len(s)
  OBVIOUS
<1>2. /\ t \in Seq(A) /\ Len(t) = m + 1 /\ m \in Nat /\ \A i \in 1 .. m : t[i] = s[i]
  BY <1>1, AppendProperties
<1>3. SubSeq(s, 1, m) = SubSeq(t, 1, m)
  BY <1>1, <1>2
<1>4. IsPrefix(s, t)
  BY <1>1, <1>2, <1>3 DEF IsPrefix
<1>5. t # <<>>
  BY <1>2
<1>6. QED  BY <1>1, <1>2, <1>4, <1>5 DEF Longer

(* As long as there are fewer slugs than suffixes, one is free; the plain   *)
(* name is taken if it is.                                                  *)
LEMMA FreeSlugFacts ==
    ASSUME NEW base \in Seq(STRING) \ {<<>>}, NEW taken, IsFiniteSet(taken),
           Cardinality(taken) < Len(SlugSuffix)
    PROVE  /\ FreeSlug(base, taken) \in Seq(STRING) \ {<<>>} /\ FreeSlug(base, taken) \notin taken
           /\ base \notin taken => FreeSlug(base, taken) = base
           /\ IsPrefix(base, FreeSlug(base, taken)) /\ Len(FreeSlug(base, taken)) <= Len(base) + 1
<1> DEFINE l == Len(SlugSuffix)
           free == {j \in DOMAIN SlugSuffix : Append(base, SlugSuffix[j]) \notin taken}
<1>1. l \in Nat /\ DOMAIN SlugSuffix = 1 .. l /\ \A j \in 1 .. l : SlugSuffix[j] \in STRING
  BY SuffixAssumption
<1>2. \A i, j \in 1 .. l : SlugSuffix[i] = SlugSuffix[j] => i = j
  BY <1>1, SuffixAssumption
<1>3. ASSUME NEW j \in 1 .. l
      PROVE  /\ Append(base, SlugSuffix[j]) \in Seq(STRING) \ {<<>>}
             /\ Len(Append(base, SlugSuffix[j])) = Len(base) + 1
             /\ IsPrefix(base, Append(base, SlugSuffix[j]))
  <2>1. SlugSuffix[j] \in STRING /\ base \in Seq(STRING)
    BY <1>1
  <2>2. Longer(Append(base, SlugSuffix[j]), base, STRING)
    BY <2>1, AppendFacts
  <2>3. QED  BY <2>2 DEF Longer
<1>4. \A i, j \in 1 .. l : Append(base, SlugSuffix[i]) = Append(base, SlugSuffix[j]) => i = j
  <2> SUFFICES ASSUME NEW i \in 1 .. l, NEW j \in 1 .. l,
                      Append(base, SlugSuffix[i]) = Append(base, SlugSuffix[j])
               PROVE  i = j
    OBVIOUS
  <2>1. PICK m \in Nat : m = Len(base)
    OBVIOUS
  <2>2. Append(base, SlugSuffix[i])[m + 1] = SlugSuffix[i] /\ Append(base, SlugSuffix[j])[m + 1] = SlugSuffix[j]
    BY <1>1, <2>1
  <2>3. QED  BY <1>2, <2>2
<1>5. free # {}
  <2> SUFFICES ASSUME free = {}  PROVE FALSE
    OBVIOUS
  <2> DEFINE f == [j \in 1 .. l |-> Append(base, SlugSuffix[j])]
  <2>1. f \in [1 .. l -> taken]
    BY <1>1
  <2>2. f \in Injection(1 .. l, taken)
    BY <1>4, <2>1 DEF Injection, IsInjective
  <2>3. Cardinality(1 .. l) <= Cardinality(taken)
    <3> HIDE DEF f
    <3>1. QED  BY <2>2, FS_Injection
  <2>4. Cardinality(1 .. l) = l
    <3>1. 1 \in Int /\ l \in Int
      BY <1>1
    <3>2. Cardinality(1 .. l) = IF 1 > l THEN 0 ELSE l - 1 + 1
      BY <3>1, FS_Interval
    <3>3. QED  BY <1>1, <3>2
  <2>5. QED  BY <1>1, <2>3, <2>4, FS_CardinalityType
<1>6. Min(free) \in free
  <2>1. free \in SUBSET Nat
    BY <1>1
  <2> HIDE DEF free
  <2>2. QED  BY <1>5, <2>1, MinIsLeast
<1>7. CASE base \notin taken
  <2>1. FreeSlug(base, taken) = base
    BY <1>7 DEF FreeSlug
  <2>2. IsPrefix(base, base) /\ Len(base) <= Len(base) + 1
    BY DEF IsPrefix
  <2>3. QED  BY <1>7, <2>1, <2>2
<1>8. CASE base \in taken
  <2>1. FreeSlug(base, taken) = Append(base, SlugSuffix[Min(free)])
    BY <1>8 DEF FreeSlug
  <2>2. Min(free) \in 1 .. l /\ Append(base, SlugSuffix[Min(free)]) \notin taken
    BY <1>1, <1>6
  <2> HIDE DEF free
  <2>3. PICK j \in 1 .. l : j = Min(free)
    BY <2>2
  <2>4. PICK m \in Nat : m = Len(base)
    OBVIOUS
  <2>5. QED  BY <1>3, <1>8, <2>1, <2>2, <2>3, <2>4
<1>9. QED  BY <1>7, <1>8

(****************************************************************************)
(* The slugs of the files that open                                         *)
(****************************************************************************)
Slug == Seq(STRING)

(* What k, the next file, is called behind s, the slugs so far.             *)
NextSlug(s, k) ==
    IF results[k] = "bad" THEN <<>> ELSE FreeSlug(BaseSlug(k), Range(s))

(* s has the slugs of the first n files. *)
Slugs(s, n) ==
    /\ s \in Seq(Slug) /\ Len(s) = n
    /\ \A k \in 1 .. n : s[k] = NextSlug(SubSeq(s, 1, k - 1), k)

(* Every file has a slug of its own name. *)
LEMMA BaseFacts ==
    ASSUME shelf \in DOMAIN Shelves, NEW i \in DOMAIN allPaths
    PROVE  BaseSlug(i) \in Slug \ {<<>>}
BY AtFacts, SlugFacts DEF BaseSlug, Slug

(* The next slug is free, and is the file's own where that is free. *)
LEMMA NextSlugFacts ==
    ASSUME shelf \in DOMAIN Shelves, NEW k \in DOMAIN allPaths, NEW s \in Seq(Slug), Len(s) < k
    PROVE  /\ NextSlug(s, k) \in Slug
           /\ results[k] # "bad" =>
                /\ NextSlug(s, k) # <<>> /\ NextSlug(s, k) \notin Range(s)
                /\ BaseSlug(k) \notin Range(s) => NextSlug(s, k) = BaseSlug(k)
                /\ IsPrefix(BaseSlug(k), NextSlug(s, k)) /\ Len(NextSlug(s, k)) <= Len(BaseSlug(k)) + 1
<1>1. CASE results[k] = "bad"
  BY <1>1 DEF NextSlug, Slug
<1>2. CASE results[k] # "bad"
  <2>1. PICK c \in Nat : c = Cardinality(Range(s)) /\ c <= Len(s)
    BY RangeSize
  <2>2. PICK n \in Nat, l \in Nat, m \in Nat :
          n = Len(Paths[shelf]) /\ l = Len(SlugSuffix) /\ n <= l /\ m = Len(s) /\ k \in 1 .. n
    <3>1. Len(Paths[shelf]) \in Nat /\ k \in 1 .. Len(Paths[shelf])
      BY PathsFacts DEF allPaths
    <3>2. Len(SlugSuffix) \in Nat /\ Len(Paths[shelf]) <= Len(SlugSuffix)
      BY SuffixAssumption, LenProperties
    <3>3. Len(s) \in Nat
      BY LenProperties
    <3>4. QED  BY <3>1, <3>2, <3>3
  <2>3. c < l
    BY <2>1, <2>2
  <2>4. IsFiniteSet(Range(s)) /\ BaseSlug(k) \in Seq(STRING) \ {<<>>}
    BY RangeSize, BaseFacts DEF Slug
  <2>5. PICK b \in Seq(STRING) \ {<<>>} : b = BaseSlug(k)
    BY <2>4
  <2>6. /\ FreeSlug(b, Range(s)) \in Seq(STRING) \ {<<>>} /\ FreeSlug(b, Range(s)) \notin Range(s)
        /\ b \notin Range(s) => FreeSlug(b, Range(s)) = b
        /\ IsPrefix(b, FreeSlug(b, Range(s))) /\ Len(FreeSlug(b, Range(s))) <= Len(b) + 1
    BY <2>1, <2>2, <2>3, <2>4, FreeSlugFacts
  <2>7. NextSlug(s, k) = FreeSlug(b, Range(s))
    BY <1>2, <2>5 DEF NextSlug
  <2>8. QED  BY <2>5, <2>6, <2>7 DEF Slug
<1>3. QED  BY <1>1, <1>2

(* One slug more. *)
LEMMA SlugsStep ==
    ASSUME shelf \in DOMAIN Shelves, NEW n \in Nat, n + 1 \in DOMAIN allPaths, NEW s, Slugs(s, n)
    PROVE  Slugs(Append(s, NextSlug(s, n + 1)), n + 1)
<1>1. s \in Seq(Slug) /\ Len(s) = n /\ \A k \in 1 .. n : s[k] = NextSlug(SubSeq(s, 1, k - 1), k)
  BY DEF Slugs
<1>2. PICK x \in Slug : x = NextSlug(s, n + 1)
  <2>1. Len(s) < n + 1
    BY <1>1
  <2>2. QED  BY <1>1, <2>1, NextSlugFacts
<1>3. PICK t : t = Append(s, x)
  OBVIOUS
<1>4. t \in Seq(Slug) /\ Len(t) = n + 1 /\ t[n + 1] = x /\ \A i \in 1 .. n : t[i] = s[i]
  BY <1>1, <1>3, AppendProperties
<1>5. ASSUME NEW k \in 1 .. n + 1  PROVE SubSeq(t, 1, k - 1) = SubSeq(s, 1, k - 1)
  <2>1. \A i \in 1 .. k - 1 : i \in 1 .. n
    OBVIOUS
  <2>2. \A i \in 1 .. k - 1 : t[i] = s[i] /\ t[i] \in Slug /\ s[i] \in Slug
    BY <1>1, <1>4, <2>1
  <2> HIDE DEF Slug
  <2>3. PICK u, v : u = SubSeq(t, 1, k - 1) /\ v = SubSeq(s, 1, k - 1)
    OBVIOUS
  <2>4. k - 1 \in Nat /\ 1 \in Int /\ k - 1 \in Int /\ (k - 1) - 1 + 1 = k - 1
    OBVIOUS
  <2>5. /\ u \in Seq(Slug) /\ Len(u) = (IF 1 <= k - 1 THEN (k - 1) - 1 + 1 ELSE 0)
        /\ \A i \in 1 .. (k - 1) - 1 + 1 : u[i] = t[1 + i - 1]
    BY <2>2, <2>3, <2>4, SubSeqProperties
  <2>6. /\ v \in Seq(Slug) /\ Len(v) = (IF 1 <= k - 1 THEN (k - 1) - 1 + 1 ELSE 0)
        /\ \A i \in 1 .. (k - 1) - 1 + 1 : v[i] = s[1 + i - 1]
    BY <2>2, <2>3, <2>4, SubSeqProperties
  <2>7. /\ Len(u) = k - 1 /\ Len(v) = k - 1
        /\ \A i \in 1 .. k - 1 : u[i] = v[i]
    BY <2>2, <2>4, <2>5, <2>6
  <2>8. u = [i \in 1 .. k - 1 |-> u[i]] /\ v = [i \in 1 .. k - 1 |-> v[i]]
    BY <2>5, <2>6, <2>7
  <2>9. QED  BY <2>3, <2>7, <2>8
<1>6. SubSeq(s, 1, n) = s
  <2>1. PICK l \in Nat : l = n
    OBVIOUS
  <2>2. QED  BY <1>1, SubSeqFull
<1>7. ASSUME NEW k \in 1 .. n + 1  PROVE t[k] = NextSlug(SubSeq(t, 1, k - 1), k)
  <2>1. CASE k = n + 1
    <3>1. k - 1 = n
      BY <2>1
    <3>2. SubSeq(t, 1, k - 1) = s
      BY <1>5, <1>6, <3>1
    <3>3. QED  BY <1>2, <1>4, <2>1, <3>2
  <2>2. CASE k # n + 1
    <3>1. k \in 1 .. n
      BY <2>2
    <3>2. QED  BY <1>1, <1>4, <1>5, <3>1
  <2>3. QED  BY <2>1, <2>2
<1>8. QED  BY <1>2, <1>3, <1>4, <1>7 DEF Slugs

(* SlugsOf is such a sequence for all the files. *)
LEMMA SlugsOfRight ==
    ASSUME shelf \in DOMAIN Shelves
    PROVE  Slugs(SlugsOf, Len(allPaths))
<1> DEFINE N == Len(allPaths)
           Body(f) == [k \in 0 .. N |-> IF k = 0 THEN <<>> ELSE Append(f[k - 1], NextSlug(f[k - 1], k))]
           V == Seq(Slug)
           next(s, k) == IF Slugs(s, k - 1) THEN Append(s, NextSlug(s, k)) ELSE <<>>
           step == [k \in 1 .. N |-> [s \in V |-> next(s, k)]]
<1>1. N \in Nat /\ DOMAIN allPaths = 1 .. N
  BY PathsFacts DEF allPaths
<1> HIDE DEF N
<1>2. <<>> \in V /\ Slugs(<<>>, 0)
  BY DEF Slugs, Slug
<1>3. ASSUME NEW k \in 1 .. N, NEW s, Slugs(s, k - 1)
      PROVE  Append(s, NextSlug(s, k)) \in V /\ Slugs(Append(s, NextSlug(s, k)), k)
  <2>1. PICK n \in Nat : n = k - 1 /\ n + 1 = k
    OBVIOUS
  <2>2. Slugs(Append(s, NextSlug(s, n + 1)), n + 1)
    BY <1>1, <1>3, <2>1, SlugsStep
  <2>3. QED  BY <2>1, <2>2 DEF Slugs
<1>4. step \in [1 .. N -> [V -> V]]
  <2>1. ASSUME NEW k \in 1 .. N, NEW s \in V  PROVE next(s, k) \in V
    <3> HIDE DEF V
    <3>1. QED  BY <1>2, <1>3
  <2> HIDE DEF next, V
  <2>2. QED  BY <2>1
<1> HIDE DEF V
<1>5. PICK f : Steps(f, N, V, <<>>, step)
  <2> HIDE DEF step
  <2>1. PICK c \in V : c = <<>>
    BY <1>2
  <2>2. QED  BY <1>1, <1>4, <2>1, StepsExist
<1>6. /\ f \in [0 .. N -> V] /\ f[0] = <<>>
      /\ \A k \in 1 .. N : f[k] = next(f[k - 1], k)
  <2>1. f \in [0 .. N -> V] /\ f[0] = <<>>
    BY <1>5 DEF Steps
  <2>2. ASSUME NEW k \in 1 .. N  PROVE f[k] = next(f[k - 1], k)
    <3>1. k - 1 \in 0 .. N
      BY <1>1
    <3>2. f[k - 1] \in V
      BY <2>1, <3>1
    <3>3. f[k] = step[k][f[k - 1]]
      BY <1>5 DEF Steps
    <3> HIDE DEF next
    <3>4. QED  BY <3>2, <3>3
  <2>3. QED  BY <2>1, <2>2
<1> HIDE DEF step
<1>7. \A k \in 0 .. N : Slugs(f[k], k)
  <2> DEFINE S == {k \in 0 .. N : Slugs(f[k], k)}
  <2>1. 0 \in S
    BY <1>1, <1>2, <1>6
  <2>2. ASSUME NEW n \in 0 .. N - 1, n \in S  PROVE n + 1 \in S
    <3>1. n + 1 \in 1 .. N /\ (n + 1) - 1 = n /\ n + 1 \in 0 .. N
      BY <1>1
    <3>2. f[n + 1] = Append(f[n], NextSlug(f[n], n + 1)) /\ Slugs(f[n], n)
      BY <1>6, <2>2, <3>1
    <3>3. QED  BY <1>3, <3>1, <3>2
  <2> HIDE DEF S
  <2>3. 0 .. N \subseteq S
    BY <1>1, <2>1, <2>2, IntervalInduction
  <2>4. QED  BY <2>3 DEF S
<1>8. f = Body(f)
  <2>1. ASSUME NEW k \in 0 .. N
        PROVE  f[k] = IF k = 0 THEN <<>> ELSE Append(f[k - 1], NextSlug(f[k - 1], k))
    <3>1. CASE k = 0
      BY <1>6, <3>1
    <3>2. CASE k # 0
      <4>1. k \in 1 .. N /\ k - 1 \in 0 .. N
        BY <1>1, <3>2
      <4>2. Slugs(f[k - 1], k - 1) /\ f[k] = next(f[k - 1], k)
        BY <1>6, <1>7, <4>1
      <4>3. QED  BY <3>2, <4>2
    <3>3. QED  BY <3>1, <3>2
  <2> HIDE DEF next
  <2>2. f = [k \in 0 .. N |-> f[k]]
    BY <1>6
  <2>3. QED  BY <2>1, <2>2
<1> HIDE DEF next
<1>9. PICK g : g = CHOOSE h : h = Body(h)
  OBVIOUS
<1>10. SlugsOf = g[N]
  BY <1>9, Zenon DEF SlugsOf, N, NextSlug, BaseSlug
<1>11. g = Body(g)
  <2> HIDE DEF Body
  <2>1. QED  BY <1>8, <1>9
<1>12. g[0] = <<>> /\ \A k \in 1 .. N : g[k] = Append(g[k - 1], NextSlug(g[k - 1], k))
  <2>1. 0 \in 0 .. N /\ \A k \in 1 .. N : k \in 0 .. N /\ k # 0
    BY <1>1
  <2>2. QED  BY <1>11, <2>1
<1>13. \A k \in 0 .. N : Slugs(g[k], k)
  <2> DEFINE S == {k \in 0 .. N : Slugs(g[k], k)}
  <2>1. 0 \in S
    BY <1>1, <1>2, <1>12
  <2>2. ASSUME NEW n \in 0 .. N - 1, n \in S  PROVE n + 1 \in S
    <3>1. n + 1 \in 1 .. N /\ (n + 1) - 1 = n /\ n + 1 \in 0 .. N
      BY <1>1
    <3>2. g[n + 1] = Append(g[n], NextSlug(g[n], n + 1)) /\ Slugs(g[n], n)
      BY <1>12, <2>2, <3>1
    <3>3. QED  BY <1>3, <3>1, <3>2
  <2> HIDE DEF S
  <2>3. 0 .. N \subseteq S
    BY <1>1, <2>1, <2>2, IntervalInduction
  <2>4. QED  BY <2>3 DEF S
<1>14. N \in 0 .. N
  BY <1>1
<1>15. QED  BY <1>10, <1>13, <1>14 DEF N


(****************************************************************************)
(* The library                                                              *)
(****************************************************************************)
(* What is served: each file that opens under one slug, its own name unless *)
(* an earlier file has that; the slugs are listed by title.                 *)
Placed(place) ==
    /\ place \in [DOMAIN place -> Goodies]
    /\ \A i \in Goodies : \E s \in DOMAIN place : place[s] = i
    /\ \A s, t \in DOMAIN place : place[s] = place[t] => s = t

Named(place) ==
    \A s \in DOMAIN place :
        /\ s \in Slug \ {<<>>}
        /\ IsPrefix(BaseSlug(place[s]), s) /\ Len(s) <= Len(BaseSlug(place[s])) + 1
        /\ \/ s = BaseSlug(place[s])
           \/ /\ BaseSlug(place[s]) \in DOMAIN place
              /\ place[BaseSlug(place[s])] < place[s]

LibraryOK == Placed(lib.place) /\ Named(lib.place) /\ lib \in LibrariesOf(lib.place)

(* The files that open are finitely many. *)
LEMMA GoodiesFacts ==
    ASSUME shelf \in DOMAIN Shelves
    PROVE  /\ Goodies \in SUBSET Nat /\ Goodies \subseteq DOMAIN allPaths
           /\ IsFiniteSet(Goodies) /\ Cardinality(Goodies) \in Nat
<1>1. PICK n \in Nat : DOMAIN allPaths = 1 .. n
  BY PathsFacts DEF allPaths
<1>2. IsFiniteSet(1 .. n)
  <2>1. 1 \in Int /\ n \in Int
    OBVIOUS
  <2>2. QED  BY <2>1, FS_Interval
<1>3. Goodies \subseteq 1 .. n
  BY <1>1 DEF Goodies
<1>4. IsFiniteSet(Goodies)
  BY <1>2, <1>3, FS_Subset
<1>5. QED  BY <1>1, <1>3, <1>4, FS_CardinalityType

(* The slugs of the library are as many as the files that open. *)
LEMMA PlacedFacts ==
    ASSUME shelf \in DOMAIN Shelves, NEW place, Placed(place)
    PROVE  /\ IsFiniteSet(DOMAIN place) /\ Cardinality(DOMAIN place) = Cardinality(Goodies)
           /\ \A G \in SUBSET Goodies :
                 Cardinality({s \in DOMAIN place : place[s] \in G}) = Cardinality(G)
<1>1. /\ place \in [DOMAIN place -> Goodies]
      /\ \A i \in Goodies : \E s \in DOMAIN place : place[s] = i
      /\ \A s, t \in DOMAIN place : place[s] = place[t] => s = t
  BY DEF Placed
<1>2. ASSUME NEW G \in SUBSET Goodies
      PROVE  LET S == {s \in DOMAIN place : place[s] \in G}
             IN  IsFiniteSet(S) /\ Cardinality(S) = Cardinality(G)
  <2> DEFINE S == {s \in DOMAIN place : place[s] \in G}
             f == [s \in S |-> place[s]]
  <2>1. f \in [S -> G]
    OBVIOUS
  <2>2. f \in Injection(S, G)
    BY <1>1, <2>1 DEF Injection, IsInjective
  <2>3. f \in Surjection(S, G)
    <3>1. ASSUME NEW i \in G  PROVE \E s \in S : f[s] = i
      <4>1. PICK s \in DOMAIN place : place[s] = i
        BY <1>1
      <4>2. s \in S
        BY <4>1
      <4>3. QED  BY <4>1, <4>2
    <3>2. QED  BY <2>1, <3>1 DEF Surjection
  <2>4. IsFiniteSet(G)
    BY GoodiesFacts, FS_Subset
  <2> HIDE DEF f, S
  <2>5. IsFiniteSet(S) /\ (Cardinality(S) = Cardinality(G) <=> f \in Surjection(S, G))
    BY <2>2, <2>4, FS_Injection
  <2>6. IsFiniteSet(S) /\ Cardinality(S) = Cardinality(G)
    BY <2>3, <2>5
  <2>7. QED  BY <2>6 DEF S
<1>3. DOMAIN place = {s \in DOMAIN place : place[s] \in Goodies}
  BY <1>1
<1>4. IsFiniteSet(DOMAIN place) /\ Cardinality(DOMAIN place) = Cardinality(Goodies)
  <2>1. PICK G \in SUBSET Goodies : G = Goodies
    OBVIOUS
  <2>2. QED  BY <1>2, <1>3, <2>1
<1>5. QED  BY <1>2, <1>4

(* What the library lists, and what it has at a slug. *)
LEMMA LibraryFacts ==
    ASSUME shelf \in DOMAIN Shelves, LibraryOK
    PROVE  /\ lib.slugs \in Seq(DOMAIN lib.place) /\ Len(lib.slugs) = Cardinality(Goodies)
           /\ Range(lib.slugs) = DOMAIN lib.place /\ DOMAIN lib.archives = DOMAIN lib.place
           /\ \A i, j \in DOMAIN lib.slugs : i < j =>
                 ArchAt(lib.place[lib.slugs[i]]).title <= ArchAt(lib.place[lib.slugs[j]]).title
           /\ \A s \in DOMAIN lib.place :
                 /\ lib.place[s] \in Goodies /\ Arch(lib, s) = ArchAt(lib.place[s])
                 /\ Arch(lib, s) \in AllArchives
                 /\ lib.archives[s].letters = computeLetterIndex(Arch(lib, s))
                 /\ lib.archives[s].front = CollectFrontArticleIDs(Arch(lib, s))
<1>1. PICK place : place = lib.place
  OBVIOUS
<1>2. /\ Placed(place)
      /\ \E q \in ByTitle(place) :
            lib = [slugs |-> q, place |-> place,
                   archives |-> [slug \in DOMAIN place |-> Loaded[shelf][place[slug]]]]
  BY <1>1 DEF LibraryOK, LibrariesOf
<1>3. PICK q \in ByTitle(place) :
         lib = [slugs |-> q, place |-> place,
                archives |-> [slug \in DOMAIN place |-> Loaded[shelf][place[slug]]]]
  BY <1>2
<1>4. /\ lib.slugs = q
      /\ lib.archives = [slug \in DOMAIN place |-> Loaded[shelf][place[slug]]]
  BY <1>3
<1>5. PICK n \in Nat : n = Cardinality(DOMAIN place) /\ n = Cardinality(Goodies)
  BY <1>2, PlacedFacts, GoodiesFacts
<1>6. /\ q \in [1 .. n -> DOMAIN place] /\ \A i, j \in 1 .. n : i # j => q[i] # q[j]
      /\ \A i, j \in DOMAIN q : i < j => ArchAt(place[q[i]]).title <= ArchAt(place[q[j]]).title
  BY <1>5 DEF ByTitle, SetToSeqs
<1>7. Range(q) = DOMAIN place
  <2>1. q \in Injection(1 .. n, DOMAIN place)
    BY <1>6 DEF Injection, IsInjective
  <2>2. IsFiniteSet(DOMAIN place)
    BY <1>2, PlacedFacts
  <2>3. Cardinality(1 .. n) = n
    <3>1. 1 \in Int /\ n \in Int
      OBVIOUS
    <3>2. Cardinality(1 .. n) = IF 1 > n THEN 0 ELSE n - 1 + 1
      BY <3>1, FS_Interval
    <3>3. QED  BY <3>2
  <2>4. q \in Surjection(1 .. n, DOMAIN place)
    BY <1>5, <2>1, <2>2, <2>3, FS_Injection
  <2>5. \A t \in DOMAIN place : \E i \in 1 .. n : q[i] = t
    BY <2>4 DEF Surjection
  <2>6. DOMAIN q = 1 .. n /\ \A i \in 1 .. n : q[i] \in DOMAIN place
    BY <1>6
  <2>7. Range(q) = {q[i] : i \in 1 .. n}
    BY <2>6 DEF Range
  <2>8. QED  BY <2>5, <2>6, <2>7
<1>8. q \in Seq(DOMAIN place) /\ Len(q) = n
  BY <1>6
<1>9. ASSUME NEW s \in DOMAIN place
      PROVE  /\ place[s] \in Goodies /\ Arch(lib, s) = ArchAt(place[s])
             /\ Arch(lib, s) \in AllArchives
             /\ lib.archives[s].letters = computeLetterIndex(Arch(lib, s))
             /\ lib.archives[s].front = CollectFrontArticleIDs(Arch(lib, s))
  <2>1. PICK i \in Goodies : i = place[s]
    BY <1>2 DEF Placed
  <2>2. i \in DOMAIN Paths[shelf] /\ ArchAt(i) # Bad
    BY GoodiesFacts DEF Goodies, allPaths
  <2>3. PICK a : a = ArchAt(i)
    OBVIOUS
  <2>4. a = Shelves[shelf].file[Paths[shelf][i]].arch
    BY <2>3 DEF ArchAt, FileAt, allPaths
  <2>5. Loaded[shelf][i] = [arch |-> a, letters |-> computeLetterIndex(a),
                            front |-> CollectFrontArticleIDs(a)]
    BY <2>2, <2>3, <2>4 DEF Loaded
  <2>6. lib.archives[s] = [arch |-> a, letters |-> computeLetterIndex(a),
                           front |-> CollectFrontArticleIDs(a)]
    BY <1>4, <2>1, <2>5
  <2>7. a \in AllArchives
    BY <2>2, <2>3, AtFacts DEF allPaths
  <2>8. QED  BY <2>1, <2>3, <2>6, <2>7 DEF Arch
<1>10. QED  BY <1>1, <1>4, <1>5, <1>6, <1>7, <1>8, <1>9

(* A slug names one file. *)
LEMMA SlugsDiffer ==
    ASSUME shelf \in DOMAIN Shelves, NEW i \in DOMAIN allPaths, NEW j \in DOMAIN allPaths,
           i < j, results[j] # "bad"
    PROVE  SlugsOf[i] # SlugsOf[j]
<1>1. PICK n \in Nat : n = Len(allPaths) /\ DOMAIN allPaths = 1 .. n
  BY PathsFacts DEF allPaths
<1>2. /\ SlugsOf \in Seq(Slug) /\ Len(SlugsOf) = n
      /\ \A k \in 1 .. n : SlugsOf[k] = NextSlug(SubSeq(SlugsOf, 1, k - 1), k)
  BY <1>1, SlugsOfRight DEF Slugs
<1>3. PICK p : p = SubSeq(SlugsOf, 1, j - 1)
  OBVIOUS
<1> HIDE DEF Slug
<1>4. p \in Seq(Slug) /\ Len(p) = j - 1 /\ p[i] = SlugsOf[i] /\ i \in DOMAIN p
  <2>1. \A k \in 1 .. j - 1 : SlugsOf[k] \in Slug
    BY <1>1, <1>2
  <2>2. 1 \in Int /\ j - 1 \in Int /\ j - 1 >= 1 /\ i \in 1 .. (j - 1) - 1 + 1
    BY <1>1
  <2>3. /\ p \in Seq(Slug) /\ Len(p) = (IF 1 <= j - 1 THEN (j - 1) - 1 + 1 ELSE 0)
        /\ \A k \in 1 .. (j - 1) - 1 + 1 : p[k] = SlugsOf[1 + k - 1]
    BY <1>3, <2>1, <2>2, SubSeqProperties
  <2>4. 1 + i - 1 = i
    BY <1>1
  <2>5. QED  BY <2>2, <2>3, <2>4
<1>5. NextSlug(p, j) \notin Range(p)
  <2>1. Len(p) < j
    BY <1>1, <1>4
  <2>2. QED  BY <1>4, <2>1, NextSlugFacts
<1>6. QED  BY <1>1, <1>2, <1>3, <1>4, <1>5 DEF Range

(* A slug is the name of its file unless the slug of an earlier one is. *)
LEMMA SlugsNamed ==
    ASSUME shelf \in DOMAIN Shelves, NEW i \in DOMAIN allPaths, results[i] # "bad"
    PROVE  /\ SlugsOf[i] \in Slug \ {<<>>}
           /\ IsPrefix(BaseSlug(i), SlugsOf[i]) /\ Len(SlugsOf[i]) <= Len(BaseSlug(i)) + 1
           /\ \/ SlugsOf[i] = BaseSlug(i)
              \/ \E j \in DOMAIN allPaths :
                    j < i /\ results[j] # "bad" /\ SlugsOf[j] = BaseSlug(i)
<1>1. PICK n \in Nat : n = Len(allPaths) /\ DOMAIN allPaths = 1 .. n
  BY PathsFacts DEF allPaths
<1>2. /\ SlugsOf \in Seq(Slug) /\ Len(SlugsOf) = n
      /\ \A k \in 1 .. n : SlugsOf[k] = NextSlug(SubSeq(SlugsOf, 1, k - 1), k)
  BY <1>1, SlugsOfRight DEF Slugs
<1>3. PICK p : p = SubSeq(SlugsOf, 1, i - 1)
  OBVIOUS
<1>4. p \in Seq(Slug) /\ Len(p) = i - 1 /\ \A j \in 1 .. i - 1 : p[j] = SlugsOf[j]
  <2> HIDE DEF Slug
  <2>1. \A k \in 1 .. i - 1 : SlugsOf[k] \in Slug
    BY <1>1, <1>2
  <2>2. 1 \in Int /\ i - 1 \in Int /\ i - 1 >= 0 /\ (i - 1) - 1 + 1 = i - 1
    BY <1>1
  <2>3. /\ p \in Seq(Slug) /\ Len(p) = (IF 1 <= i - 1 THEN (i - 1) - 1 + 1 ELSE 0)
        /\ \A k \in 1 .. (i - 1) - 1 + 1 : p[k] = SlugsOf[1 + k - 1]
    BY <1>3, <2>1, <2>2, SubSeqProperties
  <2>4. \A k \in 1 .. i - 1 : 1 + k - 1 = k
    OBVIOUS
  <2>5. QED  BY <2>2, <2>3, <2>4
<1>5. /\ NextSlug(p, i) \in Slug \ {<<>>}
      /\ BaseSlug(i) \notin Range(p) => NextSlug(p, i) = BaseSlug(i)
      /\ IsPrefix(BaseSlug(i), NextSlug(p, i)) /\ Len(NextSlug(p, i)) <= Len(BaseSlug(i)) + 1
  <2>1. Len(p) < i
    BY <1>1, <1>4
  <2>2. QED  BY <1>4, <2>1, NextSlugFacts
<1>6. SlugsOf[i] = NextSlug(p, i)
  BY <1>1, <1>2, <1>3
<1>7. CASE BaseSlug(i) \in Range(p)
  <2>1. PICK j \in 1 .. i - 1 : SlugsOf[j] = BaseSlug(i)
    BY <1>4, <1>7 DEF Range
  <2>2. j \in DOMAIN allPaths /\ j < i
    BY <1>1
  <2>3. results[j] # "bad"
    <3> SUFFICES ASSUME results[j] = "bad"  PROVE FALSE
      OBVIOUS
    <3>1. SlugsOf[j] = <<>>
      BY <1>1, <1>2, <2>2 DEF NextSlug
    <3>2. QED  BY <2>1, <3>1, BaseFacts
  <2>4. QED  BY <1>5, <1>6, <2>1, <2>2, <2>3
<1>8. QED  BY <1>5, <1>6, <1>7

(* What BuildLibrary builds when it has all the results. *)
LEMMA BuildPlace ==
    ASSUME shelf \in DOMAIN Shelves, DOMAIN results = DOMAIN allPaths,
           \A i \in DOMAIN allPaths : results[i] = IF ArchAt(i) = Bad THEN "bad" ELSE "open",
           NEW place,
           place = [s \in {SlugsOf[i] : i \in Goodies} |-> CHOOSE i \in Goodies : SlugsOf[i] = s]
    PROVE  Placed(place) /\ Named(place)
<1>1. Goodies \in SUBSET Nat /\ Goodies \subseteq DOMAIN allPaths
  BY GoodiesFacts
<1>2. \A i \in DOMAIN allPaths : results[i] # "bad" <=> i \in Goodies
  BY DEF Goodies
<1>3. ASSUME NEW i \in Goodies, NEW j \in Goodies, SlugsOf[i] = SlugsOf[j]  PROVE i = j
  <2>1. ~(i < j) /\ ~(j < i)
    BY <1>1, <1>2, <1>3, SlugsDiffer
  <2>2. QED  BY <1>1, <2>1
<1>4. DOMAIN place = {SlugsOf[i] : i \in Goodies}
  OBVIOUS
<1>5. ASSUME NEW i \in Goodies  PROVE place[SlugsOf[i]] = i
  <2>1. PICK s \in DOMAIN place : s = SlugsOf[i]
    BY <1>4
  <2>2. place[s] = CHOOSE j \in Goodies : SlugsOf[j] = s
    OBVIOUS
  <2>3. place[s] \in Goodies /\ SlugsOf[place[s]] = s
    BY <2>1, <2>2
  <2>4. QED  BY <1>3, <2>1, <2>3
<1>6. \A s \in DOMAIN place : \E i \in Goodies : s = SlugsOf[i] /\ place[s] = i
  BY <1>4, <1>5
<1>7. Placed(place)
  <2>1. place = [s \in DOMAIN place |-> place[s]]
    OBVIOUS
  <2>2. \A s \in DOMAIN place : place[s] \in Goodies
    BY <1>6
  <2>3. place \in [DOMAIN place -> Goodies]
    BY <2>1, <2>2
  <2>4. \A s, t \in DOMAIN place : place[s] = place[t] => s = t
    BY <1>6
  <2>5. ASSUME NEW i \in Goodies  PROVE \E s \in DOMAIN place : place[s] = i
    <3>1. SlugsOf[i] \in DOMAIN place
      BY <1>4
    <3>2. QED  BY <1>5, <3>1
  <2>6. QED  BY <2>3, <2>4, <2>5 DEF Placed
<1>8. ASSUME NEW s \in DOMAIN place
      PROVE  /\ s \in Slug \ {<<>>}
             /\ IsPrefix(BaseSlug(place[s]), s) /\ Len(s) <= Len(BaseSlug(place[s])) + 1
             /\ \/ s = BaseSlug(place[s])
                \/ /\ BaseSlug(place[s]) \in DOMAIN place
                   /\ place[BaseSlug(place[s])] < place[s]
  <2>1. PICK i \in Goodies : s = SlugsOf[i] /\ place[s] = i
    BY <1>6
  <2>2. /\ SlugsOf[i] \in Slug \ {<<>>}
        /\ IsPrefix(BaseSlug(i), SlugsOf[i]) /\ Len(SlugsOf[i]) <= Len(BaseSlug(i)) + 1
        /\ \/ SlugsOf[i] = BaseSlug(i)
           \/ \E j \in DOMAIN allPaths : j < i /\ results[j] # "bad" /\ SlugsOf[j] = BaseSlug(i)
    BY <1>1, <1>2, SlugsNamed
  <2>3. ASSUME NEW j \in DOMAIN allPaths, j < i, results[j] # "bad", SlugsOf[j] = BaseSlug(i)
        PROVE  BaseSlug(i) \in DOMAIN place /\ place[BaseSlug(i)] < i
    <3>1. j \in Goodies
      BY <1>2, <2>3
    <3>2. SlugsOf[j] \in DOMAIN place /\ place[SlugsOf[j]] = j
      BY <1>4, <1>5, <3>1
    <3>3. QED  BY <2>3, <3>2
  <2>4. QED  BY <2>1, <2>2, <2>3
<1>9. Named(place)
  BY <1>8 DEF Named
<1>10. QED  BY <1>7, <1>9
(****************************************************************************)
(* The end: archives outlive the requests on them                           *)
(****************************************************************************)
Quiet == \A c \in Client : inflight[c] = NoRequest

(* A session of ozamcp has calls only, and they are over when it stops.     *)
McpInv ==
    Mode = "mcp" =>
        /\ ~late /\ ~broken
        /\ \A c \in Client : inflight[c] # NoRequest => inflight[c].op \notin HttpOps
        /\ phase \in {"draining", "closed"} => Quiet

(* While nothing is loaded nothing runs; what still runs behind Close is *)
(* there only because Shutdown ran out of time or was not called.        *)
DrainInv ==
    /\ DOMAIN inflight = Client
    /\ phase \in {"loading", "exited", "failed"} => Quiet
    /\ phase = "closed" => Quiet \/ late \/ broken
    /\ faults => phase = "failed" /\ (late \/ broken) /\ Mode # "mcp"

IInv == DrainInv /\ McpInv

(* Nothing is closed before anything is open. *)
LEMMA InitOK == Init => IInv
BY DEF Init, IInv, DrainInv, McpInv, Quiet, Mode, NoRequest

(* The steps that only change what is loaded, or end the service.           *)
LEMMA LoadOK ==
    ASSUME IInv, (\E i \in DOMAIN results : OpenFile(i)) \/ BuildLibrary
    PROVE  IInv'
<1>1. CASE \E i \in DOMAIN results : OpenFile(i)
  BY <1>1 DEF OpenFile, IInv, DrainInv, McpInv, Quiet, Mode
<1>2. CASE BuildLibrary
  <2>1. /\ phase = "loading" /\ phase' \in {"serving", "failed"}
        /\ UNCHANGED <<shelf, inflight, late, broken, faults>>
    BY <1>2 DEF BuildLibrary
  <2>2. QED  BY <2>1 DEF IInv, DrainInv, McpInv, Quiet, Mode
<1>3. QED  BY <1>1, <1>2

(* A request begins while archives are open. *)
LEMMA BeginOK ==
    ASSUME IInv, NEW c \in Client, NEW req \in Requests[c], Begin(c, req)
    PROVE  IInv'
<1>1. /\ phase = "serving" /\ phase' = phase /\ Serves(req)
      /\ UNCHANGED <<shelf, late, broken, faults>>
  BY DEF Begin
<1>2. Mode = "mcp" => req.op \notin HttpOps
  BY <1>1 DEF Serves
<1>3. Mode = "mcp" => inflight' = [inflight EXCEPT ![c] = req]
  BY <1>2 DEF Begin, HttpOps
<1>4. DOMAIN inflight' = Client
  BY DEF Begin, IInv, DrainInv
<1>5. ASSUME Mode = "mcp", NEW d \in Client
      PROVE  inflight'[d] # NoRequest => inflight'[d].op \notin HttpOps
  BY <1>2, <1>3, <1>5 DEF IInv, DrainInv, McpInv
<1>6. QED  BY <1>1, <1>4, <1>5 DEF IInv, DrainInv, McpInv, Mode

(* One request less. *)
LEMMA ReplyOK ==
    ASSUME IInv, NEW c \in Client, Reply(c)
    PROVE  IInv'
<1>1. /\ phase \in {"serving", "draining"} /\ phase' = phase
      /\ inflight' = [inflight EXCEPT ![c] = NoRequest]
      /\ UNCHANGED <<shelf, late, broken, faults>>
  BY DEF Reply
<1>2. /\ DOMAIN inflight' = Client
      /\ \A d \in Client : inflight'[d] = NoRequest \/ inflight'[d] = inflight[d]
  BY <1>1 DEF IInv, DrainInv
<1>3. QED  BY <1>1, <1>2 DEF IInv, DrainInv, McpInv, Quiet, Mode

(* The read of a closed archive: the request was not over when Close came.  *)
LEMMA ReadClosedOK ==
    ASSUME IInv, NEW c \in Client, ReadClosed(c)
    PROVE  IInv'
<1>1. /\ phase = "closed" /\ inflight[c] # NoRequest
      /\ faults' = TRUE /\ phase' = "failed" /\ inflight' = [d \in Client |-> NoRequest]
      /\ UNCHANGED <<shelf, late, broken>>
  BY DEF ReadClosed
<1>2. ~Quiet
  BY <1>1 DEF Quiet
<1>3. (late \/ broken) /\ Mode # "mcp"
  BY <1>1, <1>2 DEF IInv, DrainInv, McpInv
<1>4. DOMAIN inflight' = Client /\ Quiet'
  BY <1>1 DEF Quiet
<1>5. QED  BY <1>1, <1>3, <1>4 DEF IInv, DrainInv, McpInv, Mode

(* The service is told to stop, its deadline passes, its listener fails.    *)
LEMMA StopOK ==
    ASSUME IInv, Stop \/ Deadline \/ ListenerFails
    PROVE  IInv'
<1>1. CASE Stop
  <2>1. /\ phase = "serving" /\ phase' = "draining"
        /\ UNCHANGED <<shelf, inflight, late, broken, faults>>
        /\ Mode # "http" => Calls = {}
    BY <1>1 DEF Stop
  <2>2. Mode = "mcp" => Quiet
    BY <2>1 DEF Calls, IInv, McpInv, Quiet
  <2>3. QED  BY <2>1, <2>2 DEF IInv, DrainInv, McpInv, Quiet, Mode
<1>2. CASE Deadline
  BY <1>2 DEF Deadline, IInv, DrainInv, McpInv, Quiet, Mode
<1>3. CASE ListenerFails
  BY <1>3 DEF ListenerFails, IInv, DrainInv, McpInv, Quiet, Mode
<1>4. QED  BY <1>1, <1>2, <1>3

(* Closing waits for requests, the deadline or a failed listener; ending and *)
(* restarting leave none.                                                    *)
LEMMA EndOK ==
    ASSUME IInv, CloseArchives \/ Exit \/ Restart
    PROVE  IInv'
<1>1. CASE CloseArchives
  <2>1. /\ phase = "draining" /\ phase' = "closed" /\ (Quiet \/ late \/ broken)
        /\ UNCHANGED <<shelf, inflight, late, broken, faults>>
    BY <1>1 DEF CloseArchives, Quiet
  <2>2. QED  BY <2>1 DEF IInv, DrainInv, McpInv, Quiet, Mode
<1>2. CASE Exit
  <2>1. /\ phase = "closed" /\ phase' = "exited" /\ inflight' = [c \in Client |-> NoRequest]
        /\ UNCHANGED <<shelf, late, broken, faults>>
    BY <1>2 DEF Exit
  <2>2. DOMAIN inflight' = Client /\ Quiet'
    BY <2>1 DEF Quiet
  <2>3. QED  BY <2>1, <2>2 DEF IInv, DrainInv, McpInv, Mode
<1>3. CASE Restart
  <2>1. /\ phase = "exited" /\ phase' = "loading" /\ ~late' /\ ~broken'
        /\ UNCHANGED <<inflight, faults>>
    BY <1>3 DEF Restart
  <2>2. QED  BY <2>1 DEF IInv, DrainInv, McpInv, Quiet
<1>4. QED  BY <1>1, <1>2, <1>3

(* Every step keeps the order of closing and what is known of a fault. *)
LEMMA NextOK == IInv /\ [Next]_vars => IInv'
<1> SUFFICES ASSUME IInv, [Next]_vars  PROVE IInv'
  OBVIOUS
<1>1. ASSUME NEW c \in Client, NEW req \in Requests[c], Begin(c, req)  PROVE IInv'
  BY <1>1, BeginOK
<1>2. ASSUME NEW c \in Client, Reply(c) \/ ReadClosed(c)  PROVE IInv'
  BY <1>2, ReplyOK, ReadClosedOK
<1>3. CASE UNCHANGED vars
  BY <1>3 DEF vars, IInv, DrainInv, McpInv, Quiet, Mode
<1>4. QED  BY <1>1, <1>2, <1>3, LoadOK, StopOK, EndOK DEF Next

-----------------------------------------------------------------------------
(* Whatever is requested, and whenever the process is told to stop, a       *)
(* handler reads an archive after it was closed only if Shutdown ran out of *)
(* time or the listener failed, and never in ozamcp.                        *)
THEOREM DrainedOrLateAlways == Spec => []DrainedOrLate
<1>1. IInv => DrainedOrLate
  BY DEF IInv, DrainInv, DrainedOrLate
<1>2. QED  BY InitOK, NextOK, <1>1, PTL DEF Spec

(****************************************************************************)
(* Loading: the library has what opened                                     *)
(****************************************************************************)
(* A result says whether the file opens. *)
ResultsRight ==
    /\ results \in [DOMAIN allPaths -> {"opening", "open", "bad"}]
    /\ \A i \in DOMAIN allPaths : /\ results[i] = "open" => ArchAt(i) # Bad
                                  /\ results[i] = "bad" => ArchAt(i) = Bad

Typed ==
    /\ shelf \in DOMAIN Shelves
    /\ phase \in {"loading", "serving", "draining", "closed", "exited", "failed"}
    /\ \A c \in Client : inflight[c] = NoRequest \/ Serves(inflight[c])
    /\ answer.client \in Client
    /\ late \in BOOLEAN /\ broken \in BOOLEAN /\ faults \in BOOLEAN
    /\ restarts \in 0 .. MaxRestarts

(* While the files are opened there is no library, and then it has all that *)
(* opened, until the end of the process.                                    *)
Shelved ==
    /\ open \subseteq DOMAIN results
    /\ phase = "loading" => open = {i \in DOMAIN results : results[i] = "open"} /\ lib = NoLibrary
    /\ lib = NoLibrary \/ LibraryOK
    /\ phase \in {"serving", "draining"} =>
          LibraryOK /\ open = Goodies /\ Goodies # {} /\ DOMAIN Shelves[shelf].positional \subseteq Goodies
    /\ phase = "failed" /\ ~faults =>
          /\ Goodies = {} \/ ~(DOMAIN Shelves[shelf].positional \subseteq Goodies)
          /\ Mode # "mcp" => open = {}

LoadInv == Typed /\ ResultsRight /\ Shelved

(* What is served is determined by the command line. *)
LEMMA SameShelf ==
    ASSUME UNCHANGED shelf
    PROVE  /\ allPaths' = allPaths /\ Goodies' = Goodies /\ Mode' = Mode
           /\ \A i : ArchAt(i)' = ArchAt(i)
           /\ \A req : Serves(req)' = Serves(req)
BY DEF allPaths, Goodies, Mode, ArchAt, FileAt, Serves

(* What is said of a library depends on the command line and the library     *)
(* only.                                                                     *)
LEMMA SameLibrary ==
    ASSUME UNCHANGED <<shelf, lib>>
    PROVE  LibraryOK' = LibraryOK
BY DEF LibraryOK, Placed, Named, LibrariesOf, ByTitle, BaseSlug, Goodies, allPaths, ArchAt, FileAt

(* What is said of the results depends on the command line and the results   *)
(* only.                                                                     *)
LEMMA ResultsSame ==
    ASSUME UNCHANGED <<shelf, results>>, ResultsRight
    PROVE  ResultsRight'
BY DEF ResultsRight, allPaths, ArchAt, FileAt

(* The steps of a process that serves, or is done. *)
LEMMA ShelvedSame ==
    ASSUME UNCHANGED <<shelf, results, lib>>, Shelved, phase # "loading", phase' # "loading",
           phase' \in {"serving", "draining"} => phase \in {"serving", "draining"},
           open' = open \/ (open' = {} /\ phase' \notin {"serving", "draining"}),
           phase' = "failed" => faults' \/ (phase = "failed" /\ faults' = faults)
    PROVE  Shelved'
<1>1. LibraryOK' = LibraryOK /\ Goodies' = Goodies /\ Mode' = Mode
  BY SameLibrary, SameShelf
<1>2. QED  BY <1>1 DEF Shelved, NoLibrary

(* Before loading nothing is said of a library. *)
LEMMA LoadInit == Init => LoadInv
<1> SUFFICES ASSUME Init  PROVE LoadInv
  OBVIOUS
<1>1. ResultsRight
  BY DEF Init, ResultsRight
<1>2. Typed
  <2>1. 0 \in 0 .. MaxRestarts /\ NoAnswer.client \in Client
    BY Constants DEF NoAnswer
  <2>2. QED  BY <2>1 DEF Init, Typed
<1>3. Shelved
  BY DEF Init, Shelved
<1>4. QED  BY <1>1, <1>2, <1>3 DEF LoadInv

(* Opening a file finds it bad exactly if it is. *)
LEMMA LoadOpen ==
    ASSUME LoadInv, NEW i \in DOMAIN results, OpenFile(i)
    PROVE  LoadInv'
<1>1. /\ phase = "loading" /\ results[i] = "opening"
      /\ results' = [results EXCEPT ![i] = IF ArchAt(i) = Bad THEN "bad" ELSE "open"]
      /\ open' = IF ArchAt(i) = Bad THEN open ELSE open \cup {i}
      /\ UNCHANGED <<shelf, phase, lib, inflight, answer, cached, late, broken, faults, restarts>>
  BY DEF OpenFile
<1>2. Typed'
  BY <1>1, SameShelf DEF LoadInv, Typed
<1>3. /\ DOMAIN results = DOMAIN allPaths /\ DOMAIN results' = DOMAIN results
      /\ \A j \in DOMAIN allPaths : results'[j] = IF j = i THEN IF ArchAt(i) = Bad THEN "bad" ELSE "open"
                                                  ELSE results[j]
  BY <1>1 DEF LoadInv, ResultsRight
<1>4. ResultsRight'
  <2>1. results' \in [DOMAIN allPaths -> {"opening", "open", "bad"}]
    BY <1>1 DEF LoadInv, ResultsRight
  <2>2. ASSUME NEW j \in DOMAIN allPaths
        PROVE  (results'[j] = "open" => ArchAt(j) # Bad) /\ (results'[j] = "bad" => ArchAt(j) = Bad)
    BY <1>3 DEF LoadInv, ResultsRight
  <2>3. allPaths' = allPaths /\ \A j : ArchAt(j)' = ArchAt(j)
    BY <1>1, SameShelf
  <2>4. QED  BY <2>1, <2>2, <2>3 DEF ResultsRight
<1>5. Shelved'
  <2>1. open = {j \in DOMAIN results : results[j] = "open"} /\ lib = NoLibrary
    BY <1>1 DEF LoadInv, Shelved
  <2>2. open' = {j \in DOMAIN results' : results'[j] = "open"}
    <3>1. CASE ArchAt(i) = Bad
      BY <1>1, <1>3, <2>1, <3>1
    <3>2. CASE ArchAt(i) # Bad
      BY <1>1, <1>3, <2>1, <3>2
    <3>3. QED  BY <3>1, <3>2
  <2>3. QED  BY <1>1, <2>1, <2>2 DEF Shelved
<1>6. QED  BY <1>2, <1>4, <1>5 DEF LoadInv

(* What is built has every good file in its place, or is refused. *)
LEMMA LoadBuild ==
    ASSUME LoadInv, BuildLibrary
    PROVE  LoadInv'
<1> DEFINE good == {i \in DOMAIN results : results[i] = "open"}
           place == [s \in {SlugsOf[i] : i \in good} |-> CHOOSE i \in good : SlugsOf[i] = s]
<1>1. /\ phase = "loading"
      /\ (\A i \in DOMAIN results : results[i] # "opening") \/ (Mode = "mcp" /\ HardFail)
      /\ UNCHANGED <<shelf, results, inflight, answer, cached, late, broken, faults, restarts>>
      /\ IF HardFail \/ good = {}
         THEN phase' = "failed" /\ open' = (IF Mode = "mcp" THEN open ELSE {}) /\ UNCHANGED lib
         ELSE lib' \in LibrariesOf(place) /\ phase' = "serving" /\ UNCHANGED open
  BY DEF BuildLibrary
<1>2. Typed'
  <2>1. phase' \in {"failed", "serving"}
    BY <1>1
  <2>2. QED  BY <1>1, <2>1, SameShelf DEF LoadInv, Typed
<1>3. ResultsRight'
  BY <1>1, ResultsSame DEF LoadInv
<1>4. open = good /\ lib = NoLibrary /\ shelf \in DOMAIN Shelves /\ DOMAIN results = DOMAIN allPaths
  BY <1>1 DEF LoadInv, Shelved, Typed, ResultsRight
<1>5. DOMAIN Shelves[shelf].positional \subseteq DOMAIN allPaths
  BY <1>4, PathsFacts DEF allPaths
<1>6. Goodies' = Goodies /\ Mode' = Mode
  BY <1>1, SameShelf
<1>7. CASE HardFail \/ good = {}
  <2>1. Goodies = {} \/ ~(DOMAIN Shelves[shelf].positional \subseteq Goodies)
    <3>1. CASE HardFail
      BY <1>5, <3>1 DEF HardFail, LoadInv, ResultsRight, Goodies
    <3>2. CASE ~HardFail
      BY <1>1, <1>4, <1>7, <3>2 DEF LoadInv, ResultsRight, Goodies
    <3>3. QED  BY <3>1, <3>2
  <2>2. phase' = "failed" /\ open' \subseteq open /\ (Mode # "mcp" => open' = {}) /\ lib' = lib
    BY <1>1, <1>7
  <2>3. open' \subseteq DOMAIN results'
    BY <1>1, <1>4, <2>2
  <2>4. Shelved'
    BY <1>1, <1>4, <1>6, <2>1, <2>2, <2>3 DEF Shelved
  <2>5. QED  BY <1>2, <1>3, <2>4 DEF LoadInv
<1>8. CASE ~(HardFail \/ good = {})
  <2>1. \A i \in DOMAIN allPaths : results[i] = IF ArchAt(i) = Bad THEN "bad" ELSE "open"
    BY <1>1, <1>4, <1>8 DEF LoadInv, ResultsRight
  <2>2. good = Goodies
    BY <1>4, <2>1 DEF Goodies
  <2>3. DOMAIN Shelves[shelf].positional \subseteq Goodies
    BY <1>4, <1>5, <1>8, <2>1 DEF HardFail, Goodies
  <2>4. lib' \in LibrariesOf(place) /\ phase' = "serving" /\ open' = open
    BY <1>1, <1>8
  <2>5. Placed(place) /\ Named(place)
    <3>1. place = [s \in {SlugsOf[i] : i \in Goodies} |-> CHOOSE i \in Goodies : SlugsOf[i] = s]
      BY <2>2
    <3> HIDE DEF place
    <3>2. QED  BY <1>4, <2>1, <3>1, BuildPlace
  <2>6. lib'.place = place
    <3> HIDE DEF place
    <3>1. QED  BY <2>4 DEF LibrariesOf
  <2> HIDE DEF place
  <2>7. LibraryOK'
    <3>1. Placed(lib'.place) /\ Named(lib'.place) /\ lib' \in LibrariesOf(lib'.place)
      BY <2>4, <2>5, <2>6
    <3>2. Placed(lib.place)'
      BY <1>6, <3>1 DEF Placed
    <3>3. Named(lib.place)'
      BY <1>1, <3>1 DEF Named, BaseSlug, FileAt, allPaths
    <3>4. (lib \in LibrariesOf(lib.place))'
      BY <1>1, <3>1 DEF LibrariesOf, ByTitle, ArchAt, FileAt, allPaths
    <3>5. QED  BY <3>2, <3>3, <3>4 DEF LibraryOK
  <2>8. Shelved'
    BY <1>1, <1>4, <1>6, <1>8, <2>2, <2>3, <2>4, <2>7 DEF Shelved
  <2>9. QED  BY <1>2, <1>3, <2>8 DEF LoadInv
<1>9. QED  BY <1>7, <1>8

(* The steps of the service. *)
LEMMA LoadBegin ==
    ASSUME LoadInv, IInv, NEW c \in Client, NEW req \in Requests[c], Begin(c, req)
    PROVE  LoadInv'
<1>1. /\ phase = "serving" /\ Serves(req) /\ answer' = NoAnswer
      /\ UNCHANGED <<shelf, phase, results, open, lib, cached, late, broken, faults, restarts>>
  BY DEF Begin
<1>2. DOMAIN inflight = Client
  BY DEF IInv, DrainInv
<1>3. \A d \in Client : inflight'[d] = inflight[d] \/ Serves(inflight'[d])
  <2>1. req \in [op : STRING, slug : Seq(STRING), q : STRING, limit : Int, letter : Nat,
                 offset : Int, path : Path, match : {<<>>}, id : Int, max : Int,
                 section : BOOLEAN]
    BY RequestsAssumption
  <2>2. ASSUME NEW m  PROVE [req EXCEPT !.match = m].op = req.op
    BY <2>1
  <2>3. PICK r : r.op = req.op /\ inflight' = [inflight EXCEPT ![c] = r]
    <3>1. PICK m : inflight' = [inflight EXCEPT ![c] = IF req.op = "content"
                                                       THEN [req EXCEPT !.match = m] ELSE req]
      BY DEF Begin
    <3>2. CASE req.op = "content"
      BY <2>2, <3>1, <3>2
    <3>3. CASE req.op # "content"
      BY <3>1, <3>3
    <3>4. QED  BY <3>2, <3>3
  <2>4. Serves(r)
    BY <1>1, <2>3 DEF Serves
  <2>5. QED  BY <1>2, <2>3, <2>4
<1>4. Typed'
  BY <1>1, <1>3, SameShelf, Constants DEF LoadInv, Typed, NoAnswer
<1>5. ResultsRight'
  BY <1>1, ResultsSame DEF LoadInv
<1>6. Shelved'
  BY <1>1, ShelvedSame DEF LoadInv
<1>7. QED  BY <1>4, <1>5, <1>6 DEF LoadInv

(* Answering leaves the library as it is. *)
LEMMA LoadReply ==
    ASSUME LoadInv, IInv, NEW c \in Client, Reply(c) \/ ReadClosed(c)
    PROVE  LoadInv'
<1>1. /\ phase # "loading" /\ phase' = (IF phase = "closed" THEN "failed" ELSE phase)
      /\ phase = "closed" => faults'
      /\ phase # "closed" => faults' = faults
      /\ faults' \in BOOLEAN
      /\ UNCHANGED <<shelf, results, open, lib, late, broken, restarts>>
  BY DEF Reply, ReadClosed, LoadInv, Typed
<1>2. answer'.client \in Client
  BY DEF Reply, ReadClosed, LoadInv, Typed
<1>3. \A d \in Client : inflight'[d] = NoRequest \/ inflight'[d] = inflight[d]
  BY DEF Reply, ReadClosed, IInv, DrainInv
<1>4. Typed'
  <2>1. phase' \in {"loading", "serving", "draining", "closed", "exited", "failed"}
    BY <1>1 DEF LoadInv, Typed
  <2>2. QED  BY <1>1, <1>2, <1>3, <2>1, SameShelf DEF LoadInv, Typed
<1>5. ResultsRight'
  BY <1>1, ResultsSame DEF LoadInv
<1>6. Shelved'
  BY <1>1, ShelvedSame DEF LoadInv
<1>7. QED  BY <1>4, <1>5, <1>6 DEF LoadInv

(* Stopping leaves the library as it is. *)
LEMMA LoadEnd ==
    ASSUME LoadInv, IInv, Stop \/ Deadline \/ ListenerFails \/ CloseArchives \/ Exit
    PROVE  LoadInv'
<1>1. /\ UNCHANGED <<shelf, results, lib, faults, restarts>>
      /\ answer' \in {answer, NoAnswer} /\ late' \in {late, TRUE} /\ broken' \in {broken, TRUE}
      /\ phase # "loading" /\ phase' \in {"draining", "closed", "exited"}
      /\ phase' = "draining" => phase \in {"serving", "draining"}
      /\ open' = open \/ (open' = {} /\ phase' = "closed")
  BY DEF Stop, Deadline, ListenerFails, CloseArchives, Exit
<1>2. \A d \in Client : inflight'[d] = NoRequest \/ inflight'[d] = inflight[d]
  BY DEF Stop, Deadline, ListenerFails, CloseArchives, Exit
<1>3. answer'.client \in Client
  BY <1>1, Constants DEF NoAnswer, LoadInv, Typed
<1>4. Typed'
  BY <1>1, <1>2, <1>3, SameShelf DEF LoadInv, Typed
<1>5. ResultsRight'
  BY <1>1, ResultsSame DEF LoadInv
<1>6. Shelved'
  BY <1>1, ShelvedSame DEF LoadInv
<1>7. QED  BY <1>4, <1>5, <1>6 DEF LoadInv

(* A new process knows nothing of the old one's files. *)
LEMMA LoadRestart ==
    ASSUME LoadInv, IInv, Restart
    PROVE  LoadInv'
<1>1. /\ phase = "exited" /\ restarts < MaxRestarts
      /\ shelf' \in DOMAIN Shelves /\ restarts' = restarts + 1 /\ phase' = "loading"
      /\ results' = [i \in DOMAIN Paths[shelf'] |-> "opening"]
      /\ open' = {} /\ lib' = NoLibrary /\ answer' = NoAnswer /\ late' = FALSE /\ broken' = FALSE
      /\ UNCHANGED <<inflight, cached, faults>>
  BY DEF Restart
<1>2. \A c \in Client : inflight'[c] = NoRequest
  BY <1>1 DEF IInv, DrainInv, Quiet
<1>3. Typed'
  <2>1. restarts' \in 0 .. MaxRestarts
    BY <1>1, Constants DEF LoadInv, Typed
  <2>2. answer'.client \in Client
    BY <1>1, Constants DEF NoAnswer
  <2>3. QED  BY <1>1, <1>2, <2>1, <2>2 DEF LoadInv, Typed
<1>4. ResultsRight'
  <2>1. allPaths' = Paths[shelf']
    BY DEF allPaths
  <2>2. results' \in [DOMAIN allPaths' -> {"opening", "open", "bad"}]
    BY <1>1, <2>1
  <2>3. \A i \in DOMAIN allPaths' : results'[i] = "opening"
    BY <1>1, <2>1
  <2>4. QED  BY <2>2, <2>3 DEF ResultsRight
<1>5. Shelved'
  <2>1. \A i \in DOMAIN results' : results'[i] = "opening"
    BY <1>1
  <2>2. QED  BY <1>1, <2>1 DEF Shelved
<1>6. QED  BY <1>3, <1>4, <1>5 DEF LoadInv

(* Every step keeps what is known of the library. *)
LEMMA LoadNext == LoadInv /\ IInv /\ [Next]_vars => LoadInv'
<1> SUFFICES ASSUME LoadInv, IInv, [Next]_vars  PROVE LoadInv'
  OBVIOUS
<1>1. ASSUME NEW i \in DOMAIN results, OpenFile(i)  PROVE LoadInv'
  BY <1>1, LoadOpen
<1>2. ASSUME NEW c \in Client, NEW req \in Requests[c], Begin(c, req)  PROVE LoadInv'
  BY <1>2, LoadBegin
<1>3. ASSUME NEW c \in Client, Reply(c) \/ ReadClosed(c)  PROVE LoadInv'
  BY <1>3, LoadReply
<1>4. CASE UNCHANGED vars
  <2>1. UNCHANGED <<shelf, lib>>
    BY <1>4 DEF vars
  <2>2. ResultsRight'
    BY <1>4, ResultsSame DEF vars, LoadInv
  <2>3. Typed'
    BY <1>4, SameShelf DEF vars, LoadInv, Typed
  <2>4. Shelved'
    BY <1>4, <2>1, SameLibrary, SameShelf DEF vars, LoadInv, Shelved
  <2>5. QED  BY <2>2, <2>3, <2>4 DEF LoadInv
<1>5. QED  BY <1>1, <1>2, <1>3, <1>4, LoadBuild, LoadEnd, LoadRestart DEF Next

-----------------------------------------------------------------------------
(* What the loaded library has shows in the property.                       *)
LEMMA LoadInvRight == LoadInv => LoadRight
<1> SUFFICES ASSUME LoadInv  PROVE LoadRight
  OBVIOUS
<1>1. shelf \in DOMAIN Shelves /\ DOMAIN results = DOMAIN allPaths
  BY DEF LoadInv, Typed, ResultsRight
<1>2. TypeOK
  <2>1. Range(results) \subseteq {"opening", "open", "bad"}
    BY DEF LoadInv, ResultsRight, Range
  <2>2. Range(lib.slugs) = DOMAIN lib.place /\ Range(lib.place) \subseteq DOMAIN results
    <3>1. CASE lib = NoLibrary
      <4>1. lib.slugs = <<>> /\ lib.place = <<>>
        BY <3>1 DEF NoLibrary
      <4>2. DOMAIN <<>> = {}
        OBVIOUS
      <4>3. QED  BY <4>1, <4>2 DEF Range
    <3>2. CASE LibraryOK
      <4>1. Range(lib.slugs) = DOMAIN lib.place /\ \A s \in DOMAIN lib.place : lib.place[s] \in Goodies
        BY <1>1, <3>2, LibraryFacts
      <4>2. QED  BY <1>1, <4>1 DEF Range, Goodies
    <3>3. QED  BY <3>1, <3>2 DEF LoadInv, Shelved
  <2>3. {late, broken, faults} \subseteq BOOLEAN
    BY DEF LoadInv, Typed
  <2>4. QED  BY <1>1, <2>1, <2>2, <2>3 DEF TypeOK, LoadInv, Typed, Shelved
<1>3. ASSUME phase \in {"serving", "draining"}
      PROVE  /\ Goodies # {} /\ DOMAIN Shelves[shelf].positional \subseteq Goodies
             /\ open = Goodies
             /\ Len(lib.slugs) = Cardinality(Goodies)
             /\ \A i \in Goodies :
                   /\ Cardinality(ServedAs(i)) = Cardinality({j \in Goodies : ArchAt(j) = ArchAt(i)})
                   /\ \E s \in ServedAs(i) : IsPrefix(BaseSlug(i), s) /\ Len(s) <= Len(BaseSlug(i)) + 1
                   /\ BaseSlug(i) \in ServedAs(i) \/ \E j \in Goodies : j < i /\ BaseSlug(i) \in ServedAs(j)
             /\ \A i, j \in DOMAIN lib.slugs : i < j =>
                   Arch(lib, lib.slugs[i]).title <= Arch(lib, lib.slugs[j]).title
  <2>1. LibraryOK /\ open = Goodies /\ Goodies # {} /\ DOMAIN Shelves[shelf].positional \subseteq Goodies
    BY <1>3 DEF LoadInv, Shelved
  <2>2. /\ lib.slugs \in Seq(DOMAIN lib.place) /\ Len(lib.slugs) = Cardinality(Goodies)
        /\ \A i, j \in DOMAIN lib.slugs : i < j =>
              ArchAt(lib.place[lib.slugs[i]]).title <= ArchAt(lib.place[lib.slugs[j]]).title
        /\ \A s \in DOMAIN lib.place : lib.place[s] \in Goodies /\ Arch(lib, s) = ArchAt(lib.place[s])
    BY <1>1, <2>1, LibraryFacts
  <2>3. \A i, j \in DOMAIN lib.slugs : i < j =>
           Arch(lib, lib.slugs[i]).title <= Arch(lib, lib.slugs[j]).title
    <3>1. \A i \in DOMAIN lib.slugs : lib.slugs[i] \in DOMAIN lib.place
      BY <2>2
    <3>2. QED  BY <2>2, <3>1
  <2>4. Placed(lib.place) /\ Named(lib.place)
    BY <2>1 DEF LibraryOK
  <2>5. ASSUME NEW i \in Goodies
        PROVE  /\ Cardinality(ServedAs(i)) = Cardinality({j \in Goodies : ArchAt(j) = ArchAt(i)})
               /\ \E s \in ServedAs(i) : IsPrefix(BaseSlug(i), s) /\ Len(s) <= Len(BaseSlug(i)) + 1
               /\ BaseSlug(i) \in ServedAs(i) \/ \E j \in Goodies : j < i /\ BaseSlug(i) \in ServedAs(j)
    <3>1. PICK G \in SUBSET Goodies : G = {j \in Goodies : ArchAt(j) = ArchAt(i)}
      OBVIOUS
    <3>2. ServedAs(i) = {s \in DOMAIN lib.place : lib.place[s] \in G}
      BY <2>2, <3>1 DEF ServedAs
    <3>3. Cardinality(ServedAs(i)) = Cardinality(G)
      <4>1. Cardinality({s \in DOMAIN lib.place : lib.place[s] \in G}) = Cardinality(G)
        BY <1>1, <2>4, PlacedFacts
      <4>2. QED  BY <3>2, <4>1
    <3>4. PICK s \in DOMAIN lib.place : lib.place[s] = i
      BY <2>4 DEF Placed
    <3>5. s \in ServedAs(i)
      BY <3>4 DEF ServedAs
    <3>6. /\ IsPrefix(BaseSlug(i), s) /\ Len(s) <= Len(BaseSlug(i)) + 1
          /\ \/ s = BaseSlug(i)
             \/ BaseSlug(i) \in DOMAIN lib.place /\ lib.place[BaseSlug(i)] < i
      BY <2>4, <3>4 DEF Named
    <3>7. ASSUME BaseSlug(i) \in DOMAIN lib.place, lib.place[BaseSlug(i)] < i
          PROVE  \E j \in Goodies : j < i /\ BaseSlug(i) \in ServedAs(j)
      <4>1. PICK j \in Goodies : j = lib.place[BaseSlug(i)]
        BY <2>2, <3>7
      <4>2. BaseSlug(i) \in ServedAs(j)
        BY <3>7, <4>1 DEF ServedAs
      <4>3. QED  BY <3>7, <4>1, <4>2
    <3>8. QED  BY <3>1, <3>3, <3>5, <3>6, <3>7
  <2>6. QED  BY <2>1, <2>2, <2>3, <2>5
<1>4. phase = "failed" /\ ~faults =>
          /\ Goodies = {} \/ ~(DOMAIN Shelves[shelf].positional \subseteq Goodies)
          /\ Mode # "mcp" => open = {}
  BY DEF LoadInv, Shelved
<1>5. QED  BY <1>2, <1>3, <1>4 DEF LoadRight

(* Loading ends in a failure exactly if a named file is bad or none is      *)
(* good; else every good file is served, under its own name unless an       *)
(* earlier file has it, as often as it was given, and stays open.           *)
THEOREM LoadRightAlways == Spec => []LoadRight
<1>1. QED  BY InitOK, NextOK, LoadInit, LoadNext, LoadInvRight, PTL DEF Spec

(****************************************************************************)
(* The last answer is one its request may get from the library              *)
(****************************************************************************)
(* What a client asks, with the ETag it has. *)
Asked(req) == \E c \in Client : \E r \in Requests[c] : \E m : req = [r EXCEPT !.match = m]

(* A request is typed, also with the bound and the section of another. *)
LEMMA AskedFacts ==
    ASSUME NEW req, Asked(req)
    PROVE  /\ req.op \in STRING /\ req.slug \in Seq(STRING) /\ req.q \in STRING
           /\ req.limit \in Int /\ req.letter \in Nat /\ req.offset \in Int /\ req.path \in Path
           /\ req.id \in Int /\ req.max \in Int /\ req.section \in BOOLEAN
           /\ req.op = "browse" => req.limit > 0
           /\ \A max, section : /\ [req EXCEPT !.max = max, !.section = section].slug = req.slug
                                /\ [req EXCEPT !.max = max, !.section = section].path = req.path
                                /\ [req EXCEPT !.max = max, !.section = section].id = req.id
                                /\ [req EXCEPT !.max = max, !.section = section].max = max
                                /\ [req EXCEPT !.max = max, !.section = section].section = section
<1>0. PICK c \in Client : \E r \in Requests[c] : \E m : req = [r EXCEPT !.match = m]
  BY DEF Asked
<1>1. PICK r \in Requests[c] : \E m : req = [r EXCEPT !.match = m]
  BY <1>0
<1>2. /\ r \in [op : STRING, slug : Seq(STRING), q : STRING, limit : Int, letter : Nat,
                offset : Int, path : Path, match : {<<>>}, id : Int, max : Int,
                section : BOOLEAN]
      /\ r.op = "browse" => r.limit > 0
  BY RequestsAssumption
<1> HIDE DEF Path
<1>3. QED  BY <1>1, <1>2

(* An answer is there while the library is. *)
Answered == LibraryOK /\ Asked(answer.req) /\ answer.reply \in Replies(answer.req)

AnswerInv ==
    /\ \A c \in Client : inflight[c] = NoRequest \/ Asked(inflight[c])
    /\ phase = "loading" => answer = NoAnswer
    /\ answer = NoAnswer \/ Answered

(* What is in flight stays asked as it was when others are answered. *)
LEMMA StillAsked ==
    ASSUME \A c \in Client : inflight[c] = NoRequest \/ Asked(inflight[c]),
           \A c \in Client : inflight'[c] \in {inflight[c], NoRequest}
    PROVE  (\A c \in Client : inflight[c] = NoRequest \/ Asked(inflight[c]))'
<1> SUFFICES ASSUME NEW c \in Client, inflight'[c] # NoRequest
             PROVE  \E d \in Client : \E r \in Requests[d] : \E m : inflight'[c] = [r EXCEPT !.match = m]
  BY Zenon DEF Asked
<1>1. inflight'[c] = inflight[c] /\ Asked(inflight[c])
  OBVIOUS
<1>2. QED  BY <1>1 DEF Asked

(* The answers depend on the library alone. *)
LEMMA SameReplies ==
    ASSUME UNCHANGED lib, NEW req
    PROVE  Replies(req)' = Replies(req)
<1>1. \A slug, ids : Links(slug, ids)' = Links(slug, ids)
  BY DEF Links, Link
<1>2. \A slug : handleRandom(slug)' = handleRandom(slug)
  BY DEF handleRandom, Link
<1>3. handleRandomAll' = handleRandomAll
  BY DEF handleRandomAll, handleRandom, Link
<1>4. \A q : handleSearchAll(q)' = handleSearchAll(q)
  BY DEF handleSearchAll, Links, Link
<1>5. \A slug, q : handleSearchJSON(slug, q)' = handleSearchJSON(slug, q)
  BY DEF handleSearchJSON, Links, Link
<1>6. \A slug, q, limit : handleSearchPage(slug, q, limit)' = handleSearchPage(slug, q, limit)
  BY DEF handleSearchPage, Links, Link
<1>7. \A slug, l, o, n : handleBrowse(slug, l, o, n)' = handleBrowse(slug, l, o, n)
  BY DEF handleBrowse, Links, Link
<1>8. \A slug, path, m : handleContent(slug, path, m)' = handleContent(slug, path, m)
  BY DEF handleContent, RedirectTo, makeETag, Link
<1>9. QED  BY <1>2, <1>3, <1>4, <1>5, <1>6, <1>7, <1>8 DEF Replies

(* At first nothing has been answered. *)
LEMMA AnswerInit == Init => AnswerInv
BY DEF Init, AnswerInv

(* The last answer is right as long as its library is there. *)
LEMMA AnswerSame ==
    ASSUME AnswerInv, UNCHANGED <<shelf, lib, answer>>, phase' # "loading",
           \A c \in Client : inflight'[c] \in {inflight[c], NoRequest}
    PROVE  AnswerInv'
<1>1. LibraryOK' = LibraryOK
  BY SameLibrary
<1>2. ASSUME Answered  PROVE Answered'
  <2>1. PICK req : req = answer.req
    OBVIOUS
  <2>2. Replies(req)' = Replies(req)
    BY SameReplies
  <2>3. answer'.req = req /\ answer'.reply \in Replies(req)
    BY <1>2, <2>1 DEF Answered
  <2>4. (answer.reply \in Replies(answer.req))' /\ Asked(answer'.req)
    BY <1>2, <2>1, <2>2, <2>3 DEF Answered
  <2>5. QED  BY <1>1, <1>2, <2>4 DEF Answered, Asked
<1>3. (answer = NoAnswer \/ Answered)'
  <2>1. CASE answer = NoAnswer
    BY <2>1 DEF NoAnswer, NoRequest
  <2>2. CASE Answered
    BY <1>2, <2>2
  <2>3. QED  BY <2>1, <2>2 DEF AnswerInv
<1>4. (\A c \in Client : inflight[c] = NoRequest \/ Asked(inflight[c]))'
  BY StillAsked DEF AnswerInv
<1>5. QED  BY <1>3, <1>4 DEF AnswerInv

(* Every step keeps the last answer one that its request may get. *)
LEMMA AnswerNext == AnswerInv /\ LoadInv /\ IInv /\ [Next]_vars => AnswerInv'
<1> SUFFICES ASSUME AnswerInv, LoadInv, IInv, [Next]_vars  PROVE AnswerInv'
  OBVIOUS
<1>1. ASSUME (\E i \in DOMAIN results : OpenFile(i)) \/ BuildLibrary  PROVE AnswerInv'
  <2>1. phase = "loading" /\ answer' = answer /\ inflight' = inflight
    BY <1>1 DEF OpenFile, BuildLibrary
  <2>2. answer' = NoAnswer
    BY <2>1 DEF AnswerInv
  <2>3. QED  BY <2>1, <2>2 DEF AnswerInv, Asked
<1>2. ASSUME NEW c \in Client, NEW req \in Requests[c], Begin(c, req)  PROVE AnswerInv'
  <2>1. answer' = NoAnswer /\ phase' = phase
    BY <1>2 DEF Begin
  <2>2. PICK r : Asked(r) /\ inflight' = [inflight EXCEPT ![c] = r]
    <3>1. req = [req EXCEPT !.match = <<>>]
      <4>1. req \in [op : STRING, slug : Seq(STRING), q : STRING, limit : Int, letter : Nat,
                     offset : Int, path : Path, match : {<<>>}, id : Int, max : Int,
                     section : BOOLEAN]
        BY RequestsAssumption
      <4>2. QED  BY <4>1
    <3>2. PICK m : inflight' = [inflight EXCEPT ![c] = IF req.op = "content"
                                                       THEN [req EXCEPT !.match = m] ELSE req]
      BY <1>2 DEF Begin
    <3>3. Asked(req) /\ Asked([req EXCEPT !.match = m])
      BY <3>1 DEF Asked
    <3>4. QED  BY <3>2, <3>3
  <2>3. \A d \in Client : inflight'[d] = NoRequest \/ Asked(inflight'[d])
    BY <2>2 DEF AnswerInv, IInv, DrainInv
  <2>4. QED  BY <2>1, <2>3 DEF AnswerInv, Asked
<1>3. ASSUME NEW c \in Client, Reply(c)  PROVE AnswerInv'
  <2>1. PICK reply \in Replies(inflight[c]) :
           answer' = [client |-> c, req |-> inflight[c], reply |-> reply]
    BY <1>3 DEF Reply
  <2>2. /\ phase \in {"serving", "draining"} /\ phase' = phase /\ inflight[c] # NoRequest
        /\ UNCHANGED <<shelf, lib>> /\ inflight' = [inflight EXCEPT ![c] = NoRequest]
    BY <1>3 DEF Reply
  <2>3. LibraryOK /\ LibraryOK' /\ Asked(inflight[c])
    BY <2>2, SameLibrary DEF LoadInv, Shelved, AnswerInv
  <2>4. (answer.reply \in Replies(answer.req))' /\ Asked(answer'.req)
    <3>1. PICK req : req = inflight[c]
      OBVIOUS
    <3>2. Replies(req)' = Replies(req)
      BY <2>2, SameReplies
    <3>3. answer'.req = req /\ answer'.reply \in Replies(req)
      BY <2>1, <3>1
    <3>4. QED  BY <2>3, <3>1, <3>2, <3>3
  <2>5. \A d \in Client : inflight'[d] = NoRequest \/ inflight'[d] = inflight[d]
    BY <2>2 DEF IInv, DrainInv
  <2>6. Answered'
    BY <2>3, <2>4 DEF Answered, Asked
  <2>7. (\A d \in Client : inflight[d] = NoRequest \/ Asked(inflight[d]))'
    BY <2>5, StillAsked DEF AnswerInv
  <2>8. QED  BY <2>2, <2>6, <2>7 DEF AnswerInv
<1>4. ASSUME NEW c \in Client, ReadClosed(c)  PROVE AnswerInv'
  BY <1>4, AnswerSame DEF ReadClosed
<1>5. CASE Stop
  BY <1>5 DEF Stop, AnswerInv, Asked
<1>6. CASE Deadline \/ ListenerFails \/ CloseArchives \/ Exit
  BY <1>6, AnswerSame DEF Deadline, ListenerFails, CloseArchives, Exit
<1>7. CASE Restart
  <2>1. phase = "exited" /\ answer' = NoAnswer /\ inflight' = inflight
    BY <1>7 DEF Restart
  <2>2. QED  BY <2>1 DEF AnswerInv, Asked
<1>8. CASE UNCHANGED vars
  <2>1. /\ UNCHANGED <<shelf, lib, answer, phase, inflight>>
    BY <1>8 DEF vars
  <2>2. CASE phase = "loading"
    BY <2>1, <2>2 DEF AnswerInv, Asked
  <2>3. CASE phase # "loading"
    BY <2>1, <2>3, AnswerSame
  <2>4. QED  BY <2>2, <2>3
<1>9. QED  BY <1>1, <1>2, <1>3, <1>4, <1>5, <1>6, <1>7, <1>8 DEF Next

(* The invariants together. *)
ServerInv == IInv /\ LoadInv /\ AnswerInv

(* In every state the archives are closed in order, the library is what      *)
(* loading makes of the files, and the last answer is one that its request  *)
(* may get from that library.                                                *)
THEOREM ServerInvAlways == Spec => []ServerInv
<1>1. Init => ServerInv
  BY InitOK, LoadInit, AnswerInit DEF ServerInv
<1>2. ServerInv /\ [Next]_vars => ServerInv'
  BY NextOK, LoadNext, AnswerNext DEF ServerInv
<1>3. QED  BY <1>1, <1>2, PTL DEF Spec

(****************************************************************************)
(* Browsing                                                                 *)
(****************************************************************************)
LEMMA MinOfTwo ==
    ASSUME NEW a \in Nat, NEW b \in Nat
    PROVE  Min({a, b}) = IF a <= b THEN a ELSE b
<1>1. {a, b} \in SUBSET Nat /\ {a, b} # {}
  OBVIOUS
<1>2. Min({a, b}) \in {a, b} /\ \A x \in {a, b} : Min({a, b}) <= x
  BY <1>1, MinIsLeast
<1>3. QED  BY <1>2

(* Max is the greatest element. *)
LEMMA MaxIsGreatest ==
    ASSUME NEW n \in Nat, NEW S \in SUBSET (1 .. n), S # {}
    PROVE  Max(S) \in S /\ \A x \in S : x <= Max(S)
<1> DEFINE T == {n - x : x \in S}
<1>1. T \in SUBSET Nat /\ T # {}
  <2>1. \A x \in S : n - x \in Nat
    OBVIOUS
  <2>2. T # {}
    OBVIOUS
  <2>3. QED  BY <2>1, <2>2
<1>2. PICK t \in T : \A y \in T : t <= y
  <2> HIDE DEF T
  <2>1. QED  BY <1>1, LeastElement
<1>3. PICK m \in S : t = n - m
  BY <1>2
<1>4. \A x \in S : m >= x
  <2>1. ASSUME NEW x \in S  PROVE m >= x
    <3>1. n - x \in T
      OBVIOUS
    <3>2. n - m <= n - x
      BY <1>2, <1>3, <3>1
    <3>3. QED  BY <3>2
  <2>2. QED  BY <2>1
<1>5. \E x \in S : \A y \in S : x >= y
  BY <1>4
<1>6. Max(S) \in S /\ \A y \in S : Max(S) >= y
  BY <1>5 DEF Max
<1>7. QED  BY <1>6

(* How many numbers there are from one to another. *)
LEMMA UpTo ==
    ASSUME NEW m \in Nat, NEW n \in Nat
    PROVE  IsFiniteSet(m .. n) /\ Cardinality(m .. n) = IF m <= n THEN n - m + 1 ELSE 0
<1>1. m \in Int /\ n \in Int
  OBVIOUS
<1>2. IsFiniteSet(m .. n) /\ Cardinality(m .. n) = IF m > n THEN 0 ELSE n - m + 1
  BY <1>1, FS_Interval
<1>3. QED  BY <1>2

(* The IDs of an archive are finitely many and name its records. *)
LEMMA IDsFacts ==
    ASSUME NEW a, WellFormed(a)
    PROVE  /\ IDs(a) \in SUBSET Nat /\ IsFiniteSet(IDs(a)) /\ Cardinality(IDs(a)) \in Nat
           /\ Len(a.entries) \in Nat /\ Len(a.redirects) \in Nat
           /\ IDs(a) \subseteq 0 .. IDSpace - 1
           /\ \A id \in IDs(a) : IF IsRedirectID(id) THEN id - RedirectBit + 1 \in 1 .. Len(a.redirects)
                                 ELSE id + 1 \in 1 .. Len(a.entries)
<1>1. PICK e \in Nat : e = Len(a.entries)
  <2>1. a.entries \in Seq([path : Path, title : Nat, mime : STRING, front : BOOLEAN,
                           size : Nat, readable : BOOLEAN])
    BY DEF WellFormed
  <2>2. QED  BY <2>1, LenProperties
<1>2. PICK r \in Nat : r = Len(a.redirects)
  <2>1. a.redirects \in Seq([path : Path, title : Nat, target : Nat])
    BY DEF WellFormed
  <2>2. QED  BY <2>1, LenProperties
<1>3. PICK B \in Nat, L \in Nat : B = RedirectBit /\ L = IDSpace /\ e <= B /\ B + r <= L
  BY <1>1, <1>2, Constants DEF WellFormed
<1>4. IDs(a) = (0 .. e - 1) \cup (B .. B + r - 1)
  BY <1>1, <1>2, <1>3 DEF IDs
<1>5. IDs(a) \subseteq 0 .. L - 1
  BY <1>3, <1>4
<1>6. IsFiniteSet(0 .. L - 1)
  <2>1. 0 \in Int /\ L - 1 \in Int
    OBVIOUS
  <2>2. QED  BY <2>1, FS_Interval
<1>7. IsFiniteSet(IDs(a)) /\ Cardinality(IDs(a)) \in Nat
  BY <1>5, <1>6, FS_Subset, FS_CardinalityType
<1>8. ASSUME NEW id \in IDs(a)
      PROVE  IF IsRedirectID(id) THEN id - RedirectBit + 1 \in 1 .. Len(a.redirects)
             ELSE id + 1 \in 1 .. Len(a.entries)
  BY <1>1, <1>2, <1>3, <1>4 DEF IsRedirectID
<1>9. QED  BY <1>1, <1>2, <1>3, <1>5, <1>7, <1>8

(* The title index has each ID at one place. *)
LEMMA IndexFacts ==
    ASSUME NEW a, WellFormed(a)
    PROVE  /\ TitleIndex(a) \in Seq(IDs(a)) /\ Len(TitleIndex(a)) = Cardinality(IDs(a))
           /\ Len(TitleIndex(a)) \in Nat
<1> DEFINE title(id) == EntryByID(a, id).title
           R == {p \in IDs(a) \X IDs(a) : title(p[1]) < title(p[2]) \/ (title(p[1]) = title(p[2]) /\ p[1] < p[2])}
           before(id) == {x \in IDs(a) : title(x) < title(id) \/ (title(x) = title(id) /\ x < id)}
           place == [id \in IDs(a) |-> Cardinality(before(id)) + 1]
<1>1. PICK S : S = IDs(a)
  OBVIOUS
<1>2. S \in SUBSET Nat /\ IsFiniteSet(S)
  BY <1>1, IDsFacts
<1>3. PICK n \in Nat : n = Cardinality(S)
  BY <1>1, IDsFacts
<1>4. \A id \in S : title(id) \in Nat
  <2> SUFFICES ASSUME NEW id \in IDs(a)  PROVE title(id) \in Nat
    BY <1>1
  <2>1. /\ a.entries \in Seq([path : Path, title : Nat, mime : STRING, front : BOOLEAN,
                              size : Nat, readable : BOOLEAN])
        /\ a.redirects \in Seq([path : Path, title : Nat, target : Nat])
    BY DEF WellFormed
  <2>2. CASE IsRedirectID(id)
    <3>1. id - RedirectBit + 1 \in 1 .. Len(a.redirects)
      BY <2>2, IDsFacts
    <3>2. a.redirects[id - RedirectBit + 1] \in [path : Path, title : Nat, target : Nat]
      BY <2>1, <3>1, ElementOfSeq
    <3>3. title(id) = a.redirects[id - RedirectBit + 1].title
      BY <2>2 DEF EntryByID
    <3>4. QED  BY <3>2, <3>3
  <2>3. CASE ~IsRedirectID(id)
    <3>1. id + 1 \in 1 .. Len(a.entries)
      BY <2>3, IDsFacts
    <3>2. a.entries[id + 1] \in [path : Path, title : Nat, mime : STRING, front : BOOLEAN,
                                 size : Nat, readable : BOOLEAN]
      BY <2>1, <3>1, ElementOfSeq
    <3>3. title(id) = a.entries[id + 1].title
      BY <2>3 DEF EntryByID
    <3>4. QED  BY <3>2, <3>3
  <2>4. QED  BY <2>2, <2>3
<1> HIDE DEF title
<1>5. \A x, y \in S : <<x, y>> \in R <=> title(x) < title(y) \/ (title(x) = title(y) /\ x < y)
  BY <1>1
<1>6. TotalOrder(R, S)
  <2> HIDE DEF R
  <2>1. ASSUME NEW x \in S  PROVE <<x, x>> \notin R
    BY <1>2, <1>4, <1>5
  <2>2. ASSUME NEW x \in S, NEW y \in S, x # y  PROVE <<x, y>> \in R \/ <<y, x>> \in R
    <3>1. x \in Nat /\ y \in Nat /\ title(x) \in Nat /\ title(y) \in Nat
      BY <1>2, <1>4
    <3>2. QED  BY <1>5, <2>2, <3>1
  <2>3. ASSUME NEW x \in S, NEW y \in S, NEW z \in S, <<x, y>> \in R, <<y, z>> \in R
        PROVE  <<x, z>> \in R
    <3>1. x \in Nat /\ y \in Nat /\ z \in Nat /\ title(x) \in Nat /\ title(y) \in Nat /\ title(z) \in Nat
      BY <1>2, <1>4
    <3>2. /\ title(x) < title(y) \/ (title(x) = title(y) /\ x < y)
          /\ title(y) < title(z) \/ (title(y) = title(z) /\ y < z)
      BY <1>5, <2>3
    <3>3. title(x) < title(z) \/ (title(x) = title(z) /\ x < z)
      BY <3>1, <3>2
    <3>4. QED  BY <1>5, <3>3
  <2>4. QED  BY <2>1, <2>2, <2>3 DEF TotalOrder
<1>7. PICK s : InOrder(s, S, R)
  <2> HIDE DEF R
  <2>1. QED  BY <1>2, <1>6, OrderExists
<1>8. /\ s \in [1 .. n -> S] /\ \A i, j \in 1 .. n : i < j => <<s[i], s[j]>> \in R
      /\ \A x \in S : \E i \in 1 .. n : s[i] = x
      /\ \A i, j \in 1 .. n : s[i] = s[j] => i = j
  <2> HIDE DEF R
  <2>1. s \in [1 .. n -> S] /\ \A i, j \in 1 .. n : i < j => <<s[i], s[j]>> \in R
    BY <1>3, <1>7 DEF InOrder
  <2>2. Len(s) = n
    BY <2>1
  <2>3. QED  BY SMTT(30), <1>2, <1>6, <1>7, <2>1, <2>2, OrderFacts
<1>9. ASSUME NEW i \in 1 .. n  PROVE place[s[i]] = i
  <2> DEFINE B == before(s[i])
             f == [j \in 1 .. i - 1 |-> s[j]]
  <2>1. s[i] \in S
    BY <1>8
  <2>2. B = {x \in S : <<x, s[i]>> \in R}
    BY <1>1, <1>5, <2>1
  <2>3. ASSUME NEW j \in 1 .. n  PROVE <<s[j], s[i]>> \in R <=> j < i
    <3> HIDE DEF R
    <3>1. s[j] \in S
      BY <1>8
    <3>2. CASE j < i
      BY <1>8, <3>2
    <3>3. CASE j = i
      BY <1>6, <3>1, <3>3 DEF TotalOrder
    <3>4. CASE i < j
      <4>1. <<s[i], s[j]>> \in R
        BY <1>8, <3>4
      <4>2. <<s[j], s[i]>> \notin R
        BY <1>6, <2>1, <3>1, <4>1 DEF TotalOrder
      <4>3. QED  BY <3>4, <4>2
    <3>5. QED  BY <3>2, <3>3, <3>4
  <2> HIDE DEF B, R
  <2>4. f \in [1 .. i - 1 -> B]
    <3>1. ASSUME NEW j \in 1 .. i - 1  PROVE s[j] \in B
      <4>1. j \in 1 .. n /\ j < i
        OBVIOUS
      <4>2. s[j] \in S /\ <<s[j], s[i]>> \in R
        BY <1>8, <2>3, <4>1
      <4>3. QED  BY <2>2, <4>2
    <3>2. QED  BY <3>1
  <2>5. ASSUME NEW x \in B  PROVE \E j \in 1 .. i - 1 : f[j] = x
    <3>1. x \in S /\ <<x, s[i]>> \in R
      BY <2>2
    <3>2. PICK j \in 1 .. n : s[j] = x
      BY <1>8, <3>1
    <3>3. j < i /\ j \in 1 .. i - 1
      BY <2>3, <3>1, <3>2
    <3>4. QED  BY <3>2, <3>3
  <2>6. f \in Surjection(1 .. i - 1, B)
    BY <2>4, <2>5 DEF Surjection
  <2>7. f \in Injection(1 .. i - 1, B)
    <3>1. \A j, k \in 1 .. i - 1 : f[j] = f[k] => j = k
      <4>1. \A j \in 1 .. i - 1 : j \in 1 .. n /\ f[j] = s[j]
        OBVIOUS
      <4>2. QED  BY <1>8, <4>1
    <3>2. QED  BY <2>4, <3>1 DEF Injection, IsInjective
  <2>8. Cardinality(B) = i - 1
    <3>1. 1 \in Nat /\ i - 1 \in Nat
      OBVIOUS
    <3>2. IsFiniteSet(1 .. i - 1) /\ Cardinality(1 .. i - 1) = i - 1
      BY <3>1, UpTo
    <3> HIDE DEF f
    <3>3. Cardinality(B) = Cardinality(1 .. i - 1)
      BY <2>6, <2>7, <3>2, FS_Surjection
    <3>4. QED  BY <3>2, <3>3
  <2>9. place[s[i]] = Cardinality(B) + 1
    BY <1>1, <2>1 DEF B
  <2>10. QED  BY <2>8, <2>9
<1> HIDE DEF place
<1>10. PICK index : index = [i \in 1 .. n |-> CHOOSE id \in IDs(a) : place[id] = i]
  OBVIOUS
<1>11. TitleIndex(a) = index
  <2> DEFINE t == [id \in IDs(a) |-> EntryByID(a, id).title]
             p == [id \in IDs(a) |->
                      Cardinality({x \in IDs(a) : t[x] < t[id] \/ (t[x] = t[id] /\ x < id)}) + 1]
  <2>1. TitleIndex(a) = [i \in 1 .. Cardinality(IDs(a)) |-> CHOOSE id \in IDs(a) : p[id] = i]
    BY Zenon DEF TitleIndex
  <2>2. place = [id \in IDs(a) |->
           Cardinality({x \in IDs(a) : t[x] < t[id] \/ (t[x] = t[id] /\ x < id)}) + 1]
    <3>1. ASSUME NEW id \in IDs(a)
          PROVE  before(id) = {x \in IDs(a) : t[x] < t[id] \/ (t[x] = t[id] /\ x < id)}
      <4>1. \A x \in IDs(a) : t[x] = title(x)
        BY DEF title
      <4> HIDE DEF t
      <4>2. QED  BY <4>1
    <3> HIDE DEF before, t
    <3>2. QED  BY <3>1 DEF place
  <2>3. p = place
    BY <2>2
  <2> HIDE DEF p
  <2>4. QED  BY <1>1, <1>3, <1>10, <2>1, <2>3
<1>12. index \in [1 .. n -> IDs(a)]
  <2>1. ASSUME NEW i \in 1 .. n  PROVE (CHOOSE id \in IDs(a) : place[id] = i) \in IDs(a)
    <3>1. \E id \in IDs(a) : place[id] = i
      BY <1>1, <1>8, <1>9
    <3>2. QED  BY <3>1
  <2>2. QED  BY <1>10, <2>1
<1>13. QED  BY <1>1, <1>3, <1>11, <1>12

(* The places of the titles of a letter in the title index. *)
Spots(a, letter) ==
    IF letter = NoLetter THEN {}
    ELSE {i \in DOMAIN TitleIndex(a) : LetterOf(EntryByID(a, TitleIndex(a)[i]).title) = letter}

FirstSpot(of) == IF of = {} THEN 0 ELSE Min(of) - 1

(* They are so many that the index has that many from the first of them on. *)
LEMMA SpotsFacts ==
    ASSUME NEW a, WellFormed(a), NEW letter, NEW n \in Nat, n = Len(TitleIndex(a)),
           NEW of, of = Spots(a, letter)
    PROVE  /\ of \in SUBSET (1 .. n) /\ IsFiniteSet(of) /\ Cardinality(of) \in Nat
           /\ FirstSpot(of) \in Nat /\ FirstSpot(of) + Cardinality(of) <= n
           /\ of # {} => Cardinality(of) > 0 /\ of \subseteq Min(of) .. Max(of)
                         /\ Min(of) \in 1 .. n /\ Max(of) \in 1 .. n
<1>1. of \in SUBSET (1 .. n)
  BY IndexFacts DEF Spots
<1>2. IsFiniteSet(1 .. n)
  BY UpTo
<1>3. IsFiniteSet(of) /\ Cardinality(of) \in Nat
  BY <1>1, <1>2, FS_Subset, FS_CardinalityType
<1>4. CASE of = {}
  <2>1. Cardinality(of) = 0
    BY <1>4, FS_EmptySet
  <2>2. QED  BY <1>1, <1>3, <1>4, <2>1 DEF FirstSpot
<1>5. CASE of # {}
  <2>1. Min(of) \in of /\ \A x \in of : Min(of) <= x
    <3>1. of \in SUBSET Nat
      BY <1>1
    <3>2. QED  BY <1>5, <3>1, MinIsLeast
  <2>2. Max(of) \in of /\ \A x \in of : x <= Max(of)
    BY <1>1, <1>5, MaxIsGreatest
  <2>3. PICK m \in 1 .. n : m = Min(of)
    BY <1>1, <2>1
  <2>4. PICK k \in 1 .. n : k = Max(of)
    BY <1>1, <2>2
  <2>5. of \subseteq m .. n /\ of \subseteq m .. k
    BY <1>1, <2>1, <2>2, <2>3, <2>4
  <2>6. IsFiniteSet(m .. n) /\ Cardinality(m .. n) = n - m + 1
    BY UpTo
  <2>7. Cardinality(of) <= n - m + 1
    BY <2>5, <2>6, FS_Subset
  <2>8. Cardinality(of) # 0
    BY <1>3, <1>5, FS_EmptySet
  <2>9. FirstSpot(of) = m - 1
    BY <1>5, <2>3 DEF FirstSpot
  <2>10. QED  BY <1>1, <1>3, <2>3, <2>4, <2>5, <2>7, <2>8, <2>9
<1>6. QED  BY <1>4, <1>5

(* What the letter bar has. *)
LEMMA LetterIs ==
    ASSUME shelf \in DOMAIN Shelves, LibraryOK, NEW slug \in DOMAIN lib.place, NEW a,
           a = Arch(lib, slug), NEW letter, NEW of, of = Spots(a, letter), NEW lr,
           lr = IF letter \in DOMAIN lib.archives[slug].letters THEN lib.archives[slug].letters[letter]
                ELSE [offset |-> 0, count |-> 0]
    PROVE  lr = [offset |-> FirstSpot(of), count |-> Cardinality(of)]
<1> DEFINE places(l) == {i \in DOMAIN TitleIndex(a) : LetterOf(EntryByID(a, TitleIndex(a)[i]).title) = l}
           letters == {LetterOf(EntryByID(a, TitleIndex(a)[i]).title) : i \in DOMAIN TitleIndex(a)} \ {NoLetter}
<1>1. lib.archives[slug].letters
        = [l \in letters |-> [offset |-> Min(places(l)) - 1, count |-> Cardinality(places(l))]]
  <2>1. lib.archives[slug].letters = computeLetterIndex(a)
    BY LibraryFacts
  <2>2. QED  BY <2>1, Zenon DEF computeLetterIndex
<1>2. CASE letter \in letters
  <2>1. of = places(letter) /\ of # {}
    BY <1>2 DEF Spots
  <2>2. lr = [offset |-> Min(of) - 1, count |-> Cardinality(of)]
    BY <1>1, <1>2, <2>1
  <2>3. QED  BY <2>1, <2>2 DEF FirstSpot
<1>3. CASE letter \notin letters
  <2>1. of = {}
    BY <1>3 DEF Spots
  <2>2. lr = [offset |-> 0, count |-> 0]
    BY <1>1, <1>3
  <2>3. Cardinality(of) = 0
    BY <2>1, FS_EmptySet
  <2>4. QED  BY <2>1, <2>2, <2>3 DEF FirstSpot
<1>4. QED  BY <1>2, <1>3

(* A part of the title index, page by page. *)
ShowsFrom(page, a, c, f, o, limit) ==
    /\ page.next = IF o + limit < c THEN o + limit ELSE -1
    /\ [i \in DOMAIN page.links |-> page.links[i].of]
         = SubSeq(TitleIndex(a), f + o + 1, IF o + limit < c THEN f + o + limit ELSE f + c)

(* A page shows the titles of its letter's run from its offset on. *)
LEMMA PageIs ==
    ASSUME shelf \in DOMAIN Shelves, LibraryOK, NEW slug \in DOMAIN lib.place, NEW a,
           a = Arch(lib, slug), NEW letter, NEW c \in Nat, NEW f \in Nat,
           c = Cardinality(Spots(a, letter)), f = FirstSpot(Spots(a, letter)),
           NEW limit \in Nat \ {0}, NEW o \in Nat
    PROVE  ShowsFrom(handleBrowse(slug, letter, o, limit), a, c, f, o, limit)
<1>0. PICK page : page = handleBrowse(slug, letter, o, limit)
  OBVIOUS
<1>1. PICK lr : lr = IF letter \in DOMAIN lib.archives[slug].letters
                     THEN lib.archives[slug].letters[letter] ELSE [offset |-> 0, count |-> 0]
  OBVIOUS
<1>2. lr = [offset |-> f, count |-> c]
  <2>1. PICK of : of = Spots(a, letter)
    OBVIOUS
  <2>2. lr = [offset |-> FirstSpot(of), count |-> Cardinality(of)]
    BY ZenonT(30), <1>1, <2>1, LetterIs
  <2>3. QED  BY <2>1, <2>2
<1>3. WellFormed(a) /\ a \in AllArchives
  BY LibraryFacts, ShelvesAssumption
<1>4. PICK n \in Nat : n = Len(TitleIndex(a))
  BY <1>3, IndexFacts
<1>5. f + c <= n
  BY <1>3, <1>4, SpotsFacts
<1>6. PICK ids : ids = BrowseTitles(a, f + o, Min({limit, c - o}))
  OBVIOUS
<1>7. page = IF o < c
             THEN [status |-> "200", links |-> Links(slug, ids), count |-> c,
                   next |-> IF o + limit < c THEN o + limit ELSE -1]
             ELSE [status |-> "200", links |-> <<>>, count |-> c, next |-> -1]
  <2>1. page = IF o < lr.count
               THEN [status |-> "200",
                     links |-> Links(slug, BrowseTitles(a, lr.offset + o, Min({limit, lr.count - o}))),
                     count |-> lr.count, next |-> IF o + limit < lr.count THEN o + limit ELSE -1]
               ELSE [status |-> "200", links |-> <<>>, count |-> lr.count, next |-> -1]
    BY <1>0, <1>1, Zenon DEF handleBrowse
  <2>2. lr.offset = f /\ lr.count = c
    BY <1>2
  <2>3. QED  BY <1>6, <2>1, <2>2
<1>8. page.next = IF o + limit < c THEN o + limit ELSE -1
  BY <1>7
<1>9. TitleIndex(a) \in Seq(IDs(a))
  BY <1>3, IndexFacts
<1>10. CASE o < c
  <2>1. PICK k \in Nat : k = (IF o + limit < c THEN f + o + limit ELSE f + c) /\ k <= n /\ f + o + 1 <= k
    BY <1>5, <1>10
  <2>2. Min({limit, c - o}) = k - f - o
    <3>1. limit \in Nat /\ c - o \in Nat
      BY <1>10
    <3>2. Min({limit, c - o}) = IF limit <= c - o THEN limit ELSE c - o
      BY <3>1, MinOfTwo
    <3>3. QED  BY <2>1, <3>2
  <2>3. Min({k, n}) = k
    BY <2>1, MinOfTwo
  <2>4. ids = SubSeq(TitleIndex(a), f + o + 1, k)
    <3>1. ~(f + o < 0 \/ k - f - o <= 0) /\ f + o + (k - f - o) = k
      BY <2>1
    <3>2. ids = SubSeq(TitleIndex(a), f + o + 1, Min({f + o + (k - f - o), Len(TitleIndex(a))}))
      BY <1>6, <2>2, <3>1 DEF BrowseTitles
    <3>3. QED  BY <1>4, <2>3, <3>1, <3>2
  <2>5. ids \in Seq(IDs(a))
    <3>1. \A i \in f + o + 1 .. k : TitleIndex(a)[i] \in IDs(a)
      BY SMTT(30), <1>4, <1>9, <2>1
    <3>2. f + o + 1 \in Int /\ k \in Int
      BY <2>1
    <3>3. QED  BY <2>4, <3>1, <3>2, SubSeqProperties
  <2>6. page.links = [i \in DOMAIN ids |-> Link(slug, ids[i])]
    BY <1>7, <1>10 DEF Links
  <2>7. [i \in DOMAIN page.links |-> page.links[i].of] = ids
    <3>1. DOMAIN page.links = DOMAIN ids /\ \A i \in DOMAIN ids : page.links[i].of = ids[i]
      BY <2>6 DEF Link
    <3>2. ids = [i \in DOMAIN ids |-> ids[i]]
      BY <2>5
    <3>3. QED  BY <3>1, <3>2
  <2>8. QED  BY <1>0, <1>8, <2>1, <2>4, <2>7 DEF ShowsFrom
<1>11. CASE ~(o < c)
  <2>1. page.links = <<>>
    BY <1>7, <1>11
  <2>2. [i \in DOMAIN page.links |-> page.links[i].of] = <<>>
    BY <2>1
  <2>3. SubSeq(TitleIndex(a), f + o + 1, f + c) = <<>>
    <3>1. f + o + 1 \in Int /\ f + c \in Int /\ f + c < f + o + 1
      BY <1>11
    <3>2. QED  BY <3>1, SubSeqEmpty
  <2>4. ~(o + limit < c)
    BY <1>11
  <2>5. QED  BY <1>0, <1>8, <2>2, <2>3, <2>4 DEF ShowsFrom
<1>12. QED  BY <1>10, <1>11

(* The pages of a letter, one after the other. *)
LEMMA PagesAre ==
    ASSUME shelf \in DOMAIN Shelves, LibraryOK, NEW slug \in DOMAIN lib.place, NEW a,
           a = Arch(lib, slug), NEW letter, NEW c \in Nat, NEW f \in Nat,
           c = Cardinality(Spots(a, letter)), f = FirstSpot(Spots(a, letter)),
           NEW limit \in Nat \ {0}
    PROVE  Pages(slug, letter, limit) = SubSeq(TitleIndex(a), f + 1, f + c)
<1> DEFINE page(o) == handleBrowse(slug, letter, o, limit)
           ids(o) == [i \in DOMAIN page(o).links |-> page(o).links[i].of]
           Body(g) == [o \in Nat |-> IF page(o).next = -1 THEN ids(o) ELSE ids(o) \o g[page(o).next]]
           w == [o \in Nat |-> SubSeq(TitleIndex(a), f + o + 1, f + c)]
<1>1. WellFormed(a)
  BY LibraryFacts, ShelvesAssumption
<1>2. PICK n \in Nat : n = Len(TitleIndex(a)) /\ f + c <= n
  BY <1>1, IndexFacts, SpotsFacts
<1>3. TitleIndex(a) \in Seq(IDs(a))
  BY <1>1, IndexFacts
<1>4. ASSUME NEW o \in Nat
      PROVE  /\ page(o).next = IF o + limit < c THEN o + limit ELSE -1
             /\ ids(o) = SubSeq(TitleIndex(a), f + o + 1, IF o + limit < c THEN f + o + limit ELSE f + c)
  <2>1. ShowsFrom(page(o), a, c, f, o, limit)
    BY PageIs
  <2>2. QED  BY <2>1 DEF ShowsFrom
<1> HIDE DEF page, ids
<1>5. ASSUME NEW o \in Nat
      PROVE  w[o] = IF page(o).next = -1 THEN ids(o) ELSE ids(o) \o w[page(o).next]
  <2>1. CASE o + limit < c
    <3>1. PICK k \in Nat, p \in Nat : k = f + o + limit /\ p = o + limit /\ p # -1 /\ p < c
      BY <2>1
    <3>2. page(o).next = o + limit /\ page(o).next # -1 /\ ids(o) = SubSeq(TitleIndex(a), f + o + 1, k)
      BY <1>4, <2>1, <3>1
    <3>3. w[o + limit] = SubSeq(TitleIndex(a), k + 1, f + c)
      <4>1. f + (o + limit) + 1 = k + 1
        BY <3>1
      <4>2. w[o + limit] = SubSeq(TitleIndex(a), f + (o + limit) + 1, f + c)
        BY <3>1
      <4>3. QED  BY <4>1, <4>2
    <3>4. SubSeq(TitleIndex(a), f + o + 1, k) \o SubSeq(TitleIndex(a), k + 1, f + c)
            = SubSeq(TitleIndex(a), f + o + 1, f + c)
      <4>1. PICK m \in 1 .. n + 1 : m = f + o + 1
        BY <1>2, <2>1
      <4>2. k \in m - 1 .. n /\ f + c \in k .. n
        <5>1. m - 1 = f + o /\ f + o <= k /\ k <= f + c /\ f + c <= n
          <6>1. o + limit < c /\ limit \in Nat /\ o \in Nat /\ f \in Nat /\ c \in Nat /\ n \in Nat
            BY <2>1
          <6>2. f + c <= n
            BY <1>2
          <6>3. QED  BY <3>1, <4>1, <6>1, <6>2
        <5>2. QED  BY <3>1, <4>1, <5>1
      <4>3. QED  BY <1>2, <1>3, <4>1, <4>2, ConcatAdjacentSubSeq
    <3>5. w[o] = SubSeq(TitleIndex(a), f + o + 1, f + c)
      OBVIOUS
    <3> HIDE DEF w
    <3>6. QED  BY <3>2, <3>3, <3>4, <3>5
  <2>2. CASE ~(o + limit < c)
    BY <1>4, <2>2
  <2>3. QED  BY <2>1, <2>2
<1>6. w = Body(w)
  <2>1. w = [o \in Nat |-> w[o]]
    OBVIOUS
  <2> HIDE DEF w
  <2>2. QED  BY <1>5, <2>1
<1>7. w[0] = SubSeq(TitleIndex(a), f + 1, f + c)
  <2>1. f + 0 + 1 = f + 1
    OBVIOUS
  <2>2. w[0] = SubSeq(TitleIndex(a), f + 0 + 1, f + c)
    OBVIOUS
  <2>3. QED  BY <2>1, <2>2
<1> HIDE DEF w
<1>8. PICK g : g = CHOOSE h : h = Body(h)
  OBVIOUS
<1>9. Pages(slug, letter, limit) = g[0]
  BY <1>8, Zenon DEF Pages, page, ids
<1>10. g = Body(g)
  <2> HIDE DEF Body
  <2>1. QED  BY <1>6, <1>8
<1>11. \A o \in Nat : g[o] = IF page(o).next = -1 THEN ids(o) ELSE ids(o) \o g[page(o).next]
  BY <1>10
<1> HIDE DEF Body
<1>12. \A o \in Nat : g[o] = w[o]
  <2> DEFINE S == {k \in Nat : \A o \in Nat : c - o <= k => g[o] = w[o]}
  <2>1. 0 \in S
    <3> SUFFICES ASSUME NEW o \in Nat, c - o <= 0  PROVE g[o] = w[o]
      OBVIOUS
    <3>1. ~(o + limit < c)
      OBVIOUS
    <3>2. page(o).next = -1
      BY <1>4, <3>1
    <3>3. QED  BY <1>5, <1>11, <3>2
  <2>2. ASSUME NEW k \in Nat, k \in S  PROVE k + 1 \in S
    <3> SUFFICES ASSUME NEW o \in Nat, c - o <= k + 1  PROVE g[o] = w[o]
      OBVIOUS
    <3>1. CASE o + limit < c
      <4>1. page(o).next = o + limit /\ page(o).next # -1
        <5>1. o + limit # -1
          OBVIOUS
        <5>2. QED  BY <1>4, <3>1, <5>1
      <4>2. o + limit \in Nat /\ c - (o + limit) <= k
        OBVIOUS
      <4>3. g[o + limit] = w[o + limit]
        BY <2>2, <4>2
      <4>4. QED  BY <1>5, <1>11, <4>1, <4>3
    <3>2. CASE ~(o + limit < c)
      <4>1. page(o).next = -1
        BY <1>4, <3>2
      <4>2. QED  BY <1>5, <1>11, <4>1
    <3>3. QED  BY <3>1, <3>2
  <2>3. \A k \in Nat : k \in S => k + 1 \in S
    BY <2>2
  <2> HIDE DEF S
  <2>4. Nat \subseteq S
    BY <2>1, <2>3, NatSetInduction
  <2>5. c \in S
    BY <2>4
  <2>6. \A o \in Nat : c - o <= c
    OBVIOUS
  <2>7. QED  BY <2>5, <2>6 DEF S
<1>13. QED  BY <1>7, <1>9, <1>12

(* The last answer is a page of the run of its letter. *)
LEMMA PagesShown ==
    ASSUME ServerInv, answer.req.op = "browse", answer.req.slug \in DOMAIN lib.archives
    PROVE  PagesRight
<1>1. LibraryOK /\ Asked(answer.req) /\ shelf \in DOMAIN Shelves
  <2>1. answer # NoAnswer
    BY DEF NoAnswer, NoRequest
  <2>2. QED  BY <2>1 DEF ServerInv, AnswerInv, Answered, LoadInv, Typed
<1>2. PICK slug \in DOMAIN lib.place : slug = answer.req.slug
  BY <1>1, LibraryFacts
<1>3. PICK limit \in Nat \ {0} : limit = answer.req.limit
  <2>1. answer.req.limit \in Int /\ answer.req.limit > 0
    BY <1>1, AskedFacts
  <2>2. QED  BY <2>1
<1>4. PICK a : a = Arch(lib, slug)
  OBVIOUS
<1>5. WellFormed(a)
  BY <1>1, <1>4, LibraryFacts, ShelvesAssumption
<1>6. PICK letter : letter = answer.req.letter
  OBVIOUS
<1>7. PICK of : of = Spots(a, letter)
  OBVIOUS
<1>8. PICK n \in Nat : n = Len(TitleIndex(a))
  BY <1>5, IndexFacts
<1>9. /\ of \in SUBSET (1 .. n) /\ IsFiniteSet(of) /\ Cardinality(of) \in Nat
      /\ FirstSpot(of) \in Nat /\ FirstSpot(of) + Cardinality(of) <= n
      /\ of # {} => Cardinality(of) > 0 /\ of \subseteq Min(of) .. Max(of)
                    /\ Min(of) \in 1 .. n /\ Max(of) \in 1 .. n
  BY <1>5, <1>7, <1>8, SpotsFacts
<1>10. PICK c \in Nat, f \in Nat : c = Cardinality(of) /\ f = FirstSpot(of) /\ f + c <= n
  BY <1>9
<1>11. PICK ids : ids = Pages(slug, letter, limit)
  OBVIOUS
<1>12. ids = SubSeq(TitleIndex(a), f + 1, f + c)
  BY SMTT(30), <1>1, <1>4, <1>7, <1>10, <1>11, PagesAre
<1>13. CASE of = {}
  <2>1. c = 0
    BY <1>10, <1>13, FS_EmptySet
  <2>2. f + 1 \in Int /\ f + c \in Int /\ f + c < f + 1
    BY <2>1
  <2>3. ids = <<>>
    BY <1>12, <2>2, SubSeqEmpty
  <2>4. RunOfLetter(ids, TitleIndex(a), of)
    BY <1>13, <2>3 DEF RunOfLetter
  <2>5. QED  BY <1>2, <1>3, <1>4, <1>6, <1>7, <1>11, <2>4 DEF PagesRight, Spots
<1>14. CASE of # {}
  <2>1. PICK m \in 1 .. n : m = Min(of) /\ f = m - 1
    BY <1>9, <1>10, <1>14 DEF FirstSpot
  <2>2. ids = SubSeq(TitleIndex(a), m, m + c - 1)
    <3>1. f + 1 = m /\ f + c = m + c - 1
      BY <2>1
    <3>2. QED  BY <1>12, <3>1
  <2>3. PICK k \in 1 .. n : k = Max(of) /\ of \subseteq m .. k
    BY <1>9, <1>14, <2>1
  <2>4. ASSUME k - m + 1 = c  PROVE Range(ids) = {TitleIndex(a)[i] : i \in of}
    <3>1. IsFiniteSet(m .. k) /\ Cardinality(m .. k) = c
      <4>1. m <= k
        BY <1>9, <1>14, <2>4, <1>10
      <4>2. QED  BY <2>4, <4>1, UpTo
    <3>2. of = m .. k
      BY <1>10, <2>3, <3>1, FS_Subset
    <3>3. TitleIndex(a) \in Seq(IDs(a))
      BY <1>5, IndexFacts
    <3>4. /\ Len(ids) = c /\ DOMAIN ids = 1 .. c
          /\ \A i \in 1 .. c : ids[i] = TitleIndex(a)[m + i - 1]
      <4>1. \A i \in m .. m + c - 1 : TitleIndex(a)[i] \in IDs(a)
        BY <1>8, <2>4, <3>3
      <4>2. m \in Int /\ m + c - 1 \in Int /\ (m + c - 1) - m + 1 = c /\ m <= m + c - 1
        BY <1>9, <1>10, <1>14
      <4>3. /\ ids \in Seq(IDs(a)) /\ Len(ids) = (IF m <= m + c - 1 THEN (m + c - 1) - m + 1 ELSE 0)
            /\ \A i \in 1 .. (m + c - 1) - m + 1 : ids[i] = TitleIndex(a)[m + i - 1]
        BY <2>2, <4>1, <4>2, SubSeqProperties
      <4>4. QED  BY <4>2, <4>3
    <3>5. ASSUME NEW x \in Range(ids)  PROVE \E i \in of : x = TitleIndex(a)[i]
      <4>1. PICK i \in 1 .. c : x = ids[i]
        BY <3>4 DEF Range
      <4>2. m + i - 1 \in m .. k
        BY <2>4
      <4>3. QED  BY <3>2, <3>4, <4>1, <4>2
    <3>6. ASSUME NEW i \in of  PROVE TitleIndex(a)[i] \in Range(ids)
      <4>1. i - m + 1 \in 1 .. c /\ m + (i - m + 1) - 1 = i
        BY <2>4, <3>2
      <4>2. ids[i - m + 1] = TitleIndex(a)[i]
        BY <3>4, <4>1
      <4>3. QED  BY <3>4, <4>1, <4>2 DEF Range
    <3>7. QED  BY <3>5, <3>6
  <2>5. RunOfLetter(ids, TitleIndex(a), of)
    BY <1>10, <1>14, <2>1, <2>2, <2>3, <2>4 DEF RunOfLetter
  <2>6. QED  BY <1>2, <1>3, <1>4, <1>6, <1>7, <1>11, <2>5 DEF PagesRight, Spots
<1>15. QED  BY <1>13, <1>14

(* The pages of a letter are a run of the title index from its first title  *)
(* on, as long as the letter has titles; they are the letter's own titles   *)
(* if these are neighbours in the index.                                    *)
THEOREM PagesRightAlways == Spec => []PagesRight
<1>1. ServerInv => PagesRight
  BY PagesShown DEF PagesRight
<1>2. QED  BY ServerInvAlways, <1>1, PTL

(****************************************************************************)
(* Searching                                                                *)
(****************************************************************************)
(* The first n elements. *)
LEMMA FirstFacts ==
    ASSUME NEW A, NEW s \in Seq(A), NEW n \in Nat
    PROVE  /\ FirstOf(s, n) \in Seq(A) /\ Len(FirstOf(s, n)) = IF n <= Len(s) THEN n ELSE Len(s)
           /\ \A i \in 1 .. Len(FirstOf(s, n)) : FirstOf(s, n)[i] = s[i]
<1>1. PICK l \in Nat : l = Len(s)
  BY LenProperties
<1>2. PICK m \in Nat : m = (IF n <= l THEN n ELSE l) /\ m <= l
  OBVIOUS
<1>3. PICK t : t = SubSeq(s, 1, m)
  OBVIOUS
<1>4. FirstOf(s, n) = t
  BY <1>1, <1>2, <1>3, MinOfTwo DEF FirstOf
<1>5. \A i \in 1 .. m : s[i] \in A
  BY <1>1, <1>2, ElementOfSeq
<1>6. 1 \in Int /\ m \in Int /\ m - 1 + 1 = m
  OBVIOUS
<1>7. /\ t \in Seq(A) /\ Len(t) = (IF 1 <= m THEN m - 1 + 1 ELSE 0)
      /\ \A i \in 1 .. m - 1 + 1 : t[i] = s[1 + i - 1]
  BY <1>3, <1>5, <1>6, SubSeqProperties
<1>8. t \in Seq(A) /\ Len(t) = m /\ \A i \in 1 .. m : t[i] = s[i]
  BY <1>6, <1>7
<1>9. QED  BY <1>1, <1>2, <1>4, <1>8

(* What is taken of a second sequence if the first is not enough. *)
LEMMA FirstConcat ==
    ASSUME NEW A, NEW s \in Seq(A), NEW t \in Seq(A), NEW n \in Nat
    PROVE  FirstOf(s \o t, n) = FirstOf(s, n) \o FirstOf(t, n - Len(FirstOf(s, n)))
<1>1. PICK l \in Nat, k \in Nat : l = Len(s) /\ k = Len(t)
  BY LenProperties
<1>2. PICK u : u = FirstOf(s, n)
  OBVIOUS
<1>3. PICK m \in Nat : m = (IF n <= l THEN n ELSE l) /\ n - m \in Nat
  OBVIOUS
<1>4. u \in Seq(A) /\ Len(u) = m /\ \A i \in 1 .. m : u[i] = s[i]
  BY <1>1, <1>2, <1>3, FirstFacts
<1>5. PICK v : v = FirstOf(t, n - m)
  OBVIOUS
<1>6. PICK j \in Nat : j = IF n - m <= k THEN n - m ELSE k
  BY <1>3
<1>7. v \in Seq(A) /\ Len(v) = j /\ \A i \in 1 .. j : v[i] = t[i]
  BY SMTT(30), <1>1, <1>3, <1>5, <1>6, FirstFacts
<1>8. PICK w : w = s \o t
  OBVIOUS
<1>9. w \in Seq(A) /\ Len(w) = l + k /\ \A i \in 1 .. l + k : w[i] = IF i <= l THEN s[i] ELSE t[i - l]
  BY <1>1, <1>8, ConcatProperties
<1>10. PICK x : x = FirstOf(w, n)
  OBVIOUS
<1>11. x \in Seq(A) /\ Len(x) = m + j /\ \A i \in 1 .. m + j : x[i] = w[i]
  <2>1. x \in Seq(A) /\ Len(x) = (IF n <= l + k THEN n ELSE l + k) /\ \A i \in 1 .. Len(x) : x[i] = w[i]
    BY <1>9, <1>10, FirstFacts
  <2>2. m + j = IF n <= l + k THEN n ELSE l + k
    BY <1>3, <1>6
  <2>3. QED  BY <2>1, <2>2
<1>12. PICK y : y = u \o v
  OBVIOUS
<1>13. y \in Seq(A) /\ Len(y) = m + j /\ \A i \in 1 .. m + j : y[i] = IF i <= m THEN u[i] ELSE v[i - m]
  <2>1. /\ u \o v \in Seq(A) /\ Len(u \o v) = Len(u) + Len(v)
        /\ \A i \in 1 .. Len(u) + Len(v) : (u \o v)[i] = IF i <= Len(u) THEN u[i] ELSE v[i - Len(u)]
    BY <1>4, <1>7, ConcatProperties
  <2>2. QED  BY <1>4, <1>7, <1>12, <2>1
<1>14. ASSUME NEW i \in 1 .. m + j  PROVE x[i] = y[i]
  <2>1. CASE i <= m
    <3>1. i \in 1 .. m /\ i \in 1 .. l + k /\ i <= l
      BY <1>3, <2>1
    <3>2. x[i] = s[i]
      BY <1>9, <1>11, <3>1
    <3>3. y[i] = s[i]
      BY <1>4, <1>13, <2>1, <3>1
    <3>4. QED  BY <3>2, <3>3
  <2>2. CASE ~(i <= m)
    <3>1. i - m \in 1 .. j /\ m = l /\ i \in 1 .. l + k
      BY <1>3, <1>6, <2>2
    <3>2. x[i] = t[i - l]
      BY <1>9, <1>11, <2>2, <3>1
    <3>3. y[i] = t[i - m]
      BY <1>7, <1>13, <2>2, <3>1
    <3>4. QED  BY <3>1, <3>2, <3>3
  <2>3. QED  BY <2>1, <2>2
<1>15. x = y
  BY <1>11, <1>13, <1>14, SeqEqual
<1>16. QED  BY <1>2, <1>4, <1>5, <1>8, <1>10, <1>12, <1>15

(* Cutting twice is cutting to the smaller number. *)
LEMMA FirstFirst ==
    ASSUME NEW A, NEW s \in Seq(A), NEW n \in Nat, NEW m \in 0 .. n
    PROVE  FirstOf(FirstOf(s, n), m) = FirstOf(s, m)
<1>1. PICK l \in Nat, k \in Nat : l = Len(s) /\ k = (IF n <= l THEN n ELSE l) /\ m \in Nat
  BY LenProperties
<1>2. PICK t : t = FirstOf(s, n)
  OBVIOUS
<1>3. t \in Seq(A) /\ Len(t) = k /\ \A i \in 1 .. k : t[i] = s[i]
  BY <1>1, <1>2, FirstFacts
<1>4. PICK u, v : u = FirstOf(t, m) /\ v = FirstOf(s, m)
  OBVIOUS
<1>5. u \in Seq(A) /\ Len(u) = (IF m <= k THEN m ELSE k) /\ \A i \in 1 .. Len(u) : u[i] = t[i]
  BY <1>1, <1>3, <1>4, FirstFacts
<1>6. v \in Seq(A) /\ Len(v) = (IF m <= l THEN m ELSE l) /\ \A i \in 1 .. Len(v) : v[i] = s[i]
  BY <1>1, <1>4, FirstFacts
<1>7. Len(u) = Len(v) /\ Len(u) <= k
  BY <1>1, <1>5, <1>6
<1>8. \A i \in 1 .. Len(u) : u[i] = v[i]
  BY <1>1, <1>3, <1>5, <1>6, <1>7
<1>9. u = v
  BY <1>5, <1>6, <1>7, <1>8, SeqEqual
<1>10. QED  BY <1>2, <1>4, <1>9

(* f[k] is what the first k of the sequences ss are in one. *)
Joins(f, ss, A) ==
    /\ f \in [0 .. Len(ss) -> Seq(A)] /\ f[0] = <<>>
    /\ \A k \in 1 .. Len(ss) : f[k] = f[k - 1] \o ss[k]

(* Sequences can be joined one by one. *)
LEMMA JoinsExist ==
    ASSUME NEW A, NEW ss \in Seq(Seq(A))
    PROVE  \E f : Joins(f, ss, A)
<1>1. PICK N \in Nat : N = Len(ss)
  BY LenProperties
<1> DEFINE V == Seq(A)
           step == [n \in 1 .. N |-> [s \in V |-> s \o ss[n]]]
<1>2. <<>> \in V /\ step \in [1 .. N -> [V -> V]]
  <2>1. ASSUME NEW n \in 1 .. N, NEW s \in V  PROVE s \o ss[n] \in V
    <3>1. ss[n] \in Seq(A)
      BY <1>1, ElementOfSeq
    <3>2. QED  BY <3>1, ConcatProperties
  <2>2. <<>> \in V
    OBVIOUS
  <2> HIDE DEF V
  <2>3. QED  BY <2>1, <2>2
<1>3. PICK f : Steps(f, N, V, <<>>, step)
  <2> HIDE DEF V, step
  <2>1. PICK c \in V : c = <<>>
    BY <1>2
  <2>2. QED  BY <1>2, <2>1, StepsExist
<1>4. f \in [0 .. N -> V] /\ f[0] = <<>>
  BY <1>3 DEF Steps
<1>5. ASSUME NEW n \in 1 .. N  PROVE f[n] = f[n - 1] \o ss[n]
  <2>1. n - 1 \in 0 .. N
    OBVIOUS
  <2>2. f[n - 1] \in V
    BY <1>4, <2>1
  <2> HIDE DEF V
  <2>3. QED  BY <1>3, <2>2 DEF Steps
<1>6. QED  BY <1>1, <1>4, <1>5 DEF Joins

(* FlattenSeq is the last of the joins. *)
LEMMA FlattenJoins ==
  ASSUME NEW A, NEW ss \in Seq(Seq(A)), NEW f, Joins(f, ss, A)
  PROVE  FlattenSeq(ss) = f[Len(ss)]
<1>1. PICK N \in Nat : N = Len(ss)
  OBVIOUS
<1>2. /\ f \in [0 .. N -> Seq(A)] /\ f[0] = <<>>
      /\ \A k \in 1 .. N : f[k] = f[k - 1] \o ss[k]
  BY <1>1 DEF Joins
<1>3. CASE N = 0
  <2>1. ss = <<>>
    BY <1>1, <1>3, EmptySeq
  <2> QED BY <1>1, <1>2, <1>3, <2>1 DEF FlattenSeq
<1>4. CASE N # 0
  <2> DEFINE Body(w) == [i \in 1 .. N |-> IF i = 1 THEN ss[i] ELSE w[i - 1] \o ss[i]]
             walk == CHOOSE w : w = Body(w)
  <2>1. FlattenSeq(ss) = walk[N]
    BY <1>1, <1>4 DEF FlattenSeq
  <2>2. f[1] = ss[1]
    <3>1. 1 \in 1 .. N /\ 1 - 1 = 0 /\ ss[1] \in Seq(A)
      BY <1>1, <1>4
    <3>2. f[1] = <<>> \o ss[1]
      BY <1>2, <3>1
    <3>3. <<>> \o ss[1] = ss[1]
      BY <3>1
    <3> QED BY <3>2, <3>3
  <2>3. \E w : w = Body(w)
    <3> DEFINE g == [i \in 1 .. N |-> f[i]]
    <3>1. ASSUME NEW i \in 1 .. N PROVE g[i] = IF i = 1 THEN ss[i] ELSE g[i - 1] \o ss[i]
      <4>1. i # 1 => i - 1 \in 1 .. N
        OBVIOUS
      <4> QED BY <1>2, <2>2, <4>1
    <3>2. g = Body(g)
      BY <3>1
    <3> QED BY <3>2
  <2>4. walk = Body(walk)
    <3> HIDE DEF Body
    <3> QED BY <2>3
  <2> HIDE DEF walk
  <2>5. \A i \in 1 .. N : walk[i] = IF i = 1 THEN ss[i] ELSE walk[i - 1] \o ss[i]
    BY <2>4
  <2> DEFINE S == {i \in 0 .. N : i # 0 => walk[i] = f[i]}
  <2>6. 0 .. N \subseteq S
    <3>1. 0 \in S
      OBVIOUS
    <3>2. ASSUME NEW n \in 0 .. N - 1, n \in S PROVE n + 1 \in S
      <4>1. n + 1 \in 1 .. N /\ (n + 1) - 1 = n /\ n + 1 \in 0 .. N
        OBVIOUS
      <4>2. CASE n = 0
        <5>1. n + 1 = 1 /\ walk[n + 1] = ss[1] /\ f[n + 1] = ss[1]
          BY <2>2, <2>5, <4>1, <4>2
        <5> QED BY <4>1, <5>1
      <4>3. CASE n # 0
        <5>1. n + 1 # 1 /\ walk[n] = f[n]
          BY <3>2, <4>3
        <5>2. walk[n + 1] = walk[n] \o ss[n + 1]
          BY <2>5, <4>1, <5>1
        <5>3. f[n + 1] = f[n] \o ss[n + 1]
          BY <1>2, <4>1
        <5> QED BY <4>1, <5>1, <5>2, <5>3
      <4> QED BY <4>2, <4>3
    <3> HIDE DEF S
    <3> QED BY <3>1, <3>2, IntervalInduction
  <2>7. walk[N] = f[N]
    BY <1>4, <2>6
  <2> QED BY <1>1, <2>1, <2>7
<1> QED BY <1>3, <1>4

(* What is taken of the joins does not depend on what is cut off before. *)
LEMMA FirstOfJoins ==
    ASSUME NEW A, NEW n \in Nat, NEW N \in Nat, NEW ss \in Seq(Seq(A)), NEW tt \in Seq(Seq(A)),
           Len(ss) = N, Len(tt) = N, \A k \in 1 .. N : tt[k] = FirstOf(ss[k], n)
    PROVE  FirstOf(FlattenSeq(tt), n) = FirstOf(FlattenSeq(ss), n)
<1>1. PICK f : Joins(f, ss, A)
  BY JoinsExist
<1>2. PICK g : Joins(g, tt, A)
  BY JoinsExist
<1>3. /\ f \in [0 .. N -> Seq(A)] /\ f[0] = <<>> /\ \A k \in 1 .. N : f[k] = f[k - 1] \o ss[k]
      /\ g \in [0 .. N -> Seq(A)] /\ g[0] = <<>> /\ \A k \in 1 .. N : g[k] = g[k - 1] \o tt[k]
  BY <1>1, <1>2 DEF Joins
<1> DEFINE S == {k \in 0 .. N : FirstOf(g[k], n) = FirstOf(f[k], n)}
<1>4. 0 \in S
  BY <1>3
<1>5. ASSUME NEW k \in 0 .. N - 1, k \in S  PROVE k + 1 \in S
  <2>1. k + 1 \in 1 .. N /\ (k + 1) - 1 = k /\ k \in 0 .. N /\ k + 1 \in 0 .. N
    OBVIOUS
  <2>2. PICK u \in Seq(A), v \in Seq(A), s \in Seq(A), t \in Seq(A) :
           /\ u = f[k] /\ v = g[k] /\ s = ss[k + 1] /\ t = tt[k + 1]
           /\ f[k + 1] = u \o s /\ g[k + 1] = v \o t /\ t = FirstOf(s, n)
    <3>1. f[k] \in Seq(A) /\ g[k] \in Seq(A) /\ ss[k + 1] \in Seq(A) /\ tt[k + 1] \in Seq(A)
      BY <1>3, <2>1, ElementOfSeq
    <3>2. f[k + 1] = f[k] \o ss[k + 1] /\ g[k + 1] = g[k] \o tt[k + 1]
      BY <1>3, <2>1
    <3>3. QED  BY <2>1, <3>1, <3>2
  <2>3. PICK w : w = FirstOf(u, n) /\ w = FirstOf(v, n)
    BY <1>5, <2>2
  <2>4. PICK m \in 0 .. n : m = n - Len(w)
    <3>1. Len(FirstOf(u, n)) = IF n <= Len(u) THEN n ELSE Len(u)
      BY FirstFacts
    <3>2. Len(u) \in Nat
      BY LenProperties
    <3>3. n - Len(FirstOf(u, n)) \in 0 .. n
      BY <3>1, <3>2
    <3>4. QED  BY <2>3, <3>3
  <2>5. FirstOf(t, m) = FirstOf(s, m)
    BY <2>2, FirstFirst
  <2>6. FirstOf(u \o s, n) = w \o FirstOf(s, m) /\ FirstOf(v \o t, n) = w \o FirstOf(t, m)
    <3>1. FirstOf(u \o s, n) = FirstOf(u, n) \o FirstOf(s, n - Len(FirstOf(u, n)))
      BY FirstConcat
    <3>2. FirstOf(v \o t, n) = FirstOf(v, n) \o FirstOf(t, n - Len(FirstOf(v, n)))
      BY FirstConcat
    <3>3. QED  BY <2>3, <2>4, <3>1, <3>2
  <2>7. QED  BY <2>1, <2>2, <2>5, <2>6
<1> HIDE DEF S
<1>6. 0 .. N \subseteq S
  BY <1>4, <1>5, IntervalInduction
<1>7. N \in S
  BY <1>6
<1>8. FlattenSeq(ss) = f[N] /\ FlattenSeq(tt) = g[N]
  BY <1>1, <1>2, FlattenJoins
<1>9. QED  BY <1>7, <1>8 DEF S

(* What an archive finds. *)
HitsOf(slug, q) ==
    LET a == Arch(lib, slug)
    IN  IF q \in DOMAIN a.hits THEN [i \in DOMAIN a.hits[q] |-> <<slug, a.hits[q][i]>>] ELSE <<>>

Hit == {p \in (DOMAIN lib.place) \X Nat : p[2] \in IDs(Arch(lib, p[1]))}

(* A search gives the first of what is found. *)
LEMMA SearchIs ==
    ASSUME shelf \in DOMAIN Shelves, LibraryOK, NEW slug \in DOMAIN lib.place, NEW q,
           NEW limit \in Nat \ {0}, NEW ids, ids = Search(Arch(lib, slug), q, limit)
    PROVE  /\ ids \in Seq(IDs(Arch(lib, slug))) /\ HitsOf(slug, q) \in Seq(Hit)
           /\ [i \in DOMAIN ids |-> <<slug, ids[i]>>] = FirstOf(HitsOf(slug, q), limit)
<1>1. PICK a : a = Arch(lib, slug)
  OBVIOUS
<1>2. WellFormed(a)
  BY <1>1, LibraryFacts, ShelvesAssumption
<1>3. PICK found : found = IF q \in DOMAIN a.hits THEN a.hits[q] ELSE <<>>
  OBVIOUS
<1>4. found \in Seq(IDs(a))
  <2>1. CASE q \in DOMAIN a.hits
    <3>1. a.hits[q] \in Seq(IDs(a))
      BY <1>2, <2>1 DEF WellFormed
    <3>2. QED  BY <1>3, <2>1, <3>1
  <2>2. CASE q \notin DOMAIN a.hits
    BY <1>3, <2>2
  <2>3. QED  BY <2>1, <2>2
<1>5. ids = FirstOf(found, limit)
  <2>1. ~(limit <= 0)
    OBVIOUS
  <2>2. ids = SubSeq(found, 1, Min({limit, Len(found)}))
    BY <1>1, <1>3, <2>1 DEF Search
  <2>3. QED  BY <2>2 DEF FirstOf
<1>6. PICK h : h = HitsOf(slug, q)
  OBVIOUS
<1>7. h = [i \in DOMAIN found |-> <<slug, found[i]>>]
  <2>1. CASE q \in DOMAIN a.hits
    BY <1>1, <1>3, <1>6, <2>1 DEF HitsOf
  <2>2. CASE q \notin DOMAIN a.hits
    <3>1. h = <<>> /\ found = <<>>
      BY <1>1, <1>3, <1>6, <2>2 DEF HitsOf
    <3>2. QED  BY <3>1
  <2>3. QED  BY <2>1, <2>2
<1>8. PICK l \in Nat : l = Len(found)
  BY <1>4, LenProperties
<1>9. h \in Seq(Hit) /\ Len(h) = l /\ \A i \in 1 .. l : h[i] = <<slug, found[i]>>
  <2>1. DOMAIN found = 1 .. l /\ \A i \in 1 .. l : found[i] \in IDs(a)
    BY <1>4, <1>8, LenProperties, ElementOfSeq
  <2>2. ASSUME NEW i \in 1 .. l  PROVE <<slug, found[i]>> \in Hit
    <3>1. PICK id \in Nat : id = found[i] /\ id \in IDs(a)
      BY <1>2, <2>1, IDsFacts
    <3>2. QED  BY <1>1, <3>1 DEF Hit
  <2> HIDE DEF Hit
  <2>3. QED  BY <1>7, <2>1, <2>2
<1>10. PICK m \in Nat : m = IF limit <= l THEN limit ELSE l
  OBVIOUS
<1>11. ids \in Seq(IDs(a)) /\ Len(ids) = m /\ \A i \in 1 .. m : ids[i] = found[i]
  <2>1. PICK B : B = IDs(a)
    OBVIOUS
  <2>2. PICK s \in Seq(B) : s = found
    BY <1>4, <2>1
  <2>3. /\ FirstOf(s, limit) \in Seq(B) /\ Len(FirstOf(s, limit)) = IF limit <= Len(s) THEN limit ELSE Len(s)
        /\ \A i \in 1 .. Len(FirstOf(s, limit)) : FirstOf(s, limit)[i] = s[i]
    BY FirstFacts
  <2>4. QED  BY <1>5, <1>8, <1>10, <2>1, <2>2, <2>3
<1>12. PICK u, v : u = [i \in DOMAIN ids |-> <<slug, ids[i]>>] /\ v = FirstOf(h, limit)
  OBVIOUS
<1> HIDE DEF Hit
<1>13. v \in Seq(Hit) /\ Len(v) = m /\ \A i \in 1 .. m : v[i] = h[i]
  BY <1>9, <1>10, <1>12, FirstFacts
<1>14. DOMAIN ids = 1 .. m
  BY <1>11
<1>15. \A i \in 1 .. m : v[i] = <<slug, ids[i]>>
  <2> SUFFICES ASSUME NEW i \in 1 .. m  PROVE v[i] = <<slug, ids[i]>>
    OBVIOUS
  <2>1. i \in 1 .. l
    BY <1>10
  <2>2. v[i] = h[i] /\ h[i] = <<slug, found[i]>> /\ ids[i] = found[i]
    BY <1>9, <1>11, <1>13, <2>1
  <2>3. QED  BY <2>2
<1>16. v = [i \in 1 .. m |-> v[i]]
  BY <1>13
<1>17. u = v
  BY <1>12, <1>14, <1>15, <1>16
<1>18. QED  BY <1>1, <1>6, <1>9, <1>11, <1>12, <1>17

(* All the hits of some archives. *)
LEMMA AllHitsIs ==
    ASSUME shelf \in DOMAIN Shelves, LibraryOK, NEW slugs \in Seq(DOMAIN lib.place), NEW q
    PROVE  /\ AllHits(slugs, q) = FlattenSeq([i \in DOMAIN slugs |-> HitsOf(slugs[i], q)])
           /\ [i \in DOMAIN slugs |-> HitsOf(slugs[i], q)] \in Seq(Seq(Hit))
           /\ Len([i \in DOMAIN slugs |-> HitsOf(slugs[i], q)]) = Len(slugs)
<1>1. AllHits(slugs, q) = FlattenSeq([i \in DOMAIN slugs |-> HitsOf(slugs[i], q)])
  BY DEF AllHits, HitsOf
<1>2. PICK n \in Nat : n = Len(slugs) /\ DOMAIN slugs = 1 .. n
  BY LenProperties
<1>3. \A i \in 1 .. n : HitsOf(slugs[i], q) \in Seq(Hit)
  <2> SUFFICES ASSUME NEW i \in 1 .. n  PROVE HitsOf(slugs[i], q) \in Seq(Hit)
    OBVIOUS
  <2>1. slugs[i] \in DOMAIN lib.place /\ 1 \in Nat \ {0}
    BY <1>2
  <2>2. QED  BY <2>1, SearchIs
<1> HIDE DEF Hit
<1>4. PICK ss : ss = [i \in DOMAIN slugs |-> HitsOf(slugs[i], q)]
  OBVIOUS
<1>5. ss \in Seq(Seq(Hit)) /\ Len(ss) = n
  BY <1>2, <1>3, <1>4
<1>6. QED  BY <1>1, <1>2, <1>4, <1>5

(* The hits the links of a page are made of. *)
PairsOf(links) == [i \in DOMAIN links |-> <<links[i].slug, links[i].of>>]

ALink == {Link(p[1], p[2]) : p \in Hit}

(* The hits behind links, one by one and joined. *)
LEMMA PairsFacts ==
    ASSUME NEW s \in Seq(ALink), NEW t \in Seq(ALink)
    PROVE  PairsOf(s) \in Seq(Hit) /\ Len(PairsOf(s)) = Len(s) /\ PairsOf(s \o t) = PairsOf(s) \o PairsOf(t)
<1> DEFINE p(x) == <<x.slug, x.of>>
<1>1. \A x \in ALink : p(x) \in Hit
  <2> SUFFICES ASSUME NEW h \in Hit  PROVE p(Link(h[1], h[2])) \in Hit
    BY DEF ALink
  <2>1. p(Link(h[1], h[2])) = h
    BY DEF Link, Hit
  <2>2. QED  BY <2>1
<1> HIDE DEF p, ALink, Hit
<1>2. ASSUME NEW u \in Seq(ALink), NEW n \in Nat, n = Len(u)
      PROVE  PairsOf(u) \in Seq(Hit) /\ Len(PairsOf(u)) = n /\ \A i \in 1 .. n : PairsOf(u)[i] = p(u[i])
  <2>1. PairsOf(u) = [i \in 1 .. n |-> p(u[i])]
    BY <1>2 DEF PairsOf, p
  <2>2. \A i \in 1 .. n : p(u[i]) \in Hit
    BY <1>1, <1>2
  <2>3. QED  BY <2>1, <2>2
<1>3. PICK m \in Nat, n \in Nat : m = Len(s) /\ n = Len(t)
  BY LenProperties
<1>4. PICK w : w = s \o t
  OBVIOUS
<1>5. w \in Seq(ALink) /\ Len(w) = m + n /\ \A i \in 1 .. m + n : w[i] = IF i <= m THEN s[i] ELSE t[i - m]
  BY <1>3, <1>4, ConcatProperties
<1>6. PICK x, y, z : x = PairsOf(s) /\ y = PairsOf(t) /\ z = PairsOf(w)
  OBVIOUS
<1>7. x \in Seq(Hit) /\ Len(x) = m /\ \A i \in 1 .. m : x[i] = p(s[i])
  BY <1>2, <1>3, <1>6
<1>8. y \in Seq(Hit) /\ Len(y) = n /\ \A i \in 1 .. n : y[i] = p(t[i])
  BY <1>2, <1>3, <1>6
<1>9. z \in Seq(Hit) /\ Len(z) = m + n /\ \A i \in 1 .. m + n : z[i] = p(w[i])
  <2>1. m + n \in Nat
    OBVIOUS
  <2>2. QED  BY <1>2, <1>5, <1>6, <2>1
<1>10. PICK v : v = x \o y
  OBVIOUS
<1>11. v \in Seq(Hit) /\ Len(v) = m + n /\ \A i \in 1 .. m + n : v[i] = IF i <= m THEN x[i] ELSE y[i - m]
  <2>1. /\ x \o y \in Seq(Hit) /\ Len(x \o y) = Len(x) + Len(y)
        /\ \A i \in 1 .. Len(x) + Len(y) : (x \o y)[i] = IF i <= Len(x) THEN x[i] ELSE y[i - Len(x)]
    BY <1>7, <1>8, ConcatProperties
  <2>2. QED  BY <1>7, <1>8, <1>10, <2>1
<1>12. ASSUME NEW i \in 1 .. m + n  PROVE z[i] = v[i]
  <2>1. CASE i <= m
    <3>1. i \in 1 .. m
      BY <2>1
    <3>2. z[i] = p(s[i]) /\ v[i] = p(s[i])
      BY <1>5, <1>7, <1>9, <1>11, <2>1, <3>1
    <3>3. QED  BY <3>2
  <2>2. CASE ~(i <= m)
    <3>1. i - m \in 1 .. n
      BY <2>2
    <3>2. z[i] = p(t[i - m]) /\ v[i] = p(t[i - m])
      BY <1>5, <1>8, <1>9, <1>11, <2>2, <3>1
    <3>3. QED  BY <3>2
  <2>3. QED  BY <2>1, <2>2
<1>13. z = v
  BY <1>9, <1>11, <1>12, SeqEqual
<1>14. QED  BY <1>3, <1>4, <1>6, <1>7, <1>10, <1>13

(* A link to a record of an archive of the library is one. *)
LEMMA LinkIs ==
    ASSUME shelf \in DOMAIN Shelves, LibraryOK, NEW slug \in DOMAIN lib.place, NEW id \in IDs(Arch(lib, slug))
    PROVE  Link(slug, id) \in ALink
<1>1. WellFormed(Arch(lib, slug))
  BY LibraryFacts, ShelvesAssumption
<1>2. id \in Nat
  BY <1>1, IDsFacts
<1>3. PICK h : h = <<slug, id>>
  OBVIOUS
<1>4. h \in Hit /\ Link(h[1], h[2]) = Link(slug, id)
  BY <1>2, <1>3 DEF Hit
<1>5. QED  BY <1>4 DEF ALink

(* One archive more on the page. *)
LEMMA LinksOfSearch ==
    ASSUME shelf \in DOMAIN Shelves, LibraryOK, NEW slug \in DOMAIN lib.place, NEW q,
           NEW limit \in Nat \ {0}
    PROVE  /\ Links(slug, Search(Arch(lib, slug), q, limit)) \in Seq(ALink)
           /\ PairsOf(Links(slug, Search(Arch(lib, slug), q, limit))) = FirstOf(HitsOf(slug, q), limit)
<1>0. PICK links : links = Links(slug, Search(Arch(lib, slug), q, limit))
  OBVIOUS
<1>1. PICK ids : ids = Search(Arch(lib, slug), q, limit)
  OBVIOUS
<1>2. ids \in Seq(IDs(Arch(lib, slug))) /\ [i \in DOMAIN ids |-> <<slug, ids[i]>>] = FirstOf(HitsOf(slug, q), limit)
  BY <1>1, SearchIs
<1>3. PICK n \in Nat : n = Len(ids) /\ DOMAIN ids = 1 .. n
  BY <1>2, LenProperties
<1>4. links = [i \in 1 .. n |-> Link(slug, ids[i])]
  BY <1>0, <1>1, <1>3 DEF Links
<1>5. ASSUME NEW i \in 1 .. n  PROVE Link(slug, ids[i]) \in ALink
  <2>1. ids[i] \in IDs(Arch(lib, slug))
    BY <1>2, <1>3, ElementOfSeq
  <2>2. QED  BY <2>1, LinkIs
<1>6. links \in Seq(ALink)
  <2> HIDE DEF ALink
  <2>1. QED  BY <1>4, <1>5
<1>7. PairsOf(links) = [i \in DOMAIN ids |-> <<slug, ids[i]>>]
  BY <1>3, <1>4 DEF PairsOf, Link
<1>8. QED  BY <1>0, <1>2, <1>6, <1>7

(* Nothing is cut to nothing. *)
LEMMA NothingFirst ==
    ASSUME NEW n \in Nat
    PROVE  FirstOf(<<>>, n) = <<>>
<1>1. <<>> \in Seq(Nat) /\ Len(<<>>) = 0
  OBVIOUS
<1>2. FirstOf(<<>>, n) \in Seq(Nat) /\ Len(FirstOf(<<>>, n)) = IF n <= 0 THEN n ELSE 0
  BY <1>1, FirstFacts
<1>3. QED  BY <1>2, EmptySeq

(* The page of a search over all archives. *)
LEMMA SearchAllIs ==
    ASSUME shelf \in DOMAIN Shelves, LibraryOK, NEW q
    PROVE  /\ handleSearchAll(q).status = "200" /\ handleSearchAll(q).links \in Seq(ALink)
           /\ PairsOf(handleSearchAll(q).links) = FirstOf(AllHits(lib.slugs, q), PageLimit)
<1>1. PICK N \in Nat : N = Len(lib.slugs) /\ lib.slugs \in Seq(DOMAIN lib.place)
  BY LibraryFacts, GoodiesFacts
<1>2. PICK ss : ss = [i \in DOMAIN lib.slugs |-> HitsOf(lib.slugs[i], q)]
  OBVIOUS
<1>3. AllHits(lib.slugs, q) = FlattenSeq(ss) /\ ss \in Seq(Seq(Hit)) /\ Len(ss) = N
  <2>1. PICK slugs \in Seq(DOMAIN lib.place) : slugs = lib.slugs
    BY <1>1
  <2>2. AllHits(slugs, q) = FlattenSeq([i \in DOMAIN slugs |-> HitsOf(slugs[i], q)])
    BY AllHitsIs
  <2>3. [i \in DOMAIN slugs |-> HitsOf(slugs[i], q)] \in Seq(Seq(Hit))
    BY AllHitsIs
  <2>4. Len([i \in DOMAIN slugs |-> HitsOf(slugs[i], q)]) = Len(slugs)
    BY AllHitsIs
  <2>5. QED  BY <1>1, <1>2, <2>1, <2>2, <2>3, <2>4
<1> HIDE DEF Hit, ALink
<1>4. PICK f : Joins(f, ss, Hit)
  BY <1>3, JoinsExist
<1>5. /\ f \in [0 .. N -> Seq(Hit)] /\ f[0] = <<>> /\ \A k \in 1 .. N : f[k] = f[k - 1] \o ss[k]
      /\ AllHits(lib.slugs, q) = f[N]
  BY <1>3, <1>4, FlattenJoins DEF Joins
<1>6. PageLimit \in Nat \ {0}
  BY Constants
<1> DEFINE next(so, k) ==
             IF Len(so) >= PageLimit \/ ~HasSearch(Arch(lib, lib.slugs[k])) THEN so
             ELSE so \o Links(lib.slugs[k], Search(Arch(lib, lib.slugs[k]), q, PageLimit - Len(so)))
           Body(g) == [k \in 0 .. Len(lib.slugs) |-> IF k = 0 THEN <<>> ELSE next(g[k - 1], k)]
           V == Seq(ALink)
           step == [k \in 1 .. N |-> [so \in V |-> next(so, k)]]
(* What is on the page is the first of what the archives so far found. *)
<1>7. ASSUME NEW k \in 1 .. N, NEW so \in V
      PROVE  /\ next(so, k) \in V
             /\ PairsOf(so) = FirstOf(f[k - 1], PageLimit) => PairsOf(next(so, k)) = FirstOf(f[k], PageLimit)
  <2>1. PICK slug \in DOMAIN lib.place : slug = lib.slugs[k]
    BY <1>1, ElementOfSeq
  <2>2. PICK h \in Seq(Hit) : h = HitsOf(slug, q) /\ h = ss[k]
    <3>1. ss[k] \in Seq(Hit)
      BY <1>3, ElementOfSeq
    <3>2. ss[k] = HitsOf(slug, q)
      BY <1>1, <1>2, <2>1
    <3>3. QED  BY <3>1, <3>2
  <2>3. PICK u \in Seq(Hit) : u = f[k - 1]
    BY <1>5
  <2>4. f[k] = u \o h
    BY <1>5, <2>2, <2>3
  <2>5. FirstOf(f[k], PageLimit) = FirstOf(u, PageLimit) \o FirstOf(h, PageLimit - Len(FirstOf(u, PageLimit)))
    BY <1>6, <2>4, FirstConcat
  <2>6. PICK m \in Nat : m = Len(so)
    BY LenProperties
  <2>7. PairsOf(so) \in Seq(Hit) /\ Len(PairsOf(so)) = m
    <3>1. <<>> \in Seq(ALink)
      OBVIOUS
    <3>2. QED  BY <2>6, <3>1, PairsFacts
  <2>8. PairsOf(so) = FirstOf(u, PageLimit) =>
           FirstOf(f[k], PageLimit) = PairsOf(so) \o FirstOf(h, PageLimit - m)
    BY <2>5, <2>7
  <2>9. CASE m >= PageLimit
    <3>1. next(so, k) = so
      BY <2>6, <2>9
    <3>2. ASSUME PairsOf(so) = FirstOf(u, PageLimit)  PROVE PairsOf(so) = FirstOf(f[k], PageLimit)
      <4>1. m <= PageLimit
        <5>1. Len(FirstOf(u, PageLimit)) = IF PageLimit <= Len(u) THEN PageLimit ELSE Len(u)
          BY <1>6, FirstFacts
        <5>2. Len(u) \in Nat
          BY LenProperties
        <5>3. QED  BY <1>6, <2>7, <3>2, <5>1, <5>2
      <4>2. PageLimit - m = 0 /\ 0 \in Nat
        BY <1>6, <2>9, <4>1
      <4>3. FirstOf(h, 0) = <<>>
        <5>1. FirstOf(h, 0) \in Seq(Hit) /\ Len(FirstOf(h, 0)) = IF 0 <= Len(h) THEN 0 ELSE Len(h)
          BY <4>2, FirstFacts
        <5>2. Len(h) \in Nat
          BY LenProperties
        <5>3. QED  BY <5>1, <5>2, EmptySeq
      <4>4. FirstOf(f[k], PageLimit) = PairsOf(so) \o <<>>
        BY <2>8, <3>2, <4>2, <4>3
      <4>5. QED  BY <2>7, <4>4, ConcatEmptySeq
    <3>3. QED  BY <2>3, <3>1, <3>2
  <2>10. CASE ~(m >= PageLimit) /\ ~HasSearch(Arch(lib, slug))
    <3>1. next(so, k) = so
      BY <2>1, <2>10
    <3>2. h = <<>>
      BY <2>2, <2>10 DEF HasSearch, HitsOf
    <3>3. f[k] = u
      BY <2>3, <2>4, <3>2, ConcatEmptySeq
    <3>4. QED  BY <2>3, <3>1, <3>3
  <2>11. CASE ~(m >= PageLimit) /\ HasSearch(Arch(lib, slug))
    <3>1. PICK limit \in Nat \ {0} : limit = PageLimit - m
      BY <1>6, <2>11
    <3>2. PICK links : links = Links(slug, Search(Arch(lib, slug), q, limit))
      OBVIOUS
    <3>3. links \in Seq(ALink) /\ PairsOf(links) = FirstOf(h, limit)
      BY <2>2, <3>2, LinksOfSearch
    <3>4. next(so, k) = so \o links
      BY <2>1, <2>6, <2>11, <3>1, <3>2
    <3>5. so \o links \in Seq(ALink) /\ PairsOf(so \o links) = PairsOf(so) \o PairsOf(links)
      BY <3>3, ConcatProperties, PairsFacts
    <3>6. QED  BY <2>3, <2>8, <3>1, <3>3, <3>4, <3>5
  <2>12. QED  BY <2>9, <2>10, <2>11
<1> HIDE DEF next
<1>8. PICK w : Steps(w, N, V, <<>>, step)
  <2>1. step \in [1 .. N -> [V -> V]]
    <3> HIDE DEF V
    <3>1. QED  BY <1>7
  <2>2. <<>> \in V
    OBVIOUS
  <2> HIDE DEF step, V
  <2>3. QED  BY <2>1, <2>2, StepsExist
<1>9. w = Body(w)
  <2>1. w \in [0 .. N -> V] /\ w[0] = <<>>
    BY <1>8 DEF Steps
  <2>2. ASSUME NEW k \in 1 .. N  PROVE w[k] = next(w[k - 1], k)
    <3>1. k - 1 \in 0 .. N
      OBVIOUS
    <3>2. w[k - 1] \in V
      BY <2>1, <3>1
    <3>3. w[k] = step[k][w[k - 1]]
      BY <1>8 DEF Steps
    <3> HIDE DEF V
    <3>4. QED  BY <3>2, <3>3
  <2>3. \A k \in 0 .. N : w[k] = IF k = 0 THEN <<>> ELSE next(w[k - 1], k)
    BY <2>1, <2>2
  <2>4. w = [k \in 0 .. N |-> w[k]]
    BY <2>1
  <2>5. QED  BY <1>1, <2>3, <2>4
<1>10. PICK g : g = CHOOSE x : x = Body(x)
  OBVIOUS
<1>11. handleSearchAll(q).status = "200" /\ handleSearchAll(q).links = IF q = "" THEN <<>> ELSE g[N]
  <2>1. handleSearchAll(q)
          = [status |-> "200",
             links |-> IF q = "" THEN <<>> ELSE (CHOOSE x : x = Body(x))[Len(lib.slugs)]]
    BY Zenon DEF handleSearchAll, next
  <2> HIDE DEF Body
  <2>2. PICK h, n : h = (CHOOSE x : x = Body(x)) /\ n = Len(lib.slugs)
    OBVIOUS
  <2>3. h = g /\ n = N
    BY <1>1, <1>10, <2>2
  <2>4. handleSearchAll(q) = [status |-> "200", links |-> IF q = "" THEN <<>> ELSE h[n]]
    BY ZenonT(30), <2>1, <2>2
  <2>5. PICK z : z = IF q = "" THEN <<>> ELSE h[n]
    OBVIOUS
  <2>6. handleSearchAll(q) = [status |-> "200", links |-> z]
    BY Zenon, <2>4, <2>5
  <2>7. handleSearchAll(q).status = "200" /\ handleSearchAll(q).links = z
    BY <2>6
  <2>8. QED  BY Zenon, <2>3, <2>5, <2>7
<1>12. g = Body(g)
  <2> HIDE DEF Body
  <2>1. QED  BY <1>9, <1>10
<1>13. g[0] = <<>> /\ \A k \in 1 .. N : g[k] = next(g[k - 1], k)
  <2>1. 0 \in 0 .. N /\ \A k \in 1 .. N : k \in 0 .. N /\ k # 0
    OBVIOUS
  <2>2. QED  BY <1>1, <1>12, <2>1
<1>14. g[N] \in V /\ PairsOf(g[N]) = FirstOf(f[N], PageLimit)
  <2> DEFINE S == {k \in 0 .. N : g[k] \in V /\ PairsOf(g[k]) = FirstOf(f[k], PageLimit)}
  <2>1. 0 \in S
    <3>1. PairsOf(<<>>) = <<>>
      BY DEF PairsOf
    <3>2. FirstOf(<<>>, PageLimit) = <<>>
      BY <1>6, NothingFirst
    <3>3. QED  BY <1>5, <1>13, <3>1, <3>2
  <2>2. ASSUME NEW k \in 0 .. N - 1, k \in S  PROVE k + 1 \in S
    <3>1. k + 1 \in 1 .. N /\ (k + 1) - 1 = k /\ k + 1 \in 0 .. N
      OBVIOUS
    <3>2. g[k + 1] = next(g[k], k + 1) /\ g[k] \in V /\ PairsOf(g[k]) = FirstOf(f[k], PageLimit)
      BY <1>13, <2>2, <3>1
    <3> HIDE DEF V
    <3>3. QED  BY <1>7, <3>1, <3>2
  <2> HIDE DEF S, V
  <2>3. 0 .. N \subseteq S
    BY <2>1, <2>2, IntervalInduction
  <2>4. N \in S
    BY <2>3
  <2>5. QED  BY <2>4 DEF S
<1>15. CASE q # ""
  BY <1>5, <1>11, <1>14, <1>15
<1>16. CASE q = ""
  <2>1. \A k \in 1 .. N : ss[k] = <<>>
    <3> SUFFICES ASSUME NEW k \in 1 .. N  PROVE ss[k] = <<>>
      OBVIOUS
    <3>1. PICK slug \in DOMAIN lib.place : slug = lib.slugs[k]
      BY <1>1, ElementOfSeq
    <3>2. WellFormed(Arch(lib, slug))
      BY LibraryFacts, ShelvesAssumption
    <3>3. q \notin DOMAIN Arch(lib, slug).hits
      BY <1>16, <3>2 DEF WellFormed
    <3>4. HitsOf(slug, q) = <<>>
      BY <3>3 DEF HitsOf
    <3>5. QED  BY <1>1, <1>2, <3>1, <3>4
  <2> DEFINE S == {k \in 0 .. N : f[k] = <<>>}
  <2>2. 0 \in S
    BY <1>5
  <2>3. ASSUME NEW k \in 0 .. N - 1, k \in S  PROVE k + 1 \in S
    <3>1. k + 1 \in 1 .. N /\ (k + 1) - 1 = k /\ k + 1 \in 0 .. N
      OBVIOUS
    <3>2. f[k + 1] = <<>> \o <<>>
      BY <1>5, <2>1, <2>3, <3>1
    <3>3. <<>> \o <<>> = <<>>
      OBVIOUS
    <3>4. QED  BY <3>1, <3>2, <3>3
  <2> HIDE DEF S
  <2>4. N \in S
    <3>1. 0 .. N \subseteq S
      BY <2>2, <2>3, IntervalInduction
    <3>2. QED  BY <3>1
  <2>5. f[N] = <<>>
    BY <2>4 DEF S
  <2>6. FirstOf(<<>>, PageLimit) = <<>>
    BY <1>6, NothingFirst
  <2>7. PairsOf(<<>>) = <<>>
    BY DEF PairsOf
  <2>8. <<>> \in Seq(ALink)
    OBVIOUS
  <2>9. QED  BY <1>5, <1>11, <1>16, <2>5, <2>6, <2>7, <2>8
<1>17. QED  BY <1>15, <1>16

(****************************************************************************)
(* Chains of redirects                                                      *)
(****************************************************************************)
LEMMA EntryFacts ==
    ASSUME NEW a, WellFormed(a), NEW id
    PROVE  IF id \notin IDs(a) THEN EntryByID(a, id) = NoEntry
           ELSE /\ id \in Nat /\ EntryByID(a, id).ok = TRUE /\ EntryByID(a, id).id = id
                /\ EntryByID(a, id).path \in Path
                /\ IsRedirectID(id) => EntryByID(a, id).target \in Nat
<1>1. CASE id \notin IDs(a)
  BY <1>1 DEF EntryByID
<1>2. CASE id \in IDs(a) /\ IsRedirectID(id)
  <2>1. PICK i \in 1 .. Len(a.redirects) : i = id - RedirectBit + 1
    BY <1>2, IDsFacts
  <2>2. a.redirects[i] \in [path : Path, title : Nat, target : Nat]
    BY <2>1, ElementOfSeq DEF WellFormed
  <2>3. PICK r \in [path : Path, title : Nat, target : Nat] : r = a.redirects[i]
    BY <2>2
  <2>4. EntryByID(a, id) = [ok |-> TRUE, id |-> id, path |-> r.path, title |-> r.title, target |-> r.target]
    BY <1>2, <2>1, <2>3 DEF EntryByID
  <2> HIDE DEF Path
  <2>5. QED  BY <1>2, <2>3, <2>4, IDsFacts
<1>3. CASE id \in IDs(a) /\ ~IsRedirectID(id)
  <2>1. PICK i \in 1 .. Len(a.entries) : i = id + 1
    BY <1>3, IDsFacts
  <2>2. a.entries[i].path \in Path
    <3>1. a.entries[i] \in [path : Path, title : Nat, mime : STRING, front : BOOLEAN,
                            size : Nat, readable : BOOLEAN]
      BY <2>1, ElementOfSeq DEF WellFormed
    <3> HIDE DEF Path
    <3>2. QED  BY <3>1
  <2>3. PICK r : r = a.entries[i]
    OBVIOUS
  <2>4. EntryByID(a, id) = [ok |-> TRUE, id |-> id, path |-> r.path, title |-> r.title]
    BY <1>3, <2>1, <2>3 DEF EntryByID
  <2> HIDE DEF Path
  <2>5. QED  BY <1>3, <2>2, <2>3, <2>4, IDsFacts
<1>4. QED  BY <1>1, <1>2, <1>3

(* One hop of Resolve, and where it ends. *)
Walker == [at : Nat \cup {NoID}, visited : SUBSET Nat]
Stopped(a, w) == w.at \notin IDs(a) \/ ~IsRedirectID(w.at)
Hop(a, w) ==
    LET target == EntryByID(a, w.at).target
    IN  IF Stopped(a, w) THEN w
        ELSE [at |-> IF target \in w.visited THEN NoID ELSE target,
              visited |-> w.visited \cup {target}]

(* A hop keeps the types of the walk. *)
LEMMA HopFacts ==
    ASSUME NEW a, WellFormed(a), NEW w \in Walker
    PROVE  Hop(a, w) \in Walker
<1>1. CASE Stopped(a, w)
  BY <1>1 DEF Hop
<1>2. CASE ~Stopped(a, w)
  <2>1. PICK t \in Nat : t = EntryByID(a, w.at).target
    BY <1>2, EntryFacts DEF Stopped
  <2>2. Hop(a, w) = [at |-> IF t \in w.visited THEN NoID ELSE t, visited |-> w.visited \cup {t}]
    BY <1>2, <2>1 DEF Hop
  <2>3. w.visited \cup {t} \in SUBSET Nat /\ (IF t \in w.visited THEN NoID ELSE t) \in Nat \cup {NoID}
    BY DEF Walker
  <2>4. QED  BY <2>2, <2>3 DEF Walker
<1>3. QED  BY <1>1, <1>2

(* The hops of Resolve, one after the other. *)
Walk(w, a, id, N) ==
    /\ w \in [0 .. N -> Walker] /\ w[0] = [at |-> id, visited |-> {id}]
    /\ \A n \in 1 .. N : w[n] = Hop(a, w[n - 1])

(* Resolve is a walk of as many hops as there are records. *)
LEMMA ResolveIs ==
    ASSUME NEW a, WellFormed(a), NEW id \in Nat, NEW N \in Nat, N = Cardinality(IDs(a))
    PROVE  \E w : Walk(w, a, id, N) /\ Resolve(a, id) = EntryByID(a, w[N].at)
<1> DEFINE Body(g) == [n \in 0 .. Cardinality(IDs(a)) |->
                          IF n = 0 THEN [at |-> id, visited |-> {id}] ELSE Hop(a, g[n - 1])]
           step == [n \in 1 .. N |-> [w \in Walker |-> Hop(a, w)]]
           start == [at |-> id, visited |-> {id}]
<1>1. start \in Walker
  BY DEF Walker
<1>2. step \in [1 .. N -> [Walker -> Walker]]
  <2>1. \A w \in Walker : Hop(a, w) \in Walker
    BY HopFacts
  <2> HIDE DEF Walker
  <2>2. QED  BY <2>1
<1>3. PICK w : Steps(w, N, Walker, start, step)
  <2> HIDE DEF Walker, start, step
  <2>1. QED  BY <1>1, <1>2, StepsExist
<1> HIDE DEF Walker
<1>4. w \in [0 .. N -> Walker] /\ w[0] = start /\ \A n \in 1 .. N : w[n] = Hop(a, w[n - 1])
  <2>1. w \in [0 .. N -> Walker] /\ w[0] = start
    BY <1>3 DEF Steps
  <2>2. ASSUME NEW n \in 1 .. N  PROVE w[n] = Hop(a, w[n - 1])
    <3>1. n - 1 \in 0 .. N
      OBVIOUS
    <3>2. w[n - 1] \in Walker
      BY <2>1, <3>1
    <3>3. w[n] = step[n][w[n - 1]]
      BY <1>3 DEF Steps
    <3>4. QED  BY <3>2, <3>3
  <2>3. QED  BY <2>1, <2>2
<1>5. w = Body(w)
  <2>1. \A n \in 0 .. N : w[n] = IF n = 0 THEN start ELSE Hop(a, w[n - 1])
    BY <1>4
  <2>2. w = [n \in 0 .. N |-> w[n]]
    BY <1>4
  <2>3. QED  BY <2>1, <2>2
<1>6. PICK g : g = CHOOSE x : x = Body(x)
  OBVIOUS
<1>7. g = Body(g)
  <2> HIDE DEF Body
  <2>1. QED  BY <1>5, <1>6
<1>8. g \in [0 .. N -> Walker] /\ \A n \in 0 .. N : g[n] = w[n]
  <2>1. \A n \in 0 .. N : g[n] = IF n = 0 THEN start ELSE Hop(a, g[n - 1])
    BY <1>7
  <2> DEFINE S == {n \in 0 .. N : g[n] = w[n]}
  <2>2. 0 \in S
    <3>1. 0 \in 0 .. N
      OBVIOUS
    <3> HIDE DEF start
    <3>2. g[0] = start /\ w[0] = start
      BY <1>4, <2>1, <3>1
    <3>3. QED  BY <3>1, <3>2
  <2>3. ASSUME NEW n \in 0 .. N - 1, n \in S  PROVE n + 1 \in S
    <3>1. n + 1 \in 0 .. N /\ n + 1 \in 1 .. N /\ n + 1 # 0 /\ (n + 1) - 1 = n
      OBVIOUS
    <3>2. g[n + 1] = Hop(a, g[n]) /\ w[n + 1] = Hop(a, w[n]) /\ g[n] = w[n]
      BY <1>4, <2>1, <2>3, <3>1
    <3>3. QED  BY <3>1, <3>2
  <2> HIDE DEF S
  <2>4. 0 .. N \subseteq S
    BY <2>2, <2>3, IntervalInduction
  <2>5. \A n \in 0 .. N : g[n] = w[n]
    BY <2>4 DEF S
  <2>6. g = [n \in 0 .. N |-> g[n]]
    BY <1>7
  <2>7. QED  BY <1>4, <2>5, <2>6
<1>9. Resolve(a, id) = EntryByID(a, g[N].at)
  <2>1. Resolve(a, id) = EntryByID(a, (CHOOSE x : x = Body(x))[Cardinality(IDs(a))].at)
    BY Zenon DEF Resolve, Hop, Stopped
  <2> HIDE DEF Body
  <2>2. PICK h, n : h = (CHOOSE x : x = Body(x)) /\ n = Cardinality(IDs(a))
    OBVIOUS
  <2>3. h = g /\ n = N
    BY <1>6, <2>2
  <2>4. Resolve(a, id) = EntryByID(a, h[n].at)
    BY Zenon, <2>1, <2>2
  <2>5. QED  BY <2>3, <2>4
<1>10. N \in 0 .. N
  OBVIOUS
<1>11. QED  BY <1>4, <1>8, <1>9, <1>10 DEF Walk

(* The walk of a redirect that loops or breaks comes to its end, too: it    *)
(* cannot have visited more entries than there are.                         *)
LEMMA ResolveEnds ==
    ASSUME NEW a, WellFormed(a), NEW id \in Nat
    PROVE  \/ Resolve(a, id) = NoEntry
           \/ \E x \in IDs(a) : ~IsRedirectID(x) /\ Resolve(a, id) = EntryByID(a, x)
<1>1. PICK N \in Nat : N = Cardinality(IDs(a))
  BY IDsFacts
<1>2. PICK w : Walk(w, a, id, N) /\ Resolve(a, id) = EntryByID(a, w[N].at)
  BY <1>1, ResolveIs
<1>3. w \in [0 .. N -> Walker] /\ w[0] = [at |-> id, visited |-> {id}]
      /\ \A n \in 1 .. N : w[n] = Hop(a, w[n - 1])
  BY <1>2 DEF Walk
<1> DEFINE Fresh(v, n) == /\ v.at \in IDs(a) /\ v.visited \subseteq IDs(a)
                          /\ IsFiniteSet(v.visited) /\ Cardinality(v.visited) = n + 1
           S == {n \in 0 .. N : Stopped(a, w[n]) \/ Fresh(w[n], n)}
<1>4. 0 \in S
  <2>1. IsFiniteSet({id}) /\ Cardinality({id}) = 1
    BY FS_Singleton
  <2>2. PICK v : v = w[0]
    OBVIOUS
  <2>3. v.at = id /\ v.visited = {id} /\ 0 \in 0 .. N /\ 0 + 1 = 1
    BY <1>3, <2>2
  <2>4. id \in IDs(a) => Fresh(v, 0)
    BY <2>1, <2>3
  <2>5. id \notin IDs(a) => Stopped(a, v)
    BY <2>3 DEF Stopped
  <2>6. QED  BY <2>2, <2>3, <2>4, <2>5
<1>5. ASSUME NEW n \in 0 .. N - 1, n \in S  PROVE n + 1 \in S
  <2>1. n \in 0 .. N /\ n + 1 \in 0 .. N /\ n + 1 \in 1 .. N /\ (n + 1) - 1 = n
    OBVIOUS
  <2>2. PICK u \in Walker, v \in Walker : u = w[n] /\ v = w[n + 1]
    <3> HIDE DEF Walker
    <3>1. QED  BY <1>3, <2>1
  <2>3. v = Hop(a, u)
    BY <1>3, <2>1, <2>2
  <2>4. CASE Stopped(a, u)
    <3>1. v = u
      BY <2>3, <2>4 DEF Hop
    <3>2. QED  BY <2>1, <2>2, <2>4, <3>1
  <2>5. CASE ~Stopped(a, u)
    <3>1. Fresh(u, n)
      BY <1>5, <2>2, <2>5
    <3>2. PICK t : t = EntryByID(a, u.at).target
      OBVIOUS
    <3>3. v = [at |-> IF t \in u.visited THEN NoID ELSE t, visited |-> u.visited \cup {t}]
      BY <2>3, <2>5, <3>2 DEF Hop
    <3>4. CASE t \in u.visited \/ t \notin IDs(a)
      <4>1. v.at \notin IDs(a)
        BY <3>3, <3>4, IDsFacts DEF NoID
      <4>2. QED  BY <2>1, <2>2, <4>1 DEF Stopped
    <3>5. CASE t \notin u.visited /\ t \in IDs(a)
      <4>1. v.at = t /\ v.visited = u.visited \cup {t}
        BY <3>3, <3>5
      <4>2. IsFiniteSet(v.visited) /\ Cardinality(v.visited) = (n + 1) + 1
        BY <3>1, <3>5, <4>1, FS_AddElement
      <4>3. Fresh(v, n + 1)
        BY <3>1, <3>5, <4>1, <4>2
      <4>4. QED  BY <2>1, <2>2, <4>3
    <3>6. QED  BY <3>4, <3>5
  <2>6. QED  BY <2>4, <2>5
<1>6. N \in S
  <2> HIDE DEF S
  <2>1. 0 .. N \subseteq S
    BY <1>4, <1>5, IntervalInduction
  <2>2. QED  BY <2>1
<1>7. ~Fresh(w[N], N)
  <2> SUFFICES ASSUME Fresh(w[N], N)  PROVE FALSE
    OBVIOUS
  <2>1. PICK T : T = w[N].visited
    OBVIOUS
  <2>2. T \subseteq IDs(a) /\ Cardinality(T) = N + 1
    BY <2>1
  <2>3. Cardinality(T) <= N
    BY <1>1, <2>2, IDsFacts, FS_Subset
  <2>4. QED  BY <2>2, <2>3
<1>8. PICK x : x = w[N].at
  OBVIOUS
<1>9. x \notin IDs(a) \/ ~IsRedirectID(x)
  BY <1>6, <1>7, <1>8 DEF Stopped
<1>10. CASE x \notin IDs(a)
  BY <1>2, <1>8, <1>10, EntryFacts
<1>11. CASE x \in IDs(a)
  BY <1>2, <1>8, <1>9, <1>11
<1>12. QED  BY <1>10, <1>11

(* What is no redirect is its own end. *)
LEMMA ResolvePlain ==
    ASSUME NEW a, WellFormed(a), NEW id \in IDs(a), ~IsRedirectID(id)
    PROVE  Resolve(a, id) = EntryByID(a, id)
<1>1. PICK N \in Nat : N = Cardinality(IDs(a)) /\ id \in Nat
  BY IDsFacts
<1>2. PICK w : Walk(w, a, id, N) /\ Resolve(a, id) = EntryByID(a, w[N].at)
  BY <1>1, ResolveIs
<1> DEFINE S == {n \in 0 .. N : w[n].at = id}
<1>3. 0 \in S
  BY <1>2 DEF Walk
<1>4. ASSUME NEW n \in 0 .. N - 1, n \in S  PROVE n + 1 \in S
  <2>1. n + 1 \in 0 .. N /\ n + 1 \in 1 .. N /\ (n + 1) - 1 = n
    OBVIOUS
  <2>2. w[n + 1] = Hop(a, w[n]) /\ Stopped(a, w[n])
    BY <1>2, <1>4, <2>1 DEF Walk, Stopped
  <2>3. QED  BY <1>4, <2>1, <2>2 DEF Hop
<1>5. N \in S
  <2> HIDE DEF S
  <2>1. 0 .. N \subseteq S
    BY <1>3, <1>4, IntervalInduction
  <2>2. QED  BY <2>1
<1>6. QED  BY <1>2, <1>5


(****************************************************************************)
(* The tools                                                                *)
(****************************************************************************)
LEMMA ErrorFacts == \A why : ToolError(why).status = "error"
BY DEF ToolError

(* A sequence of one element. *)
LEMMA OfOne ==
    ASSUME NEW A, NEW x \in A
    PROVE  <<x>> \in Seq(A) /\ Len(<<x>>) = 1 /\ <<x>>[1] = x
OBVIOUS

(* The archives a call is about are in the library. *)
LEMMA TargetsFacts ==
    ASSUME shelf \in DOMAIN Shelves, LibraryOK, NEW req,
           req.slug = <<>> \/ req.slug \in DOMAIN lib.archives
    PROVE  Targets(lib, req) \in Seq(DOMAIN lib.place)
<1>1. lib.slugs \in Seq(DOMAIN lib.place) /\ DOMAIN lib.archives = DOMAIN lib.place
  BY LibraryFacts, GoodiesFacts
<1>2. CASE req.slug = <<>>
  BY <1>1, <1>2 DEF Targets
<1>3. CASE req.slug # <<>>
  <2>1. PICK D, x : x \in D /\ D = DOMAIN lib.place /\ x = req.slug
    BY <1>1, <1>3
  <2>2. <<x>> \in Seq(D)
    BY <2>1, OfOne
  <2>3. QED  BY <1>3, <2>1, <2>2 DEF Targets
<1>4. QED  BY <1>2, <1>3

(* search_text has the first hits of its archives. *)
LEMMA SearchTextIs ==
    ASSUME shelf \in DOMAIN Shelves, LibraryOK, NEW req, Asked(req),
           search_text(lib, req).status = "ok"
    PROVE  search_text(lib, req).hits
              = FirstOf(AllHits(Targets(lib, req), req.q),
                        IF req.limit <= 0 THEN DefaultLimit ELSE req.limit)
<1>1. PICK limit : limit = IF req.limit <= 0 THEN DefaultLimit ELSE req.limit
  OBVIOUS
<1>2. limit \in Nat \ {0}
  BY <1>1, Constants, AskedFacts
<1>3. PICK T : T = Targets(lib, req)
  OBVIOUS
<1>4. PICK q : q = req.q
  OBVIOUS
<1> DEFINE hits(slug) == LET ids == Search(Arch(lib, slug), q, limit)
                         IN  [i \in DOMAIN ids |-> <<slug, ids[i]>>]
<1>5. PICK tt : tt = [i \in DOMAIN T |-> hits(T[i])]
  OBVIOUS
<1>6. PICK all : all = FlattenSeq(tt)
  OBVIOUS
<1>7. req.slug = <<>> \/ req.slug \in DOMAIN lib.archives
  BY ErrorFacts DEF search_text, Known
<1>8. search_text(lib, req).hits = FirstOf(all, limit)
  <2>1. search_text(lib, req)
           = IF req.q = "" THEN ToolError("query")
             ELSE IF req.slug # <<>> /\ ~Known(lib, req) THEN ToolError("archive")
             ELSE [status |-> "ok", hits |-> SubSeq(all, 1, Min({limit, Len(all)}))]
    BY ZenonT(30), <1>1, <1>3, <1>4, <1>5, <1>6 DEF search_text
  <2>2. search_text(lib, req) = [status |-> "ok", hits |-> FirstOf(all, limit)]
    BY ErrorFacts, <2>1 DEF FirstOf
  <2>3. QED  BY <2>2
<1>9. T \in Seq(DOMAIN lib.place)
  BY <1>3, <1>7, TargetsFacts
<1>10. PICK N \in Nat : N = Len(T) /\ DOMAIN T = 1 .. N
  BY <1>9, LenProperties
<1>11. PICK ss : ss = [i \in DOMAIN T |-> HitsOf(T[i], q)]
  OBVIOUS
<1>12. AllHits(T, q) = FlattenSeq(ss) /\ ss \in Seq(Seq(Hit)) /\ Len(ss) = N
  BY <1>9, <1>10, <1>11, AllHitsIs
<1>13. ASSUME NEW k \in 1 .. N  PROVE tt[k] = FirstOf(ss[k], limit) /\ tt[k] \in Seq(Hit)
  <2>1. PICK slug \in DOMAIN lib.place : slug = T[k]
    BY <1>9, <1>10, ElementOfSeq
  <2>2. PICK ids : ids = Search(Arch(lib, slug), q, limit)
    OBVIOUS
  <2>3. HitsOf(slug, q) \in Seq(Hit) /\ [i \in DOMAIN ids |-> <<slug, ids[i]>>] = FirstOf(HitsOf(slug, q), limit)
    BY <1>2, <2>2, SearchIs
  <2>4. tt[k] = [i \in DOMAIN ids |-> <<slug, ids[i]>>]
    BY <1>5, <1>10, <2>1, <2>2
  <2>5. ss[k] = HitsOf(slug, q)
    BY <1>10, <1>11, <2>1
  <2>6. FirstOf(HitsOf(slug, q), limit) \in Seq(Hit)
    BY <1>2, <2>3, FirstFacts
  <2>7. QED  BY <2>3, <2>4, <2>5, <2>6
<1> HIDE DEF Hit, hits
<1>14. tt \in Seq(Seq(Hit)) /\ Len(tt) = N
  <2>1. tt = [k \in 1 .. N |-> tt[k]]
    BY <1>5, <1>10
  <2>2. \A k \in 1 .. N : tt[k] \in Seq(Hit)
    BY <1>13
  <2>3. QED  BY <2>1, <2>2
<1>15. FirstOf(FlattenSeq(tt), limit) = FirstOf(FlattenSeq(ss), limit)
  BY <1>2, <1>12, <1>13, <1>14, FirstOfJoins
<1>16. QED  BY <1>1, <1>3, <1>4, <1>6, <1>8, <1>12, <1>15

(* The entries a call may mean. *)
NamedIDs(a, req) ==
    {id \in IDs(a) : IF req.id # -1 THEN (req.id - id) % IDSpace = 0
                     ELSE EntryByID(a, id).path = req.path}

(* What is left of a number after the conversion differs by whole turns. *)
LEMMA ToUint32Facts ==
    ASSUME NEW n \in Int
    PROVE  ToUint32(n) \in Nat /\ (n - ToUint32(n)) % IDSpace = 0
<1>1. PICK B \in Nat \ {0} : B = IDSpace
  BY Constants
<1>2. PICK r \in Int, k \in Int : r = n % B /\ k = n \div B
  OBVIOUS
<1>3. n = B * k + r /\ r \in 0 .. B - 1
  BY <1>2
<1>4. n - r = B * k
  BY <1>3
<1>5. (B * k) % B = 0
  OBVIOUS
<1>6. QED  BY <1>1, <1>2, <1>3, <1>4, <1>5 DEF ToUint32

(* The entry a call names has an ID that the call names. *)
LEMMA NamedIs ==
    ASSUME shelf \in DOMAIN Shelves, LibraryOK, NEW req, req.id \in Int, req.slug \in DOMAIN lib.place,
           NamedEntry(lib, req).ok
    PROVE  \E id \in NamedIDs(Arch(lib, req.slug), req) :
              NamedEntry(lib, req) = EntryByID(Arch(lib, req.slug), id)
<1>1. PICK a : a = Arch(lib, req.slug) /\ WellFormed(a)
  BY LibraryFacts, ShelvesAssumption
<1>2. PICK e : e = NamedEntry(lib, req) /\ e.ok /\ e # NoEntry
  BY DEF NoEntry
<1>3. CASE req.id # -1
  <2>1. PICK id : id = ToUint32(req.id)
    OBVIOUS
  <2>2. e = EntryByID(a, id)
    BY <1>1, <1>2, <1>3, <2>1 DEF NamedEntry
  <2>3. id \in IDs(a)
    BY <1>1, <1>2, <2>2, EntryFacts
  <2>4. id \in NamedIDs(a, req)
    BY <1>3, <2>1, <2>3, ToUint32Facts DEF NamedIDs
  <2>5. QED  BY <1>1, <1>2, <2>2, <2>4
<1>4. CASE req.id = -1
  <2>1. e = EntryByPath(a, req.path)
    BY <1>1, <1>2, <1>4 DEF NamedEntry
  <2>2. PICK id : id \in IDs(a) /\ EntryByID(a, id).path = req.path /\ e = EntryByID(a, id)
    BY <1>2, <2>1 DEF EntryByPath
  <2>3. QED  BY <1>1, <1>2, <1>4, <2>2 DEF NamedIDs
<1>5. QED  BY <1>3, <1>4

(* A call that reads answers with the entry it names, and with all of a blob *)
(* above the limit only if it was asked for a negative length or for a       *)
(* section of what is not HTML, or came through a redirect.                  *)
LEMMA ReadEntryIs ==
    ASSUME shelf \in DOMAIN Shelves, LibraryOK, NEW req, req.id \in Int, req.section \in BOOLEAN,
           req.max \in Int, NEW reply \in read_entry(lib, req), reply.status = "ok"
    PROVE  /\ req.slug \in DOMAIN lib.place
           /\ \E id \in NamedIDs(Arch(lib, req.slug), req) :
                 /\ reply.body = ReadContent(Arch(lib, req.slug), id).body
                 /\ Size(Arch(lib, req.slug), reply.body[2]) > MaxReadContentSize /\ ~reply.cut =>
                       \/ req.max < 0
                       \/ req.section /\ ~IsHTML(Arch(lib, req.slug), reply.body)
                       \/ IsRedirectID(id)
<1>1. Known(lib, req) /\ NamedEntry(lib, req).ok
  BY ErrorFacts DEF read_entry
<1>2. req.slug \in DOMAIN lib.place
  <2>1. DOMAIN lib.archives = DOMAIN lib.place
    BY LibraryFacts, GoodiesFacts
  <2>2. QED  BY <1>1, <2>1 DEF Known
<1>3. PICK a : a = Arch(lib, req.slug) /\ WellFormed(a)
  BY <1>2, LibraryFacts, ShelvesAssumption
<1>4. PICK id \in NamedIDs(a, req) : NamedEntry(lib, req) = EntryByID(a, id)
  BY <1>1, <1>2, <1>3, NamedIs
<1>5. id \in IDs(a)
  BY DEF NamedIDs
<1>6. EntryByID(a, id).id = id /\ NamedEntry(lib, req).id = id
  <2>1. EntryByID(a, id).id = id
    BY <1>3, <1>5, EntryFacts
  <2>2. QED  BY <1>4, <2>1
<1>7. PICK content : content = ReadContent(a, id)
  OBVIOUS
<1>8. /\ content.ok /\ ~(Size(a, id) > MaxReadContentSize /\ req.max = 0 /\ ~req.section)
      /\ reply = Text(a, content.body, req)
  BY <1>1, <1>3, <1>6, <1>7, ErrorFacts DEF read_entry
<1>9. reply.body = content.body /\ reply.cut = (req.max > 0 \/ (req.section /\ IsHTML(a, content.body)))
  BY <1>8 DEF Text
<1>10. ~IsRedirectID(id) => content.body[2] = id
  <2>1. PICK e : e = Resolve(a, id)
    OBVIOUS
  <2>2. ASSUME ~IsRedirectID(id)  PROVE e.id = id
    BY <1>3, <1>5, <1>6, <2>1, <2>2, ResolvePlain
  <2>3. content = [ok |-> TRUE, body |-> <<a.build, e.id>>]
    BY <1>7, <1>8, <2>1 DEF ReadContent, NoEntry
  <2>4. QED  BY <2>2, <2>3
<1>11. Size(a, reply.body[2]) > MaxReadContentSize /\ ~reply.cut =>
           req.max < 0 \/ (req.section /\ ~IsHTML(a, reply.body)) \/ IsRedirectID(id)
  <2> SUFFICES ASSUME Size(a, reply.body[2]) > MaxReadContentSize, ~reply.cut, ~(req.max < 0),
                      ~IsRedirectID(id)
               PROVE  req.section /\ ~IsHTML(a, reply.body)
    OBVIOUS
  <2>1. reply.body[2] = id
    BY <1>9, <1>10, Zenon
  <2>2. ~(req.max > 0) /\ ~(req.section /\ IsHTML(a, content.body))
    BY <1>9, Zenon
  <2>3. req.max = 0
    BY <2>2
  <2>4. req.section
    BY <1>8, <2>1, <2>3, Zenon
  <2>5. QED  BY <1>9, <2>2, <2>4, Zenon
<1>12. QED  BY <1>2, <1>3, <1>4, <1>7, <1>9, <1>11

(* A random pick is a front article of one of the archives asked. *)
LEMMA RandomIs ==
    ASSUME NEW req, NEW reply \in get_random(lib, req), reply.status = "ok"
    PROVE  \/ reply.pick = <<>> /\ RandomPool(lib, req) = {}
           \/ reply.pick[2] \in CollectFrontArticleIDs(Arch(lib, reply.pick[1]))
<1>1. \/ RandomPool(lib, req) = {} /\ reply = [status |-> "ok", pick |-> <<>>]
      \/ \E p \in RandomPool(lib, req) : reply = [status |-> "ok", pick |-> p]
  BY ErrorFacts DEF get_random
<1>2. CASE RandomPool(lib, req) = {} /\ reply = [status |-> "ok", pick |-> <<>>]
  BY <1>2
<1>3. ASSUME NEW p \in RandomPool(lib, req), reply = [status |-> "ok", pick |-> p]
      PROVE  reply.pick[2] \in CollectFrontArticleIDs(Arch(lib, reply.pick[1]))
  <2>1. PICK slug, id : p = <<slug, id>> /\ id \in CollectFrontArticleIDs(Arch(lib, slug))
    BY DEF RandomPool
  <2>2. QED  BY <1>3, <2>1
<1>4. QED  BY <1>1, <1>2, <1>3

(* In every state the server reaches, a search over all archives gives the  *)
(* first hits of all of them together; a tool's answer is about the entry   *)
(* its call names, by the number it is cut to or by its path; all of a blob *)
(* above the limit is the answer only to a negative length, to a section of *)
(* what is not HTML, or through a redirect; and a random pick is a front    *)
(* article.                                                                 *)
THEOREM ToolsRightAlways == Spec => []ToolsRight
<1>1. ASSUME ServerInv  PROVE ToolsRight
  <2>1. PICK req, reply : req = answer.req /\ reply = answer.reply
    OBVIOUS
  <2>2. CASE answer = NoAnswer
    <3>1. req.op = "none"
      BY <2>1, <2>2 DEF NoAnswer, NoRequest
    <3>2. QED  BY <2>1, <3>1 DEF ToolsRight
  <2>3. CASE Answered
    <3>1. shelf \in DOMAIN Shelves /\ LibraryOK /\ Asked(req) /\ reply \in Replies(req)
      BY <1>1, <2>1, <2>3 DEF Answered, ServerInv, LoadInv, Typed
    <3>2. req.op = "searchAll" =>
             [i \in DOMAIN reply.links |-> <<reply.links[i].slug, reply.links[i].of>>]
                = FirstOf(AllHits(lib.slugs, req.q), PageLimit)
      <4> SUFFICES ASSUME req.op = "searchAll"
                   PROVE  PairsOf(reply.links) = FirstOf(AllHits(lib.slugs, req.q), PageLimit)
        BY DEF PairsOf
      <4>1. reply = handleSearchAll(req.q)
        BY <3>1 DEF Replies
      <4>2. QED  BY <3>1, <4>1, SearchAllIs
    <3>3. req.op = "search_text" /\ reply.status = "ok" =>
             reply.hits = FirstOf(AllHits(Targets(lib, req), req.q),
                                  IF req.limit <= 0 THEN DefaultLimit ELSE req.limit)
      <4>1. req.op = "search_text" => reply = search_text(lib, req)
        BY <3>1 DEF Replies, HttpOps, Answers
      <4>2. QED  BY <3>1, <4>1, SearchTextIs
    <3>4. req.op \in {"read_entry", "entry_resource"} /\ reply.status = "ok" =>
             LET a == Arch(lib, req.slug)
                 named == NamedIDs(a, req)
             IN  /\ \E id \in named : reply.body = ReadContent(a, id).body
                 /\ Size(a, reply.body[2]) > MaxReadContentSize /\ ~reply.cut =>
                       \/ req.op = "read_entry" /\ req.max < 0
                       \/ req.op = "read_entry" /\ req.section /\ ~IsHTML(a, reply.body)
                       \/ \E id \in named : IsRedirectID(id)
      <4>1. CASE req.op = "read_entry" /\ reply.status = "ok"
        <5>1. reply \in read_entry(lib, req)
          BY <3>1, <4>1 DEF Replies, HttpOps, Answers
        <5>2. req.id \in Int /\ req.section \in BOOLEAN /\ req.max \in Int
          BY <3>1, AskedFacts
        <5>3. \E id \in NamedIDs(Arch(lib, req.slug), req) :
                 /\ reply.body = ReadContent(Arch(lib, req.slug), id).body
                 /\ Size(Arch(lib, req.slug), reply.body[2]) > MaxReadContentSize /\ ~reply.cut =>
                       \/ req.max < 0
                       \/ req.section /\ ~IsHTML(Arch(lib, req.slug), reply.body)
                       \/ IsRedirectID(id)
          BY <3>1, <4>1, <5>1, <5>2, ReadEntryIs
        <5>4. QED  BY <4>1, <5>3
      <4>2. CASE req.op = "entry_resource" /\ reply.status = "ok"
        <5>1. reply \in EntryResource(lib, req)
          BY <3>1, <4>2 DEF Replies, HttpOps, Answers
        <5>2. PICK call : call = [req EXCEPT !.max = 0, !.section = FALSE]
          OBVIOUS
        <5>3. /\ call.slug = req.slug /\ call.path = req.path /\ call.id = req.id
              /\ call.max = 0 /\ call.section = FALSE /\ req.id \in Int
          BY <3>1, <5>2, AskedFacts
        <5>4. reply \in read_entry(lib, call)
          BY <4>2, <5>1, <5>2, ErrorFacts DEF EntryResource
        <5>5. \E id \in NamedIDs(Arch(lib, call.slug), call) :
                 /\ reply.body = ReadContent(Arch(lib, call.slug), id).body
                 /\ Size(Arch(lib, call.slug), reply.body[2]) > MaxReadContentSize /\ ~reply.cut =>
                       IsRedirectID(id)
          <6>1. /\ call.id \in Int /\ call.section \in BOOLEAN /\ call.max \in Int
                /\ ~(call.max < 0) /\ ~call.section
            <7>1. call.section \in BOOLEAN /\ ~call.section
              BY <5>3, Zenon
            <7>2. call.id \in Int /\ call.max \in Int /\ ~(call.max < 0)
              BY <5>3
            <7>3. QED  BY <7>1, <7>2
          <6>2. \E id \in NamedIDs(Arch(lib, call.slug), call) :
                   /\ reply.body = ReadContent(Arch(lib, call.slug), id).body
                   /\ Size(Arch(lib, call.slug), reply.body[2]) > MaxReadContentSize /\ ~reply.cut =>
                         \/ call.max < 0
                         \/ call.section /\ ~IsHTML(Arch(lib, call.slug), reply.body)
                         \/ IsRedirectID(id)
            BY <3>1, <4>2, <5>4, <6>1, ReadEntryIs
          <6>3. QED  BY <6>1, <6>2, Zenon
        <5>6. NamedIDs(Arch(lib, call.slug), call) = NamedIDs(Arch(lib, req.slug), req)
          BY <5>3 DEF NamedIDs
        <5>7. QED  BY <4>2, <5>3, <5>5, <5>6
      <4>3. QED  BY <4>1, <4>2
    <3>5. req.op = "get_random" /\ reply.status = "ok" =>
             \/ reply.pick = <<>> /\ RandomPool(lib, req) = {}
             \/ reply.pick[2] \in CollectFrontArticleIDs(Arch(lib, reply.pick[1]))
      <4>1. req.op = "get_random" => reply \in get_random(lib, req)
        BY <3>1 DEF Replies, HttpOps, Answers
      <4>2. QED  BY <4>1, RandomIs
    <3>6. QED  BY ZenonT(30), <2>1, <3>2, <3>3, <3>4, <3>5 DEF ToolsRight, NamedIDs
  <2>4. QED  BY <1>1, <2>2, <2>3 DEF ServerInv, AnswerInv
<1>2. QED  BY <1>1, ServerInvAlways, PTL

(****************************************************************************)
(* What becomes of a URL                                                    *)
(****************************************************************************)
(* The names that cleaning leaves, and what it does with the next one. *)
Kept == Name \ {Empty, Dot, DotDot}
CleanStep(so, s) ==
    CASE s \in {Empty, Dot} -> so
      [] s = DotDot -> Front(so)
      [] OTHER -> Append(so, s)

(* The three names differ, and the empty one is a name. *)
LEMMA NameFacts ==
    /\ Empty \in Name /\ Empty # Dot /\ Empty # DotDot /\ Dot # DotDot
    /\ Dot.ext = "." /\ DotDot.ext = "." /\ Empty.ext = "" /\ Empty.stem = <<>>
<1>1. PICK S, E, dot, nil : S = STRING /\ E = {"", "."} \cup S /\ nil = "" /\ dot = "." /\ dot # nil
  <2>1. "." # ""
    OBVIOUS
  <2>2. QED  BY <2>1, Zenon
<1>2. PICK none, one : none = <<>> /\ one = <<dot>>
  OBVIOUS
<1>3. none \in Seq(S) /\ none # one
  <2>1. <<>> \in Seq({dot}) /\ <<dot>> \in Seq({dot}) /\ Len(<<dot>>) = 1
    BY EmptySeq, OfOne
  <2>2. <<>> # <<dot>>
    BY <2>1, EmptySeq
  <2>3. QED  BY <1>2, <2>2, EmptySeq
<1>4. Empty = [stem |-> none, ext |-> nil] /\ Dot = [stem |-> none, ext |-> dot]
      /\ DotDot = [stem |-> one, ext |-> dot]
  BY <1>1, <1>2, Zenon DEF Empty, Dot, DotDot
<1>5. Empty \in Name
  <2>1. nil \in E
    BY <1>1
  <2>2. [stem |-> none, ext |-> nil] \in [stem : Seq(S), ext : E]
    BY <1>3, <2>1
  <2>3. QED  BY <1>1, <1>4, <2>2, Zenon DEF Name
<1>6. Dot.ext = dot /\ DotDot.ext = dot /\ Empty.ext = nil /\ Empty.stem = none
      /\ Dot.stem = none /\ DotDot.stem = one
  BY <1>4
<1>7. Empty # Dot /\ Empty # DotDot /\ Dot # DotDot
  BY <1>1, <1>3, <1>6, Zenon
<1>8. QED  BY <1>1, <1>2, <1>5, <1>6, <1>7, Zenon

(* A step leaves names only. *)
LEMMA CleanStepFacts ==
    ASSUME NEW so \in Seq(Kept), NEW s \in Name
    PROVE  CleanStep(so, s) \in Seq(Kept)
<1> HIDE DEF Name
<1>1. CASE s \in {Empty, Dot}
  BY <1>1, NameFacts DEF CleanStep
<1>2. CASE s \notin {Empty, Dot} /\ s = DotDot
  <2>1. PICK n \in Nat : n = Len(so) /\ \A i \in 1 .. n : so[i] \in Kept
    BY LenProperties, ElementOfSeq
  <2>2. 1 \in Int /\ n - 1 \in Int /\ \A i \in 1 .. n - 1 : so[i] \in Kept
    BY <2>1
  <2>3. SubSeq(so, 1, n - 1) \in Seq(Kept)
    BY <2>2, SubSeqProperties
  <2>4. CleanStep(so, s) = SubSeq(so, 1, n - 1)
    BY <1>2, <2>1 DEF CleanStep, Front
  <2>5. QED  BY <2>3, <2>4
<1>3. CASE s \notin {Empty, Dot} /\ s # DotDot
  <2>1. s \in Kept
    BY <1>3 DEF Kept
  <2>2. CleanStep(so, s) = Append(so, s)
    BY <1>3 DEF CleanStep
  <2>3. QED  BY <2>1, <2>2, AppendProperties
<1>4. QED  BY <1>1, <1>2, <1>3

(* Cleaning goes from name to name. *)
LEMMA CleanedSteps ==
    ASSUME NEW url \in Seq(Name), NEW n \in Nat, n = Len(url)
    PROVE  \E f : /\ f[0] = <<>>
                  /\ \A k \in 1 .. n : f[k] = CleanStep(f[k - 1], url[k])
                  /\ \A k \in 0 .. n : f[k] \in Seq(Kept)
                  /\ Cleaned(url) = IF url[n] = Empty /\ f[n] # <<>> THEN Append(f[n], Empty) ELSE f[n]
<1> DEFINE Body(f) == [k \in 0 .. n |->
                         IF k = 0 THEN <<>>
                         ELSE CASE url[k] \in {Empty, Dot} -> f[k - 1]
                                [] url[k] = DotDot -> Front(f[k - 1])
                                [] OTHER -> Append(f[k - 1], url[k])]
           V == Seq(Kept)
           step == [k \in 1 .. n |-> [so \in V |-> CleanStep(so, url[k])]]
<1>1. \A k \in 1 .. n : url[k] \in Name
  BY ElementOfSeq
<1> HIDE DEF Name
<1>2. step \in [1 .. n -> [V -> V]]
  BY <1>1, CleanStepFacts
<1>3. PICK c \in V : c = <<>>
  <2>1. <<>> \in Seq(Kept)
    BY EmptySeq
  <2>2. QED  BY <2>1
<1> HIDE DEF V
<1>4. PICK f : Steps(f, n, V, c, step)
  <2> HIDE DEF step
  <2>1. QED  BY <1>2, <1>3, StepsExist
<1>5. f \in [0 .. n -> V] /\ f[0] = <<>> /\ \A k \in 1 .. n : f[k] = CleanStep(f[k - 1], url[k])
  <2>1. f \in [0 .. n -> V] /\ f[0] = <<>>
    BY <1>3, <1>4 DEF Steps
  <2>2. ASSUME NEW k \in 1 .. n  PROVE f[k] = CleanStep(f[k - 1], url[k])
    <3>1. k - 1 \in 0 .. n
      OBVIOUS
    <3>2. f[k - 1] \in V
      BY <2>1, <3>1
    <3>3. f[k] = step[k][f[k - 1]]
      BY <1>4 DEF Steps
    <3>4. QED  BY <3>2, <3>3
  <2>3. QED  BY <2>1, <2>2
<1> HIDE DEF step
<1>6. f = Body(f)
  <2>1. ASSUME NEW k \in 0 .. n
        PROVE  f[k] = IF k = 0 THEN <<>>
                      ELSE CASE url[k] \in {Empty, Dot} -> f[k - 1]
                             [] url[k] = DotDot -> Front(f[k - 1])
                             [] OTHER -> Append(f[k - 1], url[k])
    <3>1. CASE k = 0
      BY <1>5, <3>1
    <3>2. CASE k # 0
      <4>1. k \in 1 .. n
        BY <3>2
      <4>2. f[k] = CleanStep(f[k - 1], url[k])
        BY <1>5, <4>1
      <4>3. QED  BY <3>2, <4>2 DEF CleanStep
    <3>3. QED  BY <3>1, <3>2
  <2>2. f = [k \in 0 .. n |-> f[k]]
    BY <1>5
  <2>3. QED  BY <2>1, <2>2
<1> DEFINE Cleaning(h) == [k \in 0 .. Len(url) |->
                            IF k = 0 THEN <<>>
                            ELSE CASE url[k] \in {Empty, Dot} -> h[k - 1]
                                   [] url[k] = DotDot -> Front(h[k - 1])
                                   [] OTHER -> Append(h[k - 1], url[k])]
<1>7. PICK g : g = CHOOSE h : h = Cleaning(h)
  OBVIOUS
<1>8. g = Body(g)
  <2>1. \A h : Cleaning(h) = Body(h)
    OBVIOUS
  <2> HIDE DEF Body, Cleaning
  <2>2. g = Cleaning(g)
    BY <1>6, <1>7, <2>1
  <2>3. QED  BY <2>1, <2>2
<1>9. Cleaned(url) = IF url[n] = Empty /\ g[n] # <<>> THEN Append(g[n], Empty) ELSE g[n]
  <2>1. Cleaned(url) = IF url[Len(url)] = Empty /\ (CHOOSE h : h = Cleaning(h))[Len(url)] # <<>>
                       THEN Append((CHOOSE h : h = Cleaning(h))[Len(url)], Empty)
                       ELSE (CHOOSE h : h = Cleaning(h))[Len(url)]
    BY Zenon DEF Cleaned, Last
  <2> HIDE DEF Cleaning
  <2>2. PICK h : h = CHOOSE x : x = Cleaning(x)
    OBVIOUS
  <2>3. Cleaned(url) = IF url[Len(url)] = Empty /\ h[Len(url)] # <<>>
                       THEN Append(h[Len(url)], Empty) ELSE h[Len(url)]
    BY <2>1, <2>2, ZenonT(30)
  <2>4. h = g
    BY <1>7, <2>2
  <2>5. QED  BY <2>3, <2>4
<1>10. g[0] = <<>> /\ \A k \in 1 .. n : g[k] = CleanStep(g[k - 1], url[k])
  <2>1. g[0] = <<>>
    <3>1. 0 \in 0 .. n
      OBVIOUS
    <3>2. QED  BY <1>8, <3>1
  <2>2. ASSUME NEW k \in 1 .. n  PROVE g[k] = CleanStep(g[k - 1], url[k])
    <3>1. k \in 0 .. n /\ k # 0
      OBVIOUS
    <3>2. g[k] = IF k = 0 THEN <<>>
                 ELSE CASE url[k] \in {Empty, Dot} -> g[k - 1]
                        [] url[k] = DotDot -> Front(g[k - 1])
                        [] OTHER -> Append(g[k - 1], url[k])
      BY <1>8, <3>1
    <3>3. QED  BY <3>1, <3>2 DEF CleanStep
  <2>3. QED  BY <2>1, <2>2
<1> HIDE DEF Body
<1>11. \A k \in 0 .. n : g[k] \in V
  <2> DEFINE S == {k \in 0 .. n : g[k] \in V}
  <2>1. 0 \in S
    BY <1>3, <1>10
  <2>2. ASSUME NEW k \in 0 .. n - 1, k \in S  PROVE k + 1 \in S
    <3>1. k + 1 \in 1 .. n /\ k + 1 \in 0 .. n /\ (k + 1) - 1 = k
      OBVIOUS
    <3>2. g[k] \in V /\ g[k + 1] = CleanStep(g[k], url[k + 1])
      BY <1>10, <2>2, <3>1
    <3>3. g[k + 1] \in V
      BY <1>1, <3>1, <3>2, CleanStepFacts DEF V
    <3>4. QED  BY <3>1, <3>3
  <2> HIDE DEF S
  <2>3. 0 .. n \subseteq S
    BY <2>1, <2>2, IntervalInduction
  <2>4. QED  BY <2>3 DEF S
<1>12. QED  BY <1>9, <1>10, <1>11 DEF V

(* The cleaned URL has a length. *)
LEMMA CleanedLength ==
    ASSUME NEW url \in Seq(Name), url # <<>>
    PROVE  Len(Cleaned(url)) \in Nat
<1> HIDE DEF Name
<1>1. PICK n \in Nat : n = Len(url)
  BY LenProperties
<1>2. PICK f : /\ \A k \in 0 .. n : f[k] \in Seq(Kept)
               /\ Cleaned(url) = IF url[n] = Empty /\ f[n] # <<>> THEN Append(f[n], Empty) ELSE f[n]
  BY <1>1, CleanedSteps
<1>3. PICK s \in Seq(Kept) : s = f[n]
  BY <1>2
<1>4. PICK A : A = Kept \cup {Empty}
  OBVIOUS
<1>5. PICK m \in Nat : m = Len(s) /\ \A i \in 1 .. m : s[i] \in A
  BY <1>4, LenProperties, ElementOfSeq
<1>6. s = [i \in 1 .. m |-> s[i]]
  BY <1>5, LenProperties
<1>7. [i \in 1 .. m |-> s[i]] \in Seq(A) /\ Empty \in A
  BY <1>4, <1>5
<1>8. Len(Append(s, Empty)) = m + 1
  BY <1>5, <1>6, <1>7, AppendProperties
<1>9. QED  BY <1>2, <1>3, <1>5, <1>8

(* What is left is clean, also without the name of the archive. *)
LEMMA CleanedIsClean ==
    ASSUME NEW url \in Seq(Name), url # <<>>, Len(Cleaned(url)) > 1
    PROVE  Tail(Cleaned(url)) \in Path /\ IsClean(Tail(Cleaned(url)))
<1>1. PICK n \in Nat : n = Len(url)
  BY LenProperties
<1>2. PICK f : /\ \A k \in 0 .. n : f[k] \in Seq(Kept)
               /\ Cleaned(url) = IF url[n] = Empty /\ f[n] # <<>> THEN Append(f[n], Empty) ELSE f[n]
  BY <1>1, CleanedSteps
<1>3. PICK s \in Seq(Kept) : s = f[n]
  BY <1>2
<1>4. PICK c : c = Cleaned(url) /\ c \in {s, Append(s, Empty)}
  BY <1>2, <1>3
<1> HIDE DEF Name
<1>5. PICK l \in Nat : /\ c \in Seq(Name) /\ Len(c) = l
                       /\ \A i \in 1 .. l : c[i] \in Kept \/ (i = l /\ c[i] = Empty)
  <2>1. PICK m \in Nat : m = Len(s) /\ \A i \in 1 .. m : s[i] \in Kept
    BY LenProperties, ElementOfSeq
  <2>2. s \in Seq(Name) /\ Empty \in Name
    <3>1. Kept \subseteq Name
      BY DEF Kept
    <3>2. s = [i \in 1 .. m |-> s[i]]
      BY <2>1, LenProperties
    <3>3. \A i \in 1 .. m : s[i] \in Name
      BY <2>1, <3>1
    <3>4. [i \in 1 .. m |-> s[i]] \in Seq(Name)
      BY <3>3
    <3>5. QED  BY <3>2, <3>4, NameFacts
  <2>3. CASE c = s
    BY <2>1, <2>2, <2>3
  <2>4. CASE c = Append(s, Empty)
    <3>1. /\ Append(s, Empty) \in Seq(Name) /\ Len(Append(s, Empty)) = m + 1
          /\ \A i \in 1 .. m : Append(s, Empty)[i] = s[i]
          /\ Append(s, Empty)[m + 1] = Empty
      BY <2>1, <2>2, AppendProperties
    <3>2. \A i \in 1 .. m + 1 : i \in 1 .. m \/ i = m + 1
      OBVIOUS
    <3>3. QED  BY <2>1, <2>4, <3>1, <3>2
  <2>5. QED  BY <1>4, <2>3, <2>4
<1>6. PICK t : t = Tail(c)
  OBVIOUS
<1>7. t \in Seq(Name) /\ Len(t) = l - 1 /\ \A i \in 1 .. l - 1 : t[i] = c[i + 1]
  <2>1. l > 1 /\ c # <<>>
    BY <1>4, <1>5
  <2>2. QED  BY <1>5, <1>6, <2>1, HeadTailProperties
<1>8. DOMAIN t = 1 .. l - 1 /\ l - 1 > 0
  BY <1>4, <1>5, <1>7, LenProperties
<1>9. t \in Path
  BY <1>7, <1>8 DEF Path
<1>10. ASSUME NEW i \in DOMAIN t
       PROVE  t[i] \notin {Dot, DotDot} /\ (t[i] = Empty => i = Len(t))
  <2>1. i + 1 \in 1 .. l /\ t[i] = c[i + 1]
    BY <1>5, <1>7, <1>8
  <2>2. t[i] \in Kept \/ (i + 1 = l /\ t[i] = Empty)
    BY <1>5, <2>1
  <2>3. t[i] \in Kept => t[i] \notin {Dot, DotDot, Empty}
    BY DEF Kept
  <2>4. i \in Nat /\ Len(t) = l - 1 /\ (i + 1 = l => i = l - 1)
    BY <1>7, <1>8
  <2>5. QED  BY <2>2, <2>3, <2>4, NameFacts
<1>11. QED  BY <1>4, <1>6, <1>9, <1>10 DEF IsClean

(* A URL is a sequence of names, the first of which is the archive's. *)
LEMMA UrlFacts ==
    ASSUME NEW slug \in Seq(STRING), NEW path \in Path
    PROVE  /\ Url(slug, path) \in Seq(Name) /\ Len(path) \in Nat \ {0}
           /\ Len(Url(slug, path)) = Len(path) + 1 /\ Url(slug, path)[1] = [stem |-> slug, ext |-> ""]
           /\ \A i \in 1 .. Len(path) : Url(slug, path)[i + 1] = path[i]
           /\ Tail(Url(slug, path)) = path
<1>1. PICK x \in Name : x = [stem |-> slug, ext |-> ""]
  <2>1. PICK S, E, nil : S = STRING /\ E = {"", "."} \cup S /\ nil = "" /\ nil \in E
    <3>1. "" \in {"", "."} \cup STRING
      OBVIOUS
    <3>2. QED  BY <3>1, Zenon
  <2>2. slug \in Seq(S)
    BY <2>1
  <2>3. [stem |-> slug, ext |-> nil] \in [stem : Seq(S), ext : E]
    BY <2>1, <2>2
  <2>4. QED  BY <2>1, <2>3, Zenon DEF Name
<1> HIDE DEF Name
<1>2. path \in Seq(Name) /\ path # <<>>
  BY DEF Path
<1>3. PICK n \in Nat \ {0} : n = Len(path)
  BY <1>2, EmptySeq
<1>4. PICK one : one = <<x>>
  OBVIOUS
<1>5. one \in Seq(Name) /\ Len(one) = 1 /\ one[1] = x
  BY <1>4, OfOne
<1>6. PICK url : url = Url(slug, path) /\ url = one \o path
  BY <1>1, <1>4 DEF Url
<1>7. /\ url \in Seq(Name) /\ Len(url) = 1 + n
      /\ \A i \in 1 .. 1 + n : url[i] = IF i <= 1 THEN one[i] ELSE path[i - 1]
  <2>1. /\ one \o path \in Seq(Name) /\ Len(one \o path) = Len(one) + Len(path)
        /\ \A i \in 1 .. Len(one) + Len(path) :
              (one \o path)[i] = IF i <= Len(one) THEN one[i] ELSE path[i - Len(one)]
    BY <1>2, <1>5, ConcatProperties
  <2>2. QED  BY <1>3, <1>5, <1>6, <2>1
<1>8. url[1] = x
  <2>1. 1 \in 1 .. 1 + n /\ 1 <= 1
    OBVIOUS
  <2>2. QED  BY <1>5, <1>7, <2>1
<1>9. ASSUME NEW i \in 1 .. n  PROVE url[i + 1] = path[i]
  <2>1. i + 1 \in 1 .. 1 + n /\ ~(i + 1 <= 1) /\ (i + 1) - 1 = i
    OBVIOUS
  <2>2. QED  BY <1>7, <2>1
<1>10. Tail(url) = path
  <2>1. url # <<>>
    BY <1>7
  <2>2. PICK t : t = Tail(url)
    OBVIOUS
  <2>3. t \in Seq(Name) /\ Len(t) = n /\ \A i \in 1 .. n : t[i] = url[i + 1]
    BY <1>7, <2>1, <2>2, HeadTailProperties
  <2>4. \A i \in 1 .. n : t[i] = path[i]
    BY <1>9, <2>3
  <2>5. t = path
    BY <1>2, <1>3, <2>3, <2>4, SeqEqual
  <2>6. QED  BY <2>2, <2>5
<1>11. /\ Url(slug, path) \in Seq(Name) /\ Len(path) = n /\ Len(Url(slug, path)) = n + 1
       /\ Url(slug, path)[1] = x /\ Tail(Url(slug, path)) = path
  BY <1>3, <1>6, <1>7, <1>8, <1>10
<1>12. \A i \in 1 .. Len(path) : Url(slug, path)[i + 1] = path[i]
  BY <1>3, <1>6, <1>9
<1>13. n \in Nat \ {0} /\ Url(slug, path)[1] = [stem |-> slug, ext |-> ""] /\ Len(Url(slug, path)) = Len(path) + 1
  BY <1>1, <1>11
<1>14. QED  BY <1>11, <1>12, <1>13

(* A clean path stays as it is. *)
LEMMA CleanStays ==
    ASSUME NEW slug \in Seq(STRING) \ {<<>>}, NEW path \in Path, IsClean(path)
    PROVE  Cleaned(Url(slug, path)) = Url(slug, path)
<1>0. PICK url : url = Url(slug, path)
  OBVIOUS
<1>1. PICK m \in Nat \ {0} : m = Len(path) /\ url = Url(slug, path)
  BY <1>0, UrlFacts
<1>2. PICK n \in Nat : n = m + 1 /\ n - 1 = m /\ n >= 2
  OBVIOUS
<1>3. /\ url \in Seq(Name) /\ Len(url) = n /\ url[1] = [stem |-> slug, ext |-> ""]
      /\ \A i \in 1 .. m : url[i + 1] = path[i]
  BY <1>1, <1>2, UrlFacts
<1> HIDE DEF Name
<1>4. PICK x : x = url[1] /\ x.ext = "" /\ x.stem # <<>>
  <2>1. PICK x : x = [stem |-> slug, ext |-> ""]
    OBVIOUS
  <2>2. x.ext = "" /\ x.stem = slug /\ slug # <<>>
    BY <2>1
  <2>3. QED  BY <1>3, <2>1, <2>2, Zenon
<1>5. \A k \in 1 .. n : /\ url[k] \in Name /\ url[k] \notin {Dot, DotDot}
                        /\ url[k] = Empty => k = n
  <2>1. DOMAIN path = 1 .. m
    <3>1. path \in Seq(Name)
      BY DEF Path
    <3>2. QED  BY <1>1, <3>1, LenProperties
  <2>2. x # Empty /\ x # Dot /\ x # DotDot
    BY <1>4, NameFacts
  <2>3. ASSUME NEW k \in 2 .. n
        PROVE  url[k] \notin {Dot, DotDot} /\ (url[k] = Empty => k = n)
    <3>1. PICK i \in 1 .. m : i = k - 1 /\ i + 1 = k
      BY <1>2
    <3>2. path[i] \notin {Dot, DotDot} /\ (path[i] = Empty => i = m)
      BY <1>1, <2>1 DEF IsClean
    <3>3. url[k] = path[i]
      BY <1>3, <3>1
    <3>4. QED  BY <1>2, <3>1, <3>2, <3>3
  <2>4. \A k \in 1 .. n : k = 1 \/ k \in 2 .. n
    OBVIOUS
  <2>5. \A k \in 1 .. n : url[k] \in Name
    BY <1>3, ElementOfSeq
  <2>6. QED  BY <1>4, <2>2, <2>3, <2>4, <2>5
<1>6. PICK f : /\ f[0] = <<>>
               /\ \A k \in 1 .. n : f[k] = CleanStep(f[k - 1], url[k])
               /\ \A k \in 0 .. n : f[k] \in Seq(Kept)
               /\ Cleaned(url) = IF url[n] = Empty /\ f[n] # <<>> THEN Append(f[n], Empty) ELSE f[n]
  BY <1>3, CleanedSteps
<1> DEFINE Same(s, k) == /\ s \in Seq(Name) /\ Len(s) = k /\ \A i \in 1 .. k : s[i] = url[i]
           S == {k \in 0 .. n : (k = n /\ url[n] = Empty) \/ Same(f[k], k)}
<1>7. 0 \in S
  BY <1>6
<1>8. ASSUME NEW s, NEW k \in 0 .. n - 1, Same(s, k), NEW e \in Name, e = url[k + 1]
      PROVE  Same(Append(s, e), k + 1)
  <2>1. /\ Append(s, e) \in Seq(Name) /\ Len(Append(s, e)) = k + 1
        /\ \A i \in 1 .. k : Append(s, e)[i] = s[i]
        /\ Append(s, e)[k + 1] = e
    BY <1>8, AppendProperties
  <2>2. \A i \in 1 .. k + 1 : i \in 1 .. k \/ i = k + 1
    OBVIOUS
  <2>3. QED  BY <1>8, <2>1, <2>2
<1>9. ASSUME NEW k \in 0 .. n - 1, k \in S  PROVE k + 1 \in S
  <2>1. k + 1 \in 1 .. n /\ (k + 1) - 1 = k /\ k # n /\ k + 1 \in 0 .. n
    OBVIOUS
  <2>2. PICK s : s = f[k] /\ Same(s, k)
    BY <1>9, <2>1
  <2>3. PICK e \in Name : e = url[k + 1] /\ e \notin {Dot, DotDot} /\ (e = Empty => k + 1 = n)
    BY <1>5, <2>1
  <2>4. f[k + 1] = CleanStep(s, e)
    BY <1>6, <2>1, <2>2, <2>3
  <2>5. CASE e = Empty
    BY <2>1, <2>3, <2>5
  <2>6. CASE e # Empty
    <3>1. f[k + 1] = Append(s, e)
      BY <2>3, <2>4, <2>6 DEF CleanStep
    <3> HIDE DEF Same
    <3>2. Same(f[k + 1], k + 1)
      BY <1>8, <2>2, <2>3, <3>1
    <3>3. QED  BY <2>1, <3>2
  <2>7. QED  BY <2>5, <2>6
<1>10. \A k \in 0 .. n : (k = n /\ url[n] = Empty) \/ Same(f[k], k)
  <2> HIDE DEF S
  <2>1. 0 .. n \subseteq S
    BY <1>7, <1>9, IntervalInduction
  <2>2. QED  BY <2>1 DEF S
<1>11. Same(Cleaned(url), n)
  <2>1. CASE url[n] # Empty
    <3>1. n \in 0 .. n
      OBVIOUS
    <3>2. Same(f[n], n)
      BY <1>10, <2>1, <3>1
    <3>3. Cleaned(url) = f[n]
      BY <1>6, <2>1
    <3>4. QED  BY <3>2, <3>3
  <2>2. CASE url[n] = Empty
    <3>1. m \in 0 .. n /\ m # n /\ n \in 1 .. n /\ m \in 0 .. n - 1 /\ m > 0
      BY <1>2
    <3>2. PICK s : s = f[m] /\ Same(s, m)
      BY <1>10, <3>1
    <3>3. f[n] = s
      <4>1. f[n] = CleanStep(s, url[n])
        BY <1>2, <1>6, <3>1, <3>2
      <4>2. CleanStep(s, Empty) = s
        BY NameFacts DEF CleanStep
      <4>3. QED  BY <2>2, <4>1, <4>2
    <3>4. s # <<>>
      BY <3>1, <3>2
    <3>5. Cleaned(url) = Append(s, Empty)
      BY <1>6, <2>2, <3>3, <3>4
    <3>6. PICK e \in Name : e = Empty /\ e = url[m + 1]
      BY <1>2, <2>2, NameFacts
    <3> HIDE DEF Same
    <3>7. Same(Append(s, e), m + 1)
      BY <1>8, <3>1, <3>2, <3>6
    <3>8. QED  BY <1>2, <3>5, <3>6, <3>7
  <2>3. QED  BY <2>1, <2>2
<1>12. Cleaned(url) = url
  BY <1>3, <1>11, SeqEqual
<1>13. QED  BY <1>1, <1>12

(****************************************************************************)
(* Where the links lead                                                     *)
(****************************************************************************)
LEMMA BrowseIn ==
    ASSUME NEW a, WellFormed(a), NEW o \in Int, NEW n \in Int
    PROVE  BrowseTitles(a, o, n) \in Seq(IDs(a))
<1>0. PICK index : index = TitleIndex(a) /\ index \in Seq(IDs(a))
  BY IndexFacts
<1>1. PICK l \in Nat : l = Len(index)
  BY <1>0, LenProperties
<1>2. CASE o < 0 \/ n <= 0
  BY <1>2 DEF BrowseTitles
<1>3. CASE ~(o < 0 \/ n <= 0)
  <2>1. PICK m \in Nat : m = Min({o + n, l}) /\ m <= l
    <3>1. o + n \in Nat
      BY <1>3
    <3>2. Min({o + n, l}) = IF o + n <= l THEN o + n ELSE l
      BY <3>1, MinOfTwo
    <3>3. QED  BY <3>1, <3>2
  <2>2. BrowseTitles(a, o, n) = SubSeq(index, o + 1, m)
    BY <1>0, <1>1, <1>3, <2>1 DEF BrowseTitles
  <2>3. \A i \in o + 1 .. m : index[i] \in IDs(a)
    BY <1>0, <1>1, <1>3, <2>1
  <2>4. o + 1 \in Int /\ m \in Int
    OBVIOUS
  <2>5. SubSeq(index, o + 1, m) \in Seq(IDs(a))
    BY <2>3, <2>4, SubSeqProperties
  <2>6. QED  BY <2>2, <2>5
<1>4. QED  BY <1>2, <1>3

(* Links to entries of the archive. *)
LEMMA LinksIn ==
    ASSUME shelf \in DOMAIN Shelves, LibraryOK, NEW slug \in DOMAIN lib.place,
           NEW ids \in Seq(IDs(Arch(lib, slug)))
    PROVE  Links(slug, ids) \in Seq(ALink)
<1>1. PICK n \in Nat : n = Len(ids) /\ DOMAIN ids = 1 .. n
  BY LenProperties
<1>2. \A i \in 1 .. n : Link(slug, ids[i]) \in ALink
  BY <1>1, LinkIs, ElementOfSeq
<1>3. Links(slug, ids) = [i \in 1 .. n |-> Link(slug, ids[i])]
  BY <1>1 DEF Links
<1> HIDE DEF ALink
<1>4. QED  BY <1>2, <1>3

(* A browse page has links only. *)
LEMMA BrowseLinks ==
    ASSUME shelf \in DOMAIN Shelves, LibraryOK, NEW slug \in DOMAIN lib.place, NEW letter,
           NEW o \in Int, NEW limit \in Nat \ {0}
    PROVE  /\ handleBrowse(slug, letter, o, limit).status = "200"
           /\ handleBrowse(slug, letter, o, limit).links \in Seq(ALink)
<1>1. PICK a : a = Arch(lib, slug) /\ WellFormed(a)
  BY LibraryFacts, ShelvesAssumption
<1>2. PICK lr : lr = IF letter \in DOMAIN lib.archives[slug].letters
                     THEN lib.archives[slug].letters[letter] ELSE [offset |-> 0, count |-> 0]
  OBVIOUS
<1>3. PICK f \in Nat, c \in Nat : lr = [offset |-> f, count |-> c]
  <2>1. PICK of : of = Spots(a, letter)
    OBVIOUS
  <2>2. lr = [offset |-> FirstSpot(of), count |-> Cardinality(of)]
    BY ZenonT(30), <1>1, <1>2, <2>1, LetterIs
  <2>3. PICK n \in Nat : n = Len(TitleIndex(a))
    BY <1>1, IndexFacts
  <2>4. FirstSpot(of) \in Nat /\ Cardinality(of) \in Nat
    BY <1>1, <2>1, <2>3, SpotsFacts
  <2>5. QED  BY <2>2, <2>4
<1>4. PICK n : n = Min({limit, c - o})
  OBVIOUS
<1>5. PICK ids : ids = BrowseTitles(a, f + o, n)
  OBVIOUS
<1>6. PICK next : handleBrowse(slug, letter, o, limit)
           = IF o < c THEN [status |-> "200", links |-> Links(slug, ids), count |-> c, next |-> next]
             ELSE [status |-> "200", links |-> <<>>, count |-> c, next |-> -1]
  <2>1. handleBrowse(slug, letter, o, limit)
             = IF o < lr.count
               THEN [status |-> "200",
                     links |-> Links(slug, BrowseTitles(a, lr.offset + o, Min({limit, lr.count - o}))),
                     count |-> lr.count, next |-> IF o + limit < lr.count THEN o + limit ELSE -1]
               ELSE [status |-> "200", links |-> <<>>, count |-> lr.count, next |-> -1]
    BY <1>1, <1>2, Zenon DEF handleBrowse
  <2>2. lr.offset = f /\ lr.count = c
    BY <1>3
  <2>3. QED  BY <1>4, <1>5, <2>1, <2>2
<1>7. CASE o < c
  <2>1. n \in Int
    <3>1. limit \in Nat /\ c - o \in Nat
      BY <1>7
    <3>2. QED  BY <1>4, <3>1, MinOfTwo
  <2>2. ids \in Seq(IDs(a))
    BY <1>1, <1>5, <2>1, BrowseIn
  <2>3. Links(slug, ids) \in Seq(ALink)
    BY <1>1, <2>2, LinksIn
  <2>4. QED  BY <1>6, <1>7, <2>3
<1>8. CASE ~(o < c)
  <2>1. <<>> \in Seq(ALink)
    OBVIOUS
  <2>2. QED  BY <1>6, <1>8, <2>1
<1>9. QED  BY <1>7, <1>8

(* The searches of one archive. *)
LEMMA SearchLinks ==
    ASSUME shelf \in DOMAIN Shelves, LibraryOK, NEW slug \in DOMAIN lib.place, NEW q, NEW limit \in Int
    PROVE  /\ handleSearchJSON(slug, q).status = "200" /\ handleSearchJSON(slug, q).links \in Seq(ALink)
           /\ handleSearchPage(slug, q, limit).status = "200"
           /\ handleSearchPage(slug, q, limit).links \in Seq(ALink)
<1>1. <<>> \in Seq(ALink)
  OBVIOUS
<1>2. PICK n \in Nat \ {0} : n = IF limit \in 1 .. 100 THEN limit ELSE PageLimit
  BY Constants
<1>3. PICK x, y : /\ x = Links(slug, Search(Arch(lib, slug), q, PageLimit)) /\ x \in Seq(ALink)
                  /\ y = Links(slug, Search(Arch(lib, slug), q, n)) /\ y \in Seq(ALink)
  BY LinksOfSearch, Constants
<1> HIDE DEF ALink
<1>4. \/ handleSearchJSON(slug, q) = [status |-> "200", links |-> <<>>]
      \/ handleSearchJSON(slug, q) = [status |-> "200", links |-> x]
  BY <1>3 DEF handleSearchJSON
<1>5. \/ handleSearchPage(slug, q, limit) = [status |-> "200", links |-> <<>>]
      \/ handleSearchPage(slug, q, limit) = [status |-> "200", links |-> y]
  BY <1>2, <1>3 DEF handleSearchPage
<1>6. handleSearchJSON(slug, q).status = "200" /\ handleSearchJSON(slug, q).links \in {<<>>, x}
  BY <1>4
<1>7. handleSearchPage(slug, q, limit).status = "200" /\ handleSearchPage(slug, q, limit).links \in {<<>>, y}
  BY <1>5
<1>8. QED  BY <1>1, <1>3, <1>6, <1>7

(* The path with another extension. *)
WithExt(path, ext) == [path EXCEPT ![Len(path)].ext = ext]

(* The path asked for is tried first, then with other extensions. *)
LEMMA TriedFacts ==
    ASSUME NEW path,
           NEW p, p = WithExt(path, ".md"), NEW r, r = WithExt(path, ".html"),
           NEW tried, tried = <<path>> \o Fallbacks(path)
    PROVE  /\ DOMAIN tried \subseteq Nat \ {0} /\ 1 \in DOMAIN tried /\ tried[1] = path
           /\ \A i \in DOMAIN tried : tried[i] \in {path, p, r}
<1>1. PICK A : A = {path, p, r}
  OBVIOUS
<1>2. PICK more : more = Fallbacks(path) /\ more \in Seq(A)
  <2>1. Fallbacks(path) \in {<<>>, <<p>>, <<r>>, <<p, r>>}
    BY DEF Fallbacks, WithExt
  <2>2. <<>> \in Seq(A) /\ <<p>> \in Seq(A) /\ <<r>> \in Seq(A) /\ <<p, r>> \in Seq(A)
    BY <1>1
  <2>3. QED  BY <2>1, <2>2
<1>3. PICK one : one = <<path>>
  OBVIOUS
<1>4. one \in Seq(A) /\ Len(one) = 1 /\ one[1] = path
  <2>1. path \in A
    BY <1>1
  <2>2. QED  BY <1>3, <2>1, OfOne
<1>5. tried = one \o more
  BY <1>2, <1>3
<1>6. PICK l \in Nat : l = Len(more)
  BY <1>2, LenProperties
<1>7. tried \in Seq(A) /\ Len(tried) = 1 + l
      /\ \A i \in 1 .. 1 + l : tried[i] = IF i <= 1 THEN one[i] ELSE more[i - 1]
  BY <1>2, <1>4, <1>5, <1>6, ConcatProperties
<1>8. DOMAIN tried = 1 .. 1 + l /\ 1 \in 1 .. 1 + l
  BY <1>7, LenProperties
<1>9. \A i \in DOMAIN tried : tried[i] \in A
  BY <1>7, <1>8, ElementOfSeq
<1>10. tried[1] = path /\ DOMAIN tried \subseteq Nat \ {0}
  BY <1>4, <1>7, <1>8
<1>11. QED  BY <1>1, <1>8, <1>9, <1>10

(* There is one entry at a path. *)
LEMMA FindIs ==
    ASSUME NEW a \in AllArchives, NEW id \in IDs(a), NEW path, path = EntryByID(a, id).path
    PROVE  FindEntry(a, path) = EntryByID(a, id)
<1>1. WellFormed(a) /\ \A x, y \in IDs(a) : EntryByID(a, x).path = EntryByID(a, y).path => x = y
  BY ShelvesAssumption
<1>2. EntryByPath(a, path) = EntryByID(a, id)
  <2>1. PICK x : x = CHOOSE y \in IDs(a) : EntryByID(a, y).path = path
    OBVIOUS
  <2>2. x \in IDs(a) /\ EntryByID(a, x).path = path
    BY <2>1
  <2>3. x = id
    BY <1>1, <2>2
  <2>4. EntryByPath(a, path) = EntryByID(a, x)
    BY <2>1 DEF EntryByPath
  <2>5. QED  BY <2>3, <2>4
<1>3. EntryByPath(a, path).ok
  BY <1>1, <1>2, EntryFacts
<1>4. PICK tried : /\ tried = <<path>> \o Fallbacks(path)
                   /\ DOMAIN tried \subseteq Nat \ {0} /\ 1 \in DOMAIN tried /\ tried[1] = path
  <2>1. PICK t, p, r : /\ p = WithExt(path, ".md") /\ r = WithExt(path, ".html")
                       /\ t = <<path>> \o Fallbacks(path)
    OBVIOUS
  <2>2. DOMAIN t \subseteq Nat \ {0} /\ 1 \in DOMAIN t /\ t[1] = path
    BY <2>1, TriedFacts
  <2>3. QED  BY <2>1, <2>2
<1>5. PICK found : found = {i \in DOMAIN tried : EntryByPath(a, tried[i]).ok}
  OBVIOUS
<1>6. 1 \in found /\ found \in SUBSET Nat /\ found # {}
  BY <1>3, <1>4, <1>5
<1>7. Min(found) = 1
  <2>1. Min(found) \in found /\ Min(found) <= 1
    BY <1>6, MinIsLeast
  <2>2. Min(found) \in Nat \ {0}
    BY <1>4, <1>5, <2>1
  <2>3. QED  BY <2>1, <2>2
<1>8. FindEntry(a, path) = EntryByPath(a, tried[Min(found)])
  <2>1. FindEntry(a, path) = IF found = {} THEN NoEntry ELSE EntryByPath(a, tried[Min(found)])
    BY <1>4, <1>5, Zenon DEF FindEntry
  <2>2. QED  BY <1>6, <2>1
<1>9. QED  BY <1>2, <1>4, <1>7, <1>8

(* What an answer without links looks like, and one with. *)
LinksOK(reply) == "links" \in DOMAIN reply => reply.links \in Seq(ALink)

(* An answer without links has none. *)
LEMMA StatusFacts ==
    ASSUME NEW n
    PROVE  Status(n).status = n /\ LinksOK(Status(n))
<1>1. PICK r : r = [status |-> n]
  OBVIOUS
<1>2. r.status = n /\ DOMAIN r = {"status"} /\ "links" # "status"
  BY <1>1
<1>3. Status(n) = r
  BY <1>1 DEF Status
<1>4. QED  BY <1>2, <1>3 DEF LinksOK

(* A redirect has a link or is an error. *)
LEMMA RedirectFacts ==
    ASSUME shelf \in DOMAIN Shelves, LibraryOK, NEW slug \in DOMAIN lib.place, NEW id \in Nat
    PROVE  /\ LinksOK(RedirectTo(slug, id)) /\ RedirectTo(slug, id).status \in {"302", "500"}
           /\ RedirectTo(slug, id).status = "302" => RedirectTo(slug, id).links[1] \in ALink
<1>1. PICK a : a = Arch(lib, slug) /\ WellFormed(a)
  BY LibraryFacts, ShelvesAssumption
<1>2. PICK e : e = Resolve(a, id)
  OBVIOUS
<1>3. RedirectTo(slug, id) = IF e.ok THEN [status |-> "302", links |-> <<Link(slug, e.id)>>] ELSE Status("500")
  BY <1>1, <1>2 DEF RedirectTo
<1>4. CASE e.ok
  <2>1. PICK x \in IDs(a) : e = EntryByID(a, x)
    BY <1>1, <1>2, <1>4, ResolveEnds DEF NoEntry
  <2>2. e.id = x
    <3>1. EntryByID(a, x).id = x
      BY <1>1, EntryFacts
    <3>2. QED  BY <2>1, <3>1
  <2>3. Link(slug, x) \in ALink
    BY <1>1, LinkIs
  <2>4. PICK l : l = <<Link(slug, x)>> /\ l \in Seq(ALink) /\ l[1] \in ALink
    BY <2>3, OfOne
  <2>5. RedirectTo(slug, id) = [status |-> "302", links |-> l]
    BY <1>3, <1>4, <2>2, <2>4
  <2>6. QED  BY <2>4, <2>5 DEF LinksOK
<1>5. CASE ~e.ok
  BY <1>3, <1>5, StatusFacts
<1>6. QED  BY <1>4, <1>5

(* What a page is at a path of an archive.                                   *)
IsPage(a, path, body) ==
    /\ path # NoPath /\ FindEntry(a, path).ok /\ ~IsRedirectID(FindEntry(a, path).id)
    /\ ReadContent(a, FindEntry(a, path).id).ok
    /\ body = ReadContent(a, FindEntry(a, path).id).body

(* handleContent confirms what it was asked about, and sends what it names. *)
LEMMA ContentFacts ==
    ASSUME shelf \in DOMAIN Shelves, LibraryOK, NEW slug \in DOMAIN lib.place, NEW path, NEW match,
           NEW a, a = Arch(lib, slug), NEW reply, reply = handleContent(slug, path, match)
    PROVE  /\ LinksOK(reply)
           /\ reply.status = "302" => reply.links[1] \in ALink
           /\ reply.status = "304" => match = <<a.uuid, path>>
           /\ reply.status = "200" =>
                 reply.etag = <<a.uuid, path>> /\ IsPage(a, path, reply.body)
<1>1. WellFormed(a)
  BY LibraryFacts, ShelvesAssumption
<1>2. PICK e, main, etag : e = FindEntry(a, path) /\ main = MainEntry(a) /\ etag = <<a.uuid, path>>
  OBVIOUS
<1>3. PICK content : content = ReadContent(a, e.id)
  OBVIOUS
<1>4. reply = IF path = NoPath
              THEN IF main.ok THEN RedirectTo(slug, main.id) ELSE Status("404")
              ELSE IF ~e.ok THEN Status("404")
              ELSE IF IsRedirectID(e.id) THEN RedirectTo(slug, e.id)
              ELSE IF match = etag THEN Status("304")
              ELSE IF ~content.ok THEN Status("500")
              ELSE [status |-> "200", body |-> content.body, etag |-> etag]
  BY <1>2, <1>3, ZenonT(30) DEF handleContent, makeETag
<1>5. ASSUME NEW p, EntryByPath(a, p).ok  PROVE EntryByPath(a, p).id \in Nat
  <2>1. PICK id \in IDs(a) : EntryByPath(a, p) = EntryByID(a, id)
    BY <1>5 DEF EntryByPath, NoEntry
  <2>2. EntryByID(a, id).id = id /\ id \in Nat
    BY <1>1, EntryFacts
  <2>3. QED  BY <2>1, <2>2
<1>6. main.ok => main.id \in Nat
  BY <1>2, <1>5 DEF MainEntry, NoEntry
<1>7. e.ok => e.id \in Nat
  <2>1. e = NoEntry \/ \E p : e = EntryByPath(a, p)
    BY <1>2, Zenon DEF FindEntry
  <2>2. QED  BY <1>5, <2>1 DEF NoEntry
<1>8. CASE \E id \in Nat : reply = RedirectTo(slug, id)
  BY <1>8, RedirectFacts
<1>9. CASE reply \in {Status("404"), Status("500")}
  BY <1>9, StatusFacts
<1>10. CASE match = etag /\ reply = Status("304")
  BY <1>2, <1>10, StatusFacts
<1>11. CASE /\ path # NoPath /\ e.ok /\ ~IsRedirectID(e.id) /\ content.ok
            /\ reply = [status |-> "200", body |-> content.body, etag |-> etag]
  BY <1>2, <1>3, <1>11 DEF LinksOK, IsPage
<1>12. QED  BY <1>4, <1>6, <1>7, <1>8, <1>9, <1>10, <1>11

(* A page is sent to who has none. *)
LEMMA PageSent ==
    ASSUME NEW slug, NEW path, NEW a, a = Arch(lib, slug), NEW body, IsPage(a, path, body)
    PROVE  /\ handleContent(slug, path, <<>>).status = "200"
           /\ handleContent(slug, path, <<>>).body = body
<1>1. PICK e, etag, content : e = FindEntry(a, path) /\ etag = <<a.uuid, path>> /\ content = ReadContent(a, e.id)
  OBVIOUS
<1>2. path # NoPath /\ e.ok /\ ~IsRedirectID(e.id) /\ content.ok /\ body = content.body /\ <<>> # etag
  BY <1>1 DEF IsPage
<1>3. PICK reply : reply = handleContent(slug, path, <<>>)
  OBVIOUS
<1>4. reply = IF path = NoPath
              THEN IF MainEntry(a).ok THEN RedirectTo(slug, MainEntry(a).id) ELSE Status("404")
              ELSE IF ~e.ok THEN Status("404")
              ELSE IF IsRedirectID(e.id) THEN RedirectTo(slug, e.id)
              ELSE IF <<>> = etag THEN Status("304")
              ELSE IF ~content.ok THEN Status("500")
              ELSE [status |-> "200", body |-> content.body, etag |-> etag]
  BY <1>1, <1>3, ZenonT(30) DEF handleContent, makeETag
<1>5. reply = [status |-> "200", body |-> content.body, etag |-> etag]
  BY <1>2, <1>4, ZenonT(30)
<1>6. QED  BY <1>2, <1>3, <1>5

(* A random page is a redirect to an entry, or there is none. *)
LEMMA RandomFacts ==
    ASSUME shelf \in DOMAIN Shelves, LibraryOK, NEW slug \in DOMAIN lib.place, NEW reply \in handleRandom(slug)
    PROVE  /\ LinksOK(reply) /\ reply.status \in {"302", "404"}
           /\ reply.status = "302" =>
                 reply.links[1].of \in CollectFrontArticleIDs(Arch(lib, reply.links[1].slug))
<1>1. PICK a : a = Arch(lib, slug) /\ WellFormed(a) /\ lib.archives[slug].front = CollectFrontArticleIDs(a)
  BY LibraryFacts, ShelvesAssumption
<1>2. CASE reply = Status("404")
  BY <1>2, StatusFacts
<1>3. CASE reply # Status("404")
  <2>1. PICK id \in CollectFrontArticleIDs(a) : reply = [status |-> "302", links |-> <<Link(slug, id)>>]
    BY <1>1, <1>3 DEF handleRandom
  <2>2. id \in IDs(a)
    BY DEF CollectFrontArticleIDs, IDs
  <2>3. PICK l : l = <<Link(slug, id)>> /\ l \in Seq(ALink) /\ l[1] = Link(slug, id)
    BY <1>1, <2>2, LinkIs, OfOne
  <2>4. reply = [status |-> "302", links |-> l]
    BY <2>1, <2>3
  <2>5. l[1].of = id /\ l[1].slug = slug
    BY <2>3 DEF Link
  <2>6. QED  BY <1>1, <2>3, <2>4, <2>5 DEF LinksOK
<1>4. QED  BY <1>2, <1>3

(* What an HTTP answer can be. *)
LEMMA ReplyFacts ==
    ASSUME shelf \in DOMAIN Shelves, LibraryOK, NEW req, Asked(req), req.op \in HttpOps,
           NEW reply \in Replies(req)
    PROVE  /\ LinksOK(reply)
           /\ req.op \in {"random", "randomAll"} /\ reply.status = "302" =>
                 reply.links[1].of \in CollectFrontArticleIDs(Arch(lib, reply.links[1].slug))
           /\ reply.status = "304" =>
                 req.op = "content" /\ req.slug \in DOMAIN lib.place
                 /\ req.match = <<Arch(lib, req.slug).uuid, req.path>>
           /\ req.op = "content" /\ reply.status = "200" =>
                 req.slug \in DOMAIN lib.place
                 /\ reply = handleContent(req.slug, req.path, req.match)
<1>1. DOMAIN lib.archives = DOMAIN lib.place /\ Range(lib.slugs) = DOMAIN lib.place
  BY LibraryFacts
<1>2. CASE req.op = "searchAll"
  <2>1. reply = handleSearchAll(req.q)
    BY <1>2 DEF Replies
  <2>2. reply.status = "200" /\ reply.links \in Seq(ALink)
    BY <2>1, SearchAllIs
  <2>3. QED  BY <1>2, <2>2 DEF LinksOK
<1>3. CASE req.op = "randomAll"
  <2>1. reply \in handleRandomAll
    BY <1>3 DEF Replies
  <2>2. PICK slug \in DOMAIN lib.place : reply \in handleRandom(slug)
    BY <1>1, <2>1 DEF handleRandomAll
  <2>3. QED  BY <1>3, <2>2, RandomFacts
<1>4. CASE req.op \in HttpOps \ {"searchAll", "randomAll"} /\ req.slug \notin DOMAIN lib.place
  <2>1. reply = Status("404")
    BY <1>1, <1>4 DEF Replies
  <2>2. QED  BY <2>1, StatusFacts
<1>5. CASE req.op \in HttpOps \ {"searchAll", "randomAll"} /\ req.slug \in DOMAIN lib.place
  <2>1. req.limit \in Int /\ req.offset \in Int /\ (req.op = "browse" => req.limit > 0)
    BY AskedFacts
  <2>2. CASE req.op = "searchJSON"
    <3>1. reply = handleSearchJSON(req.slug, req.q)
      BY <1>1, <1>5, <2>2 DEF Replies
    <3>2. reply.status = "200" /\ reply.links \in Seq(ALink)
      BY <1>5, <2>1, <3>1, SearchLinks
    <3>3. QED  BY <2>2, <3>2 DEF LinksOK
  <2>3. CASE req.op = "searchPage"
    <3>1. reply = handleSearchPage(req.slug, req.q, req.limit)
      BY <1>1, <1>5, <2>3 DEF Replies
    <3>2. reply.status = "200" /\ reply.links \in Seq(ALink)
      BY <1>5, <2>1, <3>1, SearchLinks
    <3>3. QED  BY <2>3, <3>2 DEF LinksOK
  <2>4. CASE req.op = "random"
    <3>1. reply \in handleRandom(req.slug)
      BY <1>1, <1>5, <2>4 DEF Replies
    <3>2. QED  BY <1>5, <2>4, <3>1, RandomFacts
  <2>5. CASE req.op = "browse"
    <3>1. reply = handleBrowse(req.slug, req.letter, req.offset, req.limit)
      BY <1>1, <1>5, <2>5 DEF Replies
    <3>2. req.limit \in Nat \ {0}
      BY <2>1, <2>5
    <3>3. reply.status = "200" /\ reply.links \in Seq(ALink)
      BY <1>5, <2>1, <3>1, <3>2, BrowseLinks
    <3>4. QED  BY <2>5, <3>3 DEF LinksOK
  <2>6. CASE req.op = "content"
    <3>1. reply = handleContent(req.slug, req.path, req.match)
      BY <1>1, <1>5, <2>6 DEF Replies
    <3>2. LinksOK(reply) /\ (reply.status = "304" => req.match = <<Arch(lib, req.slug).uuid, req.path>>)
      BY <1>5, <3>1, ContentFacts
    <3>3. QED  BY <1>5, <2>6, <3>1, <3>2
  <2>7. QED  BY <1>5, <2>2, <2>3, <2>4, <2>5, <2>6 DEF HttpOps
<1>6. QED  BY <1>2, <1>3, <1>4, <1>5 DEF HttpOps

(* What handleContent answers, for a path an entry has. *)
LEMMA ContentIs ==
    ASSUME shelf \in DOMAIN Shelves, LibraryOK, NEW slug \in DOMAIN lib.place, NEW a, a = Arch(lib, slug),
           NEW id \in IDs(a), NEW path, path = EntryByID(a, id).path, path # NoPath
    PROVE  handleContent(slug, path, <<>>)
              = IF IsRedirectID(id) THEN RedirectTo(slug, id)
                ELSE IF ~ReadContent(a, id).ok THEN Status("500")
                ELSE [status |-> "200", body |-> ReadContent(a, id).body, etag |-> makeETag(slug, path)]
<1>1. a \in AllArchives /\ WellFormed(a)
  BY LibraryFacts, ShelvesAssumption
<1>2. FindEntry(a, path) = EntryByID(a, id)
  BY <1>1, FindIs
<1>3. EntryByID(a, id).ok /\ EntryByID(a, id).id = id
  BY <1>1, EntryFacts
<1>4. PICK e : e = FindEntry(a, path) /\ e.ok /\ e.id = id
  BY <1>2, <1>3
<1>5. <<>> # makeETag(slug, path)
  BY DEF makeETag
<1>6. handleContent(slug, path, <<>>)
         = IF path = NoPath
           THEN IF MainEntry(a).ok THEN RedirectTo(slug, MainEntry(a).id) ELSE Status("404")
           ELSE IF ~e.ok THEN Status("404")
           ELSE IF IsRedirectID(e.id) THEN RedirectTo(slug, e.id)
           ELSE IF <<>> = makeETag(slug, path) THEN Status("304")
           ELSE IF ~ReadContent(a, e.id).ok THEN Status("500")
           ELSE [status |-> "200", body |-> ReadContent(a, e.id).body, etag |-> makeETag(slug, path)]
  BY <1>4, ZenonT(30) DEF handleContent
<1>7. QED  BY <1>4, <1>5, <1>6

(* A clean path stays clean with another extension. *)
TriedExts == {".md", ".html"}

LEMMA WithExtClean ==
    ASSUME NEW path \in Path, IsClean(path), NEW ext \in TriedExts,
           NEW p, p = WithExt(path, ext)
    PROVE  IsClean(p)
<1> HIDE DEF Name
<1>1. path \in Seq(Name) /\ path # <<>>
  BY DEF Path
<1>2. PICK n \in Nat \ {0} : n = Len(path) /\ DOMAIN path = 1 .. n
  BY <1>1, EmptySeq, LenProperties
<1>3. PICK last : last = path[n] /\ last \in Name
  <2>1. \A i \in 1 .. n : path[i] \in Name
    BY <1>1, <1>2, ElementOfSeq
  <2>2. n \in 1 .. n
    OBVIOUS
  <2>3. QED  BY <2>1, <2>2
<1>4. PICK q : q = [last EXCEPT !.ext = ext] /\ q.ext = ext
  <2>1. [last EXCEPT !.ext = ext].ext = ext
    BY <1>3 DEF Name
  <2>2. QED  BY <2>1
<1>5. p = [i \in 1 .. n |-> IF i = n THEN q ELSE path[i]]
  BY <1>2, <1>3, <1>4 DEF WithExt
<1>6. Len(p) = n /\ DOMAIN p = 1 .. n
  <2>1. PICK A : A = Name \cup {q}
    OBVIOUS
  <2>2. \A i \in 1 .. n : path[i] \in A
    BY <1>1, <1>2, <2>1, ElementOfSeq
  <2>3. p \in [1 .. n -> A]
    BY <1>5, <2>1, <2>2
  <2>4. p \in Seq(A) /\ DOMAIN p = 1 .. n
    BY <2>3
  <2>5. QED  BY <2>4, LenProperties
<1>7. q \notin {Dot, DotDot} /\ q # Empty
  BY <1>4, NameFacts DEF TriedExts
<1>8. ASSUME NEW i \in 1 .. n
      PROVE  p[i] \notin {Dot, DotDot} /\ (p[i] = Empty => i = n)
  <2>1. CASE i = n
    BY <1>5, <1>7, <2>1
  <2>2. CASE i # n
    <3>1. p[i] = path[i]
      BY <1>5, <2>2
    <3>2. path[i] \notin {Dot, DotDot} /\ (path[i] = Empty => i = n)
      BY <1>2 DEF IsClean
    <3>3. QED  BY <3>1, <3>2
  <2>3. QED  BY <2>1, <2>2
<1>9. QED  BY <1>6, <1>8 DEF IsClean

(* What is found for a clean path is an entry with a clean path. *)
LEMMA FindClean ==
    ASSUME NEW a, WellFormed(a), NEW path \in Path, IsClean(path), FindEntry(a, path).ok
    PROVE  \E x \in IDs(a) : FindEntry(a, path) = EntryByID(a, x) /\ IsClean(EntryByID(a, x).path)
<1>0. PICK tried, p, r : /\ tried = <<path>> \o Fallbacks(path)
                         /\ p = WithExt(path, ".md") /\ r = WithExt(path, ".html")
  OBVIOUS
<1>1. DOMAIN tried \subseteq Nat \ {0} /\ \A i \in DOMAIN tried : tried[i] \in {path, p, r}
  BY <1>0, TriedFacts
<1>2. IsClean(p) /\ IsClean(r)
  <2>1. ".md" \in TriedExts /\ ".html" \in TriedExts
    BY DEF TriedExts
  <2>2. QED  BY <1>0, <2>1, WithExtClean
<1>3. PICK found : found = {i \in DOMAIN tried : EntryByPath(a, tried[i]).ok}
  OBVIOUS
<1>4. FindEntry(a, path) = IF found = {} THEN NoEntry ELSE EntryByPath(a, tried[Min(found)])
  BY <1>0, <1>3, ZenonT(30) DEF FindEntry
<1>5. found # {} /\ found \in SUBSET Nat
  BY <1>1, <1>3, <1>4 DEF NoEntry
<1>6. PICK i \in DOMAIN tried : FindEntry(a, path) = EntryByPath(a, tried[i])
  <2>1. Min(found) \in found
    BY <1>5, MinIsLeast
  <2>2. QED  BY <1>3, <1>4, <1>5, <2>1
<1>7. PICK t : t = tried[i] /\ IsClean(t)
  BY <1>1, <1>2
<1>8. PICK x \in IDs(a) : EntryByID(a, x).path = t /\ EntryByPath(a, t) = EntryByID(a, x)
  <2>1. EntryByPath(a, t) # NoEntry
    BY <1>6, <1>7 DEF NoEntry
  <2>2. QED  BY <2>1 DEF EntryByPath
<1>9. QED  BY <1>6, <1>7, <1>8

(* What a client gets for a clean path: its page, or a route that hides it. *)
LEMMA FetchClean ==
    ASSUME shelf \in DOMAIN Shelves, LibraryOK, NEW slug \in DOMAIN lib.place,
           NEW path \in Path, IsClean(path)
    PROVE  Fetch(slug, path) = IF path \in Routes \cup {NoPath} THEN Status("route")
                               ELSE handleContent(slug, path, <<>>)
<1>1. slug \in Seq(STRING) \ {<<>>}
  BY DEF LibraryOK, Named, Slug
<1>2. slug \in DOMAIN lib.archives
  BY LibraryFacts
<1>3. PICK url : url = Cleaned(Url(slug, path))
  OBVIOUS
<1>4. url = Url(slug, path)
  BY <1>1, <1>3, CleanStays
<1>5. /\ Len(path) \in Nat \ {0} /\ Len(url) = Len(path) + 1
      /\ url[1] = [stem |-> slug, ext |-> ""] /\ Tail(url) = path
  BY <1>1, <1>4, UrlFacts
<1>6. ~(Len(url) <= 1) /\ url[1].ext = "" /\ url[1].stem = slug
  <2>1. PICK x : x = [stem |-> slug, ext |-> ""]
    OBVIOUS
  <2>2. x.ext = "" /\ x.stem = slug
    BY <2>1
  <2>3. ~(Len(url) <= 1)
    <3>1. PICK n \in Nat \ {0} : n = Len(path) /\ Len(url) = n + 1
      BY <1>5
    <3>2. n + 1 > 1
      OBVIOUS
    <3>3. QED  BY <3>1, <3>2
  <2>4. QED  BY <1>5, <2>1, <2>2, <2>3, Zenon
<1>7. Fetch(slug, path)
         = IF Len(url) <= 1 THEN Status("route")
           ELSE IF Tail(url) \in Routes \cup {NoPath} THEN Status("route")
           ELSE IF url[1].ext # "" \/ url[1].stem \notin DOMAIN lib.archives THEN Status("404")
           ELSE handleContent(url[1].stem, Tail(url), <<>>)
  BY <1>3, ZenonT(30) DEF Fetch
<1>8. QED  BY <1>2, <1>5, <1>6, <1>7, Zenon

(* What a client gets for any path, if not an error or a route, is what is *)
(* at a clean path.                                                        *)
LEMMA FetchPage ==
    ASSUME shelf \in DOMAIN Shelves, LibraryOK, NEW slug \in DOMAIN lib.place, NEW path \in Path,
           Fetch(slug, path).status \in {"200", "302"}
    PROVE  \E s \in DOMAIN lib.place, p \in Path :
              IsClean(p) /\ Fetch(slug, path) = handleContent(s, p, <<>>)
<1>1. slug \in Seq(STRING)
  BY DEF LibraryOK, Named, Slug
<1>2. PICK url : url = Url(slug, path)
  OBVIOUS
<1>3. url \in Seq(Name) /\ url # <<>>
  <2>1. url \in Seq(Name) /\ Len(path) \in Nat \ {0} /\ Len(url) = Len(path) + 1
    BY <1>1, <1>2, UrlFacts
  <2>2. Len(url) # 0
    BY <2>1
  <2>3. QED  BY <2>1, <2>2, EmptySeq
<1>4. PICK c : c = Cleaned(url)
  OBVIOUS
<1>5. Fetch(slug, path)
         = IF Len(c) <= 1 THEN Status("route")
           ELSE IF Tail(c) \in Routes \cup {NoPath} THEN Status("route")
           ELSE IF c[1].ext # "" \/ c[1].stem \notin DOMAIN lib.archives THEN Status("404")
           ELSE handleContent(c[1].stem, Tail(c), <<>>)
  BY <1>2, <1>4, ZenonT(30) DEF Fetch
<1>6. Fetch(slug, path) \notin {Status("route"), Status("404")}
  <2>1. Status("route").status = "route" /\ Status("404").status = "404"
    BY StatusFacts
  <2>2. QED  BY <2>1
<1>7. ~(Len(c) <= 1) /\ c[1].stem \in DOMAIN lib.archives
      /\ Fetch(slug, path) = handleContent(c[1].stem, Tail(c), <<>>)
  BY <1>5, <1>6, Zenon
<1>8. Tail(c) \in Path /\ IsClean(Tail(c))
  <2>1. Len(c) \in Nat
    BY <1>3, <1>4, CleanedLength
  <2>2. Len(c) > 1
    BY <1>7, <2>1
  <2>3. QED  BY <1>3, <1>4, <2>2, CleanedIsClean
<1>9. c[1].stem \in DOMAIN lib.place
  BY <1>7, LibraryFacts
<1>10. QED  BY <1>7, <1>8, <1>9

(* A page that a clean path shows is that of an entry with a clean path. *)
LEMMA CleanBody ==
    ASSUME shelf \in DOMAIN Shelves, LibraryOK, NEW slug \in DOMAIN lib.place, NEW path \in Path,
           IsClean(path), NEW page, page = handleContent(slug, path, <<>>), page.status = "200"
    PROVE  \E a \in AllArchives : \E x \in IDs(a) :
              page.body = <<a.build, x>> /\ IsClean(EntryByID(a, x).path)
<1>1. PICK a \in AllArchives : a = Arch(lib, slug) /\ WellFormed(a)
  BY LibraryFacts, ShelvesAssumption
<1>2. IsPage(a, path, page.body)
  BY <1>1, ContentFacts
<1>3. PICK e, content : e = FindEntry(a, path) /\ content = ReadContent(a, e.id)
  OBVIOUS
<1>4. e.ok /\ ~IsRedirectID(e.id) /\ content.ok /\ page.body = content.body
  BY <1>2, <1>3 DEF IsPage
<1>5. PICK x \in IDs(a) : e = EntryByID(a, x) /\ IsClean(EntryByID(a, x).path)
  BY <1>1, <1>3, <1>4, FindClean
<1>6. e.id = x
  <2>1. EntryByID(a, x).id = x
    BY <1>1, EntryFacts
  <2>2. QED  BY <1>5, <2>1
<1>7. Resolve(a, x) = e
  BY <1>1, <1>4, <1>5, <1>6, ResolvePlain
<1>8. content.body = <<a.build, x>>
  BY <1>3, <1>4, <1>6, <1>7 DEF ReadContent, NoEntry
<1>9. QED  BY <1>4, <1>5, <1>8

(* So is a page behind a link and at most one redirect. *)
LEMMA FollowedBody ==
    ASSUME shelf \in DOMAIN Shelves, LibraryOK, NEW slug \in DOMAIN lib.place, NEW path \in Path,
           NEW page, page = Follow(Fetch(slug, path)), page.status = "200"
    PROVE  \E a \in AllArchives : \E x \in IDs(a) :
              page.body = <<a.build, x>> /\ IsClean(EntryByID(a, x).path)
<1>1. PICK got : got = Fetch(slug, path)
  OBVIOUS
<1>2. page = IF got.status = "302" THEN Fetch(got.links[1].slug, got.links[1].path) ELSE got
  BY <1>1 DEF Follow
<1>3. CASE got.status # "302"
  <2>1. page = got
    BY <1>2, <1>3
  <2>2. PICK s \in DOMAIN lib.place, p \in Path : IsClean(p) /\ page = handleContent(s, p, <<>>)
    BY <1>1, <2>1, FetchPage
  <2>3. QED  BY <2>2, CleanBody
<1>4. CASE got.status = "302"
  <2>1. PICK s \in DOMAIN lib.place, p \in Path : IsClean(p) /\ got = handleContent(s, p, <<>>)
    BY <1>1, <1>4, FetchPage
  <2>2. PICK l \in ALink : l = got.links[1]
    BY <1>4, <2>1, ContentFacts
  <2>3. PICK t \in DOMAIN lib.place, q \in Path : t = l.slug /\ q = l.path
    <3>1. PICK h \in Hit : l = Link(h[1], h[2])
      BY DEF ALink
    <3>2. PICK t \in DOMAIN lib.place, id \in Nat : h = <<t, id>> /\ id \in IDs(Arch(lib, t))
      BY DEF Hit
    <3>3. WellFormed(Arch(lib, t))
      BY LibraryFacts, ShelvesAssumption
    <3>4. EntryByID(Arch(lib, t), id).path \in Path
      BY <3>2, <3>3, EntryFacts
    <3>5. l.slug = t /\ l.path = EntryByID(Arch(lib, t), id).path
      BY <3>1, <3>2 DEF Link
    <3>6. QED  BY <3>4, <3>5
  <2>4. page = Fetch(t, q)
    BY <1>2, <1>4, <2>2, <2>3
  <2>5. PICK u \in DOMAIN lib.place, v \in Path : IsClean(v) /\ page = handleContent(u, v, <<>>)
    BY <2>4, FetchPage
  <2>6. QED  BY <2>5, CleanBody
<1>5. QED  BY <1>3, <1>4

(* A page that is no redirect shows its own content. *)
LEMMA PlainLands ==
    ASSUME shelf \in DOMAIN Shelves, LibraryOK, NEW slug \in DOMAIN lib.place, NEW a, a = Arch(lib, slug),
           NEW id \in IDs(a), ~IsRedirectID(id), IsClean(EntryByID(a, id).path)
    PROVE  /\ Fetch(slug, EntryByID(a, id).path).status # "302"
           /\ Shows(Fetch(slug, EntryByID(a, id).path), ReadContent(a, id))
<1>1. PICK path \in Path : path = EntryByID(a, id).path /\ IsClean(path)
  <2>1. WellFormed(a)
    BY LibraryFacts, ShelvesAssumption
  <2>2. QED  BY <2>1, EntryFacts
<1>2. PICK content : content = ReadContent(a, id)
  OBVIOUS
<1>3. CASE path \in Routes \cup {NoPath}
  <2>1. Fetch(slug, path) = [status |-> "route"]
    BY <1>1, <1>3, FetchClean DEF Status
  <2>2. QED  BY <1>1, <2>1 DEF Shows
<1>4. CASE path \notin Routes \cup {NoPath}
  <2>1. Fetch(slug, path) = handleContent(slug, path, <<>>)
    BY <1>1, <1>4, FetchClean
  <2>2. Fetch(slug, path) = IF ~content.ok THEN [status |-> "500"]
                            ELSE [status |-> "200", body |-> content.body, etag |-> makeETag(slug, path)]
    BY <1>1, <1>2, <1>4, <2>1, ContentIs DEF Status
  <2>3. CASE ~content.ok
    BY <1>1, <1>2, <2>2, <2>3 DEF Shows
  <2>4. CASE content.ok
    BY <1>1, <1>2, <2>2, <2>4 DEF Shows
  <2>5. QED  BY <2>3, <2>4
<1>5. QED  BY <1>3, <1>4

(* The end of a redirect has the content of the redirect. *)
LEMMA SameContent ==
    ASSUME NEW a, WellFormed(a), NEW id \in Nat, NEW x \in IDs(a), ~IsRedirectID(x),
           Resolve(a, id) = EntryByID(a, x)
    PROVE  ReadContent(a, id) = ReadContent(a, x)
<1>1. Resolve(a, x) = Resolve(a, id)
  BY ResolvePlain
<1>2. QED  BY <1>1 DEF ReadContent

(* A link to a clean path, over a redirect to a clean path or over none, *)
(* leads to the content of the entry it was made for.                    *)
LEMMA CleanLands ==
    ASSUME shelf \in DOMAIN Shelves, LibraryOK, NEW slug \in DOMAIN lib.place, NEW a, a = Arch(lib, slug),
           NEW id \in IDs(a), NEW path, path = EntryByID(a, id).path, IsClean(path),
           Resolve(a, id).ok => IsClean(Resolve(a, id).path)
    PROVE  Shows(Follow(Fetch(slug, path)), ReadContent(a, id))
<1>1. a \in AllArchives /\ WellFormed(a)
  BY LibraryFacts, ShelvesAssumption
<1>2. path \in Path /\ id \in Nat
  BY <1>1, EntryFacts
<1>3. PICK page : page = Fetch(slug, path)
  OBVIOUS
<1>4. SUFFICES Shows(Follow(page), ReadContent(a, id))
  BY <1>3
<1>5. CASE path \in Routes \cup {NoPath}
  <2>1. page = [status |-> "route"]
    BY <1>2, <1>3, <1>5, FetchClean DEF Status
  <2>2. Follow(page) = page
    BY <2>1 DEF Follow
  <2>3. QED  BY <2>1, <2>2 DEF Shows
<1>6. CASE ~IsRedirectID(id)
  <2>1. page.status # "302" /\ Shows(page, ReadContent(a, id))
    BY <1>3, <1>6, PlainLands
  <2>2. QED  BY <2>1 DEF Follow
<1>7. CASE path \notin Routes \cup {NoPath} /\ IsRedirectID(id)
  <2>1. page = RedirectTo(slug, id)
    <3>1. page = handleContent(slug, path, <<>>)
      BY <1>2, <1>3, <1>7, FetchClean
    <3>2. QED  BY <1>7, <3>1, ContentIs
  <2>2. PICK e : e = Resolve(a, id)
    OBVIOUS
  <2>3. page = IF e.ok THEN [status |-> "302", links |-> <<Link(slug, e.id)>>] ELSE [status |-> "500"]
    BY <2>1, <2>2 DEF RedirectTo, Status
  <2>4. CASE e = NoEntry
    <3>1. ~e.ok
      BY <2>4 DEF NoEntry
    <3>2. page = [status |-> "500"]
      BY <2>3, <3>1
    <3>3. Follow(page) = page
      BY <3>2 DEF Follow
    <3>4. ~ReadContent(a, id).ok
      BY <2>2, <3>1 DEF ReadContent, NoEntry
    <3>5. QED  BY <3>2, <3>3, <3>4 DEF Shows
  <2>5. ASSUME NEW x \in IDs(a), ~IsRedirectID(x), e = EntryByID(a, x)
        PROVE  Shows(Follow(page), ReadContent(a, id))
    <3>1. EntryByID(a, x).ok = TRUE /\ EntryByID(a, x).id = x
      BY <1>1, EntryFacts
    <3>2. e.ok /\ e.id = x /\ IsClean(EntryByID(a, x).path)
      BY <2>2, <2>5, <3>1
    <3>3. PICK l : l = Link(slug, x)
      OBVIOUS
    <3>4. page.status = "302" /\ page.links[1] = l
      BY <2>3, <3>2, <3>3
    <3>5. l.slug = slug /\ l.path = EntryByID(a, x).path
      BY <3>3 DEF Link
    <3>6. Follow(page) = Fetch(slug, EntryByID(a, x).path)
      BY <3>4, <3>5 DEF Follow
    <3>7. ReadContent(a, id) = ReadContent(a, x)
      BY <1>1, <1>2, <2>2, <2>5, SameContent
    <3>8. QED  BY <2>5, <3>2, <3>6, <3>7, PlainLands
  <2>6. QED  BY <1>1, <1>2, <2>2, <2>4, <2>5, ResolveEnds
<1>8. QED  BY <1>5, <1>6, <1>7

(* A link of the library leads to the entry it was made for, or the server *)
(* changes a path on the way and the entry is not what is shown.           *)
LEMMA LinksLand ==
    ASSUME shelf \in DOMAIN Shelves, LibraryOK, NEW link \in ALink
    PROVE  LinkLands(link)
<1>1. PICK h \in Hit : link = Link(h[1], h[2])
  BY DEF ALink
<1>2. PICK slug \in DOMAIN lib.place, id \in Nat : h = <<slug, id>> /\ id \in IDs(Arch(lib, slug))
  BY DEF Hit
<1>3. PICK a : a = Arch(lib, slug) /\ a \in AllArchives /\ WellFormed(a)
  BY LibraryFacts, ShelvesAssumption
<1>4. PICK path \in Path : path = EntryByID(a, id).path
  BY <1>2, <1>3, EntryFacts
<1>5. link.slug = slug /\ link.path = path /\ link.of = id /\ id \in IDs(a)
  BY <1>1, <1>2, <1>3, <1>4 DEF Link
<1>6. PICK end, page : end = Resolve(a, id) /\ page = Follow(Fetch(slug, path))
  OBVIOUS
<1>7. SUFFICES /\ IsClean(path) /\ (end.ok => IsClean(end.path)) => Shows(page, ReadContent(a, id))
               /\ end.ok /\ ~IsClean(end.path) /\ page.status = "200" => page.body # <<a.build, end.id>>
  BY <1>3, <1>5, <1>6, Zenon DEF LinkLands
<1>8. IsClean(path) /\ (end.ok => IsClean(end.path)) => Shows(page, ReadContent(a, id))
  BY <1>3, <1>4, <1>5, <1>6, CleanLands
<1>9. ASSUME end.ok, ~IsClean(end.path), page.status = "200", page.body = <<a.build, end.id>>
      PROVE  FALSE
  <2>1. PICK y \in IDs(a) : end = EntryByID(a, y) /\ end.id = y
    <3>1. end # NoEntry
      BY <1>9 DEF NoEntry
    <3>2. PICK y \in IDs(a) : end = EntryByID(a, y)
      BY <1>2, <1>3, <1>6, <3>1, ResolveEnds
    <3>3. EntryByID(a, y).id = y
      BY <1>3, EntryFacts
    <3>4. QED  BY <3>2, <3>3
  <2>2. PICK b \in AllArchives : \E x \in IDs(b) :
              page.body = <<b.build, x>> /\ IsClean(EntryByID(b, x).path)
    BY <1>6, <1>9, FollowedBody
  <2>3. PICK x \in IDs(b) : page.body = <<b.build, x>> /\ IsClean(EntryByID(b, x).path)
    BY <2>2
  <2>4. b.build = a.build /\ x = y
    BY <1>9, <2>1, <2>3
  <2>5. b = a
    BY <1>3, <2>4, ShelvesAssumption
  <2>6. QED  BY <1>9, <2>1, <2>3, <2>4, <2>5
<1>10. QED  BY <1>8, <1>9

(****************************************************************************)
(* What the browser remembers                                               *)
(****************************************************************************)
(* The page it has is one of the path its ETag names, in the archive whose  *)
(* UUID the ETag names, of this run of the server or an earlier one; only   *)
(* the browser asks with an ETag, and with the one it still has when it is  *)
(* answered.                                                                *)
PageOf(page, a, path) ==
    page.etag = <<a.uuid, path>> /\ IsPage(a, path, page.body)

AsksWith(c, req, page) ==
    req.op = "content" => req.match = <<>> \/ (c = Browser /\ req.match = page.etag)

BrowserInv ==
    /\ cached = NoPage \/ \E a \in AllArchives : \E path : PageOf(cached, a, path)
    /\ \A c \in Client : inflight[c] = NoRequest \/ AsksWith(c, inflight[c], cached)
    /\ answer.req.op = "content" /\ answer.reply.status = "304" =>
          answer.client = Browser /\ answer.req.match = cached.etag

(* A browser begins with nothing. *)
LEMMA BrowserInit == Init => BrowserInv
BY DEF Init, BrowserInv, NoAnswer, NoRequest

(* What only ends requests disturbs nothing. *)
LEMMA BrowserSame ==
    ASSUME BrowserInv, UNCHANGED cached, answer' \in {answer, NoAnswer},
           \A c \in Client : inflight'[c] \in {inflight[c], NoRequest}
    PROVE  BrowserInv'
<1>1. PICK page : page = cached /\ cached' = page
  OBVIOUS
<1>2. (cached = NoPage \/ \E a \in AllArchives : \E path : PageOf(cached, a, path))'
  BY <1>1 DEF BrowserInv, PageOf
<1>3. \A c \in Client : inflight'[c] = NoRequest \/ AsksWith(c, inflight'[c], page)
  BY <1>1 DEF BrowserInv
<1>4. (answer.req.op = "content" /\ answer.reply.status = "304" =>
          answer.client = Browser /\ answer.req.match = cached.etag)'
  BY DEF BrowserInv, NoAnswer, NoRequest
<1>5. QED  BY <1>1, <1>2, <1>3, <1>4 DEF BrowserInv, AsksWith

(* Every step keeps the cached page one of the archive whose UUID its ETag   *)
(* names.                                                                    *)
LEMMA BrowserNext == BrowserInv /\ ServerInv /\ [Next]_vars => BrowserInv'
<1> SUFFICES ASSUME BrowserInv, ServerInv, [Next]_vars  PROVE BrowserInv'
  OBVIOUS
<1>0. IInv /\ LoadInv /\ AnswerInv
  BY DEF ServerInv
<1>1. CASE \/ (\E i \in DOMAIN results : OpenFile(i)) \/ BuildLibrary \/ Stop \/ Deadline
           \/ ListenerFails \/ CloseArchives \/ Exit \/ Restart
           \/ (\E c \in Client : ReadClosed(c))
  <2>1. UNCHANGED cached /\ answer' \in {answer, NoAnswer}
    BY <1>1 DEF OpenFile, BuildLibrary, Stop, Deadline, ListenerFails, CloseArchives, Exit, Restart, ReadClosed
  <2>2. \A c \in Client : inflight'[c] \in {inflight[c], NoRequest}
    BY <1>1 DEF OpenFile, BuildLibrary, Stop, Deadline, ListenerFails, CloseArchives, Exit, Restart, ReadClosed
  <2>3. QED  BY <2>1, <2>2, BrowserSame
<1>2. ASSUME NEW c \in Client, NEW req \in Requests[c], Begin(c, req)  PROVE BrowserInv'
  <2>1. UNCHANGED cached /\ answer' = NoAnswer
    BY <1>2 DEF Begin
  <2>2. PICK page : page = cached /\ cached' = page
    BY <2>1
  <2>3. PICK r : inflight' = [inflight EXCEPT ![c] = r] /\ AsksWith(c, r, page)
    <3>1. PICK m : /\ m = (IF c = Browser /\ cached.url = <<req.slug, req.path>> THEN cached.etag ELSE <<>>)
                   /\ inflight' = [inflight EXCEPT ![c] = IF req.op = "content"
                                                          THEN [req EXCEPT !.match = m] ELSE req]
      BY <1>2 DEF Begin
    <3>2. [req EXCEPT !.match = m].match = m
      <4>1. req \in [op : STRING, slug : Seq(STRING), q : STRING, limit : Int, letter : Nat,
                     offset : Int, path : Path, match : {<<>>}, id : Int, max : Int,
                     section : BOOLEAN]
        BY RequestsAssumption
      <4> HIDE DEF Path
      <4>2. QED  BY <4>1
    <3>3. m = <<>> \/ (c = Browser /\ m = page.etag)
      BY <2>2, <3>1
    <3>4. QED  BY <3>1, <3>2, <3>3 DEF AsksWith
  <2>4. \A d \in Client : inflight'[d] = NoRequest \/ AsksWith(d, inflight'[d], page)
    BY <2>2, <2>3, <1>0 DEF BrowserInv, IInv, DrainInv
  <2>5. (cached = NoPage \/ \E a \in AllArchives : \E path : PageOf(cached, a, path))'
    BY <2>2 DEF BrowserInv, PageOf
  <2>6. answer'.req.op # "content"
    BY <2>1 DEF NoAnswer, NoRequest
  <2>7. QED  BY <2>2, <2>4, <2>5, <2>6 DEF BrowserInv, AsksWith
<1>3. ASSUME NEW c \in Client, Reply(c)  PROVE BrowserInv'
  <2>1. PICK req : req = inflight[c] /\ req # NoRequest
    BY <1>3 DEF Reply
  <2>2. PICK reply \in Replies(req) :
           /\ answer' = [client |-> c, req |-> req, reply |-> reply]
           /\ cached' = IF c = Browser /\ req.op = "content" /\ reply.status = "200"
                        THEN [url |-> <<req.slug, req.path>>, etag |-> reply.etag, body |-> reply.body]
                        ELSE cached
    BY <1>3, <2>1 DEF Reply
  <2>3. shelf \in DOMAIN Shelves /\ LibraryOK /\ Asked(req) /\ AsksWith(c, req, cached)
    <3>1. phase \in {"serving", "draining"}
      BY <1>3 DEF Reply
    <3>2. QED  BY <1>0, <2>1, <3>1 DEF LoadInv, Typed, Shelved, AnswerInv, BrowserInv
  <2>4. inflight' = [inflight EXCEPT ![c] = NoRequest]
    BY <1>3 DEF Reply
  <2>5. CASE c = Browser /\ req.op = "content" /\ reply.status = "200"
    <3>1. req.slug \in DOMAIN lib.place /\ reply = handleContent(req.slug, req.path, req.match)
      BY <2>3, <2>5, ReplyFacts DEF HttpOps
    <3>2. PICK a \in AllArchives : a = Arch(lib, req.slug)
      BY <2>3, <3>1, LibraryFacts
    <3>3. reply.etag = <<a.uuid, req.path>> /\ IsPage(a, req.path, reply.body)
      BY <2>3, <2>5, <3>1, <3>2, ContentFacts
    <3>4. PICK page : page = cached' /\ PageOf(page, a, req.path)
      BY <2>2, <2>5, <3>3 DEF PageOf
    <3>5. (cached = NoPage \/ \E b \in AllArchives : \E path : PageOf(cached, b, path))'
      BY <3>4 DEF PageOf
    <3>6. \A d \in Client : inflight'[d] = NoRequest \/ AsksWith(d, inflight'[d], page)
      <4> SUFFICES ASSUME NEW d \in Client, d # c  PROVE inflight'[d] = NoRequest \/ AsksWith(d, inflight'[d], page)
        BY <1>0, <2>4 DEF IInv, DrainInv
      <4>1. inflight'[d] = inflight[d] /\ d # Browser
        BY <1>0, <2>4, <2>5 DEF IInv, DrainInv
      <4>2. QED  BY <4>1 DEF BrowserInv, AsksWith
    <3>7. answer'.reply.status # "304"
      BY <2>2, <2>5
    <3>8. QED  BY <3>4, <3>5, <3>6, <3>7 DEF BrowserInv, AsksWith
  <2>6. CASE ~(c = Browser /\ req.op = "content" /\ reply.status = "200")
    <3>1. PICK page : page = cached /\ cached' = page
      BY <2>2, <2>6
    <3>2. (cached = NoPage \/ \E a \in AllArchives : \E path : PageOf(cached, a, path))'
      BY <3>1 DEF BrowserInv, PageOf
    <3>3. \A d \in Client : inflight'[d] = NoRequest \/ AsksWith(d, inflight'[d], page)
      BY <1>0, <2>4, <3>1 DEF BrowserInv, IInv, DrainInv
    <3>4. req.op = "content" /\ reply.status = "304" => c = Browser /\ req.match = page.etag
      <4> SUFFICES ASSUME req.op = "content", reply.status = "304"  PROVE c = Browser /\ req.match = page.etag
        OBVIOUS
      <4>1. req.match = <<Arch(lib, req.slug).uuid, req.path>>
        BY <2>3, ReplyFacts DEF HttpOps
      <4>2. req.match # <<>>
        BY <4>1
      <4>3. QED  BY <2>3, <3>1, <4>2 DEF AsksWith
    <3>5. answer'.client = c /\ answer'.req = req /\ answer'.reply = reply
      BY <2>2
    <3>6. QED  BY <3>1, <3>2, <3>3, <3>4, <3>5 DEF BrowserInv, AsksWith
  <2>7. QED  BY <2>5, <2>6
<1>4. CASE UNCHANGED vars
  <2>1. UNCHANGED <<cached, answer, inflight>>
    BY <1>4 DEF vars
  <2>2. QED  BY <2>1, BrowserSame
<1>5. QED  BY <1>1, <1>2, <1>3, <1>4 DEF Next

(* In every state the server reaches, a link in an HTTP answer leads, over  *)
(* one redirect at most, to the content of the entry it was made for, or    *)
(* says that it cannot be read, if the mux leaves the paths on the way as   *)
(* they are; an entry whose path the mux changes is never what its links    *)
(* show; a random page is a front article; and only the browser is told     *)
(* that a page is unchanged, and then the page it has is what would be      *)
(* sent, whatever the server served before a restart, or is of another      *)
(* build with the UUID that the archive has.                                *)
THEOREM AnswersRightAlways == Spec => []AnswersRight
<1>1. ServerInv /\ BrowserInv => AnswersRight
  <2> SUFFICES ASSUME ServerInv, BrowserInv, answer.req.op \in HttpOps
               PROVE  AnswersRight
    BY DEF AnswersRight
  <2>1. PICK req, reply : req = answer.req /\ reply = answer.reply /\ req.op \in HttpOps
    OBVIOUS
  <2>2. shelf \in DOMAIN Shelves /\ LibraryOK /\ Asked(req) /\ reply \in Replies(req)
    <3>1. answer # NoAnswer
      BY <2>1 DEF NoAnswer, NoRequest, HttpOps
    <3>2. QED  BY <2>1, <3>1 DEF ServerInv, LoadInv, Typed, AnswerInv, Answered
  <2>3. "links" \in DOMAIN reply => \A i \in DOMAIN reply.links : LinkLands(reply.links[i])
    <3> SUFFICES ASSUME "links" \in DOMAIN reply, NEW i \in DOMAIN reply.links  PROVE LinkLands(reply.links[i])
      OBVIOUS
    <3>1. PICK l \in Seq(ALink) : l = reply.links
      BY <2>1, <2>2, ReplyFacts DEF LinksOK
    <3>2. PICK link \in ALink : link = l[i]
      BY <3>1, ElementOfSeq, LenProperties
    <3>3. QED  BY <2>2, <3>1, <3>2, LinksLand
  <2>4. req.op \in {"random", "randomAll"} /\ reply.status = "302" =>
           LET link == reply.links[1]
           IN  link.of \in CollectFrontArticleIDs(Arch(lib, link.slug))
    BY <2>1, <2>2, ReplyFacts
  <2>5. reply.status = "304" =>
           /\ answer.client = Browser
           /\ \/ StillSent(req.slug, req.path)
              \/ OfOtherBuild(Arch(lib, req.slug), req.path)
    <3> SUFFICES ASSUME reply.status = "304"
                 PROVE  /\ answer.client = Browser
                        /\ StillSent(req.slug, req.path) \/ OfOtherBuild(Arch(lib, req.slug), req.path)
      OBVIOUS
    <3>1. /\ req.op = "content" /\ req.slug \in DOMAIN lib.place
          /\ req.match = <<Arch(lib, req.slug).uuid, req.path>>
      BY <2>1, <2>2, ReplyFacts
    <3>2. answer.client = Browser /\ req.match = cached.etag
      BY <2>1, <3>1 DEF BrowserInv
    <3>3. PICK a \in AllArchives : a = Arch(lib, req.slug)
      BY <2>2, <3>1, LibraryFacts
    <3>4. cached.etag = <<a.uuid, req.path>>
      BY <3>1, <3>2, <3>3
    <3>5. cached # NoPage
      BY <3>4 DEF NoPage
    <3>6. PICK b \in AllArchives : \E path : PageOf(cached, b, path)
      BY <3>5 DEF BrowserInv
    <3>60. PICK p : PageOf(cached, b, p)
      BY <3>6
    <3>7. a.uuid = b.uuid /\ p = req.path
      BY <3>4, <3>60 DEF PageOf
    <3>8. IsPage(b, req.path, cached.body)
      BY <3>60, <3>7 DEF PageOf
    <3>9. CASE a = b
      <4>1. PICK body : body = cached.body /\ IsPage(a, req.path, body)
        BY <3>8, <3>9
      <4>2. PICK slug : slug = req.slug /\ a = Arch(lib, slug)
        BY <3>3
      <4>3. PICK path : path = req.path
        OBVIOUS
      <4>4. PICK page : page = handleContent(slug, path, <<>>)
        OBVIOUS
      <4>5. page.status = "200" /\ page.body = body
        BY <4>1, <4>2, <4>3, <4>4, PageSent
      <4>6. StillSent(slug, path)
        BY <4>1, <4>4, <4>5, Zenon DEF StillSent
      <4>7. QED  BY <3>2, <4>2, <4>3, <4>6
    <3>10. CASE a # b
      <4>1. OfOtherBuild(a, req.path)
        BY <3>7, <3>8, <3>10 DEF OfOtherBuild, IsPage
      <4>2. QED  BY <3>2, <3>3, <4>1
    <3>11. QED  BY <3>9, <3>10
  <2>6. QED  BY <2>1, <2>3, <2>4, <2>5, ZenonT(30) DEF AnswersRight
<1>2. Init => ServerInv /\ BrowserInv
  BY BrowserInit, InitOK, LoadInit, AnswerInit DEF ServerInv
<1>3. ServerInv /\ BrowserInv /\ [Next]_vars => (ServerInv /\ BrowserInv)'
  BY BrowserNext, NextOK, LoadNext, AnswerNext DEF ServerInv
<1>4. QED  BY <1>1, <1>2, <1>3, PTL DEF Spec
=============================================================================
