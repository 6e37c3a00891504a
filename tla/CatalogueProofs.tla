--------------------------- MODULE CatalogueProofs ---------------------------
(****************************************************************************)
(* What an archive says of its entries, whatever they are: that it opens    *)
(* when it fits the format's fields, that it finds an entry by its path and *)
(* by its title, follows redirects to where they lead, verifies what it     *)
(* reads and ranks what it finds. The indices are proved to be read back as *)
(* they were written, byte shared prefix by shared prefix.                  *)
(****************************************************************************)
EXTENDS Catalogue, FiniteSetTheorems, SequenceTheorems, WellFoundedInduction, TLAPS

(*****************************************************************************)
(* Induction and recursion over the numbers                                  *)
(*****************************************************************************)
(* Every set of numbers that is not empty has a least one.                   *)
LEMMA LeastElement ==
  ASSUME NEW T \in SUBSET Nat, T # {}
  PROVE  \E x \in T : \A y \in T : x <= y
<1>1. PICK R : R = OpToRel(<, Nat)
  OBVIOUS
<1>2. IsWellFoundedOn(R, Nat)
  BY <1>1, NatLessThanWellFounded
<1>3. \A x, y \in Nat : y < x => <<y, x>> \in R
  BY <1>1 DEF OpToRel
<1>4. PICK x \in T : \A y \in T : ~ (<<y, x>> \in R)
  BY <1>2, WFMin
<1>5. ASSUME NEW y \in T PROVE x <= y
  <2>1. x \in Nat /\ y \in Nat
    OBVIOUS
  <2>2. ~(y < x)
    BY <1>3, <1>4, <2>1
  <2> QED BY <2>1, <2>2
<1> QED BY <1>5

(* What holds of 0 and goes from n to n + 1 holds of every number. *)
LEMMA NatSetInduction ==
  ASSUME NEW S, 0 \in S, \A n \in Nat : n \in S => n + 1 \in S
  PROVE  Nat \subseteq S
<1>1. SUFFICES ASSUME Nat \ S # {}  PROVE FALSE
  OBVIOUS
<1>2. PICK x \in Nat \ S : \A y \in Nat \ S : x <= y
  BY <1>1, LeastElement
<1>3. x - 1 \in Nat /\ x - 1 \in S
  BY <1>2
<1> QED BY <1>2, <1>3

(* f starts in c and goes on by the steps. *)
Iterates(f, V, c, step) ==
  f \in [Nat -> V] /\ f[0] = c /\ \A n \in Nat : f[n + 1] = step[n][f[n]]

(* There is always a function that starts in c and goes on by the steps. *)
LEMMA Recursion ==
  ASSUME NEW V, NEW c \in V, NEW step \in [Nat -> [V -> V]]
  PROVE  \E f : Iterates(f, V, c, step)
<1> DEFINE Upto(n, f) == f[0] = c /\ \A i \in 0 .. n - 1 : f[i + 1] = step[i][f[i]]
           S == {n \in Nat : \E f \in [0 .. n -> V] : Upto(n, f)}
           Same == {n \in Nat : \A m, k \in Nat : \A f \in [0 .. m -> V], g \in [0 .. k -> V] :
                      n <= m /\ n <= k /\ Upto(m, f) /\ Upto(k, g) => f[n] = g[n]}
<1>1. Nat \subseteq S
  <2>1. 0 \in S
    <3> DEFINE f0 == [i \in 0 .. 0 |-> c]
    <3>1. f0 \in [0 .. 0 -> V] /\ Upto(0, f0)
      OBVIOUS
    <3> QED BY <3>1
  <2>2. ASSUME NEW n \in Nat, n \in S PROVE n + 1 \in S
    <3>1. PICK f \in [0 .. n -> V] : Upto(n, f)
      BY <2>2
    <3> DEFINE g == [i \in 0 .. n + 1 |-> IF i = n + 1 THEN step[n][f[n]] ELSE f[i]]
    <3>2. g \in [0 .. n + 1 -> V]
      OBVIOUS
    <3>3. g[n + 1] = step[n][f[n]] /\ \A i \in 0 .. n : g[i] = f[i]
      OBVIOUS
    <3> HIDE DEF g
    <3>4. ASSUME NEW i \in 0 .. n PROVE g[i + 1] = step[i][g[i]]
      <4>1. CASE i = n
        BY <3>3, <4>1
      <4>2. CASE i # n
        <5>1. i \in 0 .. n - 1 /\ i + 1 \in 0 .. n
          BY <4>2
        <5> QED BY <3>1, <3>3, <5>1
      <4> QED BY <4>1, <4>2
    <3>5. g[0] = c /\ 0 .. (n + 1) - 1 = 0 .. n
      BY <3>1, <3>3
    <3>6. Upto(n + 1, g)
      BY <3>4, <3>5
    <3> QED BY <3>2, <3>6
  <2>3. \A n \in Nat : n \in S => n + 1 \in S
    BY <2>2
  <2> HIDE DEF S
  <2> QED BY <2>1, <2>3, NatSetInduction
<1>2. Nat \subseteq Same
  <2>1. 0 \in Same
    OBVIOUS
  <2>2. ASSUME NEW n \in Nat, n \in Same PROVE n + 1 \in Same
    <3>0. ASSUME NEW m \in Nat, NEW k \in Nat, NEW f \in [0 .. m -> V], NEW g \in [0 .. k -> V],
                 n + 1 <= m, n + 1 <= k, Upto(m, f), Upto(k, g)
          PROVE  f[n + 1] = g[n + 1]
      <4>1. n <= m /\ n <= k /\ n \in 0 .. m - 1 /\ n \in 0 .. k - 1
        BY <3>0
      <4>2. f[n] = g[n]
        <5> HIDE DEF Upto
        <5> QED BY <2>2, <3>0, <4>1
      <4> QED BY <3>0, <4>1, <4>2
    <3>1. n + 1 \in Nat
      OBVIOUS
    <3> HIDE DEF Upto
    <3> QED BY <3>0, <3>1
  <2>3. \A n \in Nat : n \in Same => n + 1 \in Same
    BY <2>2
  <2> HIDE DEF Same
  <2> QED BY <2>1, <2>3, NatSetInduction
<1> DEFINE F == [n \in Nat |-> CHOOSE f \in [0 .. n -> V] : Upto(n, f)]
           h == [n \in Nat |-> F[n][n]]
<1>3. \A n \in Nat : F[n] \in [0 .. n -> V] /\ Upto(n, F[n])
  <2> TAKE n \in Nat
  <2>1. \E f \in [0 .. n -> V] : Upto(n, f)
    BY <1>1
  <2> HIDE DEF Upto
  <2> QED BY <2>1
<1>4. h \in [Nat -> V] /\ h[0] = c
  <2> HIDE DEF F
  <2> QED BY <1>3
<1>5. ASSUME NEW n \in Nat PROVE h[n + 1] = step[n][h[n]]
  <2> HIDE DEF F
  <2>1. F[n + 1][n + 1] = step[n][F[n + 1][n]]
    <3>1. n + 1 \in Nat /\ n \in 0 .. (n + 1) - 1
      OBVIOUS
    <3> QED BY <1>3, <3>1
  <2>2. F[n + 1][n] = F[n][n]
    <3> HIDE DEF Upto
    <3>1. n \in Same /\ n + 1 \in Nat /\ n <= n + 1 /\ n <= n
      BY <1>2
    <3> QED BY <1>3, <3>1
  <2>3. h[n] = F[n][n] /\ h[n + 1] = F[n + 1][n + 1]
    OBVIOUS
  <2> HIDE DEF h
  <2> QED BY <2>1, <2>2, <2>3
<1> HIDE DEF h
<1> QED BY <1>4, <1>5 DEF Iterates

(* What holds of 0 and goes from n to n + 1 below N holds up to N. *)
LEMMA IntervalInduction ==
  ASSUME NEW N \in Nat, NEW S, 0 \in S, \A n \in 0 .. N - 1 : n \in S => n + 1 \in S
  PROVE  0 .. N \subseteq S
<1> DEFINE T == {n \in Nat : n <= N => n \in S}
<1>1. 0 \in T
  OBVIOUS
<1>2. \A n \in Nat : n \in T => n + 1 \in T
  <2> SUFFICES ASSUME NEW n \in Nat, n \in T, n + 1 <= N PROVE n + 1 \in S
    OBVIOUS
  <2>1. n \in 0 .. N - 1 /\ n <= N
    OBVIOUS
  <2> QED BY <2>1
<1> HIDE DEF T
<1>3. Nat \subseteq T
  BY <1>1, <1>2, NatSetInduction
<1>4. ASSUME NEW n \in 0 .. N PROVE n \in S
  <2>1. n \in T
    BY <1>3
  <2> QED BY <2>1 DEF T
<1> QED BY <1>4

(* The same up to N, as a function that is defined by recursion gives it. *)
IteratesUpto(f, N, V, c, step) ==
  f \in [0 .. N -> V] /\ f[0] = c /\ \A n \in 1 .. N : f[n] = step[n][f[n - 1]]

(* There is one up to N, too. *)
LEMMA RecursionUpto ==
  ASSUME NEW N \in Nat, NEW V, NEW c \in V, NEW step \in [Nat -> [V -> V]]
  PROVE  \E f : IteratesUpto(f, N, V, c, step)
<1> DEFINE shifted == [n \in Nat |-> step[n + 1]]
<1>1. shifted \in [Nat -> [V -> V]]
  OBVIOUS
<1>2. PICK g : Iterates(g, V, c, shifted)
  <2> HIDE DEF shifted
  <2> QED BY <1>1, Recursion
<1> DEFINE f == [n \in 0 .. N |-> g[n]]
<1>3. f \in [0 .. N -> V] /\ f[0] = c
  BY <1>2 DEF Iterates
<1>4. ASSUME NEW n \in 1 .. N PROVE f[n] = step[n][f[n - 1]]
  <2>1. n - 1 \in Nat /\ n - 1 \in 0 .. N /\ n \in 0 .. N /\ (n - 1) + 1 = n
    OBVIOUS
  <2>2. g[(n - 1) + 1] = shifted[n - 1][g[n - 1]]
    BY <1>2, <2>1 DEF Iterates
  <2>3. shifted[n - 1] = step[n]
    BY <2>1
  <2>4. g[n] = step[n][g[n - 1]]
    BY <2>1, <2>2, <2>3
  <2> QED BY <2>1, <2>4
<1> HIDE DEF f
<1> QED BY <1>3, <1>4 DEF IteratesUpto

(* A set of numbers up to N that is not empty has a greatest one. *)
LEMMA GreatestElement ==
  ASSUME NEW N \in Nat, NEW T \in SUBSET (0 .. N), T # {}
  PROVE  \E x \in T : \A y \in T : y <= x
<1> DEFINE U == {N - x : x \in T}
<1>1. U \in SUBSET Nat /\ U # {}
  <2>1. \A x \in T : x \in 0 .. N
    OBVIOUS
  <2>2. \A x \in T : N - x \in Nat
    BY <2>1
  <2> QED BY <2>2
<1>2. PICK u \in U : \A y \in U : u <= y
  <2> HIDE DEF U
  <2> QED BY <1>1, LeastElement
<1>3. PICK x \in T : u = N - x
  BY <1>2
<1>4. ASSUME NEW y \in T PROVE y <= x
  <2>1. N - y \in U
    OBVIOUS
  <2>2. N - x <= N - y
    BY <1>2, <1>3, <2>1
  <2> QED BY <2>2
<1> QED BY <1>4

(*****************************************************************************)
(* Sets in an order                                                          *)
(*****************************************************************************)
(* R, a set of pairs, puts any two elements of S into an order.              *)
TotalOrder(R, S) ==
  /\ \A x \in S : <<x, x>> \notin R
  /\ \A x, y \in S : x # y => <<x, y>> \in R \/ <<y, x>> \in R
  /\ \A x, y, z \in S : <<x, y>> \in R /\ <<y, z>> \in R => <<x, z>> \in R

(* s is the set S in the order R. *)
InOrder(s, S, R) ==
  /\ s \in [1 .. Cardinality(S) -> S]
  /\ \A i, j \in 1 .. Cardinality(S) : i < j => <<s[i], s[j]>> \in R

(* An order of a set is one of its subsets. *)
LEMMA SubOrder ==
  ASSUME NEW S, NEW R, TotalOrder(R, S), NEW T \in SUBSET S
  PROVE  TotalOrder(R, T)
BY DEF TotalOrder

(* A finite set in an order has a last element. *)
LEMMA LastElement ==
  ASSUME NEW S, NEW R, IsFiniteSet(S), TotalOrder(R, S), S # {}
  PROVE  \E m \in S : \A x \in S : x # m => <<x, m>> \in R
<1> DEFINE Has(T) == \E m \in T : \A x \in T : x # m => <<x, m>> \in R
           M == {n \in Nat : \A T \in SUBSET S : Cardinality(T) = n /\ T # {} => Has(T)}
<1>0. ASSUME NEW T \in SUBSET S PROVE IsFiniteSet(T) /\ Cardinality(T) \in Nat
  BY FS_Subset, FS_CardinalityType
<1>1. 0 \in M
  <2>1. ASSUME NEW T \in SUBSET S, Cardinality(T) = 0 PROVE T = {}
    BY <1>0, <2>1, FS_EmptySet
  <2> QED BY <2>1
<1>2. ASSUME NEW n \in Nat, n \in M PROVE n + 1 \in M
  <2>1. ASSUME NEW T \in SUBSET S, Cardinality(T) = n + 1, T # {} PROVE Has(T)
    <3>1. PICK t \in T : TRUE
      BY <2>1
    <3>2. PICK U : U = T \ {t}
      OBVIOUS
    <3>3. Cardinality(U) = n
      <4>1. Cardinality(T \ {t}) = IF t \in T THEN Cardinality(T) - 1 ELSE Cardinality(T)
        BY <1>0, FS_RemoveElement
      <4> QED BY <2>1, <3>2, <4>1
    <3>4. U \in SUBSET S /\ t \in S /\ t \notin U
      BY <3>2
    <3>5. CASE U = {}
      BY <3>1, <3>2, <3>5
    <3>6. CASE U # {}
      <4>1. Has(U)
        <5> HIDE DEF Has
        <5> QED BY <1>2, <3>3, <3>4, <3>6
      <4>2. PICK m \in U : \A x \in U : x # m => <<x, m>> \in R
        BY <4>1
      <4>3. m \in S /\ m # t /\ m \in T
        BY <3>2, <3>4
      <4>4. CASE <<t, m>> \in R
        <5>1. \A x \in T : x # m => <<x, m>> \in R
          BY <3>2, <4>2, <4>4
        <5> QED BY <4>3, <5>1
      <4>5. CASE <<m, t>> \in R
        <5>1. ASSUME NEW x \in T, x # t PROVE <<x, t>> \in R
          <6>1. x \in U /\ x \in S
            BY <3>2, <5>1
          <6>2. x = m \/ <<x, m>> \in R
            BY <4>2, <6>1
          <6> QED BY <3>4, <4>3, <4>5, <6>1, <6>2 DEF TotalOrder
        <5> QED BY <5>1
      <4> QED BY <3>4, <4>3, <4>4, <4>5 DEF TotalOrder
    <3> QED BY <3>5, <3>6
  <2> HIDE DEF Has
  <2> QED BY <2>1
<1>3. Nat \subseteq M
  <2>1. \A n \in Nat : n \in M => n + 1 \in M
    BY <1>2
  <2> HIDE DEF M
  <2> QED BY <1>1, <2>1, NatSetInduction
<1>4. Has(S)
  <2> HIDE DEF Has
  <2>1. Cardinality(S) \in M
    BY <1>0, <1>3
  <2> QED BY <2>1
<1> QED BY <1>4

(* Every finite set can be put into its order: what sort.Slice may rely *)
(* on.                                                                  *)
LEMMA OrderExists ==
  ASSUME NEW S, NEW R, IsFiniteSet(S), TotalOrder(R, S)
  PROVE  \E s : InOrder(s, S, R)
<1> DEFINE M == {n \in Nat : \A T \in SUBSET S : Cardinality(T) = n => \E s : InOrder(s, T, R)}
<1>0. ASSUME NEW T \in SUBSET S PROVE IsFiniteSet(T) /\ Cardinality(T) \in Nat
  BY FS_Subset, FS_CardinalityType
<1>1. 0 \in M
  <2>1. ASSUME NEW T \in SUBSET S, Cardinality(T) = 0 PROVE \E s : InOrder(s, T, R)
    <3> DEFINE e == [i \in 1 .. 0 |-> 0]
    <3>1. e \in [1 .. 0 -> T] /\ \A i \in 1 .. 0 : FALSE
      OBVIOUS
    <3> HIDE DEF e
    <3>2. InOrder(e, T, R)
      BY <2>1, <3>1 DEF InOrder
    <3> QED BY <3>2
  <2> QED BY <2>1
<1>2. ASSUME NEW n \in Nat, n \in M PROVE n + 1 \in M
  <2>1. ASSUME NEW T \in SUBSET S, Cardinality(T) = n + 1 PROVE \E s : InOrder(s, T, R)
    <3>1. T # {}
      <4>1. Cardinality({}) = 0
        BY FS_EmptySet
      <4> QED BY <2>1, <4>1
    <3>2. PICK m \in T : \A x \in T : x # m => <<x, m>> \in R
      <4>1. IsFiniteSet(T) /\ TotalOrder(R, T)
        BY <1>0, SubOrder
      <4> QED BY <3>1, <4>1, LastElement
    <3>3. PICK U : U = T \ {m}
      OBVIOUS
    <3>4. Cardinality(U) = n
      <4>1. Cardinality(T \ {m}) = IF m \in T THEN Cardinality(T) - 1 ELSE Cardinality(T)
        BY <1>0, FS_RemoveElement
      <4> QED BY <2>1, <3>3, <4>1
    <3>5. PICK s : InOrder(s, U, R)
      BY <1>2, <3>3, <3>4
    <3>6. /\ s \in [1 .. n -> U]
          /\ \A i, j \in 1 .. n : i < j => <<s[i], s[j]>> \in R
      BY <3>4, <3>5 DEF InOrder
    <3> DEFINE t == [i \in 1 .. n + 1 |-> IF i = n + 1 THEN m ELSE s[i]]
    <3>7. t \in [1 .. n + 1 -> T]
      BY <3>3, <3>6
    <3>8. ASSUME NEW i \in 1 .. n + 1, NEW j \in 1 .. n + 1, i < j PROVE <<t[i], t[j]>> \in R
      <4>1. i \in 1 .. n /\ t[i] = s[i] /\ s[i] \in U
        BY <3>6, <3>8
      <4>2. CASE j = n + 1
        BY <3>2, <3>3, <4>1, <4>2
      <4>3. CASE j # n + 1
        <5>1. j \in 1 .. n /\ t[j] = s[j]
          BY <4>3
        <5> QED BY <3>6, <3>8, <4>1, <5>1
      <4> QED BY <4>2, <4>3
    <3> HIDE DEF t
    <3> QED BY <2>1, <3>7, <3>8 DEF InOrder
  <2> QED BY <2>1
<1>3. Nat \subseteq M
  <2>1. \A n \in Nat : n \in M => n + 1 \in M
    BY <1>2
  <2> HIDE DEF M
  <2> QED BY <1>1, <2>1, NatSetInduction
<1> QED BY <1>0, <1>3

(* A set in its order has each element at one place. *)
LEMMA OrderFacts ==
  ASSUME NEW S, NEW R, IsFiniteSet(S), TotalOrder(R, S), NEW s, InOrder(s, S, R)
  PROVE  /\ s \in Seq(S) /\ Len(s) = Cardinality(S) /\ Len(s) \in Nat
         /\ \A x \in S : \E i \in 1 .. Len(s) : s[i] = x
         /\ \A i, j \in 1 .. Len(s) : s[i] = s[j] => i = j
<1>1. PICK n \in Nat : n = Cardinality(S)
  BY FS_CardinalityType
<1>2. s \in [1 .. n -> S] /\ \A i, j \in 1 .. n : i < j => <<s[i], s[j]>> \in R
  BY <1>1 DEF InOrder
<1>3. s \in Seq(S) /\ Len(s) = n
  BY <1>2
<1>4. ASSUME NEW i \in 1 .. n, NEW j \in 1 .. n, s[i] = s[j] PROVE i = j
  <2>1. ~(i < j) /\ ~(j < i)
    BY <1>2, <1>4 DEF TotalOrder
  <2> QED BY <2>1
<1>5. s \in Injection(1 .. n, S)
  BY <1>2, <1>4 DEF Injection, IsInjective
<1>6. IsFiniteSet(1 .. n) /\ Cardinality(1 .. n) = n
  <2>1. 1 \in Int /\ n \in Int
    OBVIOUS
  <2>2. IsFiniteSet(1 .. n) /\ Cardinality(1 .. n) = IF 1 > n THEN 0 ELSE n - 1 + 1
    BY <2>1, FS_Interval
  <2> QED BY <2>2
<1>7. s \in Surjection(1 .. n, S)
  BY <1>1, <1>5, <1>6, FS_Injection
<1> QED BY <1>1, <1>3, <1>4, <1>7 DEF Surjection

(* The order of numbers, as pairs. *)
Less(S) == {p \in S \X S : p[1] < p[2]}

(* s is the set S of numbers, the least first. *)
Increasing(s, S) ==
  /\ s \in [1 .. Cardinality(S) -> S]
  /\ \A i, j \in 1 .. Cardinality(S) : i < j => s[i] < s[j]

(* < is an order of any set of integers. *)
LEMMA LessIsOrder ==
  ASSUME NEW S \in SUBSET Int
  PROVE  TotalOrder(Less(S), S) /\ \A x, y \in S : <<x, y>> \in Less(S) <=> x < y
<1> DEFINE R == Less(S)
<1>1. \A x, y \in S : <<x, y>> \in R <=> x < y
  BY DEF Less
<1> HIDE DEF R
<1>2. ASSUME NEW x \in S PROVE <<x, x>> \notin R
  <2>1. ~(x < x)
    OBVIOUS
  <2> QED BY <1>1, <2>1
<1>3. ASSUME NEW x \in S, NEW y \in S, x # y PROVE <<x, y>> \in R \/ <<y, x>> \in R
  <2>1. x < y \/ y < x
    BY <1>3
  <2> QED BY <1>1, <2>1
<1>4. ASSUME NEW x \in S, NEW y \in S, NEW z \in S, <<x, y>> \in R, <<y, z>> \in R
      PROVE  <<x, z>> \in R
  <2>1. x < y /\ y < z
    BY <1>1, <1>4
  <2>2. x < z
    BY <2>1
  <2> QED BY <1>1, <2>2
<1>5. TotalOrder(R, S)
  BY <1>2, <1>3, <1>4 DEF TotalOrder
<1> QED BY <1>1, <1>5 DEF R

(* Every finite set of integers can be put into a sequence, the least *)
(* first.                                                             *)
LEMMA IncreasingExists ==
  ASSUME NEW S \in SUBSET Int, IsFiniteSet(S)
  PROVE  \E s : Increasing(s, S)
<1>1. PICK s : InOrder(s, S, Less(S))
  BY LessIsOrder, OrderExists
<1>2. Increasing(s, S)
  BY <1>1, LessIsOrder DEF InOrder, Increasing
<1> QED BY <1>2

(* Such a sequence has each number once, the least first. *)
LEMMA IncreasingFacts ==
  ASSUME NEW S \in SUBSET Int, IsFiniteSet(S), NEW s, Increasing(s, S)
  PROVE  /\ s \in Seq(S) /\ Len(s) = Cardinality(S) /\ Len(s) \in Nat
         /\ \A x \in S : \E i \in 1 .. Len(s) : s[i] = x
         /\ \A i, j \in 1 .. Len(s) : i < j => s[i] < s[j]
<1>1. InOrder(s, S, Less(S))
  BY LessIsOrder DEF InOrder, Increasing
<1>2. PICK n : n = Cardinality(S)
  OBVIOUS
<1>3. /\ s \in Seq(S) /\ Len(s) = n /\ Len(s) \in Nat
      /\ \A x \in S : \E i \in 1 .. Len(s) : s[i] = x
  BY <1>1, <1>2, LessIsOrder, OrderFacts
<1>4. \A i, j \in 1 .. n : i < j => s[i] < s[j]
  BY <1>2 DEF Increasing
<1> QED BY <1>2, <1>3, <1>4

(* Sorted gives that sequence when it sorts by <. *)
LEMMA SortedNumbers ==
  ASSUME NEW S \in SUBSET Int, IsFiniteSet(S)
  PROVE  Increasing(Sorted(S, <), S)
<1>1. PICK n : n = Cardinality(S)
  OBVIOUS
<1>2. PICK s \in [1 .. n -> S] : \A i, j \in 1 .. n : i < j => s[i] < s[j]
  BY <1>1, IncreasingExists DEF Increasing
<1>3. PICK u : u = CHOOSE t \in [1 .. n -> S] : \A i, j \in 1 .. n : i < j => t[i] < t[j]
  OBVIOUS
<1>4. u \in [1 .. n -> S] /\ \A i, j \in 1 .. n : i < j => u[i] < u[j]
  BY <1>2, <1>3
<1>5. Increasing(u, S)
  BY <1>1, <1>4 DEF Increasing
<1>6. u = Sorted(S, <)
  BY <1>1, <1>3 DEF Sorted
<1> QED BY <1>5, <1>6, Zenon

(*****************************************************************************)
(* Sequences in one                                                          *)
(*****************************************************************************)
(* f[k] is what the first k of the sequences ss are in one.                  *)
Joins(f, ss, A) ==
  /\ f \in [0 .. Len(ss) -> Seq(A)] /\ f[0] = <<>>
  /\ \A k \in 1 .. Len(ss) : f[k] = f[k - 1] \o ss[k]

(* Where the elements of two sequences are when they are joined. *)
LEMMA ConcatFacts ==
  ASSUME NEW A, NEW s \in Seq(A), NEW t \in Seq(A)
  PROVE  /\ s \o t \in Seq(A) /\ Len(s \o t) = Len(s) + Len(t)
         /\ \A i \in 1 .. Len(s) : (s \o t)[i] = s[i]
         /\ \A i \in 1 .. Len(t) : (s \o t)[Len(s) + i] = t[i]
OBVIOUS

(* All the sequences of a sequence can be joined. *)
LEMMA JoinsExist ==
  ASSUME NEW A, NEW ss \in Seq(Seq(A))
  PROVE  \E f : Joins(f, ss, A)
<1>1. PICK N \in Nat : N = Len(ss)
  OBVIOUS
<1> DEFINE V == Seq(A)
           at(n) == IF n \in 1 .. N THEN ss[n] ELSE <<>>
           step == [n \in Nat |-> [s \in V |-> s \o at(n)]]
<1>2. <<>> \in V /\ step \in [Nat -> [V -> V]]
  <2>1. ASSUME NEW n \in Nat PROVE at(n) \in V
    BY <1>1
  <2> HIDE DEF at
  <2>2. ASSUME NEW n \in Nat, NEW s \in V PROVE s \o at(n) \in V
    BY <2>1
  <2>3. <<>> \in V
    OBVIOUS
  <2> HIDE DEF V
  <2> QED BY <2>2, <2>3
<1>3. PICK f \in [0 .. N -> V] : f[0] = <<>> /\ \A n \in 1 .. N : f[n] = step[n][f[n - 1]]
  <2> HIDE DEF V, step
  <2>1. PICK c \in V : c = <<>>
    BY <1>2
  <2>2. \E f : IteratesUpto(f, N, V, c, step)
    BY <1>2, RecursionUpto
  <2> QED BY <2>1, <2>2 DEF IteratesUpto
<1>4. ASSUME NEW n \in 1 .. N PROVE f[n] = f[n - 1] \o ss[n]
  <2>1. n - 1 \in 0 .. N /\ n \in Nat
    OBVIOUS
  <2>2. f[n - 1] \in V
    BY <2>1
  <2> HIDE DEF V
  <2> QED BY <1>3, <2>1, <2>2
<1> QED BY <1>1, <1>3, <1>4 DEF Joins

(* FlattenSeq is the last of the joins. *)
LEMMA FlattenJoins ==
  ASSUME NEW A, NEW ss \in Seq(Seq(A)), NEW f, Joins(f, ss, A)
  PROVE  FlattenSeq(ss) = f[Len(ss)]
<1>1. PICK N \in Nat : N = Len(ss)
  OBVIOUS
<1>2. /\ f \in [0 .. N -> Seq(A)] /\ f[0] = <<>>
      /\ \A k \in 1 .. N : f[k] = f[k - 1] \o ss[k]
  BY <1>1 DEF Joins
<1>3. CASE N = 0
  <2>1. ss = <<>>
    BY <1>1, <1>3, EmptySeq
  <2> QED BY <1>1, <1>2, <1>3, <2>1 DEF FlattenSeq
<1>4. CASE N # 0
  <2> DEFINE Body(w) == [i \in 1 .. N |-> IF i = 1 THEN ss[i] ELSE w[i - 1] \o ss[i]]
             walk == CHOOSE w : w = Body(w)
  <2>1. FlattenSeq(ss) = walk[N]
    BY <1>1, <1>4 DEF FlattenSeq
  <2>2. f[1] = ss[1]
    <3>1. 1 \in 1 .. N /\ 1 - 1 = 0 /\ ss[1] \in Seq(A)
      BY <1>1, <1>4
    <3>2. f[1] = <<>> \o ss[1]
      BY <1>2, <3>1
    <3>3. <<>> \o ss[1] = ss[1]
      BY <3>1
    <3> QED BY <3>2, <3>3
  <2>3. \E w : w = Body(w)
    <3> DEFINE g == [i \in 1 .. N |-> f[i]]
    <3>1. ASSUME NEW i \in 1 .. N PROVE g[i] = IF i = 1 THEN ss[i] ELSE g[i - 1] \o ss[i]
      <4>1. i # 1 => i - 1 \in 1 .. N
        OBVIOUS
      <4> QED BY <1>2, <2>2, <4>1
    <3>2. g = Body(g)
      BY <3>1
    <3> QED BY <3>2
  <2>4. walk = Body(walk)
    <3> HIDE DEF Body
    <3> QED BY <2>3
  <2> HIDE DEF walk
  <2>5. \A i \in 1 .. N : walk[i] = IF i = 1 THEN ss[i] ELSE walk[i - 1] \o ss[i]
    BY <2>4
  <2> DEFINE S == {i \in 0 .. N : i # 0 => walk[i] = f[i]}
  <2>6. 0 .. N \subseteq S
    <3>1. 0 \in S
      OBVIOUS
    <3>2. ASSUME NEW n \in 0 .. N - 1, n \in S PROVE n + 1 \in S
      <4>1. n + 1 \in 1 .. N /\ (n + 1) - 1 = n /\ n + 1 \in 0 .. N
        OBVIOUS
      <4>2. CASE n = 0
        <5>1. n + 1 = 1 /\ walk[n + 1] = ss[1] /\ f[n + 1] = ss[1]
          BY <2>2, <2>5, <4>1, <4>2
        <5> QED BY <4>1, <5>1
      <4>3. CASE n # 0
        <5>1. n + 1 # 1 /\ walk[n] = f[n]
          BY <3>2, <4>3
        <5>2. walk[n + 1] = walk[n] \o ss[n + 1]
          BY <2>5, <4>1, <5>1
        <5>3. f[n + 1] = f[n] \o ss[n + 1]
          BY <1>2, <4>1
        <5> QED BY <4>1, <5>1, <5>2, <5>3
      <4> QED BY <4>2, <4>3
    <3> HIDE DEF S
    <3> QED BY <3>1, <3>2, IntervalInduction
  <2>7. walk[N] = f[N]
    BY <1>4, <2>6
  <2> QED BY <1>1, <2>1, <2>7
<1> QED BY <1>3, <1>4

(* The first k sequences stay where they were put, whatever comes behind. *)
LEMMA JoinKeeps ==
  ASSUME NEW A, NEW ss \in Seq(Seq(A)), NEW f, Joins(f, ss, A),
         NEW k \in 0 .. Len(ss), NEW n \in k .. Len(ss)
  PROVE  /\ Len(f[k]) <= Len(f[n]) /\ Len(f[k]) \in Nat /\ Len(f[n]) \in Nat
         /\ \A i \in 1 .. Len(f[k]) : f[n][i] = f[k][i]
<1>1. PICK N \in Nat : N = Len(ss)
  OBVIOUS
<1>2. /\ f \in [0 .. N -> Seq(A)]
      /\ \A i \in 1 .. N : f[i] = f[i - 1] \o ss[i]
  BY <1>1 DEF Joins
<1>0. \A i \in 1 .. N : ss[i] \in Seq(A)
  BY <1>1
<1> DEFINE Kept(m) == Len(f[k]) <= Len(f[m]) /\ \A i \in 1 .. Len(f[k]) : f[m][i] = f[k][i]
           S == {d \in 0 .. N - k : Kept(k + d)}
<1>3. k \in Nat /\ k <= N
  BY <1>1
<1>4. \A i \in 0 .. N : f[i] \in Seq(A) /\ Len(f[i]) \in Nat
  BY <1>2
<1>5. 0 .. (N - k) \subseteq S
  <2>1. 0 \in S
    BY <1>3, <1>4
  <2>2. ASSUME NEW d \in 0 .. (N - k) - 1, d \in S PROVE d + 1 \in S
    <3>1. PICK m \in 0 .. N - 1 : m = k + d
      BY <1>3
    <3>2. m + 1 \in 1 .. N /\ (m + 1) - 1 = m /\ k + (d + 1) = m + 1 /\ d + 1 \in 0 .. N - k /\ m \in 0 .. N
      BY <1>3, <3>1
    <3>3. f[m + 1] = f[m] \o ss[m + 1] /\ f[m] \in Seq(A) /\ ss[m + 1] \in Seq(A)
      <4>1. f[m + 1] = f[(m + 1) - 1] \o ss[m + 1]
        BY <1>2, <3>2
      <4> QED BY <1>0, <1>4, <3>2, <4>1
    <3>4. Len(f[m + 1]) = Len(f[m]) + Len(ss[m + 1]) /\ \A i \in 1 .. Len(f[m]) : f[m + 1][i] = f[m][i]
      <4>1. PICK a \in Seq(A), b \in Seq(A) : a = f[m] /\ b = ss[m + 1]
        BY <3>3
      <4>2. Len(a \o b) = Len(a) + Len(b) /\ \A i \in 1 .. Len(a) : (a \o b)[i] = a[i]
        BY ConcatFacts
      <4> QED BY <3>3, <4>1, <4>2
    <3>5. Kept(m)
      BY <2>2, <3>1
    <3>6. Len(f[m]) \in Nat /\ Len(ss[m + 1]) \in Nat /\ Len(f[k]) \in Nat /\ Len(f[m + 1]) \in Nat
      <4>1. k \in 0 .. N /\ m + 1 \in 0 .. N
        BY <1>3, <3>2
      <4>2. Len(f[k]) \in Nat /\ Len(f[m + 1]) \in Nat /\ Len(f[m]) \in Nat
        BY <1>4, <3>2, <4>1
      <4>3. Len(ss[m + 1]) \in Nat
        BY <3>3, LenProperties
      <4> QED BY <4>2, <4>3
    <3>7. Len(f[k]) <= Len(f[m + 1])
      <4>1. PICK p \in Nat, q \in Nat, r \in Nat, u \in Nat :
              p = Len(f[m]) /\ q = Len(ss[m + 1]) /\ r = Len(f[k]) /\ u = Len(f[m + 1])
        BY <3>6
      <4>2. u = p + q /\ r <= p
        BY <3>4, <3>5, <4>1
      <4>3. r <= u
        BY <4>2
      <4> QED BY <4>1, <4>3
    <3>8. ASSUME NEW i \in 1 .. Len(f[k]) PROVE f[m + 1][i] = f[k][i]
      <4>1. i \in 1 .. Len(f[m])
        BY <3>5, <3>6
      <4> QED BY <3>4, <3>5, <4>1
    <3>9. Kept(m + 1)
      BY <3>7, <3>8
    <3> HIDE DEF Kept
    <3> QED BY <3>2, <3>9
  <2>3. N - k \in Nat
    BY <1>3
  <2> HIDE DEF S
  <2> QED BY <2>1, <2>2, <2>3, IntervalInduction
<1>6. n - k \in 0 .. (N - k) /\ k + (n - k) = n
  BY <1>1, <1>3
<1>7. n - k \in S
  <2> HIDE DEF S
  <2> QED BY <1>5, <1>6
<1>8. Kept(n)
  BY <1>6, <1>7
<1>9. k \in 0 .. N /\ n \in 0 .. N
  BY <1>1, <1>3
<1> QED BY <1>4, <1>8, <1>9

(* The k-th sequence, in the first n of them joined. *)
Window(f, ss, k, n, A) ==
  /\ Len(f[k]) = Len(f[k - 1]) + Len(ss[k]) /\ Len(f[k]) <= Len(f[n])
  /\ Len(f[k - 1]) \in Nat /\ Len(f[k]) \in Nat /\ Len(f[n]) \in Nat /\ f[n] \in Seq(A)
  /\ \A j \in 1 .. Len(ss[k]) : f[n][Len(f[k - 1]) + j] = ss[k][j]

(* The k-th sequence is read back from where it was put. *)
LEMMA JoinWindow ==
  ASSUME NEW A, NEW ss \in Seq(Seq(A)), NEW f, Joins(f, ss, A),
         NEW k \in 1 .. Len(ss), NEW n \in k .. Len(ss)
  PROVE  Window(f, ss, k, n, A)
<1>1. PICK N \in Nat : N = Len(ss)
  OBVIOUS
<1>2. /\ k \in 1 .. N /\ k - 1 \in 0 .. N /\ k \in 0 .. N /\ n \in 0 .. N
      /\ k \in 0 .. Len(ss) /\ n \in k .. Len(ss)
  BY <1>1
<1>3. f[k] = f[k - 1] \o ss[k] /\ f[k - 1] \in Seq(A) /\ ss[k] \in Seq(A) /\ f[n] \in Seq(A)
  <2>1. \A i \in 0 .. N : f[i] \in Seq(A)
    BY <1>1 DEF Joins
  <2>2. f[k] = f[k - 1] \o ss[k]
    BY <1>1, <1>2 DEF Joins
  <2> QED BY <1>2, <2>1, <2>2
<1>4. /\ Len(f[k]) = Len(f[k - 1]) + Len(ss[k])
      /\ \A j \in 1 .. Len(ss[k]) : f[k][Len(f[k - 1]) + j] = ss[k][j]
  <2>1. PICK a \in Seq(A), b \in Seq(A) : a = f[k - 1] /\ b = ss[k]
    BY <1>3
  <2>2. Len(a \o b) = Len(a) + Len(b) /\ \A i \in 1 .. Len(b) : (a \o b)[Len(a) + i] = b[i]
    BY ConcatFacts
  <2> QED BY <1>3, <2>1, <2>2
<1>5. /\ Len(f[k]) <= Len(f[n]) /\ Len(f[k]) \in Nat /\ Len(f[n]) \in Nat
      /\ \A i \in 1 .. Len(f[k]) : f[n][i] = f[k][i]
  BY <1>2, JoinKeeps
<1>6. Len(f[k - 1]) \in Nat /\ Len(ss[k]) \in Nat /\ Len(f[k]) \in Nat
  BY <1>3, <1>5, LenProperties
<1>7. ASSUME NEW j \in 1 .. Len(ss[k]) PROVE f[n][Len(f[k - 1]) + j] = ss[k][j]
  <2>1. Len(f[k - 1]) + j \in 1 .. Len(f[k])
    <3>1. PICK p \in Nat, q \in Nat, r \in Nat : p = Len(f[k - 1]) /\ q = Len(ss[k]) /\ r = Len(f[k])
      BY <1>6
    <3>2. r = p + q /\ j \in 1 .. q
      BY <1>4, <3>1
    <3>3. p + j \in 1 .. r
      BY <3>2
    <3> QED BY <3>1, <3>3
  <2> QED BY <1>4, <1>5, <2>1
<1> QED BY <1>3, <1>4, <1>5, <1>6, <1>7 DEF Window

(* Every sequence is where it was put. *)
WindowOf(f, ss, A) == \A n \in 0 .. Len(ss) : \A k \in 1 .. n : Window(f, ss, k, n, A)

(* Every sequence is read back from where it was put. *)
LEMMA JoinWindows ==
  ASSUME NEW A, NEW ss \in Seq(Seq(A)), NEW f, Joins(f, ss, A)
  PROVE  WindowOf(f, ss, A)
<1>1. PICK N \in Nat : N = Len(ss)
  BY LenProperties
<1> SUFFICES ASSUME NEW n \in 0 .. N, NEW k \in 1 .. n PROVE Window(f, ss, k, n, A)
  BY <1>1 DEF WindowOf
<1>2. k \in 1 .. Len(ss) /\ n \in k .. Len(ss)
  BY <1>1
<1> QED BY <1>2, JoinWindow

(* The first m sequences joined are FlattenSeq of the first m. *)
LEMMA JoinFirst ==
  ASSUME NEW A, NEW ss \in Seq(Seq(A)), NEW f, Joins(f, ss, A), NEW m \in 0 .. Len(ss)
  PROVE  FlattenSeq(SubSeq(ss, 1, m)) = f[m]
<1>1. PICK N \in Nat : N = Len(ss)
  OBVIOUS
<1>2. PICK t : t = SubSeq(ss, 1, m)
  OBVIOUS
<1>3. t \in Seq(Seq(A)) /\ Len(t) = m /\ m \in Nat /\ m <= N /\ \A i \in 1 .. m : t[i] = ss[i]
  BY <1>1, <1>2
<1> DEFINE g == [i \in 0 .. m |-> f[i]]
<1>4. g \in [0 .. m -> Seq(A)] /\ g[0] = <<>> /\ \A i \in 0 .. m : g[i] = f[i]
  <2>1. \A i \in 0 .. N : f[i] \in Seq(A)
    BY <1>1 DEF Joins
  <2>2. \A i \in 0 .. m : i \in 0 .. N
    BY <1>3
  <2>3. 0 \in 0 .. m /\ f[0] = <<>>
    BY <1>3 DEF Joins
  <2> QED BY <2>1, <2>2, <2>3
<1> HIDE DEF g
<1>5. ASSUME NEW k \in 1 .. m PROVE g[k] = g[k - 1] \o t[k]
  <2>1. k \in 1 .. N /\ k \in 0 .. m /\ k - 1 \in 0 .. m
    BY <1>3
  <2>2. f[k] = f[k - 1] \o ss[k]
    BY <1>1, <2>1 DEF Joins
  <2> QED BY <1>3, <1>4, <2>1, <2>2
<1>6. Joins(g, t, A)
  BY <1>3, <1>4, <1>5 DEF Joins
<1>7. FlattenSeq(t) = g[m]
  BY <1>3, <1>6, FlattenJoins
<1>8. m \in 0 .. m
  BY <1>3
<1> QED BY <1>2, <1>4, <1>7, <1>8

(* What SubSeq cuts out, element by element. *)
LEMMA Slice ==
  ASSUME NEW A, NEW s \in Seq(A), NEW p \in Nat, NEW m \in Nat, p + m <= Len(s)
  PROVE  /\ SubSeq(s, p + 1, p + m) \in Seq(A) /\ Len(SubSeq(s, p + 1, p + m)) = m
         /\ \A j \in 1 .. m : SubSeq(s, p + 1, p + m)[j] = s[p + j]
<1>1. PICK c \in Nat : c = Len(s)
  BY LenProperties
<1>2. PICK a \in Int, b \in Int : a = p + 1 /\ b = p + m
  OBVIOUS
<1>3. \A i \in a .. b : s[i] \in A
  BY <1>1, <1>2, LenProperties
<1>4. /\ SubSeq(s, a, b) \in Seq(A)
      /\ Len(SubSeq(s, a, b)) = IF a <= b THEN b - a + 1 ELSE 0
      /\ \A i \in 1 .. b - a + 1 : SubSeq(s, a, b)[i] = s[a + i - 1]
  BY <1>3, SubSeqProperties
<1>5. b - a + 1 = m /\ (a <= b \/ m = 0) /\ (m = 0 => ~(a <= b))
  BY <1>2
<1>6. \A j \in 1 .. m : a + j - 1 = p + j
  BY <1>2
<1> QED BY <1>2, <1>4, <1>5, <1>6

(* w goes where g goes, as long as it has gone there. *)
Follows(w, g, N) == w[0] = g[0] /\ \A n \in 1 .. N : w[n - 1] = g[n - 1] => w[n] = g[n]

(* Two functions with the same start and the same steps are the same up to *)
(* N.                                                                      *)
LEMMA SameUpto ==
  ASSUME NEW N \in Nat, NEW w, NEW g, Follows(w, g, N)
  PROVE  \A n \in 0 .. N : w[n] = g[n]
<1> USE DEF Follows
<1> DEFINE S == {n \in 0 .. N : w[n] = g[n]}
<1>1. 0 \in S
  OBVIOUS
<1>2. ASSUME NEW n \in 0 .. N - 1, n \in S PROVE n + 1 \in S
  <2>1. n + 1 \in 1 .. N /\ (n + 1) - 1 = n /\ n + 1 \in 0 .. N
    OBVIOUS
  <2> QED BY <1>2, <2>1
<1>3. 0 .. N \subseteq S
  <2> HIDE DEF S
  <2> QED BY <1>1, <1>2, IntervalInduction
<1> QED BY <1>3

(*****************************************************************************)
(* The string table and its tuples                                           *)
(*****************************************************************************)
(* A string table: its indices leave NoTableEntry free                       *)
(* (strtable.go:49-79).                                                      *)
IsTable(table) == table \in Seq(Seq(Nat)) /\ Len(table) < NoTableEntry

(* The cells from off on are those of s. *)
HoldsAt(cells, off, s) ==
  /\ off \in Nat /\ off + Len(s) <= Len(cells)
  /\ \A j \in 1 .. Len(s) : cells[off + j] = s[j]

(* A token is written as the index of a table entry, or as its length and *)
(* its bytes, and the first is never taken for the second.                *)
LEMMA TupleFacts ==
  ASSUME NEW table, IsTable(table), NEW tok \in Seq(Nat), Len(tok) < LengthLimit
  PROVE  /\ TokenTuple(tok, table) \in Seq(Nat)
         /\ \/ \E i \in 1 .. Len(table) :
                 /\ table[i] = tok
                 /\ Len(TokenTuple(tok, table)) = 2
                 /\ TokenTuple(tok, table)[1] = i - 1 /\ TokenTuple(tok, table)[2] = 0
            \/ /\ Len(TokenTuple(tok, table)) = 2 + Len(tok)
               /\ TokenTuple(tok, table)[1] = NoTableEntry /\ TokenTuple(tok, table)[2] = Len(tok)
               /\ \A j \in 1 .. Len(tok) : TokenTuple(tok, table)[2 + j] = tok[j]
<1>1. Len(tok) \in Nat /\ LengthLimit \in Nat /\ LengthLimit # 0 /\ Len(table) \in Nat
  BY NameIndexAssumption, LenProperties DEF IsTable
<1>2. CASE Lookup(table, tok) # {}
  <2>1. PICK i : i = CHOOSE k \in Lookup(table, tok) : TRUE
    OBVIOUS
  <2>2. i \in 1 .. Len(table) /\ table[i] = tok
    BY <1>2, <2>1 DEF Lookup
  <2>3. TokenTuple(tok, table) = <<i - 1, 0>>
    BY <1>2, <2>1 DEF TokenTuple
  <2>4. i - 1 \in Nat
    BY <1>1, <2>2
  <2> QED BY <2>2, <2>3, <2>4
<1>3. CASE Lookup(table, tok) = {}
  <2>1. PICK m \in Nat : m = Len(tok)
    BY <1>1
  <2>2. m % LengthLimit = m
    BY <1>1, <2>1
  <2>3. TokenTuple(tok, table) = <<NoTableEntry, m>> \o tok
    BY <1>3, <2>1, <2>2 DEF TokenTuple
  <2>4. <<NoTableEntry, m>> \in Seq(Nat) /\ Len(<<NoTableEntry, m>>) = 2
    BY DEF NoTableEntry
  <2>5. PICK h \in Seq(Nat) : h = <<NoTableEntry, m>>
    BY <2>4
  <2>6. /\ h \o tok \in Seq(Nat) /\ Len(h \o tok) = Len(h) + Len(tok)
        /\ \A i \in 1 .. Len(h) : (h \o tok)[i] = h[i]
        /\ \A i \in 1 .. Len(tok) : (h \o tok)[Len(h) + i] = tok[i]
    BY ConcatFacts
  <2>7. Len(h) = 2 /\ h[1] = NoTableEntry /\ h[2] = m
    BY <2>5
  <2> QED BY <2>1, <2>3, <2>5, <2>6, <2>7
<1> QED BY <1>2, <1>3

(* The cells and the table of an index section. *)
IsSection(section) == section.cells \in Seq(Nat) /\ IsTable(section.table)

(* A token whose length the tuple's field holds. *)
TokenFits(tok) == tok \in Seq(Nat) /\ Len(tok) < LengthLimit

(* One tuple is read back as its token, and the reader stands behind it. *)
LEMMA TupleStepRight ==
  ASSUME NEW section, IsSection(section), NEW tok, TokenFits(tok), NEW key \in Seq(Nat),
         NEW p, HoldsAt(section.cells, p, TokenTuple(tok, section.table))
  PROVE  DecodeTuple(section, Decoded(0, key, p))
           = Decoded(0, key \o tok, p + Len(TokenTuple(tok, section.table)))
<1>0. PICK table, cells : section.table = table /\ section.cells = cells /\ IsTable(table)
                             /\ cells \in Seq(Nat)
  BY DEF IsSection
<1>7. tok \in Seq(Nat) /\ Len(tok) < LengthLimit /\ HoldsAt(cells, p, TokenTuple(tok, table))
  BY <1>0 DEF TokenFits
<1>1. PICK t \in Seq(Nat) : t = TokenTuple(tok, table)
  BY <1>0, <1>7, TupleFacts
<1>2. PICK m \in Nat, n \in Nat, c \in Nat : m = Len(tok) /\ n = Len(t) /\ c = Len(cells)
  BY <1>7, <1>1, <1>0, LenProperties
<1>3. p \in Nat /\ p + n <= c /\ \A j \in 1 .. n : cells[p + j] = t[j]
  BY <1>1, <1>2, <1>7 DEF HoldsAt
<1>4. CASE \E i \in 1 .. Len(table) : table[i] = tok /\ n = 2 /\ t[1] = i - 1 /\ t[2] = 0
  <2>1. PICK i \in 1 .. Len(table) : table[i] = tok /\ n = 2 /\ t[1] = i - 1 /\ t[2] = 0
    BY <1>4
  <2>2. cells[p + 1] = i - 1 /\ cells[p + 2] = 0
    BY <1>3, <2>1
  <2>3. Len(table) \in Nat /\ i - 1 # NoTableEntry /\ ~(i - 1 >= Len(table)) /\ (i - 1) + 1 = i
    <3>1. PICK v \in Nat : v = Len(table) /\ v < NoTableEntry
      BY <1>0, LenProperties DEF IsTable
    <3> QED BY <2>1, <3>1 DEF NoTableEntry
  <2>4. SubSeq(cells, p + 3, p + 2 + 0) = <<>>
    BY <1>3
  <2>5. (key \o tok) \o <<>> = key \o tok
    BY <1>7
  <2>6. ~(p + 2 > c) /\ ~(p + 2 + 0 > c) /\ p + 2 + 0 = p + n
    BY <1>3, <2>1
  <2>7. DecodeTuple(section, Decoded(0, key, p)) = Decoded(0, (key \o tok) \o <<>>, p + 2 + 0)
    BY <1>0, <1>2, <2>1, <2>2, <2>3, <2>4, <2>6 DEF DecodeTuple, Decoded
  <2> QED BY <1>0, <1>1, <1>2, <2>5, <2>6, <2>7
<1>5. CASE n = 2 + m /\ t[1] = NoTableEntry /\ t[2] = m /\ \A j \in 1 .. m : t[2 + j] = tok[j]
  <2>1. cells[p + 1] = NoTableEntry /\ cells[p + 2] = m
    BY <1>3, <1>5
  <2>2. SubSeq(cells, p + 3, p + 2 + m) = tok
    <3>1. PICK q \in Nat : q = p + 2
      BY <1>3
    <3>2. q + m <= Len(cells) /\ q + 1 = p + 3 /\ q + m = p + 2 + m
      BY <1>2, <1>3, <1>5, <3>1
    <3>5. PICK s : s = SubSeq(cells, q + 1, q + m)
      OBVIOUS
    <3>6. s \in Seq(Nat) /\ Len(s) = m /\ \A j \in 1 .. m : s[j] = cells[q + j]
      <4>1. q + m <= Len(cells) /\ cells \in Seq(Nat)
        BY <1>0, <3>2
      <4>2. /\ SubSeq(cells, q + 1, q + m) \in Seq(Nat) /\ Len(SubSeq(cells, q + 1, q + m)) = m
            /\ \A j \in 1 .. m : SubSeq(cells, q + 1, q + m)[j] = cells[q + j]
        BY <4>1, Slice
      <4> QED BY <3>5, <4>2
    <3>3. ASSUME NEW j \in 1 .. m PROVE s[j] = tok[j]
      <4>1. 2 + j \in 1 .. n /\ q + j = p + (2 + j)
        BY <1>3, <1>5, <3>1
      <4> QED BY <1>3, <1>5, <3>6, <4>1
    <3>4. s = tok
      BY <1>2, <1>7, <3>6, <3>3, SeqEqual
    <3> QED BY <3>2, <3>5, <3>4
  <2>3. (key \o <<>>) \o tok = key \o tok
    BY <1>7
  <2>4. ~(p + 2 > c) /\ ~(p + 2 + m > c) /\ p + 2 + m = p + n
    BY <1>3, <1>5
  <2>5. DecodeTuple(section, Decoded(0, key, p)) = Decoded(0, (key \o <<>>) \o tok, p + 2 + m)
    BY <1>0, <1>2, <2>1, <2>2, <2>4 DEF DecodeTuple, Decoded
  <2> QED BY <1>0, <1>1, <1>2, <2>3, <2>4, <2>5
<1>6. \/ \E i \in 1 .. Len(table) :
           table[i] = tok /\ Len(TokenTuple(tok, table)) = 2
             /\ TokenTuple(tok, table)[1] = i - 1 /\ TokenTuple(tok, table)[2] = 0
      \/ /\ Len(TokenTuple(tok, table)) = 2 + Len(tok)
         /\ TokenTuple(tok, table)[1] = NoTableEntry /\ TokenTuple(tok, table)[2] = Len(tok)
         /\ \A j \in 1 .. Len(tok) : TokenTuple(tok, table)[2 + j] = tok[j]
  BY <1>0, <1>7, TupleFacts
<1> QED BY <1>0, <1>1, <1>2, <1>4, <1>5, <1>6

(* The tuples, one by one. *)
TupleCells(tokens, table) == [k \in 1 .. Len(tokens) |-> TokenTuple(tokens[k], table)]

(* Tokens that all fit. *)
TokensFit(tokens) ==
  tokens \in Seq(Seq(Nat)) /\ \A k \in 1 .. Len(tokens) : TokenFits(tokens[k])

(* Tuples are the tuples one by one, joined. *)
LEMMA TuplesFlatten ==
  ASSUME NEW table, IsTable(table), NEW tokens, TokensFit(tokens)
  PROVE  /\ TupleCells(tokens, table) \in Seq(Seq(Nat))
         /\ Len(TupleCells(tokens, table)) = Len(tokens)
         /\ Tuples(tokens, table) = FlattenSeq(TupleCells(tokens, table))
<1>1. PICK n \in Nat : n = Len(tokens)
  BY LenProperties DEF TokensFit
<1>2. \A k \in 1 .. n : TokenTuple(tokens[k], table) \in Seq(Nat)
  BY <1>1, TupleFacts DEF TokensFit, TokenFits
<1>3. TupleCells(tokens, table) \in [1 .. n -> Seq(Nat)]
  BY <1>1, <1>2 DEF TupleCells
<1>4. Tuples(tokens, table) = FlattenSeq(TupleCells(tokens, table))
  BY DEF Tuples, TupleCells
<1> QED BY <1>1, <1>3, <1>4

(* What DecodeTuples holds after t of the tuples. *)
TuplesRead(off, f, g, n) == [t \in 0 .. n |-> Decoded(0, f[t], off + Len(g[t]))]

(* Reading the t-th tuple takes DecodeTuples from its t-th state to the *)
(* next.                                                                *)
LEMMA TuplesReadStep ==
  ASSUME NEW section, IsSection(section), NEW tokens, TokensFit(tokens), NEW off,
         HoldsAt(section.cells, off, Tuples(tokens, section.table)),
         NEW f, Joins(f, tokens, Nat), NEW g, Joins(g, TupleCells(tokens, section.table), Nat),
         NEW t \in 1 .. Len(tokens)
  PROVE  Decoded(0, f[t], off + Len(g[t]))
           = DecodeTuple(section, Decoded(0, f[t - 1], off + Len(g[t - 1])))
<1>1. PICK n \in Nat, c \in Nat : n = Len(tokens) /\ c = Len(section.cells)
  BY LenProperties DEF TokensFit, IsSection
<1>2. PICK ss \in Seq(Seq(Nat)) : ss = TupleCells(tokens, section.table)
  BY TuplesFlatten DEF IsSection
<1>3. Len(ss) = n /\ Tuples(tokens, section.table) = FlattenSeq(ss) /\ ss[t] = TokenTuple(tokens[t], section.table)
      /\ Joins(g, ss, Nat)
  BY <1>1, <1>2, TuplesFlatten DEF TupleCells, IsSection
<1>4. FlattenSeq(ss) = g[n]
  BY <1>3, FlattenJoins
<1>5. /\ Len(g[t]) = Len(g[t - 1]) + Len(ss[t]) /\ Len(g[t]) <= Len(g[n])
      /\ Len(g[t - 1]) \in Nat /\ Len(g[t]) \in Nat /\ Len(g[n]) \in Nat /\ g[n] \in Seq(Nat)
      /\ \A j \in 1 .. Len(ss[t]) : g[n][Len(g[t - 1]) + j] = ss[t][j]
  <2>1. WindowOf(g, ss, Nat)
    BY <1>3, JoinWindows
  <2>2. n \in 0 .. Len(ss) /\ t \in 1 .. n
    BY <1>1, <1>3
  <2>3. Window(g, ss, t, n, Nat)
    BY <2>1, <2>2 DEF WindowOf
  <2> QED BY <2>3 DEF Window
<1>6. off \in Nat /\ off + Len(g[n]) <= c /\ \A j \in 1 .. Len(g[n]) : section.cells[off + j] = g[n][j]
  BY <1>1, <1>3, <1>4 DEF HoldsAt
<1>7. PICK x \in Nat, y \in Nat, z \in Nat, v \in Nat :
        x = Len(g[t - 1]) /\ y = Len(g[t]) /\ z = Len(g[n]) /\ v = Len(ss[t])
  <2>1. ss[t] \in Seq(Nat)
    BY <1>1, <1>2, <1>3
  <2> QED BY <1>5, <2>1, LenProperties
<1>14. y = x + v /\ y <= z /\ off \in Nat /\ off + z <= c
  BY <1>5, <1>6, <1>7
<1>15. off + x \in Nat /\ (off + x) + v <= c /\ (off + x) + v = off + y
       /\ \A j \in 1 .. v : x + j \in 1 .. z /\ (off + x) + j = off + (x + j)
  BY <1>14
<1>8. HoldsAt(section.cells, off + x, ss[t])
  <2>1. ASSUME NEW j \in 1 .. v PROVE section.cells[(off + x) + j] = ss[t][j]
    BY <1>5, <1>6, <1>7, <1>15
  <2> QED BY <1>1, <1>7, <1>15, <2>1 DEF HoldsAt
<1>9. TokenFits(tokens[t]) /\ tokens[t] \in Seq(Nat)
  BY <1>1 DEF TokensFit
<1>16. f[t - 1] \in Seq(Nat) /\ f[t] = f[t - 1] \o tokens[t]
  <2>1. t - 1 \in 0 .. Len(tokens)
    BY <1>1
  <2> QED BY <2>1 DEF Joins
<1>10. PICK p \in Nat, key \in Seq(Nat), tok \in Seq(Nat) :
         p = off + x /\ key = f[t - 1] /\ tok = tokens[t]
  BY <1>15, <1>9, <1>16
<1>11. HoldsAt(section.cells, p, TokenTuple(tok, section.table)) /\ TokenFits(tok)
  BY <1>3, <1>8, <1>9, <1>10
<1>12. DecodeTuple(section, Decoded(0, key, p))
         = Decoded(0, key \o tok, p + Len(TokenTuple(tok, section.table)))
  BY <1>11, TupleStepRight
<1>13. p + Len(TokenTuple(tok, section.table)) = off + y /\ off + Len(g[t]) = off + y
       /\ off + Len(g[t - 1]) = p
  BY <1>3, <1>7, <1>10, <1>15
<1> QED BY <1>16, <1>10, <1>12, <1>13

(* The tuples of tokens that fit are read back as the tokens joined, *)
(* wherever they are in the section.                                 *)
LEMMA DecodeTuplesRight ==
  ASSUME NEW section, IsSection(section), NEW tokens, TokensFit(tokens), NEW off,
         HoldsAt(section.cells, off, Tuples(tokens, section.table))
  PROVE  DecodeTuples(section, off, Len(tokens))
           = Decoded(0, FlattenSeq(tokens), off + Len(Tuples(tokens, section.table)))
<1>1. PICK n \in Nat : n = Len(tokens)
  BY LenProperties DEF TokensFit
<1>2. PICK f : Joins(f, tokens, Nat)
  BY JoinsExist DEF TokensFit
<1>3. PICK g : Joins(g, TupleCells(tokens, section.table), Nat)
  BY TuplesFlatten, JoinsExist DEF IsSection
<1>4. FlattenSeq(tokens) = f[n]
  BY <1>1, <1>2, FlattenJoins DEF TokensFit
<1>5. Tuples(tokens, section.table) = g[n]
  BY <1>1, <1>3, TuplesFlatten, FlattenJoins DEF IsSection
<1>6. f[0] = <<>> /\ g[0] = <<>> /\ off \in Nat
  BY <1>2, <1>3 DEF Joins, HoldsAt
<1> DEFINE Body(w) == [t \in 0 .. n |->
             IF t = 0 THEN Decoded(0, <<>>, off)
             ELSE DecodeTuple(section, w[t - 1])]
           good == TuplesRead(off, f, g, n)
<1>7. good = Body(good)
  <2>1. \A t \in 1 .. n : good[t] = DecodeTuple(section, good[t - 1])
    <3> TAKE t \in 1 .. n
    <3>1. t \in 0 .. n /\ t - 1 \in 0 .. n
      OBVIOUS
    <3>2. good[t] = Decoded(0, f[t], off + Len(g[t]))
          /\ good[t - 1] = Decoded(0, f[t - 1], off + Len(g[t - 1]))
      BY <3>1 DEF TuplesRead
    <3>3. Decoded(0, f[t], off + Len(g[t]))
           = DecodeTuple(section, Decoded(0, f[t - 1], off + Len(g[t - 1])))
      <4>1. t \in 1 .. Len(tokens)
        BY <1>1
      <4> HIDE DEF good, Body
      <4> QED BY <4>1, <1>2, <1>3, TuplesReadStep
    <3> QED BY <3>2, <3>3
  <2>2. good[0] = Decoded(0, <<>>, off)
    <3>1. Len(g[0]) = 0 /\ 0 \in 0 .. n
      BY <1>6
    <3>2. good[0] = Decoded(0, f[0], off + Len(g[0]))
      BY <3>1 DEF TuplesRead
    <3>3. off + Len(g[0]) = off
      BY <1>6, <3>1
    <3>4. good[0] = Decoded(0, <<>>, off)
      BY <1>6, <3>2, <3>3
    <3> QED BY <3>4
  <2>3. good = [t \in 0 .. n |-> good[t]]
    BY DEF TuplesRead
  <2>4. \A t \in 0 .. n : good[t] = IF t = 0 THEN Decoded(0, <<>>, off)
             ELSE DecodeTuple(section, good[t - 1])
    <3> HIDE DEF good
    <3> QED BY <2>1, <2>2
  <2> HIDE DEF good
  <2> QED BY <2>3, <2>4
<1>8. PICK walk : walk = CHOOSE w : w = Body(w)
  OBVIOUS
<1>9. DecodeTuples(section, off, n) = walk[n]
  BY <1>8 DEF DecodeTuples
<1>10. walk = Body(walk)
  <2> HIDE DEF Body, good
  <2> QED BY <1>7, <1>8
<1>11. \A t \in 0 .. n : walk[t] = good[t]
  <2>1. walk[0] = good[0]
    <3> HIDE DEF good
    <3>1. \A w : Body(w)[0] = Decoded(0, <<>>, off)
      OBVIOUS
    <3> HIDE DEF Body
    <3> QED BY <1>7, <1>10, <3>1
  <2>2. \A t \in 1 .. n : walk[t - 1] = good[t - 1] => walk[t] = good[t]
    <3> TAKE t \in 1 .. n
    <3> HIDE DEF good
    <3>1. \A w : Body(w)[t] = DecodeTuple(section, w[t - 1])
      OBVIOUS
    <3> HIDE DEF Body
    <3> QED BY <1>7, <1>10, <3>1
  <2> HIDE DEF good
  <2>3. PICK h : h = good
    OBVIOUS
  <2>4. walk[0] = h[0] /\ \A t \in 1 .. n : walk[t - 1] = h[t - 1] => walk[t] = h[t]
    BY <2>1, <2>2, <2>3
  <2>6. Follows(walk, h, n)
    BY <2>4 DEF Follows
  <2>5. \A t \in 0 .. n : walk[t] = h[t]
    BY <2>6, SameUpto
  <2> QED BY <2>3, <2>5
<1>12. good[n] = Decoded(0, f[n], off + Len(g[n]))
  BY DEF TuplesRead
<1> HIDE DEF good
<1> QED BY <1>1, <1>4, <1>5, <1>9, <1>11, <1>12

(*****************************************************************************)
(* A key and its tokens                                                      *)
(*****************************************************************************)
(* The places where s is cut into n pieces.                                  *)
Marks(mark, n, s) ==
  /\ mark \in [0 .. n -> 0 .. Len(s)] /\ mark[0] = 0 /\ mark[n] = Len(s)
  /\ \A k \in 1 .. n : mark[k - 1] <= mark[k]

(* The pieces. *)
Pieces(mark, n, s) == [k \in 1 .. n |-> SubSeq(s, mark[k - 1] + 1, mark[k])]

(* What lies between two marks, element by element. *)
LEMMA SliceBetween ==
  ASSUME NEW A, NEW s \in Seq(A), NEW a \in 0 .. Len(s), NEW b \in 0 .. Len(s), a <= b
  PROVE  /\ SubSeq(s, a + 1, b) \in Seq(A) /\ Len(SubSeq(s, a + 1, b)) = b - a
         /\ \A j \in 1 .. b - a : SubSeq(s, a + 1, b)[j] = s[a + j]
<1>1. PICK m \in Nat, p \in Nat : p = a /\ b = p + m /\ m = b - a /\ p + m <= Len(s)
  <2>1. Len(s) \in Nat
    BY LenProperties
  <2>2. a \in Nat /\ b - a \in Nat /\ b = a + (b - a) /\ b <= Len(s)
    BY <2>1
  <2> QED BY <2>2
<1>2. /\ SubSeq(s, p + 1, p + m) \in Seq(A) /\ Len(SubSeq(s, p + 1, p + m)) = m
      /\ \A j \in 1 .. m : SubSeq(s, p + 1, p + m)[j] = s[p + j]
  BY <1>1, Slice
<1> QED BY <1>1, <1>2

(* A slice from the start and the slice behind it are one slice. *)
LEMMA SliceJoin ==
  ASSUME NEW A, NEW s \in Seq(A), NEW a \in 0 .. Len(s), NEW b \in 0 .. Len(s), a <= b
  PROVE  SubSeq(s, 1, a) \o SubSeq(s, a + 1, b) = SubSeq(s, 1, b)
<1>1. PICK c \in Nat : c = Len(s)
  BY LenProperties
<1>7. PICK x, y, z :
        x = SubSeq(s, 1, a) /\ y = SubSeq(s, a + 1, b) /\ z = SubSeq(s, 1, b)
  OBVIOUS
<1>8. a \in 0 .. c /\ b \in 0 .. c /\ a - 0 = a /\ b - 0 = b /\ 0 + 1 = 1
      /\ 0 \in 0 .. Len(s) /\ 0 <= a /\ 0 <= b /\ b - a \in Nat /\ a \in Nat /\ b \in Nat
  BY <1>1
<1>9. x \in Seq(A) /\ Len(x) = a /\ \A j \in 1 .. a : x[j] = s[j]
  <2>1. /\ SubSeq(s, 0 + 1, a) \in Seq(A) /\ Len(SubSeq(s, 0 + 1, a)) = a - 0
        /\ \A j \in 1 .. a - 0 : SubSeq(s, 0 + 1, a)[j] = s[0 + j]
    BY <1>8, SliceBetween
  <2>2. \A j \in 1 .. a : 0 + j = j
    BY <1>8
  <2> QED BY <1>7, <1>8, <2>1, <2>2
<1>10. z \in Seq(A) /\ Len(z) = b /\ \A j \in 1 .. b : z[j] = s[j]
  <2>1. /\ SubSeq(s, 0 + 1, b) \in Seq(A) /\ Len(SubSeq(s, 0 + 1, b)) = b - 0
        /\ \A j \in 1 .. b - 0 : SubSeq(s, 0 + 1, b)[j] = s[0 + j]
    BY <1>8, SliceBetween
  <2>2. \A j \in 1 .. b : 0 + j = j
    BY <1>8
  <2> QED BY <1>7, <1>8, <2>1, <2>2
<1>11. y \in Seq(A) /\ Len(y) = b - a /\ \A j \in 1 .. b - a : y[j] = s[a + j]
  BY <1>7, SliceBetween
<1>2. x \in Seq(A) /\ y \in Seq(A) /\ z \in Seq(A) /\ Len(x) = a /\ Len(y) = b - a /\ Len(z) = b
  BY <1>9, <1>10, <1>11
<1>12. PICK w : w = x \o y
  OBVIOUS
<1>3. /\ w \in Seq(A) /\ Len(w) = Len(x) + Len(y)
      /\ \A i \in 1 .. Len(x) : w[i] = x[i]
      /\ \A i \in 1 .. Len(y) : w[Len(x) + i] = y[i]
  <2>1. PICK u \in Seq(A), v \in Seq(A) : u = x /\ v = y
    BY <1>2
  <2>2. /\ u \o v \in Seq(A) /\ Len(u \o v) = Len(u) + Len(v)
        /\ \A i \in 1 .. Len(u) : (u \o v)[i] = u[i]
        /\ \A i \in 1 .. Len(v) : (u \o v)[Len(u) + i] = v[i]
    BY ConcatFacts
  <2> QED BY <2>1, <2>2, <1>12
<1>4. Len(w) = b
  BY <1>1, <1>2, <1>3
<1>5. ASSUME NEW j \in 1 .. b PROVE w[j] = z[j]
  <2>1. CASE j <= a
    <3>1. j \in 1 .. a /\ j \in 1 .. b
      BY <1>8, <2>1
    <3>2. w[j] = x[j]
      BY <1>2, <1>3, <3>1
    <3> QED BY <1>9, <1>10, <3>1, <3>2
  <2>2. CASE j > a
    <3>1. PICK i \in 1 .. b - a : i = j - a /\ a + i = j
      BY <1>8, <2>2
    <3>2. w[a + i] = y[i] /\ y[i] = s[a + i]
      BY <1>3, <1>9, <1>11
    <3>3. w[j] = s[j]
      BY <3>1, <3>2
    <3>4. z[j] = s[j]
      BY <1>10
    <3> QED BY <3>3, <3>4
  <2> QED BY <1>8, <2>1, <2>2
<1>6. w = z
  <2>1. b \in Nat
    BY <1>1
  <2> QED BY <1>2, <1>3, <1>4, <1>5, <2>1, SeqEqual
<1> QED BY <1>7, <1>12, <1>6

(* The pieces of a sequence make the sequence again. *)
LEMMA PiecesJoin ==
  ASSUME NEW A, NEW s \in Seq(A), NEW n \in Nat, NEW mark, Marks(mark, n, s)
  PROVE  /\ Pieces(mark, n, s) \in Seq(Seq(A)) /\ Len(Pieces(mark, n, s)) = n
         /\ FlattenSeq(Pieces(mark, n, s)) = s
         /\ \A k \in 1 .. n : Len(Pieces(mark, n, s)[k]) <= Len(s)
<1>1. PICK c \in Nat : c = Len(s)
  BY LenProperties
<1>2. PICK ss : ss = Pieces(mark, n, s)
  OBVIOUS
<1>3. ASSUME NEW k \in 1 .. n
      PROVE  k - 1 \in 0 .. n /\ k \in 0 .. n /\ mark[k - 1] \in 0 .. c /\ mark[k] \in 0 .. c
             /\ mark[k - 1] <= mark[k]
  BY <1>1 DEF Marks
<1>4. ASSUME NEW k \in 1 .. n PROVE ss[k] \in Seq(A) /\ Len(ss[k]) <= c
  <2>1. PICK a \in 0 .. c, b \in 0 .. c : a = mark[k - 1] /\ b = mark[k] /\ a <= b
    BY <1>3
  <2>2. ss[k] = SubSeq(s, a + 1, b)
    BY <1>2, <2>1 DEF Pieces
  <2>3. SubSeq(s, a + 1, b) \in Seq(A) /\ Len(SubSeq(s, a + 1, b)) = b - a
    BY <1>1, <2>1, SliceBetween, SMTT(30)
  <2>4. b - a <= c
    BY <1>1, <2>1
  <2> QED BY <2>2, <2>3, <2>4
<1>5. ss \in Seq(Seq(A)) /\ Len(ss) = n
  <2>1. ss \in [1 .. n -> Seq(A)]
    BY <1>2, <1>4 DEF Pieces
  <2> QED BY <2>1
<1> DEFINE f == [k \in 0 .. n |-> SubSeq(s, 1, mark[k])]
<1>6. Joins(f, ss, A)
  <2>1. ASSUME NEW k \in 0 .. n PROVE f[k] \in Seq(A)
    <3>1. PICK a \in 0 .. c : a = mark[k]
      BY <1>1 DEF Marks
    <3>2. 0 \in 0 .. Len(s) /\ 0 <= a /\ a \in 0 .. Len(s)
      BY <1>1
    <3>3. SubSeq(s, 0 + 1, a) \in Seq(A)
      BY <3>2, SliceBetween
    <3>4. f[k] = SubSeq(s, 0 + 1, a)
      BY <3>1
    <3> QED BY <3>3, <3>4
  <2>2. f[0] = <<>>
    <3>1. f[0] = SubSeq(s, 1, 0)
      BY DEF Marks
    <3> HIDE DEF f
    <3> QED BY <3>1, SubSeqEmpty
  <2>3. ASSUME NEW k \in 1 .. n PROVE f[k] = f[k - 1] \o ss[k]
    <3>1. PICK a \in 0 .. Len(s), b \in 0 .. Len(s) : a = mark[k - 1] /\ b = mark[k] /\ a <= b
      BY <1>1, <1>3
    <3>2. f[k] = SubSeq(s, 1, b) /\ f[k - 1] = SubSeq(s, 1, a) /\ ss[k] = SubSeq(s, a + 1, b)
      BY <1>2, <1>3, <3>1 DEF Pieces
    <3>3. SubSeq(s, 1, a) \o SubSeq(s, a + 1, b) = SubSeq(s, 1, b)
      BY <3>1, SliceJoin
    <3> HIDE DEF f
    <3> QED BY <3>2, <3>3
  <2>4. f = [k \in 0 .. n |-> f[k]]
    OBVIOUS
  <2> HIDE DEF f
  <2>5. f \in [0 .. n -> Seq(A)]
    BY <2>1, <2>4
  <2> QED BY <1>5, <2>2, <2>3, <2>5 DEF Joins
<1>7. f[n] = s
  <2>1. f[n] = SubSeq(s, 1, Len(s))
    BY DEF Marks
  <2> HIDE DEF f
  <2> QED BY <2>1, SubSeqFull
<1> HIDE DEF f
<1>8. FlattenSeq(ss) = s
  BY <1>5, <1>6, <1>7, FlattenJoins
<1> QED BY <1>1, <1>2, <1>4, <1>5, <1>8

(* Where the delimiters are. *)
Delims(s, delim) == {i \in 1 .. Len(s) : s[i] = delim}

(* The tokens that end at the delimiters. *)
Between(ends, s) ==
  [k \in 1 .. Len(ends) + 1 |->
     SubSeq(s, IF k = 1 THEN 1 ELSE ends[k - 1] + 1, IF k > Len(ends) THEN Len(s) ELSE ends[k])]

(* Tokenize cuts a key behind each of its delimiters. *)
LEMMA TokenizeEnds ==
  ASSUME NEW s \in Seq(Nat), NEW delim, s # <<>>
  PROVE  \E ends : /\ Increasing(ends, Delims(s, delim))
                   /\ Tokenize(s, delim) = Between(ends, s)
<1>1. Delims(s, delim) \in SUBSET Int /\ IsFiniteSet(Delims(s, delim))
  <2>1. PICK n \in Nat : n = Len(s)
    BY LenProperties
  <2>2. Delims(s, delim) \in SUBSET (1 .. n) /\ IsFiniteSet(1 .. n)
    BY <2>1, FS_Interval DEF Delims
  <2> QED BY <2>2, FS_Subset
<1>2. Increasing(Sorted(Delims(s, delim), <), Delims(s, delim))
  BY <1>1, SortedNumbers, Zenon
<1>3. Tokenize(s, delim) = Between(Sorted(Delims(s, delim), <), s)
  BY Zenon DEF Tokenize, Between, Delims
<1> QED BY <1>2, <1>3, Zenon

(* A key has finitely many delimiters. *)
LEMMA DelimsFinite ==
  ASSUME NEW s \in Seq(Nat), NEW delim
  PROVE  /\ Delims(s, delim) \in SUBSET (1 .. Len(s)) /\ Delims(s, delim) \in SUBSET Int
         /\ IsFiniteSet(Delims(s, delim)) /\ Cardinality(Delims(s, delim)) \in Nat
<1>1. PICK n \in Nat : n = Len(s)
  BY LenProperties
<1>2. Delims(s, delim) \in SUBSET (1 .. n) /\ IsFiniteSet(1 .. n)
  BY <1>1, FS_Interval DEF Delims
<1>3. IsFiniteSet(Delims(s, delim))
  BY <1>2, FS_Subset
<1> QED BY <1>1, <1>2, <1>3, FS_CardinalityType

(* Tokenize cuts a key into pieces at increasing marks. *)
LEMMA TokenizePieces ==
  ASSUME NEW s \in Seq(Nat), NEW delim, s # <<>>
  PROVE  \E mark : /\ Marks(mark, Cardinality(Delims(s, delim)) + 1, s)
                   /\ Tokenize(s, delim) = Pieces(mark, Cardinality(Delims(s, delim)) + 1, s)
<1>1. PICK ends : Increasing(ends, Delims(s, delim)) /\ Tokenize(s, delim) = Between(ends, s)
  BY TokenizeEnds
<1>2. PICK N \in Nat, c \in Nat : N = Cardinality(Delims(s, delim)) /\ c = Len(s)
  BY DelimsFinite, LenProperties
<1>3. /\ ends \in Seq(Delims(s, delim)) /\ Len(ends) = N
      /\ \A i, j \in 1 .. N : i < j => ends[i] < ends[j]
  BY <1>1, <1>2, DelimsFinite, IncreasingFacts
<1>4. \A i \in 1 .. N : ends[i] \in 1 .. c
  <2>1. \A i \in 1 .. N : ends[i] \in Delims(s, delim)
    BY <1>3
  <2> QED BY <1>2, <2>1, DelimsFinite
<1> DEFINE mark == [k \in 0 .. N + 1 |-> IF k = 0 THEN 0 ELSE IF k > N THEN c ELSE ends[k]]
<1>5. mark[0] = 0 /\ mark[N + 1] = c /\ \A k \in 1 .. N : mark[k] = ends[k]
  OBVIOUS
<1>6. mark \in [0 .. N + 1 -> 0 .. c]
  BY <1>4
<1>7. \A k \in 1 .. N + 1 : mark[k - 1] <= mark[k]
  <2> TAKE k \in 1 .. N + 1
  <2> HIDE DEF mark
  <2>1. CASE k = 1
    <3>1. mark[k] \in 0 .. c /\ mark[k - 1] = 0
      BY <1>5, <1>6, <2>1
    <3> QED BY <3>1
  <2>2. CASE k > 1 /\ k <= N
    <3>1. k - 1 \in 1 .. N /\ k \in 1 .. N /\ k - 1 < k
      BY <2>2
    <3>2. ends[k - 1] < ends[k] /\ ends[k - 1] \in 1 .. c /\ ends[k] \in 1 .. c
      BY <1>3, <1>4, <3>1
    <3> QED BY <1>5, <3>1, <3>2
  <2>3. CASE k > 1 /\ k = N + 1
    <3>1. k - 1 \in 1 .. N
      BY <2>3
    <3> QED BY <1>4, <1>5, <2>3, <3>1
  <2> QED BY <2>1, <2>2, <2>3
<1>8. Between(ends, s) = Pieces(mark, N + 1, s)
  <2>1. ASSUME NEW k \in 1 .. N + 1
        PROVE  SubSeq(s, IF k = 1 THEN 1 ELSE ends[k - 1] + 1, IF k > N THEN c ELSE ends[k])
                 = SubSeq(s, mark[k - 1] + 1, mark[k])
    <3> HIDE DEF mark
    <3>1. mark[k] = IF k > N THEN c ELSE ends[k]
      <4>1. k > N => k = N + 1
        OBVIOUS
      <4>2. ~(k > N) => k \in 1 .. N
        OBVIOUS
      <4> QED BY <1>5, <4>1, <4>2
    <3>2. mark[k - 1] + 1 = IF k = 1 THEN 1 ELSE ends[k - 1] + 1
      <4>1. k # 1 => k - 1 \in 1 .. N
        OBVIOUS
      <4>2. k = 1 => k - 1 = 0
        OBVIOUS
      <4> QED BY <1>5, <4>1, <4>2
    <3> QED BY <3>1, <3>2
  <2> HIDE DEF mark
  <2> QED BY <1>2, <1>3, <2>1 DEF Between, Pieces
<1> HIDE DEF mark
<1> QED BY <1>1, <1>2, <1>5, <1>6, <1>7, <1>8 DEF Marks

(* The tokens of a key make the key again: one more than it has *)
(* delimiters, none longer than the key.                        *)
LEMMA TokenizeRight ==
  ASSUME NEW s \in Seq(Nat), NEW delim
  PROVE  /\ Tokenize(s, delim) \in Seq(Seq(Nat))
         /\ FlattenSeq(Tokenize(s, delim)) = s
         /\ Len(Tokenize(s, delim))
              = IF s = <<>> THEN 0 ELSE Cardinality(Delims(s, delim)) + 1
         /\ \A k \in 1 .. Len(Tokenize(s, delim)) : Len(Tokenize(s, delim)[k]) <= Len(s)
<1>1. CASE s = <<>>
  <2>1. Tokenize(s, delim) = <<>>
    BY <1>1, Zenon DEF Tokenize
  <2>2. <<>> \in Seq(Seq(Nat)) /\ Len(<<>>) = 0
    OBVIOUS
  <2>3. FlattenSeq(<<>>) = <<>>
    <3>1. PICK f : Joins(f, <<>>, Nat)
      BY <2>2, JoinsExist
    <3>2. FlattenSeq(<<>>) = f[Len(<<>>)]
      BY <2>2, <3>1, FlattenJoins
    <3> QED BY <2>2, <3>1, <3>2 DEF Joins
  <2>4. PICK w : w = <<>>
    OBVIOUS
  <2>5. w \in Seq(Seq(Nat)) /\ Len(w) = 0 /\ FlattenSeq(w) = s
        /\ \A k \in 1 .. Len(w) : Len(w[k]) <= Len(s)
    <3>1. FlattenSeq(w) = s
      BY <1>1, <2>3, <2>4
    <3>2. w \in Seq(Seq(Nat)) /\ Len(w) = 0
      BY <2>2, <2>4
    <3> QED BY <3>1, <3>2
  <2>6. Tokenize(s, delim) = w
    BY <2>1, <2>4
  <2> QED BY <1>1, <2>5, <2>6
<1>2. CASE s # <<>>
  <2>1. PICK n \in Nat : n = Cardinality(Delims(s, delim)) + 1
    BY DelimsFinite
  <2>2. PICK mark : Marks(mark, n, s) /\ Tokenize(s, delim) = Pieces(mark, n, s)
    BY <1>2, <2>1, TokenizePieces
  <2>3. /\ Pieces(mark, n, s) \in Seq(Seq(Nat)) /\ Len(Pieces(mark, n, s)) = n
        /\ FlattenSeq(Pieces(mark, n, s)) = s
        /\ \A k \in 1 .. n : Len(Pieces(mark, n, s)[k]) <= Len(s)
    BY <2>2, PiecesJoin
  <2>4. PICK w : w = Pieces(mark, n, s)
    OBVIOUS
  <2>5. w \in Seq(Seq(Nat)) /\ Len(w) = n /\ FlattenSeq(w) = s
        /\ \A k \in 1 .. Len(w) : Len(w[k]) <= Len(s)
    BY <2>3, <2>4
  <2>6. Tokenize(s, delim) = w
    BY <2>2, <2>4
  <2>7. Len(w) = IF s = <<>> THEN 0 ELSE Cardinality(Delims(s, delim)) + 1
    BY <1>2, <2>1, <2>5
  <2> QED BY <2>5, <2>6, <2>7
<1> QED BY <1>1, <1>2

(* A part of a key has no more tokens than the key. *)
LEMMA SuffixTokens ==
  ASSUME NEW s \in Seq(Nat), NEW delim, NEW p \in 0 .. Len(s)
  PROVE  LET t == SubSeq(s, p + 1, Len(s))
         IN  /\ t \in Seq(Nat) /\ Len(t) = Len(s) - p
             /\ \A j \in 1 .. Len(s) - p : t[j] = s[p + j]
             /\ Len(Tokenize(t, delim)) <= Len(Tokenize(s, delim))
             /\ Len(Tokenize(t, delim)) \in Nat
<1>1. PICK c, t : c \in Nat /\ c = Len(s) /\ t = SubSeq(s, p + 1, Len(s))
  BY LenProperties
<1>2. t \in Seq(Nat) /\ Len(t) = c - p /\ \A j \in 1 .. c - p : t[j] = s[p + j]
  <2>1. Len(s) \in 0 .. Len(s) /\ p <= Len(s)
    BY <1>1
  <2> QED BY <1>1, <2>1, SliceBetween
<1>3. Cardinality(Delims(t, delim)) <= Cardinality(Delims(s, delim))
  <2> DEFINE f == [i \in Delims(t, delim) |-> p + i]
  <2>1. ASSUME NEW i \in Delims(t, delim) PROVE p + i \in Delims(s, delim) /\ i \in Nat
    <3>1. i \in 1 .. c - p /\ t[i] = delim
      BY <1>2 DEF Delims
    <3>2. p + i \in 1 .. c /\ i \in Nat
      BY <1>1, <3>1
    <3> QED BY <1>1, <1>2, <3>1, <3>2 DEF Delims
  <2>2. f \in Injection(Delims(t, delim), Delims(s, delim))
    <3>1. f \in [Delims(t, delim) -> Delims(s, delim)]
      BY <2>1
    <3>2. ASSUME NEW i \in Delims(t, delim), NEW j \in Delims(t, delim), f[i] = f[j] PROVE i = j
      <4>1. p + i = p + j /\ i \in Nat /\ j \in Nat /\ p \in Nat
        BY <1>1, <2>1, <3>2
      <4> QED BY <4>1
    <3> HIDE DEF f
    <3> QED BY <3>1, <3>2 DEF Injection, IsInjective
  <2> HIDE DEF f
  <2> QED BY <1>2, <2>2, DelimsFinite, FS_Injection DEF ExistsInjection
<1>4. /\ Cardinality(Delims(s, delim)) \in Nat /\ Cardinality(Delims(t, delim)) \in Nat
  BY <1>2, DelimsFinite
<1>5. Len(Tokenize(s, delim)) = IF s = <<>> THEN 0 ELSE Cardinality(Delims(s, delim)) + 1
  BY TokenizeRight
<1>6. Len(Tokenize(t, delim)) = IF t = <<>> THEN 0 ELSE Cardinality(Delims(t, delim)) + 1
  BY <1>2, TokenizeRight
<1>7. s = <<>> => t = <<>>
  <2>1. s = <<>> => c = 0
    BY <1>1
  <2>2. c = 0 => Len(t) = 0
    BY <1>1, <1>2
  <2> QED BY <1>2, <2>1, <2>2, EmptySeq
<1>8. Len(Tokenize(t, delim)) <= Len(Tokenize(s, delim)) /\ Len(Tokenize(t, delim)) \in Nat
  <2>1. PICK x \in Nat, y \in Nat : x = Cardinality(Delims(s, delim)) /\ y = Cardinality(Delims(t, delim))
                                    /\ y <= x
    BY <1>3, <1>4
  <2> QED BY <1>5, <1>6, <1>7, <2>1
<1> QED BY <1>1, <1>2, <1>8

(*****************************************************************************)
(* The order of the keys                                                     *)
(*****************************************************************************)
(* Division with a remainder.                                                *)
LEMMA DivFacts ==
  ASSUME NEW x \in Nat, NEW R \in Nat \ {0}
  PROVE  /\ x \div R \in Nat /\ x % R \in 0 .. R - 1
         /\ x = (x \div R) * R + (x % R)
OBVIOUS

(* Whole blocks below a block end before it starts. *)
LEMMA TimesLess ==
  ASSUME NEW R \in Nat \ {0}, NEW a \in Nat, NEW b \in Nat, a < b
  PROVE  a * R + R <= b * R
<1>1. PICK d \in Nat : b = a + 1 + d
  <2>1. b - a - 1 \in Nat /\ b = a + 1 + (b - a - 1)
    OBVIOUS
  <2> QED BY <2>1
<1>2. b * R = a * R + R + d * R
  BY <1>1
<1>3. d * R \in Nat /\ a * R \in Nat
  OBVIOUS
<1> QED BY <1>2, <1>3

(* A block that starts before another one ends is not behind it. *)
LEMMA TimesLess2 ==
  ASSUME NEW R \in Nat \ {0}, NEW a \in Nat, NEW b \in Nat, a * R < b * R + R
  PROVE  a <= b
<1> SUFFICES ASSUME a > b PROVE FALSE
  OBVIOUS
<1>1. b * R + R <= a * R
  BY TimesLess
<1>2. a * R \in Nat /\ b * R \in Nat
  OBVIOUS
<1> QED BY <1>1, <1>2

-----------------------------------------------------------------------------

(* No key comes before itself. *)
LEMMA BeforeIrreflexive ==
  ASSUME NEW a \in Seq(Nat)
  PROVE  ~Before(a, a)
<1> SUFFICES ASSUME NEW n \in 0 .. Len(a), n < Len(a), n = Len(a) \/ (n < Len(a) /\ a[n + 1] < a[n + 1])
             PROVE  FALSE
  BY DEF Before
<1>1. PICK c \in Nat : c = Len(a)
  BY LenProperties
<1>2. n + 1 \in 1 .. c /\ n # c
  BY <1>1
<1>3. a[n + 1] \in Nat
  BY <1>1, <1>2, LenProperties
<1> QED BY <1>1, <1>2, <1>3

(* a comes before b when they part at n. *)
Parts(a, b, n) ==
  /\ n \in 0 .. Len(a) /\ n < Len(b)
  /\ \A i \in 1 .. n : a[i] = b[i]
  /\ n = Len(a) \/ (n < Len(a) /\ a[n + 1] < b[n + 1])

(* Before is parting somewhere. *)
LEMMA BeforeParts ==
  ASSUME NEW a, NEW b
  PROVE  Before(a, b) <=> \E n : Parts(a, b, n)
BY DEF Before, Parts

(* The bytewise order of keys is transitive. *)
LEMMA BeforeTransitive ==
  ASSUME NEW a \in Seq(Nat), NEW b \in Seq(Nat), NEW c \in Seq(Nat), Before(a, b), Before(b, c)
  PROVE  Before(a, c)
<1>1. PICK n : Parts(a, b, n)
  BY BeforeParts
<1>2. PICK m : Parts(b, c, m)
  BY BeforeParts
<1>3. PICK x \in Nat, y \in Nat, z \in Nat : x = Len(a) /\ y = Len(b) /\ z = Len(c)
  BY LenProperties
<1>4. /\ n \in 0 .. x /\ n < y /\ \A i \in 1 .. n : a[i] = b[i]
      /\ n = x \/ (n < x /\ a[n + 1] < b[n + 1])
  BY <1>1, <1>3 DEF Parts
<1>5. /\ m \in 0 .. y /\ m < z /\ \A i \in 1 .. m : b[i] = c[i]
      /\ m = y \/ (m < y /\ b[m + 1] < c[m + 1])
  BY <1>2, <1>3 DEF Parts
<1>6. /\ \A i \in 1 .. x : a[i] \in Nat
      /\ \A i \in 1 .. y : b[i] \in Nat
      /\ \A i \in 1 .. z : c[i] \in Nat
  BY <1>3, LenProperties
<1>7. CASE n < m
  <2>1. \A i \in 1 .. n : i \in 1 .. m
    BY <1>4, <1>5, <1>7
  <2>2. n + 1 \in 1 .. m /\ n < z
    BY <1>4, <1>5, <1>7, <1>3
  <2>3. \A i \in 1 .. n : a[i] = c[i]
    BY <1>4, <1>5, <2>1
  <2>4. n = x \/ (n < x /\ a[n + 1] < c[n + 1])
    BY <1>4, <1>5, <2>2
  <2>5. Parts(a, c, n)
    BY <1>3, <1>4, <2>2, <2>3, <2>4 DEF Parts
  <2> QED BY <2>5, BeforeParts
<1>8. CASE n = m
  <2>1. \A i \in 1 .. n : a[i] = c[i]
    BY <1>4, <1>5, <1>8
  <2>2. b[n + 1] < c[n + 1]
    BY <1>4, <1>5, <1>8, <1>3
  <2>3. n < x => n + 1 \in 1 .. x /\ n + 1 \in 1 .. y /\ n + 1 \in 1 .. z
    BY <1>3, <1>4, <1>5, <1>8
  <2>4. n = x \/ (n < x /\ a[n + 1] < c[n + 1])
    <3> SUFFICES ASSUME n # x PROVE n < x /\ a[n + 1] < c[n + 1]
      OBVIOUS
    <3>1. n < x /\ a[n + 1] < b[n + 1]
      BY <1>4
    <3>2. a[n + 1] \in Nat /\ b[n + 1] \in Nat /\ c[n + 1] \in Nat
      BY <1>6, <2>3, <3>1
    <3> QED BY <2>2, <3>1, <3>2
  <2>5. Parts(a, c, n)
    BY <1>3, <1>4, <1>5, <1>8, <2>1, <2>4 DEF Parts
  <2> QED BY <2>5, BeforeParts
<1>9. CASE n > m
  <2>1. /\ \A i \in 1 .. m : i \in 1 .. n
        /\ m + 1 \in 1 .. n /\ m < x /\ m \in 0 .. x /\ m # y
    BY <1>4, <1>5, <1>9, <1>3, SMTT(30)
  <2>2. \A i \in 1 .. m : a[i] = c[i]
    BY <1>4, <1>5, <2>1
  <2>3. a[m + 1] < c[m + 1]
    BY <1>4, <1>5, <2>1
  <2>4. Parts(a, c, m)
    BY <1>3, <1>5, <2>1, <2>2, <2>3 DEF Parts
  <2> QED BY <2>4, BeforeParts
<1> QED BY <1>4, <1>5, <1>7, <1>8, <1>9

(* Of two keys that differ one comes before the other. *)
LEMMA BeforeTotal ==
  ASSUME NEW a \in Seq(Nat), NEW b \in Seq(Nat), a # b
  PROVE  Before(a, b) \/ Before(b, a)
<1>1. PICK x \in Nat, y \in Nat : x = Len(a) /\ y = Len(b)
  BY LenProperties
<1> DEFINE T == {n \in 0 .. x : n <= y /\ \A i \in 1 .. n : a[i] = b[i]}
<1>2. PICK n \in T : \A k \in T : k <= n
  <2>1. 0 \in T /\ T \in SUBSET (0 .. x)
    BY <1>1
  <2> HIDE DEF T
  <2> QED BY <2>1, GreatestElement
<1>3. n \in 0 .. x /\ n <= y /\ \A i \in 1 .. n : a[i] = b[i]
  BY <1>2
<1>4. CASE n = x
  <2>1. n # y
    <3>1. ~(x = y /\ \A i \in 1 .. x : a[i] = b[i])
      BY <1>1, SeqEqual
    <3> QED BY <1>3, <1>4, <3>1
  <2>2. Parts(a, b, n)
    BY <1>1, <1>3, <1>4, <2>1 DEF Parts
  <2> QED BY <2>2, BeforeParts
<1>5. CASE n < x /\ n = y
  <2>1. Parts(b, a, n)
    BY <1>1, <1>3, <1>5 DEF Parts
  <2> QED BY <2>1, BeforeParts
<1>6. CASE n < x /\ n < y
  <2>1. n + 1 \in 1 .. x /\ n + 1 \in 1 .. y /\ n + 1 \in 0 .. x /\ n + 1 <= y /\ ~(n + 1 <= n)
    BY <1>1, <1>3, <1>6
  <2>2. a[n + 1] # b[n + 1]
    <3> SUFFICES ASSUME a[n + 1] = b[n + 1] PROVE FALSE
      OBVIOUS
    <3>1. \A i \in 1 .. n + 1 : i \in 1 .. n \/ i = n + 1
      BY <1>3
    <3>2. \A i \in 1 .. n + 1 : a[i] = b[i]
      BY <1>3, <3>1
    <3>3. n + 1 \in T
      BY <2>1, <3>2
    <3> HIDE DEF T
    <3> QED BY <1>2, <2>1, <3>3
  <2>3. a[n + 1] \in Nat /\ b[n + 1] \in Nat
    BY <1>1, <2>1, LenProperties
  <2>4. a[n + 1] < b[n + 1] \/ b[n + 1] < a[n + 1]
    BY <2>2, <2>3
  <2>5. Parts(a, b, n) \/ Parts(b, a, n)
    <3>1. n \in 0 .. y /\ n \in 0 .. x
      BY <1>1, <1>3, <1>6
    <3> QED BY <1>1, <1>3, <1>6, <2>4, <3>1 DEF Parts
  <2> QED BY <2>5, BeforeParts
<1> QED BY <1>1, <1>3, <1>4, <1>5, <1>6

(* No two keys come before each other. *)
LEMMA BeforeAsymmetric ==
  ASSUME NEW a \in Seq(Nat), NEW b \in Seq(Nat), Before(a, b)
  PROVE  ~Before(b, a) /\ a # b
BY BeforeTransitive, BeforeIrreflexive

(* The smaller of two numbers. *)
LEMMA MinOfTwo ==
  ASSUME NEW a \in Nat, NEW b \in Nat
  PROVE  Min({a, b}) \in {a, b} /\ Min({a, b}) <= a /\ Min({a, b}) <= b
<1>1. \E x \in {a, b} : \A y \in {a, b} : x <= y
  <2>1. CASE a <= b
    BY <2>1
  <2>2. CASE b <= a
    BY <2>2
  <2> QED BY <2>1, <2>2
<1> QED BY <1>1 DEF Min

(* The elements of a sequence are finitely many. *)
LEMMA ElementsFinite ==
  ASSUME NEW A, NEW s \in Seq(A)
  PROVE  IsFiniteSet(ToSet(s)) /\ ToSet(s) \in SUBSET A
<1>1. PICK n \in Nat : n = Len(s)
  BY LenProperties
<1>2. ToSet(s) = {s[i] : i \in 1 .. n}
  BY <1>1 DEF ToSet
<1>3. IsFiniteSet(1 .. n)
  BY FS_Interval
<1>4. s = [i \in 1 .. n |-> s[i]] /\ \A i \in 1 .. n : s[i] \in A
  BY <1>1, LenProperties
<1>5. ToSet(s) \in SUBSET A
  BY <1>2, <1>4
<1>6. s \in Surjection(1 .. n, ToSet(s))
  BY <1>2, <1>4 DEF Surjection
<1> QED BY <1>3, <1>5, <1>6, FS_Surjection

(*****************************************************************************)
(* What the string table holds                                               *)
(*****************************************************************************)
(* The tokens of each key.                                                   *)
KeyTokens(keys, delim) == [i \in 1 .. Len(keys) |-> Tokenize(keys[i], delim)]

(* The tokens of all the keys are sequences of bytes. *)
LEMMA TokensOfKeys ==
  ASSUME NEW keys \in Seq(Seq(Nat)), NEW delim
  PROVE  FlattenSeq(KeyTokens(keys, delim)) \in Seq(Seq(Nat))
<1>1. PICK n \in Nat : n = Len(keys)
  BY LenProperties
<1>2. \A i \in 1 .. n : Tokenize(keys[i], delim) \in Seq(Seq(Nat))
  BY <1>1, TokenizeRight, LenProperties
<1>3. PICK ss \in Seq(Seq(Seq(Nat))) : ss = KeyTokens(keys, delim) /\ Len(ss) = n
  <2>1. KeyTokens(keys, delim) \in [1 .. n -> Seq(Seq(Nat))]
    BY <1>1, <1>2 DEF KeyTokens
  <2> QED BY <2>1
<1>4. PICK f : Joins(f, ss, Seq(Nat))
  BY JoinsExist
<1>5. FlattenSeq(ss) = f[n] /\ f[n] \in Seq(Seq(Nat))
  <2>1. FlattenSeq(ss) = f[n]
    BY <1>3, <1>4, FlattenJoins
  <2> QED BY <1>3, <1>4, <2>1 DEF Joins
<1> QED BY <1>3, <1>5

(* How often a token occurs. *)
Freq(tokens, t) == Cardinality({i \in 1 .. Len(tokens) : tokens[i] = t})

(* The order of the table: by frequency, then by bytes. *)
SoonerIn(tokens, s, t) ==
  Freq(tokens, s) > Freq(tokens, t) \/ (Freq(tokens, s) = Freq(tokens, t) /\ Before(s, t))

(* The tokens worth an entry. *)
Frequent(tokens) == {t \in ToSet(tokens) : Freq(tokens, t) >= MinFreq}

(* They are in that order. *)
ByFreq(tokens, s) ==
  \A i, j \in 1 .. Cardinality(Frequent(tokens)) : i < j => SoonerIn(tokens, s[i], s[j])

(* The table before it is capped. *)
TableOrder(tokens) ==
  CHOOSE s \in [1 .. Cardinality(Frequent(tokens)) -> Frequent(tokens)] : ByFreq(tokens, s)

(* The table. *)
TableOf(tokens) ==
  SubSeq(TableOrder(tokens), 1, Min({NoTableEntry - 1, Len(TableOrder(tokens))}))

(* The order of the table, as pairs. *)
FreqOrder(tokens) ==
  {p \in Frequent(tokens) \X Frequent(tokens) : SoonerIn(tokens, p[1], p[2])}

(* The order of the table is total, so that there is one table of each set *)
(* of keys.                                                                *)
LEMMA FreqOrderTotal ==
  ASSUME NEW tokens \in Seq(Seq(Nat))
  PROVE  TotalOrder(FreqOrder(tokens), Frequent(tokens))
<1>1. ASSUME NEW t \in Seq(Nat) PROVE Freq(tokens, t) \in Nat
  <2>1. PICK n \in Nat : n = Len(tokens)
    BY LenProperties
  <2>3. IsFiniteSet(1 .. n) /\ {i \in 1 .. n : tokens[i] = t} \in SUBSET (1 .. n)
    BY FS_Interval
  <2>2. IsFiniteSet({i \in 1 .. n : tokens[i] = t})
    BY <2>3, FS_Subset
  <2> QED BY <2>1, <2>2, FS_CardinalityType DEF Freq
<1>2. Frequent(tokens) \in SUBSET Seq(Nat)
  BY ElementsFinite DEF Frequent
<1>3. \A x, y \in Frequent(tokens) : <<x, y>> \in FreqOrder(tokens) <=> SoonerIn(tokens, x, y)
  BY DEF FreqOrder
<1>4. ASSUME NEW x \in Seq(Nat) PROVE ~SoonerIn(tokens, x, x)
  BY <1>1, BeforeIrreflexive DEF SoonerIn
<1>5. ASSUME NEW x \in Seq(Nat), NEW y \in Seq(Nat), x # y
      PROVE  SoonerIn(tokens, x, y) \/ SoonerIn(tokens, y, x)
  <2>1. PICK a \in Nat, b \in Nat : a = Freq(tokens, x) /\ b = Freq(tokens, y)
    BY <1>1
  <2>2. Before(x, y) \/ Before(y, x)
    BY <1>5, BeforeTotal
  <2>3. a > b \/ b > a \/ a = b
    OBVIOUS
  <2> QED BY <2>1, <2>2, <2>3 DEF SoonerIn
<1>6. ASSUME NEW x \in Seq(Nat), NEW y \in Seq(Nat), NEW z \in Seq(Nat),
             SoonerIn(tokens, x, y), SoonerIn(tokens, y, z)
      PROVE  SoonerIn(tokens, x, z)
  <2>1. PICK a \in Nat, b \in Nat, c \in Nat :
          a = Freq(tokens, x) /\ b = Freq(tokens, y) /\ c = Freq(tokens, z)
    BY <1>1
  <2>2. (a > b \/ (a = b /\ Before(x, y))) /\ (b > c \/ (b = c /\ Before(y, z)))
    BY <1>6, <2>1 DEF SoonerIn
  <2>3. Before(x, y) /\ Before(y, z) => Before(x, z)
    BY BeforeTransitive
  <2>4. a > c \/ (a = c /\ Before(x, z))
    BY <2>2, <2>3
  <2> QED BY <2>1, <2>4 DEF SoonerIn
<1>7. \A x \in Frequent(tokens) : x \in Seq(Nat)
  BY <1>2
<1>8. \A x \in Frequent(tokens) : <<x, x>> \notin FreqOrder(tokens)
  BY <1>3, <1>4, <1>7
<1>9. \A x, y \in Frequent(tokens) :
        x # y => <<x, y>> \in FreqOrder(tokens) \/ <<y, x>> \in FreqOrder(tokens)
  BY <1>3, <1>5, <1>7
<1>10. \A x, y, z \in Frequent(tokens) :
         <<x, y>> \in FreqOrder(tokens) /\ <<y, z>> \in FreqOrder(tokens)
           => <<x, z>> \in FreqOrder(tokens)
  BY <1>3, <1>6, <1>7
<1> QED BY <1>8, <1>9, <1>10 DEF TotalOrder

(* A string table fits its index field, however many tokens are frequent. *)
LEMMA TableRight ==
  ASSUME NEW keys \in Seq(Seq(Nat)), NEW delim
  PROVE  IsTable(StringTable(keys, delim))
<1>1. PICK tokens \in Seq(Seq(Nat)) : tokens = FlattenSeq(KeyTokens(keys, delim))
  BY TokensOfKeys
<1>2. PICK frequent : frequent = TableOrder(tokens)
  OBVIOUS
<1>3. StringTable(keys, delim) = SubSeq(frequent, 1, Min({NoTableEntry - 1, Len(frequent)}))
  <2>1. StringTable(keys, delim) = TableOf(FlattenSeq(KeyTokens(keys, delim)))
    BY Zenon DEF StringTable, TableOf, TableOrder, ByFreq, Frequent, SoonerIn, Freq, KeyTokens, Sorted
  <2> QED BY <1>1, <1>2, <2>1 DEF TableOf
<1>4. IsFiniteSet(Frequent(tokens)) /\ Frequent(tokens) \in SUBSET Seq(Nat)
  <2>1. IsFiniteSet(ToSet(tokens)) /\ ToSet(tokens) \in SUBSET Seq(Nat)
    BY ElementsFinite
  <2>2. Frequent(tokens) \in SUBSET ToSet(tokens)
    BY DEF Frequent
  <2> QED BY <2>1, <2>2, FS_Subset
<1>5. PICK n \in Nat : n = Cardinality(Frequent(tokens))
  BY <1>4, FS_CardinalityType
<1>6. frequent \in [1 .. n -> Frequent(tokens)]
  <2>1. PICK s : InOrder(s, Frequent(tokens), FreqOrder(tokens))
    BY <1>4, FreqOrderTotal, OrderExists
  <2>2. s \in [1 .. n -> Frequent(tokens)]
        /\ \A i, j \in 1 .. n : i < j => <<s[i], s[j]>> \in FreqOrder(tokens)
    BY <1>5, <2>1 DEF InOrder
  <2>3. ByFreq(tokens, s)
    BY <1>5, <2>2 DEF ByFreq, FreqOrder
  <2> QED BY <1>2, <1>5, <2>2, <2>3 DEF TableOrder
<1>7. frequent \in Seq(Seq(Nat)) /\ Len(frequent) = n
  <2>1. frequent \in [1 .. n -> Seq(Nat)]
    BY <1>4, <1>6
  <2> QED BY <2>1
<1>8. PICK m \in Nat : m = Min({NoTableEntry - 1, n}) /\ m <= NoTableEntry - 1 /\ m <= n
  BY <1>5, MinOfTwo DEF NoTableEntry
<1>9. SubSeq(frequent, 0 + 1, 0 + m) \in Seq(Seq(Nat)) /\ Len(SubSeq(frequent, 0 + 1, 0 + m)) = m
  <2>1. 0 + m <= Len(frequent) /\ 0 \in Nat
    BY <1>7, <1>8
  <2> QED BY <1>7, <2>1, Slice
<1>10. StringTable(keys, delim) = SubSeq(frequent, 0 + 1, 0 + m)
  <2>1. 0 + 1 = 1 /\ 0 + m = m /\ Min({NoTableEntry - 1, Len(frequent)}) = m
    BY <1>7, <1>8
  <2> QED BY <1>3, <2>1
<1>11. m < NoTableEntry
  BY <1>8 DEF NoTableEntry
<1> QED BY <1>9, <1>10, <1>11 DEF IsTable

-----------------------------------------------------------------------------
(* a and b share their first s bytes. *)
IsCommon(a, b, s) ==
  /\ s \in Nat /\ s <= Len(a) /\ s <= Len(b)
  /\ \A i \in 1 .. s : a[i] = b[i]

(* SharedPrefix counts bytes that are shared. *)
LEMMA SharedPrefixRight ==
  ASSUME NEW a \in Seq(Nat), NEW b \in Seq(Nat)
  PROVE  IsCommon(a, b, SharedPrefix(a, b))
<1>1. PICK x \in Nat, y \in Nat : x = Len(a) /\ y = Len(b)
  BY LenProperties
<1>2. PICK P : P = CommonPrefixes({a, b})
  OBVIOUS
<1>3. ASSUME NEW p \in P
      PROVE  p \in Seq(Nat) /\ IsCommon(a, b, Len(p))
  <2>1. IsPrefix(p, a) /\ IsPrefix(p, b) /\ (p \in Prefixes(a) \/ p \in Prefixes(b))
    BY <1>2, Zenon DEF CommonPrefixes
  <2>2. p \in Seq(Nat)
    <3>1. ASSUME NEW s \in Seq(Nat), p \in Prefixes(s) PROVE p \in Seq(Nat)
      <4>1. PICK l \in 0 .. Len(s) : p = SubSeq(s, 1, l)
        BY <3>1 DEF Prefixes
      <4>2. l \in Nat /\ 0 + 1 = 1 /\ 0 + l = l /\ 0 + l <= Len(s)
        BY LenProperties
      <4>3. SubSeq(s, 0 + 1, 0 + l) \in Seq(Nat)
        BY <4>2, Slice
      <4> QED BY <4>1, <4>2, <4>3
    <3> QED BY <2>1, <3>1
  <2>3. PICK l \in Nat : l = Len(p)
    BY <2>2, LenProperties
  <2>4. ASSUME NEW s \in Seq(Nat), IsPrefix(p, s)
        PROVE  l <= Len(s) /\ \A i \in 1 .. l : s[i] = p[i]
    <3>1. l <= Len(s) /\ SubSeq(s, 1, l) = SubSeq(p, 1, l)
      BY <2>3, <2>4 DEF IsPrefix
    <3>2. \A i \in 1 .. l : SubSeq(s, 0 + 1, 0 + l)[i] = s[0 + i]
      BY <3>1, Slice
    <3>3. \A i \in 1 .. l : SubSeq(p, 0 + 1, 0 + l)[i] = p[0 + i]
      BY <2>2, <2>3, Slice
    <3>4. SubSeq(s, 0 + 1, 0 + l) = SubSeq(p, 0 + 1, 0 + l)
      BY <3>1
    <3>5. \A i \in 1 .. l : 0 + i = i
      OBVIOUS
    <3> QED BY <3>1, <3>2, <3>3, <3>4, <3>5
  <2> QED BY <2>1, <2>2, <2>3, <2>4 DEF IsCommon
<1>4. <<>> \in P
  <2>1. SubSeq(a, 1, 0) = <<>> /\ SubSeq(b, 1, 0) = <<>> /\ SubSeq(<<>>, 1, 0) = <<>>
    BY SubSeqEmpty
  <2>2. <<>> \in Prefixes(a)
    BY <1>1, <2>1 DEF Prefixes
  <2>3. IsPrefix(<<>>, a) /\ IsPrefix(<<>>, b)
    BY <1>1, <2>1 DEF IsPrefix
  <2> QED BY <1>2, <2>2, <2>3, Zenon DEF CommonPrefixes
<1> DEFINE lengths == {Len(p) : p \in P}
<1>5. PICK m \in lengths : \A l \in lengths : l <= m
  <2>1. lengths \in SUBSET (0 .. x) /\ lengths # {}
    <3>1. \A p \in P : Len(p) \in 0 .. x
      BY <1>1, <1>3 DEF IsCommon
    <3>2. Len(<<>>) \in lengths
      BY <1>4
    <3> QED BY <3>1, <3>2
  <2> HIDE DEF lengths
  <2> QED BY <2>1, GreatestElement
<1>6. \E p \in P : \A q \in P : Len(q) <= Len(p)
  BY <1>5
<1>7. PICK longest : longest = LongestCommonPrefix({a, b})
  OBVIOUS
<1>8. longest \in P
  BY <1>2, <1>6, <1>7 DEF LongestCommonPrefix
<1> QED BY <1>3, <1>7, <1>8 DEF SharedPrefix

(* Tuples are sequences of cells. *)
LEMMA TuplesAreCells ==
  ASSUME NEW table, IsTable(table), NEW tokens, TokensFit(tokens)
  PROVE  Tuples(tokens, table) \in Seq(Nat)
<1>1. PICK ss \in Seq(Seq(Nat)) : ss = TupleCells(tokens, table) /\ Tuples(tokens, table) = FlattenSeq(ss)
  BY TuplesFlatten
<1>2. PICK g : Joins(g, ss, Nat)
  BY JoinsExist
<1>3. PICK n \in Nat : n = Len(ss)
  BY LenProperties
<1>4. FlattenSeq(ss) = g[n] /\ g[n] \in Seq(Nat)
  <2>1. FlattenSeq(ss) = g[n]
    BY <1>2, <1>3, FlattenJoins
  <2> QED BY <1>2, <1>3, <2>1 DEF Joins
<1> QED BY <1>1, <1>4

(*****************************************************************************)
(* One record of an index                                                    *)
(*****************************************************************************)
(* A key whose lengths fit the fields.                                       *)
FitKey(key, delim) == key \in Seq(Nat) /\ KeyFits(key, delim)

(* The tokens of what is left of a key after p bytes. *)
TokensAfter(key, p, delim) == Tokenize(SubSeq(key, p + 1, Len(key)), delim)

(* The tokens of any rest of a key that fits do too, their number is not *)
(* cut by its field, and they make the rest again.                       *)
LEMMA TokensAfterFit ==
  ASSUME NEW key, NEW delim, FitKey(key, delim), NEW p \in 0 .. Len(key)
  PROVE  /\ TokensFit(TokensAfter(key, p, delim))
         /\ Len(TokensAfter(key, p, delim)) % CountLimit = Len(TokensAfter(key, p, delim))
         /\ Len(TokensAfter(key, p, delim)) \in Nat
         /\ FlattenSeq(TokensAfter(key, p, delim)) = SubSeq(key, p + 1, Len(key))
         /\ p % PrefixLimit = p
<1>1. PICK c, t : c \in Nat /\ c = Len(key) /\ t = SubSeq(key, p + 1, Len(key))
  BY LenProperties DEF FitKey
<1>2. t \in Seq(Nat) /\ Len(t) = c - p /\ Len(Tokenize(t, delim)) <= Len(Tokenize(key, delim))
      /\ Len(Tokenize(t, delim)) \in Nat
  BY <1>1, SuffixTokens DEF FitKey
<1>3. PICK w : w = TokensAfter(key, p, delim) /\ w = Tokenize(t, delim)
  BY <1>1 DEF TokensAfter
<1>4. PICK x \in Nat, y \in Nat : x = Len(w) /\ y = Len(Tokenize(key, delim)) /\ x <= y
  <2>1. Tokenize(key, delim) \in Seq(Seq(Nat))
    BY TokenizeRight DEF FitKey
  <2> QED BY <1>2, <1>3, <2>1, LenProperties
<1>5. y < CountLimit /\ c < PrefixLimit /\ PrefixLimit <= LengthLimit
      /\ CountLimit \in Nat /\ PrefixLimit \in Nat /\ LengthLimit \in Nat
  BY <1>1, <1>4, NameIndexAssumption DEF FitKey, KeyFits
<1>6. x % CountLimit = x
  BY <1>4, <1>5
<1>7. p % PrefixLimit = p
  <2>1. p \in Nat /\ p < PrefixLimit
    BY <1>1, <1>5
  <2> QED BY <1>5, <2>1
<1>8. w \in Seq(Seq(Nat)) /\ FlattenSeq(w) = t /\ \A k \in 1 .. Len(w) : Len(w[k]) <= Len(t)
  BY <1>2, <1>3, TokenizeRight
<1>9. TokensFit(w)
  <2> SUFFICES ASSUME NEW k \in 1 .. x PROVE TokenFits(w[k])
    BY <1>4, <1>8 DEF TokensFit
  <2>1. w[k] \in Seq(Nat) /\ Len(w[k]) <= c - p
    BY <1>2, <1>4, <1>8
  <2>2. PICK m \in Nat : m = Len(w[k])
    BY <2>1, LenProperties
  <2>3. m < LengthLimit
    BY <1>1, <1>5, <2>1, <2>2
  <2> QED BY <2>1, <2>2, <2>3 DEF TokenFits
<1> QED BY <1>1, <1>3, <1>4, <1>6, <1>7, <1>8, <1>9

(* A record is its fields and then its tuples. *)
LEMMA HoldsTail ==
  ASSUME NEW cells \in Seq(Nat), NEW off, NEW h \in Seq(Nat), NEW u \in Seq(Nat),
         HoldsAt(cells, off, h \o u)
  PROVE  /\ off \in Nat /\ off + Len(h) <= Len(cells)
         /\ \A j \in 1 .. Len(h) : cells[off + j] = h[j]
         /\ HoldsAt(cells, off + Len(h), u)
         /\ off + Len(h \o u) = (off + Len(h)) + Len(u)
<1>1. PICK w : w = h \o u
  OBVIOUS
<1>2. /\ w \in Seq(Nat) /\ Len(w) = Len(h) + Len(u)
      /\ \A i \in 1 .. Len(h) : w[i] = h[i]
      /\ \A i \in 1 .. Len(u) : w[Len(h) + i] = u[i]
  BY <1>1, ConcatFacts
<1>3. PICK x \in Nat, y \in Nat, c \in Nat : x = Len(h) /\ y = Len(u) /\ c = Len(cells)
  BY LenProperties
<1>4. off \in Nat /\ off + (x + y) <= c /\ \A j \in 1 .. x + y : cells[off + j] = w[j]
  BY <1>1, <1>2, <1>3 DEF HoldsAt
<1>5. off + x \in Nat /\ off + x <= c /\ (off + x) + y <= c
  BY <1>4
<1>6. \A j \in 1 .. x : cells[off + j] = h[j]
  <2>1. \A j \in 1 .. x : j \in 1 .. x + y
    OBVIOUS
  <2> QED BY <1>2, <1>3, <1>4, <2>1
<1>7. ASSUME NEW j \in 1 .. y PROVE cells[(off + x) + j] = u[j]
  <2>1. x + j \in 1 .. x + y /\ off + (x + j) = (off + x) + j
    BY <1>4
  <2>2. cells[off + (x + j)] = w[x + j] /\ w[x + j] = u[j]
    BY <1>2, <1>3, <1>4, <2>1
  <2> QED BY <2>1, <2>2
<1>8. HoldsAt(cells, off + x, u)
  BY <1>3, <1>5, <1>7 DEF HoldsAt
<1>9. off + (x + y) = (off + x) + y
  BY <1>4
<1> QED BY <1>1, <1>2, <1>3, <1>4, <1>5, <1>6, <1>8, <1>9

(* The tuples of the tokens after p are read back, wherever they are in *)
(* the section.                                                         *)
LEMMA TuplesAfter ==
  ASSUME NEW section, IsSection(section), NEW key, NEW delim, FitKey(key, delim),
         NEW p \in 0 .. Len(key), NEW off,
         HoldsAt(section.cells, off, Tuples(TokensAfter(key, p, delim), section.table))
  PROVE  DecodeTuples(section, off, Len(TokensAfter(key, p, delim)))
           = Decoded(0, SubSeq(key, p + 1, Len(key)),
                     off + Len(Tuples(TokensAfter(key, p, delim), section.table)))
<1>1. PICK tokens : tokens = TokensAfter(key, p, delim)
  OBVIOUS
<1>2. TokensFit(tokens) /\ FlattenSeq(tokens) = SubSeq(key, p + 1, Len(key))
  BY <1>1, TokensAfterFit
<1>3. HoldsAt(section.cells, off, Tuples(tokens, section.table))
  BY <1>1
<1>4. DecodeTuples(section, off, Len(tokens))
        = Decoded(0, FlattenSeq(tokens), off + Len(Tuples(tokens, section.table)))
  BY <1>2, <1>3, DecodeTuplesRight
<1> QED BY <1>1, <1>2, <1>4

(* A record at a restart: ID, number of tokens, tuples. *)
RestartRecord(id, key, delim, table) ==
  <<id, Len(TokensAfter(key, 0, delim)) % CountLimit>> \o Tuples(TokensAfter(key, 0, delim), table)

(* Any other record: ID, shared prefix, number of tokens, tuples. *)
NextRecord(id, key, s, delim, table) ==
  <<id, s % PrefixLimit, Len(TokensAfter(key, s, delim)) % CountLimit>>
    \o Tuples(TokensAfter(key, s, delim), table)

(* A record at a restart is read back as its ID and its key. *)
LEMMA RestartRight ==
  ASSUME NEW section, IsSection(section), NEW key, NEW delim, FitKey(key, delim),
         NEW id \in Nat, NEW off,
         HoldsAt(section.cells, off, RestartRecord(id, key, delim, section.table))
  PROVE  DecodeRestart(section, off)
           = Decoded(id, key, off + Len(RestartRecord(id, key, delim, section.table)))
<1>1. PICK c, m : c \in Nat /\ c = Len(section.cells) /\ m = Len(TokensAfter(key, 0, delim))
  BY LenProperties DEF IsSection
<1>2. 0 \in 0 .. Len(key)
  BY LenProperties DEF FitKey
<1>3. m \in Nat /\ m % CountLimit = m /\ TokensFit(TokensAfter(key, 0, delim))
  BY <1>1, <1>2, TokensAfterFit
<1>4. PICK u \in Seq(Nat) : u = Tuples(TokensAfter(key, 0, delim), section.table)
  BY <1>3, TuplesAreCells DEF IsSection
<1>5. PICK h \in Seq(Nat) : h = <<id, m>> /\ Len(h) = 2 /\ h[1] = id /\ h[2] = m
  <2>1. <<id, m>> \in Seq(Nat) /\ Len(<<id, m>>) = 2
    BY <1>3
  <2>2. <<id, m>>[1] = id /\ <<id, m>>[2] = m
    OBVIOUS
  <2> QED BY <2>1, <2>2
<1>6. RestartRecord(id, key, delim, section.table) = h \o u
  BY <1>1, <1>3, <1>4, <1>5 DEF RestartRecord
<1>7. section.cells \in Seq(Nat) /\ HoldsAt(section.cells, off, h \o u)
  BY <1>6 DEF IsSection
<1>8. /\ off \in Nat /\ off + Len(h) <= Len(section.cells)
      /\ \A j \in 1 .. Len(h) : section.cells[off + j] = h[j]
      /\ HoldsAt(section.cells, off + Len(h), u)
      /\ off + Len(h \o u) = (off + Len(h)) + Len(u)
  <2>1. PICK cells \in Seq(Nat) : cells = section.cells
    BY <1>7
  <2>2. HoldsAt(cells, off, h \o u)
    BY <1>7, <2>1
  <2>3. /\ off \in Nat /\ off + Len(h) <= Len(cells)
        /\ \A j \in 1 .. Len(h) : cells[off + j] = h[j]
        /\ HoldsAt(cells, off + Len(h), u)
        /\ off + Len(h \o u) = (off + Len(h)) + Len(u)
    BY <2>2, HoldsTail, SMTT(30)
  <2> QED BY <2>1, <2>3, SMTT(30)
<1>9. section.cells[off + 1] = id /\ section.cells[off + 2] = m /\ ~(off + 2 > c)
      /\ HoldsAt(section.cells, off + 2, u)
  BY <1>1, <1>5, <1>8
<1>10. DecodeTuples(section, off + 2, m)
         = Decoded(0, SubSeq(key, 0 + 1, Len(key)), (off + 2) + Len(u))
  BY <1>1, <1>2, <1>4, <1>9, TuplesAfter
<1>11. SubSeq(key, 0 + 1, Len(key)) = key
  BY SubSeqFull DEF FitKey
<1>12. PICK d : d = DecodeTuples(section, off + 2, m) /\ d = Decoded(0, key, (off + 2) + Len(u))
  BY <1>10, <1>11
<1>13. d.ok /\ d.key = key /\ d.off = (off + 2) + Len(u)
  BY <1>12 DEF Decoded
<1>14. DecodeRestart(section, off) = Decoded(id, d.key, d.off)
  BY <1>1, <1>3, <1>9, <1>12, <1>13 DEF DecodeRestart
<1> QED BY <1>5, <1>6, <1>8, <1>13, <1>14

(* A record that shares a prefix is read back as its ID and its key, given *)
(* the key before it.                                                      *)
LEMMA NextRight ==
  ASSUME NEW section, IsSection(section), NEW key, NEW delim, FitKey(key, delim),
         NEW id \in Nat, NEW prevId, NEW prevKey \in Seq(Nat), NEW s, IsCommon(prevKey, key, s),
         NEW off, HoldsAt(section.cells, off, NextRecord(id, key, s, delim, section.table))
  PROVE  DecodeNext(section, Decoded(prevId, prevKey, off))
           = Decoded(id, key, off + Len(NextRecord(id, key, s, delim, section.table)))
<1>1. PICK c, m : c \in Nat /\ c = Len(section.cells) /\ m = Len(TokensAfter(key, s, delim))
  BY LenProperties DEF IsSection
<1>2. s \in 0 .. Len(key) /\ s \in Nat /\ key \in Seq(Nat)
  <2>1. key \in Seq(Nat)
    BY DEF FitKey
  <2>2. PICK x \in Nat : x = Len(key)
    BY <2>1, LenProperties
  <2> QED BY <2>1, <2>2 DEF IsCommon
<1>3. m \in Nat /\ m % CountLimit = m /\ TokensFit(TokensAfter(key, s, delim)) /\ s % PrefixLimit = s
  BY <1>1, <1>2, TokensAfterFit
<1>4. PICK u \in Seq(Nat) : u = Tuples(TokensAfter(key, s, delim), section.table)
  BY <1>3, TuplesAreCells DEF IsSection
<1>5. PICK h \in Seq(Nat) : h = <<id, s, m>> /\ Len(h) = 3 /\ h[1] = id /\ h[2] = s /\ h[3] = m
  <2>1. <<id, s, m>> \in Seq(Nat) /\ Len(<<id, s, m>>) = 3
    BY <1>2, <1>3
  <2>2. <<id, s, m>>[1] = id /\ <<id, s, m>>[2] = s /\ <<id, s, m>>[3] = m
    OBVIOUS
  <2> QED BY <2>1, <2>2
<1>6. NextRecord(id, key, s, delim, section.table) = h \o u
  BY <1>1, <1>3, <1>4, <1>5 DEF NextRecord
<1>7. section.cells \in Seq(Nat) /\ HoldsAt(section.cells, off, h \o u)
  BY <1>6 DEF IsSection
<1>8. /\ off \in Nat /\ off + Len(h) <= Len(section.cells)
      /\ \A j \in 1 .. Len(h) : section.cells[off + j] = h[j]
      /\ HoldsAt(section.cells, off + Len(h), u)
      /\ off + Len(h \o u) = (off + Len(h)) + Len(u)
  <2>1. PICK cells \in Seq(Nat) : cells = section.cells
    BY <1>7
  <2>2. HoldsAt(cells, off, h \o u)
    BY <1>7, <2>1
  <2>3. /\ off \in Nat /\ off + Len(h) <= Len(cells)
        /\ \A j \in 1 .. Len(h) : cells[off + j] = h[j]
        /\ HoldsAt(cells, off + Len(h), u)
        /\ off + Len(h \o u) = (off + Len(h)) + Len(u)
    BY <2>2, HoldsTail
  <2> QED BY <2>1, <2>3
<1>9. section.cells[off + 1] = id /\ section.cells[off + 2] = s /\ section.cells[off + 3] = m
      /\ ~(off + 3 > c) /\ HoldsAt(section.cells, off + 3, u)
  <2>1. PICK cells : cells = section.cells
    OBVIOUS
  <2>2. PICK k : k = Len(h) /\ k = 3
    BY <1>5
  <2>3. /\ off \in Nat /\ off + 3 <= Len(cells) /\ HoldsAt(cells, off + 3, u)
        /\ \A j \in 1 .. 3 : cells[off + j] = h[j]
    BY <1>8, <2>1, <2>2
  <2>4. cells[off + 1] = h[1] /\ cells[off + 2] = h[2] /\ cells[off + 3] = h[3]
    BY <2>3
  <2> QED BY <1>1, <1>5, <2>1, <2>3, <2>4
<1>10. DecodeTuples(section, off + 3, m)
         = Decoded(0, SubSeq(key, s + 1, Len(key)), (off + 3) + Len(u))
  BY <1>1, <1>2, <1>4, <1>9, TuplesAfter
<1>11. PICK d : d = DecodeTuples(section, off + 3, m)
                /\ d = Decoded(0, SubSeq(key, s + 1, Len(key)), (off + 3) + Len(u))
  BY <1>10
<1>12. d.ok /\ d.key = SubSeq(key, s + 1, Len(key)) /\ d.off = (off + 3) + Len(u)
  BY <1>11 DEF Decoded
<1>13. PICK x \in Nat, y \in Nat : x = Len(key) /\ y = Len(prevKey) /\ s <= x /\ s <= y
       /\ \A i \in 1 .. s : prevKey[i] = key[i]
  BY <1>2, LenProperties DEF IsCommon
<1>14. SubSeq(prevKey, 1, s) = SubSeq(key, 1, s)
  <2>1. PICK a, b : a = SubSeq(prevKey, 1, s) /\ b = SubSeq(key, 1, s)
    OBVIOUS
  <2>2. 0 + 1 = 1 /\ 0 + s = s /\ 0 + s <= Len(prevKey) /\ 0 + s <= Len(key)
    BY <1>2, <1>13
  <2>3. SubSeq(prevKey, 0 + 1, 0 + s) \in Seq(Nat) /\ Len(SubSeq(prevKey, 0 + 1, 0 + s)) = s
        /\ \A j \in 1 .. s : SubSeq(prevKey, 0 + 1, 0 + s)[j] = prevKey[0 + j]
    BY <1>2, <2>2, Slice
  <2>4. SubSeq(key, 0 + 1, 0 + s) \in Seq(Nat) /\ Len(SubSeq(key, 0 + 1, 0 + s)) = s
        /\ \A j \in 1 .. s : SubSeq(key, 0 + 1, 0 + s)[j] = key[0 + j]
    BY <1>2, <2>2, Slice
  <2>5. \A j \in 1 .. s : 0 + j = j
    BY <1>2
  <2>6. a \in Seq(Nat) /\ b \in Seq(Nat) /\ Len(a) = s /\ Len(b) = s /\ \A j \in 1 .. s : a[j] = b[j]
    BY <1>13, <2>1, <2>2, <2>3, <2>4, <2>5
  <2>7. a = b
    BY <1>2, <2>6, SeqEqual
  <2> QED BY <2>1, <2>7
<1>15. SubSeq(key, 1, s) \o SubSeq(key, s + 1, x) = SubSeq(key, 1, x)
  <2>1. x \in 0 .. Len(key) /\ s <= x
    BY <1>13
  <2> QED BY <1>2, <2>1, SliceJoin
<1>16. SubSeq(key, 1, x) = key
  BY <1>2, <1>13, SubSeqFull
<1>17. PICK v : v = SubSeq(prevKey, 1, s) \o d.key /\ v = key
  BY <1>12, <1>13, <1>14, <1>15, <1>16
<1>18. DecodeNext(section, Decoded(prevId, prevKey, off)) = Decoded(id, v, d.off)
  <2>4. PICK prev : prev = Decoded(prevId, prevKey, off)
    OBVIOUS
  <2>1. prev = Decoded(prevId, prevKey, off) /\ prev.ok /\ prev.key = prevKey /\ prev.off = off
    BY <2>4 DEF Decoded
  <2>2. ~(s > Len(prevKey)) /\ m % CountLimit = m
    BY <1>2, <1>3, <1>13
  <2>3. DecodeNext(section, prev) = Decoded(id, v, d.off)
    BY <1>1, <1>9, <1>11, <1>12, <1>17, <2>1, <2>2 DEF DecodeNext
  <2> QED BY <2>1, <2>3
<1> QED BY <1>5, <1>6, <1>8, <1>12, <1>17, <1>18

(*****************************************************************************)
(* An index, written and read back                                           *)
(*****************************************************************************)
(* What an index is built from: an ID for each key, and keys that fit.       *)
IndexInput(ids, keys, delim) ==
  /\ ids \in Seq(Nat) /\ keys \in Seq(Seq(Nat)) /\ Len(ids) = Len(keys)
  /\ \A i \in 1 .. Len(keys) : KeyFits(keys[i], delim)

(* The records of an index. *)
Records(ids, keys, delim) ==
  [i \in 1 .. Len(keys) |-> IndexRecord(i, ids, keys, delim, StringTable(keys, delim))]

(* The two kinds of record. *)
LEMMA RecordShape ==
  ASSUME NEW ids, NEW keys, NEW delim, NEW i, NEW table
  PROVE  /\ IsRestart(i) => IndexRecord(i, ids, keys, delim, table)
                              = RestartRecord(ids[i], keys[i], delim, table)
         /\ ~IsRestart(i) => IndexRecord(i, ids, keys, delim, table)
                               = NextRecord(ids[i], keys[i], SharedPrefix(keys[i - 1], keys[i]), delim, table)
<1>1. CASE IsRestart(i)
  <2>1. LeftOut(i, keys) = 0
    BY <1>1 DEF LeftOut
  <2> QED BY <1>1, <2>1 DEF IndexRecord, RestartRecord, TokensAfter
<1>2. CASE ~IsRestart(i)
  <2>1. LeftOut(i, keys) = SharedPrefix(keys[i - 1], keys[i])
    BY <1>2 DEF LeftOut
  <2> QED BY <1>2, <2>1 DEF IndexRecord, NextRecord, TokensAfter
<1> QED BY <1>1, <1>2

(* The records are cells, and each one's key fits. *)
LEMMA RecordsAreCells ==
  ASSUME NEW ids, NEW keys, NEW delim, IndexInput(ids, keys, delim),
         NEW table, IsTable(table), NEW i \in 1 .. Len(keys)
  PROVE  /\ IndexRecord(i, ids, keys, delim, table) \in Seq(Nat)
         /\ FitKey(keys[i], delim) /\ ids[i] \in Nat
         /\ ~IsRestart(i) => /\ i - 1 \in 1 .. Len(keys) /\ keys[i - 1] \in Seq(Nat)
                             /\ IsCommon(keys[i - 1], keys[i], SharedPrefix(keys[i - 1], keys[i]))
<1>1. PICK n \in Nat : n = Len(keys) /\ n = Len(ids)
  BY LenProperties DEF IndexInput
<1>2. FitKey(keys[i], delim) /\ ids[i] \in Nat
  BY <1>1, LenProperties DEF IndexInput, FitKey
<1>3. keys[i] \in Seq(Nat)
  BY <1>2 DEF FitKey
<1>8. PICK id \in Nat : id = ids[i]
  BY <1>2
<1>4. PICK key : id = ids[i] /\ key = keys[i] /\ FitKey(key, delim) /\ key \in Seq(Nat)
  BY <1>2, <1>3, <1>8
<1>5. ASSUME ~IsRestart(i)
      PROVE  i - 1 \in 1 .. Len(keys) /\ keys[i - 1] \in Seq(Nat)
             /\ IsCommon(keys[i - 1], keys[i], SharedPrefix(keys[i - 1], keys[i]))
  <2>1. i # 1
    <3>1. RestartInterval \in Nat \ {0} /\ 1 - 1 = 0 /\ 0 % RestartInterval = 0
      BY NameIndexAssumption
    <3> QED BY <1>5, <3>1 DEF IsRestart
  <2>2. i - 1 \in 1 .. Len(keys)
    BY <1>1, <2>1
  <2>3. keys[i - 1] \in Seq(Nat)
    BY <1>1, <2>2, LenProperties DEF IndexInput
  <2> QED BY <1>3, <2>2, <2>3, SharedPrefixRight
<1>6. CASE IsRestart(i)
  <2>1. 0 \in 0 .. Len(key)
    BY <1>4, LenProperties
  <2>2. PICK m \in Nat : m = Len(TokensAfter(key, 0, delim)) % CountLimit
    BY <1>4, <2>1, TokensAfterFit
  <2>3. PICK u \in Seq(Nat) : u = Tuples(TokensAfter(key, 0, delim), table)
    BY <1>4, <2>1, TokensAfterFit, TuplesAreCells
  <2>7. <<id, m>> \in Seq(Nat)
    OBVIOUS
  <2>4. PICK h \in Seq(Nat) : h = <<id, m>>
    BY <2>7
  <2>5. h \o u \in Seq(Nat)
    OBVIOUS
  <2>6. RestartRecord(id, key, delim, table) = h \o u
    BY <2>2, <2>3, <2>4 DEF RestartRecord
  <2>8. IndexRecord(i, ids, keys, delim, table) = RestartRecord(ids[i], keys[i], delim, table)
    BY <1>6, RecordShape
  <2>9. IndexRecord(i, ids, keys, delim, table) \in Seq(Nat)
    BY <1>4, <2>5, <2>6, <2>8
  <2> QED BY <1>2, <1>6, <2>9
<1>7. CASE ~IsRestart(i)
  <2>1. PICK s : s = SharedPrefix(keys[i - 1], keys[i]) /\ s \in 0 .. Len(key)
    <3>1. PICK x \in Nat : x = Len(key)
      BY <1>4, LenProperties
    <3> QED BY <1>4, <1>5, <1>7, <3>1 DEF IsCommon
  <2>2. PICK m \in Nat, q \in Nat : m = Len(TokensAfter(key, s, delim)) % CountLimit /\ q = s % PrefixLimit
    <3>1. s \in Nat
      BY <1>4, <2>1, LenProperties
    <3> QED BY <1>4, <2>1, <3>1, TokensAfterFit
  <2>3. PICK u \in Seq(Nat) : u = Tuples(TokensAfter(key, s, delim), table)
    BY <1>4, <2>1, TokensAfterFit, TuplesAreCells
  <2>8. <<id, q, m>> \in Seq(Nat)
    OBVIOUS
  <2>4. PICK h \in Seq(Nat) : h = <<id, q, m>>
    BY <2>8
  <2>5. h \o u \in Seq(Nat)
    OBVIOUS
  <2>6. NextRecord(id, key, s, delim, table) = h \o u
    BY <2>2, <2>3, <2>4 DEF NextRecord
  <2>7. IndexRecord(i, ids, keys, delim, table) = h \o u
    <3>1. IndexRecord(i, ids, keys, delim, table)
            = NextRecord(ids[i], keys[i], SharedPrefix(keys[i - 1], keys[i]), delim, table)
      BY <1>7, RecordShape
    <3> QED BY <1>4, <2>1, <2>6, <3>1
  <2> QED BY <1>2, <1>5, <1>7, <2>5, <2>7
<1> QED BY <1>6, <1>7

(* Where a block starts: the records before it are whole blocks. *)
LEMMA RestartBlock ==
  ASSUME NEW n \in Nat, NEW i \in 1 .. n, IsRestart(i)
  PROVE  \E b \in 1 .. RestartCount(n) :
           b = (i - 1) \div RestartInterval + 1 /\ (b - 1) * RestartInterval = i - 1
<1>1. PICK R \in Nat \ {0} : R = RestartInterval
  BY NameIndexAssumption
<1>2. PICK x \in Nat : x = i - 1 /\ x < n
  BY i - 1 \in Nat
<1>3. PICK q \in Nat : q = x \div R /\ x = q * R + (x % R)
  BY <1>1, DivFacts
<1>4. x % R = 0 /\ x = q * R
  <2>1. x % R = 0
    BY <1>1, <1>2 DEF IsRestart
  <2>2. q * R \in Nat
    BY <1>1
  <2> QED BY <1>3, <2>1, <2>2
<1>5. PICK y \in Nat : y = n + R - 1
  <2>1. n + R - 1 \in Nat
    BY <1>1
  <2> QED BY <2>1
<1>6. PICK p \in Nat, r \in Nat : p = y \div R /\ r = y % R /\ r < R /\ y = p * R + r
  <2>1. /\ y \div R \in Nat /\ y % R \in 0 .. R - 1
        /\ y = (y \div R) * R + (y % R)
    BY DivFacts
  <2> QED BY <2>1
<1>7. q < p
  <2> SUFFICES ASSUME p <= q PROVE FALSE
    OBVIOUS
  <2>1. p * R <= q * R
    <3>1. CASE p = q
      BY <3>1
    <3>2. CASE p < q
      BY <1>1, <3>2, TimesLess
    <3> QED BY <3>1, <3>2
  <2>2. PICK a \in Nat, b \in Nat : a = p * R /\ b = q * R
    BY <1>1
  <2>3. y >= x + R
    BY <1>1, <1>2, <1>5
  <2>4. y < b + R
    BY <1>1, <1>6, <2>1, <2>2
  <2> QED BY <1>1, <1>4, <2>2, <2>3, <2>4
<1>8. q + 1 \in 1 .. p /\ q + 1 - 1 = q
  BY <1>7
<1> QED BY <1>1, <1>2, <1>3, <1>4, <1>5, <1>6, <1>8 DEF RestartCount

(* What SerializeIndex writes: every record at its place, and the restarts *)
(* where a block starts.                                                   *)
SectionOf(ids, keys, delim, g) ==
  LET sec == SerializeIndex(ids, keys, delim)
  IN  /\ sec.count = Len(keys) /\ IsSection(sec)
      /\ sec.table = StringTable(keys, delim)
      /\ \A i \in 1 .. Len(keys) :
           /\ HoldsAt(sec.cells, Len(g[i - 1]), IndexRecord(i, ids, keys, delim, sec.table))
           /\ Len(g[i]) = Len(g[i - 1]) + Len(IndexRecord(i, ids, keys, delim, sec.table))
           /\ IsRestart(i) => sec.restarts[(i - 1) \div RestartInterval + 1] = Len(g[i - 1])

(* SerializeIndex writes such a section. *)
LEMMA SectionShape ==
  ASSUME NEW ids, NEW keys, NEW delim, IndexInput(ids, keys, delim)
  PROVE  \E g : SectionOf(ids, keys, delim, g)
<1>1. PICK n \in Nat : n = Len(keys)
  BY LenProperties DEF IndexInput
<1>2. PICK table : table = StringTable(keys, delim) /\ IsTable(table)
  BY TableRight DEF IndexInput
<1>3. PICK recs : recs = Records(ids, keys, delim)
  OBVIOUS
<1>4. /\ recs \in Seq(Seq(Nat)) /\ Len(recs) = n
      /\ \A i \in 1 .. n : recs[i] = IndexRecord(i, ids, keys, delim, table)
  <2>1. \A i \in 1 .. n : IndexRecord(i, ids, keys, delim, table) \in Seq(Nat)
    BY <1>1, <1>2, RecordsAreCells
  <2>2. recs = [i \in 1 .. n |-> IndexRecord(i, ids, keys, delim, table)]
    BY <1>1, <1>2, <1>3 DEF Records
  <2>3. recs \in [1 .. n -> Seq(Nat)]
    BY <2>1, <2>2
  <2> QED BY <2>2, <2>3
<1>5. PICK g : Joins(g, recs, Nat)
  BY <1>4, JoinsExist
<1>6. FlattenSeq(recs) = g[n] /\ g[n] \in Seq(Nat)
  <2>1. FlattenSeq(recs) = g[n]
    BY <1>4, <1>5, FlattenJoins
  <2> QED BY <1>4, <1>5, <2>1 DEF Joins
<1>7. PICK sec : sec = SerializeIndex(ids, keys, delim)
  OBVIOUS
<1>8. /\ sec.count = n /\ sec.table = table /\ sec.cells = FlattenSeq(recs)
      /\ sec.restarts = [b \in 1 .. RestartCount(n) |->
                           Len(FlattenSeq(SubSeq(recs, 1, (b - 1) * RestartInterval)))]
  BY <1>1, <1>2, <1>3, <1>7 DEF SerializeIndex, Records
<1>9. IsSection(sec)
  BY <1>2, <1>6, <1>8 DEF IsSection
<1>10. ASSUME NEW i \in 1 .. n
       PROVE  /\ HoldsAt(sec.cells, Len(g[i - 1]), recs[i])
              /\ Len(g[i]) = Len(g[i - 1]) + Len(recs[i])
  <2>1. WindowOf(g, recs, Nat)
    BY <1>4, <1>5, JoinWindows
  <2>2. n \in 0 .. Len(recs) /\ i \in 1 .. n
    BY <1>4
  <2>3. Window(g, recs, i, n, Nat)
    BY <2>1, <2>2 DEF WindowOf
  <2>4. /\ Len(g[i]) = Len(g[i - 1]) + Len(recs[i]) /\ Len(g[i]) <= Len(g[n])
        /\ Len(g[i - 1]) \in Nat /\ Len(g[i]) \in Nat /\ Len(g[n]) \in Nat
        /\ \A j \in 1 .. Len(recs[i]) : g[n][Len(g[i - 1]) + j] = recs[i][j]
    BY <2>3 DEF Window
  <2> QED BY <1>6, <1>8, <2>4 DEF HoldsAt
<1>11. ASSUME NEW i \in 1 .. n, IsRestart(i)
       PROVE  sec.restarts[(i - 1) \div RestartInterval + 1] = Len(g[i - 1])
  <2>1. PICK b \in 1 .. RestartCount(n) :
          b = (i - 1) \div RestartInterval + 1 /\ (b - 1) * RestartInterval = i - 1
    BY <1>11, RestartBlock
  <2>2. sec.restarts[b] = Len(FlattenSeq(SubSeq(recs, 1, i - 1)))
    BY <1>8, <2>1
  <2>3. i - 1 \in 0 .. Len(recs)
    BY <1>4
  <2>4. FlattenSeq(SubSeq(recs, 1, i - 1)) = g[i - 1]
    BY <1>4, <1>5, <2>3, JoinFirst
  <2> QED BY <2>1, <2>2, <2>4
<1>12. SectionOf(ids, keys, delim, g)
  <2>1. \A i \in 1 .. Len(keys) :
           /\ HoldsAt(sec.cells, Len(g[i - 1]), IndexRecord(i, ids, keys, delim, sec.table))
           /\ Len(g[i]) = Len(g[i - 1]) + Len(IndexRecord(i, ids, keys, delim, sec.table))
           /\ IsRestart(i) => sec.restarts[(i - 1) \div RestartInterval + 1] = Len(g[i - 1])
    <3> SUFFICES ASSUME NEW i \in 1 .. n
                 PROVE  /\ HoldsAt(sec.cells, Len(g[i - 1]), IndexRecord(i, ids, keys, delim, table))
                        /\ Len(g[i]) = Len(g[i - 1]) + Len(IndexRecord(i, ids, keys, delim, table))
                        /\ IsRestart(i) => sec.restarts[(i - 1) \div RestartInterval + 1] = Len(g[i - 1])
      BY <1>1, <1>8
    <3>1. recs[i] = IndexRecord(i, ids, keys, delim, table)
      BY <1>4
    <3>2. HoldsAt(sec.cells, Len(g[i - 1]), recs[i]) /\ Len(g[i]) = Len(g[i - 1]) + Len(recs[i])
      BY <1>10
    <3>3. IsRestart(i) => sec.restarts[(i - 1) \div RestartInterval + 1] = Len(g[i - 1])
      BY <1>11
    <3> QED BY <3>1, <3>2, <3>3
  <2> QED BY <1>1, <1>2, <1>7, <1>8, <1>9, <2>1 DEF SectionOf
<1> QED BY <1>12

(* The same from 1 on. *)
FollowsFrom1(w, g, N) ==
  \A n \in 1 .. N : (n = 1 \/ w[n - 1] = g[n - 1]) => w[n] = g[n]

(* Two functions with the same steps from 1 on are the same up to N. *)
LEMMA SameFrom1 ==
  ASSUME NEW N \in Nat, NEW w, NEW g, FollowsFrom1(w, g, N)
  PROVE  \A n \in 1 .. N : w[n] = g[n]
<1> DEFINE S == {n \in 0 .. N : n = 0 \/ w[n] = g[n]}
<1>1. 0 \in S
  OBVIOUS
<1>2. ASSUME NEW n \in 0 .. N - 1, n \in S PROVE n + 1 \in S
  <2>1. n + 1 \in 1 .. N /\ (n + 1) - 1 = n /\ n + 1 \in 0 .. N
    OBVIOUS
  <2> QED BY <1>2, <2>1 DEF FollowsFrom1
<1>3. 0 .. N \subseteq S
  <2> HIDE DEF S
  <2> QED BY <1>1, <1>2, IntervalInduction
<1>4. ASSUME NEW n \in 1 .. N PROVE w[n] = g[n]
  <2>1. n \in 0 .. N /\ n # 0
    OBVIOUS
  <2> QED BY <1>3, <2>1
<1> QED BY <1>4

(* What the index holds, read back: the records as they were written. *)
ReadBack(records, ids, keys) ==
  \E offs : records = [i \in 1 .. Len(keys) |-> Decoded(ids[i], keys[i], offs[i])]

(* One step of the reader. *)
DecodeRecord(sec, i, records) ==
  IF IsRestart(i) THEN DecodeRestart(sec, sec.restarts[(i - 1) \div RestartInterval + 1])
  ELSE DecodeNext(sec, records[i - 1])

(* An index is read back as it was written: every ID with its key, for any *)
(* keys that fit, any interval of restarts and any delimiter.              *)
THEOREM DecodeIndexRight ==
  ASSUME NEW ids, NEW keys, NEW delim, IndexInput(ids, keys, delim)
  PROVE  ReadBack(DecodeIndex(SerializeIndex(ids, keys, delim)), ids, keys)
<1>1. PICK n \in Nat : n = Len(keys)
  BY LenProperties DEF IndexInput
<1>2. PICK g : SectionOf(ids, keys, delim, g)
  BY SectionShape
<1>3. PICK sec : sec = SerializeIndex(ids, keys, delim)
  OBVIOUS
<1>4. /\ sec.count = n /\ IsSection(sec) /\ sec.table = StringTable(keys, delim)
      /\ \A i \in 1 .. n :
           /\ HoldsAt(sec.cells, Len(g[i - 1]), IndexRecord(i, ids, keys, delim, sec.table))
           /\ Len(g[i]) = Len(g[i - 1]) + Len(IndexRecord(i, ids, keys, delim, sec.table))
           /\ IsRestart(i) => sec.restarts[(i - 1) \div RestartInterval + 1] = Len(g[i - 1])
  BY <1>1, <1>2, <1>3 DEF SectionOf
<1> DEFINE Body(w) == [i \in 1 .. n |-> DecodeRecord(sec, i, w)]
           good == [i \in 1 .. n |-> Decoded(ids[i], keys[i], Len(g[i]))]
<1>5. ASSUME NEW w, NEW i \in 1 .. n, i = 1 \/ w[i - 1] = good[i - 1]
      PROVE  DecodeRecord(sec, i, w) = good[i]
  <2>1. PICK rec, key, id : rec = IndexRecord(i, ids, keys, delim, sec.table)
                            /\ key = keys[i] /\ id = ids[i]
    OBVIOUS
  <2>2. good[i] = Decoded(id, key, Len(g[i]))
    BY <2>1
  <2>3. /\ FitKey(key, delim) /\ id \in Nat
        /\ ~IsRestart(i) => /\ i - 1 \in 1 .. n /\ keys[i - 1] \in Seq(Nat)
                            /\ IsCommon(keys[i - 1], key, SharedPrefix(keys[i - 1], key))
    BY <1>1, <1>4, <2>1, RecordsAreCells DEF IsSection
  <2>4. /\ HoldsAt(sec.cells, Len(g[i - 1]), rec) /\ Len(g[i]) = Len(g[i - 1]) + Len(rec)
        /\ IsRestart(i) => sec.restarts[(i - 1) \div RestartInterval + 1] = Len(g[i - 1])
    BY <1>4, <2>1
  <2>5. CASE IsRestart(i)
    <3>1. rec = RestartRecord(id, key, delim, sec.table)
      BY <2>1, <2>5, RecordShape
    <3>2. PICK off : off = Len(g[i - 1])
      OBVIOUS
    <3>3. HoldsAt(sec.cells, off, RestartRecord(id, key, delim, sec.table))
      BY <2>4, <3>1, <3>2
    <3>4. DecodeRestart(sec, off) = Decoded(id, key, off + Len(RestartRecord(id, key, delim, sec.table)))
      BY <1>4, <2>3, <3>3, RestartRight
    <3>5. DecodeRecord(sec, i, w) = DecodeRestart(sec, off)
      BY <2>4, <2>5, <3>2 DEF DecodeRecord
    <3> HIDE DEF good
    <3> QED BY <2>2, <2>4, <3>1, <3>2, <3>4, <3>5
  <2>6. CASE ~IsRestart(i)
    <3>1. PICK s, prev : s = SharedPrefix(keys[i - 1], key) /\ prev = keys[i - 1]
      OBVIOUS
    <3>2. rec = NextRecord(id, key, s, delim, sec.table)
      BY <2>1, <2>6, <3>1, RecordShape
    <3>3. PICK off : off = Len(g[i - 1])
      OBVIOUS
    <3>4. HoldsAt(sec.cells, off, NextRecord(id, key, s, delim, sec.table))
      BY <2>4, <3>2, <3>3
    <3>5. prev \in Seq(Nat) /\ IsCommon(prev, key, s) /\ i - 1 \in 1 .. n
      BY <2>3, <2>6, <3>1
    <3>6. DecodeNext(sec, Decoded(ids[i - 1], prev, off))
            = Decoded(id, key, off + Len(NextRecord(id, key, s, delim, sec.table)))
      BY <1>4, <2>3, <3>4, <3>5, NextRight, SMTT(30)
    <3>7. i # 1
      <4>1. RestartInterval \in Nat \ {0} /\ 1 - 1 = 0 /\ 0 % RestartInterval = 0
        BY NameIndexAssumption
      <4> QED BY <2>6, <4>1 DEF IsRestart
    <3>8. w[i - 1] = Decoded(ids[i - 1], prev, off)
      BY <1>5, <3>1, <3>3, <3>5, <3>7
    <3>9. DecodeRecord(sec, i, w) = DecodeNext(sec, w[i - 1])
      BY <2>6 DEF DecodeRecord
    <3> HIDE DEF good
    <3> QED BY <2>2, <2>4, <3>2, <3>3, <3>6, <3>8, <3>9
  <2> QED BY <2>5, <2>6
<1>6. good = Body(good)
  <2>1. \A i \in 1 .. n : DecodeRecord(sec, i, good) = good[i]
    BY <1>5
  <2>2. good = [i \in 1 .. n |-> good[i]]
    OBVIOUS
  <2> HIDE DEF good
  <2> QED BY <2>1, <2>2
<1>7. PICK walk : walk = CHOOSE w : w = Body(w)
  OBVIOUS
<1>8. DecodeIndex(sec) = walk
  BY <1>4, <1>7 DEF DecodeIndex, DecodeRecord
<1>9. walk = Body(walk)
  <2> HIDE DEF Body, good
  <2> QED BY <1>6, <1>7
<1>10. FollowsFrom1(walk, good, n)
  <2>1. \A i \in 1 .. n : walk[i] = DecodeRecord(sec, i, walk)
    <3>1. \A v : \A i \in 1 .. n : Body(v)[i] = DecodeRecord(sec, i, v)
      OBVIOUS
    <3> HIDE DEF Body
    <3> QED BY <1>9, <3>1
  <2> HIDE DEF good
  <2> QED BY <1>5, <2>1 DEF FollowsFrom1
<1>11. walk = good
  <2>1. walk = [i \in 1 .. n |-> walk[i]]
    BY <1>9
  <2>2. good = [i \in 1 .. n |-> good[i]]
    OBVIOUS
  <2>3. PICK h : h = good
    OBVIOUS
  <2>4. \A i \in 1 .. n : walk[i] = h[i]
    <3> HIDE DEF good
    <3> QED BY <1>10, <2>3, SameFrom1
  <2> HIDE DEF good
  <2> QED BY <2>1, <2>2, <2>3, <2>4
<1>12. PICK offs : offs = [i \in 1 .. n |-> Len(g[i])]
  OBVIOUS
<1>13. walk = [i \in 1 .. Len(keys) |-> Decoded(ids[i], keys[i], offs[i])]
  BY <1>1, <1>11, <1>12
<1> QED BY <1>3, <1>8, <1>13 DEF ReadBack

(*****************************************************************************)
(* The MIME table                                                            *)
(*****************************************************************************)
(* The table after one entry more.                                           *)
NextType(types, e) == IF e.mime \in ToSet(types) THEN types ELSE Append(types, e.mime)

(* The tables as the entries are added. *)
TypesAfter(es) ==
  CHOOSE types : types = [n \in 0 .. Len(es) |->
                            IF n = 0 THEN StandardTypes ELSE NextType(types[n - 1], es[n])]

(* The MIME table of the entries es. *)
TypesOf(es) == TypesAfter(es)[Len(es)]

(* MIMETypes is the table of what was added. *)
LEMMA MIMETypesAre == MIMETypes = TypesOf(entries)
BY DEF MIMETypes, TypesOf, TypesAfter, NextType

(* t starts with s. *)
IsPrefixOf(s, t) == Len(s) <= Len(t) /\ \A i \in 1 .. Len(s) : t[i] = s[i]

(* An entry only ever adds to the table, and its type is in it. *)
LEMMA NextTypeFacts ==
  ASSUME NEW types \in Seq(Seq(Nat)), NEW e, e.mime \in Seq(Nat)
  PROVE  /\ NextType(types, e) \in Seq(Seq(Nat)) /\ IsPrefixOf(types, NextType(types, e))
         /\ \E k \in 1 .. Len(NextType(types, e)) : NextType(types, e)[k] = e.mime
<1>1. PICK c \in Nat : c = Len(types)
  BY LenProperties
<1>2. CASE e.mime \in ToSet(types)
  <2>1. NextType(types, e) = types
    BY <1>2 DEF NextType
  <2>2. \E k \in 1 .. c : types[k] = e.mime
    BY <1>1, <1>2 DEF ToSet
  <2> QED BY <1>1, <2>1, <2>2 DEF IsPrefixOf
<1>3. CASE e.mime \notin ToSet(types)
  <2>1. PICK w : w = Append(types, e.mime)
    OBVIOUS
  <2>2. w \in Seq(Seq(Nat)) /\ Len(w) = c + 1 /\ w[c + 1] = e.mime /\ \A i \in 1 .. c : w[i] = types[i]
    BY <1>1, <2>1
  <2>3. NextType(types, e) = w
    BY <1>3, <2>1 DEF NextType
  <2>4. c + 1 \in 1 .. Len(w) /\ c <= Len(w)
    BY <2>2
  <2> QED BY <1>1, <2>2, <2>3, <2>4 DEF IsPrefixOf
<1> QED BY <1>2, <1>3

(* The tables, one after the other. *)
TypesUpto(types, es) ==
  /\ types \in [0 .. Len(es) -> Seq(Seq(Nat))] /\ types[0] = StandardTypes
  /\ \A n \in 1 .. Len(es) : types[n] = NextType(types[n - 1], es[n])

(* There is a table after each entry. *)
LEMMA TypesExist ==
  ASSUME NEW es \in Seq(ContentRecords)
  PROVE  TypesUpto(TypesAfter(es), es)
<1>1. PICK N \in Nat : N = Len(es)
  BY LenProperties
<1> DEFINE V == Seq(Seq(Nat))
           at(n, v) == IF n \in 1 .. N THEN NextType(v, es[n]) ELSE v
           step == [n \in Nat |-> [v \in V |-> at(n, v)]]
           Body(w) == [n \in 0 .. N |-> IF n = 0 THEN StandardTypes ELSE NextType(w[n - 1], es[n])]
<1>2. ASSUME NEW n \in Nat, NEW v \in V PROVE at(n, v) \in V
  <2>1. CASE n \in 1 .. N
    <3>1. es[n].mime \in Seq(Nat)
      BY <1>1, <2>1, RecordsAssumption, LenProperties
    <3>2. NextType(v, es[n]) \in V
      BY <3>1, NextTypeFacts
    <3> QED BY <2>1, <3>2
  <2>2. CASE n \notin 1 .. N
    BY <2>2
  <2> QED BY <2>1, <2>2
<1>3. step \in [Nat -> [V -> V]]
  <2> HIDE DEF at, V
  <2> QED BY <1>2
<1>4. StandardTypes \in V
  BY RecordsAssumption
<1>5. PICK f : IteratesUpto(f, N, V, StandardTypes, step)
  <2> HIDE DEF step, V
  <2> QED BY <1>3, <1>4, RecursionUpto
<1>6. /\ f \in [0 .. N -> V] /\ f[0] = StandardTypes
      /\ \A n \in 1 .. N : f[n] = NextType(f[n - 1], es[n])
  <2>1. f \in [0 .. N -> V] /\ f[0] = StandardTypes /\ \A n \in 1 .. N : f[n] = step[n][f[n - 1]]
    <3> HIDE DEF step, V
    <3> QED BY <1>5 DEF IteratesUpto
  <2>2. ASSUME NEW n \in 1 .. N PROVE f[n] = NextType(f[n - 1], es[n])
    <3>1. n \in Nat /\ n - 1 \in 0 .. N /\ at(n, f[n - 1]) = NextType(f[n - 1], es[n])
      OBVIOUS
    <3>2. f[n - 1] \in V
      <4> HIDE DEF V, step
      <4> QED BY <2>1, <3>1
    <3>3. step[n][f[n - 1]] = at(n, f[n - 1])
      <4> HIDE DEF V, at
      <4> QED BY <3>1, <3>2
    <3> HIDE DEF V, at, step
    <3> QED BY <2>1, <3>1, <3>3
  <2> HIDE DEF step, V
  <2> QED BY <2>1, <2>2
<1>7. f = Body(f)
  <2>1. f = [n \in 0 .. N |-> f[n]]
    <3> HIDE DEF V
    <3> QED BY <1>6
  <2>2. \A n \in 0 .. N : f[n] = IF n = 0 THEN StandardTypes ELSE NextType(f[n - 1], es[n])
    <3> HIDE DEF V
    <3>1. \A n \in 0 .. N : n = 0 \/ n \in 1 .. N
      OBVIOUS
    <3> QED BY <1>6, <3>1
  <2> HIDE DEF V
  <2> QED BY <2>1, <2>2
<1>8. PICK walk : walk = CHOOSE w : w = Body(w)
  OBVIOUS
<1>9. TypesAfter(es) = walk
  BY <1>1, <1>8 DEF TypesAfter
<1>10. walk = Body(walk)
  <2> HIDE DEF Body
  <2> QED BY <1>7, <1>8
<1>11. Follows(walk, f, N)
  <2>1. walk[0] = StandardTypes
    BY <1>10
  <2>2. ASSUME NEW n \in 1 .. N PROVE walk[n] = NextType(walk[n - 1], es[n])
    <3>1. n \in 0 .. N /\ n # 0
      OBVIOUS
    <3>2. \A w : Body(w)[n] = NextType(w[n - 1], es[n])
      BY <3>1
    <3> HIDE DEF Body
    <3> QED BY <1>10, <3>2
  <2> HIDE DEF Body, V
  <2> QED BY <1>6, <2>1, <2>2 DEF Follows
<1>12. \A n \in 0 .. N : walk[n] = f[n]
  BY <1>11, SameUpto
<1>13. walk = [n \in 0 .. N |-> walk[n]]
  BY <1>10
<1>14. \A n \in 1 .. N : n \in 0 .. N /\ n - 1 \in 0 .. N
  OBVIOUS
<1> HIDE DEF Body, V, step, at
<1>15. walk = f
  <2>1. f = [n \in 0 .. N |-> f[n]]
    BY <1>6
  <2> QED BY <1>12, <1>13, <2>1
<1> QED BY <1>1, <1>6, <1>9, <1>15 DEF TypesUpto, V

(* A type keeps its index. *)
LEMMA TypesKeep ==
  ASSUME NEW es \in Seq(ContentRecords), NEW k \in 0 .. Len(es), NEW n \in k .. Len(es)
  PROVE  IsPrefixOf(TypesAfter(es)[k], TypesAfter(es)[n])
<1>1. PICK N \in Nat : N = Len(es)
  BY LenProperties
<1>2. PICK f : f = TypesAfter(es) /\ TypesUpto(f, es)
  BY TypesExist
<1>3. /\ f \in [0 .. N -> Seq(Seq(Nat))]
      /\ \A i \in 1 .. N : f[i] = NextType(f[i - 1], es[i])
  BY <1>1, <1>2 DEF TypesUpto
<1> DEFINE S == {i \in 0 .. N : k <= i => IsPrefixOf(f[k], f[i])}
<1>4. k \in 0 .. N /\ n \in 0 .. N /\ k <= n
  BY <1>1
<1>5. IsPrefixOf(f[k], f[k])
  <2>1. Len(f[k]) \in Nat
    BY <1>3, <1>4, LenProperties
  <2> QED BY <2>1 DEF IsPrefixOf
<1>6. 0 \in S
  <2>1. k <= 0 => k = 0
    BY <1>4
  <2> QED BY <1>5, <2>1
<1>7. ASSUME NEW i \in 0 .. N - 1, i \in S PROVE i + 1 \in S
  <2>1. i + 1 \in 1 .. N /\ (i + 1) - 1 = i /\ i + 1 \in 0 .. N /\ i \in 0 .. N
    OBVIOUS
  <2>2. CASE k = i + 1
    BY <1>5, <2>1, <2>2
  <2>3. CASE k <= i
    <3>1. PICK a \in Seq(Seq(Nat)), b \in Seq(Seq(Nat)), c \in Seq(Seq(Nat)) :
            a = f[k] /\ b = f[i] /\ c = f[i + 1] /\ c = NextType(b, es[i + 1]) /\ IsPrefixOf(a, b)
      BY <1>3, <1>4, <1>7, <2>1, <2>3
    <3>2. es[i + 1].mime \in Seq(Nat)
      BY <1>1, <2>1, RecordsAssumption, LenProperties
    <3>3. IsPrefixOf(b, c)
      BY <3>1, <3>2, NextTypeFacts
    <3>4. PICK x \in Nat, y \in Nat, z \in Nat : x = Len(a) /\ y = Len(b) /\ z = Len(c)
      BY LenProperties
    <3>5. IsPrefixOf(a, c)
      <4>1. x <= y /\ y <= z /\ (\A j \in 1 .. x : b[j] = a[j]) /\ (\A j \in 1 .. y : c[j] = b[j])
        BY <3>1, <3>3, <3>4 DEF IsPrefixOf
      <4>2. \A j \in 1 .. x : j \in 1 .. y
        BY <4>1
      <4>3. x <= z
        BY <4>1
      <4> QED BY <3>4, <4>1, <4>2, <4>3 DEF IsPrefixOf
    <3> QED BY <2>1, <3>1, <3>5
  <2>4. CASE ~(k <= i + 1)
    BY <2>1, <2>4
  <2>5. k = i + 1 \/ k <= i \/ ~(k <= i + 1)
    BY <1>4
  <2> QED BY <2>2, <2>3, <2>4, <2>5
<1>8. 0 .. N \subseteq S
  <2> HIDE DEF S
  <2> QED BY <1>6, <1>7, IntervalInduction
<1> QED BY <1>2, <1>4, <1>8

(* The table starts with the standard types and has the type of every *)
(* entry.                                                             *)
LEMMA TypesFacts ==
  ASSUME NEW es \in Seq(ContentRecords)
  PROVE  /\ TypesOf(es) \in Seq(Seq(Nat)) /\ IsPrefixOf(StandardTypes, TypesOf(es))
         /\ \A i \in 1 .. Len(es) : \E k \in 1 .. Len(TypesOf(es)) : TypesOf(es)[k] = es[i].mime
<1>1. PICK N \in Nat : N = Len(es)
  BY LenProperties
<1>2. PICK f : f = TypesAfter(es) /\ TypesUpto(f, es)
  BY TypesExist
<1>3. /\ f \in [0 .. N -> Seq(Seq(Nat))] /\ f[0] = StandardTypes
      /\ \A i \in 1 .. N : f[i] = NextType(f[i - 1], es[i])
  BY <1>1, <1>2 DEF TypesUpto
<1>4. TypesOf(es) = f[N] /\ f[N] \in Seq(Seq(Nat))
  BY <1>1, <1>2, <1>3 DEF TypesOf
<1>5. IsPrefixOf(f[0], f[N])
  <2>1. 0 \in 0 .. Len(es) /\ N \in 0 .. Len(es)
    BY <1>1
  <2> QED BY <1>2, <2>1, TypesKeep
<1>6. ASSUME NEW i \in 1 .. N PROVE \E k \in 1 .. Len(f[N]) : f[N][k] = es[i].mime
  <2>1. i \in 0 .. Len(es) /\ N \in i .. Len(es) /\ i - 1 \in 0 .. N /\ i \in 0 .. N
    BY <1>1
  <2>2. IsPrefixOf(f[i], f[N])
    BY <1>2, <2>1, TypesKeep
  <2>3. PICK b \in Seq(Seq(Nat)), c \in Seq(Seq(Nat)), d \in Seq(Seq(Nat)) :
          b = f[i - 1] /\ c = f[i] /\ d = f[N] /\ c = NextType(b, es[i])
    BY <1>3, <1>4, <2>1
  <2>4. es[i].mime \in Seq(Nat)
    BY <1>1, RecordsAssumption, LenProperties
  <2>5. PICK k \in 1 .. Len(c) : c[k] = es[i].mime
    <3>1. PICK e : e = es[i]
      OBVIOUS
    <3>2. \E k \in 1 .. Len(NextType(b, e)) : NextType(b, e)[k] = e.mime
      BY <2>4, <3>1, NextTypeFacts
    <3> QED BY <2>3, <3>1, <3>2
  <2>6. PICK x \in Nat, y \in Nat : x = Len(c) /\ y = Len(d)
    BY LenProperties
  <2>7. k \in 1 .. y /\ d[k] = c[k]
    BY <2>2, <2>3, <2>5, <2>6 DEF IsPrefixOf
  <2> QED BY <2>3, <2>5, <2>6, <2>7
<1> QED BY <1>1, <1>3, <1>4, <1>5, <1>6

(*****************************************************************************)
(* The names and the indices made of them                                    *)
(*****************************************************************************)
(* The names of the entries es and of the redirects rs.                      *)
NamesOf(es, rs) ==
  [i \in 1 .. Len(es) |-> [id |-> i - 1, path |-> es[i].path, title |-> es[i].title]]
  \o [i \in 1 .. Len(rs) |->
        [id |-> MakeRedirectID(i - 1), path |-> rs[i].path, title |-> rs[i].title]]

(* Names is that of what was added. *)
LEMMA NamesAre == Names = NamesOf(entries, redirects)
BY DEF Names, NamesOf

(* What a name is. *)
Named == [id : Nat, path : Seq(Nat), title : Seq(Nat)]

(* The names are those of the entries and then of the redirects. *)
LEMMA NamesFacts ==
  ASSUME NEW es \in Seq(ContentRecords), NEW rs \in Seq(RedirectRecords)
  PROVE  /\ NamesOf(es, rs) \in Seq(Named) /\ Len(NamesOf(es, rs)) = Len(es) + Len(rs)
         /\ Len(es) \in Nat /\ Len(rs) \in Nat
         /\ \A i \in 1 .. Len(es) :
              NamesOf(es, rs)[i] = [id |-> i - 1, path |-> es[i].path, title |-> es[i].title]
         /\ \A i \in 1 .. Len(rs) :
              NamesOf(es, rs)[Len(es) + i]
                = [id |-> MakeRedirectID(i - 1), path |-> rs[i].path, title |-> rs[i].title]
<1>1. PICK m \in Nat, n \in Nat : m = Len(es) /\ n = Len(rs)
  BY LenProperties
<1>2. PICK a : a = [i \in 1 .. m |-> [id |-> i - 1, path |-> es[i].path, title |-> es[i].title]]
  OBVIOUS
<1>3. PICK b : b = [i \in 1 .. n |->
                      [id |-> MakeRedirectID(i - 1), path |-> rs[i].path, title |-> rs[i].title]]
  OBVIOUS
<1>4. a \in Seq(Named) /\ Len(a) = m
  <2>1. ASSUME NEW i \in 1 .. m
        PROVE  [id |-> i - 1, path |-> es[i].path, title |-> es[i].title] \in Named
    <3>1. es[i] \in ContentRecords
      BY <1>1, LenProperties
    <3>2. es[i].path \in Seq(Nat) /\ es[i].title \in Seq(Nat)
      BY <3>1, RecordsAssumption
    <3>3. i - 1 \in Nat
      BY <1>1
    <3> QED BY <3>2, <3>3 DEF Named
  <2>2. a \in [1 .. m -> Named]
    BY <1>2, <2>1
  <2> QED BY <1>1, <2>2
<1>5. b \in Seq(Named) /\ Len(b) = n
  <2>1. ASSUME NEW i \in 1 .. n
        PROVE  [id |-> MakeRedirectID(i - 1), path |-> rs[i].path, title |-> rs[i].title] \in Named
    <3>1. rs[i] \in RedirectRecords
      BY <1>1, LenProperties
    <3>2. rs[i].path \in Seq(Nat) /\ rs[i].title \in Seq(Nat)
      BY <3>1, RecordsAssumption
    <3>3. MakeRedirectID(i - 1) \in Nat
      BY <1>1, CatalogueAssumption DEF MakeRedirectID
    <3> QED BY <3>2, <3>3 DEF Named
  <2>2. b \in [1 .. n -> Named]
    BY <1>3, <2>1
  <2> QED BY <1>1, <2>2
<1>6. PICK w : w = a \o b
  OBVIOUS
<1>7. PICK x \in Seq(Named), y \in Seq(Named) : x = a /\ y = b
  BY <1>4, <1>5
<1>8. /\ x \o y \in Seq(Named) /\ Len(x \o y) = Len(x) + Len(y)
      /\ \A i \in 1 .. Len(x) : (x \o y)[i] = x[i]
      /\ \A i \in 1 .. Len(y) : (x \o y)[Len(x) + i] = y[i]
  BY ConcatFacts
<1>9. /\ w \in Seq(Named) /\ Len(w) = m + n
      /\ \A i \in 1 .. m : w[i] = a[i]
      /\ \A i \in 1 .. n : w[m + i] = b[i]
  BY <1>4, <1>5, <1>6, <1>7, <1>8
<1>10. NamesOf(es, rs) = w
  BY <1>1, <1>2, <1>3, <1>6 DEF NamesOf
<1> QED BY <1>1, <1>2, <1>3, <1>9, <1>10

-----------------------------------------------------------------------------
(* The order of an index: by key, and as the unstable sort turns equal *)
(* ones.                                                               *)
SoonerKey(key, turned, i, j) ==
  Before(key[i], key[j]) \/ (key[i] = key[j] /\ IF turned THEN i > j ELSE i < j)

(* The order of an index holds. *)
Ranked(key, turned, s) ==
  \A i, j \in 1 .. Cardinality(1 .. Len(key)) : i < j => SoonerKey(key, turned, s[i], s[j])

(* The order of an index, as the places of the names. *)
RankOf(key, turned) ==
  CHOOSE s \in [1 .. Cardinality(1 .. Len(key)) -> 1 .. Len(key)] : Ranked(key, turned, s)

(* The order of an index, as pairs. *)
RankOrder(key, turned) ==
  {p \in (1 .. Len(key)) \X (1 .. Len(key)) : SoonerKey(key, turned, p[1], p[2])}

(* The order of an index is total. *)
LEMMA RankOrderTotal ==
  ASSUME NEW key \in Seq(Seq(Nat)), NEW turned \in BOOLEAN
  PROVE  TotalOrder(RankOrder(key, turned), 1 .. Len(key))
<1>1. PICK n \in Nat : n = Len(key)
  BY LenProperties
<1>2. \A i \in 1 .. n : key[i] \in Seq(Nat) /\ i \in Nat
  BY <1>1, LenProperties
<1>3. \A i, j \in 1 .. n : <<i, j>> \in RankOrder(key, turned) <=> SoonerKey(key, turned, i, j)
  BY <1>1 DEF RankOrder
<1>4. ASSUME NEW i \in 1 .. n PROVE ~SoonerKey(key, turned, i, i)
  BY <1>2, BeforeIrreflexive DEF SoonerKey
<1>5. ASSUME NEW i \in 1 .. n, NEW j \in 1 .. n, i # j
      PROVE  SoonerKey(key, turned, i, j) \/ SoonerKey(key, turned, j, i)
  <2>1. i < j \/ j < i
    BY <1>5
  <2>2. CASE key[i] = key[j]
    BY <2>1, <2>2 DEF SoonerKey
  <2>3. CASE key[i] # key[j]
    BY <1>2, <2>3, BeforeTotal DEF SoonerKey
  <2> QED BY <2>2, <2>3
<1>6. ASSUME NEW i \in 1 .. n, NEW j \in 1 .. n, NEW k \in 1 .. n,
             SoonerKey(key, turned, i, j), SoonerKey(key, turned, j, k)
      PROVE  SoonerKey(key, turned, i, k)
  <2>1. PICK a \in Seq(Nat), b \in Seq(Nat), c \in Seq(Nat) : a = key[i] /\ b = key[j] /\ c = key[k]
    BY <1>2
  <2>2. Before(a, b) \/ (a = b /\ IF turned THEN i > j ELSE i < j)
    BY <1>6, <2>1 DEF SoonerKey
  <2>3. Before(b, c) \/ (b = c /\ IF turned THEN j > k ELSE j < k)
    BY <1>6, <2>1 DEF SoonerKey
  <2>4. Before(a, b) /\ Before(b, c) => Before(a, c)
    BY BeforeTransitive
  <2>5. (IF turned THEN i > j ELSE i < j) /\ (IF turned THEN j > k ELSE j < k)
          => IF turned THEN i > k ELSE i < k
    BY <1>2
  <2>6. Before(a, c) \/ (a = c /\ IF turned THEN i > k ELSE i < k)
    BY <2>2, <2>3, <2>4, <2>5
  <2> QED BY <2>1, <2>6 DEF SoonerKey
<1>7. \A i \in 1 .. n : <<i, i>> \notin RankOrder(key, turned)
  BY <1>3, <1>4
<1>8. \A i, j \in 1 .. n :
        i # j => <<i, j>> \in RankOrder(key, turned) \/ <<j, i>> \in RankOrder(key, turned)
  BY <1>3, <1>5
<1>9. \A i, j, k \in 1 .. n :
        <<i, j>> \in RankOrder(key, turned) /\ <<j, k>> \in RankOrder(key, turned)
          => <<i, k>> \in RankOrder(key, turned)
  BY <1>3, <1>6
<1> QED BY <1>1, <1>7, <1>8, <1>9 DEF TotalOrder

(* The order of an index has each name at one place. *)
LEMMA RankFacts ==
  ASSUME NEW key \in Seq(Seq(Nat)), NEW turned \in BOOLEAN
  PROVE  /\ RankOf(key, turned) \in Seq(1 .. Len(key)) /\ Len(RankOf(key, turned)) = Len(key)
         /\ \A x \in 1 .. Len(key) : \E i \in 1 .. Len(key) : RankOf(key, turned)[i] = x
         /\ \A i, j \in 1 .. Len(key) : RankOf(key, turned)[i] = RankOf(key, turned)[j] => i = j
         /\ \A i, j \in 1 .. Len(key) :
              i < j => SoonerKey(key, turned, RankOf(key, turned)[i], RankOf(key, turned)[j])
<1>1. PICK n \in Nat : n = Len(key)
  BY LenProperties
<1>2. IsFiniteSet(1 .. n) /\ Cardinality(1 .. n) = n
  BY FS_Interval
<1>3. PICK s : InOrder(s, 1 .. n, RankOrder(key, turned))
  BY <1>1, <1>2, RankOrderTotal, OrderExists
<1>4. s \in [1 .. n -> 1 .. n] /\ \A i, j \in 1 .. n : i < j => <<s[i], s[j]>> \in RankOrder(key, turned)
  BY <1>2, <1>3 DEF InOrder
<1>5. Ranked(key, turned, s)
  BY <1>1, <1>2, <1>4 DEF Ranked, RankOrder
<1>6. PICK r : r = RankOf(key, turned)
  OBVIOUS
<1>7. r \in [1 .. n -> 1 .. n] /\ Ranked(key, turned, r)
  BY <1>1, <1>2, <1>4, <1>5, <1>6 DEF RankOf
<1>8. \A i, j \in 1 .. n : i < j => SoonerKey(key, turned, r[i], r[j])
  BY <1>1, <1>2, <1>7 DEF Ranked
<1>9. InOrder(r, 1 .. n, RankOrder(key, turned))
  BY <1>1, <1>2, <1>7, <1>8 DEF InOrder, RankOrder
<1>10. /\ r \in Seq(1 .. n) /\ Len(r) = n
       /\ \A x \in 1 .. n : \E i \in 1 .. Len(r) : r[i] = x
       /\ \A i, j \in 1 .. Len(r) : r[i] = r[j] => i = j
  <2>1. TotalOrder(RankOrder(key, turned), 1 .. n)
    BY <1>1, RankOrderTotal
  <2>2. PICK S : S = 1 .. n
    OBVIOUS
  <2>3. TotalOrder(RankOrder(key, turned), S) /\ IsFiniteSet(S) /\ InOrder(r, S, RankOrder(key, turned))
    BY <1>2, <1>9, <2>1, <2>2
  <2>4. /\ r \in Seq(S) /\ Len(r) = Cardinality(S)
        /\ \A x \in S : \E i \in 1 .. Len(r) : r[i] = x
        /\ \A i, j \in 1 .. Len(r) : r[i] = r[j] => i = j
    BY <2>3, OrderFacts
  <2> QED BY <1>2, <2>2, <2>4
<1> QED BY <1>1, <1>6, <1>8, <1>10

(* The IDs, in the order of the index. *)
RankedIds(names, key, turned) ==
  [k \in 1 .. Len(RankOf(key, turned)) |-> names[RankOf(key, turned)[k]].id]

(* The keys, in the order of the index. *)
RankedKeys(key, turned) == [k \in 1 .. Len(RankOf(key, turned)) |-> key[RankOf(key, turned)[k]]]

(* buildPathIndex of the names whose keys are key. *)
IndexOf(names, key, delim, turned) ==
  SerializeIndex(RankedIds(names, key, turned), RankedKeys(key, turned), delim)

(* BuildIndex is that of the names of what was added. *)
LEMMA BuildIndexIs ==
  ASSUME NEW key, NEW delim, NEW turned
  PROVE  BuildIndex(key, delim, turned) = IndexOf(Names, key, delim, turned)
BY Zenon DEF BuildIndex, IndexOf, RankedIds, RankedKeys, RankOf, Ranked, SoonerKey, Sorted

(* What is read from the index: every name once, in the order of its keys. *)
Catalogued(records, names, key, turned) ==
  \E rank, offs :
    /\ rank = RankOf(key, turned)
    /\ records = [k \in 1 .. Len(key) |-> Decoded(names[rank[k]].id, key[rank[k]], offs[k])]

(* The index of keys that fit is read back as every name once, in the *)
(* order of its keys.                                                 *)
LEMMA IndexOfRight ==
  ASSUME NEW names \in Seq(Named), NEW key \in Seq(Seq(Nat)), Len(key) = Len(names), NEW delim,
         NEW turned \in BOOLEAN, \A i \in 1 .. Len(key) : KeyFits(key[i], delim)
  PROVE  Catalogued(DecodeIndex(IndexOf(names, key, delim, turned)), names, key, turned)
<1>1. PICK n \in Nat : n = Len(key) /\ n = Len(names)
  BY LenProperties
<1>2. PICK r : r = RankOf(key, turned)
  OBVIOUS
<1>3. r \in Seq(1 .. n) /\ Len(r) = n /\ \A k \in 1 .. n : r[k] \in 1 .. n
  <2>1. r \in Seq(1 .. n) /\ Len(r) = n
    BY <1>1, <1>2, RankFacts
  <2> QED BY <2>1, LenProperties
<1>4. PICK ids, keys : ids = RankedIds(names, key, turned) /\ keys = RankedKeys(key, turned)
  OBVIOUS
<1>5. ids = [k \in 1 .. n |-> names[r[k]].id] /\ keys = [k \in 1 .. n |-> key[r[k]]]
  BY <1>2, <1>3, <1>4 DEF RankedIds, RankedKeys
<1>6. \A k \in 1 .. n : names[r[k]].id \in Nat /\ key[r[k]] \in Seq(Nat)
  <2>1. \A j \in 1 .. n : names[j] \in Named /\ key[j] \in Seq(Nat)
    BY <1>1, LenProperties
  <2>2. \A j \in 1 .. n : names[j].id \in Nat
    BY <2>1 DEF Named
  <2> QED BY <1>3, <2>1, <2>2
<1>7. ids \in [1 .. n -> Nat] /\ keys \in [1 .. n -> Seq(Nat)]
  BY <1>5, <1>6
<1>8. ids \in Seq(Nat) /\ keys \in Seq(Seq(Nat)) /\ Len(ids) = n /\ Len(keys) = n
  <2>1. ids \in Seq(Nat) /\ Len(ids) = n
    BY <1>7
  <2>2. keys \in Seq(Seq(Nat)) /\ Len(keys) = n
    BY <1>7
  <2> QED BY <2>1, <2>2
<1>9. IndexInput(ids, keys, delim)
  BY <1>1, <1>3, <1>5, <1>8 DEF IndexInput
<1>10. ReadBack(DecodeIndex(SerializeIndex(ids, keys, delim)), ids, keys)
  BY <1>9, DecodeIndexRight
<1>11. PICK records : records = DecodeIndex(IndexOf(names, key, delim, turned))
  OBVIOUS
<1>12. PICK offs : records = [k \in 1 .. n |-> Decoded(ids[k], keys[k], offs[k])]
  BY <1>4, <1>8, <1>10, <1>11 DEF IndexOf, ReadBack
<1>13. records = [k \in 1 .. n |-> Decoded(names[r[k]].id, key[r[k]], offs[k])]
  BY <1>5, <1>12
<1> QED BY <1>1, <1>2, <1>11, <1>13 DEF Catalogued

(*****************************************************************************)
(* The file, and what Open makes of it                                       *)
(*****************************************************************************)
(* The paths.                                                                *)
PathsOf(names) == [i \in 1 .. Len(names) |-> names[i].path]
(* The titles. *)
TitlesOf(names) == [i \in 1 .. Len(names) |-> names[i].title]

(* The index of a type. *)
TypeIndex(types, t) == CHOOSE i \in 1 .. Len(types) : types[i] = t

(* The entry table of es. *)
EntriesOf(es) ==
  [i \in 1 .. Len(es) |->
     [mime |-> (TypeIndex(TypesOf(es), es[i].mime) - 1) % MIMELimit, front |-> es[i].front]]

(* The MIME table of the types. *)
TableCells(types) ==
  [count |-> Len(types) % MIMELimit,
   cells |-> FlattenSeq([i \in 1 .. Len(types) |-> Field(types[i], StringLimit)])]

(* The metadata section of m, in that order of its keys. *)
MetadataCells(m, order) ==
  [count |-> Len(order),
   cells |-> FlattenSeq([i \in 1 .. 2 * Len(order) |->
               IF i % 2 = 1 THEN Field(Chars[order[(i + 1) \div 2]], StringLimit)
               ELSE Field(m[order[i \div 2]], StringLimit * StringLimit)])]

(* The sections that Close writes of what was added. *)
FileOf(es, rs, m, turned, order) ==
  [mime |-> TableCells(TypesOf(es)),
   entries |-> EntriesOf(es),
   redirects |-> [i \in 1 .. Len(rs) |-> rs[i].target],
   path |-> IndexOf(NamesOf(es, rs), PathsOf(NamesOf(es, rs)), Slash, turned),
   title |-> IndexOf(NamesOf(es, rs), TitlesOf(NamesOf(es, rs)), Space, turned),
   meta |-> MetadataCells(m, order)]

(* Close writes those of what was added. *)
LEMMA SectionsAre ==
  ASSUME NEW turned, NEW order
  PROVE  Sections(turned, order) = FileOf(entries, redirects, meta, turned, order)
<1>1. MIMETable = TableCells(TypesOf(entries))
  BY MIMETypesAre DEF MIMETable, TableCells
<1>6. MarshalMetadata(order) = MetadataCells(meta, order)
  BY DEF MarshalMetadata, MetadataCells
<1>2. EntryTable = EntriesOf(entries)
  BY MIMETypesAre DEF EntryTable, EntriesOf, TypeIndex
<1>3. RedirectTable = [i \in 1 .. Len(redirects) |-> redirects[i].target]
  BY DEF RedirectTable
<1>4. BuildIndex([i \in 1 .. Len(Names) |-> Names[i].path], Slash, turned)
        = IndexOf(NamesOf(entries, redirects), PathsOf(NamesOf(entries, redirects)), Slash, turned)
  BY BuildIndexIs, NamesAre DEF PathsOf
<1>5. BuildIndex([i \in 1 .. Len(Names) |-> Names[i].title], Space, turned)
        = IndexOf(NamesOf(entries, redirects), TitlesOf(NamesOf(entries, redirects)), Space, turned)
  BY BuildIndexIs, NamesAre DEF TitlesOf
<1> QED BY <1>1, <1>2, <1>3, <1>4, <1>5, <1>6 DEF Sections, FileOf

(* The entries of one type (buildMIMEIndex). *)
OfType(es, unp, m) ==
  Where([i \in 1 .. Len(es) |-> i - 1], LAMBDA id : id \notin unp /\ es[id + 1].mime = m - 1)

(* What Open makes of a file. *)
LoadOf(f, unp) ==
  [mimeTypes |-> TypesRead(f.mime).fields, entries |-> f.entries, redirects |-> f.redirects,
   meta |-> MetadataOf(f.meta), pathIdx |-> DecodeIndex(f.path), titleIdx |-> DecodeIndex(f.title),
   idToPath |-> ReverseMap(DecodeIndex(f.path)), idToTitle |-> ReverseMap(DecodeIndex(f.title)),
   mimeToEntries |-> [m \in 1 .. Len(TypesRead(f.mime).fields) |-> OfType(f.entries, unp, m)]]

(* Load is that of the file on the disk. *)
LEMMA LoadIs == Load = LoadOf(file, unparsable)
BY Zenon DEF Load, LoadOf, OfType

(* Every section of a file parses. *)
ParsesOf(f) ==
  /\ ParseMIMETable(f.mime) /\ ParseMetadata(f.meta)
  /\ Decodable(DecodeIndex(f.path)) /\ Decodable(DecodeIndex(f.title))

(* Parses is that of the file on the disk. *)
LEMMA ParsesIs == Parses = ParsesOf(file)
BY DEF Parses, ParsesOf

(* What was added fits the fields of the format. *)
FitsOf(es, rs, m) ==
  /\ \A i \in 1 .. Len(NamesOf(es, rs)) :
       KeyFits(NamesOf(es, rs)[i].path, Slash) /\ KeyFits(NamesOf(es, rs)[i].title, Space)
  /\ Len(TypesOf(es)) < MIMELimit
  /\ \A i \in 1 .. Len(TypesOf(es)) : Len(TypesOf(es)[i]) < StringLimit
  /\ \A k \in DOMAIN m : Len(Chars[k]) < StringLimit

(* Fits is that of what was added. *)
LEMMA FitsIs == Fits = FitsOf(entries, redirects, meta)
BY NamesAre, MIMETypesAre DEF Fits, FitsOf

-----------------------------------------------------------------------------

(*****************************************************************************)
(* What verification says                                                    *)
(*****************************************************************************)
(* A list up to the first that is missing is no longer than the list.        *)
LEMMA UntilMissingLen ==
  ASSUME NEW A, NEW list \in Seq(A)
  PROVE  UntilMissing(list) \in Seq(A) /\ Len(UntilMissing(list)) <= Len(list)
<1>1. PICK n \in Nat : n = Len(list)
  BY LenProperties
<1> DEFINE bad == {i \in 1 .. n : list[i] = Missing}
<1>2. CASE bad = {}
  <2>1. UntilMissing(list) = list
    BY <1>1, <1>2 DEF UntilMissing
  <2> QED BY <1>1, <2>1
<1>3. CASE bad # {}
  <2>1. PICK x \in bad : \A y \in bad : x <= y
    <3>1. bad \in SUBSET Nat
      OBVIOUS
    <3> HIDE DEF bad
    <3> QED BY <1>3, <3>1, LeastElement
  <2>2. PICK m : m = Min(bad)
    OBVIOUS
  <2>3. m \in bad
    <3> HIDE DEF bad
    <3> QED BY <2>1, <2>2 DEF Min
  <2>4. PICK k \in Nat : k = m - 1 /\ k <= n
    <3>1. m - 1 \in Nat /\ m - 1 <= n
      BY <2>3
    <3> QED BY <3>1
  <2>5. UntilMissing(list) = SubSeq(list, 1, k)
    BY <1>1, <1>3, <2>2, <2>4 DEF UntilMissing
  <2>6. SubSeq(list, 0 + 1, 0 + k) \in Seq(A) /\ Len(SubSeq(list, 0 + 1, 0 + k)) = k
    <3>1. 0 + k <= Len(list) /\ 0 \in Nat
      BY <1>1, <2>4
    <3> QED BY <3>1, Slice
  <2>7. 0 + 1 = 1 /\ 0 + k = k
    OBVIOUS
  <2> QED BY <1>1, <2>4, <2>5, <2>6, <2>7
<1> QED BY <1>2, <1>3

(* VerifyEntries has an answer for each entry, and it is whether the *)
(* content is what was added.                                        *)
LEMMA VerifyEntriesShape ==
  ASSUME NEW a, Len(a.entries) \in Nat
  PROVE  \E n \in Nat : \E B :
           /\ VerifyEntries(a) \in Seq(B) /\ Len(VerifyEntries(a)) = n
           /\ \A i \in 1 .. n : VerifyEntries(a)[i]
                = [tier |-> "entry", id |-> i - 1, ok |-> (i - 1) \notin changed]
<1>1. PICK m \in Nat : m = Len(a.entries)
  OBVIOUS
<1>2. PICK A, all : /\ all = [i \in 1 .. m |-> EntryByID(a, i - 1)]
                    /\ A = {all[i] : i \in 1 .. m}
  OBVIOUS
<1>3. all \in Seq(A)
  <2>1. all \in [1 .. m -> A]
    BY <1>2
  <2> QED BY <2>1
<1>4. PICK list \in Seq(A) : list = Entries(a)
  BY <1>1, <1>2, <1>3, UntilMissingLen DEF Entries
<1>5. PICK n \in Nat : n = Len(list)
  BY LenProperties
<1>6. PICK w : w = VerifyEntries(a)
  OBVIOUS
<1>7. w = [i \in 1 .. n |-> [tier |-> "entry", id |-> i - 1, ok |-> (i - 1) \notin changed]]
  BY <1>4, <1>5, <1>6 DEF VerifyEntries
<1>8. PICK B : B = {w[i] : i \in 1 .. n}
  OBVIOUS
<1>9. w \in [1 .. n -> B]
  BY <1>7, <1>8
<1>10. w \in Seq(B) /\ Len(w) = n
  BY <1>9
<1>11. \A i \in 1 .. n : w[i] = [tier |-> "entry", id |-> i - 1, ok |-> (i - 1) \notin changed]
  BY <1>7
<1> QED BY <1>6, <1>10, <1>11

(* The answers to the other checks. *)
FileTier == [tier |-> "file", id |-> -1, ok |-> unparsable \union changed = {}]
(* The check of the entry table. *)
EntryTier == [tier |-> "section", id |-> 3, ok |-> unparsable = {}]
(* The check of the content. *)
ContentTier == [tier |-> "section", id |-> 6, ok |-> changed = {}]

(* Everything verifies when, and only when, nothing has changed on the *)
(* disk.                                                               *)
LEMMA VerifiedIs ==
  ASSUME NEW a, Len(a.entries) \in Nat
  PROVE  Verified(a) <=> unparsable \union changed = {}
<1>0. PICK n \in Nat : \E B :
        /\ VerifyEntries(a) \in Seq(B) /\ Len(VerifyEntries(a)) = n
        /\ \A i \in 1 .. n : VerifyEntries(a)[i]
             = [tier |-> "entry", id |-> i - 1, ok |-> (i - 1) \notin changed]
  BY VerifyEntriesShape
<1>1. PICK B : /\ VerifyEntries(a) \in Seq(B) /\ Len(VerifyEntries(a)) = n
               /\ \A i \in 1 .. n : VerifyEntries(a)[i]
                    = [tier |-> "entry", id |-> i - 1, ok |-> (i - 1) \notin changed]
  BY <1>0
<1>2. PICK C, u, v : /\ C = B \union {FileTier, EntryTier, ContentTier}
                     /\ u = <<FileTier, EntryTier, ContentTier>> /\ v = VerifyEntries(a)
  OBVIOUS
<1>3. u \in Seq(C) /\ Len(u) = 3 /\ u[1] = FileTier /\ u[2] = EntryTier /\ u[3] = ContentTier
  <2>1. u \in Seq(C)
    BY <1>2
  <2> QED BY <1>2, <2>1
<1>4. v \in Seq(C) /\ Len(v) = n
  <2>1. v \in [1 .. n -> B]
    BY <1>1, <1>2, LenProperties
  <2>2. v \in [1 .. n -> C]
    BY <1>2, <2>1
  <2> QED BY <2>2
<1>5. PICK w : w = u \o v
  OBVIOUS
<1>6. /\ Len(w) = 3 + n
      /\ \A i \in 1 .. 3 : w[i] = u[i]
      /\ \A i \in 1 .. n : w[3 + i] = v[i]
  <2>1. PICK x \in Seq(C), y \in Seq(C) : x = u /\ y = v
    BY <1>3, <1>4
  <2>2. /\ x \o y \in Seq(C) /\ Len(x \o y) = Len(x) + Len(y)
        /\ \A i \in 1 .. Len(x) : (x \o y)[i] = x[i]
        /\ \A i \in 1 .. Len(y) : (x \o y)[Len(x) + i] = y[i]
    BY ConcatFacts
  <2> QED BY <1>3, <1>4, <1>5, <2>1, <2>2
<1>7. VerifyAll(a) = w
  BY <1>2, <1>5 DEF VerifyAll, FileTier, EntryTier, ContentTier
<1>8. Verified(a) <=> \A i \in 1 .. 3 + n : w[i].ok
  BY <1>6, <1>7, Zenon DEF Verified
<1>9. w[1] = FileTier /\ w[2] = EntryTier /\ w[3] = ContentTier
  BY <1>3, <1>6
<1>10. ASSUME Verified(a) PROVE unparsable \union changed = {}
  <2>1. 1 \in 1 .. 3 + n
    OBVIOUS
  <2>2. FileTier.ok
    BY <1>8, <1>9, <1>10, <2>1, Zenon
  <2> QED BY <2>2 DEF FileTier
<1>11. ASSUME unparsable \union changed = {} PROVE Verified(a)
  <2>1. FileTier.ok /\ EntryTier.ok /\ ContentTier.ok
    BY <1>11 DEF FileTier, EntryTier, ContentTier
  <2>2. ASSUME NEW i \in 1 .. n PROVE w[3 + i].ok
    <3>1. w[3 + i] = [tier |-> "entry", id |-> i - 1, ok |-> (i - 1) \notin changed]
      BY <1>1, <1>2, <1>6
    <3>2. (i - 1) \notin changed
      BY <1>11
    <3>3. [tier |-> "entry", id |-> i - 1, ok |-> (i - 1) \notin changed].ok
      BY <3>2
    <3> QED BY <3>1, <3>3, Zenon
  <2>3. ASSUME NEW i \in 1 .. 3 + n PROVE w[i].ok
    <3>1. i = 1 \/ i = 2 \/ i = 3 \/ \E j \in 1 .. n : i = 3 + j
      <4>1. i > 3 => i - 3 \in 1 .. n /\ i = 3 + (i - 3)
        OBVIOUS
      <4>2. i <= 3 => i = 1 \/ i = 2 \/ i = 3
        OBVIOUS
      <4>3. i > 3 \/ i <= 3
        OBVIOUS
      <4> QED BY <4>1, <4>2, <4>3
    <3> QED BY <1>9, <2>1, <2>2, <3>1, Zenon
  <2> QED BY <1>8, <2>3, Zenon
<1> QED BY <1>10, <1>11

(*****************************************************************************)
(* The inductive invariant                                                   *)
(*****************************************************************************)
(* The variables, and what each phase has.                                   *)
TypeInv ==
  /\ phase \in {"writing", "closed", "invalid", "open", "refused"}
  /\ entries \in Seq(ContentRecords) /\ redirects \in Seq(RedirectRecords)
  /\ Len(entries) + Len(redirects) <= MaxNames
  /\ \A k \in DOMAIN meta : <<k, meta[k]>> \in MetadataCalls
  /\ unparsable \subseteq 0 .. Len(entries) - 1 /\ changed \subseteq 0 .. Len(entries) - 1
  /\ phase = "writing" => file = Nothing /\ unparsable = {} /\ changed = {}
  /\ phase # "open" => archive = Nothing

(* What is on the disk is what Close made of what had been added. *)
FileInv ==
  phase \in {"closed", "open", "refused"} =>
    \E turned \in BOOLEAN, order \in Shuffles[DOMAIN meta] :
      file = FileOf(entries, redirects, meta, turned, order)

(* What Open handed out, and why it refused. *)
OpenInv ==
  /\ phase = "open" => archive = LoadOf(file, unparsable)
  /\ phase = "refused" => ~ParsesOf(file) \/ unparsable \union changed # {}

(* The inductive invariant. *)
IInv == TypeInv /\ FileInv /\ OpenInv

(* It holds when the writer starts. *)
LEMMA InitIInv == Init => IInv
<1> SUFFICES ASSUME Init PROVE IInv
  OBVIOUS
<1>1. TypeInv
  <2>1. Len(<<>>) = 0 /\ <<>> \in Seq(ContentRecords) /\ <<>> \in Seq(RedirectRecords)
    OBVIOUS
  <2>2. 0 + 0 <= MaxNames
    BY CatalogueAssumption
  <2> QED BY <2>1, <2>2 DEF Init, TypeInv
<1> QED BY <1>1 DEF Init, IInv, FileInv, OpenInv

(* Every step keeps it. *)
LEMMA NextIInv == IInv /\ [Next]_vars => IInv'
<1> SUFFICES ASSUME IInv, [Next]_vars PROVE IInv'
  OBVIOUS
<1>0. TypeInv /\ FileInv /\ OpenInv
  BY DEF IInv
<1>9. PICK m \in Nat, n \in Nat : m = Len(entries) /\ n = Len(redirects)
  BY <1>0, LenProperties DEF TypeInv
<1>1. ASSUME NEW c \in MetadataCalls, SetMetadata(c[1], c[2]) PROVE IInv'
  <2>1. \A k \in DOMAIN meta' : <<k, meta'[k]>> \in MetadataCalls
    <3>1. c = <<c[1], c[2]>>
      BY RecordsAssumption
    <3> QED BY <1>0, <1>1, <3>1 DEF SetMetadata, TypeInv
  <2>2. TypeInv'
    BY <1>0, <1>1, <2>1 DEF SetMetadata, TypeInv
  <2> QED BY <1>1, <2>2 DEF SetMetadata, IInv, FileInv, OpenInv
<1>2. ASSUME NEW e \in ContentRecords, AddEntry(e) PROVE IInv'
  <2>1. entries' \in Seq(ContentRecords) /\ Len(entries') = m + 1
    BY <1>0, <1>2, <1>9 DEF AddEntry, TypeInv
  <2>2. m + 1 + n <= MaxNames
    BY <1>2, <1>9, CatalogueAssumption DEF AddEntry
  <2>3. TypeInv'
    BY <1>0, <1>2, <1>9, <2>1, <2>2 DEF AddEntry, TypeInv
  <2> QED BY <1>2, <2>3 DEF AddEntry, IInv, FileInv, OpenInv
<1>3. ASSUME NEW r \in RedirectRecords, AddRedirect(r) PROVE IInv'
  <2>1. redirects' \in Seq(RedirectRecords) /\ Len(redirects') = n + 1
    BY <1>0, <1>3, <1>9 DEF AddRedirect, TypeInv
  <2>2. m + (n + 1) <= MaxNames
    BY <1>3, <1>9, CatalogueAssumption DEF AddRedirect
  <2>3. TypeInv'
    BY <1>0, <1>3, <1>9, <2>1, <2>2 DEF AddRedirect, TypeInv
  <2> QED BY <1>3, <2>3 DEF AddRedirect, IInv, FileInv, OpenInv
<1>4. CASE Close
  <2>1. TypeInv'
    BY <1>0, <1>4 DEF Close, TypeInv
  <2>2. phase' = "closed" =>
          \E turned \in BOOLEAN, order \in Shuffles[DOMAIN meta'] :
            file' = FileOf(entries', redirects', meta', turned, order)
    <3>1. phase' = "closed" =>
            \E turned \in BOOLEAN, order \in Shuffles[DOMAIN meta] : file' = Sections(turned, order)
      BY <1>4 DEF Close
    <3>2. entries' = entries /\ redirects' = redirects /\ meta' = meta
      BY <1>4 DEF Close
    <3> QED BY <3>1, <3>2, SectionsAre
  <2>3. phase' \in {"closed", "invalid"}
    BY <1>4 DEF Close
  <2> QED BY <2>1, <2>2, <2>3 DEF IInv, FileInv, OpenInv
<1>5. CASE Damage
  <2>1. TypeInv'
    <3>1. phase = "closed" /\ phase' = phase /\ entries' = entries /\ redirects' = redirects
          /\ meta' = meta /\ file' = file /\ archive' = archive
      BY <1>5 DEF Damage
    <3>2. unparsable' \subseteq 0 .. Len(entries) - 1 /\ changed' \subseteq 0 .. Len(entries) - 1
      BY <1>0, <1>5 DEF Damage, TypeInv
    <3> QED BY <1>0, <3>1, <3>2 DEF TypeInv
  <2> QED BY <1>0, <1>5, <2>1 DEF Damage, IInv, FileInv, OpenInv
<1>6. CASE Open
  <2>0. phase = "closed" /\ UNCHANGED <<strict, entries, redirects, meta, file, unparsable, changed>>
    BY <1>6 DEF Open
  <2>1. PICK verifyOnOpen \in BOOLEAN :
          IF Parses /\ (verifyOnOpen => Verified(Load))
          THEN phase' = "open" /\ archive' = Load
          ELSE phase' = "refused" /\ UNCHANGED archive
    BY <1>6 DEF Open
  <2>2. TypeInv'
    BY <1>0, <2>0, <2>1 DEF TypeInv
  <2>3. FileInv'
    BY <1>0, <2>0, <2>1 DEF FileInv
  <2>4. CASE Parses /\ (verifyOnOpen => Verified(Load))
    BY <2>0, <2>1, <2>2, <2>3, <2>4, LoadIs DEF IInv, OpenInv
  <2>5. CASE ~(Parses /\ (verifyOnOpen => Verified(Load)))
    <3>1. CASE ~Parses
      BY <2>0, <2>1, <2>2, <2>3, <2>5, <3>1, ParsesIs DEF IInv, OpenInv
    <3>2. CASE ~Verified(Load)
      <4>1. Load.entries = file.entries
        BY LoadIs DEF LoadOf
      <4>2. PICK turned \in BOOLEAN, order \in Shuffles[DOMAIN meta] :
              file = FileOf(entries, redirects, meta, turned, order)
        BY <1>0, <2>0 DEF FileInv
      <4>3. file.entries = EntriesOf(entries)
        BY <4>2 DEF FileOf
      <4>4. Len(EntriesOf(entries)) \in Nat
        BY <1>9 DEF EntriesOf
      <4>5. unparsable \union changed # {}
        BY <3>2, <4>1, <4>3, <4>4, VerifiedIs
      <4> QED BY <2>0, <2>1, <2>2, <2>3, <2>5, <4>5 DEF IInv, OpenInv
    <3> QED BY <2>5, <3>1, <3>2
  <2> QED BY <2>4, <2>5
<1>7. CASE UNCHANGED vars
  BY <1>0, <1>7 DEF vars, IInv, TypeInv, FileInv, OpenInv
<1> QED BY <1>1, <1>2, <1>3, <1>4, <1>5, <1>6, <1>7 DEF Next

(* It holds in every state that can be reached. *)
THEOREM IInvAlways == Spec => []IInv
BY InitIInv, NextIInv, PTL DEF Spec

(*****************************************************************************)
(* An archive that fits opens                                                *)
(*****************************************************************************)
(* A slice as long as what a sequence starts with is that.                   *)
LEMMA WholeSlice ==
  ASSUME NEW A, NEW s \in Seq(A), NEW t \in Seq(A), IsPrefixOf(t, s)
  PROVE  SubSeq(s, 1, Len(t)) = t
<1>1. PICK m \in Nat : m = Len(t)
  BY LenProperties
<1>2. m <= Len(s) /\ \A i \in 1 .. m : s[i] = t[i]
  BY <1>1 DEF IsPrefixOf
<1>3. PICK w : w = SubSeq(s, 0 + 1, 0 + m)
  OBVIOUS
<1>4. w \in Seq(A) /\ Len(w) = m /\ \A j \in 1 .. m : w[j] = s[0 + j]
  <2>1. 0 \in Nat /\ 0 + m <= Len(s)
    BY <1>2
  <2> QED BY <1>3, <2>1, Slice
<1>5. \A j \in 1 .. m : w[j] = t[j]
  <2>1. \A j \in 1 .. m : 0 + j = j
    OBVIOUS
  <2> QED BY <1>2, <1>4, <2>1
<1>6. w = t
  BY <1>1, <1>4, <1>5
<1>7. 0 + 1 = 1 /\ 0 + m = m
  OBVIOUS
<1> QED BY <1>1, <1>3, <1>6, <1>7

(* The cells of fields whose lengths do not wrap. *)
FieldCells(fs) == [k \in 1 .. Len(fs) |-> <<Len(fs[k])>> \o fs[k]]

(* The reader behind the first i fields. *)
FieldsUpto(fs, g, i) == [ok |-> TRUE, off |-> Len(g[i]), fields |-> SubSeq(fs, 1, i)]

(* A field's cells: its length and it. *)
LEMMA FieldShape ==
  ASSUME NEW s \in Seq(Nat)
  PROVE  /\ <<Len(s)>> \o s \in Seq(Nat) /\ Len(<<Len(s)>> \o s) = Len(s) + 1
         /\ (<<Len(s)>> \o s)[1] = Len(s)
         /\ \A j \in 1 .. Len(s) : (<<Len(s)>> \o s)[1 + j] = s[j]
<1>1. PICK m \in Nat : m = Len(s)
  BY LenProperties
<1>2. PICK h \in Seq(Nat) : h = <<m>>
  <2>1. <<m>> \in Seq(Nat)
    OBVIOUS
  <2> QED BY <2>1
<1>3. Len(h) = 1 /\ h[1] = m
  BY <1>2
<1>4. /\ h \o s \in Seq(Nat) /\ Len(h \o s) = Len(h) + Len(s)
      /\ \A i \in 1 .. Len(h) : (h \o s)[i] = h[i]
      /\ \A i \in 1 .. Len(s) : (h \o s)[Len(h) + i] = s[i]
  BY ConcatFacts
<1> QED BY <1>1, <1>2, <1>3, <1>4

(* Fields are sequences of cells. *)
LEMMA FieldCellsType ==
  ASSUME NEW fs \in Seq(Seq(Nat))
  PROVE  FieldCells(fs) \in Seq(Seq(Nat)) /\ Len(FieldCells(fs)) = Len(fs)
<1>1. PICK n \in Nat : n = Len(fs)
  BY LenProperties
<1>2. ASSUME NEW k \in 1 .. n PROVE <<Len(fs[k])>> \o fs[k] \in Seq(Nat)
  <2>1. fs[k] \in Seq(Nat)
    BY <1>1, <1>2
  <2> QED BY <2>1, FieldShape
<1> QED BY <1>1, <1>2 DEF FieldCells

(* Reading the i-th field takes the reader from behind the one before it to *)
(* behind it.                                                               *)
LEMMA FieldStep ==
  ASSUME NEW fs \in Seq(Seq(Nat)), NEW g, Joins(g, FieldCells(fs), Nat), NEW i \in 1 .. Len(fs)
  PROVE  ReadField(g[Len(fs)], FieldsUpto(fs, g, i - 1)) = FieldsUpto(fs, g, i)
<1>1. PICK n \in Nat : n = Len(fs)
  BY LenProperties
<1>2. PICK s \in Seq(Nat) : s = fs[i]
  BY <1>1
<1>3. PICK ss \in Seq(Seq(Nat)) : ss = FieldCells(fs)
  BY FieldCellsType
<1>4. Len(ss) = n /\ ss[i] = <<Len(s)>> \o s
  BY <1>1, <1>2, <1>3, FieldCellsType DEF FieldCells
<1>5. /\ Len(g[i]) = Len(g[i - 1]) + Len(ss[i]) /\ Len(g[i]) <= Len(g[n])
      /\ Len(g[i - 1]) \in Nat /\ Len(g[i]) \in Nat /\ Len(g[n]) \in Nat /\ g[n] \in Seq(Nat)
      /\ \A j \in 1 .. Len(ss[i]) : g[n][Len(g[i - 1]) + j] = ss[i][j]
  <2>1. WindowOf(g, ss, Nat)
    BY <1>3, JoinWindows
  <2>2. n \in 0 .. Len(ss) /\ i \in 1 .. n
    BY <1>1, <1>4
  <2>3. Window(g, ss, i, n, Nat)
    BY <2>1, <2>2 DEF WindowOf
  <2> QED BY <2>3 DEF Window
<1>6. PICK x \in Nat, y \in Nat, z \in Nat, m \in Nat, cells \in Seq(Nat) :
        x = Len(g[i - 1]) /\ y = Len(g[i]) /\ z = Len(g[n]) /\ m = Len(s) /\ cells = g[n]
  BY <1>2, <1>5, LenProperties
<1>7. PICK w \in Seq(Nat) : w = ss[i]
  BY <1>2, <1>4, FieldShape
<1>8. Len(w) = m + 1 /\ w[1] = m /\ \A j \in 1 .. m : w[1 + j] = s[j]
  BY <1>2, <1>4, <1>6, <1>7, FieldShape
<1>9. y = x + (m + 1) /\ y <= z /\ z = Len(cells) /\ \A j \in 1 .. m + 1 : cells[x + j] = w[j]
  BY <1>5, <1>6, <1>7, <1>8
<1>10. cells[x + 1] = m /\ x + 1 <= Len(cells) /\ (x + 1) + m = y /\ y <= Len(cells)
  <2>1. 1 \in 1 .. m + 1
    BY <1>6
  <2> QED BY <1>8, <1>9, <2>1
<1>11. SubSeq(cells, (x + 1) + 1, y) = s
  <2>1. PICK p \in Nat : p = x + 1
    BY <1>6
  <2>2. p + m <= Len(cells) /\ p + m = y
    BY <1>10, <2>1
  <2>3. /\ SubSeq(cells, p + 1, p + m) \in Seq(Nat) /\ Len(SubSeq(cells, p + 1, p + m)) = m
        /\ \A j \in 1 .. m : SubSeq(cells, p + 1, p + m)[j] = cells[p + j]
    BY <2>2, Slice
  <2>4. ASSUME NEW j \in 1 .. m PROVE cells[p + j] = s[j]
    <3>1. 1 + j \in 1 .. m + 1 /\ x + (1 + j) = p + j
      BY <2>1
    <3> QED BY <1>8, <1>9, <3>1
  <2>5. SubSeq(cells, p + 1, p + m) = s
    <3>1. PICK u : u = SubSeq(cells, p + 1, p + m)
      OBVIOUS
    <3>2. u \in Seq(Nat) /\ Len(u) = m /\ \A j \in 1 .. m : u[j] = s[j]
      BY <2>3, <2>4, <3>1
    <3>3. u = s
      BY <1>6, <3>2, SeqEqual
    <3> QED BY <3>1, <3>3
  <2> QED BY <2>1, <2>2, <2>5
<1>12. PICK r : r = FieldsUpto(fs, g, i - 1)
  OBVIOUS
<1>13. r.ok /\ r.off = x /\ r.fields = SubSeq(fs, 1, i - 1)
  BY <1>6, <1>12 DEF FieldsUpto
<1>14. ReadField(cells, r) = [ok |-> TRUE, off |-> y, fields |-> Append(r.fields, s)]
  BY <1>10, <1>11, <1>13 DEF ReadField
<1>15. Append(SubSeq(fs, 1, i - 1), fs[i]) = SubSeq(fs, 1, i)
  BY <1>1
<1> QED BY <1>1, <1>2, <1>6, <1>12, <1>13, <1>14, <1>15 DEF FieldsUpto

(* Fields whose lengths do not wrap are read back as they were written. *)
LEMMA ReadFieldsRight ==
  ASSUME NEW fs \in Seq(Seq(Nat))
  PROVE  /\ ReadFields(FlattenSeq(FieldCells(fs)), Len(fs)).ok
         /\ ReadFields(FlattenSeq(FieldCells(fs)), Len(fs)).fields = fs
<1>1. PICK n \in Nat : n = Len(fs)
  BY LenProperties
<1>2. PICK g : Joins(g, FieldCells(fs), Nat)
  BY FieldCellsType, JoinsExist
<1>3. FlattenSeq(FieldCells(fs)) = g[n]
  BY <1>1, <1>2, FieldCellsType, FlattenJoins
<1>4. PICK cells : cells = g[n]
  OBVIOUS
<1>5. PICK start : start = [ok |-> TRUE, off |-> 0, fields |-> <<>>]
  OBVIOUS
<1> DEFINE Body(w) == [i \in 0 .. n |-> IF i = 0 THEN start ELSE ReadField(cells, w[i - 1])]
<1>6. PICK good : good = [i \in 0 .. n |-> FieldsUpto(fs, g, i)]
  OBVIOUS
<1>7. good[0] = start
  <2>1. g[0] = <<>> /\ SubSeq(fs, 1, 0) = <<>>
    BY <1>2 DEF Joins
  <2>2. good[0] = FieldsUpto(fs, g, 0)
    BY <1>6
  <2>3. Len(g[0]) = 0
    BY <2>1
  <2> QED BY <1>5, <2>1, <2>2, <2>3 DEF FieldsUpto
<1>8. ASSUME NEW i \in 1 .. n PROVE good[i] = ReadField(cells, good[i - 1])
  <2>1. i \in 0 .. n /\ i - 1 \in 0 .. n
    OBVIOUS
  <2> QED BY <1>1, <1>2, <1>4, <1>6, <2>1, FieldStep
<1>9. good = Body(good)
  <2>1. good = [i \in 0 .. n |-> good[i]]
    BY <1>6
  <2>2. \A i \in 0 .. n : good[i] = IF i = 0 THEN start ELSE ReadField(cells, good[i - 1])
    BY <1>7, <1>8
  <2> QED BY <2>1, <2>2
<1>10. PICK walk : walk = CHOOSE w : w = Body(w)
  OBVIOUS
<1>11. walk = Body(walk)
  <2> HIDE DEF Body
  <2> QED BY <1>9, <1>10
<1>12. ReadFields(cells, n) = walk[n]
  BY <1>5, <1>10 DEF ReadFields
<1>13. Follows(walk, good, n)
  <2>1. walk[0] = good[0]
    <3>1. \A w : Body(w)[0] = start
      OBVIOUS
    <3> HIDE DEF Body
    <3> QED BY <1>9, <1>11, <3>1
  <2>2. ASSUME NEW i \in 1 .. n, walk[i - 1] = good[i - 1] PROVE walk[i] = good[i]
    <3>1. \A w : Body(w)[i] = ReadField(cells, w[i - 1])
      OBVIOUS
    <3> HIDE DEF Body
    <3> QED BY <1>9, <1>11, <2>2, <3>1
  <2> HIDE DEF Body
  <2> QED BY <2>1, <2>2 DEF Follows
<1>14. walk[n] = FieldsUpto(fs, g, n)
  <2>1. n \in 0 .. n
    OBVIOUS
  <2>2. walk[n] = good[n]
    BY <1>13, <2>1, SameUpto
  <2> QED BY <1>6, <2>1, <2>2
<1>15. SubSeq(fs, 1, n) = fs
  BY <1>1
<1>16. walk[n].ok /\ walk[n].fields = fs
  BY <1>14, <1>15 DEF FieldsUpto
<1> QED BY <1>1, <1>3, <1>4, <1>12, <1>16

(* Below a limit nothing wraps. *)
LEMMA SmallKept ==
  ASSUME NEW n \in Nat, NEW limit \in Nat, n < limit
  PROVE  n % limit = n
OBVIOUS

(* So the length of what is shorter is kept. *)
LEMMA FieldKept ==
  ASSUME NEW s \in Seq(Nat), NEW limit \in Nat, Len(s) < limit
  PROVE  Field(s, limit) = <<Len(s)>> \o s
<1>1. Len(s) % limit = Len(s)
  BY LenProperties, SmallKept
<1> QED BY <1>1 DEF Field

(* A MIME table that fits is read back whole, and it parses. *)
LEMMA MIMEWhole ==
  ASSUME NEW es \in Seq(ContentRecords), Len(TypesOf(es)) < MIMELimit,
         \A i \in 1 .. Len(TypesOf(es)) : Len(TypesOf(es)[i]) < StringLimit
  PROVE  /\ TypesRead(TableCells(TypesOf(es))).fields = TypesOf(es)
         /\ ParseMIMETable(TableCells(TypesOf(es)))
<1>1. PICK t \in Seq(Seq(Nat)) : t = TypesOf(es)
  BY TypesFacts
<1>2. PICK n \in Nat : n = Len(t)
  BY LenProperties
<1>3. n % MIMELimit = n
  <2>1. MIMELimit \in Nat /\ n < MIMELimit
    BY <1>1, <1>2, CatalogueAssumption
  <2> QED BY <2>1, SmallKept
<1>4. [i \in 1 .. Len(t) |-> Field(t[i], StringLimit)] = FieldCells(t)
  <2>1. ASSUME NEW i \in 1 .. Len(t) PROVE Field(t[i], StringLimit) = <<Len(t[i])>> \o t[i]
    <3>1. t[i] \in Seq(Nat) /\ Len(t[i]) < StringLimit /\ StringLimit \in Nat
      BY <1>1, StringsAssumption
    <3> QED BY <3>1, FieldKept
  <2> QED BY <2>1 DEF FieldCells
<1>5. PICK section : section = TableCells(t)
  OBVIOUS
<1>6. section.count = Len(t) /\ section.cells = FlattenSeq(FieldCells(t))
  BY <1>2, <1>3, <1>4, <1>5 DEF TableCells
<1>7. TypesRead(section).ok /\ TypesRead(section).fields = t
  BY <1>6, ReadFieldsRight DEF TypesRead
<1>8. SubSeq(t, 1, 3) = StandardTypes
  <2>1. IsPrefixOf(StandardTypes, t) /\ StandardTypes \in Seq(Seq(Nat)) /\ Len(StandardTypes) = 3
    BY <1>1, TypesFacts, RecordsAssumption, CatalogueAssumption
  <2>2. PICK s \in Seq(Seq(Nat)) : s = StandardTypes
    BY <2>1
  <2>3. SubSeq(t, 1, Len(s)) = s
    BY <2>1, <2>2, WholeSlice
  <2> QED BY <2>1, <2>2, <2>3
<1>9. ParseMIMETable(section)
  BY <1>7, <1>8 DEF ParseMIMETable
<1> QED BY <1>1, <1>5, <1>7, <1>9

(* Metadata that Open does not find too long. *)
IsMetadata(m) ==
  \A k \in DOMAIN m :
    k \in DOMAIN Chars /\ m[k] \in Seq(Nat) /\ Len(m[k]) <= MaxMetadataValueSize

(* The keys and values by turns. *)
PairFields(m, order) ==
  [i \in 1 .. 2 * Len(order) |->
     IF i % 2 = 1 THEN Chars[order[(i + 1) \div 2]] ELSE m[order[i \div 2]]]

(* Odd and even places. *)
LEMMA PairPlaces ==
  ASSUME NEW n \in Nat
  PROVE  /\ \A i \in 1 .. 2 * n :
              IF i % 2 = 1 THEN (i + 1) \div 2 \in 1 .. n ELSE i \div 2 \in 1 .. n
         /\ \A k \in 1 .. n :
              /\ 2 * k - 1 \in 1 .. 2 * n /\ (2 * k - 1) % 2 = 1 /\ ((2 * k - 1) + 1) \div 2 = k
              /\ 2 * k \in 1 .. 2 * n /\ (2 * k) % 2 = 0 /\ (2 * k) \div 2 = k
OBVIOUS

(* The keys and values are where ParseMetadata looks for them. *)
LEMMA PairFieldsFacts ==
  ASSUME NEW m, IsMetadata(m), NEW order \in Shuffles[DOMAIN m]
  PROVE  /\ DOMAIN m \in SUBSET DOMAIN Chars /\ order \in Seq(DOMAIN m)
         /\ PairFields(m, order) \in Seq(Seq(Nat)) /\ Len(PairFields(m, order)) = 2 * Len(order)
         /\ \A k \in 1 .. Len(order) :
              /\ PairFields(m, order)[2 * k - 1] = Chars[order[k]]
              /\ PairFields(m, order)[2 * k] = m[order[k]]
<1>1. DOMAIN m \in SUBSET DOMAIN Chars
  BY DEF IsMetadata
<1>2. PICK S : S = DOMAIN m
  OBVIOUS
<1>3. order \in Seq(S)
  BY <1>1, <1>2, ShufflesAssumption
<1>4. PICK n \in Nat : n = Len(order)
  BY <1>3, LenProperties
<1>5. \A j \in 1 .. n : order[j] \in DOMAIN m
  BY <1>2, <1>3, <1>4
<1>6. PICK fs : fs = PairFields(m, order)
  OBVIOUS
<1>7. fs = [i \in 1 .. 2 * n |-> IF i % 2 = 1 THEN Chars[order[(i + 1) \div 2]] ELSE m[order[i \div 2]]]
  BY <1>4, <1>6 DEF PairFields
<1>8. ASSUME NEW i \in 1 .. 2 * n
      PROVE  (IF i % 2 = 1 THEN Chars[order[(i + 1) \div 2]] ELSE m[order[i \div 2]]) \in Seq(Nat)
  <2>1. CASE i % 2 = 1
    <3>1. PICK j \in 1 .. n : j = (i + 1) \div 2
      BY <2>1, PairPlaces
    <3>2. Chars[order[j]] \in Seq(Nat)
      BY <1>1, <1>5, CharsAssumption
    <3> QED BY <2>1, <3>1, <3>2
  <2>2. CASE i % 2 # 1
    <3>1. PICK j \in 1 .. n : j = i \div 2
      BY <2>2, PairPlaces
    <3>2. m[order[j]] \in Seq(Nat)
      BY <1>5 DEF IsMetadata
    <3> QED BY <2>2, <3>1, <3>2
  <2> QED BY <2>1, <2>2
<1>9. 2 * n \in Nat
  BY <1>4
<1>10. fs \in Seq(Seq(Nat)) /\ Len(fs) = 2 * n
  BY <1>7, <1>8, <1>9
<1>11. ASSUME NEW k \in 1 .. n PROVE fs[2 * k - 1] = Chars[order[k]] /\ fs[2 * k] = m[order[k]]
  <2>1. /\ 2 * k - 1 \in 1 .. 2 * n /\ (2 * k - 1) % 2 = 1 /\ ((2 * k - 1) + 1) \div 2 = k
        /\ 2 * k \in 1 .. 2 * n /\ (2 * k) % 2 = 0 /\ (2 * k) \div 2 = k
    BY PairPlaces
  <2>2. fs[2 * k - 1] = Chars[order[((2 * k - 1) + 1) \div 2]]
    BY <1>7, <2>1
  <2>3. fs[2 * k] = m[order[(2 * k) \div 2]]
    BY <1>7, <2>1
  <2> QED BY <2>1, <2>2, <2>3
<1> QED BY <1>1, <1>2, <1>3, <1>4, <1>6, <1>10, <1>11

(* Metadata whose keys and values fit parses. *)
LEMMA MetadataWhole ==
  ASSUME NEW m, IsMetadata(m), \A k \in DOMAIN m : Len(Chars[k]) < StringLimit,
         NEW order \in Shuffles[DOMAIN m]
  PROVE  ParseMetadata(MetadataCells(m, order))
<1>1. /\ DOMAIN m \in SUBSET DOMAIN Chars /\ order \in Seq(DOMAIN m)
      /\ PairFields(m, order) \in Seq(Seq(Nat)) /\ Len(PairFields(m, order)) = 2 * Len(order)
      /\ \A k \in 1 .. Len(order) :
           /\ PairFields(m, order)[2 * k - 1] = Chars[order[k]]
           /\ PairFields(m, order)[2 * k] = m[order[k]]
  BY PairFieldsFacts
<1>2. PICK n \in Nat : n = Len(order)
  BY <1>1, LenProperties
<1>3. PICK fs \in Seq(Seq(Nat)) : fs = PairFields(m, order)
  BY <1>1
<1>4. Len(fs) = 2 * n
  BY <1>1, <1>2, <1>3
<1>5. \A j \in 1 .. n : order[j] \in DOMAIN m
  BY <1>1, <1>2
<1> DEFINE cell(i) == IF i % 2 = 1 THEN Field(Chars[order[(i + 1) \div 2]], StringLimit)
                      ELSE Field(m[order[i \div 2]], StringLimit * StringLimit)
<1>6. ASSUME NEW i \in 1 .. 2 * n PROVE cell(i) = <<Len(fs[i])>> \o fs[i]
  <2>1. fs[i] = IF i % 2 = 1 THEN Chars[order[(i + 1) \div 2]] ELSE m[order[i \div 2]]
    BY <1>2, <1>3 DEF PairFields
  <2>2. CASE i % 2 = 1
    <3>1. PICK j \in 1 .. n : j = (i + 1) \div 2
      BY <2>2, PairPlaces
    <3>2. Chars[order[j]] \in Seq(Nat) /\ Len(Chars[order[j]]) < StringLimit /\ StringLimit \in Nat
      BY <1>1, <1>5, CharsAssumption, StringsAssumption
    <3>3. Field(Chars[order[j]], StringLimit) = <<Len(Chars[order[j]])>> \o Chars[order[j]]
      BY <3>2, FieldKept
    <3> QED BY <2>1, <2>2, <3>1, <3>3
  <2>3. CASE i % 2 # 1
    <3>1. PICK j \in 1 .. n : j = i \div 2
      BY <2>3, PairPlaces
    <3>2. PICK v \in Seq(Nat) : v = m[order[j]] /\ Len(v) <= MaxMetadataValueSize
      BY <1>5 DEF IsMetadata
    <3>3. PICK limit : limit = StringLimit * StringLimit
      OBVIOUS
    <3>4. limit \in Nat /\ MaxMetadataValueSize < limit /\ MaxMetadataValueSize \in Nat /\ Len(v) \in Nat
      BY <3>3, CatalogueAssumption, StringsAssumption, LenProperties
    <3>5. Field(v, limit) = <<Len(v)>> \o v
      <4>1. Len(v) < limit
        BY <3>2, <3>4
      <4> QED BY <3>4, <4>1, FieldKept
    <3> QED BY <2>1, <2>3, <3>1, <3>2, <3>3, <3>5
  <2> QED BY <2>2, <2>3
<1>7. PICK section : section = MetadataCells(m, order)
  OBVIOUS
<1>8. section.count = n /\ section.cells = FlattenSeq(FieldCells(fs))
  <2>1. section.cells = FlattenSeq([i \in 1 .. 2 * n |-> cell(i)])
    BY <1>2, <1>7 DEF MetadataCells
  <2>2. [i \in 1 .. 2 * n |-> cell(i)] = FieldCells(fs)
    <3> HIDE DEF cell
    <3> QED BY <1>4, <1>6 DEF FieldCells
  <2>3. section.count = n
    BY <1>2, <1>7 DEF MetadataCells
  <2> QED BY <2>1, <2>2, <2>3
<1>9. PairsRead(section).ok /\ PairsRead(section).fields = fs
  BY <1>4, <1>8, ReadFieldsRight DEF PairsRead
<1>10. ASSUME NEW i \in 1 .. n, NEW j \in 1 .. n, fs[2 * i - 1] = fs[2 * j - 1] PROVE i = j
  <2>1. Chars[order[i]] = Chars[order[j]]
    BY <1>1, <1>2, <1>3, <1>10
  <2>2. order[i] = order[j]
    BY <1>1, <1>5, <2>1, CharsAssumption
  <2> QED BY <1>1, <1>2, <2>2, ShufflesAssumption
<1>11. ASSUME NEW i \in 1 .. n PROVE Len(fs[2 * i]) <= MaxMetadataValueSize
  BY <1>1, <1>2, <1>3, <1>5 DEF IsMetadata
<1>12. ParseMetadata(section)
  BY <1>8, <1>9, <1>10, <1>11 DEF ParseMetadata
<1> QED BY <1>7, <1>12
(* The paths and the titles are sequences of bytes. *)
LEMMA KeysOfNames ==
  ASSUME NEW names \in Seq(Named)
  PROVE  /\ PathsOf(names) \in Seq(Seq(Nat)) /\ Len(PathsOf(names)) = Len(names)
         /\ TitlesOf(names) \in Seq(Seq(Nat)) /\ Len(TitlesOf(names)) = Len(names)
         /\ \A i \in 1 .. Len(names) : /\ PathsOf(names)[i] = names[i].path
                                       /\ TitlesOf(names)[i] = names[i].title
<1>1. PICK n \in Nat : n = Len(names)
  BY LenProperties
<1>2. \A i \in 1 .. n : names[i].path \in Seq(Nat) /\ names[i].title \in Seq(Nat)
  <2>1. \A i \in 1 .. n : names[i] \in Named
    BY <1>1, LenProperties
  <2> QED BY <2>1 DEF Named
<1>3. PICK p, t : p = PathsOf(names) /\ t = TitlesOf(names)
  OBVIOUS
<1>4. p = [i \in 1 .. n |-> names[i].path] /\ t = [i \in 1 .. n |-> names[i].title]
  BY <1>1, <1>3 DEF PathsOf, TitlesOf
<1>5. p \in [1 .. n -> Seq(Nat)] /\ t \in [1 .. n -> Seq(Nat)]
  BY <1>2, <1>4
<1>6. p \in Seq(Seq(Nat)) /\ Len(p) = n
  BY <1>5
<1>7. t \in Seq(Seq(Nat)) /\ Len(t) = n
  BY <1>5
<1>8. \A i \in 1 .. n : p[i] = names[i].path /\ t[i] = names[i].title
  BY <1>4
<1> QED BY <1>1, <1>3, <1>6, <1>7, <1>8

(* a is what was added, read back. *)
Archived(a, es, rs, turned) ==
  /\ a.mimeTypes = TypesOf(es) /\ a.entries = EntriesOf(es)
  /\ a.redirects = [i \in 1 .. Len(rs) |-> rs[i].target]
  /\ Catalogued(a.pathIdx, NamesOf(es, rs), PathsOf(NamesOf(es, rs)), turned)
  /\ Catalogued(a.titleIdx, NamesOf(es, rs), TitlesOf(NamesOf(es, rs)), turned)
  /\ a.idToPath = ReverseMap(a.pathIdx) /\ a.idToTitle = ReverseMap(a.titleIdx)

(* Both indices of what fits are read back. *)
LEMMA IndicesRight ==
  ASSUME NEW es \in Seq(ContentRecords), NEW rs \in Seq(RedirectRecords), NEW m,
         FitsOf(es, rs, m), NEW turned \in BOOLEAN
  PROVE  /\ Catalogued(DecodeIndex(IndexOf(NamesOf(es, rs), PathsOf(NamesOf(es, rs)), Slash, turned)),
                       NamesOf(es, rs), PathsOf(NamesOf(es, rs)), turned)
         /\ Catalogued(DecodeIndex(IndexOf(NamesOf(es, rs), TitlesOf(NamesOf(es, rs)), Space, turned)),
                       NamesOf(es, rs), TitlesOf(NamesOf(es, rs)), turned)
<1>1. PICK names \in Seq(Named) : names = NamesOf(es, rs)
  BY NamesFacts
<1>2. PICK p \in Seq(Seq(Nat)), t \in Seq(Seq(Nat)) : p = PathsOf(names) /\ t = TitlesOf(names)
  BY KeysOfNames
<1>3. Len(p) = Len(names) /\ Len(t) = Len(names)
  BY <1>2, KeysOfNames
<1>4. \A i \in 1 .. Len(p) : KeyFits(p[i], Slash)
  BY <1>1, <1>2, <1>3, KeysOfNames DEF FitsOf
<1>5. \A i \in 1 .. Len(t) : KeyFits(t[i], Space)
  BY <1>1, <1>2, <1>3, KeysOfNames DEF FitsOf
<1>6. Catalogued(DecodeIndex(IndexOf(names, p, Slash, turned)), names, p, turned)
  BY <1>3, <1>4, IndexOfRight
<1>7. Catalogued(DecodeIndex(IndexOf(names, t, Space, turned)), names, t, turned)
  BY <1>3, <1>5, IndexOfRight
<1> QED BY <1>1, <1>2, <1>6, <1>7

(* What Close writes of entries that fit is what Open reads. *)
LEMMA LoadRight ==
  ASSUME NEW es \in Seq(ContentRecords), NEW rs \in Seq(RedirectRecords), NEW m,
         FitsOf(es, rs, m), NEW turned \in BOOLEAN, NEW order, NEW unp
  PROVE  Archived(LoadOf(FileOf(es, rs, m, turned, order), unp), es, rs, turned)
<1>1. PICK f : f = FileOf(es, rs, m, turned, order)
  OBVIOUS
<1>2. TypesRead(f.mime).fields = TypesOf(es)
  BY <1>1, MIMEWhole DEF FileOf, FitsOf
<1>3. f.entries = EntriesOf(es) /\ f.redirects = [i \in 1 .. Len(rs) |-> rs[i].target]
      /\ f.path = IndexOf(NamesOf(es, rs), PathsOf(NamesOf(es, rs)), Slash, turned)
      /\ f.title = IndexOf(NamesOf(es, rs), TitlesOf(NamesOf(es, rs)), Space, turned)
  BY <1>1 DEF FileOf
<1>4. PICK a : a = LoadOf(f, unp)
  OBVIOUS
<1>5. a.mimeTypes = TypesRead(f.mime).fields /\ a.entries = f.entries /\ a.redirects = f.redirects
      /\ a.pathIdx = DecodeIndex(f.path) /\ a.titleIdx = DecodeIndex(f.title)
      /\ a.idToPath = ReverseMap(a.pathIdx) /\ a.idToTitle = ReverseMap(a.titleIdx)
  BY <1>4 DEF LoadOf
<1>6. /\ Catalogued(a.pathIdx, NamesOf(es, rs), PathsOf(NamesOf(es, rs)), turned)
      /\ Catalogued(a.titleIdx, NamesOf(es, rs), TitlesOf(NamesOf(es, rs)), turned)
  BY <1>3, <1>5, IndicesRight
<1>7. Archived(a, es, rs, turned)
  BY <1>2, <1>3, <1>5, <1>6 DEF Archived
<1> QED BY <1>1, <1>4, <1>7

(* An index that was read back has no record that failed. *)
LEMMA CataloguedDecodes ==
  ASSUME NEW records, NEW names, NEW key, NEW turned, Catalogued(records, names, key, turned)
  PROVE  Decodable(records)
<1>1. PICK rank, offs :
        records = [k \in 1 .. Len(key) |-> Decoded(names[rank[k]].id, key[rank[k]], offs[k])]
  BY DEF Catalogued
<1>2. ASSUME NEW i \in DOMAIN records PROVE records[i].ok
  <2>1. i \in 1 .. Len(key)
    BY <1>1
  <2>2. records[i] = Decoded(names[rank[i]].id, key[rank[i]], offs[i])
    BY <1>1, <2>1
  <2>3. Decoded(names[rank[i]].id, key[rank[i]], offs[i]).ok
    BY DEF Decoded
  <2> QED BY <2>2, <2>3, Zenon
<1> QED BY <1>2, Zenon DEF Decodable

(* What Close writes of entries that fit parses. *)
LEMMA FileParses ==
  ASSUME NEW es \in Seq(ContentRecords), NEW rs \in Seq(RedirectRecords), NEW m,
         FitsOf(es, rs, m), NEW turned \in BOOLEAN, IsMetadata(m),
         NEW order \in Shuffles[DOMAIN m]
  PROVE  ParsesOf(FileOf(es, rs, m, turned, order))
<1>1. PICK f : f = FileOf(es, rs, m, turned, order)
  OBVIOUS
<1>3. f.mime = TableCells(TypesOf(es)) /\ f.meta = MetadataCells(m, order)
      /\ f.path = IndexOf(NamesOf(es, rs), PathsOf(NamesOf(es, rs)), Slash, turned)
      /\ f.title = IndexOf(NamesOf(es, rs), TitlesOf(NamesOf(es, rs)), Space, turned)
  BY <1>1 DEF FileOf
<1>4. ParseMIMETable(f.mime)
  BY <1>3, MIMEWhole DEF FitsOf
<1>5. ParseMetadata(f.meta)
  BY <1>3, MetadataWhole DEF FitsOf
<1>6. Decodable(DecodeIndex(f.path)) /\ Decodable(DecodeIndex(f.title))
  BY <1>3, IndicesRight, CataloguedDecodes
<1> QED BY <1>1, <1>4, <1>5, <1>6 DEF ParsesOf

(* The inductive invariant has TypeOK in it. *)
LEMMA TypeInvOK == TypeInv => TypeOK
<1> SUFFICES ASSUME TypeInv PROVE TypeOK
  OBVIOUS
<1>1. ToSet(entries) \subseteq ContentRecords
  BY LenProperties DEF ToSet, TypeInv
<1>2. ToSet(redirects) \subseteq RedirectRecords
  BY LenProperties DEF ToSet, TypeInv
<1> QED BY <1>1, <1>2 DEF TypeOK, TypeInv

(* Open refuses an archive only if a name, type, table or metadata key is *)
(* beyond its field, two paths are equal, the file was damaged, or a      *)
(* metadata value is longer than the reader allows; and of what it        *)
(* refuses it leaves nothing.                                             *)
THEOREM OpensWhatFitsAlways == Spec => []OpensWhatFits
<1>1. ASSUME IInv PROVE OpensWhatFits
  <2>1. TypeInv /\ FileInv /\ OpenInv
    BY <1>1 DEF IInv
  <2>2. ASSUME phase = "refused", Fits, unparsable \union changed = {},
               ~\E k \in DOMAIN meta : Len(meta[k]) > MaxMetadataValueSize
        PROVE  FALSE
    <3>1. IsMetadata(meta)
      <4>1. ASSUME NEW k \in DOMAIN meta
            PROVE  k \in DOMAIN Chars /\ meta[k] \in Seq(Nat) /\ Len(meta[k]) \in Nat
        <5>1. <<k, meta[k]>> \in MetadataCalls
          BY <2>1 DEF TypeInv
        <5>2. meta[k] \in Seq(Nat)
          BY <5>1, RecordsAssumption
        <5>3. k \in DOMAIN Chars
          <6>1. <<k, meta[k]>>[1] \in {c[1] : c \in MetadataCalls}
            BY <5>1
          <6> QED BY <6>1, CharsAssumption
        <5> QED BY <5>2, <5>3, LenProperties
      <4> QED BY <2>2, <4>1, CatalogueAssumption DEF IsMetadata
    <3>2. PICK turned \in BOOLEAN, order \in Shuffles[DOMAIN meta] :
            file = FileOf(entries, redirects, meta, turned, order)
      BY <2>1, <2>2 DEF FileInv
    <3>3. entries \in Seq(ContentRecords) /\ redirects \in Seq(RedirectRecords)
      BY <2>1 DEF TypeInv
    <3>4. ParsesOf(FileOf(entries, redirects, meta, turned, order))
      BY <2>2, <3>1, <3>3, FitsIs, FileParses
    <3> QED BY <2>1, <2>2, <3>2, <3>4 DEF OpenInv
  <2>3. TypeOK
    BY <2>1, TypeInvOK
  <2> QED BY <2>2, <2>3 DEF OpensWhatFits
<1> QED BY <1>1, IInvAlways, PTL

(*****************************************************************************)
(* An open archive                                                           *)
(*****************************************************************************)
(* The open archive is what was added, read back.                            *)
Opened(turned) == Archived(archive, entries, redirects, turned)

(* It is, whenever what was added fits. *)
LEMMA OpenedFacts ==
  ASSUME IInv, phase = "open", Fits
  PROVE  \E turned \in BOOLEAN : Opened(turned)
<1>1. TypeInv /\ FileInv /\ OpenInv
  BY DEF IInv
<1>2. PICK turned \in BOOLEAN, order \in Shuffles[DOMAIN meta] :
        file = FileOf(entries, redirects, meta, turned, order)
  BY <1>1 DEF FileInv
<1>3. archive = LoadOf(file, unparsable)
  BY <1>1 DEF OpenInv
<1>4. entries \in Seq(ContentRecords) /\ redirects \in Seq(RedirectRecords) /\ FitsOf(entries, redirects, meta)
  BY <1>1, FitsIs DEF TypeInv
<1> QED BY <1>2, <1>3, <1>4, LoadRight DEF Opened

(* The IDs: content below the bit, redirects from it on. *)
LEMMA IdsAre ==
  ASSUME TypeInv
  PROVE  /\ Len(entries) \in Nat /\ Len(redirects) \in Nat /\ Len(entries) <= MaxNames
         /\ Ids = (0 .. Len(entries) - 1) \union DOMAIN Targets
         /\ DOMAIN Targets = {RedirectIDBit + j : j \in 0 .. Len(redirects) - 1}
         /\ \A j \in 0 .. Len(redirects) - 1 :
              Targets[RedirectIDBit + j] = redirects[j + 1].target /\ redirects[j + 1].target \in Nat
<1>0. entries \in Seq(ContentRecords) /\ redirects \in Seq(RedirectRecords)
  BY DEF TypeInv
<1>1. PICK m \in Nat, n \in Nat : m = Len(entries) /\ n = Len(redirects)
  BY <1>0, LenProperties
<1>2. PICK R \in Nat : R = RedirectIDBit
  BY CatalogueAssumption
<1>3. PICK D : D = DOMAIN Targets
  OBVIOUS
<1>4. D = {MakeRedirectID(i - 1) : i \in 1 .. n}
  BY <1>1, <1>3 DEF Targets
<1>5. D = {R + j : j \in 0 .. n - 1}
  <2>1. ASSUME NEW i \in 1 .. n PROVE \E j \in 0 .. n - 1 : MakeRedirectID(i - 1) = R + j
    <3>1. i - 1 \in 0 .. n - 1 /\ MakeRedirectID(i - 1) = R + (i - 1)
      BY <1>2 DEF MakeRedirectID
    <3> QED BY <3>1
  <2>2. ASSUME NEW j \in 0 .. n - 1 PROVE \E i \in 1 .. n : MakeRedirectID(i - 1) = R + j
    <3>1. j + 1 \in 1 .. n /\ MakeRedirectID((j + 1) - 1) = R + j
      BY <1>2 DEF MakeRedirectID
    <3> QED BY <3>1
  <2> QED BY <1>4, <2>1, <2>2
<1>6. ASSUME NEW j \in 0 .. n - 1
      PROVE  Targets[R + j] = redirects[j + 1].target /\ redirects[j + 1].target \in Nat
  <2>1. R + j \in D
    BY <1>5
  <2>2. RedirectIndex(R + j) = j
    BY <1>2 DEF RedirectIndex
  <2>3. Targets[R + j] = redirects[RedirectIndex(R + j) + 1].target
    BY <1>3, <2>1 DEF Targets
  <2>4. redirects[j + 1] \in RedirectRecords
    BY <1>0, <1>1, LenProperties
  <2>5. redirects[j + 1].target \in Nat
    BY <2>4, RecordsAssumption
  <2> QED BY <2>2, <2>3, <2>5
<1>7. PICK names : names = NamesOf(entries, redirects)
  OBVIOUS
<1>8. /\ Len(names) = m + n
      /\ \A i \in 1 .. m : names[i].id = i - 1
      /\ \A i \in 1 .. n : names[m + i].id = MakeRedirectID(i - 1)
  <2>1. /\ Len(names) = m + n
        /\ \A i \in 1 .. m : names[i] = [id |-> i - 1, path |-> entries[i].path, title |-> entries[i].title]
        /\ \A i \in 1 .. n : names[m + i] = [id |-> MakeRedirectID(i - 1), path |-> redirects[i].path,
                                            title |-> redirects[i].title]
    BY <1>0, <1>1, <1>7, NamesFacts
  <2>2. ASSUME NEW i \in 1 .. m PROVE names[i].id = i - 1
    <3>1. names[i] = [id |-> i - 1, path |-> entries[i].path, title |-> entries[i].title]
      BY <2>1
    <3> QED BY <3>1
  <2>3. ASSUME NEW i \in 1 .. n PROVE names[m + i].id = MakeRedirectID(i - 1)
    <3>1. names[m + i] = [id |-> MakeRedirectID(i - 1), path |-> redirects[i].path,
                          title |-> redirects[i].title]
      BY <2>1
    <3> QED BY <3>1
  <2> QED BY <2>1, <2>2, <2>3
<1>9. Ids = {names[i].id : i \in 1 .. m + n}
  BY <1>7, <1>8, NamesAre DEF Ids
<1>10. Ids = (0 .. m - 1) \union D
  <2>1. ASSUME NEW i \in 1 .. m + n PROVE names[i].id \in (0 .. m - 1) \union D
    <3>1. CASE i <= m
      <4>1. i \in 1 .. m /\ i - 1 \in 0 .. m - 1
        BY <3>1
      <4> QED BY <1>8, <4>1
    <3>2. CASE i > m
      <4>1. i - m \in 1 .. n /\ m + (i - m) = i
        BY <3>2
      <4> QED BY <1>4, <1>8, <4>1
    <3> QED BY <3>1, <3>2
  <2>2. ASSUME NEW x \in 0 .. m - 1 PROVE \E i \in 1 .. m + n : names[i].id = x
    <3>1. x + 1 \in 1 .. m /\ x + 1 \in 1 .. m + n /\ (x + 1) - 1 = x
      OBVIOUS
    <3> QED BY <1>8, <3>1
  <2>3. ASSUME NEW x \in D PROVE \E i \in 1 .. m + n : names[i].id = x
    <3>1. PICK i \in 1 .. n : x = MakeRedirectID(i - 1)
      BY <1>4
    <3>2. m + i \in 1 .. m + n
      OBVIOUS
    <3> QED BY <1>8, <3>1, <3>2
  <2> QED BY <1>9, <2>1, <2>2, <2>3
<1>11. m <= MaxNames
  <2>1. m + n <= MaxNames /\ MaxNames \in Nat
    BY <1>1, CatalogueAssumption DEF TypeInv
  <2> QED BY <2>1
<1> QED BY <1>1, <1>2, <1>3, <1>5, <1>6, <1>10, <1>11

(* What EntryByID answers. *)
EntryIs(e, x) ==
  /\ x \in DOMAIN Targets =>
       e.id = x /\ e.target = Targets[x] /\ Targets[x] \in Nat
       /\ e.path = NameOf(archive.idToPath, x) /\ e.title = NameOf(archive.idToTitle, x)
  /\ x \in (0 .. Len(entries) - 1) \ unparsable =>
       e.id = x /\ e.target = -1 /\ e.mime = EntriesOf(entries)[x + 1].mime
       /\ e.path = NameOf(archive.idToPath, x) /\ e.title = NameOf(archive.idToTitle, x)
  /\ x \notin DOMAIN Targets /\ x \notin (0 .. Len(entries) - 1) \ unparsable => e = Missing

(* The type of an entry leads back to its name. *)
LEMMA EntryMIME ==
  ASSUME NEW es \in Seq(ContentRecords), Len(TypesOf(es)) < MIMELimit, NEW i \in 1 .. Len(es)
  PROVE  /\ EntriesOf(es)[i].mime \in 0 .. Len(TypesOf(es)) - 1
         /\ TypesOf(es)[EntriesOf(es)[i].mime + 1] = es[i].mime
         /\ EntriesOf(es)[i].front = es[i].front
<1>0. PICK t \in Seq(Seq(Nat)) : t = TypesOf(es)
  BY TypesFacts
<1>1. PICK n \in Nat : n = Len(t) /\ t = TypesOf(es)
  BY <1>0, LenProperties
<1>2. PICK k \in 1 .. n : k = TypeIndex(t, es[i].mime) /\ t[k] = es[i].mime
  <2>1. \E k \in 1 .. n : t[k] = es[i].mime
    BY <1>1, TypesFacts
  <2> QED BY <1>1, <2>1 DEF TypeIndex
<1>3. (k - 1) % MIMELimit = k - 1
  <2>1. MIMELimit \in Nat /\ n < MIMELimit
    BY <1>1, CatalogueAssumption
  <2>2. k - 1 \in Nat /\ k - 1 < MIMELimit
    BY <2>1
  <2> QED BY <2>1, <2>2, SmallKept
<1>4. EntriesOf(es)[i] = [mime |-> (k - 1) % MIMELimit, front |-> es[i].front]
  BY <1>1, <1>2 DEF EntriesOf
<1>5. k - 1 \in 0 .. n - 1 /\ (k - 1) + 1 = k
  OBVIOUS
<1> QED BY <1>1, <1>2, <1>3, <1>4, <1>5

(* EntryByID answers with the entry that was added under the ID, or with *)
(* none if there is none or it does not parse.                           *)
LEMMA EntryByIDIs ==
  ASSUME TypeInv, Fits, NEW turned, Opened(turned), NEW x \in Nat
  PROVE  EntryIs(EntryByID(archive, x), x)
<1>1. PICK m \in Nat, n \in Nat, R \in Nat : m = Len(entries) /\ n = Len(redirects) /\ R = RedirectIDBit
  BY IdsAre, CatalogueAssumption
<1>2. m < R
  BY <1>1, IdsAre, CatalogueAssumption
<1>3. DOMAIN Targets = {R + j : j \in 0 .. n - 1}
  BY <1>1, IdsAre
<1>4. /\ archive.entries = EntriesOf(entries) /\ archive.mimeTypes = TypesOf(entries)
      /\ archive.redirects = [i \in 1 .. n |-> redirects[i].target]
  BY <1>1 DEF Opened, Archived
<1>5. Len(archive.entries) = m /\ Len(archive.redirects) = n
  BY <1>1, <1>4 DEF EntriesOf
<1>6. CASE IsRedirectID(x)
  <2>1. PICK j \in Nat : j = RedirectIndex(x) /\ x = R + j
    <3>1. x - R \in Nat /\ x = R + (x - R)
      BY <1>1, <1>6 DEF IsRedirectID
    <3> QED BY <1>1, <3>1 DEF RedirectIndex
  <2>2. x \notin 0 .. m - 1
    BY <1>2, <2>1
  <2>3. CASE j >= n
    <3>1. EntryByID(archive, x) = Missing
      BY <1>5, <1>6, <2>1, <2>3 DEF EntryByID
    <3>2. x \notin DOMAIN Targets
      BY <1>3, <2>1, <2>3
    <3> QED BY <1>1, <2>2, <3>1, <3>2 DEF EntryIs
  <2>4. CASE j < n
    <3>1. ~(j >= n) /\ j \in 0 .. n - 1 /\ j + 1 \in 1 .. n
      BY <2>4
    <3>2. archive.redirects[j + 1] = redirects[j + 1].target
      BY <1>4, <3>1
    <3>3. EntryByID(archive, x)
            = [id |-> x, path |-> NameOf(archive.idToPath, x), title |-> NameOf(archive.idToTitle, x),
               mime |-> -1, front |-> FALSE, target |-> archive.redirects[j + 1]]
      BY <1>5, <1>6, <2>1, <3>1 DEF EntryByID
    <3>4. Targets[x] = redirects[j + 1].target /\ Targets[x] \in Nat
      BY <1>1, <2>1, <3>1, IdsAre
    <3>5. PICK e : e = EntryByID(archive, x)
      OBVIOUS
    <3>6. e.id = x /\ e.target = Targets[x]
          /\ e.path = NameOf(archive.idToPath, x) /\ e.title = NameOf(archive.idToTitle, x)
      BY <3>2, <3>3, <3>4, <3>5
    <3>7. x \in DOMAIN Targets
      BY <1>3, <2>1, <3>1
    <3> QED BY <1>1, <2>2, <3>4, <3>5, <3>6, <3>7 DEF EntryIs
  <2> QED BY <2>3, <2>4
<1>7. CASE ~IsRedirectID(x)
  <2>1. x < R /\ x \notin DOMAIN Targets
    BY <1>1, <1>3, <1>7 DEF IsRedirectID
  <2>2. CASE x \in (0 .. m - 1) \ unparsable
    <3>1. x + 1 \in 1 .. m /\ x < m
      BY <2>2
    <3>2. EntriesOf(entries)[x + 1].mime \in 0 .. Len(TypesOf(entries)) - 1 /\ Len(TypesOf(entries)) \in Nat
      BY <1>1, <3>1, EntryMIME, FitsIs, TypesFacts, LenProperties DEF TypeInv, FitsOf
    <3>3. archive.entries[x + 1].mime < Len(archive.mimeTypes)
      BY <1>4, <3>2
    <3>4. ValidRecord(archive, x)
      BY <1>5, <2>2, <3>1, <3>3 DEF ValidRecord
    <3>5. EntryByID(archive, x)
            = [id |-> x, path |-> NameOf(archive.idToPath, x), title |-> NameOf(archive.idToTitle, x),
               mime |-> archive.entries[x + 1].mime, front |-> archive.entries[x + 1].front, target |-> -1]
      BY <1>7, <3>4 DEF EntryByID
    <3>6. PICK e : e = EntryByID(archive, x)
      OBVIOUS
    <3>7. e.id = x /\ e.target = -1 /\ e.mime = EntriesOf(entries)[x + 1].mime
          /\ e.path = NameOf(archive.idToPath, x) /\ e.title = NameOf(archive.idToTitle, x)
      BY <1>4, <3>5, <3>6
    <3> QED BY <1>1, <2>1, <2>2, <3>6, <3>7 DEF EntryIs
  <2>3. CASE x \notin (0 .. m - 1) \ unparsable
    <3>1. ~ValidRecord(archive, x)
      BY <1>5, <2>3 DEF ValidRecord
    <3>2. EntryByID(archive, x) = Missing
      BY <1>7, <3>1 DEF EntryByID
    <3> QED BY <1>1, <2>1, <2>3, <3>2 DEF EntryIs
  <2> QED BY <2>2, <2>3
<1> QED BY <1>6, <1>7

(*****************************************************************************)
(* Following redirects                                                       *)
(*****************************************************************************)
(* One step of Resolve.                                                      *)
HopOf(a, w) ==
  IF ~IsRedirect(w.at) THEN w
  ELSE IF w.at.target \in w.visited THEN [at |-> Loop, visited |-> w.visited]
  ELSE [at |-> EntryByID(a, w.at.target), visited |-> w.visited \union {w.at.target}]

(* The steps of Resolve. *)
WalkFrom(a, e) ==
  CHOOSE walk : walk = [n \in 0 .. Len(a.redirects) + 1 |->
                          IF n = 0 THEN [at |-> e, visited |-> {e.id}] ELSE HopOf(a, walk[n - 1])]

(* Resolve is the end of its steps. *)
LEMMA ResolveIs ==
  ASSUME NEW a, NEW e
  PROVE  Resolve(a, e) = WalkFrom(a, e)[Len(a.redirects) + 1].at
BY Zenon DEF Resolve, WalkFrom, HopOf

(* Where Resolve can be. *)
Spots == {EntryByID(archive, x) : x \in Nat} \union {Missing, Loop}
(* What it knows. *)
WalkStates == [at : Spots, visited : SUBSET Nat]

(* Nothing goes on from a missing entry or from a loop. *)
LEMMA NoRedirect ==
  /\ Missing.id = -1 /\ Missing.target = -1 /\ ~IsRedirect(Missing)
  /\ Loop.id = -2 /\ Loop.target = -1 /\ ~IsRedirect(Loop)
BY DEF Missing, Loop, IsRedirect

(* A redirect that Resolve is at is one that was added, with its target. *)
LEMMA RedirectSpot ==
  ASSUME TypeInv, Fits, NEW turned, Opened(turned), NEW e \in Spots, IsRedirect(e)
  PROVE  \E x \in DOMAIN Targets : x \in Nat /\ e = EntryByID(archive, x)
                                   /\ e.id = x /\ e.target = Targets[x] /\ Targets[x] \in Nat
<1>1. e # Missing /\ e # Loop
  BY NoRedirect
<1>2. PICK x \in Nat : e = EntryByID(archive, x)
  BY <1>1 DEF Spots
<1>3. EntryIs(e, x)
  BY <1>2, EntryByIDIs
<1>4. x \in DOMAIN Targets
  BY <1>1, <1>3 DEF EntryIs, IsRedirect
<1> QED BY <1>2, <1>3, <1>4 DEF EntryIs

(* A step of Resolve stays among those. *)
LEMMA HopType ==
  ASSUME TypeInv, Fits, NEW turned, Opened(turned), NEW w \in WalkStates
  PROVE  HopOf(archive, w) \in WalkStates
<1>1. CASE ~IsRedirect(w.at)
  BY <1>1 DEF HopOf
<1>2. CASE IsRedirect(w.at)
  <2>1. PICK e \in Spots, S \in SUBSET Nat : e = w.at /\ S = w.visited
    BY DEF WalkStates
  <2>2. PICK t \in Nat : t = e.target
    BY <1>2, <2>1, RedirectSpot
  <2>3. CASE t \in S
    <3>1. HopOf(archive, w) = [at |-> Loop, visited |-> S]
      BY <1>2, <2>1, <2>2, <2>3 DEF HopOf
    <3>2. Loop \in Spots
      BY DEF Spots
    <3> QED BY <3>1, <3>2 DEF WalkStates
  <2>4. CASE t \notin S
    <3>1. HopOf(archive, w) = [at |-> EntryByID(archive, t), visited |-> S \union {t}]
      BY <1>2, <2>1, <2>2, <2>4 DEF HopOf
    <3>2. EntryByID(archive, t) \in Spots
      BY DEF Spots
    <3> QED BY <3>1, <3>2 DEF WalkStates
  <2> QED BY <2>3, <2>4
<1> QED BY <1>1, <1>2

(* N steps of Resolve. *)
WalkUpto(walk, e, N) ==
  /\ walk \in [0 .. N -> WalkStates] /\ walk[0] = [at |-> e, visited |-> {e.id}]
  /\ \A n \in 1 .. N : walk[n] = HopOf(archive, walk[n - 1])

(* Resolve has its steps. *)
LEMMA WalkExists ==
  ASSUME TypeInv, Fits, NEW turned, Opened(turned), NEW e \in Spots, e.id \in Nat
  PROVE  WalkUpto(WalkFrom(archive, e), e, Len(redirects) + 1)
<1>0. Len(redirects) \in Nat
  BY IdsAre
<1>1. PICK N \in Nat : N = Len(archive.redirects) + 1 /\ N = Len(redirects) + 1
  <2>1. archive.redirects = [i \in 1 .. Len(redirects) |-> redirects[i].target]
    BY DEF Opened, Archived
  <2>2. Len(archive.redirects) = Len(redirects)
    BY <1>0, <2>1
  <2>3. Len(redirects) + 1 \in Nat
    BY <1>0
  <2> QED BY <2>2, <2>3
<1>2. PICK V : V = WalkStates
  OBVIOUS
<1>3. PICK c : c = [at |-> e, visited |-> {e.id}]
  OBVIOUS
<1>4. c \in V
  BY <1>2, <1>3 DEF WalkStates
<1> DEFINE step == [n \in Nat |-> [v \in V |-> HopOf(archive, v)]]
           Body(w) == [n \in 0 .. N |-> IF n = 0 THEN c ELSE HopOf(archive, w[n - 1])]
<1>5. step \in [Nat -> [V -> V]]
  BY <1>2, HopType
<1>6. PICK f : IteratesUpto(f, N, V, c, step)
  <2> HIDE DEF step
  <2> QED BY <1>4, <1>5, RecursionUpto
<1>7. /\ f \in [0 .. N -> V] /\ f[0] = c
      /\ \A n \in 1 .. N : f[n] = HopOf(archive, f[n - 1])
  <2>1. f \in [0 .. N -> V] /\ f[0] = c /\ \A n \in 1 .. N : f[n] = step[n][f[n - 1]]
    <3> HIDE DEF step
    <3> QED BY <1>6 DEF IteratesUpto
  <2>2. ASSUME NEW n \in 1 .. N PROVE f[n] = HopOf(archive, f[n - 1])
    <3>1. n \in Nat /\ n - 1 \in 0 .. N
      OBVIOUS
    <3>2. f[n - 1] \in V
      <4> HIDE DEF step
      <4> QED BY <2>1, <3>1
    <3>3. step[n][f[n - 1]] = HopOf(archive, f[n - 1])
      BY <3>1, <3>2
    <3> HIDE DEF step
    <3> QED BY <2>1, <3>3
  <2> QED BY <2>1, <2>2
<1>8. f = Body(f)
  <2>1. f = [n \in 0 .. N |-> f[n]]
    BY <1>7
  <2>2. \A n \in 0 .. N : f[n] = IF n = 0 THEN c ELSE HopOf(archive, f[n - 1])
    <3>1. \A n \in 0 .. N : n = 0 \/ n \in 1 .. N
      OBVIOUS
    <3> QED BY <1>7, <3>1
  <2> QED BY <2>1, <2>2
<1>9. PICK walk : walk = CHOOSE w : w = Body(w)
  OBVIOUS
<1>10. WalkFrom(archive, e) = walk
  BY <1>1, <1>3, <1>9 DEF WalkFrom
<1>11. walk = Body(walk)
  <2> HIDE DEF Body
  <2> QED BY <1>8, <1>9
<1>12. Follows(walk, f, N)
  <2>1. walk[0] = c
    BY <1>11
  <2>2. ASSUME NEW n \in 1 .. N PROVE walk[n] = HopOf(archive, walk[n - 1])
    <3>1. n \in 0 .. N /\ n # 0
      OBVIOUS
    <3>2. \A w : Body(w)[n] = HopOf(archive, w[n - 1])
      BY <3>1
    <3> HIDE DEF Body
    <3> QED BY <1>11, <3>2
  <2> HIDE DEF Body
  <2> QED BY <1>7, <2>1, <2>2 DEF Follows
<1>13. \A n \in 0 .. N : walk[n] = f[n]
  BY <1>12, SameUpto
<1>14. walk = [n \in 0 .. N |-> walk[n]]
  BY <1>11
<1> HIDE DEF Body, step
<1>15. walk = f
  <2>1. f = [n \in 0 .. N |-> f[n]]
    BY <1>7
  <2> QED BY <1>13, <1>14, <2>1
<1> QED BY <1>1, <1>2, <1>3, <1>7, <1>10, <1>15 DEF WalkUpto

-----------------------------------------------------------------------------
(* How far a walk has come: x is the ID it has reached, and what it has *)
(* visited leads there and nowhere else.                                *)
Reached(id, w, n, x) ==
  /\ x \in w.visited /\ id \in w.visited /\ w.visited \subseteq LeadsTo(id)
  /\ \A v \in w.visited : v # x => v \in DOMAIN Targets /\ Targets[v] \in w.visited
  /\ \/ w.at = EntryByID(archive, x)
     \/ w.at = Loop /\ x \in DOMAIN Targets /\ Targets[x] \in w.visited
  /\ IsFiniteSet(w.visited)
  /\ IsRedirect(w.at) => Cardinality(w.visited) = n + 1

(* What an ID leads to is the smallest set that has the ID and the target *)
(* of each redirect in it.                                                *)
LEMMA LeadsToFacts ==
  ASSUME TypeInv, NEW id \in Ids
  PROVE  /\ id \in LeadsTo(id) /\ Ids \subseteq Nat /\ LeadsTo(id) \subseteq Nat
         /\ \A x \in LeadsTo(id) : x \in DOMAIN Targets => Targets[x] \in LeadsTo(id)
         /\ \A S \in SUBSET LeadsTo(id) :
              id \in S /\ (\A x \in S : x \in DOMAIN Targets => Targets[x] \in S) => LeadsTo(id) \subseteq S
<1>1. PICK m \in Nat, n \in Nat, R \in Nat : m = Len(entries) /\ n = Len(redirects) /\ R = RedirectIDBit
  BY IdsAre, CatalogueAssumption
<1>2. PICK T : T = Targets
  OBVIOUS
<1>3. Ids = (0 .. m - 1) \union DOMAIN T /\ DOMAIN T = {R + j : j \in 0 .. n - 1}
      /\ \A j \in 0 .. n - 1 : T[R + j] \in Nat
  BY <1>1, <1>2, IdsAre
<1>4. DOMAIN T \subseteq Nat /\ \A x \in DOMAIN T : T[x] \in Nat
  BY <1>3
<1>5. PICK ids : ids = Ids \union {T[x] : x \in DOMAIN T}
  OBVIOUS
<1>6. Ids \subseteq Nat /\ ids \subseteq Nat
  <2>1. 0 .. m - 1 \subseteq Nat
    OBVIOUS
  <2>2. Ids \subseteq Nat
    BY <1>3, <1>4, <2>1
  <2> QED BY <1>4, <1>5, <2>2
<1>7. PICK closed : closed = {S \in SUBSET ids : id \in S /\ \A r \in S \intersect DOMAIN T : T[r] \in S}
  OBVIOUS
<1>8. LeadsTo(id) = {x \in ids : \A S \in closed : x \in S}
  BY <1>2, <1>5, <1>7 DEF LeadsTo, Range
<1>9. id \in LeadsTo(id) /\ LeadsTo(id) \subseteq Nat
  BY <1>5, <1>6, <1>7, <1>8
<1>10. ASSUME NEW x \in LeadsTo(id), x \in DOMAIN T PROVE T[x] \in LeadsTo(id)
  BY <1>5, <1>7, <1>8, <1>10
<1>11. ASSUME NEW S \in SUBSET LeadsTo(id), id \in S,
              \A x \in S : x \in DOMAIN T => T[x] \in S
       PROVE  LeadsTo(id) \subseteq S
  <2>1. S \in SUBSET ids
    BY <1>8
  <2>2. S \in closed
    BY <1>7, <1>11, <2>1
  <2> QED BY <1>8, <2>2
<1> QED BY <1>2, <1>6, <1>9, <1>10, <1>11

(* A step comes one redirect further, or stays. *)
LEMMA HopReaches ==
  ASSUME TypeInv, Fits, NEW turned, Opened(turned), NEW id \in Ids, NEW w \in WalkStates,
         NEW n \in Nat, NEW x, Reached(id, w, n, x)
  PROVE  \E y : Reached(id, HopOf(archive, w), n + 1, y)
<1>1. CASE ~IsRedirect(w.at)
  <2>1. HopOf(archive, w) = w
    BY <1>1 DEF HopOf
  <2>2. Reached(id, w, n + 1, x)
    BY <1>1 DEF Reached
  <2> QED BY <2>1, <2>2
<1>2. CASE IsRedirect(w.at)
  <2>1. PICK e \in Spots, S \in SUBSET Nat : e = w.at /\ S = w.visited
    BY DEF WalkStates
  <2>2. e = EntryByID(archive, x)
    BY <1>2, <2>1, NoRedirect DEF Reached
  <2>3. x \in Nat
    BY <2>1 DEF Reached
  <2>4. x \in DOMAIN Targets /\ e.target = Targets[x] /\ Targets[x] \in Nat
    <3>1. EntryIs(e, x)
      BY <2>2, <2>3, EntryByIDIs
    <3>2. e # Missing
      BY <1>2, <2>1, NoRedirect
    <3> QED BY <1>2, <2>1, <3>1, <3>2 DEF EntryIs, IsRedirect
  <2>5. PICK t \in Nat : t = Targets[x] /\ t = e.target
    BY <2>4
  <2>6. x \in S /\ id \in S /\ S \subseteq LeadsTo(id) /\ IsFiniteSet(S) /\ Cardinality(S) = n + 1
        /\ \A v \in S : v # x => v \in DOMAIN Targets /\ Targets[v] \in S
    BY <1>2, <2>1 DEF Reached
  <2>7. CASE t \in S
    <3>1. PICK h : h = HopOf(archive, w)
      OBVIOUS
    <3>2. h = [at |-> Loop, visited |-> S]
      BY <1>2, <2>1, <2>5, <2>7, <3>1 DEF HopOf
    <3>3. h.at = Loop /\ h.visited = S
      BY <3>2
    <3>4. Reached(id, h, n + 1, x)
      BY <2>4, <2>5, <2>6, <2>7, <3>3, NoRedirect DEF Reached
    <3> QED BY <3>1, <3>4
  <2>8. CASE t \notin S
    <3>1. PICK h : h = HopOf(archive, w)
      OBVIOUS
    <3>2. h = [at |-> EntryByID(archive, t), visited |-> S \union {t}]
      BY <1>2, <2>1, <2>5, <2>8, <3>1 DEF HopOf
    <3>3. h.at = EntryByID(archive, t) /\ h.visited = S \union {t}
      BY <3>2
    <3>4. IsFiniteSet(S \union {t}) /\ Cardinality(S \union {t}) = (n + 1) + 1
      BY <2>6, <2>8, FS_AddElement
    <3>5. t \in LeadsTo(id)
      <4>1. x \in LeadsTo(id)
        BY <2>6
      <4>2. Targets[x] \in LeadsTo(id)
        BY <2>4, <4>1, LeadsToFacts
      <4> QED BY <2>5, <4>2
    <3>6. \A v \in S \union {t} : v # t => v \in DOMAIN Targets /\ Targets[v] \in S \union {t}
      BY <2>4, <2>5, <2>6
    <3>7. Reached(id, h, n + 1, t)
      BY <2>6, <3>3, <3>4, <3>5, <3>6 DEF Reached
    <3> QED BY <3>1, <3>7
  <2> QED BY <2>7, <2>8
<1> QED BY <1>1, <1>2

(* So it does after any number of steps. *)
LEMMA WalkReaches ==
  ASSUME TypeInv, Fits, NEW turned, Opened(turned), NEW id \in Ids, EntryByID(archive, id).id = id,
         NEW N \in Nat, NEW walk, WalkUpto(walk, EntryByID(archive, id), N)
  PROVE  \E x : Reached(id, walk[N], N, x)
<1> DEFINE S == {n \in 0 .. N : \E x : Reached(id, walk[n], n, x)}
<1>1. 0 \in S
  <2>1. PICK w : w = walk[0]
    OBVIOUS
  <2>2. w = [at |-> EntryByID(archive, id), visited |-> {id}]
    BY <2>1 DEF WalkUpto
  <2>3. w.at = EntryByID(archive, id) /\ w.visited = {id}
    BY <2>2
  <2>4. IsFiniteSet({id}) /\ Cardinality({id}) = 0 + 1
    <3>1. IsFiniteSet({id}) /\ Cardinality({id}) = 1
      BY FS_Singleton, Zenon
    <3> QED BY <3>1
  <2>5. {id} \subseteq LeadsTo(id)
    BY LeadsToFacts
  <2>6. Reached(id, w, 0, id)
    BY <2>3, <2>4, <2>5 DEF Reached
  <2> QED BY <2>1, <2>6
<1>2. ASSUME NEW n \in 0 .. N - 1, n \in S PROVE n + 1 \in S
  <2>1. PICK x : Reached(id, walk[n], n, x)
    BY <1>2
  <2>2. n + 1 \in 1 .. N /\ (n + 1) - 1 = n /\ n \in 0 .. N /\ n + 1 \in 0 .. N /\ n \in Nat
    OBVIOUS
  <2>3. walk[n + 1] = HopOf(archive, walk[n]) /\ walk[n] \in WalkStates
    BY <2>2 DEF WalkUpto
  <2>4. \E y : Reached(id, walk[n + 1], n + 1, y)
    BY <2>1, <2>2, <2>3, HopReaches
  <2> QED BY <2>2, <2>4
<1>3. 0 .. N \subseteq S
  <2> HIDE DEF S
  <2> QED BY <1>1, <1>2, IntervalInduction
<1>4. N \in 0 .. N
  OBVIOUS
<1> QED BY <1>3, <1>4

(* There are no more redirects than were added. *)
LEMMA RedirectsCount ==
  ASSUME TypeInv, NEW S \in SUBSET DOMAIN Targets
  PROVE  IsFiniteSet(S) /\ Cardinality(S) \in Nat /\ Cardinality(S) <= Len(redirects)
<1>1. PICK n \in Nat, R \in Nat : n = Len(redirects) /\ R = RedirectIDBit
  BY IdsAre, CatalogueAssumption
<1>2. PICK D : D = DOMAIN Targets
  OBVIOUS
<1>3. D = {R + j : j \in 0 .. n - 1}
  BY <1>1, <1>2, IdsAre
<1>4. D \subseteq R .. R + n - 1
  BY <1>3
<1>5. PICK a \in Int, b \in Int : a = R /\ b = R + n - 1
  OBVIOUS
<1>6. IsFiniteSet(a .. b) /\ Cardinality(a .. b) = IF a > b THEN 0 ELSE b - a + 1
  BY FS_Interval
<1>7. Cardinality(a .. b) = n
  BY <1>5, <1>6
<1>8. S \in SUBSET (a .. b)
  BY <1>2, <1>4, <1>5
<1>9. IsFiniteSet(S) /\ Cardinality(S) <= n
  BY <1>6, <1>7, <1>8, FS_Subset
<1>10. Cardinality(S) \in Nat
  BY <1>9, FS_CardinalityType
<1> QED BY <1>1, <1>9, <1>10

(* The entry of an ID that parses. *)
LEMMA EntryOfID ==
  ASSUME TypeInv, Fits, NEW turned, Opened(turned), NEW id \in Ids \ unparsable
  PROVE  /\ id \in Nat /\ EntryByID(archive, id).id = id
         /\ EntryByID(archive, id).path = NameOf(archive.idToPath, id)
         /\ EntryByID(archive, id).title = NameOf(archive.idToTitle, id)
         /\ id \notin DOMAIN Targets => EntryByID(archive, id).target = -1
<1>1. id \in Nat
  BY LeadsToFacts
<1>2. EntryIs(EntryByID(archive, id), id)
  BY <1>1, EntryByIDIs
<1>3. id \in DOMAIN Targets \/ id \in (0 .. Len(entries) - 1) \ unparsable
  BY IdsAre
<1>4. PICK e : e = EntryByID(archive, id)
  OBVIOUS
<1>5. e.id = id /\ e.path = NameOf(archive.idToPath, id) /\ e.title = NameOf(archive.idToTitle, id)
  BY <1>2, <1>3, <1>4 DEF EntryIs
<1>6. id \notin DOMAIN Targets => e.target = -1
  BY <1>2, <1>3, <1>4 DEF EntryIs
<1> QED BY <1>1, <1>4, <1>5, <1>6

(* Resolve has come to its end when it returns: it cannot have visited *)
(* more redirects than there are.                                      *)
LEMMA ResolveEnds ==
  ASSUME TypeInv, Fits, NEW turned, Opened(turned), NEW id \in Ids \ unparsable
  PROVE  \E w \in WalkStates : /\ w.at = Resolve(archive, EntryByID(archive, id)) /\ ~IsRedirect(w.at)
                               /\ \E n, x : Reached(id, w, n, x)
<1>1. PICK N \in Nat : N = Len(redirects) + 1
  BY IdsAre
<1>2. Len(archive.redirects) + 1 = N
  <2>1. archive.redirects = [i \in 1 .. Len(redirects) |-> redirects[i].target] /\ Len(redirects) \in Nat
    BY IdsAre DEF Opened, Archived
  <2>2. Len(archive.redirects) = Len(redirects)
    BY <2>1
  <2> QED BY <1>1, <2>2
<1>3. PICK e : e = EntryByID(archive, id)
  OBVIOUS
<1>4. e.id = id /\ id \in Nat
  BY <1>3, EntryOfID
<1>5. e \in Spots
  BY <1>3, <1>4 DEF Spots
<1>6. PICK walk : walk = WalkFrom(archive, e)
  OBVIOUS
<1>7. WalkUpto(walk, e, N)
  BY <1>1, <1>4, <1>5, <1>6, WalkExists
<1>8. PICK x : Reached(id, walk[N], N, x)
  BY <1>3, <1>4, <1>7, WalkReaches
<1>9. walk[N] \in WalkStates
  <2>1. N \in 0 .. N
    OBVIOUS
  <2> QED BY <1>7, <2>1 DEF WalkUpto
<1>10. walk[N].at = Resolve(archive, e)
  BY <1>2, <1>6, ResolveIs
<1>11. PICK w \in WalkStates : w = walk[N]
  BY <1>9
<1>12. ASSUME IsRedirect(w.at) PROVE FALSE
  <2>1. w.at # Loop /\ w.at # Missing
    BY <1>12, NoRedirect
  <2>2. x \in DOMAIN Targets
    <3>1. w.at = EntryByID(archive, x) /\ x \in w.visited
      BY <1>8, <1>11, <2>1 DEF Reached
    <3>2. x \in Nat
      BY <1>11, <3>1 DEF WalkStates
    <3>3. EntryIs(w.at, x)
      BY <3>1, <3>2, EntryByIDIs
    <3> QED BY <1>12, <2>1, <3>3 DEF EntryIs, IsRedirect
  <2>3. w.visited \subseteq DOMAIN Targets
    BY <1>8, <1>11, <2>2 DEF Reached
  <2>4. Cardinality(w.visited) = N + 1
    BY <1>8, <1>11, <1>12 DEF Reached
  <2>5. Cardinality(w.visited) <= Len(redirects) /\ Len(redirects) \in Nat
    BY <2>3, RedirectsCount, IdsAre
  <2> QED BY <1>1, <2>4, <2>5
<1> QED BY <1>3, <1>8, <1>10, <1>11, <1>12

(* Resolve answers with the end of the chain, or says that it is a loop or *)
(* that an entry on it is missing.                                         *)
LEMMA ResolveFacts ==
  ASSUME TypeInv, Fits, NEW turned, Opened(turned), NEW id \in Ids \ unparsable,
         NEW end, end = Resolve(archive, EntryByID(archive, id)),
         NEW ends, ends = LeadsTo(id) \ DOMAIN Targets
  PROVE  IF end = Loop THEN ends = {}
         ELSE IF end = Missing THEN \E x \in ends : x \in unparsable \/ x \notin Ids
         ELSE ends = {end.id} /\ ~IsRedirect(end)
<1>1. PICK w \in WalkStates : w.at = end /\ ~IsRedirect(w.at) /\ \E n, x : Reached(id, w, n, x)
  BY ResolveEnds
<1>2. PICK n, x : Reached(id, w, n, x)
  BY <1>1
<1>3. PICK S : S = w.visited
  OBVIOUS
<1>4. /\ x \in S /\ id \in S /\ S \subseteq LeadsTo(id) /\ S \subseteq Nat
      /\ \A v \in S : v # x => v \in DOMAIN Targets /\ Targets[v] \in S
      /\ end = EntryByID(archive, x) \/ (end = Loop /\ x \in DOMAIN Targets /\ Targets[x] \in S)
  BY <1>1, <1>2, <1>3 DEF Reached, WalkStates
<1>5. x \in Nat
  BY <1>4
<1>6. EntryIs(EntryByID(archive, x), x)
  BY <1>5, EntryByIDIs
<1>7. CASE x \in DOMAIN Targets
  <2>1. end # EntryByID(archive, x)
    <3>1. EntryByID(archive, x).target \in Nat
      BY <1>6, <1>7 DEF EntryIs
    <3> QED BY <1>1, <3>1 DEF IsRedirect
  <2>2. end = Loop /\ \A v \in S : v \in DOMAIN Targets /\ Targets[v] \in S
    BY <1>4, <1>7, <2>1
  <2>3. LeadsTo(id) \subseteq S
    BY <1>4, <2>2, LeadsToFacts
  <2> QED BY <2>2, <2>3
<1>8. CASE x \notin DOMAIN Targets
  <2>1. end = EntryByID(archive, x)
    BY <1>4, <1>8
  <2>2. \A v \in S : v \in DOMAIN Targets => Targets[v] \in S
    BY <1>4, <1>8
  <2>3. LeadsTo(id) \subseteq S
    BY <1>4, <2>2, LeadsToFacts
  <2>4. ends = {x}
    BY <1>4, <1>8, <2>3
  <2>5. CASE x \in (0 .. Len(entries) - 1) \ unparsable
    <3>1. end.id = x
      BY <1>6, <2>1, <2>5 DEF EntryIs
    <3>2. end # Loop /\ end # Missing
      BY <1>5, <3>1, NoRedirect
    <3> QED BY <1>1, <2>4, <3>1, <3>2
  <2>6. CASE x \notin (0 .. Len(entries) - 1) \ unparsable
    <3>1. end = Missing /\ Missing # Loop
      BY <1>6, <1>8, <2>1, <2>6, NoRedirect DEF EntryIs
    <3>2. x \in unparsable \/ x \notin Ids
      BY <1>8, <2>6, IdsAre
    <3> QED BY <2>4, <3>1, <3>2
  <2> QED BY <2>5, <2>6
<1> QED BY <1>7, <1>8

(* In any open archive whose entries fit, Resolve ends, whatever loops the *)
(* redirects make: at the entry the chain leads to, with a loop where      *)
(* there is no end, or missing where the chain leaves the archive.         *)
THEOREM ResolveRightAlways == Spec => []ResolveRight
<1>1. ASSUME IInv, phase = "open", Fits, NEW id \in Ids \ unparsable,
             NEW end, end = Resolve(archive, EntryByID(archive, id)),
             NEW ends, ends = LeadsTo(id) \ DOMAIN Targets
      PROVE  IF end = Loop THEN ends = {}
             ELSE IF end = Missing THEN \E x \in ends : x \in unparsable \/ x \notin Ids
             ELSE ends = {end.id} /\ ~IsRedirect(end)
  <2>1. PICK turned \in BOOLEAN : Opened(turned)
    BY <1>1, OpenedFacts
  <2>2. TypeInv
    BY <1>1 DEF IInv
  <2> QED BY <1>1, <2>1, <2>2, ResolveFacts, Zenon
<1>2. IInv => ResolveRight
  BY <1>1, Zenon DEF ResolveRight
<1> QED BY <1>2, IInvAlways, PTL

-----------------------------------------------------------------------------

(* Where every check is passed nothing has changed on the disk. *)
LEMMA VerifiedIntact ==
  ASSUME TypeInv, NEW turned, Opened(turned), Verified(archive)
  PROVE  unparsable = {} /\ changed = {}
<1>1. archive.entries = EntriesOf(entries) /\ Len(entries) \in Nat
  BY IdsAre DEF Opened, Archived
<1>2. Len(archive.entries) \in Nat
  BY <1>1 DEF EntriesOf
<1> QED BY <1>2, VerifiedIs

(* Every content entry of an archive that verifies reads back as it was    *)
(* added, although the entry tier stops at the first record that it cannot *)
(* read.                                                                   *)
THEOREM VerifiedReadsAlways == Spec => []VerifiedReads
<1>1. ASSUME IInv, phase = "open", Fits, Verified(archive), NEW id \in Ids, ~IsRedirectID(id)
      PROVE  ReadContent(archive, EntryByID(archive, id)) = <<"added", id>>
  <2>1. PICK turned \in BOOLEAN : Opened(turned)
    BY <1>1, OpenedFacts
  <2>2. TypeInv
    BY <1>1 DEF IInv
  <2>3. unparsable = {} /\ changed = {}
    BY <1>1, <2>1, <2>2, VerifiedIntact
  <2>4. PICK end, ends : end = Resolve(archive, EntryByID(archive, id)) /\ ends = LeadsTo(id) \ DOMAIN Targets
    OBVIOUS
  <2>5. IF end = Loop THEN ends = {}
        ELSE IF end = Missing THEN \E x \in ends : x \in unparsable \/ x \notin Ids
        ELSE ends = {end.id} /\ ~IsRedirect(end)
    BY <1>1, <2>1, <2>2, <2>3, <2>4, ResolveFacts
  <2>6. id \notin DOMAIN Targets /\ id \in Nat
    <3>1. PICK n \in Nat, R \in Nat : n = Len(redirects) /\ R = RedirectIDBit
      BY <2>2, IdsAre, CatalogueAssumption
    <3>2. DOMAIN Targets = {R + j : j \in 0 .. n - 1}
      BY <2>2, <3>1, IdsAre
    <3>3. id \in Nat /\ id < R
      BY <1>1, <2>2, <3>1, LeadsToFacts DEF IsRedirectID
    <3> QED BY <3>2, <3>3
  <2>7. LeadsTo(id) = {id}
    <3>1. {id} \in SUBSET LeadsTo(id)
      BY <2>2, LeadsToFacts
    <3>2. PICK S \in SUBSET LeadsTo(id) : S = {id}
      BY <3>1
    <3>3. id \in S /\ \A x \in S : x \in DOMAIN Targets => Targets[x] \in S
      BY <2>6, <3>2
    <3>4. LeadsTo(id) \subseteq S
      BY <2>2, <3>3, LeadsToFacts
    <3> QED BY <3>1, <3>2, <3>4
  <2>8. ends = {id}
    BY <2>4, <2>6, <2>7
  <2>9. end.id = id
    BY <2>3, <2>5, <2>8
  <2>10. ~(end.id < 0) /\ end.id \notin changed
    BY <2>3, <2>6, <2>9
  <2>11. ReadContent(archive, EntryByID(archive, id)) = <<"added", end.id>>
    BY <2>4, <2>10 DEF ReadContent
  <2> QED BY <2>9, <2>11
<1>2. IInv => VerifiedReads
  BY <1>1 DEF VerifiedReads
<1> QED BY <1>2, IInvAlways, PTL

(*****************************************************************************)
(* Finding a key                                                             *)
(*****************************************************************************)
(* Records in the order of their keys, as an index that fits is read back.   *)
Ordered(records, n) ==
  /\ Len(records) = n
  /\ \A i \in 1 .. n : records[i].ok /\ records[i].key \in Seq(Nat)
  /\ \A i, j \in 1 .. n : i < j => Before(records[i].key, records[j].key)
                                     \/ records[i].key = records[j].key

(* A key is at its place in the order. *)
LEMMA OrderedKeys ==
  ASSUME NEW records, NEW n \in Nat, Ordered(records, n), NEW key \in Seq(Nat),
         NEW i \in 1 .. n, records[i].key = key, NEW q \in 1 .. n
  PROVE  /\ q <= i => ~Before(key, records[q].key)
         /\ Before(records[q].key, key) => q < i
         /\ Before(key, records[q].key) => i < q
<1>1. PICK a \in Seq(Nat) : a = records[q].key
  BY DEF Ordered
<1>2. ~Before(key, key)
  BY BeforeIrreflexive
<1>3. Before(a, key) => ~Before(key, a)
  BY BeforeAsymmetric
<1>4. q < i => Before(a, key) \/ a = key
  BY <1>1 DEF Ordered
<1>5. i < q => Before(key, a) \/ a = key
  BY <1>1 DEF Ordered
<1>6. q = i => a = key
  BY <1>1
<1>7. q < i \/ i < q \/ q = i
  OBVIOUS
<1> QED BY <1>1, <1>2, <1>3, <1>4, <1>5, <1>6, <1>7

(* The blocks of n records cover them, and start inside. *)
LEMMA BlockStarts ==
  ASSUME NEW n \in Nat
  PROVE  /\ RestartCount(n) \in Nat
         /\ \A b \in 0 .. RestartCount(n) - 1 : BlockStart(b) \in 1 .. n
         /\ n < BlockStart(RestartCount(n)) /\ (n > 0 => RestartCount(n) > 0)
         /\ BlockStart(0) = 1
<1>1. PICK R \in Nat \ {0} : R = RestartInterval
  BY NameIndexAssumption
<1>2. PICK x \in Nat : x = n + R - 1
  <2>1. n + R - 1 \in Nat
    OBVIOUS
  <2> QED BY <2>1
<1>3. PICK c \in Nat : c = x \div R /\ x = c * R + (x % R) /\ x % R \in 0 .. R - 1
  BY DivFacts
<1>4. RestartCount(n) = c
  BY <1>1, <1>2, <1>3 DEF RestartCount
<1>5. c * R \in Nat /\ n <= c * R
  <2>1. PICK r \in Nat, y \in Nat : r = x % R /\ y = c * R /\ r <= R - 1
    <3>1. c * R \in Nat /\ x % R \in Nat /\ x % R <= R - 1
      BY <1>3
    <3> QED BY <3>1
  <2>2. x = y + r
    BY <1>3, <2>1
  <2> QED BY <1>2, <2>1, <2>2
<1>6. ASSUME NEW b \in 0 .. c - 1 PROVE BlockStart(b) \in 1 .. n
  <2>1. b \in Nat /\ b < c
    OBVIOUS
  <2>2. b * R + R <= c * R
    BY <2>1, TimesLess
  <2>3. PICK y \in Nat, z \in Nat, r \in Nat : y = b * R /\ z = c * R /\ r = x % R
    <3>1. b * R \in Nat /\ c * R \in Nat /\ x % R \in Nat
      BY <1>3, <2>1
    <3> QED BY <3>1
  <2>4. y + R <= z /\ x = z + r
    BY <1>3, <2>2, <2>3
  <2>5. y + 1 \in 1 .. n
    BY <1>2, <2>3, <2>4
  <2> QED BY <1>1, <2>3, <2>5 DEF BlockStart
<1>7. n < c * R + 1
  BY <1>5
<1>8. n > 0 => c > 0
  BY <1>5
<1>9. BlockStart(0) = 1
  BY <1>1 DEF BlockStart
<1> QED BY <1>1, <1>4, <1>6, <1>7, <1>8, <1>9 DEF BlockStart

(* The binary search over the restarts and the scan of its block find a *)
(* key that is there, and none that is not, for any interval and any    *)
(* number of records.                                                   *)
THEOREM SearchFinds ==
  ASSUME NEW records, NEW n \in Nat, Ordered(records, n), NEW key \in Seq(Nat)
  PROVE  \/ SearchIndexFor(records, key) = 0 /\ \A i \in 1 .. n : records[i].key # key
         \/ SearchIndexFor(records, key) \in 1 .. n /\ records[SearchIndexFor(records, key)].key = key
<1>1. Len(records) = n /\ \A i \in 1 .. n : records[i].ok /\ records[i].key \in Seq(Nat)
  BY DEF Ordered
<1>2. PICK c \in Nat : c = RestartCount(n)
  BY BlockStarts
<1>3. /\ \A b \in 0 .. c - 1 : BlockStart(b) \in 1 .. n
      /\ n < BlockStart(c) /\ (n > 0 => c > 0) /\ BlockStart(0) = 1
  BY <1>2, BlockStarts
<1>4. PICK reached : reached = SearchBlocks(records, key)
  OBVIOUS
<1>5. reached = {b \in 0 .. c - 1 : ~Before(records[BlockStart(b)].key, key)}
  BY <1>1, <1>2, <1>3, <1>4 DEF SearchBlocks, RestartReached
<1>6. PICK p : p = SearchIndexFor(records, key)
  OBVIOUS
<1>7. PICK block, found : block = ScannedBlock(records, key) /\ found = ScanBlock(records, block, key)
  OBVIOUS
<1>8. p = IF reached # {} /\ records[BlockStart(Min(reached))].key = key
          THEN BlockStart(Min(reached))
          ELSE IF block < 0 \/ found = {} THEN 0 ELSE Min(found)
  BY <1>4, <1>6, <1>7 DEF SearchIndexFor
<1>9. found = {j \in 1 .. n : /\ BlockStart(block) <= j /\ j < BlockStart(block + 1)
                              /\ records[j].key = key
                              /\ \A i \in BlockStart(block) .. j :
                                   records[i].ok /\ ~Before(key, records[i].key)}
  BY <1>1, <1>7 DEF ScanBlock
<1>10. ASSUME found # {} PROVE Min(found) \in 1 .. n /\ records[Min(found)].key = key
  <2>1. found \in SUBSET Nat
    BY <1>9
  <2>2. PICK x \in found : \A y \in found : x <= y
    BY <1>10, <2>1, LeastElement
  <2>3. Min(found) \in found
    BY <2>2 DEF Min
  <2> QED BY <1>9, <2>3
<1>11. CASE reached = {}
  <2>1. block = c - 1
    BY <1>1, <1>2, <1>4, <1>7, <1>11 DEF ScannedBlock
  <2>2. p = IF block < 0 \/ found = {} THEN 0 ELSE Min(found)
    BY <1>8, <1>11
  <2>3. ASSUME NEW i \in 1 .. n, records[i].key = key PROVE block >= 0 /\ found # {}
    <3>1. c > 0 /\ block \in 0 .. c - 1 /\ block + 1 = c
      BY <1>3, <2>1
    <3>2. PICK s \in 1 .. n : s = BlockStart(block)
      BY <1>3, <3>1
    <3>3. Before(records[s].key, key)
      BY <1>5, <1>11, <3>1, <3>2
    <3>4. s < i
      BY <2>3, <3>2, <3>3, OrderedKeys
    <3>5. ASSUME NEW q \in s .. i PROVE records[q].ok /\ ~Before(key, records[q].key)
      <4>1. q \in 1 .. n /\ q <= i
        BY <3>2
      <4> QED BY <1>1, <2>3, <4>1, OrderedKeys
    <3>6. s <= i /\ i < BlockStart(block + 1)
      <4>1. PICK e : e = BlockStart(c) /\ n < e
        BY <1>3
      <4>2. e \in Int
        BY <1>2, <4>1, NameIndexAssumption DEF BlockStart
      <4>3. i < e
        BY <4>1, <4>2
      <4> QED BY <3>1, <3>4, <4>1, <4>3
    <3>7. i \in found
      BY <1>9, <2>3, <3>2, <3>5, <3>6
    <3> QED BY <3>1, <3>7
  <2>4. CASE block < 0 \/ found = {}
    <3>1. p = 0
      BY <2>2, <2>4
    <3>2. block \in Int
      BY <2>1
    <3> QED BY <1>6, <2>3, <2>4, <3>1, <3>2
  <2>5. CASE ~(block < 0 \/ found = {})
    BY <1>6, <1>10, <2>2, <2>5
  <2> QED BY <2>4, <2>5
<1>12. CASE reached # {}
  <2>1. reached \in SUBSET Nat
    BY <1>5
  <2>2. PICK x \in reached : \A y \in reached : x <= y
    BY <1>12, <2>1, LeastElement
  <2>3. PICK m \in Nat : m = Min(reached) /\ m \in reached /\ \A y \in reached : m <= y
    <3>1. Min(reached) \in reached /\ \A y \in reached : Min(reached) <= y
      BY <2>2 DEF Min
    <3> QED BY <2>1, <3>1
  <2>4. m \in 0 .. c - 1 /\ ~Before(records[BlockStart(m)].key, key)
    BY <1>5, <2>3
  <2>5. PICK s \in 1 .. n : s = BlockStart(m)
    BY <1>3, <2>4
  <2>6. CASE records[s].key = key
    BY <1>6, <1>8, <1>12, <2>3, <2>5, <2>6
  <2>7. CASE records[s].key # key
    <3>1. block = m - 1
      BY <1>1, <1>4, <1>7, <1>12, <2>3 DEF ScannedBlock
    <3>2. p = IF block < 0 \/ found = {} THEN 0 ELSE Min(found)
      BY <1>8, <2>3, <2>5, <2>7
    <3>3. Before(key, records[s].key)
      <4>1. records[s].key \in Seq(Nat)
        BY <1>1
      <4> QED BY <2>4, <2>5, <2>7, <4>1, BeforeTotal
    <3>4. ASSUME NEW i \in 1 .. n, records[i].key = key PROVE block >= 0 /\ found # {}
      <4>1. i < s
        BY <3>3, <3>4, OrderedKeys
      <4>2. m # 0
        BY <1>3, <2>5, <4>1
      <4>3. block \in 0 .. c - 1 /\ block + 1 = m /\ block \notin reached
        BY <2>3, <2>4, <3>1, <4>2
      <4>4. PICK t \in 1 .. n : t = BlockStart(block)
        BY <1>3, <4>3
      <4>5. Before(records[t].key, key)
        BY <1>5, <4>3, <4>4
      <4>6. t < i
        BY <3>4, <4>4, <4>5, OrderedKeys
      <4>7. ASSUME NEW q \in t .. i PROVE records[q].ok /\ ~Before(key, records[q].key)
        <5>1. q \in 1 .. n /\ q <= i
          BY <4>4
        <5> QED BY <1>1, <3>4, <5>1, OrderedKeys
      <4>8. t <= i /\ i < BlockStart(block + 1)
        BY <2>5, <4>1, <4>3, <4>6
      <4>9. i \in found
        BY <1>9, <3>4, <4>4, <4>7, <4>8
      <4> QED BY <4>3, <4>9
    <3>5. CASE block < 0 \/ found = {}
      <4>1. p = 0
        BY <3>2, <3>5
      <4>2. block \in Int
        BY <3>1
      <4> QED BY <1>6, <3>4, <3>5, <4>1, <4>2
    <3>6. CASE ~(block < 0 \/ found = {})
      BY <1>6, <1>10, <3>2, <3>6
    <3> QED BY <3>5, <3>6
  <2> QED BY <2>6, <2>7
<1> QED BY <1>11, <1>12

(* Record k is that of name r[k], and every name has one. *)
Placed(records, names, key, r, n) ==
  /\ Ordered(records, n) /\ r \in [1 .. n -> 1 .. n]
  /\ \A k \in 1 .. n : records[k].id = names[r[k]].id /\ records[k].key = key[r[k]]
  /\ \A i \in 1 .. n : \E k \in 1 .. n : r[k] = i
  /\ \A k, l \in 1 .. n : r[k] = r[l] => k = l

(* What was read back is in order, and each name has its record. *)
LEMMA CataloguedPlaced ==
  ASSUME NEW names, NEW key \in Seq(Seq(Nat)), NEW turned \in BOOLEAN, NEW records,
         Catalogued(records, names, key, turned)
  PROVE  \E r : Placed(records, names, key, r, Len(key))
<1>1. PICK n \in Nat : n = Len(key)
  BY LenProperties
<1>2. PICK r : r = RankOf(key, turned)
  OBVIOUS
<1>3. PICK offs : records = [k \in 1 .. n |-> Decoded(names[r[k]].id, key[r[k]], offs[k])]
  BY <1>1, <1>2 DEF Catalogued
<1>4. /\ r \in Seq(1 .. n) /\ Len(r) = n
      /\ \A x \in 1 .. n : \E i \in 1 .. n : r[i] = x
      /\ \A i, j \in 1 .. n : r[i] = r[j] => i = j
      /\ \A i, j \in 1 .. n : i < j => SoonerKey(key, turned, r[i], r[j])
  <2>1. /\ RankOf(key, turned) \in Seq(1 .. Len(key)) /\ Len(RankOf(key, turned)) = Len(key)
        /\ \A x \in 1 .. Len(key) : \E i \in 1 .. Len(key) : RankOf(key, turned)[i] = x
        /\ \A i, j \in 1 .. Len(key) : RankOf(key, turned)[i] = RankOf(key, turned)[j] => i = j
        /\ \A i, j \in 1 .. Len(key) :
             i < j => SoonerKey(key, turned, RankOf(key, turned)[i], RankOf(key, turned)[j])
    BY RankFacts
  <2> QED BY <1>1, <1>2, <2>1
<1>5. r \in [1 .. n -> 1 .. n]
  BY <1>4, LenProperties
<1>6. ASSUME NEW k \in 1 .. n
      PROVE  /\ records[k].id = names[r[k]].id /\ records[k].key = key[r[k]] /\ records[k].ok
             /\ records[k].key \in Seq(Nat)
  <2>1. PICK d : d = Decoded(names[r[k]].id, key[r[k]], offs[k])
    OBVIOUS
  <2>2. records[k] = d
    BY <1>3, <2>1
  <2>3. d.id = names[r[k]].id /\ d.key = key[r[k]]
    BY <2>1 DEF Decoded
  <2>4. Decoded(names[r[k]].id, key[r[k]], offs[k]).ok
    BY DEF Decoded
  <2>5. records[k].ok
    BY <2>1, <2>2, <2>4, Zenon
  <2>6. key[r[k]] \in Seq(Nat)
    BY <1>1, <1>5, LenProperties
  <2> QED BY <2>2, <2>3, <2>5, <2>6
<1>7. ASSUME NEW i \in 1 .. n, NEW j \in 1 .. n, i < j
      PROVE  Before(records[i].key, records[j].key) \/ records[i].key = records[j].key
  BY <1>4, <1>6, <1>7 DEF SoonerKey
<1>8. Len(records) = n
  BY <1>3
<1>9. \A i \in 1 .. n : records[i].ok /\ records[i].key \in Seq(Nat)
  BY <1>6, Zenon
<1>10. Ordered(records, n)
  BY <1>7, <1>8, <1>9 DEF Ordered
<1>11. \A k \in 1 .. n : records[k].id = names[r[k]].id /\ records[k].key = key[r[k]]
  BY <1>6
<1>12. Placed(records, names, key, r, n)
  BY <1>4, <1>5, <1>10, <1>11 DEF Placed
<1> QED BY <1>1, <1>12

(*****************************************************************************)
(* The answers to a path and to a title                                      *)
(*****************************************************************************)
(* No two names have the same ID.                                            *)
Distinct(names) == \A i, j \in 1 .. Len(names) : names[i].id = names[j].id => i = j

(* The map back from an ID to its key is right. *)
LEMMA ReverseRight ==
  ASSUME NEW names, NEW n \in Nat, Len(names) = n, Distinct(names), NEW key, NEW records, NEW r,
         Placed(records, names, key, r, n), NEW i \in 1 .. n
  PROVE  NameOf(ReverseMap(records), names[i].id) = key[i]
<1>1. Len(records) = n
  BY DEF Placed, Ordered
<1>2. PICK id : id = names[i].id
  OBVIOUS
<1>3. PICK k \in 1 .. n : r[k] = i
  BY DEF Placed
<1>4. records[k].id = id /\ records[k].key = key[i]
  BY <1>2, <1>3 DEF Placed
<1>5. ASSUME NEW l \in 1 .. n, records[l].id = id PROVE l = k
  <2>1. names[r[l]].id = names[i].id /\ r[l] \in 1 .. n
    BY <1>2, <1>5 DEF Placed
  <2>2. r[l] = i
    BY <2>1 DEF Distinct
  <2> QED BY <1>3, <2>2 DEF Placed
<1>6. PICK S : S = {l \in 1 .. n : records[l].id = id}
  OBVIOUS
<1>7. S = {k}
  BY <1>4, <1>5, <1>6
<1>8. Max(S) = k
  BY <1>7 DEF Max
<1>9. PICK f : f = ReverseMap(records)
  OBVIOUS
<1>10. f = [x \in {records[l].id : l \in 1 .. n} |->
              records[Max({l \in 1 .. n : records[l].id = x})].key]
  BY <1>1, <1>9 DEF ReverseMap
<1>11. id \in DOMAIN f /\ f[id] = records[Max(S)].key
  BY <1>4, <1>6, <1>10
<1> QED BY <1>2, <1>4, <1>8, <1>9, <1>11 DEF NameOf

(* No two names have the same ID: content is below the bit, redirects from *)
(* it on.                                                                  *)
LEMMA NamesDistinct ==
  ASSUME TypeInv
  PROVE  /\ Names \in Seq(Named) /\ Distinct(Names)
         /\ \A k \in ToSet(Names) : \E i \in 1 .. Len(Names) : k = Names[i]
         /\ \A i \in 1 .. Len(Names) : Names[i] \in ToSet(Names) /\ Names[i].id \in Ids
<1>0. entries \in Seq(ContentRecords) /\ redirects \in Seq(RedirectRecords)
  BY DEF TypeInv
<1>1. PICK m \in Nat, n \in Nat, R \in Nat : m = Len(entries) /\ n = Len(redirects) /\ R = RedirectIDBit
  BY IdsAre, CatalogueAssumption
<1>2. m < R
  BY <1>1, IdsAre, CatalogueAssumption
<1>3. PICK names \in Seq(Named) : names = NamesOf(entries, redirects) /\ names = Names
  BY <1>0, NamesFacts, NamesAre
<1>4. Len(names) = m + n
  BY <1>0, <1>1, <1>3, NamesFacts
<1>5. ASSUME NEW i \in 1 .. m PROVE names[i].id = i - 1
  <2>1. names[i] = [id |-> i - 1, path |-> entries[i].path, title |-> entries[i].title]
    BY <1>0, <1>1, <1>3, NamesFacts, ZenonT(30)
  <2> QED BY <2>1
<1>6. ASSUME NEW i \in 1 .. n PROVE names[m + i].id = R + i - 1
  <2>1. names[m + i] = [id |-> MakeRedirectID(i - 1), path |-> redirects[i].path,
                        title |-> redirects[i].title]
    <3>1. \A j \in 1 .. Len(redirects) :
            NamesOf(entries, redirects)[Len(entries) + j]
              = [id |-> MakeRedirectID(j - 1), path |-> redirects[j].path, title |-> redirects[j].title]
      BY <1>0, NamesFacts
    <3> QED BY <1>1, <1>3, <3>1
  <2>2. MakeRedirectID(i - 1) = R + i - 1
    BY <1>1 DEF MakeRedirectID
  <2> QED BY <2>1, <2>2
<1>7. ASSUME NEW i \in 1 .. m + n
      PROVE  (i <= m /\ names[i].id = i - 1) \/ (i > m /\ names[i].id = R + i - m - 1)
  <2>1. CASE i <= m
    <3>1. i \in 1 .. m
      BY <2>1
    <3> QED BY <1>5, <2>1, <3>1
  <2>2. CASE i > m
    <3>1. i - m \in 1 .. n /\ m + (i - m) = i
      BY <2>2
    <3>2. names[m + (i - m)].id = R + (i - m) - 1
      BY <1>6, <3>1
    <3> QED BY <2>2, <3>1, <3>2
  <2> QED BY <2>1, <2>2
<1>8. ASSUME NEW i \in 1 .. m + n, NEW j \in 1 .. m + n, names[i].id = names[j].id PROVE i = j
  <2>1. (i <= m /\ names[i].id = i - 1) \/ (i > m /\ names[i].id = R + i - m - 1)
    BY <1>7
  <2>2. (j <= m /\ names[j].id = j - 1) \/ (j > m /\ names[j].id = R + j - m - 1)
    BY <1>7
  <2> QED BY <1>2, <1>8, <2>1, <2>2
<1>9. Distinct(names)
  BY <1>4, <1>8 DEF Distinct
<1>10. ToSet(names) = {names[i] : i \in 1 .. m + n}
  BY <1>4 DEF ToSet
<1>11. Ids = {names[i].id : i \in 1 .. m + n}
  BY <1>3, <1>4 DEF Ids
<1> QED BY <1>3, <1>4, <1>9, <1>10, <1>11

(* What EntryByID answers for an ID of the archive. *)
LEMMA EntryRecord ==
  ASSUME TypeInv, Fits, NEW turned, Opened(turned), NEW x \in Ids
  PROVE  /\ x \in Nat
         /\ x \in unparsable => EntryByID(archive, x) = Missing
         /\ x \notin unparsable => \E type, front, target :
              EntryByID(archive, x) = [id |-> x, path |-> NameOf(archive.idToPath, x),
                                       title |-> NameOf(archive.idToTitle, x),
                                       mime |-> type, front |-> front, target |-> target]
<1>1. x \in Nat
  BY LeadsToFacts
<1>2. CASE x \in unparsable
  <2>1. PICK m \in Nat, n \in Nat, R \in Nat : m = Len(entries) /\ n = Len(redirects) /\ R = RedirectIDBit
    BY IdsAre, CatalogueAssumption
  <2>2. m < R
    BY <2>1, IdsAre, CatalogueAssumption
  <2>3. x \in 0 .. m - 1
    BY <1>2, <2>1 DEF TypeInv
  <2>4. DOMAIN Targets = {R + j : j \in 0 .. n - 1}
    BY <2>1, IdsAre
  <2>5. x \notin DOMAIN Targets
    BY <2>2, <2>3, <2>4
  <2> QED BY <1>1, <1>2, <2>5, EntryByIDIs DEF EntryIs
<1>3. CASE x \notin unparsable
  <2>1. EntryByID(archive, x).id = x
    BY <1>3, EntryOfID
  <2>2. EntryByID(archive, x) # Missing
    BY <1>1, <2>1, NoRedirect
  <2> QED BY <1>1, <1>3, <2>2 DEF EntryByID
<1> QED BY <1>1, <1>2, <1>3

(* The two indices of an open archive, and its two maps back. *)
LEMMA IndicesPlaced ==
  ASSUME TypeInv, NEW turned \in BOOLEAN, Opened(turned)
  PROVE  /\ \E r : Placed(archive.pathIdx, Names, PathsOf(Names), r, Len(Names))
         /\ \E r : Placed(archive.titleIdx, Names, TitlesOf(Names), r, Len(Names))
         /\ \A i \in 1 .. Len(Names) : /\ NameOf(archive.idToPath, Names[i].id) = Names[i].path
                                       /\ NameOf(archive.idToTitle, Names[i].id) = Names[i].title
<1>1. PICK names \in Seq(Named) : names = Names /\ names = NamesOf(entries, redirects) /\ Distinct(names)
  BY NamesDistinct, NamesAre
<1>2. PICK n \in Nat : n = Len(names)
  BY LenProperties
<1>3. PICK p \in Seq(Seq(Nat)), t \in Seq(Seq(Nat)) : p = PathsOf(names) /\ t = TitlesOf(names)
  BY KeysOfNames
<1>4. Len(p) = n /\ Len(t) = n /\ \A i \in 1 .. n : p[i] = names[i].path /\ t[i] = names[i].title
  BY <1>2, <1>3, KeysOfNames
<1>5. /\ Catalogued(archive.pathIdx, names, p, turned) /\ Catalogued(archive.titleIdx, names, t, turned)
      /\ archive.idToPath = ReverseMap(archive.pathIdx) /\ archive.idToTitle = ReverseMap(archive.titleIdx)
  BY <1>1, <1>3 DEF Opened, Archived
<1>6. PICK r : Placed(archive.pathIdx, names, p, r, n)
  BY <1>4, <1>5, CataloguedPlaced
<1>7. PICK s : Placed(archive.titleIdx, names, t, s, n)
  BY <1>4, <1>5, CataloguedPlaced
<1>8. ASSUME NEW i \in 1 .. n
      PROVE  NameOf(archive.idToPath, names[i].id) = names[i].path
             /\ NameOf(archive.idToTitle, names[i].id) = names[i].title
  <2>1. NameOf(ReverseMap(archive.pathIdx), names[i].id) = p[i]
    BY <1>1, <1>2, <1>6, ReverseRight
  <2>2. NameOf(ReverseMap(archive.titleIdx), names[i].id) = t[i]
    <3>1. PICK records, key : records = archive.titleIdx /\ key = t
      OBVIOUS
    <3>2. Placed(records, names, key, s, n)
      BY <1>7, <3>1
    <3>3. NameOf(ReverseMap(records), names[i].id) = key[i]
      BY <1>1, <1>2, <3>2, ReverseRight
    <3> QED BY <3>1, <3>3
  <2> QED BY <1>4, <1>5, <2>1, <2>2
<1> QED BY <1>1, <1>2, <1>3, <1>6, <1>7, <1>8

(* EntryByPath answers with a name that has the path, and with none only *)
(* if there is none or its entry does not parse.                         *)
PathAnswer(key) ==
  LET byPath == EntryByPath(archive, key)
      ofPath == {k \in ToSet(Names) : k.path = key}
  IN  IF byPath = Missing THEN ofPath = {} \/ \E k \in ofPath : k.id \in unparsable
      ELSE \E k \in ofPath : k.id = byPath.id /\ k.title = byPath.title

(* EntryByTitle answers with a name that has the title, and with none only *)
(* if there is none or its entry does not parse.                           *)
TitleAnswer(key) ==
  LET byTitle == EntryByTitle(archive, key)
      ofTitle == {k \in ToSet(Names) : k.title = key}
  IN  IF byTitle = Missing THEN ofTitle = {} \/ \E k \in ofTitle : k.id \in unparsable
      ELSE \E k \in ofTitle : k.id = byTitle.id /\ k.path = byTitle.path

(* EntryByPath is right. *)
LEMMA ByPathRight ==
  ASSUME TypeInv, Fits, NEW turned \in BOOLEAN, Opened(turned), NEW key \in Seq(Nat)
  PROVE  PathAnswer(key)
<1>1. PICK names \in Seq(Named) : names = Names
  BY NamesDistinct
<1>2. PICK n \in Nat : n = Len(names)
  BY LenProperties
<1>3. PICK r : Placed(archive.pathIdx, names, PathsOf(names), r, n)
  BY <1>1, <1>2, IndicesPlaced
<1>4. PICK records : records = archive.pathIdx
  OBVIOUS
<1>5. PICK p : p = SearchIndexFor(records, key)
  OBVIOUS
<1>6. PICK ofPath : ofPath = {k \in ToSet(Names) : k.path = key}
  OBVIOUS
<1>7. Ordered(records, n) /\ r \in [1 .. n -> 1 .. n]
      /\ \A k \in 1 .. n : records[k].id = names[r[k]].id /\ records[k].key = names[r[k]].path
  <2>1. \A k \in 1 .. n : PathsOf(names)[k] = names[k].path
    BY <1>2, KeysOfNames
  <2> QED BY <1>3, <1>4, <2>1 DEF Placed
<1>8. (p = 0 /\ \A i \in 1 .. n : records[i].key # key) \/ (p \in 1 .. n /\ records[p].key = key)
  BY <1>5, <1>7, SearchFinds
<1>9. CASE p = 0 /\ \A i \in 1 .. n : records[i].key # key
  <2>1. EntryByPath(archive, key) = Missing
    BY <1>4, <1>5, <1>9 DEF EntryByPath
  <2>2. ASSUME NEW k \in ToSet(Names), k.path = key PROVE FALSE
    <3>1. PICK i \in 1 .. n : k = names[i]
      BY <1>1, <1>2, NamesDistinct
    <3>2. PICK l \in 1 .. n : r[l] = i
      BY <1>3 DEF Placed
    <3> QED BY <1>7, <1>9, <2>2, <3>1, <3>2
  <2>3. ofPath = {}
    BY <1>6, <2>2
  <2> QED BY <1>6, <2>1, <2>3 DEF PathAnswer
<1>10. CASE p \in 1 .. n /\ records[p].key = key
  <2>1. PICK i \in 1 .. n : i = r[p]
    BY <1>7, <1>10
  <2>2. PICK x \in Ids : x = names[i].id /\ x = records[p].id
    BY <1>1, <1>2, <1>7, <1>10, <2>1, NamesDistinct
  <2>3. names[i] \in ofPath
    BY <1>1, <1>2, <1>6, <1>7, <1>10, <2>1, NamesDistinct
  <2>4. PICK e : e = EntryByPath(archive, key)
    OBVIOUS
  <2>5. e = EntryFromPath(archive, records[p])
    <3>1. p # 0
      BY <1>10
    <3> QED BY <1>4, <1>5, <2>4, <3>1 DEF EntryByPath
  <2>6. e = IF EntryByID(archive, x) = Missing THEN Missing
            ELSE [EntryByID(archive, x) EXCEPT !.path = key]
    BY <1>10, <2>2, <2>5 DEF EntryFromPath
  <2>7. CASE x \in unparsable
    <3>1. e = Missing
      BY <2>6, <2>7, EntryRecord
    <3> QED BY <1>6, <2>2, <2>3, <2>4, <2>7, <3>1 DEF PathAnswer
  <2>8. CASE x \notin unparsable
    <3>1. PICK type, front, target :
            EntryByID(archive, x) = [id |-> x, path |-> NameOf(archive.idToPath, x),
                                     title |-> NameOf(archive.idToTitle, x),
                                     mime |-> type, front |-> front, target |-> target]
      BY <2>8, EntryRecord
    <3>2. EntryByID(archive, x) # Missing
      <4>1. EntryByID(archive, x).id = x /\ x \in Nat
        BY <2>8, EntryRecord, EntryOfID
      <4> QED BY <4>1, NoRedirect
    <3>3. e.id = x /\ e.title = NameOf(archive.idToTitle, x)
      BY <2>6, <3>1, <3>2
    <3>4. e # Missing
      BY <3>3, EntryRecord, NoRedirect
    <3>5. NameOf(archive.idToTitle, x) = names[i].title
      BY <1>1, <1>2, <2>2, IndicesPlaced
    <3> QED BY <1>6, <2>2, <2>3, <2>4, <3>3, <3>4, <3>5 DEF PathAnswer
  <2> QED BY <2>7, <2>8
<1> QED BY <1>8, <1>9, <1>10

(* EntryByTitle is right. *)
LEMMA ByTitleRight ==
  ASSUME TypeInv, Fits, NEW turned \in BOOLEAN, Opened(turned), NEW key \in Seq(Nat)
  PROVE  TitleAnswer(key)
<1>1. PICK names \in Seq(Named) : names = Names
  BY NamesDistinct
<1>2. PICK n \in Nat : n = Len(names)
  BY LenProperties
<1>3. PICK r : Placed(archive.titleIdx, names, TitlesOf(names), r, n)
  BY <1>1, <1>2, IndicesPlaced
<1>4. PICK records : records = archive.titleIdx
  OBVIOUS
<1>5. PICK p : p = SearchIndexFor(records, key)
  OBVIOUS
<1>6. PICK ofTitle : ofTitle = {k \in ToSet(Names) : k.title = key}
  OBVIOUS
<1>7. Ordered(records, n) /\ r \in [1 .. n -> 1 .. n]
      /\ \A k \in 1 .. n : records[k].id = names[r[k]].id /\ records[k].key = names[r[k]].title
  <2>1. \A k \in 1 .. n : TitlesOf(names)[k] = names[k].title
    BY <1>2, KeysOfNames
  <2> QED BY <1>3, <1>4, <2>1 DEF Placed
<1>8. (p = 0 /\ \A i \in 1 .. n : records[i].key # key) \/ (p \in 1 .. n /\ records[p].key = key)
  BY <1>5, <1>7, SearchFinds
<1>9. CASE p = 0 /\ \A i \in 1 .. n : records[i].key # key
  <2>1. EntryByTitle(archive, key) = Missing
    BY <1>4, <1>5, <1>9 DEF EntryByTitle
  <2>2. ASSUME NEW k \in ToSet(Names), k.title = key PROVE FALSE
    <3>1. PICK i \in 1 .. n : k = names[i]
      BY <1>1, <1>2, NamesDistinct
    <3>2. PICK l \in 1 .. n : r[l] = i
      BY <1>3 DEF Placed
    <3> QED BY <1>7, <1>9, <2>2, <3>1, <3>2
  <2>3. ofTitle = {}
    BY <1>6, <2>2
  <2> QED BY <1>6, <2>1, <2>3 DEF TitleAnswer
<1>10. CASE p \in 1 .. n /\ records[p].key = key
  <2>1. PICK i \in 1 .. n : i = r[p]
    BY <1>7, <1>10
  <2>2. PICK x \in Ids : x = names[i].id /\ x = records[p].id
    BY <1>1, <1>2, <1>7, <1>10, <2>1, NamesDistinct
  <2>3. names[i] \in ofTitle
    BY <1>1, <1>2, <1>6, <1>7, <1>10, <2>1, NamesDistinct
  <2>4. PICK e : e = EntryByTitle(archive, key)
    OBVIOUS
  <2>5. e = EntryFromTitle(archive, records[p])
    <3>1. p # 0
      BY <1>10
    <3> QED BY <1>4, <1>5, <2>4, <3>1 DEF EntryByTitle
  <2>6. e = IF EntryByID(archive, x) = Missing THEN Missing
            ELSE [EntryByID(archive, x) EXCEPT !.title = key]
    BY <1>10, <2>2, <2>5 DEF EntryFromTitle
  <2>7. CASE x \in unparsable
    <3>1. e = Missing
      BY <2>6, <2>7, EntryRecord
    <3> QED BY <1>6, <2>2, <2>3, <2>4, <2>7, <3>1 DEF TitleAnswer
  <2>8. CASE x \notin unparsable
    <3>1. PICK type, front, target :
            EntryByID(archive, x) = [id |-> x, path |-> NameOf(archive.idToPath, x),
                                     title |-> NameOf(archive.idToTitle, x),
                                     mime |-> type, front |-> front, target |-> target]
      BY <2>8, EntryRecord
    <3>2. EntryByID(archive, x) # Missing
      <4>1. EntryByID(archive, x).id = x /\ x \in Nat
        BY <2>8, EntryRecord, EntryOfID
      <4> QED BY <4>1, NoRedirect
    <3>3. e.id = x /\ e.path = NameOf(archive.idToPath, x)
      BY <2>6, <3>1, <3>2
    <3>4. e # Missing
      BY <3>3, EntryRecord, NoRedirect
    <3>5. NameOf(archive.idToPath, x) = names[i].path
      BY <1>1, <1>2, <2>2, IndicesPlaced
    <3> QED BY <1>6, <2>2, <2>3, <2>4, <3>3, <3>4, <3>5 DEF TitleAnswer
  <2> QED BY <2>7, <2>8
<1> QED BY <1>8, <1>9, <1>10

(* A key without its last byte, and one with one more, is a key. *)
LEMMA FrontIsKey ==
  ASSUME NEW s \in Seq(Nat)
  PROVE  Front(s) \in Seq(Nat) /\ Append(s, 0) \in Seq(Nat)
<1>1. PICK c \in Nat : c = Len(s)
  BY LenProperties
<1>2. PICK b \in Int : b = c - 1
  OBVIOUS
<1>3. 1 \in Int /\ \A i \in 1 .. b : s[i] \in Nat
  BY <1>1, <1>2, LenProperties
<1>4. SubSeq(s, 1, b) \in Seq(Nat)
  BY <1>3, SubSeqProperties
<1> QED BY <1>1, <1>2, <1>4 DEF Front

(* In any open archive whose entries fit, a lookup by path or by title    *)
(* answers with what was added under it, and misses nothing, however many *)
(* records share a block and a prefix.                                    *)
THEOREM LookupRightAlways == Spec => []LookupRight
<1>1. ASSUME IInv, phase = "open", Fits, NEW n \in ToSet(Names)
      PROVE  /\ \A key \in {n.path, n.title, Append(n.path, 0), Front(n.path)} :
                  PathAnswer(key) /\ TitleAnswer(key)
             /\ n.id \notin unparsable =>
                  LET e == EntryByID(archive, n.id)
                  IN  e.id = n.id /\ e.path = n.path /\ e.title = n.title
  <2>1. PICK turned \in BOOLEAN : Opened(turned)
    BY <1>1, OpenedFacts
  <2>2. TypeInv
    BY <1>1 DEF IInv
  <2>3. PICK i \in 1 .. Len(Names) : n = Names[i]
    BY <2>2, NamesDistinct
  <2>4. n \in Named /\ n.id \in Ids
    BY <2>2, <2>3, NamesDistinct, LenProperties
  <2>5. n.path \in Seq(Nat) /\ n.title \in Seq(Nat)
    BY <2>4 DEF Named
  <2>6. ASSUME NEW key \in {n.path, n.title, Append(n.path, 0), Front(n.path)}
        PROVE  PathAnswer(key) /\ TitleAnswer(key)
    <3>1. key \in Seq(Nat)
      BY <2>5, FrontIsKey
    <3> QED BY <1>1, <2>1, <2>2, <3>1, ByPathRight, ByTitleRight
  <2>7. ASSUME n.id \notin unparsable
        PROVE  LET e == EntryByID(archive, n.id)
               IN  e.id = n.id /\ e.path = n.path /\ e.title = n.title
    <3>1. n.id \in Ids \ unparsable
      BY <2>4, <2>7
    <3>2. /\ EntryByID(archive, n.id).id = n.id
          /\ EntryByID(archive, n.id).path = NameOf(archive.idToPath, n.id)
          /\ EntryByID(archive, n.id).title = NameOf(archive.idToTitle, n.id)
      BY <1>1, <2>1, <2>2, <3>1, EntryOfID
    <3>3. NameOf(archive.idToPath, n.id) = n.path /\ NameOf(archive.idToTitle, n.id) = n.title
      BY <2>1, <2>2, <2>3, IndicesPlaced
    <3> QED BY <3>2, <3>3
  <2> QED BY <2>6, <2>7
<1>2. IInv => LookupRight
  BY <1>1, Zenon DEF LookupRight, PathAnswer, TitleAnswer
<1> QED BY <1>2, IInvAlways, PTL

(*****************************************************************************)
(* Numbers chosen from a sequence                                            *)
(*****************************************************************************)
(* A set of numbers in their order.                                          *)
NumbersOf(S) == Sorted(S, <)

(* u is the set S of numbers, in their order. *)
Enumerates(u, S, n) ==
  /\ n = Cardinality(S) /\ u \in [1 .. n -> S]
  /\ \A x \in S : \E i \in 1 .. n : u[i] = x
  /\ \A i, j \in 1 .. n : i < j => u[i] < u[j]

(* Every finite set of numbers is enumerated so. *)
LEMMA NumbersEnumerated ==
  ASSUME NEW S \in SUBSET Nat, IsFiniteSet(S)
  PROVE  \E n \in Nat : Enumerates(NumbersOf(S), S, n) /\ Len(NumbersOf(S)) = n
<1>1. PICK u : u = NumbersOf(S)
  OBVIOUS
<1>2. S \in SUBSET Int
  OBVIOUS
<1>3. Increasing(NumbersOf(S), S)
  BY <1>2, SortedNumbers, Zenon DEF NumbersOf
<1>4. Increasing(u, S)
  BY <1>1, <1>3
<1>5. PICK n \in Nat : n = Cardinality(S)
  BY FS_CardinalityType
<1>6. /\ Len(u) = n /\ \A x \in S : \E i \in 1 .. Len(u) : u[i] = x
      /\ \A i, j \in 1 .. Len(u) : i < j => u[i] < u[j]
  BY <1>2, <1>4, <1>5, IncreasingFacts
<1>7. u \in [1 .. n -> S]
  BY <1>4, <1>5 DEF Increasing
<1> QED BY <1>1, <1>5, <1>6, <1>7 DEF Enumerates

(* The numbers of I up to c. *)
UpTo(I, c, J) == J = {i \in I : i <= c}

(* Cutting a set of numbers cuts its enumeration. *)
LEMMA EnumerationCut ==
  ASSUME NEW I \in SUBSET Nat, IsFiniteSet(I), NEW c \in Nat, NEW J, UpTo(I, c, J),
         NEW v, NEW n \in Nat, Enumerates(v, I, n), NEW u, NEW m \in Nat, Enumerates(u, J, m)
  PROVE  m <= n /\ \A k \in 1 .. m : u[k] = v[k]
<1>0. J = {i \in I : i <= c}
  BY DEF UpTo
<1>1. m <= n
  <2>1. J \in SUBSET I
    BY <1>0
  <2>2. Cardinality(J) <= Cardinality(I)
    BY <2>1, FS_Subset
  <2> QED BY <2>2 DEF Enumerates
<1>2. ASSUME NEW w, NEW S \in SUBSET Nat, NEW l \in Nat, Enumerates(w, S, l),
             NEW i \in 1 .. l, NEW j \in 1 .. l, w[i] <= w[j]
      PROVE  i <= j
  <2>1. w[i] \in Nat /\ w[j] \in Nat
    BY <1>2 DEF Enumerates
  <2>2. i > j => w[j] < w[i]
    BY <1>2 DEF Enumerates
  <2>3. ~(i > j)
    BY <1>2, <2>1, <2>2
  <2> QED BY <2>3
<1>3. J \in SUBSET Nat
  BY <1>0
<1> DEFINE Off == {k \in 1 .. m : u[k] # v[k]}
<1>4. ASSUME Off # {} PROVE FALSE
  <2>1. PICK k \in Off : \A y \in Off : k <= y
    <3>1. Off \in SUBSET Nat
      OBVIOUS
    <3> HIDE DEF Off
    <3> QED BY <1>4, <3>1, LeastElement
  <2>2. k \in 1 .. m /\ k \in 1 .. n /\ u[k] # v[k]
    BY <1>1, <2>1
  <2>3. \A i \in 1 .. m : i < k => u[i] = v[i]
    BY <2>1
  <2> HIDE DEF Off
  <2>4. u[k] \in J /\ u[k] \in I /\ u[k] <= c /\ v[k] \in I /\ u[k] \in Nat /\ v[k] \in Nat
    <3>1. u[k] \in J /\ v[k] \in I
      BY <2>2 DEF Enumerates
    <3> QED BY <1>0, <3>1
  <2>5. v[k] <= u[k]
    <3>1. PICK l \in 1 .. n : v[l] = u[k]
      BY <2>4 DEF Enumerates
    <3>2. CASE l < k
      <4>1. l \in 1 .. m /\ u[l] = v[l]
        BY <2>2, <2>3, <3>2
      <4>2. u[l] < u[k]
        BY <2>2, <3>2, <4>1 DEF Enumerates
      <4> QED BY <2>4, <3>1, <4>1, <4>2
    <3>3. CASE l >= k
      <4>1. l = k \/ k < l
        BY <2>2, <3>3
      <4>2. k < l => v[k] < v[l]
        BY <2>2 DEF Enumerates
      <4> QED BY <2>4, <3>1, <4>1, <4>2
    <3> QED BY <2>2, <3>2, <3>3
  <2>6. v[k] \in J
    BY <1>0, <2>4, <2>5
  <2>7. PICK i \in 1 .. m : u[i] = v[k]
    BY <2>6 DEF Enumerates
  <2>8. i >= k
    <3>1. ASSUME i < k PROVE FALSE
      <4>1. v[i] = v[k] /\ i \in 1 .. n
        BY <1>1, <2>3, <2>7, <3>1
      <4>2. v[i] < v[k]
        BY <2>2, <3>1, <4>1 DEF Enumerates
      <4> QED BY <2>4, <4>1, <4>2
    <3> QED BY <2>2, <3>1
  <2>9. u[k] <= u[i]
    <3>1. i = k \/ k < i
      BY <2>2, <2>8
    <3>2. k < i => u[k] < u[i]
      BY <2>2 DEF Enumerates
    <3>3. u[i] \in Nat
      BY <2>4, <2>7
    <3> QED BY <2>4, <3>1, <3>2, <3>3
  <2> QED BY <2>2, <2>4, <2>5, <2>7, <2>9
<1> QED BY <1>1, <1>4

-----------------------------------------------------------------------------
(* The elements of s at the places I. *)
Chosen(s, I) == [k \in 1 .. Len(NumbersOf(I)) |-> s[NumbersOf(I)[k]]]
(* The places whose entries parse. *)
Readable(a, s) == {i \in 1 .. Len(s) : EntryByID(a, s[i]) # Missing}

(*****************************************************************************)
(* What a search shows                                                       *)
(*****************************************************************************)
(* The matches as they are ranked: those of the title first.                 *)
RankedMatches(T, B) == NumbersOf(T) \o NumbersOf(B \ T)
(* No more than the limit. *)
CutAt(s, limit) == SubSeq(s, 1, Min({limit, Len(s)}))

(* What is left of the matches that do not parse. *)
LEMMA WhereReadable ==
  ASSUME NEW a, NEW s
  PROVE  Where(s, LAMBDA id : EntryByID(a, id) # Missing) = Chosen(s, Readable(a, s))
BY Zenon DEF Where, Chosen, Readable, NumbersOf

(* What a search shows, as the numbers of the ranked matches it keeps. *)
LEMMA ShownIs ==
  ASSUME NEW a, NEW T, NEW B, NEW limit
  PROVE  SearchTwoTier(a, T, B, limit, FALSE)
           = Chosen(CutAt(RankedMatches(T, B), limit), Readable(a, CutAt(RankedMatches(T, B), limit)))
<1>1. PICK r : r = RankedMatches(T, B)
  OBVIOUS
<1>2. SearchTwoTier(a, T, B, limit, FALSE) = Where(CutAt(r, limit), LAMBDA id : EntryByID(a, id) # Missing)
  BY <1>1, Zenon DEF SearchTwoTier, RankedMatches, NumbersOf, CutAt
<1> QED BY <1>1, <1>2, WhereReadable, Zenon

(* w is every match once, the t of T first. *)
RankedAs(w, T, B, t, n) ==
  /\ t <= n /\ w \in Seq(Nat) /\ Len(w) = n
  /\ \A i \in 1 .. n : (i <= t /\ w[i] \in T) \/ (i > t /\ w[i] \in B \ T)
  /\ \A x \in T \union B : \E i \in 1 .. n : w[i] = x
  /\ \A i, j \in 1 .. n : w[i] = w[j] => i = j

(* The ranked matches are every match once, those of the title first. *)
LEMMA RankedRight ==
  ASSUME NEW m \in Nat, NEW T \in SUBSET (0 .. m - 1), NEW B \in SUBSET (0 .. m - 1)
  PROVE  \E t \in Nat, n \in Nat : n <= m /\ RankedAs(RankedMatches(T, B), T, B, t, n)
<1>1. PICK C : C = B \ T
  OBVIOUS
<1>2. PICK a \in Int, b \in Int : a = 0 /\ b = m - 1
  OBVIOUS
<1>3. IsFiniteSet(a .. b) /\ Cardinality(a .. b) = m
  <2>1. IsFiniteSet(a .. b) /\ Cardinality(a .. b) = IF a > b THEN 0 ELSE b - a + 1
    BY FS_Interval
  <2> QED BY <1>2, <2>1
<1>4. T \in SUBSET (a .. b) /\ C \in SUBSET (a .. b) /\ T \union C \in SUBSET (a .. b)
  BY <1>1, <1>2
<1>5. IsFiniteSet(T) /\ IsFiniteSet(C) /\ Cardinality(T \union C) <= m
  BY <1>3, <1>4, FS_Subset
<1>6. T \in SUBSET Nat /\ C \in SUBSET Nat
  BY <1>1
<1>7. PICK t \in Nat : Enumerates(NumbersOf(T), T, t) /\ Len(NumbersOf(T)) = t
  BY <1>5, <1>6, NumbersEnumerated
<1>8. PICK c \in Nat : Enumerates(NumbersOf(C), C, c) /\ Len(NumbersOf(C)) = c
  BY <1>5, <1>6, NumbersEnumerated
<1>9. PICK n \in Nat : n = t + c
  <2>1. t + c \in Nat
    OBVIOUS
  <2> QED BY <2>1
<1>10. n <= m
  <2>1. T \intersect C = {}
    BY <1>1
  <2>2. Cardinality(T \union C) = Cardinality(T) + Cardinality(C) - Cardinality(T \intersect C)
    BY <1>5, FS_Union
  <2>3. Cardinality(T \intersect C) = 0
    BY <2>1, FS_EmptySet
  <2>4. Cardinality(T) = t /\ Cardinality(C) = c
    BY <1>7, <1>8 DEF Enumerates
  <2> QED BY <1>5, <1>9, <2>2, <2>3, <2>4
<1>11. PICK u, v : u = NumbersOf(T) /\ v = NumbersOf(C)
  OBVIOUS
<1>12. u \in [1 .. t -> Nat] /\ v \in [1 .. c -> Nat]
  BY <1>6, <1>7, <1>8, <1>11 DEF Enumerates
<1>13. u \in Seq(Nat) /\ Len(u) = t
  BY <1>12
<1>14. v \in Seq(Nat) /\ Len(v) = c
  BY <1>12
<1>15. PICK w : w = u \o v
  OBVIOUS
<1>16. /\ w \in Seq(Nat) /\ Len(w) = n
       /\ \A i \in 1 .. t : w[i] = u[i]
       /\ \A i \in 1 .. c : w[t + i] = v[i]
  <2>1. PICK x \in Seq(Nat), y \in Seq(Nat) : x = u /\ y = v
    BY <1>13, <1>14
  <2>2. /\ x \o y \in Seq(Nat) /\ Len(x \o y) = Len(x) + Len(y)
        /\ \A i \in 1 .. Len(x) : (x \o y)[i] = x[i]
        /\ \A i \in 1 .. Len(y) : (x \o y)[Len(x) + i] = y[i]
    BY ConcatFacts
  <2> QED BY <1>9, <1>13, <1>14, <1>15, <2>1, <2>2
<1>17. ASSUME NEW i \in 1 .. n
       PROVE  \/ i <= t /\ i \in 1 .. t /\ w[i] = u[i] /\ w[i] \in T
              \/ i > t /\ i - t \in 1 .. c /\ w[i] = v[i - t] /\ w[i] \in C
  <2>1. CASE i <= t
    <3>1. i \in 1 .. t
      BY <2>1
    <3>2. w[i] = u[i] /\ u[i] \in T
      BY <1>7, <1>11, <1>16, <3>1 DEF Enumerates
    <3> QED BY <2>1, <3>1, <3>2
  <2>2. CASE i > t
    <3>1. i - t \in 1 .. c /\ t + (i - t) = i
      BY <1>9, <2>2
    <3>2. w[t + (i - t)] = v[i - t] /\ v[i - t] \in C
      BY <1>8, <1>11, <1>16, <3>1 DEF Enumerates
    <3> QED BY <2>2, <3>1, <3>2
  <2> QED BY <2>1, <2>2
<1>18. ASSUME NEW x \in T \union B PROVE \E i \in 1 .. n : w[i] = x
  <2>1. CASE x \in T
    <3>1. PICK i \in 1 .. t : u[i] = x
      BY <1>7, <1>11, <2>1 DEF Enumerates
    <3>2. i \in 1 .. n
      BY <1>9
    <3> QED BY <1>16, <3>1, <3>2
  <2>2. CASE x \in C
    <3>1. PICK i \in 1 .. c : v[i] = x
      BY <1>8, <1>11, <2>2 DEF Enumerates
    <3>2. t + i \in 1 .. n
      BY <1>9
    <3> QED BY <1>16, <3>1, <3>2
  <2> QED BY <1>1, <2>1, <2>2
<1>19. ASSUME NEW S \in SUBSET Nat, NEW f, NEW l \in Nat, Enumerates(f, S, l),
              NEW i \in 1 .. l, NEW j \in 1 .. l, f[i] = f[j]
       PROVE  i = j
  <2>1. f[i] \in Nat /\ f[j] \in Nat
    BY <1>19 DEF Enumerates
  <2>2. (i < j => f[i] < f[j]) /\ (j < i => f[j] < f[i])
    BY <1>19 DEF Enumerates
  <2>3. ~(i < j) /\ ~(j < i)
    BY <1>19, <2>1, <2>2
  <2> QED BY <2>3
<1>20. ASSUME NEW i \in 1 .. n, NEW j \in 1 .. n, w[i] = w[j] PROVE i = j
  <2>1. \/ i <= t /\ i \in 1 .. t /\ w[i] = u[i] /\ w[i] \in T
        \/ i > t /\ i - t \in 1 .. c /\ w[i] = v[i - t] /\ w[i] \in C
    BY <1>17
  <2>2. \/ j <= t /\ j \in 1 .. t /\ w[j] = u[j] /\ w[j] \in T
        \/ j > t /\ j - t \in 1 .. c /\ w[j] = v[j - t] /\ w[j] \in C
    BY <1>17
  <2>3. CASE i <= t /\ j <= t
    <3>1. i \in 1 .. t /\ j \in 1 .. t /\ u[i] = u[j]
      BY <1>20, <2>1, <2>2, <2>3
    <3> QED BY <1>6, <1>7, <1>11, <1>19, <3>1
  <2>4. CASE i > t /\ j > t
    <3>1. i - t \in 1 .. c /\ j - t \in 1 .. c /\ v[i - t] = v[j - t]
      BY <1>20, <2>1, <2>2, <2>4
    <3>2. i - t = j - t
      BY <1>6, <1>8, <1>11, <1>19, <3>1
    <3> QED BY <3>2
  <2>5. CASE (i <= t /\ j > t) \/ (i > t /\ j <= t)
    BY <1>1, <1>20, <2>1, <2>2, <2>5
  <2>6. (i <= t \/ i > t) /\ (j <= t \/ j > t)
    OBVIOUS
  <2> QED BY <2>3, <2>4, <2>5, <2>6
<1>21. w = RankedMatches(T, B)
  BY <1>1, <1>11, <1>15 DEF RankedMatches
<1>22. t <= n
  BY <1>9
<1>23. RankedAs(w, T, B, t, n)
  BY <1>1, <1>16, <1>17, <1>18, <1>20, <1>22 DEF RankedAs
<1> QED BY <1>10, <1>21, <1>23

(* What a search shows has an element for each number it keeps. *)
LEMMA ChosenFacts ==
  ASSUME NEW s, NEW I \in SUBSET Nat, IsFiniteSet(I)
  PROVE  \E n \in Nat : \E u : Enumerates(u, I, n) /\ u = NumbersOf(I)
                           /\ Chosen(s, I) = [k \in 1 .. n |-> s[u[k]]] /\ Len(Chosen(s, I)) = n
<1>1. PICK n \in Nat : Enumerates(NumbersOf(I), I, n) /\ Len(NumbersOf(I)) = n
  BY NumbersEnumerated
<1>2. PICK u : u = NumbersOf(I)
  OBVIOUS
<1>3. PICK f : f = Chosen(s, I)
  OBVIOUS
<1>4. f = [k \in 1 .. n |-> s[u[k]]]
  BY <1>1, <1>2, <1>3 DEF Chosen
<1>5. Len(f) = n
  BY <1>4
<1> QED BY <1>1, <1>2, <1>3, <1>4, <1>5

(* A sequence whose elements all differ is as long as they are many. *)
LEMMA DistinctCount ==
  ASSUME NEW A, NEW s \in Seq(A), \A i, j \in 1 .. Len(s) : s[i] = s[j] => i = j
  PROVE  Cardinality(ToSet(s)) = Len(s)
<1>1. PICK n \in Nat : n = Len(s)
  BY LenProperties
<1>2. PICK S : S = ToSet(s)
  OBVIOUS
<1>3. S = {s[i] : i \in 1 .. n}
  BY <1>1, <1>2 DEF ToSet
<1>4. PICK f : f = [i \in 1 .. n |-> s[i]]
  OBVIOUS
<1>5. f \in [1 .. n -> S] /\ \A i \in 1 .. n : f[i] = s[i]
  BY <1>3, <1>4
<1>6. f \in Bijection(1 .. n, S)
  <2>1. \A x \in S : \E i \in 1 .. n : f[i] = x
    BY <1>3, <1>5
  <2>2. \A i, j \in 1 .. n : f[i] = f[j] => i = j
    BY <1>1, <1>5
  <2>3. f \in Injection(1 .. n, S)
    BY <1>5, <2>2 DEF Injection, IsInjective
  <2>4. f \in Surjection(1 .. n, S)
    BY <1>5, <2>1 DEF Surjection
  <2> QED BY <2>3, <2>4 DEF Bijection
<1>7. ExistsBijection(1 .. n, S)
  BY <1>6 DEF ExistsBijection
<1>8. PICK a \in Int, b \in Int : a = 1 /\ b = n
  OBVIOUS
<1>9. IsFiniteSet(a .. b) /\ Cardinality(a .. b) = n
  <2>1. IsFiniteSet(a .. b) /\ Cardinality(a .. b) = IF a > b THEN 0 ELSE b - a + 1
    BY FS_Interval
  <2> QED BY <1>8, <2>1
<1>10. Cardinality(S) = n
  BY <1>7, <1>8, <1>9, FS_Bijection
<1> QED BY <1>1, <1>2, <1>10

(* What is shown of the ranked matches w when they are cut at limit. *)
Shows(shown, w, I, c, v, l) ==
  /\ Enumerates(v, {i \in I : i <= c}, l) /\ shown = [k \in 1 .. l |-> w[v[k]]]

(* The cut, in numbers. *)
CutOf(a, w, n, limit, c, I) == n = Len(w) /\ c = Min({limit, n}) /\ I = Readable(a, w)

(* A search shows the matches that parse among those before the cut, in *)
(* their order.                                                         *)
LEMMA ShownRight ==
  ASSUME NEW a, NEW w \in Seq(Nat), NEW n \in Nat, NEW limit \in Nat, NEW c \in Nat, NEW I,
         CutOf(a, w, n, limit, c, I)
  PROVE  \E l \in Nat : \E v :
           Shows(Chosen(CutAt(w, limit), Readable(a, CutAt(w, limit))), w, I, c, v, l)
<1>0. n = Len(w) /\ c = Min({limit, n}) /\ I = Readable(a, w)
  BY DEF CutOf
<1>1. c <= n
  BY <1>0, MinOfTwo
<1>2. PICK s : s = CutAt(w, limit)
  OBVIOUS
<1>3. s \in Seq(Nat) /\ Len(s) = c /\ \A j \in 1 .. c : s[j] = w[j]
  <2>1. PICK x : x = SubSeq(w, 0 + 1, 0 + c)
    OBVIOUS
  <2>2. x \in Seq(Nat) /\ Len(x) = c /\ \A j \in 1 .. c : x[j] = w[0 + j]
    <3>1. 0 + c <= Len(w) /\ 0 \in Nat
      BY <1>0, <1>1
    <3>2. /\ SubSeq(w, 0 + 1, 0 + c) \in Seq(Nat) /\ Len(SubSeq(w, 0 + 1, 0 + c)) = c
          /\ \A j \in 1 .. c : SubSeq(w, 0 + 1, 0 + c)[j] = w[0 + j]
      BY <3>1, Slice
    <3> QED BY <2>1, <3>2
  <2>3. 0 + 1 = 1 /\ 0 + c = c /\ \A j \in 1 .. c : 0 + j = j
    OBVIOUS
  <2>4. s = x
    BY <1>0, <1>2, <2>1, <2>3 DEF CutAt
  <2> QED BY <2>2, <2>3, <2>4
<1>4. PICK J : J = Readable(a, s)
  OBVIOUS
<1>5. J = {i \in I : i <= c}
  <2>1. J = {i \in 1 .. c : EntryByID(a, s[i]) # Missing}
    BY <1>3, <1>4 DEF Readable
  <2>2. I = {i \in 1 .. n : EntryByID(a, w[i]) # Missing}
    BY <1>0 DEF Readable
  <2>3. ASSUME NEW i \in J PROVE i \in I /\ i <= c
    <3>1. i \in 1 .. c /\ EntryByID(a, s[i]) # Missing
      BY <2>1
    <3>2. i \in 1 .. n /\ i <= c /\ s[i] = w[i]
      BY <1>1, <1>3, <3>1
    <3> QED BY <2>2, <3>1, <3>2
  <2>4. ASSUME NEW i \in I, i <= c PROVE i \in J
    <3>1. i \in 1 .. n /\ EntryByID(a, w[i]) # Missing
      BY <2>2
    <3>2. i \in 1 .. c /\ s[i] = w[i]
      BY <1>3, <2>4, <3>1
    <3> QED BY <2>1, <3>1, <3>2
  <2> QED BY <2>3, <2>4
<1>6. J \in SUBSET Nat /\ IsFiniteSet(J)
  <2>1. J \in SUBSET (1 .. c)
    BY <1>3, <1>4 DEF Readable
  <2>2. IsFiniteSet(1 .. c)
    BY FS_Interval
  <2>3. J \in SUBSET Nat
    BY <2>1
  <2> QED BY <2>1, <2>2, <2>3, FS_Subset
<1>7. PICK l \in Nat : \E v : Enumerates(v, J, l) /\ v = NumbersOf(J)
                             /\ Chosen(s, J) = [k \in 1 .. l |-> s[v[k]]] /\ Len(Chosen(s, J)) = l
  BY <1>6, ChosenFacts
<1>8. PICK v : Enumerates(v, J, l) /\ Chosen(s, J) = [k \in 1 .. l |-> s[v[k]]]
  BY <1>7
<1>9. \A k \in 1 .. l : s[v[k]] = w[v[k]]
  <2>1. \A k \in 1 .. l : v[k] \in 1 .. c
    BY <1>3, <1>4, <1>8 DEF Enumerates, Readable
  <2> QED BY <1>3, <2>1
<1>10. Chosen(s, J) = [k \in 1 .. l |-> w[v[k]]]
  BY <1>8, <1>9
<1>11. Shows(Chosen(s, J), w, I, c, v, l)
  BY <1>5, <1>8, <1>10 DEF Shows
<1> QED BY <1>2, <1>4, <1>11

(* All the results of a search, and what is shown for each limit. *)
Searches(m, T, B, shown, all) ==
  /\ m = Len(entries) /\ all = shown[m]
  /\ shown = [limit \in 0 .. m |-> SearchTwoTier(archive, T, B, limit, FALSE)]

(* What SearchRanks says of it. *)
ShowsRight(m, T, B, shown, all) ==
  /\ ToSet(all) = (T \union B) \ unparsable
  /\ Len(all) = Cardinality(ToSet(all))
  /\ \A i, j \in 1 .. Len(all) : all[i] \notin T /\ all[j] \in T => j < i
  /\ \A limit \in 1 .. m : IsPrefix(shown[limit], all)

(* A search shows what it should. *)
LEMMA SearchShows ==
  ASSUME TypeInv, Fits, NEW turned, Opened(turned), NEW m \in Nat,
         NEW T \in SUBSET (0 .. m - 1), NEW B \in SUBSET (0 .. m - 1),
         NEW shown, NEW all, Searches(m, T, B, shown, all)
  PROVE  ShowsRight(m, T, B, shown, all)
<1>1. m \in Nat /\ 0 .. m - 1 \subseteq Ids
  BY IdsAre DEF Searches
<1>2. PICK w : w = RankedMatches(T, B)
  OBVIOUS
<1>3. PICK t \in Nat, n \in Nat : n <= m /\ RankedAs(w, T, B, t, n)
  BY <1>1, <1>2, RankedRight
<1>4. w \in Seq(Nat) /\ Len(w) = n
  BY <1>3 DEF RankedAs
<1>5. PICK I : I = Readable(archive, w)
  OBVIOUS
<1>6. I \in SUBSET Nat /\ I \in SUBSET (1 .. n) /\ IsFiniteSet(I)
  <2>1. I \in SUBSET (1 .. n)
    BY <1>4, <1>5 DEF Readable
  <2>2. IsFiniteSet(1 .. n)
    BY FS_Interval
  <2>3. I \in SUBSET Nat
    BY <2>1
  <2> QED BY <2>1, <2>2, <2>3, FS_Subset
<1>7. ASSUME NEW limit \in 0 .. m, NEW c \in Nat, c = Min({limit, n})
      PROVE  \E l \in Nat : \E v : Shows(shown[limit], w, I, c, v, l)
  <2>1. limit \in Nat
    BY <1>1
  <2>2. shown[limit] = SearchTwoTier(archive, T, B, limit, FALSE)
    BY Zenon DEF Searches
  <2>3. SearchTwoTier(archive, T, B, limit, FALSE)
          = Chosen(CutAt(RankedMatches(T, B), limit), Readable(archive, CutAt(RankedMatches(T, B), limit)))
    BY ShownIs
  <2>4. shown[limit] = Chosen(CutAt(w, limit), Readable(archive, CutAt(w, limit)))
    BY <1>2, <2>2, <2>3, Zenon
  <2>5. CutOf(archive, w, n, limit, c, I)
    BY <1>4, <1>5, <1>7 DEF CutOf
  <2>6. \E l \in Nat : \E v :
          Shows(Chosen(CutAt(w, limit), Readable(archive, CutAt(w, limit))), w, I, c, v, l)
    BY <1>4, <2>1, <2>5, ShownRight
  <2> QED BY <2>4, <2>6
<1>8. Min({m, n}) = n
  <2>1. Min({m, n}) \in {m, n} /\ Min({m, n}) <= m /\ Min({m, n}) <= n
    BY <1>1, MinOfTwo
  <2> QED BY <1>1, <1>3, <2>1
<1>9. PICK p \in Nat : \E u : Shows(all, w, I, n, u, p)
  <2>1. m \in 0 .. m
    BY <1>1
  <2>2. all = shown[m]
    BY Zenon DEF Searches
  <2>3. PICK p \in Nat : \E u : Shows(shown[m], w, I, n, u, p)
    BY <1>3, <1>7, <1>8, <2>1
  <2> QED BY <2>2, <2>3
<1>10. PICK u : Shows(all, w, I, n, u, p)
  BY <1>9
<1>11. Enumerates(u, I, p) /\ all = [k \in 1 .. p |-> w[u[k]]]
  <2>1. {i \in I : i <= n} = I
    <3>1. ASSUME NEW i \in I PROVE i <= n
      <4>1. i \in 1 .. n
        BY <1>6
      <4> QED BY <4>1
    <3> QED BY <3>1
  <2> QED BY <1>10, <2>1 DEF Shows
<1>12. /\ \A k \in 1 .. p : u[k] \in I /\ u[k] \in 1 .. n /\ all[k] = w[u[k]]
       /\ \A i \in I : \E k \in 1 .. p : u[k] = i
       /\ \A i, j \in 1 .. p : i < j => u[i] < u[j]
  BY <1>6, <1>11 DEF Enumerates
<1>13. all \in Seq(Nat) /\ Len(all) = p
  <2>1. \A k \in 1 .. p : w[u[k]] \in Nat
    BY <1>4, <1>12, LenProperties
  <2>2. all \in [1 .. p -> Nat]
    BY <1>11, <2>1
  <2> QED BY <2>2
<1>14. ToSet(all) = {w[i] : i \in I}
  <2>1. ToSet(all) = {all[k] : k \in 1 .. p}
    BY <1>13 DEF ToSet
  <2>2. ASSUME NEW k \in 1 .. p PROVE all[k] \in {w[i] : i \in I}
    BY <1>12
  <2>3. ASSUME NEW i \in I PROVE w[i] \in {all[k] : k \in 1 .. p}
    BY <1>12
  <2> QED BY <2>1, <2>2, <2>3
<1>15. ASSUME NEW x \in 0 .. m - 1 PROVE EntryByID(archive, x) # Missing <=> x \notin unparsable
  <2>1. x \in Ids
    BY <1>1
  <2>2. x \in unparsable => EntryByID(archive, x) = Missing
    BY <2>1, EntryRecord
  <2>3. x \notin unparsable => EntryByID(archive, x).id = x /\ x \in Nat
    BY <2>1, EntryOfID
  <2> QED BY <2>2, <2>3, NoRedirect
<1>16. ToSet(all) = (T \union B) \ unparsable
  <2>1. I = {i \in 1 .. n : EntryByID(archive, w[i]) # Missing}
    BY <1>4, <1>5 DEF Readable
  <2>2. \A i \in 1 .. n : w[i] \in T \union B
    BY <1>3 DEF RankedAs
  <2>3. ASSUME NEW i \in I PROVE w[i] \in (T \union B) \ unparsable
    <3>1. i \in 1 .. n /\ EntryByID(archive, w[i]) # Missing
      BY <2>1
    <3>2. w[i] \in T \union B /\ w[i] \in 0 .. m - 1
      BY <2>2, <3>1
    <3> QED BY <1>15, <3>1, <3>2
  <2>4. ASSUME NEW x \in (T \union B) \ unparsable PROVE x \in {w[i] : i \in I}
    <3>1. PICK i \in 1 .. n : w[i] = x
      BY <1>3 DEF RankedAs
    <3>2. x \in 0 .. m - 1 /\ x \notin unparsable
      OBVIOUS
    <3>3. EntryByID(archive, w[i]) # Missing
      BY <1>15, <3>1, <3>2
    <3>4. i \in I
      BY <2>1, <3>3
    <3> QED BY <3>1, <3>4
  <2> QED BY <1>14, <2>3, <2>4
<1>17. ASSUME NEW i \in 1 .. p, NEW j \in 1 .. p, all[i] = all[j] PROVE i = j
  <2>1. w[u[i]] = w[u[j]] /\ u[i] \in 1 .. n /\ u[j] \in 1 .. n
    BY <1>12, <1>17
  <2>2. u[i] = u[j]
    BY <1>3, <2>1 DEF RankedAs
  <2>3. (i < j => u[i] < u[j]) /\ (j < i => u[j] < u[i])
    BY <1>12
  <2>4. ~(i < j) /\ ~(j < i)
    BY <2>1, <2>2, <2>3
  <2> QED BY <2>4
<1>18. Len(all) = Cardinality(ToSet(all))
  BY <1>13, <1>17, DistinctCount
<1>19. ASSUME NEW i \in 1 .. p, NEW j \in 1 .. p, all[i] \notin T, all[j] \in T PROVE j < i
  <2>1. PICK a \in 1 .. n, b \in 1 .. n : a = u[i] /\ b = u[j] /\ w[a] \notin T /\ w[b] \in T
    BY <1>12, <1>19
  <2>2. a > t /\ b <= t
    BY <1>3, <2>1 DEF RankedAs
  <2>3. i < j => a < b
    BY <1>12, <2>1
  <2>4. i = j => a = b
    BY <2>1
  <2>5. ~(i < j) /\ i # j
    BY <2>2, <2>3, <2>4
  <2> QED BY <2>5
<1>20. ASSUME NEW limit \in 1 .. m PROVE IsPrefix(shown[limit], all)
  <2>1. limit \in 0 .. m /\ limit \in Nat
    BY <1>1
  <2>2. PICK c \in Nat : c = Min({limit, n})
    BY <2>1, MinOfTwo
  <2>3. PICK l \in Nat : \E v : Shows(shown[limit], w, I, c, v, l)
    BY <1>7, <2>1, <2>2
  <2>4. PICK v : Shows(shown[limit], w, I, c, v, l)
    BY <2>3
  <2>5. PICK J, s : J = {i \in I : i <= c} /\ s = shown[limit]
    OBVIOUS
  <2>6. Enumerates(v, J, l) /\ s = [k \in 1 .. l |-> w[v[k]]]
    BY <2>4, <2>5 DEF Shows
  <2>14. UpTo(I, c, J)
    BY <2>5 DEF UpTo
  <2>7. l <= p /\ \A k \in 1 .. l : v[k] = u[k]
    BY <1>6, <1>11, <2>2, <2>6, <2>14, EnumerationCut
  <2>8. \A k \in 1 .. l : s[k] = all[k] /\ s[k] \in Nat
    <3>1. ASSUME NEW k \in 1 .. l PROVE s[k] = all[k] /\ s[k] \in Nat
      <4>1. k \in 1 .. p
        BY <2>7
      <4>2. s[k] = w[u[k]] /\ all[k] = w[u[k]] /\ u[k] \in 1 .. n
        BY <1>12, <2>6, <2>7, <4>1
      <4> QED BY <1>4, <4>2, LenProperties
    <3> QED BY <3>1
  <2>9. s \in [1 .. l -> Nat]
    BY <2>6, <2>8
  <2>10. s \in Seq(Nat) /\ Len(s) = l
    BY <2>9
  <2>11. IsPrefixOf(s, all) /\ IsPrefixOf(s, s)
    BY <1>13, <2>7, <2>8, <2>10 DEF IsPrefixOf
  <2>12. SubSeq(all, 1, Len(s)) = s /\ SubSeq(s, 1, Len(s)) = s
    BY <1>13, <2>10, <2>11, WholeSlice
  <2>13. Len(s) <= Len(all)
    BY <1>13, <2>7, <2>10
  <2> QED BY <2>5, <2>12, <2>13 DEF IsPrefix
<1>21. \A i, j \in 1 .. Len(all) : all[i] \notin T /\ all[j] \in T => j < i
  BY <1>13, <1>19
<1> QED BY <1>16, <1>18, <1>20, <1>21, Zenon DEF ShowsRight

(* In any open archive whose entries fit, a search shows every match that *)
(* can be read once, those of the title before those of the body alone,   *)
(* and a smaller limit only cuts the end off.                             *)
THEOREM SearchRanksAlways == Spec => []SearchRanks
<1>1. ASSUME IInv, phase = "open", Fits,
             NEW T \in SUBSET {id \in Ids : ~IsRedirectID(id)},
             NEW B \in SUBSET {id \in Ids : ~IsRedirectID(id)},
             NEW all, all = SearchTwoTier(archive, T, B, Len(entries), FALSE)
      PROVE  /\ ToSet(all) = (T \union B) \ unparsable
             /\ Len(all) = Cardinality(ToSet(all))
             /\ \A i, j \in 1 .. Len(all) : all[i] \notin T /\ all[j] \in T => j < i
             /\ \A limit \in 1 .. Len(entries) :
                  IsPrefix(SearchTwoTier(archive, T, B, limit, FALSE), all)
  <2>1. PICK turned \in BOOLEAN : Opened(turned)
    BY <1>1, OpenedFacts
  <2>2. TypeInv
    BY <1>1 DEF IInv
  <2>3. PICK m \in Nat : m = Len(entries)
    BY <2>2, IdsAre
  <2>4. T \in SUBSET (0 .. m - 1) /\ B \in SUBSET (0 .. m - 1)
    <3>1. ASSUME NEW id \in Ids, ~IsRedirectID(id) PROVE id \in 0 .. m - 1
      <4>1. PICK n \in Nat, R \in Nat : n = Len(redirects) /\ R = RedirectIDBit
        BY <2>2, IdsAre, CatalogueAssumption
      <4>2. DOMAIN Targets = {R + j : j \in 0 .. n - 1} /\ Ids = (0 .. m - 1) \union DOMAIN Targets
        BY <2>2, <2>3, <4>1, IdsAre
      <4>3. \A j \in 0 .. n - 1 : IsRedirectID(R + j)
        BY <4>1 DEF IsRedirectID
      <4> QED BY <3>1, <4>2, <4>3
    <3> QED BY <3>1
  <2>5. PICK shown : shown = [limit \in 0 .. m |-> SearchTwoTier(archive, T, B, limit, FALSE)]
    OBVIOUS
  <2>6. m \in 0 .. m /\ \A limit \in 1 .. m : limit \in 0 .. m
    OBVIOUS
  <2>7. all = shown[m] /\ \A limit \in 1 .. m :
          shown[limit] = SearchTwoTier(archive, T, B, limit, FALSE)
    BY <1>1, <2>3, <2>5, <2>6
  <2>9. Searches(m, T, B, shown, all)
    BY <2>3, <2>5, <2>7, Zenon DEF Searches
  <2>8. ShowsRight(m, T, B, shown, all)
    BY <1>1, <2>1, <2>2, <2>4, <2>9, SearchShows, Zenon
  <2>10. /\ ToSet(all) = (T \union B) \ unparsable
         /\ Len(all) = Cardinality(ToSet(all))
         /\ \A i, j \in 1 .. Len(all) : all[i] \notin T /\ all[j] \in T => j < i
         /\ \A limit \in 1 .. m : IsPrefix(shown[limit], all)
    BY <2>8, Zenon DEF ShowsRight
  <2> QED BY <2>3, <2>7, <2>10
<1>2. IInv => SearchRanks
  BY <1>1, Zenon DEF SearchRanks
<1> QED BY <1>2, IInvAlways, PTL

(*****************************************************************************)
(* A list up to the first entry that does not parse                          *)
(*****************************************************************************)
(* UntilMissing cuts the list s behind its element c.                        *)
CutBefore(list, list0, c) ==
  /\ c \in 0 .. Len(list0) /\ Len(list) = c /\ list = [i \in 1 .. c |-> list0[i]]
  /\ \A i \in 1 .. c : list0[i] # Missing
  /\ c < Len(list0) => list0[c + 1] = Missing

(* What an iterator shows ends before the first entry that does not parse, *)
(* or at the end of the list.                                              *)
LEMMA UntilMissingCuts ==
  ASSUME NEW A, NEW list \in Seq(A)
  PROVE  \E c \in 0 .. Len(list) : CutBefore(UntilMissing(list), list, c)
<1>1. PICK n \in Nat : n = Len(list)
  BY LenProperties
<1> DEFINE bad == {i \in 1 .. n : list[i] = Missing}
<1>2. CASE bad = {}
  <2>1. UntilMissing(list) = list
    BY <1>1, <1>2 DEF UntilMissing
  <2>2. list = [i \in 1 .. n |-> list[i]]
    BY <1>1, LenProperties
  <2>3. CutBefore(list, list, n)
    BY <1>1, <1>2, <2>2, SMTT(30) DEF CutBefore
  <2> QED BY <1>1, <2>1, <2>3
<1>3. CASE bad # {}
  <2>1. PICK x \in bad : \A y \in bad : x <= y
    <3>1. bad \in SUBSET Nat
      OBVIOUS
    <3> HIDE DEF bad
    <3> QED BY <1>3, <3>1, LeastElement
  <2>2. PICK m : m = Min(bad)
    OBVIOUS
  <2>3. m \in bad /\ \A y \in bad : m <= y
    <3> HIDE DEF bad
    <3> QED BY <2>1, <2>2 DEF Min
  <2>4. PICK k \in Nat : k = m - 1 /\ k + 1 = m /\ k <= n
    <3>1. m - 1 \in Nat /\ m - 1 <= n /\ (m - 1) + 1 = m
      BY <2>3
    <3> QED BY <3>1
  <2>5. UntilMissing(list) = SubSeq(list, 1, k)
    BY <1>1, <1>3, <2>2, <2>4 DEF UntilMissing
  <2>6. PICK s : s = SubSeq(list, 0 + 1, 0 + k)
    OBVIOUS
  <2>7. s \in Seq(A) /\ Len(s) = k /\ \A j \in 1 .. k : s[j] = list[0 + j]
    <3>1. 0 + k <= Len(list) /\ 0 \in Nat
      BY <1>1, <2>4
    <3>2. /\ SubSeq(list, 0 + 1, 0 + k) \in Seq(A) /\ Len(SubSeq(list, 0 + 1, 0 + k)) = k
          /\ \A j \in 1 .. k : SubSeq(list, 0 + 1, 0 + k)[j] = list[0 + j]
      BY <3>1, Slice
    <3> QED BY <2>6, <3>2
  <2>8. 0 + 1 = 1 /\ 0 + k = k /\ \A j \in 1 .. k : 0 + j = j
    OBVIOUS
  <2>9. s = UntilMissing(list)
    BY <2>5, <2>6, <2>8
  <2>10. s = [i \in 1 .. k |-> list[i]]
    BY <2>7, <2>8, LenProperties
  <2>11. \A i \in 1 .. k : list[i] # Missing
    <3>1. ASSUME NEW i \in 1 .. k, list[i] = Missing PROVE FALSE
      <4>1. i \in 1 .. n /\ ~(m <= i)
        BY <2>4
      <4> QED BY <2>3, <3>1, <4>1
    <3> QED BY <3>1
  <2>12. list[k + 1] = Missing
    BY <2>3, <2>4
  <2>13. CutBefore(s, list, k)
    BY <1>1, <2>4, <2>7, <2>10, <2>11, <2>12 DEF CutBefore
  <2> QED BY <1>1, <2>4, <2>9, <2>13
<1> QED BY <1>2, <1>3

(* What an iterator with errors shows ends with the first entry that does *)
(* not parse, so it tells of one if there is one.                         *)
LEMMA UntilErrorShows ==
  ASSUME NEW A, NEW list \in Seq(A)
  PROVE  Missing \in ToSet(UntilError(list)) <=> \E i \in 1 .. Len(list) : list[i] = Missing
<1>1. PICK n \in Nat : n = Len(list)
  BY LenProperties
<1> DEFINE bad == {i \in 1 .. n : list[i] = Missing}
<1>2. CASE bad = {}
  <2>1. UntilError(list) = list
    BY <1>1, <1>2 DEF UntilError
  <2> QED BY <1>1, <1>2, <2>1 DEF ToSet
<1>3. CASE bad # {}
  <2>1. PICK x \in bad : \A y \in bad : x <= y
    <3>1. bad \in SUBSET Nat
      OBVIOUS
    <3> HIDE DEF bad
    <3> QED BY <1>3, <3>1, LeastElement
  <2>2. PICK m : m = Min(bad)
    OBVIOUS
  <2>3. m \in bad
    <3> HIDE DEF bad
    <3> QED BY <2>1, <2>2 DEF Min
  <2>4. m \in Nat /\ m \in 1 .. n /\ m <= n /\ list[m] = Missing
    BY <2>3
  <2>5. UntilError(list) = SubSeq(list, 1, m)
    BY <1>1, <1>3, <2>2 DEF UntilError
  <2>6. PICK s : s = SubSeq(list, 0 + 1, 0 + m)
    OBVIOUS
  <2>7. s \in Seq(A) /\ Len(s) = m /\ \A j \in 1 .. m : s[j] = list[0 + j]
    <3>1. 0 + m <= Len(list) /\ 0 \in Nat
      BY <1>1, <2>4
    <3>2. /\ SubSeq(list, 0 + 1, 0 + m) \in Seq(A) /\ Len(SubSeq(list, 0 + 1, 0 + m)) = m
          /\ \A j \in 1 .. m : SubSeq(list, 0 + 1, 0 + m)[j] = list[0 + j]
      BY <2>4, <3>1, Slice
    <3> QED BY <2>6, <3>2
  <2>8. 0 + 1 = 1 /\ 0 + m = m /\ m \in 1 .. m
    BY <2>4
  <2>9. s = UntilError(list) /\ s[m] = Missing
    BY <2>4, <2>5, <2>6, <2>7, <2>8
  <2>10. Missing \in ToSet(s)
    BY <2>7, <2>8, <2>9 DEF ToSet
  <2> QED BY <1>1, <2>4, <2>9, <2>10
<1> QED BY <1>2, <1>3

(* The element i of list is the entry of the ID x[i], missing where that *)
(* entry does not parse, and no ID is in x twice.                        *)
Lists(list, x, n, A) ==
  /\ list \in Seq(A) /\ Len(list) = n /\ x \in [1 .. n -> Nat]
  /\ \A i \in 1 .. n : IF x[i] \in unparsable THEN list[i] = Missing
                       ELSE list[i] # Missing /\ list[i].id = x[i]
  /\ \A i, j \in 1 .. n : x[i] = x[j] => i = j

(* What is shown of list are its first c elements, and all of it if every *)
(* entry parses.                                                          *)
ShownUpTo(shown, list, x, n, c) ==
  /\ Len(shown) = c /\ IdsOf(shown) = [i \in 1 .. c |-> x[i]]
  /\ IdsOf(shown) \in Seq(Nat) /\ Len(IdsOf(shown)) = c
  /\ \A i \in 1 .. c : shown[i] = list[i]
  /\ unparsable = {} => c = n

(* What an iterator shows of a list of entries are the IDs of a beginning *)
(* of it.                                                                 *)
LEMMA ListedOnce ==
  ASSUME NEW list, NEW x, NEW n \in Nat, NEW A, Lists(list, x, n, A)
  PROVE  \E c \in 0 .. n : ShownUpTo(UntilMissing(list), list, x, n, c)
<1>0. PICK shown : shown = UntilMissing(list)
  OBVIOUS
<1>1. PICK c \in 0 .. n : CutBefore(shown, list, c)
  BY <1>0, UntilMissingCuts DEF Lists
<1>2. Len(shown) = c /\ \A i \in 1 .. c : shown[i] = list[i] /\ list[i] # Missing /\ i \in 1 .. n
  BY <1>1 DEF CutBefore
<1>3. \A i \in 1 .. c : shown[i].id = x[i]
  BY <1>2 DEF Lists
<1>4. PICK ids : ids = IdsOf(shown)
  OBVIOUS
<1>5. ids = [i \in 1 .. c |-> x[i]]
  BY <1>2, <1>3, <1>4 DEF IdsOf
<1>6. ids \in [1 .. c -> Nat]
  <2>1. \A i \in 1 .. c : x[i] \in Nat
    BY <1>2 DEF Lists
  <2> QED BY <1>5, <2>1
<1>7. ids \in Seq(Nat) /\ Len(ids) = c
  <2>1. c \in Nat
    OBVIOUS
  <2> QED BY <1>6, <2>1
<1>8. unparsable = {} => c = n
  <2>1. ASSUME unparsable = {}, c # n PROVE FALSE
    <3>1. c < n /\ c + 1 \in 1 .. n
      BY <2>1
    <3>2. list[c + 1] = Missing
      BY <1>1, <3>1 DEF CutBefore, Lists
    <3>3. x[c + 1] \in unparsable
      BY <3>1, <3>2 DEF Lists
    <3> QED BY <2>1, <3>3
  <2> QED BY <2>1
<1>9. ShownUpTo(shown, list, x, n, c)
  BY <1>2, <1>4, <1>5, <1>7, <1>8 DEF ShownUpTo
<1> QED BY <1>0, <1>9

(* An iterator with errors tells of an entry that does not parse exactly *)
(* if the list has one.                                                  *)
LEMMA ListErrors ==
  ASSUME NEW list, NEW x, NEW n \in Nat, NEW A, Lists(list, x, n, A),
         unparsable \subseteq {x[i] : i \in 1 .. n}
  PROVE  unparsable # {} <=> Missing \in ToSet(UntilError(list))
<1>1. Missing \in ToSet(UntilError(list)) <=> \E i \in 1 .. n : list[i] = Missing
  BY UntilErrorShows DEF Lists
<1>2. \A i \in 1 .. n : list[i] = Missing <=> x[i] \in unparsable
  BY DEF Lists
<1> QED BY <1>1, <1>2

(*****************************************************************************)
(* The lists of the entries                                                  *)
(*****************************************************************************)
(* The entry e stands for the ID: it is missing if it does not parse, and    *)
(* says its ID otherwise.                                                    *)
StandsFor(e, x) == IF x \in unparsable THEN e = Missing ELSE e # Missing /\ e.id = x

(* EntryByID gives the entry that stands for its ID. *)
LEMMA EntryStands ==
  ASSUME TypeInv, Fits, NEW turned, Opened(turned), NEW x \in Ids
  PROVE  /\ StandsFor(EntryByID(archive, x), x) /\ x \in Nat
         /\ \A r : r.id = x => StandsFor(EntryFromPath(archive, r), x)
                                 /\ StandsFor(EntryFromTitle(archive, r), x)
<1>1. x \in Nat
  BY EntryRecord
<1>2. CASE x \in unparsable
  <2>1. EntryByID(archive, x) = Missing
    BY <1>2, EntryRecord
  <2> QED BY <1>1, <1>2, <2>1 DEF StandsFor, EntryFromPath, EntryFromTitle
<1>3. CASE x \notin unparsable
  <2>1. PICK type, front, target, path, title :
          EntryByID(archive, x) = [id |-> x, path |-> path, title |-> title,
                                   mime |-> type, front |-> front, target |-> target]
    BY <1>3, EntryRecord
  <2>2. PICK e : e = EntryByID(archive, x) /\ e.id = x
    BY <2>1
  <2>3. e # Missing
    BY <1>1, <2>2, NoRedirect
  <2>4. ASSUME NEW r, r.id = x
        PROVE  /\ StandsFor(EntryFromPath(archive, r), x)
               /\ StandsFor(EntryFromTitle(archive, r), x)
    <3>1. PICK p : p = [e EXCEPT !.path = r.key]
      OBVIOUS
    <3>2. PICK t : t = [e EXCEPT !.title = r.key]
      OBVIOUS
    <3>3. p.id = x /\ t.id = x
      BY <2>1, <2>2, <3>1, <3>2
    <3>4. p # Missing /\ t # Missing
      BY <1>1, <3>3, NoRedirect
    <3>5. EntryFromPath(archive, r) = p /\ EntryFromTitle(archive, r) = t
      BY <2>2, <2>3, <2>4, <3>1, <3>2 DEF EntryFromPath, EntryFromTitle
    <3> QED BY <1>3, <3>3, <3>4, <3>5 DEF StandsFor
  <2>5. StandsFor(e, x)
    BY <1>3, <2>2, <2>3 DEF StandsFor
  <2> QED BY <1>1, <2>2, <2>4, <2>5
<1> QED BY <1>2, <1>3

(* A list whose elements stand for the IDs of x, which are all different. *)
LEMMA ListOf ==
  ASSUME NEW n \in Nat, NEW F, NEW x \in [1 .. n -> Nat],
         \A i \in 1 .. n : StandsFor(F[i], x[i]),
         \A i, j \in 1 .. n : x[i] = x[j] => i = j
  PROVE  \E A : Lists([i \in 1 .. n |-> F[i]], x, n, A)
<1>1. PICK list : list = [i \in 1 .. n |-> F[i]]
  OBVIOUS
<1>2. PICK A : A = {F[i] : i \in 1 .. n}
  OBVIOUS
<1>3. list \in [1 .. n -> A]
  BY <1>1, <1>2
<1>4. list \in Seq(A) /\ Len(list) = n
  BY <1>3
<1>5. ASSUME NEW i \in 1 .. n
      PROVE  IF x[i] \in unparsable THEN list[i] = Missing
             ELSE list[i] # Missing /\ list[i].id = x[i]
  <2>1. list[i] = F[i] /\ StandsFor(F[i], x[i])
    BY <1>1
  <2> QED BY <2>1 DEF StandsFor
<1>6. Lists(list, x, n, A)
  BY <1>4, <1>5 DEF Lists
<1> QED BY <1>1, <1>6

(* What Entries goes through. *)
ContentList == [i \in 1 .. Len(archive.entries) |-> EntryByID(archive, i - 1)]
(* What RedirectEntries goes through. *)
RedirectList == [i \in 1 .. Len(archive.redirects) |-> EntryByID(archive, MakeRedirectID(i - 1))]
(* What EntriesByPath goes through. *)
PathList == [i \in 1 .. Len(archive.pathIdx) |-> EntryFromPath(archive, archive.pathIdx[i])]
(* What EntriesByTitle and BrowseTitles go through. *)
TitleList == [i \in 1 .. Len(archive.titleIdx) |-> EntryFromTitle(archive, archive.titleIdx[i])]

(* The IDs of x are those of S. *)
Covers(x, n, S) == {x[i] : i \in 1 .. n} = S

(* Entries goes through every content entry once. *)
LEMMA ContentListed ==
  ASSUME TypeInv, Fits, NEW turned, Opened(turned)
  PROVE  \E n \in Nat : \E x, A : /\ Lists(ContentList, x, n, A) /\ n = Len(entries)
                                  /\ x = [i \in 1 .. n |-> i - 1] /\ Covers(x, n, 0 .. n - 1)
<1>1. PICK n \in Nat : n = Len(entries)
  BY IdsAre
<1>2. Len(archive.entries) = n
  <2>1. archive.entries = [i \in 1 .. Len(entries) |-> EntriesOf(entries)[i]]
    BY DEF Opened, Archived, EntriesOf
  <2> QED BY <1>1, <2>1
<1>3. PICK x : x = [i \in 1 .. n |-> i - 1]
  OBVIOUS
<1>4. x \in [1 .. n -> Nat] /\ \A i, j \in 1 .. n : x[i] = x[j] => i = j
  BY <1>3
<1>5. PICK F : F = [i \in 1 .. n |-> EntryByID(archive, i - 1)]
  OBVIOUS
<1>6. ASSUME NEW i \in 1 .. n PROVE StandsFor(F[i], x[i])
  <2>1. x[i] = i - 1 /\ F[i] = EntryByID(archive, i - 1)
    BY <1>3, <1>5
  <2>2. i - 1 \in 0 .. n - 1
    OBVIOUS
  <2>3. i - 1 \in Ids
    BY <1>1, <2>2, IdsAre
  <2>4. StandsFor(EntryByID(archive, i - 1), i - 1)
    BY <2>3, EntryStands
  <2> QED BY <2>1, <2>4
<1>7. PICK A : Lists([i \in 1 .. n |-> F[i]], x, n, A)
  BY <1>4, <1>6, ListOf
<1>8. ContentList = F /\ F = [i \in 1 .. n |-> F[i]]
  BY <1>2, <1>5 DEF ContentList
<1>9. Covers(x, n, 0 .. n - 1)
  <2>1. ASSUME NEW y \in 0 .. n - 1 PROVE \E i \in 1 .. n : x[i] = y
    <3>1. y + 1 \in 1 .. n /\ (y + 1) - 1 = y
      OBVIOUS
    <3> QED BY <1>3, <3>1
  <2>2. ASSUME NEW i \in 1 .. n PROVE x[i] \in 0 .. n - 1
    BY <1>3
  <2> QED BY <2>1, <2>2 DEF Covers
<1> QED BY <1>1, <1>3, <1>7, <1>8, <1>9

(* RedirectEntries goes through every redirect once. *)
LEMMA RedirectsListed ==
  ASSUME TypeInv, Fits, NEW turned, Opened(turned)
  PROVE  \E n \in Nat : \E x, A : /\ Lists(RedirectList, x, n, A)
                                  /\ Covers(x, n, DOMAIN Targets)
                                  /\ \A i \in 1 .. n : x[i] \notin unparsable
<1>1. PICK n \in Nat, R \in Nat, m \in Nat :
        n = Len(redirects) /\ R = RedirectIDBit /\ m = Len(entries)
  BY IdsAre, CatalogueAssumption
<1>2. Len(archive.redirects) = n
  <2>1. archive.redirects = [i \in 1 .. Len(redirects) |-> redirects[i].target]
    BY DEF Opened, Archived
  <2> QED BY <1>1, <2>1
<1>3. PICK x : x = [i \in 1 .. n |-> R + (i - 1)]
  OBVIOUS
<1>4. x \in [1 .. n -> Nat] /\ \A i, j \in 1 .. n : x[i] = x[j] => i = j
  BY <1>3
<1>5. PICK F : F = [i \in 1 .. n |-> EntryByID(archive, MakeRedirectID(i - 1))]
  OBVIOUS
<1>6. DOMAIN Targets = {R + j : j \in 0 .. n - 1} /\ DOMAIN Targets \subseteq Ids
  <2>1. DOMAIN Targets = {R + j : j \in 0 .. n - 1}
    BY <1>1, IdsAre
  <2>2. DOMAIN Targets \subseteq Ids
    BY IdsAre
  <2> QED BY <2>1, <2>2
<1>7. ASSUME NEW i \in 1 .. n PROVE x[i] \in DOMAIN Targets /\ x[i] = MakeRedirectID(i - 1)
  <2>1. x[i] = R + (i - 1) /\ i - 1 \in 0 .. n - 1
    BY <1>3
  <2>2. MakeRedirectID(i - 1) = R + (i - 1)
    BY <1>1 DEF MakeRedirectID
  <2> QED BY <1>6, <2>1, <2>2
<1>8. ASSUME NEW i \in 1 .. n PROVE StandsFor(F[i], x[i])
  <2>1. x[i] \in Ids /\ F[i] = EntryByID(archive, x[i])
    BY <1>5, <1>6, <1>7
  <2> QED BY <2>1, EntryStands
<1>9. PICK A : Lists([i \in 1 .. n |-> F[i]], x, n, A)
  BY <1>4, <1>8, ListOf
<1>10. RedirectList = F /\ F = [i \in 1 .. n |-> F[i]]
  BY <1>2, <1>5 DEF RedirectList
<1>11. Covers(x, n, DOMAIN Targets)
  <2>1. ASSUME NEW y \in DOMAIN Targets PROVE \E i \in 1 .. n : x[i] = y
    <3>1. PICK j \in 0 .. n - 1 : y = R + j
      BY <1>6
    <3>2. j + 1 \in 1 .. n /\ R + ((j + 1) - 1) = R + j
      OBVIOUS
    <3> QED BY <1>3, <3>1, <3>2
  <2> QED BY <1>7, <2>1 DEF Covers
<1>12. ASSUME NEW i \in 1 .. n PROVE x[i] \notin unparsable
  <2>1. unparsable \subseteq 0 .. m - 1 /\ m < R
    <3>1. m <= MaxNames /\ MaxNames < R /\ MaxNames \in Nat
      BY <1>1, IdsAre, CatalogueAssumption
    <3>2. unparsable \subseteq 0 .. m - 1
      BY <1>1 DEF TypeInv
    <3> QED BY <3>1, <3>2
  <2>2. x[i] = R + (i - 1) /\ ~(x[i] \in 0 .. m - 1)
    BY <1>3, <2>1
  <2> QED BY <2>1, <2>2
<1> QED BY <1>9, <1>10, <1>11, <1>12

(* The index has a record for each name, in the order of its keys, with *)
(* the ID of the name.                                                  *)
IndexFor(records, names, key, r, n) ==
  /\ names = Names /\ Len(names) = n /\ Placed(records, names, key, r, n)

(* x are the IDs that the records of an index refer to. *)
ListedIds(x, records, n) ==
  /\ x = [i \in 1 .. n |-> records[i].id] /\ x \in [1 .. n -> Nat]
  /\ \A i, j \in 1 .. n : x[i] = x[j] => i = j
  /\ \A i \in 1 .. n : x[i] \in Ids
  /\ Covers(x, n, Ids) /\ Len(records) = n

(* An index made of the names refers to each ID once. *)
LEMMA IndexListed ==
  ASSUME TypeInv, Fits, NEW turned, Opened(turned), NEW records, NEW names,
         NEW key, NEW r, NEW n \in Nat, IndexFor(records, names, key, r, n)
  PROVE  \E x : ListedIds(x, records, n)
<1>1. /\ Len(records) = n /\ \A i \in 1 .. n : records[i].id = names[r[i]].id /\ r[i] \in 1 .. n
      /\ \A i \in 1 .. n : \E k \in 1 .. n : r[k] = i
      /\ \A k, l \in 1 .. n : r[k] = r[l] => k = l
  BY DEF IndexFor, Placed, Ordered
<1>2. PICK x : x = [i \in 1 .. n |-> records[i].id]
  OBVIOUS
<1>3. \A i \in 1 .. n : x[i] = names[r[i]].id
  BY <1>1, <1>2
<1>4. Ids = {names[i].id : i \in 1 .. n}
  BY DEF Ids, IndexFor
<1>5. \A i \in 1 .. n : x[i] \in Ids
  <2>1. ASSUME NEW i \in 1 .. n PROVE x[i] \in Ids
    <3>1. r[i] \in 1 .. n /\ x[i] = names[r[i]].id
      BY <1>1, <1>3
    <3> QED BY <1>4, <3>1
  <2> QED BY <2>1
<1>6. Ids \subseteq Nat
  BY EntryStands
<1>7. x \in [1 .. n -> Nat]
  BY <1>2, <1>5, <1>6
<1>8. ASSUME NEW i \in 1 .. n, NEW j \in 1 .. n, x[i] = x[j] PROVE i = j
  <2>1. names[r[i]].id = names[r[j]].id /\ r[i] \in 1 .. n /\ r[j] \in 1 .. n
    BY <1>1, <1>3, <1>8
  <2>2. \A k, l \in 1 .. n : names[k].id = names[l].id => k = l
    BY NamesDistinct DEF Distinct, IndexFor
  <2>3. r[i] = r[j]
    BY <2>1, <2>2
  <2> QED BY <1>1, <2>3
<1>9. Covers(x, n, Ids)
  <2>1. ASSUME NEW y \in Ids PROVE \E i \in 1 .. n : x[i] = y
    <3>1. PICK k \in 1 .. n : y = names[k].id
      BY <1>4
    <3>2. PICK i \in 1 .. n : r[i] = k
      BY <1>1
    <3> QED BY <1>3, <3>1, <3>2
  <2> QED BY <1>5, <2>1 DEF Covers
<1>10. ListedIds(x, records, n)
  BY <1>1, <1>2, <1>5, <1>7, <1>8, <1>9 DEF ListedIds
<1> QED BY <1>10

(* EntriesByPath goes through every entry and redirect once. *)
LEMMA PathsListed ==
  ASSUME TypeInv, Fits, NEW turned \in BOOLEAN, Opened(turned)
  PROVE  \E n \in Nat : \E x, A : Lists(PathList, x, n, A) /\ Covers(x, n, Ids) /\ n = Len(Names)
<1>1. PICK names : names = Names /\ Len(names) \in Nat
  BY NamesDistinct, LenProperties
<1>2. PICK n \in Nat : n = Len(names)
  BY <1>1
<1>3. PICK records : records = archive.pathIdx
  OBVIOUS
<1>4. PICK r : Placed(records, names, PathsOf(names), r, n)
  BY <1>1, <1>2, <1>3, IndicesPlaced
<1>10. IndexFor(records, names, PathsOf(names), r, n)
  BY <1>1, <1>2, <1>4 DEF IndexFor
<1>11. PICK x : ListedIds(x, records, n)
  BY <1>10, IndexListed
<1>5. /\ x \in [1 .. n -> Nat] /\ \A i, j \in 1 .. n : x[i] = x[j] => i = j
      /\ \A i \in 1 .. n : x[i] \in Ids /\ x[i] = records[i].id
      /\ Covers(x, n, Ids) /\ Len(records) = n
  BY <1>11 DEF ListedIds
<1>6. PICK F : F = [i \in 1 .. n |-> EntryFromPath(archive, records[i])]
  OBVIOUS
<1>7. ASSUME NEW i \in 1 .. n PROVE StandsFor(F[i], x[i])
  <2>1. records[i].id = x[i] /\ x[i] \in Ids /\ F[i] = EntryFromPath(archive, records[i])
    BY <1>5, <1>6
  <2> QED BY <2>1, EntryStands
<1>8. PICK A : Lists([i \in 1 .. n |-> F[i]], x, n, A)
  BY <1>5, <1>7, ListOf
<1>9. PathList = F /\ F = [i \in 1 .. n |-> F[i]]
  BY <1>3, <1>5, <1>6 DEF PathList
<1> QED BY <1>1, <1>2, <1>5, <1>8, <1>9

(* EntriesByTitle and BrowseTitles go through every entry and redirect *)
(* once.                                                               *)
LEMMA TitlesListed ==
  ASSUME TypeInv, Fits, NEW turned \in BOOLEAN, Opened(turned)
  PROVE  \E n \in Nat : \E x, A : /\ Lists(TitleList, x, n, A) /\ Covers(x, n, Ids)
                                  /\ n = Len(Names) /\ n = Len(archive.titleIdx)
<1>1. PICK names : names = Names /\ Len(names) \in Nat
  BY NamesDistinct, LenProperties
<1>2. PICK n \in Nat : n = Len(names)
  BY <1>1
<1>3. PICK records : records = archive.titleIdx
  OBVIOUS
<1>4. PICK r : Placed(records, names, TitlesOf(names), r, n)
  BY <1>1, <1>2, <1>3, IndicesPlaced
<1>10. IndexFor(records, names, TitlesOf(names), r, n)
  BY <1>1, <1>2, <1>4 DEF IndexFor
<1>11. PICK x : ListedIds(x, records, n)
  BY <1>10, IndexListed
<1>5. /\ x \in [1 .. n -> Nat] /\ \A i, j \in 1 .. n : x[i] = x[j] => i = j
      /\ \A i \in 1 .. n : x[i] \in Ids /\ x[i] = records[i].id
      /\ Covers(x, n, Ids) /\ Len(records) = n
  BY <1>11 DEF ListedIds
<1>6. PICK F : F = [i \in 1 .. n |-> EntryFromTitle(archive, records[i])]
  OBVIOUS
<1>7. ASSUME NEW i \in 1 .. n PROVE StandsFor(F[i], x[i])
  <2>1. records[i].id = x[i] /\ x[i] \in Ids /\ F[i] = EntryFromTitle(archive, records[i])
    BY <1>5, <1>6
  <2> QED BY <2>1, EntryStands
<1>8. PICK A : Lists([i \in 1 .. n |-> F[i]], x, n, A)
  BY <1>5, <1>7, ListOf
<1>9. TitleList = F /\ F = [i \in 1 .. n |-> F[i]]
  BY <1>3, <1>5, <1>6 DEF TitleList
<1> QED BY <1>1, <1>2, <1>3, <1>5, <1>8, <1>9

(*****************************************************************************)
(* What an iterator shows                                                    *)
(*****************************************************************************)
(* The list shows no ID twice, and every ID if all entries parse.            *)
OnceEach(list) ==
  /\ Cardinality(ToSet(IdsOf(list))) = Len(list)
  /\ unparsable = {} => ToSet(IdsOf(list)) = Ids

(* An iterator over a list of all the IDs shows each once. *)
LEMMA ShownOnce ==
  ASSUME NEW list, NEW x, NEW n \in Nat, NEW A, Lists(list, x, n, A), Covers(x, n, Ids)
  PROVE  OnceEach(UntilMissing(list))
<1>1. PICK shown : shown = UntilMissing(list)
  OBVIOUS
<1>2. PICK ids : ids = IdsOf(shown)
  OBVIOUS
<1>7. PICK c \in 0 .. n : ShownUpTo(shown, list, x, n, c)
  BY <1>1, ListedOnce
<1>3. /\ Len(shown) = c /\ ids = [i \in 1 .. c |-> x[i]]
      /\ ids \in Seq(Nat) /\ Len(ids) = c
      /\ unparsable = {} => c = n
  BY <1>2, <1>7 DEF ShownUpTo
<1>4. ASSUME NEW i \in 1 .. Len(ids), NEW j \in 1 .. Len(ids), ids[i] = ids[j] PROVE i = j
  <2>1. i \in 1 .. n /\ j \in 1 .. n /\ x[i] = x[j]
    BY <1>3, <1>4
  <2> QED BY <2>1 DEF Lists
<1>5. Cardinality(ToSet(ids)) = c
  BY <1>3, <1>4, DistinctCount
<1>6. ASSUME unparsable = {} PROVE ToSet(ids) = Ids
  <2>1. ToSet(ids) = {ids[i] : i \in 1 .. c} /\ c = n
    BY <1>3, <1>6 DEF ToSet
  <2>2. \A i \in 1 .. n : ids[i] = x[i]
    BY <1>3, <2>1
  <2> QED BY <2>1, <2>2 DEF Covers
<1> QED BY <1>1, <1>2, <1>3, <1>5, <1>6 DEF OnceEach

(* Two iterators over lists that share no ID and have all of them between *)
(* them show each once.                                                   *)
LEMMA JoinedOnce ==
  ASSUME NEW s, NEW x, NEW m \in Nat, NEW A, Lists(s, x, m, A),
         NEW t, NEW y, NEW n \in Nat, NEW B, Lists(t, y, n, B),
         \A i \in 1 .. m, j \in 1 .. n : x[i] # y[j],
         NEW S, NEW T, Covers(x, m, S), Covers(y, n, T), Ids = S \union T
  PROVE  OnceEach(UntilMissing(s) \o UntilMissing(t))
<1>1. PICK p : p = UntilMissing(s) /\ p \in Seq(A)
  BY UntilMissingLen DEF Lists
<1>2. PICK q : q = UntilMissing(t) /\ q \in Seq(B)
  BY UntilMissingLen DEF Lists
<1>20. PICK c \in 0 .. m : ShownUpTo(p, s, x, m, c)
  BY <1>1, ListedOnce
<1>3. /\ Len(p) = c /\ IdsOf(p) = [i \in 1 .. c |-> x[i]]
      /\ unparsable = {} => c = m
  BY <1>20 DEF ShownUpTo
<1>21. PICK d \in 0 .. n : ShownUpTo(q, t, y, n, d)
  BY <1>2, ListedOnce
<1>4. /\ Len(q) = d /\ IdsOf(q) = [i \in 1 .. d |-> y[i]]
      /\ unparsable = {} => d = n
  BY <1>21 DEF ShownUpTo
<1>5. PICK C : C = A \union B
  OBVIOUS
<1>6. p \in Seq(C)
  <2>1. p \in [1 .. c -> C]
    <3>1. p = [i \in 1 .. c |-> p[i]] /\ \A i \in 1 .. c : p[i] \in A
      BY <1>1, <1>3, LenProperties
    <3> QED BY <1>5, <3>1
  <2>2. c \in Nat
    OBVIOUS
  <2> QED BY <2>1, <2>2
<1>7. q \in Seq(C)
  <2>1. q \in [1 .. d -> C]
    <3>1. q = [i \in 1 .. d |-> q[i]] /\ \A i \in 1 .. d : q[i] \in B
      BY <1>2, <1>4, LenProperties
    <3> QED BY <1>5, <3>1
  <2>2. d \in Nat
    OBVIOUS
  <2> QED BY <2>1, <2>2
<1>8. PICK w : w = p \o q
  OBVIOUS
<1>9. /\ w \in Seq(C) /\ Len(w) = c + d
      /\ \A i \in 1 .. c : w[i] = p[i]
      /\ \A i \in 1 .. d : w[c + i] = q[i]
  <2>1. /\ p \o q \in Seq(C) /\ Len(p \o q) = Len(p) + Len(q)
        /\ \A i \in 1 .. Len(p) : (p \o q)[i] = p[i]
        /\ \A i \in 1 .. Len(q) : (p \o q)[Len(p) + i] = q[i]
    BY <1>6, <1>7, ConcatFacts
  <2> QED BY <1>3, <1>4, <1>8, <2>1
<1>10. PICK ids : ids = IdsOf(w)
  OBVIOUS
<1>11. ids = [i \in 1 .. c + d |-> w[i].id]
  BY <1>9, <1>10 DEF IdsOf
<1>12. ASSUME NEW i \in 1 .. c PROVE ids[i] = x[i] /\ i \in 1 .. m /\ i \in 1 .. c + d
  <2>1. i \in 1 .. c + d /\ ids[i] = p[i].id
    BY <1>9, <1>11
  <2>2. IdsOf(p)[i] = p[i].id
    BY <1>3 DEF IdsOf
  <2>3. IdsOf(p)[i] = x[i]
    BY <1>3
  <2> QED BY <2>1, <2>2, <2>3
<1>13. ASSUME NEW i \in 1 .. d PROVE ids[c + i] = y[i] /\ i \in 1 .. n /\ c + i \in 1 .. c + d
  <2>1. c + i \in 1 .. c + d /\ ids[c + i] = q[i].id
    BY <1>9, <1>11
  <2>2. IdsOf(q)[i] = q[i].id
    BY <1>4 DEF IdsOf
  <2>3. IdsOf(q)[i] = y[i]
    BY <1>4
  <2> QED BY <2>1, <2>2, <2>3
<1>14. ASSUME NEW i \in 1 .. c + d
       PROVE  i \in 1 .. c \/ \E k \in 1 .. d : i = c + k
  <2>1. CASE i > c
    <3>1. i - c \in 1 .. d /\ i = c + (i - c)
      BY <2>1
    <3> QED BY <3>1
  <2>2. CASE i <= c
    BY <2>2
  <2> QED BY <2>1, <2>2
<1>15. ids \in [1 .. c + d -> Nat]
  <2>1. ASSUME NEW i \in 1 .. c + d PROVE ids[i] \in Nat
    <3>1. CASE i \in 1 .. c
      BY <1>12, <3>1 DEF Lists
    <3>2. CASE \E k \in 1 .. d : i = c + k
      <4>1. PICK k \in 1 .. d : i = c + k
        BY <3>2
      <4>2. ids[i] = y[k] /\ k \in 1 .. n
        BY <1>13, <4>1
      <4> QED BY <4>2 DEF Lists
    <3> QED BY <1>14, <3>1, <3>2
  <2> QED BY <1>11, <2>1
<1>16. ids \in Seq(Nat) /\ Len(ids) = c + d
  <2>1. c + d \in Nat
    OBVIOUS
  <2> QED BY <1>15, <2>1
<1>17. ASSUME NEW i \in 1 .. c + d, NEW j \in 1 .. c + d, ids[i] = ids[j] PROVE i = j
  <2>1. CASE i \in 1 .. c /\ j \in 1 .. c
    <3>1. x[i] = x[j] /\ i \in 1 .. m /\ j \in 1 .. m
      BY <1>12, <1>17, <2>1
    <3> QED BY <3>1 DEF Lists
  <2>2. ASSUME NEW a \in 1 .. c, NEW k \in 1 .. d, ids[a] = ids[c + k] PROVE FALSE
    <3>1. x[a] = y[k] /\ a \in 1 .. m /\ k \in 1 .. n
      BY <1>12, <1>13, <2>2
    <3> QED BY <3>1
  <2>3. ASSUME NEW k \in 1 .. d, NEW l \in 1 .. d, i = c + k, j = c + l PROVE i = j
    <3>1. y[k] = y[l] /\ k \in 1 .. n /\ l \in 1 .. n
      BY <1>13, <1>17, <2>3
    <3>2. k = l
      BY <3>1 DEF Lists
    <3> QED BY <2>3, <3>2
  <2>4. i \in 1 .. c \/ \E k \in 1 .. d : i = c + k
    BY <1>14
  <2>5. j \in 1 .. c \/ \E k \in 1 .. d : j = c + k
    BY <1>14
  <2> QED BY <1>17, <2>1, <2>2, <2>3, <2>4, <2>5
<1>18. Cardinality(ToSet(ids)) = c + d
  BY <1>16, <1>17, DistinctCount
<1>19. ASSUME unparsable = {} PROVE ToSet(ids) = Ids
  <2>1. ToSet(ids) = {ids[i] : i \in 1 .. c + d} /\ c = m /\ d = n
    <3>1. c = m /\ d = n
      BY <1>3, <1>4, <1>19
    <3>2. ToSet(ids) = {ids[i] : i \in 1 .. c + d}
      <4>1. DOMAIN ids = 1 .. c + d
        BY <1>15
      <4> QED BY <4>1 DEF ToSet
    <3> QED BY <3>1, <3>2
  <2>2. ASSUME NEW i \in 1 .. c + d PROVE ids[i] \in Ids
    <3>1. CASE i \in 1 .. c
      BY <1>12, <3>1 DEF Covers
    <3>2. CASE \E k \in 1 .. d : i = c + k
      <4>1. PICK k \in 1 .. d : i = c + k
        BY <3>2
      <4>2. ids[i] = y[k] /\ k \in 1 .. n
        BY <1>13, <4>1
      <4> QED BY <4>2 DEF Covers
    <3> QED BY <1>14, <3>1, <3>2
  <2>3. ASSUME NEW z \in S PROVE \E i \in 1 .. c + d : ids[i] = z
    <3>1. PICK i \in 1 .. m : x[i] = z
      BY DEF Covers
    <3> QED BY <1>12, <2>1, <3>1
  <2>4. ASSUME NEW z \in T PROVE \E i \in 1 .. c + d : ids[i] = z
    <3>1. PICK i \in 1 .. n : y[i] = z
      BY DEF Covers
    <3> QED BY <1>13, <2>1, <3>1
  <2> QED BY <2>1, <2>2, <2>3, <2>4
<1> QED BY <1>1, <1>2, <1>8, <1>9, <1>10, <1>18, <1>19 DEF OnceEach

(* EntriesByPath, EntriesByTitle, and Entries with RedirectEntries each *)
(* show every entry once.                                               *)
LEMMA ListsRight ==
  ASSUME TypeInv, Fits, NEW turned \in BOOLEAN, Opened(turned)
  PROVE  /\ OnceEach(EntriesByPath(archive)) /\ OnceEach(EntriesByTitle(archive))
         /\ OnceEach(Entries(archive) \o RedirectEntries(archive))
<1>1. OnceEach(EntriesByPath(archive))
  <2>1. PICK n \in Nat : \E x, A : Lists(PathList, x, n, A) /\ Covers(x, n, Ids)
    BY PathsListed
  <2>2. OnceEach(UntilMissing(PathList))
    BY <2>1, ShownOnce
  <2> QED BY <2>2 DEF EntriesByPath, PathList
<1>2. OnceEach(EntriesByTitle(archive))
  <2>1. PICK n \in Nat : \E x, A : Lists(TitleList, x, n, A) /\ Covers(x, n, Ids)
    BY TitlesListed
  <2>2. OnceEach(UntilMissing(TitleList))
    BY <2>1, ShownOnce
  <2> QED BY <2>2 DEF EntriesByTitle, TitleList
<1>3. OnceEach(Entries(archive) \o RedirectEntries(archive))
  <2>1. PICK m \in Nat : \E x, A : /\ Lists(ContentList, x, m, A) /\ m = Len(entries)
                                   /\ Covers(x, m, 0 .. m - 1)
    BY ContentListed
  <2>2. PICK x, A : Lists(ContentList, x, m, A) /\ m = Len(entries) /\ Covers(x, m, 0 .. m - 1)
    BY <2>1
  <2>3. PICK n \in Nat : \E y, B : Lists(RedirectList, y, n, B) /\ Covers(y, n, DOMAIN Targets)
    BY RedirectsListed
  <2>4. PICK y, B : Lists(RedirectList, y, n, B) /\ Covers(y, n, DOMAIN Targets)
    BY <2>3
  <2>5. PICK R \in Nat, k \in Nat : R = RedirectIDBit /\ k = Len(redirects)
    BY IdsAre, CatalogueAssumption
  <2>6. m < R
    <3>1. m <= MaxNames /\ MaxNames < R /\ MaxNames \in Nat
      BY <2>2, <2>5, IdsAre, CatalogueAssumption
    <3> QED BY <3>1
  <2>7. DOMAIN Targets = {R + j : j \in 0 .. k - 1} /\ Ids = (0 .. m - 1) \union DOMAIN Targets
    BY <2>2, <2>5, IdsAre
  <2>8. ASSUME NEW i \in 1 .. m, NEW j \in 1 .. n PROVE x[i] # y[j]
    <3>1. x[i] \in 0 .. m - 1 /\ y[j] \in DOMAIN Targets
      BY <2>2, <2>4 DEF Covers
    <3>2. PICK l \in 0 .. k - 1 : y[j] = R + l
      BY <2>7, <3>1
    <3> QED BY <2>6, <3>1, <3>2
  <2>9. OnceEach(UntilMissing(ContentList) \o UntilMissing(RedirectList))
    BY <2>2, <2>4, <2>7, <2>8, JoinedOnce
  <2> QED BY <2>9 DEF Entries, RedirectEntries, ContentList, RedirectList
<1> QED BY <1>1, <1>2, <1>3

(* EntriesErr and EntriesByPathErr tell of an entry that does not parse *)
(* exactly if there is one.                                             *)
LEMMA ErrorsRight ==
  ASSUME TypeInv, Fits, NEW turned \in BOOLEAN, Opened(turned)
  PROVE  /\ unparsable # {} <=> Missing \in ToSet(EntriesErr(archive))
         /\ unparsable # {} <=> Missing \in ToSet(EntriesByPathErr(archive))
<1>1. PICK m \in Nat : m = Len(entries)
  BY IdsAre
<1>2. unparsable \subseteq 0 .. m - 1 /\ 0 .. m - 1 \subseteq Ids
  BY <1>1, IdsAre DEF TypeInv
<1>3. unparsable # {} <=> Missing \in ToSet(EntriesErr(archive))
  <2>1. PICK x, A : Lists(ContentList, x, m, A) /\ Covers(x, m, 0 .. m - 1)
    BY <1>1, ContentListed
  <2>2. unparsable \subseteq {x[i] : i \in 1 .. m}
    BY <1>2, <2>1 DEF Covers
  <2>3. unparsable # {} <=> Missing \in ToSet(UntilError(ContentList))
    BY <2>1, <2>2, ListErrors
  <2> QED BY <2>3 DEF EntriesErr, ContentList
<1>4. unparsable # {} <=> Missing \in ToSet(EntriesByPathErr(archive))
  <2>1. PICK n \in Nat : \E x, A : Lists(PathList, x, n, A) /\ Covers(x, n, Ids)
    BY PathsListed
  <2>2. PICK x, A : Lists(PathList, x, n, A) /\ Covers(x, n, Ids)
    BY <2>1
  <2>3. unparsable \subseteq {x[i] : i \in 1 .. n}
    BY <1>2, <2>2 DEF Covers
  <2>4. unparsable # {} <=> Missing \in ToSet(UntilError(PathList))
    BY <2>2, <2>3, ListErrors
  <2> QED BY <2>4 DEF EntriesByPathErr, PathList
<1> QED BY <1>3, <1>4

(*****************************************************************************)
(* The entries of a type                                                     *)
(*****************************************************************************)
(* No type is in the table twice.                                            *)
DistinctTypes(types) ==
  \A i, j \in 1 .. Len(types) : types[i] = types[j] => i = j

(* mimeIndex adds a type only if the table does not have it. *)
LEMMA NextTypeDistinct ==
  ASSUME NEW types \in Seq(Seq(Nat)), DistinctTypes(types), NEW e, e.mime \in Seq(Nat)
  PROVE  DistinctTypes(NextType(types, e))
<1>1. PICK c \in Nat : c = Len(types)
  BY LenProperties
<1>2. CASE e.mime \in ToSet(types)
  <2>1. NextType(types, e) = types
    BY <1>2 DEF NextType
  <2> QED BY <2>1
<1>3. CASE e.mime \notin ToSet(types)
  <2>1. PICK w : w = Append(types, e.mime)
    OBVIOUS
  <2>2. w \in Seq(Seq(Nat)) /\ Len(w) = c + 1 /\ w[c + 1] = e.mime /\ \A i \in 1 .. c : w[i] = types[i]
    BY <1>1, <2>1
  <2>3. NextType(types, e) = w
    BY <1>3, <2>1 DEF NextType
  <2>4. \A i \in 1 .. c : w[i] # e.mime
    <3>1. ASSUME NEW i \in 1 .. c PROVE types[i] # e.mime
      <4>1. i \in DOMAIN types
        BY <1>1, LenProperties
      <4>2. types[i] \in ToSet(types)
        BY <4>1, Zenon DEF ToSet
      <4> QED BY <1>3, <4>2, Zenon
    <3> QED BY <2>2, <3>1
  <2>5. ASSUME NEW i \in 1 .. c + 1, NEW j \in 1 .. c + 1, w[i] = w[j] PROVE i = j
    <3>1. CASE i \in 1 .. c /\ j \in 1 .. c
      BY <1>1, <2>2, <2>5, <3>1 DEF DistinctTypes
    <3>2. CASE i \in 1 .. c /\ j = c + 1
      BY <2>2, <2>4, <2>5, <3>2
    <3>3. CASE i = c + 1 /\ j \in 1 .. c
      BY <2>2, <2>4, <2>5, <3>3
    <3>4. (i \in 1 .. c \/ i = c + 1) /\ (j \in 1 .. c \/ j = c + 1)
      OBVIOUS
    <3> QED BY <3>1, <3>2, <3>3, <3>4
  <2>6. DistinctTypes(w)
    BY <2>2, <2>5 DEF DistinctTypes
  <2> QED BY <2>3, <2>6
<1> QED BY <1>2, <1>3

(* The MIME table never has a type twice. *)
LEMMA TypesDistinct ==
  ASSUME NEW es \in Seq(ContentRecords)
  PROVE  DistinctTypes(TypesOf(es))
<1>1. PICK N \in Nat : N = Len(es)
  BY LenProperties
<1>2. PICK f : f = TypesAfter(es) /\ TypesUpto(f, es)
  BY TypesExist
<1>3. /\ f \in [0 .. N -> Seq(Seq(Nat))] /\ f[0] = StandardTypes
      /\ \A i \in 1 .. N : f[i] = NextType(f[i - 1], es[i])
  BY <1>1, <1>2 DEF TypesUpto
<1> DEFINE S == {i \in 0 .. N : DistinctTypes(f[i])}
<1>4. 0 \in S
  <2>1. DistinctTypes(f[0])
    BY <1>3, TypesAssumption DEF DistinctTypes
  <2> QED BY <2>1
<1>5. ASSUME NEW i \in 0 .. N - 1, i \in S PROVE i + 1 \in S
  <2>1. i + 1 \in 1 .. N /\ (i + 1) - 1 = i /\ i + 1 \in 0 .. N /\ i \in 0 .. N
    OBVIOUS
  <2>2. PICK b \in Seq(Seq(Nat)) : b = f[i] /\ DistinctTypes(b)
    BY <1>3, <1>5, <2>1
  <2>3. es[i + 1].mime \in Seq(Nat)
    BY <1>1, <2>1, RecordsAssumption, LenProperties
  <2>4. DistinctTypes(NextType(b, es[i + 1]))
    BY <2>2, <2>3, NextTypeDistinct
  <2>5. f[i + 1] = NextType(b, es[i + 1])
    BY <1>3, <2>1, <2>2
  <2> QED BY <2>1, <2>4, <2>5
<1>6. 0 .. N \subseteq S
  <2> HIDE DEF S
  <2> QED BY <1>4, <1>5, IntervalInduction
<1>7. N \in S
  BY <1>6
<1> QED BY <1>1, <1>2, <1>7 DEF TypesOf

(* The chosen elements of a sequence are as many as the numbers chosen, *)
(* and are the elements at those numbers.                               *)
LEMMA ChosenSet ==
  ASSUME NEW s, NEW I \in SUBSET Nat, IsFiniteSet(I)
  PROVE  /\ Chosen(s, I) \in Seq({s[i] : i \in I}) /\ Len(Chosen(s, I)) = Cardinality(I)
         /\ ToSet(Chosen(s, I)) = {s[i] : i \in I}
         /\ Cardinality(I) \in Nat
         /\ \A k \in 1 .. Cardinality(I) : \E i \in I : Chosen(s, I)[k] = s[i]
         /\ \A i \in I : \E k \in 1 .. Cardinality(I) : Chosen(s, I)[k] = s[i]
<1>1. PICK n \in Nat : \E u : Enumerates(u, I, n) /\ u = NumbersOf(I)
                           /\ Chosen(s, I) = [k \in 1 .. n |-> s[u[k]]] /\ Len(Chosen(s, I)) = n
  BY ChosenFacts
<1>2. PICK u : Enumerates(u, I, n) /\ Chosen(s, I) = [k \in 1 .. n |-> s[u[k]]]
  BY <1>1
<1>3. PICK c : c = Chosen(s, I)
  OBVIOUS
<1>4. PICK B : B = {s[i] : i \in I}
  OBVIOUS
<1>5. n = Cardinality(I) /\ \A k \in 1 .. n : u[k] \in I
  BY <1>2 DEF Enumerates
<1>6. \A x \in I : \E i \in 1 .. n : u[i] = x
  BY <1>2 DEF Enumerates
<1>7. \A k \in 1 .. n : c[k] = s[u[k]] /\ c[k] \in B
  BY <1>2, <1>3, <1>4, <1>5
<1>8. c \in [1 .. n -> B]
  BY <1>2, <1>3, <1>7
<1>9. c \in Seq(B) /\ Len(c) = n
  BY <1>8
<1>10. DOMAIN c = 1 .. n
  BY <1>8
<1>11. \A i \in I : \E k \in 1 .. n : c[k] = s[i]
  BY <1>6, <1>7
<1>12. \A k \in 1 .. n : \E i \in I : c[k] = s[i]
  BY <1>5, <1>7
<1>13. ToSet(c) = B
  <2>1. ToSet(c) = {c[k] : k \in 1 .. n}
    BY <1>10 DEF ToSet
  <2> QED BY <1>4, <1>7, <1>11, <2>1
<1> QED BY <1>3, <1>4, <1>5, <1>9, <1>11, <1>12, <1>13

(* The chosen elements are a sequence over any set that has them. *)
LEMMA ChosenSeq ==
  ASSUME NEW s, NEW I \in SUBSET Nat, IsFiniteSet(I), NEW B, \A i \in I : s[i] \in B
  PROVE  Chosen(s, I) \in Seq(B)
<1>1. PICK n \in Nat : \E u : Enumerates(u, I, n) /\ u = NumbersOf(I)
                           /\ Chosen(s, I) = [k \in 1 .. n |-> s[u[k]]] /\ Len(Chosen(s, I)) = n
  BY ChosenFacts
<1>2. PICK u : Enumerates(u, I, n) /\ Chosen(s, I) = [k \in 1 .. n |-> s[u[k]]]
  BY <1>1
<1>3. PICK c : c = Chosen(s, I)
  OBVIOUS
<1>4. \A k \in 1 .. n : u[k] \in I
  BY <1>2 DEF Enumerates
<1>5. c \in [1 .. n -> B]
  BY <1>2, <1>3, <1>4
<1>6. c \in Seq(B)
  BY <1>5
<1> QED BY <1>3, <1>6

(* The reader's index has, for each type of the table, the readable *)
(* entries of that type.                                            *)
MIMEIndexed ==
  archive.mimeToEntries
    = [m \in 1 .. Len(archive.mimeTypes) |-> OfType(archive.entries, unparsable, m)]

(* The index that Open has built is of that kind. *)
LEMMA MIMEIndexIs ==
  ASSUME IInv, phase = "open"
  PROVE  MIMEIndexed
<1>1. archive = LoadOf(file, unparsable)
  BY DEF IInv, OpenInv
<1>2. PICK a, f, u : a = archive /\ f = file /\ u = unparsable
  OBVIOUS
<1>3. a = LoadOf(f, u)
  BY <1>1, <1>2
<1>4. a.mimeTypes = TypesRead(f.mime).fields /\ a.entries = f.entries
      /\ a.mimeToEntries = [m \in 1 .. Len(TypesRead(f.mime).fields) |-> OfType(f.entries, u, m)]
  BY <1>3 DEF LoadOf
<1> QED BY <1>2, <1>4 DEF MIMEIndexed

(* The places of the readable entries whose record has the type m - 1. *)
SpotsOfType(es, unp, m) ==
  {i \in 1 .. Len([j \in 1 .. Len(es) |-> j - 1]) :
     /\ [j \in 1 .. Len(es) |-> j - 1][i] \notin unp
     /\ es[[j \in 1 .. Len(es) |-> j - 1][i] + 1].mime = m - 1}

(* The entries of a type are those at these places. *)
LEMMA OfTypeIs ==
  ASSUME NEW es, NEW unp, NEW m
  PROVE  OfType(es, unp, m) = Chosen([j \in 1 .. Len(es) |-> j - 1], SpotsOfType(es, unp, m))
BY Zenon DEF OfType, Where, Chosen, SpotsOfType, NumbersOf

(* The entries of a type are exactly the readable ones whose record says *)
(* so.                                                                   *)
LEMMA OfTypeSet ==
  ASSUME NEW es, NEW n \in Nat, Len(es) = n, NEW unp, NEW m
  PROVE  /\ OfType(es, unp, m) \in Seq(Nat)
         /\ ToSet(OfType(es, unp, m)) = {id \in 0 .. n - 1 : id \notin unp /\ es[id + 1].mime = m - 1}
<1>1. PICK s : s = [j \in 1 .. n |-> j - 1]
  OBVIOUS
<1>2. s \in [1 .. n -> Nat] /\ Len(s) = n /\ \A j \in 1 .. n : s[j] = j - 1
  <2>1. s \in [1 .. n -> Nat]
    BY <1>1
  <2>2. s \in Seq(Nat) /\ Len(s) = n
    BY <2>1
  <2> QED BY <1>1, <2>1, <2>2
<1>3. PICK I : I = {i \in 1 .. n : s[i] \notin unp /\ es[s[i] + 1].mime = m - 1}
  OBVIOUS
<1>4. SpotsOfType(es, unp, m) = I
  BY <1>1, <1>2, <1>3 DEF SpotsOfType
<1>5. I \in SUBSET Nat /\ IsFiniteSet(I)
  <2>1. I \in SUBSET (1 .. n) /\ I \in SUBSET Nat
    BY <1>3
  <2>2. IsFiniteSet(1 .. n)
    BY FS_Interval
  <2> QED BY <2>1, <2>2, FS_Subset
<1>6. PICK c : c = Chosen(s, I) /\ c = OfType(es, unp, m)
  <2>1. OfType(es, unp, m) = Chosen([j \in 1 .. Len(es) |-> j - 1], SpotsOfType(es, unp, m))
    BY OfTypeIs
  <2> QED BY <1>1, <1>4, <2>1
<1>7. PICK B : B = {s[i] : i \in I}
  OBVIOUS
<1>8. c \in Seq(B) /\ Len(c) = Cardinality(I) /\ ToSet(c) = B
  BY <1>5, <1>6, <1>7, ChosenSet, ZenonT(30)
<1>9. B = {id \in 0 .. n - 1 : id \notin unp /\ es[id + 1].mime = m - 1}
  <2>1. ASSUME NEW i \in I
        PROVE  s[i] \in 0 .. n - 1 /\ s[i] \notin unp /\ es[s[i] + 1].mime = m - 1
    <3>1. i \in 1 .. n /\ s[i] = i - 1
      BY <1>2, <1>3
    <3> QED BY <1>3, <3>1
  <2>2. ASSUME NEW id \in 0 .. n - 1, id \notin unp, es[id + 1].mime = m - 1
        PROVE  id \in B
    <3>1. id + 1 \in 1 .. n /\ (id + 1) - 1 = id
      OBVIOUS
    <3>2. s[id + 1] = id
      BY <1>2, <3>1
    <3>3. id + 1 \in I
      BY <1>3, <2>2, <3>1, <3>2
    <3> QED BY <1>7, <3>2, <3>3
  <2> QED BY <1>7, <2>1, <2>2
<1>10. B \in SUBSET Nat
  BY <1>9
<1>11. c \in Seq(Nat)
  <2>1. PICK k \in Nat : k = Len(c)
    BY <1>8, LenProperties
  <2>2. c = [i \in 1 .. k |-> c[i]] /\ \A i \in 1 .. k : c[i] \in B
    BY <1>8, <2>1, LenProperties
  <2>3. c \in [1 .. k -> Nat]
    BY <1>10, <2>2
  <2> QED BY <2>3
<1> QED BY <1>6, <1>8, <1>9, <1>11

(* EntriesByMIME shows exactly the readable entries that were added with *)
(* the type.                                                             *)
OfTypeRight(type) ==
  ToSet(IdsOf(EntriesByMIME(archive, type)))
    = {id \in Ids \ unparsable : ~IsRedirectID(id) /\ entries[id + 1].mime = type}

(* An ID is that of a content entry exactly if it is below their number. *)
LEMMA IdsBelow ==
  ASSUME TypeInv, NEW id \in Ids, NEW m, m = Len(entries)
  PROVE  ~IsRedirectID(id) <=> id \in 0 .. m - 1
<1>1. PICK n \in Nat, R \in Nat, k \in Nat :
        n = Len(redirects) /\ R = RedirectIDBit /\ k = m /\ k = Len(entries)
  BY IdsAre, CatalogueAssumption
<1>2. Ids = (0 .. k - 1) \union {R + j : j \in 0 .. n - 1}
  BY <1>1, IdsAre
<1>3. k < R
  <2>1. k <= MaxNames /\ MaxNames < R /\ MaxNames \in Nat
    BY <1>1, IdsAre, CatalogueAssumption
  <2> QED BY <2>1
<1>4. CASE id \in 0 .. k - 1
  <2>1. ~(id >= R)
    BY <1>3, <1>4
  <2> QED BY <1>1, <1>4, <2>1 DEF IsRedirectID
<1>5. CASE id \in {R + j : j \in 0 .. n - 1}
  <2>1. PICK j \in 0 .. n - 1 : id = R + j
    BY <1>5
  <2>2. id >= R /\ ~(id \in 0 .. k - 1)
    BY <1>3, <2>1
  <2> QED BY <1>1, <2>2 DEF IsRedirectID
<1> QED BY <1>2, <1>4, <1>5

(* It does so for every type of the table and of the entries. *)
LEMMA ByMIMERight ==
  ASSUME TypeInv, Fits, NEW turned \in BOOLEAN, Opened(turned), MIMEIndexed, NEW type,
         type \in Range(StandardTypes) \union {entries[i].mime : i \in 1 .. Len(entries)}
  PROVE  OfTypeRight(type)
<1>1. PICK m \in Nat : m = Len(entries)
  BY IdsAre
<1>2. entries \in Seq(ContentRecords) /\ Len(TypesOf(entries)) < MIMELimit
  BY FitsIs DEF TypeInv, FitsOf
<1>3. PICK types \in Seq(Seq(Nat)) : types = TypesOf(entries) /\ types = archive.mimeTypes
  BY <1>2, TypesFacts DEF Opened, Archived
<1>4. PICK t \in Nat : t = Len(types)
  BY LenProperties
<1>5. \A i, j \in 1 .. t : types[i] = types[j] => i = j
  <2>1. DistinctTypes(types)
    BY <1>2, <1>3, TypesDistinct
  <2> QED BY <1>4, <2>1 DEF DistinctTypes
<1>6. PICK k \in 1 .. t : types[k] = type
  <2>1. CASE type \in Range(StandardTypes)
    <3>1. PICK i \in DOMAIN StandardTypes : StandardTypes[i] = type
      BY <2>1 DEF Range
    <3>2. PICK c \in Nat : c = Len(StandardTypes) /\ i \in 1 .. c
      BY <3>1, RecordsAssumption, LenProperties
    <3>3. c <= t /\ \A j \in 1 .. c : types[j] = StandardTypes[j]
      BY <1>2, <1>3, <1>4, <3>2, TypesFacts DEF IsPrefixOf
    <3>4. i \in 1 .. t /\ types[i] = type
      BY <3>1, <3>2, <3>3
    <3> QED BY <3>4
  <2>2. CASE type \in {entries[i].mime : i \in 1 .. Len(entries)}
    BY <1>2, <1>3, <1>4, <2>2, TypesFacts
  <2> QED BY <2>1, <2>2
<1>7. PICK at : at = {i \in 1 .. t : types[i] = type}
  OBVIOUS
<1>8. at = {k}
  BY <1>5, <1>6, <1>7
<1>9. Min(at) = k /\ at # {}
  BY <1>8 DEF Min
<1>10. PICK es : es = archive.entries /\ es = EntriesOf(entries)
  BY DEF Opened, Archived
<1>11. Len(es) = m
  BY <1>1, <1>10 DEF EntriesOf
<1>12. PICK ids : ids = OfType(es, unparsable, k)
  OBVIOUS
<1>13. archive.mimeToEntries[Min(at)] = ids
  BY <1>3, <1>4, <1>6, <1>9, <1>10, <1>12 DEF MIMEIndexed
<1>14. /\ ids \in Seq(Nat)
       /\ ToSet(ids) = {id \in 0 .. m - 1 : id \notin unparsable /\ es[id + 1].mime = k - 1}
  BY <1>11, <1>12, OfTypeSet
<1>15. PICK n \in Nat : n = Len(ids)
  BY <1>14, LenProperties
<1>16. ASSUME NEW i \in 1 .. n PROVE ids[i] \in 0 .. m - 1 /\ ids[i] \notin unparsable /\ ids[i] \in Ids
  <2>1. ids[i] \in ToSet(ids)
    BY <1>14, <1>15 DEF ToSet
  <2>2. ids[i] \in 0 .. m - 1 /\ ids[i] \notin unparsable
    BY <1>14, <2>1
  <2> QED BY <1>1, <2>2, IdsAre
<1>17. PICK list : list = [i \in 1 .. n |-> EntryByID(archive, ids[i])]
  OBVIOUS
<1>18. ASSUME NEW i \in 1 .. n PROVE list[i] # Missing /\ list[i].id = ids[i]
  <2>1. StandsFor(EntryByID(archive, ids[i]), ids[i]) /\ ids[i] \notin unparsable
    BY <1>16, EntryStands
  <2> QED BY <1>17, <2>1 DEF StandsFor
<1>19. EntriesByMIME(archive, type) = UntilMissing(list)
  <2>1. {i \in 1 .. Len(archive.mimeTypes) : archive.mimeTypes[i] = type} = at
    BY <1>3, <1>4, <1>7
  <2> QED BY <1>9, <1>13, <1>15, <1>17, <2>1 DEF EntriesByMIME
<1>20. PICK C : C = {list[i] : i \in 1 .. n}
  OBVIOUS
<1>21. list \in Seq(C) /\ Len(list) = n
  <2>1. list \in [1 .. n -> C]
    BY <1>17, <1>20
  <2> QED BY <2>1
<1>22. PICK shown : shown = UntilMissing(list)
  OBVIOUS
<1>23. Len(shown) = n /\ \A i \in 1 .. n : shown[i] = list[i]
  <2>1. PICK c \in 0 .. Len(list) : CutBefore(shown, list, c)
    BY <1>21, <1>22, UntilMissingCuts
  <2>2. c \in 0 .. n /\ Len(shown) = c /\ (\A i \in 1 .. c : shown[i] = list[i])
        /\ (c < n => list[c + 1] = Missing)
    BY <1>21, <2>1 DEF CutBefore
  <2>3. c < n => c + 1 \in 1 .. n
    BY <2>2
  <2>4. ~(c < n)
    BY <1>18, <2>2, <2>3
  <2>5. c = n
    BY <2>2, <2>4
  <2> QED BY <2>2, <2>5
<1>24. PICK shownIds : shownIds = IdsOf(shown)
  OBVIOUS
<1>25. shownIds = [i \in 1 .. n |-> ids[i]]
  BY <1>18, <1>23, <1>24 DEF IdsOf
<1>26. ToSet(shownIds) = ToSet(ids)
  <2>1. ToSet(shownIds) = {ids[i] : i \in 1 .. n}
    BY <1>25 DEF ToSet
  <2>2. ToSet(ids) = {ids[i] : i \in 1 .. n}
    <3>1. DOMAIN ids = 1 .. n
      BY <1>14, <1>15, LenProperties
    <3> QED BY <3>1 DEF ToSet
  <2> QED BY <2>1, <2>2
<1>27. ASSUME NEW id \in 0 .. m - 1 PROVE es[id + 1].mime = k - 1 <=> entries[id + 1].mime = type
  <2>1. id + 1 \in 1 .. Len(entries)
    BY <1>1
  <2>2. PICK y : y = es[id + 1].mime
    OBVIOUS
  <2>3. y \in 0 .. t - 1 /\ types[y + 1] = entries[id + 1].mime
    BY <1>2, <1>3, <1>4, <1>10, <2>1, <2>2, EntryMIME
  <2>4. y + 1 \in 1 .. t
    BY <2>3
  <2>5. y = k - 1 => y + 1 = k
    BY <2>3
  <2>6. y + 1 = k => y = k - 1
    BY <2>3
  <2> QED BY <1>5, <1>6, <2>2, <2>3, <2>4, <2>5, <2>6
<1>28. {id \in Ids \ unparsable : ~IsRedirectID(id) /\ entries[id + 1].mime = type} = ToSet(ids)
  <2>1. 0 .. m - 1 \subseteq Ids
    BY <1>1, IdsAre
  <2>2. \A id \in Ids : ~IsRedirectID(id) <=> id \in 0 .. m - 1
    BY <1>1, IdsBelow
  <2> QED BY <1>14, <1>27, <2>1, <2>2
<1> QED BY <1>19, <1>22, <1>24, <1>26, <1>28 DEF OfTypeRight

(*****************************************************************************)
(* The front articles, the keys and the records                              *)
(*****************************************************************************)
(* If every entry parses, the front articles are those that were added as    *)
(* such.                                                                     *)
FrontRight ==
  unparsable = {} =>
    {entries[id + 1].path : id \in ToSet(IdsOf(FrontArticles(archive)))}
      = {e.path : e \in {f \in ToSet(entries) : f.front}}

(* The places of the front articles. *)
FrontSpots(s) == {i \in 1 .. Len(s) : s[i].front}

(* FrontArticles shows what is at these places. *)
LEMMA FrontsAre ==
  FrontArticles(archive) = Chosen(Entries(archive), FrontSpots(Entries(archive)))
BY Zenon DEF FrontArticles, Where, Chosen, FrontSpots, NumbersOf

(* The record keeps the flag of the front article. *)
LEMMA FrontOfEntry ==
  ASSUME TypeInv, Fits, NEW turned, Opened(turned), NEW i \in 1 .. Len(entries),
         i - 1 \notin unparsable
  PROVE  EntryByID(archive, i - 1).front = entries[i].front
<1>1. PICK m \in Nat : m = Len(entries)
  BY IdsAre
<1>2. PICK x \in Nat : x = i - 1 /\ x + 1 = i /\ x \in 0 .. m - 1
  <2>1. i - 1 \in Nat /\ (i - 1) + 1 = i /\ i - 1 \in 0 .. m - 1
    BY <1>1
  <2> QED BY <2>1
<1>3. x \in Ids /\ ~IsRedirectID(x)
  <2>1. x \in Ids
    BY <1>1, <1>2, IdsAre
  <2> QED BY <1>1, <1>2, <2>1, IdsBelow
<1>4. EntryByID(archive, x) # Missing
  BY <1>2, <1>3, EntryStands DEF StandsFor
<1>5. EntryByID(archive, x)
        = [id |-> x, path |-> NameOf(archive.idToPath, x), title |-> NameOf(archive.idToTitle, x),
           mime |-> archive.entries[x + 1].mime, front |-> archive.entries[x + 1].front, target |-> -1]
  BY <1>3, <1>4, Zenon DEF EntryByID
<1>6. EntryByID(archive, x).front = archive.entries[x + 1].front
  BY <1>5
<1>7. archive.entries = EntriesOf(entries) /\ entries \in Seq(ContentRecords)
      /\ Len(TypesOf(entries)) < MIMELimit
  BY FitsIs DEF Opened, Archived, TypeInv, FitsOf
<1>8. EntriesOf(entries)[i].front = entries[i].front
  BY <1>7, EntryMIME
<1> QED BY <1>2, <1>6, <1>7, <1>8, Zenon

(* FrontArticles shows what was added as a front article, and nothing *)
(* else.                                                              *)
LEMMA FrontIsRight ==
  ASSUME TypeInv, Fits, NEW turned \in BOOLEAN, Opened(turned)
  PROVE  FrontRight
<1>1. SUFFICES ASSUME unparsable = {}
               PROVE  {entries[id + 1].path : id \in ToSet(IdsOf(FrontArticles(archive)))}
                        = {e.path : e \in {f \in ToSet(entries) : f.front}}
  BY Zenon DEF FrontRight
<1>2. PICK m \in Nat : m = Len(entries)
  BY IdsAre
<1>3. PICK A : \E x : Lists(ContentList, x, m, A) /\ x = [i \in 1 .. m |-> i - 1]
  BY <1>2, ContentListed
<1>4. PICK x : Lists(ContentList, x, m, A) /\ x = [i \in 1 .. m |-> i - 1]
  BY <1>3
<1>5. PICK s : s = Entries(archive) /\ s = UntilMissing(ContentList)
  BY DEF Entries, ContentList
<1>6. PICK c \in 0 .. m : ShownUpTo(s, ContentList, x, m, c)
  BY <1>4, <1>5, ListedOnce
<1>7. Len(s) = m /\ \A i \in 1 .. m : s[i] = ContentList[i]
  BY <1>1, <1>6 DEF ShownUpTo
<1>8. Len(ContentList) = m
  BY <1>4 DEF Lists
<1>9. Len(archive.entries) = m
  BY <1>2 DEF Opened, Archived, EntriesOf
<1>10. ASSUME NEW i \in 1 .. m PROVE s[i].id = i - 1 /\ (s[i].front <=> entries[i].front)
  <2>1. s[i] = EntryByID(archive, i - 1)
    BY <1>7, <1>9 DEF ContentList
  <2>2. x[i] \notin unparsable
    BY <1>1
  <2>3. ContentList[i].id = x[i] /\ x[i] = i - 1
    BY <1>4, <2>2 DEF Lists
  <2>4. i - 1 \notin unparsable /\ i \in 1 .. Len(entries)
    BY <1>1, <1>2
  <2>5. EntryByID(archive, i - 1).front = entries[i].front
    BY <2>4, FrontOfEntry
  <2>6. s[i].front = entries[i].front
    BY <2>1, <2>5, Zenon
  <2> QED BY <1>7, <2>3, <2>6, Zenon
<1>11. PICK I : I = FrontSpots(s)
  OBVIOUS
<1>12. I = {i \in 1 .. m : s[i].front}
  BY <1>7, <1>11, Zenon DEF FrontSpots
<1>13. I \in SUBSET Nat /\ IsFiniteSet(I)
  <2>1. I \in SUBSET (1 .. m) /\ I \in SUBSET Nat
    BY <1>12
  <2>2. IsFiniteSet(1 .. m)
    BY FS_Interval
  <2> QED BY <2>1, <2>2, FS_Subset
<1>14. PICK w : w = Chosen(s, I) /\ w = FrontArticles(archive)
  BY <1>5, <1>11, FrontsAre, Zenon
<1>15. PICK n \in Nat : n = Cardinality(I)
  BY <1>13, ChosenSet
<1>16. /\ Len(w) = n /\ \A k \in 1 .. n : \E i \in I : w[k] = s[i]
       /\ \A i \in I : \E k \in 1 .. n : w[k] = s[i]
  <2>1. /\ Len(Chosen(s, I)) = Cardinality(I)
        /\ \A k \in 1 .. Cardinality(I) : \E i \in I : Chosen(s, I)[k] = s[i]
        /\ \A i \in I : \E k \in 1 .. Cardinality(I) : Chosen(s, I)[k] = s[i]
    BY <1>13, ChosenSet
  <2>2. w = Chosen(s, I)
    BY <1>14
  <2> QED BY <1>15, <2>1, <2>2
<1>17. PICK ids : ids = IdsOf(w)
  OBVIOUS
<1>18. ids = [k \in 1 .. n |-> w[k].id]
  BY <1>16, <1>17 DEF IdsOf
<1>19. ToSet(ids) = {w[k].id : k \in 1 .. n}
  BY <1>18 DEF ToSet
<1>20. \A i \in I : i \in 1 .. m
  BY <1>12
<1>21. ASSUME NEW id \in ToSet(ids) PROVE id + 1 \in I
  <2>1. PICK k \in 1 .. n : id = w[k].id
    BY <1>19
  <2>2. PICK i \in I : w[k] = s[i]
    BY <1>16
  <2>3. id = i - 1 /\ i \in 1 .. m
    BY <1>10, <1>20, <2>1, <2>2
  <2>4. id + 1 = i
    BY <2>3
  <2> QED BY <2>2, <2>4
<1>22. ASSUME NEW i \in I PROVE i - 1 \in ToSet(ids) /\ (i - 1) + 1 = i
  <2>1. PICK k \in 1 .. n : w[k] = s[i]
    BY <1>16
  <2>2. w[k].id = i - 1 /\ i \in 1 .. m
    BY <1>10, <1>20, <2>1
  <2>3. i - 1 \in ToSet(ids)
    BY <1>19, <2>2
  <2> QED BY <2>2, <2>3
<1>23. {entries[id + 1].path : id \in ToSet(ids)} = {entries[i].path : i \in I}
  <2>1. \A id \in ToSet(ids) : \E i \in I : entries[id + 1].path = entries[i].path
    BY <1>21
  <2>2. \A i \in I : \E id \in ToSet(ids) : entries[i].path = entries[id + 1].path
    <3>1. ASSUME NEW i \in I PROVE \E id \in ToSet(ids) : entries[i].path = entries[id + 1].path
      BY <1>22
    <3> QED BY <3>1
  <2> QED BY <2>1, <2>2
<1>24. I = {i \in 1 .. m : entries[i].front}
  BY <1>10, <1>12, Zenon
<1>25. PICK E : E = {f \in ToSet(entries) : f.front}
  OBVIOUS
<1>26. ToSet(entries) = {entries[i] : i \in 1 .. m}
  <2>1. DOMAIN entries = 1 .. m
    BY <1>2, LenProperties DEF TypeInv
  <2> QED BY <2>1 DEF ToSet
<1>27. \A e \in E : \E i \in I : e = entries[i]
  BY <1>24, <1>25, <1>26, Zenon
<1>28. \A i \in I : entries[i] \in E
  BY <1>24, <1>25, <1>26, Zenon
<1>29. {e.path : e \in E} = {entries[i].path : i \in I}
  <2>1. \A e \in E : \E i \in I : e.path = entries[i].path
    BY <1>27
  <2> QED BY <1>28, <2>1
<1> QED BY <1>14, <1>17, <1>23, <1>25, <1>29

(* ForEachTitleKey goes over one key for each name, for it reads no *)
(* record.                                                          *)
LEMMA TitleKeysRight ==
  ASSUME TypeInv, Fits, NEW turned \in BOOLEAN, Opened(turned)
  PROVE  Len(ForEachTitleKey(archive)) = Len(Names)
<1>1. PICK n \in Nat : n = Len(Names)
  BY NamesDistinct, LenProperties
<1>2. PICK records : records = archive.titleIdx
  OBVIOUS
<1>3. PICK r : Placed(records, Names, TitlesOf(Names), r, n)
  BY <1>1, <1>2, IndicesPlaced
<1>4. Len(records) = n /\ \A i \in 1 .. n : records[i].ok
  BY <1>3, Zenon DEF Placed, Ordered
<1>5. {i \in 1 .. Len(records) : ~records[i].ok} = {}
  BY <1>4, Zenon
<1>6. ForEach(records) = records
  BY <1>5, Zenon DEF ForEach
<1>7. ForEachTitleKey(archive) = [i \in 1 .. n |-> records[i].key]
  BY <1>2, <1>4, <1>6, Zenon DEF ForEachTitleKey
<1>8. Len([i \in 1 .. n |-> records[i].key]) = n
  OBVIOUS
<1> QED BY <1>1, <1>7, <1>8

(* The numbers below n whose record parses. *)
RecordsOf(n) == Where([i \in 1 .. n |-> i - 1], LAMBDA id : id \notin unparsable)

(* ForEachEntryRecord goes over the records that parse and skips the *)
(* others.                                                           *)
LEMMA EntryRecordsRight ==
  ASSUME TypeInv, NEW turned, Opened(turned)
  PROVE  ForEachEntryRecord(archive)
           = Where([i \in 1 .. Len(entries) |-> i - 1], LAMBDA id : id \notin unparsable)
<1>1. Len(archive.entries) = Len(entries)
  <2>1. PICK m \in Nat : m = Len(entries)
    BY IdsAre
  <2> QED BY <2>1 DEF Opened, Archived, EntriesOf
<1>2. ForEachEntryRecord(archive) = RecordsOf(Len(archive.entries))
  BY Zenon DEF ForEachEntryRecord, RecordsOf
<1>3. RecordsOf(Len(entries))
        = Where([i \in 1 .. Len(entries) |-> i - 1], LAMBDA id : id \notin unparsable)
  BY Zenon DEF RecordsOf
<1> QED BY <1>1, <1>2, <1>3, Zenon

(*****************************************************************************)
(* The pages of the titles                                                   *)
(*****************************************************************************)
(* The page of a list from off to end.                                       *)
PageOf(list, off, end) == [i \in 1 .. end - off |-> list[off + i]]
(* The places of a page whose entry parses. *)
Present(s) == {i \in 1 .. Len(s) : s[i] # Missing}
(* What is shown of a page. *)
ShownPage(list, off, end) == Chosen(PageOf(list, off, end), Present(PageOf(list, off, end)))

(* The places from off to end whose entries parse. *)
PageSpots(x, off, end) == {i \in off + 1 .. end : x[i] \notin unparsable}

(* BrowseTitles drops the entries of a page that do not parse. *)
LEMMA PresentIs ==
  ASSUME NEW s
  PROVE  Where(s, LAMBDA e : e # Missing) = Chosen(s, Present(s))
BY Zenon DEF Where, Chosen, Present, NumbersOf

(* BrowseTitles shows the page from its offset to the end or to the limit, *)
(* and nothing behind the end.                                             *)
LEMMA BrowseIs ==
  ASSUME NEW n \in Nat, n = Len(archive.titleIdx), NEW off \in Nat, NEW limit \in Nat \ {0},
         NEW end, end = Min({off + limit, n})
  PROVE  BrowseTitles(archive, off, limit)
           = IF off >= n THEN <<>> ELSE ShownPage(TitleList, off, end)
<1>1. PICK page : page = [i \in 1 .. end - off |-> EntryFromTitle(archive, archive.titleIdx[off + i])]
  OBVIOUS
<1>2. BrowseTitles(archive, off, limit)
        = IF off >= n THEN <<>> ELSE Where(page, LAMBDA e : e # Missing)
  <2>1. ~(limit <= 0)
    OBVIOUS
  <2>2. BrowseTitles(archive, off, limit)
          = IF off >= n \/ limit <= 0 THEN <<>> ELSE Where(page, LAMBDA e : e # Missing)
    BY <1>1, Zenon DEF BrowseTitles
  <2> QED BY <2>1, <2>2, Zenon
<1>3. end <= n /\ end \in Nat
  BY MinOfTwo
<1>4. page = PageOf(TitleList, off, end)
  <2>1. ASSUME NEW i \in 1 .. end - off
        PROVE  TitleList[off + i] = EntryFromTitle(archive, archive.titleIdx[off + i])
    <3>1. off + i \in 1 .. n
      BY <1>3
    <3> QED BY <3>1 DEF TitleList
  <2> QED BY <1>1, <2>1 DEF PageOf
<1> QED BY <1>2, <1>4, PresentIs, Zenon DEF ShownPage

(* q shows the readable places from off to end, each once. *)
GoodPage(q, x, off, end, A) ==
  /\ q \in Seq(A) /\ IsFiniteSet(PageSpots(x, off, end))
  /\ Len(q) = Cardinality(PageSpots(x, off, end))
  /\ ToSet(IdsOf(q)) = {x[i] : i \in PageSpots(x, off, end)}

(* What is shown of a page of a list of entries are the readable ones. *)
LEMMA PageRight ==
  ASSUME NEW list, NEW x, NEW n \in Nat, NEW A, Lists(list, x, n, A),
         NEW off \in 0 .. n, NEW end \in off .. n
  PROVE  GoodPage(ShownPage(list, off, end), x, off, end, A)
<1>1. PICK p \in Nat, e \in Nat, d \in Nat : p = off /\ e = end /\ d = end - off /\ p + d = e /\ e <= n
  <2>1. off \in Nat /\ end \in Nat /\ end - off \in Nat /\ off + (end - off) = end /\ end <= n
    OBVIOUS
  <2> QED BY <2>1
<1>2. PICK s : s = PageOf(list, off, end)
  OBVIOUS
<1>3. s = [i \in 1 .. d |-> list[p + i]]
  BY <1>1, <1>2 DEF PageOf
<1>4. Len(s) = d /\ \A i \in 1 .. d : s[i] = list[p + i] /\ p + i \in 1 .. n /\ p + i \in p + 1 .. e
  <2>1. \A i \in 1 .. d : p + i \in 1 .. n /\ p + i \in p + 1 .. e
    BY <1>1
  <2> QED BY <1>3, <2>1
<1>5. PICK I : I = Present(s)
  OBVIOUS
<1>6. I = {i \in 1 .. d : s[i] # Missing}
  BY <1>4, <1>5 DEF Present
<1>7. I \in SUBSET Nat /\ IsFiniteSet(I)
  <2>1. I \in SUBSET (1 .. d) /\ I \in SUBSET Nat
    BY <1>6
  <2>2. IsFiniteSet(1 .. d)
    BY FS_Interval
  <2> QED BY <2>1, <2>2, FS_Subset
<1>8. PICK q : q = Chosen(s, I) /\ q = ShownPage(list, off, end)
  BY <1>2, <1>5 DEF ShownPage
<1>9. PICK c \in Nat : c = Cardinality(I)
  BY <1>7, ChosenSet
<1>10. PICK B : B = {s[i] : i \in I}
  OBVIOUS
<1>11. /\ q \in Seq(B) /\ Len(q) = c
       /\ \A k \in 1 .. c : \E i \in I : q[k] = s[i]
       /\ \A i \in I : \E k \in 1 .. c : q[k] = s[i]
  <2>3. Chosen(s, I) \in Seq(B)
    BY <1>7, <1>10, ChosenSeq
  <2>1. /\ Len(Chosen(s, I)) = Cardinality(I)
        /\ \A k \in 1 .. Cardinality(I) : \E i \in I : Chosen(s, I)[k] = s[i]
        /\ \A i \in I : \E k \in 1 .. Cardinality(I) : Chosen(s, I)[k] = s[i]
    BY <1>7, ChosenSet
  <2>2. q = Chosen(s, I)
    BY <1>8
  <2>4. q \in Seq(B)
    BY <1>10, <2>2, <2>3
  <2> QED BY <1>9, <2>1, <2>2, <2>4
<1>12. PICK P : P = PageSpots(x, off, end)
  OBVIOUS
<1>13. P = {i \in p + 1 .. e : x[i] \notin unparsable}
  BY <1>1, <1>12 DEF PageSpots
<1>14. ASSUME NEW i \in 1 .. d PROVE s[i] # Missing <=> x[p + i] \notin unparsable
  <2>1. s[i] = list[p + i] /\ p + i \in 1 .. n
    BY <1>4
  <2> QED BY <2>1 DEF Lists
<1>15. ASSUME NEW i \in I PROVE p + i \in P /\ s[i].id = x[p + i] /\ s[i] \in A
  <2>1. i \in 1 .. d /\ x[p + i] \notin unparsable
    BY <1>6, <1>14
  <2>2. s[i] = list[p + i] /\ p + i \in 1 .. n /\ p + i \in p + 1 .. e
    BY <1>4, <2>1
  <2>3. list[p + i] \in A /\ list[p + i].id = x[p + i]
    BY <2>1, <2>2, LenProperties DEF Lists
  <2> QED BY <1>13, <2>1, <2>2, <2>3
<1>16. ASSUME NEW j \in P PROVE j - p \in I /\ p + (j - p) = j
  <2>1. j \in p + 1 .. e /\ x[j] \notin unparsable
    BY <1>13
  <2>2. j - p \in 1 .. d /\ p + (j - p) = j
    BY <1>1, <2>1
  <2> QED BY <1>6, <1>14, <2>1, <2>2
<1>17. IsFiniteSet(P) /\ Cardinality(P) = c
  <2>1. PICK f : f = [i \in I |-> p + i]
    OBVIOUS
  <2>2. f \in [I -> P] /\ \A i \in I : f[i] = p + i
    BY <1>15, <2>1
  <2>3. \A i, j \in I : f[i] = f[j] => i = j
    BY <1>7, <2>2
  <2>4. \A j \in P : \E i \in I : f[i] = j
    BY <1>16, <2>2
  <2>5. f \in Injection(I, P)
    BY <2>2, <2>3 DEF Injection, IsInjective
  <2>6. f \in Surjection(I, P)
    BY <2>2, <2>4 DEF Surjection
  <2>7. ExistsBijection(I, P)
    BY <2>5, <2>6 DEF Bijection, ExistsBijection
  <2>8. IsFiniteSet(P)
    <3>1. P \in SUBSET (p + 1 .. e)
      BY <1>13
    <3>2. p + 1 \in Int /\ e \in Int
      BY <1>1
    <3>3. IsFiniteSet(p + 1 .. e)
      BY <3>2, FS_Interval
    <3> QED BY <3>1, <3>3, FS_Subset
  <2> QED BY <1>7, <1>9, <2>7, <2>8, FS_Bijection
<1>18. q \in Seq(A)
  <2>1. q = [k \in 1 .. c |-> q[k]]
    BY <1>11, LenProperties
  <2>2. \A k \in 1 .. c : q[k] \in A
    BY <1>11, <1>15
  <2>3. q \in [1 .. c -> A]
    BY <2>1, <2>2
  <2> QED BY <2>3
<1>19. PICK ids : ids = IdsOf(q)
  OBVIOUS
<1>20. ids = [k \in 1 .. c |-> q[k].id]
  BY <1>11, <1>19 DEF IdsOf
<1>21. ToSet(ids) = {q[k].id : k \in 1 .. c}
  BY <1>20 DEF ToSet
<1>22. ToSet(ids) = {x[i] : i \in P}
  <2>1. ASSUME NEW k \in 1 .. c PROVE \E i \in P : q[k].id = x[i]
    <3>1. PICK i \in I : q[k] = s[i]
      BY <1>11
    <3>2. p + i \in P /\ s[i].id = x[p + i]
      BY <1>15
    <3> QED BY <3>1, <3>2
  <2>2. ASSUME NEW j \in P PROVE \E k \in 1 .. c : q[k].id = x[j]
    <3>1. PICK i : i = j - p /\ i \in I /\ p + i = j
      BY <1>16
    <3>2. PICK k \in 1 .. c : q[k] = s[i]
      BY <1>11, <3>1
    <3> QED BY <1>15, <3>1, <3>2
  <2> QED BY <1>21, <2>1, <2>2
<1>23. GoodPage(q, x, off, end, A)
  BY <1>11, <1>12, <1>17, <1>18, <1>19, <1>22 DEF GoodPage
<1> QED BY <1>8, <1>23

(* Nothing is shown of an empty page. *)
LEMMA EmptyPage ==
  ASSUME NEW x, NEW n \in Nat, NEW A
  PROVE  GoodPage(<<>>, x, n, n, A)
<1>1. PICK P : P = PageSpots(x, n, n)
  OBVIOUS
<1>2. P = {}
  BY <1>1 DEF PageSpots
<1>3. IsFiniteSet(P) /\ Cardinality(P) = 0
  BY <1>2, FS_EmptySet
<1>4. PICK q : q = <<>>
  OBVIOUS
<1>5. q \in Seq(A) /\ Len(q) = 0
  BY <1>4
<1>6. ToSet(IdsOf(q)) = {}
  BY <1>5 DEF IdsOf, ToSet
<1>7. {x[i] : i \in P} = {}
  BY <1>2
<1> QED BY <1>1, <1>3, <1>4, <1>5, <1>6, <1>7 DEF GoodPage

(* Two lists in a row show the IDs of both. *)
LEMMA JoinedIds ==
  ASSUME NEW A, NEW u \in Seq(A), NEW v \in Seq(A)
  PROVE  ToSet(IdsOf(u \o v)) = ToSet(IdsOf(u)) \union ToSet(IdsOf(v))
<1>1. PICK a \in Nat, b \in Nat : a = Len(u) /\ b = Len(v)
  BY LenProperties
<1>2. PICK w : w = u \o v
  OBVIOUS
<1>3. /\ w \in Seq(A) /\ Len(w) = a + b
      /\ \A i \in 1 .. a : w[i] = u[i]
      /\ \A i \in 1 .. b : w[a + i] = v[i]
  <2>1. /\ u \o v \in Seq(A) /\ Len(u \o v) = Len(u) + Len(v)
        /\ \A i \in 1 .. Len(u) : (u \o v)[i] = u[i]
        /\ \A i \in 1 .. Len(v) : (u \o v)[Len(u) + i] = v[i]
    BY ConcatFacts
  <2> QED BY <1>1, <1>2, <2>1
<1>4. ToSet(IdsOf(u)) = {u[i].id : i \in 1 .. a}
  BY <1>1 DEF IdsOf, ToSet
<1>5. ToSet(IdsOf(v)) = {v[i].id : i \in 1 .. b}
  BY <1>1 DEF IdsOf, ToSet
<1>6. ToSet(IdsOf(w)) = {w[i].id : i \in 1 .. a + b}
  BY <1>3 DEF IdsOf, ToSet
<1>7. ASSUME NEW i \in 1 .. a + b
      PROVE  w[i].id \in {u[k].id : k \in 1 .. a} \union {v[k].id : k \in 1 .. b}
  <2>1. CASE i <= a
    <3>1. i \in 1 .. a
      BY <2>1
    <3> QED BY <1>3, <3>1
  <2>2. CASE i > a
    <3>1. PICK k \in 1 .. b : i = a + k
      <4>1. i - a \in 1 .. b /\ i = a + (i - a)
        BY <2>2
      <4> QED BY <4>1
    <3> QED BY <1>3, <3>1
  <2> QED BY <2>1, <2>2
<1>8. ASSUME NEW k \in 1 .. a PROVE \E i \in 1 .. a + b : u[k].id = w[i].id
  <2>1. k \in 1 .. a + b
    OBVIOUS
  <2> QED BY <1>3, <2>1
<1>9. ASSUME NEW k \in 1 .. b PROVE \E i \in 1 .. a + b : v[k].id = w[i].id
  <2>1. a + k \in 1 .. a + b
    OBVIOUS
  <2> QED BY <1>3, <2>1
<1>10. {w[i].id : i \in 1 .. a + b} = {u[k].id : k \in 1 .. a} \union {v[k].id : k \in 1 .. b}
  <2>1. ASSUME NEW z \in {w[i].id : i \in 1 .. a + b}
        PROVE  z \in {u[k].id : k \in 1 .. a} \union {v[k].id : k \in 1 .. b}
    BY <1>7
  <2>2. ASSUME NEW z \in {u[k].id : k \in 1 .. a} PROVE z \in {w[i].id : i \in 1 .. a + b}
    BY <1>8
  <2>3. ASSUME NEW z \in {v[k].id : k \in 1 .. b} PROVE z \in {w[i].id : i \in 1 .. a + b}
    BY <1>9
  <2> QED BY <2>1, <2>2, <2>3
<1> QED BY <1>2, <1>4, <1>5, <1>6, <1>10

(* Two pages that meet show, in a row, what one page over both would show. *)
LEMMA PagesJoin ==
  ASSUME NEW x, NEW A, NEW e \in Nat, NEW e2 \in Nat, e <= e2,
         NEW u, NEW v, GoodPage(u, x, 0, e, A), GoodPage(v, x, e, e2, A)
  PROVE  GoodPage(u \o v, x, 0, e2, A)
<1>1. PICK P, Q, R : P = PageSpots(x, 0, e) /\ Q = PageSpots(x, e, e2) /\ R = PageSpots(x, 0, e2)
  OBVIOUS
<1>2. R = P \union Q /\ P \intersect Q = {}
  <2>1. P = {i \in 1 .. e : x[i] \notin unparsable}
    BY <1>1 DEF PageSpots
  <2>2. Q = {i \in e + 1 .. e2 : x[i] \notin unparsable}
    BY <1>1 DEF PageSpots
  <2>3. R = {i \in 1 .. e2 : x[i] \notin unparsable}
    BY <1>1 DEF PageSpots
  <2>4. 1 .. e2 = (1 .. e) \union (e + 1 .. e2) /\ (1 .. e) \intersect (e + 1 .. e2) = {}
    OBVIOUS
  <2> QED BY <2>1, <2>2, <2>3, <2>4
<1>3. /\ u \in Seq(A) /\ IsFiniteSet(P) /\ Len(u) = Cardinality(P)
      /\ ToSet(IdsOf(u)) = {x[i] : i \in P}
  BY <1>1 DEF GoodPage
<1>4. /\ v \in Seq(A) /\ IsFiniteSet(Q) /\ Len(v) = Cardinality(Q)
      /\ ToSet(IdsOf(v)) = {x[i] : i \in Q}
  BY <1>1 DEF GoodPage
<1>5. PICK a \in Nat, b \in Nat : a = Cardinality(P) /\ b = Cardinality(Q)
  BY <1>3, <1>4, FS_CardinalityType
<1>6. IsFiniteSet(R) /\ Cardinality(R) = a + b
  <2>1. /\ IsFiniteSet(P \union Q)
        /\ Cardinality(P \union Q) = Cardinality(P) + Cardinality(Q) - Cardinality(P \intersect Q)
    BY <1>3, <1>4, FS_Union
  <2>2. Cardinality(P \intersect Q) = 0
    BY <1>2, FS_EmptySet
  <2>3. Cardinality(R) = a + b - 0
    BY <1>2, <1>5, <2>1, <2>2
  <2> QED BY <1>2, <2>1, <2>3
<1>7. PICK w : w = u \o v
  OBVIOUS
<1>8. w \in Seq(A) /\ Len(w) = a + b
  <2>1. u \o v \in Seq(A) /\ Len(u \o v) = Len(u) + Len(v)
    BY <1>3, <1>4, ConcatFacts
  <2> QED BY <1>3, <1>4, <1>5, <1>7, <2>1
<1>9. ToSet(IdsOf(w)) = {x[i] : i \in R}
  <2>1. ToSet(IdsOf(u \o v)) = ToSet(IdsOf(u)) \union ToSet(IdsOf(v))
    BY <1>3, <1>4, JoinedIds
  <2>2. {x[i] : i \in R} = {x[i] : i \in P} \union {x[i] : i \in Q}
    BY <1>2
  <2> QED BY <1>3, <1>4, <1>7, <2>1, <2>2
<1> QED BY <1>1, <1>6, <1>7, <1>8, <1>9 DEF GoodPage

(* The pages of a limit end at its multiples, or at the end of the list. *)
PageEnds(ends, mul, limit, n) ==
  /\ mul \in [0 .. n -> Nat] /\ mul[0] = 0 /\ mul[n] >= n
  /\ \A p \in 1 .. n : mul[p] = mul[p - 1] + limit
  /\ \A p \in 0 .. n : mul[p] = p * limit
  /\ ends = [p \in 0 .. n |-> Min({mul[p], n})]

(* There are such ends, and n pages are enough for a list of n. *)
LEMMA EndsFacts ==
  ASSUME NEW n \in Nat, NEW limit \in 1 .. 2
  PROVE  \E ends, mul : PageEnds(ends, mul, limit, n)
<1>1. PICK mul : mul = [p \in 0 .. n |-> p * limit]
  OBVIOUS
<1>2. limit = 1 \/ limit = 2
  OBVIOUS
<1>3. ASSUME NEW p \in Nat PROVE p * limit \in Nat /\ p * limit >= p
  <2>1. p * 1 = p /\ p * 2 = p + p
    OBVIOUS
  <2> QED BY <1>2, <2>1
<1>4. ASSUME NEW p \in Nat PROVE (p + 1) * limit = p * limit + limit
  <2>1. (p + 1) * 1 = p * 1 + 1 /\ (p + 1) * 2 = p * 2 + 2
    OBVIOUS
  <2> QED BY <1>2, <2>1
<1>5. mul \in [0 .. n -> Nat] /\ mul[0] = 0 /\ mul[n] >= n /\ \A p \in 0 .. n : mul[p] = p * limit
  <2>1. \A p \in 0 .. n : mul[p] = p * limit /\ p * limit \in Nat
    BY <1>1, <1>3
  <2>2. 0 * limit = 0 /\ 0 \in 0 .. n /\ n \in 0 .. n
    OBVIOUS
  <2> QED BY <1>1, <1>3, <2>1, <2>2
<1>6. ASSUME NEW p \in 1 .. n PROVE mul[p] = mul[p - 1] + limit
  <2>1. PICK k \in Nat : k = p - 1 /\ k + 1 = p /\ k \in 0 .. n /\ p \in 0 .. n
    <3>1. p - 1 \in Nat /\ (p - 1) + 1 = p /\ p - 1 \in 0 .. n /\ p \in 0 .. n
      OBVIOUS
    <3> QED BY <3>1
  <2>2. (k + 1) * limit = k * limit + limit
    BY <1>4
  <2> QED BY <1>5, <2>1, <2>2
<1>7. PICK ends : ends = [p \in 0 .. n |-> Min({mul[p], n})]
  OBVIOUS
<1> QED BY <1>5, <1>6, <1>7 DEF PageEnds

(* The pages of BrowseTitles at one limit. *)
Pages(limit, n) == [p \in 1 .. n |-> BrowseTitles(archive, (p - 1) * limit, limit)]

(* Every page shows the places between its two ends. *)
EachGood(ss, x, ends, n, A) == \A p \in 1 .. n : GoodPage(ss[p], x, ends[p - 1], ends[p], A)

(* The page p begins where the one before it ends, and ends a limit later *)
(* or at the end of the list.                                             *)
EndAt(ends, mul, limit, n, p) ==
  /\ (p - 1) * limit = mul[p - 1] /\ mul[p - 1] \in Nat
  /\ ends[p - 1] <= ends[p]
  /\ mul[p - 1] >= n => ends[p - 1] = n /\ ends[p] = n
  /\ mul[p - 1] < n => /\ ends[p - 1] = mul[p - 1]
                       /\ ends[p] = Min({mul[p - 1] + limit, n})

(* The pages meet, from the beginning of the list to its end. *)
LEMMA EndsMeet ==
  ASSUME NEW n \in Nat, NEW limit \in 1 .. 2, NEW ends, NEW mul, PageEnds(ends, mul, limit, n)
  PROVE  /\ ends \in [0 .. n -> 0 .. n] /\ ends[0] = 0 /\ ends[n] = n
         /\ \A p \in 1 .. n : EndAt(ends, mul, limit, n, p)
<1>1. /\ mul \in [0 .. n -> Nat] /\ mul[0] = 0 /\ mul[n] >= n
      /\ \A p \in 1 .. n : mul[p] = mul[p - 1] + limit
      /\ \A p \in 0 .. n : mul[p] = p * limit
      /\ ends = [p \in 0 .. n |-> Min({mul[p], n})]
  BY DEF PageEnds
<1>2. ASSUME NEW p \in 0 .. n
      PROVE  /\ ends[p] \in {mul[p], n} /\ ends[p] <= mul[p] /\ ends[p] <= n
             /\ mul[p] \in Nat /\ ends[p] = Min({mul[p], n}) /\ ends[p] \in 0 .. n
  <2>1. mul[p] \in Nat /\ ends[p] = Min({mul[p], n})
    BY <1>1
  <2>2. /\ Min({mul[p], n}) \in {mul[p], n} /\ Min({mul[p], n}) <= mul[p]
        /\ Min({mul[p], n}) <= n
    BY <2>1, MinOfTwo
  <2> QED BY <2>1, <2>2
<1>3. ends \in [0 .. n -> 0 .. n]
  BY <1>1, <1>2
<1>4. ends[0] = 0 /\ ends[n] = n
  <2>1. 0 \in 0 .. n /\ n \in 0 .. n
    OBVIOUS
  <2>2. ends[0] <= 0 /\ ends[0] \in 0 .. n
    BY <1>1, <1>2, <2>1
  <2>3. ends[n] \in {mul[n], n} /\ ends[n] <= n /\ mul[n] \in Nat
    BY <1>2, <2>1
  <2> QED BY <1>1, <2>2, <2>3
<1>5. ASSUME NEW p \in 1 .. n
      PROVE  EndAt(ends, mul, limit, n, p)
  <2>1. p - 1 \in 0 .. n /\ p \in 0 .. n
    OBVIOUS
  <2>2. (p - 1) * limit = mul[p - 1] /\ mul[p] = mul[p - 1] + limit
    BY <1>1, <2>1
  <2>3. PICK q : q = p - 1
    OBVIOUS
  <2>4. PICK a, b, c, d : a = mul[q] /\ b = mul[p] /\ c = ends[q] /\ d = ends[p]
    OBVIOUS
  <2>5. /\ c \in {a, n} /\ c <= a /\ c <= n /\ a \in Nat /\ c \in 0 .. n
        /\ d \in {b, n} /\ d <= b /\ d <= n /\ b \in Nat /\ d \in 0 .. n
        /\ d = Min({b, n})
    BY <1>2, <2>1, <2>3, <2>4
  <2>6. b = a + limit
    BY <2>2, <2>3, <2>4
  <2>7. c <= d /\ (a >= n => c = n /\ d = n) /\ (a < n => c = a)
    BY <2>5, <2>6
  <2>8. /\ ends[p - 1] <= ends[p]
        /\ mul[p - 1] >= n => ends[p - 1] = n /\ ends[p] = n
        /\ mul[p - 1] < n => ends[p - 1] = mul[p - 1]
    BY <2>3, <2>4, <2>7
  <2>9. (p - 1) * limit = mul[p - 1] /\ mul[p - 1] \in Nat
    BY <2>2, <2>3, <2>4, <2>5
  <2>10. ends[p] = Min({mul[p - 1] + limit, n})
    <3>1. d = Min({a + limit, n})
      BY <2>5, <2>6
    <3> QED BY <2>3, <2>4, <3>1
  <2> QED BY <2>8, <2>9, <2>10 DEF EndAt
<1> QED BY <1>3, <1>4, <1>5

(* BrowseTitles shows, on each page, what can be read of it. *)
LEMMA EachPageGood ==
  ASSUME NEW x, NEW n \in Nat, NEW A, Lists(TitleList, x, n, A), n = Len(archive.titleIdx),
         NEW limit \in 1 .. 2, NEW ends, NEW mul, PageEnds(ends, mul, limit, n)
  PROVE  EachGood(Pages(limit, n), x, ends, n, A)
<1> SUFFICES ASSUME NEW p \in 1 .. n
             PROVE  GoodPage(Pages(limit, n)[p], x, ends[p - 1], ends[p], A)
  BY DEF EachGood
<1>0. EndAt(ends, mul, limit, n, p) /\ ends \in [0 .. n -> 0 .. n]
  BY EndsMeet
<1>1. PICK off \in Nat : off = (p - 1) * limit /\ off = mul[p - 1]
  <2>1. (p - 1) * limit = mul[p - 1] /\ mul[p - 1] \in Nat
    BY <1>0 DEF EndAt
  <2> QED BY <2>1
<1>2. PICK e, e2 : e = ends[p - 1] /\ e2 = ends[p]
  OBVIOUS
<1>3. /\ e \in 0 .. n /\ e2 \in 0 .. n /\ e <= e2
      /\ off >= n => e = n /\ e2 = n
      /\ off < n => e = off /\ e2 = Min({off + limit, n})
  <2>1. /\ ends \in [0 .. n -> 0 .. n]
        /\ ends[p - 1] <= ends[p]
        /\ mul[p - 1] >= n => ends[p - 1] = n /\ ends[p] = n
        /\ mul[p - 1] < n => /\ ends[p - 1] = mul[p - 1]
                             /\ ends[p] = Min({mul[p - 1] + limit, n})
    BY <1>0 DEF EndAt
  <2>2. p - 1 \in 0 .. n /\ p \in 0 .. n
    OBVIOUS
  <2> QED BY <1>1, <1>2, <2>1, <2>2
<1>4. PICK q : q = BrowseTitles(archive, off, limit)
  OBVIOUS
<1>5. Pages(limit, n)[p] = q
  BY <1>1, <1>4 DEF Pages
<1>6. limit \in Nat \ {0}
  OBVIOUS
<1>7. PICK end : end = Min({off + limit, n})
  OBVIOUS
<1>8. q = IF off >= n THEN <<>> ELSE ShownPage(TitleList, off, end)
  <2>1. BrowseTitles(archive, off, limit)
           = IF off >= n THEN <<>> ELSE ShownPage(TitleList, off, end)
    BY <1>6, <1>7, BrowseIs
  <2> QED BY <1>4, <2>1
<1>9. CASE off >= n
  <2>1. q = <<>> /\ e = n /\ e2 = n
    BY <1>3, <1>8, <1>9
  <2>2. GoodPage(<<>>, x, n, n, A)
    BY EmptyPage
  <2> QED BY <1>2, <1>5, <2>1, <2>2
<1>10. CASE off < n
  <2>1. ~(off >= n) /\ off \in 0 .. n
    BY <1>10
  <2>2. q = ShownPage(TitleList, off, end) /\ e = off /\ e2 = end /\ end \in off .. n
    BY <1>3, <1>7, <1>8, <1>10, <2>1
  <2>3. GoodPage(ShownPage(TitleList, off, end), x, off, end, A)
    <3>1. PICK to : to = end
      OBVIOUS
    <3>2. off \in 0 .. n /\ to \in off .. n /\ Lists(TitleList, x, n, A)
      BY <2>1, <2>2, <3>1
    <3>3. GoodPage(ShownPage(TitleList, off, to), x, off, to, A)
      BY <3>2, PageRight
    <3> QED BY <3>1, <3>3
  <2>4. GoodPage(q, x, off, end, A)
    BY <2>2, <2>3
  <2> QED BY <1>2, <1>5, <2>2, <2>4
<1> QED BY <1>9, <1>10

(* All the pages in a row show what can be read of the list. *)
LEMMA PagesGood ==
  ASSUME NEW x, NEW n \in Nat, NEW A, NEW ss, ss \in Seq(Seq(A)), Len(ss) = n,
         NEW ends, ends \in [0 .. n -> 0 .. n], ends[0] = 0, ends[n] = n,
         \A p \in 1 .. n : ends[p - 1] <= ends[p], EachGood(ss, x, ends, n, A)
  PROVE  GoodPage(FlattenSeq(ss), x, 0, n, A)
<1>1. PICK f : Joins(f, ss, A)
  BY JoinsExist
<1>2. /\ f \in [0 .. n -> Seq(A)] /\ f[0] = <<>>
      /\ \A k \in 1 .. n : f[k] = f[k - 1] \o ss[k]
  BY <1>1 DEF Joins
<1>3. FlattenSeq(ss) = f[n]
  BY <1>1, FlattenJoins
<1>4. PICK S : S = {p \in 0 .. n : GoodPage(f[p], x, 0, ends[p], A)}
  OBVIOUS
<1>5. 0 \in S
  <2>1. GoodPage(<<>>, x, 0, 0, A)
    BY EmptyPage
  <2>2. GoodPage(f[0], x, 0, ends[0], A) /\ 0 \in 0 .. n
    BY <1>2, <2>1
  <2> QED BY <1>4, <2>2
<1>6. ASSUME NEW k \in 0 .. n - 1, k \in S PROVE k + 1 \in S
  <2>1. k \in 0 .. n /\ k + 1 \in 1 .. n /\ k + 1 \in 0 .. n /\ (k + 1) - 1 = k
    OBVIOUS
  <2>2. PICK e \in Nat, e2 \in Nat : e = ends[k] /\ e2 = ends[k + 1] /\ e <= e2
    <3>1. ends[k] \in 0 .. n /\ ends[k + 1] \in 0 .. n /\ ends[(k + 1) - 1] <= ends[k + 1]
      BY <2>1
    <3>2. ends[k] \in Nat /\ ends[k + 1] \in Nat /\ ends[k] <= ends[k + 1]
      BY <2>1, <3>1
    <3> QED BY <3>2
  <2>3. PICK u, v : u = f[k] /\ v = ss[k + 1]
    OBVIOUS
  <2>4. GoodPage(u, x, 0, e, A)
    BY <1>4, <1>6, <2>2, <2>3
  <2>5. GoodPage(v, x, e, e2, A)
    <3>1. GoodPage(ss[k + 1], x, ends[(k + 1) - 1], ends[k + 1], A)
      BY <2>1 DEF EachGood
    <3> QED BY <2>1, <2>2, <2>3, <3>1
  <2>6. GoodPage(u \o v, x, 0, e2, A)
    BY <2>2, <2>4, <2>5, PagesJoin
  <2>7. f[k + 1] = u \o v
    <3>1. f[k + 1] = f[(k + 1) - 1] \o ss[k + 1]
      BY <1>2, <2>1
    <3> QED BY <2>1, <2>3, <3>1
  <2> QED BY <1>4, <2>1, <2>2, <2>6, <2>7
<1>7. 0 .. n \subseteq S
  BY <1>5, <1>6, IntervalInduction
<1>8. n \in S
  BY <1>7
<1> QED BY <1>3, <1>4, <1>8

(* The list q shows what can be read of S, each once. *)
ShowsAll(q, S) ==
  ToSet(IdsOf(q)) = S \ unparsable /\ Len(q) = Cardinality(S \ unparsable)

(* A page over a whole list of S shows what can be read of S. *)
LEMMA GoodPageShowsAll ==
  ASSUME NEW list, NEW x, NEW n \in Nat, NEW A, Lists(list, x, n, A),
         NEW S, Covers(x, n, S), NEW q, GoodPage(q, x, 0, n, A)
  PROVE  ShowsAll(q, S)
<1>1. PICK P : P = PageSpots(x, 0, n)
  OBVIOUS
<1>2. P = {i \in 1 .. n : x[i] \notin unparsable}
  BY <1>1 DEF PageSpots
<1>3. IsFiniteSet(P) /\ Len(q) = Cardinality(P) /\ ToSet(IdsOf(q)) = {x[i] : i \in P}
  BY <1>1 DEF GoodPage
<1>4. PICK T : T = S \ unparsable
  OBVIOUS
<1>5. {x[i] : i \in 1 .. n} = S
  BY DEF Covers
<1>6. T = {x[i] : i \in P}
  BY <1>2, <1>4, <1>5
<1>7. PICK f : f = [i \in P |-> x[i]]
  OBVIOUS
<1>8. \A i, j \in P : f[i] = f[j] => i = j
  BY <1>2, <1>7 DEF Lists
<1>9. f \in [P -> T] /\ \A t \in T : \E i \in P : f[i] = t
  BY <1>6, <1>7
<1>10. f \in Injection(P, T)
  BY <1>8, <1>9 DEF Injection, IsInjective
<1>11. f \in Surjection(P, T)
  BY <1>9 DEF Surjection
<1>12. ExistsBijection(P, T)
  BY <1>10, <1>11 DEF Bijection, ExistsBijection
<1>13. IsFiniteSet(T)
  <2>1. f \in Surjection(P, T)
    BY <1>11
  <2> QED BY <1>3, <2>1, FS_Surjection
<1>14. Cardinality(P) = Cardinality(T)
  BY <1>3, <1>12, <1>13, FS_Bijection
<1> QED BY <1>3, <1>4, <1>6, <1>14 DEF ShowsAll

(* The pages of BrowseTitles, at either limit, show every readable entry *)
(* once.                                                                 *)
LEMMA PagesRight ==
  ASSUME TypeInv, Fits, NEW turned \in BOOLEAN, Opened(turned), NEW limit \in 1 .. 2
  PROVE  ShowsAll(FlattenSeq(Pages(limit, Len(Names))), Ids)
<1>1. PICK n \in Nat : \E x, A : /\ Lists(TitleList, x, n, A) /\ Covers(x, n, Ids)
                                 /\ n = Len(Names) /\ n = Len(archive.titleIdx)
  BY TitlesListed
<1>2. PICK x, A : /\ Lists(TitleList, x, n, A) /\ Covers(x, n, Ids)
                  /\ n = Len(Names) /\ n = Len(archive.titleIdx)
  BY <1>1
<1>3. PICK ends, mul : PageEnds(ends, mul, limit, n)
  BY EndsFacts
<1>4. PICK ss : ss = Pages(limit, n)
  OBVIOUS
<1>5. EachGood(ss, x, ends, n, A)
  <2>1. n = Len(archive.titleIdx) /\ Lists(TitleList, x, n, A)
    BY <1>2
  <2>2. EachGood(Pages(limit, n), x, ends, n, A)
    BY <1>3, <2>1, EachPageGood
  <2> QED BY <1>4, <2>2
<1>6. ss \in Seq(Seq(A)) /\ Len(ss) = n
  <2>1. \A p \in 1 .. n : ss[p] \in Seq(A)
    BY <1>5 DEF EachGood, GoodPage
  <2>2. ss = [p \in 1 .. n |-> ss[p]]
    BY <1>4 DEF Pages
  <2>3. ss \in [1 .. n -> Seq(A)]
    BY <2>1, <2>2
  <2> QED BY <2>3
<1>7. /\ ends \in [0 .. n -> 0 .. n] /\ ends[0] = 0 /\ ends[n] = n
      /\ \A p \in 1 .. n : ends[p - 1] <= ends[p]
  <2>1. /\ ends \in [0 .. n -> 0 .. n] /\ ends[0] = 0 /\ ends[n] = n
        /\ \A p \in 1 .. n : EndAt(ends, mul, limit, n, p)
    BY <1>3, EndsMeet
  <2> QED BY <2>1 DEF EndAt
<1>8. GoodPage(FlattenSeq(ss), x, 0, n, A)
  BY <1>5, <1>6, <1>7, PagesGood
<1>9. ShowsAll(FlattenSeq(ss), Ids)
  <2>1. Lists(TitleList, x, n, A) /\ Covers(x, n, Ids)
    BY <1>2
  <2> QED BY <1>8, <2>1, GoodPageShowsAll
<1>10. ss = Pages(limit, Len(Names))
  BY <1>2, <1>4
<1> QED BY <1>9, <1>10

(*****************************************************************************)
(* The listings agree                                                        *)
(*****************************************************************************)
(* What ListingsAgree says of the pages.                                     *)
PagesAgree ==
  \A limit \in 1 .. 2 :
    LET pages == FlattenSeq([p \in 1 .. Len(Names) |->
                   BrowseTitles(archive, (p - 1) * limit, limit)])
    IN  ToSet(IdsOf(pages)) = Ids \ unparsable
          /\ Len(pages) = Cardinality(Ids \ unparsable)
(* What it says of the lists by path, by title and by ID. *)
ListsAgree ==
  \A list \in {EntriesByPath(archive), EntriesByTitle(archive),
               Entries(archive) \o RedirectEntries(archive)} :
    /\ Cardinality(ToSet(IdsOf(list))) = Len(list)
    /\ unparsable = {} => ToSet(IdsOf(list)) = Ids
(* What it says of the lists by type. *)
TypesAgree ==
  \A type \in Range(StandardTypes) \union {entries[i].mime : i \in 1 .. Len(entries)} :
    ToSet(IdsOf(EntriesByMIME(archive, type)))
      = {id \in Ids \ unparsable : ~IsRedirectID(id) /\ entries[id + 1].mime = type}
(* What it says of the iterators that report errors. *)
ErrorsAgree ==
  \A list \in {EntriesErr(archive), EntriesByPathErr(archive)} :
    unparsable # {} <=> Missing \in ToSet(list)
(* What it says of the iterators over keys and records. *)
KeysAgree ==
  /\ Len(ForEachTitleKey(archive)) = Len(Names)
  /\ ForEachEntryRecord(archive) =
       Where([i \in 1 .. Len(entries) |-> i - 1], LAMBDA id : id \notin unparsable)

(* All of it holds of an open archive whose entries fit. *)
LEMMA AllAgree ==
  ASSUME IInv, phase = "open", Fits
  PROVE  PagesAgree /\ ListsAgree /\ TypesAgree /\ FrontRight /\ ErrorsAgree /\ KeysAgree
<1>1. PICK turned \in BOOLEAN : Opened(turned)
  BY OpenedFacts
<1>2. TypeInv /\ MIMEIndexed
  BY MIMEIndexIs DEF IInv
<1>3. PagesAgree
  <2>1. ASSUME NEW limit \in 1 .. 2
        PROVE  ShowsAll(FlattenSeq([p \in 1 .. Len(Names) |->
                          BrowseTitles(archive, (p - 1) * limit, limit)]), Ids)
    <3>1. ShowsAll(FlattenSeq(Pages(limit, Len(Names))), Ids)
      BY <1>1, <1>2, PagesRight
    <3> QED BY <3>1 DEF Pages
  <2> QED BY <2>1, Zenon DEF PagesAgree, ShowsAll
<1>4. ListsAgree
  <2>1. /\ OnceEach(EntriesByPath(archive)) /\ OnceEach(EntriesByTitle(archive))
        /\ OnceEach(Entries(archive) \o RedirectEntries(archive))
    BY <1>1, <1>2, ListsRight
  <2> QED BY <2>1, Zenon DEF ListsAgree, OnceEach
<1>5. TypesAgree
  <2>1. ASSUME NEW type \in Range(StandardTypes) \union {entries[i].mime : i \in 1 .. Len(entries)}
        PROVE  OfTypeRight(type)
    BY <1>1, <1>2, ByMIMERight
  <2> QED BY <2>1, Zenon DEF TypesAgree, OfTypeRight
<1>6. FrontRight
  BY <1>1, <1>2, FrontIsRight
<1>7. ErrorsAgree
  <2>1. /\ unparsable # {} <=> Missing \in ToSet(EntriesErr(archive))
        /\ unparsable # {} <=> Missing \in ToSet(EntriesByPathErr(archive))
    BY <1>1, <1>2, ErrorsRight
  <2> QED BY <2>1, Zenon DEF ErrorsAgree
<1>8. KeysAgree
  <2>1. Len(ForEachTitleKey(archive)) = Len(Names)
    BY <1>1, <1>2, TitleKeysRight
  <2>2. ForEachEntryRecord(archive)
          = Where([i \in 1 .. Len(entries) |-> i - 1], LAMBDA id : id \notin unparsable)
    BY <1>1, <1>2, EntryRecordsRight, Zenon
  <2> QED BY <2>1, <2>2, Zenon DEF KeysAgree
<1> QED BY <1>3, <1>4, <1>5, <1>6, <1>7, <1>8

(* In any open archive whose entries fit: pages of titles, the entries of a *)
(* type and the records show each readable entry once, whatever is damaged. *)
(* The iterators by path, title and ID show none twice, and every entry if  *)
(* nothing is damaged, as front articles do; they stop at the first entry   *)
(* that cannot be read, and the Err variants tell exactly if there is one.  *)
THEOREM ListingsAgreeAlways == Spec => []ListingsAgree
<1>1. IInv => ListingsAgree
  <2> SUFFICES ASSUME IInv, phase = "open", Fits
               PROVE  PagesAgree /\ ListsAgree /\ TypesAgree /\ FrontRight /\ ErrorsAgree /\ KeysAgree
    BY Zenon DEF ListingsAgree, PagesAgree, ListsAgree, TypesAgree, FrontRight, ErrorsAgree, KeysAgree
  <2> QED BY AllAgree
<1> QED BY <1>1, IInvAlways, PTL
============================================================================
