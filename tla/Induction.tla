------------------------------- MODULE Induction -------------------------------
(***************************************************************************)
(* Induction and recursion over the numbers up to n, stated about sets and *)
(* functions.  The least-number principle comes from the library's theorem *)
(* that the order of the natural numbers is well founded.                  *)
(***************************************************************************)
EXTENDS Integers, Functions, FiniteSets, FiniteSetTheorems, WellFoundedInduction, TLAPS

\* The order of the natural numbers.
Less == {ss \in Nat \X Nat : ss[1] < ss[2]}

\* Every non-empty set of natural numbers has a least element.
LEMMA LeastNumber ==
  ASSUME NEW T \in SUBSET Nat, T # {}
  PROVE  \E m \in T : \A n \in T : m <= n
<1>1. IsWellFoundedOn(Less, Nat)
  BY NatLessThanWellFounded DEF OpToRel, Less
<1>2. PICK x \in T : \A y \in T : ~ (<<y, x>> \in Less)
  BY <1>1, WFMin
<1>3. \A y \in T : ~(y < x)
  BY <1>2 DEF Less
<1>4. x \in Nat /\ T \subseteq Nat
  OBVIOUS
<1>5. \A n \in T : x <= n
  BY <1>3, <1>4
<1> QED
  BY <1>5

\* Induction up to n: a set that holds 0 and with each number the next one
\* holds all.
LEMMA UpTo ==
  ASSUME NEW n \in Nat, NEW T,
         0 \in T, \A k \in 1..n : k - 1 \in T => k \in T
  PROVE  0..n \subseteq T
<1> DEFINE missing == (0..n) \ T
<1>1. SUFFICES ASSUME missing # {} PROVE FALSE
  OBVIOUS
<1>2. missing \in SUBSET Nat
  OBVIOUS
<1>3. PICK m \in missing : \A k \in missing : m <= k
  BY <1>1, <1>2, LeastNumber
<1>4. m \in 1..n /\ m - 1 \in 0..n /\ m - 1 \notin missing
  BY <1>3
<1> QED
  BY <1>3, <1>4

\* A recursive function over the numbers up to n.
Recursive(g, n, base, step) ==
  g[0] = base /\ \A i \in 1..n : g[i] = step[<<i, g[i - 1]>>]

\* Recursion up to n over a set that holds the base and is closed under the
\* steps is well defined.
LEMMA RecursionExists ==
  ASSUME NEW n \in Nat, NEW S, NEW base \in S, NEW step \in [(1..n) \X S -> S]
  PROVE  \E g \in [0..n -> S] : Recursive(g, n, base, step)
<1> DEFINE T == {k \in 0..n : \E g \in [0..k -> S] : Recursive(g, k, base, step)}
<1>1. 0 \in T
  <2> DEFINE g == [i \in 0..0 |-> base]
  <2>1. g \in [0..0 -> S] /\ Recursive(g, 0, base, step)
    BY DEF Recursive
  <2> QED
    BY <2>1
<1>2. ASSUME NEW k \in 1..n, k - 1 \in T PROVE k \in T
  <2>1. PICK g \in [0..(k - 1) -> S] : Recursive(g, k - 1, base, step)
    BY <1>2
  <2> DEFINE h == [i \in 0..k |-> IF i = k THEN step[<<k, g[k - 1]>>] ELSE g[i]]
  <2>2. step[<<k, g[k - 1]>>] \in S
    OBVIOUS
  <2>3. h \in [0..k -> S]
    BY <2>2
  <2>4. \A i \in 0..(k - 1) : h[i] = g[i]
    OBVIOUS
  <2>5. h[k] = step[<<k, g[k - 1]>>]
    OBVIOUS
  <2> HIDE DEF h
  <2>6. h[0] = base
    BY <2>1, <2>4 DEF Recursive
  <2>7. ASSUME NEW i \in 1..k PROVE h[i] = step[<<i, h[i - 1]>>]
    <3>1. CASE i = k
      BY <2>4, <2>5, <3>1
    <3>2. CASE i # k
      <4>1. i \in 1..(k - 1) /\ i \in 0..(k - 1) /\ i - 1 \in 0..(k - 1)
        BY <3>2
      <4>2. g[i] = step[<<i, g[i - 1]>>]
        BY <2>1, <4>1 DEF Recursive
      <4> QED
        BY <2>4, <4>1, <4>2
    <3> QED
      BY <3>1, <3>2
  <2> QED
    BY <2>3, <2>6, <2>7 DEF Recursive
<1> HIDE DEF T
<1>3. 0..n \subseteq T
  BY <1>1, <1>2, UpTo
<1>4. n \in T
  BY <1>3
<1> QED
  BY <1>4 DEF T
-----------------------------------------------------------------------------
(* Finite sets in an order. *)

\* A family of sets that holds the empty set, and with each set the sets of one
\* element more, holds every finite set.
LEMMA FiniteInduction ==
  ASSUME NEW S, IsFiniteSet(S), NEW F, {} \in F,
         \A T \in SUBSET S : \A x \in S \ T : T \in F => T \cup {x} \in F
  PROVE  S \in F
<1> DEFINE n == Cardinality(S)
           N == {k \in 0..n : \A T \in SUBSET S : Cardinality(T) = k => T \in F}
<1>1. n \in Nat
  BY FS_CardinalityType
<1>2. 0 \in N
  <2>1. \A T \in SUBSET S : IsFiniteSet(T)
    BY FS_Subset
  <2>2. \A T \in SUBSET S : Cardinality(T) = 0 => T = {}
    BY <2>1, FS_EmptySet
  <2>3. \A T \in SUBSET S : Cardinality(T) = 0 => T \in F
    BY <2>2
  <2> QED
    BY <1>1, <2>3
<1>3. ASSUME NEW k \in 1..n, k - 1 \in N PROVE k \in N
  <2>1. ASSUME NEW T \in SUBSET S, Cardinality(T) = k PROVE T \in F
    <3>1. IsFiniteSet(T)
      BY FS_Subset
    <3>2. T # {}
      <4>1. k # 0
        BY <1>1
      <4>2. Cardinality({}) = 0
        BY FS_EmptySet
      <4> QED
        BY <2>1, <4>1, <4>2
    <3>3. PICK x \in T : TRUE
      BY <3>2
    <3>4. Cardinality(T \ {x}) = k - 1
      BY <2>1, <3>1, FS_RemoveElement
    <3>5. T \ {x} \in F
      BY <1>3, <3>4
    <3>6. (T \ {x}) \cup {x} = T /\ T \ {x} \in SUBSET S /\ x \in S \ (T \ {x})
      OBVIOUS
    <3> QED
      BY <3>5, <3>6
  <2> QED
    BY <1>1, <2>1
<1> HIDE DEF N
<1>4. 0..n \subseteq N
  BY <1>1, <1>2, <1>3, UpTo
<1>5. n \in N
  BY <1>1, <1>4
<1> QED
  BY <1>5 DEF N

\* A strict total order.
StrictlyOrders(R, S) ==
  /\ \A x, y \in S : x # y => <<x, y>> \in R \/ <<y, x>> \in R
  /\ \A x, y \in S : ~(<<x, y>> \in R /\ <<y, x>> \in R)
  /\ \A x, y, z \in S : <<x, y>> \in R /\ <<y, z>> \in R => <<x, z>> \in R

\* A finite set that is ordered has a last element.
LEMMA LastExists ==
  ASSUME NEW S, IsFiniteSet(S), S # {}, NEW R, StrictlyOrders(R, S)
  PROVE  \E m \in S : \A y \in S \ {m} : <<y, m>> \in R
<1> DEFINE HasLast(T) == \E m \in T : \A y \in T \ {m} : <<y, m>> \in R
           F == {T \in SUBSET S : T # {} => HasLast(T)}
<1>1. {} \in F
  OBVIOUS
<1>2. ASSUME NEW T \in SUBSET S, NEW x \in S \ T, T \in F PROVE T \cup {x} \in F
  <2>1. CASE T = {}
    <3>1. HasLast(T \cup {x})
      BY <2>1
    <3> QED
      BY <3>1
  <2>2. CASE T # {}
    <3>1. PICK m \in T : \A y \in T \ {m} : <<y, m>> \in R
      BY <1>2, <2>2
    <3>2. CASE <<m, x>> \in R
      <4>1. \A y \in T : <<y, x>> \in R
        BY <3>1, <3>2 DEF StrictlyOrders
      <4>2. HasLast(T \cup {x})
        BY <4>1
      <4> QED
        BY <4>2
    <3>3. CASE <<m, x>> \notin R
      <4>1. <<x, m>> \in R
        BY <3>3 DEF StrictlyOrders
      <4>2. HasLast(T \cup {x})
        BY <3>1, <4>1
      <4> QED
        BY <4>2
    <3> QED
      BY <3>2, <3>3
  <2> QED
    BY <2>1, <2>2
<1> HIDE DEF F
<1>3. S \in F
  BY <1>1, <1>2, FiniteInduction
<1> QED
  BY <1>3 DEF F

\* What stands before x.
Below(x, S, R) == {y \in S : <<y, x>> \in R}

\* In a finite set that is ordered, each place is taken: one element has none
\* below it, one has one, and so on.
LEMMA PlaceTaken ==
  ASSUME NEW S, IsFiniteSet(S), NEW R, StrictlyOrders(R, S), NEW i \in 1..Cardinality(S)
  PROVE  \E x \in S : Cardinality(Below(x, S, R)) = i - 1
<1> DEFINE Taken(T, k) == \A j \in 1..k : \E x \in T : Cardinality(Below(x, T, R)) = j - 1
           n == Cardinality(S)
           N == {k \in 0..n : \A T \in SUBSET S : Cardinality(T) = k => Taken(T, k)}
<1>1. n \in Nat
  BY FS_CardinalityType
<1>2. 0 \in N
  BY <1>1
<1>3. ASSUME NEW k \in 1..n, k - 1 \in N PROVE k \in N
  <2>1. ASSUME NEW T \in SUBSET S, Cardinality(T) = k, NEW j \in 1..k
        PROVE  \E x \in T : Cardinality(Below(x, T, R)) = j - 1
    <3>1. IsFiniteSet(T)
      BY FS_Subset
    <3>2. T # {}
      BY <2>1, FS_EmptySet
    <3>3. StrictlyOrders(R, T)
      BY DEF StrictlyOrders
    <3>4. PICK m \in T : \A y \in T \ {m} : <<y, m>> \in R
      BY <3>1, <3>2, <3>3, LastExists
    <3> DEFINE U == T \ {m}
    <3>5. Cardinality(U) = k - 1 /\ U \in SUBSET S
      BY <2>1, <3>1, FS_RemoveElement
    <3>6. CASE j = k
      <4>1. <<m, m>> \notin R
        BY <3>3 DEF StrictlyOrders
      <4>2. Below(m, T, R) = U
        BY <3>4, <4>1 DEF Below
      <4> QED
        BY <3>5, <3>6, <4>2
    <3>7. CASE j # k
      <4>1. j \in 1..(k - 1)
        BY <3>7
      <4>2. PICK x \in U : Cardinality(Below(x, U, R)) = j - 1
        BY <1>3, <3>5, <4>1
      <4>3. <<m, x>> \notin R
        BY <3>3, <3>4 DEF StrictlyOrders
      <4>4. Below(x, T, R) = Below(x, U, R)
        BY <4>3 DEF Below
      <4> QED
        BY <4>2, <4>4
    <3> QED
      BY <3>6, <3>7
  <2> QED
    BY <1>1, <2>1
<1> HIDE DEF N
<1>4. 0..n \subseteq N
  BY <1>1, <1>2, <1>3, UpTo
<1>5. n \in N
  BY <1>1, <1>4
<1> QED
  BY <1>5 DEF N

\* In a finite set that is ordered, elements have different places, in order.
LEMMA PlacesDiffer ==
  ASSUME NEW S, IsFiniteSet(S), NEW R, StrictlyOrders(R, S)
  PROVE  /\ \A x \in S : Cardinality(Below(x, S, R)) \in 0..(Cardinality(S) - 1)
         /\ \A x, y \in S : Cardinality(Below(x, S, R)) = Cardinality(Below(y, S, R)) => x = y
         /\ \A x, y \in S : <<x, y>> \in R =>
              Cardinality(Below(x, S, R)) < Cardinality(Below(y, S, R))
<1>1. \A T \in SUBSET S : IsFiniteSet(T) /\ Cardinality(T) \in Nat
  BY FS_Subset, FS_CardinalityType
<1>2. ASSUME NEW x \in S PROVE Cardinality(Below(x, S, R)) \in 0..(Cardinality(S) - 1)
  <2>1. Below(x, S, R) \subseteq S \ {x}
    BY DEF Below, StrictlyOrders
  <2>2. Cardinality(S \ {x}) = Cardinality(S) - 1 /\ IsFiniteSet(S \ {x})
    BY <1>1, FS_RemoveElement
  <2>3. Cardinality(Below(x, S, R)) <= Cardinality(S \ {x})
    BY <2>1, <2>2, FS_Subset
  <2>4. Cardinality(Below(x, S, R)) \in Nat /\ Cardinality(S) \in Nat
    BY <1>1, <2>1
  <2> QED
    BY <2>2, <2>3, <2>4
<1>3. ASSUME NEW x \in S, NEW y \in S, <<x, y>> \in R
      PROVE  Cardinality(Below(x, S, R)) < Cardinality(Below(y, S, R))
  <2>1. Below(x, S, R) \subseteq Below(y, S, R) \ {x}
    BY <1>3 DEF Below, StrictlyOrders
  <2>2. x \in Below(y, S, R) /\ Below(y, S, R) \in SUBSET S /\ Below(x, S, R) \in SUBSET S
    BY <1>3 DEF Below
  <2>3. IsFiniteSet(Below(y, S, R)) /\ Cardinality(Below(y, S, R)) \in Nat
    BY <1>1, <2>2
  <2>4. /\ Cardinality(Below(y, S, R) \ {x}) = Cardinality(Below(y, S, R)) - 1
        /\ IsFiniteSet(Below(y, S, R) \ {x})
    BY <2>2, <2>3, FS_RemoveElement
  <2>5. Cardinality(Below(x, S, R)) <= Cardinality(Below(y, S, R) \ {x})
    BY <2>1, <2>4, FS_Subset
  <2>6. Cardinality(Below(x, S, R)) \in Nat
    BY <1>1, <2>2
  <2> QED
    BY <2>3, <2>4, <2>5, <2>6
<1>4. ASSUME NEW x \in S, NEW y \in S, Cardinality(Below(x, S, R)) = Cardinality(Below(y, S, R))
      PROVE  x = y
  <2>1. SUFFICES ASSUME x # y PROVE FALSE
    OBVIOUS
  <2>2. <<x, y>> \in R \/ <<y, x>> \in R
    BY <2>1 DEF StrictlyOrders
  <2>3. Cardinality(Below(x, S, R)) \in Nat /\ Cardinality(Below(y, S, R)) \in Nat
    <3>1. Below(x, S, R) \in SUBSET S /\ Below(y, S, R) \in SUBSET S
      BY DEF Below
    <3> QED
      BY <1>1, <3>1
  <2> QED
    BY <1>3, <1>4, <2>2, <2>3
<1> QED
  BY <1>2, <1>3, <1>4

\* The elements by place.
ByPlace(S, R) ==
  [i \in 1..Cardinality(S) |-> CHOOSE x \in S : Cardinality(Below(x, S, R)) = i - 1]

\* What is listed by place is the set.
LEMMA ListedByPlace ==
  ASSUME NEW S, IsFiniteSet(S), NEW R, StrictlyOrders(R, S)
  PROVE  /\ DOMAIN ByPlace(S, R) = 1..Cardinality(S) /\ Cardinality(S) \in Nat
         /\ \A i \in 1..Cardinality(S) :
              /\ ByPlace(S, R)[i] \in S
              /\ Cardinality(Below(ByPlace(S, R)[i], S, R)) = i - 1
         /\ \A x \in S : \E i \in 1..Cardinality(S) : ByPlace(S, R)[i] = x
<1> DEFINE n == Cardinality(S)
           s == ByPlace(S, R)
           Place(x) == Cardinality(Below(x, S, R))
           at(i) == CHOOSE x \in S : Place(x) = i - 1
<1>1. n \in Nat
  BY FS_CardinalityType
<1>2. DOMAIN s = 1..n /\ \A i \in 1..n : s[i] = at(i)
  BY DEF ByPlace
<1> HIDE DEF s
<1>3. ASSUME NEW i \in 1..n PROVE s[i] \in S /\ Place(s[i]) = i - 1
  <2>1. \E x \in S : Place(x) = i - 1
    BY PlaceTaken
  <2>2. at(i) \in S /\ Place(at(i)) = i - 1
    BY <2>1
  <2> HIDE DEF at, Place
  <2> QED
    BY <1>2, <2>2
<1>4. ASSUME NEW x \in S PROVE \E i \in 1..n : s[i] = x
  <2>1. Place(x) \in 0..(n - 1)
    BY PlacesDiffer
  <2> DEFINE i == Place(x) + 1
  <2>2. i \in 1..n /\ i - 1 = Place(x)
    BY <1>1, <2>1
  <2>3. s[i] \in S /\ Place(s[i]) = Place(x)
    <3> HIDE DEF i, Place
    <3> QED
      BY <1>3, <2>2
  <2>4. s[i] = x
    <3> HIDE DEF i
    <3> QED
      BY <2>3, PlacesDiffer
  <2> HIDE DEF i
  <2> QED
    BY <2>2, <2>4
<1> QED
  BY <1>1, <1>2, <1>3, <1>4 DEF s

\* The values of a function on a finite set are finitely many.
LEMMA ImageFinite ==
  ASSUME NEW S, IsFiniteSet(S), NEW f
  PROVE  IsFiniteSet({f[x] : x \in S})
<1> DEFINE T == {f[x] : x \in S}
           g == [x \in S |-> f[x]]
<1>1. g \in Surjection(S, T)
  BY DEF Surjection
<1> HIDE DEF g, T
<1>2. IsFiniteSet(T)
  BY <1>1, FS_Surjection
<1> QED
  BY <1>2 DEF T

\* A choice of an element from every set that has one.
Picks(pick, S) == \A s \in SUBSET S : s # {} => pick[s] \in s

\* The sums over the subsets of S, one element after the other.
AddsUp(g, S, f, pick) ==
  \A s \in SUBSET S : g[s] = IF s = {} THEN 0 ELSE f[pick[s]] + g[s \ {pick[s]}]

\* There are such sums.
LEMMA SumExists ==
  ASSUME NEW S, IsFiniteSet(S), NEW f \in [S -> Nat],
         NEW pick, Picks(pick, S)
  PROVE  \E g \in [SUBSET S -> Nat] : AddsUp(g, S, f, pick)
<1> USE DEF Picks, AddsUp
<1> DEFINE n == Cardinality(S)
           Small(k) == {s \in SUBSET S : Cardinality(s) <= k}
           Sums(g, k) == \A s \in Small(k) :
                           g[s] = IF s = {} THEN 0 ELSE f[pick[s]] + g[s \ {pick[s]}]
           T == {k \in 0..n : \E g \in [Small(k) -> Nat] : Sums(g, k)}
<1>1. n \in Nat /\ \A s \in SUBSET S : IsFiniteSet(s) /\ Cardinality(s) \in Nat
  BY FS_CardinalityType, FS_Subset
<1>2. Cardinality({}) = 0
  BY FS_EmptySet
<1>3. \A s \in SUBSET S : Cardinality(s) = 0 => s = {}
  BY <1>1, FS_EmptySet
<1>4. 0 \in T
  <2> DEFINE g == [s \in Small(0) |-> 0]
  <2>1. g \in [Small(0) -> Nat] /\ Sums(g, 0)
    BY <1>1, <1>3
  <2> HIDE DEF g, Small, Sums
  <2> QED
    BY <1>1, <2>1
<1>5. ASSUME NEW k \in 1..n, k - 1 \in T PROVE k \in T
  <2>1. PICK g \in [Small(k - 1) -> Nat] : Sums(g, k - 1)
    BY <1>5
  <2> DEFINE h == [s \in Small(k) |-> IF s = {} THEN 0 ELSE f[pick[s]] + g[s \ {pick[s]}]]
  <2>2. ASSUME NEW s \in Small(k), s # {}
        PROVE  pick[s] \in S /\ s \ {pick[s]} \in Small(k - 1) /\ s \ {pick[s]} \in Small(k)
    <3>1. pick[s] \in s /\ IsFiniteSet(s) /\ Cardinality(s) <= k /\ Cardinality(s) \in Nat
      BY <1>1, <2>2
    <3>2. Cardinality(s \ {pick[s]}) = Cardinality(s) - 1
      BY <3>1, FS_RemoveElement
    <3> QED
      BY <1>1, <3>1, <3>2
  <2>3. h \in [Small(k) -> Nat]
    BY <2>2
  <2>4. Small(k - 1) \subseteq Small(k)
    BY <1>1
  <2>5. ASSUME NEW s \in Small(k - 1) PROVE h[s] = g[s]
    BY <2>1, <2>4, <2>5
  <2>6. Sums(h, k)
    BY <2>2, <2>5
  <2> HIDE DEF h, Small, Sums
  <2> QED
    BY <2>3, <2>6
<1> HIDE DEF T
<1>6. n \in T
  <2>1. 0..n \subseteq T
    BY <1>1, <1>4, <1>5, UpTo
  <2> QED
    BY <1>1, <2>1
<1>7. Small(n) = SUBSET S
  <2>1. \A s \in SUBSET S : Cardinality(s) <= n
    BY FS_Subset
  <2> QED
    BY <2>1
<1>8. PICK g \in [Small(n) -> Nat] : Sums(g, n)
  BY <1>6 DEF T
<1> QED
  BY <1>7, <1>8

\* Whatever adds up over a finite set, element by element, adds up to a number.
LEMMA SumType ==
  ASSUME NEW S, IsFiniteSet(S), NEW f \in [S -> Nat],
         NEW pick, Picks(pick, S), NEW g, AddsUp(g, S, f, pick)
  PROVE  g[S] \in Nat
<1> USE DEF Picks, AddsUp
<1> DEFINE n == Cardinality(S)
           T == {k \in 0..n : \A s \in SUBSET S : Cardinality(s) = k => g[s] \in Nat}
<1>1. n \in Nat
  BY FS_CardinalityType
<1>2. \A s \in SUBSET S : IsFiniteSet(s) /\ Cardinality(s) \in Nat
  BY FS_Subset, FS_CardinalityType
<1>3. 0 \in T
  <2>1. \A s \in SUBSET S : Cardinality(s) = 0 => s = {}
    BY <1>2, FS_EmptySet
  <2>2. g[{}] = 0
    OBVIOUS
  <2> QED
    BY <1>1, <2>1, <2>2
<1>4. ASSUME NEW k \in 1..n, k - 1 \in T PROVE k \in T
  <2>1. ASSUME NEW s \in SUBSET S, Cardinality(s) = k PROVE g[s] \in Nat
    <3>1. s # {}
      <4>1. Cardinality({}) = 0
        BY FS_EmptySet
      <4>2. k # 0
        BY <1>1
      <4> QED
        BY <2>1, <4>1, <4>2
    <3>2. pick[s] \in s
      BY <3>1
    <3>3. Cardinality(s \ {pick[s]}) = k - 1
      BY <1>2, <2>1, <3>2, FS_RemoveElement
    <3>4. g[s \ {pick[s]}] \in Nat /\ f[pick[s]] \in Nat
      BY <1>4, <3>2, <3>3
    <3> QED
      BY <3>1, <3>4
  <2> QED
    BY <1>1, <2>1
<1> HIDE DEF T
<1>5. 0..n \subseteq T
  BY <1>1, <1>3, <1>4, UpTo
<1>6. n \in T
  BY <1>1, <1>5
<1> QED
  BY <1>6 DEF T
-----------------------------------------------------------------------------
(* Sums over finite sets. *)

\* Sums over the subsets of S are determined by the numbers that are summed.
LEMMA SumUnique ==
  ASSUME NEW S, IsFiniteSet(S), NEW f, NEW e, \A x \in S : f[x] = e[x],
         NEW pick, Picks(pick, S), NEW g, AddsUp(g, S, f, pick), NEW h, AddsUp(h, S, e, pick)
  PROVE  \A s \in SUBSET S : g[s] = h[s]
<1> USE DEF Picks, AddsUp
<1> DEFINE n == Cardinality(S)
           T == {k \in 0..n : \A s \in SUBSET S : Cardinality(s) = k => g[s] = h[s]}
<1>1. n \in Nat /\ \A s \in SUBSET S : IsFiniteSet(s) /\ Cardinality(s) \in 0..n
  BY FS_CardinalityType, FS_Subset
<1>2. 0 \in T
  <2>1. \A s \in SUBSET S : Cardinality(s) = 0 => s = {}
    BY <1>1, FS_EmptySet
  <2>2. g[{}] = h[{}]
    OBVIOUS
  <2>3. \A s \in SUBSET S : Cardinality(s) = 0 => g[s] = h[s]
    BY <2>1, <2>2
  <2> HIDE DEF Picks, AddsUp
  <2> QED
    BY <1>1, <2>3
<1>3. ASSUME NEW k \in 1..n, k - 1 \in T PROVE k \in T
  <2>1. ASSUME NEW s \in SUBSET S, Cardinality(s) = k PROVE g[s] = h[s]
    <3>1. s # {}
      <4>1. Cardinality({}) = 0 /\ k # 0
        BY <1>1, FS_EmptySet
      <4> QED
        BY <2>1, <4>1
    <3>2. pick[s] \in s
      BY <3>1
    <3>3. Cardinality(s \ {pick[s]}) = k - 1
      BY <1>1, <2>1, <3>2, FS_RemoveElement
    <3>4. g[s \ {pick[s]}] = h[s \ {pick[s]}] /\ f[pick[s]] = e[pick[s]]
      BY <1>3, <3>2, <3>3
    <3> QED
      BY <3>1, <3>4
  <2> QED
    BY <1>1, <2>1
<1> HIDE DEF T
<1>4. 0..n \subseteq T
  BY <1>1, <1>2, <1>3, UpTo
<1> QED
  BY <1>1, <1>4 DEF T

\* What is summed are natural numbers.
Counts(f, S) == \A x \in S : f[x] \in Nat

\* The sum of f over S, as the community modules add it up.
PickOf(S) == [s \in SUBSET S |-> CHOOSE x \in s : TRUE]
Added(f, S) ==
  LET sum[s \in SUBSET S] ==
        IF s = {} THEN 0
        ELSE f[CHOOSE x \in s : TRUE] + sum[s \ {CHOOSE x \in s : TRUE}]
  IN  sum[S]

LEMMA PickOfPicks == ASSUME NEW S PROVE Picks(PickOf(S), S)
BY DEF Picks, PickOf

\* Whatever adds up over the subsets of S gives the sums over them.
LEMMA SumIs ==
  ASSUME NEW S, IsFiniteSet(S), NEW f, Counts(f, S),
         NEW g, AddsUp(g, S, f, PickOf(S))
  PROVE  \A T \in SUBSET S : g[T] = Added(f, T)
<1> SUFFICES ASSUME NEW T \in SUBSET S PROVE g[T] = Added(f, T)
  OBVIOUS
<1> DEFINE Sum(h) == h = [s \in SUBSET T |->
                            IF s = {} THEN 0
                            ELSE f[CHOOSE x \in s : TRUE] + h[s \ {CHOOSE x \in s : TRUE}]]
           sum == CHOOSE h : Sum(h)
           e == [x \in T |-> f[x]]
<1>1. Added(f, T) = sum[T]
  BY DEF Added
<1>2. IsFiniteSet(T) /\ e \in [T -> Nat] /\ Picks(PickOf(T), T)
  BY FS_Subset, PickOfPicks DEF Counts
<1>3. PICK h \in [SUBSET T -> Nat] : AddsUp(h, T, e, PickOf(T))
  <2> HIDE DEF e
  <2> QED
    BY <1>2, SumExists
<1>4. \A s \in SUBSET T : PickOf(T)[s] = CHOOSE x \in s : TRUE
  BY DEF PickOf
<1>5. \A s \in SUBSET T : s # {} => (CHOOSE x \in s : TRUE) \in s
  OBVIOUS
<1>6. Sum(h)
  <2>1. h = [s \in SUBSET T |-> h[s]]
    BY <1>3
  <2>2. \A s \in SUBSET T : h[s] = IF s = {} THEN 0 ELSE e[PickOf(T)[s]] + h[s \ {PickOf(T)[s]}]
    BY <1>3 DEF AddsUp
  <2>3. ASSUME NEW s \in SUBSET T, s # {} PROVE e[PickOf(T)[s]] = f[CHOOSE x \in s : TRUE]
    <3> DEFINE p == CHOOSE x \in s : TRUE
    <3>1. p \in T /\ PickOf(T)[s] = p
      BY <1>4, <1>5, <2>3
    <3> HIDE DEF p
    <3>2. e[p] = f[p]
      BY <3>1
    <3> QED
      BY <3>1, <3>2 DEF p
  <2>4. \A s \in SUBSET T :
          h[s] = IF s = {} THEN 0
                 ELSE f[CHOOSE x \in s : TRUE] + h[s \ {CHOOSE x \in s : TRUE}]
    BY <1>4, <2>2, <2>3
  <2> QED
    BY <2>1, <2>4
<1>7. Sum(sum)
  BY <1>6
<1> HIDE DEF sum
<1>8. AddsUp(sum, T, f, PickOf(T))
  BY <1>4, <1>7 DEF AddsUp
<1>9. AddsUp(g, T, f, PickOf(T))
  BY DEF AddsUp, PickOf
<1> QED
  BY <1>1, <1>2, <1>8, <1>9, SumUnique

\* The sums over the subsets of S are numbers that add up.
LEMMA SumsAddUp ==
  ASSUME NEW S, IsFiniteSet(S), NEW f, Counts(f, S)
  PROVE  /\ \A T \in SUBSET S : Added(f, T) \in Nat
         /\ Added(f, {}) = 0
         /\ \A T \in SUBSET S : T # {} =>
              \E x \in T : Added(f, T) = f[x] + Added(f, T \ {x})
<1> DEFINE e == [x \in S |-> f[x]]
           pick == PickOf(S)
<1>1. e \in [S -> Nat] /\ Picks(PickOf(S), S)
  BY PickOfPicks DEF Counts
<1>2. PICK g \in [SUBSET S -> Nat] : AddsUp(g, S, e, PickOf(S))
  <2> HIDE DEF e
  <2> QED
    BY <1>1, SumExists
<1>3. AddsUp(g, S, f, PickOf(S))
  BY <1>1, <1>2 DEF AddsUp, Picks
<1>4. \A T \in SUBSET S : g[T] = Added(f, T)
  BY <1>3, SumIs
<1>5. g[{}] = 0 /\ \A T \in SUBSET S : T # {} => g[T] = f[pick[T]] + g[T \ {pick[T]}]
  BY <1>3 DEF AddsUp
<1>6. \A T \in SUBSET S : T # {} => pick[T] \in T
  BY <1>1 DEF Picks
<1> HIDE DEF pick
<1>7. ASSUME NEW T \in SUBSET S, T # {}
      PROVE  \E x \in T : Added(f, T) = f[x] + Added(f, T \ {x})
  <2>1. pick[T] \in T /\ T \ {pick[T]} \in SUBSET S
    BY <1>6, <1>7
  <2>2. Added(f, T) = f[pick[T]] + Added(f, T \ {pick[T]})
    BY <1>4, <1>5, <1>7, <2>1
  <2> QED
    BY <2>1, <2>2
<1>8. Added(f, {}) = 0
  BY <1>4, <1>5
<1>9. \A T \in SUBSET S : Added(f, T) \in Nat
  BY <1>2, <1>4
<1> QED
  BY <1>7, <1>8, <1>9

\* Any element may be taken out of a sum.
LEMMA SumAdd ==
  ASSUME NEW S, IsFiniteSet(S), NEW f, Counts(f, S)
  PROVE  \A T \in SUBSET S : \A x \in T : Added(f, T) = f[x] + Added(f, T \ {x})
<1> DEFINE n == Cardinality(S)
           N == {k \in 0..n : \A T \in SUBSET S : Cardinality(T) = k =>
                                \A x \in T : Added(f, T) = f[x] + Added(f, T \ {x})}
<1>1. n \in Nat /\ \A T \in SUBSET S : IsFiniteSet(T) /\ Cardinality(T) \in 0..n
  BY FS_CardinalityType, FS_Subset
<1>2. /\ \A T \in SUBSET S : Added(f, T) \in Nat
      /\ \A T \in SUBSET S : T # {} =>
           \E p \in T : Added(f, T) = f[p] + Added(f, T \ {p})
  BY SumsAddUp
<1>3. 0 \in N
  <2>1. \A T \in SUBSET S : Cardinality(T) = 0 => T = {}
    BY <1>1, FS_EmptySet
  <2> QED
    BY <1>1, <2>1
<1>4. ASSUME NEW k \in 1..n, k - 1 \in N PROVE k \in N
  <2>1. ASSUME NEW T \in SUBSET S, Cardinality(T) = k, NEW x \in T
        PROVE  Added(f, T) = f[x] + Added(f, T \ {x})
    <3>1. PICK p \in T : Added(f, T) = f[p] + Added(f, T \ {p})
      BY <1>2, <2>1
    <3>2. CASE p = x
      BY <3>1, <3>2
    <3>3. CASE p # x
      <4> DEFINE U == T \ {p}
                 V == T \ {x}
                 W == U \ {x}
      <4>1. Cardinality(U) = k - 1 /\ Cardinality(V) = k - 1
        BY <1>1, <2>1, <3>1, FS_RemoveElement
      <4>2. x \in U /\ p \in V /\ V \ {p} = W /\ U \in SUBSET S /\ V \in SUBSET S /\ W \in SUBSET S
        BY <3>1, <3>3
      <4> HIDE DEF U, V, W
      <4>3. Added(f, U) = f[x] + Added(f, U \ {x})
        BY <1>4, <4>1, <4>2
      <4>4. Added(f, V) = f[p] + Added(f, V \ {p})
        BY <1>4, <4>1, <4>2
      <4>5. f[x] \in Nat /\ f[p] \in Nat /\ Added(f, W) \in Nat
        BY <1>2, <3>1, <4>2 DEF Counts
      <4>6. Added(f, U) = f[x] + Added(f, W) /\ Added(f, V) = f[p] + Added(f, W)
        BY <4>2, <4>3, <4>4 DEF W
      <4> QED
        BY <3>1, <4>5, <4>6 DEF U, V
    <3> QED
      BY <3>2, <3>3
  <2> QED
    BY <1>1, <2>1
<1> HIDE DEF N
<1>5. 0..n \subseteq N
  BY <1>1, <1>3, <1>4, UpTo
<1> QED
  BY <1>1, <1>5 DEF N

\* The laws of a sum that are cited.
LEMMA SumLaws ==
  ASSUME NEW S, IsFiniteSet(S), NEW f, Counts(f, S)
  PROVE  /\ Added(f, S) \in Nat /\ Added(f, {}) = 0
         /\ \A x \in S : /\ Added(f, S \ {x}) \in Nat
                         /\ Added(f, S) = f[x] + Added(f, S \ {x})
                         /\ f[x] <= Added(f, S)
         /\ \A T \in SUBSET S : Added(f, T) \in Nat /\ Added(f, T) <= Added(f, S)
<1>1. /\ Added(f, {}) = 0
      /\ \A T \in SUBSET S : Added(f, T) \in Nat
      /\ \A T \in SUBSET S : \A x \in T : Added(f, T) = f[x] + Added(f, T \ {x})
  BY SumsAddUp, SumAdd
<1>2. ASSUME NEW x \in S
      PROVE  /\ Added(f, S \ {x}) \in Nat
             /\ Added(f, S) = f[x] + Added(f, S \ {x})
             /\ f[x] <= Added(f, S)
  <2>1. Added(f, S \ {x}) \in Nat /\ Added(f, S) = f[x] + Added(f, S \ {x}) /\ f[x] \in Nat
    BY <1>1 DEF Counts
  <2> QED
    BY <2>1
<1> DEFINE F == {T \in SUBSET S : \A U \in SUBSET T : Added(f, U) <= Added(f, T)}
<1>3. {} \in F
  BY <1>1
<1>4. ASSUME NEW T \in SUBSET S, NEW x \in S \ T, T \in F PROVE T \cup {x} \in F
  <2> DEFINE V == T \cup {x}
  <2>1. V \in SUBSET S /\ x \in V /\ V \ {x} = T
    OBVIOUS
  <2>2. Added(f, V) = f[x] + Added(f, T) /\ f[x] \in Nat /\ Added(f, T) \in Nat
    BY <1>1, <2>1 DEF Counts
  <2>3. ASSUME NEW U \in SUBSET V PROVE Added(f, U) <= Added(f, V)
    <3>1. U \in SUBSET S /\ Added(f, U) \in Nat
      BY <1>1, <2>1
    <3>2. CASE x \in U
      <4>1. Added(f, U) = f[x] + Added(f, U \ {x}) /\ Added(f, U \ {x}) \in Nat
        BY <1>1, <3>1, <3>2
      <4>2. U \ {x} \in SUBSET T
        OBVIOUS
      <4>3. Added(f, U \ {x}) <= Added(f, T)
        BY <1>4, <4>2
      <4> QED
        BY <2>2, <4>1, <4>3
    <3>3. CASE x \notin U
      <4>1. Added(f, U) <= Added(f, T)
        BY <1>4, <3>3
      <4> QED
        BY <2>2, <3>1, <4>1
    <3> QED
      BY <3>2, <3>3
  <2> HIDE DEF V
  <2> QED
    BY <2>1, <2>3 DEF V
<1> HIDE DEF F
<1>5. S \in F
  BY <1>3, <1>4, FiniteInduction
<1> QED
  BY <1>1, <1>2, <1>5 DEF F

\* A sum may be taken over other things that stand one for one for its own.
LEMMA SumImage ==
  ASSUME NEW S, IsFiniteSet(S), NEW h, \A x, y \in S : h[x] = h[y] => x = y,
         NEW f, Counts(f, {h[x] : x \in S}),
         NEW g, \A x \in S : g[x] = f[h[x]]
  PROVE  Added(g, S) = Added(f, {h[x] : x \in S})
<1> DEFINE Im(T) == {h[x] : x \in T}
           F == {T \in SUBSET S : Added(g, T) = Added(f, Im(T))}
<1>1. IsFiniteSet(Im(S)) /\ Counts(f, Im(S)) /\ Counts(g, S)
  BY ImageFinite DEF Counts
<1>2. /\ Added(f, {}) = 0
      /\ \A T \in SUBSET Im(S) : Added(f, T) \in Nat
      /\ \A T \in SUBSET Im(S) : \A y \in T : Added(f, T) = f[y] + Added(f, T \ {y})
  <2> HIDE DEF Im
  <2> QED
    BY <1>1, SumsAddUp, SumAdd
<1>3. /\ Added(g, {}) = 0
      /\ \A T \in SUBSET S : Added(g, T) \in Nat
      /\ \A T \in SUBSET S : \A y \in T : Added(g, T) = g[y] + Added(g, T \ {y})
  BY <1>1, SumsAddUp, SumAdd
<1>4. {} \in F
  <2>1. Im({}) = {}
    OBVIOUS
  <2> QED
    BY <1>2, <1>3, <2>1
<1>5. ASSUME NEW T \in SUBSET S, NEW x \in S \ T, T \in F PROVE T \cup {x} \in F
  <2> DEFINE V == T \cup {x}
  <2>1. /\ V \in SUBSET S /\ x \in V /\ V \ {x} = T
        /\ Im(V) \in SUBSET Im(S) /\ h[x] \in Im(V)
    OBVIOUS
  <2>2. Im(V) \ {h[x]} = Im(T)
    <3>1. h[x] \notin Im(T)
      OBVIOUS
    <3>2. Im(V) = Im(T) \cup {h[x]}
      OBVIOUS
    <3> QED
      BY <3>1, <3>2
  <2>3. Added(g, T) = Added(f, Im(T))
    BY <1>5
  <2> HIDE DEF V, Im
  <2>4. Added(g, V) = g[x] + Added(g, T)
    BY <1>3, <2>1
  <2>5. Added(f, Im(V)) = f[h[x]] + Added(f, Im(T))
    BY <1>2, <2>1, <2>2
  <2>6. Added(g, V) = Added(f, Im(V))
    BY <2>3, <2>4, <2>5
  <2> QED
    BY <2>1, <2>6 DEF V
<1> HIDE DEF F
<1>6. S \in F
  BY <1>4, <1>5, FiniteInduction
<1> QED
  BY <1>6 DEF F
===============================================================================
