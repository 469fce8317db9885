------------------------ MODULE ImportExtractionProofs ------------------------
(***************************************************************************)
(* Proofs about the extraction of a letter: the way amounts are read is    *)
(* what the notation of their bank means, candidates keep the page and the *)
(* confidence of the mention they come from, and so an accepted letter     *)
(* says what was printed on it.                                            *)
(***************************************************************************)
EXTENDS ImportExtractionProps, Induction, SequenceTheorems
-----------------------------------------------------------------------------
(* Totals. *)

\* The total of a sequence is reached by adding its numbers one by one.
LEMMA TotalSteps ==
  ASSUME NEW numbers \in Seq(Int)
  PROVE  \E sum \in [0..Len(numbers) -> Int] :
           /\ sum[0] = 0 /\ \A i \in 1..Len(numbers) : sum[i] = sum[i - 1] + numbers[i]
           /\ Total(numbers) = sum[Len(numbers)]
<1> DEFINE n == Len(numbers)
           IsSum(g) == g = [i \in 0..n |-> IF i = 0 THEN 0 ELSE g[i - 1] + numbers[i]]
           sum == CHOOSE g : IsSum(g)
           step == [p \in (1..n) \X Int |-> p[2] + numbers[p[1]]]
<1>1. n \in Nat /\ \A i \in 1..n : numbers[i] \in Int
  OBVIOUS
<1>2. Total(numbers) = sum[n]
  BY DEF Total
<1> HIDE DEF n
<1>3. step \in [(1..n) \X Int -> Int]
  BY <1>1
<1>4. \A i \in 1..n, x \in Int : step[<<i, x>>] = x + numbers[i]
  OBVIOUS
<1> HIDE DEF step
<1>5. PICK g \in [0..n -> Int] : Recursive(g, n, 0, step)
  <2>1. 0 \in Int
    OBVIOUS
  <2> QED
    BY <1>1, <1>3, <2>1, RecursionExists, Zenon
<1>6. g[0] = 0 /\ \A i \in 1..n : g[i] = g[i - 1] + numbers[i]
  <2>1. \A i \in 1..n : g[i - 1] \in Int
    BY <1>1
  <2> QED
    BY <1>4, <1>5, <2>1 DEF Recursive
<1>7. IsSum(g)
  BY <1>1, <1>6
<1>8. IsSum(sum)
  BY <1>7
<1> HIDE DEF sum
<1> DEFINE T == {i \in 0..n : sum[i] \in Int}
<1>9. sum[0] = 0 /\ \A i \in 1..n : sum[i] = sum[i - 1] + numbers[i]
  BY <1>1, <1>8
<1>10. 0 \in T /\ \A k \in 1..n : k - 1 \in T => k \in T
  <2>1. 0 \in T
    BY <1>1, <1>9
  <2>2. ASSUME NEW k \in 1..n, k - 1 \in T PROVE k \in T
    <3>1. sum[k] = sum[k - 1] + numbers[k] /\ numbers[k] \in Int /\ sum[k - 1] \in Int
      BY <1>1, <1>9, <2>2
    <3> QED
      BY <1>1, <3>1
  <2> QED
    BY <2>1, <2>2
<1> HIDE DEF T
<1>11. 0..n \subseteq T
  BY <1>1, <1>10, UpTo
<1>12. \A i \in 0..n : sum[i] \in Int
  BY <1>11 DEF T
<1>13. sum \in [0..n -> Int]
  BY <1>8, <1>12
<1> QED
  BY <1>2, <1>9, <1>13 DEF n

\* One more confidence adds up to one more at most.
LEMMA OneMoreConfidence ==
  ASSUME NEW k \in Int, NEW s \in 0..(Sure * (k - 1)), NEW x \in 0..Sure
  PROVE  s + x \in 0..(Sure * k)
<1>1. Sure * k = Sure * (k - 1) + Sure
  BY DEF Sure
<1>2. Sure * k \in Int /\ Sure * (k - 1) \in Int /\ Sure \in Int
  BY DEF Sure
<1> QED
  BY <1>1, <1>2

\* The mean of confidences is one.
LEMMA TotalOfConfidences ==
  ASSUME NEW numbers \in Seq(0..Sure)
  PROVE  Total(numbers) \in 0..(Sure * Len(numbers))
<1>1. numbers \in Seq(Int)
  <2>1. (0..Sure) \subseteq Int
    BY DEF Sure
  <2> QED
    BY <2>1, SeqMonotonic
<1>2. PICK sum \in [0..Len(numbers) -> Int] :
           /\ sum[0] = 0 /\ \A i \in 1..Len(numbers) : sum[i] = sum[i - 1] + numbers[i]
           /\ Total(numbers) = sum[Len(numbers)]
  BY <1>1, TotalSteps
<1> DEFINE n == Len(numbers)
           T == {i \in 0..n : sum[i] \in 0..(Sure * i)}
<1>3. n \in Nat
  OBVIOUS
<1>4. 0 \in T
  BY <1>2, <1>3 DEF Sure
<1>5. ASSUME NEW k \in 1..n, k - 1 \in T PROVE k \in T
  <2>1. numbers[k] \in 0..Sure
    OBVIOUS
  <2>2. sum[k - 1] \in 0..(Sure * (k - 1))
    BY <1>5
  <2>3. sum[k] = sum[k - 1] + numbers[k]
    BY <1>2
  <2>4. k \in Int
    OBVIOUS
  <2> HIDE DEF n
  <2>5. sum[k] \in 0..(Sure * k)
    BY <2>1, <2>2, <2>3, <2>4, OneMoreConfidence
  <2> QED
    BY <1>3, <2>5
<1> HIDE DEF T
<1>6. 0..n \subseteq T
  BY <1>3, <1>4, <1>5, UpTo
<1>7. n \in T
  BY <1>3, <1>6
<1> QED
  BY <1>2, <1>7 DEF T

\* The digits of an amount in one group.
LEMMA TotalOfOne ==
  ASSUME NEW lens \in Seq(Nat), Len(lens) = 1
  PROVE  Total(lens) = lens[1]
<1>1. lens \in Seq(Int)
  OBVIOUS
<1>2. PICK sum \in [0..Len(lens) -> Int] :
           /\ sum[0] = 0 /\ \A i \in 1..Len(lens) : sum[i] = sum[i - 1] + lens[i]
           /\ Total(lens) = sum[Len(lens)]
  BY <1>1, TotalSteps
<1>3. sum[1] = sum[0] + lens[1]
  BY <1>2
<1> QED
  BY <1>2, <1>3

\* The digits of an amount in groups: the first, groups of one size, and the
\* last of three.
LEMMA TotalOfGroups ==
  ASSUME NEW lens \in Seq(Nat), NEW size \in {2, 3}, Len(lens) >= 2,
         \A i \in 2..(Len(lens) - 1) : lens[i] = size,
         lens[Len(lens)] = 3
  PROVE  Total(lens) = lens[1] + (Len(lens) - 2) * size + 3
<1>1. lens \in Seq(Int)
  OBVIOUS
<1>2. PICK sum \in [0..Len(lens) -> Int] :
           /\ sum[0] = 0 /\ \A i \in 1..Len(lens) : sum[i] = sum[i - 1] + lens[i]
           /\ Total(lens) = sum[Len(lens)]
  BY <1>1, TotalSteps
<1> DEFINE k == Len(lens)
           Reached(i) == sum[i + 1] = lens[1] + i * size
           T == {i \in 0..(k - 2) : Reached(i)}
<1>3. k \in Nat /\ k >= 2 /\ lens[1] \in Nat
  OBVIOUS
<1> HIDE DEF k
<1>4. sum[0] = 0 /\ \A i \in 1..k : sum[i] = sum[i - 1] + lens[i]
  BY <1>2 DEF k
<1>5. 0 \in T
  <2>1. sum[1] = lens[1]
    BY <1>3, <1>4
  <2> QED
    BY <1>3, <2>1
<1>6. ASSUME NEW i \in 1..(k - 2), i - 1 \in T PROVE i \in T
  <2>1. sum[i] = lens[1] + (i - 1) * size
    BY <1>3, <1>6
  <2>2. lens[i + 1] = size
    BY <1>3 DEF k
  <2>3. sum[i + 1] = sum[i] + size
    BY <1>3, <1>4, <2>2
  <2> QED
    BY <1>3, <2>1, <2>3
<1> HIDE DEF T
<1>7. 0..(k - 2) \subseteq T
  <2>1. k - 2 \in Nat
    BY <1>3
  <2> QED
    BY <1>5, <1>6, <2>1, UpTo, Zenon
<1>8. sum[k - 1] = lens[1] + (k - 2) * size
  <2>1. k - 2 \in T
    BY <1>3, <1>7
  <2>2. Reached(k - 2)
    BY <2>1 DEF T
  <2>3. (k - 2) + 1 = k - 1
    BY <1>3
  <2> QED
    BY <2>2, <2>3
<1>9. sum[k] = sum[k - 1] + 3
  <2>1. lens[k] = 3
    BY DEF k
  <2> QED
    BY <1>3, <1>4, <2>1
<1> QED
  BY <1>2, <1>3, <1>8, <1>9 DEF k
-----------------------------------------------------------------------------
(* Groups of digits. *)

\* The groups after the first have one size, and the last has three digits.
GroupsOf(lens, size) ==
  /\ \A i \in 2..(Len(lens) - 1) : lens[i] = size
  /\ lens[Len(lens)] = 3

\* The code's check of the groups, on the groups themselves.
LEMMA ValidGroups ==
  ASSUME NEW lens \in Seq(Nat), Len(lens) >= 2
  PROVE  ValidGroupedInteger(lens)
           <=> lens[1] \in 1..3 /\ \E size \in {2, 3} : GroupsOf(lens, size)
<1> DEFINE k == Len(lens)
           rest == Tail(lens)
<1>1. k \in Nat /\ k >= 2 /\ lens # <<>>
  OBVIOUS
<1>2. Len(rest) = k - 1 /\ \A i \in 1..(k - 1) : rest[i] = lens[i + 1]
  BY <1>1, HeadTailProperties
<1>3. ValidGroupedInteger(lens) <=>
        /\ Len(rest) >= 1 /\ lens[1] \in 1..3
        /\ \/ \A i \in 1..Len(rest) : rest[i] = 3
           \/ rest[Len(rest)] = 3 /\ \A i \in 1..Len(rest) - 1 : rest[i] = 2
  BY DEF ValidGroupedInteger
<1> HIDE DEF rest
<1>4. (\A i \in 1..Len(rest) : rest[i] = 3) <=> GroupsOf(lens, 3)
  <2>1. ASSUME \A i \in 1..Len(rest) : rest[i] = 3 PROVE GroupsOf(lens, 3)
    <3>1. ASSUME NEW i \in 2..k PROVE lens[i] = 3
      <4>1. i - 1 \in 1..(k - 1) /\ (i - 1) + 1 = i
        BY <1>1
      <4> QED
        BY <1>2, <2>1, <4>1
    <3> QED
      BY <1>1, <3>1 DEF GroupsOf
  <2>2. ASSUME GroupsOf(lens, 3) PROVE \A i \in 1..Len(rest) : rest[i] = 3
    <3>1. ASSUME NEW i \in 1..(k - 1) PROVE rest[i] = 3
      <4>1. i + 1 \in 2..(k - 1) \/ i + 1 = k
        BY <1>1
      <4> QED
        BY <1>2, <2>2, <4>1 DEF GroupsOf
    <3> QED
      BY <1>2, <3>1
  <2> QED
    BY <2>1, <2>2
<1>5. rest[Len(rest)] = 3 /\ (\A i \in 1..Len(rest) - 1 : rest[i] = 2) <=> GroupsOf(lens, 2)
  <2>1. rest[Len(rest)] = lens[k]
    <3>1. k - 1 \in 1..(k - 1) /\ (k - 1) + 1 = k
      BY <1>1
    <3> QED
      BY <1>2, <3>1
  <2>2. ASSUME \A i \in 1..Len(rest) - 1 : rest[i] = 2
        PROVE  \A i \in 2..(k - 1) : lens[i] = 2
    <3>1. ASSUME NEW i \in 2..(k - 1) PROVE lens[i] = 2
      <4>1. i - 1 \in 1..(k - 1) /\ i - 1 \in 1..Len(rest) - 1 /\ (i - 1) + 1 = i
        BY <1>1, <1>2
      <4> QED
        BY <1>2, <2>2, <4>1
    <3> QED
      BY <3>1
  <2>3. ASSUME \A i \in 2..(k - 1) : lens[i] = 2
        PROVE  \A i \in 1..Len(rest) - 1 : rest[i] = 2
    <3>1. ASSUME NEW i \in 1..Len(rest) - 1 PROVE rest[i] = 2
      <4>1. i + 1 \in 2..(k - 1) /\ i \in 1..(k - 1)
        BY <1>1, <1>2
      <4> QED
        BY <1>2, <2>3, <4>1
    <3> QED
      BY <3>1
  <2> QED
    BY <2>1, <2>2, <2>3 DEF GroupsOf
<1>6. (\E size \in {2, 3} : GroupsOf(lens, size)) <=> GroupsOf(lens, 2) \/ GroupsOf(lens, 3)
  OBVIOUS
<1>7. Len(rest) >= 1
  BY <1>1, <1>2
<1> QED
  BY <1>3, <1>4, <1>5, <1>6, <1>7, Zenon

\* Groups of digits that add up to n are a grouping of n digits, and the only
\* ones.
LEMMA GroupsOfTotal ==
  ASSUME NEW lens \in Seq(Nat), Len(lens) >= 2, lens[1] \in 1..3,
         NEW size \in {2, 3}, GroupsOf(lens, size)
  PROVE  Total(lens) \in Nat \ {0} /\ lens \in Groupings(Total(lens))
<1> DEFINE k == Len(lens)
           n == Total(lens)
<1>1. k \in Nat /\ k >= 2 /\ lens \in [1..k -> Nat]
  OBVIOUS
<1>2. n = lens[1] + (k - 2) * size + 3
  BY TotalOfGroups DEF GroupsOf
<1> HIDE DEF n, k
<1>3. n \in Nat /\ n >= k /\ n # 0 /\ lens[1] = n - 3 - (k - 2) * size
  <2>1. CASE size = 2
    BY <1>1, <1>2, <2>1
  <2>2. CASE size = 3
    BY <1>1, <1>2, <2>2
  <2> QED
    BY <2>1, <2>2
<1>4. k \in 2..n
  BY <1>1, <1>3
<1>5. lens = Grouped(n, k, size)
  <2>1. ASSUME NEW i \in 1..k
        PROVE  lens[i] = IF i = k THEN 3 ELSE IF i > 1 THEN size ELSE n - 3 - (k - 2) * size
    <3>1. CASE i = k
      BY <3>1 DEF GroupsOf, k
    <3>2. CASE i # k /\ i > 1
      <4>0. k \in Nat /\ i \in Int /\ i <= k /\ i >= 1
        BY <1>1
      <4>1. i \in 2..(k - 1)
        BY <3>2, <4>0
      <4> QED
        BY <3>2, <4>1 DEF GroupsOf, k
    <3>3. CASE i = 1
      BY <1>1, <1>3, <3>3
    <3> QED
      BY <1>1, <3>1, <3>2, <3>3
  <2> QED
    BY <1>1, <2>1 DEF Grouped
<1>6. lens \in Groupings(n)
  BY <1>4, <1>5 DEF Groupings
<1> QED
  BY <1>3, <1>6 DEF n

\* A grouping is made of groups whose digits add up.
LEMMA GroupingTotal ==
  ASSUME NEW n \in Nat \ {0}, NEW lens \in Groupings(n)
  PROVE  /\ lens \in Seq(Nat) /\ Len(lens) \in Nat \ {0} /\ Total(lens) = n
         /\ \/ Len(lens) = 1 /\ lens[1] = n
            \/ /\ Len(lens) >= 2 /\ lens[1] \in 1..3
               /\ \E size \in {2, 3} : GroupsOf(lens, size)
<1>1. CASE lens = <<n>>
  <2>1. lens \in Seq(Nat) /\ Len(lens) = 1 /\ lens[1] = n
    BY <1>1
  <2> QED
    BY <2>1, TotalOfOne
<1>2. CASE lens # <<n>>
  <2>1. PICK k \in 2..n, size \in {2, 3} : lens = Grouped(n, k, size) /\ lens[1] \in 1..3
    BY <1>2 DEF Groupings
  <2>2. \A i \in 1..k : lens[i] =
          IF i = k THEN 3 ELSE IF i > 1 THEN size ELSE n - 3 - (k - 2) * size
    BY <2>1 DEF Grouped
  <2>3. k \in Nat /\ k >= 2 /\ n \in Nat
    OBVIOUS
  <2>4. lens[k] = 3 /\ (\A i \in 2..(k - 1) : lens[i] = size)
    BY <2>2, <2>3
  <2>5. \A i \in 1..k : lens[i] \in Nat
    <3>1. \A i \in 1..k : i = 1 \/ i = k \/ i \in 2..(k - 1)
      BY <2>3
    <3> QED
      BY <2>1, <2>4, <3>1
  <2>6. lens \in [1..k -> Nat]
    BY <2>1, <2>5 DEF Grouped
  <2>7. lens \in Seq(Nat) /\ Len(lens) = k
    BY <2>3, <2>6
  <2>8. GroupsOf(lens, size)
    BY <2>4, <2>7 DEF GroupsOf
  <2>9. lens[1] = n - 3 - (k - 2) * size
    <3>1. 1 \in 1..k /\ 1 # k
      BY <2>3
    <3> QED
      BY <2>2, <3>1
  <2>10. Total(lens) = lens[1] + (k - 2) * size + 3
    BY <2>3, <2>4, <2>7, TotalOfGroups
  <2>11. Total(lens) = n
    <3>1. CASE size = 2
      BY <2>3, <2>9, <2>10, <3>1
    <3>2. CASE size = 3
      BY <2>3, <2>9, <2>10, <3>2
    <3> QED
      BY <3>1, <3>2
  <2> QED
    BY <2>1, <2>3, <2>7, <2>8, <2>11
<1> QED
  BY <1>1, <1>2

\* The integer part as the code checks it is a grouping of its digits, with
\* the separator of thousands between the groups.
LEMMA IntegerPartMeans ==
  ASSUME NEW lens \in Seq(Nat), NEW seps \in Seq({"comma", "point"}), Len(lens) = Len(seps) + 1,
         NEW g \in {"comma", "point"}, IntegerPart(lens, seps, g)
  PROVE  /\ Total(lens) \in Nat \ {0} /\ lens \in Groupings(Total(lens))
         /\ seps = Same(g, Len(lens) - 1)
<1>1. Len(seps) \in Nat /\ seps \in [1..Len(seps) -> {"comma", "point"}] /\ Len(lens) - 1 = Len(seps)
  <2>1. Len(seps) \in Nat /\ seps \in [1..Len(seps) -> {"comma", "point"}]
    BY LenProperties
  <2> QED
    BY <2>1
<1>2. CASE seps = <<>>
  <2>0. Len(seps) = 0
    BY <1>2
  <2>1. Len(lens) = 1 /\ lens[1] > 0 /\ lens[1] \in Nat
    <3>1. Len(lens) = 1 /\ lens[1] \in Nat
      BY <2>0
    <3>2. lens[1] > 0
      BY <1>2, Zenon DEF IntegerPart
    <3> QED
      BY <3>1, <3>2
  <2>2. Total(lens) = lens[1]
    BY <2>1, TotalOfOne
  <2>3. lens = <<lens[1]>>
    <3>1. lens \in [1..1 -> Nat]
      BY <2>1, LenProperties
    <3> QED
      BY <2>1, <3>1
  <2>4. lens \in Groupings(lens[1])
    BY <2>3 DEF Groupings
  <2>5. seps = Same(g, 0)
    BY <1>2 DEF Same
  <2>6. Len(lens) - 1 = 0
    BY <2>1
  <2> QED
    BY <2>1, <2>2, <2>4, <2>5, <2>6
<1>3. CASE seps # <<>>
  <2>1. ToSet(seps) = {g} /\ ValidGroupedInteger(lens)
    BY <1>3 DEF IntegerPart
  <2>2. Len(lens) >= 2
    BY <1>1, <1>3
  <2>3. PICK size \in {2, 3} : lens[1] \in 1..3 /\ GroupsOf(lens, size)
    BY <2>1, <2>2, ValidGroups
  <2>4. \A i \in 1..Len(seps) : seps[i] = g
    BY <1>1, <2>1 DEF ToSet
  <2>5. seps = Same(g, Len(seps))
    BY <1>1, <2>4 DEF Same
  <2> QED
    BY <1>1, <2>2, <2>3, <2>5, GroupsOfTotal
<1> QED
  BY <1>2, <1>3

\* And every grouping passes the check.
LEMMA GroupingIsIntegerPart ==
  ASSUME NEW n \in Nat \ {0}, NEW lens \in Groupings(n), NEW g
  PROVE  IntegerPart(lens, Same(g, Len(lens) - 1), g)
<1> DEFINE k == Len(lens)
           seps == Same(g, k - 1)
<1>1. /\ lens \in Seq(Nat) /\ k \in Nat \ {0}
      /\ \/ k = 1 /\ lens[1] = n
         \/ k >= 2 /\ lens[1] \in 1..3 /\ \E size \in {2, 3} : GroupsOf(lens, size)
  BY GroupingTotal
<1>2. CASE k = 1 /\ lens[1] = n
  <2>1. seps = <<>>
    BY <1>2 DEF Same
  <2> QED
    BY <1>2, <2>1 DEF IntegerPart
<1>3. CASE k >= 2 /\ lens[1] \in 1..3 /\ \E size \in {2, 3} : GroupsOf(lens, size)
  <2>1. ValidGroupedInteger(lens)
    BY <1>1, <1>3, ValidGroups
  <2>2. DOMAIN seps = 1..(k - 1) /\ \A i \in 1..(k - 1) : seps[i] = g
    BY DEF Same
  <2>3. 1 \in 1..(k - 1)
    BY <1>1, <1>3
  <2> HIDE DEF seps
  <2>4. ToSet(seps) = {g}
    BY <2>2, <2>3 DEF ToSet
  <2>5. seps # <<>>
    BY <2>2, <2>3
  <2> QED
    BY <2>1, <2>4, <2>5 DEF IntegerPart, seps
<1> QED
  BY <1>1, <1>2, <1>3
-----------------------------------------------------------------------------
(* The reading of an amount is its meaning. *)

\* How many decimals a bank may print.
Places(bank) == IF bank = "mtb" THEN 1..3 ELSE 0..2
MaxPlaces(bank) == IF bank = "mtb" THEN 3 ELSE 2

\* Groups of digits as a bank writes them, without and with decimals.
Plain(bank, lens) ==
  [lens |-> lens, seps |-> Same(GroupingOf(bank), Len(lens) - 1), zero |-> FALSE]
WithDecimals(bank, lens, m) ==
  [lens |-> lens \o <<m>>,
   seps |-> Same(GroupingOf(bank), Len(lens) - 1) \o <<DecimalOf(bank)>>, zero |-> FALSE]

\* The code reads an amount in the notation of the bank.
LEMMA BankNotation ==
  ASSUME NEW a, NEW bank \in Banks
  PROVE  CanonicalAmount(a, bank) =
           IF a.zero THEN None
           ELSE ParseGroupedDecimal(a, GroupingOf(bank), DecimalOf(bank), Places(bank))
BY DEF CanonicalAmount, GroupingOf, DecimalOf, Places

\* A bank separates thousands and decimals differently.
LEMMA Separators ==
  ASSUME NEW bank
  PROVE  /\ GroupingOf(bank) \in {"comma", "point"} /\ DecimalOf(bank) \in {"comma", "point"}
         /\ GroupingOf(bank) # DecimalOf(bank)
BY DEF GroupingOf, DecimalOf

\* Equal separators are a sequence.
LEMMA SameType ==
  ASSUME NEW g \in {"comma", "point"}, NEW n \in Nat
  PROVE  /\ Same(g, n) \in Seq({"comma", "point"}) /\ Len(Same(g, n)) = n
         /\ \A i \in 1..n : Same(g, n)[i] = g
<1>1. Same(g, n) \in [1..n -> {"comma", "point"}] /\ \A i \in 1..n : Same(g, n)[i] = g
  BY DEF Same
<1> QED
  BY <1>1

\* The forms of an amount, with and without decimals.
LEMMA WritingForms ==
  ASSUME NEW bank \in Banks, NEW n \in Nat \ {0}, NEW m \in 0..MaxPlaces(bank), NEW a
  PROVE  a \in Writings(bank, n, m) <=>
           \E lens \in Groupings(n) : \/ m = 0 /\ a = Plain(bank, lens)
                                      \/ m \in Places(bank) /\ a = WithDecimals(bank, lens, m)
<1> DEFINE g == GroupingOf(bank)
           d == DecimalOf(bank)
           none == [lens |-> <<>>, seps |-> <<>>]
           one == [lens |-> <<m>>, seps |-> <<d>>]
           tails == IF m > 0 THEN {one}
                    ELSE {none} \cup
                         (IF bank = "mtb" THEN {} ELSE {[lens |-> <<0>>, seps |-> <<"comma">>]})
           Written(lens, tail) ==
             [lens |-> lens \o tail.lens, seps |-> Same(g, Len(lens) - 1) \o tail.seps,
              zero |-> FALSE]
<1>1. Writings(bank, n, m) = {Written(lens, tail) : lens \in Groupings(n), tail \in tails}
  BY DEF Writings
<1>2. m \in 0..3
  BY DEF MaxPlaces
<1>3. \A tail : tail \in tails <=> (m = 0 /\ tail = none) \/ (m \in Places(bank) /\ tail = one)
  <2>1. CASE m > 0
    <3>1. m \in Places(bank)
      BY <2>1 DEF MaxPlaces, Places
    <3> QED
      BY <2>1, <3>1
  <2>2. CASE m = 0 /\ bank = "mtb"
    <3>1. m \notin Places(bank)
      BY <2>2 DEF Places
    <3> QED
      BY <2>2, <3>1
  <2>3. CASE m = 0 /\ bank # "mtb"
    <3>1. m \in Places(bank) /\ d = "comma"
      BY <2>3 DEF Places, DecimalOf
    <3> QED
      BY <2>3, <3>1
  <2> QED
    BY <1>2, <2>1, <2>2, <2>3
<1>4. ASSUME NEW lens \in Groupings(n)
      PROVE  Written(lens, none) = Plain(bank, lens) /\ Written(lens, one) = WithDecimals(bank, lens, m)
  <2>1. lens \in Seq(Nat) /\ Len(lens) \in Nat \ {0}
    BY GroupingTotal
  <2>2. Len(lens) - 1 \in Nat
    BY <2>1
  <2>3. Same(g, Len(lens) - 1) \in Seq({"comma", "point"})
    BY <2>2, SameType, Separators
  <2>4. lens \o <<>> = lens /\ Same(g, Len(lens) - 1) \o <<>> = Same(g, Len(lens) - 1)
    BY <2>1, <2>3, ConcatEmptySeq
  <2> QED
    BY <2>4 DEF Plain, WithDecimals
<1> HIDE DEF tails, Written, none, one
<1> QED
  BY <1>1, <1>3, <1>4

\* What the last group of digits adds.
LEMMA TotalOfPrefix ==
  ASSUME NEW lens \in Seq(Nat), NEW n \in Nat, Len(lens) = n + 1
  PROVE  Total(lens) = Total(SubSeq(lens, 1, n)) + lens[n + 1]
<1> DEFINE whole == SubSeq(lens, 1, n)
<1>1. whole \in Seq(Nat) /\ Len(whole) = n /\ \A i \in 1..n : whole[i] = lens[i]
  <2>1. \A i \in 1..n : lens[i] \in Nat
    OBVIOUS
  <2> QED
    BY <2>1, SubSeqProperties
<1> HIDE DEF whole
<1>2. lens \in Seq(Int) /\ whole \in Seq(Int)
  BY <1>1
<1>3. PICK sum \in [0..(n + 1) -> Int] :
        /\ sum[0] = 0 /\ \A i \in 1..(n + 1) : sum[i] = sum[i - 1] + lens[i]
        /\ Total(lens) = sum[n + 1]
  BY <1>2, TotalSteps
<1>4. PICK part \in [0..n -> Int] :
        /\ part[0] = 0 /\ \A i \in 1..n : part[i] = part[i - 1] + whole[i]
        /\ Total(whole) = part[n]
  BY <1>1, <1>2, TotalSteps
<1> DEFINE T == {i \in 0..n : part[i] = sum[i]}
<1>5. 0 \in T
  BY <1>3, <1>4
<1>6. ASSUME NEW i \in 1..n, i - 1 \in T PROVE i \in T
  <2>1. part[i] = part[i - 1] + whole[i] /\ whole[i] = lens[i]
    BY <1>1, <1>4
  <2>2. sum[i] = sum[i - 1] + lens[i]
    BY <1>3
  <2> QED
    BY <1>6, <2>1, <2>2
<1> HIDE DEF T
<1>7. 0..n \subseteq T
  BY <1>5, <1>6, UpTo
<1>8. part[n] = sum[n]
  <2>1. n \in T
    BY <1>7
  <2> QED
    BY <2>1 DEF T
<1>9. sum[n + 1] = sum[n] + lens[n + 1]
  <2>1. n + 1 \in 1..(n + 1) /\ (n + 1) - 1 = n
    OBVIOUS
  <2> QED
    BY <1>3, <2>1
<1> QED
  BY <1>3, <1>4, <1>8, <1>9 DEF whole

\* Digits before the decimals, as the code cuts them off.
LEMMA CutDecimals ==
  ASSUME NEW S, NEW s \in Seq(S), NEW n \in Nat, Len(s) = n + 1
  PROVE  /\ SubSeq(s, 1, n) \in Seq(S) /\ Len(SubSeq(s, 1, n)) = n
         /\ s = SubSeq(s, 1, n) \o <<s[n + 1]>>
<1>1. \A i \in 1..n : s[i] \in S
  OBVIOUS
<1>2. /\ SubSeq(s, 1, n) \in Seq(S) /\ Len(SubSeq(s, 1, n)) = n
      /\ \A i \in 1..n : SubSeq(s, 1, n)[i] = s[i]
  BY <1>1, SubSeqProperties
<1> DEFINE whole == SubSeq(s, 1, n)
           t == whole \o <<s[n + 1]>>
<1>3. s[n + 1] \in S
  OBVIOUS
<1>4. <<s[n + 1]>> \in Seq(S) /\ Len(<<s[n + 1]>>) = 1 /\ <<s[n + 1]>>[1] = s[n + 1]
  BY <1>3
<1> HIDE DEF whole
<1>5. /\ t \in Seq(S) /\ Len(t) = n + 1
      /\ \A i \in 1..(n + 1) : t[i] = IF i <= n THEN whole[i] ELSE <<s[n + 1]>>[i - n]
  BY <1>2, <1>4, ConcatProperties DEF whole
<1> HIDE DEF t
<1>6. \A i \in 1..(n + 1) : t[i] = s[i]
  <2>1. ASSUME NEW i \in 1..(n + 1) PROVE t[i] = s[i]
    <3>1. CASE i <= n
      BY <1>2, <1>5, <3>1 DEF whole
    <3>2. CASE i = n + 1
      <4>1. i - n = 1 /\ ~(i <= n)
        BY <3>2
      <4> QED
        BY <1>4, <1>5, <3>2, <4>1
    <3>3. i <= n \/ i = n + 1
      OBVIOUS
    <3> QED
      BY <3>1, <3>2, <3>3
  <2> QED
    BY <2>1
<1>7. s = t
  BY <1>5, <1>6, SeqEqual
<1> QED
  BY <1>2, <1>7 DEF t, whole

\* And what was cut off comes off again.
LEMMA CutAppended ==
  ASSUME NEW S, NEW s \in Seq(S), NEW x \in S
  PROVE  /\ s \o <<x>> \in Seq(S) /\ Len(s \o <<x>>) = Len(s) + 1
         /\ (s \o <<x>>)[Len(s) + 1] = x
         /\ SubSeq(s \o <<x>>, 1, Len(s)) = s
<1> DEFINE n == Len(s)
           t == s \o <<x>>
<1>1. n \in Nat /\ <<x>> \in Seq(S) /\ Len(<<x>>) = 1 /\ <<x>>[1] = x
  OBVIOUS
<1>2. /\ t \in Seq(S) /\ Len(t) = n + 1
      /\ \A i \in 1..(n + 1) : t[i] = IF i <= n THEN s[i] ELSE <<x>>[i - n]
  BY <1>1, ConcatProperties
<1> HIDE DEF t
<1>3. t[n + 1] = x
  <2>1. n + 1 \in 1..(n + 1) /\ (n + 1) - n = 1 /\ ~(n + 1 <= n)
    BY <1>1
  <2> QED
    BY <1>1, <1>2, <2>1
<1>4. /\ SubSeq(t, 1, n) \in Seq(S) /\ Len(SubSeq(t, 1, n)) = n
      /\ \A i \in 1..n : SubSeq(t, 1, n)[i] = t[i]
  BY <1>1, <1>2, CutDecimals, SubSeqProperties
<1>5. \A i \in 1..n : SubSeq(t, 1, n)[i] = s[i]
  BY <1>1, <1>2, <1>4
<1>6. SubSeq(t, 1, n) = s
  BY <1>4, <1>5, SeqEqual
<1> QED
  BY <1>2, <1>3, <1>6 DEF t

\* The parts of an amount that the code reads.
HasDecimals(a, d) == d \in ToSet(a.seps)

\* An amount without decimals.
LEMMA ParsePlain ==
  ASSUME NEW a, NEW g, NEW d, NEW places, ~HasDecimals(a, d)
  PROVE  ParseGroupedDecimal(a, g, d, places) =
           IF IntegerPart(a.lens, a.seps, g) THEN <<Total(a.lens), 0>> ELSE None
BY DEF ParseGroupedDecimal, HasDecimals

\* An amount with decimals.
LEMMA ParseDecimals ==
  ASSUME NEW a, NEW g, NEW d, NEW places, HasDecimals(a, d)
  PROVE  ParseGroupedDecimal(a, g, d, places) =
           IF /\ a.seps[Len(a.seps)] = d /\ a.lens[Len(a.lens)] \in places
              /\ IntegerPart(SubSeq(a.lens, 1, Len(a.seps)), SubSeq(a.seps, 1, Len(a.seps) - 1), g)
           THEN <<Total(SubSeq(a.lens, 1, Len(a.seps))), a.lens[Len(a.lens)]>> ELSE None
BY DEF ParseGroupedDecimal, HasDecimals, Last

\* Every amount a bank may have written is read as what it means.
LEMMA WrittenIsRead ==
  ASSUME NEW bank \in Banks, NEW n \in Nat \ {0}, NEW m \in 0..MaxPlaces(bank),
         NEW a \in Writings(bank, n, m)
  PROVE  CanonicalAmount(a, bank) = <<n, m>>
<1> DEFINE g == GroupingOf(bank)
           d == DecimalOf(bank)
<1>1. PICK lens \in Groupings(n) : \/ m = 0 /\ a = Plain(bank, lens)
                                   \/ m \in Places(bank) /\ a = WithDecimals(bank, lens, m)
  BY WritingForms
<1>2. lens \in Seq(Nat) /\ Len(lens) \in Nat \ {0} /\ Total(lens) = n
  BY GroupingTotal
<1> DEFINE k == Len(lens)
           seps == Same(g, k - 1)
<1>3. k - 1 \in Nat
  BY <1>2
<1>4. /\ g \in {"comma", "point"} /\ d \in {"comma", "point"} /\ g # d
  BY Separators
<1>5. /\ seps \in Seq({"comma", "point"}) /\ Len(seps) = k - 1
      /\ \A i \in 1..(k - 1) : seps[i] = g
  BY <1>3, <1>4, SameType
<1>6. IntegerPart(lens, seps, g)
  BY GroupingIsIntegerPart
<1>7. CASE m = 0 /\ a = Plain(bank, lens)
  <2>1. a.lens = lens /\ a.seps = seps /\ a.zero = FALSE
    BY <1>7 DEF Plain
  <2>2. ~HasDecimals(a, d)
    <3> HIDE DEF seps, g, d, k
    <3>1. DOMAIN seps = 1..(k - 1)
      BY <1>3, <1>5
    <3> QED
      BY <1>4, <1>5, <2>1, <3>1 DEF HasDecimals, ToSet
  <2>3. ParseGroupedDecimal(a, g, d, Places(bank)) = <<Total(lens), 0>>
    BY <1>6, <2>1, <2>2, ParsePlain
  <2> QED
    BY <1>2, <1>7, <2>1, <2>3, BankNotation
<1>8. CASE m \in Places(bank) /\ a = WithDecimals(bank, lens, m)
  <2>1. a.lens = lens \o <<m>> /\ a.seps = seps \o <<d>> /\ a.zero = FALSE
    BY <1>8 DEF WithDecimals
  <2>2. m \in Nat
    BY DEF MaxPlaces
  <2> HIDE DEF seps, g, d
  <2>3. /\ a.lens \in Seq(Nat) /\ Len(a.lens) = k + 1 /\ a.lens[k + 1] = m
        /\ SubSeq(a.lens, 1, k) = lens
    BY <1>2, <2>1, <2>2, CutAppended
  <2>4. /\ a.seps \in Seq({"comma", "point"}) /\ Len(a.seps) = (k - 1) + 1
        /\ a.seps[(k - 1) + 1] = d /\ SubSeq(a.seps, 1, k - 1) = seps
    <3>1. /\ seps \o <<d>> \in Seq({"comma", "point"})
          /\ Len(seps \o <<d>>) = Len(seps) + 1
          /\ (seps \o <<d>>)[Len(seps) + 1] = d
          /\ SubSeq(seps \o <<d>>, 1, Len(seps)) = seps
      BY <1>4, <1>5, CutAppended
    <3> QED
      BY <1>5, <2>1, <3>1
  <2>5. (k - 1) + 1 = k /\ k \in Nat
    BY <1>2
  <2>6. Len(a.seps) = k /\ a.seps[k] = d
    BY <2>4, <2>5
  <2>7. HasDecimals(a, d)
    <3>1. k \in DOMAIN a.seps
      <4>1. DOMAIN a.seps = 1..k
        BY <2>4, <2>6
      <4> QED
        BY <1>2, <4>1
    <3> QED
      BY <2>6, <3>1 DEF HasDecimals, ToSet
  <2>8. ParseGroupedDecimal(a, g, d, Places(bank)) = <<Total(lens), m>>
    BY <1>6, <1>8, <2>3, <2>4, <2>6, <2>7, ParseDecimals
  <2> QED
    BY <1>2, <2>1, <2>8, BankNotation DEF g, d
<1> QED
  BY <1>1, <1>7, <1>8

\* What is read as an amount is what the bank wrote.
LEMMA ReadIsWritten ==
  ASSUME NEW bank \in Banks, NEW a, IsAmount(a), CanonicalAmount(a, bank) # None
  PROVE  \E n \in 1..Total(a.lens), m \in 0..MaxPlaces(bank) :
           CanonicalAmount(a, bank) = <<n, m>> /\ a \in Writings(bank, n, m)
<1> DEFINE g == GroupingOf(bank)
           d == DecimalOf(bank)
           n == Len(a.seps)
<1>1. /\ a \in [lens : Seq(Nat), seps : Seq({"comma", "point"}), zero : BOOLEAN]
      /\ a.lens \in Seq(Nat) /\ a.seps \in Seq({"comma", "point"})
      /\ n \in Nat /\ Len(a.lens) = n + 1
  BY DEF IsAmount
<1>2. /\ a.zero = FALSE
      /\ CanonicalAmount(a, bank) = ParseGroupedDecimal(a, g, d, Places(bank))
  BY <1>1, BankNotation
<1>3. g \in {"comma", "point"} /\ d \in {"comma", "point"} /\ g # d
  BY Separators
<1> HIDE DEF g, d
<1>4. CASE ~HasDecimals(a, d)
  <2>1. IntegerPart(a.lens, a.seps, g) /\ CanonicalAmount(a, bank) = <<Total(a.lens), 0>>
    BY <1>2, <1>4, ParsePlain
  <2>2. /\ Total(a.lens) \in Nat \ {0} /\ a.lens \in Groupings(Total(a.lens))
        /\ a.seps = Same(g, Len(a.lens) - 1)
    BY <1>1, <1>3, <2>1, IntegerPartMeans
  <2>3. a = Plain(bank, a.lens)
    BY <1>1, <1>2, <2>2 DEF Plain, g
  <2>4. 0 \in 0..MaxPlaces(bank)
    BY DEF MaxPlaces
  <2>5. a \in Writings(bank, Total(a.lens), 0)
    BY <2>2, <2>3, <2>4, WritingForms
  <2>6. Total(a.lens) \in 1..Total(a.lens)
    BY <2>2
  <2> QED
    BY <2>1, <2>4, <2>5, <2>6
<1>5. CASE HasDecimals(a, d)
  <2> DEFINE whole == SubSeq(a.lens, 1, n)
             before == SubSeq(a.seps, 1, n - 1)
             m == a.lens[n + 1]
  <2>1. /\ a.seps[n] = d /\ m \in Places(bank) /\ IntegerPart(whole, before, g)
        /\ CanonicalAmount(a, bank) = <<Total(whole), m>>
    BY <1>1, <1>2, <1>5, ParseDecimals, Zenon
  <2>2. n \in Nat \ {0}
    <3>1. \E i \in DOMAIN a.seps : a.seps[i] = d
      BY <1>5 DEF HasDecimals, ToSet
    <3> QED
      BY <1>1, <3>1
  <2>3. n - 1 \in Nat /\ (n - 1) + 1 = n
    BY <2>2
  <2>4. /\ whole \in Seq(Nat) /\ Len(whole) = n /\ a.lens = whole \o <<m>>
    BY <1>1, CutDecimals
  <2>5. /\ before \in Seq({"comma", "point"}) /\ Len(before) = n - 1
        /\ a.seps = before \o <<a.seps[n]>>
    <3>1. Len(a.seps) = (n - 1) + 1
      BY <2>3
    <3>2. /\ before \in Seq({"comma", "point"}) /\ Len(before) = n - 1
          /\ a.seps = before \o <<a.seps[(n - 1) + 1]>>
      BY <1>1, <2>3, <3>1, CutDecimals
    <3> QED
      BY <2>3, <3>2
  <2>6. m \in Nat
    BY <1>1
  <2>7. Total(a.lens) = Total(whole) + m
    BY <1>1, TotalOfPrefix
  <2> HIDE DEF whole, before, m, n
  <2>8. Len(whole) = Len(before) + 1
    BY <2>3, <2>4, <2>5
  <2>9. /\ Total(whole) \in Nat \ {0} /\ whole \in Groupings(Total(whole))
        /\ before = Same(g, Len(whole) - 1)
    BY <1>3, <2>1, <2>4, <2>5, <2>8, IntegerPartMeans
  <2>10. a = WithDecimals(bank, whole, m)
    BY <1>1, <1>2, <2>1, <2>4, <2>5, <2>9 DEF WithDecimals, g, d
  <2>11. m \in 0..MaxPlaces(bank)
    BY <2>1 DEF Places, MaxPlaces
  <2>12. a \in Writings(bank, Total(whole), m)
    BY <2>1, <2>9, <2>10, <2>11, WritingForms
  <2>13. Total(whole) \in 1..Total(a.lens)
    BY <2>6, <2>7, <2>9
  <2> QED
    BY <2>1, <2>11, <2>12, <2>13
<1> QED
  BY <1>4, <1>5

\* The amount a bank's notation gives a meaning is the amount that is read.
LEMMA AmountIsMeant ==
  ASSUME NEW bank \in Banks, NEW a, IsAmount(a), Total(a.lens) <= MaxDigits
  PROVE  AmountMeanings(bank, a) =
           IF CanonicalAmount(a, bank) = None THEN {} ELSE {CanonicalAmount(a, bank)}
<1>1. MaxDigits \in Nat
  BY AmountAssumption
<1>2. AmountMeanings(bank, a) =
        {v \in (1..MaxDigits) \X (0..MaxPlaces(bank)) : a \in Writings(bank, v[1], v[2])}
  BY DEF AmountMeanings, MaxPlaces
<1>3. ASSUME NEW v \in AmountMeanings(bank, a) PROVE CanonicalAmount(a, bank) = v /\ v # None
  <2>1. PICK n \in 1..MaxDigits, m \in 0..MaxPlaces(bank) :
          v = <<n, m>> /\ a \in Writings(bank, n, m)
    BY <1>2
  <2>2. n \in Nat \ {0}
    BY <1>1
  <2>3. CanonicalAmount(a, bank) = <<n, m>>
    BY <2>1, <2>2, WrittenIsRead
  <2> QED
    BY <2>1, <2>3 DEF None
<1>4. ASSUME CanonicalAmount(a, bank) # None
      PROVE  CanonicalAmount(a, bank) \in AmountMeanings(bank, a)
  <2>1. PICK n \in 1..Total(a.lens), m \in 0..MaxPlaces(bank) :
          CanonicalAmount(a, bank) = <<n, m>> /\ a \in Writings(bank, n, m)
    BY <1>4, ReadIsWritten
  <2>2. Total(a.lens) \in Int
    <3>1. a.lens \in Seq(Int) /\ Len(a.lens) \in Nat
      BY DEF IsAmount
    <3>2. PICK sum \in [0..Len(a.lens) -> Int] : Total(a.lens) = sum[Len(a.lens)]
      BY <3>1, TotalSteps
    <3> QED
      BY <3>1, <3>2
  <2>3. n \in 1..MaxDigits
    BY <1>1, <2>2
  <2> QED
    BY <1>2, <2>1, <2>3
<1> QED
  BY <1>3, <1>4
-----------------------------------------------------------------------------
(* What is read is what is meant. *)

\* A mention of a field, in an amount of no more digits than are looked at.
Bounded(m) == m.shows = "money" => Total(m.raw.amount.lens) <= MaxDigits

\* For a mention of a field, the canonical value is its only meaning, and a
\* mention without a canonical value has none.
LEMMA MeaningIsCanonical ==
  ASSUME NEW f \in Fields, NEW m, IsMention(m), Bounded(m), m.shows = ShownAs(f),
         NEW bank \in Banks
  PROVE  Meaning(f, m.raw, bank) =
           IF Canonical(f, m.raw, bank) = None THEN {} ELSE {Canonical(f, m.raw, bank)}
<1> DEFINE raw == m.raw
<1>1. CASE f = "number"
  <2>1. raw.bank \in Banks \cup {"other"}
    BY <1>1 DEF IsMention, ShownAs
  <2>2. "other" \notin Banks
    BY DEF Banks
  <2>3. Meaning(f, raw, bank) = IF raw.spaced \/ raw.bank = "other" THEN {} ELSE {<<raw.bank, raw.serial>>}
    BY <1>1 DEF Meaning
  <2>4. Canonical(f, raw, bank) = IF raw.spaced \/ raw.bank \notin Banks THEN None ELSE <<raw.bank, raw.serial>>
    BY <1>1 DEF Canonical, CanonicalNumber
  <2>5. <<raw.bank, raw.serial>> # None
    BY DEF None
  <2> HIDE DEF raw
  <2> QED
    BY <2>1, <2>2, <2>3, <2>4, <2>5 DEF raw
<1>2. CASE f = "date"
  <2>1. raw.form \in DateForms \cup {"dmony"}
    BY <1>2 DEF IsMention, ShownAs
  <2>2. "dmony" \notin DateForms
    BY DEF DateForms
  <2>3. Meaning(f, raw, bank) = IF raw.day = 0 \/ raw.form = "dmony" THEN {} ELSE {<<raw.day>>}
    BY <1>2 DEF Meaning
  <2>4. Canonical(f, raw, bank) = IF raw.form \in DateForms /\ raw.day # 0 THEN <<raw.day>> ELSE None
    BY <1>2 DEF Canonical, CanonicalDate
  <2>5. <<raw.day>> # None
    BY DEF None
  <2> HIDE DEF raw
  <2> QED
    BY <2>1, <2>2, <2>3, <2>4, <2>5 DEF raw
<1>3. CASE f = "value"
  <2>1. IsAmount(raw.amount) /\ Total(raw.amount.lens) <= MaxDigits
    BY <1>3 DEF IsMention, ShownAs, Bounded
  <2>2. Meaning(f, raw, bank) = AmountMeanings(bank, raw.amount)
    BY <1>3 DEF Meaning
  <2>3. Canonical(f, raw, bank) = CanonicalAmount(raw.amount, bank)
    BY <1>3 DEF Canonical
  <2> QED
    BY <2>1, <2>2, <2>3, AmountIsMeant
<1>4. CASE f = "currency"
  <2>1. Meaning(f, raw, bank) = {<<raw.code>>}
    BY <1>4 DEF Meaning
  <2>2. Canonical(f, raw, bank) = <<raw.code>>
    BY <1>4 DEF Canonical
  <2> QED
    BY <2>1, <2>2 DEF None
<1>5. CASE f = "pi"
  <2>1. Meaning(f, raw, bank) = IF raw.slashes THEN {<<raw.maker, raw.serial>>} ELSE {}
    BY <1>5 DEF Meaning
  <2>2. Canonical(f, raw, bank) = IF raw.slashes THEN <<raw.maker, raw.serial>> ELSE None
    BY <1>5 DEF Canonical, CanonicalPi
  <2>3. <<raw.maker, raw.serial>> # None
    BY DEF None
  <2> HIDE DEF raw
  <2> QED
    BY <2>1, <2>2, <2>3 DEF raw
<1>6. CASE f = "export"
  <2>1. raw.prefix \in {"", "LC", "SC"}
    BY <1>6 DEF IsMention, ShownAs
  <2>2. Meaning(f, raw, bank) =
          IF ~raw.wellFormed THEN {} ELSE {<<IF raw.prefix = "SC" THEN "SC" ELSE "LC", raw.body>>}
    BY <1>6 DEF Meaning
  <2>3. Canonical(f, raw, bank) =
          IF raw.wellFormed THEN <<IF raw.prefix = "" THEN "LC" ELSE raw.prefix, raw.body>> ELSE None
    BY <1>6 DEF Canonical, CanonicalExport
  <2>4. (IF raw.prefix = "" THEN "LC" ELSE raw.prefix) = IF raw.prefix = "SC" THEN "SC" ELSE "LC"
    BY <2>1
  <2>5. <<IF raw.prefix = "" THEN "LC" ELSE raw.prefix, raw.body>> # None
    BY DEF None
  <2> HIDE DEF raw
  <2> QED
    BY <2>2, <2>3, <2>4, <2>5 DEF raw
<1> QED
  BY <1>1, <1>2, <1>3, <1>4, <1>5, <1>6 DEF Fields
-----------------------------------------------------------------------------
(* Confidences. *)

\* The mean, rounded, of confidences is a confidence.
LEMMA RoundedMean ==
  ASSUME NEW total \in Nat, NEW n \in Nat \ {0}, total <= Sure * n
  PROVE  (2 * total + n) \div (2 * n) \in 0..Sure
<1> DEFINE q == (2 * total + n) \div (2 * n)
<1>1. 2 * n \in Nat \ {0} /\ 2 * total + n \in Nat
  OBVIOUS
<1>2. q \in Int /\ (2 * n) * q <= 2 * total + n /\ 2 * total + n < (2 * n) * (q + 1)
  BY <1>1
<1> HIDE DEF q
<1>3. q >= 0
  BY <1>1, <1>2
<1>4. q <= 10000
  <2>1. SUFFICES ASSUME q >= 10001 PROVE FALSE
    BY <1>2
  <2>2. (2 * n) * q >= (2 * n) * 10001
    BY <1>1, <1>2, <2>1
  <2>3. total <= 10000 * n
    BY DEF Sure
  <2>4. 2 * total + n <= 20001 * n
    BY <2>3
  <2>5. (2 * n) * 10001 = 20002 * n
    OBVIOUS
  <2>6. 20002 * n > 20001 * n
    OBVIOUS
  <2>7. (2 * n) * q <= 2 * total + n
    BY <1>2
  <2> QED
    BY <1>2, <2>2, <2>4, <2>5, <2>6, <2>7
<1>5. q \in Int
  BY <1>2
<1>6. q \in 0..Sure
  BY <1>3, <1>4, <1>5 DEF Sure
<1> QED
  BY <1>6 DEF q

\* A function over the first numbers is a sequence.
LEMMA FunctionIsSeq ==
  ASSUME NEW S, NEW n \in Nat, NEW s \in [1..n -> S]
  PROVE  s \in Seq(S) /\ Len(s) = n
OBVIOUS

\* The confidence of a value on a page is one.
LEMMA MatchedConfidenceType ==
  ASSUME NEW r, IsReading(r), NEW key
  PROVE  MatchedConfidence(r, key) \in 0..Sure
<1>1. /\ r.mean \in 0..Sure /\ Len(r.tokens) \in Nat /\ DOMAIN r.tokens = 1..Len(r.tokens)
      /\ \A i \in DOMAIN r.tokens : r.tokens[i].conf \in 0..Sure
  BY DEF IsReading
<1>2. CASE Whole(r, key) # {} /\ r.method # "text"
  <2> DEFINE S == {r.tokens[i].conf : i \in Whole(r, key)}
             T == {Sure - x : x \in S}
  <2>1. S \subseteq 0..Sure /\ S # {}
    BY <1>1, <1>2 DEF Whole
  <2> HIDE DEF S
  <2>2. T \in SUBSET Nat /\ T # {}
    <3>1. ASSUME NEW x \in S PROVE Sure - x \in Nat
      <4>1. x \in 0..Sure
        BY <2>1
      <4> QED
        BY <4>1 DEF Sure
    <3> QED
      BY <2>1, <3>1
  <2>3. PICK t \in T : \A u \in T : t <= u
    BY <2>2, LeastNumber
  <2>4. PICK x \in S : t = Sure - x
    BY <2>3
  <2>5. \A y \in S : x >= y
    <3>1. ASSUME NEW y \in S PROVE x >= y
      <4>1. Sure - x <= Sure - y
        BY <2>3, <2>4
      <4> QED
        BY <2>1, <4>1 DEF Sure
    <3> QED
      BY <3>1
  <2>6. Max(S) \in S
    BY <2>5 DEF Max
  <2>7. MatchedConfidence(r, key) = Max(S)
    BY <1>2 DEF MatchedConfidence, S
  <2> QED
    BY <2>1, <2>6, <2>7
<1>3. CASE Whole(r, key) = {} /\ Runs(r, key) # {} /\ r.method # "text"
  <2> DEFINE R == Runs(r, key)
             T == {v[1] : v \in R}
             First(w) == w \in R /\ \A v \in R : w[1] <= v[1]
             w == CHOOSE w \in R : \A v \in R : w[1] <= v[1]
  <2>1. /\ \A v \in R : /\ v[1] \in 1..Len(r.tokens) /\ v[2] \in 1..Len(r.tokens) /\ v[1] < v[2]
    BY <1>1 DEF Runs
  <2>2. R # {} /\ MatchedConfidence(r, key) = MeanOf(r, w)
    BY <1>3 DEF MatchedConfidence
  <2> HIDE DEF R
  <2>3. T \in SUBSET Nat /\ T # {}
    BY <1>1, <2>1, <2>2
  <2>4. PICK t \in T : \A u \in T : t <= u
    BY <2>3, LeastNumber
  <2>5. \E v \in R : First(v)
    BY <2>4
  <2>6. First(w)
    BY <2>5
  <2> HIDE DEF w, First
  <2>7. w[1] \in 1..Len(r.tokens) /\ w[2] \in 1..Len(r.tokens) /\ w[1] < w[2]
    BY <2>1, <2>6 DEF First
  <2> DEFINE n == w[2] - w[1] + 1
             confs == Confidences(r, w)
  <2>8. n \in Nat \ {0}
    BY <1>1, <2>7
  <2>9. \A i \in 1..n : w[1] + i - 1 \in 1..Len(r.tokens)
    BY <1>1, <2>7
  <2>10. confs \in [1..n -> 0..Sure]
    BY <1>1, <2>9 DEF Confidences
  <2>11. confs \in Seq(0..Sure) /\ Len(confs) = n
    <3> HIDE DEF confs, n
    <3>1. n \in Nat
      BY <2>8
    <3> QED
      BY <2>10, <3>1, FunctionIsSeq, Zenon
  <2> HIDE DEF confs, n
  <2>12. Total(confs) \in 0..(Sure * n)
    BY <2>11, TotalOfConfidences
  <2>13. MeanOf(r, w) = (2 * Total(confs) + n) \div (2 * n)
    BY <2>11 DEF MeanOf, confs
  <2>14. Total(confs) \in Nat /\ Total(confs) <= Sure * n
    BY <2>8, <2>12 DEF Sure
  <2> QED
    BY <2>2, <2>8, <2>13, <2>14, RoundedMean
<1>4. CASE r.method = "text" \/ (Whole(r, key) = {} /\ Runs(r, key) = {})
  BY <1>1, <1>4 DEF MatchedConfidence
<1> QED
  BY <1>2, <1>3, <1>4
-----------------------------------------------------------------------------
(* The candidates of a field. *)

\* Readings of pages within the limit.
GoodReadings(rs) ==
  /\ DOMAIN rs \subseteq 1..PageLimit
  /\ \A p \in DOMAIN rs : IsReading(rs[p]) /\ \A m \in rs[p].mentions : Bounded(m)

\* The mentions that become candidates.
NumberMarks(rs) ==
  IF {c \in Mentions(rs, "number") : c[2].cue = "anchored"} # {}
  THEN {c \in Mentions(rs, "number") : c[2].cue = "anchored"} ELSE Mentions(rs, "number")
PiMarks(rs) == {c \in Mentions(rs, "pi") : rs[c[1]].message}
ExportMarks(rs) ==
  IF BracPrimary(rs) # {} THEN BracPrimary(rs)
  ELSE IF ScbCandidates(rs) # {} THEN ScbCandidates(rs) ELSE LabelledExport(rs)
Marks(rs, f) ==
  CASE f = "number" -> NumberMarks(rs)
    [] f = "date" -> Mentions(rs, "date")
    [] f \in {"value", "currency"} -> Mentions(rs, "money")
    [] f = "pi" -> PiMarks(rs)
    [] f = "export" -> ExportMarks(rs)

\* The candidates are made of the marked mentions.
LEMMA CollectedMarks ==
  ASSUME NEW rs, NEW f \in Fields
  PROVE  CollectAll(rs)[f] = CandidatesOf(rs, Marks(rs, f))
<1>1. CASE f = "number"
  BY <1>1 DEF CollectAll, Marks, NumberCandidates, NumberMarks
<1>2. CASE f = "date"
  BY <1>2 DEF CollectAll, Marks, DateCandidates
<1>3. CASE f \in {"value", "currency"}
  BY <1>3 DEF CollectAll, Marks, MoneyCandidates
<1>4. CASE f = "pi"
  BY <1>4 DEF CollectAll, Marks, PiCandidates, PiMarks
<1>5. CASE f = "export"
  BY <1>5 DEF CollectAll, Marks, ExportCandidates, ExportMarks
<1> QED
  BY <1>1, <1>2, <1>3, <1>4, <1>5 DEF Fields

\* The mentions of a field, each on its page.
LEMMA InMentions ==
  ASSUME NEW rs, NEW f
  PROVE  /\ In(rs, f) = Mentions(rs, ShownAs(f))
         /\ \A x : x \in In(rs, f) <=> \E p \in DOMAIN rs : \E m \in rs[p].mentions :
                                          x = <<p, m>> /\ m.shows = ShownAs(f)
<1>1. \A x : x \in In(rs, f) <=> \E p \in DOMAIN rs : \E m \in rs[p].mentions :
                                   x = <<p, m>> /\ m.shows = ShownAs(f)
  BY DEF In
<1>2. \A x : x \in Mentions(rs, ShownAs(f)) <=> \E p \in DOMAIN rs : \E m \in rs[p].mentions :
                                   x = <<p, m>> /\ m.shows = ShownAs(f)
  BY DEF Mentions
<1> QED
  BY <1>1, <1>2

\* Only mentions of a field become its candidates.
LEMMA MarksAreMentions ==
  ASSUME NEW rs, NEW f \in Fields
  PROVE  Marks(rs, f) \subseteq In(rs, f)
<1>1. In(rs, f) = Mentions(rs, ShownAs(f))
  BY InMentions
<1>2. CASE f = "number"
  BY <1>1, <1>2 DEF Marks, NumberMarks, ShownAs
<1>3. CASE f = "date"
  BY <1>1, <1>3 DEF Marks, ShownAs
<1>4. CASE f \in {"value", "currency"}
  BY <1>1, <1>4 DEF Marks, ShownAs
<1>5. CASE f = "pi"
  BY <1>1, <1>5 DEF Marks, PiMarks, ShownAs
<1>6. CASE f = "export"
  <2>1. BracPrimary(rs) \subseteq Mentions(rs, "export")
    BY DEF BracPrimary
  <2>2. ScbCandidates(rs) \subseteq Mentions(rs, "export")
    BY DEF ScbCandidates
  <2>3. LabelledExport(rs) \subseteq Mentions(rs, "export")
    BY DEF LabelledExport
  <2> QED
    BY <1>1, <1>6, <2>1, <2>2, <2>3 DEF Marks, ExportMarks, ShownAs
<1> QED
  BY <1>2, <1>3, <1>4, <1>5, <1>6 DEF Fields

\* Where a candidate comes from.
Made(rs, x) == Candidate(x[1], rs[x[1]], x[2])

\* Every candidate is a mention of its field, with its page, how the page was
\* read and the confidence of the value there.
LEMMA CandidateIsMention ==
  ASSUME NEW rs, GoodReadings(rs), NEW f \in Fields, NEW c \in CollectAll(rs)[f]
  PROVE  \E x \in In(rs, f) :
           /\ c = Made(rs, x)
           /\ x[1] \in DOMAIN rs /\ x[2] \in rs[x[1]].mentions /\ x[2].shows = ShownAs(f)
           /\ IsReading(rs[x[1]]) /\ IsMention(x[2]) /\ Bounded(x[2])
           /\ f = "pi" => rs[x[1]].message
           /\ c.raw = x[2].raw /\ c.page = x[1] /\ c.pos = x[2].pos
           /\ c.method = rs[x[1]].method /\ c.method \in {"text", "ocr"}
           /\ c.conf = MatchedConfidence(rs[x[1]], Key(x[2]))
           /\ c.page \in 1..PageLimit /\ c.pos \in Nat /\ c.conf \in 0..Sure
<1>1. PICK x \in Marks(rs, f) : c = Made(rs, x)
  BY CollectedMarks DEF CandidatesOf, Made
<1>2. x \in In(rs, f)
  BY MarksAreMentions
<1>3. /\ x[1] \in DOMAIN rs /\ x[2] \in rs[x[1]].mentions /\ x[2].shows = ShownAs(f)
  BY <1>2, InMentions
<1>4. IsReading(rs[x[1]]) /\ Bounded(x[2]) /\ x[1] \in 1..PageLimit
  BY <1>3 DEF GoodReadings
<1>5. IsMention(x[2])
  BY <1>3, <1>4 DEF IsReading
<1>6. x[2].pos \in Nat
  BY <1>5 DEF IsMention
<1>7. rs[x[1]].method \in {"text", "ocr"}
  BY <1>4 DEF IsReading
<1>8. MatchedConfidence(rs[x[1]], Key(x[2])) \in 0..Sure
  BY <1>4, MatchedConfidenceType
<1>9. f = "pi" => rs[x[1]].message
  BY <1>1 DEF Marks, PiMarks
<1>10. c = [raw |-> x[2].raw, page |-> x[1], pos |-> x[2].pos, method |-> rs[x[1]].method,
            conf |-> MatchedConfidence(rs[x[1]], Key(x[2]))]
  BY <1>1 DEF Made, Candidate
<1>11. /\ c.raw = x[2].raw /\ c.page = x[1] /\ c.pos = x[2].pos
       /\ c.method = rs[x[1]].method /\ c.conf = MatchedConfidence(rs[x[1]], Key(x[2]))
  BY <1>10
<1> QED
  BY <1>1, <1>2, <1>3, <1>4, <1>5, <1>6, <1>7, <1>8, <1>9, <1>11

\* Dates and amounts all become candidates, numbers after the label of the
\* message do, and seller PIs on the pages of the message.
LEMMA MentionIsCandidate ==
  ASSUME NEW rs, NEW f \in Fields, NEW x \in In(rs, f),
         \/ f \in {"date", "value", "currency"}
         \/ f = "number" /\ x[2].cue = "anchored"
         \/ f = "pi" /\ rs[x[1]].message
  PROVE  Made(rs, x) \in CollectAll(rs)[f]
<1>1. In(rs, f) = Mentions(rs, ShownAs(f))
  BY InMentions
<1>2. x \in Marks(rs, f)
  <2>1. CASE f = "date"
    BY <1>1, <2>1 DEF Marks, ShownAs
  <2>2. CASE f \in {"value", "currency"}
    BY <1>1, <2>2 DEF Marks, ShownAs
  <2>3. CASE f = "number" /\ x[2].cue = "anchored"
    BY <1>1, <2>3 DEF Marks, NumberMarks, ShownAs
  <2>4. CASE f = "pi" /\ rs[x[1]].message
    BY <1>1, <2>4 DEF Marks, PiMarks, ShownAs
  <2> QED
    BY <2>1, <2>2, <2>3, <2>4
<1> QED
  BY <1>2, CollectedMarks DEF CandidatesOf, Made

\* A field that is mentioned in a place where it is looked for has candidates.
LEMMA PlacedIsFound ==
  ASSUME NEW rs, NEW f \in Fields, NEW x \in In(rs, f), InPlace(rs, f, x)
  PROVE  CollectAll(rs)[f] # {}
<1>1. In(rs, f) = Mentions(rs, ShownAs(f))
  BY InMentions
<1>2. Marks(rs, f) # {}
  <2>1. CASE f = "number"
    BY <1>1, <2>1 DEF Marks, NumberMarks, ShownAs
  <2>2. CASE f \in {"date", "value", "currency"}
    BY <1>1, <2>2 DEF Marks, ShownAs
  <2>3. CASE f = "pi"
    BY <1>1, <2>3 DEF Marks, PiMarks, ShownAs, InPlace
  <2>4. CASE f = "export"
    <3>1. x[2].cue \in {"contract", "label"} \/ Continues(rs, x)
      BY <2>4 DEF InPlace, Continues
    <3>2. x \in Mentions(rs, "export")
      BY <1>1, <2>4 DEF ShownAs
    <3>3. LabelledExport(rs) # {}
      BY <3>1, <3>2 DEF LabelledExport
    <3> QED
      BY <2>4, <3>3 DEF Marks, ExportMarks
  <2> QED
    BY <2>1, <2>2, <2>3, <2>4 DEF Fields
<1> QED
  BY <1>2, CollectedMarks DEF CandidatesOf

\* A field that is not mentioned has none.
LEMMA UnmentionedIsMissing ==
  ASSUME NEW rs, NEW f \in Fields, In(rs, f) = {}
  PROVE  CollectAll(rs)[f] = {}
BY CollectedMarks, MarksAreMentions DEF CandidatesOf

\* There are finitely many candidates.
LEMMA CandidatesFinite ==
  ASSUME NEW rs, GoodReadings(rs), NEW f \in Fields
  PROVE  IsFiniteSet(CollectAll(rs)[f])
<1> DEFINE Family == {{p} \X rs[p].mentions : p \in DOMAIN rs}
           All == UNION Family
<1>1. IsFiniteSet(DOMAIN rs)
  <2>1. PageLimit \in Int /\ 1 \in Int
    BY LimitAssumption
  <2>2. IsFiniteSet(1..PageLimit)
    BY <2>1, FS_Interval
  <2> QED
    BY <2>2, FS_Subset DEF GoodReadings
<1>2. IsFiniteSet(Family)
  <2> DEFINE on == [p \in DOMAIN rs |-> {p} \X rs[p].mentions]
  <2>1. Family = {on[p] : p \in DOMAIN rs}
    OBVIOUS
  <2> HIDE DEF on, Family
  <2>2. IsFiniteSet({on[p] : p \in DOMAIN rs})
    BY <1>1, ImageFinite
  <2> QED
    BY <2>1, <2>2
<1>3. \A M \in Family : IsFiniteSet(M)
  <2>1. ASSUME NEW p \in DOMAIN rs PROVE IsFiniteSet({p} \X rs[p].mentions)
    <3>1. IsFiniteSet(rs[p].mentions)
      BY DEF GoodReadings, IsReading
    <3>2. IsFiniteSet({p})
      BY FS_Singleton
    <3> QED
      BY <3>1, <3>2, FS_Product
  <2> QED
    BY <2>1
<1> HIDE DEF Family
<1>4. IsFiniteSet(All)
  BY <1>2, <1>3, FS_UNION
<1>5. Marks(rs, f) \subseteq All
  BY MarksAreMentions, InMentions DEF Mentions, Family
<1>6. IsFiniteSet(Marks(rs, f))
  BY <1>4, <1>5, FS_Subset
<1> DEFINE made == [x \in Marks(rs, f) |-> Made(rs, x)]
<1>7. CollectAll(rs)[f] = {made[x] : x \in Marks(rs, f)}
  BY CollectedMarks DEF CandidatesOf, Made
<1> HIDE DEF made
<1>8. IsFiniteSet({made[x] : x \in Marks(rs, f)})
  BY <1>6, ImageFinite
<1> QED
  BY <1>7, <1>8
-----------------------------------------------------------------------------
(* The decision on a field. *)

\* The candidate that decides is one of them.
LEMMA SelectedIsCandidate ==
  ASSUME NEW rs, GoodReadings(rs), NEW f \in Fields, CollectAll(rs)[f] # {}
  PROVE  Selected(CollectAll(rs)[f]) \in CollectAll(rs)[f]
<1> DEFINE cs == CollectAll(rs)[f]
           T == {c.page : c \in cs}
           Decides(c) == \A d \in cs : \/ c.page < d.page
                                       \/ c.page = d.page /\ (c.method = "text" \/ d.method = "ocr")
<1>1. \A c \in cs : c.page \in Nat /\ c.method \in {"text", "ocr"}
  <2>1. ASSUME NEW c \in cs PROVE c.page \in Nat /\ c.method \in {"text", "ocr"}
    <3>1. c.page \in 1..PageLimit /\ c.method \in {"text", "ocr"}
      BY CandidateIsMention
    <3> QED
      BY <3>1, LimitAssumption
  <2> QED
    BY <2>1
<1>2. cs # {}
  OBVIOUS
<1> HIDE DEF cs
<1>3. T \in SUBSET Nat /\ T # {}
  BY <1>1, <1>2
<1>4. PICK p \in T : \A q \in T : p <= q
  BY <1>3, LeastNumber
<1>5. PICK c \in cs : /\ c.page = p
                      /\ c.method = "text" \/ \A d \in cs : d.page = p => d.method # "text"
  BY <1>4
<1>6. Decides(c)
  <2>1. ASSUME NEW d \in cs
        PROVE  c.page < d.page \/ (c.page = d.page /\ (c.method = "text" \/ d.method = "ocr"))
    <3>1. c.page <= d.page /\ c.page \in Nat /\ d.page \in Nat
      BY <1>1, <1>4, <1>5
    <3>2. CASE c.page = d.page
      BY <1>1, <1>5, <3>2
    <3>3. CASE c.page # d.page
      BY <3>1, <3>3
    <3> QED
      BY <3>2, <3>3
  <2> QED
    BY <2>1
<1>7. \E x \in cs : Decides(x)
  BY <1>6
<1>8. Selected(cs) = CHOOSE x \in cs : Decides(x)
  BY DEF Selected
<1> HIDE DEF Decides
<1> QED
  BY <1>7, <1>8 DEF cs

\* A field that passes has one value, of all its candidates, and the candidate
\* that decides is not a weak reading.
LEMMA PassedField ==
  ASSUME NEW f, NEW cs, IsFiniteSet(cs), NEW bank, ResolveField(f, cs, bank).status = "pass"
  PROVE  /\ cs # {} /\ ResolveField(f, cs, bank).canonical # None
         /\ \A c \in cs : Canonical(f, c.raw, bank) = ResolveField(f, cs, bank).canonical
         /\ ~BelowThreshold(f, Selected(cs))
<1> DEFINE canonical == [c \in cs |-> Canonical(f, c.raw, bank)]
           values == {Canonical(f, c.raw, bank) : c \in cs}
           chosen == CHOOSE v \in values : TRUE
<1>1. ResolveField(f, cs, bank) =
        IF cs = {} THEN Resolved(None, "missing")
        ELSE IF None \in values \/ Cardinality(values) # 1 THEN Resolved(None, "ambiguous")
        ELSE Resolved(chosen, IF BelowThreshold(f, Selected(cs)) THEN "unsure" ELSE "pass")
  BY DEF ResolveField
<1>2. values = {canonical[c] : c \in cs}
  OBVIOUS
<1> HIDE DEF values, canonical, chosen
<1>3. /\ cs # {} /\ None \notin values /\ Cardinality(values) = 1
      /\ ~BelowThreshold(f, Selected(cs)) /\ ResolveField(f, cs, bank).canonical = chosen
  BY <1>1 DEF Resolved
<1>4. IsFiniteSet(values)
  <2>1. IsFiniteSet({canonical[c] : c \in cs})
    BY ImageFinite
  <2> QED
    BY <1>2, <2>1
<1>5. PICK v : values = {v}
  BY <1>3, <1>4, FS_Singleton
<1>6. chosen = v
  BY <1>5 DEF chosen
<1>7. \A c \in cs : Canonical(f, c.raw, bank) = v
  BY <1>5 DEF values
<1> QED
  BY <1>3, <1>5, <1>6, <1>7

\* Candidates that agree and are not weak decide their field.
LEMMA AgreedField ==
  ASSUME NEW f, NEW cs, cs # {}, NEW bank, NEW v, v # None,
         \A c \in cs : Canonical(f, c.raw, bank) = v,
         ~BelowThreshold(f, Selected(cs))
  PROVE  ResolveField(f, cs, bank) = Resolved(v, "pass")
<1> DEFINE values == {Canonical(f, c.raw, bank) : c \in cs}
           chosen == CHOOSE v1 \in values : TRUE
<1>1. ResolveField(f, cs, bank) =
        IF cs = {} THEN Resolved(None, "missing")
        ELSE IF None \in values \/ Cardinality(values) # 1 THEN Resolved(None, "ambiguous")
        ELSE Resolved(chosen, IF BelowThreshold(f, Selected(cs)) THEN "unsure" ELSE "pass")
  BY DEF ResolveField
<1>2. values = {v}
  OBVIOUS
<1> HIDE DEF values
<1>3. Cardinality(values) = 1
  BY <1>2, FS_Singleton
<1>4. chosen = v
  BY <1>2
<1> HIDE DEF chosen
<1> QED
  BY <1>1, <1>2, <1>3, <1>4
-----------------------------------------------------------------------------
(* The list of seller PIs. *)

\* Candidates for PIs are at different places of the document.
LEMMA PiPlaces ==
  ASSUME NEW rs, GoodReadings(rs), NEW c \in CollectAll(rs)["pi"], NEW d \in CollectAll(rs)["pi"],
         c.page = d.page, c.pos = d.pos
  PROVE  c = d
<1>0. "pi" \in Fields
  BY DEF Fields
<1>1. PICK x \in In(rs, "pi") :
        /\ c = Made(rs, x) /\ x[2] \in rs[x[1]].mentions /\ x[2].shows = ShownAs("pi")
        /\ c.page = x[1] /\ c.pos = x[2].pos /\ IsReading(rs[x[1]])
  BY <1>0, CandidateIsMention
<1>2. PICK y \in In(rs, "pi") :
        /\ d = Made(rs, y) /\ y[2] \in rs[y[1]].mentions /\ y[2].shows = ShownAs("pi")
        /\ d.page = y[1] /\ d.pos = y[2].pos
  BY <1>0, CandidateIsMention
<1>3. x[1] = y[1] /\ x[2].pos = y[2].pos
  BY <1>1, <1>2
<1>4. x[2].shows = "pi" /\ y[2].shows = "pi"
  BY <1>1, <1>2 DEF ShownAs
<1>5. x[2] = y[2]
  <2>1. y[2] \in rs[x[1]].mentions
    BY <1>2, <1>3
  <2>2. \A m, n \in rs[x[1]].mentions : {m.shows, n.shows} = {"pi"} /\ m.pos = n.pos => m = n
    BY <1>1 DEF IsReading
  <2> QED
    BY <1>1, <1>3, <1>4, <2>1, <2>2
<1> QED
  BY <1>1, <1>2, <1>3, <1>5 DEF Made

\* A list of candidates, at different places, that is finite.
Spread(cs) ==
  /\ IsFiniteSet(cs) /\ \A c \in cs : c.page \in Nat /\ c.pos \in Nat
  /\ \A c, d \in cs : c.page = d.page /\ c.pos = d.pos => c = d

\* Each value has a first mention.
LEMMA FirstMention ==
  ASSUME NEW cs, Spread(cs), NEW v \in PiValues(cs)
  PROVE  FirstOf(cs, v) \in cs /\ CanonicalPi(FirstOf(cs, v).raw) = v
<1> DEFINE own == {c \in cs : CanonicalPi(c.raw) = v}
           Is(c) == CanonicalPi(c.raw) = v /\ \A d \in cs : CanonicalPi(d.raw) = v => ~Before(d, c)
           P == {c.page : c \in own}
<1>1. own # {} /\ own \subseteq cs
  BY DEF PiValues
<1>2. P \in SUBSET Nat /\ P # {}
  BY <1>1 DEF Spread
<1>3. PICK p \in P : \A q \in P : p <= q
  BY <1>2, LeastNumber
<1> DEFINE Q == {c.pos : c \in {d \in own : d.page = p}}
<1>4. Q \in SUBSET Nat /\ Q # {}
  BY <1>1, <1>3 DEF Spread
<1> HIDE DEF P, Q
<1>5. PICK q \in Q : \A o \in Q : q <= o
  BY <1>4, LeastNumber
<1>6. PICK c \in own : c.page = p /\ c.pos = q
  BY <1>5 DEF Q
<1>7. Is(c)
  <2>1. ASSUME NEW d \in own PROVE ~Before(d, c)
    <3>1. /\ c.page \in Nat /\ c.pos \in Nat /\ d.page \in Nat /\ d.pos \in Nat
      BY <1>1 DEF Spread
    <3>2. p <= d.page
      BY <1>3 DEF P
    <3>3. d.page = p => q <= d.pos
      BY <1>5 DEF Q
    <3> QED
      BY <1>6, <3>1, <3>2, <3>3 DEF Before
  <2> QED
    BY <2>1
<1>8. \E x \in cs : Is(x)
  BY <1>1, <1>7
<1>9. FirstOf(cs, v) = CHOOSE x \in cs : Is(x)
  BY DEF FirstOf
<1>10. FirstOf(cs, v) \in cs /\ Is(FirstOf(cs, v))
  <2> HIDE DEF Is
  <2> QED
    BY <1>8, <1>9
<1> QED
  BY <1>10

\* The list holds every value once, and nothing else.
LEMMA PisListed ==
  ASSUME NEW cs, Spread(cs)
  PROVE  ToSet(InOrder(cs)) = PiValues(cs)
<1> DEFINE S == PiValues(cs)
           R == {uw \in S \X S : Before(FirstOf(cs, uw[1]), FirstOf(cs, uw[2]))}
<1>1. IsFiniteSet(S)
  <2> DEFINE value == [c \in cs |-> CanonicalPi(c.raw)]
  <2>1. S \subseteq {value[c] : c \in cs}
    BY DEF PiValues
  <2> HIDE DEF value
  <2>2. IsFiniteSet({value[c] : c \in cs})
    BY ImageFinite DEF Spread
  <2> QED
    BY <2>1, <2>2, FS_Subset
<1>2. \A u, w : <<u, w>> \in R <=> u \in S /\ w \in S /\ Before(FirstOf(cs, u), FirstOf(cs, w))
  OBVIOUS
<1> HIDE DEF R
<1>3. ASSUME NEW u \in S
      PROVE  /\ FirstOf(cs, u) \in cs /\ CanonicalPi(FirstOf(cs, u).raw) = u
             /\ FirstOf(cs, u).page \in Nat /\ FirstOf(cs, u).pos \in Nat
  <2>1. FirstOf(cs, u) \in cs /\ CanonicalPi(FirstOf(cs, u).raw) = u
    BY FirstMention
  <2> QED
    BY <2>1 DEF Spread
<1>4. StrictlyOrders(R, S)
  <2>1. ASSUME NEW u \in S, NEW w \in S, u # w PROVE <<u, w>> \in R \/ <<w, u>> \in R
    <3>1. FirstOf(cs, u) # FirstOf(cs, w)
      BY <1>3, <2>1
    <3>2. FirstOf(cs, u).page # FirstOf(cs, w).page \/ FirstOf(cs, u).pos # FirstOf(cs, w).pos
      BY <1>3, <3>1 DEF Spread
    <3>3. Before(FirstOf(cs, u), FirstOf(cs, w)) \/ Before(FirstOf(cs, w), FirstOf(cs, u))
      BY <1>3, <3>2 DEF Before
    <3> QED
      BY <1>2, <3>3
  <2>2. ASSUME NEW u \in S, NEW w \in S PROVE ~(<<u, w>> \in R /\ <<w, u>> \in R)
    BY <1>2, <1>3 DEF Before
  <2>3. ASSUME NEW u \in S, NEW w \in S, NEW z \in S, <<u, w>> \in R, <<w, z>> \in R
        PROVE  <<u, z>> \in R
    BY <1>2, <1>3, <2>3 DEF Before
  <2> QED
    BY <2>1, <2>2, <2>3 DEF StrictlyOrders
<1>5. ASSUME NEW v \in S PROVE Earlier(cs, v) = Below(v, S, R)
  BY <1>2 DEF Earlier, Below
<1> DEFINE s == InOrder(cs)
<1>6. s = ByPlace(S, R)
  <2>1. ASSUME NEW i PROVE (CHOOSE x \in S : Cardinality(Earlier(cs, x)) = i - 1)
                             = CHOOSE x \in S : Cardinality(Below(x, S, R)) = i - 1
    BY <1>5, Zenon
  <2> QED
    BY <2>1 DEF InOrder, ByPlace
<1> HIDE DEF s, S
<1>7. /\ DOMAIN s = 1..Cardinality(S)
      /\ \A i \in 1..Cardinality(S) : s[i] \in S
      /\ \A x \in S : \E i \in 1..Cardinality(S) : s[i] = x
  BY <1>1, <1>4, <1>6, ListedByPlace
<1> QED
  BY <1>7 DEF ToSet, s, S
-----------------------------------------------------------------------------
(* The invariant: where the candidates come from. *)

\* The readings the candidates of a field are taken from.
Source(f) == IF CollectAll(pages)[f] # {} THEN pages ELSE extra

\* Pages and scans are readings of the letter's pages.
ReadingsInv ==
  /\ pdf \in Pdfs
  /\ pc \in {"open", "scan", "collect", "supplement", "resolve", "done"}
  /\ DOMAIN pages \subseteq DOMAIN Pdf[pdf].pages
  /\ GoodReadings(pages)
  /\ GoodReadings(extra) /\ \A p \in DOMAIN extra : extra[p].method = "ocr"

\* The candidates of a field are all from the pages as first read, or there
\* were none and they are all from the second scan.
GroupsInv ==
  /\ pc \in {"open", "scan", "collect"} => extra = <<>> /\ \A f \in Fields : groups[f] = {}
  /\ pc = "supplement" => extra = <<>> /\ \A f \in Fields : groups[f] = CollectAll(pages)[f]
  /\ pc \in {"resolve", "done"} => \A f \in Fields : groups[f] = CollectAll(Source(f))[f]

\* The decisions follow from the candidates.
DecisionInv ==
  /\ pc # "done" =>
       /\ \A f \in Fields : fields[f] = Resolved(None, "missing")
       /\ decision = "open"
  /\ pc = "done" =>
       /\ fields = ResolveAll(groups)
       /\ decision = Decision(fields, Pdf[pdf].name)

\* The inductive invariant.
Inv == ReadingsInv /\ GroupsInv /\ DecisionInv

\* What may be read of a letter is a reading.
LEMMA ReadingIsGood ==
  ASSUME NEW d \in Pdfs, NEW r \in Readings(d)
  PROVE  IsReading(r) /\ \A m \in r.mentions : Bounded(m)
BY PdfAssumption, AmountAssumption DEF Bounded

\* Nothing is found in no readings.
LEMMA NothingInNothing ==
  ASSUME NEW f \in Fields
  PROVE  CollectAll(<<>>)[f] = {} /\ GoodReadings(<<>>) /\ In(<<>>, f) = {}
<1>1. DOMAIN <<>> = {}
  OBVIOUS
<1>2. In(<<>>, f) = {}
  BY <1>1 DEF In
<1>3. GoodReadings(<<>>)
  BY <1>1 DEF GoodReadings
<1> QED
  BY <1>2, <1>3, UnmentionedIsMissing

\* An extraction starts with nothing read.
LEMMA InitInv == Init => Inv
<1> SUFFICES ASSUME Init PROVE Inv
  OBVIOUS
<1>1. DOMAIN <<>> = {} /\ GoodReadings(<<>>)
  <2>1. "pi" \in Fields
    BY DEF Fields
  <2> QED
    BY <2>1, NothingInNothing
<1>2. pc = "open" /\ pages = <<>> /\ extra = <<>> /\ pdf \in Pdfs /\ decision = "open"
  BY DEF Init
<1>3. \A f \in Fields : groups[f] = {} /\ fields[f] = Resolved(None, "missing")
  BY DEF Init
<1>4. ReadingsInv
  <2>1. pages = <<>> /\ DOMAIN pages = {} /\ extra = <<>> /\ DOMAIN extra = {}
    BY <1>1, <1>2
  <2> QED
    BY <1>1, <1>2, <2>1 DEF ReadingsInv
<1> QED
  BY <1>2, <1>3, <1>4 DEF Inv, GroupsInv, DecisionInv

\* The text layers of the first pages.
LEMMA ReadTextLayerInv == Inv /\ ReadTextLayer => Inv'
<1> SUFFICES ASSUME Inv, ReadTextLayer PROVE Inv'
  OBVIOUS
<1> DEFINE book == Pdf[pdf].pages
           k == Min({PageLimit, Len(book)})
<1>1. /\ pdf \in Pdfs /\ GoodReadings(extra) /\ \A p \in DOMAIN extra : extra[p].method = "ocr"
      /\ extra = <<>> /\ \A f \in Fields : groups[f] = {}
      /\ \A f \in Fields : fields[f] = Resolved(None, "missing")
      /\ decision = "open"
  BY DEF Inv, ReadingsInv, GroupsInv, DecisionInv, ReadTextLayer
<1>2. Len(book) \in Nat \ {0} /\ DOMAIN book = 1..Len(book)
  BY <1>1, PdfAssumption
<1>3. k \in Nat /\ k <= PageLimit /\ k <= Len(book)
  BY <1>2, LimitAssumption DEF Min
<1>4. pc' = "scan" /\ pages' = [p \in 1..k |-> book[p].text]
      /\ UNCHANGED <<pdf, extra, groups, fields, decision>>
  BY DEF ReadTextLayer
<1> HIDE DEF k
<1>5. DOMAIN pages' = 1..k /\ \A p \in 1..k : pages'[p] = book[p].text
  BY <1>4
<1>6. ASSUME NEW p \in 1..k PROVE IsReading(pages'[p]) /\ \A m \in pages'[p].mentions : Bounded(m)
  <2>1. p \in DOMAIN book
    BY <1>2, <1>3
  <2>2. book[p].text \in Readings(pdf)
    BY <2>1 DEF Readings
  <2> QED
    BY <1>1, <1>5, <2>2, ReadingIsGood
<1>7. GoodReadings(pages') /\ DOMAIN pages' \subseteq DOMAIN book
  <2>1. 1..k \subseteq 1..PageLimit /\ 1..k \subseteq DOMAIN book
    BY <1>2, <1>3, LimitAssumption
  <2> QED
    BY <1>5, <1>6, <2>1 DEF GoodReadings
<1>8. ReadingsInv'
  BY <1>1, <1>4, <1>7 DEF ReadingsInv
<1> QED
  BY <1>1, <1>4, <1>8 DEF Inv, GroupsInv, DecisionInv

\* Scans are readings of their pages.
LEMMA ScansAreGood ==
  ASSUME pdf \in Pdfs, NEW ps, ps \subseteq DOMAIN Pdf[pdf].pages, NEW s \in Scans(ps)
  PROVE  /\ DOMAIN s = ps
         /\ \A p \in ps : /\ IsReading(s[p]) /\ \A m \in s[p].mentions : Bounded(m)
                          /\ s[p].method = "ocr"
<1>1. DOMAIN s = ps /\ \A p \in ps : s[p] \in Pdf[pdf].pages[p].scans
  BY DEF Scans
<1>2. ASSUME NEW p \in ps
      PROVE  /\ IsReading(s[p]) /\ \A m \in s[p].mentions : Bounded(m)
             /\ s[p].method = "ocr"
  <2>1. s[p] \in Pdf[pdf].pages[p].scans /\ p \in DOMAIN Pdf[pdf].pages
    BY <1>1
  <2>2. s[p] \in Readings(pdf)
    BY <2>1 DEF Readings
  <2>3. s[p].method = "ocr"
    BY <2>1, PdfAssumption
  <2> QED
    BY <2>2, <2>3, ReadingIsGood
<1> QED
  BY <1>1, <1>2

\* The scan of the pages with a poor text layer.
LEMMA ScanPoorPagesInv == Inv /\ ScanPoorPages => Inv'
<1> SUFFICES ASSUME Inv, ScanPoorPages PROVE Inv'
  OBVIOUS
<1>1. /\ pdf \in Pdfs /\ GoodReadings(extra) /\ \A p \in DOMAIN extra : extra[p].method = "ocr"
      /\ DOMAIN pages \subseteq DOMAIN Pdf[pdf].pages /\ GoodReadings(pages)
      /\ extra = <<>> /\ \A f \in Fields : groups[f] = {}
      /\ \A f \in Fields : fields[f] = Resolved(None, "missing")
      /\ decision = "open"
  BY DEF Inv, ReadingsInv, GroupsInv, DecisionInv, ScanPoorPages
<1>2. PICK s \in Scans(Inspected \ ReliablePages) :
        pages' = [p \in Inspected |-> IF p \in DOMAIN s /\ ~s[p].blank THEN s[p] ELSE pages[p]]
  BY DEF ScanPoorPages
<1>3. pc' = "collect" /\ UNCHANGED <<pdf, extra, groups, fields, decision>>
  BY DEF ScanPoorPages
<1>4. /\ DOMAIN pages' = DOMAIN pages
      /\ \A p \in DOMAIN pages : pages'[p] = pages[p] \/ (pages'[p] = s[p] /\ p \in DOMAIN s)
  BY <1>2 DEF Inspected
<1>5. Inspected \ ReliablePages \subseteq DOMAIN Pdf[pdf].pages
  BY <1>1 DEF Inspected
<1>6. DOMAIN s = Inspected \ ReliablePages /\ \A p \in DOMAIN s : IsReading(s[p]) /\ \A m \in s[p].mentions : Bounded(m)
  BY <1>1, <1>5, ScansAreGood
<1>7. GoodReadings(pages')
  BY <1>1, <1>4, <1>6 DEF GoodReadings
<1>8. ReadingsInv'
  BY <1>1, <1>3, <1>4, <1>7 DEF ReadingsInv
<1> QED
  BY <1>1, <1>3, <1>8 DEF Inv, GroupsInv, DecisionInv

\* The first collection.
LEMMA CollectInv == Inv /\ Collect => Inv'
<1> SUFFICES ASSUME Inv, Collect PROVE Inv'
  OBVIOUS
<1>1. pc = "collect" /\ pc' = "supplement" /\ groups' = CollectAll(pages)
      /\ UNCHANGED <<pdf, pages, extra, fields, decision>>
  BY DEF Collect
<1>2. extra = <<>> /\ ReadingsInv /\ DecisionInv
  BY <1>1 DEF Inv, GroupsInv
<1>3. ReadingsInv'
  BY <1>1, <1>2 DEF ReadingsInv
<1>4. GroupsInv'
  BY <1>1, <1>2 DEF GroupsInv
<1>5. DecisionInv'
  BY <1>1, <1>2 DEF DecisionInv
<1> QED
  BY <1>3, <1>4, <1>5 DEF Inv

\* The second scan.
LEMMA ScanReliablePagesInv == Inv /\ ScanReliablePages => Inv'
<1> SUFFICES ASSUME Inv, ScanReliablePages PROVE Inv'
  OBVIOUS
<1>1. PICK s \in Scans(ReliablePages) :
        extra' = s /\ groups' = Supplemented(groups, CollectAll(s))
  BY DEF ScanReliablePages
<1>2. pc = "supplement" /\ pc' = "resolve" /\ UNCHANGED <<pdf, pages, fields, decision>>
  BY DEF ScanReliablePages
<1>3. /\ ReadingsInv /\ DecisionInv
      /\ \A f \in Fields : groups[f] = CollectAll(pages)[f]
  BY <1>2 DEF Inv, GroupsInv
<1>4. ReliablePages \subseteq DOMAIN pages /\ DOMAIN pages \subseteq DOMAIN Pdf[pdf].pages
      /\ DOMAIN pages \subseteq 1..PageLimit /\ pdf \in Pdfs
  BY <1>3 DEF ReliablePages, Inspected, ReadingsInv, GoodReadings
<1>5. /\ DOMAIN s = ReliablePages
      /\ \A p \in DOMAIN s : /\ IsReading(s[p]) /\ \A m \in s[p].mentions : Bounded(m)
                             /\ s[p].method = "ocr"
  BY <1>4, ScansAreGood
<1>6. GoodReadings(s)
  BY <1>4, <1>5 DEF GoodReadings
<1>7. ReadingsInv'
  BY <1>1, <1>2, <1>3, <1>5, <1>6 DEF ReadingsInv
<1>8. ASSUME NEW f \in Fields PROVE groups'[f] = CollectAll(Source(f)')[f]
  <2>1. groups'[f] = IF groups[f] = {} /\ CollectAll(s)[f] # {} THEN CollectAll(s)[f] ELSE groups[f]
    BY <1>1 DEF Supplemented
  <2>2. Source(f)' = IF CollectAll(pages)[f] # {} THEN pages ELSE s
    BY <1>1, <1>2 DEF Source
  <2>3. groups[f] = CollectAll(pages)[f]
    BY <1>3
  <2>4. CASE CollectAll(pages)[f] # {}
    BY <2>1, <2>2, <2>3, <2>4
  <2>5. CASE CollectAll(pages)[f] = {}
    BY <2>1, <2>2, <2>3, <2>5
  <2> QED
    BY <2>4, <2>5
<1>9. GroupsInv'
  <2>1. \A f \in Fields : groups'[f] = CollectAll(Source(f)')[f]
    BY <1>8
  <2> QED
    BY <1>2, <2>1 DEF GroupsInv
<1>10. DecisionInv'
  BY <1>2, <1>3 DEF DecisionInv
<1> QED
  BY <1>7, <1>9, <1>10 DEF Inv

\* No second scan.
LEMMA NothingToScanInv == Inv /\ NothingToScan => Inv'
<1> SUFFICES ASSUME Inv, NothingToScan PROVE Inv'
  OBVIOUS
<1>1. pc = "supplement" /\ pc' = "resolve"
      /\ UNCHANGED <<pdf, pages, extra, groups, fields, decision>>
  BY DEF NothingToScan
<1>2. /\ ReadingsInv /\ DecisionInv /\ extra = <<>>
      /\ \A f \in Fields : groups[f] = CollectAll(pages)[f]
  BY <1>1 DEF Inv, GroupsInv
<1>3. ReadingsInv'
  BY <1>1, <1>2 DEF ReadingsInv
<1>4. ASSUME NEW f \in Fields PROVE groups'[f] = CollectAll(Source(f)')[f]
  <2>1. Source(f)' = IF CollectAll(pages)[f] # {} THEN pages ELSE extra
    BY <1>1 DEF Source
  <2>2. CollectAll(extra)[f] = {}
    BY <1>2, NothingInNothing
  <2>3. groups'[f] = CollectAll(pages)[f]
    BY <1>1, <1>2
  <2>4. CASE CollectAll(pages)[f] # {}
    BY <2>1, <2>3, <2>4
  <2>5. CASE CollectAll(pages)[f] = {}
    BY <2>1, <2>2, <2>3, <2>5
  <2> QED
    BY <2>4, <2>5
<1>5. GroupsInv'
  <2>1. \A f \in Fields : groups'[f] = CollectAll(Source(f)')[f]
    BY <1>4
  <2> QED
    BY <1>1, <2>1 DEF GroupsInv
<1>6. DecisionInv'
  BY <1>1, <1>2 DEF DecisionInv
<1> QED
  BY <1>3, <1>5, <1>6 DEF Inv

\* The decisions.
LEMMA ResolveInv == Inv /\ Resolve => Inv'
<1> SUFFICES ASSUME Inv, Resolve PROVE Inv'
  OBVIOUS
<1>1. pc = "resolve" /\ pc' = "done" /\ UNCHANGED <<pdf, pages, extra, groups>>
      /\ fields' = ResolveAll(groups) /\ decision' = Decision(ResolveAll(groups), Pdf[pdf].name)
  BY DEF Resolve
<1>2. ReadingsInv /\ \A f \in Fields : groups[f] = CollectAll(Source(f))[f]
  BY <1>1 DEF Inv, GroupsInv
<1>3. ReadingsInv'
  BY <1>1, <1>2 DEF ReadingsInv
<1>4. GroupsInv'
  <2>1. ASSUME NEW f \in Fields PROVE Source(f)' = Source(f)
    BY <1>1 DEF Source
  <2>2. \A f \in Fields : groups'[f] = CollectAll(Source(f)')[f]
    BY <1>1, <1>2, <2>1
  <2> QED
    BY <1>1, <2>2 DEF GroupsInv
<1>5. DecisionInv'
  BY <1>1 DEF DecisionInv
<1> QED
  BY <1>3, <1>4, <1>5 DEF Inv

\* Nothing changes in a stutter.
LEMMA StutterInv == Inv /\ UNCHANGED vars => Inv'
<1> SUFFICES ASSUME Inv, UNCHANGED vars PROVE Inv'
  OBVIOUS
<1>1. UNCHANGED <<pdf, pc, pages, extra, groups, fields, decision>>
  BY DEF vars
<1>2. ASSUME NEW f \in Fields PROVE Source(f)' = Source(f)
  BY <1>1 DEF Source
<1> QED
  BY <1>1, <1>2 DEF Inv, ReadingsInv, GroupsInv, DecisionInv

\* The invariant holds throughout an extraction.
THEOREM InvTheorem == Spec => []Inv
<1>1. Inv /\ [Next]_vars => Inv'
  BY ReadTextLayerInv, ScanPoorPagesInv, CollectInv, ScanReliablePagesInv, NothingToScanInv,
     ResolveInv, StutterInv DEF Next
<1> QED
  BY InitInv, <1>1, PTL DEF Spec
-----------------------------------------------------------------------------
(* Type correctness. *)

\* The status of a field.
Statuses == {"pass", "missing", "ambiguous", "unsure"}

\* Every field gets a status.
LEMMA StatusType ==
  ASSUME NEW gs, NEW f \in Fields
  PROVE  ResolveAll(gs)[f].status \in Statuses
<1>1. ASSUME NEW g, NEW cs, NEW bank PROVE ResolveField(g, cs, bank).status \in Statuses
  BY DEF ResolveField, Resolved, Statuses
<1>2. ASSUME NEW cs PROVE ResolvePis(cs).status \in Statuses
  BY DEF ResolvePis, Resolved, Statuses
<1> QED
  BY <1>1, <1>2 DEF ResolveAll

\* The candidates of a field, its source and the decision on it, when the
\* extraction is done.
LEMMA Sources ==
  ASSUME Inv, NEW f \in Fields
  PROVE  /\ GoodReadings(Source(f)) /\ Source(f) \in {pages, extra}
         /\ CollectAll(pages)[f] # {} => Source(f) = pages
BY DEF Inv, ReadingsInv, Source

\* Type correctness from the invariant.
LEMMA InvType == Inv => TypeOK
<1> SUFFICES ASSUME Inv PROVE TypeOK
  OBVIOUS
<1>1. /\ pdf \in Pdfs
      /\ pc \in {"open", "scan", "collect", "supplement", "resolve", "done"}
      /\ \A p \in DOMAIN pages : IsReading(pages[p])
      /\ \A p \in DOMAIN extra : IsReading(extra[p]) /\ extra[p].method = "ocr"
  BY DEF Inv, ReadingsInv, GoodReadings
<1>2. ASSUME NEW f \in Fields, NEW c \in groups[f]
      PROVE  c.page \in 1..PageLimit /\ c.conf \in 0..Sure
  <2>1. CASE pc \in {"open", "scan", "collect"}
    BY <1>2, <2>1 DEF Inv, GroupsInv
  <2>2. CASE pc = "supplement"
    <3>1. c \in CollectAll(pages)[f] /\ GoodReadings(pages)
      BY <1>2, <2>2 DEF Inv, GroupsInv, ReadingsInv
    <3> QED
      BY <3>1, CandidateIsMention
  <2>3. CASE pc \in {"resolve", "done"}
    <3>1. c \in CollectAll(Source(f))[f] /\ GoodReadings(Source(f))
      BY <1>2, <2>3, Sources DEF Inv, GroupsInv
    <3> QED
      BY <3>1, CandidateIsMention
  <2> QED
    BY <1>1, <2>1, <2>2, <2>3
<1>3. ASSUME NEW f \in Fields PROVE fields[f].status \in Statuses
  <2>1. CASE pc = "done"
    BY <2>1, StatusType DEF Inv, DecisionInv
  <2>2. CASE pc # "done"
    BY <2>2 DEF Inv, DecisionInv, Resolved, Statuses
  <2> QED
    BY <2>1, <2>2
<1>4. decision \in {"open", "hard_block", "warning", "pass"}
  <2>1. ASSUME NEW fs, NEW name PROVE Decision(fs, name) \in {"hard_block", "warning", "pass"}
    BY DEF Decision
  <2> QED
    BY <2>1 DEF Inv, DecisionInv
<1> QED
  BY <1>1, <1>2, <1>3, <1>4 DEF TypeOK, Statuses

\* Readings, candidates and decisions keep their types, for every letter.
THEOREM ExtractionTypeTheorem == Spec => []TypeOK
BY InvTheorem, InvType, PTL
-----------------------------------------------------------------------------
(* What an accepted letter shows. *)

\* The fields that have one value.
Single == Fields \ {"pi"}

\* The decision on each field.
LEMMA FieldDecisions ==
  ASSUME Inv, pc = "done"
  PROVE  /\ fields["number"] = ResolveField("number", groups["number"], "unknown")
         /\ fields["pi"] = ResolvePis(groups["pi"])
         /\ \A f \in Single \ {"number"} :
              fields[f] = ResolveField(f, groups[f], DetectBank(fields["number"]))
         /\ decision = Decision(fields, Pdf[pdf].name)
<1>1. fields = ResolveAll(groups) /\ decision = Decision(fields, Pdf[pdf].name)
  BY DEF Inv, DecisionInv
<1>2. fields["number"] = ResolveField("number", groups["number"], "unknown")
  BY <1>1 DEF ResolveAll, Fields
<1>3. fields["pi"] = ResolvePis(groups["pi"])
  BY <1>1 DEF ResolveAll, Fields
<1>4. ASSUME NEW f \in Single \ {"number"}
      PROVE fields[f] = ResolveField(f, groups[f], DetectBank(fields["number"]))
  <2>1. ResolveAll(groups)[f] =
          ResolveField(f, groups[f], DetectBank(ResolveField("number", groups.number, "unknown")))
    BY DEF ResolveAll, Single
  <2> QED
    BY <1>1, <1>2, <2>1
<1> QED
  BY <1>1, <1>2, <1>3, <1>4

\* The canonical value of a number does not depend on the bank.
LEMMA NumberOfAnyBank ==
  ASSUME NEW raw, NEW a, NEW b
  PROVE  Canonical("number", raw, a) = Canonical("number", raw, b)
BY DEF Canonical

\* A letter is accepted if every field passes and the bank is known.
LEMMA AcceptedMeans ==
  ASSUME Inv, pc = "done"
  PROVE  Accepted <=> /\ \A f \in Fields : fields[f].status = "pass"
                      /\ DetectBank(fields["number"]) # "unknown"
<1>1. decision = Decision(fields, Pdf[pdf].name)
  BY FieldDecisions
<1> QED
  BY <1>1 DEF Accepted, Decision

\* A field of an accepted letter has one value, of all its candidates, in the
\* notation of the bank that issued it; one of them was read with confidence.
LEMMA AcceptedField ==
  ASSUME Inv, Accepted, NEW f \in Single
  PROVE  /\ Issuer \in Banks
         /\ fields[f].canonical # None /\ groups[f] = CollectAll(Source(f))[f]
         /\ \A c \in groups[f] : Canonical(f, c.raw, Issuer) = fields[f].canonical
         /\ Selected(groups[f]) \in groups[f] /\ ~BelowThreshold(f, Selected(groups[f]))
<1>0. pc = "done" /\ f \in Fields /\ "number" \in Fields
  BY DEF Accepted, Single, Fields
<1>1. ASSUME NEW g \in Fields
      PROVE  /\ groups[g] = CollectAll(Source(g))[g] /\ IsFiniteSet(groups[g])
             /\ groups[g] # {} => Selected(groups[g]) \in groups[g]
  <2>1. groups[g] = CollectAll(Source(g))[g] /\ GoodReadings(Source(g))
    BY <1>0, Sources DEF Inv, GroupsInv
  <2> QED
    BY <2>1, CandidatesFinite, SelectedIsCandidate
<1>2. \A g \in Fields : fields[g].status = "pass"
  BY <1>0, AcceptedMeans
<1> DEFINE number == fields["number"]
<1>3. number = ResolveField("number", groups["number"], "unknown")
  BY <1>0, FieldDecisions
<1>4. /\ groups["number"] # {} /\ number.canonical # None
      /\ \A c \in groups["number"] : Canonical("number", c.raw, "unknown") = number.canonical
      /\ ~BelowThreshold("number", Selected(groups["number"]))
  <2>1. IsFiniteSet(groups["number"])
    BY <1>0, <1>1
  <2>2. number.status = "pass"
    BY <1>0, <1>2
  <2> HIDE DEF number
  <2>3. ResolveField("number", groups["number"], "unknown").status = "pass"
    BY <1>3, <2>2
  <2> QED
    BY <1>3, <2>1, <2>3, PassedField
<1>5. Issuer \in Banks
  <2>1. PICK c \in groups["number"] : Canonical("number", c.raw, "unknown") = number.canonical
    BY <1>4
  <2>2. CanonicalNumber(c.raw) = number.canonical
    BY <2>1 DEF Canonical
  <2>3. number.canonical = <<c.raw.bank, c.raw.serial>> /\ c.raw.bank \in Banks
    BY <1>4, <2>2 DEF CanonicalNumber
  <2> QED
    BY <2>3 DEF Issuer
<1>6. DetectBank(number) = Issuer
  BY <1>4 DEF DetectBank, Issuer
<1> HIDE DEF number
<1>7. CASE f = "number"
  <2>1. \A c \in groups["number"] : Canonical("number", c.raw, Issuer) = number.canonical
    BY <1>4, NumberOfAnyBank
  <2> QED
    BY <1>0, <1>1, <1>4, <1>5, <1>7, <2>1 DEF number
<1>8. CASE f # "number"
  <2>1. fields[f] = ResolveField(f, groups[f], Issuer)
    BY <1>0, <1>6, <1>8, FieldDecisions DEF number
  <2>2. ResolveField(f, groups[f], Issuer).status = "pass"
    BY <1>0, <1>2, <2>1
  <2>3. /\ groups[f] # {} /\ fields[f].canonical # None
        /\ \A c \in groups[f] : Canonical(f, c.raw, Issuer) = fields[f].canonical
        /\ ~BelowThreshold(f, Selected(groups[f]))
    BY <1>0, <1>1, <2>1, <2>2, PassedField
  <2> QED
    BY <1>0, <1>1, <1>5, <2>3
<1> QED
  BY <1>7, <1>8

\* Seller PIs that pass are well formed, and each was read with confidence
\* somewhere.
LEMMA AcceptedPis ==
  ASSUME Inv, Accepted
  PROVE  /\ groups["pi"] = CollectAll(Source("pi"))["pi"] /\ Spread(groups["pi"])
         /\ ToSet(fields["pi"].canonical) = PiValues(groups["pi"])
         /\ \A c \in groups["pi"] :
              /\ CanonicalPi(c.raw) # None
              /\ \E d \in groups["pi"] : /\ CanonicalPi(d.raw) = CanonicalPi(c.raw)
                                         /\ ~BelowThreshold("pi", d)
<1>0. pc = "done" /\ "pi" \in Fields
  BY DEF Accepted, Fields
<1>1. groups["pi"] = CollectAll(Source("pi"))["pi"] /\ GoodReadings(Source("pi"))
  BY <1>0, Sources DEF Inv, GroupsInv
<1>2. Spread(groups["pi"])
  <2>1. IsFiniteSet(groups["pi"])
    BY <1>0, <1>1, CandidatesFinite
  <2>2. ASSUME NEW c \in groups["pi"] PROVE c.page \in Nat /\ c.pos \in Nat
    <3>1. c.page \in 1..PageLimit /\ c.pos \in Nat
      BY <1>0, <1>1, CandidateIsMention
    <3> QED
      BY <3>1, LimitAssumption
  <2>3. \A c, d \in groups["pi"] : c.page = d.page /\ c.pos = d.pos => c = d
    BY <1>1, PiPlaces
  <2> QED
    BY <2>1, <2>2, <2>3 DEF Spread
<1>3. fields["pi"] = ResolvePis(groups["pi"]) /\ fields["pi"].status = "pass"
  BY <1>0, FieldDecisions, AcceptedMeans
<1>4. fields["pi"].canonical = InOrder(groups["pi"])
  BY <1>3 DEF ResolvePis, Resolved
<1>5. \A c \in groups["pi"] :
              /\ CanonicalPi(c.raw) # None
              /\ \E d \in groups["pi"] : /\ CanonicalPi(d.raw) = CanonicalPi(c.raw)
                                         /\ ~BelowThreshold("pi", d)
  BY <1>3 DEF ResolvePis, Resolved
<1> QED
  BY <1>1, <1>2, <1>4, <1>5, PisListed

\* A candidate that is not below the threshold is from a text layer or was
\* read with the confidence the field requires.
LEMMA Confident ==
  ASSUME NEW f \in Fields, NEW c, ~BelowThreshold(f, c), c.method \in {"text", "ocr"},
         c.conf \in 0..Sure
  PROVE  c.method = "text" \/ c.conf >= Threshold[f]
<1>1. Threshold[f] \in Int
  BY DEF Threshold, Fields
<1>2. c.conf \in Int
  <2>1. Sure \in Int
    BY DEF Sure
  <2> QED
    BY <2>1
<1> QED
  BY <1>1, <1>2 DEF BelowThreshold

\* No weak reading and no other bank's notation decides.
LEMMA InvReadAsMeant == Inv => ReadAsMeant
<1> DEFINE Says(f, v) ==
      \E rs \in {pages, extra} : \E x \in In(rs, f) :
        /\ v \in Meaning(f, x[2].raw, Issuer)
        /\ \/ rs[x[1]].method = "text"
           \/ MatchedConfidence(rs[x[1]], Key(x[2])) >= Threshold[f]
<1> SUFFICES ASSUME Inv, Accepted, NEW f \in Fields, NEW v \in Values(f) PROVE Says(f, v)
  BY DEF ReadAsMeant
<1>1. "number" \in Single
  BY DEF Single, Fields
<1>2. Issuer \in Banks
  BY <1>1, AcceptedField
<1>3. ASSUME NEW c \in CollectAll(Source(f))[f], ~BelowThreshold(f, c),
             Canonical(f, c.raw, Issuer) = v, v # None
      PROVE  Says(f, v)
  <2>1. Source(f) \in {pages, extra} /\ GoodReadings(Source(f))
    BY Sources
  <2>2. PICK x \in In(Source(f), f) :
          /\ x[2].shows = ShownAs(f) /\ IsMention(x[2]) /\ Bounded(x[2])
          /\ c.raw = x[2].raw /\ c.method = Source(f)[x[1]].method
          /\ c.method \in {"text", "ocr"} /\ c.conf \in 0..Sure
          /\ c.conf = MatchedConfidence(Source(f)[x[1]], Key(x[2]))
    BY <1>3, <2>1, CandidateIsMention
  <2> DEFINE m == x[2]
  <2>3. v \in Meaning(f, m.raw, Issuer)
    <3>1. m.shows = ShownAs(f) /\ IsMention(m) /\ Bounded(m) /\ c.raw = m.raw
      BY <2>2
    <3> HIDE DEF m
    <3>2. Meaning(f, m.raw, Issuer) =
            IF Canonical(f, m.raw, Issuer) = None THEN {} ELSE {Canonical(f, m.raw, Issuer)}
      BY <1>2, <3>1, MeaningIsCanonical
    <3>3. Canonical(f, m.raw, Issuer) = v
      BY <1>3, <3>1
    <3> QED
      BY <1>3, <3>2, <3>3
  <2>4. c.method = "text" \/ c.conf >= Threshold[f]
    BY <1>3, <2>2, Confident
  <2> QED
    BY <2>1, <2>2, <2>3, <2>4
<1> HIDE DEF Says
<1>4. CASE f # "pi"
  <2>1. f \in Single /\ v = fields[f].canonical
    BY <1>4 DEF Single, Values
  <2> QED
    BY <1>3, <2>1, AcceptedField
<1>5. CASE f = "pi"
  <2>1. v \in PiValues(groups["pi"]) /\ groups["pi"] = CollectAll(Source("pi"))["pi"]
    BY <1>5, AcceptedPis DEF Values
  <2>2. PICK c \in groups["pi"] : CanonicalPi(c.raw) = v /\ v # None
    BY <2>1 DEF PiValues
  <2>3. PICK d \in groups["pi"] : CanonicalPi(d.raw) = v /\ ~BelowThreshold("pi", d)
    BY <2>2, AcceptedPis
  <2>4. Canonical("pi", d.raw, Issuer) = v
    BY <2>3 DEF Canonical
  <2> QED
    BY <1>3, <1>5, <2>1, <2>2, <2>3, <2>4
<1> QED
  BY <1>4, <1>5

\* What decides a field of an accepted letter was printed or read with
\* confidence and means that in the notation of the issuing bank.
THEOREM ReadAsMeantTheorem == Spec => []ReadAsMeant
BY InvTheorem, InvReadAsMeant, PTL

\* A mention that became a candidate of the pages agrees with the letter.
LEMMA MentionAgrees ==
  ASSUME Inv, Accepted, NEW f \in Single, NEW x \in In(pages, f),
         Made(pages, x) \in CollectAll(pages)[f]
  PROVE  Meaning(f, x[2].raw, Issuer) = {fields[f].canonical}
<1>0. f \in Fields
  BY DEF Single
<1>1. Source(f) = pages /\ GoodReadings(pages)
  BY <1>0, Sources DEF Inv, ReadingsInv
<1>2. /\ Issuer \in Banks /\ fields[f].canonical # None
      /\ Canonical(f, Made(pages, x).raw, Issuer) = fields[f].canonical
  BY <1>1, AcceptedField
<1>3. Made(pages, x).raw = x[2].raw
  BY DEF Made, Candidate
<1>4. x[1] \in DOMAIN pages /\ x[2] \in pages[x[1]].mentions /\ x[2].shows = ShownAs(f)
  BY InMentions
<1> DEFINE m == x[2]
<1>5. IsMention(m) /\ Bounded(m) /\ m.shows = ShownAs(f)
  BY <1>1, <1>4 DEF GoodReadings, IsReading
<1>6. Canonical(f, m.raw, Issuer) = fields[f].canonical
  BY <1>2, <1>3
<1> HIDE DEF m
<1>7. Meaning(f, m.raw, Issuer) =
        IF Canonical(f, m.raw, Issuer) = None THEN {} ELSE {Canonical(f, m.raw, Issuer)}
  BY <1>0, <1>2, <1>5, MeaningIsCanonical
<1>8. Meaning(f, m.raw, Issuer) = {fields[f].canonical}
  BY <1>2, <1>6, <1>7
<1> QED
  BY <1>8 DEF m

\* An accepted letter contradicts itself nowhere.
LEMMA InvNothingContradicts == Inv => NothingContradicts
<1> SUFFICES ASSUME Inv, Accepted PROVE NothingContradicts
  BY DEF NothingContradicts
<1>0. {"date", "value", "currency", "number"} \subseteq Single /\ Single \subseteq Fields /\ "pi" \in Fields
  BY DEF Single, Fields
<1>1. ASSUME NEW f \in {"date", "value", "currency"}, NEW x \in In(pages, f)
      PROVE  Meaning(f, x[2].raw, Issuer) = {fields[f].canonical}
  <2>1. Made(pages, x) \in CollectAll(pages)[f]
    BY <1>0, MentionIsCandidate
  <2> QED
    BY <1>0, <2>1, MentionAgrees
<1>2. ASSUME NEW x \in In(pages, "number"), x[2].cue = "anchored"
      PROVE  Meaning("number", x[2].raw, Issuer) = {fields["number"].canonical}
  <2>1. Made(pages, x) \in CollectAll(pages)["number"]
    BY <1>0, <1>2, MentionIsCandidate
  <2> QED
    BY <1>0, <2>1, MentionAgrees
<1>3. ASSUME NEW x \in In(pages, "pi"), pages[x[1]].message
      PROVE  /\ Meaning("pi", x[2].raw, Issuer) # {}
             /\ Meaning("pi", x[2].raw, Issuer) \subseteq ToSet(fields["pi"].canonical)
  <2>1. Made(pages, x) \in CollectAll(pages)["pi"]
    BY <1>0, <1>3, MentionIsCandidate
  <2>2. Source("pi") = pages
    BY <1>0, <2>1, Sources
  <2>3. Made(pages, x) \in groups["pi"]
    BY <2>1, <2>2, AcceptedPis
  <2>4. Made(pages, x).raw = x[2].raw
    BY DEF Made, Candidate
  <2>5. CanonicalPi(x[2].raw) # None /\ CanonicalPi(x[2].raw) \in PiValues(groups["pi"])
    BY <2>3, <2>4, AcceptedPis DEF PiValues
  <2>6. Meaning("pi", x[2].raw, Issuer) = {CanonicalPi(x[2].raw)}
    BY <2>5 DEF Meaning, CanonicalPi
  <2> QED
    BY <2>5, <2>6, AcceptedPis
<1> QED
  BY <1>1, <1>2, <1>3 DEF NothingContradicts

\* The dates, amounts and labelled numbers of an accepted letter agree, and
\* every seller PI of its message is listed.
THEOREM NothingContradictsTheorem == Spec => []NothingContradicts
BY InvTheorem, InvNothingContradicts, PTL
-----------------------------------------------------------------------------
(* Clear letters. *)

\* A field that is clear in some readings: its candidates are well formed,
\* none is weak, and those of a field with one value agree.
LEMMA ClearField ==
  ASSUME NEW rs, GoodReadings(rs), NEW f \in Fields, NEW bank \in Banks, ClearIn(rs, f, bank)
  PROVE  /\ CollectAll(rs)[f] # {}
         /\ \A c \in CollectAll(rs)[f] :
              Canonical(f, c.raw, bank) # None /\ ~BelowThreshold(f, c)
         /\ f # "pi" => \A c, d \in CollectAll(rs)[f] :
              Canonical(f, c.raw, bank) = Canonical(f, d.raw, bank)
<1>1. CollectAll(rs)[f] # {}
  <2>1. PICK x \in In(rs, f) : InPlace(rs, f, x)
    BY DEF ClearIn
  <2> QED
    BY <2>1, PlacedIsFound
<1>2. ASSUME NEW c \in CollectAll(rs)[f]
      PROVE  \E x \in In(rs, f) :
               /\ Meaning(f, x[2].raw, bank) = {Canonical(f, c.raw, bank)}
               /\ Canonical(f, c.raw, bank) # None /\ ~BelowThreshold(f, c)
  <2>1. PICK x \in In(rs, f) :
          /\ x[2].shows = ShownAs(f) /\ IsMention(x[2]) /\ Bounded(x[2])
          /\ c.raw = x[2].raw /\ c.method = rs[x[1]].method
          /\ c.conf = MatchedConfidence(rs[x[1]], Key(x[2])) /\ c.conf \in 0..Sure
    BY CandidateIsMention
  <2>2. /\ Meaning(f, x[2].raw, bank) # {}
        /\ rs[x[1]].method = "ocr" => MatchedConfidence(rs[x[1]], Key(x[2])) >= Threshold[f]
    BY DEF ClearIn
  <2> DEFINE m == x[2]
  <2>3. m.shows = ShownAs(f) /\ IsMention(m) /\ Bounded(m) /\ c.raw = m.raw
    BY <2>1
  <2>4. Meaning(f, m.raw, bank) # {}
    BY <2>2
  <2>5. Meaning(f, m.raw, bank) = {Canonical(f, c.raw, bank)} /\ Canonical(f, c.raw, bank) # None
    <3> HIDE DEF m
    <3>1. Meaning(f, m.raw, bank) =
            IF Canonical(f, m.raw, bank) = None THEN {} ELSE {Canonical(f, m.raw, bank)}
      BY <2>3, MeaningIsCanonical
    <3> QED
      BY <2>3, <2>4, <3>1
  <2>6. ~BelowThreshold(f, c)
    <3>1. c.method = "ocr" => c.conf >= Threshold[f]
      BY <2>1, <2>2
    <3>2. c.conf \in Int /\ Threshold[f] \in Int
      <4>1. 0..Sure \subseteq Int
        BY DEF Sure
      <4>2. Threshold[f] \in Int
        BY DEF Threshold, Fields
      <4> QED
        BY <2>1, <4>1, <4>2
    <3> QED
      BY <3>1, <3>2 DEF BelowThreshold
  <2> QED
    BY <2>5, <2>6
<1>3. ASSUME f # "pi", NEW c \in CollectAll(rs)[f], NEW d \in CollectAll(rs)[f]
      PROVE  Canonical(f, c.raw, bank) = Canonical(f, d.raw, bank)
  <2>1. PICK x \in In(rs, f) : Meaning(f, x[2].raw, bank) = {Canonical(f, c.raw, bank)}
    BY <1>2
  <2>2. PICK y \in In(rs, f) : Meaning(f, y[2].raw, bank) = {Canonical(f, d.raw, bank)}
    BY <1>2
  <2>3. Meaning(f, y[2].raw, bank) = Meaning(f, x[2].raw, bank)
    BY <1>3 DEF ClearIn
  <2> QED
    BY <2>1, <2>2, <2>3
<1> QED
  BY <1>1, <1>2, <1>3

\* A clear field with one value passes.
LEMMA ClearFieldPasses ==
  ASSUME NEW rs, GoodReadings(rs), NEW f \in Single, NEW bank \in Banks, ClearIn(rs, f, bank)
  PROVE  \E c \in CollectAll(rs)[f] :
           ResolveField(f, CollectAll(rs)[f], bank) = Resolved(Canonical(f, c.raw, bank), "pass")
<1> DEFINE cs == CollectAll(rs)[f]
<1>0. f \in Fields /\ f # "pi"
  BY DEF Single
<1>1. /\ cs # {}
      /\ \A c \in cs : Canonical(f, c.raw, bank) # None /\ ~BelowThreshold(f, c)
      /\ \A c, d \in cs : Canonical(f, c.raw, bank) = Canonical(f, d.raw, bank)
  BY <1>0, ClearField
<1>2. Selected(cs) \in cs
  BY <1>0, <1>1, SelectedIsCandidate
<1> HIDE DEF cs
<1>3. PICK c \in cs : TRUE
  BY <1>1
<1> DEFINE v == Canonical(f, c.raw, bank)
<1>4. v # None /\ \A d \in cs : Canonical(f, d.raw, bank) = v
  BY <1>1
<1>5. ~BelowThreshold(f, Selected(cs))
  BY <1>1, <1>2
<1> HIDE DEF v
<1>6. ResolveField(f, cs, bank) = Resolved(v, "pass")
  BY <1>1, <1>4, <1>5, AgreedField
<1> QED
  BY <1>6 DEF cs, v

\* A letter that is clear is accepted.
LEMMA InvClearLettersPass == Inv => ClearLettersPass
<1> SUFFICES ASSUME Inv, pc = "done", NEW bank \in Banks,
                    \A c \in In(pages, "number") \cup In(extra, "number") : c[2].raw.bank = bank,
                    \A f \in Fields : \/ ClearIn(pages, f, bank)
                                      \/ In(pages, f) = {} /\ ClearIn(extra, f, bank)
             PROVE  Accepted
  BY DEF ClearLettersPass
<1>0. "number" \in Single /\ Single \subseteq Fields /\ "pi" \in Fields /\ "number" \in Fields
  BY DEF Single, Fields
<1>1. ASSUME NEW f \in Fields
      PROVE  /\ GoodReadings(Source(f)) /\ Source(f) \in {pages, extra}
             /\ ClearIn(Source(f), f, bank) /\ groups[f] = CollectAll(Source(f))[f]
  <2>1. GoodReadings(Source(f)) /\ Source(f) \in {pages, extra}
    BY Sources
  <2>2. groups[f] = CollectAll(Source(f))[f]
    BY DEF Inv, GroupsInv
  <2>3. CASE ClearIn(pages, f, bank)
    <3>1. PICK x \in In(pages, f) : InPlace(pages, f, x)
      BY <2>3 DEF ClearIn
    <3>2. Source(f) = pages
      BY <3>1, PlacedIsFound, Sources
    <3> QED
      BY <2>1, <2>2, <2>3, <3>2
  <2>4. CASE In(pages, f) = {} /\ ClearIn(extra, f, bank)
    <3>1. Source(f) = extra
      BY <2>4, UnmentionedIsMissing DEF Source
    <3> QED
      BY <2>1, <2>2, <2>4, <3>1
  <2> QED
    BY <2>3, <2>4
<1>2. DetectBank(fields["number"]) = bank /\ fields["number"].status = "pass"
  <2> DEFINE cs == groups["number"]
  <2>1. PICK c \in cs : ResolveField("number", cs, bank) = Resolved(Canonical("number", c.raw, bank), "pass")
    BY <1>0, <1>1, ClearFieldPasses
  <2>2. fields["number"] = ResolveField("number", cs, "unknown")
    BY FieldDecisions
  <2>3. ResolveField("number", cs, "unknown") = ResolveField("number", cs, bank)
    <3>1. \A raw : Canonical("number", raw, "unknown") = Canonical("number", raw, bank)
      BY NumberOfAnyBank
    <3> DEFINE of(b) == {Canonical("number", x.raw, b) : x \in cs}
               decided(values) ==
                 IF cs = {} THEN Resolved(None, "missing")
                 ELSE IF None \in values \/ Cardinality(values) # 1 THEN Resolved(None, "ambiguous")
                 ELSE Resolved(CHOOSE v \in values : TRUE,
                               IF BelowThreshold("number", Selected(cs)) THEN "unsure" ELSE "pass")
    <3>2. of("unknown") = of(bank)
      BY <3>1
    <3>3. \A b : ResolveField("number", cs, b) = decided(of(b))
      BY DEF ResolveField
    <3> HIDE DEF of, decided
    <3> QED
      BY <3>2, <3>3
  <2>4. Canonical("number", c.raw, bank) # None
    BY <1>0, <1>1, ClearField
  <2>5. c.raw.bank = bank
    <3>1. PICK x \in In(Source("number"), "number") : c.raw = x[2].raw
      BY <1>0, <1>1, CandidateIsMention
    <3> QED
      BY <1>0, <1>1, <3>1
  <2>6. Canonical("number", c.raw, bank) = <<bank, c.raw.serial>>
    BY <2>4, <2>5 DEF Canonical, CanonicalNumber
  <2>7. fields["number"] = Resolved(<<bank, c.raw.serial>>, "pass")
    BY <2>1, <2>2, <2>3, <2>6
  <2> QED
    BY <2>7 DEF Resolved, DetectBank, None
<1>3. ASSUME NEW f \in Single \ {"number"} PROVE fields[f].status = "pass"
  <2>1. fields[f] = ResolveField(f, groups[f], bank)
    BY <1>2, FieldDecisions
  <2>2. f \in Fields
    BY <1>0
  <2>3. PICK c \in groups[f] : ResolveField(f, groups[f], bank) = Resolved(Canonical(f, c.raw, bank), "pass")
    BY <1>1, <2>2, ClearFieldPasses
  <2> QED
    BY <2>1, <2>3 DEF Resolved
<1>4. fields["pi"].status = "pass"
  <2>1. /\ groups["pi"] # {}
        /\ \A c \in groups["pi"] : Canonical("pi", c.raw, bank) # None /\ ~BelowThreshold("pi", c)
    BY <1>0, <1>1, ClearField
  <2>2. \A c \in groups["pi"] : CanonicalPi(c.raw) # None
    BY <2>1 DEF Canonical
  <2>3. fields["pi"] = ResolvePis(groups["pi"])
    BY FieldDecisions
  <2> QED
    BY <2>1, <2>2, <2>3 DEF ResolvePis, Resolved
<1>5. \A f \in Fields : fields[f].status = "pass"
  BY <1>2, <1>3, <1>4 DEF Single
<1>6. bank # "unknown"
  BY DEF Banks
<1> QED
  BY <1>2, <1>5, <1>6, AcceptedMeans

\* Whichever pages had to be scanned for it, a letter that shows every field
\* where it is looked for, in agreement and with confidence, is accepted.
THEOREM ClearLettersTheorem == Spec => []ClearLettersPass
BY InvTheorem, InvClearLettersPass, PTL
===============================================================================
