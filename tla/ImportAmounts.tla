--------------------------- MODULE ImportAmounts ---------------------------
(***************************************************************************)
(* How the amount of a back-to-back letter of credit is read.  Banks       *)
(* separate thousands and decimals differently, and the reading must not   *)
(* guess.  An amount as written is a sequence of groups of digits with the *)
(* separators between them; the digits themselves are copied, so a group   *)
(* is its length.                                                          *)
(***************************************************************************)
EXTENDS Integers, Sequences, FiniteSets, FiniteSetsExt, SequencesExt

Banks == {"city", "mtb", "al_arafah", "brac", "scb"}

\* A canonical value, and that there is none.
None == <<>>

IsAmount(a) ==
  /\ a \in [lens : Seq(Nat), seps : Seq({"comma", "point"}), zero : BOOLEAN]
  /\ Len(a.lens) = Len(a.seps) + 1

\* Thousands by three digits, or the last three and before them by two.
ValidGroupedInteger(lens) ==
  LET rest == Tail(lens)
      n == Len(rest)
  IN  /\ n >= 1 /\ lens[1] \in 1..3
      /\ \/ \A i \in 1..n : rest[i] = 3
         \/ rest[n] = 3 /\ \A i \in 1..n - 1 : rest[i] = 2

IntegerPart(lens, seps, grouping) ==
  \/ seps = <<>> /\ lens[1] > 0
  \/ seps # <<>> /\ ToSet(seps) = {grouping} /\ ValidGroupedInteger(lens)

Total(numbers) ==
  LET sum[i \in 0..Len(numbers)] == IF i = 0 THEN 0 ELSE sum[i - 1] + numbers[i]
  IN  sum[Len(numbers)]

\* The digits before and after the decimal point.  A decimal separator is
\* the last separator of an amount.
ParseGroupedDecimal(a, grouping, decimal, places) ==
  LET n == Len(a.seps)
      fractional == decimal \in ToSet(a.seps)
      whole == IF fractional THEN SubSeq(a.lens, 1, n) ELSE a.lens
      before == IF fractional THEN SubSeq(a.seps, 1, n - 1) ELSE a.seps
  IN  IF /\ fractional => a.seps[n] = decimal /\ Last(a.lens) \in places
         /\ IntegerPart(whole, before, grouping)
      THEN <<Total(whole), IF fractional THEN Last(a.lens) ELSE 0>>
      ELSE None

\* Two kinds of separators tell themselves apart; one separator is decimal
\* if one or two digits follow it.
ParseUnambiguousDecimal(a) ==
  CASE ToSet(a.seps) = {"comma", "point"} ->
         IF Last(a.seps) = "comma" THEN ParseGroupedDecimal(a, "point", "comma", 1..3)
                               ELSE ParseGroupedDecimal(a, "comma", "point", 1..3)
    [] a.seps = <<>> -> IF a.lens[1] > 0 THEN <<a.lens[1], 0>> ELSE None
    [] Len(a.seps) = 1 -> IF a.lens[1] > 0 /\ a.lens[2] \in 1..2 THEN a.lens ELSE None
    [] OTHER -> None

\* Fault: every bank is taken to write its decimals after a point.
CanonicalAmountByPoint(a, bank) ==
  IF a.zero THEN None ELSE ParseGroupedDecimal(a, "comma", "point", 0..3)

\* The banks that print SWIFT amounts separate decimals by a comma, which
\* may end the amount.
CanonicalAmount(a, bank) ==
  IF a.zero THEN None
  ELSE IF bank = "mtb" THEN ParseGroupedDecimal(a, "comma", "point", 1..3)
  ELSE IF bank \in Banks THEN ParseGroupedDecimal(a, "point", "comma", 0..2)
  ELSE ParseUnambiguousDecimal(a)
=============================================================================
