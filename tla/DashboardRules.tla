---------------------------- MODULE DashboardRules ----------------------------
(***************************************************************************)
(* What bb_dashboard_verification decides on one LC family: the ERP rows   *)
(* of the family taken together, compared with what the Bangladesh Bank    *)
(* dashboard shows; and the evidence its report gives for the decision,    *)
(* which is computed a second time.  Amounts are in hundredths, dates in   *)
(* days, and a buyer section is the set of buyers it names.                *)
(***************************************************************************)
EXTENDS Integers, FiniteSets, FiniteSetsExt, SequencesExt

CONSTANTS
  Blank,     \* an empty cell
  Malformed  \* a cell that is neither empty nor an amount or a date

ASSUME MarkAssumption == Blank \notin Int /\ Malformed \notin Int /\ Blank # Malformed

Nobody == "nobody" \* no buyer in the cell

\* What an amount or a date is read as.
Readings == Int \cup {Blank, Malformed}

\* What the comparison needs of an aggregate of ERP rows: a buyer, and a value
\* and a quantity that can be compared.
IsErp(erp) ==
  /\ erp.buyer # Nobody
  /\ erp.value \in Int /\ erp.quantity \in Int /\ erp.weight \in Int \cup {Blank}
  /\ erp.lcDate \in Readings /\ erp.ship \in Readings /\ erp.expiry \in Readings

\* What is read from the dashboard, with the quantities of its commodity rows.
IsShown(shown) ==
  /\ shown.value \in Readings /\ shown.quantities \in Seq(Readings)
  /\ shown.lcDate \in Readings /\ shown.ship \in Readings /\ shown.expiry \in Readings
  /\ shown.beneficiary \in BOOLEAN

IsErpRows(rows) ==
  /\ Len(rows) \in Nat /\ DOMAIN rows = 1..Len(rows)
  /\ \A i \in DOMAIN rows :
       {rows[i].lcDate, rows[i].ship, rows[i].expiry,
        rows[i].value, rows[i].quantity, rows[i].weight} \subseteq Readings

Tolerance == 1
WeightTolerance == 80
MinValueExcess == 10000
MaxShipmentOffset == 250
MinExpiryOffset == 5
MaxExpiryOffset == 90
-----------------------------------------------------------------------------
(* ERP rows of a family. *)

\* The sum of the populated amounts, if there is one and none is malformed.
Total(amounts) ==
  LET populated == {i \in DOMAIN amounts : amounts[i] # Blank}
      sum[i \in 0..Len(amounts)] ==
        IF i = 0 THEN 0 ELSE sum[i - 1] + (IF i \in populated THEN amounts[i] ELSE 0)
  IN  IF populated = {} THEN Blank
      ELSE IF \E i \in populated : amounts[i] = Malformed THEN Malformed
      ELSE sum[Len(amounts)]

\* Rows that repeat an earlier one in every column but the buyer's folder do
\* not count.
Signature(row) == [row EXCEPT !.folder = Nobody]
Deduped(rows) == {i \in DOMAIN rows : ~\E j \in 1..(i - 1) : Signature(rows[j]) = Signature(rows[i])}

\* The folder's buyer is meant where there is one.
Buyer(row) == IF row.folder = Nobody THEN row.buyer ELSE row.folder
Buyers(rows) == {Buyer(rows[i]) : i \in Deduped(rows)} \ {Nobody}

\* What a column holds, and what it adds up to.
Column(rows, field, none) == {rows[i][field] : i \in Deduped(rows)} \ {none}
ColumnTotal(rows, field) ==
  Total([i \in DOMAIN rows |-> IF i \in Deduped(rows) THEN rows[i][field] ELSE Blank])

\* One buyer, one LC date, one readable shipment and expiry date, at most one
\* remark, and amounts that add up.
Consistent(rows) ==
  LET ships == Column(rows, "ship", Blank)
      expiries == Column(rows, "expiry", Blank)
  IN  /\ rows # <<>>
      /\ Cardinality(Buyers(rows)) = 1
      /\ Cardinality(Column(rows, "lcDate", Blank)) = 1
      /\ Cardinality(ships) = 1 /\ Cardinality(expiries) = 1
      /\ Cardinality(Column(rows, "remark", Nobody)) <= 1
      /\ Malformed \notin ships \cup expiries
      /\ ColumnTotal(rows, "value") \notin {Blank, Malformed}
      /\ ColumnTotal(rows, "quantity") \notin {Blank, Malformed}

Only(values, none) == IF values = {} THEN none ELSE CHOOSE v \in values : TRUE

\* A weight that does not add up is as good as none.
Aggregate(rows) ==
  LET weight == ColumnTotal(rows, "weight")
  IN  [buyer |-> Only(Buyers(rows), Nobody),
       lcDate |-> Only(Column(rows, "lcDate", Blank), Blank),
       ship |-> Only(Column(rows, "ship", Blank), Blank),
       expiry |-> Only(Column(rows, "expiry", Blank), Blank),
       remark |-> Only(Column(rows, "remark", Nobody), Nobody),
       value |-> ColumnTotal(rows, "value"),
       quantity |-> ColumnTotal(rows, "quantity"),
       weight |-> IF weight = Malformed THEN Blank ELSE weight]
-----------------------------------------------------------------------------
(* The comparison. *)

Near(a, b, tolerance) == a - b \in -tolerance..tolerance
Relation(a, b) ==
  IF Near(a, b, Tolerance) THEN "equal" ELSE IF a > b THEN "higher" ELSE "lower"

\* A percentage, rounded half up to a hundredth.
Percent(share, amount) == (amount * share + 50) \div 100

\* Fault: the least excess itself is refused.
ExcessAcceptedAbove(value, quantity, erp) ==
  LET excess == value - erp.value
      more == quantity - erp.quantity
  IN  excess > MinValueExcess /\ more \in Percent(20, excess)..Percent(80, excess)

ExcessAccepted(value, quantity, erp) ==
  LET excess == value - erp.value
      more == quantity - erp.quantity
  IN  excess >= MinValueExcess /\ more \in Percent(20, excess)..Percent(80, excess)

\* The value and quantity of the dashboard against the totals of the ERP, and
\* the topics a mismatch is labelled with.
NumericRule(value, quantity, erp) ==
  LET byQuantity == Near(quantity, erp.quantity, Tolerance)
      byWeight == erp.weight # Blank /\ Near(quantity, erp.weight, WeightTolerance)
      valueIs == Relation(value, erp.value)
      quantityIs == Relation(quantity, erp.quantity)
      Accept(status) == [status |-> status, topics |-> {}]
      Mismatch(topics) == [status |-> "mismatch", topics |-> topics]
  IN  IF valueIs = "equal" /\ byQuantity THEN Accept("OK")
      ELSE IF valueIs = "equal" /\ byWeight THEN Accept("OK (KGS)")
      ELSE IF valueIs = "lower"
        THEN Mismatch({"Value"} \cup (IF quantityIs = "lower" /\ ~byWeight THEN {"Quantity"} ELSE {}))
      ELSE IF quantityIs = "lower" \/ valueIs = "equal" THEN Mismatch({"Quantity"})
      ELSE IF quantityIs = "higher" /\ ExcessAccepted(value, quantity, erp) THEN Accept("OK")
      ELSE Mismatch({"Value", "Quantity"})

Days(from, to, min, max) ==
  from \notin {Blank, Malformed} /\ to \notin {Blank, Malformed} /\ to - from \in min..max

\* No bound: later than any date.
Whenever == 100000

Readable(date) == IF date = Malformed THEN Blank ELSE date

\* A buyer must be named in every section that is filled, and one must be.
BuyerTopics(buyer, shown) ==
  IF shown.irc = {} /\ shown.erc = {} THEN {"IRC Details", "ERC Details"}
  ELSE {topic \in {"IRC Details", "ERC Details"} :
          LET section == IF topic = "IRC Details" THEN shown.irc ELSE shown.erc
          IN  section # {} /\ buyer \notin section}

\* The topics of everything that does not agree but value and quantity.
OtherTopics(references, erp, shown) ==
  BuyerTopics(erp.buyer, shown)
    \cup (IF shown.beneficiary THEN {} ELSE {"Beneficiary"})
    \cup (IF Readable(shown.lcDate) = Readable(erp.lcDate) THEN {} ELSE {"LC Date"})
    \cup (IF Days(erp.ship, shown.ship, 0, MaxShipmentOffset) THEN {} ELSE {"Shipment Date"})
    \cup (IF /\ Days(erp.expiry, shown.expiry, 0, Whenever)
             /\ Days(shown.ship, shown.expiry, MinExpiryOffset, MaxExpiryOffset)
            THEN {} ELSE {"Expiry Date"})
    \cup (IF Days(erp.ship, erp.expiry, MinExpiryOffset, MaxExpiryOffset)
            THEN {} ELSE {"ERP Date Window"})
    \cup (IF references \cap shown.references # {} THEN {} ELSE {"Foreign LC No"})

Compare(references, erp, shown) ==
  LET quantity == Total(shown.quantities)
      other == OtherTopics(references, erp, shown)
      missing == (IF shown.value = Blank THEN {"Value"} ELSE {})
                   \cup (IF quantity = Blank THEN {"Quantity"} ELSE {})
      numeric == NumericRule(shown.value, quantity, erp)
  IN  IF missing # {} THEN [status |-> "mismatch", topics |-> other \cup missing]
      ELSE IF other = {} THEN numeric
      ELSE [status |-> "mismatch", topics |-> other \cup numeric.topics]

NumericIssues(shown) == Malformed \in {shown.value} \cup ToSet(shown.quantities)

\* Fault: the ERP dates are written where the dashboard disagrees.
EvaluationOfMismatches(references, erp, shown) ==
  IF NumericIssues(shown) THEN [decision |-> "hard_block", status |-> "invalid", dates |-> FALSE]
  ELSE LET comparison == Compare(references, erp, shown)
       IN  [decision |-> IF comparison.status = "mismatch" THEN "warning" ELSE "pass",
            status |-> comparison.status, dates |-> comparison.status = "mismatch"]

\* What is written for a family whose lookup has found something, and whether
\* the ERP dates are written with it.
Evaluation(references, erp, shown) ==
  IF NumericIssues(shown) THEN [decision |-> "hard_block", status |-> "invalid", dates |-> FALSE]
  ELSE LET comparison == Compare(references, erp, shown)
       IN  [decision |-> IF comparison.status = "mismatch" THEN "warning" ELSE "pass",
            status |-> comparison.status, dates |-> TRUE]
=============================================================================
