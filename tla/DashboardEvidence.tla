-------------------------- MODULE DashboardEvidence --------------------------
(***************************************************************************)
(* The evidence of a family's report.  It is computed a second time from   *)
(* the ERP aggregate and the dashboard snapshot, rule by rule, and must    *)
(* explain the decision that Compare took on its own.                      *)
(***************************************************************************)
EXTENDS DashboardRules

RuleIds ==
  {"beneficiary", "buyer_section_present", "irc_buyer", "erc_buyer", "lc_date",
   "shipment_offset", "expiry_order", "dashboard_expiry_window", "erp_expiry_window",
   "foreign_lc_overlap", "inputs", "value_floor", "lc_quantity_match",
   "exact_value_quantity", "kgs_alternative", "excess_alternative", "excess_minimum",
   "excess_quantity_range"}

Check(passes) == IF passes THEN "pass" ELSE "fail"

\* The days between two dates, where both can be read.
DateCheck(from, to, min, max) ==
  IF Blank \in {Readable(from), Readable(to)} THEN "unavailable"
  ELSE Check(Days(from, to, min, max))

SectionCheck(buyer, section) ==
  IF section = {} THEN "not_applicable"
  ELSE IF buyer = Nobody THEN "unavailable"
  ELSE Check(buyer \in section)

\* The populated amounts that enter a total are usable; their sum otherwise
\* stands for nothing.
Usable(amount) == amount \notin {Blank, Malformed}

\* Fault: the status needs a weight.
NumericStatusByWeight(erp, shown) ==
  LET quantity == Total(shown.quantities)
  IN  IF {shown.value, quantity, erp.value, erp.quantity, erp.weight} \cap {Blank, Malformed} # {}
      THEN "none" ELSE NumericRule(shown.value, quantity, erp).status

\* The numeric status the evidence quotes, where all inputs can be compared.
NumericStatus(erp, shown) ==
  LET quantity == Total(shown.quantities)
  IN  IF {shown.value, quantity, erp.value, erp.quantity} \cap {Blank, Malformed} # {}
      THEN "none" ELSE NumericRule(shown.value, quantity, erp).status

\* The rules on value and quantity: exact, else by weight, else by excess.
\* "absent" stands for a rule the list leaves out.
NumericResults(value, quantity, erp, status) ==
  LET valueIs == IF Usable(value) /\ Usable(erp.value) THEN Relation(value, erp.value) ELSE "none"
      quantityIs == IF Usable(quantity) /\ Usable(erp.quantity)
                    THEN Relation(quantity, erp.quantity) ELSE "none"
      missing == "none" \in {valueIs, quantityIs}
      exact == valueIs = "equal" /\ quantityIs = "equal"
      kgs == /\ valueIs = "equal" /\ quantityIs \notin {"none", "equal"}
             /\ erp.weight # Blank /\ Near(quantity, erp.weight, WeightTolerance)
      bothHigher == valueIs = "higher" /\ quantityIs = "higher"
      excess == value - erp.value
  IN  [inputs |-> IF missing THEN "unavailable" ELSE "absent",
       value_floor |-> IF valueIs = "none" THEN "unavailable" ELSE Check(valueIs # "lower"),
       lc_quantity_match |->
         IF quantityIs = "none" THEN "unavailable"
         ELSE IF quantityIs # "equal" /\ status \in {"OK", "OK (KGS)"} THEN "not_applicable"
         ELSE Check(quantityIs = "equal"),
       exact_value_quantity |->
         IF missing THEN "unavailable" ELSE IF exact THEN "pass" ELSE "not_applicable",
       kgs_alternative |->
         IF exact \/ valueIs \in {"higher", "lower"} THEN "not_applicable"
         ELSE IF missing \/ erp.weight = Blank THEN "unavailable"
         ELSE Check(kgs),
       excess_alternative |->
         IF exact \/ kgs THEN "not_applicable"
         ELSE IF missing THEN "unavailable"
         ELSE IF bothHigher THEN "absent" ELSE "fail",
       excess_minimum |-> IF bothHigher THEN Check(excess >= MinValueExcess) ELSE "absent",
       excess_quantity_range |->
         IF bothHigher
         THEN Check(quantity - erp.quantity \in Percent(20, excess)..Percent(80, excess))
         ELSE "absent"]

RuleResults(references, erp, shown) ==
  LET numeric == NumericResults(shown.value, Total(shown.quantities), erp, NumericStatus(erp, shown))
      plain == [
        beneficiary |-> Check(shown.beneficiary),
        buyer_section_present |-> Check(shown.irc \cup shown.erc # {}),
        irc_buyer |-> SectionCheck(erp.buyer, shown.irc),
        erc_buyer |-> SectionCheck(erp.buyer, shown.erc),
        lc_date |-> DateCheck(erp.lcDate, shown.lcDate, 0, 0),
        shipment_offset |-> DateCheck(erp.ship, shown.ship, 0, MaxShipmentOffset),
        expiry_order |-> DateCheck(erp.expiry, shown.expiry, 0, Whenever),
        dashboard_expiry_window |->
          DateCheck(shown.ship, shown.expiry, MinExpiryOffset, MaxExpiryOffset),
        erp_expiry_window |-> DateCheck(erp.ship, erp.expiry, MinExpiryOffset, MaxExpiryOffset),
        foreign_lc_overlap |-> Check(references \cap shown.references # {})]
  IN  [rule \in RuleIds |->
         IF rule \in DOMAIN numeric THEN numeric[rule] ELSE plain[rule]]

With(results, status) == {rule \in RuleIds : results[rule] = status}

\* The summary's words for the way value and quantity were accepted.
NumericPath(results, numericStatus) ==
  LET passed == With(results, "pass")
  IN  IF "exact_value_quantity" \in passed THEN "tolerance"
      ELSE IF "kgs_alternative" \in passed THEN "weight"
      ELSE IF {"excess_minimum", "excess_quantity_range"} \subseteq passed THEN "excess"
      ELSE IF numericStatus = "mismatch" THEN "none" ELSE "unavailable"

\* What the report says of a family that found something on the dashboard.
Evidence(references, erp, shown) ==
  LET status == NumericStatus(erp, shown)
      results == RuleResults(references, erp, shown)
  IN  [path |-> NumericPath(results, status),
       failed |-> With(results, "fail"),
       unavailable |-> With(results, "unavailable")]
=============================================================================
