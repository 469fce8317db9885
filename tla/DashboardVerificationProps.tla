--------------------- MODULE DashboardVerificationProps ---------------------
(***************************************************************************)
(* What runs of bb_dashboard_verification promise, whatever the page, the  *)
(* site and the people at the sheet do between their steps.                *)
(***************************************************************************)
EXTENDS DashboardVerification, DashboardEvidence

\* Families to compare: [references, erp, shown].
CONSTANT Cases

ASSUME CaseAssumption == \A c \in Cases : IsErp(c.erp) /\ IsShown(c.shown)

Decisions == {"none", "pass", "warning", "hard_block"}
Statuses == {"none"} \cup Compliant \cup Messages

\* Type invariant of the model's state.
TypeOK ==
  /\ {sheet, snap} \subseteq [Rows -> [up : BOOLEAN, status : Statuses, dates : BOOLEAN]]
  /\ site \in Sites
  /\ pc \in {"idle", "family", "search", "reading"}
  /\ queue \in Seq(Families) /\ keys \in Seq(Keys)
  /\ pc \in {"search", "reading"} <=> keys # <<>>
  /\ session \in {"none", "open", "failed"}
  /\ page.at \in {"search", "login", "closed"} /\ page.dirty \in BOOLEAN
  /\ page.pending \subseteq Keys
  /\ DOMAIN result = Families /\ DOMAIN basis = Families
  /\ \A f \in Families :
       result[f].decision \in Decisions /\ result[f].status \in Statuses
  /\ logins \in Nat /\ edits \in 0..MaxEdits /\ faults \in 0..MaxFaults

-----------------------------------------------------------------------------
(* One page for all families. *)

\* A family is judged on the answer to one of its own search keys, however
\* late an earlier family's answer comes (the reset before each lookup).
LookupsStayApart ==
  \A f \in Families :
    basis[f] # NoAnswer => f \in Comparable /\ basis[f] \in ToSet(SearchKeys[f])

\* A run logs in at most once, and after its session has failed it searches for
\* no family any more (the latched session failure).
OneLogin ==
  /\ logins <= 1
  /\ session = "failed" => pc = "family"

-----------------------------------------------------------------------------
(* The sheet. *)

\* A run writes from what it has read when it started, and others settle rows
\* meanwhile: all the same it changes no row that is settled by then, and it
\* settles one only on an answer to a search key of the row's own family (the
\* expected values of _build_family_write_operations, prevalidated).
RunsSettleOpenRows ==
  [][edits' = edits =>
       \A r \in Rows : sheet'[r] # sheet[r] =>
         /\ sheet[r].status \notin Compliant
         /\ sheet'[r].status \in Compliant =>
              /\ Row[r].family \in Comparable
              /\ basis[Row[r].family] \in ToSet(SearchKeys[Row[r].family])]_vars

\* A row that reads OK carries the ERP dates that were compared, also when
\* it was diagnosed without dates before (the operations of a family).
OkRowsCarryErpDates ==
  \A r \in Rows : sheet[r].status \in Compliant => sheet[r].dates

-----------------------------------------------------------------------------
(* Progress. *)

\* A row that waits for the dashboard's confirmation.
Open(r) == Row[r].ud = "UD" /\ ~sheet[r].up /\ sheet[r].status \notin Compliant

\* The dashboard confirms the family of the row, by the first of its search
\* keys that it answers.
Confirmed(r) ==
  LET f == Row[r].family
      open == {o \in Rows : Row[o].family = f /\ Open(o)}
  IN  /\ f \in Comparable /\ \A o \in open : Row[o].sl
      /\ LET answered == SelectSeq(SearchKeys[f], Answered)
         IN  /\ answered # <<>>
             /\ Evaluation(UNION {Row[o].references : o \in open}, Ours[f],
                           site[Head(answered)]).decision = "pass"

\* A row does not stay open for ever while the dashboard confirms its family:
\* a failed, partial or late lookup is made good by a later run, since a
\* diagnosis leaves the row a candidate.
MatchingRowsVerified ==
  \A r \in Rows : ~<>[](Open(r) /\ Confirmed(r))

-----------------------------------------------------------------------------
(* The comparison and its report. *)

\* The ways value and quantity are accepted, as the workflow's rules name them.
Accepted(value, quantity, erp) ==
  LET sameValue == Near(value, erp.value, Tolerance)
      sameQuantity == Near(quantity, erp.quantity, Tolerance)
      moreValue == value - erp.value
      moreQuantity == quantity - erp.quantity
  IN  (IF sameValue /\ sameQuantity THEN {"OK"} ELSE {})
        \cup (IF /\ moreValue >= 10000 /\ moreQuantity > Tolerance
                 /\ 100 * moreQuantity \in (20 * moreValue - 50)..(80 * moreValue + 50)
                THEN {"OK"} ELSE {})
        \cup (IF /\ sameValue /\ ~sameQuantity
                 /\ erp.weight # Blank /\ Near(quantity, erp.weight, WeightTolerance)
                THEN {"OK (KGS)"} ELSE {})

\* A family of the run with what the bank shows of it.
SiteCases ==
  {[references |-> {"none"}, erp |-> Ours[f], shown |-> site[k]] :
     f \in Comparable, k \in {k \in Keys : Answered(k)}}

Documented(c) ==
  LET value == c.shown.value
      quantity == Total(c.shown.quantities)
      rule == NumericRule(value, quantity, c.erp)
      matches == \/ Near(quantity, c.erp.quantity, Tolerance)
                 \/ c.erp.weight # Blank /\ Near(quantity, c.erp.weight, WeightTolerance)
  IN  {value, quantity} \cap {Blank, Malformed} = {} =>
        /\ Accepted(value, quantity, c.erp) =
             IF rule.status = "mismatch" THEN {} ELSE {rule.status}
        /\ rule.status = "mismatch" <=> rule.topics # {}
        /\ value < c.erp.value - Tolerance =>
             "Value" \in rule.topics /\ (matches => rule.topics = {"Value"})
        /\ /\ Near(value, c.erp.value, Tolerance)
           /\ quantity > c.erp.quantity + Tolerance /\ rule.status = "mismatch"
           => rule.topics = {"Quantity"}

\* For TLC to evaluate once.
CasesDocumented == \A c \in Cases : Documented(c)

\* The cascade of early returns accepts exactly what one of the three ways
\* accepts, names the way, and labels a value that is too low, or a quantity
\* that alone is too high, by nothing else (_compare_value_and_quantity
\* against docs/workflows.md:1032-1050).
NumericRuleAsDocumented ==
  CasesDocumented /\ (pc = "idle" => \A c \in SiteCases : Documented(c))

Explained(c) ==
  LET decided == Evaluation(c.references, c.erp, c.shown)
      evidence == Evidence(c.references, c.erp, c.shown)
      gap == IF {Readable(c.erp.lcDate), Readable(c.shown.lcDate)} = {Blank}
             THEN {"lc_date"} ELSE {}
  IN  /\ decided.decision = "pass" <=> evidence.failed \cup (evidence.unavailable \ gap) = {}
      /\ decided.decision = "pass" =>
           evidence.path \in (IF decided.status = "OK (KGS)" THEN {"weight"}
                             ELSE {"tolerance", "excess"})
      /\ decided.decision = "warning" /\ evidence.path \in {"tolerance", "weight", "excess"} =>
           {"Value", "Quantity"} \cap Compare(c.references, c.erp, c.shown).topics = {}

CasesExplained == \A c \in Cases : Explained(c)

\* The report explains every decision: a family passes exactly when no rule of
\* its evidence failed or could not be evaluated, two LC dates that cannot be
\* read apart (the known gap of docs/workflows.md:1070), and the path it names
\* is the one that was taken (_build_rule_results against the comparison).
EvidenceExplainsDecision ==
  CasesExplained /\ (pc = "idle" => \A c \in SiteCases : Explained(c))
=============================================================================
