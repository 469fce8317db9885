---------------------------- MODULE UdAllocation ----------------------------
(***************************************************************************)
(* How the ud_ip_exp workflow finds the workbook rows of a document.  A UD *)
(* or AM document goes to a group of rows of its LC/SC family whose export *)
(* amounts add up to its value; IP and EXP documents go to the whole       *)
(* family.  Amounts are in minor units.                                    *)
(***************************************************************************)
EXTENDS Integers, Sequences, FiniteSets, FiniteSetsExt

CONSTANTS
  Files,         \* export file numbers
  Families,      \* LC/SC numbers
  Units,         \* quantity units
  Erp,           \* the ERP register: what it says of the files it knows
  Numbers,       \* UD, AM, IP and EXP document numbers
  Tolerance,     \* of a value, in minor units
  Threshold      \* least excess of a document quantity that is accepted

NoFile == "no file"
NoDate == 0

ASSUME RegisterAssumption ==
  /\ NoFile \notin Files
  /\ DOMAIN Erp \subseteq Files /\ IsFiniteSet(DOMAIN Erp)
  /\ \A f \in DOMAIN Erp :
       Erp[f] \in [lc : Families, value : Nat, quantity : Nat, unit : Units,
                   complete : BOOLEAN]
ASSUME MarginAssumption == Tolerance \in Nat /\ Threshold \in Nat

\* A row holds the cells an append fills, under the name of their file, the
\* buyer cell that tells a used row, and the three cells of ud_ip_exp.
Rows ==
  [file : (DOMAIN Erp) \cup {NoFile}, buyer : BOOLEAN, shared : SUBSET Numbers,
   date : Nat, recv : BOOLEAN]

BlankRow == [file |-> NoFile, buyer |-> FALSE, shared |-> {}, date |-> NoDate,
             recv |-> FALSE]

FamilyRows(sheet, lc) ==
  {i \in DOMAIN sheet : sheet[i].file # NoFile /\ Erp[sheet[i].file].lc = lc}

Amount(sheet, i) == Erp[sheet[i].file].value

ValueOf(sheet, group) == MapThenSumSet(LAMBDA i : Amount(sheet, i), group)

Near(a, b) == a - b \in -Tolerance..Tolerance

\* The groups the search collects: taken in row order, the first rows that
\* come to the value end a group.
ValueGroups(sheet, rows, value) ==
  LET candidates == {i \in rows : Amount(sheet, i) <= value + Tolerance}
  IN  {group \in SUBSET candidates :
         /\ candidates # {}
         /\ Near(ValueOf(sheet, group), value)
         /\ \A i \in group :
              ~Near(ValueOf(sheet, {j \in group : j < i}), value)}

UnitsOf(sheet, group) ==
  {u \in Units : \E i \in group : LET e == Erp[sheet[i].file] IN
                                    e.unit = u /\ e.quantity > 0}

QuantityOf(sheet, group, u) ==
  MapThenSumSet(LAMBDA i : Erp[sheet[i].file].quantity,
                {i \in group : Erp[sheet[i].file].unit = u})

\* Equal in every unit, or so far above it that it is another amendment's.
QuantitiesAgree(sheet, group, doc) ==
  /\ UnitsOf(sheet, group) # {}
  /\ \A u \in UnitsOf(sheet, group) :
       LET excess == doc.quantity[u] - QuantityOf(sheet, group, u)
       IN  excess = 0 \/ excess >= Threshold

\* Of two groups the one with the earlier rows comes first; no group the
\* search collects is the beginning of another one.
Precedes(a, b) == Min((a \ b) \cup (b \ a)) \in a

FirstGroup(groups) ==
  CHOOSE g \in groups : \A h \in groups \ {g} : Precedes(g, h)

\* What the UD & IP cell of a row shows.
ShowsDocument(row, doc) == row.shared = {doc.number} /\ row.date = doc.date

\* Fault: what is recorded is not looked up.
AllocationForgetful(sheet, lc, doc, excluded) ==
  LET free == {g \in ValueGroups(sheet, {i \in FamilyRows(sheet, lc) :
                                  sheet[i].shared = {} /\ i \notin excluded}, doc.value) :
                 QuantitiesAgree(sheet, g, doc)}
  IN  IF free = {} THEN [decision |-> "hard_block", rows |-> {}]
      ELSE [decision |-> "selected", rows |-> FirstGroup(free)]

\* Number, date, LC/SC, value and quantity were extracted.
RequiredFieldsPresent(doc) == doc.complete

\* The evidence the search needs, of the LC/SC the register knows.
Allocatable(doc) == RequiredFieldsPresent(doc) /\ doc.lcDateMatches

Agreeing(sheet, rows, doc) ==
  {g \in ValueGroups(sheet, rows, doc.value) : QuantitiesAgree(sheet, g, doc)}

\* What is recorded goes before what is free.
Chosen(recorded, free) ==
  IF recorded # {} THEN [decision |-> "already_recorded", rows |-> FirstGroup(recorded)]
  ELSE IF free # {} THEN [decision |-> "selected", rows |-> FirstGroup(free)]
  ELSE [decision |-> "hard_block", rows |-> {}]

\* The decision on a UD document and the rows it is about.
Allocation(sheet, lc, doc, excluded) ==
  LET family == FamilyRows(sheet, lc)
  IN  IF ~Allocatable(doc) THEN [decision |-> "hard_block", rows |-> {}]
      ELSE Chosen(Agreeing(sheet, {i \in family : ShowsDocument(sheet[i], doc)}, doc),
                  Agreeing(sheet, {i \in family : sheet[i].shared = {} /\ i \notin excluded},
                           doc))

\* The three target cells of a row must be blank.
TargetsFree(row) == row.shared = {} /\ row.date = NoDate /\ ~row.recv

\* IP and EXP documents of one mail are written together.
FamilyShows(sheet, rows, shared, date) ==
  \A i \in rows : sheet[i].shared = shared /\ sheet[i].date = date
=============================================================================
