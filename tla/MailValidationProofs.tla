------------------------- MODULE MailValidationProofs -------------------------
(***************************************************************************)
(* Proofs about runs of export_lc_sc and ud_ip_exp: what is staged for a   *)
(* mail fits the snapshot it is staged on, so that the snapshot stays the  *)
(* workbook as the whole plan will leave it, and what is written and moved *)
(* keeps the ledger of export files and documents, whatever dies or fails  *)
(* and whatever others do to the workbook between two runs.  What a run    *)
(* leaves makes up the documents it names, and the operator's sheet names  *)
(* the rows that hold what each PDF brought.                               *)
(***************************************************************************)
EXTENDS MailValidationProps, Induction, SequenceTheorems
-----------------------------------------------------------------------------
(* Least and greatest numbers. *)

\* A bounded set of numbers has a greatest element.
LEMMA GreatestNumber ==
  ASSUME NEW b \in Nat, NEW S \in SUBSET (0..b), S # {}
  PROVE  Max(S) \in S /\ \A y \in S : y <= Max(S)
<1> DEFINE T == {k \in 0..b : b - k \in S}
<1>1. T \in SUBSET Nat /\ T # {}
  <2>1. PICK x \in S : TRUE
    OBVIOUS
  <2>2. b - x \in 0..b /\ b - (b - x) = x
    OBVIOUS
  <2>3. b - x \in T
    BY <2>1, <2>2
  <2> QED
    BY <2>3
<1>2. PICK k \in T : \A n \in T : k <= n
  BY <1>1, LeastNumber
<1>3. ASSUME NEW y \in S PROVE y <= b - k
  <2>1. b - y \in T
    <3>1. b - y \in 0..b /\ b - (b - y) = y
      OBVIOUS
    <3> QED
      BY <3>1
  <2> QED
    BY <1>2, <2>1
<1>4. \E x \in S : \A y \in S : x >= y
  BY <1>2, <1>3
<1>5. Max(S) \in S /\ \A y \in S : Max(S) >= y
  BY <1>4 DEF Max
<1> QED
  BY <1>5

\* A set of natural numbers has a least element.
LEMMA SmallestNumber ==
  ASSUME NEW S \in SUBSET Nat, S # {}
  PROVE  Min(S) \in S /\ \A y \in S : Min(S) <= y
<1>1. \E x \in S : \A y \in S : x =< y
  BY LeastNumber
<1> QED
  BY <1>1 DEF Min
-----------------------------------------------------------------------------
(* Writing operations into a sheet. *)

\* Operations on the first b rows.
OpsUpTo(b) ==
  [mail : Mails, row : 1..b, file : (DOMAIN Erp) \cup {NoFile}, shared : SUBSET Numbers,
   date : Nat]

\* The last row that a sheet has once the operations are written.
LastRow(rows, ops) == Max({Len(rows)} \cup {op.row : op \in ops})

\* The operations on a row.
OpsAt(ops, i) == {op \in ops : op.row = i}

\* The operation that counts.
OneOp(ops) == CHOOSE op \in ops : TRUE

\* A row once the operations are written.
RowAfter(rows, ops, i) ==
  IF OpsAt(ops, i) = {} THEN RowAt(rows, i)
  ELSE Written(RowAt(rows, i), OneOp(OpsAt(ops, i)))

\* What is written, row by row.
LEMMA AppliedRows ==
  ASSUME NEW rows, NEW ops
  PROVE  Applied(rows, ops) = [i \in 1..LastRow(rows, ops) |-> RowAfter(rows, ops, i)]
BY DEF Applied, LastRow, RowAfter, OpsAt, OneOp

\* The last row is that of the sheet or of an operation.
LEMMA LastRowIs ==
  ASSUME NEW rows \in Seq(Rows), NEW b \in Nat, NEW ops, \A op \in ops : op.row \in 1..b
  PROVE  /\ LastRow(rows, ops) \in Nat
         /\ Len(rows) <= LastRow(rows, ops)
         /\ \A op \in ops : op.row <= LastRow(rows, ops)
         /\ LastRow(rows, ops) = Len(rows) \/ \E op \in ops : op.row = LastRow(rows, ops)
<1> DEFINE S == {Len(rows)} \cup {op.row : op \in ops}
           c == b + Len(rows)
<1>1. Len(rows) \in Nat
  OBVIOUS
<1>2. c \in Nat /\ S \in SUBSET (0..c) /\ S # {}
  BY <1>1
<1>3. Max(S) \in S /\ \A y \in S : y <= Max(S)
  BY <1>2, GreatestNumber
<1>4. LastRow(rows, ops) = Max(S)
  BY DEF LastRow
<1>5. Len(rows) \in S /\ \A op \in ops : op.row \in S
  OBVIOUS
<1>6. Max(S) \in Nat
  BY <1>2, <1>3
<1> QED
  BY <1>3, <1>4, <1>5, <1>6

\* A blank row is a row.
LEMMA BlankRowType == BlankRow \in Rows
<1>1. {} \in SUBSET Numbers /\ NoDate \in Nat /\ FALSE \in BOOLEAN
  BY DEF NoDate
<1> QED
  BY <1>1 DEF BlankRow, Rows

\* Every place of a sheet reads as a row.
LEMMA RowAtType ==
  ASSUME NEW rows \in Seq(Rows), NEW i
  PROVE  RowAt(rows, i) \in Rows
BY BlankRowType DEF RowAt

\* Writing keeps a row a row.
LEMMA WrittenType ==
  ASSUME NEW row \in Rows, NEW b \in Nat, NEW op \in OpsUpTo(b)
  PROVE  /\ Written(row, op) \in Rows
         /\ IsAppend(op) => /\ Written(row, op).file = op.file /\ Written(row, op).buyer
                            /\ Written(row, op).shared = row.shared
                            /\ Written(row, op).date = row.date
         /\ ~IsAppend(op) => /\ Written(row, op).file = row.file
                             /\ Written(row, op).buyer = row.buyer
                             /\ Written(row, op).shared = op.shared
                             /\ Written(row, op).date = op.date
<1>1. op.file \in (DOMAIN Erp) \cup {NoFile} /\ op.shared \in SUBSET Numbers /\ op.date \in Nat
  BY DEF OpsUpTo
<1>2. CASE IsAppend(op)
  <2>1. Written(row, op) = [row EXCEPT !.file = op.file, !.buyer = TRUE]
    BY <1>2 DEF Written
  <2>2. [row EXCEPT !.file = op.file, !.buyer = TRUE] \in Rows
    BY <1>1 DEF Rows
  <2> QED
    BY <1>2, <2>1, <2>2 DEF Rows
<1>3. CASE ~IsAppend(op)
  <2>1. Written(row, op) = [row EXCEPT !.shared = op.shared, !.date = op.date, !.recv = TRUE]
    BY <1>3 DEF Written
  <2>2. [row EXCEPT !.shared = op.shared, !.date = op.date, !.recv = TRUE] \in Rows
    BY <1>1 DEF Rows
  <2> QED
    BY <1>3, <2>1, <2>2 DEF Rows
<1> QED
  BY <1>2, <1>3

\* Writing twice is writing once.
LEMMA WrittenTwice ==
  ASSUME NEW row \in Rows, NEW op
  PROVE  Written(Written(row, op), op) = Written(row, op)
BY DEF Written, Rows

\* A written row is a row: blank or old if no operation is on it.
LEMMA RowAfterType ==
  ASSUME NEW rows \in Seq(Rows), NEW b \in Nat, NEW ops \in SUBSET OpsUpTo(b), NEW i
  PROVE  RowAfter(rows, ops, i) \in Rows
<1>1. RowAt(rows, i) \in Rows
  BY RowAtType
<1>2. CASE OpsAt(ops, i) = {}
  BY <1>1, <1>2 DEF RowAfter
<1>3. CASE OpsAt(ops, i) # {}
  <2> DEFINE op == OneOp(OpsAt(ops, i))
  <2>1. op \in OpsAt(ops, i)
    BY <1>3 DEF OneOp
  <2>2. op \in OpsUpTo(b)
    BY <2>1 DEF OpsAt
  <2>3. RowAfter(rows, ops, i) = Written(RowAt(rows, i), op)
    BY <1>3 DEF RowAfter
  <2> HIDE DEF op
  <2> QED
    BY <1>1, <2>2, <2>3, WrittenType
<1> QED
  BY <1>2, <1>3

\* The written sheet is a sheet.
LEMMA AppliedType ==
  ASSUME NEW rows \in Seq(Rows), NEW b \in Nat, NEW ops \in SUBSET OpsUpTo(b)
  PROVE  /\ Applied(rows, ops) \in Seq(Rows)
         /\ Len(Applied(rows, ops)) = LastRow(rows, ops)
         /\ DOMAIN Applied(rows, ops) = 1..LastRow(rows, ops)
         /\ \A i \in 1..LastRow(rows, ops) : Applied(rows, ops)[i] = RowAfter(rows, ops, i)
         /\ LastRow(rows, ops) \in Nat
<1> DEFINE n == LastRow(rows, ops)
           s == Applied(rows, ops)
<1>1. n \in Nat
  <2>1. \A op \in ops : op.row \in 1..b
    BY DEF OpsUpTo
  <2> QED
    BY <2>1, LastRowIs
<1>2. s = [i \in 1..n |-> RowAfter(rows, ops, i)]
  BY AppliedRows
<1>3. \A i \in 1..n : RowAfter(rows, ops, i) \in Rows
  BY RowAfterType
<1> HIDE DEF n, s
<1>4. s \in [1..n -> Rows]
  BY <1>2, <1>3
<1>5. s \in Seq(Rows) /\ Len(s) = n
  BY <1>1, <1>4, SeqDef
<1> QED
  BY <1>1, <1>2, <1>5 DEF n, s

\* Without an operation nothing changes.
LEMMA NothingApplied ==
  ASSUME NEW rows \in Seq(Rows)
  PROVE  Applied(rows, {}) = rows
<1> DEFINE n == LastRow(rows, {})
<1>1. n = Len(rows)
  BY LastRowIs, 0 \in Nat
<1>2. Applied(rows, {}) = [i \in 1..n |-> RowAfter(rows, {}, i)]
  BY AppliedRows
<1>3. ASSUME NEW i \in 1..Len(rows) PROVE RowAfter(rows, {}, i) = rows[i]
  BY DEF RowAfter, OpsAt, RowAt
<1> HIDE DEF n
<1> QED
  BY <1>1, <1>2, <1>3

\* Writing in two batches on different rows is writing all at once.
LEMMA AppliedInTurn ==
  ASSUME NEW rows \in Seq(Rows), NEW b \in Nat,
         NEW P \in SUBSET OpsUpTo(b), NEW O \in SUBSET OpsUpTo(b),
         \A p \in P, o \in O : p.row # o.row
  PROVE  Applied(Applied(rows, P), O) = Applied(rows, P \cup O)
<1> DEFINE s == Applied(rows, P)
           all == P \cup O
           k == LastRow(rows, P)
           n == LastRow(s, O)
           l == LastRow(rows, all)
<1>1. all \in SUBSET OpsUpTo(b) /\ P \subseteq all /\ O \subseteq all
  OBVIOUS
<1>2. \A op \in OpsUpTo(b) : op.row \in 1..b
  BY DEF OpsUpTo
<1>3. /\ s \in Seq(Rows) /\ Len(s) = k /\ DOMAIN s = 1..k /\ k \in Nat
      /\ \A i \in 1..k : s[i] = RowAfter(rows, P, i)
  BY AppliedType
<1>4. /\ Len(rows) <= k /\ \A op \in P : op.row <= k
      /\ k = Len(rows) \/ \E op \in P : op.row = k
  <2>1. \A op \in P : op.row \in 1..b
    BY <1>2
  <2> QED
    BY <2>1, LastRowIs
<1>5. /\ l \in Nat /\ Len(rows) <= l /\ \A op \in all : op.row <= l
      /\ l = Len(rows) \/ \E op \in all : op.row = l
  <2>1. \A op \in all : op.row \in 1..b
    BY <1>1, <1>2
  <2> HIDE DEF all
  <2> QED
    BY <2>1, LastRowIs
<1> HIDE DEF s, k
<1>6. /\ n \in Nat /\ k <= n /\ \A op \in O : op.row <= n
      /\ n = k \/ \E op \in O : op.row = n
  <2>1. \A op \in O : op.row \in 1..b
    BY <1>2
  <2> QED
    BY <1>3, <2>1, LastRowIs
<1>7. \A op \in all : op.row \in Nat
  BY <1>1, <1>2
<1> HIDE DEF n, l
<1>8. n = l
  <2>1. Len(rows) \in Nat
    OBVIOUS
  <2>2. n <= l
    BY <1>1, <1>3, <1>4, <1>5, <1>6, <2>1
  <2>3. l <= n
    BY <1>1, <1>3, <1>4, <1>5, <1>6, <1>7, <2>1
  <2> QED
    BY <1>5, <1>6, <2>2, <2>3
<1>9. ASSUME NEW i \in 1..n PROVE RowAfter(s, O, i) = RowAfter(rows, all, i)
  <2>1. RowAt(s, i) = RowAfter(rows, P, i)
    <3>1. CASE i \in 1..k
      BY <1>3, <3>1 DEF RowAt
    <3>2. CASE i \notin 1..k
      <4>1. OpsAt(P, i) = {}
        <5>1. \A op \in P : op.row \in 1..k
          BY <1>2, <1>3, <1>4
        <5> QED
          BY <3>2, <5>1 DEF OpsAt
      <4>2. i \notin DOMAIN rows
        BY <1>3, <1>4, <3>2
      <4> QED
        BY <1>3, <3>2, <4>1, <4>2 DEF RowAt, RowAfter
    <3> QED
      BY <3>1, <3>2
  <2>2. CASE OpsAt(O, i) = {}
    <3>1. OpsAt(all, i) = OpsAt(P, i)
      BY <2>2 DEF OpsAt
    <3> QED
      BY <2>1, <2>2, <3>1 DEF RowAfter
  <2>3. CASE OpsAt(O, i) # {}
    <3>1. OpsAt(P, i) = {}
      BY <2>3 DEF OpsAt
    <3>2. OpsAt(all, i) = OpsAt(O, i)
      BY <3>1 DEF OpsAt
    <3>3. RowAt(s, i) = RowAt(rows, i)
      BY <2>1, <3>1 DEF RowAfter
    <3> QED
      BY <2>3, <3>2, <3>3 DEF RowAfter
  <2> QED
    BY <2>2, <2>3
<1>10. Applied(s, O) = [i \in 1..n |-> RowAfter(s, O, i)]
  BY AppliedRows DEF n
<1>11. Applied(rows, all) = [i \in 1..l |-> RowAfter(rows, all, i)]
  BY AppliedRows DEF l
<1>12. Applied(s, O) = Applied(rows, all)
  BY <1>8, <1>9, <1>10, <1>11
<1> QED
  BY <1>12 DEF s, all

\* Writing a batch again changes nothing.
LEMMA AppliedAgain ==
  ASSUME NEW rows \in Seq(Rows), NEW b \in Nat, NEW ops \in SUBSET OpsUpTo(b)
  PROVE  Applied(Applied(rows, ops), ops) = Applied(rows, ops)
<1> DEFINE s == Applied(rows, ops)
           k == LastRow(rows, ops)
           n == LastRow(s, ops)
<1>1. \A op \in ops : op.row \in 1..b
  BY DEF OpsUpTo
<1>2. /\ s \in Seq(Rows) /\ Len(s) = k /\ DOMAIN s = 1..k /\ k \in Nat
      /\ \A i \in 1..k : s[i] = RowAfter(rows, ops, i)
  BY AppliedType
<1>3. \A op \in ops : op.row <= k
  BY <1>1, LastRowIs
<1> HIDE DEF s, k
<1>4. n = k
  <2>1. /\ n \in Nat /\ Len(s) <= n /\ (n = Len(s) \/ \E op \in ops : op.row = n)
    BY <1>1, <1>2, LastRowIs
  <2> QED
    BY <1>2, <1>3, <2>1
<1>5. ASSUME NEW i \in 1..k PROVE RowAfter(s, ops, i) = s[i]
  <2>1. RowAt(s, i) = s[i] /\ s[i] = RowAfter(rows, ops, i)
    BY <1>2 DEF RowAt
  <2>2. CASE OpsAt(ops, i) = {}
    BY <2>1, <2>2 DEF RowAfter
  <2>3. CASE OpsAt(ops, i) # {}
    <3>1. RowAt(rows, i) \in Rows
      BY RowAtType
    <3> DEFINE op == OneOp(OpsAt(ops, i))
    <3>2. s[i] = Written(RowAt(rows, i), op) /\ RowAfter(s, ops, i) = Written(s[i], op)
      BY <2>1, <2>3 DEF RowAfter
    <3> HIDE DEF op
    <3> QED
      BY <3>1, <3>2, WrittenTwice
  <2> QED
    BY <2>2, <2>3
<1>6. Applied(s, ops) = [i \in 1..n |-> RowAfter(s, ops, i)]
  BY AppliedRows DEF n
<1>7. s = [i \in 1..k |-> s[i]]
  BY <1>2
<1> HIDE DEF n
<1>8. Applied(s, ops) = s
  BY <1>4, <1>5, <1>6, <1>7
<1> QED
  BY <1>8 DEF s

\* A row after the writes keeps what no operation on it changes.
LEMMA RowAfterIs ==
  ASSUME NEW rows \in Seq(Rows), NEW b \in Nat, NEW ops \in SUBSET OpsUpTo(b), NEW i
  PROVE  /\ OpsAt(ops, i) = {} => RowAfter(rows, ops, i) = RowAt(rows, i)
         /\ OpsAt(ops, i) # {} =>
              \E op \in ops : op.row = i /\ RowAfter(rows, ops, i) = Written(RowAt(rows, i), op)
<1> DEFINE op == OneOp(OpsAt(ops, i))
<1>1. OpsAt(ops, i) # {} => op \in OpsAt(ops, i)
  BY DEF OneOp
<1>2. OpsAt(ops, i) # {} => op \in ops /\ op.row = i
  BY <1>1 DEF OpsAt
<1>3. OpsAt(ops, i) # {} => RowAfter(rows, ops, i) = Written(RowAt(rows, i), op)
  BY DEF RowAfter
<1> HIDE DEF op
<1> QED
  BY <1>2, <1>3 DEF RowAfter

\* Used rows up to n are no more than the register has files.
LEMMA UsedRowsFit ==
  ASSUME NEW rows \in Seq(Rows), Tidy(rows), NEW n \in 0..Len(rows),
         \A i \in 1..n : rows[i].buyer
  PROVE  n <= MaxRows
<1> DEFINE f == [i \in 1..n |-> rows[i].file]
<1>1. \A i \in 1..n : i \in DOMAIN rows /\ rows[i] \in Rows
  OBVIOUS
<1>2. \A i \in 1..n : rows[i].file # NoFile
  BY <1>1 DEF Tidy
<1>3. \A i \in 1..n : rows[i].file \in DOMAIN Erp
  BY <1>1, <1>2 DEF Rows
<1>4. \A i, j \in 1..n : rows[i].file = rows[j].file => i = j
  BY <1>1, <1>2 DEF Tidy
<1>5. f \in Injection(1..n, DOMAIN Erp)
  BY <1>3, <1>4 DEF Injection, IsInjective
<1> HIDE DEF f
<1>6. IsFiniteSet(DOMAIN Erp) /\ Cardinality(DOMAIN Erp) <= MaxRows /\ MaxRows \in Nat
  BY RegisterAssumption, SheetAssumption, BoundAssumption
<1>7. Cardinality(1..n) <= Cardinality(DOMAIN Erp)
  BY <1>5, <1>6, FS_Injection
<1>8. n \in Nat /\ Cardinality(1..n) = n
  <2>1. 1 \in Int /\ n \in Int
    OBVIOUS
  <2>2. Cardinality(1..n) = IF 1 > n THEN 0 ELSE n - 1 + 1
    BY <2>1, FS_Interval
  <2> QED
    BY <2>2
<1>9. Cardinality(DOMAIN Erp) \in Nat
  BY <1>6, FS_CardinalityType
<1> QED
  BY <1>6, <1>7, <1>8, <1>9

\* Appending files that a sheet does not hold, each once, keeps it tidy.
LEMMA AppendsKeepTidy ==
  ASSUME NEW rows \in Seq(Rows), Tidy(rows), NEW b \in Nat, NEW ops \in SUBSET OpsUpTo(b),
         \A op \in ops : IsAppend(op) /\ op.file \notin FilesIn(rows),
         \A o, p \in ops : o.file = p.file => o.row = p.row
  PROVE  Tidy(Applied(rows, ops))
<1> DEFINE s == Applied(rows, ops)
           k == LastRow(rows, ops)
<1>1. /\ s \in Seq(Rows) /\ DOMAIN s = 1..k
      /\ \A i \in 1..k : s[i] = RowAfter(rows, ops, i)
  BY AppliedType
<1> HIDE DEF s, k
<1>2. ASSUME NEW i \in 1..k
      PROVE  \/ /\ s[i] = RowAt(rows, i)
                /\ OpsAt(ops, i) = {}
             \/ \E op \in ops : op.row = i /\ s[i].file = op.file /\ s[i].file # NoFile
  <2>1. CASE OpsAt(ops, i) = {}
    BY <1>1, <2>1, RowAfterIs
  <2>2. CASE OpsAt(ops, i) # {}
    <3>1. PICK op \in ops : op.row = i /\ RowAfter(rows, ops, i) = Written(RowAt(rows, i), op)
      BY <2>2, RowAfterIs
    <3>2. RowAt(rows, i) \in Rows
      BY RowAtType
    <3>3. op \in OpsUpTo(b) /\ IsAppend(op)
      OBVIOUS
    <3>4. s[i].file = op.file
      BY <1>1, <3>1, <3>2, <3>3, WrittenType
    <3>5. op.file # NoFile
      BY <3>3 DEF IsAppend
    <3> QED
      BY <3>1, <3>4, <3>5
  <2> QED
    BY <2>1, <2>2
<1>3. ASSUME NEW i, RowAt(rows, i).file # NoFile
      PROVE  /\ i \in DOMAIN rows /\ RowAt(rows, i) = rows[i] /\ rows[i].file \in FilesIn(rows)
             /\ rows[i].file # NoFile
  <2>1. i \in DOMAIN rows
    BY <1>3 DEF RowAt, BlankRow
  <2> QED
    BY <1>3, <2>1 DEF RowAt, FilesIn
<1>4. ASSUME NEW i \in 1..k, NEW j \in 1..k, s[i].file = s[j].file, s[i].file # NoFile
      PROVE  i = j
  <2>1. CASE s[i] = RowAt(rows, i) /\ s[j] = RowAt(rows, j)
    <3>1. /\ i \in DOMAIN rows /\ rows[i].file = s[i].file
          /\ j \in DOMAIN rows /\ rows[j].file = s[j].file
      BY <1>3, <1>4, <2>1
    <3> QED
      BY <1>4, <3>1 DEF Tidy
  <2>2. ASSUME NEW op \in ops, op.row = i, s[i].file = op.file, s[j] = RowAt(rows, j)
        PROVE  FALSE
    <3>1. rows[j].file \in FilesIn(rows) /\ rows[j].file = op.file
      BY <1>3, <1>4, <2>2
    <3> QED
      BY <3>1
  <2>3. ASSUME NEW op \in ops, op.row = j, s[j].file = op.file, s[i] = RowAt(rows, i)
        PROVE  FALSE
    <3>1. rows[i].file \in FilesIn(rows) /\ rows[i].file = op.file
      BY <1>3, <1>4, <2>3
    <3> QED
      BY <3>1
  <2>4. ASSUME NEW o \in ops, NEW p \in ops, o.row = i, p.row = j,
               s[i].file = o.file, s[j].file = p.file
        PROVE  i = j
    BY <1>4, <2>4
  <2> QED
    BY <1>2, <2>1, <2>2, <2>3, <2>4
<1>5. ASSUME NEW i \in 1..k, s[i].buyer PROVE s[i].file # NoFile
  <2>1. CASE s[i] = RowAt(rows, i)
    <3>1. i \in DOMAIN rows
      BY <1>5, <2>1 DEF RowAt, BlankRow
    <3> QED
      BY <1>5, <2>1, <3>1 DEF RowAt, Tidy
  <2> QED
    BY <1>2, <2>1
<1>6. Tidy(s)
  BY <1>1, <1>4, <1>5 DEF Tidy
<1> QED
  BY <1>6 DEF s

\* Assigning documents to rows of a sheet changes neither its length nor the
\* files and keeps it tidy.
LEMMA AssignsKeepFiles ==
  ASSUME NEW rows \in Seq(Rows), NEW b \in Nat, NEW ops \in SUBSET OpsUpTo(b),
         \A op \in ops : ~IsAppend(op) /\ op.row \in DOMAIN rows
  PROVE  /\ Applied(rows, ops) \in Seq(Rows) /\ Len(Applied(rows, ops)) = Len(rows)
         /\ DOMAIN Applied(rows, ops) = DOMAIN rows
         /\ \A i \in DOMAIN rows :
              /\ Applied(rows, ops)[i].file = rows[i].file
              /\ Applied(rows, ops)[i].buyer = rows[i].buyer
         /\ Tidy(rows) => Tidy(Applied(rows, ops))
<1> DEFINE s == Applied(rows, ops)
           k == LastRow(rows, ops)
<1>1. /\ s \in Seq(Rows) /\ DOMAIN s = 1..k /\ k \in Nat /\ Len(s) = k
      /\ \A i \in 1..k : s[i] = RowAfter(rows, ops, i)
  BY AppliedType
<1>2. k = Len(rows)
  <2>1. \A op \in ops : op.row \in 1..b
    BY DEF OpsUpTo
  <2>2. k >= Len(rows) /\ (k = Len(rows) \/ \E op \in ops : op.row = k)
    BY <2>1, LastRowIs
  <2>3. \A op \in ops : op.row \in 1..Len(rows)
    OBVIOUS
  <2> QED
    BY <1>1, <2>2, <2>3
<1> HIDE DEF s, k
<1>3. DOMAIN s = DOMAIN rows
  BY <1>1, <1>2
<1>4. ASSUME NEW i \in DOMAIN rows
      PROVE  s[i].file = rows[i].file /\ s[i].buyer = rows[i].buyer
  <2>1. s[i] = RowAfter(rows, ops, i) /\ RowAt(rows, i) = rows[i] /\ rows[i] \in Rows
    BY <1>1, <1>3 DEF RowAt
  <2>2. CASE OpsAt(ops, i) = {}
    BY <2>1, <2>2, RowAfterIs
  <2>3. CASE OpsAt(ops, i) # {}
    <3>1. PICK op \in ops : op.row = i /\ RowAfter(rows, ops, i) = Written(RowAt(rows, i), op)
      BY <2>3, RowAfterIs
    <3>2. op \in OpsUpTo(b) /\ ~IsAppend(op)
      OBVIOUS
    <3> QED
      BY <2>1, <3>1, <3>2, WrittenType
  <2> QED
    BY <2>2, <2>3
<1>5. Tidy(rows) => Tidy(s)
  BY <1>3, <1>4 DEF Tidy
<1>6. Len(s) = Len(rows)
  BY <1>1, <1>2
<1> QED
  BY <1>1, <1>3, <1>4, <1>5, <1>6 DEF s

-----------------------------------------------------------------------------
(* Appends: the rows that export_lc_sc stages for the files of a mail.     *)

\* The rows before the next row are used, and it is no further than the row
\* after the last.
LEMMA NextExportRowIs ==
  ASSUME NEW rows \in Seq(Rows)
  PROVE  /\ NextExportRow(rows) \in 1..(Len(rows) + 1)
         /\ \A i \in 1..(NextExportRow(rows) - 1) : i \in DOMAIN rows /\ rows[i].buyer
<1> DEFINE open == {i \in DOMAIN rows : ~rows[i].buyer}
<1>1. Len(rows) \in Nat /\ DOMAIN rows = 1..Len(rows)
  OBVIOUS
<1>2. CASE open = {}
  <2>1. NextExportRow(rows) = Len(rows) + 1
    BY <1>2 DEF NextExportRow
  <2> QED
    BY <1>1, <1>2, <2>1
<1>3. CASE open # {}
  <2>1. NextExportRow(rows) = Min(open)
    BY <1>3 DEF NextExportRow
  <2>2. open \in SUBSET Nat
    BY <1>1
  <2>3. Min(open) \in open /\ \A y \in open : Min(open) <= y
    <3> HIDE DEF open
    <3> QED
      BY <1>3, <2>2, SmallestNumber
  <2>4. ASSUME NEW i \in 1..(Min(open) - 1) PROVE i \notin open /\ i \in DOMAIN rows
    <3>1. Min(open) \in 1..Len(rows)
      BY <1>1, <2>3
    <3> DEFINE first == Min(open)
    <3>2. first \in 1..Len(rows) /\ i \in 1..(first - 1) /\ \A y \in open : first <= y
      BY <2>3, <3>1
    <3> HIDE DEF first, open
    <3>3. i \in 1..Len(rows) /\ ~(first <= i)
      BY <1>1, <3>2
    <3> QED
      BY <1>1, <3>2, <3>3
  <2> QED
    BY <1>1, <2>1, <2>3, <2>4
<1> QED
  BY <1>2, <1>3

\* The numbers are ordered by their size.
LEMMA LessOrders ==
  ASSUME NEW S \in SUBSET Nat
  PROVE  StrictlyOrders(Less, S)
BY DEF StrictlyOrders, Less

\* The files of a mail that pass the rules are in the register, each once.
LEMMA BodyFiles ==
  ASSUME NEW m \in Mails, FamilyRulesPass(m)
  PROVE  /\ Len(Body(m)) \in Nat /\ DOMAIN Body(m) = 1..Len(Body(m))
         /\ \A k \in DOMAIN Body(m) : /\ Body(m)[k] \in DOMAIN Erp /\ Body(m)[k] # NoFile
         /\ \A j, k \in DOMAIN Body(m) : Body(m)[j] = Body(m)[k] => j = k
<1>1. Body(m) \in Seq(Files) /\ IsInjective(Body(m))
  BY MailAssumption DEF Body
<1>2. Known(m) = ToSet(Body(m))
  BY DEF FamilyRulesPass
<1>3. \A k \in DOMAIN Body(m) : Body(m)[k] \in ToSet(Body(m))
  BY DEF ToSet
<1>4. \A k \in DOMAIN Body(m) : Body(m)[k] \in DOMAIN Erp
  BY <1>2, <1>3 DEF Known
<1>5. \A k \in DOMAIN Body(m) : Body(m)[k] # NoFile
  BY <1>4, RegisterAssumption
<1>6. Len(Body(m)) \in Nat /\ DOMAIN Body(m) = 1..Len(Body(m))
  BY <1>1
<1>7. \A j, k \in DOMAIN Body(m) : Body(m)[j] = Body(m)[k] => j = k
  BY <1>1 DEF IsInjective
<1> QED
  BY <1>4, <1>5, <1>6, <1>7

\* An append is an operation of its mail, row and file.
LEMMA AppendOpType ==
  ASSUME NEW m \in Mails, NEW b \in Nat, NEW i \in 1..b, NEW f \in DOMAIN Erp, f # NoFile
  PROVE  /\ AppendOp(m, i, f) \in OpsUpTo(b) /\ IsAppend(AppendOp(m, i, f))
         /\ AppendOp(m, i, f).row = i /\ AppendOp(m, i, f).file = f
         /\ AppendOp(m, i, f).mail = m
<1>1. {} \in SUBSET Numbers /\ NoDate \in Nat
  BY DEF NoDate
<1> QED
  BY <1>1 DEF AppendOp, OpsUpTo, IsAppend

\* The new and complete files of a mail, by their place in its body.
StagedFiles(m, rows) ==
  {k \in DOMAIN Body(m) : Body(m)[k] \notin FilesIn(rows) /\ Erp[Body(m)[k]].complete}

\* The row for one of them.
TargetOf(m, rows, k) ==
  NextExportRow(rows) + Cardinality(Below(k, StagedFiles(m, rows), Less))

\* The appends of a mail by file.
LEMMA ExportOps ==
  ASSUME NEW m \in Mails, NEW rows, FamilyRulesPass(m)
  PROVE  ExportStaging(m, rows).ops =
           {AppendOp(m, TargetOf(m, rows, k), Body(m)[k]) : k \in StagedFiles(m, rows)}
<1> DEFINE new == {k \in DOMAIN Body(m) : Body(m)[k] \notin FilesIn(rows)}
           staged == {k \in new : Erp[Body(m)[k]].complete}
           Target(k) == NextExportRow(rows) + Cardinality({j \in staged : j < k})
<1>1. ExportStaging(m, rows).ops = {AppendOp(m, Target(k), Body(m)[k]) : k \in staged}
  BY DEF ExportStaging
<1>2. staged = StagedFiles(m, rows)
  BY DEF StagedFiles
<1>3. staged \subseteq Nat
  BY BodyFiles
<1>4. ASSUME NEW k \in staged PROVE Target(k) = TargetOf(m, rows, k)
  <2>1. {j \in staged : j < k} = Below(k, staged, Less)
    BY <1>3 DEF Below, Less
  <2> QED
    BY <1>2, <2>1 DEF TargetOf
<1> HIDE DEF staged, Target
<1> QED
  BY <1>1, <1>2, <1>4

\* The rows for the files follow each other from the next row.
LEMMA TargetsFollow ==
  ASSUME NEW m \in Mails, NEW rows \in Seq(Rows), FamilyRulesPass(m)
  PROVE  LET n == Cardinality(StagedFiles(m, rows))
             first == NextExportRow(rows)
         IN  /\ n \in Nat /\ first \in Nat
             /\ \A k \in StagedFiles(m, rows) :
                  TargetOf(m, rows, k) \in first..(first + n - 1)
             /\ \A j, k \in StagedFiles(m, rows) :
                  TargetOf(m, rows, j) = TargetOf(m, rows, k) => j = k
             /\ \A i \in first..(first + n - 1) :
                  \E k \in StagedFiles(m, rows) : TargetOf(m, rows, k) = i
<1> DEFINE S == StagedFiles(m, rows)
           n == Cardinality(S)
           first == NextExportRow(rows)
           Place(k) == Cardinality(Below(k, S, Less))
<1>1. S \in SUBSET (1..Len(Body(m))) /\ S \in SUBSET Nat
  BY BodyFiles DEF StagedFiles
<1>2. IsFiniteSet(S)
  <2>1. Len(Body(m)) \in Int /\ 1 \in Int
    BY BodyFiles
  <2>2. IsFiniteSet(1..Len(Body(m)))
    BY <2>1, FS_Interval
  <2> QED
    BY <1>1, <2>2, FS_Subset
<1> HIDE DEF S
<1>3. StrictlyOrders(Less, S)
  BY <1>1, LessOrders
<1>4. n \in Nat
  BY <1>2, FS_CardinalityType
<1>5. first \in Nat
  BY NextExportRowIs
<1>6. /\ \A k \in S : Place(k) \in 0..(n - 1)
      /\ \A j, k \in S : Place(j) = Place(k) => j = k
  BY <1>2, <1>3, PlacesDiffer
<1>7. \A i \in 1..n : \E k \in S : Place(k) = i - 1
  BY <1>2, <1>3, PlaceTaken
<1>8. \A k \in S : TargetOf(m, rows, k) = first + Place(k)
  BY DEF TargetOf, S
<1> HIDE DEF n, first, Place
<1>9. \A k \in S : TargetOf(m, rows, k) \in first..(first + n - 1)
  BY <1>4, <1>5, <1>6, <1>8
<1>10. \A j, k \in S : TargetOf(m, rows, j) = TargetOf(m, rows, k) => j = k
  BY <1>4, <1>5, <1>6, <1>8
<1>11. ASSUME NEW i \in first..(first + n - 1) PROVE \E k \in S : TargetOf(m, rows, k) = i
  <2>1. i - first + 1 \in 1..n /\ (i - first + 1) - 1 = i - first
    BY <1>4, <1>5
  <2>2. PICK k \in S : Place(k) = i - first
    BY <1>7, <2>1
  <2>3. first + Place(k) = i
    BY <1>5, <2>2
  <2> QED
    BY <1>8, <2>3
<1> QED
  BY <1>4, <1>5, <1>9, <1>10, <1>11 DEF S, n, first

\* The operations of a plan.
Ops == OpsUpTo(MaxRows)

\* A row up to which all rows are used comes before the next row.
LEMMA UsedRowsBefore ==
  ASSUME NEW rows \in Seq(Rows), NEW p \in DOMAIN rows, \A i \in 1..p : rows[i].buyer
  PROVE  p < NextExportRow(rows)
<1> DEFINE open == {i \in DOMAIN rows : ~rows[i].buyer}
           first == NextExportRow(rows)
<1>1. DOMAIN rows = 1..Len(rows) /\ Len(rows) \in Nat
  OBVIOUS
<1>2. open = {} => first = Len(rows) + 1
  BY DEF NextExportRow
<1>3. open # {} => first = Min(open)
  BY DEF NextExportRow
<1>4. open \in SUBSET Nat
  BY <1>1
<1>5. open # {} => first \in open
  <2>1. open # {} => Min(open) \in open
    <3> HIDE DEF open
    <3> QED
      BY <1>4, SmallestNumber
  <2> QED
    BY <1>3, <2>1
<1> HIDE DEF first, open
<1>6. CASE open = {}
  <2>1. p \in 1..Len(rows)
    BY <1>1
  <2> QED
    BY <1>1, <1>2, <1>6, <2>1 DEF first
<1>7. CASE open # {}
  <2>1. first \in 1..Len(rows) /\ ~rows[first].buyer
    BY <1>1, <1>5, <1>7 DEF open
  <2>2. first \notin 1..p
    BY <2>1
  <2> QED
    BY <1>1, <2>1, <2>2 DEF first
<1> QED
  BY <1>6, <1>7

\* Each append of a mail enters a file of it that the sheet does not hold, in
\* a row from the next one on.
LEMMA ExportOpIs ==
  ASSUME NEW m \in Mails, NEW rows \in Seq(Rows), FamilyRulesPass(m),
         NEW b \in Nat, NextExportRow(rows) + Cardinality(StagedFiles(m, rows)) <= b,
         NEW op \in ExportStaging(m, rows).ops
  PROVE  /\ op \in OpsUpTo(b) /\ IsAppend(op) /\ op.mail = m
         /\ op.file \notin FilesIn(rows)
         /\ \E k \in StagedFiles(m, rows) : op.row = TargetOf(m, rows, k) /\ op.file = Body(m)[k]
         /\ op.row \in NextExportRow(rows)..(NextExportRow(rows) + Cardinality(StagedFiles(m, rows)) - 1)
<1> DEFINE first == NextExportRow(rows)
           n == Cardinality(StagedFiles(m, rows))
<1>1. PICK k \in StagedFiles(m, rows) : op = AppendOp(m, TargetOf(m, rows, k), Body(m)[k])
  BY ExportOps
<1>2. k \in DOMAIN Body(m) /\ Body(m)[k] \notin FilesIn(rows)
  BY DEF StagedFiles
<1>3. Body(m)[k] \in DOMAIN Erp /\ Body(m)[k] # NoFile
  BY <1>2, BodyFiles
<1>4. n \in Nat /\ first \in Nat /\ TargetOf(m, rows, k) \in first..(first + n - 1)
  BY TargetsFollow
<1>5. first \in 1..(Len(rows) + 1)
  BY NextExportRowIs
<1>6. first + n <= b
  OBVIOUS
<1> HIDE DEF n, first
<1>7. TargetOf(m, rows, k) \in 1..b
  BY <1>4, <1>5, <1>6
<1>8. /\ op \in OpsUpTo(b) /\ IsAppend(op) /\ op.mail = m
      /\ op.row = TargetOf(m, rows, k) /\ op.file = Body(m)[k]
  BY <1>1, <1>3, <1>7, AppendOpType
<1> QED
  BY <1>2, <1>4, <1>8 DEF n, first

\* The appends of a mail fill the sheet from its first open row without a gap:
\* the sheet stays tidy and in its bounds, and every row up to a new one is in
\* use.
LEMMA ExportStagingIs ==
  ASSUME NEW m \in Mails, NEW rows \in Seq(Rows), Len(rows) <= MaxRows, Tidy(rows),
         FamilyRulesPass(m)
  PROVE  LET ops == ExportStaging(m, rows).ops
             s == Applied(rows, ops)
         IN  /\ ops \in SUBSET Ops
             /\ \A op \in ops : /\ IsAppend(op) /\ op.mail = m
                                /\ op.row >= NextExportRow(rows)
                                /\ op.row \in DOMAIN s /\ \A i \in 1..op.row : s[i].buyer
             /\ s \in Seq(Rows) /\ Tidy(s) /\ Len(s) <= MaxRows /\ Len(rows) <= Len(s)
             /\ \A i \in DOMAIN rows : rows[i].buyer => s[i].buyer
<1> DEFINE ops == ExportStaging(m, rows).ops
           s == Applied(rows, ops)
           S == StagedFiles(m, rows)
           first == NextExportRow(rows)
           n == Cardinality(S)
           b == Len(rows) + 1 + n
           k == LastRow(rows, ops)
<1>1. n \in Nat /\ first \in 1..(Len(rows) + 1) /\ Len(rows) \in Nat /\ DOMAIN rows = 1..Len(rows)
  BY TargetsFollow, NextExportRowIs
<1>2. b \in Nat /\ first + n <= b
  BY <1>1
<1>3. ASSUME NEW op \in ops
      PROVE  /\ op \in OpsUpTo(b) /\ IsAppend(op) /\ op.mail = m
             /\ op.file \notin FilesIn(rows)
             /\ \E j \in S : op.row = TargetOf(m, rows, j) /\ op.file = Body(m)[j]
             /\ op.row \in first..(first + n - 1)
  BY <1>2, ExportOpIs
<1>4. ops \in SUBSET OpsUpTo(b)
  BY <1>3
<1>5. \A i \in first..(first + n - 1) : \E op \in ops : op.row = i
  <2>1. ASSUME NEW i \in first..(first + n - 1) PROVE \E op \in ops : op.row = i
    <3>1. PICK j \in S : TargetOf(m, rows, j) = i
      BY TargetsFollow
    <3>2. AppendOp(m, i, Body(m)[j]) \in ops
      BY <3>1, ExportOps
    <3>3. AppendOp(m, i, Body(m)[j]).row = i
      BY DEF AppendOp
    <3> QED
      BY <3>2, <3>3
  <2> QED
    BY <2>1
<1>6. \A o, p \in ops : o.file = p.file => o.row = p.row
  <2>1. ASSUME NEW o \in ops, NEW p \in ops, o.file = p.file PROVE o.row = p.row
    <3>1. PICK i \in S : o.row = TargetOf(m, rows, i) /\ o.file = Body(m)[i]
      BY <1>3
    <3>2. PICK j \in S : p.row = TargetOf(m, rows, j) /\ p.file = Body(m)[j]
      BY <1>3
    <3>3. i \in DOMAIN Body(m) /\ j \in DOMAIN Body(m)
      BY DEF StagedFiles
    <3>4. i = j
      BY <2>1, <3>1, <3>2, <3>3, BodyFiles
    <3> QED
      BY <3>1, <3>2, <3>4
  <2> QED
    BY <2>1
<1> HIDE DEF ops, n, b, S, first
<1>7. Tidy(s)
  BY <1>2, <1>3, <1>4, <1>6, AppendsKeepTidy
<1>8. /\ s \in Seq(Rows) /\ Len(s) = k /\ DOMAIN s = 1..k /\ k \in Nat
      /\ \A i \in 1..k : s[i] = RowAfter(rows, ops, i)
  BY <1>2, <1>4, AppliedType
<1>9. /\ Len(rows) <= k /\ \A op \in ops : op.row <= k
      /\ k = Len(rows) \/ \E op \in ops : op.row = k
  <2>1. \A op \in ops : op.row \in 1..b
    BY <1>4 DEF OpsUpTo
  <2> QED
    BY <1>2, <2>1, LastRowIs
<1> HIDE DEF s, k
<1>10. ASSUME NEW i \in 1..k, OpsAt(ops, i) # {} PROVE s[i].buyer
  <2>1. PICK op \in ops : op.row = i /\ RowAfter(rows, ops, i) = Written(RowAt(rows, i), op)
    BY <1>2, <1>4, <1>10, RowAfterIs
  <2>2. RowAt(rows, i) \in Rows /\ op \in OpsUpTo(b) /\ IsAppend(op)
    BY <1>3, RowAtType
  <2> QED
    BY <1>2, <1>8, <2>1, <2>2, WrittenType
<1>11. ASSUME NEW i \in DOMAIN rows, rows[i].buyer PROVE s[i].buyer
  <2>1. i \in 1..k /\ RowAt(rows, i) = rows[i]
    <3>1. i \in 1..Len(rows)
      BY <1>1
    <3>2. i \in 1..k
      <4>1. Len(rows) \in Nat /\ k \in Nat /\ Len(rows) <= k
        BY <1>1, <1>8, <1>9
      <4> QED
        BY <3>1, <4>1
    <3> QED
      BY <3>2 DEF RowAt
  <2>2. CASE OpsAt(ops, i) = {}
    BY <1>2, <1>4, <1>8, <1>11, <2>1, <2>2, RowAfterIs
  <2> QED
    BY <1>10, <2>1, <2>2
<1>12. ASSUME NEW op \in ops PROVE op.row \in 1..k /\ \A i \in 1..op.row : s[i].buyer
  <2>1. op.row \in first..(first + n - 1) /\ op.row <= k
    BY <1>3, <1>9
  <2>2. op.row \in 1..k
    BY <1>1, <1>8, <2>1
  <2>3. ASSUME NEW i \in 1..op.row PROVE s[i].buyer
    <3>1. CASE i \in 1..(first - 1)
      <4>1. i \in DOMAIN rows /\ rows[i].buyer
        BY <3>1, NextExportRowIs DEF first
      <4> QED
        BY <1>11, <4>1
    <3>2. CASE i \notin 1..(first - 1)
      <4>1. i \in first..(first + n - 1) /\ i \in 1..k
        <5> DEFINE r == op.row
        <5>1. /\ r \in first..(first + n - 1) /\ r \in 1..k /\ i \in 1..r
              /\ i \notin 1..(first - 1) /\ n \in Nat /\ first \in Nat /\ k \in Nat
          BY <1>1, <1>8, <2>1, <2>2, <3>2
        <5> HIDE DEF r
        <5> QED
          BY <5>1
      <4>2. OpsAt(ops, i) # {}
        BY <1>5, <4>1 DEF OpsAt
      <4> QED
        BY <1>10, <4>1, <4>2
    <3> QED
      BY <3>1, <3>2
  <2> QED
    BY <2>2, <2>3
<1>13. \A op \in ops : op.row <= MaxRows
  <2>1. ASSUME NEW op \in ops PROVE op.row <= MaxRows
    <3> DEFINE r == op.row
    <3>1. r \in 0..Len(s) /\ \A i \in 1..r : s[i].buyer
      BY <1>8, <1>12
    <3> HIDE DEF r
    <3>2. r <= MaxRows
      BY <1>7, <1>8, <3>1, UsedRowsFit
    <3> QED
      BY <3>2 DEF r
  <2> QED
    BY <2>1
<1>14. ops \in SUBSET Ops
  <2>1. \A op \in OpsUpTo(b) : op.row \in 1..b /\ (op.row <= MaxRows => op \in OpsUpTo(MaxRows))
    BY BoundAssumption DEF OpsUpTo
  <2> QED
    BY <1>4, <1>13, <2>1 DEF Ops
<1>15. Len(s) <= MaxRows
  BY <1>8, <1>9, <1>13
<1>16. \A op \in ops : op.row >= first
  BY <1>1, <1>3
<1> QED
  BY <1>1, <1>3, <1>7, <1>8, <1>9, <1>11, <1>12, <1>14, <1>15, <1>16 DEF ops, s, first

-----------------------------------------------------------------------------
(* Groups of rows: the search takes rows that are free.                    *)

\* A group precedes another when they part at a row of it.
PartsFrom(a, b) == \E x \in a \ b : \A y \in Nat : y < x => (y \in a <=> y \in b)

\* That is what the least row of only one of them tells.
LEMMA PrecedesParts ==
  ASSUME NEW a \in SUBSET Nat, NEW b \in SUBSET Nat, a # b
  PROVE  Precedes(a, b) <=> PartsFrom(a, b)
<1> DEFINE D == (a \ b) \cup (b \ a)
           d == Min(D)
<1>1. D \in SUBSET Nat /\ D # {}
  OBVIOUS
<1>2. d \in D /\ \A y \in D : d <= y
  <2> HIDE DEF D
  <2> QED
    BY <1>1, SmallestNumber
<1>3. Precedes(a, b) <=> d \in a
  BY DEF Precedes
<1> HIDE DEF d
<1>4. ASSUME d \in a PROVE PartsFrom(a, b)
  <2>1. d \in a \ b
    BY <1>2, <1>4
  <2>2. ASSUME NEW y \in Nat, y < d PROVE y \in a <=> y \in b
    <3>1. y \notin D
      BY <1>1, <1>2, <2>2
    <3> QED
      BY <3>1
  <2> QED
    BY <2>1, <2>2 DEF PartsFrom
<1>5. ASSUME PartsFrom(a, b) PROVE d \in a
  <2>1. PICK x \in a \ b : \A y \in Nat : y < x => (y \in a <=> y \in b)
    BY <1>5 DEF PartsFrom
  <2>2. x \in D /\ x \in Nat /\ d \in Nat /\ d <= x
    BY <1>1, <1>2, <2>1
  <2>3. CASE d < x
    BY <1>2, <2>1, <2>2, <2>3
  <2>4. CASE d = x
    BY <2>1, <2>4
  <2> QED
    BY <2>2, <2>3, <2>4
<1> QED
  BY <1>3, <1>4, <1>5

\* The order of the groups.
GroupsAfter(groups) == {p \in groups \X groups : p[1] # p[2] /\ Precedes(p[2], p[1])}

\* It is a strict total order.
LEMMA GroupsOrdered ==
  ASSUME NEW groups \in SUBSET SUBSET Nat
  PROVE  StrictlyOrders(GroupsAfter(groups), groups)
<1> DEFINE R == GroupsAfter(groups)
<1>1. ASSUME NEW a \in groups, NEW b \in groups
      PROVE  <<a, b>> \in R <=> a # b /\ PartsFrom(b, a)
  <2>1. a \in SUBSET Nat /\ b \in SUBSET Nat
    OBVIOUS
  <2>2. a # b => (Precedes(b, a) <=> PartsFrom(b, a))
    BY <2>1, PrecedesParts
  <2>3. <<a, b>> \in R <=> a # b /\ Precedes(b, a)
    BY DEF GroupsAfter
  <2> QED
    BY <2>2, <2>3
<1> HIDE DEF R
<1>2. ASSUME NEW a \in groups, NEW b \in groups, a # b
      PROVE  PartsFrom(a, b) \/ PartsFrom(b, a)
  <2> DEFINE D == (a \ b) \cup (b \ a)
  <2>1. D \in SUBSET Nat /\ D # {}
    BY <1>2
  <2>2. PICK d \in D : \A y \in D : d <= y
    BY <2>1, LeastNumber
  <2>3. \A y \in Nat : y < d => (y \in a <=> y \in b)
    <3>1. ASSUME NEW y \in Nat, y < d PROVE y \in a <=> y \in b
      <4>1. y \notin D
        BY <2>1, <2>2, <3>1
      <4> QED
        BY <4>1
    <3> QED
      BY <3>1
  <2> QED
    BY <2>2, <2>3 DEF PartsFrom
<1>3. ASSUME NEW a \in groups, NEW b \in groups, PartsFrom(a, b), PartsFrom(b, a)
      PROVE  FALSE
  <2>1. PICK x \in a \ b : \A y \in Nat : y < x => (y \in a <=> y \in b)
    BY <1>3 DEF PartsFrom
  <2>2. PICK z \in b \ a : \A y \in Nat : y < z => (y \in b <=> y \in a)
    BY <1>3 DEF PartsFrom
  <2>3. x \in Nat /\ z \in Nat /\ x # z
    BY <2>1, <2>2
  <2>4. ~(x < z) /\ ~(z < x)
    BY <2>1, <2>2, <2>3
  <2> QED
    BY <2>3, <2>4
<1>4. ASSUME NEW a \in groups, NEW b \in groups, NEW c \in groups,
             PartsFrom(b, a), PartsFrom(c, b)
      PROVE  a # c /\ PartsFrom(c, a)
  <2>1. PICK x \in b \ a : \A y \in Nat : y < x => (y \in b <=> y \in a)
    BY <1>4 DEF PartsFrom
  <2>2. PICK z \in c \ b : \A y \in Nat : y < z => (y \in c <=> y \in b)
    BY <1>4 DEF PartsFrom
  <2>3. x \in Nat /\ z \in Nat /\ x # z
    BY <2>1, <2>2
  <2>4. CASE x < z
    <3>1. x \in c \ a
      BY <2>1, <2>2, <2>3, <2>4
    <3>2. \A y \in Nat : y < x => (y \in c <=> y \in a)
      <4>1. ASSUME NEW y \in Nat, y < x PROVE y \in c <=> y \in a
        <5>1. y < z
          BY <2>3, <2>4, <4>1
        <5> QED
          BY <2>1, <2>2, <4>1, <5>1
      <4> QED
        BY <4>1
    <3> QED
      BY <3>1, <3>2 DEF PartsFrom
  <2>5. CASE z < x
    <3>1. z \in c \ a
      BY <2>1, <2>2, <2>3, <2>5
    <3>2. \A y \in Nat : y < z => (y \in c <=> y \in a)
      <4>1. ASSUME NEW y \in Nat, y < z PROVE y \in c <=> y \in a
        <5>1. y < x
          BY <2>3, <2>5, <4>1
        <5> QED
          BY <2>1, <2>2, <4>1, <5>1
      <4> QED
        BY <4>1
    <3> QED
      BY <3>1, <3>2 DEF PartsFrom
  <2> QED
    BY <2>3, <2>4, <2>5
<1>5. \A a, b \in groups : a # b => <<a, b>> \in R \/ <<b, a>> \in R
  BY <1>1, <1>2
<1>6. \A a, b \in groups : ~(<<a, b>> \in R /\ <<b, a>> \in R)
  BY <1>1, <1>3
<1>7. \A a, b, c \in groups : <<a, b>> \in R /\ <<b, c>> \in R => <<a, c>> \in R
  BY <1>1, <1>4
<1> QED
  BY <1>5, <1>6, <1>7 DEF StrictlyOrders, R

\* Of finitely many groups of rows one comes first.
LEMMA FirstGroupIs ==
  ASSUME NEW S \in SUBSET Nat, IsFiniteSet(S), NEW groups \in SUBSET SUBSET S, groups # {}
  PROVE  /\ FirstGroup(groups) \in groups
         /\ \A h \in groups \ {FirstGroup(groups)} : Precedes(FirstGroup(groups), h)
<1>1. IsFiniteSet(groups)
  <2>1. IsFiniteSet(SUBSET S)
    BY FS_SUBSET
  <2> QED
    BY <2>1, FS_Subset
<1>2. StrictlyOrders(GroupsAfter(groups), groups)
  <2>1. groups \in SUBSET SUBSET Nat
    OBVIOUS
  <2> QED
    BY <2>1, GroupsOrdered
<1>3. PICK g \in groups : \A h \in groups \ {g} : <<h, g>> \in GroupsAfter(groups)
  BY <1>1, <1>2, LastExists
<1>4. \A h \in groups \ {g} : Precedes(g, h)
  BY <1>3 DEF GroupsAfter
<1>5. \E f \in groups : \A h \in groups \ {f} : Precedes(f, h)
  BY <1>4
<1> QED
  BY <1>5 DEF FirstGroup

\* An allocation that finds rows finds rows of the sheet.
LEMMA AllocationRows ==
  ASSUME NEW rows \in Seq(Rows), NEW lc, NEW doc, NEW excluded
  PROVE  /\ Allocation(rows, lc, doc, excluded).rows \in SUBSET DOMAIN rows
<1> DEFINE family == FamilyRows(rows, lc)
           recorded == Agreeing(rows, {i \in family : ShowsDocument(rows[i], doc)}, doc)
           free == Agreeing(rows, {i \in family : rows[i].shared = {} /\ i \notin excluded}, doc)
           S == DOMAIN rows
<1>1. S \in SUBSET Nat /\ IsFiniteSet(S)
  <2>1. S = 1..Len(rows) /\ Len(rows) \in Int /\ 1 \in Int
    OBVIOUS
  <2>2. IsFiniteSet(1..Len(rows))
    BY <2>1, FS_Interval
  <2> QED
    BY <2>1, <2>2
<1>2. family \in SUBSET S
  BY DEF FamilyRows
<1>3. \A T \in SUBSET S : Agreeing(rows, T, doc) \in SUBSET SUBSET S
  BY DEF Agreeing, ValueGroups
<1>4. recorded \in SUBSET SUBSET S /\ free \in SUBSET SUBSET S
  BY <1>2, <1>3
<1>5. recorded # {} => FirstGroup(recorded) \in SUBSET S
  <2> HIDE DEF recorded, S
  <2> QED
    BY <1>1, <1>4, FirstGroupIs
<1>6. free # {} => FirstGroup(free) \in SUBSET S
  <2> HIDE DEF free, S
  <2> QED
    BY <1>1, <1>4, FirstGroupIs
<1> HIDE DEF S
<1>7. Chosen(recorded, free).rows \in SUBSET S
  <2> HIDE DEF recorded, free
  <2> QED
    BY <1>5, <1>6 DEF Chosen
<1>8. CASE Allocatable(doc)
  <2>1. Allocation(rows, lc, doc, excluded) = Chosen(recorded, free)
    BY <1>8 DEF Allocation
  <2> QED
    BY <1>7, <2>1 DEF S
<1>9. CASE ~Allocatable(doc)
  <2>1. Allocation(rows, lc, doc, excluded).rows = {}
    BY <1>9 DEF Allocation
  <2> QED
    BY <2>1
<1> QED
  BY <1>8, <1>9

-----------------------------------------------------------------------------
(* Assignments: what ud_ip_exp stages for the documents of a mail.         *)

\* Assignments to free rows of a sheet.
Assigns(rows, ops) ==
  \A op \in ops : /\ ~IsAppend(op) /\ op.shared # {}
                  /\ op.row \in DOMAIN rows /\ TargetsFree(rows[op.row])

\* A row is free after the assignments only if none is on it.
LEMMA AssignedRows ==
  ASSUME NEW rows \in Seq(Rows), NEW ops \in SUBSET Ops, Assigns(rows, ops)
  PROVE  /\ Applied(rows, ops) \in Seq(Rows) /\ Len(Applied(rows, ops)) = Len(rows)
         /\ DOMAIN Applied(rows, ops) = DOMAIN rows
         /\ Tidy(rows) => Tidy(Applied(rows, ops))
         /\ \A i \in DOMAIN rows : Applied(rows, ops)[i].file = rows[i].file
         /\ \A op \in ops : Applied(rows, ops)[op.row].shared # {}
         /\ \A i \in DOMAIN rows : TargetsFree(Applied(rows, ops)[i]) =>
              OpsAt(ops, i) = {} /\ Applied(rows, ops)[i] = rows[i]
<1> DEFINE s == Applied(rows, ops)
           k == LastRow(rows, ops)
<1>1. MaxRows \in Nat /\ ops \in SUBSET OpsUpTo(MaxRows)
  BY BoundAssumption DEF Ops
<1>2. \A op \in ops : ~IsAppend(op) /\ op.row \in DOMAIN rows
  BY DEF Assigns
<1>3. /\ s \in Seq(Rows) /\ Len(s) = Len(rows) /\ DOMAIN s = DOMAIN rows
      /\ Tidy(rows) => Tidy(s)
      /\ \A i \in DOMAIN rows : s[i].file = rows[i].file
  BY <1>1, <1>2, AssignsKeepFiles
<1>4. \A i \in DOMAIN s : s[i] = RowAfter(rows, ops, i)
  BY <1>1, AppliedType
<1> HIDE DEF s
<1>5. ASSUME NEW i \in DOMAIN rows, OpsAt(ops, i) # {} PROVE s[i].shared # {}
  <2>1. PICK op \in ops : op.row = i /\ RowAfter(rows, ops, i) = Written(RowAt(rows, i), op)
    BY <1>1, <1>5, RowAfterIs
  <2>2. RowAt(rows, i) \in Rows
    BY RowAtType
  <2>3. op \in OpsUpTo(MaxRows) /\ ~IsAppend(op) /\ op.shared # {}
    BY <1>1 DEF Assigns
  <2> QED
    BY <1>1, <1>3, <1>4, <2>1, <2>2, <2>3, WrittenType
<1>6. ASSUME NEW i \in DOMAIN rows, OpsAt(ops, i) = {} PROVE s[i] = rows[i]
  <2>1. RowAfter(rows, ops, i) = RowAt(rows, i)
    BY <1>1, <1>6, RowAfterIs
  <2> QED
    BY <1>3, <1>4, <2>1 DEF RowAt
<1>7. \A op \in ops : s[op.row].shared # {}
  <2>1. \A op \in ops : OpsAt(ops, op.row) # {}
    BY DEF OpsAt
  <2> QED
    BY <1>2, <1>5, <2>1
<1>8. \A i \in DOMAIN rows : TargetsFree(s[i]) => OpsAt(ops, i) = {} /\ s[i] = rows[i]
  BY <1>5, <1>6 DEF TargetsFree
<1> QED
  BY <1>3, <1>7, <1>8 DEF s

\* Assignments to rows that earlier ones have left free join them.
LEMMA MoreAssigns ==
  ASSUME NEW rows \in Seq(Rows), NEW P \in SUBSET Ops, NEW O \in SUBSET Ops,
         Assigns(rows, P), Assigns(Applied(rows, P), O)
  PROVE  /\ Assigns(rows, P \cup O)
         /\ Applied(Applied(rows, P), O) = Applied(rows, P \cup O)
<1> DEFINE s == Applied(rows, P)
<1>1. MaxRows \in Nat /\ P \in SUBSET OpsUpTo(MaxRows) /\ O \in SUBSET OpsUpTo(MaxRows)
  BY BoundAssumption DEF Ops
<1>2. /\ DOMAIN s = DOMAIN rows
      /\ \A i \in DOMAIN rows : TargetsFree(s[i]) => OpsAt(P, i) = {} /\ s[i] = rows[i]
  BY AssignedRows
<1> HIDE DEF s
<1>3. \A o \in O : /\ ~IsAppend(o) /\ o.shared # {}
                   /\ o.row \in DOMAIN s /\ TargetsFree(s[o.row])
  BY DEF Assigns, s
<1>4. \A o \in O : o.row \in DOMAIN rows /\ TargetsFree(rows[o.row]) /\ OpsAt(P, o.row) = {}
  BY <1>2, <1>3
<1>5. Assigns(rows, P \cup O)
  BY <1>3, <1>4 DEF Assigns
<1>6. \A p \in P, o \in O : p.row # o.row
  BY <1>4 DEF OpsAt
<1> QED
  BY <1>1, <1>5, <1>6, AppliedInTurn

\* An assignment is an operation of its mail on a row.
LEMMA AssignOpType ==
  ASSUME NEW m \in Mails, NEW i \in 1..MaxRows, NEW shared \in SUBSET Numbers, NEW date \in Nat
  PROVE  /\ AssignOp(m, i, shared, date) \in Ops /\ ~IsAppend(AssignOp(m, i, shared, date))
         /\ AssignOp(m, i, shared, date).row = i
         /\ AssignOp(m, i, shared, date).shared = shared
         /\ AssignOp(m, i, shared, date).date = date
         /\ AssignOp(m, i, shared, date).mail = m
BY DEF AssignOp, Ops, OpsUpTo, IsAppend

\* The same assignment on some rows.
AssignsTo(m, R, shared, date) == {AssignOp(m, i, shared, date) : i \in R}

\* On free rows of a sheet they are assignments to it.
LEMMA AssignsOnRows ==
  ASSUME NEW m \in Mails, NEW rows \in Seq(Rows), Len(rows) <= MaxRows,
         NEW R \in SUBSET DOMAIN rows, \A i \in R : TargetsFree(rows[i]),
         NEW shared \in SUBSET Numbers, shared # {}, NEW date \in Nat
  PROVE  /\ AssignsTo(m, R, shared, date) \in SUBSET Ops
         /\ Assigns(rows, AssignsTo(m, R, shared, date))
         /\ \A op \in AssignsTo(m, R, shared, date) : op.mail = m
<1>1. \A i \in R : i \in 1..MaxRows
  BY BoundAssumption
<1>2. ASSUME NEW i \in R
      PROVE  /\ AssignOp(m, i, shared, date) \in Ops /\ ~IsAppend(AssignOp(m, i, shared, date))
             /\ AssignOp(m, i, shared, date).row = i
             /\ AssignOp(m, i, shared, date).shared = shared
             /\ AssignOp(m, i, shared, date).mail = m
  BY <1>1, AssignOpType
<1> QED
  BY <1>2 DEF Assigns, AssignsTo
-----------------------------------------------------------------------------
(* The documents of a mail one after the other. *)

\* How far the staging of a mail can have come: what is staged so far goes to
\* free rows and is written in the snapshot.
Stages(m, rows) ==
  {s \in [rows : Seq(Rows), excluded : SUBSET Nat, ops : SUBSET Ops, blocked : BOOLEAN,
          duplicates : BOOLEAN] :
     /\ s.rows = Applied(rows, s.ops) /\ Assigns(rows, s.ops)
     /\ \A op \in s.ops : op.mail = m}

\* It starts with nothing.
LEMMA NothingStagedIs ==
  ASSUME NEW m \in Mails, NEW rows \in Seq(Rows)
  PROVE  NothingStaged(m, rows) \in Stages(m, rows)
<1> DEFINE s == NothingStaged(m, rows)
           twins == \E d \in OfKind(DocsOf(m), {"UD"}) : Twins(m, d) # {d}
<1>1. twins \in BOOLEAN
  OBVIOUS
<1>2. s = [rows |-> rows, excluded |-> {}, ops |-> {}, blocked |-> FALSE, duplicates |-> twins]
  BY DEF NothingStaged
<1> HIDE DEF twins, s
<1>3. s \in [rows : Seq(Rows), excluded : SUBSET Nat, ops : SUBSET Ops, blocked : BOOLEAN,
             duplicates : BOOLEAN]
  BY <1>1, <1>2
<1>4. s.rows = rows /\ s.ops = {}
  BY <1>2
<1>5. Applied(rows, {}) = rows
  BY NothingApplied
<1> QED
  BY <1>3, <1>4, <1>5 DEF Stages, s, Assigns

\* Each document keeps it so.
LEMMA StageNextIs ==
  ASSUME NEW m \in Mails, NEW rows \in Seq(Rows), Len(rows) <= MaxRows,
         NEW s \in Stages(m, rows), NEW d \in Docs
  PROVE  StageNext(s, m, d) \in Stages(m, rows)
<1> DEFINE a == Allocation(s.rows, VerifiedFamily(m), Doc[d], s.excluded)
           ops == {AssignOp(m, i, {Doc[d].number}, Doc[d].date) : i \in a.rows}
<1>1. /\ s \in [rows : Seq(Rows), excluded : SUBSET Nat, ops : SUBSET Ops, blocked : BOOLEAN,
                duplicates : BOOLEAN]
      /\ s.rows = Applied(rows, s.ops) /\ Assigns(rows, s.ops)
      /\ \A op \in s.ops : op.mail = m
  BY DEF Stages
<1>2. DOMAIN s.rows = DOMAIN rows /\ Len(s.rows) = Len(rows)
  BY <1>1, AssignedRows
<1>3. a.rows \in SUBSET DOMAIN s.rows
  BY <1>1, AllocationRows
<1>4. a.rows \in SUBSET Nat
  BY <1>1, <1>3
<1>5. Doc[d].number \in Numbers /\ Doc[d].date \in Nat
  BY DocAssumption
<1>6. StageNext(s, m, d) = Stage(s, m, d, a)
  BY DEF StageNext
<1> HIDE DEF a
<1>7. CASE a.decision = "already_recorded"
  <2> DEFINE t == [s EXCEPT !.duplicates = TRUE, !.excluded = @ \cup a.rows]
  <2>1. StageNext(s, m, d) = t
    BY <1>6, <1>7 DEF Stage
  <2>2. /\ t \in [rows : Seq(Rows), excluded : SUBSET Nat, ops : SUBSET Ops, blocked : BOOLEAN,
                  duplicates : BOOLEAN]
        /\ t.rows = s.rows /\ t.ops = s.ops
    BY <1>1, <1>4
  <2> HIDE DEF t
  <2> QED
    BY <1>1, <2>1, <2>2 DEF Stages
<1>8. CASE /\ a.decision = "selected" /\ \A i \in a.rows : TargetsFree(s.rows[i])
  <2> DEFINE t == [s EXCEPT !.ops = @ \cup ops, !.excluded = @ \cup a.rows,
                            !.rows = Applied(@, ops)]
  <2>1. StageNext(s, m, d) = t
    BY <1>6, <1>8 DEF Stage
  <2>2. ops \in SUBSET Ops /\ Assigns(s.rows, ops) /\ \A op \in ops : op.mail = m
    <3> DEFINE shared == {Doc[d].number}
    <3>1. shared \in SUBSET Numbers /\ shared # {}
      BY <1>5
    <3> HIDE DEF shared
    <3> DEFINE w == AssignsTo(m, a.rows, shared, Doc[d].date)
    <3>2. Len(s.rows) <= MaxRows /\ s.rows \in Seq(Rows)
      BY <1>1, <1>2
    <3>3. w \in SUBSET Ops /\ Assigns(s.rows, w) /\ \A op \in w : op.mail = m
      BY <1>3, <1>5, <1>8, <3>1, <3>2, AssignsOnRows
    <3>4. w = ops
      BY DEF AssignsTo, shared
    <3> QED
      BY <3>3, <3>4
  <2> HIDE DEF ops
  <2>3. /\ Assigns(rows, s.ops \cup ops)
        /\ Applied(s.rows, ops) = Applied(rows, s.ops \cup ops)
    BY <1>1, <2>2, MoreAssigns
  <2>4. Applied(s.rows, ops) \in Seq(Rows)
    BY <1>1, <2>2, AssignedRows
  <2>5. /\ t \in [rows : Seq(Rows), excluded : SUBSET Nat, ops : SUBSET Ops, blocked : BOOLEAN,
                  duplicates : BOOLEAN]
        /\ t.rows = Applied(s.rows, ops) /\ t.ops = s.ops \cup ops
    BY <1>1, <1>4, <2>2, <2>4
  <2> HIDE DEF t
  <2> QED
    BY <1>1, <2>1, <2>2, <2>3, <2>5 DEF Stages
<1>9. CASE ~(a.decision = "already_recorded")
           /\ ~(a.decision = "selected" /\ \A i \in a.rows : TargetsFree(s.rows[i]))
  <2> DEFINE t == [s EXCEPT !.blocked = TRUE]
  <2>1. StageNext(s, m, d) = t
    BY <1>6, <1>9 DEF Stage
  <2>2. /\ t \in [rows : Seq(Rows), excluded : SUBSET Nat, ops : SUBSET Ops, blocked : BOOLEAN,
                  duplicates : BOOLEAN]
        /\ t.rows = s.rows /\ t.ops = s.ops
    BY <1>1
  <2> HIDE DEF t
  <2> QED
    BY <1>1, <2>1, <2>2 DEF Stages
<1> QED
  BY <1>7, <1>8, <1>9

\* What is listed in an order is the set.
LEMMA ListedIs ==
  ASSUME NEW S, IsFiniteSet(S), NEW R, StrictlyOrders(R, S)
  PROVE  /\ Listed(S, R) \in Seq(S) /\ Len(Listed(S, R)) = Cardinality(S)
         /\ DOMAIN Listed(S, R) = 1..Cardinality(S)
         /\ \A x \in S : \E i \in 1..Cardinality(S) : Listed(S, R)[i] = x
         /\ \A i, j \in 1..Cardinality(S) : Listed(S, R)[i] = Listed(S, R)[j] => i = j
<1> DEFINE s == ByPlace(S, R)
           n == Cardinality(S)
<1>1. Listed(S, R) = s
  BY DEF Listed, ByPlace, Below
<1>2. /\ DOMAIN s = 1..n /\ n \in Nat
      /\ \A i \in 1..n : s[i] \in S /\ Cardinality(Below(s[i], S, R)) = i - 1
      /\ \A x \in S : \E i \in 1..n : s[i] = x
  BY ListedByPlace
<1>3. s = [i \in 1..n |-> s[i]]
  BY <1>2 DEF ByPlace
<1> HIDE DEF s, n
<1>4. s \in [1..n -> S]
  BY <1>2, <1>3
<1>5. s \in Seq(S) /\ Len(s) = n
  BY <1>2, <1>4, SeqDef
<1>6. \A i, j \in 1..n : s[i] = s[j] => i = j
  <2>1. ASSUME NEW i \in 1..n, NEW j \in 1..n, s[i] = s[j] PROVE i = j
    <3>1. i - 1 = j - 1
      BY <1>2, <2>1
    <3> QED
      BY <1>2, <3>1
  <2> QED
    BY <2>1
<1> QED
  BY <1>1, <1>2, <1>5, <1>6 DEF n

\* The documents of a mail that are staged are UD documents of it.
LEMMA KeptIs ==
  ASSUME NEW m \in Mails
  PROVE  /\ Len(Kept(m)) \in Nat /\ DOMAIN Kept(m) = 1..Len(Kept(m))
         /\ \A k \in 1..Len(Kept(m)) : Kept(m)[k] \in OfKind(DocsOf(m), {"UD"})
         /\ \A k \in 1..Len(Kept(m)) : Kept(m)[k] \in Docs
         /\ \A d \in OfKind(DocsOf(m), {"UD"}) : d = Min(Twins(m, d)) =>
              \E k \in 1..Len(Kept(m)) : Kept(m)[k] = d
<1> DEFINE U == OfKind(DocsOf(m), {"UD"})
           T == {d \in U : d = Min(Twins(m, d))}
<1>1. U \subseteq Docs /\ T \in SUBSET U
  BY DEF OfKind, DocsOf
<1>2. IsFiniteSet(T)
  <2>1. T \in SUBSET Docs
    BY <1>1
  <2> HIDE DEF T
  <2> QED
    BY <2>1, DocAssumption, FS_Subset
<1>3. Kept(m) = Listed(T, ByDate)
  BY DEF Kept
<1> HIDE DEF T
<1>4. StrictlyOrders(ByDate, T)
  <2>1. ASSUME NEW a \in T, NEW c \in T
        PROVE  /\ a \in Nat /\ c \in Nat /\ Doc[a].date \in Nat /\ Doc[c].date \in Nat
               /\ <<a, c>> \in ByDate
                    <=> Doc[a].date < Doc[c].date \/ (Doc[a].date = Doc[c].date /\ a < c)
    <3>1. a \in Docs /\ c \in Docs
      BY <1>1
    <3>2. a \in Nat /\ c \in Nat /\ Doc[a].date \in Nat /\ Doc[c].date \in Nat
      BY <3>1, DocAssumption
    <3> QED
      BY <3>1, <3>2 DEF ByDate
  <2>2. ASSUME NEW a \in T, NEW c \in T, a # c PROVE <<a, c>> \in ByDate \/ <<c, a>> \in ByDate
    <3>1. /\ a \in Nat /\ c \in Nat /\ Doc[a].date \in Nat /\ Doc[c].date \in Nat
          /\ <<a, c>> \in ByDate
               <=> Doc[a].date < Doc[c].date \/ (Doc[a].date = Doc[c].date /\ a < c)
          /\ <<c, a>> \in ByDate
               <=> Doc[c].date < Doc[a].date \/ (Doc[c].date = Doc[a].date /\ c < a)
      BY <2>1
    <3>2. a < c \/ c < a
      BY <2>2, <3>1
    <3>3. Doc[a].date < Doc[c].date \/ Doc[c].date < Doc[a].date \/ Doc[a].date = Doc[c].date
      BY <3>1
    <3> QED
      BY <3>1, <3>2, <3>3
  <2>3. ASSUME NEW a \in T, NEW c \in T, <<a, c>> \in ByDate, <<c, a>> \in ByDate PROVE FALSE
    <3>1. /\ a \in Nat /\ c \in Nat /\ Doc[a].date \in Nat /\ Doc[c].date \in Nat
          /\ Doc[a].date < Doc[c].date \/ (Doc[a].date = Doc[c].date /\ a < c)
          /\ Doc[c].date < Doc[a].date \/ (Doc[c].date = Doc[a].date /\ c < a)
      BY <2>1, <2>3
    <3> QED
      BY <3>1
  <2>4. ASSUME NEW a \in T, NEW c \in T, NEW e \in T, <<a, c>> \in ByDate, <<c, e>> \in ByDate
        PROVE  <<a, e>> \in ByDate
    BY <2>1, <2>4
  <2> QED
    BY <2>2, <2>3, <2>4 DEF StrictlyOrders
<1>5. /\ Kept(m) \in Seq(T) /\ Len(Kept(m)) = Cardinality(T)
      /\ DOMAIN Kept(m) = 1..Cardinality(T)
      /\ \A x \in T : \E i \in 1..Cardinality(T) : Kept(m)[i] = x
  BY <1>2, <1>3, <1>4, ListedIs
<1>6. \A k \in 1..Len(Kept(m)) : Kept(m)[k] \in T
  BY <1>5
<1>7. Len(Kept(m)) \in Nat
  BY <1>5
<1>8. \A d \in U : d = Min(Twins(m, d)) => d \in T
  BY DEF T
<1> QED
  BY <1>1, <1>5, <1>6, <1>7, <1>8

\* The staging of a mail is reached document by document.
LEMMA StagedSteps ==
  ASSUME NEW m \in Mails, NEW rows \in Seq(Rows), Len(rows) <= MaxRows
  PROVE  \E after :
           /\ after = StagedAfter(m, rows)
           /\ after[0] = NothingStaged(m, rows)
           /\ \A k \in 1..Len(Kept(m)) : after[k] = StageNext(after[k - 1], m, Kept(m)[k])
           /\ \A k \in 0..Len(Kept(m)) : after[k] \in Stages(m, rows)
           /\ Staged(m, rows) = after[Len(Kept(m))]
<1> DEFINE n == Len(Kept(m))
           S == Stages(m, rows)
           base == NothingStaged(m, rows)
           Plus(k, s) == StageNext(s, m, Kept(m)[k])
           IsAfter(g) == g = [k \in 0..n |-> IF k = 0 THEN base ELSE Plus(k, g[k - 1])]
           after == CHOOSE g : IsAfter(g)
           step == [p \in (1..n) \X S |-> Plus(p[1], p[2])]
<1>1. after = StagedAfter(m, rows) /\ Staged(m, rows) = after[n]
  BY DEF Staged, StagedAfter
<1>2. n \in Nat /\ base \in S
  BY KeptIs, NothingStagedIs
<1>3. \A k \in 1..n, s \in S : Plus(k, s) \in S
  BY KeptIs, StageNextIs
<1> HIDE DEF n, S, base, Plus
<1>4. step \in [(1..n) \X S -> S]
  BY <1>3
<1>5. \A k \in 1..n, s \in S : step[<<k, s>>] = Plus(k, s)
  OBVIOUS
<1> HIDE DEF step
<1>6. PICK g \in [0..n -> S] : Recursive(g, n, base, step)
  BY <1>2, <1>4, RecursionExists, Zenon
<1>7. g[0] = base /\ \A k \in 1..n : g[k] = Plus(k, g[k - 1])
  <2>1. \A k \in 1..n : g[k - 1] \in S
    BY <1>2
  <2> QED
    BY <1>5, <1>6, <2>1 DEF Recursive
<1>8. IsAfter(g)
  BY <1>2, <1>7
<1>9. IsAfter(after)
  BY <1>8
<1> HIDE DEF after
<1>10. after[0] = base /\ \A k \in 1..n : after[k] = Plus(k, after[k - 1])
  BY <1>2, <1>9
<1> DEFINE T == {k \in 0..n : after[k] \in S}
<1>11. 0 \in T /\ \A k \in 1..n : k - 1 \in T => k \in T
  BY <1>2, <1>3, <1>10
<1> HIDE DEF T
<1>12. 0..n \subseteq T
  BY <1>2, <1>11, UpTo
<1>13. \A k \in 0..n : after[k] \in S
  BY <1>12 DEF T
<1> QED
  BY <1>1, <1>10, <1>13 DEF n, S, base, Plus

\* The staging of the UD documents assigns free rows.
LEMMA StagedIs ==
  ASSUME NEW m \in Mails, NEW rows \in Seq(Rows), Len(rows) <= MaxRows
  PROVE  Staged(m, rows) \in Stages(m, rows)
<1> DEFINE n == Len(Kept(m))
<1>1. n \in 0..n
  BY KeptIs
<1> HIDE DEF n
<1>2. PICK after : /\ \A k \in 0..n : after[k] \in Stages(m, rows)
                   /\ Staged(m, rows) = after[n]
  BY StagedSteps DEF n
<1> QED
  BY <1>1, <1>2

\* What the staging of a mail of ud_ip_exp may be.
AssignsFor(m, rows, staging) ==
  /\ staging.ops \in SUBSET Ops /\ Assigns(rows, staging.ops)
  /\ \A op \in staging.ops : op.mail = m
  /\ staging.blocked \in BOOLEAN /\ staging.duplicates \in BOOLEAN

\* A blocked mail stages nothing.
LEMMA BlockedIs ==
  ASSUME NEW m, NEW rows
  PROVE  AssignsFor(m, rows, Blocked)
BY DEF AssignsFor, Blocked, Assigns

\* UD documents assign free rows or nothing.
LEMMA UdStagingIs ==
  ASSUME NEW m \in Mails, NEW rows \in Seq(Rows), Len(rows) <= MaxRows
  PROVE  AssignsFor(m, rows, UdStaging(m, rows))
<1> DEFINE s == Staged(m, rows)
           ops == IF s.blocked THEN {} ELSE s.ops
<1>1. s \in Stages(m, rows)
  BY StagedIs
<1>2. UdStaging(m, rows) = [ops |-> ops, duplicates |-> s.duplicates, blocked |-> s.blocked]
  BY DEF UdStaging, StagingOf
<1> HIDE DEF s
<1>3. /\ s.ops \in SUBSET Ops /\ s.blocked \in BOOLEAN /\ s.duplicates \in BOOLEAN
      /\ Assigns(rows, s.ops) /\ \A op \in s.ops : op.mail = m
  BY <1>1 DEF Stages
<1>4. ops \in SUBSET Ops /\ Assigns(rows, ops) /\ \A op \in ops : op.mail = m
  BY <1>3 DEF Assigns
<1> HIDE DEF ops
<1> QED
  BY <1>2, <1>3, <1>4 DEF AssignsFor

\* IP and EXP documents assign the free rows of the family or nothing.
LEMMA IpExpStagingIs ==
  ASSUME NEW m \in Mails, NEW rows \in Seq(Rows), Len(rows) <= MaxRows, IpExpRulesPass(m)
  PROVE  AssignsFor(m, rows, IpExpStaging(m, rows))
<1> DEFINE family == FamilyRows(rows, VerifiedFamily(m))
           shared == {Doc[d].number : d \in DocsOf(m)}
           one == CHOOSE d \in DocsOf(m) : TRUE
           date == Doc[one].date
           recorded == family # {} /\ FamilyShows(rows, family, shared, date)
           free == family # {} /\ \A i \in family : TargetsFree(rows[i])
           ops == IF free THEN {AssignOp(m, i, shared, date) : i \in family} ELSE {}
           blocked == ~free /\ ~recorded
<1>1. IpExpStaging(m, rows) = [ops |-> ops, duplicates |-> FALSE, blocked |-> blocked]
  BY DEF IpExpStaging
<1>2. blocked \in BOOLEAN
  OBVIOUS
<1>3. DocsOf(m) # {}
  <2> DEFINE exps == OfKind(DocsOf(m), {"EXP"})
  <2>1. Cardinality(exps) = 1
    BY DEF IpExpRulesPass
  <2>2. Cardinality({}) = 0
    BY FS_EmptySet
  <2> HIDE DEF exps
  <2>3. exps # {}
    BY <2>1, <2>2, 0 # 1
  <2> QED
    BY <2>3 DEF OfKind, exps
<1>4. DocsOf(m) \subseteq Docs
  BY DEF DocsOf
<1>5. one \in Docs
  BY <1>3, <1>4
<1>6. date \in Nat /\ shared \in SUBSET Numbers /\ shared # {}
  <2>1. Doc[one].date \in Nat /\ \A d \in DocsOf(m) : Doc[d].number \in Numbers
    BY <1>4, <1>5, DocAssumption
  <2> HIDE DEF one
  <2> QED
    BY <1>3, <2>1
<1>7. family \in SUBSET DOMAIN rows
  BY DEF FamilyRows
<1> HIDE DEF family, shared, date, blocked
<1>8. CASE free
  <2> DEFINE w == AssignsTo(m, family, shared, date)
  <2>1. w \in SUBSET Ops /\ Assigns(rows, w) /\ \A op \in w : op.mail = m
    BY <1>6, <1>7, <1>8, AssignsOnRows
  <2>2. ops = w
    BY <1>8 DEF AssignsTo
  <2> HIDE DEF w, ops
  <2> QED
    BY <1>1, <1>2, <2>1, <2>2 DEF AssignsFor
<1>9. CASE ~free
  <2>1. ops = {}
    BY <1>9
  <2> HIDE DEF ops
  <2> QED
    BY <1>1, <1>2, <2>1 DEF AssignsFor, Assigns
<1> QED
  BY <1>8, <1>9

\* Whatever its documents are, a mail of ud_ip_exp assigns free rows or nothing.
LEMMA UdIpExpStagingIs ==
  ASSUME NEW m \in Mails, NEW rows \in Seq(Rows), Len(rows) <= MaxRows
  PROVE  AssignsFor(m, rows, UdIpExpStaging(m, rows))
<1>1. AssignsFor(m, rows, Blocked)
  BY BlockedIs
<1>2. AssignsFor(m, rows, UdStaging(m, rows))
  BY UdStagingIs
<1>3. AssignsFor(m, rows, SharedStaging(m, rows))
  <2>1. CASE IpExpRulesPass(m)
    BY <2>1, IpExpStagingIs DEF SharedStaging
  <2>2. CASE ~IpExpRulesPass(m)
    BY <1>1, <2>2 DEF SharedStaging
  <2> QED
    BY <2>1, <2>2
<1> QED
  BY <1>1, <1>2, <1>3 DEF UdIpExpStaging

-----------------------------------------------------------------------------
(* The plan of a run and the snapshot that it advances.                    *)

\* A plan p turns the snapshot s into the snapshot w: appends fill it without a
\* gap, assignments go to rows that were free.
Fits(wf, s, w, p) ==
  /\ w \in Seq(Rows) /\ Len(w) <= MaxRows /\ Tidy(w)
  /\ p \in SUBSET Ops /\ w = Applied(s, p)
  /\ wf = "export_lc_sc" =>
       \A op \in p : IsAppend(op) /\ op.row \in DOMAIN w /\ \A i \in 1..op.row : w[i].buyer
  /\ wf = "ud_ip_exp" => Assigns(s, p)

\* A run starts with an empty plan.
LEMMA EmptyPlanFits ==
  ASSUME NEW s \in Seq(Rows), Len(s) <= MaxRows, Tidy(s), NEW wf
  PROVE  Fits(wf, s, s, {})
BY NothingApplied DEF Fits, Assigns

\* What the staging of a mail tells is well formed.
LEMMA StagingType ==
  ASSUME NEW m \in Mails, NEW rows \in Seq(Rows), Len(rows) <= MaxRows, Tidy(rows)
  PROVE  /\ Staging(m, rows).ops \in SUBSET Ops
         /\ Staging(m, rows).blocked \in BOOLEAN /\ Staging(m, rows).duplicates \in BOOLEAN
         /\ \A op \in Staging(m, rows).ops : op.mail = m
         /\ Mail[m].workflow = "ud_ip_exp" => Assigns(rows, Staging(m, rows).ops)
<1>1. AssignsFor(m, rows, Blocked)
  BY BlockedIs
<1>2. CASE ~FamilyRulesPass(m)
  <2>1. Staging(m, rows) = Blocked
    BY <1>2 DEF Staging
  <2> QED
    BY <1>1, <2>1 DEF AssignsFor
<1>3. CASE FamilyRulesPass(m) /\ Mail[m].workflow = "export_lc_sc"
  <2>1. Staging(m, rows) = ExportStaging(m, rows)
    BY <1>3 DEF Staging
  <2>2. /\ ExportStaging(m, rows).ops \in SUBSET Ops
        /\ \A op \in ExportStaging(m, rows).ops : op.mail = m
    BY <1>3, ExportStagingIs
  <2>3. ExportStaging(m, rows).blocked \in BOOLEAN /\ ExportStaging(m, rows).duplicates \in BOOLEAN
    BY DEF ExportStaging
  <2> QED
    BY <1>3, <2>1, <2>2, <2>3
<1>4. CASE FamilyRulesPass(m) /\ Mail[m].workflow # "export_lc_sc"
  <2>1. Staging(m, rows) = UdIpExpStaging(m, rows)
    BY <1>4 DEF Staging
  <2>2. AssignsFor(m, rows, UdIpExpStaging(m, rows))
    BY UdIpExpStagingIs
  <2> QED
    BY <2>1, <2>2 DEF AssignsFor
<1> QED
  BY <1>2, <1>3, <1>4

\* The writes of a mail join the plan: on rows of their own, so that the
\* snapshot they are staged on is the workbook as the whole plan leaves it.
LEMMA StagingFits ==
  ASSUME NEW m \in Mails, NEW s \in Seq(Rows), NEW w, NEW p,
         Fits(Mail[m].workflow, s, w, p)
  PROVE  Fits(Mail[m].workflow, s, Applied(w, Staging(m, w).ops), p \cup Staging(m, w).ops)
<1> DEFINE O == Staging(m, w).ops
           v == Applied(w, O)
           wf == Mail[m].workflow
<1>1. /\ w \in Seq(Rows) /\ Len(w) <= MaxRows /\ Tidy(w)
      /\ p \in SUBSET Ops /\ w = Applied(s, p) /\ MaxRows \in Nat
  BY BoundAssumption DEF Fits
<1>2. O \in SUBSET Ops /\ (wf = "ud_ip_exp" => Assigns(w, O))
  BY <1>1, StagingType
<1>3. wf \in Workflows
  BY MailAssumption
<1>4. CASE wf = "ud_ip_exp"
  <2>1. Assigns(s, p) /\ Assigns(w, O)
    BY <1>2, <1>4 DEF Fits
  <2> HIDE DEF O
  <2>2. v \in Seq(Rows) /\ Len(v) = Len(w) /\ Tidy(v)
    BY <1>1, <1>2, <2>1, AssignedRows
  <2>3. Assigns(s, p \cup O) /\ v = Applied(s, p \cup O)
    BY <1>1, <1>2, <2>1, MoreAssigns
  <2> HIDE DEF v
  <2>4. Fits(wf, s, v, p \cup O)
    BY <1>1, <1>2, <1>4, <2>2, <2>3 DEF Fits
  <2> QED
    BY <2>4 DEF v, O
<1>5. CASE wf = "export_lc_sc"
  <2>1. \A op \in p : IsAppend(op) /\ op.row \in DOMAIN w /\ \A i \in 1..op.row : w[i].buyer
    BY <1>5 DEF Fits
  <2>2. /\ \A op \in O : /\ IsAppend(op) /\ op.row >= NextExportRow(w)
                         /\ op.row \in DOMAIN v /\ \A i \in 1..op.row : v[i].buyer
        /\ v \in Seq(Rows) /\ Tidy(v) /\ Len(v) <= MaxRows /\ Len(w) <= Len(v)
        /\ \A i \in DOMAIN w : w[i].buyer => v[i].buyer
    <3>1. CASE FamilyRulesPass(m)
      <4> DEFINE X == ExportStaging(m, w).ops
                 y == Applied(w, X)
      <4>1. O = X
        BY <1>5, <3>1 DEF Staging
      <4>2. /\ \A op \in X : /\ IsAppend(op) /\ op.row >= NextExportRow(w)
                            /\ op.row \in DOMAIN y /\ \A i \in 1..op.row : y[i].buyer
            /\ y \in Seq(Rows) /\ Tidy(y) /\ Len(y) <= MaxRows /\ Len(w) <= Len(y)
            /\ \A i \in DOMAIN w : w[i].buyer => y[i].buyer
        BY <1>1, <3>1, ExportStagingIs
      <4> HIDE DEF X, O
      <4>3. v = y
        BY <4>1
      <4> QED
        BY <4>1, <4>2, <4>3
    <3>2. CASE ~FamilyRulesPass(m)
      <4>1. O = {}
        BY <3>2 DEF Staging, Blocked
      <4>2. v = w
        BY <1>1, <4>1, NothingApplied
      <4> QED
        BY <1>1, <4>1, <4>2
    <3> QED
      BY <3>1, <3>2
  <2> HIDE DEF O
  <2>3. \A o \in p : o.row < NextExportRow(w)
    <3>1. ASSUME NEW o \in p PROVE o.row < NextExportRow(w)
      <4> DEFINE r == o.row
      <4>1. r \in DOMAIN w /\ \A i \in 1..r : w[i].buyer
        BY <2>1
      <4> HIDE DEF r
      <4>2. r < NextExportRow(w)
        BY <1>1, <4>1, UsedRowsBefore
      <4> QED
        BY <4>2 DEF r
    <3> QED
      BY <3>1
  <2>4. \A o \in p, q \in O : o.row # q.row
    <3>1. \A o \in Ops : o.row \in Nat
      BY DEF Ops, OpsUpTo
    <3>2. NextExportRow(w) \in Nat
      BY <1>1, NextExportRowIs
    <3>3. ASSUME NEW o \in p, NEW q \in O PROVE o.row # q.row
      <4>1. o.row \in Nat /\ q.row \in Nat /\ o.row < NextExportRow(w) /\ q.row >= NextExportRow(w)
        BY <1>1, <1>2, <2>2, <2>3, <3>1
      <4> QED
        BY <3>2, <4>1
    <3> QED
      BY <3>3
  <2>5. v = Applied(s, p \cup O)
    <3>1. p \in SUBSET OpsUpTo(MaxRows) /\ O \in SUBSET OpsUpTo(MaxRows)
      BY <1>1, <1>2 DEF Ops
    <3> QED
      BY <1>1, <2>4, <3>1, AppliedInTurn
  <2> HIDE DEF v
  <2>6. ASSUME NEW op \in p \cup O
        PROVE  IsAppend(op) /\ op.row \in DOMAIN v /\ \A i \in 1..op.row : v[i].buyer
    <3>1. CASE op \in O
      BY <2>2, <3>1
    <3>2. CASE op \in p
      <4> DEFINE r == op.row
      <4>1. r \in DOMAIN w /\ \A i \in 1..r : w[i].buyer
        BY <2>1, <3>2
      <4> HIDE DEF r
      <4>2. DOMAIN w = 1..Len(w) /\ DOMAIN v = 1..Len(v) /\ Len(w) \in Nat /\ Len(v) \in Nat
        BY <1>1, <2>2
      <4>3. DOMAIN w \subseteq DOMAIN v
        BY <2>2, <4>2
      <4>4. r \in 1..Len(w)
        BY <4>1, <4>2
      <4>5. \A i \in 1..r : i \in DOMAIN w
        BY <4>2, <4>4
      <4>6. r \in DOMAIN v /\ \A i \in 1..r : v[i].buyer
        BY <2>2, <4>1, <4>3, <4>5
      <4> QED
        BY <2>1, <3>2, <4>6 DEF r
    <3> QED
      BY <3>1, <3>2
  <2>7. Fits(wf, s, v, p \cup O)
    BY <1>1, <1>2, <1>5, <2>2, <2>5, <2>6 DEF Fits
  <2> QED
    BY <2>7 DEF v, O
<1> QED
  BY <1>3, <1>4, <1>5 DEF Workflows

-----------------------------------------------------------------------------
(* The inductive invariant, and the actions that keep it.                  *)

\* What a run may decide on a mail.
Outcomes == [blocked : BOOLEAN, disposition : Dispositions, new : SUBSET AllPaths]

\* The mails of a workflow.
MailsOf(w) == {m \in Mails : Mail[m].workflow = w}

\* What outlasts a run.
StoreInv ==
  /\ sheet \in Seq(Rows) /\ Len(sheet) <= MaxRows /\ Tidy(sheet)
  /\ store \in SUBSET AllPaths /\ printed \in SUBSET store /\ moved \in SUBSET Mails
  /\ edits \in 0..MaxEdits /\ faults \in 0..MaxFaults

\* What a run keeps.
RunInv ==
  /\ pc \in {"idle", "validating", "printing", "moving"} /\ workflow \in Workflows
  /\ queue \in Seq(MailsOf(workflow))
  /\ working \in Seq(Rows) /\ plan \in SUBSET Ops
  /\ outcome \in [Mails -> Outcomes] /\ \A m \in Mails : outcome[m].new \subseteq store
  /\ pc = "idle" => plan = {}

\* The plan of a run that validates fits the workbook.
PlanInv == pc = "validating" => Fits(workflow, sheet, working, plan)

\* The inductive invariant.
IInv == StoreInv /\ RunInv /\ PlanInv /\ WorkingSnapshotIsOutcome

\* The paths of a mail are paths.
LEMMA PathsType ==
  ASSUME NEW m \in Mails, NEW k \in 0..Len(Mail[m].pdfs)
  PROVE  Paths(m, k) \in SUBSET AllPaths
<1>1. Len(Mail[m].pdfs) \in Nat
  BY MailAssumption
<1>2. Paths(m, k) \subseteq Paths(m, Len(Mail[m].pdfs))
  BY <1>1 DEF Paths
<1> QED
  BY <1>2 DEF AllPaths

\* A mail that is not decided yet.
LEMMA NoOutcomeType == NoOutcome \in Outcomes
<1>1. TRUE \in BOOLEAN /\ {} \in SUBSET AllPaths
  OBVIOUS
<1> QED
  BY <1>1 DEF NoOutcome, Outcomes, Dispositions

\* A decided one.
LEMMA OutcomeType ==
  ASSUME NEW m \in Mails, NEW k \in 0..Len(Mail[m].pdfs), NEW staging,
         staging.blocked \in BOOLEAN, NEW saveFailed \in BOOLEAN
  PROVE  /\ Outcome(m, staging, k, saveFailed) \in Outcomes
         /\ Outcome(m, staging, k, saveFailed).new = Paths(m, k) \ store
         /\ Outcome(m, staging, k, saveFailed).blocked = (staging.blocked \/ saveFailed)
         /\ Outcome(m, staging, k, saveFailed).disposition = Disposition(staging)
<1> DEFINE o == Outcome(m, staging, k, saveFailed)
           blocked == staging.blocked \/ saveFailed
           new == Paths(m, k) \ store
<1>1. o = [blocked |-> blocked, disposition |-> Disposition(staging), new |-> new]
  BY DEF Outcome
<1>2. blocked \in BOOLEAN
  OBVIOUS
<1>3. Disposition(staging) \in Dispositions
  BY DEF Disposition, Dispositions
<1>4. new \in SUBSET AllPaths
  BY PathsType
<1>5. o.new = new /\ o.blocked = blocked /\ o.disposition = Disposition(staging)
  BY <1>1
<1> HIDE DEF o, blocked, new
<1>6. o \in Outcomes
  BY <1>1, <1>2, <1>3, <1>4 DEF Outcomes
<1> QED
  BY <1>5, <1>6 DEF o, blocked, new

\* The validation of a mail keeps the invariant.
LEMMA ValidateKeeps ==
  ASSUME IInv, pc = "validating", queue # <<>>, NEW m, m = Head(queue),
         NEW k \in 0..Len(Mail[m].pdfs), NEW saveFailed \in BOOLEAN,
         Validate(m, k, saveFailed),
         UNCHANGED <<sheet, printed, moved, pc, workflow, edits>>, faults' \in 0..MaxFaults
  PROVE  IInv'
<1> DEFINE staging == Staging(m, working)
           ops == IF saveFailed \/ staging.blocked THEN {} ELSE staging.ops
           o == Outcome(m, staging, k, saveFailed)
<1>1. /\ m \in Mails /\ Mail[m].workflow = workflow
      /\ Tail(queue) \in Seq(MailsOf(workflow))
  <2>1. queue \in Seq(MailsOf(workflow))
    BY DEF IInv, RunInv
  <2>2. Head(queue) \in MailsOf(workflow) /\ Tail(queue) \in Seq(MailsOf(workflow))
    BY <2>1
  <2> QED
    BY <2>2 DEF MailsOf
<1>2. /\ outcome' = [outcome EXCEPT ![m] = o] /\ plan' = plan \cup ops
      /\ working' = Applied(working, ops) /\ store' = store \cup Paths(m, k)
      /\ queue' = Tail(queue)
  BY DEF Validate, Conclude
<1>3. /\ sheet \in Seq(Rows) /\ Len(sheet) <= MaxRows /\ Tidy(sheet)
      /\ store \in SUBSET AllPaths /\ printed \in SUBSET store /\ moved \in SUBSET Mails
      /\ edits \in 0..MaxEdits
      /\ outcome \in [Mails -> Outcomes] /\ \A n \in Mails : outcome[n].new \subseteq store
      /\ workflow \in Workflows
      /\ Fits(workflow, sheet, working, plan)
  BY DEF IInv, StoreInv, RunInv, PlanInv
<1>4. working \in Seq(Rows) /\ Len(working) <= MaxRows /\ Tidy(working)
  BY <1>3 DEF Fits
<1>5. staging.blocked \in BOOLEAN
  BY <1>1, <1>4, StagingType
<1>6. Fits(workflow, sheet, Applied(working, ops), plan \cup ops)
  <2>1. Fits(workflow, sheet, Applied(working, staging.ops), plan \cup staging.ops)
    BY <1>1, <1>3, StagingFits
  <2>2. Applied(working, {}) = working /\ plan \cup {} = plan
    BY <1>4, NothingApplied
  <2> QED
    BY <1>3, <2>1, <2>2
<1>7. o \in Outcomes /\ o.new = Paths(m, k) \ store
  <2> HIDE DEF staging
  <2> QED
    BY <1>1, <1>5, OutcomeType
<1>8. Paths(m, k) \in SUBSET AllPaths
  BY <1>1, PathsType
<1> HIDE DEF staging, ops, o
<1>9. StoreInv'
  BY <1>2, <1>3, <1>8 DEF StoreInv
<1>10. PlanInv' /\ working' \in Seq(Rows) /\ plan' \in SUBSET Ops /\ working' = Applied(sheet', plan')
  BY <1>2, <1>6 DEF PlanInv, Fits
<1>11. outcome' \in [Mails -> Outcomes] /\ \A n \in Mails : outcome'[n].new \subseteq store'
  <2>1. outcome' \in [Mails -> Outcomes]
    BY <1>2, <1>3, <1>7
  <2>2. ASSUME NEW n \in Mails PROVE outcome'[n].new \subseteq store'
    <3>1. CASE n = m
      BY <1>2, <1>3, <1>7, <3>1
    <3>2. CASE n # m
      BY <1>2, <1>3, <3>2
    <3> QED
      BY <3>1, <3>2
  <2> QED
    BY <2>1, <2>2
<1>12. RunInv'
  BY <1>1, <1>2, <1>3, <1>10, <1>11 DEF RunInv
<1>13. WorkingSnapshotIsOutcome'
  BY <1>10 DEF WorkingSnapshotIsOutcome
<1> QED
  BY <1>9, <1>10, <1>12, <1>13 DEF IInv

\* A run that ends, however it does, keeps the invariant if what outlasts it is
\* in order.
LEMMA IdleKeeps ==
  ASSUME IInv, Idle, StoreInv', UNCHANGED workflow
  PROVE  IInv'
<1>1. /\ pc' = "idle" /\ queue' = <<>> /\ working' = <<>> /\ plan' = {}
      /\ outcome' = [m \in Mails |-> NoOutcome]
  BY DEF Idle
<1>2. workflow' \in Workflows
  BY DEF IInv, RunInv
<1>3. <<>> \in Seq(MailsOf(workflow')) /\ <<>> \in Seq(Rows) /\ {} \in SUBSET Ops
  OBVIOUS
<1>4. outcome' \in [Mails -> Outcomes]
  BY <1>1, NoOutcomeType
<1>5. \A m \in Mails : outcome'[m].new \subseteq store'
  BY <1>1 DEF NoOutcome
<1>6. RunInv'
  BY <1>1, <1>2, <1>3, <1>4, <1>5 DEF RunInv
<1>7. PlanInv' /\ WorkingSnapshotIsOutcome'
  BY <1>1 DEF PlanInv, WorkingSnapshotIsOutcome
<1> QED
  BY <1>6, <1>7 DEF IInv

\* Starting a run keeps the invariant.
LEMMA StartRunKeeps ==
  ASSUME IInv, NEW w \in Workflows, StartRun(w)
  PROVE  IInv'
<1> DEFINE folder == {m \in Mails \ moved : Mail[m].workflow = w}
           R == {p \in Mails \X Mails : p[1] < p[2]}
<1>1. /\ pc = "idle" /\ pc' = "validating" /\ workflow' = w
      /\ queue' = Listed(folder, R) /\ working' = sheet
      /\ UNCHANGED <<sheet, store, printed, moved, outcome, plan, edits, faults>>
  BY DEF StartRun
<1>2. folder \in SUBSET Mails /\ folder \in SUBSET MailsOf(w)
  BY DEF MailsOf
<1>3. IsFiniteSet(folder) /\ Mails \in SUBSET Nat
  BY <1>2, MailAssumption, FS_Subset
<1>4. StrictlyOrders(R, folder)
  <2>1. ASSUME NEW a \in folder, NEW b \in folder
        PROVE  a \in Nat /\ b \in Nat /\ (<<a, b>> \in R <=> a < b)
    BY <1>2, <1>3
  <2> HIDE DEF R, folder
  <2>2. ASSUME NEW a \in folder, NEW b \in folder, a # b PROVE <<a, b>> \in R \/ <<b, a>> \in R
    BY <2>1, <2>2
  <2>3. ASSUME NEW a \in folder, NEW b \in folder, <<a, b>> \in R, <<b, a>> \in R PROVE FALSE
    BY <2>1, <2>3
  <2>4. ASSUME NEW a \in folder, NEW b \in folder, NEW c \in folder, <<a, b>> \in R, <<b, c>> \in R
        PROVE  <<a, c>> \in R
    BY <2>1, <2>4
  <2> QED
    BY <2>2, <2>3, <2>4 DEF StrictlyOrders
<1> HIDE DEF folder, R
<1>5. queue' \in Seq(folder)
  BY <1>1, <1>3, <1>4, ListedIs
<1>6. queue' \in Seq(MailsOf(workflow'))
  BY <1>1, <1>2, <1>5
<1>7. /\ sheet \in Seq(Rows) /\ Len(sheet) <= MaxRows /\ Tidy(sheet)
      /\ outcome \in [Mails -> Outcomes] /\ \A m \in Mails : outcome[m].new \subseteq store
      /\ plan = {} /\ StoreInv
  BY <1>1 DEF IInv, StoreInv, RunInv
<1>8. StoreInv'
  BY <1>1, <1>7 DEF StoreInv
<1>9. Fits(workflow', sheet', working', plan')
  BY <1>1, <1>7, EmptyPlanFits
<1>10. PlanInv' /\ plan' \in SUBSET Ops /\ working' \in Seq(Rows)
  BY <1>9 DEF PlanInv, Fits
<1>11. RunInv'
  BY <1>1, <1>6, <1>7, <1>10 DEF RunInv
<1>12. WorkingSnapshotIsOutcome'
  BY <1>9 DEF Fits, WorkingSnapshotIsOutcome
<1> QED
  BY <1>8, <1>10, <1>11, <1>12 DEF IInv

\* So does the validation of a mail of either workflow, whether its documents
\* are saved or not.
LEMMA ValidatingKeeps ==
  ASSUME IInv, ValidateExportMail \/ ValidateUdMail \/ SavingFails \/ StagingFails
  PROVE  IInv'
<1> DEFINE m == Head(queue)
           n == Len(Mail[m].pdfs)
<1>1. /\ pc = "validating" /\ queue # <<>>
      /\ UNCHANGED <<sheet, printed, moved, pc, workflow, edits>>
  BY DEF ValidateExportMail, ValidateUdMail, SavingFails, StagingFails, Validating
<1>2. m \in Mails
  <2>1. queue \in Seq(MailsOf(workflow))
    BY DEF IInv, RunInv
  <2>2. Head(queue) \in MailsOf(workflow)
    BY <1>1, <2>1
  <2> QED
    BY <2>2 DEF MailsOf
<1>3. n \in Nat
  BY <1>2, MailAssumption
<1>4. faults \in 0..MaxFaults /\ faults' \in 0..MaxFaults
  <2>1. faults \in 0..MaxFaults /\ MaxFaults \in Nat
    BY BoundAssumption DEF IInv, StoreInv
  <2>2. faults' = faults \/ (faults < MaxFaults /\ faults' = faults + 1)
    <3>1. CASE ValidateExportMail
      BY <3>1 DEF ValidateExportMail
    <3>2. CASE ValidateUdMail
      BY <3>2 DEF ValidateUdMail
    <3>3. CASE SavingFails
      BY <3>3 DEF SavingFails
    <3>4. CASE StagingFails
      BY <3>4 DEF StagingFails
    <3> QED
      BY <3>1, <3>2, <3>3, <3>4
  <2> QED
    BY <2>1, <2>2
<1>5. \E k \in 0..n, saveFailed \in BOOLEAN : Validate(m, k, saveFailed)
  <2>1. CASE ValidateExportMail
    <3> DEFINE known == VerifiedFamily(m) # NoFamily
               k == IF known THEN n ELSE 0
    <3>1. Validate(m, k, ~known)
      BY <2>1 DEF ValidateExportMail
    <3>2. k \in 0..n /\ (~known) \in BOOLEAN
      BY <1>3
    <3> HIDE DEF m, n, k, known
    <3> QED
      BY <3>1, <3>2
  <2>2. CASE ValidateUdMail
    <3> DEFINE k == IF Storable(m) THEN n ELSE 0
               failed == ~Storable(m) /\ Mail[m].pdfs # <<>>
    <3>1. Validate(m, k, failed)
      BY <2>2 DEF ValidateUdMail
    <3>2. k \in 0..n /\ failed \in BOOLEAN
      BY <1>3
    <3> HIDE DEF m, n, k, failed
    <3> QED
      BY <3>1, <3>2
  <2>3. CASE SavingFails
    <3>1. PICK k \in 0..n - 1 : Validate(m, k, TRUE)
      BY <2>3 DEF SavingFails
    <3>2. k \in 0..n
      BY <1>3, <3>1
    <3> HIDE DEF m, n
    <3> QED
      BY <3>1, <3>2
  <2>4. CASE StagingFails
    <3>1. Validate(m, 0, TRUE)
      BY <2>4 DEF StagingFails
    <3>2. 0 \in 0..n
      BY <1>3
    <3> HIDE DEF m, n
    <3> QED
      BY <3>1, <3>2
  <2> QED
    BY <2>1, <2>2, <2>3, <2>4
<1>6. PICK k \in 0..n, saveFailed \in BOOLEAN : Validate(m, k, saveFailed)
  BY <1>5
<1> QED
  BY <1>1, <1>4, <1>6, ValidateKeeps

\* So does a process that dies among the documents of a mail.
LEMMA CrashWhileSavingKeeps ==
  ASSUME IInv, CrashWhileSaving
  PROVE  IInv'
<1> DEFINE m == Head(queue)
<1>1. /\ pc = "validating" /\ queue # <<>> /\ faults < MaxFaults /\ faults' = faults + 1
      /\ Idle /\ UNCHANGED <<sheet, printed, moved, workflow, edits>>
      /\ \E k \in 1..Len(Mail[m].pdfs) : store' = store \cup Paths(m, k)
  BY DEF CrashWhileSaving
<1>2. m \in Mails
  <2>1. queue \in Seq(MailsOf(workflow))
    BY DEF IInv, RunInv
  <2>2. Head(queue) \in MailsOf(workflow)
    BY <1>1, <2>1
  <2> QED
    BY <2>2 DEF MailsOf
<1> HIDE DEF m
<1>3. PICK k \in 1..Len(Mail[m].pdfs) : store' = store \cup Paths(m, k)
  BY <1>1
<1>4. k \in 0..Len(Mail[m].pdfs)
  OBVIOUS
<1>5. Paths(m, k) \in SUBSET AllPaths
  BY <1>2, <1>4, PathsType
<1>6. StoreInv /\ MaxFaults \in Nat
  BY BoundAssumption DEF IInv
<1>7. store' \in SUBSET AllPaths /\ printed' \in SUBSET store'
  BY <1>1, <1>3, <1>5, <1>6 DEF StoreInv
<1>8. faults' \in 0..MaxFaults
  BY <1>1, <1>6 DEF StoreInv
<1>9. StoreInv'
  BY <1>1, <1>6, <1>7, <1>8 DEF StoreInv
<1> QED
  BY <1>1, <1>9, IdleKeeps

\* The written sheet is the snapshot, and in order.
LEMMA WrittenSheet ==
  ASSUME IInv, pc = "validating"
  PROVE  /\ Applied(sheet, plan) = working
         /\ working \in Seq(Rows) /\ Len(working) <= MaxRows /\ Tidy(working)
         /\ Applied(working, plan) = working
<1>1. Fits(workflow, sheet, working, plan) /\ sheet \in Seq(Rows)
  BY DEF IInv, PlanInv, StoreInv
<1>2. MaxRows \in Nat /\ plan \in SUBSET OpsUpTo(MaxRows)
  BY <1>1, BoundAssumption DEF Fits, Ops
<1>3. Applied(Applied(sheet, plan), plan) = Applied(sheet, plan)
  BY <1>1, <1>2, AppliedAgain
<1> QED
  BY <1>1, <1>3 DEF Fits

\* The write phase keeps the invariant.
LEMMA CommitKeeps ==
  ASSUME IInv, CommitWrites
  PROVE  IInv'
<1>1. /\ pc = "validating" /\ pc' = "printing" /\ sheet' = Applied(sheet, plan)
      /\ UNCHANGED <<store, printed, moved, workflow, queue, working, outcome, plan, edits, faults>>
  BY DEF CommitWrites
<1>2. /\ sheet' = working /\ Applied(working, plan) = working
      /\ working \in Seq(Rows) /\ Len(working) <= MaxRows /\ Tidy(working)
  BY <1>1, WrittenSheet
<1>3. StoreInv /\ RunInv
  BY DEF IInv
<1>4. StoreInv'
  BY <1>1, <1>2, <1>3 DEF StoreInv
<1>5. RunInv'
  BY <1>1, <1>3 DEF RunInv
<1>6. PlanInv' /\ WorkingSnapshotIsOutcome'
  BY <1>1, <1>2 DEF PlanInv, WorkingSnapshotIsOutcome
<1> QED
  BY <1>4, <1>5, <1>6 DEF IInv

\* So does one that ends uncertain.
LEMMA UncertainKeeps ==
  ASSUME IInv, WritesEndUncertain
  PROVE  IInv'
<1>1. /\ pc = "validating" /\ faults < MaxFaults /\ faults' = faults + 1
      /\ sheet' \in {sheet, Applied(sheet, plan)} /\ Idle
      /\ UNCHANGED <<store, printed, moved, workflow, edits>>
  BY DEF WritesEndUncertain
<1>2. sheet' \in {sheet, working} /\ working \in Seq(Rows) /\ Len(working) <= MaxRows /\ Tidy(working)
  BY <1>1, WrittenSheet
<1>3. StoreInv /\ MaxFaults \in Nat
  BY BoundAssumption DEF IInv
<1>4. StoreInv'
  <2>1. faults' \in 0..MaxFaults
    BY <1>1, <1>3 DEF StoreInv
  <2> QED
    BY <1>1, <1>2, <1>3, <2>1 DEF StoreInv
<1> QED
  BY <1>1, <1>4, IdleKeeps

\* A run that ends without a write keeps the invariant.
LEMMA EndKeeps ==
  ASSUME IInv, PrevalidationFails \/ EndRun \/ Crash
  PROVE  IInv'
<1>1. Idle /\ UNCHANGED <<sheet, store, printed, moved, workflow, edits>>
  BY DEF PrevalidationFails, EndRun, Crash
<1>2. StoreInv /\ MaxFaults \in Nat
  BY BoundAssumption DEF IInv
<1>3. faults' \in 0..MaxFaults
  BY <1>2 DEF StoreInv, PrevalidationFails, EndRun, Crash
<1>4. StoreInv'
  BY <1>1, <1>2, <1>3 DEF StoreInv
<1> QED
  BY <1>1, <1>4, IdleKeeps

\* So do the phases after the write.
LEMMA LaterPhasesKeep ==
  ASSUME IInv, NothingToWrite \/ PrintGroup \/ PrintCompletes \/ MoveMail
  PROVE  IInv'
<1>1. StoreInv /\ RunInv /\ PlanInv /\ WorkingSnapshotIsOutcome
  BY DEF IInv
<1>2. CASE NothingToWrite
  BY <1>1, <1>2 DEF NothingToWrite, IInv, StoreInv, RunInv, PlanInv, WorkingSnapshotIsOutcome
<1>3. CASE PrintCompletes
  BY <1>1, <1>3 DEF PrintCompletes, IInv, StoreInv, RunInv, PlanInv, WorkingSnapshotIsOutcome
<1>4. CASE PrintGroup
  <2>1. /\ pc = "printing" /\ UNCHANGED <<sheet, store, moved, run, edits, faults>>
        /\ \E m \in Groups : printed' = printed \cup outcome[m].new
    BY <1>4 DEF PrintGroup
  <2>2. PICK m \in Mails : printed' = printed \cup outcome[m].new
    BY <2>1 DEF Groups
  <2>3. printed' \in SUBSET store
    BY <1>1, <2>2 DEF StoreInv, RunInv
  <2> QED
    BY <1>1, <2>1, <2>3 DEF run, IInv, StoreInv, RunInv, PlanInv, WorkingSnapshotIsOutcome
<1>5. CASE MoveMail
  <2>1. /\ pc = "moving" /\ Movable # {} /\ moved' = moved \cup {Min(Movable)}
        /\ UNCHANGED <<sheet, store, printed, run, edits, faults>>
    BY <1>5 DEF MoveMail
  <2>2. Movable \in SUBSET Mails
    BY DEF Movable
  <2>3. Mails \in SUBSET Nat
    BY MailAssumption
  <2>4. Min(Movable) \in Mails
    BY <2>1, <2>2, <2>3, SmallestNumber
  <2>5. moved' \in SUBSET Mails
    BY <1>1, <2>1, <2>4 DEF StoreInv
  <2> QED
    BY <1>1, <2>1, <2>5 DEF run, IInv, StoreInv, RunInv, PlanInv, WorkingSnapshotIsOutcome
<1> QED
  BY <1>2, <1>3, <1>4, <1>5

\* Between two runs nothing of a run is left that others could disturb.
LEMMA BetweenRuns ==
  ASSUME IInv, pc = "idle", StoreInv', UNCHANGED <<store, run>>
  PROVE  IInv'
<1>1. UNCHANGED <<pc, workflow, queue, working, outcome, plan, store>>
  BY DEF run
<1>2. RunInv /\ PlanInv /\ WorkingSnapshotIsOutcome
  BY DEF IInv
<1>3. RunInv'
  BY <1>1, <1>2 DEF RunInv
<1>4. PlanInv' /\ WorkingSnapshotIsOutcome'
  BY <1>1 DEF PlanInv, WorkingSnapshotIsOutcome
<1> QED
  BY <1>3, <1>4 DEF IInv

\* Edits of others leave the workbook in order.
LEMMA EditsKeep ==
  ASSUME IInv, Others
  PROVE  IInv'
<1>1. /\ pc = "idle" /\ edits < MaxEdits /\ edits' = edits + 1
      /\ UNCHANGED <<store, printed, moved, run, faults>>
  BY DEF Others, SwapRows, ClearRow, FillRow, Edit
<1>2. StoreInv /\ MaxEdits \in Nat /\ MaxRows \in Nat
  BY BoundAssumption DEF IInv
<1>3. sheet \in Seq(Rows) /\ Len(sheet) <= MaxRows /\ Tidy(sheet)
  BY <1>2 DEF StoreInv
<1>4. sheet' \in Seq(Rows) /\ Len(sheet') <= MaxRows /\ Tidy(sheet')
  <2>1. CASE SwapRows
    <3>1. PICK i \in DOMAIN sheet, j \in DOMAIN sheet :
            i < j /\ sheet' = [sheet EXCEPT ![i] = sheet[j], ![j] = sheet[i]]
      BY <2>1 DEF SwapRows
    <3>2. sheet' \in Seq(Rows) /\ Len(sheet') = Len(sheet) /\ DOMAIN sheet' = DOMAIN sheet
      BY <1>3, <3>1
    <3>3. /\ sheet'[i] = sheet[j] /\ sheet'[j] = sheet[i] /\ i # j
          /\ \A n \in DOMAIN sheet : n # i /\ n # j => sheet'[n] = sheet[n]
      BY <1>3, <3>1
    <3>4. Tidy(sheet')
      BY <1>3, <3>2, <3>3 DEF Tidy
    <3> QED
      BY <1>3, <3>2, <3>4
  <2>2. CASE ClearRow
    <3>1. PICK i \in DOMAIN sheet : sheet' = [sheet EXCEPT ![i] = BlankRow]
      BY <2>2 DEF ClearRow
    <3>2. BlankRow \in Rows /\ BlankRow.file = NoFile /\ ~BlankRow.buyer
      BY BlankRowType DEF BlankRow
    <3>3. sheet' \in Seq(Rows) /\ Len(sheet') = Len(sheet) /\ DOMAIN sheet' = DOMAIN sheet
      BY <1>3, <3>1, <3>2
    <3>4. sheet'[i] = BlankRow /\ \A n \in DOMAIN sheet : n # i => sheet'[n] = sheet[n]
      BY <1>3, <3>1
    <3>5. Tidy(sheet')
      BY <1>3, <3>2, <3>3, <3>4 DEF Tidy
    <3> QED
      BY <1>3, <3>3, <3>5
  <2>3. CASE FillRow
    <3>1. Len(sheet) < MaxRows
      BY <2>3 DEF FillRow
    <3>2. PICK f \in (DOMAIN Erp) \ FilesIn(sheet) :
            sheet' = Append(sheet, [BlankRow EXCEPT !.file = f, !.buyer = TRUE])
      BY <2>3 DEF FillRow
    <3> DEFINE row == [BlankRow EXCEPT !.file = f, !.buyer = TRUE]
    <3>3. row \in Rows /\ row.file = f
      BY BlankRowType DEF Rows, BlankRow
    <3>4. f # NoFile /\ \A n \in DOMAIN sheet : sheet[n].file # f
      BY RegisterAssumption DEF FilesIn
    <3>5. sheet' = Append(sheet, row)
      BY <3>2
    <3> HIDE DEF row
    <3>6. /\ sheet' \in Seq(Rows) /\ Len(sheet') = Len(sheet) + 1
          /\ DOMAIN sheet' = 1..(Len(sheet) + 1) /\ DOMAIN sheet = 1..Len(sheet) /\ Len(sheet) \in Nat
          /\ sheet'[Len(sheet) + 1] = row /\ \A n \in 1..Len(sheet) : sheet'[n] = sheet[n]
      BY <1>3, <3>3, <3>5
    <3>7. \A n \in DOMAIN sheet' : n # Len(sheet) + 1 => n \in DOMAIN sheet
      BY <3>6
    <3>8. Tidy(sheet')
      BY <1>3, <3>3, <3>4, <3>6, <3>7 DEF Tidy
    <3> QED
      BY <1>2, <1>3, <3>1, <3>6, <3>8
  <2> QED
    BY <2>1, <2>2, <2>3 DEF Others
<1>5. edits' \in 0..MaxEdits
  BY <1>1, <1>2 DEF StoreInv
<1>6. StoreInv'
  BY <1>1, <1>2, <1>4, <1>5 DEF StoreInv
<1> QED
  BY <1>1, <1>6, BetweenRuns

\* The invariant holds at first.
LEMMA InitIInv == Init => IInv
<1> SUFFICES ASSUME Init PROVE IInv
  OBVIOUS
<1>1. sheet \in Seq(Rows) /\ Len(sheet) <= MaxRows /\ Tidy(sheet)
  BY SheetAssumption DEF Init
<1>2. edits \in 0..MaxEdits /\ faults \in 0..MaxFaults
  BY BoundAssumption DEF Init
<1>3. StoreInv
  BY <1>1, <1>2 DEF Init, StoreInv
<1>4. <<>> \in Seq(MailsOf(workflow)) /\ <<>> \in Seq(Rows) /\ {} \in SUBSET Ops
  OBVIOUS
<1>5. outcome \in [Mails -> Outcomes] /\ \A m \in Mails : outcome[m].new \subseteq store
  BY NoOutcomeType DEF Init, NoOutcome
<1>6. RunInv
  BY <1>4, <1>5 DEF Init, RunInv, Workflows
<1>7. PlanInv /\ WorkingSnapshotIsOutcome
  BY DEF Init, PlanInv, WorkingSnapshotIsOutcome
<1> QED
  BY <1>3, <1>6, <1>7 DEF IInv

\* Every step keeps it.
LEMMA NextIInv == IInv /\ [Next]_vars => IInv'
<1> SUFFICES ASSUME IInv, [Next]_vars PROVE IInv'
  OBVIOUS
<1>1. CASE \E w \in Workflows : StartRun(w)
  BY <1>1, StartRunKeeps
<1>2. CASE ValidateExportMail \/ ValidateUdMail \/ SavingFails \/ StagingFails
  BY <1>2, ValidatingKeeps
<1>3. CASE CrashWhileSaving
  BY <1>3, CrashWhileSavingKeeps
<1>4. CASE CommitWrites
  BY <1>4, CommitKeeps
<1>5. CASE WritesEndUncertain
  BY <1>5, UncertainKeeps
<1>6. CASE PrevalidationFails \/ EndRun \/ Crash
  BY <1>6, EndKeeps
<1>7. CASE NothingToWrite \/ PrintGroup \/ PrintCompletes \/ MoveMail
  BY <1>7, LaterPhasesKeep
<1>8. CASE Others
  BY <1>8, EditsKeep
<1>9. CASE UNCHANGED vars
  BY <1>9 DEF vars, run, IInv, StoreInv, RunInv, PlanInv, WorkingSnapshotIsOutcome
<1> QED
  BY <1>1, <1>2, <1>3, <1>4, <1>5, <1>6, <1>7, <1>8, <1>9 DEF Next, RunStep, Faulty

\* The invariant holds of every run, whatever dies or fails between two runs and
\* whatever others do to the workbook between them.
THEOREM InvTheorem == Spec => []IInv
BY InitIInv, NextIInv, PTL DEF Spec

\* The invariant tells the types of the state.
LEMMA InvType == IInv => TypeOK
<1> SUFFICES ASSUME IInv PROVE TypeOK
  OBVIOUS
<1>1. StoreInv /\ RunInv
  BY DEF IInv
<1>2. ToSet(queue) \subseteq Mails
  <2>1. queue \in Seq(MailsOf(workflow))
    BY <1>1 DEF RunInv
  <2>2. \A i \in DOMAIN queue : queue[i] \in MailsOf(workflow)
    BY <2>1
  <2> QED
    BY <2>2 DEF ToSet, MailsOf
<1>3. ASSUME NEW m \in Mails
      PROVE  /\ outcome[m].blocked \in BOOLEAN /\ outcome[m].disposition \in Dispositions
             /\ outcome[m].new \subseteq store
  <2>1. outcome[m] \in Outcomes /\ outcome[m].new \subseteq store
    BY <1>1 DEF RunInv
  <2> QED
    BY <2>1 DEF Outcomes
<1>4. ASSUME NEW op \in plan
      PROVE  op.row \in 1..MaxRows /\ (IsAppend(op) => op.file \in DOMAIN Erp)
  <2>1. op \in Ops
    BY <1>1 DEF RunInv
  <2> QED
    BY <2>1 DEF Ops, OpsUpTo, IsAppend
<1> QED
  BY <1>1, <1>2, <1>3, <1>4 DEF TypeOK, StoreInv, RunInv

\* The state of a run and of what outlasts it is well formed: no write names a
\* row beyond the sheet, nor a file the register does not know.
THEOREM MailTypeTheorem == Spec => []TypeOK
BY InvTheorem, InvType, PTL

\* The snapshot the mails are validated against is the workbook as the whole
\* batch leaves it, for any mails, documents and register.
THEOREM SnapshotTheorem == Spec => []WorkingSnapshotIsOutcome
<1>1. IInv => WorkingSnapshotIsOutcome
  BY DEF IInv
<1> QED
  BY <1>1, InvTheorem, PTL
-----------------------------------------------------------------------------
(* The ledger: what the writes claim.                                      *)

\* No two operations on one row.
RowsApart(ops) == \A o, p \in ops : o.row = p.row => o = p

\* A row of the family shows the numbers.
Held(rows, lc, numbers) == \E i \in FamilyRows(rows, lc) : rows[i].shared = numbers

\* The numbers of a mail of IP and EXP documents.
CoverNumbers(m) == {Doc[d].number : d \in DocsOf(m)}

\* A write for a UD document of the mail.
UdWrite(m, op) == \E d \in OfKind(DocsOf(m), {"UD"}) : op.shared = {Doc[d].number}

\* A write for IP and EXP documents, one of many that take the family.
CoverWrite(m, rows, ops, op) ==
  /\ IpExpRulesPass(m) /\ op.shared = CoverNumbers(m)
  /\ \A i \in FamilyRows(rows, VerifiedFamily(m)) :
       \E q \in ops : q.row = i /\ q.shared = op.shared

\* A write enters a document of its mail on a row of the family.
ClaimsRow(rows, ops, op) ==
  /\ op.row \in FamilyRows(rows, VerifiedFamily(op.mail))
  /\ UdWrite(op.mail, op) \/ CoverWrite(op.mail, rows, ops, op)

\* All writes do, each on a row of its own.
LedgerPlan(rows, ops) ==
  RowsApart(ops) /\ \A op \in ops : ClaimsRow(rows, ops, op)

\* A sheet shows all documents of a mail.
ShowsMail(m, rows) ==
  /\ \A d \in OfKind(DocsOf(m), {"UD"}) : Held(rows, VerifiedFamily(m), {Doc[d].number})
  /\ OfKind(DocsOf(m), {"IP", "EXP"}) # {} =>
       IpExpRulesPass(m) /\ Held(rows, VerifiedFamily(m), CoverNumbers(m))

\* The family is that of the files.
LEMMA SameFamilyRows ==
  ASSUME NEW a, NEW b, NEW lc, DOMAIN a = DOMAIN b, \A i \in DOMAIN a : a[i].file = b[i].file
  PROVE  FamilyRows(a, lc) = FamilyRows(b, lc)
BY DEF FamilyRows

\* The groups of rows that agree with a document are not empty.
LEMMA AgreeingGroups ==
  ASSUME NEW rows, NEW T, NEW doc, NEW g \in Agreeing(rows, T, doc)
  PROVE  g \in SUBSET T /\ g # {}
<1>1. g \in ValueGroups(rows, T, doc.value) /\ QuantitiesAgree(rows, g, doc)
  BY DEF Agreeing
<1>2. g \in SUBSET T
  BY <1>1 DEF ValueGroups
<1>3. UnitsOf(rows, g) # {}
  BY <1>1 DEF QuantitiesAgree
<1>4. g # {}
  BY <1>3 DEF UnitsOf
<1> QED
  BY <1>2, <1>4

\* The rows of a family that show a document, and those still open.
ShowingRows(rows, lc, doc) == {i \in FamilyRows(rows, lc) : ShowsDocument(rows[i], doc)}
OpenRows(rows, lc, excluded) ==
  {i \in FamilyRows(rows, lc) : rows[i].shared = {} /\ i \notin excluded}

\* What an allocation selects are rows of the family that agree with a document
\* not recorded yet; what it finds recorded shows the document.
LEMMA AllocationFinds ==
  ASSUME NEW rows \in Seq(Rows), NEW lc, NEW doc, NEW excluded,
         NEW a, a = Allocation(rows, lc, doc, excluded)
  PROVE  /\ a.decision \in {"already_recorded", "selected"} =>
              a.rows # {} /\ a.rows \in SUBSET FamilyRows(rows, lc)
         /\ a.decision = "already_recorded" =>
              /\ \A i \in a.rows : rows[i].shared = {doc.number}
              /\ a.rows \in Agreeing(rows, ShowingRows(rows, lc, doc), doc)
         /\ a.decision \in {"already_recorded", "selected"} => Allocatable(doc)
         /\ a.decision = "selected" =>
              /\ Agreeing(rows, ShowingRows(rows, lc, doc), doc) = {}
              /\ a.rows \in Agreeing(rows, OpenRows(rows, lc, excluded), doc)
<1> DEFINE family == FamilyRows(rows, lc)
           shown == ShowingRows(rows, lc, doc)
           open == OpenRows(rows, lc, excluded)
           recorded == Agreeing(rows, shown, doc)
           free == Agreeing(rows, open, doc)
           S == DOMAIN rows
<1>1. S \in SUBSET Nat /\ IsFiniteSet(S)
  <2>1. S = 1..Len(rows) /\ Len(rows) \in Int /\ 1 \in Int
    OBVIOUS
  <2>2. IsFiniteSet(1..Len(rows))
    BY <2>1, FS_Interval
  <2> QED
    BY <2>1, <2>2
<1>2. family \in SUBSET S
  BY DEF FamilyRows
<1>3. \A i \in shown : rows[i].shared = {doc.number}
  BY DEF ShowsDocument, ShowingRows
<1>4. shown \in SUBSET family /\ open \in SUBSET family
  BY DEF ShowingRows, OpenRows
<1> HIDE DEF family, shown, open, S
<1>5. \A g \in recorded : g \in SUBSET shown /\ g # {}
  BY AgreeingGroups
<1>6. \A g \in free : g \in SUBSET open /\ g # {}
  BY AgreeingGroups
<1>7. recorded \in SUBSET SUBSET S /\ free \in SUBSET SUBSET S
  BY <1>2, <1>4, <1>5, <1>6
<1> HIDE DEF recorded, free
<1>8. recorded # {} => FirstGroup(recorded) \in recorded
  BY <1>1, <1>7, FirstGroupIs
<1>9. free # {} => FirstGroup(free) \in free
  BY <1>1, <1>7, FirstGroupIs
<1>10. CASE Allocatable(doc)
  <2>1. a = Chosen(recorded, free)
    BY <1>10 DEF Allocation, recorded, free, shown, open, ShowingRows, OpenRows
  <2>2. CASE recorded # {}
    <3>1. a.decision = "already_recorded" /\ a.rows = FirstGroup(recorded)
      BY <2>1, <2>2 DEF Chosen
    <3> QED
      BY <1>3, <1>4, <1>5, <1>8, <1>10, <2>2, <3>1 DEF family, recorded, shown
  <2>3. CASE recorded = {} /\ free # {}
    <3>1. a.decision = "selected" /\ a.rows = FirstGroup(free)
      BY <2>1, <2>3 DEF Chosen
    <3>2. a.rows # {} /\ a.rows \in SUBSET FamilyRows(rows, lc)
      BY <1>4, <1>6, <1>9, <2>3, <3>1 DEF family
    <3>3. recorded = {} /\ a.rows \in free
      BY <1>9, <2>3, <3>1
    <3> QED
      BY <1>10, <3>1, <3>2, <3>3 DEF recorded, free, shown, open
  <2>4. CASE recorded = {} /\ free = {}
    <3>1. a.decision = "hard_block"
      BY <2>1, <2>4 DEF Chosen
    <3> QED
      BY <3>1
  <2> QED
    BY <2>2, <2>3, <2>4
<1>11. CASE ~Allocatable(doc)
  <2>1. a.decision = "hard_block"
    BY <1>11 DEF Allocation
  <2> QED
    BY <2>1
<1> QED
  BY <1>10, <1>11

\* Assignments leave what the sheet shows, and show what they assign.
LEMMA AssignedShow ==
  ASSUME NEW rows \in Seq(Rows), NEW ops \in SUBSET Ops, Assigns(rows, ops), RowsApart(ops),
         NEW new, new = Applied(rows, ops)
  PROVE  /\ DOMAIN new = DOMAIN rows
         /\ \A i \in DOMAIN rows : new[i].file = rows[i].file
         /\ \A i \in DOMAIN rows : rows[i].shared # {} => new[i].shared = rows[i].shared
         /\ \A i \in DOMAIN rows : OpsAt(ops, i) = {} => new[i] = rows[i]
         /\ \A op \in ops : new[op.row].shared = op.shared /\ new[op.row].date = op.date
<1>1. MaxRows \in Nat /\ ops \in SUBSET OpsUpTo(MaxRows)
  BY BoundAssumption DEF Ops
<1>2. \A op \in ops : ~IsAppend(op) /\ op.row \in DOMAIN rows /\ TargetsFree(rows[op.row])
  BY DEF Assigns
<1>3. DOMAIN new = DOMAIN rows /\ \A i \in DOMAIN rows : new[i].file = rows[i].file
  BY <1>1, <1>2, AssignsKeepFiles
<1>4. \A i \in DOMAIN new : new[i] = RowAfter(rows, ops, i)
  BY <1>1, AppliedType
<1>5. \A i \in DOMAIN rows : OpsAt(ops, i) = {} => new[i] = rows[i]
  <2>1. ASSUME NEW i \in DOMAIN rows, OpsAt(ops, i) = {} PROVE new[i] = rows[i]
    <3>1. RowAfter(rows, ops, i) = RowAt(rows, i)
      BY <1>1, <2>1, RowAfterIs
    <3>2. RowAt(rows, i) = rows[i]
      BY DEF RowAt
    <3> QED
      BY <1>3, <1>4, <3>1, <3>2
  <2> QED
    BY <2>1
<1>6. \A i \in DOMAIN rows : rows[i].shared # {} => OpsAt(ops, i) = {}
  BY <1>2 DEF OpsAt, TargetsFree
<1>7. ASSUME NEW op \in ops
      PROVE  new[op.row].shared = op.shared /\ new[op.row].date = op.date
  <2> DEFINE i == op.row
  <2>1. i \in DOMAIN rows /\ op \in OpsAt(ops, i)
    BY <1>2 DEF OpsAt
  <2>2. PICK q \in ops : q.row = i /\ RowAfter(rows, ops, i) = Written(RowAt(rows, i), q)
    BY <1>1, <2>1, RowAfterIs
  <2>3. q = op
    BY <2>2 DEF RowsApart
  <2>4. RowAt(rows, i) \in Rows /\ op \in OpsUpTo(MaxRows) /\ ~IsAppend(op)
    BY <1>1, <1>2, RowAtType
  <2> HIDE DEF i
  <2>5. /\ Written(RowAt(rows, i), op).shared = op.shared
        /\ Written(RowAt(rows, i), op).date = op.date
    BY <1>1, <2>4, WrittenType
  <2> QED
    BY <1>3, <1>4, <2>1, <2>2, <2>3, <2>5 DEF i
<1> QED
  BY <1>3, <1>5, <1>6, <1>7

\* So what is held stays held.
LEMMA HeldAfter ==
  ASSUME NEW rows \in Seq(Rows), NEW ops \in SUBSET Ops, Assigns(rows, ops), RowsApart(ops),
         NEW lc, NEW numbers, numbers # {}, Held(rows, lc, numbers)
  PROVE  Held(Applied(rows, ops), lc, numbers)
<1> DEFINE new == Applied(rows, ops)
<1>1. /\ DOMAIN new = DOMAIN rows
      /\ \A i \in DOMAIN rows : new[i].file = rows[i].file
      /\ \A i \in DOMAIN rows : rows[i].shared # {} => new[i].shared = rows[i].shared
  BY AssignedShow
<1> HIDE DEF new
<1>2. FamilyRows(new, lc) = FamilyRows(rows, lc)
  BY <1>1, SameFamilyRows
<1>3. PICK i \in FamilyRows(rows, lc) : rows[i].shared = numbers
  BY DEF Held
<1>4. i \in DOMAIN rows
  BY DEF FamilyRows
<1>5. Held(new, lc, numbers)
  BY <1>1, <1>2, <1>3, <1>4 DEF Held
<1> QED
  BY <1>5 DEF new

\* One document on some rows is on each row once.
LEMMA AssignsToApart ==
  ASSUME NEW m, NEW R, NEW shared, NEW date
  PROVE  /\ RowsApart(AssignsTo(m, R, shared, date))
         /\ \A op \in AssignsTo(m, R, shared, date) :
              op.row \in R /\ op.shared = shared /\ op.mail = m
         /\ \A i \in R : \E op \in AssignsTo(m, R, shared, date) : op.row = i
<1>1. \A i \in R : /\ AssignOp(m, i, shared, date).row = i
                   /\ AssignOp(m, i, shared, date).shared = shared
                   /\ AssignOp(m, i, shared, date).mail = m
  BY DEF AssignOp
<1> QED
  BY <1>1 DEF AssignsTo, RowsApart
-----------------------------------------------------------------------------
(* What the staging of a mail claims. *)

\* The writes for UD documents of a mail go to rows of its family.
UdPlan(m, rows, ops) ==
  RowsApart(ops) /\ \A op \in ops : /\ op.row \in FamilyRows(rows, VerifiedFamily(m))
                                    /\ UdWrite(m, op)

\* Assignments on rows that earlier ones have left free stand apart from them.
LEMMA AssignsApart ==
  ASSUME NEW rows \in Seq(Rows), NEW P \in SUBSET Ops, NEW O \in SUBSET Ops,
         Assigns(rows, P), Assigns(Applied(rows, P), O)
  PROVE  \A p \in P, o \in O : p.row # o.row
<1> DEFINE s == Applied(rows, P)
<1>1. /\ DOMAIN s = DOMAIN rows
      /\ \A i \in DOMAIN rows : TargetsFree(s[i]) => OpsAt(P, i) = {}
  BY AssignedRows
<1>2. \A o \in O : o.row \in DOMAIN s /\ TargetsFree(s[o.row])
  BY DEF Assigns
<1> HIDE DEF s
<1>3. \A o \in O : OpsAt(P, o.row) = {}
  BY <1>1, <1>2
<1> QED
  BY <1>3 DEF OpsAt

\* Each document joins its writes; if it does not block the mail, the snapshot
\* shows it.
LEMMA StageNextHolds ==
  ASSUME NEW m \in Mails, NEW rows \in Seq(Rows), Len(rows) <= MaxRows,
         NEW s \in Stages(m, rows), UdPlan(m, rows, s.ops),
         NEW d \in OfKind(DocsOf(m), {"UD"}), d \in Docs, NEW t, t = StageNext(s, m, d)
  PROVE  /\ UdPlan(m, rows, t.ops)
         /\ ~t.blocked => ~s.blocked /\ Held(t.rows, VerifiedFamily(m), {Doc[d].number})
         /\ \A lc, numbers : numbers # {} /\ Held(s.rows, lc, numbers) => Held(t.rows, lc, numbers)
<1> DEFINE lc == VerifiedFamily(m)
           a == Allocation(s.rows, lc, Doc[d], s.excluded)
           ops == {AssignOp(m, i, {Doc[d].number}, Doc[d].date) : i \in a.rows}
<1>1. /\ s \in [rows : Seq(Rows), excluded : SUBSET Nat, ops : SUBSET Ops, blocked : BOOLEAN,
                duplicates : BOOLEAN]
      /\ s.rows = Applied(rows, s.ops) /\ Assigns(rows, s.ops)
  BY DEF Stages
<1>2. /\ DOMAIN s.rows = DOMAIN rows /\ Len(s.rows) = Len(rows)
      /\ \A i \in DOMAIN rows : s.rows[i].file = rows[i].file
  BY <1>1, AssignedRows
<1>3. FamilyRows(s.rows, lc) = FamilyRows(rows, lc)
  BY <1>2, SameFamilyRows
<1>4. t = Stage(s, m, d, a)
  BY DEF StageNext
<1>5. /\ a.decision \in {"already_recorded", "selected"} =>
            a.rows # {} /\ a.rows \in SUBSET FamilyRows(s.rows, lc)
      /\ a.decision = "already_recorded" => \A i \in a.rows : s.rows[i].shared = {Doc[d].number}
  BY <1>1, AllocationFinds
<1>6. Doc[d].number \in Numbers /\ Doc[d].date \in Nat
  BY DocAssumption
<1> HIDE DEF a, lc
<1>7. CASE a.decision = "already_recorded"
  <2>1. t = [s EXCEPT !.duplicates = TRUE, !.excluded = @ \cup a.rows]
    BY <1>4, <1>7 DEF Stage
  <2>2. t.rows = s.rows /\ t.ops = s.ops /\ t.blocked = s.blocked
    BY <1>1, <2>1
  <2>3. Held(s.rows, lc, {Doc[d].number})
    BY <1>5, <1>7 DEF Held
  <2> QED
    BY <2>2, <2>3 DEF lc
<1>8. CASE /\ a.decision = "selected" /\ \A i \in a.rows : TargetsFree(s.rows[i])
  <2>1. t = [s EXCEPT !.ops = @ \cup ops, !.excluded = @ \cup a.rows, !.rows = Applied(@, ops)]
    BY <1>4, <1>8 DEF Stage
  <2> DEFINE shared == {Doc[d].number}
             w == AssignsTo(m, a.rows, shared, Doc[d].date)
  <2>2. w = ops
    BY DEF AssignsTo
  <2>3. shared \in SUBSET Numbers /\ shared # {}
    BY <1>6
  <2>4. a.rows \in SUBSET DOMAIN s.rows
    BY <1>5, <1>8 DEF FamilyRows
  <2> HIDE DEF ops, shared
  <2>5. Len(s.rows) <= MaxRows /\ s.rows \in Seq(Rows)
    BY <1>1, <1>2
  <2>6. w \in SUBSET Ops /\ Assigns(s.rows, w)
    BY <1>6, <1>8, <2>3, <2>4, <2>5, AssignsOnRows
  <2>7. /\ RowsApart(w) /\ \A op \in w : op.row \in a.rows /\ op.shared = shared
        /\ \A i \in a.rows : \E op \in w : op.row = i
    BY AssignsToApart
  <2> HIDE DEF w
  <2>8. \A p \in s.ops, o \in w : p.row # o.row
    BY <1>1, <2>6, AssignsApart
  <2>9. RowsApart(s.ops \cup w)
    BY <2>7, <2>8 DEF RowsApart, UdPlan
  <2>10. \A op \in w : op.row \in FamilyRows(rows, lc) /\ UdWrite(m, op)
    <3>1. \A op \in w : op.row \in FamilyRows(rows, lc)
      BY <1>3, <1>5, <1>8, <2>7
    <3>2. \A op \in w : UdWrite(m, op)
      BY <2>7 DEF UdWrite, shared
    <3> QED
      BY <3>1, <3>2
  <2>11. UdPlan(m, rows, s.ops \cup w)
    BY <2>9, <2>10 DEF UdPlan, lc
  <2> DEFINE new == Applied(s.rows, w)
  <2>12. t.rows = new /\ t.ops = s.ops \cup w /\ t.blocked = s.blocked
    BY <1>1, <2>1, <2>2
  <2>13. /\ DOMAIN new = DOMAIN s.rows
         /\ \A i \in DOMAIN s.rows : new[i].file = s.rows[i].file
         /\ \A op \in w : new[op.row].shared = op.shared
    BY <2>5, <2>6, <2>7, AssignedShow
  <2>14. \A f, numbers : numbers # {} /\ Held(s.rows, f, numbers) => Held(new, f, numbers)
    BY <2>5, <2>6, <2>7, HeldAfter
  <2> HIDE DEF new
  <2>15. FamilyRows(new, lc) = FamilyRows(s.rows, lc)
    BY <2>13, SameFamilyRows
  <2>16. PICK i \in a.rows : TRUE
    BY <1>5, <1>8
  <2>17. PICK op \in w : op.row = i
    BY <2>7, <2>16
  <2>18. new[i].shared = shared /\ i \in FamilyRows(new, lc)
    BY <1>5, <1>8, <2>7, <2>13, <2>15, <2>16, <2>17
  <2>19. Held(new, lc, shared)
    BY <2>18 DEF Held
  <2> QED
    BY <2>11, <2>12, <2>14, <2>19 DEF lc, shared
<1>9. CASE ~(a.decision = "already_recorded")
           /\ ~(a.decision = "selected" /\ \A i \in a.rows : TargetsFree(s.rows[i]))
  <2>1. t = [s EXCEPT !.blocked = TRUE]
    BY <1>4, <1>9 DEF Stage
  <2>2. t.rows = s.rows /\ t.ops = s.ops /\ t.blocked
    BY <1>1, <2>1
  <2> QED
    BY <2>2
<1> QED
  BY <1>7, <1>8, <1>9

\* The documents staged so far are shown, unless one has blocked the mail.
ShownSoFar(m, s, k) ==
  ~s.blocked => \A j \in 1..k : Held(s.rows, VerifiedFamily(m), {Doc[Kept(m)[j]].number})

\* So are in the end all that are kept.
LEMMA StagedHolds ==
  ASSUME NEW m \in Mails, NEW rows \in Seq(Rows), Len(rows) <= MaxRows
  PROVE  /\ UdPlan(m, rows, Staged(m, rows).ops)
         /\ ShownSoFar(m, Staged(m, rows), Len(Kept(m)))
<1> DEFINE n == Len(Kept(m))
<1>1. /\ n \in Nat /\ \A k \in 1..n : Kept(m)[k] \in OfKind(DocsOf(m), {"UD"}) /\ Kept(m)[k] \in Docs
  BY KeptIs
<1>2. PICK after :
        /\ after[0] = NothingStaged(m, rows)
        /\ \A k \in 1..n : after[k] = StageNext(after[k - 1], m, Kept(m)[k])
        /\ \A k \in 0..n : after[k] \in Stages(m, rows)
        /\ Staged(m, rows) = after[n]
  BY StagedSteps
<1> HIDE DEF n
<1> DEFINE T == {k \in 0..n : UdPlan(m, rows, after[k].ops) /\ ShownSoFar(m, after[k], k)}
<1>3. 0 \in T
  <2>1. after[0].ops = {}
    BY <1>2 DEF NothingStaged
  <2>2. UdPlan(m, rows, {})
    BY DEF UdPlan, RowsApart
  <2>3. \A j \in 1..0 : FALSE
    OBVIOUS
  <2>4. ShownSoFar(m, after[0], 0)
    BY <2>3 DEF ShownSoFar
  <2>5. 0 \in 0..n
    BY <1>1
  <2>6. UdPlan(m, rows, after[0].ops)
    BY <2>1, <2>2
  <2> QED
    BY <2>4, <2>5, <2>6
<1>4. ASSUME NEW k \in 1..n, k - 1 \in T PROVE k \in T
  <2> DEFINE s == after[k - 1]
             t == after[k]
             d == Kept(m)[k]
  <2>1. UdPlan(m, rows, s.ops) /\ ShownSoFar(m, s, k - 1)
    BY <1>4
  <2>2. k - 1 \in 0..n /\ k \in 0..n /\ k \in Nat
    BY <1>1
  <2>3. s \in Stages(m, rows) /\ t = StageNext(s, m, d)
    BY <1>2, <2>2
  <2>4. d \in OfKind(DocsOf(m), {"UD"}) /\ d \in Docs
    BY <1>1
  <2> HIDE DEF s, t, d
  <2>5. /\ UdPlan(m, rows, t.ops)
        /\ ~t.blocked => ~s.blocked /\ Held(t.rows, VerifiedFamily(m), {Doc[d].number})
        /\ \A lc, numbers : numbers # {} /\ Held(s.rows, lc, numbers) => Held(t.rows, lc, numbers)
    BY <2>1, <2>3, <2>4, StageNextHolds
  <2>6. ASSUME ~t.blocked, NEW j \in 1..k
        PROVE  Held(t.rows, VerifiedFamily(m), {Doc[Kept(m)[j]].number})
    <3>1. CASE j = k
      BY <2>5, <2>6, <3>1 DEF d
    <3>2. CASE j # k
      <4>1. j \in 1..(k - 1)
        BY <2>2, <3>2
      <4>2. Held(s.rows, VerifiedFamily(m), {Doc[Kept(m)[j]].number})
        BY <2>1, <2>5, <2>6, <4>1 DEF ShownSoFar
      <4>3. {Doc[Kept(m)[j]].number} # {}
        OBVIOUS
      <4> QED
        BY <2>5, <4>2, <4>3
    <3> QED
      BY <3>1, <3>2
  <2>7. ShownSoFar(m, t, k)
    BY <2>6 DEF ShownSoFar
  <2> QED
    BY <2>2, <2>5, <2>7 DEF t
<1> HIDE DEF T
<1>5. 0..n \subseteq T
  BY <1>1, <1>3, <1>4, UpTo
<1>6. n \in T
  BY <1>1, <1>5
<1> QED
  BY <1>2, <1>6 DEF T, n

\* Every UD document is kept or has a twin that is.
LEMMA TwinIsKept ==
  ASSUME NEW m \in Mails, NEW d \in OfKind(DocsOf(m), {"UD"})
  PROVE  \E k \in 1..Len(Kept(m)) : Doc[Kept(m)[k]].number = Doc[d].number
<1> DEFINE e == Min(Twins(m, d))
<1>1. Twins(m, d) \in SUBSET Nat /\ d \in Twins(m, d)
  <2>1. OfKind(DocsOf(m), {"UD"}) \subseteq Docs /\ Docs \subseteq Nat
    BY DocAssumption DEF OfKind, DocsOf
  <2> QED
    BY <2>1 DEF Twins
<1>2. e \in Twins(m, d)
  <2>1. Twins(m, d) # {}
    BY <1>1
  <2> QED
    BY <1>1, <2>1, SmallestNumber
<1> HIDE DEF e
<1>3. e \in OfKind(DocsOf(m), {"UD"}) /\ Doc[e].number = Doc[d].number
  BY <1>2 DEF Twins
<1>4. Twins(m, e) = Twins(m, d)
  BY <1>3 DEF Twins
<1>5. e = Min(Twins(m, e))
  BY <1>4 DEF e
<1>6. \E k \in 1..Len(Kept(m)) : Kept(m)[k] = e
  BY <1>3, <1>5, KeptIs
<1> QED
  BY <1>3, <1>6

\* The writes of a mail, on a snapshot, enter its documents; if it is not
\* blocked, the snapshot then shows them all.
EntersMail(m, rows, staging) ==
  /\ LedgerPlan(rows, staging.ops)
  /\ ~staging.blocked => ShowsMail(m, Applied(rows, staging.ops))

\* A blocked mail enters nothing.
LEMMA BlockedEnters == ASSUME NEW m, NEW rows PROVE EntersMail(m, rows, Blocked)
BY DEF EntersMail, Blocked, LedgerPlan, RowsApart

\* UD documents.
LEMMA UdStagingEnters ==
  ASSUME NEW m \in Mails, NEW rows \in Seq(Rows), Len(rows) <= MaxRows,
         OfKind(DocsOf(m), {"UD"}) = DocsOf(m)
  PROVE  EntersMail(m, rows, UdStaging(m, rows))
<1> DEFINE s == Staged(m, rows)
           ops == IF s.blocked THEN {} ELSE s.ops
           lc == VerifiedFamily(m)
<1>1. s \in Stages(m, rows)
  BY StagedIs
<1>2. UdStaging(m, rows) = [ops |-> ops, duplicates |-> s.duplicates, blocked |-> s.blocked]
  BY DEF UdStaging, StagingOf
<1>3. UdPlan(m, rows, s.ops) /\ ShownSoFar(m, s, Len(Kept(m)))
  BY StagedHolds
<1> HIDE DEF s
<1>4. s.rows = Applied(rows, s.ops) /\ \A op \in s.ops : op.mail = m
  BY <1>1 DEF Stages
<1>5. LedgerPlan(rows, s.ops)
  BY <1>3, <1>4 DEF UdPlan, LedgerPlan, ClaimsRow
<1>6. LedgerPlan(rows, ops)
  BY <1>5 DEF LedgerPlan, RowsApart
<1>7. ASSUME ~s.blocked PROVE ShowsMail(m, Applied(rows, ops))
  <2>1. Applied(rows, ops) = s.rows
    BY <1>4, <1>7
  <2>2. ASSUME NEW d \in OfKind(DocsOf(m), {"UD"}) PROVE Held(s.rows, lc, {Doc[d].number})
    <3>1. PICK k \in 1..Len(Kept(m)) : Doc[Kept(m)[k]].number = Doc[d].number
      BY TwinIsKept
    <3> QED
      BY <1>3, <1>7, <3>1 DEF ShownSoFar
  <2>3. OfKind(DocsOf(m), {"IP", "EXP"}) = {}
    BY DEF OfKind
  <2> HIDE DEF ops
  <2> QED
    BY <2>1, <2>2, <2>3 DEF ShowsMail
<1> HIDE DEF ops
<1> QED
  BY <1>2, <1>6, <1>7 DEF EntersMail

\* IP and EXP documents.
LEMMA IpExpStagingEnters ==
  ASSUME NEW m \in Mails, NEW rows \in Seq(Rows), Len(rows) <= MaxRows, IpExpRulesPass(m)
  PROVE  EntersMail(m, rows, IpExpStaging(m, rows))
<1> DEFINE lc == VerifiedFamily(m)
           family == FamilyRows(rows, lc)
           shared == CoverNumbers(m)
           date == Doc[CHOOSE d \in DocsOf(m) : TRUE].date
           recorded == family # {} /\ FamilyShows(rows, family, shared, date)
           free == family # {} /\ \A i \in family : TargetsFree(rows[i])
           w == AssignsTo(m, family, shared, date)
           ops == IF free THEN w ELSE {}
           blocked == ~free /\ ~recorded
           staging == IpExpStaging(m, rows)
           new == Applied(rows, ops)
<1>1. staging = [ops |-> ops, duplicates |-> FALSE, blocked |-> blocked]
  BY DEF IpExpStaging, AssignsTo, CoverNumbers
<1>2. staging.ops = ops /\ staging.blocked = blocked
  BY <1>1
<1>3. AssignsFor(m, rows, staging)
  BY IpExpStagingIs
<1> HIDE DEF staging
<1>4. ops \in SUBSET Ops /\ Assigns(rows, ops)
  BY <1>2, <1>3 DEF AssignsFor
<1> HIDE DEF shared, date, family
<1>5. /\ RowsApart(w)
      /\ \A op \in w : op.row \in family /\ op.shared = shared /\ op.mail = m
      /\ \A i \in family : \E op \in w : op.row = i
  BY AssignsToApart
<1> HIDE DEF w
<1>6. LedgerPlan(rows, ops)
  <2>1. LedgerPlan(rows, w)
    <3>1. ASSUME NEW op \in w PROVE ClaimsRow(rows, w, op)
      BY <1>5 DEF ClaimsRow, CoverWrite, shared, family, lc
    <3> QED
      BY <1>5, <3>1 DEF LedgerPlan
  <2>2. LedgerPlan(rows, {})
    BY DEF LedgerPlan, RowsApart
  <2> QED
    BY <2>1, <2>2
<1>7. ASSUME ~blocked PROVE Held(new, lc, shared)
  <2>1. CASE free
    <3>1. ops = w
      BY <2>1
    <3>2. RowsApart(ops)
      BY <1>5, <3>1
    <3> HIDE DEF ops
    <3>3. /\ DOMAIN new = DOMAIN rows
          /\ \A i \in DOMAIN rows : new[i].file = rows[i].file
          /\ \A op \in ops : new[op.row].shared = op.shared
      BY <1>4, <3>2, AssignedShow
    <3> HIDE DEF new
    <3>4. FamilyRows(new, lc) = family
      BY <3>3, SameFamilyRows DEF family
    <3>5. PICK i \in family : TRUE
      BY <2>1
    <3>6. PICK op \in ops : op.row = i
      BY <1>5, <3>1, <3>5
    <3>7. new[i].shared = shared
      BY <1>5, <3>1, <3>3, <3>6
    <3> QED
      BY <3>4, <3>5, <3>7 DEF Held
  <2>2. CASE ~free
    <3>1. new = rows
      BY <2>2, NothingApplied
    <3>2. PICK i \in family : rows[i].shared = shared
      BY <1>7, <2>2 DEF FamilyShows
    <3> HIDE DEF new
    <3> QED
      BY <3>1, <3>2 DEF Held, family
  <2> QED
    BY <2>1, <2>2
<1> HIDE DEF ops, new, blocked
<1>8. OfKind(DocsOf(m), {"UD"}) = {}
  BY DEF IpExpRulesPass
<1>9. ~blocked => ShowsMail(m, new)
  BY <1>7, <1>8 DEF ShowsMail, shared, lc
<1> QED
  BY <1>2, <1>6, <1>9 DEF EntersMail, staging, new

\* Whatever its documents are.
LEMMA StagingEnters ==
  ASSUME NEW m \in Mails, NEW rows \in Seq(Rows), Len(rows) <= MaxRows,
         Mail[m].workflow = "ud_ip_exp"
  PROVE  EntersMail(m, rows, Staging(m, rows))
<1>1. EntersMail(m, rows, Blocked)
  BY BlockedEnters
<1>2. CASE DocsOf(m) = {} \/ Conflicting(m)
  BY <1>1, <1>2 DEF Staging, UdIpExpStaging
<1>3. CASE ~(DocsOf(m) = {} \/ Conflicting(m)) /\ OfKind(DocsOf(m), {"UD"}) = DocsOf(m)
  <2>1. EntersMail(m, rows, UdStaging(m, rows))
    BY <1>3, UdStagingEnters
  <2> QED
    BY <1>1, <1>3, <2>1 DEF Staging, UdIpExpStaging
<1>4. CASE ~(DocsOf(m) = {} \/ Conflicting(m)) /\ OfKind(DocsOf(m), {"UD"}) # DocsOf(m)
  <2>1. IpExpRulesPass(m) => EntersMail(m, rows, IpExpStaging(m, rows))
    BY IpExpStagingEnters
  <2> QED
    BY <1>1, <1>4, <2>1 DEF Staging, UdIpExpStaging, SharedStaging
<1> QED
  BY <1>2, <1>3, <1>4
-----------------------------------------------------------------------------
(* What joins the plan, and what is written.                               *)

\* The writes of a mail go to rows that those of the mails before it leave alone.
LEMMA StagingApart ==
  ASSUME NEW m \in Mails, NEW s \in Seq(Rows), NEW w, NEW p,
         Fits(Mail[m].workflow, s, w, p)
  PROVE  \A o \in p, q \in Staging(m, w).ops : o.row # q.row
<1> DEFINE wf == Mail[m].workflow
           O == Staging(m, w).ops
<1>1. /\ w \in Seq(Rows) /\ Len(w) <= MaxRows /\ Tidy(w)
      /\ p \in SUBSET Ops /\ w = Applied(s, p)
  BY DEF Fits
<1>2. O \in SUBSET Ops /\ (wf = "ud_ip_exp" => Assigns(w, O))
  BY <1>1, StagingType
<1>3. wf \in Workflows
  BY MailAssumption
<1>4. CASE wf = "ud_ip_exp"
  <2>1. Assigns(s, p)
    BY <1>4 DEF Fits
  <2> HIDE DEF O
  <2> QED
    BY <1>1, <1>2, <1>4, <2>1, AssignsApart DEF O
<1>5. CASE wf = "export_lc_sc"
  <2>1. \A op \in p : op.row \in DOMAIN w /\ \A i \in 1..op.row : w[i].buyer
    BY <1>5 DEF Fits
  <2>2. \A op \in O : op.row >= NextExportRow(w)
    <3>1. CASE FamilyRulesPass(m)
      <4> DEFINE X == ExportStaging(m, w).ops
      <4>1. O = X
        BY <1>5, <3>1 DEF Staging
      <4>2. \A op \in X : op.row >= NextExportRow(w)
        BY <1>1, <3>1, ExportStagingIs
      <4> QED
        BY <4>1, <4>2
    <3>2. CASE ~FamilyRulesPass(m)
      <4>1. O = {}
        BY <3>2 DEF Staging, Blocked
      <4> QED
        BY <4>1
    <3> QED
      BY <3>1, <3>2
  <2> HIDE DEF O
  <2>3. ASSUME NEW o \in p PROVE o.row < NextExportRow(w)
    <3> DEFINE r == o.row
    <3>1. r \in DOMAIN w /\ \A i \in 1..r : w[i].buyer
      BY <2>1
    <3> HIDE DEF r
    <3>2. r < NextExportRow(w)
      BY <1>1, <3>1, UsedRowsBefore
    <3> QED
      BY <3>2 DEF r
  <2>4. \A o \in Ops : o.row \in Nat
    BY DEF Ops, OpsUpTo
  <2>5. NextExportRow(w) \in Nat
    BY <1>1, NextExportRowIs
  <2>6. ASSUME NEW o \in p, NEW q \in O PROVE o.row # q.row
    <3>1. o.row \in Nat /\ q.row \in Nat /\ o.row < NextExportRow(w) /\ q.row >= NextExportRow(w)
      BY <1>1, <1>2, <2>2, <2>3, <2>4
    <3> QED
      BY <2>5, <3>1
  <2> QED
    BY <2>6 DEF O
<1> QED
  BY <1>3, <1>4, <1>5 DEF Workflows

\* Those of one mail are apart as well.
LEMMA OwnRowsApart ==
  ASSUME NEW m \in Mails, NEW rows \in Seq(Rows), Len(rows) <= MaxRows
  PROVE  RowsApart(Staging(m, rows).ops)
<1>1. CASE Mail[m].workflow = "ud_ip_exp"
  <2>1. EntersMail(m, rows, Staging(m, rows))
    BY <1>1, StagingEnters
  <2> QED
    BY <2>1 DEF EntersMail, LedgerPlan
<1>2. CASE Mail[m].workflow # "ud_ip_exp" /\ FamilyRulesPass(m)
  <2> DEFINE X == ExportStaging(m, rows).ops
             K == StagedFiles(m, rows)
             T(k) == TargetOf(m, rows, k)
  <2>1. Staging(m, rows).ops = X
    BY <1>2, MailAssumption DEF Staging, Workflows
  <2>2. X = {AppendOp(m, T(k), Body(m)[k]) : k \in K}
    BY <1>2, ExportOps
  <2>3. \A j, k \in K : T(j) = T(k) => j = k
    BY <1>2, TargetsFollow
  <2> HIDE DEF X, K, T
  <2>4. \A i, f : AppendOp(m, i, f).row = i
    BY DEF AppendOp
  <2>5. ASSUME NEW o \in X, NEW q \in X, o.row = q.row PROVE o = q
    <3>1. PICK j \in K : o = AppendOp(m, T(j), Body(m)[j])
      BY <2>2
    <3>2. PICK k \in K : q = AppendOp(m, T(k), Body(m)[k])
      BY <2>2
    <3>3. o.row = T(j) /\ q.row = T(k)
      BY <2>4, <3>1, <3>2
    <3>4. j = k
      BY <2>3, <2>5, <3>3
    <3> QED
      BY <3>1, <3>2, <3>4
  <2> QED
    BY <2>1, <2>5 DEF RowsApart
<1>3. CASE Mail[m].workflow # "ud_ip_exp" /\ ~FamilyRulesPass(m)
  <2>1. Staging(m, rows).ops = {}
    BY <1>3 DEF Staging, Blocked
  <2> QED
    BY <2>1 DEF RowsApart
<1> QED
  BY <1>1, <1>2, <1>3

\* Plans of the ledger, one on the snapshot the other leaves, are one plan.
LEMMA PlansJoin ==
  ASSUME NEW rows \in Seq(Rows), NEW P \in SUBSET Ops, NEW O \in SUBSET Ops,
         Assigns(rows, P), Assigns(Applied(rows, P), O),
         LedgerPlan(rows, P), LedgerPlan(Applied(rows, P), O)
  PROVE  LedgerPlan(rows, P \cup O)
<1> DEFINE s == Applied(rows, P)
           all == P \cup O
<1>1. DOMAIN s = DOMAIN rows /\ \A i \in DOMAIN rows : s[i].file = rows[i].file
  BY AssignedRows
<1>2. \A p \in P, o \in O : p.row # o.row
  BY AssignsApart
<1>3. LedgerPlan(s, O)
  OBVIOUS
<1> HIDE DEF s
<1>4. \A lc : FamilyRows(s, lc) = FamilyRows(rows, lc)
  BY <1>1, SameFamilyRows
<1>5. RowsApart(all)
  BY <1>2, <1>3 DEF RowsApart, LedgerPlan
<1>6. ASSUME NEW op \in P PROVE ClaimsRow(rows, all, op)
  <2>1. ClaimsRow(rows, P, op)
    BY DEF LedgerPlan
  <2> QED
    BY <2>1 DEF ClaimsRow, CoverWrite
<1>7. ASSUME NEW op \in O PROVE ClaimsRow(rows, all, op)
  <2>1. ClaimsRow(s, O, op)
    BY <1>3 DEF LedgerPlan
  <2> QED
    BY <1>4, <2>1 DEF ClaimsRow, CoverWrite
<1> QED
  BY <1>5, <1>6, <1>7 DEF LedgerPlan

\* An export mail that is not blocked names known files only, each in the
\* snapshot or in its writes.
LEMMA ExportEnters ==
  ASSUME NEW m \in Mails, NEW rows, Mail[m].workflow = "export_lc_sc",
         ~Staging(m, rows).blocked
  PROVE  \A f \in ToSet(Body(m)) :
           /\ f \in DOMAIN Erp
           /\ f \in FilesIn(rows) \/ \E op \in Staging(m, rows).ops : op.file = f
<1> DEFINE new == {k \in DOMAIN Body(m) : Body(m)[k] \notin FilesIn(rows)}
           staged == {k \in new : Erp[Body(m)[k]].complete}
           staging == ExportStaging(m, rows)
<1>1. FamilyRulesPass(m)
  BY DEF Staging, Blocked
<1>2. Staging(m, rows) = staging
  BY <1>1 DEF Staging
<1>3. staging.blocked = (new # staged)
  BY DEF ExportStaging
<1>4. staged = StagedFiles(m, rows)
  BY DEF StagedFiles
<1>5. staging.ops = {AppendOp(m, TargetOf(m, rows, k), Body(m)[k]) : k \in StagedFiles(m, rows)}
  BY <1>1, ExportOps
<1>6. \A k \in DOMAIN Body(m) : Body(m)[k] \in DOMAIN Erp
  BY <1>1, BodyFiles
<1>7. \A i, f : AppendOp(m, i, f).file = f
  BY DEF AppendOp
<1>8. ASSUME NEW k \in DOMAIN Body(m), Body(m)[k] \notin FilesIn(rows)
      PROVE  \E op \in staging.ops : op.file = Body(m)[k]
  <2>1. k \in StagedFiles(m, rows)
    BY <1>2, <1>3, <1>4, <1>8
  <2> HIDE DEF staging
  <2>2. AppendOp(m, TargetOf(m, rows, k), Body(m)[k]) \in staging.ops
    BY <1>5, <2>1
  <2> QED
    BY <1>7, <2>2
<1> HIDE DEF staging
<1>9. \A f \in ToSet(Body(m)) : \E k \in DOMAIN Body(m) : f = Body(m)[k]
  BY DEF ToSet
<1> QED
  BY <1>2, <1>6, <1>8, <1>9

\* Writes on rows of their own, row by row.
LEMMA AppliedApart ==
  ASSUME NEW rows \in Seq(Rows), NEW ops \in SUBSET Ops, RowsApart(ops), NEW new,
         new = Applied(rows, ops)
  PROVE  /\ new \in Seq(Rows) /\ DOMAIN rows \subseteq DOMAIN new
         /\ \A i \in DOMAIN new : OpsAt(ops, i) = {} => new[i] = RowAt(rows, i)
         /\ \A op \in ops : /\ op.row \in DOMAIN new
                            /\ new[op.row] = Written(RowAt(rows, op.row), op)
<1> DEFINE last == LastRow(rows, ops)
<1>1. MaxRows \in Nat /\ ops \in SUBSET OpsUpTo(MaxRows)
  BY BoundAssumption DEF Ops
<1>2. /\ new \in Seq(Rows) /\ DOMAIN new = 1..last /\ last \in Nat
      /\ \A i \in 1..last : new[i] = RowAfter(rows, ops, i)
  BY <1>1, AppliedType
<1>3. \A op \in ops : op.row \in 1..MaxRows
  BY <1>1 DEF OpsUpTo
<1>4. Len(rows) <= last /\ \A op \in ops : op.row <= last
  BY <1>1, <1>3, LastRowIs
<1> HIDE DEF last
<1>5. DOMAIN rows \subseteq DOMAIN new
  <2>1. DOMAIN rows = 1..Len(rows) /\ Len(rows) \in Nat
    OBVIOUS
  <2> QED
    BY <1>2, <1>4, <2>1
<1>6. ASSUME NEW i \in DOMAIN new, OpsAt(ops, i) = {} PROVE new[i] = RowAt(rows, i)
  BY <1>1, <1>2, <1>6, RowAfterIs
<1>7. ASSUME NEW op \in ops
      PROVE  op.row \in DOMAIN new /\ new[op.row] = Written(RowAt(rows, op.row), op)
  <2> DEFINE i == op.row
  <2>1. i \in DOMAIN new
    <3>1. i \in 1..MaxRows /\ i <= last
      BY <1>3, <1>4
    <3> HIDE DEF i
    <3> QED
      BY <1>1, <1>2, <3>1
  <2>2. OpsAt(ops, i) # {}
    BY DEF OpsAt
  <2>3. PICK q \in ops : q.row = i /\ RowAfter(rows, ops, i) = Written(RowAt(rows, i), q)
    BY <1>1, <2>2, RowAfterIs
  <2>4. q = op
    BY <2>3 DEF RowsApart
  <2> QED
    BY <1>2, <2>1, <2>3, <2>4
<1> QED
  BY <1>2, <1>5, <1>6, <1>7

\* A file that a sheet shows after the writes was there or is written.
LEMMA FilesAfter ==
  ASSUME NEW rows \in Seq(Rows), NEW ops \in SUBSET Ops, NEW f \in FilesIn(Applied(rows, ops))
  PROVE  f \in FilesIn(rows) \/ \E op \in ops : op.file = f
<1> DEFINE new == Applied(rows, ops)
<1>1. MaxRows \in Nat /\ ops \in SUBSET OpsUpTo(MaxRows)
  BY BoundAssumption DEF Ops
<1>2. \A i \in DOMAIN new : new[i] = RowAfter(rows, ops, i)
  BY <1>1, AppliedType
<1>3. PICK i \in DOMAIN new : new[i].file = f /\ f # NoFile
  BY DEF FilesIn
<1> HIDE DEF new
<1>4. RowAt(rows, i) \in Rows
  BY RowAtType
<1>5. RowAt(rows, i).file = f => f \in FilesIn(rows)
  BY <1>3 DEF RowAt, BlankRow, FilesIn
<1>6. CASE OpsAt(ops, i) = {}
  <2>1. new[i] = RowAt(rows, i)
    BY <1>1, <1>2, <1>6, RowAfterIs
  <2> QED
    BY <1>3, <1>5, <2>1
<1>7. CASE OpsAt(ops, i) # {}
  <2>1. PICK q \in ops : RowAfter(rows, ops, i) = Written(RowAt(rows, i), q)
    BY <1>1, <1>7, RowAfterIs
  <2>2. q \in OpsUpTo(MaxRows)
    BY <1>1
  <2> DEFINE row == RowAt(rows, i)
  <2> HIDE DEF row
  <2>3. Written(row, q).file = q.file \/ Written(row, q).file = row.file
    <3>1. row \in Rows
      BY <1>4 DEF row
    <3> QED
      BY <1>1, <2>2, <3>1, WrittenType
  <2> QED
    BY <1>2, <1>3, <1>5, <2>1, <2>3 DEF row
<1> QED
  BY <1>6, <1>7
-----------------------------------------------------------------------------
(* What the workbook and the plan owe to the ledger, and the actions that  *)
(* keep it.                                                                *)

\* The writes of a plan are apart; those for documents are claims of their
\* mails, whose documents name the family.
Entering(w, rows, ops) ==
  /\ RowsApart(ops)
  /\ w = "ud_ip_exp" => LedgerPlan(rows, ops) /\ \A op \in ops : Storable(op.mail)

\* What a mail brought is in the workbook, or about to be.
HoldsMail(m) ==
  /\ Mail[m].workflow = workflow
  /\ workflow = "export_lc_sc" =>
       \A f \in ToSet(Body(m)) :
         /\ f \in DOMAIN Erp
         /\ f \in FilesIn(sheet) \/ (pc = "validating" /\ \E op \in plan : op.file = f)
  /\ workflow = "ud_ip_exp" => Storable(m) /\ ShowsMail(m, working)

\* What the refinement needs beside the invariant.
LedgerInv ==
  /\ NumbersOnFiles(sheet)
  /\ pc = "validating" => Entering(workflow, sheet, plan)
  /\ pc \in {"printing", "moving"} => sheet = working
  /\ \A m \in Mails : ~outcome[m].blocked => pc # "idle" /\ HoldsMail(m)

\* What a sheet shows of a mail it shows after assignments.
LEMMA ShowsAfter ==
  ASSUME NEW m, NEW rows \in Seq(Rows), NEW ops \in SUBSET Ops, Assigns(rows, ops),
         RowsApart(ops), ShowsMail(m, rows)
  PROVE  ShowsMail(m, Applied(rows, ops))
<1> DEFINE new == Applied(rows, ops)
           lc == VerifiedFamily(m)
<1>1. \A numbers : numbers # {} /\ Held(rows, lc, numbers) => Held(new, lc, numbers)
  BY HeldAfter
<1> HIDE DEF new, lc
<1>2. \A d \in OfKind(DocsOf(m), {"UD"}) : Held(new, lc, {Doc[d].number})
  BY <1>1 DEF ShowsMail, lc
<1>3. ASSUME OfKind(DocsOf(m), {"IP", "EXP"}) # {}
      PROVE  IpExpRulesPass(m) /\ Held(new, lc, CoverNumbers(m))
  <2>1. CoverNumbers(m) # {}
    BY <1>3 DEF CoverNumbers, OfKind
  <2> QED
    BY <1>1, <1>3, <2>1 DEF ShowsMail, lc
<1> QED
  BY <1>2, <1>3 DEF ShowsMail, lc, new

\* The validation of a mail, whose writes are staged only if its documents name
\* its family.
LEMMA ValidateLedger ==
  ASSUME IInv, LedgerInv, pc = "validating", queue # <<>>, NEW m, m = Head(queue),
         NEW k, NEW saveFailed \in BOOLEAN, Validate(m, k, saveFailed),
         UNCHANGED <<sheet, pc, workflow>>,
         workflow = "ud_ip_exp" /\ ~saveFailed /\ ~Staging(m, working).blocked => Storable(m)
  PROVE  LedgerInv'
<1> DEFINE staging == Staging(m, working)
           ops == IF saveFailed \/ staging.blocked THEN {} ELSE staging.ops
           o == Outcome(m, staging, k, saveFailed)
           new == Applied(working, ops)
           all == plan \cup ops
<1>1. m \in Mails /\ Mail[m].workflow = workflow
  <2>1. queue \in Seq(MailsOf(workflow))
    BY DEF IInv, RunInv
  <2>2. Head(queue) \in MailsOf(workflow)
    BY <2>1
  <2> QED
    BY <2>2 DEF MailsOf
<1>2. outcome' = [outcome EXCEPT ![m] = o] /\ plan' = all /\ working' = new
  BY DEF Validate, Conclude
<1>3. /\ sheet \in Seq(Rows) /\ outcome \in [Mails -> Outcomes] /\ workflow \in Workflows
      /\ Fits(workflow, sheet, working, plan)
  BY DEF IInv, StoreInv, RunInv, PlanInv
<1>4. /\ working \in Seq(Rows) /\ Len(working) <= MaxRows /\ Tidy(working)
      /\ plan \in SUBSET Ops /\ working = Applied(sheet, plan)
      /\ workflow = "ud_ip_exp" => Assigns(sheet, plan)
  BY <1>3 DEF Fits
<1>5. /\ staging.ops \in SUBSET Ops /\ staging.blocked \in BOOLEAN
      /\ \A op \in staging.ops : op.mail = m
      /\ workflow = "ud_ip_exp" => Assigns(working, staging.ops)
  BY <1>1, <1>4, StagingType
<1>6. o.blocked = (staging.blocked \/ saveFailed)
  BY DEF Outcome
<1>7. \A p \in plan, q \in staging.ops : p.row # q.row
  BY <1>1, <1>3, StagingApart
<1>8. RowsApart(staging.ops)
  BY <1>1, <1>4, OwnRowsApart
<1>9. workflow = "ud_ip_exp" => EntersMail(m, working, staging)
  BY <1>1, <1>4, StagingEnters
<1>10. workflow = "export_lc_sc" /\ ~staging.blocked =>
         \A f \in ToSet(Body(m)) :
           f \in DOMAIN Erp /\ (f \in FilesIn(working) \/ \E op \in staging.ops : op.file = f)
  BY <1>1, ExportEnters
<1>11. workflow = "ud_ip_exp" /\ ~saveFailed /\ ~staging.blocked => Storable(m)
  OBVIOUS
<1>12. \A f \in FilesIn(working) : f \in FilesIn(sheet) \/ \E op \in plan : op.file = f
  BY <1>3, <1>4, FilesAfter
<1>13. NumbersOnFiles(sheet) /\ Entering(workflow, sheet, plan)
       /\ \A n \in Mails : ~outcome[n].blocked => HoldsMail(n)
  BY DEF LedgerInv
<1> HIDE DEF staging, o
<1>14. ops \in SUBSET Ops /\ RowsApart(ops) /\ \A p \in plan, q \in ops : p.row # q.row
  BY <1>5, <1>7, <1>8 DEF RowsApart
<1>15. ASSUME workflow = "ud_ip_exp"
       PROVE  /\ Assigns(working, ops) /\ LedgerPlan(working, ops)
              /\ \A op \in ops : Storable(op.mail)
  <2>1. CASE saveFailed \/ staging.blocked
    BY <2>1 DEF Assigns, LedgerPlan, RowsApart
  <2>2. CASE ~(saveFailed \/ staging.blocked)
    BY <1>5, <1>9, <1>11, <1>15, <2>2 DEF EntersMail
  <2> QED
    BY <2>1, <2>2
<1>16. ~o.blocked => ops = staging.ops
  BY <1>6
<1> HIDE DEF ops
<1>17. Entering(workflow, sheet, all)
  <2>1. RowsApart(all)
    BY <1>13, <1>14 DEF Entering, RowsApart
  <2>2. ASSUME workflow = "ud_ip_exp" PROVE LedgerPlan(sheet, all)
    <3>1. LedgerPlan(sheet, plan) /\ Assigns(sheet, plan)
      BY <1>4, <1>13, <2>2 DEF Entering
    <3>2. LedgerPlan(Applied(sheet, plan), ops) /\ Assigns(Applied(sheet, plan), ops)
      BY <1>4, <1>15, <2>2
    <3> QED
      BY <1>3, <1>4, <1>14, <3>1, <3>2, PlansJoin
  <2>3. ASSUME workflow = "ud_ip_exp" PROVE \A op \in all : Storable(op.mail)
    BY <1>13, <1>15, <2>3 DEF Entering
  <2> QED
    BY <2>1, <2>2, <2>3 DEF Entering
<1>18. ASSUME NEW n \in Mails, ~outcome[n].blocked PROVE HoldsMail(n)'
  <2>1. HoldsMail(n)
    BY <1>13, <1>18
  <2>2. workflow = "ud_ip_exp" => ShowsMail(n, new)
    <3>1. ASSUME workflow = "ud_ip_exp" PROVE ShowsMail(n, new)
      <4>1. ShowsMail(n, working)
        BY <2>1, <3>1 DEF HoldsMail
      <4> QED
        BY <1>4, <1>14, <1>15, <3>1, <4>1, ShowsAfter
    <3> QED
      BY <3>1
  <2> HIDE DEF new
  <2> QED
    BY <1>2, <2>1, <2>2 DEF HoldsMail
<1>19. ASSUME ~o.blocked PROVE HoldsMail(m)'
  <2>1. ~saveFailed /\ ~staging.blocked /\ ops = staging.ops
    BY <1>6, <1>16, <1>19
  <2>2. ASSUME workflow = "ud_ip_exp" PROVE Storable(m) /\ ShowsMail(m, new)
    BY <1>9, <1>11, <2>1, <2>2 DEF EntersMail
  <2>3. ASSUME workflow = "export_lc_sc", NEW f \in ToSet(Body(m))
        PROVE  f \in DOMAIN Erp /\ (f \in FilesIn(sheet) \/ \E op \in all : op.file = f)
    BY <1>10, <1>12, <2>1, <2>3
  <2> HIDE DEF new, all
  <2> QED
    BY <1>1, <1>2, <2>2, <2>3 DEF HoldsMail
<1> HIDE DEF new, all
<1>20. \A n \in Mails : ~outcome'[n].blocked => HoldsMail(n)'
  <2>1. ASSUME NEW n \in Mails, ~outcome'[n].blocked PROVE HoldsMail(n)'
    <3>1. CASE n = m
      BY <1>1, <1>2, <1>3, <1>19, <2>1, <3>1
    <3>2. CASE n # m
      <4>1. outcome'[n] = outcome[n]
        BY <1>2, <1>3, <3>2
      <4> QED
        BY <1>18, <2>1, <4>1
    <3> QED
      BY <3>1, <3>2
  <2> QED
    BY <2>1
<1> QED
  BY <1>2, <1>13, <1>17, <1>20 DEF LedgerInv

\* A run that ends owes nothing.
LEMMA IdleLedger ==
  ASSUME Idle, NumbersOnFiles(sheet')
  PROVE  LedgerInv'
<1>1. pc' = "idle" /\ \A m \in Mails : outcome'[m].blocked
  BY DEF Idle, NoOutcome
<1> QED
  BY <1>1 DEF LedgerInv

\* Neither does one that has not begun.
LEMMA NotBegunLedger ==
  ASSUME LedgerInv, pc = "idle", UNCHANGED run, NumbersOnFiles(sheet')
  PROVE  LedgerInv'
<1>1. pc' = "idle" /\ outcome' = outcome
  BY DEF run
<1>2. \A m \in Mails : outcome[m].blocked
  BY DEF LedgerInv
<1> QED
  BY <1>1, <1>2 DEF LedgerInv

\* Appends on blank rows leave the rows of files alone, and the others without
\* numbers.
LEMMA AppendsShow ==
  ASSUME NEW rows \in Seq(Rows), NEW ops \in SUBSET Ops, RowsApart(ops), NumbersOnFiles(rows),
         \A op \in ops : IsAppend(op) /\ TargetsBlank(rows, op),
         NEW new, new = Applied(rows, ops)
  PROVE  /\ new \in Seq(Rows) /\ DOMAIN rows \subseteq DOMAIN new
         /\ \A i \in DOMAIN rows : rows[i].file # NoFile => new[i] = rows[i]
         /\ \A i \in DOMAIN new : (i \in DOMAIN rows /\ rows[i].file # NoFile) \/ new[i].shared = {}
         /\ \A op \in ops : op.row \in DOMAIN new /\ new[op.row].file = op.file
<1>1. /\ new \in Seq(Rows) /\ DOMAIN rows \subseteq DOMAIN new
      /\ \A i \in DOMAIN new : OpsAt(ops, i) = {} => new[i] = RowAt(rows, i)
      /\ \A op \in ops : /\ op.row \in DOMAIN new
                         /\ new[op.row] = Written(RowAt(rows, op.row), op)
  BY AppliedApart
<1>2. MaxRows \in Nat /\ ops \in SUBSET OpsUpTo(MaxRows)
  BY BoundAssumption DEF Ops
<1>3. \A i : RowAt(rows, i) \in Rows
  BY RowAtType
<1>4. \A i : RowAt(rows, i).file = NoFile => RowAt(rows, i).shared = {}
  <2>1. \A i \in DOMAIN rows : rows[i].shared # {} => rows[i].file # NoFile
    BY DEF NumbersOnFiles
  <2> QED
    BY <2>1 DEF RowAt, BlankRow
<1>5. \A op \in ops : RowAt(rows, op.row).file = NoFile
  BY DEF TargetsBlank
<1>6. ASSUME NEW op \in ops
      PROVE  new[op.row].file = op.file /\ new[op.row].shared = {}
  <2> DEFINE row == RowAt(rows, op.row)
  <2>1. row \in Rows /\ row.shared = {}
    BY <1>3, <1>4, <1>5
  <2>2. new[op.row] = Written(row, op) /\ IsAppend(op) /\ op \in OpsUpTo(MaxRows)
    BY <1>1, <1>2
  <2> HIDE DEF row
  <2>3. Written(row, op).file = op.file /\ Written(row, op).shared = row.shared
    BY <1>2, <2>1, <2>2, WrittenType
  <2> QED
    BY <2>1, <2>2, <2>3
<1>7. ASSUME NEW i \in DOMAIN rows, rows[i].file # NoFile PROVE new[i] = rows[i]
  <2>1. RowAt(rows, i) = rows[i]
    BY DEF RowAt
  <2>2. OpsAt(ops, i) = {}
    BY <1>5, <1>7, <2>1 DEF OpsAt
  <2> QED
    BY <1>1, <2>1, <2>2
<1>8. ASSUME NEW i \in DOMAIN new, ~(i \in DOMAIN rows /\ rows[i].file # NoFile)
      PROVE  new[i].shared = {}
  <2>1. CASE OpsAt(ops, i) = {}
    <3>1. new[i] = RowAt(rows, i)
      BY <1>1, <2>1
    <3>2. RowAt(rows, i).file = NoFile
      BY <1>8 DEF RowAt, BlankRow
    <3> QED
      BY <1>4, <3>1, <3>2
  <2>2. CASE OpsAt(ops, i) # {}
    BY <1>6, <2>2 DEF OpsAt
  <2> QED
    BY <2>1, <2>2
<1> QED
  BY <1>1, <1>6, <1>7, <1>8

\* What the write phase leaves: the rows of files stay, what is planned is on
\* the sheet, numbers are on files.
LEMMA WritesLedger ==
  ASSUME IInv, LedgerInv, pc = "validating", \A op \in plan : TargetsBlank(sheet, op),
         NEW new, new = Applied(sheet, plan)
  PROVE  /\ NumbersOnFiles(new)
         /\ workflow = "export_lc_sc" =>
              \A f : f \in FilesIn(sheet) \/ (\E op \in plan : op.file = f) => f \in FilesIn(new)
<1>1. /\ sheet \in Seq(Rows) /\ plan \in SUBSET Ops /\ workflow \in Workflows
      /\ Fits(workflow, sheet, working, plan)
  BY DEF IInv, StoreInv, RunInv, PlanInv
<1>2. NumbersOnFiles(sheet) /\ Entering(workflow, sheet, plan)
  BY DEF LedgerInv
<1>3. RowsApart(plan)
  BY <1>2 DEF Entering
<1>4. CASE workflow = "export_lc_sc"
  <2>1. \A op \in plan : IsAppend(op)
    BY <1>1, <1>4 DEF Fits
  <2>2. /\ new \in Seq(Rows) /\ DOMAIN sheet \subseteq DOMAIN new
        /\ \A i \in DOMAIN sheet : sheet[i].file # NoFile => new[i] = sheet[i]
        /\ \A i \in DOMAIN new : (i \in DOMAIN sheet /\ sheet[i].file # NoFile) \/ new[i].shared = {}
        /\ \A op \in plan : op.row \in DOMAIN new /\ new[op.row].file = op.file
    BY <1>1, <1>2, <1>3, <2>1, AppendsShow
  <2>3. NumbersOnFiles(new)
    BY <2>2 DEF NumbersOnFiles
  <2>4. ASSUME NEW f \in FilesIn(sheet) PROVE f \in FilesIn(new)
    BY <2>2 DEF FilesIn
  <2>5. ASSUME NEW op \in plan PROVE op.file \in FilesIn(new)
    BY <2>1, <2>2 DEF FilesIn, IsAppend
  <2> QED
    BY <2>3, <2>4, <2>5
<1>5. CASE workflow = "ud_ip_exp"
  <2>1. Assigns(sheet, plan) /\ LedgerPlan(sheet, plan)
    BY <1>1, <1>2, <1>5 DEF Fits, Entering
  <2>2. /\ DOMAIN new = DOMAIN sheet
        /\ \A i \in DOMAIN sheet : new[i].file = sheet[i].file
        /\ \A i \in DOMAIN sheet : OpsAt(plan, i) = {} => new[i] = sheet[i]
    BY <1>1, <1>3, <2>1, AssignedShow
  <2>3. \A op \in plan : op.row \in DOMAIN sheet /\ sheet[op.row].file # NoFile
    BY <2>1 DEF LedgerPlan, ClaimsRow, FamilyRows
  <2>4. ASSUME NEW i \in DOMAIN new, new[i].shared # {} PROVE new[i].file # NoFile
    <3>1. CASE OpsAt(plan, i) = {}
      BY <1>2, <2>2, <2>4, <3>1 DEF NumbersOnFiles
    <3>2. CASE OpsAt(plan, i) # {}
      BY <2>2, <2>3, <2>4, <3>2 DEF OpsAt
    <3> QED
      BY <3>1, <3>2
  <2>5. NumbersOnFiles(new)
    BY <2>4 DEF NumbersOnFiles
  <2> QED
    BY <1>5, <2>5
<1> QED
  BY <1>1, <1>4, <1>5 DEF Workflows

\* The phases of a run that follow the validation.
LEMMA LaterLedger ==
  ASSUME IInv, LedgerInv,
         CommitWrites \/ NothingToWrite \/ PrintGroup \/ PrintCompletes \/ MoveMail
  PROVE  LedgerInv'
<1>1. CASE CommitWrites
  <2>1. /\ pc = "validating" /\ pc' = "printing" /\ sheet' = Applied(sheet, plan)
        /\ \A op \in plan : TargetsBlank(sheet, op)
        /\ UNCHANGED <<workflow, working, outcome, plan>>
    BY <1>1 DEF CommitWrites
  <2>2. sheet' = working
    BY <2>1, WrittenSheet
  <2>3. /\ NumbersOnFiles(sheet')
        /\ workflow = "export_lc_sc" =>
             \A f : f \in FilesIn(sheet) \/ (\E op \in plan : op.file = f) => f \in FilesIn(sheet')
    BY <2>1, WritesLedger
  <2>4. \A m \in Mails : ~outcome[m].blocked => HoldsMail(m)
    BY DEF LedgerInv
  <2>5. \A m \in Mails : ~outcome[m].blocked => HoldsMail(m)'
    BY <2>1, <2>3, <2>4 DEF HoldsMail
  <2> QED
    BY <2>1, <2>2, <2>3, <2>5 DEF LedgerInv
<1>2. CASE NothingToWrite
  <2>1. /\ pc = "validating" /\ pc' = "moving" /\ plan = {}
        /\ UNCHANGED <<sheet, workflow, working, outcome, plan>>
    BY <1>2 DEF NothingToWrite
  <2>2. sheet = working
    BY <2>1, NothingApplied DEF IInv, StoreInv, WorkingSnapshotIsOutcome
  <2> QED
    BY <2>1, <2>2 DEF LedgerInv, HoldsMail
<1>3. CASE PrintGroup \/ PrintCompletes \/ MoveMail
  <2>1. /\ UNCHANGED <<sheet, workflow, working, outcome, plan>>
        /\ pc \in {"printing", "moving"} /\ pc' \in {"printing", "moving"}
    BY <1>3 DEF PrintGroup, PrintCompletes, MoveMail, run
  <2> QED
    BY <2>1 DEF LedgerInv, HoldsMail
<1> QED
  BY <1>1, <1>2, <1>3

\* The end of a run, and a crash.
LEMMA EndLedger ==
  ASSUME IInv, LedgerInv,
         PrevalidationFails \/ WritesEndUncertain \/ EndRun \/ Crash \/ CrashWhileSaving
  PROVE  LedgerInv'
<1>1. Idle
  BY DEF PrevalidationFails, WritesEndUncertain, EndRun, Crash, CrashWhileSaving
<1>2. NumbersOnFiles(sheet')
  <2>1. NumbersOnFiles(sheet)
    BY DEF LedgerInv
  <2>2. CASE WritesEndUncertain
    <3>1. /\ pc = "validating" /\ \A op \in plan : TargetsBlank(sheet, op)
          /\ sheet' \in {sheet, Applied(sheet, plan)}
      BY <2>2 DEF WritesEndUncertain
    <3>2. NumbersOnFiles(Applied(sheet, plan))
      BY <3>1, WritesLedger
    <3> QED
      BY <2>1, <3>1, <3>2
  <2>3. CASE PrevalidationFails \/ EndRun \/ Crash \/ CrashWhileSaving
    <3>1. sheet' = sheet
      BY <2>3 DEF PrevalidationFails, EndRun, Crash, CrashWhileSaving
    <3> QED
      BY <2>1, <3>1
  <2> QED
    BY <2>2, <2>3
<1> QED
  BY <1>1, <1>2, IdleLedger

\* The start of a run.
LEMMA StartLedger ==
  ASSUME IInv, LedgerInv, NEW w \in Workflows, StartRun(w)
  PROVE  LedgerInv'
<1>1. /\ pc = "idle" /\ pc' = "validating" /\ UNCHANGED <<sheet, outcome, plan>>
  BY DEF StartRun
<1>2. plan = {} /\ NumbersOnFiles(sheet) /\ \A m \in Mails : outcome[m].blocked
  BY <1>1 DEF IInv, RunInv, LedgerInv
<1>3. Entering(workflow', sheet, {})
  BY DEF Entering, LedgerPlan, RowsApart
<1> QED
  BY <1>1, <1>2, <1>3 DEF LedgerInv

\* The edits of others.
LEMMA EditsLedger ==
  ASSUME IInv, LedgerInv, Others
  PROVE  LedgerInv'
<1>1. pc = "idle" /\ UNCHANGED run
  BY DEF Others, SwapRows, ClearRow, FillRow, Edit
<1>2. sheet \in Seq(Rows) /\ NumbersOnFiles(sheet)
  BY DEF IInv, StoreInv, LedgerInv
<1>3. BlankRow.shared = {}
  BY DEF BlankRow
<1> DEFINE v == sheet'
<1>4. ASSUME SwapRows PROVE NumbersOnFiles(v)
  <2>1. PICK i \in DOMAIN sheet, j \in DOMAIN sheet :
          sheet' = [sheet EXCEPT ![i] = sheet[j], ![j] = sheet[i]]
    BY <1>4 DEF SwapRows
  <2>2. DOMAIN v = DOMAIN sheet /\ \A n \in DOMAIN sheet : \E k \in DOMAIN sheet : v[n] = sheet[k]
    BY <1>2, <2>1
  <2> HIDE DEF v
  <2> QED
    BY <1>2, <2>2 DEF NumbersOnFiles
<1>5. ASSUME ClearRow PROVE NumbersOnFiles(v)
  <2>1. PICK i \in DOMAIN sheet : sheet' = [sheet EXCEPT ![i] = BlankRow]
    BY <1>5 DEF ClearRow
  <2>2. DOMAIN v = DOMAIN sheet /\ \A n \in DOMAIN sheet : v[n] = sheet[n] \/ v[n] = BlankRow
    BY <1>2, <2>1
  <2> HIDE DEF v
  <2> QED
    BY <1>2, <1>3, <2>2 DEF NumbersOnFiles
<1>6. ASSUME FillRow PROVE NumbersOnFiles(v)
  <2>1. PICK f \in DOMAIN Erp : sheet' = Append(sheet, [BlankRow EXCEPT !.file = f, !.buyer = TRUE])
    BY <1>6 DEF FillRow
  <2> DEFINE row == [BlankRow EXCEPT !.file = f, !.buyer = TRUE]
  <2>2. row \in Rows /\ row.shared = {}
    BY <1>3, BlankRowType DEF Rows, BlankRow
  <2>3. sheet' = Append(sheet, row)
    BY <2>1
  <2> HIDE DEF row
  <2>4. \A n \in DOMAIN v : (n \in DOMAIN sheet /\ v[n] = sheet[n]) \/ v[n] = row
    BY <1>2, <2>2, <2>3
  <2> HIDE DEF v
  <2> QED
    BY <1>2, <2>2, <2>4 DEF NumbersOnFiles
<1>7. NumbersOnFiles(v)
  BY <1>4, <1>5, <1>6 DEF Others
<1> QED
  BY <1>1, <1>7, NotBegunLedger

\* The validation of a mail, whatever fails in it: it is staged only if its
\* documents name its family.
LEMMA ValidationOfMail ==
  ASSUME IInv, ValidateExportMail \/ ValidateUdMail \/ SavingFails \/ StagingFails
  PROVE  /\ pc = "validating" /\ queue # <<>> /\ UNCHANGED <<sheet, pc, workflow>>
         /\ Head(queue) \in Mails /\ Mail[Head(queue)].workflow = workflow
         /\ \E k, saveFailed :
              /\ saveFailed \in BOOLEAN /\ Validate(Head(queue), k, saveFailed)
              /\ workflow = "ud_ip_exp" /\ ~saveFailed /\ ~Staging(Head(queue), working).blocked
                   => Storable(Head(queue))
<1> DEFINE m == Head(queue)
           staged(failed) == workflow = "ud_ip_exp" /\ ~failed /\ ~Staging(m, working).blocked
<1>1. /\ pc = "validating" /\ queue # <<>> /\ UNCHANGED <<sheet, pc, workflow>>
  BY DEF ValidateExportMail, ValidateUdMail, SavingFails, StagingFails, Validating
<1>2. m \in Mails /\ Mail[m].workflow = workflow
  <2>1. queue \in Seq(MailsOf(workflow))
    BY DEF IInv, RunInv
  <2>2. Head(queue) \in MailsOf(workflow)
    BY <1>1, <2>1
  <2> QED
    BY <2>2 DEF MailsOf
<1>3. \E k, saveFailed : /\ saveFailed \in BOOLEAN /\ Validate(m, k, saveFailed)
                         /\ staged(saveFailed) => Storable(m)
  <2>1. CASE ValidateExportMail
    <3> DEFINE known == VerifiedFamily(m) # NoFamily
               k == IF known THEN Len(Mail[m].pdfs) ELSE 0
    <3>1. Validate(m, k, ~known) /\ workflow = "export_lc_sc"
      BY <2>1 DEF ValidateExportMail, Validating
    <3>2. ~staged(~known)
      BY <3>1
    <3>3. (~known) \in BOOLEAN
      OBVIOUS
    <3> HIDE DEF m, k, known, staged
    <3> QED
      BY <3>1, <3>2, <3>3
  <2>2. CASE ValidateUdMail
    <3> DEFINE k == IF Storable(m) THEN Len(Mail[m].pdfs) ELSE 0
               failed == ~Storable(m) /\ Mail[m].pdfs # <<>>
    <3>1. Validate(m, k, failed) /\ workflow = "ud_ip_exp"
      BY <2>2 DEF ValidateUdMail, Validating
    <3>2. staged(failed) => Storable(m)
      <4>1. ASSUME ~Storable(m), Mail[m].pdfs = <<>> PROVE Staging(m, working).blocked
        <5>1. DocsOf(m) = {}
          <6>1. ASSUME NEW d \in DocsOf(m) PROVE FALSE
            <7>1. Doc[d].pdf \in ToSet(Mail[m].pdfs)
              BY DocAssumption DEF DocsOf
            <7>2. ToSet(<<>>) = {}
              BY DEF ToSet
            <7> QED
              BY <4>1, <7>1, <7>2
          <6> QED
            BY <6>1
        <5>2. Staging(m, working) = Blocked
          BY <1>2, <3>1, <5>1 DEF Staging, UdIpExpStaging
        <5> QED
          BY <5>2 DEF Blocked
      <4> QED
        BY <4>1
    <3>3. failed \in BOOLEAN
      OBVIOUS
    <3> HIDE DEF m, k, failed, staged
    <3> QED
      BY <3>1, <3>2, <3>3
  <2>3. CASE SavingFails
    <3>1. PICK k : Validate(m, k, TRUE)
      BY <2>3 DEF SavingFails
    <3>2. ~staged(TRUE)
      OBVIOUS
    <3> HIDE DEF m, staged
    <3> QED
      BY <3>1, <3>2
  <2>4. CASE StagingFails
    <3>1. Validate(m, 0, TRUE)
      BY <2>4 DEF StagingFails
    <3>2. ~staged(TRUE)
      OBVIOUS
    <3> HIDE DEF m, staged
    <3> QED
      BY <3>1, <3>2
  <2> QED
    BY <2>1, <2>2, <2>3, <2>4
<1> QED
  BY <1>1, <1>2, <1>3

\* It keeps what is owed.
LEMMA ValidatingLedger ==
  ASSUME IInv, LedgerInv, ValidateExportMail \/ ValidateUdMail \/ SavingFails \/ StagingFails
  PROVE  LedgerInv'
<1> DEFINE m == Head(queue)
<1>1. /\ pc = "validating" /\ queue # <<>> /\ UNCHANGED <<sheet, pc, workflow>>
  BY ValidationOfMail
<1>2. PICK k, saveFailed :
        /\ saveFailed \in BOOLEAN /\ Validate(m, k, saveFailed)
        /\ workflow = "ud_ip_exp" /\ ~saveFailed /\ ~Staging(m, working).blocked => Storable(m)
  BY ValidationOfMail
<1> QED
  BY <1>1, <1>2, ValidateLedger

\* The first state.
LEMMA InitLedger == Init => LedgerInv
<1> SUFFICES ASSUME Init PROVE LedgerInv
  OBVIOUS
<1>1. NumbersOnFiles(sheet)
  BY SheetAssumption DEF Init
<1>2. pc = "idle" /\ \A m \in Mails : outcome[m].blocked
  BY DEF Init, NoOutcome
<1> QED
  BY <1>1, <1>2 DEF LedgerInv

\* Every step keeps what is owed to the ledger.
LEMMA NextLedger == IInv /\ LedgerInv /\ [Next]_vars => LedgerInv'
<1> SUFFICES ASSUME IInv, LedgerInv, [Next]_vars PROVE LedgerInv'
  OBVIOUS
<1>1. CASE \E w \in Workflows : StartRun(w)
  BY <1>1, StartLedger
<1>2. CASE ValidateExportMail \/ ValidateUdMail \/ SavingFails \/ StagingFails
  BY <1>2, ValidatingLedger
<1>3. CASE CommitWrites \/ NothingToWrite \/ PrintGroup \/ PrintCompletes \/ MoveMail
  BY <1>3, LaterLedger
<1>4. CASE PrevalidationFails \/ WritesEndUncertain \/ EndRun \/ Crash \/ CrashWhileSaving
  BY <1>4, EndLedger
<1>5. CASE Others
  BY <1>5, EditsLedger
<1>6. CASE UNCHANGED vars
  BY <1>6 DEF vars, run, LedgerInv, HoldsMail
<1> QED
  BY <1>1, <1>2, <1>3, <1>4, <1>5, <1>6 DEF Next, RunStep, Faulty

\* So it holds of every run.
THEOREM LedgerInvTheorem == Spec => []LedgerInv
<1>1. IInv /\ LedgerInv /\ [Next]_vars => IInv' /\ LedgerInv'
  BY NextIInv, NextLedger
<1>2. Init => IInv /\ LedgerInv
  BY InitIInv, InitLedger
<1> QED
  BY <1>1, <1>2, PTL DEF Spec
-----------------------------------------------------------------------------
(* The workbook as a ledger.                                               *)

\* How often a sheet enters each file, and the numbers under it.
RowsWith(rows, f) == {i \in DOMAIN rows : rows[i].file = f}
CopiesOn(rows) == [f \in DOMAIN Erp |-> Cardinality(RowsWith(rows, f))]
ClaimsOn(rows) == [f \in DOMAIN Erp |-> UNION {rows[i].shared : i \in RowsWith(rows, f)}]

\* A file of the sheet has one copy, and the numbers of its row.
LEMMA CopyOfRow ==
  ASSUME NEW rows \in Seq(Rows), Tidy(rows), NEW i \in DOMAIN rows,
         NEW f \in DOMAIN Erp, rows[i].file = f
  PROVE  CopiesOn(rows)[f] = 1 /\ ClaimsOn(rows)[f] = rows[i].shared
<1>1. f # NoFile
  BY RegisterAssumption
<1>2. RowsWith(rows, f) = {i}
  BY <1>1 DEF RowsWith, Tidy
<1>3. Cardinality({i}) = 1
  BY FS_Singleton
<1>4. UNION {rows[j].shared : j \in {i}} = rows[i].shared
  OBVIOUS
<1> QED
  BY <1>2, <1>3, <1>4 DEF CopiesOn, ClaimsOn

\* A file that is not on the sheet has neither.
LEMMA NoCopy ==
  ASSUME NEW rows, NEW f \in DOMAIN Erp, f \notin FilesIn(rows)
  PROVE  CopiesOn(rows)[f] = 0 /\ ClaimsOn(rows)[f] = {}
<1>1. f # NoFile
  BY RegisterAssumption
<1>2. RowsWith(rows, f) = {}
  BY <1>1 DEF RowsWith, FilesIn
<1>3. Cardinality({}) = 0
  BY FS_EmptySet
<1>4. UNION {rows[j].shared : j \in {}} = {}
  OBVIOUS
<1> QED
  BY <1>2, <1>3, <1>4 DEF CopiesOn, ClaimsOn

\* A file is on a row or on none.
LEMMA OnRow ==
  ASSUME NEW rows, NEW f \in DOMAIN Erp
  PROVE  f \in FilesIn(rows) <=> \E i \in DOMAIN rows : rows[i].file = f
BY RegisterAssumption DEF FilesIn

\* What the ledger sees of a sheet.
LEMMA LedgerOfSheet ==
  ASSUME NEW rows \in Seq(Rows), Tidy(rows), NEW f \in DOMAIN Erp
  PROVE  /\ CopiesOn(rows)[f] \in {0, 1}
         /\ CopiesOn(rows)[f] = 1 <=> f \in FilesIn(rows)
         /\ CopiesOn(rows)[f] = 0 => ClaimsOn(rows)[f] = {}
         /\ ClaimsOn(rows)[f] \in SUBSET Numbers
<1>1. CASE f \in FilesIn(rows)
  <2>1. PICK i \in DOMAIN rows : rows[i].file = f
    BY <1>1, OnRow
  <2>2. CopiesOn(rows)[f] = 1 /\ ClaimsOn(rows)[f] = rows[i].shared
    BY <2>1, CopyOfRow
  <2>3. rows[i] \in Rows
    OBVIOUS
  <2>4. rows[i].shared \in SUBSET Numbers
    BY <2>3 DEF Rows
  <2> QED
    BY <1>1, <2>2, <2>4
<1>2. CASE f \notin FilesIn(rows)
  <2>1. CopiesOn(rows)[f] = 0 /\ ClaimsOn(rows)[f] = {}
    BY <1>2, NoCopy
  <2> QED
    BY <1>2, <2>1
<1> QED
  BY <1>1, <1>2

\* A claim of a file between two sheets, and a batch.
Claims(rows, new, f) ==
  /\ CopiesOn(rows)[f] = 1 /\ ClaimsOn(rows)[f] = {}
  /\ \/ \E m \in Mails : \E u \in UdsOf(m) :
          u.lc = Erp[f].lc /\ ClaimsOn(new)[f] = {u.number}
     \/ \E m \in Mails : \E c \in CoversOf(m) :
          /\ c.lc = Erp[f].lc /\ ClaimsOn(new)[f] = c.numbers
          /\ \A g \in DOMAIN Erp : CopiesOn(rows)[g] > 0 /\ Erp[g].lc = c.lc
               => ClaimsOn(new)[g] = c.numbers

BatchOn(rows, new) ==
  \A f \in DOMAIN Erp :
    /\ \/ CopiesOn(new)[f] = CopiesOn(rows)[f]
       \/ CopiesOn(rows)[f] = 0 /\ CopiesOn(new)[f] = 1
    /\ ClaimsOn(new)[f] = ClaimsOn(rows)[f] \/ Claims(rows, new, f)

\* Which is what the ledger calls a batch.
LEMMA BatchIsWrite ==
  ASSUME BatchOn(sheet, sheet'), moved' = moved
  PROVE  Ledger!Write
<1>1. /\ CopiesOn(sheet) = [f \in DOMAIN Erp |-> Cardinality(RowsOf(f))]
      /\ ClaimsOn(sheet) = [f \in DOMAIN Erp |-> NumbersUnder(f)]
  BY DEF CopiesOn, ClaimsOn, RowsWith, RowsOf, NumbersUnder
<1>2. /\ CopiesOn(sheet') = [f \in DOMAIN Erp |-> Cardinality(RowsOf(f))]'
      /\ ClaimsOn(sheet') = [f \in DOMAIN Erp |-> NumbersUnder(f)]'
  BY DEF CopiesOn, ClaimsOn, RowsWith, RowsOf, NumbersUnder
<1>3. /\ Ledger!Uds = UNION {UdsOf(m) : m \in Mails}
      /\ Ledger!Covers = UNION {CoversOf(m) : m \in Mails}
  BY DEF Ledger!Uds, Ledger!Covers
<1>4. \A lc : Ledger!Entered(lc) = {f \in DOMAIN Erp : CopiesOn(sheet)[f] > 0 /\ Erp[f].lc = lc}
  BY <1>1 DEF Ledger!Entered
<1>5. ASSUME NEW f \in DOMAIN Erp, Claims(sheet, sheet', f) PROVE Ledger!Claim(f)
  <2> DEFINE now == ClaimsOn(sheet')
             familyOf == [g \in DOMAIN Erp |-> Erp[g].lc]
  <2>1. CopiesOn(sheet)[f] = 1 /\ ClaimsOn(sheet)[f] = {} /\ familyOf[f] = Erp[f].lc
    BY <1>5 DEF Claims
  <2>2. \/ \E u \in Ledger!Uds : u.lc = familyOf[f] /\ now[f] = {u.number}
        \/ \E c \in Ledger!Covers : /\ c.lc = familyOf[f] /\ now[f] = c.numbers
                                    /\ \A g \in Ledger!Entered(c.lc) : now[g] = c.numbers
    <3>1. CASE \E m \in Mails : \E u \in UdsOf(m) : u.lc = Erp[f].lc /\ now[f] = {u.number}
      BY <1>3, <2>1, <3>1
    <3>2. CASE \E m \in Mails : \E c \in CoversOf(m) :
                 /\ c.lc = Erp[f].lc /\ now[f] = c.numbers
                 /\ \A g \in DOMAIN Erp :
                      CopiesOn(sheet)[g] > 0 /\ Erp[g].lc = c.lc => now[g] = c.numbers
      <4>1. PICK m \in Mails : \E c \in CoversOf(m) :
              /\ c.lc = Erp[f].lc /\ now[f] = c.numbers
              /\ \A g \in DOMAIN Erp :
                   CopiesOn(sheet)[g] > 0 /\ Erp[g].lc = c.lc => now[g] = c.numbers
        BY <3>2
      <4>2. PICK c \in CoversOf(m) :
              /\ c.lc = Erp[f].lc /\ now[f] = c.numbers
              /\ \A g \in DOMAIN Erp :
                   CopiesOn(sheet)[g] > 0 /\ Erp[g].lc = c.lc => now[g] = c.numbers
        BY <4>1
      <4>3. c \in Ledger!Covers
        BY <1>3
      <4>4. \A g \in Ledger!Entered(c.lc) : now[g] = c.numbers
        BY <1>4, <4>2
      <4> QED
        BY <2>1, <4>2, <4>3, <4>4
    <3> QED
      BY <1>5, <3>1, <3>2 DEF Claims
  <2> QED
    BY <1>1, <1>2, <2>1, <2>2 DEF Ledger!Claim
<1> QED
  BY <1>1, <1>2, <1>5 DEF Ledger!Write, BatchOn
-----------------------------------------------------------------------------
(* The steps of the runs, seen as steps of the ledger. *)

\* A file whose row keeps its numbers is entered as before.
LEMMA RowCarries ==
  ASSUME NEW rows \in Seq(Rows), Tidy(rows), NEW new \in Seq(Rows), Tidy(new),
         NEW f \in DOMAIN Erp, NEW i \in DOMAIN rows, NEW j \in DOMAIN new,
         rows[i].file = f, new[j].file = f, new[j].shared = rows[i].shared
  PROVE  CopiesOn(new)[f] = CopiesOn(rows)[f] /\ ClaimsOn(new)[f] = ClaimsOn(rows)[f]
<1>1. CopiesOn(rows)[f] = 1 /\ ClaimsOn(rows)[f] = rows[i].shared
  BY CopyOfRow
<1>2. CopiesOn(new)[f] = 1 /\ ClaimsOn(new)[f] = new[j].shared
  BY CopyOfRow
<1> QED
  BY <1>1, <1>2

\* The cover of a mail with IP and EXP documents, which all name its family.
LEMMA CoverOfMail ==
  ASSUME NEW m \in Mails, IpExpRulesPass(m), NEW lc, \A d \in DocsOf(m) : Doc[d].lc = lc
  PROVE  \E c \in CoversOf(m) : c.lc = lc /\ c.numbers = CoverNumbers(m)
<1> DEFINE docs == OfKind(DocsOf(m), {"IP", "EXP"})
           numbers == {Doc[e].number : e \in docs}
<1>1. docs = DocsOf(m)
  <2>1. OfKind(DocsOf(m), {"UD"}) = {}
    BY DEF IpExpRulesPass
  <2>2. \A d \in DocsOf(m) : Doc[d].kind \in Kinds
    BY DocAssumption DEF DocsOf
  <2> QED
    BY <2>1, <2>2 DEF OfKind, Kinds
<1>2. \E d \in DocsOf(m) : TRUE
  <2>1. Cardinality(OfKind(DocsOf(m), {"EXP"})) = 1
    BY DEF IpExpRulesPass
  <2>2. Cardinality({}) = 0
    BY FS_EmptySet
  <2>3. OfKind(DocsOf(m), {"EXP"}) # {}
    BY <2>1, <2>2
  <2> QED
    BY <2>3 DEF OfKind
<1>3. PICK d \in docs : TRUE
  BY <1>1, <1>2
<1>4. numbers = CoverNumbers(m)
  BY <1>1 DEF CoverNumbers
<1> DEFINE c == [lc |-> Doc[d].lc, numbers |-> numbers]
<1>5. c \in CoversOf(m)
  BY <1>3 DEF CoversOf
<1>6. Doc[d].lc = lc
  BY <1>1, <1>3
<1> HIDE DEF docs, numbers
<1>7. c.lc = lc /\ c.numbers = CoverNumbers(m)
  BY <1>4, <1>6
<1> HIDE DEF c
<1> QED
  BY <1>5, <1>7

\* A written batch is a batch of the ledger.
LEMMA WritesAreBatch ==
  ASSUME IInv, LedgerInv, pc = "validating", \A op \in plan : TargetsBlank(sheet, op),
         NEW new, new = Applied(sheet, plan)
  PROVE  BatchOn(sheet, new)
<1>1. /\ sheet \in Seq(Rows) /\ Tidy(sheet) /\ plan \in SUBSET Ops /\ workflow \in Workflows
      /\ Fits(workflow, sheet, working, plan)
  BY DEF IInv, StoreInv, RunInv, PlanInv
<1>2. new \in Seq(Rows) /\ Tidy(new)
  BY WrittenSheet
<1>3. NumbersOnFiles(sheet) /\ Entering(workflow, sheet, plan) /\ RowsApart(plan)
  BY DEF LedgerInv, Entering
<1>4. CASE workflow = "export_lc_sc"
  <2>1. \A op \in plan : IsAppend(op)
    BY <1>1, <1>4 DEF Fits
  <2>2. /\ DOMAIN sheet \subseteq DOMAIN new
        /\ \A i \in DOMAIN sheet : sheet[i].file # NoFile => new[i] = sheet[i]
        /\ \A i \in DOMAIN new : (i \in DOMAIN sheet /\ sheet[i].file # NoFile) \/ new[i].shared = {}
    BY <1>1, <1>3, <2>1, AppendsShow
  <2>3. ASSUME NEW f \in DOMAIN Erp
        PROVE  /\ \/ CopiesOn(new)[f] = CopiesOn(sheet)[f]
                  \/ CopiesOn(sheet)[f] = 0 /\ CopiesOn(new)[f] = 1
               /\ ClaimsOn(new)[f] = ClaimsOn(sheet)[f]
    <3>1. f # NoFile
      BY RegisterAssumption
    <3>2. CASE f \in FilesIn(sheet)
      <4>1. PICK i \in DOMAIN sheet : sheet[i].file = f
        BY <3>2, OnRow
      <4>2. i \in DOMAIN new /\ new[i] = sheet[i]
        BY <2>2, <3>1, <4>1
      <4>3. new[i].file = f /\ new[i].shared = sheet[i].shared
        BY <4>1, <4>2
      <4>4. CopiesOn(new)[f] = CopiesOn(sheet)[f] /\ ClaimsOn(new)[f] = ClaimsOn(sheet)[f]
        BY <1>1, <1>2, <4>1, <4>2, <4>3, RowCarries
      <4> QED
        BY <4>4
    <3>3. CASE f \notin FilesIn(sheet) /\ f \in FilesIn(new)
      <4>1. PICK j \in DOMAIN new : new[j].file = f
        BY <3>3, OnRow
      <4>2. CopiesOn(new)[f] = 1 /\ ClaimsOn(new)[f] = new[j].shared
        BY <1>2, <4>1, CopyOfRow
      <4>3. CopiesOn(sheet)[f] = 0 /\ ClaimsOn(sheet)[f] = {}
        BY <3>3, NoCopy
      <4>4. ~(j \in DOMAIN sheet /\ sheet[j].file # NoFile)
        BY <2>2, <3>3, <4>1, OnRow
      <4> QED
        BY <2>2, <4>2, <4>3, <4>4
    <3>4. CASE f \notin FilesIn(sheet) /\ f \notin FilesIn(new)
      <4>1. CopiesOn(new)[f] = 0 /\ ClaimsOn(new)[f] = {}
        BY <3>4, NoCopy
      <4>2. CopiesOn(sheet)[f] = 0 /\ ClaimsOn(sheet)[f] = {}
        BY <3>4, NoCopy
      <4> QED
        BY <4>1, <4>2
    <3> QED
      BY <3>2, <3>3, <3>4
  <2> QED
    BY <2>3 DEF BatchOn
<1>5. CASE workflow = "ud_ip_exp"
  <2>1. /\ Assigns(sheet, plan) /\ LedgerPlan(sheet, plan)
        /\ \A op \in plan : Storable(op.mail)
    BY <1>1, <1>3, <1>5 DEF Fits, Entering
  <2>2. /\ DOMAIN new = DOMAIN sheet
        /\ \A i \in DOMAIN sheet : new[i].file = sheet[i].file
        /\ \A i \in DOMAIN sheet : OpsAt(plan, i) = {} => new[i] = sheet[i]
        /\ \A op \in plan : new[op.row].shared = op.shared
    BY <1>1, <1>3, <2>1, AssignedShow
  <2>3. \A op \in plan : ClaimsRow(sheet, plan, op)
    BY <2>1 DEF LedgerPlan
  <2>4. ASSUME NEW f \in DOMAIN Erp, f \notin FilesIn(sheet)
        PROVE  CopiesOn(new)[f] = CopiesOn(sheet)[f] /\ ClaimsOn(new)[f] = ClaimsOn(sheet)[f]
    <3>1. f \notin FilesIn(new)
      BY <2>2, <2>4 DEF FilesIn
    <3>2. CopiesOn(new)[f] = 0 /\ ClaimsOn(new)[f] = {}
      BY <3>1, NoCopy
    <3>3. CopiesOn(sheet)[f] = 0 /\ ClaimsOn(sheet)[f] = {}
      BY <2>4, NoCopy
    <3> QED
      BY <3>2, <3>3
  <2>5. ASSUME NEW i \in DOMAIN sheet, NEW f \in DOMAIN Erp, sheet[i].file = f,
               OpsAt(plan, i) = {}
        PROVE  CopiesOn(new)[f] = CopiesOn(sheet)[f] /\ ClaimsOn(new)[f] = ClaimsOn(sheet)[f]
    <3>1. new[i].file = f /\ new[i].shared = sheet[i].shared /\ i \in DOMAIN new
      BY <2>2, <2>5
    <3> QED
      BY <1>1, <1>2, <2>5, <3>1, RowCarries
  <2>6. ASSUME NEW op \in plan, NEW f \in DOMAIN Erp, sheet[op.row].file = f
        PROVE  CopiesOn(new)[f] = CopiesOn(sheet)[f] /\ Claims(sheet, new, f)
    <3> DEFINE i == op.row
               m == op.mail
               lc == VerifiedFamily(m)
    <3>1. i \in DOMAIN sheet /\ TargetsFree(sheet[i])
      BY <2>1 DEF Assigns
    <3>2. i \in FamilyRows(sheet, lc)
      BY <2>3 DEF ClaimsRow
    <3>3. Erp[f].lc = lc
      BY <2>6, <3>2 DEF FamilyRows
    <3>4. i \in DOMAIN new /\ new[i].file = f /\ sheet[i].file = f
      BY <2>2, <2>6, <3>1
    <3>5. m \in Mails /\ Storable(m)
      <4>1. op \in Ops
        BY <1>1
      <4> QED
        BY <2>1, <4>1 DEF Ops, OpsUpTo
    <3>6. new[i].shared = op.shared
      BY <2>2
    <3>7. UdWrite(m, op) \/ CoverWrite(m, sheet, plan, op)
      BY <2>3 DEF ClaimsRow
    <3> HIDE DEF i, m, lc
    <3>8. CopiesOn(sheet)[f] = 1 /\ ClaimsOn(sheet)[f] = {}
      <4>1. CopiesOn(sheet)[f] = 1 /\ ClaimsOn(sheet)[f] = sheet[i].shared
        BY <1>1, <3>1, <3>4, CopyOfRow
      <4> QED
        BY <3>1, <4>1 DEF TargetsFree
    <3>9. CopiesOn(new)[f] = 1 /\ ClaimsOn(new)[f] = op.shared
      <4>1. CopiesOn(new)[f] = 1 /\ ClaimsOn(new)[f] = new[i].shared
        BY <1>2, <3>4, CopyOfRow
      <4> QED
        BY <3>6, <4>1
    <3>10. \A d \in DocsOf(m) : Doc[d].lc = lc
      BY <3>5 DEF Storable, lc
    <3>11. CASE UdWrite(m, op)
      <4>1. PICK d \in OfKind(DocsOf(m), {"UD"}) : op.shared = {Doc[d].number}
        BY <3>11 DEF UdWrite
      <4> DEFINE u == [number |-> Doc[d].number, lc |-> Doc[d].lc, value |-> Doc[d].value,
                       date |-> Doc[d].date]
      <4>2. u \in UdsOf(m)
        BY DEF UdsOf
      <4>3. u.lc = Erp[f].lc /\ op.shared = {u.number}
        BY <3>3, <3>10, <4>1 DEF OfKind
      <4> HIDE DEF u
      <4> QED
        BY <3>5, <3>8, <3>9, <4>2, <4>3 DEF Claims
    <3>12. CASE CoverWrite(m, sheet, plan, op)
      <4>1. /\ IpExpRulesPass(m) /\ op.shared = CoverNumbers(m)
            /\ \A j \in FamilyRows(sheet, lc) : \E q \in plan : q.row = j /\ q.shared = op.shared
        BY <3>12 DEF CoverWrite, lc
      <4>2. PICK c \in CoversOf(m) : c.lc = lc /\ c.numbers = CoverNumbers(m)
        BY <3>5, <3>10, <4>1, CoverOfMail
      <4>3. ASSUME NEW g \in DOMAIN Erp, CopiesOn(sheet)[g] > 0, Erp[g].lc = lc
            PROVE  ClaimsOn(new)[g] = op.shared
        <5>1. g \in FilesIn(sheet) /\ g # NoFile
          <6>1. CopiesOn(sheet)[g] # 0
            BY <4>3
          <6> QED
            BY <6>1, NoCopy, RegisterAssumption
        <5>2. PICK j \in DOMAIN sheet : sheet[j].file = g
          BY <5>1, OnRow
        <5>3. j \in FamilyRows(sheet, lc)
          BY <4>3, <5>1, <5>2 DEF FamilyRows
        <5>4. PICK q \in plan : q.row = j /\ q.shared = op.shared
          BY <4>1, <5>3
        <5>5. j \in DOMAIN new /\ new[j].file = g /\ new[j].shared = op.shared
          BY <2>2, <5>2, <5>4
        <5> QED
          BY <1>2, <5>5, CopyOfRow
      <4> QED
        BY <3>3, <3>5, <3>8, <3>9, <4>1, <4>2, <4>3 DEF Claims
    <3> QED
      BY <3>7, <3>8, <3>9, <3>11, <3>12
  <2>7. ASSUME NEW f \in DOMAIN Erp
        PROVE  /\ CopiesOn(new)[f] = CopiesOn(sheet)[f]
               /\ ClaimsOn(new)[f] = ClaimsOn(sheet)[f] \/ Claims(sheet, new, f)
    <3>1. CASE f \in FilesIn(sheet)
      <4>1. PICK i \in DOMAIN sheet : sheet[i].file = f
        BY <3>1, OnRow
      <4>2. CASE OpsAt(plan, i) = {}
        BY <2>5, <4>1, <4>2
      <4>3. CASE OpsAt(plan, i) # {}
        <5>1. PICK op \in plan : op.row = i
          BY <4>3 DEF OpsAt
        <5> QED
          BY <2>6, <4>1, <5>1
      <4> QED
        BY <4>2, <4>3
    <3> QED
      BY <2>4, <3>1
  <2> QED
    BY <2>7 DEF BatchOn
<1> QED
  BY <1>1, <1>4, <1>5 DEF Workflows

\* A step that the ledger does not see.
LEMMA Stutters ==
  ASSUME CopiesOn(sheet') = CopiesOn(sheet), ClaimsOn(sheet') = ClaimsOn(sheet), moved' = moved
  PROVE  UNCHANGED Ledger!vars
<1>1. /\ CopiesOn(sheet) = [f \in DOMAIN Erp |-> Cardinality(RowsOf(f))]
      /\ ClaimsOn(sheet) = [f \in DOMAIN Erp |-> NumbersUnder(f)]
  BY DEF CopiesOn, ClaimsOn, RowsWith, RowsOf, NumbersUnder
<1>2. /\ CopiesOn(sheet') = [f \in DOMAIN Erp |-> Cardinality(RowsOf(f))]'
      /\ ClaimsOn(sheet') = [f \in DOMAIN Erp |-> NumbersUnder(f)]'
  BY DEF CopiesOn, ClaimsOn, RowsWith, RowsOf, NumbersUnder
<1> QED
  BY <1>1, <1>2 DEF Ledger!vars

\* Neither does it see the rows moved around.
LEMMA SwapStutters ==
  ASSUME IInv, IInv', SwapRows
  PROVE  UNCHANGED Ledger!vars
<1> DEFINE new == sheet'
<1>1. /\ sheet \in Seq(Rows) /\ Tidy(sheet) /\ new \in Seq(Rows) /\ Tidy(new)
  BY DEF IInv, StoreInv
<1>2. moved' = moved
  BY DEF SwapRows, Edit
<1>3. PICK i \in DOMAIN sheet, j \in DOMAIN sheet :
        i < j /\ new = [sheet EXCEPT ![i] = sheet[j], ![j] = sheet[i]]
  BY DEF SwapRows
<1>4. i # j
  <2>1. i \in Nat /\ j \in Nat
    BY <1>1
  <2> QED
    BY <1>3, <2>1
<1>5. /\ DOMAIN new = DOMAIN sheet
      /\ \A n \in DOMAIN sheet : \E k \in DOMAIN sheet : new[n] = sheet[k]
      /\ \A k \in DOMAIN sheet : \E n \in DOMAIN sheet : new[n] = sheet[k]
  <2>1. /\ DOMAIN new = DOMAIN sheet /\ new[i] = sheet[j] /\ new[j] = sheet[i]
        /\ \A n \in DOMAIN sheet : n # i /\ n # j => new[n] = sheet[n]
    BY <1>1, <1>3, <1>4
  <2> HIDE DEF new
  <2> QED
    BY <1>3, <2>1
<1> HIDE DEF new
<1>6. ASSUME NEW f \in DOMAIN Erp
      PROVE  CopiesOn(new)[f] = CopiesOn(sheet)[f] /\ ClaimsOn(new)[f] = ClaimsOn(sheet)[f]
  <2>1. CASE f \in FilesIn(sheet)
    <3>1. PICK k \in DOMAIN sheet : sheet[k].file = f
      BY <2>1, OnRow
    <3>2. PICK n \in DOMAIN new : new[n] = sheet[k]
      BY <1>5
    <3>3. new[n].file = f /\ new[n].shared = sheet[k].shared
      BY <3>1, <3>2
    <3> QED
      BY <1>1, <3>1, <3>3, RowCarries
  <2>2. CASE f \notin FilesIn(sheet)
    <3>1. f \notin FilesIn(new)
      <4>1. ASSUME NEW n \in DOMAIN new, new[n].file = f PROVE FALSE
        <5>1. PICK k \in DOMAIN sheet : new[n] = sheet[k]
          BY <1>5, <4>1
        <5>2. sheet[k].file = f
          BY <4>1, <5>1
        <5> QED
          BY <2>2, <5>2, OnRow
      <4> QED
        BY <4>1, OnRow
    <3>2. CopiesOn(new)[f] = 0 /\ ClaimsOn(new)[f] = {}
      BY <3>1, NoCopy
    <3>3. CopiesOn(sheet)[f] = 0 /\ ClaimsOn(sheet)[f] = {}
      BY <2>2, NoCopy
    <3> QED
      BY <3>2, <3>3
  <2> QED
    BY <2>1, <2>2
<1>7. CopiesOn(new) = CopiesOn(sheet) /\ ClaimsOn(new) = ClaimsOn(sheet)
  BY <1>6 DEF CopiesOn, ClaimsOn
<1> QED
  BY <1>2, <1>7, Stutters DEF new

\* A cleared row takes its file, if it has one, out of the ledger.
LEMMA ClearErases ==
  ASSUME IInv, IInv', ClearRow
  PROVE  UNCHANGED Ledger!vars \/ \E f \in DOMAIN Erp : Ledger!Erase(f)
<1> DEFINE new == sheet'
<1>1. sheet \in Seq(Rows) /\ Tidy(sheet) /\ new \in Seq(Rows) /\ Tidy(new)
  BY DEF IInv, StoreInv
<1>2. moved' = moved
  BY DEF ClearRow, Edit
<1>3. PICK i \in DOMAIN sheet :
        sheet[i].shared = {} /\ new = [sheet EXCEPT ![i] = BlankRow]
  BY DEF ClearRow
<1>4. /\ DOMAIN new = DOMAIN sheet /\ new[i] = BlankRow
      /\ \A n \in DOMAIN sheet : n # i => new[n] = sheet[n]
  BY <1>1, <1>3
<1>5. BlankRow.file = NoFile
  BY DEF BlankRow
<1>6. sheet[i].file \in (DOMAIN Erp) \cup {NoFile}
  <2>1. sheet[i] \in Rows
    BY <1>1, <1>3
  <2> QED
    BY <2>1 DEF Rows
<1> HIDE DEF new
<1>7. ASSUME NEW f \in DOMAIN Erp, f # sheet[i].file
      PROVE  CopiesOn(new)[f] = CopiesOn(sheet)[f] /\ ClaimsOn(new)[f] = ClaimsOn(sheet)[f]
  <2>1. CASE f \in FilesIn(sheet)
    <3>1. PICK k \in DOMAIN sheet : sheet[k].file = f
      BY <2>1, OnRow
    <3>2. k \in DOMAIN new /\ new[k].file = f /\ new[k].shared = sheet[k].shared
      BY <1>4, <1>7, <3>1
    <3> QED
      BY <1>1, <3>1, <3>2, RowCarries
  <2>2. CASE f \notin FilesIn(sheet)
    <3>1. f \notin FilesIn(new)
      BY <1>4, <1>5, <2>2 DEF FilesIn
    <3>2. CopiesOn(new)[f] = 0 /\ ClaimsOn(new)[f] = {}
      BY <3>1, NoCopy
    <3>3. CopiesOn(sheet)[f] = 0 /\ ClaimsOn(sheet)[f] = {}
      BY <2>2, NoCopy
    <3> QED
      BY <3>2, <3>3
  <2> QED
    BY <2>1, <2>2
<1>8. CASE sheet[i].file = NoFile
  <2>1. CopiesOn(new) = CopiesOn(sheet) /\ ClaimsOn(new) = ClaimsOn(sheet)
    BY <1>7, <1>8, RegisterAssumption DEF CopiesOn, ClaimsOn
  <2> QED
    BY <1>2, <2>1, Stutters DEF new
<1>9. CASE sheet[i].file # NoFile
  <2> DEFINE f == sheet[i].file
  <2>1. f \in DOMAIN Erp /\ f # NoFile
    BY <1>6, <1>9
  <2>2. CopiesOn(sheet)[f] = 1 /\ ClaimsOn(sheet)[f] = {}
    BY <1>1, <1>3, <2>1, CopyOfRow
  <2>3. f \notin FilesIn(new)
    <3>1. ASSUME NEW n \in DOMAIN new, new[n].file = f PROVE FALSE
      <4>1. n # i
        BY <1>4, <1>5, <2>1, <3>1
      <4>2. n \in DOMAIN sheet /\ sheet[n].file = sheet[i].file /\ sheet[n].file # NoFile
        BY <1>4, <2>1, <3>1, <4>1
      <4> QED
        BY <1>1, <4>1, <4>2 DEF Tidy
    <3> QED
      BY <3>1 DEF FilesIn
  <2> HIDE DEF f
  <2>4. CopiesOn(new)[f] = 0 /\ ClaimsOn(new)[f] = {}
    BY <2>1, <2>3, NoCopy
  <2>5. \A g \in DOMAIN Erp : g # f =>
          CopiesOn(new)[g] = CopiesOn(sheet)[g] /\ ClaimsOn(new)[g] = ClaimsOn(sheet)[g]
    BY <1>7 DEF f
  <2>6. ClaimsOn(new) = ClaimsOn(sheet)
    BY <2>2, <2>4, <2>5 DEF ClaimsOn
  <2>7. CopiesOn(new) = [CopiesOn(sheet) EXCEPT ![f] = 0]
    BY <2>1, <2>2, <2>4, <2>5 DEF CopiesOn
  <2>8. /\ CopiesOn(sheet) = [g \in DOMAIN Erp |-> Cardinality(RowsOf(g))]
        /\ ClaimsOn(sheet) = [g \in DOMAIN Erp |-> NumbersUnder(g)]
    BY DEF CopiesOn, ClaimsOn, RowsWith, RowsOf, NumbersUnder
  <2>9. /\ CopiesOn(new) = [g \in DOMAIN Erp |-> Cardinality(RowsOf(g))]'
        /\ ClaimsOn(new) = [g \in DOMAIN Erp |-> NumbersUnder(g)]'
    BY DEF CopiesOn, ClaimsOn, RowsWith, RowsOf, NumbersUnder, new
  <2>10. Ledger!Erase(f)
    BY <1>2, <2>2, <2>6, <2>7, <2>8, <2>9 DEF Ledger!Erase
  <2> QED
    BY <2>1, <2>10
<1> QED
  BY <1>8, <1>9

\* A row that others fill is a batch of one file.
LEMMA FillIsBatch ==
  ASSUME IInv, IInv', FillRow
  PROVE  BatchOn(sheet, sheet')
<1> DEFINE new == sheet'
<1>1. sheet \in Seq(Rows) /\ Tidy(sheet) /\ new \in Seq(Rows) /\ Tidy(new)
  BY DEF IInv, StoreInv
<1>2. PICK f \in (DOMAIN Erp) \ FilesIn(sheet) :
        new = Append(sheet, [BlankRow EXCEPT !.file = f, !.buyer = TRUE])
  BY DEF FillRow
<1> DEFINE row == [BlankRow EXCEPT !.file = f, !.buyer = TRUE]
<1>3. row.file = f /\ row.shared = {}
  BY DEF BlankRow
<1>4. new = Append(sheet, row)
  BY <1>2
<1> HIDE DEF row, new
<1> DEFINE last == Len(sheet) + 1
<1>5. /\ \A n \in DOMAIN sheet : n \in DOMAIN new /\ new[n] = sheet[n]
      /\ last \in DOMAIN new /\ new[last] = row
      /\ \A n \in DOMAIN new : n \in DOMAIN sheet \/ n = last
  BY <1>1, <1>4
<1> HIDE DEF last
<1>6. ASSUME NEW g \in DOMAIN Erp
      PROVE  /\ \/ CopiesOn(new)[g] = CopiesOn(sheet)[g]
                \/ CopiesOn(sheet)[g] = 0 /\ CopiesOn(new)[g] = 1
             /\ ClaimsOn(new)[g] = ClaimsOn(sheet)[g]
  <2>1. CASE g \in FilesIn(sheet)
    <3>1. PICK k \in DOMAIN sheet : sheet[k].file = g
      BY <2>1, OnRow
    <3>2. k \in DOMAIN new /\ new[k].file = g /\ new[k].shared = sheet[k].shared
      BY <1>5, <3>1
    <3> QED
      BY <1>1, <3>1, <3>2, RowCarries
  <2>2. CASE g \notin FilesIn(sheet)
    <3>1. CopiesOn(sheet)[g] = 0 /\ ClaimsOn(sheet)[g] = {}
      BY <2>2, NoCopy
    <3>2. CASE g = f
      <4>1. CopiesOn(new)[g] = 1 /\ ClaimsOn(new)[g] = new[last].shared
        BY <1>1, <1>3, <1>5, <3>2, CopyOfRow
      <4> QED
        BY <1>3, <1>5, <3>1, <4>1
    <3>3. CASE g # f
      <4>1. g \notin FilesIn(new)
        BY <1>3, <1>5, <2>2, <3>3 DEF FilesIn
      <4>2. CopiesOn(new)[g] = 0 /\ ClaimsOn(new)[g] = {}
        BY <4>1, NoCopy
      <4> QED
        BY <3>1, <4>2
    <3> QED
      BY <3>2, <3>3
  <2> QED
    BY <2>1, <2>2
<1>7. BatchOn(sheet, new)
  BY <1>6 DEF BatchOn
<1> QED
  BY <1>7 DEF new

\* A mail that moves is settled: the workbook holds what it brought.
LEMMA MoveSettles ==
  ASSUME IInv, LedgerInv, MoveMail
  PROVE  \E m \in Mails : Ledger!Settle(m)
<1> DEFINE m == Min(Movable)
           lc == VerifiedFamily(m)
<1>1. /\ sheet \in Seq(Rows) /\ Tidy(sheet) /\ workflow \in Workflows
  BY DEF IInv, StoreInv, RunInv
<1>2. /\ pc = "moving" /\ Movable # {} /\ moved' = moved \cup {m} /\ sheet' = sheet
  BY DEF MoveMail
<1>3. m \in Movable
  <2>1. Movable \in SUBSET Nat
    BY MailAssumption DEF Movable
  <2> QED
    BY <1>2, <2>1, SmallestNumber
<1> HIDE DEF m
<1>4. m \in Mails /\ m \notin moved /\ ~outcome[m].blocked
  BY <1>3 DEF Movable
<1>5. HoldsMail(m) /\ sheet = working
  BY <1>2, <1>4 DEF LedgerInv
<1>6. Mail[m].workflow = workflow
  BY <1>5 DEF HoldsMail
<1>7. /\ CopiesOn(sheet) = [f \in DOMAIN Erp |-> Cardinality(RowsOf(f))]
      /\ ClaimsOn(sheet) = [f \in DOMAIN Erp |-> NumbersUnder(f)]
  BY DEF CopiesOn, ClaimsOn, RowsWith, RowsOf, NumbersUnder
<1>8. \A k, numbers : Ledger!Claimed(k, numbers)
          = {f \in DOMAIN Erp : /\ CopiesOn(sheet)[f] > 0 /\ Erp[f].lc = k
                                /\ ClaimsOn(sheet)[f] = numbers}
  BY <1>7 DEF Ledger!Claimed, Ledger!Entered
<1>9. ASSUME NEW numbers, Held(sheet, lc, numbers) PROVE Ledger!Claimed(lc, numbers) # {}
  <2>1. PICK i \in FamilyRows(sheet, lc) : sheet[i].shared = numbers
    BY <1>9 DEF Held
  <2> DEFINE f == sheet[i].file
  <2>2. i \in DOMAIN sheet /\ f # NoFile /\ Erp[f].lc = lc
    BY DEF FamilyRows
  <2>3. f \in DOMAIN Erp
    <3>1. sheet[i] \in Rows
      BY <1>1, <2>2
    <3> QED
      BY <2>2, <3>1 DEF Rows
  <2> HIDE DEF f
  <2>4. sheet[i].file = f
    BY DEF f
  <2>5. CopiesOn(sheet)[f] = 1 /\ ClaimsOn(sheet)[f] = numbers
    BY <1>1, <2>1, <2>2, <2>3, <2>4, CopyOfRow
  <2>6. CopiesOn(sheet)[f] > 0
    BY <2>5
  <2> QED
    BY <1>8, <2>2, <2>3, <2>5, <2>6
<1>10. \A f \in (IF Mail[m].workflow = "export_lc_sc" THEN ToSet(Body(m)) ELSE {}) :
         f \in DOMAIN Erp /\ CopiesOn(sheet)[f] > 0
  <2>1. ASSUME Mail[m].workflow = "export_lc_sc", NEW f \in ToSet(Body(m))
        PROVE  f \in DOMAIN Erp /\ CopiesOn(sheet)[f] > 0
    <3>1. f \in DOMAIN Erp /\ f \in FilesIn(sheet)
      BY <1>2, <1>5, <1>6, <2>1 DEF HoldsMail
    <3>2. CopiesOn(sheet)[f] = 1
      BY <1>1, <3>1, LedgerOfSheet
    <3> QED
      BY <3>1, <3>2
  <2> QED
    BY <2>1
<1>11. ASSUME NEW d \in DocsOf(m) PROVE workflow = "ud_ip_exp" /\ Doc[d].lc = lc
  <2>1. workflow = "ud_ip_exp"
    BY <1>6, DocAssumption DEF DocsOf
  <2> QED
    BY <1>5, <2>1 DEF HoldsMail, Storable, lc
<1>12. ASSUME NEW u \in UdsOf(m) PROVE Ledger!Claimed(u.lc, {u.number}) # {}
  <2>1. PICK d \in OfKind(DocsOf(m), {"UD"}) : u.number = Doc[d].number /\ u.lc = Doc[d].lc
    BY DEF UdsOf
  <2>2. d \in DocsOf(m)
    BY DEF OfKind
  <2>3. workflow = "ud_ip_exp" /\ u.lc = lc
    BY <1>11, <2>1, <2>2
  <2>4. Held(sheet, lc, {u.number})
    BY <1>5, <2>1, <2>3 DEF HoldsMail, ShowsMail, lc
  <2> QED
    BY <1>9, <2>3, <2>4
<1>13. ASSUME NEW c \in CoversOf(m) PROVE Ledger!Claimed(c.lc, c.numbers) # {}
  <2> DEFINE docs == OfKind(DocsOf(m), {"IP", "EXP"})
             numbers == {Doc[e].number : e \in docs}
  <2>1. PICK d \in docs : c.lc = Doc[d].lc /\ c.numbers = numbers
    BY DEF CoversOf
  <2>2. d \in DocsOf(m) /\ docs # {}
    BY <2>1 DEF OfKind
  <2>3. workflow = "ud_ip_exp" /\ c.lc = lc
    BY <1>11, <2>1, <2>2
  <2>4. IpExpRulesPass(m) /\ Held(sheet, lc, CoverNumbers(m))
    BY <1>5, <2>2, <2>3 DEF HoldsMail, ShowsMail, lc
  <2>5. numbers = CoverNumbers(m)
    <3>1. OfKind(DocsOf(m), {"UD"}) = {}
      BY <2>4 DEF IpExpRulesPass
    <3>2. \A e \in DocsOf(m) : Doc[e].kind \in Kinds
      BY DocAssumption DEF DocsOf
    <3>3. docs = DocsOf(m)
      BY <3>1, <3>2 DEF OfKind, Kinds
    <3> QED
      BY <3>3 DEF CoverNumbers
  <2> HIDE DEF docs, numbers
  <2> QED
    BY <1>9, <2>1, <2>3, <2>4, <2>5
<1>14. /\ CopiesOn(sheet') = [f \in DOMAIN Erp |-> Cardinality(RowsOf(f))]'
       /\ ClaimsOn(sheet') = [f \in DOMAIN Erp |-> NumbersUnder(f)]'
  BY DEF CopiesOn, ClaimsOn, RowsWith, RowsOf, NumbersUnder
<1> HIDE DEF lc
<1>15. Ledger!Settle(m)
  BY <1>2, <1>4, <1>7, <1>10, <1>12, <1>13, <1>14 DEF Ledger!Settle
<1> QED
  BY <1>4, <1>15

\* A run starts on a ledger in order.
LEMMA InitIsLedger == Init => Ledger!Init
<1> SUFFICES ASSUME Init PROVE Ledger!Init
  OBVIOUS
<1>1. sheet \in Seq(Rows) /\ Tidy(sheet) /\ moved = {}
  BY SheetAssumption DEF Init
<1>2. /\ CopiesOn(sheet) = [f \in DOMAIN Erp |-> Cardinality(RowsOf(f))]
      /\ ClaimsOn(sheet) = [f \in DOMAIN Erp |-> NumbersUnder(f)]
  BY DEF CopiesOn, ClaimsOn, RowsWith, RowsOf, NumbersUnder
<1>3. \A f \in DOMAIN Erp :
        /\ CopiesOn(sheet)[f] \in {0, 1}
        /\ CopiesOn(sheet)[f] = 0 => ClaimsOn(sheet)[f] = {}
        /\ ClaimsOn(sheet)[f] \in SUBSET Numbers
  BY <1>1, LedgerOfSheet
<1>4. CopiesOn(sheet) \in [DOMAIN Erp -> {0, 1}]
  BY <1>3 DEF CopiesOn
<1>5. ClaimsOn(sheet) \in [DOMAIN Erp -> SUBSET Numbers]
  BY <1>3 DEF ClaimsOn
<1> QED
  BY <1>1, <1>2, <1>3, <1>4, <1>5 DEF Ledger!Init

\* Every step of the runs is a step of the ledger, or none.
LEMMA NextIsLedger ==
  IInv /\ LedgerInv /\ IInv' /\ [Next]_vars => [Ledger!Next]_(Ledger!vars)
<1> SUFFICES ASSUME IInv, LedgerInv, IInv', [Next]_vars PROVE [Ledger!Next]_(Ledger!vars)
  OBVIOUS
<1>1. ASSUME sheet' = sheet, moved' = moved PROVE UNCHANGED Ledger!vars
  BY <1>1, Stutters
<1>2. CASE \/ \E w \in Workflows : StartRun(w)
           \/ ValidateExportMail \/ ValidateUdMail \/ SavingFails \/ StagingFails
           \/ CrashWhileSaving \/ NothingToWrite \/ PrevalidationFails \/ PrintGroup
           \/ PrintCompletes \/ EndRun \/ Crash \/ UNCHANGED vars
  <2>1. sheet' = sheet /\ moved' = moved
    BY <1>2 DEF StartRun, ValidateExportMail, ValidateUdMail, SavingFails, StagingFails,
                CrashWhileSaving, NothingToWrite, PrevalidationFails, PrintGroup,
                PrintCompletes, EndRun, Crash, vars
  <2> QED
    BY <1>1, <2>1
<1>3. CASE CommitWrites
  <2>1. /\ pc = "validating" /\ sheet' = Applied(sheet, plan) /\ moved' = moved
        /\ \A op \in plan : TargetsBlank(sheet, op)
    BY <1>3 DEF CommitWrites
  <2>2. BatchOn(sheet, sheet')
    BY <2>1, WritesAreBatch
  <2> QED
    BY <2>1, <2>2, BatchIsWrite DEF Ledger!Next
<1>4. CASE WritesEndUncertain
  <2>1. /\ pc = "validating" /\ sheet' \in {sheet, Applied(sheet, plan)} /\ moved' = moved
        /\ \A op \in plan : TargetsBlank(sheet, op)
    BY <1>4 DEF WritesEndUncertain
  <2>2. CASE sheet' = sheet
    BY <1>1, <2>1, <2>2
  <2>3. CASE sheet' = Applied(sheet, plan)
    <3>1. BatchOn(sheet, sheet')
      BY <2>1, <2>3, WritesAreBatch
    <3> QED
      BY <2>1, <3>1, BatchIsWrite DEF Ledger!Next
  <2> QED
    BY <2>1, <2>2, <2>3
<1>5. CASE MoveMail
  BY <1>5, MoveSettles DEF Ledger!Next
<1>6. CASE SwapRows
  BY <1>6, SwapStutters
<1>7. CASE ClearRow
  BY <1>7, ClearErases DEF Ledger!Next
<1>8. CASE FillRow
  <2>1. BatchOn(sheet, sheet') /\ moved' = moved
    BY <1>8, FillIsBatch DEF FillRow, Edit
  <2> QED
    BY <2>1, BatchIsWrite DEF Ledger!Next
<1> QED
  BY <1>2, <1>3, <1>4, <1>5, <1>6, <1>7, <1>8 DEF Next, RunStep, Faulty, Others

\* Whatever dies or fails between two runs and whatever others do to the
\* workbook, the runs keep the ledger: a file is entered once, a row belongs to
\* one document of its family and to no other later, and a mail is moved only
\* when the files it named, and rows for each of its documents, are entered.
THEOREM EntryLedgerTheorem == Spec => ImplementsEntryLedger
<1>1. Init => Ledger!Init
  BY InitIsLedger
<1>2. IInv /\ LedgerInv /\ IInv' /\ [Next]_vars => [Ledger!Next]_(Ledger!vars)
  BY NextIsLedger
<1> QED
  BY <1>1, <1>2, InvTheorem, LedgerInvTheorem, PTL DEF Spec, ImplementsEntryLedger, Ledger!Spec
-----------------------------------------------------------------------------
(* The amounts of rows, and of the files that are on them. *)

\* What the register says of the files.
Values == [f \in DOMAIN Erp |-> Erp[f].value]
Quantities == [f \in DOMAIN Erp |-> Erp[f].quantity]

FilesOn(rows, group) == {rows[i].file : i \in group}
OnFiles(rows, group) == \A i \in group : rows[i].file \in DOMAIN Erp

\* A sum may be added up as the community modules do it.
LEMMA SumDefined ==
  ASSUME NEW S, IsFiniteSet(S), NEW f, Counts(f, S)
  PROVE  /\ \E h : h = [s \in SUBSET S |->
                          IF s = {} THEN 0
                          ELSE f[CHOOSE x \in s : TRUE] + h[s \ {CHOOSE x \in s : TRUE}]]
         /\ \A h : h = [s \in SUBSET S |->
                          IF s = {} THEN 0
                          ELSE f[CHOOSE x \in s : TRUE] + h[s \ {CHOOSE x \in s : TRUE}]]
              => h[S] = Added(f, S)
<1> DEFINE e == [x \in S |-> f[x]]
           pick == PickOf(S)
           Sum(h) == h = [s \in SUBSET S |->
                            IF s = {} THEN 0
                            ELSE f[CHOOSE x \in s : TRUE] + h[s \ {CHOOSE x \in s : TRUE}]]
<1>1. e \in [S -> Nat] /\ Picks(pick, S)
  BY PickOfPicks DEF Counts
<1>2. PICK g \in [SUBSET S -> Nat] : AddsUp(g, S, e, pick)
  <2> HIDE DEF e
  <2> QED
    BY <1>1, SumExists
<1>3. \A s \in SUBSET S : s # {} => pick[s] = (CHOOSE x \in s : TRUE) /\ pick[s] \in S
  BY <1>1 DEF PickOf, Picks
<1>4. g = [s \in SUBSET S |-> g[s]]
  BY <1>2
<1>5. ASSUME NEW s \in SUBSET S, s # {}
      PROVE  g[s] = f[CHOOSE x \in s : TRUE] + g[s \ {CHOOSE x \in s : TRUE}]
  <2>1. g[s] = e[pick[s]] + g[s \ {pick[s]}]
    BY <1>2, <1>5 DEF AddsUp
  <2>2. e[pick[s]] = f[pick[s]]
    BY <1>3, <1>5
  <2> HIDE DEF e, pick
  <2> QED
    BY <1>3, <1>5, <2>1, <2>2
<1>6. g[{}] = 0
  BY <1>2 DEF AddsUp
<1>7. Sum(g)
  BY <1>4, <1>5, <1>6
<1>8. ASSUME NEW h, Sum(h) PROVE h[S] = Added(f, S)
  <2>1. \A s \in SUBSET S :
          h[s] = IF s = {} THEN 0 ELSE f[CHOOSE x \in s : TRUE] + h[s \ {CHOOSE x \in s : TRUE}]
    BY <1>8
  <2> HIDE DEF Sum
  <2>2. AddsUp(h, S, f, pick)
    BY <1>3, <2>1 DEF AddsUp
  <2> QED
    BY <2>2, SumIs DEF pick
<1> QED
  BY <1>7, <1>8

\* The value of a group of rows is that of the files.
LEMMA ValueOfFiles ==
  ASSUME NEW rows \in Seq(Rows), Tidy(rows), NEW group \in SUBSET DOMAIN rows,
         OnFiles(rows, group)
  PROVE  /\ ValueOf(rows, group) = Added(Values, FilesOn(rows, group))
         /\ IsFiniteSet(group) /\ IsFiniteSet(FilesOn(rows, group))
         /\ Counts(Values, FilesOn(rows, group))
<1> DEFINE f == [i \in group |-> Amount(rows, i)]
           h == [i \in group |-> rows[i].file]
           Sum(g) == g = [s \in SUBSET group |->
                            IF s = {} THEN 0
                            ELSE Amount(rows, CHOOSE x \in s : TRUE)
                                   + g[s \ {CHOOSE x \in s : TRUE}]]
           sum == CHOOSE g : Sum(g)
<1>1. ValueOf(rows, group) = sum[group]
  BY DEF ValueOf, MapThenSumSet, MapThenFoldSet
<1>2. IsFiniteSet(group)
  <2>1. DOMAIN rows = 1..Len(rows) /\ Len(rows) \in Int /\ 1 \in Int
    OBVIOUS
  <2>2. IsFiniteSet(1..Len(rows))
    BY <2>1, FS_Interval
  <2> QED
    BY <2>1, <2>2, FS_Subset
<1>3. \A i \in group : h[i] \in DOMAIN Erp /\ f[i] = Values[h[i]] /\ f[i] \in Nat
  BY RegisterAssumption DEF OnFiles, Values, Amount
<1>4. Counts(f, group)
  BY <1>3 DEF Counts
<1>5. FilesOn(rows, group) = {h[i] : i \in group}
  BY DEF FilesOn
<1>6. Counts(Values, {h[i] : i \in group}) /\ IsFiniteSet({h[i] : i \in group})
  <2>1. IsFiniteSet({h[i] : i \in group})
    <3> HIDE DEF h
    <3> QED
      BY <1>2, ImageFinite
  <2> QED
    BY <1>3, <2>1 DEF Counts
<1>7. \A i, j \in group : h[i] = h[j] => i = j
  BY RegisterAssumption DEF Tidy, OnFiles
<1>8. Added(f, group) = Added(Values, {h[i] : i \in group})
  <2> DEFINE part == group
  <2>1. Counts(Values, {h[i] : i \in part}) /\ \A i \in part : f[i] = Values[h[i]]
    BY <1>3, <1>6
  <2>2. IsFiniteSet(part) /\ \A i, j \in part : h[i] = h[j] => i = j
    BY <1>2, <1>7
  <2> HIDE DEF f, h, part
  <2>3. Added(f, part) = Added(Values, {h[i] : i \in part})
    BY <2>1, <2>2, SumImage
  <2> QED
    BY <2>3 DEF part
<1>9. \A s \in SUBSET group : s # {} =>
        f[CHOOSE x \in s : TRUE] = Amount(rows, CHOOSE x \in s : TRUE)
  <2>1. \A s \in SUBSET group : s # {} => (CHOOSE x \in s : TRUE) \in group
    OBVIOUS
  <2>2. \A i \in group : f[i] = Amount(rows, i)
    OBVIOUS
  <2> HIDE DEF f
  <2> QED
    BY <2>1, <2>2
<1> DEFINE Sum2(g) == g = [s \in SUBSET group |->
                             IF s = {} THEN 0
                             ELSE f[CHOOSE x \in s : TRUE] + g[s \ {CHOOSE x \in s : TRUE}]]
<1>10. ASSUME NEW g PROVE Sum(g) <=> Sum2(g)
  <2> DEFINE Rest(s) == g[s \ {CHOOSE x \in s : TRUE}]
             Here(s) == Amount(rows, CHOOSE x \in s : TRUE)
             There(s) == f[CHOOSE x \in s : TRUE]
  <2>1. \A s \in SUBSET group : s # {} => Here(s) = There(s)
    BY <1>9
  <2> HIDE DEF Rest, Here, There
  <2>2. [s \in SUBSET group |-> IF s = {} THEN 0 ELSE Here(s) + Rest(s)]
          = [s \in SUBSET group |-> IF s = {} THEN 0 ELSE There(s) + Rest(s)]
    BY <2>1
  <2> QED
    BY <2>2 DEF Rest, Here, There
<1>11. (\E g : Sum2(g)) /\ \A g : Sum2(g) => g[group] = Added(f, group)
  <2> HIDE DEF f
  <2> QED
    BY <1>2, <1>4, SumDefined
<1> HIDE DEF Sum, Sum2
<1>12. Sum(sum)
  BY <1>10, <1>11
<1>13. sum[group] = Added(f, group)
  BY <1>10, <1>11, <1>12
<1> QED
  BY <1>1, <1>2, <1>5, <1>6, <1>8, <1>13

\* So are the quantity of a group and its units.
LEMMA QuantityOfFiles ==
  ASSUME NEW rows \in Seq(Rows), Tidy(rows), NEW group \in SUBSET DOMAIN rows,
         OnFiles(rows, group), NEW u
  PROVE  QuantityOf(rows, group, u)
           = Added(Quantities, {f \in FilesOn(rows, group) : Erp[f].unit = u})
<1> DEFINE part == {i \in group : Erp[rows[i].file].unit = u}
           f == [i \in part |-> Erp[rows[i].file].quantity]
           h == [i \in part |-> rows[i].file]
           files == {x \in FilesOn(rows, group) : Erp[x].unit = u}
           Sum(g) == g = [s \in SUBSET part |->
                            IF s = {} THEN 0
                            ELSE Erp[rows[CHOOSE x \in s : TRUE].file].quantity
                                   + g[s \ {CHOOSE x \in s : TRUE}]]
           sum == CHOOSE g : Sum(g)
<1>1. QuantityOf(rows, group, u) = sum[part]
  BY DEF QuantityOf, MapThenSumSet, MapThenFoldSet
<1>2. IsFiniteSet(part)
  <2>1. IsFiniteSet(group)
    BY ValueOfFiles
  <2> QED
    BY <2>1, FS_Subset
<1>3. \A i \in part : h[i] \in DOMAIN Erp /\ f[i] = Quantities[h[i]] /\ f[i] \in Nat
  BY RegisterAssumption DEF OnFiles, Quantities
<1>4. Counts(f, part)
  BY <1>3 DEF Counts
<1>5. files = {h[i] : i \in part}
  BY DEF FilesOn
<1>6. Counts(Quantities, {h[i] : i \in part})
  <2>1. \A i \in part : Quantities[h[i]] \in Nat
    BY <1>3
  <2> HIDE DEF h, part
  <2> QED
    BY <2>1 DEF Counts
<1>7. \A i, j \in part : h[i] = h[j] => i = j
  BY RegisterAssumption DEF Tidy, OnFiles
<1>8. Added(f, part) = Added(Quantities, {h[i] : i \in part})
  <2> HIDE DEF f, h, part
  <2> QED
    BY <1>2, <1>3, <1>6, <1>7, SumImage
<1> HIDE DEF part
<1>9. \A s \in SUBSET part : s # {} =>
        f[CHOOSE x \in s : TRUE] = Erp[rows[CHOOSE x \in s : TRUE].file].quantity
  <2>1. \A s \in SUBSET part : s # {} => (CHOOSE x \in s : TRUE) \in part
    OBVIOUS
  <2>2. \A i \in part : f[i] = Erp[rows[i].file].quantity
    OBVIOUS
  <2> HIDE DEF f
  <2> QED
    BY <2>1, <2>2
<1> DEFINE Sum2(g) == g = [s \in SUBSET part |->
                             IF s = {} THEN 0
                             ELSE f[CHOOSE x \in s : TRUE] + g[s \ {CHOOSE x \in s : TRUE}]]
<1>10. ASSUME NEW g PROVE Sum(g) <=> Sum2(g)
  <2> DEFINE Rest(s) == g[s \ {CHOOSE x \in s : TRUE}]
             Here(s) == Erp[rows[CHOOSE x \in s : TRUE].file].quantity
             There(s) == f[CHOOSE x \in s : TRUE]
  <2>1. \A s \in SUBSET part : s # {} => Here(s) = There(s)
    BY <1>9
  <2> HIDE DEF Rest, Here, There
  <2>2. [s \in SUBSET part |-> IF s = {} THEN 0 ELSE Here(s) + Rest(s)]
          = [s \in SUBSET part |-> IF s = {} THEN 0 ELSE There(s) + Rest(s)]
    BY <2>1
  <2> QED
    BY <2>2 DEF Rest, Here, There
<1>11. (\E g : Sum2(g)) /\ \A g : Sum2(g) => g[part] = Added(f, part)
  <2> HIDE DEF f
  <2> QED
    BY <1>2, <1>4, SumDefined
<1> HIDE DEF Sum, Sum2
<1>12. Sum(sum)
  BY <1>10, <1>11
<1>13. sum[part] = Added(f, part)
  BY <1>10, <1>11, <1>12
<1> QED
  BY <1>1, <1>5, <1>8, <1>13 DEF part

\* Files make up the amounts of a document.
FilesAgree(files, doc) ==
  LET units == {u \in Units : \E f \in files : Erp[f].unit = u /\ Erp[f].quantity > 0}
  IN  /\ Near(Added(Values, files), doc.value)
      /\ units # {}
      /\ \A u \in units :
           LET excess == doc.quantity[u] - Added(Quantities, {f \in files : Erp[f].unit = u})
           IN  excess = 0 \/ excess >= Threshold

\* Rows do when their files do.
LEMMA AmountsOfFiles ==
  ASSUME NEW rows \in Seq(Rows), Tidy(rows), NEW group \in SUBSET DOMAIN rows,
         OnFiles(rows, group), NEW doc
  PROVE  Near(ValueOf(rows, group), doc.value) /\ QuantitiesAgree(rows, group, doc)
           <=> FilesAgree(FilesOn(rows, group), doc)
<1> DEFINE files == FilesOn(rows, group)
           units == {u \in Units : \E f \in files : Erp[f].unit = u /\ Erp[f].quantity > 0}
           Part(u) == Added(Quantities, {f \in files : Erp[f].unit = u})
<1>1. ValueOf(rows, group) = Added(Values, files)
  BY ValueOfFiles
<1>2. UnitsOf(rows, group) = units
  BY DEF UnitsOf, FilesOn
<1>3. \A u : QuantityOf(rows, group, u) = Part(u)
  BY QuantityOfFiles
<1> HIDE DEF units, Part
<1>4. QuantitiesAgree(rows, group, doc)
        <=> /\ units # {}
            /\ \A u \in units : LET excess == doc.quantity[u] - Part(u)
                                IN  excess = 0 \/ excess >= Threshold
  BY <1>2, <1>3 DEF QuantitiesAgree
<1> HIDE DEF files
<1>5. FilesAgree(files, doc)
        <=> /\ Near(Added(Values, files), doc.value)
            /\ units # {}
            /\ \A u \in units : LET excess == doc.quantity[u] - Part(u)
                                IN  excess = 0 \/ excess >= Threshold
  BY DEF FilesAgree, units, Part
<1> QED
  BY <1>1, <1>4, <1>5 DEF files

\* The rows under a number are rows of files of the family.
LEMMA RowsUnderIs ==
  ASSUME NEW rows \in Seq(Rows), NEW lc, NEW number
  PROVE  /\ RowsUnder(rows, lc, number) \in SUBSET FamilyRows(rows, lc)
         /\ FamilyRows(rows, lc) \in SUBSET DOMAIN rows
         /\ \A T \in SUBSET FamilyRows(rows, lc) : OnFiles(rows, T)
<1>1. FamilyRows(rows, lc) \in SUBSET DOMAIN rows
  BY DEF FamilyRows
<1>2. \A i \in DOMAIN rows : rows[i].file \in (DOMAIN Erp) \cup {NoFile}
  <2>1. \A i \in DOMAIN rows : rows[i] \in Rows
    OBVIOUS
  <2> QED
    BY <2>1 DEF Rows
<1>3. \A i \in FamilyRows(rows, lc) : rows[i].file \in DOMAIN Erp
  BY <1>1, <1>2 DEF FamilyRows
<1> QED
  BY <1>1, <1>3 DEF RowsUnder, OnFiles

\* Each row of one sheet under a number is on another with its file and date.
ShownBy(a, b, lc, number) ==
  \A i \in RowsUnder(a, lc, number) : \E j \in RowsUnder(b, lc, number) :
    a[i].file = b[j].file /\ a[i].date = b[j].date

\* A sheet under whose numbers there is the same stays in balance.
LEMMA BalanceCarries ==
  ASSUME NEW rows \in Seq(Rows), Tidy(rows), InBalance(rows), NEW new \in Seq(Rows), Tidy(new),
         NEW d \in UdDocs,
         ShownBy(rows, new, Doc[d].lc, Doc[d].number),
         ShownBy(new, rows, Doc[d].lc, Doc[d].number)
  PROVE  Balances(new, d)
<1> DEFINE lc == Doc[d].lc
           n == Doc[d].number
           R == RowsUnder(rows, lc, n)
           N == RowsUnder(new, lc, n)
<1> SUFFICES ASSUME N # {}
             PROVE  \E e \in UdDocs : /\ Doc[e].number = n /\ Doc[e].lc = lc
                                      /\ Allocatable(Doc[e]) /\ MakesUp(new, N, Doc[e])
  BY DEF Balances
<1>1. R # {}
  BY DEF ShownBy
<1>2. PICK e \in UdDocs : /\ Doc[e].number = n /\ Doc[e].lc = lc /\ Allocatable(Doc[e])
                          /\ MakesUp(rows, R, Doc[e])
  BY <1>1 DEF InBalance, Balances
<1>3. /\ R \in SUBSET DOMAIN rows /\ OnFiles(rows, R)
      /\ N \in SUBSET DOMAIN new /\ OnFiles(new, N)
  BY RowsUnderIs
<1>4. FilesOn(rows, R) = FilesOn(new, N)
  BY DEF ShownBy, FilesOn
<1>5. \A i \in N : new[i].shared = {n}
  BY DEF RowsUnder
<1>6. ASSUME NEW i \in N PROVE ShowsDocument(new[i], Doc[e])
  <2>1. PICK j \in R : new[i].date = rows[j].date
    BY DEF ShownBy
  <2>2. ShowsDocument(rows[j], Doc[e])
    BY <1>2 DEF MakesUp
  <2> QED
    BY <1>2, <1>5, <2>1, <2>2 DEF ShowsDocument
<1> HIDE DEF R, N
<1>7. FilesAgree(FilesOn(rows, R), Doc[e])
  <2>1. Near(ValueOf(rows, R), Doc[e].value) /\ QuantitiesAgree(rows, R, Doc[e])
    BY <1>2 DEF MakesUp
  <2> QED
    BY <1>3, <2>1, AmountsOfFiles
<1>8. Near(ValueOf(new, N), Doc[e].value) /\ QuantitiesAgree(new, N, Doc[e])
  BY <1>3, <1>4, <1>7, AmountsOfFiles
<1>9. MakesUp(new, N, Doc[e])
  BY <1>6, <1>8 DEF MakesUp
<1> QED
  BY <1>2, <1>9 DEF N, lc, n

\* A sheet that shows what another in balance shows is in balance.
LEMMA BalanceKeeps ==
  ASSUME NEW rows \in Seq(Rows), Tidy(rows), InBalance(rows), NEW new \in Seq(Rows), Tidy(new),
         \A lc, n : ShownBy(rows, new, lc, n) /\ ShownBy(new, rows, lc, n)
  PROVE  InBalance(new)
BY BalanceCarries DEF InBalance

\* Without one that is worth more than twice the tolerance, a total that is near
\* a value is not near it.
LEMMA FarWithout ==
  ASSUME NEW t \in Nat, NEW v \in Nat, NEW x \in Nat, NEW rest \in Nat, NEW part \in Nat,
         NEW total \in Nat, total = x + rest, part <= rest, x > 2 * t, total - v \in -t..t
  PROVE  ~(part - v \in -t..t)
<1>1. total - v <= t
  OBVIOUS
<1>2. part + 2 * t < total
  OBVIOUS
<1>3. part - v < -t
  BY <1>1, <1>2
<1> QED
  BY <1>3

\* Rows that make up a document are a group the search collects.
LEMMA MadeUpIsFound ==
  ASSUME AmountsTell, NEW rows \in Seq(Rows), Tidy(rows), NEW T \in SUBSET DOMAIN rows,
         OnFiles(rows, T), NEW group \in SUBSET T, group # {},
         NEW doc, doc.value \in Nat, MakesUp(rows, group, doc)
  PROVE  group \in Agreeing(rows, T, doc)
<1> DEFINE files == FilesOn(rows, group)
           Total(S) == Added(Values, S)
           v == doc.value
           Earlier(i) == {j \in group : j < i}
           file == [i \in group |-> rows[i].file]
<1>1. group \in SUBSET DOMAIN rows /\ OnFiles(rows, group)
  BY DEF OnFiles
<1>2. /\ ValueOf(rows, group) = Total(files)
      /\ IsFiniteSet(files) /\ Counts(Values, files)
  BY <1>1, ValueOfFiles
<1>3. \A x \in files : Values[x] > 2 * Tolerance
  BY <1>1 DEF FilesOn, OnFiles, Values, AmountsTell
<1>4. Tolerance \in Nat
  BY MarginAssumption
<1>5. /\ Total(files) \in Nat
      /\ \A x \in files : /\ Total(files \ {x}) \in Nat
                          /\ Total(files) = Values[x] + Total(files \ {x})
                          /\ Values[x] <= Total(files)
  BY <1>2, SumLaws
<1>6. \A x \in files : \A S \in SUBSET (files \ {x}) :
        Total(S) \in Nat /\ Total(S) <= Total(files \ {x})
  <2>1. ASSUME NEW x \in files
        PROVE  \A S \in SUBSET (files \ {x}) : Total(S) \in Nat /\ Total(S) <= Total(files \ {x})
    <3> DEFINE rest == files \ {x}
    <3>1. IsFiniteSet(rest) /\ Counts(Values, rest)
      BY <1>2, FS_Subset DEF Counts
    <3> HIDE DEF rest, files
    <3>2. \A S \in SUBSET rest : Total(S) \in Nat /\ Total(S) <= Total(rest)
      BY <3>1, SumLaws
    <3> QED
      BY <3>2 DEF rest
  <2> QED
    BY <2>1
<1>7. Total(files) - v \in -Tolerance..Tolerance
  BY <1>2 DEF MakesUp, Near
<1>8. ASSUME NEW i \in group
      PROVE  /\ Amount(rows, i) = Values[file[i]] /\ file[i] \in files /\ Values[file[i]] \in Nat
             /\ ValueOf(rows, Earlier(i)) = Total(FilesOn(rows, Earlier(i)))
             /\ FilesOn(rows, Earlier(i)) \in SUBSET (files \ {file[i]})
  <2>1. Amount(rows, i) = Values[file[i]] /\ file[i] \in files
    BY <1>1 DEF Amount, Values, OnFiles, FilesOn
  <2>2. Values[file[i]] \in Nat
    BY <1>2, <2>1 DEF Counts
  <2>3. Earlier(i) \in SUBSET DOMAIN rows /\ OnFiles(rows, Earlier(i))
    BY <1>1 DEF OnFiles
  <2>4. ValueOf(rows, Earlier(i)) = Total(FilesOn(rows, Earlier(i)))
    <3> HIDE DEF Earlier
    <3> QED
      BY <2>3, ValueOfFiles
  <2>5. \A j \in Earlier(i) : j \in group /\ j # i
    BY <1>1
  <2>6. \A j \in Earlier(i) : rows[j].file # rows[i].file
    <3>1. \A j \in group : rows[j].file \in DOMAIN Erp
      BY <1>1 DEF OnFiles
    <3>2. \A j \in group : rows[j].file = rows[i].file => j = i
      BY <1>1, <3>1, RegisterAssumption DEF Tidy
    <3> QED
      BY <2>5, <3>2
  <2> HIDE DEF Earlier
  <2>7. FilesOn(rows, Earlier(i)) \in SUBSET (files \ {file[i]})
    BY <2>5, <2>6 DEF FilesOn
  <2> QED
    BY <2>1, <2>2, <2>4, <2>7
<1> HIDE DEF files, Total, Earlier, file
<1>9. \A i \in group : Amount(rows, i) <= v + Tolerance
  <2>1. ASSUME NEW i \in group PROVE Amount(rows, i) <= v + Tolerance
    <3>1. Amount(rows, i) <= Total(files) /\ Amount(rows, i) \in Nat
      BY <1>5, <1>8
    <3> QED
      BY <1>4, <1>5, <1>7, <3>1
  <2> QED
    BY <2>1
<1>10. \A i \in group : ~Near(ValueOf(rows, Earlier(i)), v)
  <2>1. ASSUME NEW i \in group PROVE ~Near(ValueOf(rows, Earlier(i)), v)
    <3> DEFINE x == file[i]
               before == Total(FilesOn(rows, Earlier(i)))
    <3>1. x \in files /\ Values[x] \in Nat
      BY <1>8
    <3>2. before \in Nat /\ before <= Total(files \ {x})
      BY <1>6, <1>8, <3>1
    <3>3. Total(files) = Values[x] + Total(files \ {x}) /\ Total(files \ {x}) \in Nat
      BY <1>5, <3>1
    <3>4. Values[x] > 2 * Tolerance
      BY <1>3, <3>1
    <3>5. v \in Nat /\ Total(files) \in Nat
      BY <1>5
    <3> HIDE DEF x, before, v
    <3>6. ~(before - v \in -Tolerance..Tolerance)
      BY <1>4, <1>7, <3>1, <3>2, <3>3, <3>4, <3>5, FarWithout
    <3> QED
      BY <1>8, <3>6 DEF Near, before
  <2> QED
    BY <2>1
<1>11. group \in ValueGroups(rows, T, v)
  <2> DEFINE candidates == {i \in T : Amount(rows, i) <= v + Tolerance}
  <2>1. group \in SUBSET candidates
    BY <1>9
  <2>2. candidates # {}
    BY <2>1
  <2>3. Near(ValueOf(rows, group), v)
    BY DEF MakesUp
  <2> HIDE DEF candidates, v
  <2>4. \A i \in group : ~Near(ValueOf(rows, {j \in group : j < i}), v)
    BY <1>10 DEF Earlier
  <2> QED
    BY <2>1, <2>2, <2>3, <2>4 DEF ValueGroups, candidates
<1> QED
  BY <1>11 DEF Agreeing, MakesUp, v

-----------------------------------------------------------------------------
(* The balance of the documents, and what the staging does to it.          *)

\* Some rows of a sheet are entered under numbers, the others left.
EnteredOn(rows, new, R, shared, date) ==
  /\ DOMAIN new = DOMAIN rows /\ \A i \in DOMAIN rows : new[i].file = rows[i].file
  /\ \A i \in R : new[i].shared = shared /\ new[i].date = date
  /\ \A i \in DOMAIN rows \ R : new[i] = rows[i]

\* That is what assignments to them do.
LEMMA AssignsEnter ==
  ASSUME NEW m \in Mails, NEW rows \in Seq(Rows), Len(rows) <= MaxRows,
         NEW R \in SUBSET DOMAIN rows, \A i \in R : TargetsFree(rows[i]),
         NEW shared \in SUBSET Numbers, shared # {}, NEW date \in Nat,
         NEW new, new = Applied(rows, AssignsTo(m, R, shared, date))
  PROVE  /\ EnteredOn(rows, new, R, shared, date)
         /\ new \in Seq(Rows) /\ (Tidy(rows) => Tidy(new))
<1> DEFINE w == AssignsTo(m, R, shared, date)
<1>1. w \in SUBSET Ops /\ Assigns(rows, w)
  BY AssignsOnRows
<1>2. /\ RowsApart(w) /\ \A op \in w : op.row \in R /\ op.shared = shared
      /\ \A i \in R : \E op \in w : op.row = i
  BY AssignsToApart
<1>3. \A op \in w : op.date = date
  BY DEF AssignsTo, AssignOp
<1> HIDE DEF w
<1>4. /\ DOMAIN new = DOMAIN rows /\ \A i \in DOMAIN rows : new[i].file = rows[i].file
      /\ \A i \in DOMAIN rows : OpsAt(w, i) = {} => new[i] = rows[i]
      /\ \A op \in w : new[op.row].shared = op.shared /\ new[op.row].date = op.date
  BY <1>1, <1>2, AssignedShow DEF w
<1>5. new \in Seq(Rows) /\ (Tidy(rows) => Tidy(new))
  BY <1>1, AssignedRows DEF w
<1>6. \A i \in DOMAIN rows \ R : new[i] = rows[i]
  BY <1>2, <1>4 DEF OpsAt
<1>7. \A i \in R : new[i].shared = shared /\ new[i].date = date
  BY <1>2, <1>3, <1>4
<1> QED
  BY <1>4, <1>5, <1>6, <1>7 DEF EnteredOn

\* Rows of a family with nothing under them.
Unclaimed(rows, R, family) ==
  R \in SUBSET FamilyRows(rows, family) /\ \A i \in R : rows[i].shared = {}

\* What stands under other numbers or in other families stays.
LEMMA OthersStay ==
  ASSUME NEW rows, NEW new, NEW R, NEW shared, NEW date, EnteredOn(rows, new, R, shared, date),
         NEW family, Unclaimed(rows, R, family),
         NEW lc, NEW number, lc # family \/ shared # {number}
  PROVE  /\ RowsUnder(new, lc, number) = RowsUnder(rows, lc, number)
         /\ \A i \in RowsUnder(rows, lc, number) : new[i] = rows[i]
<1>1. FamilyRows(new, lc) = FamilyRows(rows, lc)
  BY SameFamilyRows DEF EnteredOn
<1>2. ASSUME NEW i \in FamilyRows(rows, lc), i \in R
      PROVE  new[i].shared # {number} /\ rows[i].shared # {number}
  <2>1. i \in FamilyRows(rows, family) /\ rows[i].shared = {}
    BY <1>2 DEF Unclaimed
  <2>2. lc = family
    BY <1>2, <2>1 DEF FamilyRows
  <2> QED
    BY <1>2, <2>1, <2>2 DEF EnteredOn
<1>3. \A i \in FamilyRows(rows, lc) : i \notin R => new[i] = rows[i]
  BY DEF EnteredOn, FamilyRows
<1>4. RowsUnder(new, lc, number) = RowsUnder(rows, lc, number)
  BY <1>1, <1>2, <1>3 DEF RowsUnder
<1>5. \A i \in RowsUnder(rows, lc, number) : new[i] = rows[i]
  BY <1>2, <1>3 DEF RowsUnder
<1> QED
  BY <1>4, <1>5

\* Other numbers stand as before once rows are entered under some.
LEMMA OthersShown ==
  ASSUME NEW rows, NEW new, NEW R, NEW shared, NEW date, EnteredOn(rows, new, R, shared, date),
         NEW family, Unclaimed(rows, R, family),
         NEW lc, NEW number, lc # family \/ shared # {number}
  PROVE  ShownBy(rows, new, lc, number) /\ ShownBy(new, rows, lc, number)
BY OthersStay DEF ShownBy

\* An allocation selects rows for a document.
Selects(rows, d, excluded, R) ==
  \E a \in {Allocation(rows, Doc[d].lc, Doc[d], excluded)} : a.decision = "selected" /\ a.rows = R

\* The rows of a UD are entered under it.
EntersUd(rows, new, R, d) == EnteredOn(rows, new, R, {Doc[d].number}, Doc[d].date)

\* They are all that is under it, and make it up.
TakesUd(rows, new, R, d) ==
  /\ RowsUnder(rows, Doc[d].lc, Doc[d].number) = {}
  /\ RowsUnder(new, Doc[d].lc, Doc[d].number) = R
  /\ Unclaimed(rows, R, Doc[d].lc)
  /\ Allocatable(Doc[d]) /\ MakesUp(new, R, Doc[d])

\* What is selected for a document is then all there is under its number.
LEMMA SelectedUnder ==
  ASSUME NumbersTell, AmountsTell,
         NEW rows \in Seq(Rows), Tidy(rows), InBalance(rows),
         NEW d \in UdDocs, NEW excluded, NEW R, Selects(rows, d, excluded, R),
         NEW new \in Seq(Rows), Tidy(new),
         EntersUd(rows, new, R, d)
  PROVE  TakesUd(rows, new, R, d)
<1> DEFINE lc == Doc[d].lc
           n == Doc[d].number
           family == FamilyRows(rows, lc)
           shown == ShowingRows(rows, lc, Doc[d])
           open == OpenRows(rows, lc, excluded)
<1>1. /\ Allocatable(Doc[d]) /\ Agreeing(rows, shown, Doc[d]) = {}
      /\ R \in Agreeing(rows, open, Doc[d])
  <2> DEFINE a == Allocation(rows, lc, Doc[d], excluded)
  <2>1. a.decision = "selected" /\ a.rows = R
    BY DEF Selects
  <2> QED
    BY <2>1, AllocationFinds
<1>2. /\ R \in SUBSET family /\ R # {}
      /\ \A i \in R : rows[i].shared = {}
  <2>1. R \in SUBSET open /\ R # {}
    BY <1>1, AgreeingGroups
  <2> QED
    BY <2>1 DEF OpenRows
<1>3. d \in Docs /\ Doc[d].value \in Nat
  BY DocAssumption DEF UdDocs, OfKind
<1>4. family \in SUBSET DOMAIN rows /\ \A T \in SUBSET family : OnFiles(rows, T)
  BY RowsUnderIs
<1>5. RowsUnder(rows, lc, n) = {}
  <2> DEFINE under == RowsUnder(rows, lc, n)
  <2>1. ASSUME under # {} PROVE FALSE
    <3>1. PICK e \in UdDocs : /\ Doc[e].number = n /\ Doc[e].lc = lc /\ Allocatable(Doc[e])
                              /\ MakesUp(rows, under, Doc[e])
      BY <2>1 DEF InBalance, Balances
    <3>2. e \in Docs
      BY DEF UdDocs, OfKind
    <3>3. /\ Doc[e].date = Doc[d].date /\ Doc[e].value = Doc[d].value
          /\ Doc[e].quantity = Doc[d].quantity
      BY <1>1, <3>1, <3>2 DEF NumbersTell
    <3>4. MakesUp(rows, under, Doc[d])
      BY <3>1, <3>3 DEF MakesUp, ShowsDocument, QuantitiesAgree
    <3>5. under \in SUBSET shown
      BY <3>4 DEF MakesUp, RowsUnder, ShowingRows
    <3>6. shown \in SUBSET DOMAIN rows /\ OnFiles(rows, shown)
      BY <1>4 DEF ShowingRows
    <3> HIDE DEF shown, under
    <3>7. under \in Agreeing(rows, shown, Doc[d])
      BY <1>3, <2>1, <3>4, <3>5, <3>6, MadeUpIsFound
    <3> QED
      BY <1>1, <3>7
  <2> QED
    BY <2>1
<1>6. FamilyRows(new, lc) = family
  BY SameFamilyRows DEF EntersUd, EnteredOn
<1>7. RowsUnder(new, lc, n) = R
  <2>1. \A i \in family : i \notin R => new[i] = rows[i]
    BY <1>4 DEF EntersUd, EnteredOn
  <2>2. \A i \in R : new[i].shared = {n}
    BY DEF EntersUd, EnteredOn
  <2>3. \A i \in family : rows[i].shared # {n}
    BY <1>5 DEF RowsUnder
  <2>4. R \in SUBSET family
    BY <1>2
  <2> HIDE DEF family
  <2> QED
    BY <1>6, <2>1, <2>2, <2>3, <2>4 DEF RowsUnder
<1>8. MakesUp(new, R, Doc[d])
  <2>1. R \in SUBSET DOMAIN rows /\ OnFiles(rows, R)
    BY <1>2, <1>4
  <2>2. DOMAIN new = DOMAIN rows /\ \A i \in DOMAIN rows : new[i].file = rows[i].file
    BY DEF EntersUd, EnteredOn
  <2>3. R \in SUBSET DOMAIN new /\ OnFiles(new, R)
    BY <2>1, <2>2 DEF OnFiles
  <2>4. FilesOn(new, R) = FilesOn(rows, R)
    BY <2>1, <2>2 DEF FilesOn
  <2>5. Near(ValueOf(rows, R), Doc[d].value) /\ QuantitiesAgree(rows, R, Doc[d])
    BY <1>1 DEF Agreeing, ValueGroups
  <2>6. FilesAgree(FilesOn(rows, R), Doc[d])
    BY <2>1, <2>5, AmountsOfFiles
  <2>7. Near(ValueOf(new, R), Doc[d].value) /\ QuantitiesAgree(new, R, Doc[d])
    BY <2>3, <2>4, <2>6, AmountsOfFiles
  <2>8. \A i \in R : ShowsDocument(new[i], Doc[d])
    BY DEF EntersUd, EnteredOn, ShowsDocument
  <2> QED
    BY <2>7, <2>8 DEF MakesUp
<1>9. Unclaimed(rows, R, lc)
  BY <1>2 DEF Unclaimed
<1> QED
  BY <1>1, <1>5, <1>7, <1>8, <1>9 DEF TakesUd

\* What is staged for a document keeps the sheet in balance.
LEMMA SelectedBalances ==
  ASSUME NumbersTell, AmountsTell,
         NEW rows \in Seq(Rows), Tidy(rows), InBalance(rows),
         NEW d \in UdDocs, NEW excluded, NEW R, Selects(rows, d, excluded, R),
         NEW new \in Seq(Rows), Tidy(new),
         EntersUd(rows, new, R, d)
  PROVE  InBalance(new)
<1>1. /\ RowsUnder(new, Doc[d].lc, Doc[d].number) = R /\ Unclaimed(rows, R, Doc[d].lc)
      /\ Allocatable(Doc[d]) /\ MakesUp(new, R, Doc[d])
  BY SelectedUnder DEF TakesUd
<1> DEFINE lc == Doc[d].lc
           n == Doc[d].number
<1>2. ASSUME NEW c \in UdDocs PROVE Balances(new, c)
  <2>1. CASE Doc[c].lc = lc /\ Doc[c].number = n
    <3>1. /\ Doc[d].number = Doc[c].number /\ Doc[d].lc = Doc[c].lc /\ Allocatable(Doc[d])
          /\ MakesUp(new, RowsUnder(new, Doc[c].lc, Doc[c].number), Doc[d])
      BY <1>1, <2>1
    <3> QED
      BY <3>1 DEF Balances
  <2>2. CASE ~(Doc[c].lc = lc /\ Doc[c].number = n)
    <3> DEFINE shared == {n}
               date == Doc[d].date
               other == Doc[c].lc
               number == Doc[c].number
    <3>1. Unclaimed(rows, R, lc)
      BY <1>1
    <3>2. other # lc \/ shared # {number}
      BY <2>2
    <3>3. EnteredOn(rows, new, R, shared, date)
      BY DEF EntersUd
    <3> HIDE DEF shared, date, other, number, lc, n
    <3>4. ShownBy(rows, new, other, number) /\ ShownBy(new, rows, other, number)
      BY <3>1, <3>2, <3>3, OthersShown
    <3>5. /\ ShownBy(rows, new, Doc[c].lc, Doc[c].number)
          /\ ShownBy(new, rows, Doc[c].lc, Doc[c].number)
      BY <3>4 DEF other, number
    <3> QED
      BY <3>5, BalanceCarries
  <2> QED
    BY <2>1, <2>2
<1> QED
  BY <1>2 DEF InBalance

\* A document that does not block its mail has the evidence it needs, and what
\* is staged for it keeps the snapshot in balance.
LEMMA StageNextBalances ==
  ASSUME NEW m \in Mails, NEW rows \in Seq(Rows), Len(rows) <= MaxRows, Tidy(rows),
         NEW s \in Stages(m, rows), NEW d \in UdDocs, NEW t, t = StageNext(s, m, d)
  PROVE  /\ ~t.blocked => ~s.blocked /\ Allocatable(Doc[d])
         /\ NumbersTell /\ AmountsTell /\ Doc[d].lc = VerifiedFamily(m) /\ InBalance(s.rows)
              => InBalance(t.rows)
<1> DEFINE a == Allocation(s.rows, VerifiedFamily(m), Doc[d], s.excluded)
           ops == {AssignOp(m, i, {Doc[d].number}, Doc[d].date) : i \in a.rows}
<1>1. /\ s \in [rows : Seq(Rows), excluded : SUBSET Nat, ops : SUBSET Ops, blocked : BOOLEAN,
                duplicates : BOOLEAN]
      /\ s.rows = Applied(rows, s.ops) /\ Assigns(rows, s.ops)
  BY DEF Stages
<1>2. s.rows \in Seq(Rows) /\ Len(s.rows) = Len(rows) /\ Tidy(s.rows)
  BY <1>1, AssignedRows
<1>3. t = Stage(s, m, d, a)
  BY DEF StageNext
<1>4. /\ a.decision \in {"already_recorded", "selected"} =>
            a.rows \in SUBSET FamilyRows(s.rows, VerifiedFamily(m)) /\ Allocatable(Doc[d])
  BY <1>2, AllocationFinds
<1>5. Doc[d].number \in Numbers /\ Doc[d].date \in Nat
  BY DocAssumption DEF UdDocs, OfKind
<1> DEFINE lc == VerifiedFamily(m)
<1>6. a = Allocation(s.rows, lc, Doc[d], s.excluded)
  OBVIOUS
<1> HIDE DEF a, lc
<1>7. CASE a.decision = "already_recorded"
  <2>1. t = [s EXCEPT !.duplicates = TRUE, !.excluded = @ \cup a.rows]
    BY <1>3, <1>7 DEF Stage
  <2>2. t.rows = s.rows /\ t.blocked = s.blocked
    BY <1>1, <2>1
  <2> QED
    BY <1>4, <1>7, <2>2
<1>8. CASE /\ a.decision = "selected" /\ \A i \in a.rows : TargetsFree(s.rows[i])
  <2>1. t = [s EXCEPT !.ops = @ \cup ops, !.excluded = @ \cup a.rows, !.rows = Applied(@, ops)]
    BY <1>3, <1>8 DEF Stage
  <2> DEFINE shared == {Doc[d].number}
             R == a.rows
             date == Doc[d].date
             new == Applied(s.rows, AssignsTo(m, R, shared, date))
  <2>2. t.rows = new /\ t.blocked = s.blocked
    BY <1>1, <2>1 DEF AssignsTo
  <2>3. /\ shared \in SUBSET Numbers /\ shared # {} /\ date \in Nat
        /\ R \in SUBSET DOMAIN s.rows /\ \A i \in R : TargetsFree(s.rows[i])
    BY <1>4, <1>5, <1>8 DEF FamilyRows
  <2>4. Len(s.rows) <= MaxRows
    BY <1>2
  <2>5. EnteredOn(s.rows, new, R, shared, date) /\ new \in Seq(Rows) /\ Tidy(new)
    <3> HIDE DEF R, shared, date
    <3> QED
      BY <1>2, <2>3, <2>4, AssignsEnter
  <2> HIDE DEF new
  <2>6. ASSUME NumbersTell, AmountsTell, Doc[d].lc = lc, InBalance(s.rows)
        PROVE  InBalance(new)
    <3>1. Selects(s.rows, d, s.excluded, R) /\ EntersUd(s.rows, new, R, d)
      BY <1>6, <1>8, <2>5, <2>6 DEF Selects, EntersUd
    <3> HIDE DEF R
    <3> QED
      BY <1>2, <2>5, <2>6, <3>1, SelectedBalances
  <2> QED
    BY <1>4, <1>8, <2>2, <2>6 DEF lc
<1>9. CASE ~(a.decision = "already_recorded")
           /\ ~(a.decision = "selected" /\ \A i \in a.rows : TargetsFree(s.rows[i]))
  <2>1. t = [s EXCEPT !.blocked = TRUE]
    BY <1>3, <1>9 DEF Stage
  <2>2. t.rows = s.rows /\ t.blocked
    BY <1>1, <2>1
  <2> QED
    BY <2>2
<1> QED
  BY <1>7, <1>8, <1>9

\* The documents of a mail name its family.
NamesFamily(m) == \A d \in DocsOf(m) : Doc[d].lc = VerifiedFamily(m)

\* So have all documents that are kept, and the snapshot ends in balance.
LEMMA StagedBalances ==
  ASSUME NEW m \in Mails, NEW rows \in Seq(Rows), Len(rows) <= MaxRows, Tidy(rows)
  PROVE  /\ ~Staged(m, rows).blocked =>
              \A j \in 1..Len(Kept(m)) : Allocatable(Doc[Kept(m)[j]])
         /\ NumbersTell /\ AmountsTell /\ NamesFamily(m) /\ InBalance(rows)
              => InBalance(Staged(m, rows).rows)
<1> DEFINE n == Len(Kept(m))
           Told == NumbersTell /\ AmountsTell /\ NamesFamily(m) /\ InBalance(rows)
<1>1. /\ n \in Nat
      /\ \A k \in 1..n : Kept(m)[k] \in UdDocs /\ (NamesFamily(m) => Doc[Kept(m)[k]].lc = VerifiedFamily(m))
  BY KeptIs DEF UdDocs, OfKind, NamesFamily
<1>2. PICK after :
        /\ after[0] = NothingStaged(m, rows)
        /\ \A k \in 1..n : after[k] = StageNext(after[k - 1], m, Kept(m)[k])
        /\ \A k \in 0..n : after[k] \in Stages(m, rows)
        /\ Staged(m, rows) = after[n]
  BY StagedSteps
<1> HIDE DEF n
<1> DEFINE Judged(k) == ~after[k].blocked => \A j \in 1..k : Allocatable(Doc[Kept(m)[j]])
           T == {k \in 0..n : Judged(k) /\ (Told => InBalance(after[k].rows))}
<1>3. 0 \in T
  <2>1. after[0].rows = rows
    BY <1>2 DEF NothingStaged
  <2>2. \A j \in 1..0 : FALSE
    OBVIOUS
  <2>3. 0 \in 0..n
    BY <1>1
  <2> QED
    BY <2>1, <2>2, <2>3
<1>4. ASSUME NEW k \in 1..n, k - 1 \in T PROVE k \in T
  <2> DEFINE s == after[k - 1]
             t == after[k]
             d == Kept(m)[k]
  <2>1. Judged(k - 1) /\ (Told => InBalance(s.rows))
    BY <1>4
  <2>2. k - 1 \in 0..n /\ k \in 0..n /\ k \in Nat
    BY <1>1
  <2>3. s \in Stages(m, rows) /\ t = StageNext(s, m, d)
    BY <1>2, <2>2
  <2>4. d \in UdDocs /\ (Told => Doc[d].lc = VerifiedFamily(m))
    BY <1>1
  <2> HIDE DEF s, t, d
  <2>5. /\ ~t.blocked => ~s.blocked /\ Allocatable(Doc[d])
        /\ NumbersTell /\ AmountsTell /\ Doc[d].lc = VerifiedFamily(m) /\ InBalance(s.rows)
             => InBalance(t.rows)
    BY <2>3, <2>4, StageNextBalances
  <2>6. Told => InBalance(t.rows)
    BY <2>1, <2>4, <2>5
  <2>7. ASSUME ~t.blocked, NEW j \in 1..k PROVE Allocatable(Doc[Kept(m)[j]])
    <3>1. CASE j = k
      BY <2>5, <2>7, <3>1 DEF d
    <3>2. CASE j # k
      <4>1. j \in 1..(k - 1)
        BY <2>2, <3>2
      <4> QED
        BY <2>1, <2>5, <2>7, <4>1 DEF s
    <3> QED
      BY <3>1, <3>2
  <2> QED
    BY <2>2, <2>6, <2>7 DEF t
<1> HIDE DEF T
<1>5. 0..n \subseteq T
  BY <1>1, <1>3, <1>4, UpTo
<1>6. n \in T
  BY <1>1, <1>5
<1> QED
  BY <1>2, <1>6 DEF T, n

\* The staging of a mail finds the evidence for its UD documents, or it blocks
\* the mail; what it stages keeps the snapshot in balance.
KeepsBalance(m, rows, staging) ==
  /\ ~staging.blocked => \A d \in OfKind(DocsOf(m), {"UD"}) : Allocatable(Doc[d])
  /\ NumbersTell /\ AmountsTell /\ NamesFamily(m) /\ InBalance(rows)
       => InBalance(Applied(rows, staging.ops))

\* A blocked mail changes nothing.
LEMMA BlockedBalances ==
  ASSUME NEW m, NEW rows \in Seq(Rows)
  PROVE  KeepsBalance(m, rows, Blocked)
BY NothingApplied DEF KeepsBalance, Blocked

\* UD documents.
LEMMA UdStagingBalances ==
  ASSUME NEW m \in Mails, NEW rows \in Seq(Rows), Len(rows) <= MaxRows, Tidy(rows),
         ~Conflicting(m)
  PROVE  KeepsBalance(m, rows, UdStaging(m, rows))
<1> DEFINE s == Staged(m, rows)
           ops == IF s.blocked THEN {} ELSE s.ops
           Told == NumbersTell /\ AmountsTell /\ NamesFamily(m) /\ InBalance(rows)
<1>1. s \in Stages(m, rows)
  BY StagedIs
<1>2. UdStaging(m, rows) = [ops |-> ops, duplicates |-> s.duplicates, blocked |-> s.blocked]
  BY DEF UdStaging, StagingOf
<1>3. /\ ~s.blocked => \A j \in 1..Len(Kept(m)) : Allocatable(Doc[Kept(m)[j]])
      /\ Told => InBalance(s.rows)
  BY StagedBalances
<1> HIDE DEF s
<1>4. s.rows = Applied(rows, s.ops)
  BY <1>1 DEF Stages
<1>5. ASSUME ~s.blocked, NEW d \in OfKind(DocsOf(m), {"UD"}) PROVE Allocatable(Doc[d])
  <2>1. PICK k \in 1..Len(Kept(m)) : Doc[Kept(m)[k]].number = Doc[d].number
    BY TwinIsKept
  <2>2. Kept(m)[k] \in Twins(m, d)
    BY <2>1, KeptIs DEF Twins
  <2>3. SameEvidence(d, Kept(m)[k])
    BY <2>2 DEF Conflicting
  <2>4. Allocatable(Doc[Kept(m)[k]])
    BY <1>3, <1>5
  <2>5. /\ Doc[d] = [Doc[Kept(m)[k]] EXCEPT !.pdf = Doc[d].pdf]
        /\ {"complete", "lcDateMatches"} \subseteq DOMAIN Doc[Kept(m)[k]]
    BY <2>3, KeptIs, DocAssumption DEF SameEvidence
  <2>6. /\ Doc[d].complete = Doc[Kept(m)[k]].complete
        /\ Doc[d].lcDateMatches = Doc[Kept(m)[k]].lcDateMatches
    BY <2>5
  <2> QED
    BY <2>4, <2>6 DEF Allocatable, RequiredFieldsPresent
<1>6. Told => InBalance(Applied(rows, ops))
  <2>1. CASE s.blocked
    BY <2>1, NothingApplied
  <2>2. CASE ~s.blocked
    BY <1>3, <1>4, <2>2
  <2> QED
    BY <2>1, <2>2
<1> HIDE DEF ops
<1> QED
  BY <1>2, <1>5, <1>6 DEF KeepsBalance

\* IP and EXP documents.
LEMMA IpExpStagingBalances ==
  ASSUME NEW m \in Mails, NEW rows \in Seq(Rows), Len(rows) <= MaxRows, Tidy(rows),
         IpExpRulesPass(m)
  PROVE  KeepsBalance(m, rows, IpExpStaging(m, rows))
<1> DEFINE lc == VerifiedFamily(m)
           family == FamilyRows(rows, lc)
           shared == CoverNumbers(m)
           one == CHOOSE d \in DocsOf(m) : TRUE
           date == Doc[one].date
           recorded == family # {} /\ FamilyShows(rows, family, shared, date)
           free == family # {} /\ \A i \in family : TargetsFree(rows[i])
           w == AssignsTo(m, family, shared, date)
           ops == IF free THEN w ELSE {}
           staging == IpExpStaging(m, rows)
<1>1. OfKind(DocsOf(m), {"UD"}) = {}
  BY DEF IpExpRulesPass
<1>2. staging.ops = ops
  BY DEF IpExpStaging, AssignsTo, CoverNumbers
<1>3. DocsOf(m) # {} /\ DocsOf(m) \subseteq Docs
  <2> DEFINE exps == OfKind(DocsOf(m), {"EXP"})
  <2>1. Cardinality(exps) = 1
    BY DEF IpExpRulesPass
  <2>2. Cardinality({}) = 0
    BY FS_EmptySet
  <2> HIDE DEF exps
  <2>3. exps # {}
    BY <2>1, <2>2, 0 # 1
  <2> QED
    BY <2>3 DEF OfKind, exps, DocsOf
<1>4. date \in Nat /\ shared \in SUBSET Numbers /\ shared # {}
  <2>1. one \in Docs
    BY <1>3
  <2>2. \A d \in DocsOf(m) : Doc[d].number \in Numbers
    BY <1>3, DocAssumption
  <2>3. shared \in SUBSET Numbers /\ shared # {}
    BY <1>3, <2>2 DEF CoverNumbers
  <2> HIDE DEF one, shared
  <2> QED
    BY <2>1, <2>3, DocAssumption
<1>5. family \in SUBSET DOMAIN rows
  BY DEF FamilyRows
<1>6. ASSUME NumbersTell, NEW c \in UdDocs PROVE Doc[c].lc # lc \/ shared # {Doc[c].number}
  <2>1. ASSUME Doc[c].lc = lc, shared = {Doc[c].number} PROVE FALSE
    <3>1. PICK e \in DocsOf(m) : Doc[e].number = Doc[c].number
      BY <1>3, <2>1 DEF CoverNumbers
    <3>2. Doc[e].lc = Doc[c].lc
      BY <2>1 DEF IpExpRulesPass
    <3>3. e \in UdDocs
      BY <1>3, <1>6, <3>1, <3>2 DEF NumbersTell
    <3> QED
      BY <1>1, <3>3 DEF UdDocs, OfKind
  <2> QED
    BY <2>1
<1> HIDE DEF family, shared, date, lc, staging
<1>7. ASSUME NumbersTell, InBalance(rows), free PROVE InBalance(Applied(rows, w))
  <2> DEFINE new == Applied(rows, w)
  <2>1. EnteredOn(rows, new, family, shared, date) /\ new \in Seq(Rows) /\ Tidy(new)
    BY <1>4, <1>5, <1>7, AssignsEnter
  <2>2. Unclaimed(rows, family, lc)
    BY <1>7 DEF Unclaimed, TargetsFree, family
  <2> HIDE DEF new
  <2>3. ASSUME NEW c \in UdDocs PROVE Balances(new, c)
    <3> DEFINE other == Doc[c].lc
               number == Doc[c].number
    <3>1. other # lc \/ shared # {number}
      BY <1>6, <1>7
    <3> HIDE DEF other, number
    <3>2. ShownBy(rows, new, other, number) /\ ShownBy(new, rows, other, number)
      BY <2>1, <2>2, <3>1, OthersShown
    <3> QED
      BY <1>7, <2>1, <3>2, BalanceCarries DEF other, number
  <2> QED
    BY <2>3 DEF InBalance, new
<1>8. NumbersTell /\ InBalance(rows) => InBalance(Applied(rows, ops))
  <2>1. CASE free
    BY <1>7, <2>1
  <2>2. CASE ~free
    BY <2>2, NothingApplied
  <2> QED
    BY <2>1, <2>2
<1> QED
  BY <1>1, <1>2, <1>8 DEF KeepsBalance, staging

\* Whatever its documents are.
LEMMA StagingBalances ==
  ASSUME NEW m \in Mails, NEW rows \in Seq(Rows), Len(rows) <= MaxRows, Tidy(rows),
         Mail[m].workflow = "ud_ip_exp"
  PROVE  KeepsBalance(m, rows, Staging(m, rows))
<1>1. KeepsBalance(m, rows, Blocked)
  BY BlockedBalances
<1>2. CASE DocsOf(m) = {} \/ Conflicting(m)
  BY <1>1, <1>2 DEF Staging, UdIpExpStaging
<1>3. CASE ~(DocsOf(m) = {} \/ Conflicting(m)) /\ OfKind(DocsOf(m), {"UD"}) = DocsOf(m)
  <2>1. KeepsBalance(m, rows, UdStaging(m, rows))
    BY <1>3, UdStagingBalances
  <2> QED
    BY <1>1, <1>3, <2>1 DEF Staging, UdIpExpStaging
<1>4. CASE ~(DocsOf(m) = {} \/ Conflicting(m)) /\ OfKind(DocsOf(m), {"UD"}) # DocsOf(m)
  <2>1. IpExpRulesPass(m) => KeepsBalance(m, rows, IpExpStaging(m, rows))
    BY IpExpStagingBalances
  <2> QED
    BY <1>1, <1>4, <2>1 DEF Staging, UdIpExpStaging, SharedStaging
<1> QED
  BY <1>2, <1>3, <1>4
-----------------------------------------------------------------------------
(* The books: every number stands for files that make up its document.     *)

\* The sheet is in balance, and so is the snapshot that is validated against;
\* a mail that is not blocked has the evidence for its UD documents.
BooksInv ==
  /\ InBalance(sheet)
  /\ pc = "validating" /\ workflow = "ud_ip_exp" => InBalance(working)
  /\ \A m \in Mails : ~outcome[m].blocked =>
       \A d \in OfKind(DocsOf(m), {"UD"}) : Allocatable(Doc[d])

\* The validation of a mail.
LEMMA ValidatingBooks ==
  ASSUME NumbersTell, AmountsTell, IInv, BooksInv,
         ValidateExportMail \/ ValidateUdMail \/ SavingFails \/ StagingFails
  PROVE  BooksInv'
<1> DEFINE m == Head(queue)
           staging == Staging(m, working)
<1>1. /\ pc = "validating" /\ queue # <<>> /\ UNCHANGED <<sheet, pc, workflow>>
      /\ m \in Mails /\ Mail[m].workflow = workflow
  BY ValidationOfMail
<1>2. PICK k, saveFailed :
        /\ saveFailed \in BOOLEAN /\ Validate(m, k, saveFailed)
        /\ workflow = "ud_ip_exp" /\ ~saveFailed /\ ~staging.blocked => Storable(m)
  BY ValidationOfMail
<1> DEFINE ops == IF saveFailed \/ staging.blocked THEN {} ELSE staging.ops
           o == Outcome(m, staging, k, saveFailed)
           new == Applied(working, ops)
<1>3. outcome' = [outcome EXCEPT ![m] = o] /\ working' = new
  BY <1>2 DEF Validate, Conclude
<1>4. o.blocked = (staging.blocked \/ saveFailed)
  BY DEF Outcome
<1>5. working \in Seq(Rows) /\ Len(working) <= MaxRows /\ Tidy(working)
  BY <1>1, WrittenSheet
<1>6. workflow = "ud_ip_exp" => KeepsBalance(m, working, staging)
  BY <1>1, <1>5, StagingBalances
<1>7. outcome \in [Mails -> Outcomes] /\ workflow \in Workflows
  BY DEF IInv, RunInv
<1> HIDE DEF m, staging, o
<1>8. ASSUME workflow = "ud_ip_exp" PROVE InBalance(new)
  <2>1. InBalance(working)
    BY <1>1, <1>8 DEF BooksInv
  <2>2. CASE saveFailed \/ staging.blocked
    <3>1. new = working
      BY <1>5, <2>2, NothingApplied
    <3> QED
      BY <2>1, <3>1
  <2>3. CASE ~(saveFailed \/ staging.blocked)
    <3>1. NamesFamily(m)
      BY <1>2, <1>8, <2>3 DEF Storable, NamesFamily
    <3> QED
      BY <1>6, <1>8, <2>1, <2>3, <3>1 DEF KeepsBalance
  <2> QED
    BY <2>2, <2>3
<1>9. ASSUME ~o.blocked, NEW d \in OfKind(DocsOf(m), {"UD"}) PROVE Allocatable(Doc[d])
  <2>1. workflow = "ud_ip_exp"
    <3>1. Doc[d].mail = m /\ Mail[Doc[d].mail].workflow = "ud_ip_exp"
      BY <1>9, DocAssumption DEF OfKind, DocsOf
    <3> QED
      BY <1>1, <3>1
  <2> QED
    BY <1>4, <1>6, <1>9, <2>1 DEF KeepsBalance
<1> HIDE DEF new, ops
<1>10. \A n \in Mails : ~outcome'[n].blocked =>
         \A d \in OfKind(DocsOf(n), {"UD"}) : Allocatable(Doc[d])
  <2>1. ASSUME NEW n \in Mails, ~outcome'[n].blocked, NEW d \in OfKind(DocsOf(n), {"UD"})
        PROVE  Allocatable(Doc[d])
    <3>1. CASE n = m
      BY <1>1, <1>3, <1>7, <1>9, <2>1, <3>1
    <3>2. CASE n # m
      <4>1. outcome'[n] = outcome[n]
        BY <1>3, <1>7, <3>2
      <4> QED
        BY <2>1, <4>1 DEF BooksInv
    <3> QED
      BY <3>1, <3>2
  <2> QED
    BY <2>1
<1>11. InBalance(sheet')
  BY <1>1 DEF BooksInv
<1> QED
  BY <1>1, <1>3, <1>8, <1>10, <1>11 DEF BooksInv

\* Appends leave what stands under numbers.
LEMMA AppendsBalance ==
  ASSUME NEW rows \in Seq(Rows), Tidy(rows), InBalance(rows),
         NEW ops \in SUBSET Ops, RowsApart(ops), NumbersOnFiles(rows),
         \A op \in ops : IsAppend(op) /\ TargetsBlank(rows, op),
         NEW new, new = Applied(rows, ops), Tidy(new)
  PROVE  InBalance(new)
<1>1. /\ new \in Seq(Rows) /\ DOMAIN rows \subseteq DOMAIN new
      /\ \A i \in DOMAIN rows : rows[i].file # NoFile => new[i] = rows[i]
      /\ \A i \in DOMAIN new : (i \in DOMAIN rows /\ rows[i].file # NoFile) \/ new[i].shared = {}
  BY AppendsShow
<1>2. ASSUME NEW lc, NEW n PROVE ShownBy(rows, new, lc, n) /\ ShownBy(new, rows, lc, n)
  <2>1. ASSUME NEW i \in RowsUnder(rows, lc, n)
        PROVE  i \in RowsUnder(new, lc, n) /\ new[i] = rows[i]
    BY <1>1 DEF RowsUnder, FamilyRows
  <2>2. ASSUME NEW i \in RowsUnder(new, lc, n)
        PROVE  i \in RowsUnder(rows, lc, n) /\ new[i] = rows[i]
    <3>1. i \in DOMAIN new /\ new[i].shared # {}
      BY DEF RowsUnder, FamilyRows
    <3>2. i \in DOMAIN rows /\ new[i] = rows[i]
      BY <1>1, <3>1
    <3> QED
      BY <3>2 DEF RowsUnder, FamilyRows
  <2> QED
    BY <2>1, <2>2 DEF ShownBy
<1> QED
  BY <1>1, <1>2, BalanceKeeps

\* The written sheet is in balance.
LEMMA WritesBalance ==
  ASSUME IInv, LedgerInv, BooksInv, pc = "validating", \A op \in plan : TargetsBlank(sheet, op)
  PROVE  InBalance(Applied(sheet, plan))
<1>1. /\ Applied(sheet, plan) = working /\ Tidy(working)
      /\ sheet \in Seq(Rows) /\ Tidy(sheet) /\ plan \in SUBSET Ops /\ workflow \in Workflows
  BY WrittenSheet DEF IInv, StoreInv, RunInv
<1>2. CASE workflow = "ud_ip_exp"
  BY <1>1, <1>2 DEF BooksInv
<1>3. CASE workflow = "export_lc_sc"
  <2>1. \A op \in plan : IsAppend(op)
    BY <1>3 DEF IInv, PlanInv, Fits
  <2>2. NumbersOnFiles(sheet) /\ RowsApart(plan) /\ InBalance(sheet)
    BY DEF LedgerInv, Entering, BooksInv
  <2> QED
    BY <1>1, <2>1, <2>2, AppendsBalance
<1> QED
  BY <1>1, <1>2, <1>3 DEF Workflows

\* The edits of others leave the rows under numbers together.
LEMMA EditsBalance ==
  ASSUME IInv, BooksInv, Others
  PROVE  InBalance(sheet')
<1>1. /\ sheet \in Seq(Rows) /\ Tidy(sheet) /\ InBalance(sheet)
      /\ sheet' \in Seq(Rows) /\ Tidy(sheet')
  BY EditsKeep DEF IInv, StoreInv, BooksInv
<1> DEFINE v == sheet'
<1>2. BlankRow.shared = {}
  BY DEF BlankRow
<1>3. ASSUME NEW lc, NEW n PROVE ShownBy(sheet, v, lc, n) /\ ShownBy(v, sheet, lc, n)
  <2> DEFINE Under(row) == row.file # NoFile /\ Erp[row.file].lc = lc /\ row.shared = {n}
  <2>1. \A rows, i : i \in RowsUnder(rows, lc, n) <=> i \in DOMAIN rows /\ Under(rows[i])
    BY DEF RowsUnder, FamilyRows
  <2>2. \A row : row.shared = {} => ~Under(row)
    OBVIOUS
  <2> DEFINE In(a, b) == \A k \in DOMAIN a : Under(a[k]) => \E l \in DOMAIN b : a[k] = b[l]
  <2>3. ASSUME NEW a, NEW b, In(a, b) PROVE ShownBy(a, b, lc, n)
    <3>1. ASSUME NEW k \in RowsUnder(a, lc, n)
          PROVE  \E l \in RowsUnder(b, lc, n) : a[k] = b[l]
      <4>1. k \in DOMAIN a /\ Under(a[k])
        BY <2>1, <3>1
      <4>2. PICK l \in DOMAIN b : a[k] = b[l]
        BY <2>3, <4>1
      <4>3. Under(b[l])
        BY <4>1, <4>2
      <4> QED
        BY <2>1, <4>2, <4>3
    <3> QED
      BY <3>1 DEF ShownBy
  <2>4. CASE SwapRows
    <3>1. PICK i \in DOMAIN sheet, j \in DOMAIN sheet :
            sheet' = [sheet EXCEPT ![i] = sheet[j], ![j] = sheet[i]]
      BY <2>4 DEF SwapRows
    <3>2. /\ DOMAIN v = DOMAIN sheet
          /\ \A k \in DOMAIN sheet : \E l \in DOMAIN sheet : v[k] = sheet[l]
          /\ \A k \in DOMAIN sheet : \E l \in DOMAIN sheet : sheet[k] = v[l]
      <4>1. DOMAIN v = DOMAIN sheet /\ v[j] = sheet[i] /\ v[i] = sheet[j]
        BY <1>1, <3>1
      <4>2. \A k \in DOMAIN sheet : k # i /\ k # j => v[k] = sheet[k]
        BY <1>1, <3>1
      <4> QED
        BY <4>1, <4>2
    <3> HIDE DEF v, Under
    <3>3. In(sheet, v) /\ In(v, sheet)
      BY <3>2
    <3> QED
      BY <2>3, <3>3
  <2>5. CASE ClearRow
    <3>1. PICK i \in DOMAIN sheet : sheet[i].shared = {} /\ sheet' = [sheet EXCEPT ![i] = BlankRow]
      BY <2>5 DEF ClearRow
    <3>2. /\ DOMAIN v = DOMAIN sheet /\ ~Under(v[i]) /\ ~Under(sheet[i])
          /\ \A k \in DOMAIN sheet : k # i => v[k] = sheet[k]
      BY <1>1, <1>2, <2>2, <3>1
    <3> HIDE DEF v, Under
    <3>3. In(sheet, v) /\ In(v, sheet)
      BY <3>2
    <3> QED
      BY <2>3, <3>3
  <2>6. CASE FillRow
    <3>1. PICK f \in DOMAIN Erp : sheet' = Append(sheet, [BlankRow EXCEPT !.file = f, !.buyer = TRUE])
      BY <2>6 DEF FillRow
    <3> DEFINE row == [BlankRow EXCEPT !.file = f, !.buyer = TRUE]
    <3>2. row \in Rows /\ row.shared = {}
      BY <1>2, BlankRowType DEF Rows, BlankRow
    <3>3. sheet' = Append(sheet, row) /\ ~Under(row)
      BY <2>2, <3>1, <3>2
    <3> HIDE DEF row
    <3>4. /\ \A k \in DOMAIN v : (k \in DOMAIN sheet /\ v[k] = sheet[k]) \/ v[k] = row
          /\ \A k \in DOMAIN sheet : k \in DOMAIN v /\ v[k] = sheet[k]
      BY <1>1, <3>2, <3>3
    <3> HIDE DEF v, Under
    <3>5. In(sheet, v) /\ In(v, sheet)
      BY <3>3, <3>4
    <3> QED
      BY <2>3, <3>5
  <2> QED
    BY <2>4, <2>5, <2>6 DEF Others
<1> QED
  BY <1>1, <1>3, BalanceKeeps

\* Every step keeps the books.
LEMMA NextBooks ==
  ASSUME NumbersTell, AmountsTell, IInv, LedgerInv, BooksInv, [Next]_vars
  PROVE  BooksInv'
<1>1. ASSUME Idle, InBalance(sheet') PROVE BooksInv'
  BY <1>1 DEF Idle, NoOutcome, BooksInv
<1>2. CASE \E w \in Workflows : StartRun(w)
  BY <1>2 DEF StartRun, BooksInv
<1>3. CASE ValidateExportMail \/ ValidateUdMail \/ SavingFails \/ StagingFails
  BY <1>3, ValidatingBooks
<1>4. CASE CommitWrites
  <2>1. /\ pc = "validating" /\ pc' = "printing" /\ sheet' = Applied(sheet, plan)
        /\ outcome' = outcome /\ \A op \in plan : TargetsBlank(sheet, op)
    BY <1>4 DEF CommitWrites
  <2>2. InBalance(sheet')
    BY <2>1, WritesBalance
  <2> QED
    BY <2>1, <2>2 DEF BooksInv
<1>5. CASE NothingToWrite \/ PrintGroup \/ PrintCompletes \/ MoveMail
  <2>1. pc' # "validating" /\ UNCHANGED <<sheet, outcome>>
    BY <1>5 DEF NothingToWrite, PrintGroup, PrintCompletes, MoveMail, run
  <2> QED
    BY <2>1 DEF BooksInv
<1>6. CASE PrevalidationFails \/ EndRun \/ Crash \/ CrashWhileSaving
  BY <1>1, <1>6 DEF PrevalidationFails, EndRun, Crash, CrashWhileSaving, BooksInv
<1>7. CASE WritesEndUncertain
  <2>1. /\ pc = "validating" /\ \A op \in plan : TargetsBlank(sheet, op)
        /\ sheet' \in {sheet, Applied(sheet, plan)} /\ Idle
    BY <1>7 DEF WritesEndUncertain
  <2>2. InBalance(Applied(sheet, plan)) /\ InBalance(sheet)
    BY <2>1, WritesBalance DEF BooksInv
  <2>3. InBalance(sheet')
    BY <2>1, <2>2
  <2> QED
    BY <1>1, <2>1, <2>3
<1>8. CASE Others
  <2>1. InBalance(sheet')
    BY <1>8, EditsBalance
  <2>2. pc = "idle" /\ UNCHANGED run
    BY <1>8 DEF Others, SwapRows, ClearRow, FillRow, Edit
  <2> QED
    BY <2>1, <2>2 DEF BooksInv, run
<1>9. CASE UNCHANGED vars
  BY <1>9 DEF vars, run, BooksInv
<1> QED
  BY <1>2, <1>3, <1>4, <1>5, <1>6, <1>7, <1>8, <1>9 DEF Next, RunStep, Faulty
-----------------------------------------------------------------------------
(* The ledger with its amounts. *)

\* The files under a number are those of the rows under it.
LEMMA ClaimedFiles ==
  ASSUME sheet \in Seq(Rows), Tidy(sheet), NEW lc, NEW n
  PROVE  /\ Ledger!Claimed(lc, {n}) = FilesOn(sheet, RowsUnder(sheet, lc, n))
         /\ Ledger!Claimed(lc, {n}) \in SUBSET DOMAIN Erp
<1> DEFINE R == RowsUnder(sheet, lc, n)
           claimed == {f \in DOMAIN Erp : /\ CopiesOn(sheet)[f] > 0 /\ Erp[f].lc = lc
                                          /\ ClaimsOn(sheet)[f] = {n}}
<1>1. /\ CopiesOn(sheet) = [f \in DOMAIN Erp |-> Cardinality(RowsOf(f))]
      /\ ClaimsOn(sheet) = [f \in DOMAIN Erp |-> NumbersUnder(f)]
  BY DEF CopiesOn, ClaimsOn, RowsWith, RowsOf, NumbersUnder
<1>2. Ledger!Claimed(lc, {n}) = claimed
  BY <1>1 DEF Ledger!Claimed, Ledger!Entered
<1>3. R \in SUBSET DOMAIN sheet /\ OnFiles(sheet, R)
  BY RowsUnderIs
<1>4. ASSUME NEW f \in claimed PROVE f \in FilesOn(sheet, R)
  <2>1. f \in FilesIn(sheet)
    <3>1. CASE f \notin FilesIn(sheet)
      BY <3>1, NoCopy
    <3> QED
      BY <3>1
  <2>2. PICK i \in DOMAIN sheet : sheet[i].file = f
    BY <2>1, OnRow
  <2>3. sheet[i].shared = {n}
    BY <2>2, CopyOfRow
  <2>4. f # NoFile
    BY RegisterAssumption
  <2>5. i \in R
    BY <2>2, <2>3, <2>4 DEF RowsUnder, FamilyRows
  <2> QED
    BY <2>2, <2>5 DEF FilesOn
<1>5. ASSUME NEW i \in R PROVE sheet[i].file \in claimed
  <2>1. i \in DOMAIN sheet /\ sheet[i].file \in DOMAIN Erp
    BY <1>3 DEF OnFiles
  <2>2. Erp[sheet[i].file].lc = lc /\ sheet[i].shared = {n}
    BY DEF RowsUnder, FamilyRows
  <2>3. CopiesOn(sheet)[sheet[i].file] = 1 /\ ClaimsOn(sheet)[sheet[i].file] = {n}
    BY <2>1, <2>2, CopyOfRow
  <2> QED
    BY <2>1, <2>2, <2>3
<1>6. claimed = FilesOn(sheet, R)
  BY <1>4, <1>5 DEF FilesOn
<1> QED
  BY <1>2, <1>6

\* The amount of files, as the ledger adds it up.
LEMMA LedgerAmount ==
  ASSUME NEW files \in SUBSET DOMAIN Erp
  PROVE  Ledger!Amount(files) = Added(Values, files) /\ Added(Values, files) \in Nat
<1> DEFINE f == [x \in DOMAIN Erp |-> Erp[x].value]
           Sum(g) == g = [s \in SUBSET files |->
                            IF s = {} THEN 0
                            ELSE f[CHOOSE x \in s : TRUE] + g[s \ {CHOOSE x \in s : TRUE}]]
           sum == CHOOSE g : Sum(g)
<1>1. Ledger!Amount(files) = sum[files]
  BY DEF Ledger!Amount, Ledger!MapThenSumSet, Ledger!MapThenFoldSet
<1>2. IsFiniteSet(files) /\ Counts(f, files)
  BY RegisterAssumption, FS_Subset DEF Counts
<1>3. f = Values
  BY DEF Values
<1> HIDE DEF f
<1>4. (\E g : Sum(g)) /\ (\A g : Sum(g) => g[files] = Added(f, files))
  BY <1>2, SumDefined
<1>5. Added(f, files) \in Nat
  BY <1>2, SumLaws
<1> HIDE DEF Sum
<1> QED
  BY <1>1, <1>3, <1>4, <1>5

\* What the ledger sees of the UDs of a mail.
UdEntry(d) == [number |-> Doc[d].number, lc |-> Doc[d].lc, value |-> Doc[d].value,
               date |-> Doc[d].date]

\* The value of one document, or of none.
LEMMA LedgerValue ==
  ASSUME NEW v, v.value \in Nat, NEW docs, docs = {} \/ docs = {v}
  PROVE  /\ Ledger!MapThenSumSet(LAMBDA u : u.value, docs) = (IF docs = {} THEN 0 ELSE v.value)
<1> DEFINE f == [x \in docs |-> x.value]
           Sum(g) == g = [s \in SUBSET docs |->
                            IF s = {} THEN 0
                            ELSE (CHOOSE x \in s : TRUE).value + g[s \ {CHOOSE x \in s : TRUE}]]
           sum == CHOOSE g : Sum(g)
           Sum2(g) == g = [s \in SUBSET docs |->
                             IF s = {} THEN 0
                             ELSE f[CHOOSE x \in s : TRUE] + g[s \ {CHOOSE x \in s : TRUE}]]
<1>1. Ledger!MapThenSumSet(LAMBDA u : u.value, docs) = sum[docs]
  BY DEF Ledger!MapThenSumSet, Ledger!MapThenFoldSet
<1>2. IsFiniteSet(docs)
  BY FS_EmptySet, FS_Singleton
<1>3. Counts(f, docs)
  BY DEF Counts
<1>4. \A s \in SUBSET docs : s # {} =>
        f[CHOOSE x \in s : TRUE] = (CHOOSE x \in s : TRUE).value
  <2>1. \A s \in SUBSET docs : s # {} => (CHOOSE x \in s : TRUE) \in docs
    OBVIOUS
  <2>2. \A x \in docs : f[x] = x.value
    OBVIOUS
  <2> HIDE DEF f
  <2> QED
    BY <2>1, <2>2
<1>5. ASSUME NEW g PROVE Sum(g) <=> Sum2(g)
  <2> DEFINE Rest(s) == g[s \ {CHOOSE x \in s : TRUE}]
             Here(s) == (CHOOSE x \in s : TRUE).value
             There(s) == f[CHOOSE x \in s : TRUE]
  <2>1. \A s \in SUBSET docs : s # {} => Here(s) = There(s)
    BY <1>4
  <2> HIDE DEF Rest, Here, There
  <2>2. [s \in SUBSET docs |-> IF s = {} THEN 0 ELSE Here(s) + Rest(s)]
          = [s \in SUBSET docs |-> IF s = {} THEN 0 ELSE There(s) + Rest(s)]
    BY <2>1
  <2> QED
    BY <2>2 DEF Rest, Here, There
<1>6. (\E g : Sum2(g)) /\ \A g : Sum2(g) => g[docs] = Added(f, docs)
  <2> HIDE DEF f
  <2> QED
    BY <1>2, <1>3, SumDefined
<1> HIDE DEF Sum, Sum2
<1>7. sum[docs] = Added(f, docs)
  <2>1. Sum(sum)
    BY <1>5, <1>6
  <2> QED
    BY <1>5, <1>6, <2>1
<1>8. CASE docs = {}
  <2>1. Added(f, {}) = 0
    <3> HIDE DEF f
    <3> QED
      BY <1>2, <1>3, SumLaws
  <2> QED
    BY <1>1, <1>7, <1>8, <2>1
<1>9. CASE docs = {v}
  <2>1. docs \ {v} = {} /\ v \in docs /\ f[v] = v.value
    BY <1>9
  <2> HIDE DEF f
  <2>2. Added(f, docs) = f[v] + Added(f, docs \ {v}) /\ Added(f, {}) = 0
    BY <1>2, <1>3, <2>1, SumLaws
  <2> QED
    BY <1>1, <1>7, <1>9, <2>1, <2>2
<1> QED
  BY <1>8, <1>9

\* The ledger counts as the runs do.
LEMMA LedgerCounts == ASSUME NEW S PROVE Ledger!Cardinality(S) = Cardinality(S)
BY DEF Ledger!Cardinality, Cardinality

\* In the books every number is balanced.
LEMMA BalancedIs == IInv /\ BooksInv => Ledger!Balanced
<1> SUFFICES ASSUME IInv, BooksInv PROVE Ledger!Balanced
  OBVIOUS
<1>1. sheet \in Seq(Rows) /\ Tidy(sheet) /\ InBalance(sheet)
  BY DEF IInv, StoreInv, BooksInv
<1>2. Ledger!Uds = UNION {UdsOf(m) : m \in Mails}
  BY DEF Ledger!Uds
<1>3. ASSUME NEW u \in Ledger!Uds
      PROVE  LET under == Ledger!Claimed(u.lc, {u.number})
             IN  \E docs \in SUBSET {v \in Ledger!Uds : v.number = u.number /\ v.lc = u.lc} :
                   Ledger!Within(Ledger!Amount(under),
                                 Ledger!MapThenSumSet(LAMBDA v : v.value, docs),
                                 Tolerance * Ledger!Cardinality(docs))
  <2> DEFINE R == RowsUnder(sheet, u.lc, u.number)
             under == Ledger!Claimed(u.lc, {u.number})
             same == {v \in Ledger!Uds : v.number = u.number /\ v.lc = u.lc}
             Sum(docs) == Ledger!MapThenSumSet(LAMBDA v : v.value, docs)
  <2>1. PICK m \in Mails : u \in UdsOf(m)
    BY <1>2
  <2>2. PICK d \in OfKind(DocsOf(m), {"UD"}) : u = UdEntry(d)
    BY <2>1 DEF UdsOf, UdEntry
  <2>3. d \in UdDocs /\ u.number = Doc[d].number /\ u.lc = Doc[d].lc
    BY <2>2 DEF UdDocs, OfKind, DocsOf, UdEntry
  <2>4. under = FilesOn(sheet, R) /\ under \in SUBSET DOMAIN Erp
    BY <1>1, ClaimedFiles
  <2>5. Ledger!Amount(under) = Added(Values, under) /\ Added(Values, under) \in Nat
    BY <2>4, LedgerAmount
  <2>6. R \in SUBSET DOMAIN sheet /\ OnFiles(sheet, R)
    BY RowsUnderIs, <1>1
  <2>7. Tolerance \in Nat
    BY MarginAssumption
  <2>8. CASE R = {}
    <3>1. under = {} /\ {} \in SUBSET same
      BY <2>4, <2>8 DEF FilesOn
    <3>2. Added(Values, {}) = 0
      BY SumLaws, FS_EmptySet DEF Counts
    <3>3. Sum({}) = 0
      <4>1. UdEntry(d).value \in Nat
        BY <2>3, DocAssumption DEF UdEntry, UdDocs, OfKind
      <4> QED
        BY <4>1, LedgerValue
    <3>4. Tolerance * Ledger!Cardinality({}) = 0
      BY <2>7, FS_EmptySet, LedgerCounts
    <3>5. Ledger!Within(0, 0, 0)
      BY DEF Ledger!Within
    <3> HIDE DEF under, same, Sum
    <3>6. Ledger!Within(Ledger!Amount(under), Sum({}), Tolerance * Ledger!Cardinality({}))
      BY <2>5, <3>1, <3>2, <3>3, <3>4, <3>5
    <3> QED
      BY <3>1, <3>6 DEF under, same, Sum
  <2>9. CASE R # {}
    <3>1. PICK e \in UdDocs : /\ Doc[e].number = u.number /\ Doc[e].lc = u.lc
                              /\ MakesUp(sheet, R, Doc[e])
      BY <1>1, <2>3, <2>9 DEF InBalance, Balances
    <3> DEFINE v == UdEntry(e)
    <3>2. Doc[e].mail \in Mails /\ e \in OfKind(DocsOf(Doc[e].mail), {"UD"}) /\ Doc[e].value \in Nat
      BY DocAssumption DEF UdDocs, OfKind, DocsOf
    <3>3. v \in UdsOf(Doc[e].mail)
      BY <3>2 DEF UdsOf, UdEntry
    <3>4. v \in same /\ v.value = Doc[e].value
      BY <1>2, <3>1, <3>2, <3>3 DEF UdEntry
    <3>5. Sum({v}) = v.value
      BY <3>2, <3>4, LedgerValue
    <3>6. Near(Added(Values, under), v.value)
      <4>1. ValueOf(sheet, R) = Added(Values, FilesOn(sheet, R))
        BY <1>1, <2>6, ValueOfFiles
      <4> QED
        BY <2>4, <3>1, <3>4, <4>1 DEF MakesUp
    <3>7. Tolerance * Ledger!Cardinality({v}) = Tolerance
      <4>1. Ledger!Cardinality({v}) = 1
        BY FS_Singleton, LedgerCounts
      <4> QED
        BY <2>7, <4>1
    <3> HIDE DEF under, same, Sum, v
    <3>8. Ledger!Within(Ledger!Amount(under), Sum({v}), Tolerance * Ledger!Cardinality({v}))
      BY <2>5, <3>5, <3>6, <3>7 DEF Ledger!Within, Near
    <3> QED
      BY <3>4, <3>8 DEF under, same, Sum
  <2> QED
    BY <2>8, <2>9
<1> QED
  BY <1>3, Zenon DEF Ledger!Balanced

\* The runs start on books in order.
LEMMA InitBooks == ASSUME SheetsInBalance, Init PROVE BooksInv
BY DEF Init, NoOutcome, SheetsInBalance, BooksInv

\* The workbook holds files for the UDs of a mail that is to be moved.
LEMMA MailIsHeld ==
  ASSUME NumbersTell, IInv, LedgerInv, BooksInv, pc = "moving",
         NEW m \in Mails, ~outcome[m].blocked, NEW u \in UdsOf(m)
  PROVE  Ledger!Holds(u)
<1>1. sheet \in Seq(Rows) /\ Tidy(sheet) /\ InBalance(sheet)
  BY DEF IInv, StoreInv, BooksInv
<1>2. PICK d \in OfKind(DocsOf(m), {"UD"}) : u = UdEntry(d)
  BY DEF UdsOf, UdEntry
<1>3. /\ d \in DocsOf(m) /\ d \in UdDocs /\ Allocatable(Doc[d])
      /\ u.number = Doc[d].number /\ u.lc = Doc[d].lc /\ u.value = Doc[d].value
  BY <1>2 DEF OfKind, DocsOf, UdDocs, UdEntry, BooksInv
<1>4. HoldsMail(m) /\ sheet = working
  BY DEF LedgerInv
<1>5. Mail[m].workflow = workflow /\ Mail[m].workflow = "ud_ip_exp"
  BY <1>3, <1>4, DocAssumption DEF DocsOf, HoldsMail
<1>6. Held(sheet, VerifiedFamily(m), {u.number}) /\ u.lc = VerifiedFamily(m)
  BY <1>2, <1>3, <1>4, <1>5 DEF HoldsMail, Storable, ShowsMail
<1> DEFINE R == RowsUnder(sheet, u.lc, u.number)
           under == Ledger!Claimed(u.lc, {u.number})
<1>7. R # {}
  BY <1>6 DEF Held, RowsUnder
<1>8. PICK e \in UdDocs : /\ Doc[e].number = Doc[d].number /\ Doc[e].lc = Doc[d].lc
                          /\ Allocatable(Doc[e]) /\ MakesUp(sheet, R, Doc[e])
  BY <1>1, <1>3, <1>7 DEF InBalance, Balances
<1>9. Doc[e].value = u.value
  BY <1>3, <1>8 DEF NumbersTell, UdDocs, OfKind
<1>10. under = FilesOn(sheet, R) /\ under \in SUBSET DOMAIN Erp
  BY <1>1, ClaimedFiles
<1>11. Ledger!Amount(under) = Added(Values, under)
  BY <1>10, LedgerAmount
<1>12. ValueOf(sheet, R) = Added(Values, under)
  BY <1>1, <1>10, RowsUnderIs, ValueOfFiles
<1> HIDE DEF R, under
<1>13. Near(Ledger!Amount(under), u.value)
  BY <1>8, <1>9, <1>11, <1>12 DEF MakesUp
<1>14. Ledger!Within(Ledger!Amount(under), u.value, Tolerance)
  BY <1>13 DEF Ledger!Within, Near
<1> QED
  BY <1>14 DEF Ledger!Holds, under

\* What a step settles is a mail whose UDs are held.
LEMMA SettledIsHeld ==
  ASSUME NumbersTell, IInv, LedgerInv, BooksInv, [Next]_vars,
         NEW m \in Mails, Ledger!Settle(m)
  PROVE  Ledger!SettleHeld(m)
<1>1. m \notin moved /\ m \in moved'
  BY DEF Ledger!Settle
<1>2. CASE MoveMail
  <2>1. /\ pc = "moving" /\ Movable # {} /\ moved' = moved \cup {Min(Movable)}
    BY <1>2 DEF MoveMail
  <2>2. Min(Movable) \in Movable
    <3>1. Movable \in SUBSET Nat
      BY MailAssumption DEF Movable
    <3> QED
      BY <2>1, <3>1, SmallestNumber
  <2>3. m \in Movable
    BY <1>1, <2>1, <2>2
  <2>4. ~outcome[m].blocked
    BY <2>3 DEF Movable
  <2>5. \A u \in UdsOf(m) : Ledger!Holds(u)
    BY <2>1, <2>4, MailIsHeld
  <2> QED
    BY <2>5 DEF Ledger!SettleHeld
<1>3. CASE ~MoveMail
  <2>1. moved' = moved
    BY <1>3 DEF Next, RunStep, Faulty, Others, StartRun, ValidateExportMail, ValidateUdMail,
                SavingFails, StagingFails, CommitWrites, NothingToWrite, PrevalidationFails,
                PrintGroup, PrintCompletes, EndRun, Crash, CrashWhileSaving,
                WritesEndUncertain, SwapRows, ClearRow, FillRow, Edit, vars
  <2> QED
    BY <1>1, <2>1
<1> QED
  BY <1>2, <1>3

\* Every step is a step of the ledger that keeps it in balance, or none.
LEMMA NextIsBalanced ==
  NumbersTell /\ IInv /\ LedgerInv /\ BooksInv /\ IInv' /\ Ledger!Balanced' /\ [Next]_vars
    => [Ledger!BalancedNext]_(Ledger!vars)
<1> SUFFICES ASSUME NumbersTell, IInv, LedgerInv, BooksInv, IInv', Ledger!Balanced', [Next]_vars
             PROVE  [Ledger!BalancedNext]_(Ledger!vars)
  OBVIOUS
<1>1. [Ledger!Next]_(Ledger!vars)
  BY NextIsLedger
<1>2. CASE UNCHANGED Ledger!vars
  BY <1>2
<1>3. CASE Ledger!Write
  BY <1>3 DEF Ledger!WriteInBalance, Ledger!BalancedNext
<1>4. CASE \E f \in DOMAIN Erp : Ledger!Erase(f)
  BY <1>4 DEF Ledger!BalancedNext
<1>5. CASE \E m \in Mails : Ledger!Settle(m)
  <2>1. PICK m \in Mails : Ledger!Settle(m)
    BY <1>5
  <2>2. Ledger!SettleHeld(m)
    BY <2>1, SettledIsHeld
  <2> QED
    BY <2>2 DEF Ledger!BalancedNext
<1> QED
  BY <1>1, <1>2, <1>3, <1>4, <1>5 DEF Ledger!Next

\* Where the documents tell their numbers apart, the amounts tell groups of
\* rows apart and the workbook is in balance at first, every sheet the runs
\* write is: the files under a number make up a UD or AM of that number
\* (allocate_structured_ud_rows picks a group of rows whose values and
\* quantities agree, and the rows of a number already entered are taken as they
\* are). A mail is moved (execute_mail_moves) only when the files under the
\* number of each of its UDs hold its value.
THEOREM FamilyLedgerTheorem ==
  ASSUME NumbersTell, AmountsTell, SheetsInBalance
  PROVE  Spec => ImplementsFamilyLedger
<1>1. Init => Ledger!BalancedInit
  BY InitIsLedger, InitIInv, InitBooks, BalancedIs DEF Ledger!BalancedInit
<1>2. Init => BooksInv
  BY InitBooks
<1>3. IInv /\ LedgerInv /\ BooksInv /\ [Next]_vars => BooksInv'
  BY NextBooks
<1>4. IInv' /\ BooksInv' => Ledger!Balanced'
  BY BalancedIs, PTL
<1>5. IInv /\ LedgerInv /\ BooksInv /\ IInv' /\ BooksInv' /\ [Next]_vars
        => [Ledger!BalancedNext]_(Ledger!vars)
  BY <1>4, NextIsBalanced
<1> QED
  BY <1>1, <1>2, <1>3, <1>5, InvTheorem, LedgerInvTheorem, PTL
     DEF Spec, ImplementsFamilyLedger, Ledger!BalancedSpec
-----------------------------------------------------------------------------
(* Sequences. *)

\* The elements of a sequence.
LEMMA ElementsIn ==
  ASSUME NEW S, NEW s \in Seq(S)
  PROVE  /\ \A i \in DOMAIN s : s[i] \in S
         /\ DOMAIN s = 1..Len(s) /\ Len(s) \in Nat /\ DOMAIN s \in SUBSET Nat
         /\ IsFiniteSet(DOMAIN s)
<1>1. DOMAIN s = 1..Len(s) /\ Len(s) \in Nat /\ Len(s) \in Int /\ 1 \in Int
  OBVIOUS
<1>2. IsFiniteSet(1..Len(s))
  BY <1>1, FS_Interval
<1>3. \A i \in DOMAIN s : s[i] \in S
  OBVIOUS
<1> QED
  BY <1>1, <1>2, <1>3

\* What is listed in an order comes in that order.
LEMMA ListedInOrder ==
  ASSUME NEW S, IsFiniteSet(S), NEW R, StrictlyOrders(R, S),
         NEW i \in 1..Cardinality(S), NEW j \in 1..Cardinality(S), i < j
  PROVE  <<Listed(S, R)[i], Listed(S, R)[j]>> \in R
<1> DEFINE s == ByPlace(S, R)
           n == Cardinality(S)
<1>1. Listed(S, R) = s
  BY DEF Listed, ByPlace, Below
<1>2. /\ n \in Nat /\ \A k \in 1..n : s[k] \in S /\ Cardinality(Below(s[k], S, R)) = k - 1
  BY ListedByPlace
<1> HIDE DEF s
<1> DEFINE x == s[i]
           y == s[j]
<1>3. /\ x \in S /\ y \in S
      /\ Cardinality(Below(x, S, R)) = i - 1 /\ Cardinality(Below(y, S, R)) = j - 1
  BY <1>2
<1>4. x # y
  BY <1>2, <1>3
<1> HIDE DEF x, y, n
<1>5. CASE <<y, x>> \in R
  <2>1. j - 1 < i - 1
    BY <1>3, <1>5, PlacesDiffer
  <2> QED
    BY <1>2, <2>1 DEF n
<1>6. CASE <<x, y>> \in R
  BY <1>1, <1>6 DEF x, y
<1> QED
  BY <1>3, <1>4, <1>5, <1>6 DEF StrictlyOrders

\* Numbers in ascending order.
LEMMA AscendingIs ==
  ASSUME NEW S \in SUBSET Nat, IsFiniteSet(S)
  PROVE  /\ Ascending(S) \in Seq(S) /\ DOMAIN Ascending(S) = 1..Cardinality(S)
         /\ ToSet(Ascending(S)) = S
<1> DEFINE R == {p \in S \X S : p[1] < p[2]}
<1>1. StrictlyOrders(R, S)
  <2>1. \A x, y \in S : <<x, y>> \in R <=> x < y
    OBVIOUS
  <2> HIDE DEF R
  <2> QED
    BY <2>1 DEF StrictlyOrders
<1>2. Ascending(S) = Listed(S, R)
  BY DEF Ascending
<1> HIDE DEF R
<1>3. /\ Listed(S, R) \in Seq(S)
      /\ DOMAIN Listed(S, R) = 1..Cardinality(S)
      /\ \A x \in S : \E i \in 1..Cardinality(S) : Listed(S, R)[i] = x
  BY <1>1, ListedIs
<1> DEFINE s == Listed(S, R)
           n == Cardinality(S)
<1>4. s \in Seq(S) /\ DOMAIN s = 1..n /\ \A x \in S : \E i \in 1..n : s[i] = x
  BY <1>3
<1> HIDE DEF s, n
<1>5. \A i \in 1..n : s[i] \in S
  BY <1>4, ElementsIn
<1>6. ToSet(s) = S
  BY <1>4, <1>5 DEF ToSet
<1> QED
  BY <1>2, <1>4, <1>6 DEF s, n

\* The elements of a sequence in a set.
LEMMA OnlyIs ==
  ASSUME NEW T, NEW seq \in Seq(T), NEW S
  PROVE  /\ Only(seq, S) \in Seq(T)
         /\ ToSet(Only(seq, S)) = ToSet(seq) \cap S
<1> DEFINE I == {i \in DOMAIN seq : seq[i] \in S}
           at == Ascending(I)
           n == Cardinality(I)
<1>1. I \in SUBSET Nat /\ IsFiniteSet(I)
  <2>1. DOMAIN seq \in SUBSET Nat /\ IsFiniteSet(DOMAIN seq)
    BY ElementsIn
  <2>2. I \in SUBSET DOMAIN seq
    OBVIOUS
  <2> HIDE DEF I
  <2> QED
    BY <2>1, <2>2, FS_Subset
<1>2. Only(seq, S) = [k \in DOMAIN at |-> seq[at[k]]]
  BY DEF Only
<1>3. at \in Seq(I) /\ DOMAIN at = 1..n /\ ToSet(at) = I
  <2> HIDE DEF I
  <2> QED
    BY <1>1, AscendingIs
<1>4. n \in Nat
  <2> HIDE DEF I
  <2> QED
    BY <1>1, FS_CardinalityType
<1> HIDE DEF at, n
<1>5. \A k \in 1..n : at[k] \in DOMAIN seq /\ seq[at[k]] \in S /\ seq[at[k]] \in T
  <2>1. \A k \in 1..n : at[k] \in I
    <3> HIDE DEF I
    <3> QED
      BY <1>3, ElementsIn
  <2>2. \A i \in I : i \in DOMAIN seq /\ seq[i] \in S /\ seq[i] \in T
    OBVIOUS
  <2> HIDE DEF I
  <2> QED
    BY <2>1, <2>2
<1>6. [k \in 1..n |-> seq[at[k]]] \in Seq(T)
  <2>1. [k \in 1..n |-> seq[at[k]]] \in [1..n -> T]
    BY <1>5
  <2> QED
    BY <1>4, <2>1, SeqDef
<1>7. Only(seq, S) = [k \in 1..n |-> seq[at[k]]]
  BY <1>2, <1>3
<1>8. ASSUME NEW x \in ToSet(seq) \cap S PROVE x \in ToSet(Only(seq, S))
  <2>1. PICK i \in DOMAIN seq : seq[i] = x
    BY DEF ToSet
  <2>2. i \in I
    BY <2>1
  <2>3. PICK k \in 1..n : at[k] = i
    BY <1>3, <2>2 DEF ToSet
  <2> QED
    BY <1>7, <2>1, <2>3 DEF ToSet
<1>9. ASSUME NEW x \in ToSet(Only(seq, S)) PROVE x \in ToSet(seq) \cap S
  BY <1>5, <1>7 DEF ToSet
<1> QED
  BY <1>6, <1>7, <1>8, <1>9

\* A sequence of sequences laid end to end.
LEMMA FlattenIs ==
  ASSUME NEW T, NEW seqs \in Seq(Seq(T))
  PROVE  /\ FlattenSeq(seqs) \in Seq(T)
         /\ \A x : x \in ToSet(FlattenSeq(seqs)) <=> \E k \in DOMAIN seqs : x \in ToSet(seqs[k])
<1> DEFINE n == Len(seqs)
           S == Seq(T)
           none == <<>>
           step == [p \in (1..n) \X S |-> p[2] \o seqs[p[1]]]
           IsFlat(g) == g = [i \in 1..n |-> IF i = 1 THEN seqs[i] ELSE g[i - 1] \o seqs[i]]
           flat == CHOOSE g : IsFlat(g)
           In(x, k) == \E j \in 1..k : x \in ToSet(seqs[j])
<1>1. n \in Nat /\ DOMAIN seqs = 1..n /\ \A k \in 1..n : seqs[k] \in S
  BY ElementsIn
<1>2. none \in S /\ \A s \in S : none \o s = s
  BY ConcatEmptySeq
<1>3. FlattenSeq(seqs) = IF n = 0 THEN seqs ELSE flat[n]
  BY DEF FlattenSeq
<1>4. \A s, t \in S : s \o t \in S /\ \A x : x \in ToSet(s \o t) <=> x \in ToSet(s) \/ x \in ToSet(t)
  <2>1. ASSUME NEW s \in S, NEW t \in S PROVE s \o t \in S
    OBVIOUS
  <2>2. ASSUME NEW s \in S, NEW t \in S
        PROVE  \A x : x \in ToSet(s \o t) <=> x \in ToSet(s) \/ x \in ToSet(t)
    <3>1. /\ Len(s) \in Nat /\ DOMAIN s = 1..Len(s) /\ Len(t) \in Nat /\ DOMAIN t = 1..Len(t)
          /\ DOMAIN (s \o t) = 1..(Len(s) + Len(t))
      OBVIOUS
    <3>2. /\ \A i \in 1..Len(s) : (s \o t)[i] = s[i]
          /\ \A i \in 1..Len(t) : (s \o t)[Len(s) + i] = t[i]
      OBVIOUS
    <3>3. ASSUME NEW i \in 1..(Len(s) + Len(t))
          PROVE  i \in 1..Len(s) \/ (i - Len(s) \in 1..Len(t) /\ i = Len(s) + (i - Len(s)))
      BY <3>1
    <3>4. /\ 1..Len(s) \in SUBSET (1..(Len(s) + Len(t)))
          /\ \A i \in 1..Len(t) : Len(s) + i \in 1..(Len(s) + Len(t))
      BY <3>1
    <3> DEFINE u == s \o t
               a == Len(s)
               b == Len(t)
    <3> HIDE DEF u
    <3>5. ASSUME NEW i \in DOMAIN u PROVE u[i] \in ToSet(s) \/ u[i] \in ToSet(t)
      <4>1. i \in 1..(a + b)
        BY <3>1 DEF u
      <4>2. CASE i \in 1..a
        BY <3>1, <3>2, <4>2 DEF ToSet, u
      <4>3. CASE i - a \in 1..b /\ i = a + (i - a)
        BY <3>1, <3>2, <4>3 DEF ToSet, u
      <4> QED
        BY <3>3, <4>1, <4>2, <4>3
    <3>6. ASSUME NEW i \in DOMAIN s PROVE s[i] \in ToSet(u)
      <4>1. i \in DOMAIN u /\ u[i] = s[i]
        BY <3>1, <3>2, <3>4 DEF u
      <4> QED
        BY <4>1 DEF ToSet
    <3>7. ASSUME NEW i \in DOMAIN t PROVE t[i] \in ToSet(u)
      <4>1. Len(s) + i \in DOMAIN u /\ u[Len(s) + i] = t[i]
        BY <3>1, <3>2, <3>4 DEF u
      <4> QED
        BY <4>1 DEF ToSet
    <3> QED
      BY <3>5, <3>6, <3>7 DEF ToSet, u
  <2> QED
    BY <2>1, <2>2
<1> HIDE DEF S, none
<1>5. step \in [(1..n) \X S -> S]
  BY <1>1, <1>4
<1>6. \A k \in 1..n, s \in S : step[<<k, s>>] = s \o seqs[k]
  OBVIOUS
<1> HIDE DEF step, n
<1>7. PICK g \in [0..n -> S] : Recursive(g, n, none, step)
  BY <1>1, <1>2, <1>5, RecursionExists, Zenon
<1>8. g[0] = none /\ \A k \in 1..n : g[k] = g[k - 1] \o seqs[k]
  <2>1. \A k \in 1..n : g[k - 1] \in S
    BY <1>1
  <2> QED
    BY <1>6, <1>7, <2>1 DEF Recursive
<1>9. IsFlat([i \in 1..n |-> g[i]])
  <2> DEFINE h == [i \in 1..n |-> g[i]]
  <2>1. \A i \in 1..n : h[i] = IF i = 1 THEN seqs[i] ELSE h[i - 1] \o seqs[i]
    <3>1. ASSUME NEW i \in 1..n, i = 1 PROVE h[i] = seqs[i]
      <4>1. 1 \in 1..n /\ h[1] = g[1] /\ 1 - 1 = 0
        BY <1>1, <3>1
      <4>2. g[1] = g[0] \o seqs[1]
        BY <1>8, <4>1
      <4>3. seqs[1] \in S /\ g[0] = none
        BY <1>1, <1>8, <4>1
      <4> HIDE DEF h
      <4> QED
        BY <1>2, <3>1, <4>1, <4>2, <4>3
    <3>2. ASSUME NEW i \in 1..n, i # 1 PROVE h[i] = h[i - 1] \o seqs[i]
      <4>1. i - 1 \in 1..n
        BY <1>1, <3>2
      <4> QED
        BY <1>8, <4>1
    <3> QED
      BY <3>1, <3>2
  <2>2. h = [i \in 1..n |-> h[i]]
    OBVIOUS
  <2> HIDE DEF h
  <2>3. IsFlat(h)
    BY <2>1, <2>2
  <2> QED
    BY <2>3 DEF h
<1>10. IsFlat(flat)
  BY <1>9
<1> HIDE DEF flat
<1>11. \A i \in 1..n : flat[i] = IF i = 1 THEN seqs[i] ELSE flat[i - 1] \o seqs[i]
  BY <1>10
<1> DEFINE Flat(k) == flat[k] \in S /\ \A x : x \in ToSet(flat[k]) <=> In(x, k)
           K == {k \in 0..n : k # 0 => Flat(k)}
<1>12. ASSUME NEW k \in 1..n, k - 1 \in K PROVE Flat(k)
  <2>1. CASE k = 1
    <3>1. flat[k] = seqs[k]
      BY <1>11, <2>1
    <3>2. \A x : In(x, k) <=> x \in ToSet(seqs[k])
      BY <2>1
    <3> QED
      BY <1>1, <3>1, <3>2
  <2>2. CASE k # 1
    <3>1. Flat(k - 1) /\ flat[k] = flat[k - 1] \o seqs[k]
      <4>1. k - 1 # 0
        BY <1>1, <2>2
      <4>2. Flat(k - 1)
        <5> HIDE DEF Flat
        <5> QED
          BY <1>12, <4>1
      <4> QED
        BY <1>1, <1>11, <2>2, <4>2
    <3>2. \A x : In(x, k) <=> In(x, k - 1) \/ x \in ToSet(seqs[k])
      <4>1. \A j : j \in 1..k <=> j \in 1..(k - 1) \/ j = k
        BY <1>1
      <4> QED
        BY <4>1
    <3>3. seqs[k] \in S
      BY <1>1
    <3> HIDE DEF In
    <3> QED
      BY <1>4, <3>1, <3>2, <3>3
  <2> QED
    BY <2>1, <2>2
<1>13. 0 \in K /\ \A k \in 1..n : k - 1 \in K => k \in K
  <2> HIDE DEF Flat
  <2>1. 0 \in K
    BY <1>1
  <2> QED
    BY <1>1, <1>12, <2>1
<1>14. n \in K
  <2> HIDE DEF K
  <2>1. 0..n \subseteq K
    BY <1>1, <1>13, UpTo
  <2> QED
    BY <1>1, <2>1
<1>15. CASE n # 0
  BY <1>1, <1>3, <1>14, <1>15 DEF S
<1>16. CASE n = 0
  <2>1. DOMAIN seqs = {} /\ seqs = <<>>
    BY <1>16 DEF n
  <2>2. FlattenSeq(seqs) = <<>> /\ ToSet(<<>>) = {}
    BY <1>3, <1>16, <2>1 DEF ToSet
  <2>3. <<>> \in Seq(T)
    OBVIOUS
  <2> QED
    BY <2>1, <2>2, <2>3
<1> QED
  BY <1>15, <1>16
-----------------------------------------------------------------------------
(* The rows selected for a document are those under its number.          *)

\* Of rows near a value none can be left out.
LEMMA NearIsAll ==
  ASSUME AmountsTell, NEW rows \in Seq(Rows), Tidy(rows), NEW R \in SUBSET DOMAIN rows,
         OnFiles(rows, R), NEW group \in SUBSET R, NEW v \in Nat,
         Near(ValueOf(rows, R), v), Near(ValueOf(rows, group), v)
  PROVE  group = R
<1> SUFFICES ASSUME NEW i \in R, i \notin group PROVE FALSE
  OBVIOUS
<1> DEFINE files == FilesOn(rows, R)
           part == FilesOn(rows, group)
           Total(S) == Added(Values, S)
           x == rows[i].file
<1>1. group \in SUBSET DOMAIN rows /\ OnFiles(rows, group)
  BY DEF OnFiles
<1>2. /\ ValueOf(rows, R) = Total(files) /\ ValueOf(rows, group) = Total(part)
      /\ IsFiniteSet(files) /\ Counts(Values, files)
  BY <1>1, ValueOfFiles
<1>3. x \in files /\ x \in DOMAIN Erp
  BY DEF FilesOn, OnFiles
<1>4. Values[x] > 2 * Tolerance /\ Tolerance \in Nat
  BY <1>3, MarginAssumption DEF Values, AmountsTell
<1>5. part \in SUBSET (files \ {x})
  <2>1. \A j \in group : rows[j].file # x
    <3>1. \A j \in R : rows[j].file \in DOMAIN Erp
      BY DEF OnFiles
    <3>2. \A j \in R : rows[j].file = rows[i].file => j = i
      BY <3>1, RegisterAssumption DEF Tidy
    <3> QED
      BY <3>2
  <2> QED
    BY <2>1 DEF FilesOn
<1> HIDE DEF files, part, Total, x
<1>6. /\ Total(files) \in Nat /\ Total(files \ {x}) \in Nat
      /\ Total(files) = Values[x] + Total(files \ {x})
  BY <1>2, <1>3, SumLaws DEF Total
<1>7. Total(part) \in Nat /\ Total(part) <= Total(files \ {x})
  <2> DEFINE rest == files \ {x}
  <2>1. IsFiniteSet(rest) /\ Counts(Values, rest)
    BY <1>2, FS_Subset DEF Counts
  <2> HIDE DEF rest
  <2>2. \A S \in SUBSET rest : Total(S) \in Nat /\ Total(S) <= Total(rest)
    BY <2>1, SumLaws DEF Total
  <2> QED
    BY <1>5, <2>2 DEF rest
<1>8. /\ Total(files) - v \in -Tolerance..Tolerance
      /\ Total(part) - v \in -Tolerance..Tolerance
  BY <1>2 DEF Near
<1>9. Values[x] \in Nat
  BY <1>2, <1>3 DEF Counts
<1> QED
  BY <1>4, <1>6, <1>7, <1>8, <1>9, FarWithout

\* The rows under the number of a UD in its family.
UnderUd(rows, d) == RowsUnder(rows, Doc[d].lc, Doc[d].number)

\* An allocation finds rows that show a document.
Finds(rows, d, excluded, R) ==
  \E a \in {Allocation(rows, Doc[d].lc, Doc[d], excluded)} :
    a.decision = "already_recorded" /\ a.rows = R

\* What it finds recorded are all that stand under the number.
LEMMA RecordedUnder ==
  ASSUME NumbersTell, AmountsTell, NEW rows \in Seq(Rows), Tidy(rows), InBalance(rows),
         NEW d \in UdDocs, NEW excluded, NEW R, Finds(rows, d, excluded, R)
  PROVE  UnderUd(rows, d) = R /\ R # {}
<1> DEFINE lc == Doc[d].lc
           n == Doc[d].number
           under == RowsUnder(rows, lc, n)
           shown == ShowingRows(rows, lc, Doc[d])
<1>1. /\ R # {} /\ R \in SUBSET FamilyRows(rows, lc) /\ \A i \in R : rows[i].shared = {n}
      /\ R \in Agreeing(rows, shown, Doc[d]) /\ Allocatable(Doc[d])
  <2> DEFINE a == Allocation(rows, lc, Doc[d], excluded)
  <2>1. a.decision = "already_recorded" /\ a.rows = R
    BY DEF Finds
  <2> QED
    BY <2>1, AllocationFinds
<1>2. R \in SUBSET under
  BY <1>1 DEF RowsUnder
<1>3. d \in Docs /\ Doc[d].value \in Nat
  BY DocAssumption DEF UdDocs, OfKind
<1>4. PICK e \in UdDocs : /\ Doc[e].number = n /\ Doc[e].lc = lc /\ Allocatable(Doc[e])
                          /\ MakesUp(rows, under, Doc[e])
  BY <1>1, <1>2 DEF InBalance, Balances
<1>5. Doc[e].value = Doc[d].value
  <2>1. e \in Docs
    BY DEF UdDocs, OfKind
  <2> QED
    BY <1>1, <1>4, <2>1 DEF NumbersTell
<1>6. Near(ValueOf(rows, under), Doc[d].value)
  BY <1>4, <1>5 DEF MakesUp
<1>7. Near(ValueOf(rows, R), Doc[d].value)
  BY <1>1 DEF Agreeing, ValueGroups
<1>8. under \in SUBSET DOMAIN rows /\ OnFiles(rows, under)
  BY RowsUnderIs
<1> DEFINE v == Doc[d].value
<1>9. v \in Nat /\ Near(ValueOf(rows, under), v) /\ Near(ValueOf(rows, R), v)
  BY <1>3, <1>6, <1>7
<1> HIDE DEF under, v
<1>10. R = under
  BY <1>2, <1>8, <1>9, NearIsAll
<1> QED
  BY <1>1, <1>10 DEF under, UnderUd

\* What stands under the numbers of UDs stays there, and nothing joins it.
Keeps(a, b) == \A c \in UdDocs : UnderUd(a, c) # {} => UnderUd(b, c) = UnderUd(a, c)

\* The allocation of a document on a snapshot of the staging.
AllocationOf(s, m, d) == Allocation(s.rows, VerifiedFamily(m), Doc[d], s.excluded)

\* A document takes all that is under its number then, or blocks the mail; what
\* is under other numbers stays.
LEMMA StageNextSelects ==
  ASSUME NumbersTell, AmountsTell,
         NEW m \in Mails, NEW rows \in Seq(Rows), Len(rows) <= MaxRows, Tidy(rows),
         NEW s \in Stages(m, rows), NEW d \in UdDocs, Doc[d].lc = VerifiedFamily(m),
         InBalance(s.rows), NEW t, t = StageNext(s, m, d)
  PROVE  /\ ~t.blocked => /\ UnderUd(t.rows, d) = AllocationOf(s, m, d).rows
                          /\ UnderUd(t.rows, d) # {}
         /\ Keeps(s.rows, t.rows)
<1> DEFINE a == Allocation(s.rows, Doc[d].lc, Doc[d], s.excluded)
           ops == {AssignOp(m, i, {Doc[d].number}, Doc[d].date) : i \in a.rows}
<1>1. /\ s \in [rows : Seq(Rows), excluded : SUBSET Nat, ops : SUBSET Ops, blocked : BOOLEAN,
                duplicates : BOOLEAN]
      /\ s.rows = Applied(rows, s.ops) /\ Assigns(rows, s.ops)
  BY DEF Stages
<1>2. s.rows \in Seq(Rows) /\ Len(s.rows) = Len(rows) /\ Tidy(s.rows)
  BY <1>1, AssignedRows
<1>3. t = Stage(s, m, d, a) /\ AllocationOf(s, m, d) = a
  BY DEF StageNext, AllocationOf
<1>4. /\ a.decision \in {"already_recorded", "selected"} =>
            a.rows # {} /\ a.rows \in SUBSET FamilyRows(s.rows, Doc[d].lc)
  BY <1>2, AllocationFinds
<1>5. Doc[d].number \in Numbers /\ Doc[d].date \in Nat
  BY DocAssumption DEF UdDocs, OfKind
<1>6. a.decision = "already_recorded" => Finds(s.rows, d, s.excluded, a.rows)
  BY DEF Finds
<1>7. a.decision = "selected" => Selects(s.rows, d, s.excluded, a.rows)
  BY DEF Selects
<1> HIDE DEF a
<1>8. CASE a.decision = "already_recorded"
  <2>1. t = [s EXCEPT !.duplicates = TRUE, !.excluded = @ \cup a.rows]
    BY <1>3, <1>8 DEF Stage
  <2>2. t.rows = s.rows
    BY <1>1, <2>1
  <2>3. UnderUd(s.rows, d) = a.rows /\ a.rows # {}
    BY <1>2, <1>6, <1>8, RecordedUnder
  <2> QED
    BY <1>3, <2>2, <2>3 DEF Keeps
<1>9. CASE /\ a.decision = "selected" /\ \A i \in a.rows : TargetsFree(s.rows[i])
  <2>1. t = [s EXCEPT !.ops = @ \cup ops, !.excluded = @ \cup a.rows, !.rows = Applied(@, ops)]
    BY <1>3, <1>9 DEF Stage
  <2> DEFINE shared == {Doc[d].number}
             R == a.rows
             date == Doc[d].date
             new == Applied(s.rows, AssignsTo(m, R, shared, date))
             lc == Doc[d].lc
  <2>2. t.rows = new
    BY <1>1, <2>1 DEF AssignsTo
  <2>3. /\ shared \in SUBSET Numbers /\ shared # {} /\ date \in Nat
        /\ R \in SUBSET DOMAIN s.rows /\ \A i \in R : TargetsFree(s.rows[i])
    BY <1>4, <1>5, <1>9 DEF FamilyRows
  <2>4. Len(s.rows) <= MaxRows
    BY <1>2
  <2>5. EnteredOn(s.rows, new, R, shared, date) /\ new \in Seq(Rows) /\ Tidy(new)
    <3> HIDE DEF R, shared, date
    <3> QED
      BY <1>2, <2>3, <2>4, AssignsEnter
  <2>6. EntersUd(s.rows, new, R, d)
    <3> HIDE DEF new
    <3> QED
      BY <2>5 DEF EntersUd
  <2>7. Selects(s.rows, d, s.excluded, R) /\ R # {}
    BY <1>4, <1>7, <1>9
  <2> HIDE DEF new, R
  <2>8. TakesUd(s.rows, new, R, d)
    BY <1>2, <2>5, <2>6, <2>7, SelectedUnder
  <2>9. ASSUME NEW c \in UdDocs, UnderUd(s.rows, c) # {}
        PROVE  UnderUd(new, c) = UnderUd(s.rows, c)
    <3> DEFINE other == Doc[c].lc
               number == Doc[c].number
    <3>1. other # lc \/ shared # {number}
      BY <2>8, <2>9 DEF UnderUd, TakesUd
    <3> HIDE DEF shared, date, other, number, lc
    <3>2. RowsUnder(new, other, number) = RowsUnder(s.rows, other, number)
      BY <2>5, <2>8, <3>1, OthersStay DEF lc, TakesUd
    <3> QED
      BY <3>2 DEF UnderUd, other, number
  <2> QED
    BY <1>3, <2>2, <2>7, <2>8, <2>9 DEF Keeps, UnderUd, TakesUd, R
<1>10. CASE ~(a.decision = "already_recorded")
           /\ ~(a.decision = "selected" /\ \A i \in a.rows : TargetsFree(s.rows[i]))
  <2>1. t = [s EXCEPT !.blocked = TRUE]
    BY <1>3, <1>10 DEF Stage
  <2>2. t.rows = s.rows /\ t.blocked
    BY <1>1, <2>1
  <2> QED
    BY <2>2 DEF Keeps
<1> QED
  BY <1>8, <1>9, <1>10

\* Keeping what is under numbers carries over two steps.
LEMMA KeepsOn == ASSUME NEW a, NEW b, NEW c, Keeps(a, b), Keeps(b, c) PROVE Keeps(a, c)
BY DEF Keeps

\* The documents staged so far have what was selected for them.
SelectedSoFar(m, after, k) ==
  ~after[k].blocked =>
    \A j \in 1..k : /\ UnderUd(after[k].rows, Kept(m)[j]) = AllocationOf(after[j - 1], m, Kept(m)[j]).rows
                    /\ UnderUd(after[k].rows, Kept(m)[j]) # {}

\* What is selected for the documents of a mail stays under their numbers, as
\* does what the sheet had under numbers.
LEMMA StagedSelects ==
  ASSUME NumbersTell, AmountsTell,
         NEW m \in Mails, NEW rows \in Seq(Rows), Len(rows) <= MaxRows, Tidy(rows),
         NamesFamily(m), InBalance(rows)
  PROVE  /\ Keeps(rows, Staged(m, rows).rows)
         /\ SelectedSoFar(m, StagedAfter(m, rows), Len(Kept(m)))
<1> DEFINE n == Len(Kept(m))
<1>1. /\ n \in Nat
      /\ \A k \in 1..n : Kept(m)[k] \in UdDocs /\ Doc[Kept(m)[k]].lc = VerifiedFamily(m)
  BY KeptIs DEF UdDocs, OfKind, NamesFamily
<1>2. PICK after :
        /\ after = StagedAfter(m, rows)
        /\ after[0] = NothingStaged(m, rows)
        /\ \A k \in 1..n : after[k] = StageNext(after[k - 1], m, Kept(m)[k])
        /\ \A k \in 0..n : after[k] \in Stages(m, rows)
        /\ Staged(m, rows) = after[n]
  BY StagedSteps
<1> HIDE DEF n
<1> DEFINE T == {k \in 0..n : /\ InBalance(after[k].rows) /\ Keeps(rows, after[k].rows)
                              /\ SelectedSoFar(m, after, k)}
<1>3. 0 \in T
  <2>1. after[0].rows = rows
    BY <1>2 DEF NothingStaged
  <2>2. \A j \in 1..0 : FALSE
    OBVIOUS
  <2>3. 0 \in 0..n
    BY <1>1
  <2>4. Keeps(rows, rows)
    BY DEF Keeps
  <2>5. SelectedSoFar(m, after, 0)
    BY <2>2 DEF SelectedSoFar
  <2> QED
    BY <2>1, <2>3, <2>4, <2>5
<1>4. ASSUME NEW k \in 1..n, k - 1 \in T PROVE k \in T
  <2> DEFINE s == after[k - 1]
             t == after[k]
             d == Kept(m)[k]
  <2>1. InBalance(s.rows) /\ Keeps(rows, s.rows) /\ SelectedSoFar(m, after, k - 1)
    BY <1>4
  <2>2. k - 1 \in 0..n /\ k \in 0..n /\ k \in Nat
    BY <1>1
  <2>3. s \in Stages(m, rows) /\ t = StageNext(s, m, d)
    BY <1>2, <2>2
  <2>4. d \in UdDocs /\ Doc[d].lc = VerifiedFamily(m)
    BY <1>1
  <2> HIDE DEF s, t, d
  <2>5. (~t.blocked => ~s.blocked) /\ InBalance(t.rows)
    BY <2>1, <2>3, <2>4, StageNextBalances
  <2>6. /\ ~t.blocked => /\ UnderUd(t.rows, d) = AllocationOf(s, m, d).rows
                         /\ UnderUd(t.rows, d) # {}
        /\ Keeps(s.rows, t.rows)
    BY <2>1, <2>3, <2>4, StageNextSelects
  <2>7. Keeps(rows, t.rows)
    BY <2>1, <2>6, KeepsOn
  <2>8. ASSUME ~t.blocked, NEW j \in 1..k
        PROVE  /\ UnderUd(t.rows, Kept(m)[j]) = AllocationOf(after[j - 1], m, Kept(m)[j]).rows
               /\ UnderUd(t.rows, Kept(m)[j]) # {}
    <3>1. CASE j = k
      BY <2>6, <2>8, <3>1 DEF d, s
    <3>2. CASE j # k
      <4>1. j \in 1..(k - 1) /\ j \in 1..n
        BY <1>1, <2>2, <3>2
      <4>2. /\ UnderUd(s.rows, Kept(m)[j]) = AllocationOf(after[j - 1], m, Kept(m)[j]).rows
            /\ UnderUd(s.rows, Kept(m)[j]) # {}
        BY <2>1, <2>5, <2>8, <4>1 DEF SelectedSoFar, s
      <4>3. Kept(m)[j] \in UdDocs
        BY <1>1, <4>1
      <4> QED
        BY <2>6, <4>2, <4>3 DEF Keeps
    <3> QED
      BY <3>1, <3>2
  <2>9. SelectedSoFar(m, after, k)
    BY <2>8 DEF SelectedSoFar, t
  <2> QED
    BY <2>2, <2>5, <2>7, <2>9 DEF t
<1> HIDE DEF T
<1>5. 0..n \subseteq T
  BY <1>1, <1>3, <1>4, UpTo
<1>6. n \in T
  BY <1>1, <1>5
<1> QED
  BY <1>2, <1>6 DEF T, n

\* The selections of a mail are what is under the numbers of its documents.
Selected(m, selections, rows) ==
  \A d \in ToSet(Kept(m)) : UnderUd(rows, d) # {} /\ selections[d] = UnderUd(rows, d)

\* Once a mail is staged its selections are the rows under its documents.
LEMMA SelectionsStay ==
  ASSUME NumbersTell, AmountsTell,
         NEW m \in Mails, NEW rows \in Seq(Rows), Len(rows) <= MaxRows, Tidy(rows),
         NamesFamily(m), InBalance(rows), ~Staged(m, rows).blocked
  PROVE  Selected(m, Selections(m, rows), Staged(m, rows).rows)
<1> DEFINE n == Len(Kept(m))
           after == StagedAfter(m, rows)
           at == [d \in ToSet(Kept(m)) |-> CHOOSE k \in DOMAIN Kept(m) : Kept(m)[k] = d]
<1>1. SelectedSoFar(m, after, n) /\ Staged(m, rows) = after[n]
  BY StagedSelects DEF Staged
<1>2. \A d \in ToSet(Kept(m)) : at[d] \in DOMAIN Kept(m) /\ Kept(m)[at[d]] = d
  BY DEF ToSet
<1>3. DOMAIN Kept(m) = 1..n
  BY KeptIs
<1>4. \A d \in ToSet(Kept(m)) :
        Selections(m, rows)[d] = AllocationOf(after[at[d] - 1], m, Kept(m)[at[d]]).rows
  BY DEF Selections, AllocationOf
<1> HIDE DEF at, after, n
<1>5. ASSUME NEW d \in ToSet(Kept(m))
      PROVE  UnderUd(after[n].rows, d) # {} /\ Selections(m, rows)[d] = UnderUd(after[n].rows, d)
  <2>1. at[d] \in 1..n /\ Kept(m)[at[d]] = d
    BY <1>2, <1>3
  <2> DEFINE j == at[d]
  <2>2. /\ UnderUd(after[n].rows, Kept(m)[j]) = AllocationOf(after[j - 1], m, Kept(m)[j]).rows
        /\ UnderUd(after[n].rows, Kept(m)[j]) # {}
    BY <1>1, <2>1 DEF SelectedSoFar
  <2> QED
    BY <1>4, <2>1, <2>2
<1> QED
  BY <1>1, <1>5 DEF Selected

\* So do the writes for a mail of ud_ip_exp.
LEMMA StagingKeepsRows ==
  ASSUME NumbersTell, AmountsTell,
         NEW m \in Mails, NEW rows \in Seq(Rows), Len(rows) <= MaxRows, Tidy(rows),
         NamesFamily(m), InBalance(rows), Mail[m].workflow = "ud_ip_exp"
  PROVE  Keeps(rows, Applied(rows, Staging(m, rows).ops))
<1> DEFINE After(staging) == Applied(rows, staging.ops)
<1>1. Keeps(rows, After(Blocked))
  <2>1. After(Blocked) = rows
    BY NothingApplied DEF Blocked
  <2> QED
    BY <2>1 DEF Keeps
<1>2. Keeps(rows, After(UdStaging(m, rows)))
  <2> DEFINE s == Staged(m, rows)
             ops == IF s.blocked THEN {} ELSE s.ops
  <2>1. UdStaging(m, rows).ops = ops
    BY DEF UdStaging, StagingOf
  <2>2. s \in Stages(m, rows) /\ Keeps(rows, s.rows)
    BY StagedIs, StagedSelects
  <2> HIDE DEF s
  <2>3. s.rows = Applied(rows, s.ops)
    BY <2>2 DEF Stages
  <2>4. CASE s.blocked
    <3>1. Applied(rows, ops) = rows
      BY <2>4, NothingApplied
    <3> QED
      BY <2>1, <3>1 DEF Keeps
  <2>5. CASE ~s.blocked
    BY <2>1, <2>2, <2>3, <2>5
  <2> QED
    BY <2>4, <2>5
<1>3. ASSUME IpExpRulesPass(m) PROVE Keeps(rows, After(IpExpStaging(m, rows)))
  <2> DEFINE lc == VerifiedFamily(m)
             family == FamilyRows(rows, lc)
             shared == CoverNumbers(m)
             one == CHOOSE d \in DocsOf(m) : TRUE
             date == Doc[one].date
             free == family # {} /\ \A i \in family : TargetsFree(rows[i])
             w == AssignsTo(m, family, shared, date)
             ops == IF free THEN w ELSE {}
             new == Applied(rows, ops)
  <2>1. IpExpStaging(m, rows).ops = ops
    BY DEF IpExpStaging, AssignsTo, CoverNumbers
  <2>2. \A op \in ops : op.row \in family /\ free
    BY AssignsToApart
  <2>3. ops \in SUBSET Ops /\ Assigns(rows, ops) /\ RowsApart(ops)
    <3>1. AssignsFor(m, rows, IpExpStaging(m, rows))
      BY <1>3, IpExpStagingIs
    <3>2. RowsApart(w)
      BY AssignsToApart
    <3> HIDE DEF w
    <3>3. RowsApart(ops)
      BY <3>2 DEF RowsApart
    <3> QED
      BY <2>1, <3>1, <3>3 DEF AssignsFor
  <2> HIDE DEF ops
  <2>4. /\ DOMAIN new = DOMAIN rows
        /\ \A i \in DOMAIN rows : new[i].file = rows[i].file
        /\ \A i \in DOMAIN rows : OpsAt(ops, i) = {} => new[i] = rows[i]
    BY <2>3, AssignedShow
  <2> HIDE DEF new
  <2>5. ASSUME NEW c \in UdDocs, UnderUd(rows, c) # {} PROVE UnderUd(new, c) = UnderUd(rows, c)
    <3> DEFINE other == Doc[c].lc
               number == Doc[c].number
    <3>1. FamilyRows(new, other) = FamilyRows(rows, other) /\ FamilyRows(rows, other) \in SUBSET DOMAIN rows
      BY <2>4, SameFamilyRows DEF FamilyRows
    <3>2. PICK i \in FamilyRows(rows, other) : rows[i].shared = {number}
      BY <2>5 DEF UnderUd, RowsUnder
    <3>3. \A op \in ops : op.row \notin FamilyRows(rows, other)
      <4>1. ASSUME NEW op \in ops, op.row \in FamilyRows(rows, other) PROVE FALSE
        <5>1. other = lc
          BY <2>2, <4>1 DEF FamilyRows
        <5>2. TargetsFree(rows[i])
          BY <2>2, <3>2, <4>1, <5>1
        <5> QED
          BY <3>2, <5>2 DEF TargetsFree
      <4> QED
        BY <4>1
    <3>4. \A j \in FamilyRows(rows, other) : new[j] = rows[j]
      BY <2>4, <3>1, <3>3 DEF OpsAt
    <3> HIDE DEF other, number
    <3>5. RowsUnder(new, other, number) = RowsUnder(rows, other, number)
      BY <3>1, <3>4 DEF RowsUnder
    <3> QED
      BY <3>5 DEF UnderUd, other, number
  <2> QED
    BY <2>1, <2>5 DEF Keeps, new
<1> HIDE DEF After
<1>4. Keeps(rows, After(UdIpExpStaging(m, rows)))
  BY <1>1, <1>2, <1>3 DEF UdIpExpStaging, SharedStaging
<1>5. Keeps(rows, After(Staging(m, rows)))
  BY <1>1, <1>4 DEF Staging
<1> QED
  BY <1>5 DEF After

\* The selections of a mail of UD documents stand in the snapshot with its writes.
LEMMA UdStagingSelects ==
  ASSUME NumbersTell, AmountsTell,
         NEW m \in Mails, NEW rows \in Seq(Rows), Len(rows) <= MaxRows, Tidy(rows),
         NamesFamily(m), InBalance(rows), ~UdStaging(m, rows).blocked
  PROVE  Selected(m, Selections(m, rows), Applied(rows, UdStaging(m, rows).ops))
<1> DEFINE s == Staged(m, rows)
<1>1. ~s.blocked /\ UdStaging(m, rows).ops = s.ops
  BY DEF UdStaging, StagingOf
<1>2. s \in Stages(m, rows)
  BY StagedIs
<1>3. s.rows = Applied(rows, s.ops)
  BY <1>2 DEF Stages
<1>4. Selected(m, Selections(m, rows), s.rows)
  BY <1>1, SelectionsStay
<1> QED
  BY <1>1, <1>3, <1>4

\* The selections of a mail that is not blocked stand in the snapshot with its
\* writes; one of IP and EXP documents has none.
LEMMA StagingSelects ==
  ASSUME NumbersTell, AmountsTell,
         NEW m \in Mails, NEW rows \in Seq(Rows), Len(rows) <= MaxRows, Tidy(rows),
         NamesFamily(m), InBalance(rows), Mail[m].workflow = "ud_ip_exp",
         ~Staging(m, rows).blocked
  PROVE  Selected(m, Selections(m, rows), Applied(rows, Staging(m, rows).ops))
<1>1. Blocked.blocked
  BY DEF Blocked
<1>2. /\ Staging(m, rows) = UdIpExpStaging(m, rows)
      /\ DocsOf(m) # {} /\ ~Conflicting(m)
  BY <1>1 DEF Staging, UdIpExpStaging
<1>3. CASE OfKind(DocsOf(m), {"UD"}) = DocsOf(m)
  <2>1. Staging(m, rows) = UdStaging(m, rows)
    BY <1>2, <1>3 DEF UdIpExpStaging
  <2>2. Selected(m, Selections(m, rows), Applied(rows, UdStaging(m, rows).ops))
    BY <2>1, UdStagingSelects
  <2> QED
    BY <2>1, <2>2
<1>4. CASE OfKind(DocsOf(m), {"UD"}) # DocsOf(m)
  <2>1. IpExpRulesPass(m)
    BY <1>1, <1>2, <1>4 DEF UdIpExpStaging, SharedStaging
  <2>2. OfKind(DocsOf(m), {"UD"}) = {}
    BY <2>1 DEF IpExpRulesPass
  <2>3. ToSet(Kept(m)) = {}
    BY <2>2, KeptIs DEF ToSet
  <2> QED
    BY <2>3 DEF Selected
<1> QED
  BY <1>3, <1>4

\* Selections stand as long as the rows under their numbers do.
LEMMA SelectedKeeps ==
  ASSUME NEW m \in Mails, NEW selections, NEW a, NEW b, Selected(m, selections, a), Keeps(a, b)
  PROVE  Selected(m, selections, b)
<1>1. \A d \in ToSet(Kept(m)) : d \in UdDocs
  <2>1. \A k \in DOMAIN Kept(m) : Kept(m)[k] \in UdDocs
    BY KeptIs DEF UdDocs, OfKind
  <2> QED
    BY <2>1 DEF ToSet
<1> QED
  BY <1>1 DEF Selected, Keeps

-----------------------------------------------------------------------------
(* What a run notes of a mail, as long as others are validated.            *)

\* The mails are validated in order, and writes are those of mails that pass.
InTurn ==
  /\ \A i, j \in DOMAIN queue : i < j => queue[i] < queue[j]
  /\ \A m \in Mails : ~outcome[m].blocked => \A i \in DOMAIN queue : m < queue[i]
  /\ \A op \in plan : ~outcome[op.mail].blocked

\* The writes of a mail, and those of the mails before it.
OwnOps(ops, m) == {op \in ops : op.mail = m}
OpsBefore(ops, m) == {op \in ops : op.mail < m}

\* The writes of a mail are what its validation on a snapshot stages.
StagedOn(m, rows, ops) ==
  /\ rows \in Seq(Rows) /\ Len(rows) <= MaxRows /\ Tidy(rows)
  /\ ~Staging(m, rows).blocked /\ ops = Staging(m, rows).ops

\* What its validation on a snapshot leaves of a mail in the rows after others'.
NotedOn(w, m, snapshot, own, rows) ==
  /\ StagedOn(m, snapshot, own)
  /\ w = "ud_ip_exp" => Selected(m, Selections(m, snapshot), rows)

\* The writes of a mail and its selections can be told from the plan.
Noted(m) ==
  NotedOn(workflow, m, Applied(sheet, OpsBefore(plan, m)), OwnOps(plan, m), working)

NotesInv ==
  pc = "validating" => InTurn /\ \A m \in Mails : ~outcome[m].blocked => Noted(m)

\* The validation of a mail.
LEMMA ValidatingNotes ==
  ASSUME NumbersTell, AmountsTell, IInv, LedgerInv, BooksInv, NotesInv,
         ValidateExportMail \/ ValidateUdMail \/ SavingFails \/ StagingFails
  PROVE  NotesInv'
<1> DEFINE m == Head(queue)
           staging == Staging(m, working)
<1>1. /\ pc = "validating" /\ queue # <<>> /\ UNCHANGED <<sheet, pc, workflow>>
      /\ m \in Mails /\ Mail[m].workflow = workflow
  BY ValidationOfMail
<1>2. PICK k, saveFailed :
        /\ saveFailed \in BOOLEAN /\ Validate(m, k, saveFailed)
        /\ workflow = "ud_ip_exp" /\ ~saveFailed /\ ~staging.blocked => Storable(m)
  BY ValidationOfMail
<1> DEFINE ops == IF saveFailed \/ staging.blocked THEN {} ELSE staging.ops
           o == Outcome(m, staging, k, saveFailed)
           new == Applied(working, ops)
           all == plan \cup ops
<1>3. /\ outcome' = [outcome EXCEPT ![m] = o] /\ working' = new /\ plan' = all
      /\ queue' = Tail(queue)
  BY <1>2 DEF Validate, Conclude
<1>4. o.blocked = (staging.blocked \/ saveFailed)
  BY DEF Outcome
<1>5. working \in Seq(Rows) /\ Len(working) <= MaxRows /\ Tidy(working) /\ working = Applied(sheet, plan)
  BY <1>1, WrittenSheet
<1>6. /\ outcome \in [Mails -> Outcomes] /\ workflow \in Workflows
      /\ queue \in Seq(Nat) /\ \A op \in plan : op.mail \in Mails
  <2>1. plan \in SUBSET Ops /\ queue \in Seq(MailsOf(workflow)) /\ MailsOf(workflow) \in SUBSET Nat
    BY MailAssumption DEF IInv, RunInv, MailsOf
  <2>2. \A op \in Ops : op.mail \in Mails
    BY DEF Ops, OpsUpTo
  <2> QED
    BY <2>1, <2>2 DEF IInv, RunInv
<1>7. \A op \in staging.ops : op.mail = m
  BY <1>1, <1>5, StagingType
<1>8. InTurn /\ \A n \in Mails : ~outcome[n].blocked => Noted(n)
  BY <1>1 DEF NotesInv
<1>9. Mails \in SUBSET Nat
  BY MailAssumption
<1>10. /\ queue[1] = m /\ 1 \in DOMAIN queue
       /\ \A i \in DOMAIN queue' : i + 1 \in DOMAIN queue /\ queue'[i] = queue[i + 1]
       /\ DOMAIN queue \in SUBSET Nat /\ DOMAIN queue' \in SUBSET (Nat \ {0})
       /\ \A i \in DOMAIN queue : queue[i] \in Nat
  BY <1>1, <1>3, <1>6
<1> HIDE DEF m
<1>11. \A n \in Mails : ~outcome[n].blocked => n < m
  BY <1>8, <1>10 DEF InTurn
<1>12. /\ OpsBefore(plan, m) = plan /\ OwnOps(plan, m) = {}
       /\ \A op \in plan : op.mail < m
  <2>1. \A op \in plan : op.mail < m
    BY <1>6, <1>8, <1>11 DEF InTurn
  <2>2. \A op \in plan : op.mail \in Nat /\ m \in Nat
    BY <1>1, <1>6, <1>9
  <2> QED
    BY <2>1, <2>2 DEF OpsBefore, OwnOps
<1>13. ASSUME workflow = "ud_ip_exp" PROVE Keeps(working, new)
  <2>1. CASE saveFailed \/ staging.blocked
    <3>1. new = working
      BY <1>5, <2>1, NothingApplied
    <3> QED
      BY <3>1 DEF Keeps
  <2>2. CASE ~(saveFailed \/ staging.blocked)
    <3>1. NamesFamily(m) /\ InBalance(working)
      BY <1>1, <1>2, <1>13, <2>2 DEF Storable, NamesFamily, BooksInv
    <3> QED
      BY <1>1, <1>5, <1>13, <2>2, <3>1, StagingKeepsRows
  <2> QED
    BY <2>1, <2>2
<1>14. ASSUME workflow = "ud_ip_exp", ~o.blocked
       PROVE  Selected(m, Selections(m, working), new)
  <2>1. ~saveFailed /\ ~staging.blocked
    BY <1>4, <1>14
  <2>2. NamesFamily(m) /\ InBalance(working)
    BY <1>1, <1>2, <1>14, <2>1 DEF Storable, NamesFamily, BooksInv
  <2>3. Selected(m, Selections(m, working), Applied(working, staging.ops))
    BY <1>1, <1>5, <1>14, <2>1, <2>2, StagingSelects
  <2> QED
    BY <2>1, <2>3
<1>15. \A op \in ops : op.mail = m /\ ~o.blocked
  BY <1>4, <1>7
<1>16. ~o.blocked => ops = staging.ops
  BY <1>4
<1> HIDE DEF ops, new, o
<1>17. OwnOps(all, m) = ops /\ OpsBefore(all, m) = plan
  BY <1>1, <1>9, <1>12, <1>15 DEF OwnOps, OpsBefore
<1>18. \A n \in Mails : n < m => OwnOps(all, n) = OwnOps(plan, n) /\ OpsBefore(all, n) = OpsBefore(plan, n)
  <2>1. ASSUME NEW n \in Mails, n < m PROVE \A op \in ops : op.mail # n /\ ~(op.mail < n)
    BY <1>1, <1>9, <1>15, <2>1
  <2> QED
    BY <2>1 DEF OwnOps, OpsBefore
<1> HIDE DEF all, staging
<1>19. ASSUME NEW n \in Mails, ~outcome[n].blocked PROVE Noted(n)'
  <2> DEFINE snapshot == Applied(sheet, OpsBefore(plan, n))
             own == OwnOps(plan, n)
  <2>1. NotedOn(workflow, n, snapshot, own, working)
    BY <1>8, <1>19 DEF Noted
  <2>2. OwnOps(all, n) = own /\ OpsBefore(all, n) = OpsBefore(plan, n)
    BY <1>11, <1>18, <1>19
  <2>3. NotedOn(workflow, n, snapshot, own, new)
    <3> HIDE DEF snapshot, own
    <3> QED
      BY <1>13, <2>1, SelectedKeeps DEF NotedOn
  <2> QED
    BY <1>1, <1>3, <2>2, <2>3 DEF Noted
<1>20. ASSUME ~o.blocked, NEW n, n = m PROVE Noted(n)'
  <2>1. StagedOn(m, working, ops)
    BY <1>4, <1>5, <1>16, <1>20 DEF StagedOn, staging
  <2>2. NotedOn(workflow, m, working, ops, new)
    BY <1>14, <1>20, <2>1 DEF NotedOn
  <2>3. Applied(sheet, OpsBefore(all, m)) = working /\ OwnOps(all, m) = ops
    BY <1>5, <1>17
  <2>4. NotedOn(workflow, n, Applied(sheet, OpsBefore(all, n)), OwnOps(all, n), new)
    BY <1>20, <2>2, <2>3
  <2> QED
    BY <1>1, <1>3, <2>4 DEF Noted
<1>21. /\ outcome'[m] = o /\ \A n \in Mails : n # m => outcome'[n] = outcome[n]
  BY <1>1, <1>3, <1>6
<1>22. \A n \in Mails : ~outcome'[n].blocked => Noted(n)'
  BY <1>19, <1>20, <1>21
<1>23. InTurn'
  <2>1. ASSUME NEW i \in DOMAIN queue', NEW j \in DOMAIN queue', i < j PROVE queue'[i] < queue'[j]
    <3>1. i + 1 \in DOMAIN queue /\ j + 1 \in DOMAIN queue /\ i + 1 < j + 1
      BY <1>10, <2>1
    <3> QED
      BY <1>8, <1>10, <3>1 DEF InTurn
  <2>2. \A i \in DOMAIN queue' : m < queue'[i]
    <3>1. ASSUME NEW i \in DOMAIN queue' PROVE m < queue'[i]
      <4>1. i + 1 \in DOMAIN queue /\ 1 < i + 1
        BY <1>10
      <4> QED
        BY <1>8, <1>10, <4>1 DEF InTurn
    <3> QED
      BY <3>1
  <2>3. ASSUME NEW n \in Mails, ~outcome'[n].blocked, NEW i \in DOMAIN queue' PROVE n < queue'[i]
    <3>1. CASE n = m
      BY <2>2, <3>1
    <3>2. CASE n # m
      <4>1. ~outcome[n].blocked
        BY <1>21, <2>3, <3>2
      <4> QED
        BY <1>8, <1>10, <4>1 DEF InTurn
    <3> QED
      BY <3>1, <3>2
  <2>4. ASSUME NEW op \in plan' PROVE ~outcome'[op.mail].blocked
    <3>1. CASE op \in ops
      BY <1>15, <1>21, <3>1
    <3>2. CASE op \in plan
      <4>1. op.mail \in Mails /\ ~outcome[op.mail].blocked /\ op.mail < m /\ m \in Nat
        BY <1>1, <1>6, <1>8, <1>9, <1>12, <3>2 DEF InTurn
      <4>2. op.mail # m
        BY <4>1
      <4> QED
        BY <1>21, <4>1, <4>2
    <3> QED
      BY <1>3, <3>1, <3>2 DEF all
  <2> QED
    BY <2>1, <2>3, <2>4 DEF InTurn
<1> QED
  BY <1>22, <1>23 DEF NotesInv

\* A run that begins takes its mails in order and has noted nothing.
LEMMA StartNotes ==
  ASSUME IInv, LedgerInv, NEW w \in Workflows, StartRun(w)
  PROVE  NotesInv'
<1> DEFINE folder == {m \in Mails \ moved : Mail[m].workflow = w}
           R == {p \in Mails \X Mails : p[1] < p[2]}
           n == Cardinality(folder)
<1>1. /\ pc = "idle" /\ queue' = Listed(folder, R) /\ UNCHANGED <<outcome, plan>>
  BY DEF StartRun
<1>2. plan = {} /\ \A m \in Mails : outcome[m].blocked
  BY <1>1 DEF IInv, RunInv, LedgerInv
<1>3. IsFiniteSet(folder) /\ folder \in SUBSET Mails /\ Mails \in SUBSET Nat
  BY MailAssumption, FS_Subset
<1>4. \A x, y : <<x, y>> \in R <=> x \in Mails /\ y \in Mails /\ x < y
  OBVIOUS
<1> HIDE DEF folder, R
<1>5. StrictlyOrders(R, folder)
  <2>1. ASSUME NEW x \in folder, NEW y \in folder PROVE x \in Nat /\ y \in Nat /\ (<<x, y>> \in R <=> x < y)
    BY <1>3, <1>4
  <2>2. ASSUME NEW x \in folder, NEW y \in folder, x # y PROVE <<x, y>> \in R \/ <<y, x>> \in R
    BY <2>1, <2>2
  <2>3. ASSUME NEW x \in folder, NEW y \in folder, <<x, y>> \in R, <<y, x>> \in R PROVE FALSE
    BY <2>1, <2>3
  <2>4. ASSUME NEW x \in folder, NEW y \in folder, NEW z \in folder, <<x, y>> \in R, <<y, z>> \in R
        PROVE  <<x, z>> \in R
    BY <2>1, <2>4
  <2> QED
    BY <2>2, <2>3, <2>4 DEF StrictlyOrders
<1>6. DOMAIN queue' = 1..n
  BY <1>1, <1>3, <1>5, ListedIs
<1>7. ASSUME NEW i \in DOMAIN queue', NEW j \in DOMAIN queue', i < j PROVE queue'[i] < queue'[j]
  <2>1. i \in 1..n /\ j \in 1..n
    BY <1>6
  <2>2. <<Listed(folder, R)[i], Listed(folder, R)[j]>> \in R
    BY <1>3, <1>5, <1>7, <2>1, ListedInOrder
  <2> QED
    BY <1>1, <1>4, <2>2
<1>8. InTurn'
  BY <1>1, <1>2, <1>7 DEF InTurn
<1> QED
  BY <1>1, <1>2, <1>8 DEF NotesInv

\* Every step leaves the mails noted.
LEMMA NextNotes ==
  ASSUME NumbersTell, AmountsTell, IInv, LedgerInv, BooksInv, NotesInv, [Next]_vars
  PROVE  NotesInv'
<1>1. CASE \E w \in Workflows : StartRun(w)
  BY <1>1, StartNotes
<1>2. CASE ValidateExportMail \/ ValidateUdMail \/ SavingFails \/ StagingFails
  BY <1>2, ValidatingNotes
<1>3. CASE \/ CommitWrites \/ NothingToWrite \/ PrevalidationFails \/ PrintGroup \/ PrintCompletes
           \/ MoveMail \/ EndRun \/ CrashWhileSaving \/ WritesEndUncertain \/ Crash \/ Others
  <2>1. pc' # "validating"
    BY <1>3 DEF CommitWrites, NothingToWrite, PrevalidationFails, PrintGroup, PrintCompletes,
                MoveMail, EndRun, CrashWhileSaving, WritesEndUncertain, Crash, Others,
                SwapRows, ClearRow, FillRow, Edit, Idle, run
  <2> QED
    BY <2>1 DEF NotesInv
<1>4. CASE UNCHANGED vars
  <2>1. UNCHANGED <<sheet, pc, workflow, queue, working, outcome, plan>>
    BY <1>4 DEF vars, run
  <2> QED
    BY <2>1 DEF NotesInv, InTurn, Noted
<1> QED
  BY <1>1, <1>2, <1>3, <1>4 DEF Next, RunStep, Faulty
-----------------------------------------------------------------------------
(* Numbers on the rows of their family.                                    *)

\* A row shows a document only if it is on its family.
Tells(row, d) ==
  Doc[d].number \in row.shared =>
    /\ row.file # NoFile /\ Erp[row.file].lc = Doc[d].lc
    /\ d \in UdDocs => row.shared = {Doc[d].number}

\* The numbers tell on a sheet when each of its rows tells of each document.
LEMMA CellsAre == ASSUME NEW rows PROVE CellsTell(rows) <=> \A i \in DOMAIN rows, d \in Docs : Tells(rows[i], d)
BY DEF CellsTell, Tells, FamilyRows

\* A sheet all whose rows with numbers are those of another.
LEMMA CellsCarry ==
  ASSUME NEW a, NEW b, CellsTell(a),
         \A i \in DOMAIN b : b[i].shared = {} \/ \E j \in DOMAIN a : b[i] = a[j]
  PROVE  CellsTell(b)
<1>1. ASSUME NEW i \in DOMAIN b, NEW d \in Docs PROVE Tells(b[i], d)
  <2>1. CASE b[i].shared = {}
    BY <2>1 DEF Tells
  <2>2. CASE \E j \in DOMAIN a : b[i] = a[j]
    BY <2>2, CellsAre
  <2> QED
    BY <2>1, <2>2
<1> QED
  BY <1>1, CellsAre

\* The writes of documents put their numbers on rows of their family.
LEMMA ClaimsTell ==
  ASSUME NumbersTell, PapersTell, NEW rows, NEW ops, NEW op \in ops, ClaimsRow(rows, ops, op),
         op.mail \in Mails, Storable(op.mail), NEW row, row.shared = op.shared,
         row.file = rows[op.row].file, NEW e \in Docs
  PROVE  Tells(row, e)
<1> DEFINE m == op.mail
<1>1. op.row \in FamilyRows(rows, VerifiedFamily(m)) /\ \A d \in DocsOf(m) : Doc[d].lc = VerifiedFamily(m)
  BY DEF ClaimsRow, Storable
<1> SUFFICES ASSUME Doc[e].number \in row.shared
             PROVE  /\ row.file # NoFile /\ Erp[row.file].lc = Doc[e].lc
                    /\ e \in UdDocs => row.shared = {Doc[e].number}
  BY DEF Tells
<1>2. ASSUME NEW d \in DocsOf(m), Doc[d].number = Doc[e].number
      PROVE  row.file # NoFile /\ Erp[row.file].lc = Doc[e].lc /\ Doc[e].lc = Doc[d].lc
  BY <1>1, <1>2 DEF DocsOf, PapersTell, FamilyRows
<1>3. CASE UdWrite(m, op)
  <2>1. PICK d \in OfKind(DocsOf(m), {"UD"}) : op.shared = {Doc[d].number}
    BY <1>3 DEF UdWrite
  <2>2. d \in DocsOf(m) /\ Doc[d].number = Doc[e].number
    BY <2>1 DEF OfKind
  <2> QED
    BY <1>2, <2>1, <2>2
<1>4. CASE CoverWrite(m, rows, ops, op)
  <2>1. OfKind(DocsOf(m), {"UD"}) = {} /\ op.shared = CoverNumbers(m)
    BY <1>4 DEF CoverWrite, IpExpRulesPass
  <2>2. PICK d \in DocsOf(m) : Doc[d].number = Doc[e].number
    BY <2>1 DEF CoverNumbers
  <2>3. e \notin UdDocs
    <3>1. ASSUME e \in UdDocs PROVE d \in UdDocs
      BY <1>2, <2>2, <3>1 DEF NumbersTell, DocsOf
    <3>2. d \notin UdDocs
      BY <2>1 DEF OfKind, UdDocs
    <3> QED
      BY <3>1, <3>2
  <2> QED
    BY <1>2, <2>2, <2>3
<1> QED
  BY <1>3, <1>4 DEF ClaimsRow

\* So the plan of a run for documents leaves every number on its family.
LEMMA AssignsTell ==
  ASSUME NumbersTell, PapersTell, IInv, LedgerInv, pc = "validating", workflow = "ud_ip_exp",
         CellsTell(sheet)
  PROVE  CellsTell(working)
<1>1. /\ Applied(sheet, plan) = working /\ sheet \in Seq(Rows) /\ plan \in SUBSET Ops
      /\ Assigns(sheet, plan)
  BY WrittenSheet DEF IInv, StoreInv, RunInv, PlanInv, Fits
<1>2. RowsApart(plan) /\ LedgerPlan(sheet, plan) /\ \A op \in plan : Storable(op.mail)
  BY DEF LedgerInv, Entering
<1>3. /\ DOMAIN working = DOMAIN sheet
      /\ \A i \in DOMAIN sheet : working[i].file = sheet[i].file
      /\ \A i \in DOMAIN sheet : OpsAt(plan, i) = {} => working[i] = sheet[i]
      /\ \A op \in plan : working[op.row].shared = op.shared
  BY <1>1, <1>2, AssignedShow
<1>4. ASSUME NEW i \in DOMAIN working, NEW e \in Docs PROVE Tells(working[i], e)
  <2>1. CASE OpsAt(plan, i) = {}
    BY <1>3, <2>1, CellsAre
  <2>2. CASE OpsAt(plan, i) # {}
    <3>1. PICK op \in plan : op.row = i
      BY <2>2 DEF OpsAt
    <3>2. ClaimsRow(sheet, plan, op) /\ Storable(op.mail) /\ op.mail \in Mails
      BY <1>1, <1>2 DEF LedgerPlan, Ops, OpsUpTo
    <3>3. working[i].shared = op.shared /\ working[i].file = sheet[op.row].file
      BY <1>3, <3>1
    <3> QED
      BY <3>2, <3>3, ClaimsTell
  <2> QED
    BY <2>1, <2>2
<1> QED
  BY <1>4, CellsAre

\* And so does what any run writes.
LEMMA WritesTell ==
  ASSUME NumbersTell, PapersTell, IInv, LedgerInv, pc = "validating",
         \A op \in plan : TargetsBlank(sheet, op), CellsTell(sheet)
  PROVE  CellsTell(Applied(sheet, plan))
<1>1. Applied(sheet, plan) = working /\ sheet \in Seq(Rows) /\ plan \in SUBSET Ops /\ workflow \in Workflows
  BY WrittenSheet DEF IInv, StoreInv, RunInv
<1>2. CASE workflow = "ud_ip_exp"
  BY <1>1, <1>2, AssignsTell
<1>3. CASE workflow = "export_lc_sc"
  <2>1. \A op \in plan : IsAppend(op)
    BY <1>3 DEF IInv, PlanInv, Fits
  <2>2. NumbersOnFiles(sheet) /\ RowsApart(plan)
    BY DEF LedgerInv, Entering
  <2>3. /\ \A i \in DOMAIN sheet : sheet[i].file # NoFile => working[i] = sheet[i]
        /\ \A i \in DOMAIN working : (i \in DOMAIN sheet /\ sheet[i].file # NoFile) \/ working[i].shared = {}
    BY <1>1, <2>1, <2>2, AppendsShow
  <2>4. \A i \in DOMAIN working : working[i].shared = {} \/ \E j \in DOMAIN sheet : working[i] = sheet[j]
    BY <2>3
  <2> QED
    BY <1>1, <2>4, CellsCarry
<1> QED
  BY <1>1, <1>2, <1>3 DEF Workflows

\* The edits of others move rows, or add and take rows without numbers.
LEMMA EditsTell ==
  ASSUME IInv, Others, CellsTell(sheet)
  PROVE  CellsTell(sheet')
<1> DEFINE v == sheet'
<1>1. sheet \in Seq(Rows) /\ BlankRow.shared = {}
  BY DEF IInv, StoreInv, BlankRow
<1>2. \A i \in DOMAIN v : v[i].shared = {} \/ \E j \in DOMAIN sheet : v[i] = sheet[j]
  <2>1. CASE SwapRows
    <3>1. PICK i \in DOMAIN sheet, j \in DOMAIN sheet :
            sheet' = [sheet EXCEPT ![i] = sheet[j], ![j] = sheet[i]]
      BY <2>1 DEF SwapRows
    <3> QED
      BY <1>1, <3>1
  <2>2. CASE ClearRow
    <3>1. PICK i \in DOMAIN sheet : sheet' = [sheet EXCEPT ![i] = BlankRow]
      BY <2>2 DEF ClearRow
    <3> QED
      BY <1>1, <3>1
  <2>3. CASE FillRow
    <3>1. PICK f \in DOMAIN Erp : sheet' = Append(sheet, [BlankRow EXCEPT !.file = f, !.buyer = TRUE])
      BY <2>3 DEF FillRow
    <3> DEFINE row == [BlankRow EXCEPT !.file = f, !.buyer = TRUE]
    <3>2. row \in Rows /\ row.shared = {}
      BY <1>1, BlankRowType DEF Rows, BlankRow
    <3>3. sheet' = Append(sheet, row)
      BY <3>1
    <3> HIDE DEF row
    <3> QED
      BY <1>1, <3>2, <3>3
  <2> QED
    BY <2>1, <2>2, <2>3 DEF Others
<1> HIDE DEF v
<1>3. CellsTell(v)
  BY <1>2, CellsCarry
<1> QED
  BY <1>3 DEF v

\* Every step leaves every number on its family.
LEMMA NextCells ==
  ASSUME NumbersTell, PapersTell, IInv, LedgerInv, CellsTell(sheet), [Next]_vars
  PROVE  CellsTell(sheet')
<1>1. CASE CommitWrites \/ WritesEndUncertain
  <2>1. /\ pc = "validating" /\ \A op \in plan : TargetsBlank(sheet, op)
        /\ sheet' \in {sheet, Applied(sheet, plan)}
    BY <1>1 DEF CommitWrites, WritesEndUncertain
  <2>2. CellsTell(Applied(sheet, plan))
    BY <2>1, WritesTell
  <2> QED
    BY <2>1, <2>2
<1>2. CASE Others
  BY <1>2, EditsTell
<1>3. CASE ~(CommitWrites \/ WritesEndUncertain \/ Others)
  <2>1. sheet' = sheet
    BY <1>3 DEF Next, RunStep, Faulty, StartRun, ValidateExportMail, ValidateUdMail,
                SavingFails, StagingFails, NothingToWrite, PrevalidationFails,
                PrintGroup, PrintCompletes, MoveMail, EndRun, Crash, CrashWhileSaving, vars
  <2> QED
    BY <2>1
<1> QED
  BY <1>1, <1>2, <1>3
-----------------------------------------------------------------------------
(* The rows a mail has written, and those of its documents.                *)

\* The writes of a mail are on the sheet as the whole plan leaves it.
LEMMA OwnRows ==
  ASSUME IInv, LedgerInv, pc = "validating", NEW m \in Mails
  PROVE  /\ StagedRows(m) = {op.row : op \in OwnOps(plan, m)}
         /\ StagedRows(m) \in SUBSET Nat /\ IsFiniteSet(StagedRows(m))
         /\ \A op \in OwnOps(plan, m) :
              /\ op \in plan /\ op \in Ops /\ op.mail = m
              /\ op.row \in DOMAIN working /\ RowAt(sheet, op.row) \in Rows
              /\ working[op.row] = Written(RowAt(sheet, op.row), op)
<1>1. /\ sheet \in Seq(Rows) /\ plan \in SUBSET Ops /\ working = Applied(sheet, plan)
      /\ RowsApart(plan) /\ working \in Seq(Rows)
  BY WrittenSheet DEF IInv, StoreInv, RunInv, LedgerInv, Entering
<1>2. StagedRows(m) = {op.row : op \in OwnOps(plan, m)}
  BY DEF StagedRows, OwnOps
<1>3. \A op \in plan : /\ op.row \in DOMAIN working /\ RowAt(sheet, op.row) \in Rows
                       /\ working[op.row] = Written(RowAt(sheet, op.row), op)
  BY <1>1, AppliedApart, RowAtType
<1>4. DOMAIN working \in SUBSET Nat /\ IsFiniteSet(DOMAIN working)
  BY <1>1, ElementsIn
<1>5. StagedRows(m) \in SUBSET DOMAIN working
  BY <1>2, <1>3 DEF OwnOps
<1>6. StagedRows(m) \in SUBSET Nat /\ IsFiniteSet(StagedRows(m))
  BY <1>4, <1>5, FS_Subset
<1> QED
  BY <1>1, <1>2, <1>3, <1>6 DEF OwnOps

\* The rows of the files that a mail has added to the snapshot it was validated on.
RowsOfNew(m) == {i \in DOMAIN working : working[i].file \in ToSet(Body(m)) \ FilesIn(SnapshotOf(m))}

\* An export mail has written these.
LEMMA ExportRows ==
  ASSUME IInv, LedgerInv, NotesInv, pc = "validating", workflow = "export_lc_sc",
         NEW m \in Mails, ~outcome[m].blocked
  PROVE  StagedRows(m) = RowsOfNew(m)
<1> DEFINE rows == SnapshotOf(m)
           own == OwnOps(plan, m)
           new == {k \in DOMAIN Body(m) : Body(m)[k] \notin FilesIn(rows)}
<1>1. ~Staging(m, rows).blocked /\ own = Staging(m, rows).ops
  BY DEF NotesInv, Noted, NotedOn, StagedOn, SnapshotOf, OpsBefore
<1>2. Staging(m, rows) = ExportStaging(m, rows)
  <2>1. Mail[m].workflow = "export_lc_sc"
    BY DEF LedgerInv, HoldsMail
  <2> HIDE DEF rows
  <2> QED
    BY <1>1, <2>1 DEF Staging, Blocked
<1> HIDE DEF rows
<1> DEFINE staged == {k \in new : Erp[Body(m)[k]].complete}
           Target(k) == NextExportRow(rows) + Cardinality({j \in staged : j < k})
<1>3. own = {AppendOp(m, Target(k), Body(m)[k]) : k \in new}
  <2>1. /\ ExportStaging(m, rows).ops = {AppendOp(m, Target(k), Body(m)[k]) : k \in staged}
        /\ ExportStaging(m, rows).blocked = (new # staged)
    BY DEF ExportStaging
  <2> HIDE DEF staged, Target, new
  <2> QED
    BY <1>1, <1>2, <2>1
<1>4. \A k : AppendOp(m, Target(k), Body(m)[k]).file = Body(m)[k]
  BY DEF AppendOp
<1> HIDE DEF own, staged, Target
<1>5. /\ \A f \in ToSet(Body(m)) \ FilesIn(rows) : \E op \in own : op.file = f
      /\ \A op \in own : op.file \in ToSet(Body(m)) \ FilesIn(rows)
  BY <1>3, <1>4 DEF ToSet
<1>6. /\ StagedRows(m) = {op.row : op \in own}
      /\ \A op \in own : /\ op \in plan /\ op \in Ops /\ op.row \in DOMAIN working
                         /\ RowAt(sheet, op.row) \in Rows
                         /\ working[op.row] = Written(RowAt(sheet, op.row), op)
  BY OwnRows DEF own
<1>7. \A op \in own : working[op.row].file = op.file /\ op.file # NoFile
  <2>1. \A op \in plan : IsAppend(op)
    BY DEF IInv, PlanInv, Fits
  <2>2. MaxRows \in Nat
    BY BoundAssumption
  <2>3. ASSUME NEW op \in own PROVE Written(RowAt(sheet, op.row), op).file = op.file
    <3>1. op \in OpsUpTo(MaxRows) /\ IsAppend(op) /\ RowAt(sheet, op.row) \in Rows
      BY <1>6, <2>1 DEF Ops
    <3> QED
      BY <2>2, <3>1, WrittenType
  <2> QED
    BY <1>6, <2>1, <2>3 DEF IsAppend
<1>8. Tidy(working)
  BY WrittenSheet
<1>9. ASSUME NEW i \in RowsOfNew(m) PROVE i \in StagedRows(m)
  <2>1. i \in DOMAIN working /\ working[i].file \in ToSet(Body(m)) \ FilesIn(rows)
    BY DEF RowsOfNew, rows
  <2>2. PICK op \in own : op.file = working[i].file
    BY <1>5, <2>1
  <2>3. op.row = i
    BY <1>6, <1>7, <1>8, <2>1, <2>2 DEF Tidy
  <2> QED
    BY <1>6, <2>3
<1>10. ASSUME NEW i \in StagedRows(m) PROVE i \in RowsOfNew(m)
  <2>1. PICK op \in own : op.row = i
    BY <1>6
  <2> QED
    BY <1>5, <1>6, <1>7, <2>1 DEF RowsOfNew, rows
<1> QED
  BY <1>9, <1>10

\* What the validation of a mail of ud_ip_exp has found.
LEMMA PassedUdMail ==
  ASSUME IInv, LedgerInv, NotesInv, pc = "validating", workflow = "ud_ip_exp",
         NEW m \in Mails, ~outcome[m].blocked
  PROVE  /\ SnapshotOf(m) \in Seq(Rows) /\ Len(SnapshotOf(m)) <= MaxRows
         /\ Selected(m, Selections(m, SnapshotOf(m)), working)
         /\ DocsOf(m) # {} /\ \A d \in DocsOf(m) : Doc[d].lc = VerifiedFamily(m)
         /\ DocsOf(m) = OfKind(DocsOf(m), {"UD"}) =>
              /\ ~Staged(m, SnapshotOf(m)).blocked
              /\ OwnOps(plan, m) = Staged(m, SnapshotOf(m)).ops
         /\ DocsOf(m) # OfKind(DocsOf(m), {"UD"}) =>
              /\ IpExpRulesPass(m)
              /\ OwnOps(plan, m) = IpExpStaging(m, SnapshotOf(m)).ops
<1> DEFINE rows == SnapshotOf(m)
           own == OwnOps(plan, m)
<1>1. StagedOn(m, rows, own) /\ Selected(m, Selections(m, rows), working)
  BY DEF NotesInv, Noted, NotedOn, SnapshotOf, OpsBefore
<1>2. Mail[m].workflow = "ud_ip_exp" /\ Storable(m)
  BY DEF LedgerInv, HoldsMail
<1> HIDE DEF rows, own
<1>3. /\ rows \in Seq(Rows) /\ Len(rows) <= MaxRows
      /\ ~Staging(m, rows).blocked /\ own = Staging(m, rows).ops
  BY <1>1 DEF StagedOn
<1>4. Staging(m, rows) = UdIpExpStaging(m, rows) /\ DocsOf(m) # {} /\ ~Conflicting(m)
  BY <1>2, <1>3 DEF Staging, UdIpExpStaging, Blocked
<1>5. CASE DocsOf(m) = OfKind(DocsOf(m), {"UD"})
  <2>1. Staging(m, rows) = StagingOf(Staged(m, rows))
    BY <1>4, <1>5 DEF UdIpExpStaging, UdStaging
  <2>2. ~Staged(m, rows).blocked /\ own = Staged(m, rows).ops
    BY <1>3, <2>1 DEF StagingOf
  <2> QED
    BY <1>1, <1>2, <1>3, <1>4, <1>5, <2>2 DEF Storable, rows, own
<1>6. CASE DocsOf(m) # OfKind(DocsOf(m), {"UD"})
  <2>1. Staging(m, rows) = SharedStaging(m, rows)
    BY <1>4, <1>6 DEF UdIpExpStaging
  <2>2. IpExpRulesPass(m) /\ own = IpExpStaging(m, rows).ops
    BY <1>3, <2>1 DEF SharedStaging, Blocked
  <2> QED
    BY <1>1, <1>2, <1>3, <1>4, <1>6, <2>2 DEF Storable, rows, own
<1> QED
  BY <1>5, <1>6

\* In a run of ud_ip_exp the families stay on their rows.
LEMMA FamiliesStay ==
  ASSUME IInv, LedgerInv, pc = "validating", workflow = "ud_ip_exp", NEW m \in Mails, NEW lc
  PROVE  /\ FamilyRows(SnapshotOf(m), lc) = FamilyRows(working, lc)
         /\ \A op \in OwnOps(plan, m) : working[op.row].shared = op.shared
<1>1. /\ Applied(sheet, plan) = working /\ sheet \in Seq(Rows) /\ plan \in SUBSET Ops
      /\ Assigns(sheet, plan) /\ RowsApart(plan)
  BY WrittenSheet DEF IInv, StoreInv, RunInv, PlanInv, Fits, LedgerInv, Entering
<1>2. /\ DOMAIN working = DOMAIN sheet
      /\ \A i \in DOMAIN sheet : working[i].file = sheet[i].file
      /\ \A op \in plan : working[op.row].shared = op.shared
  BY <1>1, AssignedShow
<1> DEFINE before == OpsBefore(plan, m)
           rows == SnapshotOf(m)
<1>3. before \in SUBSET plan /\ rows = Applied(sheet, before)
  BY DEF OpsBefore, SnapshotOf
<1> HIDE DEF before, rows
<1>4. before \in SUBSET Ops /\ Assigns(sheet, before) /\ RowsApart(before)
  BY <1>1, <1>3 DEF Assigns, RowsApart
<1>5. DOMAIN rows = DOMAIN sheet /\ \A i \in DOMAIN sheet : rows[i].file = sheet[i].file
  BY <1>1, <1>3, <1>4, AssignedShow
<1>6. FamilyRows(rows, lc) = FamilyRows(working, lc)
  BY <1>2, <1>5, SameFamilyRows
<1> QED
  BY <1>2, <1>6 DEF rows, OwnOps

\* The writes for a document that is alone are on the rows selected for it.
LEMMA SingleSelection ==
  ASSUME NEW m \in Mails, NEW rows \in Seq(Rows), Len(rows) <= MaxRows, Len(Kept(m)) = 1,
         ~Staged(m, rows).blocked, NEW ops, ops = Staged(m, rows).ops, ops # {}
  PROVE  {op.row : op \in ops} = Selections(m, rows)[Kept(m)[1]]
<1> DEFINE d == Kept(m)[1]
           first == NothingStaged(m, rows)
           a == Allocation(first.rows, VerifiedFamily(m), Doc[d], first.excluded)
           last == Staged(m, rows)
<1>1. PICK after : /\ after = StagedAfter(m, rows) /\ after[0] = first
                   /\ \A k \in 1..1 : after[k] = StageNext(after[k - 1], m, Kept(m)[k])
                   /\ last = after[1]
  BY StagedSteps
<1>2. last = Stage(first, m, d, a)
  <2>1. after[1] = StageNext(after[1 - 1], m, Kept(m)[1]) /\ 1 - 1 = 0
    BY <1>1
  <2> QED
    BY <1>1, <2>1 DEF StageNext
<1>3. Selections(m, rows)[d] = a.rows
  <2>1. DOMAIN Kept(m) = {1} /\ d \in ToSet(Kept(m))
    BY KeptIs DEF ToSet
  <2>2. (CHOOSE k \in DOMAIN Kept(m) : Kept(m)[k] = d) = 1
    BY <2>1
  <2>3. Selections(m, rows)[d] =
          Allocation(StagedAfter(m, rows)[1 - 1].rows, VerifiedFamily(m), Doc[Kept(m)[1]],
                     StagedAfter(m, rows)[1 - 1].excluded).rows
    BY <2>1, <2>2 DEF Selections
  <2>4. StagedAfter(m, rows)[1 - 1] = first
    BY <1>1
  <2> HIDE DEF first
  <2> QED
    BY <2>3, <2>4
<1>4. first.ops = {} /\ DOMAIN first = {"rows", "excluded", "ops", "blocked", "duplicates"}
  BY DEF NothingStaged
<1> HIDE DEF first, a, d, last
<1>5. CASE a.decision = "already_recorded"
  <2>1. last.ops = first.ops
    BY <1>2, <1>4, <1>5 DEF Stage
  <2> QED
    BY <1>4, <2>1 DEF last
<1>6. CASE a.decision = "selected" /\ \A i \in a.rows : TargetsFree(first.rows[i])
  <2> DEFINE w == AssignsTo(m, a.rows, {Doc[d].number}, Doc[d].date)
  <2>1. last.ops = first.ops \cup w
    BY <1>2, <1>4, <1>6 DEF Stage, AssignsTo
  <2> HIDE DEF w
  <2>2. ops = w
    BY <1>4, <2>1 DEF last
  <2>3. {op.row : op \in w} = a.rows
    <3> DEFINE numbers == {Doc[d].number}
    <3> HIDE DEF numbers
    <3>1. /\ \A op \in AssignsTo(m, a.rows, numbers, Doc[d].date) : op.row \in a.rows
          /\ \A i \in a.rows : \E op \in AssignsTo(m, a.rows, numbers, Doc[d].date) : op.row = i
      BY AssignsToApart
    <3>2. (\A op \in w : op.row \in a.rows) /\ \A i \in a.rows : \E op \in w : op.row = i
      BY <3>1 DEF w, numbers
    <3> QED
      BY <3>2
  <2> QED
    BY <1>3, <2>2, <2>3 DEF d
<1>7. CASE ~(a.decision = "already_recorded")
           /\ ~(a.decision = "selected" /\ \A i \in a.rows : TargetsFree(first.rows[i]))
  <2>1. last = [first EXCEPT !.blocked = TRUE]
    BY <1>2, <1>7 DEF Stage
  <2>2. last.blocked
    BY <1>4, <2>1
  <2> QED
    BY <2>2 DEF last
<1> QED
  BY <1>5, <1>6, <1>7

\* Without twins every UD of a mail is staged.
LEMMA AllKept ==
  ASSUME NEW m \in Mails, ~BringsTwins(m)
  PROVE  ToSet(Kept(m)) = OfKind(DocsOf(m), {"UD"})
<1>1. ASSUME NEW d \in OfKind(DocsOf(m), {"UD"}) PROVE d \in ToSet(Kept(m))
  <2>1. Twins(m, d) = {d} /\ d \in Nat
    BY DocAssumption DEF BringsTwins, OfKind, DocsOf
  <2>2. Min({d}) = d
    <3>1. {d} \in SUBSET Nat /\ {d} # {}
      BY <2>1
    <3> QED
      BY <3>1, SmallestNumber
  <2> QED
    BY <2>1, <2>2, KeptIs DEF ToSet
<1>2. ASSUME NEW d \in ToSet(Kept(m)) PROVE d \in OfKind(DocsOf(m), {"UD"})
  BY KeptIs DEF ToSet
<1> QED
  BY <1>1, <1>2

\* One document at most is read from a PDF.
LEMMA ReadOne ==
  ASSUME PapersTell, NEW m, NEW d \in DocsOf(m)
  PROVE  ReadFrom(m, Doc[d].pdf) = {d}
BY DEF PapersTell, ReadFrom, DocsOf

\* The writes of a mail of UDs are for its documents.
LEMMA OwnUdWrites ==
  ASSUME IInv, LedgerInv, pc = "validating", workflow = "ud_ip_exp", NEW m \in Mails,
         DocsOf(m) # {}, DocsOf(m) = OfKind(DocsOf(m), {"UD"})
  PROVE  \A op \in OwnOps(plan, m) : \E d \in DocsOf(m) : op.shared = {Doc[d].number}
<1>1. ASSUME NEW op \in OwnOps(plan, m) PROVE \E d \in DocsOf(m) : op.shared = {Doc[d].number}
  <2>1. ClaimsRow(sheet, plan, op) /\ op.mail = m
    BY DEF LedgerInv, Entering, LedgerPlan, OwnOps
  <2>2. ~IpExpRulesPass(m)
    BY DEF IpExpRulesPass
  <2> QED
    BY <2>1, <2>2 DEF ClaimsRow, UdWrite, CoverWrite
<1> QED
  BY <1>1

\* The rows that are noted on the PDF of a UD are those under its number.
UdNoted(m, d) ==
  /\ UnderUd(working, d) # {}
  /\ \/ SelectedFor(m, Doc[d].pdf) = UnderUd(working, d)
     \/ SelectedFor(m, Doc[d].pdf) = {} /\ StagedRows(m) = {}

\* The rows noted for the documents of a mail of UDs: those under them, or none
\* where the mail changes no row.
LEMMA UdRows ==
  ASSUME PapersTell, IInv, LedgerInv, NotesInv, pc = "validating", workflow = "ud_ip_exp",
         NEW m \in Mails, ~outcome[m].blocked, ~BringsTwins(m),
         DocsOf(m) = OfKind(DocsOf(m), {"UD"})
  PROVE  /\ \A d \in DocsOf(m) : UdNoted(m, d)
         /\ \A pdf : ReadFrom(m, pdf) = {} => SelectedFor(m, pdf) = {}
<1> DEFINE rows == SnapshotOf(m)
           selections == Selections(m, rows)
           own == OwnOps(plan, m)
           Under(d) == StagedUnder(m, d)
           under == UNION {Under(d) : d \in DocsOf(m)}
<1>1. /\ rows \in Seq(Rows) /\ Len(rows) <= MaxRows
      /\ Selected(m, selections, working) /\ DocsOf(m) # {}
      /\ ~Staged(m, rows).blocked /\ own = Staged(m, rows).ops
  BY PassedUdMail
<1>2. ToSet(Kept(m)) = DocsOf(m)
  BY AllKept
<1>3. \A d \in DocsOf(m) : UnderUd(working, d) # {} /\ selections[d] = UnderUd(working, d)
  BY <1>1, <1>2 DEF Selected
<1>4. DOMAIN selections = DocsOf(m)
  BY <1>2 DEF Selections
<1>5. \A d \in DocsOf(m) : ReadFrom(m, Doc[d].pdf) = {d}
  BY ReadOne
<1>6. StagedRows(m) = {op.row : op \in own}
  BY OwnRows
<1> HIDE DEF rows, selections, own, under
<1>7. CASE SelectedByDocument(m)
  <2>1. \A pdf : SelectedFor(m, pdf) = RowsIn(selections, ReadFrom(m, pdf))
    BY <1>7 DEF SelectedFor, selections, rows
  <2>2. \A d \in DocsOf(m) : RowsIn(selections, {d}) = selections[d]
    BY <1>4 DEF RowsIn
  <2>3. RowsIn(selections, {}) = {}
    BY DEF RowsIn
  <2> QED
    BY <1>3, <1>5, <2>1, <2>2, <2>3 DEF UdNoted
<1>8. CASE ~SelectedByDocument(m)
  <2>1. Len(Kept(m)) = 1 /\ DocsOf(m) = {Kept(m)[1]}
    <3>1. Len(Kept(m)) \in Nat /\ DOMAIN Kept(m) = 1..Len(Kept(m))
      BY KeptIs
    <3>2. Len(Kept(m)) <= 1
      BY <1>8, <3>1 DEF SelectedByDocument
    <3>3. Len(Kept(m)) # 0
      BY <1>1, <1>2, <3>1 DEF ToSet
    <3>4. DOMAIN Kept(m) = {1} /\ Len(Kept(m)) = 1
      BY <3>1, <3>2, <3>3
    <3> QED
      BY <1>2, <3>4 DEF ToSet
  <2> DEFINE d == Kept(m)[1]
  <2>2. \A op \in own : op.shared = {Doc[d].number}
    BY <1>1, <2>1, OwnUdWrites DEF own
  <2> HIDE DEF d
  <2>3. DocsOf(m) = {d} /\ Doc[d].kind = "UD"
    BY <2>1 DEF OfKind, d
  <2>4. Under(d) = StagedRows(m)
    <3>1. {o \in plan : o.mail = m /\ o.shared = {Doc[d].number} /\ Doc[d].kind = "UD"} = own
      BY <2>2, <2>3 DEF OwnOps, own
    <3> QED
      BY <1>6, <3>1 DEF StagedUnder
  <2>5. under = Under(d)
    BY <2>3 DEF under
  <2>6. \A pdf : SelectedFor(m, pdf) =
          IF under # {} THEN UNION {Under(e) : e \in ReadFrom(m, pdf)}
          ELSE IF Len(Mail[m].pdfs) = 1 THEN StagedRows(m) ELSE {}
    BY <1>8 DEF SelectedFor, under
  <2> HIDE DEF Under
  <2>7. CASE own = {}
    <3>1. StagedRows(m) = {}
      BY <1>6, <2>7
    <3>2. \A pdf : SelectedFor(m, pdf) = {}
      BY <2>4, <2>5, <2>6, <3>1
    <3> QED
      BY <1>3, <3>1, <3>2 DEF UdNoted
  <2>8. CASE own # {}
    <3>1. {op.row : op \in own} = selections[d]
      BY <1>1, <2>1, <2>8, SingleSelection DEF selections, d
    <3>2. Under(d) = UnderUd(working, d) /\ under # {}
      BY <1>3, <1>6, <2>3, <2>4, <2>5, <3>1
    <3>3. SelectedFor(m, Doc[d].pdf) = Under(d)
      <4>1. ReadFrom(m, Doc[d].pdf) = {d}
        BY <1>5, <2>3
      <4>2. UNION {Under(e) : e \in {d}} = Under(d)
        OBVIOUS
      <4> QED
        BY <2>6, <3>2, <4>1, <4>2
    <3>4. ASSUME NEW pdf, ReadFrom(m, pdf) = {} PROVE SelectedFor(m, pdf) = {}
      BY <2>6, <3>2, <3>4
    <3> QED
      BY <1>3, <2>3, <3>2, <3>3, <3>4 DEF UdNoted
  <2> QED
    BY <2>7, <2>8
<1> QED
  BY <1>7, <1>8

\* The rows written for IP and EXP documents are those of the family, each with
\* all the numbers; they are noted only on a PDF that is alone.
LEMMA CoverRows ==
  ASSUME IInv, LedgerInv, NotesInv, pc = "validating", workflow = "ud_ip_exp",
         NEW m \in Mails, ~outcome[m].blocked, DocsOf(m) # OfKind(DocsOf(m), {"UD"})
  PROVE  /\ StagedRows(m) # {} =>
              /\ StagedRows(m) = FamilyRows(working, VerifiedFamily(m))
              /\ \A i \in StagedRows(m) : working[i].shared = CoverNumbers(m)
         /\ \A d \in DocsOf(m) : d \in Docs /\ d \notin UdDocs /\ Doc[d].kind \in {"IP", "EXP"}
                                 /\ Doc[d].lc = VerifiedFamily(m)
         /\ \A pdf : SelectedFor(m, pdf) = IF Len(Mail[m].pdfs) = 1 THEN StagedRows(m) ELSE {}
<1> DEFINE rows == SnapshotOf(m)
           own == OwnOps(plan, m)
           lc == VerifiedFamily(m)
           shared == {Doc[d].number : d \in DocsOf(m)}
           date == Doc[CHOOSE d \in DocsOf(m) : TRUE].date
<1>1. /\ IpExpRulesPass(m) /\ own = IpExpStaging(m, rows).ops
      /\ \A d \in DocsOf(m) : Doc[d].lc = lc
  BY PassedUdMail
<1>2. own = {} \/ own = AssignsTo(m, FamilyRows(rows, lc), shared, date)
  BY <1>1 DEF IpExpStaging, AssignsTo
<1>3. /\ StagedRows(m) = {op.row : op \in own}
      /\ FamilyRows(rows, lc) = FamilyRows(working, lc)
      /\ \A op \in own : working[op.row].shared = op.shared
  BY OwnRows, FamiliesStay
<1>4. \A d \in DocsOf(m) : d \in Docs /\ d \notin UdDocs /\ Doc[d].kind \in {"IP", "EXP"}
  <2>1. OfKind(DocsOf(m), {"UD"}) = {}
    BY <1>1 DEF IpExpRulesPass
  <2>2. \A d \in DocsOf(m) : d \in Docs /\ Doc[d].kind \in {"UD", "IP", "EXP"} /\ Doc[d].kind # "UD"
    BY <2>1, DocAssumption DEF DocsOf, OfKind, Kinds
  <2> QED
    BY <2>2 DEF UdDocs, OfKind
<1>5. shared = CoverNumbers(m)
  BY DEF CoverNumbers
<1> HIDE DEF rows, own, lc, shared, date
<1>6. ASSUME StagedRows(m) # {}
      PROVE  /\ StagedRows(m) = FamilyRows(working, lc)
             /\ \A i \in StagedRows(m) : working[i].shared = CoverNumbers(m)
  <2>1. own = AssignsTo(m, FamilyRows(rows, lc), shared, date)
    BY <1>2, <1>3, <1>6
  <2>2. /\ \A op \in own : op.row \in FamilyRows(rows, lc) /\ op.shared = shared
        /\ \A i \in FamilyRows(rows, lc) : \E op \in own : op.row = i
    BY <2>1, AssignsToApart
  <2> QED
    BY <1>3, <1>5, <2>2
<1>7. \A pdf : SelectedFor(m, pdf) = IF Len(Mail[m].pdfs) = 1 THEN StagedRows(m) ELSE {}
  <2>1. ~SelectedByDocument(m)
    BY DEF SelectedByDocument
  <2>2. \A d \in DocsOf(m) : StagedUnder(m, d) = {}
    BY <1>4 DEF StagedUnder
  <2>3. UNION {StagedUnder(m, d) : d \in DocsOf(m)} = {}
    BY <2>2
  <2> QED
    BY <2>1, <2>3 DEF SelectedFor
<1> QED
  BY <1>1, <1>4, <1>6, <1>7 DEF lc

\* The rows that show the number of a document.
Showing(rows, d) == {i \in DOMAIN rows : Doc[d].number \in rows[i].shared}
ShowingAlone(rows, d) == {i \in DOMAIN rows : rows[i].shared = {Doc[d].number}}

\* The rows that show a UD are those under it, and show nothing else.
LEMMA UdShown ==
  ASSUME NEW rows, CellsTell(rows), NEW d \in UdDocs
  PROVE  Showing(rows, d) = UnderUd(rows, d) /\ ShowingAlone(rows, d) = UnderUd(rows, d)
<1>1. d \in Docs
  BY DEF UdDocs, OfKind
<1>2. \A i \in DOMAIN rows : Doc[d].number \in rows[i].shared =>
         i \in FamilyRows(rows, Doc[d].lc) /\ rows[i].shared = {Doc[d].number}
  BY <1>1 DEF CellsTell
<1>3. \A i \in FamilyRows(rows, Doc[d].lc) : i \in DOMAIN rows
  BY DEF FamilyRows
<1> QED
  BY <1>2, <1>3 DEF Showing, ShowingAlone, UnderUd, RowsUnder

\* The rows that show a covering document are those of its family.
LEMMA CoverShown ==
  ASSUME NEW rows, CellsTell(rows), NEW d \in Docs, NEW R, R = FamilyRows(rows, Doc[d].lc),
         \A i \in R : Doc[d].number \in rows[i].shared
  PROVE  Showing(rows, d) = R
<1>1. \A i \in R : i \in DOMAIN rows
  BY DEF FamilyRows
<1> QED
  BY <1>1 DEF CellsTell, Showing

\* The second table shows the rows of each document.
LEMMA ProcessedShow ==
  ASSUME PapersTell, IInv, LedgerInv, NotesInv, CellsTell(working), pc = "validating",
         workflow = "ud_ip_exp", NEW m \in Mails, ~outcome[m].blocked, ~BringsTwins(m),
         NEW d \in DocsOf(m), ProcessedRows(m, Doc[d].pdf) # {}
  PROVE  ProcessedRows(m, Doc[d].pdf) = Showing(working, d)
<1> DEFINE pdf == Doc[d].pdf
<1>1. ReadFrom(m, pdf) = {d} /\ d \in Docs
  BY ReadOne DEF DocsOf
<1>2. CASE DocsOf(m) = OfKind(DocsOf(m), {"UD"})
  <2>1. d \in UdDocs /\ OfKind(ReadFrom(m, pdf), {"IP", "EXP"}) = {}
    BY <1>1, <1>2 DEF OfKind, UdDocs
  <2>2. ProcessedRows(m, pdf) = SelectedFor(m, pdf)
    BY <2>1 DEF ProcessedRows
  <2>3. UdNoted(m, d)
    BY <1>2, UdRows
  <2> QED
    BY <2>1, <2>2, <2>3, UdShown DEF UdNoted
<1>3. CASE DocsOf(m) # OfKind(DocsOf(m), {"UD"})
  <2>1. /\ Doc[d].kind \in {"IP", "EXP"} /\ Doc[d].lc = VerifiedFamily(m)
        /\ SelectedFor(m, pdf) \in {{}, StagedRows(m)}
    BY <1>3, CoverRows
  <2>2. ProcessedRows(m, pdf) = StagedRows(m)
    BY <1>1, <2>1 DEF ProcessedRows, OfKind
  <2>3. /\ StagedRows(m) = FamilyRows(working, Doc[d].lc)
        /\ \A i \in StagedRows(m) : working[i].shared = CoverNumbers(m)
    BY <1>3, <2>1, <2>2, CoverRows
  <2>4. Doc[d].number \in CoverNumbers(m)
    BY DEF CoverNumbers
  <2> QED
    BY <1>1, <2>2, <2>3, <2>4, CoverShown
<1> QED
  BY <1>2, <1>3
-----------------------------------------------------------------------------
(* The entries of the sheet.                                               *)

\* What is printed of a mail.
LEMMA PrintedIs ==
  ASSUME NEW m \in Mails
  PROVE  /\ PrintedPdfs(m) \in Seq(Pdfs)
         /\ ToSet(PrintedPdfs(m)) = {p \in ToSet(Mail[m].pdfs) : PathOf(m, p) \in outcome[m].new}
<1>1. Mail[m].pdfs \in Seq(Pdfs)
  BY MailAssumption
<1> DEFINE pdfs == Mail[m].pdfs
           S == {p \in Pdfs : PathOf(m, p) \in outcome[m].new}
<1>2. /\ Only(pdfs, S) \in Seq(Pdfs) /\ ToSet(Only(pdfs, S)) = ToSet(pdfs) \cap S
  <2> HIDE DEF S
  <2> QED
    BY <1>1, OnlyIs
<1>3. ToSet(pdfs) \in SUBSET Pdfs
  BY <1>1, ElementsIn DEF ToSet
<1> QED
  BY <1>2, <1>3 DEF PrintedPdfs

\* The mails that are printed are put in order.
LEMMA GroupsListed ==
  ASSUME IInv
  PROVE  /\ GroupOrder \in Seq(PlannedGroups)
         /\ \A m \in PlannedGroups : \E k \in DOMAIN GroupOrder : GroupOrder[k] = m
<1>1. PlannedGroups \in SUBSET Mails /\ Mails \in SUBSET Nat /\ IsFiniteSet(PlannedGroups)
  BY MailAssumption, FS_Subset DEF PlannedGroups
<1>2. \A m \in PlannedGroups : EarliestRow(m) \in Nat
  <2>1. ASSUME NEW m \in PlannedGroups PROVE EarliestRow(m) \in Nat
    <3> DEFINE own == {op.row : op \in {o \in plan : o.mail = m}}
    <3>1. own # {}
      BY DEF PlannedGroups
    <3>2. own \in SUBSET Nat
      BY DEF IInv, RunInv, Ops, OpsUpTo
    <3>3. EarliestRow(m) = Min(own)
      BY DEF EarliestRow
    <3> HIDE DEF own
    <3> QED
      BY <3>1, <3>2, <3>3, SmallestNumber
  <2> QED
    BY <2>1
<1>3. \A x, y \in PlannedGroups : <<x, y>> \in PrintsBefore <=>
         \/ EarliestRow(x) < EarliestRow(y)
         \/ EarliestRow(x) = EarliestRow(y) /\ x < y
  BY DEF PrintsBefore
<1>4. StrictlyOrders(PrintsBefore, PlannedGroups)
  <2>1. \A x \in PlannedGroups : x \in Nat /\ EarliestRow(x) \in Nat
    BY <1>1, <1>2
  <2> QED
    BY <1>3, <2>1 DEF StrictlyOrders
<1>5. /\ GroupOrder \in Seq(PlannedGroups)
      /\ DOMAIN GroupOrder = 1..Cardinality(PlannedGroups)
      /\ \A m \in PlannedGroups : \E k \in 1..Cardinality(PlannedGroups) : GroupOrder[k] = m
  BY <1>1, <1>4, ListedIs DEF GroupOrder
<1> QED
  BY <1>5

\* The sequences of each group, one after the other.
LEMMA GroupsFlattened ==
  ASSUME IInv, NEW T, NEW f, \A m \in PlannedGroups : f[m] \in Seq(T),
         NEW flat, flat = FlattenSeq([k \in DOMAIN GroupOrder |-> f[GroupOrder[k]]])
  PROVE  /\ flat \in Seq(T)
         /\ \A x : x \in ToSet(flat) <=> \E m \in PlannedGroups : x \in ToSet(f[m])
<1> DEFINE seqs == [k \in DOMAIN GroupOrder |-> f[GroupOrder[k]]]
           n == Len(GroupOrder)
<1>1. /\ GroupOrder \in Seq(PlannedGroups)
      /\ \A m \in PlannedGroups : \E k \in DOMAIN GroupOrder : GroupOrder[k] = m
  BY GroupsListed
<1>2. n \in Nat /\ DOMAIN GroupOrder = 1..n /\ \A k \in 1..n : GroupOrder[k] \in PlannedGroups
  BY <1>1, ElementsIn
<1>3. seqs \in [1..n -> Seq(T)]
  BY <1>2
<1>4. seqs \in Seq(Seq(T))
  BY <1>2, <1>3, SeqDef
<1>5. DOMAIN seqs = 1..n /\ \A k \in 1..n : seqs[k] = f[GroupOrder[k]]
  BY <1>2
<1> HIDE DEF seqs, n
<1>6. flat \in Seq(T) /\ \A x : x \in ToSet(flat) <=> \E k \in DOMAIN seqs : x \in ToSet(seqs[k])
  BY <1>4, FlattenIs DEF seqs
<1>7. \A k \in DOMAIN seqs : GroupOrder[k] \in PlannedGroups /\ seqs[k] = f[GroupOrder[k]]
  BY <1>2, <1>5
<1>8. \A m \in PlannedGroups : \E k \in DOMAIN seqs : seqs[k] = f[m]
  BY <1>1, <1>2, <1>5
<1> HIDE DEF GroupOrder, PlannedGroups
<1>9. ASSUME NEW x PROVE x \in ToSet(flat) <=> \E m \in PlannedGroups : x \in ToSet(f[m])
  BY <1>6, <1>7, <1>8
<1> QED
  BY <1>6, <1>9

\* A function on the first numbers is a sequence of what it takes.
LEMMA OwnElements ==
  ASSUME NEW n \in Nat, NEW f, f = [k \in 1..n |-> f[k]]
  PROVE  f \in Seq(ToSet(f)) /\ DOMAIN f = 1..n
<1>1. f \in [1..n -> ToSet(f)]
  BY DEF ToSet
<1> QED
  BY <1>1, SeqDef

\* The entries of an export mail: each row with all that is printed of it.
LEMMA ExportEntries ==
  ASSUME IInv, LedgerInv, pc = "validating", NEW m \in Mails, IsExport(m)
  PROVE  /\ Entries(m) \in Seq(ToSet(Entries(m)))
         /\ \A e : e \in ToSet(Entries(m)) <=>
              /\ ToSet(PrintedPdfs(m)) # {}
              /\ \E r \in StagedRows(m) :
                   e = [mail |-> m, rows |-> {r}, pdfs |-> ToSet(PrintedPdfs(m))]
<1> DEFINE P == ToSet(PrintedPdfs(m))
           R == StagedRows(m)
           noted == [pdf \in P |-> R]
           D == UNION Range(noted)
           sources == [row \in D |-> {pdf \in DOMAIN noted : row \in noted[pdf]}]
           rows == Ascending(D)
           n == Cardinality(D)
           Entry(r) == [mail |-> m, rows |-> {r}, pdfs |-> P]
<1>1. Entries(m) = [k \in DOMAIN rows |-> [mail |-> m, rows |-> {rows[k]}, pdfs |-> sources[rows[k]]]]
  BY DEF Entries, EntriesOf, AnnotatedRows, EntriesByRow, RowSources
<1>2. D = IF P = {} THEN {} ELSE R
  <2> HIDE DEF P, R
  <2>1. \A r \in D : r \in R /\ P # {}
    BY DEF Range
  <2>2. \A p \in P, r \in R : r \in D
    BY DEF Range
  <2> QED
    BY <2>1, <2>2
<1>3. \A r \in D : sources[r] = P
  <2> HIDE DEF P, R
  <2>1. \A r \in D : r \in R
    BY <1>2
  <2> HIDE DEF D
  <2> QED
    BY <2>1
<1> HIDE DEF P, sources, noted, D
<1>4. R \in SUBSET Nat /\ IsFiniteSet(R)
  BY OwnRows
<1>5. D \in SUBSET Nat /\ IsFiniteSet(D)
  BY <1>2, <1>4, FS_EmptySet
<1>6. rows \in Seq(D) /\ DOMAIN rows = 1..n /\ ToSet(rows) = D /\ n \in Nat
  BY <1>5, AscendingIs, FS_CardinalityType
<1>7. \A k \in 1..n : rows[k] \in D
  BY <1>6, ElementsIn
<1> HIDE DEF rows, n, R
<1>8. Entries(m) = [k \in 1..n |-> Entry(rows[k])]
  BY <1>1, <1>3, <1>6, <1>7
<1> HIDE DEF Entry
<1>9. Entries(m) \in Seq(ToSet(Entries(m))) /\ DOMAIN Entries(m) = 1..n
  <2>1. Entries(m) = [k \in 1..n |-> Entries(m)[k]]
    BY <1>8
  <2> QED
    BY <1>6, <2>1, OwnElements
<1>10. \A e : e \in ToSet(Entries(m)) <=> \E r \in D : e = Entry(r)
  <2>1. \A e : e \in ToSet(Entries(m)) <=> \E k \in 1..n : e = Entry(rows[k])
    BY <1>8 DEF ToSet
  <2>2. \A r : r \in D <=> \E k \in 1..n : r = rows[k]
    BY <1>6 DEF ToSet
  <2> QED
    BY <2>1, <2>2
<1>11. \A e : e \in ToSet(Entries(m)) <=> P # {} /\ \E r \in R : e = Entry(r)
  BY <1>2, <1>10
<1> QED
  BY <1>9, <1>11 DEF Entry, P, R

\* Those of a mail of ud_ip_exp: each PDF that must have one.
LEMMA UdEntriesAre ==
  ASSUME NEW m \in Mails, ~IsExport(m)
  PROVE  /\ Entries(m) \in Seq(ToSet(Entries(m)))
         /\ \A e : e \in ToSet(Entries(m)) <=>
              \E p \in ToSet(PrintedPdfs(m)) :
                /\ RowRequired(m, p, SelectedFor(m, p))
                /\ e = [mail |-> m, rows |-> SelectedFor(m, p), pdfs |-> {p}]
<1> DEFINE P == ToSet(PrintedPdfs(m))
           noted == [p \in P |-> SelectedFor(m, p)]
           S == {p \in DOMAIN noted : RowRequired(m, p, noted[p])}
           required == Only(PrintedPdfs(m), S)
           n == Len(required)
           Entry(p) == [mail |-> m, rows |-> SelectedFor(m, p), pdfs |-> {p}]
<1>1. Entries(m) = [k \in DOMAIN required |->
                      [mail |-> m, rows |-> noted[required[k]], pdfs |-> {required[k]}]]
  BY DEF Entries, EntriesOf, AnnotatedRows, UdEntries
<1>2. \A p : p \in S <=> p \in P /\ RowRequired(m, p, SelectedFor(m, p))
  OBVIOUS
<1>3. \A p \in P : noted[p] = SelectedFor(m, p)
  OBVIOUS
<1> HIDE DEF S, noted
<1>4. PrintedPdfs(m) \in Seq(Pdfs)
  BY PrintedIs
<1>5. required \in Seq(Pdfs) /\ ToSet(required) = P \cap S
  BY <1>4, OnlyIs
<1> HIDE DEF P, required
<1>6. DOMAIN required = 1..n /\ n \in Nat
  BY <1>5, ElementsIn
<1> HIDE DEF n
<1>7. \A k \in 1..n : required[k] \in P
  BY <1>5, <1>6 DEF ToSet
<1>8. Entries(m) = [k \in 1..n |-> Entry(required[k])]
  BY <1>1, <1>3, <1>6, <1>7
<1> HIDE DEF Entry
<1>9. Entries(m) \in Seq(ToSet(Entries(m)))
  <2>1. Entries(m) = [k \in 1..n |-> Entries(m)[k]]
    BY <1>8
  <2> QED
    BY <1>6, <2>1, OwnElements
<1>10. \A e : e \in ToSet(Entries(m)) <=> \E k \in 1..n : e = Entry(required[k])
  BY <1>8 DEF ToSet
<1>11. \A p : (\E k \in 1..n : p = required[k]) <=> p \in P /\ RowRequired(m, p, SelectedFor(m, p))
  BY <1>2, <1>5, <1>6 DEF ToSet
<1>12. \A e : e \in ToSet(Entries(m)) <=> \E p \in P : RowRequired(m, p, SelectedFor(m, p)) /\ e = Entry(p)
  BY <1>10, <1>11
<1> QED
  BY <1>9, <1>12 DEF Entry, P

\* The sheet holds the entries of the mails that are printed.
LEMMA ChecklistIs ==
  ASSUME IInv, LedgerInv, pc = "validating"
  PROVE  /\ Len(Checklist) \in Nat /\ DOMAIN Checklist = 1..Len(Checklist)
         /\ \E T : Checklist \in Seq(T)
         /\ \A e : e \in ToSet(Checklist) <=> \E m \in PlannedGroups : e \in ToSet(Entries(m))
<1> DEFINE f == [m \in PlannedGroups |-> Entries(m)]
           T == UNION {ToSet(Entries(m)) : m \in PlannedGroups}
<1>1. \A m \in PlannedGroups : f[m] = Entries(m)
  OBVIOUS
<1>2. \A m \in PlannedGroups : Entries(m) \in Seq(T)
  <2>1. ASSUME NEW m \in PlannedGroups PROVE Entries(m) \in Seq(T)
    <3>1. m \in Mails
      BY DEF PlannedGroups
    <3>2. Entries(m) \in Seq(ToSet(Entries(m)))
      BY <3>1, ExportEntries, UdEntriesAre
    <3>3. ToSet(Entries(m)) \in SUBSET T
      OBVIOUS
    <3> HIDE DEF T
    <3> QED
      BY <3>2, <3>3
  <2> QED
    BY <2>1
<1>3. \A k \in DOMAIN GroupOrder : GroupOrder[k] \in PlannedGroups
  BY GroupsListed, ElementsIn
<1>4. Checklist = FlattenSeq([k \in DOMAIN GroupOrder |-> f[GroupOrder[k]]])
  <2>1. [k \in DOMAIN GroupOrder |-> f[GroupOrder[k]]] = [k \in DOMAIN GroupOrder |-> Entries(GroupOrder[k])]
    <3> HIDE DEF f
    <3> QED
      BY <1>1, <1>3
  <2> HIDE DEF f
  <2> QED
    BY <2>1 DEF Checklist, ChecklistOf
<1> HIDE DEF f, T
<1>5. /\ Checklist \in Seq(T)
      /\ \A x : x \in ToSet(Checklist) <=> \E m \in PlannedGroups : x \in ToSet(f[m])
  <2>1. \A m \in PlannedGroups : f[m] \in Seq(T)
    BY <1>1, <1>2
  <2> QED
    BY <1>4, <2>1, GroupsFlattened
<1> QED
  BY <1>1, <1>5, ElementsIn

\* What is known of a run whose mails are validated.
Validated ==
  /\ PapersTell /\ IInv /\ LedgerInv /\ NotesInv /\ CellsTell(sheet)
  /\ workflow = "ud_ip_exp" => CellsTell(working)
  /\ pc = "validating" /\ \A m \in Mails : ~BringsTwins(m)

\* The mails of a run are of its workflow, those printed have written rows.
LEMMA PlannedIs ==
  ASSUME IInv, LedgerInv, NEW m \in Mails, ~outcome[m].blocked
  PROVE  /\ IsExport(m) <=> workflow = "export_lc_sc"
         /\ ~IsExport(m) <=> workflow = "ud_ip_exp"
         /\ m \in PlannedGroups => StagedRows(m) # {}
<1>1. Mail[m].workflow = workflow /\ workflow \in Workflows
  BY DEF LedgerInv, HoldsMail, IInv, RunInv
<1>2. m \in PlannedGroups => StagedRows(m) # {}
  BY DEF PlannedGroups, StagedRows
<1> QED
  BY <1>1, <1>2 DEF IsExport, Workflows

\* The rows that hold the documents of a PDF of a mail.
HoldingRows(m, pdf) ==
  {i \in DOMAIN working : \E d \in DocsOf(m) : /\ Doc[d].pdf \in {pdf}
                                               /\ working[i].shared = {Doc[d].number}}

\* A PDF of ud_ip_exp is noted with the rows that hold what was read from it.
LEMMA UdEntryShows ==
  ASSUME Validated, NEW m \in PlannedGroups, workflow = "ud_ip_exp",
         NEW pdf \in ToSet(PrintedPdfs(m)), RowRequired(m, pdf, SelectedFor(m, pdf))
  PROVE  SelectedFor(m, pdf) = HoldingRows(m, pdf) /\ SelectedFor(m, pdf) # {}
<1>1. /\ m \in Mails /\ ~outcome[m].blocked /\ ~BringsTwins(m)
      /\ PapersTell /\ IInv /\ LedgerInv /\ NotesInv /\ CellsTell(working) /\ pc = "validating"
  BY DEF Validated, PlannedGroups
<1>2. StagedRows(m) # {}
  BY <1>1, PlannedIs
<1>3. ASSUME NEW d \in DocsOf(m), ReadFrom(m, pdf) = {d}
      PROVE  HoldingRows(m, pdf) = ShowingAlone(working, d)
  <2>1. \A e \in DocsOf(m) : Doc[e].pdf \in {pdf} <=> e = d
    BY <1>3 DEF ReadFrom
  <2> QED
    BY <2>1 DEF HoldingRows, ShowingAlone
<1>4. CASE DocsOf(m) = OfKind(DocsOf(m), {"UD"})
  <2>1. ReadFrom(m, pdf) # {}
    <3>1. ASSUME ReadFrom(m, pdf) = {} PROVE FALSE
      <4>1. SelectedFor(m, pdf) = {}
        BY <1>1, <1>4, <3>1, UdRows
      <4> QED
        BY <3>1, <4>1 DEF RowRequired, OfKind
    <3> QED
      BY <3>1
  <2>2. PICK d \in DocsOf(m) : Doc[d].pdf = pdf
    BY <2>1 DEF ReadFrom
  <2>3. ReadFrom(m, pdf) = {d} /\ d \in UdDocs
    BY <1>1, <1>4, <2>2, ReadOne DEF OfKind, DocsOf, UdDocs
  <2>4. SelectedFor(m, pdf) = UnderUd(working, d) /\ UnderUd(working, d) # {}
    BY <1>1, <1>2, <1>4, <2>2, UdRows DEF UdNoted
  <2>5. ShowingAlone(working, d) = UnderUd(working, d)
    BY <1>1, <2>3, UdShown
  <2> QED
    BY <1>3, <2>3, <2>4, <2>5
<1>5. CASE DocsOf(m) # OfKind(DocsOf(m), {"UD"})
  <2>1. /\ StagedRows(m) = FamilyRows(working, VerifiedFamily(m))
        /\ \A i \in StagedRows(m) : working[i].shared = CoverNumbers(m)
        /\ \A d \in DocsOf(m) : d \in Docs /\ Doc[d].kind \in {"IP", "EXP"}
                                /\ Doc[d].lc = VerifiedFamily(m)
        /\ SelectedFor(m, pdf) = IF Len(Mail[m].pdfs) = 1 THEN StagedRows(m) ELSE {}
    BY <1>1, <1>2, <1>5, CoverRows
  <2>2. OfKind(ReadFrom(m, pdf), {"UD"}) = {}
    BY <2>1 DEF ReadFrom, OfKind
  <2>3. SelectedFor(m, pdf) # {}
    BY <2>2 DEF RowRequired
  <2>4. Len(Mail[m].pdfs) = 1 /\ SelectedFor(m, pdf) = StagedRows(m)
    BY <2>1, <2>3
  <2>5. \A p \in ToSet(Mail[m].pdfs) : p = pdf
    <3>1. pdf \in ToSet(Mail[m].pdfs)
      BY <1>1, PrintedIs
    <3>2. DOMAIN Mail[m].pdfs = {1}
      <4>1. Mail[m].pdfs \in Seq(Pdfs)
        BY <1>1, MailAssumption
      <4> QED
        BY <2>4, <4>1
    <3> QED
      BY <3>1, <3>2 DEF ToSet
  <2>6. DocsOf(m) # {}
    BY <1>1, PassedUdMail
  <2>7. PICK d \in DocsOf(m) : TRUE
    BY <2>6
  <2>8. \A e \in DocsOf(m) : Doc[e].pdf = pdf
    BY <2>5, DocAssumption DEF DocsOf
  <2>9. ReadFrom(m, pdf) = {d}
    BY <1>1, <2>8, ReadOne
  <2>10. DocsOf(m) = {d}
    BY <2>8, <2>9 DEF ReadFrom
  <2>11. CoverNumbers(m) = {Doc[d].number}
    BY <2>10 DEF CoverNumbers
  <2>12. ASSUME NEW i \in ShowingAlone(working, d) PROVE i \in StagedRows(m)
    <3>1. i \in DOMAIN working /\ Doc[d].number \in working[i].shared
      BY DEF ShowingAlone
    <3>2. i \in FamilyRows(working, Doc[d].lc)
      BY <1>1, <2>1, <3>1 DEF CellsTell
    <3> QED
      BY <2>1, <3>2
  <2>13. ASSUME NEW i \in StagedRows(m) PROVE i \in ShowingAlone(working, d)
    <3>1. i \in DOMAIN working
      BY <2>1 DEF FamilyRows
    <3> QED
      BY <2>1, <2>11, <3>1 DEF ShowingAlone
  <2>14. ShowingAlone(working, d) = StagedRows(m)
    BY <2>12, <2>13
  <2> QED
    BY <1>3, <2>3, <2>4, <2>9, <2>14
<1> QED
  BY <1>4, <1>5

\* The entries of the sheet for a PDF are those of its mail.
LEMMA EntriesOfMail ==
  ASSUME Validated, NEW m \in PlannedGroups, NEW pdf, NEW e \in EntriesWith(Checklist, m, pdf)
  PROVE  e \in ToSet(Entries(m)) /\ pdf \in e.pdfs
<1>1. e \in ToSet(Checklist) /\ e.mail = m /\ pdf \in e.pdfs
  BY DEF EntriesWith
<1>2. PICK n \in PlannedGroups : e \in ToSet(Entries(n))
  BY <1>1, ChecklistIs DEF Validated
<1>3. n \in Mails
  BY DEF PlannedGroups
<1>4. e.mail = n
  <2>1. CASE IsExport(n)
    <3>1. PICK r \in StagedRows(n) : e = [mail |-> n, rows |-> {r}, pdfs |-> ToSet(PrintedPdfs(n))]
      BY <1>2, <1>3, <2>1, ExportEntries DEF Validated
    <3> QED
      BY <3>1
  <2>2. CASE ~IsExport(n)
    <3>1. PICK p : e = [mail |-> n, rows |-> SelectedFor(n, p), pdfs |-> {p}]
      BY <1>2, <1>3, <2>2, UdEntriesAre
    <3> QED
      BY <3>1
  <2> QED
    BY <2>1, <2>2
<1> QED
  BY <1>1, <1>2, <1>4

\* The entries of every PDF name the rows that hold what the PDF brought.
LEMMA EntriesAreRight == Validated => EntriesShowRows(Checklist, working)
<1> SUFFICES ASSUME Validated, NEW m \in PlannedGroups, NEW pdf \in ToSet(PrintedPdfs(m)),
                    EntriesWith(Checklist, m, pdf) # {}
             PROVE  UNION {e.rows : e \in EntriesWith(Checklist, m, pdf)}
                      = UNION {RowsHolding(working, e) : e \in EntriesWith(Checklist, m, pdf)}
  BY DEF EntriesShowRows
<1> DEFINE E == EntriesWith(Checklist, m, pdf)
<1>1. m \in Mails /\ ~outcome[m].blocked /\ IInv /\ LedgerInv /\ NotesInv /\ pc = "validating"
  BY DEF Validated, PlannedGroups
<1>2. \A e \in E : e \in ToSet(Entries(m)) /\ pdf \in e.pdfs
  BY EntriesOfMail
<1>3. \A e : e \in ToSet(Entries(m)) /\ e.mail = m /\ pdf \in e.pdfs => e \in E
  BY <1>1, ChecklistIs DEF EntriesWith
<1>4. CASE IsExport(m)
  <2> DEFINE P == ToSet(PrintedPdfs(m))
             R == StagedRows(m)
             Entry(r) == [mail |-> m, rows |-> {r}, pdfs |-> P]
  <2>1. \A e : e \in ToSet(Entries(m)) <=> P # {} /\ \E r \in R : e = Entry(r)
    BY <1>1, <1>4, ExportEntries
  <2>2. R = RowsOfNew(m)
    BY <1>1, <1>4, ExportRows, PlannedIs
  <2>3. \A r : RowsHolding(working, Entry(r)) = RowsOfNew(m) /\ Entry(r).rows = {r}
               /\ Entry(r).mail = m /\ Entry(r).pdfs = P
    BY <1>4 DEF RowsHolding, RowsOfNew
  <2> HIDE DEF E, P, R, Entry
  <2>4. \A r \in R : Entry(r) \in E
    BY <1>3, <2>1, <2>3 DEF P
  <2>5. \A e \in E : \E r \in R : e = Entry(r)
    BY <1>2, <2>1
  <2>6. UNION {e.rows : e \in E} = R
    BY <2>3, <2>4, <2>5
  <2>7. UNION {RowsHolding(working, e) : e \in E} = R
    <3>1. \A e \in E : RowsHolding(working, e) = R
      BY <2>2, <2>3, <2>5
    <3>2. E # {}
      BY DEF E
    <3> QED
      BY <3>1, <3>2
  <2> QED
    BY <2>6, <2>7 DEF E
<1>5. CASE ~IsExport(m)
  <2>1. ASSUME NEW e \in E PROVE e.rows = RowsHolding(working, e)
    <3>1. PICK p \in ToSet(PrintedPdfs(m)) :
            /\ RowRequired(m, p, SelectedFor(m, p))
            /\ e = [mail |-> m, rows |-> SelectedFor(m, p), pdfs |-> {p}]
      BY <1>1, <1>2, <1>5, UdEntriesAre
    <3>2. workflow = "ud_ip_exp"
      BY <1>1, <1>5, PlannedIs
    <3>3. SelectedFor(m, p) = HoldingRows(m, p)
      BY <3>1, <3>2, UdEntryShows
    <3>4. e.mail = m /\ e.pdfs = {p} /\ e.rows = SelectedFor(m, p)
      BY <3>1
    <3>5. RowsHolding(working, e) = HoldingRows(m, p)
      BY <1>5, <3>4 DEF RowsHolding, HoldingRows
    <3> QED
      BY <3>3, <3>4, <3>5
  <2> HIDE DEF E
  <2> QED
    BY <2>1 DEF E
<1> QED
  BY <1>4, <1>5

\* Every printed UD is on the sheet.
LEMMA UdsAreEntered == Validated => UdsHaveEntries(Checklist)
<1> SUFFICES ASSUME Validated, NEW m \in PlannedGroups, NEW d \in Docs,
                    Doc[d].mail = m, Doc[d].kind = "UD", PathOf(m, Doc[d].pdf) \in outcome[m].new
             PROVE  EntriesWith(Checklist, m, Doc[d].pdf) # {}
  BY DEF UdsHaveEntries
<1> DEFINE pdf == Doc[d].pdf
           e == [mail |-> m, rows |-> SelectedFor(m, pdf), pdfs |-> {pdf}]
<1>1. m \in Mails /\ ~IsExport(m) /\ pdf \in ToSet(Mail[m].pdfs)
  BY DocAssumption DEF PlannedGroups, IsExport
<1>2. pdf \in ToSet(PrintedPdfs(m))
  BY <1>1, PrintedIs
<1>3. RowRequired(m, pdf, SelectedFor(m, pdf))
  BY DEF RowRequired, OfKind, ReadFrom, DocsOf
<1>4. e \in ToSet(Entries(m))
  BY <1>1, <1>2, <1>3, UdEntriesAre
<1>5. e \in ToSet(Checklist)
  BY <1>4, ChecklistIs DEF Validated
<1> QED
  BY <1>5 DEF EntriesWith

\* And every entry has rows.
LEMMA EntriesHaveRows == Validated => ~ChecklistFails(Checklist)
<1> SUFFICES ASSUME Validated, NEW k \in DOMAIN Checklist PROVE Checklist[k].rows # {}
  BY DEF ChecklistFails
<1> DEFINE e == Checklist[k]
<1>1. e \in ToSet(Checklist)
  BY DEF ToSet
<1> HIDE DEF e
<1>2. PICK m \in PlannedGroups : e \in ToSet(Entries(m))
  BY <1>1, ChecklistIs DEF Validated
<1>3. m \in Mails /\ ~outcome[m].blocked /\ IInv /\ LedgerInv /\ pc = "validating"
  BY DEF PlannedGroups, Validated
<1>4. CASE IsExport(m)
  <2>1. PICK r \in StagedRows(m) : e = [mail |-> m, rows |-> {r}, pdfs |-> ToSet(PrintedPdfs(m))]
    BY <1>2, <1>3, <1>4, ExportEntries
  <2> QED
    BY <2>1 DEF e
<1>5. CASE ~IsExport(m)
  <2>1. PICK p \in ToSet(PrintedPdfs(m)) :
          /\ RowRequired(m, p, SelectedFor(m, p))
          /\ e = [mail |-> m, rows |-> SelectedFor(m, p), pdfs |-> {p}]
    BY <1>2, <1>3, <1>5, UdEntriesAre
  <2>2. SelectedFor(m, p) # {}
    BY <1>3, <1>5, <2>1, PlannedIs, UdEntryShows
  <2> QED
    BY <2>1, <2>2 DEF e
<1> QED
  BY <1>4, <1>5

\* A sheet from which an entry is missing is not the one that is expected.
LEMMA MissingEntryIsSeen ==
  ASSUME NEW T, NEW list \in Seq(T), NEW k \in DOMAIN list
  PROVE  ~Agrees(RemoveAt(list, k), list)
<1>1. Len(list) \in Nat /\ k \in 1..Len(list)
  BY ElementsIn
<1> DEFINE a == SubSeq(list, 1, k - 1)
           b == SubSeq(list, k + 1, Len(list))
<1>2. a \in Seq(T) /\ Len(a) = k - 1 /\ b \in Seq(T) /\ Len(b) = Len(list) - k
  BY <1>1
<1> HIDE DEF a, b
<1>3. Len(a \o b) = Len(list) - 1
  BY <1>1, <1>2
<1>4. Len(RemoveAt(list, k)) # Len(list)
  BY <1>1, <1>3 DEF RemoveAt, a, b
<1> QED
  BY <1>4 DEF Agrees

\* A document that is printed has its place among them.
LEMMA PrintedHasPlace ==
  ASSUME IInv, NEW m \in PlannedGroups, NEW pdf \in ToSet(Mail[m].pdfs),
         PathOf(m, pdf) \in outcome[m].new
  PROVE  PrintSequence(PathOf(m, pdf), PrintOrder) # NotPrinted
<1> DEFINE Order(n) == PathsOf(n, PrintedPdfs(n))
           f == [n \in PlannedGroups |-> Order(n)]
           T == UNION {ToSet(Order(n)) : n \in PlannedGroups}
           path == PathOf(m, pdf)
<1>1. \A n \in PlannedGroups : f[n] = Order(n)
  OBVIOUS
<1>2. \A n \in PlannedGroups : Order(n) \in Seq(T)
  <2>1. ASSUME NEW n \in PlannedGroups PROVE Order(n) \in Seq(T)
    <3> DEFINE pdfs == PrintedPdfs(n)
    <3>1. pdfs \in Seq(Pdfs)
      BY PrintedIs DEF PlannedGroups
    <3>2. DOMAIN pdfs = 1..Len(pdfs) /\ Len(pdfs) \in Nat
      BY <3>1, ElementsIn
    <3>3. Order(n) = [i \in 1..Len(pdfs) |-> Order(n)[i]]
      BY <3>2 DEF PathsOf
    <3> DEFINE g == Order(n)
    <3> HIDE DEF pdfs, g
    <3>4. g \in Seq(ToSet(g))
      BY <3>2, <3>3, OwnElements DEF g
    <3>5. ToSet(g) \in SUBSET T
      BY DEF g
    <3> HIDE DEF T
    <3> QED
      BY <3>4, <3>5 DEF g
  <2> QED
    BY <2>1
<1>3. \A k \in DOMAIN GroupOrder : GroupOrder[k] \in PlannedGroups
  BY GroupsListed, ElementsIn
<1>4. PrintOrder = FlattenSeq([k \in DOMAIN GroupOrder |-> f[GroupOrder[k]]])
  <2>1. [k \in DOMAIN GroupOrder |-> f[GroupOrder[k]]] = [k \in DOMAIN GroupOrder |-> Order(GroupOrder[k])]
    <3> HIDE DEF f, Order
    <3> QED
      BY <1>1, <1>3
  <2> HIDE DEF f
  <2> QED
    BY <2>1 DEF PrintOrder, OrderOf
<1>5. path \in ToSet(Order(m))
  <2>1. pdf \in ToSet(PrintedPdfs(m))
    BY PrintedIs DEF PlannedGroups
  <2> QED
    BY <2>1 DEF PathsOf, ToSet
<1> HIDE DEF f, T, Order, path
<1>6. PrintOrder \in Seq(T) /\ path \in ToSet(PrintOrder)
  <2>1. \A n \in PlannedGroups : f[n] \in Seq(T)
    BY <1>1, <1>2
  <2>2. /\ PrintOrder \in Seq(T)
        /\ \A x : x \in ToSet(PrintOrder) <=> \E n \in PlannedGroups : x \in ToSet(f[n])
    BY <1>4, <2>1, GroupsFlattened
  <2> QED
    BY <1>1, <1>5, <2>2
<1> DEFINE at == {k \in DOMAIN PrintOrder : PrintOrder[k] = path}
           S == {NotPrinted} \cup at
<1>7. DOMAIN PrintOrder = 1..Len(PrintOrder) /\ Len(PrintOrder) \in Nat
  BY <1>6, ElementsIn
<1>8. at \in SUBSET (1..Len(PrintOrder)) /\ at # {}
  <2>1. at \in SUBSET DOMAIN PrintOrder
    OBVIOUS
  <2>2. \E k \in DOMAIN PrintOrder : PrintOrder[k] = path
    BY <1>6 DEF ToSet
  <2>3. at # {}
    BY <2>2
  <2> HIDE DEF at
  <2> QED
    BY <1>7, <2>1, <2>3
<1> HIDE DEF at
<1>9. S \in SUBSET (0..Len(PrintOrder)) /\ S # {} /\ \E k \in S : k > 0
  <2> DEFINE b == Len(PrintOrder)
  <2>1. b \in Nat /\ at \in SUBSET (1..b) /\ NotPrinted = 0
    BY <1>7, <1>8 DEF NotPrinted
  <2>2. PICK k \in at : TRUE
    BY <1>8
  <2> HIDE DEF b
  <2>3. k \in 1..b
    BY <2>1, <2>2
  <2>4. k > 0
    BY <2>1, <2>3
  <2>5. \A j \in 1..b : j \in 0..b
    BY <2>1
  <2>6. 0 \in 0..b
    BY <2>1
  <2>7. S \in SUBSET (0..b)
    BY <2>1, <2>5, <2>6
  <2> QED
    BY <2>2, <2>4, <2>7 DEF b
<1>10. PrintSequence(path, PrintOrder) = Max(S)
  BY DEF PrintSequence, S, at
<1> HIDE DEF S
<1>11. Max(S) > 0
  <2> DEFINE b == Len(PrintOrder)
  <2>1. b \in Nat /\ S \in SUBSET (0..b) /\ S # {}
    BY <1>7, <1>9
  <2> HIDE DEF b
  <2>2. Max(S) \in S /\ \A y \in S : y <= Max(S)
    BY <2>1, GreatestNumber
  <2> DEFINE top == Max(S)
  <2> HIDE DEF top
  <2>3. \A y \in S : y \in Nat
    BY <2>1
  <2>4. top \in Nat /\ \A y \in S : y \in Nat /\ y <= top
    BY <2>2, <2>3 DEF top
  <2>5. top > 0
    BY <1>9, <2>4
  <2> QED
    BY <2>5 DEF top
<1>12. Max(S) # NotPrinted
  BY <1>11 DEF NotPrinted
<1> QED
  BY <1>10, <1>12 DEF path

\* The second table is right.
LEMMA ProcessedAreRight == Validated /\ workflow = "ud_ip_exp" => ProcessedShowRows(working)
<1> SUFFICES ASSUME Validated, workflow = "ud_ip_exp", NEW m \in Mails,
                    NEW processed \in ProcessedDocuments(m)
             PROVE  /\ \A d \in ReadFrom(m, processed.pdf) :
                         processed.rows # {} =>
                           processed.rows = {i \in DOMAIN working : Doc[d].number \in working[i].shared}
                    /\ PathOf(m, processed.pdf) \in outcome[m].new /\ m \in PlannedGroups
                         => processed.sequence # NotPrinted
  BY DEF ProcessedShowRows
<1>1. PICK pdf \in ToSet(Mail[m].pdfs) :
        /\ ~outcome[m].blocked
        /\ processed = [pdf |-> pdf, rows |-> ProcessedRows(m, pdf),
                        sequence |-> PrintSequence(PathOf(m, pdf), PrintOrder)]
  BY DEF ProcessedDocuments
<1>2. /\ processed.pdf = pdf /\ processed.rows = ProcessedRows(m, pdf)
      /\ processed.sequence = PrintSequence(PathOf(m, pdf), PrintOrder)
  BY <1>1
<1>3. ASSUME NEW d \in ReadFrom(m, pdf), ProcessedRows(m, pdf) # {}
      PROVE  ProcessedRows(m, pdf) = Showing(working, d)
  <2>1. d \in DocsOf(m) /\ Doc[d].pdf = pdf
    BY DEF ReadFrom
  <2>2. /\ PapersTell /\ IInv /\ LedgerInv /\ NotesInv /\ CellsTell(working)
        /\ pc = "validating" /\ ~BringsTwins(m)
    BY DEF Validated
  <2> QED
    BY <1>1, <1>3, <2>1, <2>2, ProcessedShow
<1>4. ASSUME PathOf(m, pdf) \in outcome[m].new, m \in PlannedGroups
      PROVE  PrintSequence(PathOf(m, pdf), PrintOrder) # NotPrinted
  BY <1>1, <1>4, PrintedHasPlace DEF Validated
<1> QED
  BY <1>2, <1>3, <1>4 DEF Showing

\* So the sheet and the second table name the right rows.
LEMMA AnnotationsAreRight ==
  ASSUME NumbersTell, PapersTell, IInv, LedgerInv, NotesInv, CellsTell(sheet)
  PROVE  AnnotationsNameTheirRows
<1> SUFFICES ASSUME pc = "validating", \A m \in Mails : ~BringsTwins(m)
             PROVE  /\ \A list \in {Checklist} :
                         /\ UdsHaveEntries(list)
                         /\ EntriesShowRows(list, working)
                         /\ ~ChecklistFails(list)
                         /\ \A k \in DOMAIN list : ~Agrees(RemoveAt(list, k), list)
                    /\ workflow = "ud_ip_exp" => ProcessedShowRows(working)
  BY DEF AnnotationsNameTheirRows
<1>1. Validated
  BY AssignsTell DEF Validated
<1>2. \A k \in DOMAIN Checklist : ~Agrees(RemoveAt(Checklist, k), Checklist)
  BY ChecklistIs, MissingEntryIsSeen
<1> QED
  BY <1>1, <1>2, UdsAreEntered, EntriesAreRight, EntriesHaveRows, ProcessedAreRight

\* Where the documents tell their numbers apart, the amounts tell groups of rows
\* apart, a PDF holds one document and the workbook is in balance with every
\* number on its family at first, the operator notes on each printed document of
\* every run the rows that hold it and no others (build_print_annotation_checklist,
\* allocate_structured_ud_rows; the rows of a UD are those selected for it, and the
\* writes of the mails that follow leave them alone).
THEOREM AnnotationsTheorem ==
  ASSUME NumbersTell, AmountsTell, SheetsInBalance, PapersTell, SheetsTell
  PROVE  Spec => []AnnotationsNameTheirRows
<1>1. Init => BooksInv /\ NotesInv /\ CellsTell(sheet)
  BY InitBooks DEF Init, NotesInv, SheetsTell
<1>2. IInv /\ LedgerInv /\ BooksInv /\ [Next]_vars => BooksInv'
  BY NextBooks
<1>3. IInv /\ LedgerInv /\ BooksInv /\ NotesInv /\ [Next]_vars => NotesInv'
  BY NextNotes
<1>4. IInv /\ LedgerInv /\ CellsTell(sheet) /\ [Next]_vars => CellsTell(sheet)'
  BY NextCells
<1>5. IInv /\ LedgerInv /\ NotesInv /\ CellsTell(sheet) => AnnotationsNameTheirRows
  BY AnnotationsAreRight
<1> QED
  BY <1>1, <1>2, <1>3, <1>4, <1>5, InvTheorem, LedgerInvTheorem, PTL DEF Spec
===============================================================================
