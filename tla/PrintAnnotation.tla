--------------------------- MODULE PrintAnnotation ---------------------------
(***************************************************************************)
(* The print plan of a run and the operator's sheet that goes with it: for *)
(* every printed document of export_lc_sc and ud_ip_exp the workbook rows  *)
(* to note on it, and for ud_ip_exp a second table of all documents the    *)
(* run has processed.  The operators are of a run whose mails have all     *)
(* been validated; the sheet is made right after its batch is written.     *)
(***************************************************************************)
EXTENDS MailValidation

\* The mails with a print group, in print order.
PlannedGroups ==
  {m \in Mails : /\ ~outcome[m].blocked
                 /\ \E op \in plan : op.mail = m
                 /\ outcome[m].new # {}}

PrintsBefore ==
  {p \in PlannedGroups \X PlannedGroups :
     \/ EarliestRow(p[1]) < EarliestRow(p[2])
     \/ EarliestRow(p[1]) = EarliestRow(p[2]) /\ p[1] < p[2]}

GroupOrder == Listed(PlannedGroups, PrintsBefore)

\* Numbers in order, and the elements of a sequence that are in a set.
Ascending(S) == Listed(S, {p \in S \X S : p[1] < p[2]})

Only(seq, S) ==
  LET at == Ascending({i \in DOMAIN seq : seq[i] \in S})
  IN  [k \in DOMAIN at |-> seq[at[k]]]

PathOf(m, pdf) == <<VerifiedFamily(m), pdf>>

\* The newly saved documents of a mail, in the order of its attachments.
PrintedPdfs(m) == Only(Mail[m].pdfs, {p \in Pdfs : PathOf(m, p) \in outcome[m].new})

\* What was read from a document: at most one per PDF, none in supporting ones.
ReadFrom(m, pdf) == {d \in DocsOf(m) : Doc[d].pdf = pdf}

StagedRows(m) == {op.row : op \in {o \in plan : o.mail = m}}

\* The workbook a mail was validated against: the run's snapshot with the
\* writes of the mails before it.
SnapshotOf(m) == Applied(sheet, {op \in plan : op.mail < m})
-----------------------------------------------------------------------------
(* ud_ip_exp: the rows selected for a document. *)

\* The rows selected for each document that is kept, on the snapshot after the
\* documents before it.
Selections(m, rows) ==
  LET kept == Kept(m)
      Before(k) == StagedAfter(m, rows)[k - 1]
      Selected(k) == Allocation(Before(k).rows, VerifiedFamily(m), Doc[kept[k]],
                                Before(k).excluded)
  IN  [d \in ToSet(kept) |-> Selected(CHOOSE k \in DOMAIN kept : kept[k] = d).rows]

\* The selections of two documents or more are kept by document.
SelectedByDocument(m) ==
  DocsOf(m) = OfKind(DocsOf(m), {"UD"}) /\ Len(Kept(m)) > 1

\* Those of one are found again in the writes: by the number in the cell,
\* which for IP and EXP documents is never the number alone.
StagedUnder(m, d) ==
  {op.row : op \in {o \in plan : o.mail = m /\ o.shared = {Doc[d].number}
                                 /\ Doc[d].kind = "UD"}}

RowsIn(selections, docs) ==
  UNION {selections[d] : d \in docs \cap DOMAIN selections}

\* Fault: the rows of the mail stand for those of each of its documents.
SelectedForMail(m, pdf) == StagedRows(m)

SelectedFor(m, pdf) ==
  LET docs == ReadFrom(m, pdf)
      under == UNION {StagedUnder(m, d) : d \in DocsOf(m)}
  IN  IF SelectedByDocument(m)
        THEN RowsIn(Selections(m, SnapshotOf(m)), docs)
      ELSE IF under # {} THEN UNION {StagedUnder(m, d) : d \in docs}
      ELSE IF Len(Mail[m].pdfs) = 1 THEN StagedRows(m)
      ELSE {}

\* A UD document must have its row; others have one when rows were selected.
RowRequired(m, pdf, rows) == OfKind(ReadFrom(m, pdf), {"UD"}) # {} \/ rows # {}
-----------------------------------------------------------------------------
(* The sheet: entries in print order. *)

IsExport(m) == Mail[m].workflow = "export_lc_sc"

\* The rows noted on the printed documents of a mail: of an export mail all it
\* has written.
AnnotatedRows(m) ==
  [pdf \in ToSet(PrintedPdfs(m)) |-> IF IsExport(m) THEN StagedRows(m) ELSE SelectedFor(m, pdf)]

\* export_lc_sc: an entry per row, with the documents that it is noted on.
RowSources(noted) ==
  [row \in UNION Range(noted) |-> {pdf \in DOMAIN noted : row \in noted[pdf]}]

EntriesByRow(m, sources) ==
  LET rows == Ascending(DOMAIN sources)
  IN  [k \in DOMAIN rows |-> [mail |-> m, rows |-> {rows[k]}, pdfs |-> sources[rows[k]]]]

\* ud_ip_exp: an entry per document that must have one.
UdEntries(m, noted) ==
  LET required == Only(PrintedPdfs(m), {p \in DOMAIN noted : RowRequired(m, p, noted[p])})
  IN  [k \in DOMAIN required |->
         [mail |-> m, rows |-> noted[required[k]], pdfs |-> {required[k]}]]

EntriesOf(m, noted) ==
  IF IsExport(m) THEN EntriesByRow(m, RowSources(noted)) ELSE UdEntries(m, noted)

Entries(m) == EntriesOf(m, AnnotatedRows(m))

ChecklistOf(groups) == FlattenSeq([k \in DOMAIN groups |-> Entries(groups[k])])

Checklist == ChecklistOf(GroupOrder)

\* An entry without rows fails the sheet, and with it the print phase.
ChecklistFails(list) == \E k \in DOMAIN list : list[k].rows = {}

\* What execute-print compares of a sheet with the plan: the rows of export
\* documents in any order, the UD documents in order.
Agrees(list, expected) ==
  LET of(c) == IF workflow = "export_lc_sc" THEN ToSet(c)
               ELSE {<<k, {PathOf(c[k].mail, p) : p \in c[k].pdfs}>> : k \in DOMAIN c}
  IN  of(list) = of(expected) /\ Len(list) = Len(expected)
-----------------------------------------------------------------------------
(* The second table of ud_ip_exp: the documents of all mails that pass, also *)
(* those not printed.  Those of blocked mails come without rows.           *)

\* All documents in the order they are printed in.
PathsOf(m, pdfs) == [i \in DOMAIN pdfs |-> PathOf(m, pdfs[i])]

OrderOf(groups) ==
  FlattenSeq([k \in DOMAIN groups |-> PathsOf(groups[k], PrintedPdfs(groups[k]))])

PrintOrder == OrderOf(GroupOrder)

NotPrinted == 0

\* The last document of a path tells its number.
PrintSequence(path, order) == Max({NotPrinted} \cup {k \in DOMAIN order : order[k] = path})

\* The rows of its selection; of IP and EXP documents those of the mail.
ProcessedRows(m, pdf) ==
  SelectedFor(m, pdf)
    \cup (IF OfKind(ReadFrom(m, pdf), {"IP", "EXP"}) # {} THEN StagedRows(m) ELSE {})

ProcessedDocuments(m) ==
  {[pdf |-> pdf, rows |-> ProcessedRows(m, pdf), sequence |-> PrintSequence(PathOf(m, pdf), PrintOrder)] :
     pdf \in {p \in ToSet(Mail[m].pdfs) : ~outcome[m].blocked /\ ReadFrom(m, p) # {}}}
=============================================================================
