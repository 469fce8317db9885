------------------------ MODULE MailValidationProps ------------------------
(***************************************************************************)
(* What runs of export_lc_sc and ud_ip_exp guarantee of the workbook, the  *)
(* printed documents and the mails.                                        *)
(***************************************************************************)
EXTENDS PrintAnnotation

RowsOf(f) == {i \in DOMAIN sheet : sheet[i].file = f}

NumbersUnder(f) == UNION {sheet[i].shared : i \in RowsOf(f)}

UdsOf(m) ==
  {[number |-> Doc[d].number, lc |-> Doc[d].lc, value |-> Doc[d].value,
    date |-> Doc[d].date] : d \in OfKind(DocsOf(m), {"UD"})}

CoversOf(m) ==
  LET docs == OfKind(DocsOf(m), {"IP", "EXP"})
  IN  {[lc |-> Doc[d].lc, numbers |-> {Doc[e].number : e \in docs}] : d \in docs}

Ledger == INSTANCE FamilyLedger WITH
  Files <- DOMAIN Erp,
  Family <- [f \in DOMAIN Erp |-> Erp[f].lc],
  Value <- [f \in DOMAIN Erp |-> Erp[f].value],
  Files_of <- [m \in Mails |-> IF Mail[m].workflow = "export_lc_sc"
                                 THEN ToSet(Body(m)) ELSE {}],
  Uds_of <- [m \in Mails |-> UdsOf(m)],
  Covers_of <- [m \in Mails |-> CoversOf(m)],
  copies <- [f \in DOMAIN Erp |-> Cardinality(RowsOf(f))],
  claims <- [f \in DOMAIN Erp |-> NumbersUnder(f)],
  settled <- moved

\* The runs enter a file once, put each row under one document of its family and
\* never under another, and move a mail only when the files it named, and some
\* row for each of its documents, are in the workbook (validate_run_snapshot,
\* stage_export_append_operations, execute_mail_moves).
ImplementsEntryLedger == Ledger!Spec

\* Whatever dies or fails between two runs and whatever others sort, add or
\* take away, the runs enter a file once, put each row under one document and
\* never under another, keep the amounts under a number equal to documents of
\* that number, and move a mail only when the workbook holds what it brought
\* (validate_run_snapshot, stage_export_append_operations,
\* allocate_structured_ud_rows, execute_mail_moves).
ImplementsFamilyLedger == Ledger!BalancedSpec

-----------------------------------------------------------------------------
(* What amounts and rows rest on, besides the code. *)

UdDocs == OfKind(Docs, {"UD"})

\* The rows of a family under a number.
RowsUnder(rows, lc, number) == {i \in FamilyRows(rows, lc) : rows[i].shared = {number}}

\* The rows of a group show a document and make up its amounts.
MakesUp(rows, group, doc) ==
  /\ \A i \in group : ShowsDocument(rows[i], doc)
  /\ Near(ValueOf(rows, group), doc.value)
  /\ QuantitiesAgree(rows, group, doc)

\* The rows under the number of a UD make up one of that number.
Balances(rows, d) ==
  LET group == RowsUnder(rows, Doc[d].lc, Doc[d].number)
  IN  group # {} =>
        \E e \in UdDocs : /\ Doc[e].number = Doc[d].number /\ Doc[e].lc = Doc[d].lc
                          /\ Allocatable(Doc[e])
                          /\ MakesUp(rows, group, Doc[e])

InBalance(rows) == \A d \in UdDocs : Balances(rows, d)

\* Within a family the number of a UD is that of no IP or EXP document, and of
\* no UD of another date or amount.
NumbersTell ==
  \A d \in UdDocs : \A e \in Docs :
    Doc[e].number = Doc[d].number /\ Doc[e].lc = Doc[d].lc =>
      /\ e \in UdDocs
      /\ Allocatable(Doc[d]) /\ Allocatable(Doc[e]) =>
           /\ Doc[e].date = Doc[d].date /\ Doc[e].value = Doc[d].value
           /\ Doc[e].quantity = Doc[d].quantity

\* No row is worth so little that a group is near a value with and without it.
AmountsTell == \A f \in DOMAIN Erp : Erp[f].value > 2 * Tolerance

\* What the runs find in the workbook at first is in balance.
SheetsInBalance == \A rows \in InitialSheets : InBalance(rows)

\* A number is that of one family, and a PDF holds one document at most.
PapersTell ==
  \A d, e \in Docs :
    /\ Doc[d].number = Doc[e].number => Doc[d].lc = Doc[e].lc
    /\ Doc[d].mail = Doc[e].mail /\ Doc[d].pdf = Doc[e].pdf => d = e

\* The number of a document stands on rows of its family, that of a UD alone.
CellsTell(rows) ==
  \A i \in DOMAIN rows, d \in Docs :
    Doc[d].number \in rows[i].shared =>
      /\ i \in FamilyRows(rows, Doc[d].lc)
      /\ d \in UdDocs => rows[i].shared = {Doc[d].number}

\* It does in what the runs find in the workbook at first.
SheetsTell == \A rows \in InitialSheets : CellsTell(rows)
-----------------------------------------------------------------------------
(* The validation of the mails and the sheet for the operator. *)

\* Nothing the run stages for a mail is lost to a later mail: the snapshot the
\* mails are validated against is the workbook as the whole batch leaves it.
WorkingSnapshotIsOutcome ==
  pc \in {"validating", "printing"} =>
    working = Applied(sheet, plan)

\* The rows that the written workbook has for the documents of an entry.
RowsHolding(rows, entry) ==
  IF IsExport(entry.mail)
    THEN {i \in DOMAIN rows : rows[i].file \in ToSet(Body(entry.mail)) \ FilesIn(SnapshotOf(entry.mail))}
  ELSE {i \in DOMAIN rows :
          \E d \in DocsOf(entry.mail) : /\ Doc[d].pdf \in entry.pdfs
                                        /\ rows[i].shared = {Doc[d].number}}

\* A mail has two PDFs of one document.
BringsTwins(m) == \E d \in OfKind(DocsOf(m), {"UD"}) : Twins(m, d) # {d}

EntriesWith(list, m, pdf) == {entry \in ToSet(list) : entry.mail = m /\ pdf \in entry.pdfs}

\* Every printed UD has an entry.
UdsHaveEntries(list) ==
  \A m \in PlannedGroups, d \in Docs :
    (Doc[d].mail = m /\ Doc[d].kind = "UD" /\ PathOf(m, Doc[d].pdf) \in outcome[m].new)
      => EntriesWith(list, m, Doc[d].pdf) # {}

\* The entries of a document show the rows that hold it.
EntriesShowRows(list, rows) ==
  \A m \in PlannedGroups : \A pdf \in ToSet(PrintedPdfs(m)) :
    LET entries == EntriesWith(list, m, pdf)
    IN  entries # {} =>
          UNION {e.rows : e \in entries} = UNION {RowsHolding(rows, e) : e \in entries}

\* So does the second table.
ProcessedShowRows(rows) ==
  \A m \in Mails : \A processed \in ProcessedDocuments(m) :
    /\ \A d \in ReadFrom(m, processed.pdf) :
         processed.rows # {} =>
           processed.rows = {i \in DOMAIN rows : Doc[d].number \in rows[i].shared}
    /\ PathOf(m, processed.pdf) \in outcome[m].new /\ m \in PlannedGroups
         => processed.sequence # NotPrinted

\* The operator notes on each printed document the workbook rows that hold it
\* and no others: for export mails together the rows of the files the mail has
\* added, for a UD those under its number, whether the run has written them or
\* found them; every printed document of these kinds has its entry, the sheet
\* is not refused for want of rows, and the second table shows the same rows
\* and the number under which a document is printed, and execute-print refuses a
\* sheet from which an entry is missing (build_print_annotation_checklist,
\* validate_print_annotation_checklist).
AnnotationsNameTheirRows ==
  (pc = "validating" /\ queue = <<>> /\ \A m \in Mails : ~BringsTwins(m)) =>
    /\ \A list \in {Checklist} :
         /\ UdsHaveEntries(list)
         /\ EntriesShowRows(list, working)
         /\ ~ChecklistFails(list)
         /\ \A k \in DOMAIN list : ~Agrees(RemoveAt(list, k), list)
    /\ workflow = "ud_ip_exp" => ProcessedShowRows(working)

\* The workbook holds what the mail brought.
Recorded(m) ==
  /\ FamilyRulesPass(m)
  /\ IF Mail[m].workflow = "export_lc_sc" THEN ToSet(Body(m)) \subseteq FilesIn(sheet)
     ELSE /\ Storable(m)
          /\ UdsOf(m) # {}
          /\ \E staging \in {Staging(m, sheet)} : ~staging.blocked /\ staging.ops = {}

\* A mail whose content the workbook holds for good leaves its folder, though
\* runs die and fail before it does.
RecordedMailLeaves == \A m \in Mails : <>[]Recorded(m) => <>(m \in moved)

\* The same of a mail with IP and EXP documents.
RecordedCoverLeaves ==
  \A m \in Mails :
    (CoversOf(m) # {} /\ UdsOf(m) = {}) =>
      (<>[](FamilyRulesPass(m) /\ IpExpRulesPass(m)
            /\ LET staging == IpExpStaging(m, sheet)
               IN  staging.ops = {} /\ ~staging.blocked)
         => <>(m \in moved))

\* A mail that wrote rows in its run does not move before its documents are
\* on paper.
WrittenMailIsPrinted ==
  pc = "moving" =>
    \A m \in moved : outcome[m].disposition = "new_writes_staged" /\ ~outcome[m].blocked
      => Paths(m, Len(Mail[m].pdfs)) \subseteq printed
=============================================================================
