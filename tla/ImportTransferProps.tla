------------------------- MODULE ImportTransferProps -------------------------
(***************************************************************************)
(* What the import command guarantees of the workbook and the mailbox.     *)
(***************************************************************************)
EXTENDS ImportTransfer

NumbersOfMail ==
  [m \in Mails |-> {Doc[d].number : d \in {e \in Docs : Doc[e].mail = m}}]

EntriesOf(wb) ==
  {<<r, wb.cells[r]["btb_lc_no"]>> :
     r \in {q \in Rows : wb.cells[q]["btb_lc_no"] \notin {Blank, Foreign}}}

Ledger == INSTANCE BtbRegister WITH
  Numbers <- {Doc[d].number : d \in Docs},
  Legible <- {e \in Rows \X {Doc[d].number : d \in Docs} : ReadsBack(e[1], e[2])},
  Carries <- NumbersOfMail,
  entries <- EntriesOf(disk),
  settled <- {m \in Mails : folder[m] = "import"}

\* Whatever fails and however often the command is started again, it enters a
\* BTB LC number on a free row only, once per batch and never where a row gives
\* it back as it was entered, replaces none, and takes a mail out of the working
\* folder only when the workbook file holds every number it carries
\* (allocate_import_btb_lc_documents, execute_import_btb_lc_writes,
\* _execute_import_current_mail_moves).
ImplementsBtbRegister == Ledger!Spec

\* No BTB LC number is in two rows, as docs/architecture.md:282 asks of the
\* detection of recorded numbers (_classify_workbook_duplicate).
NumberEnteredOnce ==
  \A r, q \in Rows :
    /\ disk.cells[r]["btb_lc_no"] \notin {Blank, Foreign}
    /\ disk.cells[q]["btb_lc_no"] = disk.cells[r]["btb_lc_no"]
    => q = r

\* A mail that nothing blocks: its documents are read, the register confirms
\* them, their files are in the store, no other document contradicts them,
\* and the workbook has recorded them in cells that give their numbers back.
Recorded(m) ==
  /\ m \in Relevant
  /\ NumbersOfMail[m] # {}
  /\ disk.headers
  /\ \A d \in {e \in Docs : Doc[e].mail = m} :
       /\ RecordedOnce(disk, d)
       /\ Promotable(d) => ~NameTaken(d)
       /\ \A e \in Docs : Doc[e].number = Doc[d].number => Signature(e) = Signature(d)
       /\ Extracted(d) /\ RegisterConfirms(d)

\* A mail whose documents are found in the workbook leaves the folder, also
\* when the command that recorded them died before it moved the mail: the next
\* one finds them in the workbook and takes them for duplicates
\* (_classify_workbook_duplicate).  Only a header somebody renames keeps it.
RecordedMailLeaves ==
  \A m \in Relevant : Recorded(m) ~> folder[m] = "import" \/ ~disk.headers

\* A save of the command changes no cell but the import cells of the rows it
\* has staged.
OnlyStagedCellsChange ==
  [][disk' # disk /\ edits' = edits =>
       \A r \in Rows, k \in Keys :
         disk'.cells[r][k] # disk.cells[r][k] =>
           /\ k \in ImportKeys
           /\ disk.cells[r][k] = Blank
           /\ \E p \in plan : Target(disk, p) = r]_vars
=============================================================================
