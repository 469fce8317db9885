--------------------------- MODULE ImportTransfer ---------------------------
(***************************************************************************)
(* The Current Full Path of import_btb_lc: one command that snapshots the  *)
(* working folder and the workbook, acquires the documents of the relevant *)
(* mails, allocates a workbook row to each, writes the batch in an Excel   *)
(* session of its own, moves the mails and writes its report.  It keeps    *)
(* no run state: a command that dies is started again and finds out from   *)
(* the workbook, the document store and the mailbox what was done before.  *)
(***************************************************************************)
EXTENDS Integers, FiniteSets, Sequences, Functions

CONSTANTS
  Mails,         \* mails that ever reach the working folder, by snapshot index
  Relevant,      \* the mails whose subject matches the import keywords
  Docs,          \* their PDF attachments
  Doc,           \* what is in a document: a record, see DocAssumption
  PIs,           \* seller PI numbers
  Register,      \* the ERP import PI register: the rows of a PI, aggregated
  Rows,          \* workbook rows, whatever their current position
  Row,           \* of a row: LC, export amount, number cell formatted as text
  DigitNumbers,  \* the BTB LC numbers that consist of digits only
  Orders,        \* the orders the rows may stand in at first
  EditKinds,     \* what others do to the workbook: "cells", "rows", "columns"
                 \* between commands, "columns_in_use" while one is under way
  MaxEdits,      \* bound on their edits
  MaxFaults      \* bound on crashes and failing services

\* Blank cells and missing data are 0.
Blank == 0

\* What somebody else types: no document carries it.
Foreign == 99

Extractions == {"pass", "warning", "hard_block", "incomplete", "unreadable"}

ASSUME MailAssumption ==
  /\ Mails \subseteq Nat
  /\ Relevant \subseteq Mails
ASSUME DocAssumption ==
  Doc \in [Docs -> [mail : Mails, attachment : Nat, extraction : Extractions,
                    dated : BOOLEAN, file : Nat, content : Nat \ {Blank},
                    number : Nat \ {Blank, Foreign}, date : Nat \ {Blank},
                    value : Nat \ {Blank}, currency : Nat, pis : Seq(PIs), lc : Nat]]
ASSUME RegisterAssumption ==
  /\ IsFiniteSet(PIs)
  /\ Register \in [PIs -> [rows : Nat, valid : BOOLEAN, amount : Nat, quantity : Nat]]
ASSUME RowAssumption ==
  /\ IsFiniteSet(Rows)
  /\ Row \in [Rows -> [lc : Nat, export : Nat, text : BOOLEAN]]
  /\ Orders \subseteq Bijection(1..Cardinality(Rows), Rows)
ASSUME BoundAssumption == MaxEdits \in Nat /\ MaxFaults \in Nat

VARIABLES
  disk,       \* the workbook file
  folder,     \* the folder each mail is in
  store,      \* the import document store: the content under each file name
  pc,         \* where the command stands
  live,       \* it was started by the live launcher
  mails,      \* its mail snapshot
  snap,       \* its workbook snapshot
  todo,       \* documents not acquired yet
  documents,  \* documents acquired and extracted
  blocked,    \* mails with an acquisition discrepancy
  outcome,    \* decision on each document
  accepted,   \* documents whose signature was accepted in this run
  plan,       \* the staged write plan: a row position for a document
  book,       \* the workbook in the memory of the Excel session
  status,     \* status of the write execution
  toMove,     \* eligible mails not moved yet
  edits,      \* edits made by others so far
  faults      \* crashes and service failures so far

run == <<pc, live, mails, snap, todo, documents, blocked, outcome, accepted, plan,
         book, status, toMove>>
world == <<disk, folder, store>>
vars == <<world, run, edits, faults>>
-----------------------------------------------------------------------------
\* The four columns the workflow writes, and UP No. which it must find blank.
ImportKeys == {"btb_lc_no", "btb_lc_issue_date", "import_amount", "quantity_kgs"}
Keys == ImportKeys \cup {"up_no"}

\* Columns are named after the header that stood in them at first; a header
\* that moves takes its cells along.  import_amount is looked up at column 22.
Columns == Keys
Positions == 1..Cardinality(Rows)

Books == [order : [Positions -> Rows],              \* which row is where
          column : [Keys -> Columns],               \* where a header stands
          headers : BOOLEAN,                        \* every header resolves
          cells : [Rows -> [Keys -> Nat]]]

\* A header mapping resolved from one workbook, applied to another.
KeyUnder(key, mapped, current) == CHOOSE k \in Keys : current[k] = mapped[key]

BlankBook(order) ==
  [order |-> order, column |-> [k \in Keys |-> k], headers |-> TRUE,
   cells |-> [r \in Rows |-> [k \in Keys |-> Blank]]]

Outcomes == {"none", "hard_block", "duplicate", "staged"}
Statuses == {"none", "not_requested", "no_writes", "hard_blocked_no_write",
             "uncertain_not_committed", "committed"}
Steps == {"idle", "acquiring", "allocating", "writing", "opened",
          "prevalidated", "applied", "closed", "moving", "reporting"}

TypeOK ==
  /\ disk \in Books /\ snap \in Books /\ book \in Books
  /\ folder \in [Mails -> {"working", "import"}]
  /\ store \in [{Doc[d].file : d \in Docs} -> Nat]
  /\ pc \in Steps /\ live \in BOOLEAN
  /\ mails \subseteq Mails /\ blocked \subseteq Mails /\ toMove \subseteq Mails
  /\ todo \subseteq Docs /\ documents \subseteq Docs /\ accepted \subseteq Docs
  /\ outcome \in [Docs -> Outcomes]
  /\ plan \in SUBSET [doc : Docs, row : Positions]
  /\ status \in Statuses
  /\ edits \in 0..MaxEdits
  /\ faults \in 0..MaxFaults
-----------------------------------------------------------------------------
(* Validation of one document against the register and a workbook. *)

OneOf(pis) == CHOOSE p \in pis : TRUE

Total(field, pis) ==
  LET sum[s \in SUBSET pis] ==
        IF s = {} THEN 0 ELSE Register[OneOf(s)][field] + sum[s \ {OneOf(s)}]
  IN  sum[pis]

\* The seller PIs of a document, whatever their order.
Sellers(d) == Range(Doc[d].pis)

Quantity(d) == Total("quantity", Sellers(d))

\* Every seller PI is listed, its rows are decimals, and together they amount
\* to exactly the value of the BTB LC.
RegisterConfirms(d) ==
  /\ \A p \in Sellers(d) : Register[p].valid /\ Register[p].rows > 0
  /\ Total("amount", Sellers(d)) = Doc[d].value

\* The same letter twice: seller PIs in another order make it another one.
Signature(d) ==
  <<Doc[d].number, Doc[d].date, Doc[d].value, Doc[d].currency, Doc[d].pis, Doc[d].lc>>

\* Excel keeps digits as a floating-point number unless the cell is formatted
\* as text, and a number is read back with a decimal point: its string is not
\* the one that was written.
ReadsBack(r, n) == n \in DigitNumbers => Row[r].text

\* The rows in which a number is found: strings are compared.
RowsWithNumber(wb, n) ==
  {r \in Rows : wb.cells[r]["btb_lc_no"] = n /\ ReadsBack(r, n)}

\* The row confirms the document; its quantity and PIs are not looked at.
RowConfirms(wb, r, d) ==
  /\ Row[r].lc = Doc[d].lc
  /\ wb.cells[r]["import_amount"] = Doc[d].value
  /\ wb.cells[r]["btb_lc_issue_date"] \in {Blank, Doc[d].date}

RecordedOnce(wb, d) ==
  \E r \in Rows : RowsWithNumber(wb, Doc[d].number) = {r} /\ RowConfirms(wb, r, d)

\* Between 40% and 80% of the export amount, both included.
ValueEligible(r, d) ==
  /\ Row[r].export > 0
  /\ 40 * Row[r].export <= 100 * Doc[d].value
  /\ 100 * Doc[d].value <= 80 * Row[r].export

RowEligible(wb, r, d) ==
  /\ Row[r].lc = Doc[d].lc
  /\ \A k \in Keys : wb.cells[r][k] = Blank
  /\ ValueEligible(r, d)

ReservedRows == {p.row : p \in plan}

CandidateRows(d) ==
  {i \in Positions \ ReservedRows : RowEligible(snap, snap.order[i], d)}

\* Mutation: the index of the row instead of its number.
SelectedIndex(d) == CHOOSE i \in 0..Cardinality(Rows) : i + 1 \in CandidateRows(d)

\* The highest percentage, that is the smallest export amount, then the
\* first row.
SelectedRow(d) ==
  CHOOSE i \in CandidateRows(d) : \A j \in CandidateRows(d) :
    LET x == Row[snap.order[i]].export
        y == Row[snap.order[j]].export
    IN x < y \/ (x = y /\ i <= j)

\* Acquisition goes by snapshot index and attachment, allocation by export
\* LC, value (largest first) and number.
AcquiredBefore(d, e) ==
  \/ Doc[d].mail < Doc[e].mail
  \/ Doc[d].mail = Doc[e].mail /\ Doc[d].attachment <= Doc[e].attachment

AllocatedBefore(d, e) ==
  \/ Doc[d].lc < Doc[e].lc
  \/ /\ Doc[d].lc = Doc[e].lc
     /\ \/ Doc[d].value > Doc[e].value
        \/ /\ Doc[d].value = Doc[e].value
           /\ \/ Doc[d].number < Doc[e].number
              \/ Doc[d].number = Doc[e].number /\ AcquiredBefore(d, e)
-----------------------------------------------------------------------------
Init ==
  /\ \E order \in Orders : disk = BlankBook(order)
  /\ folder = [m \in Mails |-> "working"]
  /\ store = [f \in {Doc[d].file : d \in Docs} |-> Blank]
  /\ pc = "idle" /\ live = FALSE /\ status = "none"
  /\ mails = {} /\ todo = {} /\ documents = {} /\ blocked = {}
  /\ outcome = [d \in Docs |-> "none"]
  /\ accepted = {} /\ plan = {} /\ toMove = {}
  /\ snap = disk /\ book = disk
  /\ edits = 0 /\ faults = 0

\* A fault that the bound still allows.
Fault == faults < MaxFaults /\ faults' = faults + 1

\* The operator starts the command: the mails of the working folder and the
\* workbook are snapshot; the PDFs of the relevant mails are to be acquired.
\* The live launcher asks for writing and for moving.
StartRun(launcher) ==
  /\ pc = "idle"
  /\ \E m \in Mails : folder[m] = "working"
  /\ live' = launcher
  /\ mails' = {m \in Mails : folder[m] = "working"}
  /\ snap' = disk
  /\ todo' = {d \in Docs : Doc[d].mail \in mails' \cap Relevant}
  /\ blocked' = {m \in mails' \cap Relevant : \A d \in Docs : Doc[d].mail # m}
  /\ documents' = {} /\ accepted' = {} /\ plan' = {} /\ toMove' = {}
  /\ outcome' = [d \in Docs |-> "none"]
  /\ status' = "none"
  /\ pc' = "acquiring"
  /\ UNCHANGED <<world, book, edits, faults>>

\* The operator picks PDFs of the document store, one or the whole folder,
\* instead of mails: there is nothing to move when their batch is written.
PickedFiles(files) ==
  {d \in Docs : Doc[d].file \in files /\ Doc[d].extraction # "unreadable" /\
     d = CHOOSE e \in Docs : Doc[e].file = Doc[d].file /\ Doc[e].content = store[Doc[d].file]}

StartPicker(files) ==
  /\ pc = "idle"
  /\ PickedFiles(files) # {}
  /\ live' = TRUE
  /\ mails' = {} /\ todo' = {} /\ blocked' = {}
  /\ snap' = disk
  /\ documents' = PickedFiles(files)
  /\ accepted' = {} /\ plan' = {} /\ toMove' = {}
  /\ outcome' = [d \in Docs |-> "none"]
  /\ status' = "none"
  /\ pc' = "allocating"
  /\ UNCHANGED <<world, book, edits, faults>>

NextToAcquire(d) == d \in todo /\ \A e \in todo : AcquiredBefore(d, e)

\* Promotion into the store under the year of the BTB LC: the file is kept if
\* it is the same, and a different one of that name is never overwritten.
Promotable(d) == Doc[d].extraction # "hard_block" /\ Doc[d].dated
NameTaken(d) == store[Doc[d].file] \notin {Blank, Doc[d].content}

\* Save the attachment, extract it, promote it.
AcquireDocument(d) ==
  /\ pc = "acquiring" /\ NextToAcquire(d)
  /\ todo' = todo \ {d}
  /\ IF Doc[d].extraction = "unreadable"
     THEN blocked' = blocked \cup {Doc[d].mail} /\ UNCHANGED <<documents, store>>
     ELSE /\ documents' = documents \cup {d}
          /\ IF Promotable(d) /\ ~NameTaken(d)
             THEN store' = [store EXCEPT ![Doc[d].file] = Doc[d].content]
             ELSE UNCHANGED store
          /\ blocked' = IF Promotable(d) /\ NameTaken(d)
                        THEN blocked \cup {Doc[d].mail} ELSE blocked
  /\ UNCHANGED <<disk, folder, pc, live, mails, snap, outcome, accepted, plan, book,
                 status, toMove, edits, faults>>

\* Any exception is a discrepancy of the mail.  When it is the promotion that
\* fails, the document has already joined the batch.
AcquisitionFails(d) ==
  /\ pc = "acquiring" /\ NextToAcquire(d) /\ Fault
  /\ todo' = todo \ {d}
  /\ blocked' = blocked \cup {Doc[d].mail}
  /\ \/ UNCHANGED documents
     \/ /\ Doc[d].extraction # "unreadable" /\ Promotable(d)
        /\ documents' = documents \cup {d}
  /\ UNCHANGED <<world, pc, live, mails, snap, outcome, accepted, plan, book, status,
                 toMove, edits>>

FinishAcquisition ==
  /\ pc = "acquiring" /\ todo = {}
  /\ pc' = "allocating"
  /\ UNCHANGED <<world, live, mails, snap, todo, documents, blocked, outcome,
                 accepted, plan, book, status, toMove, edits, faults>>
-----------------------------------------------------------------------------
NextToAllocate(d) ==
  LET waiting == {e \in documents : outcome[e] = "none"}
  IN d \in waiting /\ \A e \in waiting : AllocatedBefore(d, e)

Decide(d, decision) ==
  /\ outcome' = [outcome EXCEPT ![d] = decision]
  /\ UNCHANGED <<world, pc, live, mails, snap, todo, documents, blocked, book,
                 status, toMove, edits>>

\* The document accepted earlier in the run under the same number.
AcceptedTwin(d) == {e \in accepted : Doc[e].number = Doc[d].number}

Extracted(d) == Doc[d].extraction \in {"pass", "warning"}

\* What the decision on a document comes to when the register answers.
Decision(d) ==
  IF ~snap.headers \/ ~Extracted(d) THEN "hard_block"
  ELSE IF AcceptedTwin(d) # {}
       THEN IF \E e \in AcceptedTwin(d) : Signature(e) = Signature(d)
            THEN "duplicate" ELSE "hard_block"
  ELSE IF ~RegisterConfirms(d) THEN "hard_block"
  ELSE IF RowsWithNumber(snap, Doc[d].number) # {}
       THEN IF RecordedOnce(snap, d) THEN "duplicate" ELSE "hard_block"
  ELSE IF CandidateRows(d) = {} THEN "hard_block" ELSE "staged"

AllocateDocument(d) ==
  /\ pc = "allocating" /\ NextToAllocate(d)
  /\ Decide(d, Decision(d))
  /\ accepted' = IF Decision(d) \in {"duplicate", "staged"} /\ AcceptedTwin(d) = {}
                 THEN accepted \cup {d} ELSE accepted
  /\ plan' = IF Decision(d) = "staged"
             THEN plan \cup {[doc |-> d, row |-> SelectedRow(d)]} ELSE plan
  /\ UNCHANGED faults

\* The register cannot be loaded when it is asked for the PIs of the document.
RegisterUnavailable(d) ==
  /\ pc = "allocating" /\ NextToAllocate(d)
  /\ snap.headers /\ Extracted(d) /\ AcceptedTwin(d) = {}
  /\ Fault
  /\ Decide(d, "hard_block")
  /\ UNCHANGED <<accepted, plan>>

\* Without --apply-live-writes nothing is written.
FinishAllocation ==
  /\ pc = "allocating"
  /\ \A d \in documents : outcome[d] # "none"
  /\ \/ ~live /\ pc' = "closed" /\ status' = "not_requested"
     \/ plan = {} /\ pc' = "closed" /\ status' = "no_writes"
     \/ plan # {} /\ pc' = "writing" /\ UNCHANGED status
  /\ UNCHANGED <<world, live, mails, snap, todo, documents, blocked, outcome,
                 accepted, plan, book, toMove, edits, faults>>
-----------------------------------------------------------------------------
(* The write session.  Excel has the file to itself while it is open. *)

Target(wb, p) == wb.order[p.row]

CellValue(d, key) ==
  CASE key = "btb_lc_no" -> Doc[d].number
    [] key = "btb_lc_issue_date" -> Doc[d].date
    [] key = "import_amount" -> Doc[d].value
    [] key = "quantity_kgs" -> Quantity(d)

EndWrites(result) ==
  /\ status' = result
  /\ pc' = "closed"

OpenSession ==
  /\ pc = "writing"
  /\ book' = disk
  /\ pc' = "opened"
  /\ UNCHANGED <<world, live, mails, snap, todo, documents, blocked, outcome,
                 accepted, plan, status, toMove, edits, faults>>

OpenFails ==
  /\ pc = "writing" /\ Fault
  /\ EndWrites("hard_blocked_no_write")
  /\ UNCHANGED <<world, live, mails, snap, todo, documents, blocked, outcome,
                 accepted, plan, book, toMove, edits>>

\* The headers are resolved once more and every target cell must be blank:
\* of the row nothing else is looked at.
\* Mutation: only the number cell is looked at.
NumbersBlank == \A p \in plan : book.cells[Target(book, p)]["btb_lc_no"] = Blank

TargetsBlank ==
  \A p \in plan, k \in ImportKeys : book.cells[Target(book, p)][k] = Blank

PrevalidateTargets ==
  /\ pc = "opened"
  /\ IF book.headers /\ TargetsBlank
     THEN pc' = "prevalidated" /\ UNCHANGED status
     ELSE EndWrites("hard_blocked_no_write")
  /\ UNCHANGED <<world, live, mails, snap, todo, documents, blocked, outcome,
                 accepted, plan, book, toMove, edits, faults>>

\* The cells are addressed by the row position of the plan and by the columns
\* of the mapping resolved before the session.
WrittenCells ==
  [r \in Rows |-> [k \in Keys |->
     IF \E p \in plan, key \in ImportKeys :
          Target(book, p) = r /\ KeyUnder(key, snap.column, book.column) = k
     THEN LET p == CHOOSE p \in plan : Target(book, p) = r
              key == CHOOSE key \in ImportKeys :
                       KeyUnder(key, snap.column, book.column) = k
          IN CellValue(p.doc, key)
     ELSE book.cells[r][k]]]

ApplyWrites ==
  /\ pc = "prevalidated"
  /\ book' = [book EXCEPT !.cells = WrittenCells]
  /\ pc' = "applied"
  /\ UNCHANGED <<world, live, mails, snap, todo, documents, blocked, outcome,
                 accepted, plan, status, toMove, edits, faults>>

\* A cell reads back differently: the session is closed without saving.  The
\* probes compare decimals, so digits that became a number do not count.
ProbeMismatch ==
  /\ pc = "applied" /\ Fault
  /\ EndWrites("uncertain_not_committed")
  /\ UNCHANGED <<world, live, mails, snap, todo, documents, blocked, outcome,
                 accepted, plan, book, toMove, edits>>

SaveWorkbook ==
  /\ pc = "applied"
  /\ disk' = book
  /\ EndWrites("committed")
  /\ UNCHANGED <<folder, store, live, mails, snap, todo, documents, blocked, outcome,
                 accepted, plan, book, toMove, edits, faults>>

\* An exception of save says nothing of what reached the file.
SaveFails ==
  /\ pc = "applied" /\ Fault
  /\ disk' \in {disk, book}
  /\ EndWrites("uncertain_not_committed")
  /\ UNCHANGED <<folder, store, live, mails, snap, todo, documents, blocked, outcome,
                 accepted, plan, book, toMove, edits>>
-----------------------------------------------------------------------------
DocumentsOf(m) == {d \in documents : Doc[d].mail = m}

\* Mutation: a mail that brings nothing new is left where it is.
NewWritesOnly(m) ==
  /\ m \in Relevant \ blocked
  /\ DocumentsOf(m) # {}
  /\ \A d \in DocumentsOf(m) : outcome[d] = "staged"

EligibleForMove(m) ==
  /\ m \in Relevant
  /\ m \notin blocked
  /\ DocumentsOf(m) # {}
  /\ \A d \in DocumentsOf(m) : outcome[d] # "hard_block"

\* Mutation: moves do not wait for the write.
MoveGateIgnored == TRUE

MoveGateOpen == plan = {} \/ status = "committed"

\* Mail outcomes are built.  Without --move-mails nothing moves, and nothing
\* moves while staged writes are not committed.
BuildMailOutcomes ==
  /\ pc = "closed"
  /\ \/ /\ ~live \/ ~MoveGateOpen
        /\ toMove' = {}
        /\ pc' = "reporting"
     \/ /\ MoveGateOpen
        /\ toMove' = {m \in mails : EligibleForMove(m)}
        /\ pc' = "moving"
  /\ UNCHANGED <<world, live, mails, snap, todo, documents, blocked, outcome,
                 accepted, plan, book, status, edits, faults>>

NextToMove(m) == m \in toMove /\ \A n \in toMove : m <= n

MoveMail(m) ==
  /\ pc = "moving" /\ NextToMove(m)
  /\ folder' = [folder EXCEPT ![m] = "import"]
  /\ toMove' = toMove \ {m}
  /\ UNCHANGED <<disk, store, pc, live, mails, snap, todo, documents, blocked,
                 outcome, accepted, plan, book, status, edits, faults>>

\* An exception ends the moves; the mail may have been moved all the same.
MoveFails(m) ==
  /\ pc = "moving" /\ NextToMove(m) /\ Fault
  /\ folder' \in {folder, [folder EXCEPT ![m] = "import"]}
  /\ toMove' = {}
  /\ pc' = "reporting"
  /\ UNCHANGED <<disk, store, live, mails, snap, todo, documents, blocked, outcome,
                 accepted, plan, book, status, edits>>

FinishMoves ==
  /\ pc = "moving" /\ toMove = {}
  /\ pc' = "reporting"
  /\ UNCHANGED <<world, live, mails, snap, todo, documents, blocked, outcome,
                 accepted, plan, book, status, toMove, edits, faults>>

\* The JSON and HTML reports are the last thing the command writes.
WriteReport ==
  /\ pc = "reporting"
  /\ pc' = "idle"
  /\ UNCHANGED <<world, live, mails, snap, todo, documents, blocked, outcome,
                 accepted, plan, book, status, toMove, edits, faults>>

\* The process is killed, or a cell cannot be written and the exception ends
\* the command: what was in memory is gone.
Crash ==
  /\ pc # "idle" /\ Fault
  /\ pc' = "idle"
  /\ UNCHANGED <<world, live, mails, snap, todo, documents, blocked, outcome,
                 accepted, plan, book, status, toMove, edits>>
-----------------------------------------------------------------------------
(* What others do to the workbook while nobody has it open for writing. *)

Edit(kind) ==
  /\ kind \in EditKinds
  /\ pc \notin {"opened", "prevalidated", "applied"}
  /\ edits < MaxEdits /\ edits' = edits + 1
  /\ UNCHANGED <<folder, store, run, faults>>

\* Somebody fills a blank cell of a row: its UP No., or import data by hand.
FillCell(r, k) ==
  /\ Edit("cells")
  /\ disk.cells[r][k] = Blank
  /\ disk' = [disk EXCEPT !.cells[r][k] = Foreign]

\* Somebody sorts the sheet.
SwapRows(i, j) ==
  /\ Edit("rows")
  /\ disk' = [disk EXCEPT !.order[i] = disk.order[j], !.order[j] = disk.order[i]]

\* What is done to columns counts apart while a command is under way.
ColumnEdit == IF pc = "idle" THEN "columns" ELSE "columns_in_use"

\* Somebody moves a column; column 22 keeps the import amounts.
SwapColumns(k, l) ==
  /\ Edit(ColumnEdit)
  /\ disk' = [disk EXCEPT !.column[k] = disk.column[l], !.column[l] = disk.column[k]]

\* Somebody renames a required header, or puts it right again.
RenameHeader ==
  /\ Edit(ColumnEdit)
  /\ disk' = [disk EXCEPT !.headers = ~disk.headers]

SomeEdit ==
  \/ \E r \in Rows, k \in {"up_no", "quantity_kgs"} : FillCell(r, k)
  \/ \E i, j \in Positions : i < j /\ SwapRows(i, j)
  \/ \E k, l \in Keys \ {"import_amount"} : k # l /\ SwapColumns(k, l)
  \/ RenameHeader
-----------------------------------------------------------------------------
SomeFault ==
  \/ \E d \in Docs : AcquisitionFails(d) \/ RegisterUnavailable(d)
  \/ OpenFails \/ ProbeMismatch \/ SaveFails
  \/ \E m \in Mails : MoveFails(m)
  \/ Crash

Progress ==
  \/ \E d \in Docs : AcquireDocument(d) \/ AllocateDocument(d)
  \/ FinishAcquisition \/ FinishAllocation
  \/ OpenSession \/ PrevalidateTargets \/ ApplyWrites \/ SaveWorkbook
  \/ BuildMailOutcomes
  \/ \E m \in Mails : MoveMail(m)
  \/ FinishMoves \/ WriteReport

Stored == {f \in DOMAIN store : store[f] # Blank}

Start ==
  \/ \E launcher \in BOOLEAN : StartRun(launcher)
  \/ \E files \in {{f} : f \in Stored} \cup {Stored} : StartPicker(files)

Next == Start \/ Progress \/ SomeFault \/ SomeEdit

Spec == Init /\ [][Next]_vars

\* A command that is not killed runs to its end, and the operator starts the
\* live launcher again as long as mails are left in the working folder.
Fairness == WF_vars(Progress) /\ SF_vars(StartRun(TRUE))

FairSpec == Spec /\ Fairness
=============================================================================
