------------------------ MODULE ImportTransferProofs ------------------------
(***************************************************************************)
(* Proofs about ImportTransfer: the command implements BtbRegister and its *)
(* saves touch the staged cells only, for any mails, documents and rows,   *)
(* any number of faults and any edits by others that leave the columns     *)
(* where they are while a command is under way; and its state is typed     *)
(* whatever they edit.                                                     *)
(***************************************************************************)
EXTENDS ImportTransferProps, Induction

\* The orders the rows may be in.
Orderings == {o \in [Positions -> Rows] : \A i, j \in Positions : o[i] = o[j] => i = j}

\* The places the columns may be in, one for each, and a sheet of all of them.
Columnings == {l \in [Keys -> Columns] : \A j, k \in Keys : l[j] = l[k] => j = k}
IsGrid(c) == c = [r \in Rows |-> [k \in Keys |-> c[r][k]]]

\* A workbook, whatever the order of its rows and columns.
IsSheet(wb) ==
  /\ wb = [order |-> wb.order, column |-> wb.column, headers |-> wb.headers,
           cells |-> wb.cells]
  /\ wb.order \in Orderings
  /\ wb.column \in Columnings
  /\ IsGrid(wb.cells)

\* The number in a row of a workbook.
NumberIn(wb, r) == wb.cells[r]["btb_lc_no"]

\* A number is in the workbook file.
OnDisk(n) == \E r \in Rows : NumberIn(disk, r) = n

\* A number is in the workbook file, in a row that gives it back.
FoundOnDisk(n) == \E r \in Rows : NumberIn(disk, r) = n /\ ReadsBack(r, n)

\* The plan writes a number.
Planned(n) == \E p \in plan : Doc[p.doc].number = n

InSession == {"opened", "prevalidated", "applied"}
BeforeSave == {"acquiring", "allocating", "writing"} \cup InSession
AfterAllocation == {"writing", "closed", "moving", "reporting"} \cup InSession

\* What the session holds of the workbook.
SessionInv ==
  /\ IsSheet(disk) /\ IsSheet(snap) /\ IsSheet(book)
  /\ pc # "idle" => snap.column = disk.column
  /\ pc \in {"opened", "prevalidated"} => book = disk
  /\ pc = "prevalidated" => TargetsBlank
  /\ pc = "applied" =>
       /\ book.order = disk.order /\ book.column = disk.column
       /\ \A r \in Rows, k \in Keys :
            \/ book.cells[r][k] = disk.cells[r][k]
            \/ /\ k \in ImportKeys /\ disk.cells[r][k] = Blank
               /\ \E p \in plan : Target(disk, p) = r
       /\ \A p \in plan : NumberIn(book, Target(disk, p)) = Doc[p.doc].number

\* What the plan holds: one row and one number for each write, and no number
\* that is found in the workbook already.
PlanInv ==
  /\ accepted \subseteq Docs
  /\ \A d, e \in accepted : Doc[d].number = Doc[e].number => d = e
  /\ \A p \in plan :
       /\ p = [doc |-> p.doc, row |-> p.row]
       /\ p.doc \in accepted /\ p.row \in Positions
  /\ \A p, q \in plan : p.row = q.row \/ p.doc = q.doc => p = q
  /\ pc \in BeforeSave => \A r \in Rows : NumberIn(snap, r) = NumberIn(disk, r)
  /\ pc \in BeforeSave => \A p \in plan : ~FoundOnDisk(Doc[p.doc].number)

\* Where the numbers of decided documents are.
NumbersInv ==
  /\ outcome = [d \in Docs |-> outcome[d]]
  /\ \A d \in Docs : outcome[d] \in Outcomes
  /\ \A d \in Docs : outcome[d] \in {"duplicate", "staged"} =>
       OnDisk(Doc[d].number) \/ Planned(Doc[d].number)
  /\ \A d \in accepted : OnDisk(Doc[d].number) \/ Planned(Doc[d].number)
  /\ status = "committed" => \A p \in plan : OnDisk(Doc[p.doc].number)
  /\ pc \in BeforeSave => status = "none"

\* What the mails to move have in the workbook.
MailInv ==
  /\ documents \subseteq Docs /\ todo \subseteq Docs
  /\ mails \subseteq Mails /\ toMove \subseteq Mails
  /\ folder = [m \in Mails |-> folder[m]]
  /\ pc \in AfterAllocation \cup {"allocating"} => todo = {}
  /\ pc \in AfterAllocation => \A d \in documents : outcome[d] # "none"
  /\ \A m \in (mails \cap Relevant) \ blocked, d \in Docs :
       Doc[d].mail = m => d \in todo \cup documents
  /\ \A m \in toMove : \A n \in NumbersOfMail[m] : OnDisk(n)

\* The step a run stands at.
ControlInv == pc \in Steps /\ edits \in Nat

\* The inductive invariant.
IInv == ControlInv /\ SessionInv /\ PlanInv /\ NumbersInv /\ MailInv
-----------------------------------------------------------------------------
(* The workbook. *)

\* A sheet is its fields.
LEMMA SheetOf ==
  ASSUME NEW o \in Orderings, NEW l \in Columnings, NEW h, NEW c, IsGrid(c),
         NEW wb, wb = [order |-> o, column |-> l, headers |-> h, cells |-> c]
  PROVE  IsSheet(wb) /\ wb.order = o /\ wb.column = l /\ wb.headers = h /\ wb.cells = c
<1>1. wb.order = o /\ wb.column = l /\ wb.headers = h /\ wb.cells = c
  OBVIOUS
<1>2. wb = [order |-> wb.order, column |-> wb.column, headers |-> wb.headers,
            cells |-> wb.cells]
  BY <1>1
<1> QED
  BY <1>1, <1>2 DEF IsSheet

\* A sheet with a cell replaced by another value.
WithCell(wb, r, k, v) == [wb EXCEPT !.cells[r][k] = v]

LEMMA CellOfSheet ==
  ASSUME NEW wb, IsSheet(wb), NEW r \in Rows, NEW k \in Keys, NEW v
  PROVE  /\ IsSheet(WithCell(wb, r, k, v)) /\ WithCell(wb, r, k, v).column = wb.column
         /\ \A q \in Rows, l \in Keys :
              WithCell(wb, r, k, v).cells[q][l] = IF q = r /\ l = k THEN v ELSE wb.cells[q][l]
<1> DEFINE new == WithCell(wb, r, k, v)
<1> DEFINE row == [wb.cells[r] EXCEPT ![k] = v]
           c == [wb.cells EXCEPT ![r] = row]
<1>1. new = [order |-> wb.order, column |-> wb.column, headers |-> wb.headers,
             cells |-> c]
  BY DEF IsSheet, WithCell
<1> HIDE DEF new
<1>2. row = [l \in Keys |-> IF l = k THEN v ELSE wb.cells[r][l]]
  BY DEF IsSheet, IsGrid
<1> HIDE DEF row
<1>3. c = [q \in Rows |-> IF q = r THEN row ELSE wb.cells[q]]
  BY DEF IsSheet, IsGrid
<1> HIDE DEF c
<1>4. \A q \in Rows, l \in Keys : c[q][l] = IF q = r /\ l = k THEN v ELSE wb.cells[q][l]
  BY <1>2, <1>3
<1>5. \A q \in Rows : c[q] = [l \in Keys |-> c[q][l]]
  BY <1>2, <1>3 DEF IsSheet, IsGrid
<1>6. IsGrid(c)
  BY <1>3, <1>5 DEF IsGrid
<1>7. wb.order \in Orderings /\ wb.column \in Columnings
  BY DEF IsSheet
<1>8. IsSheet(new) /\ new.column = wb.column /\ new.cells = c
  BY <1>1, <1>6, <1>7, SheetOf
<1> QED
  BY <1>4, <1>8 DEF new

\* Two rows of a sheet change places.
WithRows(wb, i, j) == [wb EXCEPT !.order[i] = wb.order[j], !.order[j] = wb.order[i]]

LEMMA SwapOfSheet ==
  ASSUME NEW wb, IsSheet(wb), NEW i \in Positions, NEW j \in Positions, i # j
  PROVE  /\ IsSheet(WithRows(wb, i, j))
         /\ WithRows(wb, i, j).column = wb.column
         /\ WithRows(wb, i, j).cells = wb.cells
<1> DEFINE new == WithRows(wb, i, j)
           o == [[wb.order EXCEPT ![i] = wb.order[j]] EXCEPT ![j] = wb.order[i]]
<1>1. new = [order |-> o, column |-> wb.column, headers |-> wb.headers,
             cells |-> wb.cells]
  <2>1. new = [wb EXCEPT !.order[i] = wb.order[j], !.order[j] = wb.order[i]]
    BY DEF WithRows
  <2> HIDE DEF new
  <2> QED
    BY <2>1 DEF IsSheet
<1> HIDE DEF new
<1>2. wb.order \in [Positions -> Rows]
      /\ \A a, b \in Positions : wb.order[a] = wb.order[b] => a = b
  BY DEF IsSheet, Orderings
<1>3. o = [a \in Positions |-> IF a = j THEN wb.order[i]
                               ELSE IF a = i THEN wb.order[j] ELSE wb.order[a]]
  BY <1>2
<1> HIDE DEF o
<1>4. o \in Orderings
  BY <1>2, <1>3 DEF Orderings
<1>5. IsGrid(wb.cells) /\ wb.column \in Columnings
  BY DEF IsSheet
<1>6. IsSheet(new) /\ new.column = wb.column /\ new.cells = wb.cells
  BY <1>1, <1>4, <1>5, SheetOf
<1> QED
  BY <1>6 DEF new

\* Two columns of a sheet change places.
WithColumns(wb, k, q) ==
  [wb EXCEPT !.column[k] = wb.column[q], !.column[q] = wb.column[k]]

LEMMA ColumnsOfSheet ==
  ASSUME NEW wb, IsSheet(wb), NEW k \in Keys, NEW q \in Keys, k # q
  PROVE  IsSheet(WithColumns(wb, k, q)) /\ WithColumns(wb, k, q).cells = wb.cells
<1> DEFINE new == WithColumns(wb, k, q)
           l == [[wb.column EXCEPT ![k] = wb.column[q]] EXCEPT ![q] = wb.column[k]]
<1>1. new = [order |-> wb.order, column |-> l, headers |-> wb.headers, cells |-> wb.cells]
  <2>1. new = [wb EXCEPT !.column[k] = wb.column[q], !.column[q] = wb.column[k]]
    BY DEF WithColumns
  <2> HIDE DEF new
  <2> QED
    BY <2>1 DEF IsSheet
<1> HIDE DEF new
<1>2. wb.column \in [Keys -> Columns]
      /\ \A a, b \in Keys : wb.column[a] = wb.column[b] => a = b
  BY DEF IsSheet, Columnings
<1>3. l = [a \in Keys |-> IF a = q THEN wb.column[k]
                          ELSE IF a = k THEN wb.column[q] ELSE wb.column[a]]
  BY <1>2
<1> HIDE DEF l
<1>4. l \in Columnings
  BY <1>2, <1>3 DEF Columnings
<1>5. IsGrid(wb.cells) /\ wb.order \in Orderings
  BY DEF IsSheet
<1>6. IsSheet(new) /\ new.cells = wb.cells
  BY <1>1, <1>4, <1>5, SheetOf
<1> QED
  BY <1>6 DEF new

\* What others do leaves the numbers where they are, the columns too while a
\* command is under way, and no session is open while they do it.
LEMMA EditsKeepNumbers ==
  ASSUME "columns_in_use" \notin EditKinds, IsSheet(disk), SomeEdit
  PROVE  /\ IsSheet(disk')
         /\ pc # "idle" => disk'.column = disk.column
         /\ \A r \in Rows : NumberIn(disk', r) = NumberIn(disk, r)
         /\ pc \notin InSession
         /\ UNCHANGED <<folder, run>>
<1>1. /\ pc \notin InSession
      /\ UNCHANGED <<folder, run>>
  BY DEF SomeEdit, FillCell, SwapRows, SwapColumns, RenameHeader, Edit, InSession
<1>2. ASSUME NEW r \in Rows, NEW k \in {"up_no", "quantity_kgs"}, FillCell(r, k)
      PROVE  /\ IsSheet(disk') /\ disk'.column = disk.column
             /\ \A q \in Rows : NumberIn(disk', q) = NumberIn(disk, q)
  <2>1. k \in Keys
    BY DEF Keys, ImportKeys
  <2>2. disk' = WithCell(disk, r, k, Foreign)
    BY <1>2 DEF FillCell, WithCell
  <2>3. /\ IsSheet(WithCell(disk, r, k, Foreign))
        /\ WithCell(disk, r, k, Foreign).column = disk.column
        /\ \A q \in Rows, l \in Keys :
             WithCell(disk, r, k, Foreign).cells[q][l]
               = IF q = r /\ l = k THEN Foreign ELSE disk.cells[q][l]
    BY <2>1, CellOfSheet
  <2>4. k # "btb_lc_no" /\ "btb_lc_no" \in Keys
    BY DEF Keys, ImportKeys
  <2> QED
    BY <2>2, <2>3, <2>4 DEF NumberIn
<1>3. ASSUME NEW i \in Positions, NEW j \in Positions, i < j, SwapRows(i, j)
      PROVE  /\ IsSheet(disk') /\ disk'.column = disk.column
             /\ \A q \in Rows : NumberIn(disk', q) = NumberIn(disk, q)
  <2>1. i # j
    BY <1>3, RowAssumption, FS_CardinalityType DEF Positions
  <2>2. disk' = WithRows(disk, i, j)
    BY <1>3 DEF SwapRows, WithRows
  <2>3. IsSheet(disk') /\ disk'.column = disk.column /\ disk'.cells = disk.cells
    BY <2>1, <2>2, SwapOfSheet
  <2> QED
    BY <2>3 DEF NumberIn
<1>4. ASSUME NEW k \in Keys, NEW l \in Keys, k # l, SwapColumns(k, l)
      PROVE  /\ IsSheet(disk') /\ pc = "idle"
             /\ \A q \in Rows : NumberIn(disk', q) = NumberIn(disk, q)
  <2>1. disk' = WithColumns(disk, k, l) /\ pc = "idle"
    BY <1>4 DEF SwapColumns, Edit, ColumnEdit, WithColumns
  <2>2. IsSheet(disk') /\ disk'.cells = disk.cells
    BY <1>4, <2>1, ColumnsOfSheet
  <2> QED
    BY <2>1, <2>2 DEF NumberIn
<1>5. ASSUME RenameHeader
      PROVE  /\ IsSheet(disk') /\ pc = "idle"
             /\ \A q \in Rows : NumberIn(disk', q) = NumberIn(disk, q)
  <2>1. disk' = [disk EXCEPT !.headers = ~disk.headers] /\ pc = "idle"
    BY <1>5 DEF RenameHeader, Edit, ColumnEdit
  <2>2. disk' = [order |-> disk.order, column |-> disk.column, headers |-> ~disk.headers,
                 cells |-> disk.cells]
    BY <2>1 DEF IsSheet
  <2>3. disk.order \in Orderings /\ disk.column \in Columnings /\ IsGrid(disk.cells)
    BY DEF IsSheet
  <2>4. IsSheet(disk') /\ disk'.cells = disk.cells
    BY <2>2, <2>3, SheetOf
  <2> QED
    BY <2>1, <2>4 DEF NumberIn
<1>6. ASSUME \E k, l \in Keys \ {"import_amount"} : k # l /\ SwapColumns(k, l)
      PROVE  /\ IsSheet(disk') /\ pc = "idle"
             /\ \A q \in Rows : NumberIn(disk', q) = NumberIn(disk, q)
  BY <1>4, <1>6
<1> QED
  BY <1>1, <1>2, <1>3, <1>5, <1>6 DEF SomeEdit

\* Where the columns stand as they stood, a mapping finds its own headers.
LEMMA OwnColumns ==
  ASSUME NEW k \in ImportKeys, NEW a, NEW b, IsSheet(b), a.column = b.column
  PROVE  KeyUnder(k, a.column, b.column) = k
<1>1. k \in Keys /\ a.column[k] = b.column[k]
      /\ \A l \in Keys : b.column[l] = b.column[k] => l = k
  BY DEF IsSheet, Columnings, Keys
<1> QED
  BY <1>1 DEF KeyUnder

\* The cells of the session after the writes.
LEMMA WrittenCellsAre ==
  ASSUME SessionInv, PlanInv, snap.column = book.column
  PROVE  /\ WrittenCells = [r \in Rows |-> [k \in Keys |-> WrittenCells[r][k]]]
         /\ \A r \in Rows, k \in Keys :
              \/ WrittenCells[r][k] = book.cells[r][k]
              \/ k \in ImportKeys /\ \E p \in plan : Target(book, p) = r
         /\ \A p \in plan : /\ Target(book, p) \in Rows
                            /\ WrittenCells[Target(book, p)]["btb_lc_no"] = Doc[p.doc].number
<1>1. \A key \in ImportKeys : KeyUnder(key, snap.column, book.column) = key
  BY OwnColumns DEF SessionInv
<1>2. WrittenCells = [r \in Rows |-> [k \in Keys |-> WrittenCells[r][k]]]
  BY DEF WrittenCells
<1>3. ASSUME NEW r \in Rows, NEW k \in Keys
      PROVE  \/ WrittenCells[r][k] = book.cells[r][k]
             \/ k \in ImportKeys /\ \E p \in plan : Target(book, p) = r
  BY <1>1 DEF WrittenCells
<1>4. ASSUME NEW p \in plan
      PROVE  /\ Target(book, p) \in Rows
             /\ WrittenCells[Target(book, p)]["btb_lc_no"] = Doc[p.doc].number
  <2> DEFINE r == Target(book, p)
             q == CHOOSE q \in plan : Target(book, q) = r
             key == CHOOSE key \in ImportKeys :
                      KeyUnder(key, snap.column, book.column) = "btb_lc_no"
  <2>1. r \in Rows
    BY DEF SessionInv, IsSheet, Orderings, PlanInv, Target
  <2>2. q \in plan /\ Target(book, q) = r
    OBVIOUS
  <2>3. q = p
    <3> HIDE DEF q
    <3>1. q.row = p.row
      BY <2>2 DEF SessionInv, IsSheet, Orderings, PlanInv, Target
    <3> QED
      BY <3>1, <2>2 DEF PlanInv
  <2>4. "btb_lc_no" \in ImportKeys /\ "btb_lc_no" \in Keys
    BY DEF ImportKeys, Keys
  <2>5. key = "btb_lc_no"
    BY <1>1, <2>4
  <2>6. WrittenCells[r]["btb_lc_no"] = CellValue(q.doc, key)
    BY <2>1, <2>2, <2>4, <1>1 DEF WrittenCells
  <2> QED
    BY <2>1, <2>3, <2>5, <2>6 DEF CellValue
<1> QED
  BY <1>2, <1>3, <1>4

\* A row is selected among the candidates.
LEMMA SelectedRowIsCandidate ==
  ASSUME snap.order \in [Positions -> Rows], NEW d \in Docs, CandidateRows(d) # {}
  PROVE  SelectedRow(d) \in CandidateRows(d)
<1> DEFINE S == CandidateRows(d)
           E(i) == Row[snap.order[i]].export
           X == {E(i) : i \in S}
<1>1. S \subseteq Nat /\ \A i \in S : E(i) \in Nat
  <2>1. Cardinality(Rows) \in Nat
    BY RowAssumption, FS_CardinalityType
  <2>2. S \subseteq Positions
    BY DEF CandidateRows
  <2>3. \A i \in S : snap.order[i] \in Rows
    BY <2>2
  <2> QED
    BY <2>1, <2>2, <2>3, RowAssumption DEF Positions
<1> HIDE DEF S, E
<1>2. S # {}
  BY DEF S
<1>3. PICK x \in X : \A y \in X : x <= y
  <2>1. X # {} /\ X \in SUBSET Nat
    BY <1>1, <1>2
  <2> HIDE DEF X
  <2> QED
    BY <2>1, LeastNumber
<1> DEFINE T == {i \in S : E(i) = x}
<1>4. PICK i \in T : \A j \in T : i <= j
  <2>1. T # {} /\ T \in SUBSET Nat
    BY <1>1, <1>3
  <2> HIDE DEF T
  <2> QED
    BY <2>1, LeastNumber
<1>5. \A j \in S : E(i) < E(j) \/ (E(i) = E(j) /\ i <= j)
  BY <1>1, <1>3, <1>4
<1>6. SelectedRow(d) = CHOOSE k \in S : \A j \in S :
         E(k) < E(j) \/ (E(k) = E(j) /\ k <= j)
  BY DEF SelectedRow, S, E
<1>7. i \in S
  BY <1>4
<1> QED
  BY <1>5, <1>6, <1>7 DEF S

\* A number in the workbook stays there: others do not touch it, and a save
\* only fills blank cells.
LEMMA DiskGrows ==
  ASSUME "columns_in_use" \notin EditKinds, IInv, [Next]_vars, NEW n, n # Blank, OnDisk(n)
  PROVE  OnDisk(n)'
<1>1. ASSUME disk' = disk
      PROVE  OnDisk(n)'
  BY <1>1 DEF OnDisk, NumberIn
<1>2. CASE SaveWorkbook \/ SaveFails
  <2>1. pc = "applied" /\ disk' \in {disk, book}
    BY <1>2 DEF SaveWorkbook, SaveFails
  <2>2. CASE disk' = book
    <3>1. PICK r \in Rows : NumberIn(disk, r) = n
      BY DEF OnDisk
    <3>2. "btb_lc_no" \in Keys
      BY DEF Keys, ImportKeys
    <3>3. book.cells[r]["btb_lc_no"] = disk.cells[r]["btb_lc_no"]
      BY <2>1, <3>1, <3>2 DEF IInv, SessionInv, NumberIn
    <3> QED
      BY <2>2, <3>1, <3>3 DEF OnDisk, NumberIn
  <2> QED
    BY <2>1, <2>2, <1>1
<1>3. CASE SomeEdit
  <2>1. \A r \in Rows : NumberIn(disk', r) = NumberIn(disk, r)
    BY <1>3, EditsKeepNumbers DEF IInv, SessionInv
  <2> QED
    BY <2>1 DEF OnDisk, NumberIn
<1>4. CASE Start \/ (Progress /\ ~SaveWorkbook)
  BY <1>4, <1>1 DEF Start, StartRun, StartPicker, Progress, AcquireDocument,
     AllocateDocument, Decide, FinishAcquisition, FinishAllocation, OpenSession,
     PrevalidateTargets, ApplyWrites, BuildMailOutcomes, MoveMail, FinishMoves,
     WriteReport, world
<1>5. CASE SomeFault /\ ~SaveFails
  BY <1>5, <1>1 DEF SomeFault, AcquisitionFails, RegisterUnavailable, Decide, OpenFails,
     ProbeMismatch, MoveFails, Crash, world
<1>6. CASE UNCHANGED vars
  BY <1>6, <1>1 DEF vars, world
<1> QED
  BY <1>2, <1>3, <1>4, <1>5, <1>6 DEF Next, Progress, SomeFault
-----------------------------------------------------------------------------
(* The session. *)

\* The session writes to a workbook that is the file it opened
\* (execute_import_btb_lc_writes).
LEMMA SessionStep ==
  ASSUME "columns_in_use" \notin EditKinds, IInv, [Next]_vars
  PROVE  SessionInv'
<1>0. pc # "idle" => snap.column = disk.column
  BY DEF IInv, SessionInv
<1>1. ASSUME UNCHANGED book, disk' \in {disk, book}, snap' \in {snap, disk},
             pc' \notin InSession, pc' # "idle" => snap'.column = disk'.column
      PROVE  SessionInv'
  BY <1>1 DEF IInv, SessionInv, InSession
<1>2. CASE OpenSession
  BY <1>2 DEF IInv, SessionInv, OpenSession, world
<1>3. CASE PrevalidateTargets
  <2>1. CASE book.headers /\ TargetsBlank
    <3>1. /\ pc' = "prevalidated" /\ UNCHANGED <<disk, snap, book, plan>> /\ book = disk
          /\ snap.column = disk.column
      BY <1>3, <2>1, <1>0 DEF PrevalidateTargets, world, IInv, SessionInv
    <3>2. TargetsBlank'
      BY <2>1, <3>1 DEF TargetsBlank, Target
    <3> QED
      BY <3>1, <3>2 DEF IInv, SessionInv
  <2>2. CASE ~(book.headers /\ TargetsBlank)
    BY <1>3, <2>2, <1>0, <1>1 DEF PrevalidateTargets, EndWrites, world, InSession
  <2> QED
    BY <2>1, <2>2
<1>4. CASE ApplyWrites
  <2>1. /\ book = disk /\ TargetsBlank /\ IsSheet(book)
        /\ book' = [book EXCEPT !.cells = WrittenCells]
        /\ pc' = "applied" /\ UNCHANGED <<disk, snap, plan>>
        /\ snap.column = book.column
    BY <1>4 DEF ApplyWrites, world, IInv, SessionInv
  <2>2. IsGrid(WrittenCells)
    BY <2>1, WrittenCellsAre DEF IInv, IsGrid
  <2>3. /\ IsSheet(book') /\ book'.order = book.order /\ book'.column = book.column
        /\ book'.cells = WrittenCells
    <3>1. book' = [order |-> book.order, column |-> book.column, headers |-> book.headers,
                   cells |-> WrittenCells]
      BY <2>1 DEF IsSheet
    <3>2. book.order \in Orderings /\ book.column \in Columnings
      BY <2>1 DEF IsSheet
    <3> HIDE DEF IInv
    <3> QED
      BY <3>1, <3>2, <2>2, SheetOf
  <2>4. \A r \in Rows, k \in Keys :
          \/ book'.cells[r][k] = disk.cells[r][k]
          \/ /\ k \in ImportKeys /\ disk.cells[r][k] = Blank
             /\ \E p \in plan : Target(disk, p) = r
    BY <2>1, <2>3, WrittenCellsAre DEF IInv, TargetsBlank
  <2>5. \A p \in plan : NumberIn(book', Target(disk, p)) = Doc[p.doc].number
    BY <2>1, <2>3, WrittenCellsAre DEF IInv, NumberIn
  <2>6. \A p \in plan : Target(disk', p) = Target(disk, p)
    BY <2>1 DEF Target
  <2>7. IsSheet(disk') /\ IsSheet(snap')
    BY <2>1 DEF IInv, SessionInv
  <2> QED
    BY <2>1, <2>3, <2>4, <2>5, <2>6, <2>7 DEF SessionInv
<1>5. CASE SaveWorkbook \/ SaveFails
  <2>1. pc = "applied" /\ book.column = disk.column
    BY <1>5 DEF SaveWorkbook, SaveFails, IInv, SessionInv
  <2> QED
    BY <1>5, <2>1, <1>0, <1>1 DEF SaveWorkbook, SaveFails, EndWrites, InSession
<1>6. CASE SomeEdit
  <2>1. /\ IsSheet(disk') /\ pc \notin InSession /\ UNCHANGED run
        /\ pc # "idle" => disk'.column = disk.column
    BY <1>6, EditsKeepNumbers DEF IInv, SessionInv
  <2> QED
    BY <2>1 DEF IInv, SessionInv, run, InSession
<1>7. CASE Start
  BY <1>7, <1>1 DEF Start, StartRun, StartPicker, InSession, world
<1>8. CASE \/ \E d \in Docs : AcquireDocument(d) \/ AllocateDocument(d)
           \/ FinishAcquisition \/ FinishAllocation
  BY <1>8, <1>0, <1>1 DEF AcquireDocument, AllocateDocument, Decide, FinishAcquisition,
     FinishAllocation, world, InSession
<1>9. CASE BuildMailOutcomes \/ (\E m \in Mails : MoveMail(m)) \/ FinishMoves \/ WriteReport
  BY <1>9, <1>0, <1>1 DEF BuildMailOutcomes, MoveMail, FinishMoves, WriteReport, world, InSession
<1>10. CASE SomeFault /\ ~SaveFails
  BY <1>10, <1>0, <1>1 DEF SomeFault, AcquisitionFails, RegisterUnavailable, Decide, OpenFails,
     ProbeMismatch, MoveFails, Crash, EndWrites, world, InSession
<1>11. CASE UNCHANGED vars
  <2>1. UNCHANGED <<disk, snap, book, plan, pc>>
    BY <1>11 DEF vars, world, run
  <2>2. TargetsBlank' = TargetsBlank /\ \A p : Target(disk', p) = Target(disk, p)
    BY <2>1 DEF TargetsBlank, Target
  <2> QED
    BY <2>1, <2>2 DEF IInv, SessionInv, NumberIn
<1> QED
  BY <1>2, <1>3, <1>4, <1>5, <1>6, <1>7, <1>8, <1>9, <1>10, <1>11
  DEF Next, Progress, SomeFault
-----------------------------------------------------------------------------
(* The plan. *)

\* A document is staged only under a number and a row that are free
\* (the decision of allocate_import_btb_lc_documents).
LEMMA StagedIsFree ==
  ASSUME IInv, pc = "allocating", NEW d \in Docs, Decision(d) = "staged"
  PROVE  /\ \A e \in accepted : Doc[e].number # Doc[d].number
         /\ SelectedRow(d) \in Positions
         /\ \A p \in plan : p.row # SelectedRow(d)
         /\ ~FoundOnDisk(Doc[d].number)
<1>1. /\ AcceptedTwin(d) = {}
      /\ RowsWithNumber(snap, Doc[d].number) = {}
      /\ CandidateRows(d) # {}
  BY DEF Decision
<1>2. \A e \in accepted : Doc[e].number # Doc[d].number
  BY <1>1 DEF AcceptedTwin
<1>3. SelectedRow(d) \in Positions \ ReservedRows
  <2>1. snap.order \in [Positions -> Rows]
    BY DEF IInv, SessionInv, IsSheet, Orderings
  <2> QED
    BY <1>1, <2>1, SelectedRowIsCandidate DEF CandidateRows
<1>4. \A r \in Rows : NumberIn(snap, r) = NumberIn(disk, r)
  BY DEF IInv, PlanInv, BeforeSave
<1>5. ~FoundOnDisk(Doc[d].number)
  BY <1>1, <1>4 DEF RowsWithNumber, FoundOnDisk, NumberIn
<1> QED
  BY <1>2, <1>3, <1>5 DEF ReservedRows

\* A plan stays one of distinct rows and distinct new numbers.
LEMMA PlanStep ==
  ASSUME "columns_in_use" \notin EditKinds, IInv, [Next]_vars
  PROVE  PlanInv'
<1>1. ASSUME UNCHANGED <<accepted, plan>>, pc' \notin BeforeSave
      PROVE  PlanInv'
  BY <1>1 DEF IInv, PlanInv
<1>2. ASSUME UNCHANGED <<accepted, plan, snap>>, pc' \in BeforeSave => pc \in BeforeSave,
             \A r \in Rows : NumberIn(disk', r) = NumberIn(disk, r)
      PROVE  PlanInv'
  <2>1. \A n : FoundOnDisk(n)' <=> FoundOnDisk(n)
    BY <1>2 DEF FoundOnDisk
  <2>2. \A r \in Rows : NumberIn(snap', r) = NumberIn(snap, r)
    BY <1>2
  <2> QED
    BY <1>2, <2>1, <2>2 DEF IInv, PlanInv
<1>3. CASE Start
  BY <1>3 DEF Start, StartRun, StartPicker, PlanInv, world
<1>4. ASSUME NEW d \in Docs, AllocateDocument(d)
      PROVE  PlanInv'
  <2>1. /\ pc = "allocating" /\ pc' = pc /\ UNCHANGED <<disk, snap>>
        /\ accepted' = IF Decision(d) \in {"duplicate", "staged"} /\ AcceptedTwin(d) = {}
                       THEN accepted \cup {d} ELSE accepted
        /\ plan' = IF Decision(d) = "staged"
                   THEN plan \cup {[doc |-> d, row |-> SelectedRow(d)]} ELSE plan
    BY <1>4 DEF AllocateDocument, Decide, world
  <2>2. /\ accepted' \subseteq Docs
        /\ \A a, b \in accepted' : Doc[a].number = Doc[b].number => a = b
    BY <2>1 DEF IInv, PlanInv, AcceptedTwin
  <2>3. \A r \in Rows : NumberIn(snap', r) = NumberIn(disk', r)
    BY <2>1 DEF IInv, PlanInv, BeforeSave, NumberIn
  <2>4. \A n : FoundOnDisk(n)' <=> FoundOnDisk(n)
    BY <2>1 DEF FoundOnDisk
  <2>5. CASE Decision(d) # "staged"
    <3>1. plan' = plan /\ accepted \subseteq accepted'
      BY <2>1, <2>5
    <3> QED
      BY <2>1, <2>2, <2>3, <2>4, <3>1 DEF IInv, PlanInv, BeforeSave
  <2>6. CASE Decision(d) = "staged"
    <3> DEFINE new == [doc |-> d, row |-> SelectedRow(d)]
    <3>1. /\ \A e \in accepted : Doc[e].number # Doc[d].number
          /\ SelectedRow(d) \in Positions
          /\ \A p \in plan : p.row # SelectedRow(d)
          /\ ~FoundOnDisk(Doc[d].number)
      BY <2>1, <2>6, StagedIsFree
    <3>2. plan' = plan \cup {new} /\ accepted' = accepted \cup {d}
      BY <2>1, <2>6, <3>1 DEF AcceptedTwin
    <3>3. new.doc = d /\ new.row = SelectedRow(d) /\ new = [doc |-> new.doc, row |-> new.row]
      OBVIOUS
    <3> HIDE DEF new
    <3>4. \A p \in plan' : /\ p = [doc |-> p.doc, row |-> p.row]
                           /\ p.doc \in accepted' /\ p.row \in Positions
      BY <3>1, <3>2, <3>3 DEF IInv, PlanInv
    <3>5. d \notin accepted
      BY <3>1
    <3>6. \A p, q \in plan' : p.row = q.row \/ p.doc = q.doc => p = q
      BY <3>1, <3>2, <3>3, <3>5 DEF IInv, PlanInv
    <3>7. \A p \in plan' : ~FoundOnDisk(Doc[p.doc].number)'
      BY <2>1, <2>4, <3>1, <3>2, <3>3 DEF IInv, PlanInv, BeforeSave
    <3> QED
      BY <2>1, <2>2, <2>3, <3>4, <3>6, <3>7 DEF PlanInv
  <2> QED
    BY <2>5, <2>6
<1>5. CASE SaveWorkbook \/ SaveFails
  BY <1>5, <1>1 DEF SaveWorkbook, SaveFails, EndWrites, BeforeSave, InSession
<1>6. CASE SomeEdit
  <2>1. UNCHANGED run /\ \A r \in Rows : NumberIn(disk', r) = NumberIn(disk, r)
    BY <1>6, EditsKeepNumbers DEF IInv, SessionInv
  <2> QED
    BY <2>1, <1>2 DEF run
<1>7. CASE (\E d \in Docs : AcquireDocument(d)) \/ FinishAcquisition \/ FinishAllocation
  BY <1>7, <1>2 DEF AcquireDocument, FinishAcquisition, FinishAllocation, world,
     BeforeSave, InSession
<1>8. CASE OpenSession \/ PrevalidateTargets \/ ApplyWrites
  BY <1>8, <1>2 DEF OpenSession, PrevalidateTargets, ApplyWrites, EndWrites, world,
     BeforeSave, InSession
<1>9. CASE BuildMailOutcomes \/ (\E m \in Mails : MoveMail(m)) \/ FinishMoves \/ WriteReport
  BY <1>9, <1>1 DEF BuildMailOutcomes, MoveMail, FinishMoves, WriteReport, BeforeSave,
     InSession
<1>10. CASE SomeFault /\ ~SaveFails
  BY <1>10, <1>2 DEF SomeFault, AcquisitionFails, RegisterUnavailable, Decide, OpenFails,
     ProbeMismatch, MoveFails, Crash, EndWrites, world, BeforeSave, InSession
<1>11. CASE UNCHANGED vars
  BY <1>11, <1>2 DEF vars, world, run
<1> QED
  BY <1>3, <1>4, <1>5, <1>6, <1>7, <1>8, <1>9, <1>10, <1>11 DEF Next, Progress, SomeFault
-----------------------------------------------------------------------------
(* The numbers. *)

\* Document numbers are no blanks.
LEMMA NumbersAreSet ==
  ASSUME NEW d \in Docs
  PROVE  Doc[d].number # Blank /\ Doc[d].number # Foreign
  BY DocAssumption

\* A duplicate is a document whose number is in the workbook or in the plan.
LEMMA DuplicateIsKnown ==
  ASSUME IInv, pc = "allocating", NEW d \in Docs, Decision(d) = "duplicate"
  PROVE  OnDisk(Doc[d].number) \/ Planned(Doc[d].number)
<1>1. CASE AcceptedTwin(d) # {}
  <2>1. PICK e \in accepted : Doc[e].number = Doc[d].number
    BY <1>1 DEF AcceptedTwin
  <2> QED
    BY <2>1 DEF IInv, NumbersInv
<1>2. CASE AcceptedTwin(d) = {}
  <2>1. RecordedOnce(snap, d)
    BY <1>2 DEF Decision
  <2>2. PICK r \in Rows : snap.cells[r]["btb_lc_no"] = Doc[d].number
    BY <2>1 DEF RecordedOnce, RowsWithNumber
  <2> QED
    BY <2>2 DEF IInv, PlanInv, BeforeSave, OnDisk, NumberIn
<1> QED
  BY <1>1, <1>2

\* The numbers of decided documents stay accounted for, whatever step is taken.
LEMMA NumbersStep ==
  ASSUME "columns_in_use" \notin EditKinds, IInv, [Next]_vars
  PROVE  NumbersInv'
<1>1. \A d \in Docs : OnDisk(Doc[d].number) => OnDisk(Doc[d].number)'
  BY DiskGrows, NumbersAreSet
<1>2. ASSUME UNCHANGED <<outcome, accepted, plan>>,
             status' = status \/ status' # "committed",
             pc' \in BeforeSave => status' = "none"
      PROVE  NumbersInv'
  <2>1. \A n : Planned(n)' <=> Planned(n)
    BY <1>2 DEF Planned
  <2>2. accepted \subseteq Docs /\ \A p \in plan : p.doc \in Docs
    BY DEF IInv, PlanInv
  <2> QED
    BY <1>1, <1>2, <2>1, <2>2 DEF IInv, NumbersInv
<1>3. CASE Start
  BY <1>3 DEF Start, StartRun, StartPicker, NumbersInv, Outcomes
<1>4. ASSUME NEW d \in Docs, AllocateDocument(d)
      PROVE  NumbersInv'
  <2>1. /\ pc = "allocating" /\ pc' = pc /\ UNCHANGED <<disk, status>>
        /\ outcome' = [outcome EXCEPT ![d] = Decision(d)]
        /\ accepted' = IF Decision(d) \in {"duplicate", "staged"} /\ AcceptedTwin(d) = {}
                       THEN accepted \cup {d} ELSE accepted
        /\ plan' = IF Decision(d) = "staged"
                   THEN plan \cup {[doc |-> d, row |-> SelectedRow(d)]} ELSE plan
    BY <1>4 DEF AllocateDocument, Decide, world
  <2>2. Decision(d) \in Outcomes
    BY DEF Decision, Outcomes
  <2>3. \A n : Planned(n) => Planned(n)'
    BY <2>1 DEF Planned
  <2>4. Decision(d) \in {"duplicate", "staged"} =>
          OnDisk(Doc[d].number)' \/ Planned(Doc[d].number)'
    <3>1. CASE Decision(d) = "duplicate"
      BY <2>1, <2>3, <3>1, <1>1, DuplicateIsKnown
    <3>2. CASE Decision(d) = "staged"
      <4> DEFINE new == [doc |-> d, row |-> SelectedRow(d)]
      <4>1. new \in plan' /\ new.doc = d
        BY <2>1, <3>2
      <4> HIDE DEF new
      <4> QED
        BY <4>1 DEF Planned
    <3> QED
      BY <3>1, <3>2
  <2>5. outcome' = [e \in Docs |-> IF e = d THEN Decision(d) ELSE outcome[e]]
    BY <2>1 DEF IInv, NumbersInv
  <2>6. /\ outcome' = [e \in Docs |-> outcome'[e]]
        /\ \A e \in Docs : outcome'[e] \in Outcomes
    BY <2>2, <2>5 DEF IInv, NumbersInv
  <2>7. \A e \in Docs : outcome'[e] \in {"duplicate", "staged"} =>
          OnDisk(Doc[e].number)' \/ Planned(Doc[e].number)'
    BY <2>3, <2>4, <2>5, <1>1 DEF IInv, NumbersInv
  <2>8. accepted \subseteq Docs
    BY DEF IInv, PlanInv
  <2>9. \A e \in accepted' : OnDisk(Doc[e].number)' \/ Planned(Doc[e].number)'
    BY <2>1, <2>3, <2>4, <2>8, <1>1 DEF IInv, NumbersInv
  <2>10. status = "none" /\ status' = "none"
    BY <2>1 DEF IInv, NumbersInv, BeforeSave
  <2> QED
    BY <2>6, <2>7, <2>9, <2>10 DEF NumbersInv
<1>5. ASSUME NEW d \in Docs, RegisterUnavailable(d)
      PROVE  NumbersInv'
  <2>1. /\ pc = "allocating" /\ pc' = pc /\ UNCHANGED <<disk, status, accepted, plan>>
        /\ outcome' = [outcome EXCEPT ![d] = "hard_block"]
    BY <1>5 DEF RegisterUnavailable, Decide, world
  <2>2. outcome' = [e \in Docs |-> IF e = d THEN "hard_block" ELSE outcome[e]]
    BY <2>1 DEF IInv, NumbersInv
  <2>3. /\ outcome' = [e \in Docs |-> outcome'[e]]
        /\ \A e \in Docs : outcome'[e] \in Outcomes
    BY <2>2 DEF IInv, NumbersInv, Outcomes
  <2>4. \A n : (OnDisk(n)' <=> OnDisk(n)) /\ (Planned(n)' <=> Planned(n))
    BY <2>1 DEF OnDisk, Planned
  <2> QED
    BY <2>1, <2>2, <2>3, <2>4 DEF IInv, NumbersInv
<1>6. CASE SaveWorkbook
  <2>1. /\ pc = "applied" /\ disk' = book /\ pc' = "closed" /\ status' = "committed"
        /\ UNCHANGED <<outcome, accepted, plan>>
    BY <1>6 DEF SaveWorkbook, EndWrites
  <2>2. \A p \in plan : OnDisk(Doc[p.doc].number)'
    <3>1. ASSUME NEW p \in plan
          PROVE  Target(disk, p) \in Rows
      BY DEF IInv, PlanInv, SessionInv, IsSheet, Orderings, Target
    <3> QED
      BY <2>1, <3>1 DEF IInv, SessionInv, OnDisk
  <2>3. \A n : Planned(n)' <=> Planned(n)
    BY <2>1 DEF Planned
  <2>4. accepted \subseteq Docs
    BY DEF IInv, PlanInv
  <2> QED
    BY <2>1, <2>2, <2>3, <2>4, <1>1 DEF IInv, NumbersInv, BeforeSave, InSession
<1>7. CASE SaveFails
  BY <1>7, <1>2 DEF SaveFails, EndWrites, BeforeSave, InSession
<1>8. CASE SomeEdit
  <2>1. UNCHANGED run
    BY <1>8, EditsKeepNumbers DEF IInv, SessionInv
  <2> QED
    BY <2>1, <1>2 DEF run, IInv, NumbersInv
<1>9. CASE (\E d \in Docs : AcquireDocument(d)) \/ FinishAcquisition \/ FinishAllocation
  BY <1>9, <1>2 DEF AcquireDocument, FinishAcquisition, FinishAllocation,
     BeforeSave, InSession, IInv, NumbersInv
<1>10. CASE OpenSession \/ PrevalidateTargets \/ ApplyWrites
  BY <1>10, <1>2 DEF OpenSession, PrevalidateTargets, ApplyWrites, EndWrites,
     BeforeSave, InSession, IInv, NumbersInv
<1>11. CASE BuildMailOutcomes \/ (\E m \in Mails : MoveMail(m)) \/ FinishMoves \/ WriteReport
  BY <1>11, <1>2 DEF BuildMailOutcomes, MoveMail, FinishMoves, WriteReport, BeforeSave,
     InSession
<1>12. CASE \/ \E d \in Docs : AcquisitionFails(d)
            \/ OpenFails \/ ProbeMismatch \/ (\E m \in Mails : MoveFails(m)) \/ Crash
  BY <1>12, <1>2 DEF AcquisitionFails, OpenFails, ProbeMismatch, MoveFails, Crash,
     EndWrites, BeforeSave, InSession, IInv, NumbersInv
<1>13. CASE UNCHANGED vars
  BY <1>13, <1>2 DEF vars, run, IInv, NumbersInv
<1> QED
  BY <1>3, <1>4, <1>5, <1>6, <1>7, <1>8, <1>9, <1>10, <1>11, <1>12, <1>13
  DEF Next, Progress, SomeFault
-----------------------------------------------------------------------------
(* The mails. *)

\* When the moves begin every number of an eligible mail is in the workbook
\* (_execute_import_current_mail_moves).
LEMMA EligibleIsRecorded ==
  ASSUME IInv, pc = "closed", MoveGateOpen, NEW m \in mails, EligibleForMove(m),
         NEW n \in NumbersOfMail[m]
  PROVE  OnDisk(n)
<1>1. m \in (mails \cap Relevant) \ blocked /\ m \in Mails
  BY DEF EligibleForMove, IInv, MailInv
<1>2. PICK d \in Docs : Doc[d].mail = m /\ Doc[d].number = n
  BY <1>1 DEF NumbersOfMail
<1>3. todo = {} /\ \A e \in documents : outcome[e] # "none"
  BY DEF IInv, MailInv, AfterAllocation
<1>4. d \in documents
  BY <1>1, <1>2, <1>3 DEF IInv, MailInv
<1>5. outcome[d] \in {"duplicate", "staged"}
  BY <1>2, <1>3, <1>4 DEF EligibleForMove, DocumentsOf, IInv, NumbersInv, Outcomes
<1>6. OnDisk(n) \/ Planned(n)
  BY <1>2, <1>5 DEF IInv, NumbersInv
<1>7. Planned(n) => OnDisk(n)
  BY DEF Planned, MoveGateOpen, IInv, NumbersInv
<1> QED
  BY <1>6, <1>7

\* What a mail has in the workbook stays there, whatever step is taken.
LEMMA MailStep ==
  ASSUME "columns_in_use" \notin EditKinds, IInv, [Next]_vars
  PROVE  MailInv'
<1>1. \A m \in Mails : \A n \in NumbersOfMail[m] : n # Blank
  BY NumbersAreSet DEF NumbersOfMail
<1>2. \A m \in toMove : \A n \in NumbersOfMail[m] : OnDisk(n)'
  BY <1>1, DiskGrows DEF IInv, MailInv
<1>3. ASSUME UNCHANGED <<mails, documents, todo, blocked, outcome, folder>>,
             toMove' \subseteq toMove,
             pc' \in AfterAllocation => pc \in AfterAllocation,
             pc' = "allocating" => pc = "allocating"
      PROVE  MailInv'
  BY <1>2, <1>3 DEF IInv, MailInv
<1>4. CASE Start
  <2>1. ASSUME NEW launcher \in BOOLEAN, StartRun(launcher)
        PROVE  MailInv'
    BY <2>1 DEF StartRun, IInv, MailInv, AfterAllocation, InSession, world
  <2>2. ASSUME NEW files, StartPicker(files)
        PROVE  MailInv'
    BY <2>2 DEF StartPicker, PickedFiles, IInv, MailInv, AfterAllocation, InSession, world
  <2> QED
    BY <1>4, <2>1, <2>2 DEF Start
<1>5. ASSUME NEW d \in Docs, AcquireDocument(d)
      PROVE  MailInv'
  <2>1. /\ pc = "acquiring" /\ pc' = pc /\ todo' = todo \ {d}
        /\ UNCHANGED <<mails, folder, toMove>>
        /\ \/ blocked' = blocked \cup {Doc[d].mail} /\ documents' = documents
           \/ documents' = documents \cup {d} /\ blocked \subseteq blocked'
    BY <1>5 DEF AcquireDocument
  <2>2. \A m \in (mails' \cap Relevant) \ blocked', e \in Docs :
          Doc[e].mail = m => e \in todo' \cup documents'
    BY <2>1 DEF IInv, MailInv
  <2> QED
    BY <1>2, <2>1, <2>2 DEF IInv, MailInv, AfterAllocation, InSession
<1>6. ASSUME NEW d \in Docs, AcquisitionFails(d)
      PROVE  MailInv'
  <2>1. /\ pc = "acquiring" /\ pc' = pc /\ todo' = todo \ {d}
        /\ UNCHANGED <<mails, folder, toMove>>
        /\ blocked' = blocked \cup {Doc[d].mail}
        /\ documents' \in {documents, documents \cup {d}}
    BY <1>6 DEF AcquisitionFails, world
  <2>2. \A m \in (mails' \cap Relevant) \ blocked', e \in Docs :
          Doc[e].mail = m => e \in todo' \cup documents'
    BY <2>1 DEF IInv, MailInv
  <2> QED
    BY <1>2, <2>1, <2>2 DEF IInv, MailInv, AfterAllocation, InSession
<1>7. CASE FinishAcquisition
  BY <1>7, <1>2 DEF FinishAcquisition, IInv, MailInv, AfterAllocation, InSession, world
<1>8. CASE \E d \in Docs : AllocateDocument(d) \/ RegisterUnavailable(d)
  BY <1>8, <1>2 DEF AllocateDocument, RegisterUnavailable, Decide, IInv, MailInv,
     AfterAllocation, InSession, world
<1>9. CASE FinishAllocation
  BY <1>9, <1>2 DEF FinishAllocation, IInv, MailInv, AfterAllocation, InSession, world
<1>10. CASE OpenSession \/ PrevalidateTargets \/ ApplyWrites \/ SaveWorkbook
  BY <1>10, <1>3 DEF OpenSession, PrevalidateTargets, ApplyWrites, SaveWorkbook, EndWrites,
     AfterAllocation, InSession, world
<1>11. CASE BuildMailOutcomes
  <2>1. CASE toMove' = {}
    BY <1>11, <2>1, <1>3 DEF BuildMailOutcomes, AfterAllocation, world
  <2>2. CASE MoveGateOpen /\ toMove' = {m \in mails : EligibleForMove(m)} /\ pc' = "moving"
    <3>1. pc = "closed" /\ UNCHANGED <<disk, mails, documents, todo, blocked, outcome, folder>>
      BY <1>11 DEF BuildMailOutcomes, world
    <3>2. \A m \in toMove' : \A n \in NumbersOfMail[m] : OnDisk(n)'
      BY <2>2, <3>1, EligibleIsRecorded DEF OnDisk
    <3> QED
      BY <2>2, <3>1, <3>2 DEF IInv, MailInv, AfterAllocation
  <2> QED
    BY <1>11, <2>1, <2>2 DEF BuildMailOutcomes
<1>12. ASSUME NEW m \in Mails, MoveMail(m) \/ MoveFails(m)
       PROVE  MailInv'
  <2>1. /\ pc = "moving" /\ pc' \in AfterAllocation \ {"allocating"}
        /\ UNCHANGED <<mails, documents, todo, blocked, outcome>>
        /\ toMove' \subseteq toMove
        /\ folder' \in {folder, [folder EXCEPT ![m] = "import"]}
    BY <1>12 DEF MoveMail, MoveFails, AfterAllocation
  <2>2. folder' = [l \in Mails |-> folder'[l]]
    BY <2>1 DEF IInv, MailInv
  <2> QED
    BY <2>1, <2>2, <1>2 DEF IInv, MailInv, AfterAllocation
<1>13. CASE FinishMoves \/ WriteReport
  BY <1>13, <1>3 DEF FinishMoves, WriteReport, AfterAllocation, InSession, world
<1>14. CASE OpenFails \/ ProbeMismatch \/ SaveFails \/ Crash
  BY <1>14, <1>3 DEF OpenFails, ProbeMismatch, SaveFails, Crash, EndWrites, AfterAllocation,
     InSession, world
<1>15. CASE SomeEdit
  <2>1. UNCHANGED <<folder, run>>
    BY <1>15, EditsKeepNumbers DEF IInv, SessionInv
  <2> QED
    BY <2>1, <1>3 DEF run
<1>16. CASE UNCHANGED vars
  BY <1>16, <1>3 DEF vars, world, run
<1> QED
  BY <1>4, <1>5, <1>6, <1>7, <1>8, <1>9, <1>10, <1>11, <1>12, <1>13, <1>14, <1>15, <1>16
  DEF Next, Progress, SomeFault
-----------------------------------------------------------------------------
(* The command implements the register. *)

\* Every edit is counted.
LEMMA EditsAreCounted == SomeEdit => edits' = edits + 1 /\ UNCHANGED run
<1>1. ASSUME NEW kind, Edit(kind)
      PROVE  edits' = edits + 1 /\ UNCHANGED run
  BY <1>1 DEF Edit
<1>2. SomeEdit => \E kind \in {"cells", "rows", "columns", "columns_in_use"} : Edit(kind)
  BY DEF SomeEdit, FillCell, SwapRows, SwapColumns, RenameHeader, ColumnEdit
<1> QED
  BY <1>1, <1>2

\* The command stands at one of its steps, and edits are counted.
LEMMA ControlStep ==
  ASSUME IInv, [Next]_vars
  PROVE  ControlInv'
<1> USE DEF Steps, ControlInv
<1>1. CASE Start \/ Progress
  BY <1>1 DEF IInv, Start, StartRun, StartPicker, Progress, AcquireDocument, AllocateDocument,
     Decide, FinishAcquisition, FinishAllocation, OpenSession, PrevalidateTargets,
     ApplyWrites, SaveWorkbook, EndWrites, BuildMailOutcomes, MoveMail, FinishMoves,
     WriteReport, world
<1>2. CASE SomeFault
  BY <1>2 DEF IInv, SomeFault, AcquisitionFails, RegisterUnavailable, Decide, OpenFails,
     ProbeMismatch, SaveFails, MoveFails, Crash, EndWrites, world
<1>3. CASE SomeEdit
  BY <1>3, EditsAreCounted DEF IInv, run
<1>4. CASE UNCHANGED vars
  BY <1>4 DEF IInv, vars, run
<1> QED
  BY <1>1, <1>2, <1>3, <1>4 DEF Next

\* The invariant holds at first.
LEMMA InitIInv == Init => IInv
<1> SUFFICES ASSUME Init PROVE IInv
  OBVIOUS
<1>1. PICK order \in Orders : disk = BlankBook(order)
  BY DEF Init
<1>2. order \in Orderings
  BY RowAssumption DEF Orderings, Positions, Bijection, Injection, IsInjective
<1> DEFINE c == [r \in Rows |-> [k \in Keys |-> Blank]]
<1>3. IsGrid(c)
  BY DEF IsGrid
<1> DEFINE l == [k \in Keys |-> k]
<1>4. disk = [order |-> order, column |-> l, headers |-> TRUE, cells |-> c] /\ l \in Columnings
  BY <1>1 DEF BlankBook, Columnings, Columns
<1> HIDE DEF c, l
<1>5. IsSheet(disk)
  BY <1>2, <1>3, <1>4, SheetOf
<1>6. /\ pc = "idle" /\ status = "none" /\ snap = disk /\ book = disk /\ edits = 0
      /\ accepted = {} /\ plan = {} /\ toMove = {} /\ mails = {} /\ todo = {}
      /\ documents = {} /\ outcome = [d \in Docs |-> "none"]
      /\ folder = [m \in Mails |-> "working"]
  BY DEF Init
<1>7. ControlInv
  BY <1>6 DEF ControlInv, Steps
<1>8. SessionInv
  BY <1>5, <1>6 DEF SessionInv
<1>9. PlanInv
  BY <1>6 DEF PlanInv
<1>10. NumbersInv
  BY <1>6 DEF NumbersInv, Outcomes
<1>11. MailInv
  BY <1>6 DEF MailInv, AfterAllocation, InSession
<1> QED
  BY <1>7, <1>8, <1>9, <1>10, <1>11 DEF IInv

\* Every step keeps the invariant.
LEMMA NextIInv ==
  ASSUME "columns_in_use" \notin EditKinds
  PROVE  IInv /\ [Next]_vars => IInv'
  BY ControlStep, SessionStep, PlanStep, NumbersStep, MailStep DEF IInv

\* The entries are the pairs of rows and numbers.
LEMMA EntryOf ==
  ASSUME NEW wb, NEW e
  PROVE  e \in EntriesOf(wb) <=>
           \E r \in Rows : /\ NumberIn(wb, r) \notin {Blank, Foreign}
                         /\ e = <<r, NumberIn(wb, r)>>
  BY DEF EntriesOf, NumberIn

\* A save enters the batch: one new number on a free row for each write
\* (ImportKeys of WrittenCells, SaveWorkbook).
LEMMA SaveEnters ==
  ASSUME IInv, pc = "applied", disk' = book, folder' = folder
  PROVE  Ledger!Next \/ UNCHANGED <<EntriesOf(disk), {m \in Mails : folder[m] = "import"}>>
<1> DEFINE before == EntriesOf(disk)
           after == EntriesOf(book)
           batch == after \ before
<1>1. \A r \in Rows : NumberIn(book, r) # NumberIn(disk, r) =>
        /\ NumberIn(disk, r) = Blank
        /\ \E p \in plan : Target(disk, p) = r /\ NumberIn(book, r) = Doc[p.doc].number
  <2>1. "btb_lc_no" \in Keys
    BY DEF Keys, ImportKeys
  <2> QED
    BY <2>1 DEF IInv, SessionInv, NumberIn
<1>2. \A p \in plan : p.doc \in Docs /\ ~FoundOnDisk(Doc[p.doc].number)
  BY DEF IInv, PlanInv, BeforeSave, InSession
<1>3. \A p, q \in plan : Doc[p.doc].number = Doc[q.doc].number => p = q
  BY DEF IInv, PlanInv
<1>4. ASSUME NEW e \in batch
      PROVE  \E r \in Rows, p \in plan :
               /\ e = <<r, NumberIn(book, r)>> /\ NumberIn(disk, r) = Blank
               /\ NumberIn(book, r) \notin {Blank, Foreign}
               /\ Target(disk, p) = r /\ NumberIn(book, r) = Doc[p.doc].number
  <2>1. PICK r \in Rows : /\ NumberIn(book, r) \notin {Blank, Foreign}
                         /\ e = <<r, NumberIn(book, r)>>
    BY EntryOf
  <2>2. NumberIn(book, r) # NumberIn(disk, r)
    BY <2>1, EntryOf
  <2> QED
    BY <2>1, <2>2, <1>1
<1>5. before \subseteq after
  <2>1. SUFFICES ASSUME NEW e \in before
                 PROVE  e \in after
    OBVIOUS
  <2>2. PICK r \in Rows : /\ NumberIn(disk, r) \notin {Blank, Foreign}
                         /\ e = <<r, NumberIn(disk, r)>>
    BY <2>1, EntryOf
  <2>3. NumberIn(book, r) = NumberIn(disk, r)
    BY <2>2, <1>1
  <2> QED
    BY <2>2, <2>3, EntryOf
<1> HIDE DEF before, after
<1>6. batch \subseteq Rows \X {Doc[d].number : d \in Docs}
  BY <1>2, <1>4
<1>7. ASSUME NEW e \in batch
      PROVE  /\ \A r \in Rows : <<r, e[2]>> \in before => ~ReadsBack(r, e[2])
             /\ \A f \in before : f[1] # e[1]
             /\ \A f \in batch : f # e => f[1] # e[1] /\ f[2] # e[2]
  <2>1. PICK r \in Rows, p \in plan :
               /\ e = <<r, NumberIn(book, r)>> /\ NumberIn(disk, r) = Blank
               /\ NumberIn(book, r) \notin {Blank, Foreign}
               /\ Target(disk, p) = r /\ NumberIn(book, r) = Doc[p.doc].number
    BY <1>4
  <2>2. ASSUME NEW q \in Rows, <<q, e[2]>> \in before
        PROVE  ~ReadsBack(q, e[2])
    <3>1. NumberIn(disk, q) = e[2]
      BY <2>2, EntryOf DEF before
    <3> QED
      BY <2>1, <1>2, <3>1 DEF FoundOnDisk
  <2>3. ASSUME NEW f \in before
        PROVE  f[1] # e[1]
    <3>1. PICK q \in Rows : /\ NumberIn(disk, q) \notin {Blank, Foreign}
                           /\ f = <<q, NumberIn(disk, q)>>
      BY EntryOf DEF before
    <3> QED
      BY <2>1, <3>1
  <2>4. ASSUME NEW f \in batch, f # e
        PROVE  f[1] # e[1] /\ f[2] # e[2]
    <3>1. PICK q \in Rows, s \in plan :
               /\ f = <<q, NumberIn(book, q)>>
               /\ Target(disk, s) = q /\ NumberIn(book, q) = Doc[s.doc].number
      BY <1>4
    <3>2. q # r
      BY <2>1, <2>4, <3>1
    <3>3. NumberIn(book, q) # NumberIn(book, r)
      BY <2>1, <3>1, <3>2, <1>3
    <3> QED
      BY <2>1, <3>1, <3>2, <3>3
  <2> QED
    BY <2>2, <2>3, <2>4
<1>8. after = before \cup batch
  BY <1>5
<1>9. CASE batch = {}
  BY <1>8, <1>9 DEF before, after
<1>10. CASE batch # {}
  <2>1. EntriesOf(disk)' = after
    BY DEF after, EntriesOf
  <2>2. ASSUME NEW e \in batch
        PROVE  ~Ledger!Recognised(e[2])
    BY <1>7, <2>2 DEF Ledger!Recognised, before
  <2>3. Ledger!Enter(batch)
    <3> HIDE DEF batch
    <3>1. batch \subseteq Rows \X {Doc[d].number : d \in Docs}
      BY <1>6
    <3>2. EntriesOf(disk)' = EntriesOf(disk) \cup batch
      BY <1>8, <2>1 DEF before
    <3>3. \A e \in batch : /\ \A f \in EntriesOf(disk) : f[1] # e[1]
                           /\ \A f \in batch : f # e => f[1] # e[1] /\ f[2] # e[2]
      BY <1>7 DEF before
    <3> QED
      BY <1>10, <2>2, <3>1, <3>2, <3>3 DEF Ledger!Enter
  <2> QED
    BY <2>1, <2>3 DEF Ledger!Next, before
<1> QED
  BY <1>9, <1>10

\* A mail that is moved carries only numbers that are in the workbook.
LEMMA MoveSettles ==
  ASSUME IInv, NEW m \in toMove, disk' = disk,
         folder' \in {folder, [folder EXCEPT ![m] = "import"]}
  PROVE  Ledger!Next \/ UNCHANGED <<EntriesOf(disk), {l \in Mails : folder[l] = "import"}>>
<1> DEFINE before == {l \in Mails : folder[l] = "import"}
<1>1. m \in Mails
  BY DEF IInv, MailInv
<1>2. CASE folder' = folder \/ m \in before
  <2>1. folder' = folder
    BY <1>1, <1>2 DEF IInv, MailInv
  <2> QED
    BY <2>1
<1>3. CASE folder' # folder /\ m \notin before
  <2>1. before' = before \cup {m}
    BY <1>1, <1>3 DEF IInv, MailInv
  <2>2. ASSUME NEW n \in NumbersOfMail[m]
        PROVE  \E r \in Rows : <<r, n>> \in EntriesOf(disk)
    <3>1. n \notin {Blank, Foreign}
      BY <1>1, NumbersAreSet DEF NumbersOfMail
    <3>2. OnDisk(n)
      BY DEF IInv, MailInv
    <3> QED
      BY <3>1, <3>2, EntryOf DEF OnDisk
  <2>3. UNCHANGED EntriesOf(disk)
    OBVIOUS
  <2>4. Ledger!Settle(m)
    BY <1>3, <2>1, <2>2, <2>3 DEF Ledger!Settle, Ledger!Entered
  <2> QED
    BY <1>1, <2>4 DEF Ledger!Next
<1> QED
  BY <1>2, <1>3

\* Every step of the command is a step of the register or none of its own.
LEMMA StepRefines ==
  ASSUME "columns_in_use" \notin EditKinds, IInv, [Next]_vars
  PROVE  Ledger!Next \/ UNCHANGED <<EntriesOf(disk), {m \in Mails : folder[m] = "import"}>>
<1>1. CASE UNCHANGED <<disk, folder>>
  BY <1>1
<1>2. CASE SaveWorkbook \/ SaveFails
  BY <1>2, <1>1, SaveEnters DEF SaveWorkbook, SaveFails
<1>3. CASE \E m \in Mails : MoveMail(m) \/ MoveFails(m)
  BY <1>3, MoveSettles DEF MoveMail, MoveFails, NextToMove
<1>4. CASE SomeEdit
  <2>1. UNCHANGED folder /\ \A r \in Rows : NumberIn(disk', r) = NumberIn(disk, r)
    BY <1>4, EditsKeepNumbers DEF IInv, SessionInv
  <2>2. EntriesOf(disk') = EntriesOf(disk)
    BY <2>1 DEF EntriesOf, NumberIn
  <2> QED
    BY <2>1, <2>2
<1>5. CASE Start \/ (\E d \in Docs : AcquireDocument(d) \/ AllocateDocument(d))
  BY <1>5, <1>1 DEF Start, StartRun, StartPicker, AcquireDocument, AllocateDocument, Decide,
     world
<1>6. CASE \/ FinishAcquisition \/ FinishAllocation \/ OpenSession \/ PrevalidateTargets
           \/ ApplyWrites \/ BuildMailOutcomes \/ FinishMoves \/ WriteReport
  BY <1>6, <1>1 DEF FinishAcquisition, FinishAllocation, OpenSession, PrevalidateTargets,
     ApplyWrites, BuildMailOutcomes, FinishMoves, WriteReport, world
<1>7. CASE \/ \E d \in Docs : AcquisitionFails(d) \/ RegisterUnavailable(d)
           \/ OpenFails \/ ProbeMismatch \/ Crash
  BY <1>7, <1>1 DEF AcquisitionFails, RegisterUnavailable, Decide, OpenFails, ProbeMismatch,
     Crash, world
<1>8. CASE UNCHANGED vars
  BY <1>8, <1>1 DEF vars, world
<1> QED
  BY <1>2, <1>3, <1>4, <1>5, <1>6, <1>7, <1>8 DEF Next, Progress, SomeFault

\* While nobody moves a column during a command, the import command keeps the
\* register: a number enters on a free row, once per batch and never where a
\* row gives it back as it was entered, none is replaced, and no mail is
\* settled before its numbers are in the workbook (allocate_import_btb_lc_documents,
\* execute_import_btb_lc_writes, _execute_import_current_mail_moves).  A cell
\* that turns a number of digits into a decimal is outside Legible: of those
\* nothing is said, and EnteredOnceTheorem says what it takes to exclude them.
THEOREM RegisterTheorem ==
  ASSUME "columns_in_use" \notin EditKinds
  PROVE  Spec => ImplementsBtbRegister
<1>1. Init => Ledger!Init
  <2> SUFFICES ASSUME Init PROVE Ledger!Init
    OBVIOUS
  <2>1. PICK order \in Orders : disk = BlankBook(order)
    BY DEF Init
  <2>2. \A r \in Rows : NumberIn(disk, r) = Blank
    BY <2>1 DEF BlankBook, NumberIn, Keys, ImportKeys
  <2>3. EntriesOf(disk) = {}
    BY <2>2, EntryOf
  <2>4. {m \in Mails : folder[m] = "import"} = {}
    BY DEF Init
  <2> QED
    BY <2>3, <2>4 DEF Ledger!Init
<1>2. IInv /\ [Next]_vars =>
        [Ledger!Next]_<<EntriesOf(disk), {m \in Mails : folder[m] = "import"}>>
  BY StepRefines
<1> QED
  BY <1>1, <1>2, InitIInv, NextIInv, PTL DEF Spec, ImplementsBtbRegister, Ledger!Spec

\* While nobody moves a column during a command, a save of the command changes no cell but the
\* blank import cells of the rows it has staged (execute_import_btb_lc_writes).
THEOREM StagedCellsTheorem ==
  ASSUME "columns_in_use" \notin EditKinds
  PROVE  Spec => OnlyStagedCellsChange
<1>1. IInv /\ [Next]_vars =>
        [disk' # disk /\ edits' = edits =>
           \A r \in Rows, k \in Keys :
             disk'.cells[r][k] # disk.cells[r][k] =>
               /\ k \in ImportKeys
               /\ disk.cells[r][k] = Blank
               /\ \E p \in plan : Target(disk, p) = r]_vars
  <2> SUFFICES ASSUME IInv, Next, disk' # disk, edits' = edits
               PROVE  \A r \in Rows, k \in Keys :
                        disk'.cells[r][k] # disk.cells[r][k] =>
                          /\ k \in ImportKeys
                          /\ disk.cells[r][k] = Blank
                          /\ \E p \in plan : Target(disk, p) = r
    OBVIOUS
  <2>1. CASE SaveWorkbook \/ SaveFails
    <3>1. pc = "applied" /\ disk' = book
      BY <2>1 DEF SaveWorkbook, SaveFails
    <3> QED
      BY <3>1 DEF IInv, SessionInv
  <2>2. CASE SomeEdit
    BY <2>2, EditsAreCounted DEF IInv, ControlInv
  <2>3. CASE Start \/ (Progress /\ ~SaveWorkbook)
    BY <2>3 DEF Start, StartRun, StartPicker, Progress, AcquireDocument, AllocateDocument,
       Decide, FinishAcquisition, FinishAllocation, OpenSession, PrevalidateTargets,
       ApplyWrites, BuildMailOutcomes, MoveMail, FinishMoves, WriteReport, world
  <2>4. CASE SomeFault /\ ~SaveFails
    BY <2>4 DEF SomeFault, AcquisitionFails, RegisterUnavailable, Decide, OpenFails,
       ProbeMismatch, MoveFails, Crash, world
  <2> QED
    BY <2>1, <2>2, <2>3, <2>4 DEF Next
<1> QED
  BY <1>1, InitIInv, NextIInv, PTL DEF Spec, OnlyStagedCellsChange
-----------------------------------------------------------------------------
(* The number cells of a sheet that is formatted as text. *)

\* A number column that gives every number back as it was entered.
TextColumn == \A r \in Rows, d \in Docs : ReadsBack(r, Doc[d].number)

\* A workbook after the save of a batch: what is new is a number of the plan,
\* each in one place.
LEMMA SavedOnce ==
  ASSUME TextColumn, IInv, NumberEnteredOnce, pc = "applied",
         NEW r \in Rows, NEW q \in Rows,
         NumberIn(book, r) \notin {Blank, Foreign}, NumberIn(book, q) = NumberIn(book, r)
  PROVE  q = r
<1>1. ASSUME NEW a \in Rows
      PROVE  \/ NumberIn(book, a) = NumberIn(disk, a)
             \/ \E p \in plan : Target(disk, p) = a /\ NumberIn(book, a) = Doc[p.doc].number
  <2>1. "btb_lc_no" \in Keys
    BY DEF Keys, ImportKeys
  <2> QED
    BY <2>1 DEF IInv, SessionInv, NumberIn
<1>2. \A p \in plan, a \in Rows : NumberIn(disk, a) # Doc[p.doc].number
  BY DEF IInv, PlanInv, BeforeSave, InSession, FoundOnDisk, TextColumn
<1>3. \A p, s \in plan : Doc[p.doc].number = Doc[s.doc].number => p = s
  BY DEF IInv, PlanInv
<1>4. CASE NumberIn(book, r) = NumberIn(disk, r) /\ NumberIn(book, q) = NumberIn(disk, q)
  BY <1>4 DEF NumberEnteredOnce, NumberIn
<1> QED
  BY <1>1, <1>2, <1>3, <1>4

\* No step enters a number that is in the workbook (_classify_workbook_duplicate).
LEMMA EnteredOnceStep ==
  ASSUME "columns_in_use" \notin EditKinds, TextColumn, IInv, NumberEnteredOnce, [Next]_vars
  PROVE  NumberEnteredOnce'
<1>1. ASSUME \A r \in Rows : NumberIn(disk', r) = NumberIn(disk, r)
      PROVE  NumberEnteredOnce'
  BY <1>1 DEF NumberEnteredOnce, NumberIn
<1>2. CASE SaveWorkbook \/ SaveFails
  <2>1. pc = "applied" /\ disk' \in {disk, book}
    BY <1>2 DEF SaveWorkbook, SaveFails
  <2>2. CASE disk' = book
    BY <2>1, <2>2, SavedOnce DEF NumberEnteredOnce, NumberIn
  <2> QED
    BY <2>1, <2>2, <1>1
<1>3. CASE SomeEdit
  BY <1>3, <1>1, EditsKeepNumbers DEF IInv, SessionInv
<1>4. CASE Start \/ (Progress /\ ~SaveWorkbook)
  BY <1>4, <1>1 DEF Start, StartRun, StartPicker, Progress, AcquireDocument,
     AllocateDocument, Decide, FinishAcquisition, FinishAllocation, OpenSession,
     PrevalidateTargets, ApplyWrites, BuildMailOutcomes, MoveMail, FinishMoves,
     WriteReport, world
<1>5. CASE SomeFault /\ ~SaveFails
  BY <1>5, <1>1 DEF SomeFault, AcquisitionFails, RegisterUnavailable, Decide, OpenFails,
     ProbeMismatch, MoveFails, Crash, world
<1>6. CASE UNCHANGED vars
  BY <1>6, <1>1 DEF vars, world
<1> QED
  BY <1>2, <1>3, <1>4, <1>5, <1>6 DEF Next, Progress, SomeFault

\* While nobody moves a column during a command, and where the number column is
\* formatted as text (or no number of a document is all digits), no BTB LC
\* number is ever in two rows: docs/architecture.md:282 holds under this condition, which the
\* code does not establish, and Import_reentered shows that it is needed
\* (_classify_workbook_duplicate, execute_import_btb_lc_writes).
THEOREM EnteredOnceTheorem ==
  ASSUME "columns_in_use" \notin EditKinds, TextColumn
  PROVE  Spec => []NumberEnteredOnce
<1>1. Init => NumberEnteredOnce
  BY DEF Init, BlankBook, NumberEnteredOnce, Keys, ImportKeys
<1>2. IInv /\ NumberEnteredOnce /\ [Next]_vars => NumberEnteredOnce'
  BY EnteredOnceStep
<1> QED
  BY <1>1, <1>2, InitIInv, NextIInv, PTL DEF Spec
-----------------------------------------------------------------------------
(* Types, whatever others do to the columns. *)

\* The quantity of a document adds up.
LEMMA QuantityType ==
  ASSUME NEW d \in Docs
  PROVE  Quantity(d) \in Nat
<1> DEFINE S == Sellers(d)
           f == [p \in S |-> Register[p]["quantity"]]
           pick == [s \in SUBSET S |-> OneOf(s)]
           IsSum(g) == g = [s \in SUBSET S |->
                              IF s = {} THEN 0
                              ELSE Register[OneOf(s)]["quantity"] + g[s \ {OneOf(s)}]]
           sum == CHOOSE g : IsSum(g)
<1>1. S \in SUBSET PIs /\ IsFiniteSet(S)
  <2>1. Doc[d].pis \in Seq(PIs)
    BY DocAssumption
  <2>2. S \in SUBSET PIs
    BY <2>1 DEF Sellers, Range
  <2> HIDE DEF S
  <2> QED
    BY <2>2, RegisterAssumption, FS_Subset
<1>2. f \in [S -> Nat]
  BY <1>1, RegisterAssumption
<1>3. \A s \in SUBSET S : pick[s] = OneOf(s)
  OBVIOUS
<1>4. Picks(pick, S)
  BY <1>3 DEF OneOf, Picks
<1>5. \A p \in S : f[p] = Register[p]["quantity"]
  OBVIOUS
<1>6. Quantity(d) = sum[S]
  BY DEF Quantity, Total
<1> HIDE DEF S, f, pick
<1>7. PICK g \in [SUBSET S -> Nat] : AddsUp(g, S, f, pick)
  BY <1>1, <1>2, <1>4, SumExists
<1> DEFINE Plus(s, h) == IF s = {} THEN 0
                         ELSE Register[OneOf(s)]["quantity"] + h[s \ {OneOf(s)}]
<1>8. ASSUME NEW s \in SUBSET S, NEW h
      PROVE  Plus(s, h) = IF s = {} THEN 0 ELSE f[pick[s]] + h[s \ {pick[s]}]
  BY <1>3, <1>4, <1>5 DEF Picks
<1>9. IsSum(g)
  <2>1. g = [s \in SUBSET S |-> g[s]]
    BY <1>7
  <2>2. ASSUME NEW s \in SUBSET S PROVE g[s] = Plus(s, g)
    BY <1>7, <1>8 DEF AddsUp
  <2> QED
    BY <2>1, <2>2
<1>10. IsSum(sum)
  BY <1>9
<1> HIDE DEF sum
<1>11. AddsUp(sum, S, f, pick)
  <2>1. ASSUME NEW s \in SUBSET S PROVE sum[s] = Plus(s, sum)
    BY <1>10
  <2> QED
    BY <2>1, <1>8 DEF AddsUp
<1> QED
  BY <1>1, <1>2, <1>4, <1>6, <1>11, SumType

\* What the cells of a workbook hold.
Cells == [Rows -> [Keys -> Nat]]

\* A workbook is its fields.
LEMMA BookFields ==
  ASSUME NEW wb \in Books
  PROVE  /\ wb = [order |-> wb.order, column |-> wb.column, headers |-> wb.headers,
                  cells |-> wb.cells]
         /\ wb.order \in [Positions -> Rows] /\ wb.column \in [Keys -> Columns]
         /\ wb.headers \in BOOLEAN /\ wb.cells \in Cells
  BY DEF Books, Cells

\* What a cell is filled with keeps a workbook one.
LEMMA CellsOfBook ==
  ASSUME NEW wb \in Books, NEW c \in Cells
  PROVE  [wb EXCEPT !.cells = c] \in Books
<1>1. [wb EXCEPT !.cells = c]
        = [order |-> wb.order, column |-> wb.column, headers |-> wb.headers, cells |-> c]
  BY BookFields
<1> QED
  BY <1>1, BookFields DEF Books, Cells

\* What others do keeps the workbook one.
LEMMA EditsKeepBook ==
  ASSUME disk \in Books, SomeEdit
  PROVE  disk' \in Books
<1> DEFINE o == disk.order
           l == disk.column
           h == disk.headers
           c == disk.cells
<1>1. /\ disk = [order |-> o, column |-> l, headers |-> h, cells |-> c]
      /\ o \in [Positions -> Rows] /\ l \in [Keys -> Columns] /\ h \in BOOLEAN /\ c \in Cells
  BY BookFields
<1>2. ASSUME NEW r \in Rows, NEW k \in {"up_no", "quantity_kgs"}, FillCell(r, k)
      PROVE  disk' \in Books
  <2> DEFINE new == [c EXCEPT ![r][k] = Foreign]
  <2>1. disk' = [disk EXCEPT !.cells = new]
    BY <1>1, <1>2 DEF FillCell
  <2>2. new \in Cells
    BY <1>1 DEF Cells, Foreign
  <2> HIDE DEF new
  <2> QED
    BY <2>1, <2>2, CellsOfBook
<1>3. ASSUME NEW i \in Positions, NEW j \in Positions, SwapRows(i, j)
      PROVE  disk' \in Books
  <2> DEFINE new == [[o EXCEPT ![i] = o[j]] EXCEPT ![j] = o[i]]
  <2>1. disk' = [order |-> new, column |-> l, headers |-> h, cells |-> c]
    BY <1>1, <1>3 DEF SwapRows
  <2>2. new \in [Positions -> Rows]
    BY <1>1
  <2> HIDE DEF new
  <2> QED
    BY <1>1, <2>1, <2>2 DEF Books, Cells
<1>4. ASSUME NEW k \in Keys, NEW q \in Keys, SwapColumns(k, q)
      PROVE  disk' \in Books
  <2> DEFINE new == [[l EXCEPT ![k] = l[q]] EXCEPT ![q] = l[k]]
  <2>1. disk' = [order |-> o, column |-> new, headers |-> h, cells |-> c]
    BY <1>1, <1>4 DEF SwapColumns
  <2>2. new \in [Keys -> Columns]
    BY <1>1
  <2> HIDE DEF new
  <2> QED
    BY <1>1, <2>1, <2>2 DEF Books, Cells
<1>5. CASE RenameHeader
  <2>1. disk' = [order |-> o, column |-> l, headers |-> ~h, cells |-> c]
    BY <1>1, <1>5 DEF RenameHeader
  <2>2. (~h) \in BOOLEAN
    <3>1. h = TRUE \/ h = FALSE
      BY <1>1
    <3> QED
      BY <3>1
  <2> QED
    BY <1>1, <2>1, <2>2 DEF Books, Cells
<1> QED
  BY <1>2, <1>3, <1>4, <1>5 DEF SomeEdit

\* The cells a batch is written to hold numbers.
LEMMA WrittenCellsType ==
  ASSUME book \in Books, plan \in SUBSET [doc : Docs, row : Positions]
  PROVE  WrittenCells \in Cells
<1> DEFINE Meets(r, k) ==
             \E p \in plan, key \in ImportKeys :
               Target(book, p) = r /\ KeyUnder(key, snap.column, book.column) = k
           P(r) == CHOOSE p \in plan : Target(book, p) = r
           K(k) == CHOOSE key \in ImportKeys : KeyUnder(key, snap.column, book.column) = k
<1>1. ASSUME NEW r \in Rows, NEW k \in Keys, Meets(r, k)
      PROVE  CellValue(P(r).doc, K(k)) \in Nat
  <2>1. P(r) \in plan /\ K(k) \in ImportKeys
    BY <1>1
  <2> HIDE DEF P, K, Meets
  <2>2. P(r).doc \in Docs
    BY <2>1
  <2>3. Quantity(P(r).doc) \in Nat
    BY <2>2, QuantityType
  <2>4. /\ Doc[P(r).doc].number \in Nat /\ Doc[P(r).doc].date \in Nat
        /\ Doc[P(r).doc].value \in Nat
    BY <2>2, DocAssumption
  <2> QED
    BY <2>1, <2>3, <2>4 DEF CellValue, ImportKeys
<1>2. \A r \in Rows, k \in Keys : book.cells[r][k] \in Nat
  BY BookFields DEF Cells
<1>3. WrittenCells = [r \in Rows |-> [k \in Keys |->
        IF Meets(r, k) THEN CellValue(P(r).doc, K(k)) ELSE book.cells[r][k]]]
  BY DEF WrittenCells
<1> HIDE DEF Meets, P, K
<1> QED
  BY <1>1, <1>2, <1>3 DEF Cells

\* Where a document is staged, a row is found for it.
LEMMA StagedRowType ==
  ASSUME snap \in Books, NEW d \in Docs, Decision(d) = "staged"
  PROVE  SelectedRow(d) \in Positions
<1>1. CandidateRows(d) # {}
  BY DEF Decision
<1>2. SelectedRow(d) \in CandidateRows(d)
  BY <1>1, BookFields, SelectedRowIsCandidate
<1> QED
  BY <1>2 DEF CandidateRows

\* A decision is one.
LEMMA DecisionType ==
  ASSUME NEW d
  PROVE  Decision(d) \in Outcomes
  BY DEF Decision, Outcomes

\* A fault is counted up to its bound.
LEMMA FaultsBounded ==
  ASSUME faults \in 0..MaxFaults, Fault
  PROVE  faults' \in 0..MaxFaults
  BY BoundAssumption DEF Fault

\* The types are kept by every step (the stages of the command, its failures
\* and the edits of others).
LEMMA TypeStep == TypeOK /\ [Next]_vars => TypeOK'
<1> SUFFICES ASSUME TypeOK, [Next]_vars PROVE TypeOK'
  OBVIOUS
<1>1. CASE Start
  <2>1. /\ UNCHANGED <<disk, folder, store, book, edits, faults>>
        /\ snap' = disk /\ pc' \in Steps /\ live' \in BOOLEAN
        /\ mails' \subseteq Mails /\ blocked' \subseteq Mails /\ toMove' = {}
        /\ todo' \subseteq Docs /\ documents' \subseteq Docs /\ accepted' = {} /\ plan' = {}
        /\ outcome' = [d \in Docs |-> "none"] /\ status' = "none"
    BY <1>1 DEF Start, StartRun, StartPicker, PickedFiles, Steps, world
  <2>2. outcome' \in [Docs -> Outcomes]
    BY <2>1 DEF Outcomes
  <2> QED
    BY <2>1, <2>2 DEF TypeOK, Statuses
<1>2. CASE \E d \in Docs : AcquireDocument(d) \/ AcquisitionFails(d)
  <2>1. PICK d \in Docs : AcquireDocument(d) \/ AcquisitionFails(d)
    BY <1>2
  <2>2. Doc[d].mail \in Mails /\ Doc[d].content \in Nat /\ Doc[d].file \in {Doc[e].file : e \in Docs}
    BY DocAssumption
  <2>3. /\ UNCHANGED <<disk, folder, pc, live, mails, snap, outcome, accepted, plan, book,
                       status, toMove, edits>>
        /\ todo' = todo \ {d}
        /\ documents' = documents \/ documents' = documents \cup {d}
        /\ blocked' = blocked \/ blocked' = blocked \cup {Doc[d].mail}
        /\ store' = store \/ store' = [store EXCEPT ![Doc[d].file] = Doc[d].content]
        /\ faults' = faults \/ Fault
    BY <2>1 DEF AcquireDocument, AcquisitionFails, world
  <2>4. store' \in [{Doc[e].file : e \in Docs} -> Nat]
    BY <2>2, <2>3 DEF TypeOK
  <2>5. faults' \in 0..MaxFaults
    BY <2>3, FaultsBounded DEF TypeOK
  <2>6. blocked' \subseteq Mails /\ documents' \subseteq Docs /\ todo' \subseteq Docs
    BY <2>2, <2>3 DEF TypeOK
  <2> QED
    BY <2>3, <2>4, <2>5, <2>6 DEF TypeOK
<1>3. CASE \E d \in Docs : AllocateDocument(d) \/ RegisterUnavailable(d)
  <2>1. PICK d \in Docs : AllocateDocument(d) \/ RegisterUnavailable(d)
    BY <1>3
  <2>2. PICK decision \in Outcomes : outcome' = [outcome EXCEPT ![d] = decision]
    <3>1. Decision(d) \in Outcomes /\ "hard_block" \in Outcomes
      BY DecisionType DEF Outcomes
    <3> QED
      BY <2>1, <3>1 DEF AllocateDocument, RegisterUnavailable, Decide
  <2>3. /\ UNCHANGED <<disk, folder, store, pc, live, mails, snap, todo, documents, blocked,
                       book, status, toMove, edits>>
        /\ accepted' \subseteq accepted \cup {d}
        /\ faults' = faults \/ Fault
    BY <2>1 DEF AllocateDocument, RegisterUnavailable, Decide, world
  <2>4. plan' \in SUBSET [doc : Docs, row : Positions]
    <3>1. CASE plan' = plan
      BY <3>1 DEF TypeOK
    <3>2. CASE plan' # plan
      <4>1. Decision(d) = "staged" /\ plan' = plan \cup {[doc |-> d, row |-> SelectedRow(d)]}
        BY <2>1, <3>2 DEF AllocateDocument, RegisterUnavailable
      <4>2. SelectedRow(d) \in Positions
        BY <4>1, StagedRowType DEF TypeOK
      <4> QED
        BY <4>1, <4>2 DEF TypeOK
    <3> QED
      BY <3>1, <3>2
  <2>5. outcome' \in [Docs -> Outcomes]
    BY <2>2 DEF TypeOK
  <2>6. faults' \in 0..MaxFaults
    BY <2>3, FaultsBounded DEF TypeOK
  <2> QED
    BY <2>3, <2>4, <2>5, <2>6 DEF TypeOK
<1>4. CASE \/ FinishAcquisition \/ FinishAllocation \/ OpenFails \/ PrevalidateTargets
           \/ ProbeMismatch \/ FinishMoves \/ WriteReport \/ Crash
  <2>1. /\ UNCHANGED <<disk, folder, store, live, mails, snap, todo, documents, blocked, outcome,
                       accepted, plan, book, toMove, edits>>
        /\ pc' \in Steps /\ status' \in Statuses
        /\ faults' = faults \/ Fault
    BY <1>4 DEF FinishAcquisition, FinishAllocation, OpenFails, PrevalidateTargets,
                ProbeMismatch, FinishMoves, WriteReport, Crash, EndWrites, world, Steps, Statuses,
                TypeOK
  <2>2. faults' \in 0..MaxFaults
    BY <2>1, FaultsBounded DEF TypeOK
  <2> QED
    BY <2>1, <2>2 DEF TypeOK
<1>5. CASE OpenSession \/ ApplyWrites
  <2>1. /\ UNCHANGED <<disk, folder, store, live, mails, snap, todo, documents, blocked, outcome,
                       accepted, plan, status, toMove, edits, faults>>
        /\ pc' \in Steps
        /\ book' = disk \/ book' = [book EXCEPT !.cells = WrittenCells]
    BY <1>5 DEF OpenSession, ApplyWrites, world, Steps
  <2>2. book' \in Books
    BY <2>1, WrittenCellsType, CellsOfBook DEF TypeOK
  <2> QED
    BY <2>1, <2>2 DEF TypeOK
<1>6. CASE SaveWorkbook \/ SaveFails
  <2>1. /\ UNCHANGED <<folder, store, live, mails, snap, todo, documents, blocked, outcome,
                       accepted, plan, book, toMove, edits>>
        /\ pc' \in Steps /\ status' \in Statuses
        /\ disk' \in {disk, book}
        /\ faults' = faults \/ Fault
    BY <1>6 DEF SaveWorkbook, SaveFails, EndWrites, Steps, Statuses
  <2>2. faults' \in 0..MaxFaults
    BY <2>1, FaultsBounded DEF TypeOK
  <2> QED
    BY <2>1, <2>2 DEF TypeOK
<1>7. CASE BuildMailOutcomes
  <2>1. /\ UNCHANGED <<disk, folder, store, live, mails, snap, todo, documents, blocked, outcome,
                       accepted, plan, book, status, edits, faults>>
        /\ pc' \in Steps
        /\ toMove' \subseteq mails
    BY <1>7 DEF BuildMailOutcomes, world, Steps
  <2> QED
    BY <2>1 DEF TypeOK
<1>8. CASE \E m \in Mails : MoveMail(m) \/ MoveFails(m)
  <2>1. PICK m \in Mails : MoveMail(m) \/ MoveFails(m)
    BY <1>8
  <2>2. /\ UNCHANGED <<disk, store, live, mails, snap, todo, documents, blocked, outcome,
                       accepted, plan, book, status, edits>>
        /\ pc' \in Steps /\ toMove' \subseteq toMove
        /\ folder' \in {folder, [folder EXCEPT ![m] = "import"]}
        /\ faults' = faults \/ Fault
    BY <2>1 DEF MoveMail, MoveFails, Steps, TypeOK
  <2>3. faults' \in 0..MaxFaults
    BY <2>2, FaultsBounded DEF TypeOK
  <2>4. folder' \in [Mails -> {"working", "import"}]
    BY <2>2 DEF TypeOK
  <2> QED
    BY <2>2, <2>3, <2>4 DEF TypeOK
<1>9. CASE SomeEdit
  <2>1. disk' \in Books
    BY <1>9, EditsKeepBook DEF TypeOK
  <2>2. UNCHANGED <<folder, store, run, faults>> /\ edits < MaxEdits /\ edits' = edits + 1
    BY <1>9 DEF SomeEdit, FillCell, SwapRows, SwapColumns, RenameHeader, Edit
  <2>3. edits' \in 0..MaxEdits
    BY <2>2, BoundAssumption DEF TypeOK
  <2> QED
    BY <2>1, <2>2, <2>3 DEF TypeOK, run
<1>10. CASE UNCHANGED vars
  BY <1>10 DEF vars, world, run, TypeOK
<1> QED
  BY <1>1, <1>2, <1>3, <1>4, <1>5, <1>6, <1>7, <1>8, <1>9, <1>10
  DEF Next, Progress, SomeFault

\* Every reachable state is typed, whatever others do to the rows and columns.
THEOREM TransferTypeTheorem == Spec => []TypeOK
<1>1. Init => TypeOK
  <2> SUFFICES ASSUME Init PROVE TypeOK
    OBVIOUS
  <2>1. PICK order \in Orders : disk = BlankBook(order)
    BY DEF Init
  <2>2. order \in [Positions -> Rows]
    BY RowAssumption DEF Positions, Bijection, Injection
  <2>3. [r \in Rows |-> [k \in Keys |-> Blank]] \in [Rows -> [Keys -> Nat]]
    BY DEF Blank
  <2>4. [k \in Keys |-> k] \in [Keys -> Columns]
    BY DEF Columns
  <2>5. disk \in Books
    BY <2>1, <2>2, <2>3, <2>4 DEF BlankBook, Books
  <2>6. /\ folder \in [Mails -> {"working", "import"}]
        /\ store \in [{Doc[d].file : d \in Docs} -> Nat]
        /\ outcome \in [Docs -> Outcomes]
    BY DEF Init, Blank, Outcomes
  <2>7. 0 \in 0..MaxEdits /\ 0 \in 0..MaxFaults
    BY BoundAssumption
  <2> QED
    BY <2>5, <2>6, <2>7 DEF Init, TypeOK, Steps, Statuses
<1> QED
  BY <1>1, TypeStep, PTL DEF Spec
=============================================================================
