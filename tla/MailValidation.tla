--------------------------- MODULE MailValidation ---------------------------
(***************************************************************************)
(* Runs of export_lc_sc and ud_ip_exp over one workbook, one document      *)
(* store and the two working folders.  A run snapshots its mails and the   *)
(* workbook, validates the mails one after the other against a snapshot    *)
(* that the staged writes of the earlier ones advance, writes the batch,   *)
(* prints the new documents and moves the mails.  A run may die at any     *)
(* point; the next one starts from the workbook, the store and the         *)
(* folders as they are.  The inside of the write phase is WriteBatch, of   *)
(* the print phase PrintExecution; across the commands of one run see      *)
(* RunPhases.                                                              *)
(***************************************************************************)
EXTENDS UdAllocation, SequencesExt

CONSTANTS
  Mails,         \* mails by snapshot index
  Mail,          \* a mail: workflow, files in its body, its PDFs in order
  Pdfs,          \* attachment file names
  Docs,          \* classified documents by index
  Doc,           \* what was extracted from a document
  InitialSheets, \* sheets the year's workbook may hold at first
  EditKinds,     \* what others do to it: "sort", "clear", "fill"
  MaxEdits,      \* bound on their edits, between runs
  MaxFaults,     \* bound on crashes and failing services
  MaxRows        \* bound on the rows of the sheet

Workflows == {"export_lc_sc", "ud_ip_exp"}
Kinds == {"UD", "IP", "EXP"}

ASSUME MailAssumption ==
  /\ Mails \subseteq Nat /\ IsFiniteSet(Mails)
  /\ \A m \in Mails :
       /\ DOMAIN Mail[m] = {"workflow", "files", "pdfs"}
       /\ Mail[m].workflow \in Workflows
       /\ Mail[m].files \in Seq(Files) /\ IsInjective(Mail[m].files)
       /\ Mail[m].pdfs \in Seq(Pdfs)
ASSUME DocAssumption ==
  /\ Docs \subseteq Nat /\ IsFiniteSet(Docs)
  /\ \A d \in Docs :
       /\ DOMAIN Doc[d] = {"mail", "kind", "number", "date", "value", "quantity", "lc",
                           "complete", "lcDateMatches", "pdf"}
       /\ Doc[d].mail \in Mails /\ Mail[Doc[d].mail].workflow = "ud_ip_exp"
       /\ Doc[d].pdf \in ToSet(Mail[Doc[d].mail].pdfs)
       /\ Doc[d].kind \in Kinds
       /\ Doc[d].number \in Numbers
       /\ Doc[d].date \in Nat /\ Doc[d].value \in Nat
       /\ Doc[d].quantity \in [Units -> Nat]
       /\ Doc[d].lc \in Families
       /\ Doc[d].complete \in BOOLEAN /\ Doc[d].lcDateMatches \in BOOLEAN
       /\ Doc[d].complete => Doc[d].date # NoDate
ASSUME BoundAssumption == MaxEdits \in Nat /\ MaxFaults \in Nat /\ MaxRows \in Nat

\* A file is on one row, and a used row is that of a file.
Tidy(rows) ==
  /\ \A i, j \in DOMAIN rows : rows[i].file = rows[j].file /\ rows[i].file # NoFile => i = j
  /\ \A i \in DOMAIN rows : rows[i].buyer => rows[i].file # NoFile

\* A number stands on the row of a file.
NumbersOnFiles(rows) ==
  \A i \in DOMAIN rows : rows[i].shared # {} => rows[i].file # NoFile

\* The bound leaves room for every file.
ASSUME SheetAssumption ==
  /\ Cardinality(DOMAIN Erp) <= MaxRows
  /\ \A rows \in InitialSheets : /\ rows \in Seq(Rows) /\ Len(rows) <= MaxRows
                                 /\ Tidy(rows) /\ NumbersOnFiles(rows)

VARIABLES
  sheet,      \* the rows of the workbook file
  store,      \* documents in the store: <<family, file name>>
  printed,    \* documents on paper
  moved,      \* mails moved out of their working folder
  pc,         \* where the run stands
  workflow,   \* its workflow
  queue,      \* mails not validated yet
  working,    \* the snapshot it validates against
  outcome,    \* what it decided on its mails
  plan,       \* its staged write plan
  edits,      \* edits of others so far
  faults      \* crashes and failures so far

run == <<pc, workflow, queue, working, outcome, plan>>
vars == <<sheet, store, printed, moved, run, edits, faults>>
-----------------------------------------------------------------------------
(* What a mail resolves to in the ERP register. *)

NoFamily == "no family"

\* The members of a set, each at its place in an order.
Listed(S, before) ==
  [i \in 1..Cardinality(S) |->
     CHOOSE x \in S : Cardinality({y \in S : <<y, x>> \in before}) = i - 1]

Body(m) == Mail[m].files
Known(m) == {f \in ToSet(Body(m)) : f \in DOMAIN Erp}

VerifiedFamily(m) ==
  LET lcs == {Erp[f].lc : f \in Known(m)}
  IN  IF Cardinality(lcs) = 1 THEN CHOOSE lc \in lcs : TRUE ELSE NoFamily

\* The rules the two workflows share.
FamilyRulesPass(m) ==
  /\ Body(m) # <<>>
  /\ Known(m) = ToSet(Body(m))
  /\ VerifiedFamily(m) # NoFamily

DocsOf(m) == {d \in Docs : Doc[d].mail = m}
OfKind(docs, kinds) == {d \in docs : Doc[d].kind \in kinds}
-----------------------------------------------------------------------------
(* Writes: an append fills a row for a file, an assignment fills the       *)
(* shared cell and its two dates.                                          *)

AppendOp(m, row, file) ==
  [mail |-> m, row |-> row, file |-> file, shared |-> {}, date |-> NoDate]
AssignOp(m, row, shared, date) ==
  [mail |-> m, row |-> row, file |-> NoFile, shared |-> shared, date |-> date]
IsAppend(op) == op.file # NoFile

RowAt(rows, i) == IF i \in DOMAIN rows THEN rows[i] ELSE BlankRow

Written(row, op) ==
  IF IsAppend(op) THEN [row EXCEPT !.file = op.file, !.buyer = TRUE]
  ELSE [row EXCEPT !.shared = op.shared, !.date = op.date, !.recv = TRUE]

\* Appends name the next rows without a gap.
Applied(rows, ops) ==
  LET last == Max({Len(rows)} \cup {op.row : op \in ops})
      At(i) == {op \in ops : op.row = i}
  IN  [i \in 1..last |-> IF At(i) = {} THEN RowAt(rows, i)
                         ELSE Written(RowAt(rows, i), CHOOSE op \in At(i) : TRUE)]

\* The prevalidation of the write phase against the workbook as it is now.
TargetsBlank(rows, op) ==
  LET row == RowAt(rows, op.row)
  IN  IF IsAppend(op) THEN ~row.buyer /\ row.file = NoFile ELSE TargetsFree(row)
-----------------------------------------------------------------------------
(* export_lc_sc: append a row for every file the workbook does not hold. *)

FilesIn(rows) == {rows[i].file : i \in DOMAIN rows} \ {NoFile}

\* The first row without a buyer, else the row after the last.
NextExportRow(rows) ==
  LET open == {i \in DOMAIN rows : ~rows[i].buyer}
  IN  IF open = {} THEN Len(rows) + 1 ELSE Min(open)

\* Fault: known files are appended again.
ExportStagingOfAll(m, rows) ==
  [ops |-> {AppendOp(m, NextExportRow(rows) + k - 1, Body(m)[k]) : k \in DOMAIN Body(m)},
   duplicates |-> FALSE, blocked |-> FALSE]

ExportStaging(m, rows) ==
  LET new == {k \in DOMAIN Body(m) : Body(m)[k] \notin FilesIn(rows)}
      staged == {k \in new : Erp[Body(m)[k]].complete}
      Target(k) == NextExportRow(rows) + Cardinality({j \in staged : j < k})
  IN  [ops |-> {AppendOp(m, Target(k), Body(m)[k]) : k \in staged},
       duplicates |-> new # DOMAIN Body(m),
       blocked |-> new # staged]
-----------------------------------------------------------------------------
(* ud_ip_exp: assign the documents of a mail to rows. *)

\* Documents by date, number and index.
ByDate ==
  {p \in Docs \X Docs :
     \/ Doc[p[1]].date < Doc[p[2]].date
     \/ Doc[p[1]].date = Doc[p[2]].date /\ p[1] < p[2]}

\* Documents of one mail with one number: the first stands for all, unless
\* they disagree.
SameEvidence(a, b) == Doc[a] = [Doc[b] EXCEPT !.pdf = Doc[a].pdf]
Twins(m, d) == {e \in OfKind(DocsOf(m), {"UD"}) : Doc[e].number = Doc[d].number}
Conflicting(m) ==
  \E d \in OfKind(DocsOf(m), {"UD"}) : \E e \in Twins(m, d) : ~SameEvidence(d, e)
Kept(m) == Listed({d \in OfKind(DocsOf(m), {"UD"}) : d = Min(Twins(m, d))}, ByDate)

\* A document with its allocation in a snapshot advanced by the writes of the
\* documents before and without the rows these have selected.
Stage(s, m, d, allocation) ==
  LET ops == {AssignOp(m, i, {Doc[d].number}, Doc[d].date) : i \in allocation.rows}
  IN  IF allocation.decision = "already_recorded"
        THEN [s EXCEPT !.duplicates = TRUE, !.excluded = @ \cup allocation.rows]
      ELSE IF /\ allocation.decision = "selected"
              /\ \A i \in allocation.rows : TargetsFree(s.rows[i])
        THEN [s EXCEPT !.ops = @ \cup ops, !.excluded = @ \cup allocation.rows,
                       !.rows = Applied(@, ops)]
      ELSE [s EXCEPT !.blocked = TRUE]

\* The documents of a mail one after the other.
NothingStaged(m, rows) ==
  [rows |-> rows, excluded |-> {}, ops |-> {}, blocked |-> FALSE,
   duplicates |-> \E d \in OfKind(DocsOf(m), {"UD"}) : Twins(m, d) # {d}]

StageNext(s, m, d) == Stage(s, m, d, Allocation(s.rows, VerifiedFamily(m), Doc[d], s.excluded))

\* What is staged after each of the documents of a mail.
StagedAfter(m, rows) ==
  LET kept == Kept(m)
      after[k \in 0..Len(kept)] ==
        IF k = 0 THEN NothingStaged(m, rows) ELSE StageNext(after[k - 1], m, kept[k])
  IN  after

Staged(m, rows) == StagedAfter(m, rows)[Len(Kept(m))]

StagingOf(s) ==
  [ops |-> IF s.blocked THEN {} ELSE s.ops, duplicates |-> s.duplicates, blocked |-> s.blocked]

UdStaging(m, rows) == StagingOf(Staged(m, rows))

\* At most one EXP and one IP, an IP not without EXP, no UD with them, one
\* date, and the family of the mail.
IpExpRulesPass(m) ==
  LET docs == DocsOf(m)
  IN  /\ OfKind(docs, {"UD"}) = {}
      /\ Cardinality(OfKind(docs, {"EXP"})) = 1
      /\ Cardinality(OfKind(docs, {"IP"})) <= 1
      /\ \A d, e \in docs : Doc[d].date = Doc[e].date
      /\ \A d \in docs : Doc[d].complete /\ Doc[d].lc = VerifiedFamily(m)

IpExpStaging(m, rows) ==
  LET family == FamilyRows(rows, VerifiedFamily(m))
      shared == {Doc[d].number : d \in DocsOf(m)}
      date == Doc[CHOOSE d \in DocsOf(m) : TRUE].date
      recorded == family # {} /\ FamilyShows(rows, family, shared, date)
      free == family # {} /\ \A i \in family : TargetsFree(rows[i])
  IN  [ops |-> IF free THEN {AssignOp(m, i, shared, date) : i \in family} ELSE {},
       duplicates |-> FALSE,
       blocked |-> ~free /\ ~recorded]
-----------------------------------------------------------------------------
(* The validation of one mail. *)

Blocked == [ops |-> {}, duplicates |-> FALSE, blocked |-> TRUE]

\* IP and EXP documents, or a mix with UDs that no rule passes.
SharedStaging(m, rows) == IF IpExpRulesPass(m) THEN IpExpStaging(m, rows) ELSE Blocked

UdIpExpStaging(m, rows) ==
  IF DocsOf(m) = {} \/ Conflicting(m) THEN Blocked
  ELSE IF OfKind(DocsOf(m), {"UD"}) = DocsOf(m) THEN UdStaging(m, rows)
  ELSE SharedStaging(m, rows)

Staging(m, rows) ==
  IF ~FamilyRulesPass(m) THEN Blocked
  ELSE IF Mail[m].workflow = "export_lc_sc" THEN ExportStaging(m, rows)
  ELSE UdIpExpStaging(m, rows)

\* Fault: duplicates are not told from mails without any work.
DispositionByWrites(staging) ==
  IF staging.ops # {} THEN "new_writes_staged" ELSE "no_write_noop"

Disposition(staging) ==
  CASE staging.duplicates /\ staging.ops # {} -> "mixed_duplicate_and_new_writes"
    [] staging.duplicates /\ staging.ops = {} -> "duplicate_only_noop"
    [] ~staging.duplicates /\ staging.ops # {} -> "new_writes_staged"
    [] OTHER -> "no_write_noop"

Dispositions == {"mixed_duplicate_and_new_writes", "duplicate_only_noop",
                 "new_writes_staged", "no_write_noop"}

\* The first k PDFs of a mail in the folder of its family.
Paths(m, k) == {<<VerifiedFamily(m), Mail[m].pdfs[i]>> : i \in 1..k}

\* The documents must not name another family than the file numbers do.
Storable(m) ==
  /\ VerifiedFamily(m) # NoFamily
  /\ \A d \in DocsOf(m) : Doc[d].lc = VerifiedFamily(m)

\* Not decided yet.
NoOutcome == [blocked |-> TRUE, disposition |-> "no_write_noop", new |-> {}]

Outcome(m, staging, k, saveFailed) ==
  [blocked |-> staging.blocked \/ saveFailed, disposition |-> Disposition(staging),
   new |-> Paths(m, k) \ store]

\* Fault: the snapshot is advanced by writes that are not in the plan.
ConcludeAndAdvance(m, staging, k, saveFailed) ==
  /\ outcome' = [outcome EXCEPT ![m] = Outcome(m, staging, k, saveFailed)]
  /\ plan' = plan \cup (IF saveFailed \/ staging.blocked THEN {} ELSE staging.ops)
  /\ working' = Applied(working, staging.ops)
  /\ store' = store \cup Paths(m, k)
  /\ queue' = Tail(queue)

\* The mail is staged after its first k PDFs have been saved.
Conclude(m, staging, k, saveFailed) ==
  LET ops == IF saveFailed \/ staging.blocked THEN {} ELSE staging.ops
  IN  /\ outcome' = [outcome EXCEPT ![m] = Outcome(m, staging, k, saveFailed)]
      /\ plan' = plan \cup ops
      /\ working' = Applied(working, ops)
      /\ store' = store \cup Paths(m, k)
      /\ queue' = Tail(queue)

Validate(m, k, saveFailed) == Conclude(m, Staging(m, working), k, saveFailed)
-----------------------------------------------------------------------------
(* The actions of a run. *)

Idle ==
  /\ pc' = "idle"
  /\ queue' = <<>> /\ working' = <<>> /\ plan' = {}
  /\ outcome' = [m \in Mails |-> NoOutcome]

\* The mails in the folder, in the order of the snapshot, and the workbook.
StartRun(w) ==
  LET folder == {m \in Mails \ moved : Mail[m].workflow = w}
  IN  /\ pc = "idle" /\ folder # {}
      /\ pc' = "validating" /\ workflow' = w
      /\ queue' = Listed(folder, {p \in Mails \X Mails : p[1] < p[2]})
      /\ working' = sheet
      /\ UNCHANGED <<sheet, store, printed, moved, outcome, plan, edits, faults>>

Validating(w) == pc = "validating" /\ workflow = w /\ queue # <<>>

\* The PDFs are saved after staging, whatever it has found, if the family of
\* the mail is known.
ValidateExportMail ==
  /\ Validating("export_lc_sc")
  /\ LET m == Head(queue)
         known == VerifiedFamily(m) # NoFamily
     IN  Validate(m, IF known THEN Len(Mail[m].pdfs) ELSE 0, ~known)
  /\ UNCHANGED <<sheet, printed, moved, pc, workflow, edits, faults>>

\* The PDFs are saved before staging, if the family of the mail is known and
\* no document contradicts it.
ValidateUdMail ==
  /\ Validating("ud_ip_exp")
  /\ LET m == Head(queue)
     IN  Validate(m, IF Storable(m) THEN Len(Mail[m].pdfs) ELSE 0,
                  ~Storable(m) /\ Mail[m].pdfs # <<>>)
  /\ UNCHANGED <<sheet, printed, moved, pc, workflow, edits, faults>>

\* Outlook fails on a PDF: the ones before it are in the folder of the family.
SavingFails ==
  /\ Validating("export_lc_sc") /\ faults < MaxFaults
  /\ VerifiedFamily(Head(queue)) # NoFamily
  /\ \E k \in 0..Len(Mail[Head(queue)].pdfs) - 1 : Validate(Head(queue), k, TRUE)
  /\ faults' = faults + 1
  /\ UNCHANGED <<sheet, printed, moved, pc, workflow, edits>>

\* Outlook fails on a PDF: the ones before it go with the staging folder.
StagingFails ==
  /\ Validating("ud_ip_exp") /\ faults < MaxFaults
  /\ Mail[Head(queue)].pdfs # <<>>
  /\ Validate(Head(queue), 0, TRUE)
  /\ faults' = faults + 1
  /\ UNCHANGED <<sheet, printed, moved, pc, workflow, edits>>

\* The process dies among the PDFs of a mail.
CrashWhileSaving ==
  /\ pc = "validating" /\ queue # <<>> /\ faults < MaxFaults
  /\ Storable(Head(queue))
  /\ \E k \in 1..Len(Mail[Head(queue)].pdfs) : store' = store \cup Paths(Head(queue), k)
  /\ faults' = faults + 1
  /\ Idle
  /\ UNCHANGED <<sheet, printed, moved, workflow, edits>>

\* The write phase: all of the plan or nothing.
CommitWrites ==
  /\ pc = "validating" /\ queue = <<>> /\ plan # {}
  /\ \A op \in plan : TargetsBlank(sheet, op)
  /\ sheet' = Applied(sheet, plan)
  /\ pc' = "printing"
  /\ UNCHANGED <<store, printed, moved, workflow, queue, working, outcome, plan,
                 edits, faults>>

\* Nothing staged: no commit, and no mail but duplicates may move.
NothingToWrite ==
  /\ pc = "validating" /\ queue = <<>> /\ plan = {}
  /\ pc' = "moving"
  /\ UNCHANGED <<sheet, store, printed, moved, workflow, queue, working, outcome,
                 plan, edits, faults>>

\* A target is populated: the phase fails for every mail of the run.
PrevalidationFails ==
  /\ pc = "validating" /\ queue = <<>>
  /\ \E op \in plan : ~TargetsBlank(sheet, op)
  /\ Idle
  /\ UNCHANGED <<sheet, store, printed, moved, workflow, edits, faults>>

\* The phase ends uncertain, with or without a saved workbook.
WritesEndUncertain ==
  /\ pc = "validating" /\ queue = <<>> /\ plan # {} /\ faults < MaxFaults
  /\ \A op \in plan : TargetsBlank(sheet, op)
  /\ sheet' \in {sheet, Applied(sheet, plan)}
  /\ faults' = faults + 1
  /\ Idle
  /\ UNCHANGED <<store, printed, moved, workflow, edits>>

EarliestRow(m) == Min({op.row : op \in {o \in plan : o.mail = m}})

\* Print groups not printed yet: the new documents of mails that wrote rows.
Groups ==
  {m \in Mails : /\ ~outcome[m].blocked
                 /\ \E op \in plan : op.mail = m
                 /\ ~outcome[m].new \subseteq printed}

PrintGroup ==
  /\ pc = "printing"
  /\ \E m \in Groups :
       /\ \A n \in Groups \ {m} : EarliestRow(m) < EarliestRow(n)
       /\ printed' = printed \cup outcome[m].new
  /\ UNCHANGED <<sheet, store, moved, run, edits, faults>>

PrintCompletes ==
  /\ pc = "printing" /\ Groups = {}
  /\ pc' = "moving"
  /\ UNCHANGED <<sheet, store, printed, moved, workflow, queue, working, outcome,
                 plan, edits, faults>>

\* Mails the move policy lets go once the gate is open.
Movable ==
  {m \in Mails \ moved : ~outcome[m].blocked /\ outcome[m].disposition # "no_write_noop"}

MoveMail ==
  /\ pc = "moving" /\ Movable # {}
  /\ moved' = moved \cup {Min(Movable)}
  /\ UNCHANGED <<sheet, store, printed, run, edits, faults>>

EndRun ==
  /\ pc = "moving" /\ Movable = {}
  /\ Idle
  /\ UNCHANGED <<sheet, store, printed, moved, workflow, edits, faults>>

\* The process dies between two steps; the operator starts over.
Crash ==
  /\ pc # "idle" /\ faults < MaxFaults
  /\ faults' = faults + 1
  /\ Idle
  /\ UNCHANGED <<sheet, store, printed, moved, workflow, edits>>
-----------------------------------------------------------------------------
(* Edits of others, who leave the workbook alone while a run is under way. *)

Edit(kind) ==
  /\ pc = "idle" /\ edits < MaxEdits /\ kind \in EditKinds
  /\ edits' = edits + 1
  /\ UNCHANGED <<store, printed, moved, run, faults>>

SwapRows ==
  /\ Edit("sort")
  /\ \E i, j \in DOMAIN sheet :
       i < j /\ sheet' = [sheet EXCEPT ![i] = sheet[j], ![j] = sheet[i]]

ClearRow ==
  /\ Edit("clear")
  /\ \E i \in DOMAIN sheet :
       sheet[i].shared = {} /\ sheet' = [sheet EXCEPT ![i] = BlankRow]

FillRow ==
  /\ Edit("fill") /\ Len(sheet) < MaxRows
  /\ \E f \in (DOMAIN Erp) \ FilesIn(sheet) :
       sheet' = Append(sheet, [BlankRow EXCEPT !.file = f, !.buyer = TRUE])
-----------------------------------------------------------------------------
Init ==
  /\ sheet \in InitialSheets
  /\ store = {} /\ printed = {} /\ moved = {}
  /\ pc = "idle" /\ workflow = "export_lc_sc"
  /\ queue = <<>> /\ working = <<>> /\ plan = {}
  /\ outcome = [m \in Mails |-> NoOutcome]
  /\ edits = 0 /\ faults = 0

RunStep ==
  \/ CommitWrites
  \/ NothingToWrite
  \/ PrevalidationFails
  \/ PrintGroup
  \/ PrintCompletes
  \/ MoveMail
  \/ EndRun

Faulty == SavingFails \/ StagingFails \/ CrashWhileSaving \/ WritesEndUncertain \/ Crash

Others == SwapRows \/ ClearRow \/ FillRow

Next ==
  \/ \E w \in Workflows : StartRun(w)
  \/ ValidateExportMail
  \/ ValidateUdMail
  \/ RunStep
  \/ Faulty
  \/ Others

Spec == Init /\ [][Next]_vars

\* The step that ends the validation of a mail.
TakeMail == pc = "validating" /\ queue # <<>> /\ queue' = Tail(queue)

\* A command that runs goes on, and the operator runs both workflows again
\* and again.
FairSpec ==
  /\ Spec
  /\ WF_queue(TakeMail)
  /\ WF_vars(RunStep)
  /\ \A w \in Workflows : SF_vars(StartRun(w))
-----------------------------------------------------------------------------
AllPaths == UNION {Paths(m, Len(Mail[m].pdfs)) : m \in Mails}

TypeOK ==
  /\ sheet \in Seq(Rows) /\ Len(sheet) <= MaxRows
  /\ store \subseteq AllPaths /\ printed \subseteq store
  /\ moved \subseteq Mails
  /\ pc \in {"idle", "validating", "printing", "moving"}
  /\ workflow \in Workflows
  /\ ToSet(queue) \subseteq Mails
  /\ working \in Seq(Rows)
  /\ \A m \in Mails : /\ outcome[m].blocked \in BOOLEAN
                       /\ outcome[m].disposition \in Dispositions
                       /\ outcome[m].new \subseteq store
  /\ \A op \in plan : op.row \in 1..MaxRows /\ (IsAppend(op) => op.file \in DOMAIN Erp)
  /\ edits \in 0..MaxEdits /\ faults \in 0..MaxFaults
=============================================================================
