# Verification of customs-commercial-automation

TLA+ modules, TLC model checks and TLAPS proofs for this repository: the live
write phase on the shared master workbook, the recovery of interrupted runs, the
print phase with its annotation checklist, the mail moves, the validation of
export and UD/IP/EXP mails against an advancing snapshot, the dashboard
verification, the import of back-to-back letters of credit, and what the
inspection commands tell the operator.
Paths below are relative to `src/project/` unless they begin with `docs/`; the
lines that each definition stands for are in `PROJECT.json` ("map").

## The system

A **run** processes the mails of an Outlook folder for one of four workflows:
`export_lc_sc` and `ud_ip_exp` (append or fill rows of the master workbook, print
the saved documents, move the mails), `bb_dashboard_verification` (looks LC
families up on a web page and writes the result to existing cells) and
`import_btb_lc` (one command that reads PDFs, fills workbook rows and moves
mails). A run of the first two is a sequence of commands of `cli.py`:

```
validate-run [--apply-live-writes] [--recovery-run-id R]
plan-print
generate-print-annotation-html
execute-print            (again after a failure)
acknowledge-partial-print (only by the operator, after an interruption)
execute-mail-moves
```

`recover-run` and the inspection commands only read. Commands share no memory.
They communicate through the artifacts in the run directory
(`storage/artifacts.py`), each replaced atomically, several of them one after the
other; through the master workbook, which Excel opens for writing at most once;
through the document store; through the printer, which cannot be asked what it
printed; and through the Outlook folders, in which users move mails too.

### Components, their state and operations

| Component | State it keeps | Operations | What makes it correct |
|---|---|---|---|
| Live write phase (`workflows/write_execution.py`, `write_preparation.py`, `workbook/mutation.py`, `workbook/prevalidation.py`) | Excel session, `write_phase_status`, staged plan | open, prevalidate, apply, probe, save, commit, close | a plan reaches the file completely, once, over the values it was staged against; the metadata tells the truth at every crash; the session is given up |
| Recovery (`workflows/recovery.py`, the gate in `cli.py`) | none | validate artifacts, probe the targets, decide | reapply only what is not in the file, resume only what is |
| Print phase (`workflows/print_planning.py`, `print_execution.py`, `printing/providers.py`) | `print_phase_status`, a marker per group, paper | plan, submit, record, resume, acknowledge | markers never claim unprinted documents, nothing recorded is printed again, the stack stays in order, the phase can be completed |
| Checklist (`workflows/print_annotation.py`) | the checklist of the run | select rows, generate, validate | beside each printed document stand the rows that hold it and no others |
| Mail moves (`workflows/mail_moves.py`, `outlook/moves.py`) | `mail_move_phase_status`, a marker per mail, the folders | gate, move, mark | only handled mails leave the working folder, after their groups are printed |
| Run commands (`cli.py`) | the artifacts | load, execute, persist in an order | statuses persisted apart from each other never let a later command do what it should not, and never wedge the run |
| Validation and staging (`workflows/validation.py`, `workflows/*/staging.py`, `duplicate_handling.py`) | the advancing snapshot | classify mails, stage operations | operations of one batch do not collide, duplicates are written once, a row is counted under one document |
| UD matching (`workflows/ud_ip_exp/matching.py`) | none | find the rows whose amounts add up | deterministic, within tolerance, rows of one batch used once |
| Document saving (`storage/document_saving.py`) | the document tree | save, detect duplicates | a saved document is new to exactly one run |
| Dashboard verification (`workflows/bb_dashboard_verification/`) | the browser session and its page, the results | log in, reset, search, read, compare, write | a family is judged on its own answers, rows settled meanwhile stand, one login, a confirmed row becomes compliant |
| Import (`workflows/import_btb_lc/workflow.py`) | the batch in memory, the document store | acquire, allocate, write, move, report | a number is entered on a free row and not where it is already recognised, mails move only when recorded |
| Import extraction (`workflows/import_btb_lc/extraction.py`) | the readings of one PDF | read, scan, collect, resolve, decide | an accepted letter says what was read, and does not contradict itself |
| Inspection (`workflows/operator_queue.py`, `run_index.py`, `run_reporting.py`, `run_recovery_precheck.py`) | none | summarise, list | no effect of a killed command is lost from sight |
| Rules, document analysis, ERP, intake, readiness, configuration | none or read-only | parse, evaluate, report | - |

### What is hard here

* A command can die between any two artifacts; the ones it wrote first are then
  all that the next command sees. The import command has no artifacts at all:
  the workbook, the store and the folders are all that is left of it, and the
  workbook gives a number back differently from how it was written.
* Two runs, or a run and a user, work on one workbook; the plan of a run is made
  from a snapshot that is old when it is applied. The dashboard verification looks
  families up for minutes between reading its rows and writing them.
* The mails of a run are validated against a snapshot that the staged writes of
  the mails before them have advanced, and no write has happened yet.
* A failed print call may have printed. Only the marker survives, and it is
  written after the paper is out.
* Users move mails while a run is under way, and the marker of a move is written
  after the move.
* Every phase can be started again from several statuses; the statuses are set,
  blocked and reset by several commands.
* One dashboard page serves all families: it keeps what the last search left,
  its answers come late or in part, and its session ends without notice.
* Fields of a letter come from text layers and from scans of varying confidence,
  and amounts are written in opposite notations from bank to bank.

`PROJECT.json` lists each of these at its line ("hazards") with the properties
that cover it.

## Modules

| Module | Models | Role |
|---|---|---|
| `StagedPlan` | the staged plan and the three probe classifications | pure definitions |
| `AtomicBatch` | what the write phase promises | abstract specification |
| `WriteBatch` | the write phase, recovery, crashes and edits | detailed specification |
| `PrintLedger` | what the print phase promises, group by group | abstract specification |
| `PrintExecution` | the print phase document by document | detailed specification |
| `RunPhases` | all commands of one run over its artifacts | composition of the phases, each reduced to its outcome |
| `RunReports` | queue, run index, precheck and status of such a run | pure definitions over `RunPhases` |
| `UdAllocation` | which rows a UD, IP or EXP document goes to | pure definitions |
| `EntryLedger` | what the two mail workflows promise together, amounts left out | abstract specification |
| `FamilyLedger` | the same with amounts | abstract specification that adds conditions to the steps of `EntryLedger` |
| `MailValidation` | runs of both mail workflows over one workbook, store and mailbox | detailed specification |
| `PrintAnnotation` | print plan and checklist of such a run | pure definitions over `MailValidation` |
| `BtbRegister` | what the import promises | abstract specification |
| `ImportTransfer` | the import command over workbook, store and mailbox | detailed specification |
| `ImportAmounts` | how amounts are read | pure definitions |
| `ImportExtraction` | the extraction of one letter | detailed specification |
| `DashboardRules` | ERP aggregation and comparison | pure definitions |
| `DashboardEvidence` | the rule results of the report | pure definitions |
| `DashboardVerification` | runs of the dashboard verification over one page and one sheet | detailed specification |

Beside each detailed specification stand `...Props` with its properties and
refinement mapping, `MC...` with its instances for TLC (`RunPhases` needs none),
and `...Proofs` (`DashboardProofs` for the dashboard). `Induction` holds the lemmas
on induction, recursion and orders that the proofs share.

An operator whose comment begins "Mutation:" or "Fault:" is not part of a
specification: it is a definition as a plausible bug would leave it, and each
property is tested by putting one of them in the place of the original.

### How they compose

`RunPhases` takes the phases of a run at the grain its commands see: its three
write steps are what `WriteBatch` shows (the metadata says `applying` before, and
`committed` only after, the workbook was saved), its print group is one step, and
`PrintExecution` is shown to implement just that reading of the phase
(`PrintLedger`). `MailValidation` takes both phases at the same grain and adds what
a run decides about its mails and what several runs leave to each other.
`PrintAnnotation` is evaluated in the states of `MailValidation`, `RunReports` in
those of `RunPhases`. `DashboardVerification` ends a run with the outcomes of the
write phase. `ImportTransfer` has an Excel session of its own and stands alone;
`ImportExtraction` says what a document of it can be.

### WriteBatch

Each run in `Runs` is a process with a program counter `pc[r]`. `disk` is the
workbook file, `mem` the copy in the memory of the one Excel session, `lock` its
holder: nobody, a run, or an orphaned Excel of a dead process.
`meta`, `planFile` and `marker` are the artifacts, `plan` and `report` what the
process holds. The actions follow `execute_live_write_batch` from top to bottom:
`OpenSession`/`OpenFails`, `BeginPrevalidation`, `PrevalidationSucceeds`/`Fails`,
`BeginApply`, `WriteCell` (Excel may turn the value into another one),
`ProbesPass`/`Fail`, `Save`/`SaveFails` (before or after the file was replaced),
`Commit`, `RuntimeError` (any exception in between), `CloseSession` (the finally
block; closing may fail and orphan Excel). `PersistFinalMetadata`,
`PersistStagedWritePlan` and `PersistCommitMarker` are what the command writes
afterwards, in its order. `Stage` is `validate_run_snapshot`, `Prepare` the
command without live writes, `PassGate`/`RefuseGate` the recovery gate with
`Assess`, the whole of `assess_recovery`. `Crash`, `EndOrphan` and `UserEdit` are
the environment. `saved` and `touched` are history: whether the plan reached the
file, and which cells others changed since it was staged.

Abstractions: cells and values are opaque, and a plan is a function from cells
to operations (nothing reads the session between the first write and the probes,
so their order cannot be seen). All operations of a plan carry one of the two
predicates the staging modules produce. The backup artifact never changes after
initialisation, so its hash check always succeeds; the resume-idempotency scan
over print and move markers only adds hard blocks to `safe_resume` and is left
out.

### PrintExecution and PrintLedger

One run, its groups `1..NumGroups` and their documents. `status` is the persisted
phase status, `marker` the marker of each group, `paper` how often each document
has come out, `blanks` the separators. `Execute` starts the loop;
`SkipCompletedGroup`, `StartGroup`, `SubmitDocument`, `SubmitSeparator`,
`FinishGroup`, `Complete` are its way through the Acrobat provider.
`DocumentThroughFallback` is an attempt that raised although it printed, followed
by the next of the three attempts; `DocumentFailsAfterOutput` the last attempt
failing so. Failures write the partial marker (`RecordPartial`), then the status
(`PersistUncertain`). `AcknowledgePartialPrint` is the operator's count, which may
exceed what the group has. `Crash` and `RuntimeError` leave no marker. `lost` counts
the copies no record accounts for.

The plan is fixed: it is a function of the staged writes and the saved documents
of the run, which no later command changes, so the marker-mismatch branch is out
of reach. The simulated provider prints nothing and is left out. The separator
flag inside a marker is never read for a decision and is left out.

`PrintLedger` sees the same phase by groups: one comes out as a whole, is
interrupted, or is recorded, in order, when it is on paper; the phase is completed
with all of them. The mapping computes the groups on paper from `paper` and the
recorded ones from `marker`.

### RunPhases and RunReports

One run of a printing workflow over `NumMails` mails, each of a kind that
validation decides (`blocked`, `no_write`, `duplicate`, `printable`,
`unprintable`). Every command loads the artifacts, works on `mem`, and persists
the files in `pending` one by one (`Persist`), so that a `Crash` can come between
any two. The move phase is modelled in full, Outlook's answer included. The
marker-mismatch branch of the moves is out of reach: the identity of a move is a
function of run and mail.

`RunReports` translates what `operator_queue.py`, `run_index.py`,
`run_reporting.py` and `run_recovery_precheck.py` make of the artifacts:
dispositions and their counts, the mails a phase counts as successful, the markers,
the contradictions of the precheck, and whether the run is a recovery candidate or
may be taken for handled.

### UdAllocation, MailValidation and PrintAnnotation

`sheet` is a sequence of rows, each with an export file, whether it has a buyer,
and the set of UD/IP/EXP numbers in its shared column. `StartRun` snapshots the
workflow's folder and the sheet into `queue` and `working`; `ValidateExportMail`
and `ValidateUdMail` take the next mail, apply its rules (`FamilyRulesPass`,
`Storable`, ...), save its documents, stage its operations and advance `working`
(`Conclude`); `StagingFails`, `SavingFails` and `CrashWhileSaving` leave what was
saved before. `CommitWrites`, `NothingToWrite`, `PrevalidationFails` and
`WritesEndUncertain` are the outcomes of the write phase, then come `PrintGroup`,
`PrintCompletes`, `MoveMail` and `EndRun`. `Crash` comes at any point, and the next
run starts from sheet, store and folders. Others sort, clear and fill rows between
runs.

`UdAllocation` keeps the family search, the candidate states of
`allocate_structured_ud_rows`, exclusion of rows of the same batch, tolerance and
threshold, and the choice among candidates. The bounded combination search
itself is taken as its result: the groups of rows that add up.

`PrintAnnotation` is the print plan (groups, their order, their documents) and the
checklist: the rows staged for a mail, per document where the validation report
has several, the fallbacks for one document, the entries of export mails over all
their rows, the second table of processed documents with their place in the print
sequence, the comparison `Agrees` that guards `execute-print`, and the failure for
want of rows.

### ImportTransfer and BtbRegister

One command that keeps no run state. `StartRun` snapshots mails and workbook,
`AcquireDocument` saves, extracts and promotes the next attachment,
`AllocateDocument` decides on a document (duplicate of the batch or of the
workbook, register, eligible row with the highest percentage), `OpenSession`,
`PrevalidateTargets`, `ApplyWrites`, `ProbeMismatch`, `SaveWorkbook`/`SaveFails` are
the batch in its own session, `BuildMailOutcomes`, `MoveMail`, `FinishMoves` the
mails, `WriteReport` the end. `StartPicker` is the run over picked files.
What Excel does to a number is part of the model: digits in a cell that is not
formatted as text become a number, and its string has a decimal point when it is
read (`ReadsBack`, `_stringify_cell`). `RowsWithNumber` compares strings, as
`_classify_workbook_duplicate` does, and finds a number of `DigitNumbers` in rows
with a text cell only; the probes after the write compare decimals and let both pass.
`Row[r].text` says how the number cell of a row is formatted. `BtbRegister`
has the pairs of row and number that are given back as they were entered
(`Legible`): a number recognised in one of them is not entered again. The signature of a
letter within a batch is the code's, with its currency and the order of its PIs.
Columns are names for the headers that stood in them first: `SwapColumns` and
`RenameHeader` change what a mapping resolved earlier points at, `SwapRows` what a
row position points at, `FillCell` what a cell holds. `EditKinds` says which of them a
run has; they come between any two steps outside the session, and edits of columns
while a command is under way are a kind of their own (`ColumnEdit`). Crashes and
failing services come anywhere.

### ImportExtraction and ImportAmounts

A letter is the readings of its pages by text layer and by scan: which fields a
page mentions, in which place, with which raw value and which confidence.
`ReadTextLayer`, `ScanPoorPages`, `Collect`, `ScanReliablePages` or
`NothingToScan`, and `Resolve` are the stages of `extract_import_btb_lc_pdf`.
Patterns of wording are reduced to what they tell apart (anchored or not, labelled,
continued on the next page); numbers, dates, PIs and amounts are canonicalised by
what the code does. `ImportAmounts` reads an amount as groups of digits with the
separators between them.

### DashboardRules, DashboardEvidence and DashboardVerification

`StartRun` reads the sheet (`snap`) and groups its candidate rows by family. A family without one
consistent ERP aggregate is blocked (`BlockFamily`); the others are looked up by
their keys: `Login`, `Reset`, `Submit`, `ReadAnswer`, with each failure as an action
of its own. The page has a place, what it shows, whether a search dirtied it, and
the answers still under way: `Answer` and `AnswerInPart` may come at any later
time, `Redirect` and `CloseBrowser` end the session without notice. The write
phase ends the run: `Targets` are the rows as they were read, `Prevalidated` compares
each cell to be written with what was read of it, one that differs blocks the batch,
and the results reach the sheet all, not at all, or nobody knows. Others
fill UP numbers (`FillUpNo`), settle open rows (`SettleRow`) and clear results
(`ClearStatus`), and the bank amends its data (`Amend`), all of it at any time, while a
run is under way too.
`DashboardRules` is the aggregation of ERP rows, of which those that differ in the
folder's buyer only count once, and the comparison with its cascade
of value, quantity, weight and excess rules in hundredths; `DashboardEvidence` the
rule results, which the code computes apart from the decision. `basis` and `logins`
are history.

## Runs

| Run | Instance | Question | Size, time |
|---|---|---|---|
| `WriteBatch_interleaving` | 2 runs, 2 cells, 3 values, no edits, symmetry | metadata and file, refinement of `AtomicBatch`, under every interleaving, failure and crash | 70 s |
| `WriteBatch_edits` | 2 runs, 1 cell, 2 values, 1 edit, fair | recovery, lost updates and refinement with somebody editing the cell; is every session given up | 150 s |
| `Print_markers` | 3 groups of 1, 2, 1 documents, 4 disturbances, fair | markers, reprints, order, refinement of `PrintLedger`, completion | 950,000 states, 70 s |
| `Run_phases` | 2 mails of every kind, 4 disturbances, fair | moves, outcomes, gates, reports, completion across commands | 60 s |
| `Mail_ledger` | 6 mails, 5 documents, 4 files in 2 families, 3 initial sheets, 1 edit, 1 fault, fair | working snapshot, checklist, refinement of `FamilyLedger`, recorded mails leave | 110 s |
| `Dashboard` | 5 rows of 3 families, 1 edit, 2 faults, fair; 10,000 families at the bounds of the rules | lookups apart, one login, rows settled while a run is under way, dates, documented rules, evidence, progress | 147,000 states, 60 s |
| `Import_transfer` | 3 mails, 4 documents, 3 rows, 1 edit of cells, rows or columns, 1 fault, fair | refinement of `BtbRegister`, saves touch staged cells only, recorded mails leave | 217,000 states, 160 s |
| `Import_reading` | 5,000 letters of 4 banks, 2 pages read of up to 3 | accepted letters say what was read, do not contradict themselves; clear ones pass | 70 s |
| `Run_moves_completed`, `Mail_cover`, `Mail_unprinted`, `Import_reentered` | the smallest instance that shows it | disagreements between documents and code, below | seconds |

What a reader should take from the properties that are less than obvious:

* `RecoverySound`: an earlier run is declared safe to reapply only when nothing of
  its plan is in the file, and safe to resume only when all of it is.
* `NoNeedlessReprint` counts: paper per document is at most one more than the
  copies that came out without a record.
* `EffectsAreReported`: between two commands, whatever was killed: saved writes are
  committed or the run is in the recovery queue, no phase counts a mail for which
  there is no marker, and a run listed as needing no action has written nothing
  that its outcomes do not show (with the one exception under "Observations").
* `WorkingSnapshotIsOutcome`: the snapshot that later mails are validated against
  is the sheet as the whole batch will leave it.
* `ImplementsFamilyLedger`: across runs, crashes and edits, a file is entered
  once, a row is counted under one document, and the amounts under a number stay
  equal to documents of that number. Its steps are steps of `EntryLedger`, the ledger
  with amounts left out, so the same run checks `ImplementsEntryLedger`. Both are
  proved, the one with amounts for data that tell documents and rows apart.
* `AnnotationsNameTheirRows`: the rows noted beside a printed document are those
  that hold it in the written workbook, although they were chosen during
  validation. Stated for mails that do not bring two PDFs of one UD.
* `RecordedMailLeaves` (both modules): a mail whose content is in the workbook for
  good is recognised by a later run and moved, though the run that wrote it died. In
  `ImportTransfer` recorded means found: the workbook gives the numbers back as
  they were written. Of a mail whose number has become a decimal nothing is promised.
* `ImplementsBtbRegister`: a number is entered on a free row, once per batch, and not
  again where a row gives it back; none is replaced, and a mail leaves the folder only
  when the file holds its numbers. That a number is in one row altogether
  is `NumberEnteredOnce`, which the code keeps only where number cells are formatted as
  text (`EnteredOnceTheorem`, `Import_reentered`).
* `PlannedGroupsPrintBeforeMoves` is about groups that are in the plan. It holds over the
  empty plan that a killed `plan-print` leaves, and says nothing of it: see "Observations".
* `RunsSettleOpenRows`: what a run decided from rows read at its start changes no row
  that somebody has settled since, and settles a row only on an answer to a search key
  of the row's own family.
* `LookupsStayApart`, `MatchingRowsVerified`: no late answer is taken for another
  family's, and no open row is left for good that the dashboard confirms.
* `NumericRuleAsDocumented`, `EvidenceExplainsDecision`: the cascade of early
  returns accepts exactly what docs/workflows.md:1032-1050 lists, and the second
  computation for the report agrees with the first.
* `ReadAsMeant`, `NothingContradicts`, `ClearLettersPass`: sound and not
  uselessly strict, against a definition of what is printed that is apart from
  the code's parsers.

The bounds and why they are enough for the question:

* Two runs are one that writes and one that interferes, or one that is assessed.
  Two cells are needed for a partial batch; with edits one cell suffices, for the
  partial batch does not depend on them. Only one value is ever planned
  (`PostValues`), which lets two runs plan the same value over the same cell, the
  case that is hard to tell apart.
* Three groups give a group before, at and after the interrupted one; the middle
  one has two documents so that it can be interrupted inside.
  `MaxDisturbances` counts failures, crashes, fallbacks and repeated planning: four
  allow an interrupted resume of an interrupted group and one more.
* Two mails suffice for every gate of `RunPhases`, because a gate either asks for
  all movable mails or for one; each pair of kinds is an initial state.
* `Mail_ledger` has files of 30, 40 and 70 in one family, so that a UD of 70 fits
  two groups of rows; two export mails share a file, two UD mails a document, one
  mail brings IP and EXP documents, one a file the register does not know; sheets
  that are empty, in use, and with a gap. One fault and one edit combine with any
  number of runs.
* `Dashboard` has a family searched by its LC number and known under the second
  form of it, one searched by the remark of its ERP rows, and one whose ERP rows
  contradict each other. Two faults let a late answer meet a failure. One edit settles
  or clears a row between the reading and the write of a run, fills its UP No., or amends
  the bank's data. The families
  of `MCCases` lie one hundredth below, at and above each bound.
* `Import_transfer` has one letter in two mails, a second one that competes for the
  same row, and a third whose file name is taken by a different file; two of the three
  numbers are digits, and one of the three rows has a text cell, so that a number meets a
  row that gives it back and rows that do not. Columns
  move between commands; while one is under way they stand still, for the reason under
  "Observations". One fault kills a command, fails a save or a move; the next command
  meets what it left.
* `Import_reading` varies one field of one page at a time against a faithful letter,
  and every notation of an amount up to eight digits.
* `CHECK_DEADLOCK FALSE` stands where the system may stop: all runs ended, a run's
  phases are over, every mail is moved, no row is open, or the letter is decided.
  The print phase can always be re-planned or its checklist generated, the import
  command can always be started, and both are checked for deadlock.
* Runs and cells are interchangeable, so `WriteBatch_interleaving`, which checks no
  liveness, uses symmetry.

### Fairness

* `WriteBatch`: weak fairness of each process's next step; it is one Python thread
  that waits for nobody. Crashes are not ruled out: `SessionReleased` holds because
  a crash makes the session an orphan and not because crashes stop.
* `PrintExecution`: weak fairness of the running command, and of the operator's
  repeating `execute-print` and, after a hard block, the checklist generation.
* `RunPhases`: weak fairness of the running command, and strong fairness of the
  released sequence of commands, because other commands the operator may give
  disable a step of it again and again; `scripts/run_live_cycle.ps1` and the
  repository's README prescribe this sequence.
* `MailValidation`: the command that runs goes on (weak fairness of taking the next
  mail and of the steps after it), and the operator runs both workflows again and
  again (strong fairness of `StartRun(w)`, since the other workflow's run disables
  it).
* `DashboardVerification`: weak fairness of starting runs, of the command, and of
  each answer: the dashboard answers in the end. A partial answer needs no
  fairness.
* `ImportTransfer`: weak fairness of the command, strong fairness of the live
  launcher, which other ways to start the command disable.

Failures are bounded, so the liveness properties say: with finitely many failures
it ends, whatever they were.

## What the documents say and the code does not do

Each is one `violation` run and one finding in `PROJECT.json`, with the quoted line.

1. `Run_moves_completed`: a blocked move phase withdraws the eligibility of all
   mails, and its retry completes with nothing moved (`workflows/mail_moves.py:354`).
2. `Mail_cover`: an IP/EXP mail that was written by a run that died before the move
   is never recognised as recorded by the move policy, and stays
   (`workflows/duplicate_handling.py:14`).
3. `Mail_unprinted`: a run that died between saving documents and writing leaves
   them as duplicates to the next run, which writes the mail, prints none of them
   and moves it (`storage/document_saving.py:84`).
4. `Import_reentered`: a BTB LC number of digits that Excel keeps as a number is read
   back with a decimal point and not found by the comparison of strings, and the next
   command that gets the letter enters the number in a second row
   (`workflows/import_btb_lc/workflow.py:1523`). It does not
   happen where the number column is formatted as text, the premise of
   `EnteredOnceTheorem`.

None of them contradicts the properties that hold.

### Observations

Met while modelling, without a run of their own; the models contain the behaviour.

* A write phase killed in between is hard-blocked by the plan hash and its targets
  are never probed (`cli.py:2044`; docs/workflows.md:231). The recovery probe has no
  columns for the dashboard workflow, so its uncertain runs can never be reapplied
  (`workflows/recovery.py:508`; docs/workflows.md:301-306). Both are stricter than
  documented. The recovery gate is an option, not a requirement (`cli.py:2003`;
  docs/workflows.md:1211); `SavedWritesStand` holds without it because the
  prevalidation inside the session does its work.
* Output without a marker does not stop `execute-print`
  (`workflows/print_execution.py:86`; docs/domain-rules.md:595). An acknowledged last
  document leaves out the blank page (`print_execution.py:526`; docs/workflows.md:1081
  and docs/domain-rules.md:594 disagree).
* `plan-print` persists its metadata before the outcomes and the print plan
  (`cli.py:2209`). Killed after the first it leaves a planned phase over an empty plan,
  which completes with nothing printed, and the gate of the moves asks for no more
  (`workflows/mail_moves.py:265`): in `RunPhases` a mail with new documents then moves unprinted,
  against docs/architecture.md:95. No property of a run says so.
* A UD mail with two PDFs of one UD and another UD: the later twin is ignored
  (docs/workflows.md:663), but its PDF is new and printed and has no selected rows,
  so the checklist fails for want of rows and the whole run cannot be printed after
  its writes are committed (`workflows/print_annotation.py:1087`).
  `execute-print` compares only the document hashes of a UD checklist, not its rows
  (`print_annotation.py:316`).
* The operator queue lists a run that was killed after its committed metadata and
  before its outcomes as handled (`workflows/operator_queue.py:157`). The precheck
  reports "completed without markers" for phases that had nothing to do. A failed
  checklist generation turns an uncertain print phase into a hard-blocked one, which
  drops the run from the queue.
* The import command uses the header mapping of its snapshot on the workbook of its
  session. When somebody moves a column in between, the prevalidation looks at other
  cells and the save writes to other columns: with `"columns_in_use"` in
  `EditKinds`, TLC finds `ImplementsBtbRegister` and `OnlyStagedCellsChange` violated.
  docs/domain-rules.md:224 assumes that nobody edits the workbook during a cycle; the
  theorems name this assumption, and need it for columns only: between commands columns
  may move (`"columns"`). The command moves mails before its report is persisted
  (`workflows/import_btb_lc/workflow.py:384`; docs/workflows.md:941).
* An export append whose first free row lies in a gap names rows that are in use
  further down, and the prevalidation blocks every retry
  (`workflows/export_lc_sc/staging.py:214`).
* Extraction: a second PI that is printed only in the picture part of a page with a
  reliable text layer is never read; a poor text layer whose scan is blank is used
  with full confidence; a letter of another bank that names BRAC takes BRAC's clause
  as authoritative; "1.234" of the bank that writes decimal points reads as a
  fraction.
* docs/architecture.md:290 asks that the currency of a letter equal the configured one;
  the extraction accepts any three letters (`import_btb_lc/extraction.py:1039`) and
  nothing compares them with a configuration.
* The dashboard's prevalidation looks at the cells it writes and at nothing else of the
  row (`workflows/bb_dashboard_verification/__init__.py:1202`): a row that gets its UP No.
  while a run is under way, and is no candidate any more, is still written. The model
  contains it; that others move rows meanwhile, it does not.
* Within one lookup of the dashboard the second search key is submitted on the page
  as the first one left it. Two LC dates that cannot be read compare equal, which
  docs/workflows.md:1070 admits.

## Proofs

All proofs are for every value of the constants, from the assumptions named in
the modules: for example, that `Blank` and the planned values are values, that
`NoWrite`, `Free` and `Orphan` are distinct from what they are told apart from, that
the bounds are natural numbers and every group has a document. `Runs`, `Cells` and
`Values` may be infinite. Some assumptions say what the code takes for granted:
`RegisterAssumption` that the ERP register is finite; `SheetAssumption` that a file is
on one row of the sheet, a used row and a row with numbers are those of a file, and
`MaxRows` leaves room for every file; `AmountAssumption` (`ImportExtractionProps`) that a letter has no amount
of more than `MaxDigits` digits.

**Induction.** The induction theorems of the library take an operator as a
parameter, which none of the installed provers can instantiate. `LeastNumber` comes
from the library's theorem that the order of the numbers is well founded; induction
(`UpTo`), induction over finite sets (`FiniteInduction`) and the values of a recursive
function (`RecursionExists`) are then stated about sets and functions. That is why
sums and stagings in the models are recursive functions and why listings
(`Listed`, `InOrder`) count what comes before: `ListedByPlace` proves once that such a
listing holds every member at its own place.

**WriteBatchProofs.** None of the safety properties is inductive: they speak of
file and artifacts, and what makes them hold is where the processes stand. `IInv`
adds: `LockInv`, a process is inside a session exactly while it holds the lock, so
at most one is; `PlanInv`, a staged blank-target operation expects blank;
`SessionInv`, cells a session has not written read as in the file, prevalidated
targets still hold their staged values in the file, and probed ones the planned
values in memory; `PhaseInv`, the status and the hash that go with each place of
the process and with `saved`. From `IInv`:
`SavedWritesStandTheorem`, `MetadataTheorem`, `RecoveryTheorem`, and
`RefinesAtomicBatch`, in which `Save` (and a `SaveFails` that replaced the file)
maps to `ABApply`, `Stage` to `ABStage`, `UserEdit` to `ABEdit` and all else to
stuttering; the heart is that prevalidation in the session and the lock make the
file at the save equal to the values the plan was staged against.

**PrintExecutionProofs.** `IInv` adds: `PlaceInv`, the groups before the current
one are complete while the command runs; `MarkerInv`, how state and count of a
marker go together; `PaperInv` and `BlankInv`, a document with a receipt (in the
marker or in the running process) is on paper and apart from lost copies once.
`RecordedTheorem`, `NoNeedlessReprintTheorem` and `PrintedInOrderTheorem` follow,
and `RefinesPrintLedger`: a page that comes out maps to `ComesOut` of the current
group when it is the last one missing and to stuttering otherwise, a partial marker
to `Interrupt`, `FinishGroup` and an acknowledgement of the whole group to `Record`.
That an acknowledged group is the next one rests on `PrintedInOrder`: what is on
paper proves the groups before it complete.

**RunPhasesProofs.** What a later command does depends on artifacts that an
earlier one may have persisted only in part. `IInv` therefore speaks of files and
of the memory that is still to be persisted alike: `PendingInv`, which queues of
artifacts a finishing command can have; `CommitInv`, a committed status in either
means saved writes; `PlansInv`, a print plan holds mails with saved writes only;
`PrintInv`, a completed print status in either means that the plan is printed, and
the plan changes only while the status is `planned`, because `plan-print` persists
the status first; `OutcomesInv`, outcomes in either are backed and never make a
blocked mail eligible; `MovesInv`, the mails in the hands of `execute-mail-moves`
have passed the gate, and Outlook has moved a mail before its marker exists.
`MovedMailsTheorem`, `OutcomesTheorem` and the action property
`PrintBeforeMovesTheorem` follow. `ReportsTheorem` adds `WrittenInv`, which ties
the workbook to the write status of files and memory.

**DashboardProofs.** Five separate invariants, each no stronger than its theorem
needs: `LoginInv` (the login is counted with the session it opened or failed to
open) gives `OneLoginTheorem`; `DatesInv` (a compliant result carries dates, and so
does a compliant row) gives `OkDatesTheorem`; `ApartInv` (a clean page shows and
awaits nothing, and the page of a lookup holds keys of its family only) gives
`LookupsApartTheorem`; `TypeInv` (results of all families, and a family at hand
exactly while its keys are tried) gives `TypeTheorem`; `AnswerInv` (a compliant result
was decided from an answer to a key of its own family) gives `OpenRowsTheorem` together
with the three before it. The rows that a run writes were open when it read them, but
the sheet has been in other hands since: that a row it changes is still open comes from
prevalidation, by which the status at the write is the status in the snapshot, and that
it is settled on an answer of its own family from `AnswerInv`, which rests on `ApartInv`
when the page is read. They hold for any sheet,
any site and any number of faults and edits. `NumericRuleTheorem` and
`EvidenceTheorem` are about data: for every ERP aggregate and every pair of readings,
all integers, the cascade of early returns accepts exactly what the documented rules
accept; and in the rule results that the report computes apart none has failed or
could not be evaluated exactly when the family passes, two LC dates that cannot be
read apart, and the path they name is the one that was taken. The runs check the same
on 10,000 families at the bounds of the rules.

**ImportTransferProofs.** Under `"columns_in_use" \notin EditKinds` (nobody moves a column
while a command is under way; between commands anybody may): `SessionInv` (the columns
stand as in the snapshot, an opened session reads as the file, prevalidated targets are
blank, an applied batch differs from the file in blank import cells of staged rows only),
`PlanInv` (one row
and one number for each write, none of them found in the workbook before the save),
`NumbersInv` (a document that was decided as duplicate or staged has its number in
the workbook or in the plan, however the cell gives it back) and `MailInv` (a mail that
is to be moved has every number in the workbook) give `RegisterTheorem`, the refinement
of `BtbRegister`, and `StagedCellsTheorem`. `RegisterTheorem` says nothing of a number
that its cell turns into a decimal; `EnteredOnceTheorem` adds the premise that there is
none (`TextColumn`: every row gives every number back as it was entered) and concludes
that no number is in two rows. The code does not establish the premise. `IInv` was first
checked by TLC on the instance of `Import_transfer`. `TransferTypeTheorem` holds without
the condition: `TypeOK` is inductive whatever others do to columns.

**ImportExtractionProofs.** `Inv` says where candidates come from: `ReadingsInv`
(what has been read are readings of the letter's pages), `GroupsInv` (the candidates
of a field are all those of the pages as first read, or those had none and they are
all those of the second scan) and `DecisionInv` (fields and decision are functions of
the candidates). From it `ExtractionTypeTheorem` and three theorems about what the
code makes of any letter: `ReadAsMeantTheorem` (what decides a field of an accepted
letter is of a text layer or read with the confidence its field asks for, and means
in the notation of the issuer what the parser made of it), `NothingContradictsTheorem`
(dates, amounts and labelled numbers of an accepted letter agree, and every seller PI
is listed) and `ClearLettersTheorem` (a letter that shows every field where it is
looked for, in agreement and with confidence, is accepted, whichever pages had to be
scanned). The heart of the second half are the laws of `CanonicalAmount` (a grouped
amount that is read is what its separators mean) and of the mean confidence of merged
candidates.

**MailValidationProofs.** The snapshot that later mails are validated against is
advanced write by write, the workbook by the whole plan; `WorkingSnapshotIsOutcome`
says that both end the same and is not inductive. `IInv` adds: `StoreInv`, what
outlasts a run (a typed sheet within `MaxRows` that is `Tidy`: others sort, clear and
fill rows without breaking it); `RunInv`, the types of what a run keeps, mails of its
own workflow in the queue; and `PlanInv`, the plan of a run that validates `Fits` the
workbook: appends stand on rows that the snapshot has filled up to there, so that
the next free row is past all of them, and assignments stand on rows of the sheet
that are free in it. Two lemmas carry it: `AppliedInTurn` (writes on rows apart
from each other have the same effect one after the other as all at once) and
`StagedSteps` with `UdStagingIs`, an induction over the documents of a mail that shows
that each of them stages rows only that are still free on the sheet. `SnapshotTheorem` and
`MailTypeTheorem` follow; the batch fits into `MaxRows` because an appended file is in
the register and not yet on the sheet. `IInv` was first checked by TLC on the instance
of `Mail_ledger`.

`EntryLedgerTheorem` is the refinement of `EntryLedger`. A mail is decided when it is
validated and moved three phases later, so the proof carries what was decided across
the phases. `LedgerInv`, itself inductive beside `IInv` (`LedgerInvTheorem`), says:
numbers stand on rows of files; the writes of a plan are on rows of their own, and in
a run of ud_ip_exp each is a claim of its mail (`ClaimsRow`: on a row of the family
that the documents of the mail name, for a UD of the mail, or for its IP and EXP
documents together with a write on every other row of that family); once the plan is
written the workbook is the last snapshot; and what a mail that is not blocked
brought is held (`HoldsMail`): its files are in the workbook or planned, or its
documents are shown by the snapshot. That a file is in the workbook *or planned* is
needed: an append may stand, in the snapshot, on a row that others have left behind a
gap, and only prevalidation stops such a batch. `StagedHolds` (an induction over the
documents: each is held by the snapshot after it, and later ones leave it alone) and
`TwinIsKept` (a document that was dropped has a twin that was not) give the last part,
`WritesAreBatch` the step of the ledger that a written batch is. `LedgerInv` was first
checked by TLC on the instance of `Mail_ledger` as well.

`FamilyLedgerTheorem` is the refinement of `FamilyLedger`, amounts included. It names
three premises about data, because the promise is not a consequence of the code
alone: `NumbersTell` (within a family the number of a UD is that of no covering document,
and documents that could be allocated rows under it agree on date, value and
quantities; else a second document of the number takes rows beside the first, as
recorded rows must agree with all four), `AmountsTell` (no file is worth so little that
a group is near a value with and without it; a file of amount zero may join or leave a
group with the order of the rows) and `SheetsInBalance` (what stands under a number when
the first run starts makes up a document of it). `BooksInv` says that the workbook is in
balance, that in a run of ud_ip_exp the snapshot is too, and that the UDs of mails that
are not blocked could be allocated rows. The heart is one document: `MadeUpIsFound`
(rows that make up a document are a group that the search collects, so that recorded
rows are recognised), `SelectedUnder` and `SelectedBalances` (the rows selected for a
document are all that is then under its number, and make it up) and `OthersStay` (other
numbers show what they showed). Others may sort, clear and fill rows: `BalanceCarries`
says that balance depends only on what files are under a number. The sums over sets of
rows rest on `SumLaws` of `Induction`, with `SumDefined` for the sums of the models.

`AnnotationsTheorem`: the operator's sheet notes beside each printed PDF the rows that
hold what it brought, although they were chosen mail by mail before anything was
written. Two more premises: `PapersTell` (a number is that of one family; a PDF holds
one document) and `SheetsTell` (the same of the numbers that stand in the workbook when
the first run starts). `NotesInv` carries the choice from validation to print: mails are
validated in ascending order and only those that pass have writes, so that the snapshot
of a mail can be rebuilt from plan and workbook (`SnapshotOf`); the writes of a mail that
passed are what its validation staged on that snapshot; and the rows selected for its
documents are the rows under their numbers in the snapshot *as it is now*, since what
later mails write leaves rows under numbers alone (`Keeps`, `StagedSelects`).
`CellsTell` of the workbook, inductive as well, says that a document's number stands only
on rows of its family, and a UD's alone in its cell. From these, `UdRows` finds the rows
noted for a UD in each of the three ways `SelectedFor` has, for covering documents
`CoverShown` shows that their rows are those of the family, and for export mails the rows
written are those of the files that were not on the snapshot. The rest is about
sequences: what `Listed`, `Only` and the flattened checklist contain, that no entry is
there twice, and that a sheet without one of its entries is told from the whole.

The premises are assumptions of these two theorems and not of the modules, so that the
runs and the other theorems do without them. TLC evaluates them for the instance of the
runs (`LedgerPremises` in `MCMailValidation`), which satisfies all five with a document
brought twice, two UDs of one family and groups of rows that compete for one value.
`BooksInv`, `NotesInv` and `CellsTell` were first checked by TLC on that instance.

Only model-checked:

* the liveness properties (`SessionReleased`, `PrintCompletes`, `CommittedRunEnds`,
  `RecordedMailLeaves`, `MatchingRowsVerified`), which need fairness and ENABLED
  and are out of this prover's reach, and the refutations;
* the amounts under a number and the noted rows where data breaks a premise above:
  there nothing is proved of them;
* that a mapped step is fair, deadlock freedom, and everything at the bounds above
  that no theorem states.

Every safety invariant that a run checks is stated by a theorem.

## Not modelled

* Workbook sessions and header resolution (`workbook/session.py`, `mapping.py`,
  `providers.py`) beyond a session that opens or not and a mapping that can be stale;
  document verification (its summaries annotate outcomes and no phase decides on
  them); mail intake from Outlook (input).
* Document analysis, OCR engines and ERP report parsing: string processing and
  browser automation without state. `ImportExtraction` begins where the page
  readings are there, `MailValidation` where the documents are classified.
* The bounded combination search of `matching.py` and its benchmarks; only its
  result, the groups of rows that add up, is used.
* Table parsing of the dashboard page, the HTML of reports and checklists, retention
  reporting, the failure explanation, readiness and smoke tests, configuration and
  registry: they read or lay out.
* Two commands running at the same time on one run: they replace the same artifacts
  without a lock, and the documents give a run to one operator.
* `plan-print` on a run that is not committed asks for a recovery outcome of
  `safe_resume`, which `assess_recovery` gives only to committed runs: that branch is
  dead and absent. `plan-print` again after the moves is allowed in `RunPhases`, but
  no property takes a side about it.
* The operator of `PrintExecution` tells the truth about what is on paper, but may
  give a number beyond the last document.

## Plan

Done: the core (`StagedPlan` to `RunPhases`), the group-level refinement of
printing, staging over several mails and runs with the document store, the import
with its extraction, the dashboard, checklist and reports, the type invariant of every
detailed specification and the proofs above.

What would add most from here, in order: concurrent commands on one run as a variant of
`RunPhases`; the combination search of
`UdAllocation` as an algorithm, checked against the groups that add up; header
resolution as a component of its own under `WriteBatch` and `ImportTransfer`.
