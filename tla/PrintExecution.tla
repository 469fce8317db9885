--------------------------- MODULE PrintExecution ---------------------------
(***************************************************************************)
(* The print phase of one run: plan-print, the checklist commands,         *)
(* execute-print and acknowledge-partial-print, over the persisted print   *)
(* phase status and the print markers, with the paper that comes out.      *)
(*                                                                         *)
(* A print group is the documents of one mail.  execute-print submits the  *)
(* documents of each group in order and a blank page between groups, and   *)
(* records a group in its marker only when the provider returns or fails.  *)
(* A failed submission may have produced paper without a receipt.          *)
(*                                                                         *)
(* The plan of a run is a function of its staged writes and its saved      *)
(* documents, which no later command changes: planning again produces the  *)
(* same groups, and the marker-mismatch branch is out of reach.            *)
(***************************************************************************)
EXTENDS Naturals

CONSTANTS
  NumGroups,     \* number of planned print groups
  Count,         \* the number of documents of each group
  MaxDisturbances  \* bound on failures, crashes and repeated planning

Groups == 1..NumGroups

ASSUME GroupsAssumption == NumGroups \in Nat
ASSUME CountAssumption == Count \in [Groups -> Nat \ {0}]
ASSUME MaxDisturbancesAssumption == MaxDisturbances \in Nat

\* A page stands for one document of a group.
Pages == UNION {{g} \X (1..Count[g]) : g \in Groups}

VARIABLES
  status,     \* run_metadata.json: print_phase_status
  marker,     \* the print marker of every group
  pc,         \* where execute-print stands
  group,      \* the group execute-print is at
  receipts,   \* documents of the group with a receipt from this process
  blank,      \* the process has a receipt for the group's blank separator
  paper,      \* how often each document has come out of the printer
  blanks,     \* how many separators have come out after each group
  lost,       \* history: how often a document came out and was not recorded
  lostBlanks, \* history: the same for the separators
  disturbances \* failures, crashes and repeated planning so far

counters == <<paper, blanks, lost, lostBlanks>>
vars == <<status, marker, pc, group, receipts, blank, paper, blanks, lost,
          lostBlanks, disturbances>>

PrintStatuses == {"planned", "printing", "completed", "hard_blocked",
                  "uncertain_incomplete"}
MarkerStates == {"missing", "partial_incomplete", "completed"}
Markers == [state : MarkerStates, printed : Nat]

TypeOK ==
  /\ status \in PrintStatuses
  /\ marker \in [Groups -> Markers]
  /\ pc \in {"idle", "group", "submit", "interrupted"}
  /\ group \in Nat
  /\ receipts \in Nat
  /\ blank \in BOOLEAN
  /\ paper \in [Pages -> Nat]
  /\ blanks \in [Groups -> Nat]
  /\ lost \in [Pages -> Nat]
  /\ lostBlanks \in [Groups -> Nat]
  /\ disturbances \in Nat

NoMarker == [state |-> "missing", printed |-> 0]

\* plan-print has been run once on a committed run.
Init ==
  /\ status = "planned"
  /\ marker = [g \in Groups |-> NoMarker]
  /\ pc = "idle"
  /\ group = 0
  /\ receipts = 0
  /\ blank = FALSE
  /\ paper = [p \in Pages |-> 0]
  /\ blanks = [g \in Groups |-> 0]
  /\ lost = [p \in Pages |-> 0]
  /\ lostBlanks = [g \in Groups |-> 0]
  /\ disturbances = 0

Disturb == disturbances < MaxDisturbances /\ disturbances' = disturbances + 1

\* Mutation: a resumed group starts over, its recorded prefix ignored.
RecordedByProcess == receipts

\* Documents of the current group that the marker and this process account for.
Recorded == marker[group].printed + receipts

-----------------------------------------------------------------------------
(* The commands around the execution. *)

\* plan-print looks at the write phase only, not at the print phase.
PlanPrint ==
  /\ pc = "idle"
  /\ Disturb
  /\ status' = "planned"
  /\ UNCHANGED <<marker, pc, group, receipts, blank, counters>>

\* generate-print-annotation-html takes a hard-blocked phase back to planned.
GenerateChecklist ==
  /\ pc = "idle"
  /\ status' = IF status = "hard_blocked" THEN "planned" ELSE status
  /\ UNCHANGED <<marker, pc, group, receipts, blank, counters, disturbances>>

\* The checklist cannot be built from the workbook.
GenerateChecklistFails ==
  /\ pc = "idle"
  /\ Disturb
  /\ status' = "hard_blocked"
  /\ UNCHANGED <<marker, pc, group, receipts, blank, counters>>

\* Mutation: the documents are counted from zero.
AcknowledgeFromZero(g, n) ==
  /\ pc = "idle"
  /\ marker[g].state = "partial_incomplete"
  /\ marker[g].printed < n
  /\ \A k \in 1..Count[g] : k <= n => paper[<<g, k>>] > 0
  /\ marker' = [marker EXCEPT ![g] =
       [state |-> IF n + 1 = Count[g] THEN "completed" ELSE "partial_incomplete",
        printed |-> IF n < Count[g] THEN n ELSE Count[g]]]
  /\ UNCHANGED <<status, pc, group, receipts, blank, counters, disturbances>>

\* acknowledge-partial-print: the operator confirms that the first n documents
\* of a partial group are on paper.  A number beyond the last document records
\* them all and leaves the group partial.
AcknowledgePartialPrint(g, n) ==
  /\ pc = "idle"
  /\ marker[g].state = "partial_incomplete"
  /\ marker[g].printed < n
  /\ \A k \in 1..Count[g] : k <= n => paper[<<g, k>>] > 0
  /\ marker' = [marker EXCEPT ![g] =
       [state |-> IF n = Count[g] THEN "completed" ELSE "partial_incomplete",
        printed |-> IF n < Count[g] THEN n ELSE Count[g]]]
  /\ UNCHANGED <<status, pc, group, receipts, blank, counters, disturbances>>

-----------------------------------------------------------------------------
(* execute-print. *)

\* Mutation: an uncertain phase is not retried.
ExecutableUnlessUncertain == pc = "idle" /\ status \in {"planned", "printing"}

Executable == pc = "idle" /\ status \in {"planned", "printing", "uncertain_incomplete"}

\* The checklist validates and the printing status is persisted.
Execute ==
  /\ Executable
  /\ status' = "printing"
  /\ pc' = "group"
  /\ group' = 1
  /\ UNCHANGED <<marker, receipts, blank, counters, disturbances>>

ChecklistInvalid ==
  /\ Executable
  /\ Disturb
  /\ status' = "hard_blocked"
  /\ UNCHANGED <<marker, pc, group, receipts, blank, counters>>

AtGroup == pc = "group" /\ group \in Groups

\* Mutation: any marker passes for a completed one.
SkipMarkedGroup ==
  /\ AtGroup
  /\ marker[group].state # "missing"
  /\ group' = group + 1
  /\ UNCHANGED <<status, marker, pc, receipts, blank, counters, disturbances>>

SkipCompletedGroup ==
  /\ AtGroup
  /\ marker[group].state = "completed"
  /\ group' = group + 1
  /\ UNCHANGED <<status, marker, pc, receipts, blank, counters, disturbances>>

\* The documents after the recorded prefix are handed to the provider.
StartGroup ==
  /\ AtGroup
  /\ marker[group].state # "completed"
  /\ pc' = "submit"
  /\ receipts' = 0
  /\ blank' = FALSE
  /\ UNCHANGED <<status, marker, group, counters, disturbances>>

\* No Acrobat executable.
AdapterUnavailable ==
  /\ AtGroup
  /\ marker[group].state # "completed"
  /\ Disturb
  /\ status' = "hard_blocked"
  /\ pc' = "idle"
  /\ UNCHANGED <<marker, group, receipts, blank, counters>>

\* What the provider submits next: a document or, after the last one, the
\* blank page before the next group.
NextIsDocument == pc = "submit" /\ Recorded < Count[group]

NextIsSeparator ==
  pc = "submit" /\ Recorded = Count[group] /\ group < NumGroups /\ ~blank

PrintPage(copies) ==
  /\ paper' = [paper EXCEPT ![<<group, Recorded + 1>>] = @ + copies]
  /\ UNCHANGED blanks

PrintBlank(copies) ==
  /\ blanks' = [blanks EXCEPT ![group] = @ + copies]
  /\ UNCHANGED paper

\* Copies that no receipt stands for.
LosePage(copies) ==
  /\ lost' = [lost EXCEPT ![<<group, Recorded + 1>>] = @ + copies]
  /\ UNCHANGED lostBlanks

LoseBlank(copies) ==
  /\ lostBlanks' = [lostBlanks EXCEPT ![group] = @ + copies]
  /\ UNCHANGED lost

SubmitDocument ==
  /\ NextIsDocument
  /\ PrintPage(1)
  /\ receipts' = receipts + 1
  /\ UNCHANGED <<status, marker, pc, group, blank, lost, lostBlanks, disturbances>>

SubmitSeparator ==
  /\ NextIsSeparator
  /\ PrintBlank(1)
  /\ blank' = TRUE
  /\ UNCHANGED <<status, marker, pc, group, receipts, lost, lostBlanks,
                 disturbances>>

\* A submission tries JSObject.print, printWithParams and AVDoc in turn.
Attempts == 3

\* An attempt raises after it has printed: the next one prints again and gives
\* the one receipt.
DocumentThroughFallback ==
  /\ NextIsDocument
  /\ Disturb
  /\ \E n \in 1..(Attempts - 1) : PrintPage(n + 1) /\ LosePage(n)
  /\ receipts' = receipts + 1
  /\ UNCHANGED <<status, marker, pc, group, blank>>

SeparatorThroughFallback ==
  /\ NextIsSeparator
  /\ Disturb
  /\ \E n \in 1..(Attempts - 1) : PrintBlank(n + 1) /\ LoseBlank(n)
  /\ blank' = TRUE
  /\ UNCHANGED <<status, marker, pc, group, receipts>>

\* Mutation: the document that failed is recorded with the others.
RecordPartialWithFailed ==
  /\ Disturb
  /\ marker' = [marker EXCEPT ![group] =
       [state |-> "partial_incomplete", printed |-> Recorded + 1]]
  /\ pc' = "interrupted"
  /\ UNCHANGED <<status, group, receipts, blank>>

\* PartialPrintExecutionError: the marker gets what has a receipt; the status
\* is persisted after it.
RecordPartial ==
  /\ Disturb
  /\ marker' = [marker EXCEPT ![group] =
       [state |-> "partial_incomplete", printed |-> Recorded]]
  /\ pc' = "interrupted"
  /\ UNCHANGED <<status, group, receipts, blank>>

\* The session with the printer has not been used.
NothingSubmitted == pc = "submit" /\ receipts = 0 /\ ~blank

SubmissionFails ==
  /\ NothingSubmitted \/ NextIsDocument \/ NextIsSeparator
  /\ RecordPartial
  /\ UNCHANGED counters

\* Every attempt fails although its paper may come out, as after a timeout.
DocumentFailsAfterOutput ==
  /\ NextIsDocument
  /\ RecordPartial
  /\ \E n \in 1..Attempts : PrintPage(n) /\ LosePage(n)

SeparatorFailsAfterOutput ==
  /\ NextIsSeparator
  /\ RecordPartial
  /\ \E n \in 1..Attempts : PrintBlank(n) /\ LoseBlank(n)

\* Mutation: the state of the marker is persisted as the status of the phase.
PersistMarkerState ==
  /\ pc = "interrupted"
  /\ status' = marker[group].state
  /\ pc' = "idle"
  /\ UNCHANGED <<marker, group, receipts, blank, counters, disturbances>>

PersistUncertain ==
  /\ pc = "interrupted"
  /\ status' = "uncertain_incomplete"
  /\ pc' = "idle"
  /\ UNCHANGED <<marker, group, receipts, blank, counters, disturbances>>

\* The provider returns and the marker is written.
FinishGroup ==
  /\ pc = "submit"
  /\ Recorded = Count[group]
  /\ group < NumGroups => blank
  /\ marker' = [marker EXCEPT ![group] =
       [state |-> "completed", printed |-> Count[group]]]
  /\ pc' = "group"
  /\ group' = group + 1
  /\ UNCHANGED <<status, receipts, blank, counters, disturbances>>

Complete ==
  /\ pc = "group"
  /\ group = NumGroups + 1
  /\ status' = "completed"
  /\ pc' = "idle"
  /\ UNCHANGED <<marker, group, receipts, blank, counters, disturbances>>

-----------------------------------------------------------------------------
(* Interruptions that leave no marker. *)

\* What has a receipt in this process only is forgotten.
ForgetReceipts ==
  IF pc = "submit"
  THEN /\ lost' = [p \in Pages |->
            IF p[1] = group /\ marker[group].printed < p[2] /\ p[2] <= Recorded
            THEN lost[p] + 1 ELSE lost[p]]
       /\ lostBlanks' = [g \in Groups |->
            IF g = group /\ blank THEN lostBlanks[g] + 1 ELSE lostBlanks[g]]
  ELSE UNCHANGED <<lost, lostBlanks>>

\* The process is killed.
Crash ==
  /\ pc # "idle"
  /\ Disturb
  /\ ForgetReceipts
  /\ pc' = "idle"
  /\ UNCHANGED <<status, marker, group, receipts, blank, paper, blanks>>

\* An exception outside the provider, such as a marker that cannot be written.
RuntimeError ==
  /\ pc \in {"group", "submit"}
  /\ Disturb
  /\ ForgetReceipts
  /\ status' = "uncertain_incomplete"
  /\ pc' = "idle"
  /\ UNCHANGED <<marker, group, receipts, blank, paper, blanks>>

Proceed ==
  \/ SkipCompletedGroup \/ StartGroup \/ SubmitDocument \/ SubmitSeparator
  \/ FinishGroup \/ Complete \/ PersistUncertain

Next ==
  \/ PlanPrint \/ GenerateChecklist \/ GenerateChecklistFails
  \/ \E g \in Groups : \E n \in 1..(Count[g] + 1) : AcknowledgePartialPrint(g, n)
  \/ Execute \/ ChecklistInvalid \/ AdapterUnavailable
  \/ DocumentThroughFallback \/ SeparatorThroughFallback
  \/ SubmissionFails \/ DocumentFailsAfterOutput \/ SeparatorFailsAfterOutput
  \/ Crash \/ RuntimeError
  \/ Proceed

Spec == Init /\ [][Next]_vars

\* A process that is not killed goes on; the operator repeats execute-print
\* and the checklist generation until the phase is complete.
FairSpec ==
  Spec /\ WF_vars(Proceed) /\ WF_vars(Execute)
       /\ WF_vars(status = "hard_blocked" /\ GenerateChecklist)
=============================================================================
