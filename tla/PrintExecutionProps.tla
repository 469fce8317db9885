------------------------ MODULE PrintExecutionProps ------------------------
(***************************************************************************)
(* The correctness properties of the print phase.                          *)
(***************************************************************************)
EXTENDS PrintExecution

\* Nothing is recorded as printed that is not on paper: not in a partial
\* marker after a failed submission, not in a completed one, not in a phase
\* that is completed, whatever was interrupted, resumed or acknowledged on
\* the way.  (execute_print_batches, acknowledge_partial_print_progress)
RecordedIsPrinted ==
  /\ \A p \in Pages : p[2] <= marker[p[1]].printed => paper[p] > 0
  /\ \A g \in Groups : marker[g].state = "completed" => marker[g].printed = Count[g]
  /\ status = "completed" => \A p \in Pages : paper[p] > 0

\* A resumed group starts after the recorded prefix: a document or separator
\* comes out again only as often as an output of it was lost without a record.
\* (_build_resumable_print_batch, _printed_document_hashes_for_receipt)
NoNeedlessReprint ==
  /\ \A p \in Pages : paper[p] <= lost[p] + 1
  /\ \A g \in Groups : blanks[g] <= lostBlanks[g] + 1

\* The stack of paper is in planned order: a group produces output only after
\* every earlier group is complete, and a document only after the documents
\* before it in its group.  (the loop of execute_print_batches)
PrintedInOrder ==
  \A p \in Pages : paper[p] > 0 =>
    /\ \A g \in Groups : g < p[1] => marker[g].state = "completed"
    /\ \A k \in 1..p[2] : paper[<<p[1], k>>] > 0

MarkedGroups(state) == {g \in Groups : marker[g].state = state}

Ledger == INSTANCE PrintLedger WITH
  whole <- {g \in Groups : \A k \in 1..Count[g] : paper[<<g, k>>] > 0},
  partial <- MarkedGroups("partial_incomplete"),
  printed <- MarkedGroups("completed")

\* Seen from the commands after it, the phase records group after group, each
\* when it is on paper as a whole, be it by execute-print or by an
\* acknowledgement, and is completed only with all of them: the step that
\* RunPhases makes of a group is one of this phase.
\* (execute_print_batches, acknowledge_partial_print_progress)
ImplementsPrintLedger == Ledger!Spec

\* No marker state wedges the phase: with finitely many failures and an
\* operator who repeats the commands, a planned phase is completed.
\* (execute-print, generate-print-annotation-html)
PrintCompletes == (status = "planned") ~> (status = "completed")
=============================================================================
