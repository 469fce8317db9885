--------------------------- MODULE RunPhasesProps ---------------------------
(***************************************************************************)
(* The correctness properties of a run across its commands.                *)
(***************************************************************************)
EXTENDS RunReports

Moved(m) == folder[m] = "destination"

\* A mail leaves the working folder only when it was handled: it is not
\* blocked, has something to show for it, and its writes are in the workbook,
\* although every command decides from persisted copies of what others did.
\* (execute_mail_moves, _effective_gate_requirements)
MovedMailsAreHandled ==
  \A m \in Mails : Moved(m) =>
    /\ kind[m] \in {"duplicate", "printable", "unprintable"}
    /\ m \in Staged => m \in saved

\* The statuses of the persisted outcomes are backed by what happened.
\* (_mark_written_mail_outcomes, _mark_printed_mail_outcomes,
\* _mark_moved_mail_outcomes)
OutcomesAreBacked ==
  \A m \in Mails :
    /\ outcomes[m].status \in {"written", "printed"} => m \in saved
    /\ outcomes[m].status = "printed" => m \in printed
    /\ outcomes[m].status = "moved" => m \in moveMarkers
    /\ m \in moveMarkers => Moved(m)

\* A mail with a planned print group is moved after its group is complete.
\* (the gate of execute_mail_moves)
PlannedGroupsPrintBeforeMoves ==
  [][\A m \in printPlan : ~Moved(m) /\ Moved(m)' => m \in printed]_vars

\* No combination of persisted statuses wedges a committed run: with finitely
\* many disturbances and an operator who keeps to the released sequence the
\* mail-move phase ends, completed or to be examined by hand.
\* (the start conditions of the commands)
CommittedRunEnds ==
  (meta.write = "committed" /\ pc = "idle")
    ~> (meta.move \in {"completed", "uncertain_incomplete"})

\* Effects are not lost from sight.  Between two commands, whichever of them was
\* killed and wherever: writes in the workbook are committed or the run is in
\* the recovery queue; the status counts no mail of a phase that has no marker
\* for it; a run listed as needing no action has written nothing, unless it was
\* killed between the committed status and its outcomes; and a contradiction
\* that the precheck reports is about a phase that had nothing to do.
\* (_is_recovery_candidate, _build_handled_reason, summarize_run_status,
\* build_recovery_precheck)
EffectsAreReported ==
  pc = "idle" =>
    /\ saved # {} => meta.write = "committed" \/ RecoveryCandidate
    /\ SuccessfulMails("printed") \subseteq PrintMarkers \cup moveMarkers
    /\ SuccessfulMails("moved") \subseteq moveMarkers
    /\ MayBeHandled /\ saved # {} => \A m \in saved : Unrecorded(m)
    /\ "print_completed_without_markers" \in Contradictions => printPlan = {}
    /\ "mail_moves_completed_without_markers" \in Contradictions =>
         SuccessfulMails("moved") = {}

-----------------------------------------------------------------------------
(* Statements of the repository's documents that the code does not meet.   *)

\* README.md and workflows.md: a run whose mail-move phase is completed has no
\* printed mail left in the working folder; a mail that is not where it is
\* expected blocks the phase.
CompletedRunMovedPrintedMails ==
  meta.move = "completed" =>
    \A m \in Mails : outcomes[m].status = "printed" => folder[m] # "working"
=============================================================================
