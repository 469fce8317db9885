----------------------------- MODULE RunReports -----------------------------
(***************************************************************************)
(* What the inspection commands tell the operator about a run of           *)
(* RunPhases: its status, the precheck before a recovery, and its place in *)
(* the operator queue.  They read the persisted artifacts, whatever a      *)
(* killed command left of them, and change nothing.                        *)
(***************************************************************************)
EXTENDS RunPhases, FiniteSets

-----------------------------------------------------------------------------
(* Write dispositions. *)

\* Killed before it persisted them, a run has outcomes that record nothing: no
\* disposition, no duplicate among the reasons, no staged write.
Unrecorded(m) == outcomes[m].status = "snapshotted"

\* What the outcome of a mail may say of its writes.  A mixed mail counts as
\* new writes; a blocked mail may be blocked by one of several documents, the
\* others duplicates or staged.
Dispositions(m) ==
  IF Unrecorded(m) THEN {"no_write_noop"}
  ELSE CASE kind[m] = "no_write"  -> {"no_write_noop"}
         [] kind[m] = "duplicate" -> {"duplicate_only_noop"}
         [] kind[m] = "blocked"   -> {"no_write_noop", "duplicate_only_noop",
                                      "new_writes_staged"}
         [] OTHER                 -> {"new_writes_staged"}

\* The mails whose outcomes say d, blocked mails included when they may.
MailsWith(d) == {m \in Mails : d \in Dispositions(m)}
CertainlyWith(d) == {m \in Mails : Dispositions(m) = {d}}

-----------------------------------------------------------------------------
(* inspect-run-status: what each phase did, by outcomes and by markers. *)

AtOrBeyond(status) ==
  CASE status = "written" -> {"written", "printed", "moved"}
    [] status = "printed" -> {"printed", "moved"}
    [] OTHER              -> {status}

SuccessfulMails(status) ==
  {m \in Mails : outcomes[m].status \in AtOrBeyond(status)}

\* The marker of a partly printed group is the same file as the completed one.
PrintMarkers == printed \cup partial

-----------------------------------------------------------------------------
(* The precheck before a recovery. *)

NeedsRecoveryGate ==
  \/ meta.write = "uncertain_not_committed"
  \/ meta.print = "uncertain_incomplete"
  \/ meta.move = "uncertain_incomplete"

\* The commit marker is persisted before the committed status, so the
\* contradiction committed_without_commit_marker is not among them.
Contradictions ==
  {c \in {"print_completed_without_markers",
          "mail_moves_completed_without_markers"} :
     IF c = "print_completed_without_markers"
     THEN meta.print = "completed" /\ PrintMarkers = {}
     ELSE meta.move = "completed" /\ moveMarkers = {}}

-----------------------------------------------------------------------------
(* The operator queue. *)

\* Mutation: a write phase still marked applying is taken for a running one.
ReportedUncertain ==
  \/ meta.write \in {"prevalidated", "uncertain_not_committed"}
  \/ meta.print \in {"printing", "uncertain_incomplete"}
  \/ meta.move \in {"moving", "uncertain_incomplete"}

RecoveryCandidate ==
  \/ meta.write \in {"prevalidated", "applying", "uncertain_not_committed"}
  \/ meta.print \in {"printing", "uncertain_incomplete"}
  \/ meta.move \in {"moving", "uncertain_incomplete"}

\* A run that needs no attention is reported as handled when its outcomes tell
\* of duplicates or of nothing at all, and of no new write.
MayBeHandled ==
  /\ ~RecoveryCandidate
  /\ CertainlyWith("new_writes_staged") = {}
  /\ MailsWith("duplicate_only_noop") \cup MailsWith("no_write_noop") # {}

=============================================================================
