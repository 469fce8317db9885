--------------------------- MODULE WriteBatchProps ---------------------------
(***************************************************************************)
(* The correctness properties of the live write phase.                     *)
(***************************************************************************)
EXTENDS WriteBatch

\* The persisted write phase status never claims more, nor hides more, than
\* what happened to the workbook file, whenever the process dies: committed
\* means that the plan is in the file, and once the plan is in the file the
\* status is one of the three that force a recovery decision.
\* (execute_live_write_batch)
MetadataMatchesFile ==
  \A r \in Runs :
    /\ meta[r].status = "committed" => saved[r]
    /\ saved[r] => meta[r].status \in {"applying", "uncertain_not_committed", "committed"}

\* The recovery assessment is sound: it lets a later run write again only if
\* nothing of the assessed run's plan is in the file (targets changed by
\* others since are outside the claim), and lets downstream phases resume
\* only if the whole plan reached the file.  (assess_recovery)
RecoverySound ==
  \A r \in Runs :
    /\ Assess(r) = "safe_reapply_staged_writes" /\ saved[r]
         => Targets(plan[r]) \subseteq touched[r]
    /\ Assess(r) = "safe_resume" => saved[r]

\* No partial batch: after the plan of a run has reached the file, every one
\* of its targets shows the planned value until somebody else changes it; in
\* particular no write of another run disappears under a later save that was
\* prepared before it.  (session.save, prevalidation inside the session)
SavedWritesStand ==
  \A r \in Runs : saved[r] =>
    \A c \in Targets(plan[r]) \ touched[r] : disk[c] = plan[r][c].post

\* An open Excel session is given up: on every path, exceptions included, a
\* process that stays alive closes the workbook.  (the finally block of
\* execute_live_write_batch)
SessionReleased == \A r \in Runs : (lock = r) ~> (lock # r)

\* Detailed steps refine the one-step batch of AtomicBatch.
AB == INSTANCE AtomicBatch WITH disk <- disk, plan <- plan, saved <- saved

\* The write phase implements the atomic batch: whatever the interleaving,
\* each run's plan reaches the file in one step, completely, at most once,
\* and only over exactly the values it was staged against.
ImplementsAtomicBatch == AB!ABSpec
=============================================================================
