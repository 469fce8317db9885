----------------------------- MODULE WriteBatch -----------------------------
(***************************************************************************)
(* The live write phase of validate-run --apply-live-writes, and the       *)
(* recovery assessment of earlier runs, over one shared master workbook.   *)
(*                                                                         *)
(* Each run is one process.  It initialises its artifacts, stages a plan   *)
(* from the workbook file, may pass the recovery gate of an earlier run,   *)
(* opens an Excel session, prevalidates every target inside the session,   *)
(* writes the cells in Excel's memory, probes them, saves, and only after  *)
(* the session is closed persists the plan and the commit marker.  It can  *)
(* fail or be killed between any two steps; what survives is the workbook  *)
(* file and the artifacts persisted so far.                                *)
(***************************************************************************)
EXTENDS StagedPlan, FiniteSets

CONSTANTS
  Free,         \* nobody has the workbook open for writing
  Orphan,       \* an Excel instance left behind by a dead process has it open
  MaxEdits      \* bound on the edits made outside the program

ASSUME LockAssumption == Free \notin Runs /\ Orphan \notin Runs /\ Free # Orphan
ASSUME MaxEditsAssumption == MaxEdits \in Nat

VARIABLES
  disk,       \* the workbook file
  lock,       \* who has the file open for writing
  mem,        \* the workbook in the memory of the open Excel session
  pc,         \* where each run's process stands
  plan,       \* the plan the run has staged (in the process)
  report,     \* the run report of the process: write phase status and plan hash
  written,    \* the targets the process has written in the session
  gate,       \* the earlier runs whose recovery gate the run has passed
  meta,       \* run_metadata.json: write phase status and plan hash
  planFile,   \* staged_write_plan.json
  marker,     \* write_commit_marker.json holds a commit marker
  saved,      \* history: the run's plan has reached the file
  touched,    \* history: cells others changed in the file since staging
  edits       \* edits made outside the program so far

artifacts == <<meta, planFile, marker>>
process == <<pc, plan, report, written, gate>>
vars == <<disk, lock, mem, pc, plan, report, written, gate, meta, planFile,
          marker, saved, touched, edits>>

Statuses == {"not_started", "prevalidating_targets", "prevalidated", "applying",
             "hard_blocked_no_write", "uncertain_not_committed", "committed"}

\* A hash stands for the plan it was computed from.
Reports == [status : Statuses, hash : Plans]

InSession == {"opened", "prevalidating", "prevalidated", "applying", "applied",
              "saved", "closing"}
Ended == {"done", "crashed", "refused"}
Steps == {"idle", "initialized", "staged", "gated", "final_metadata",
          "final_plan", "final_marker"} \cup InSession \cup Ended

TypeOK ==
  /\ disk \in [Cells -> Values]
  /\ lock \in Runs \cup {Free, Orphan}
  /\ mem \in [Cells -> Values]
  /\ pc \in [Runs -> Steps]
  /\ plan \in [Runs -> Plans]
  /\ report \in [Runs -> Reports]
  /\ written \in [Runs -> SUBSET Cells]
  /\ gate \in [Runs -> SUBSET Runs]
  /\ meta \in [Runs -> Reports]
  /\ planFile \in [Runs -> Plans]
  /\ marker \in [Runs -> BOOLEAN]
  /\ saved \in [Runs -> BOOLEAN]
  /\ touched \in [Runs -> SUBSET Cells]
  /\ edits \in Nat

\* No session is open: nothing is in Excel's memory.
NoBook == [c \in Cells |-> Blank]

InitialReport == [status |-> "not_started", hash |-> NoPlan]

Init ==
  /\ disk \in [Cells -> Values]
  /\ lock = Free
  /\ mem = NoBook
  /\ pc = [r \in Runs |-> "idle"]
  /\ plan = [r \in Runs |-> NoPlan]
  /\ report = [r \in Runs |-> InitialReport]
  /\ written = [r \in Runs |-> {}]
  /\ gate = [r \in Runs |-> {}]
  /\ meta = [r \in Runs |-> InitialReport]
  /\ planFile = [r \in Runs |-> NoPlan]
  /\ marker = [r \in Runs |-> FALSE]
  /\ saved = [r \in Runs |-> FALSE]
  /\ touched = [r \in Runs |-> {}]
  /\ edits = 0

-----------------------------------------------------------------------------
(***************************************************************************)
(* Recovery assessment of a run from its artifacts and the workbook file.  *)
(***************************************************************************)

ProbeClasses(r) ==
  {ClassifyRecoveryProbe(planFile[r][c], disk[c]) : c \in Targets(planFile[r])}

\* The run has metadata, a plan and a backup that can be read.
ArtifactsReadable(r) == pc[r] # "idle"

\* Mutation: the plan is not compared with the hash in the metadata.
ArtifactsPresent(r) == ArtifactsReadable(r)

\* The plan matches the hash in the metadata.
ArtifactsValid(r) == ArtifactsReadable(r) /\ planFile[r] = meta[r].hash

\* Mutation: targets at their planned values are enough to resume.
AssessByProbesOnly(r) ==
  IF ArtifactsValid(r) /\ ProbeClasses(r) = {"matches_post_write"}
  THEN "safe_resume" ELSE "hard_block"

\* Every target shows its value before the write.
AssessUnwritten(r) ==
  IF meta[r].status \in {"not_started", "uncertain_not_committed"}
  THEN "safe_reapply_staged_writes" ELSE "hard_block"

\* Every target shows its planned value.
AssessWritten(r) ==
  IF meta[r].status = "committed" THEN "safe_resume" ELSE "hard_block"

Assess(r) ==
  CASE ~ArtifactsValid(r) -> "hard_block"
    [] ArtifactsValid(r) /\ ProbeClasses(r) \subseteq {"matches_pre_write"} ->
         AssessUnwritten(r)
    [] ArtifactsValid(r) /\ ProbeClasses(r) = {"matches_post_write"} ->
         AssessWritten(r)
    [] OTHER -> "hard_block"

-----------------------------------------------------------------------------
Goto(r, from, to) == pc[r] = from /\ pc' = [pc EXCEPT ![r] = to]

\* write_run_metadata with the given status and the hash of the staged plan.
Persist(r, status) ==
  /\ meta' = [meta EXCEPT ![r] = [status |-> status, hash |-> plan[r]]]
  /\ report' = [report EXCEPT ![r] = [status |-> status, hash |-> plan[r]]]

\* initialize_workflow_run: layout, backup and the initial artifacts.
Initialize(r) ==
  /\ Goto(r, "idle", "initialized")
  /\ UNCHANGED <<disk, lock, mem, plan, report, written, gate, meta, planFile,
                 marker, saved, touched, edits>>

\* validate_run_snapshot on a snapshot of the workbook file.
Stage(r) ==
  /\ Goto(r, "initialized", "staged")
  /\ \E p \in StagedPlans(disk) :
       /\ plan' = [plan EXCEPT ![r] = p]
       /\ report' = [report EXCEPT ![r] = [status |-> "not_started", hash |-> p]]
  /\ touched' = [touched EXCEPT ![r] = {}]
  /\ UNCHANGED <<disk, lock, mem, written, gate, meta, planFile, marker, saved,
                 edits>>

\* --recovery-run-id q: only a safe_reapply_staged_writes outcome lets the
\* command go on; anything else ends it with its initial artifacts.
PassGate(r, q) ==
  /\ Goto(r, "staged", "gated")
  /\ q # r
  /\ Assess(q) = "safe_reapply_staged_writes"
  /\ gate' = [gate EXCEPT ![r] = @ \cup {q}]
  /\ UNCHANGED <<disk, lock, mem, plan, report, written, artifacts, saved,
                 touched, edits>>

RefuseGate(r, q) ==
  /\ Goto(r, "staged", "refused")
  /\ q # r
  /\ Assess(q) # "safe_reapply_staged_writes"
  /\ UNCHANGED <<disk, lock, mem, plan, report, written, gate, artifacts, saved,
                 touched, edits>>

\* The write phase is entered with or without a recovery gate.
ReadyToWrite(r) == pc[r] \in {"staged", "gated"}

\* An empty plan: the report is returned unchanged.
SkipEmptyPlan(r) ==
  /\ ReadyToWrite(r)
  /\ plan[r] = NoPlan
  /\ pc' = [pc EXCEPT ![r] = "final_metadata"]
  /\ UNCHANGED <<disk, lock, mem, plan, report, written, gate, artifacts, saved,
                 touched, edits>>

\* prepare_live_write_batch, the command without --apply-live-writes: a
\* preflight session and the prevalidation, and no write.
Prepare(r) ==
  /\ ReadyToWrite(r)
  /\ plan[r] # NoPlan
  /\ pc' = [pc EXCEPT ![r] = "final_metadata"]
  /\ \E status \in {"prevalidated", "hard_blocked_no_write"} :
       /\ status = "prevalidated" => lock = Free /\ PrevalidationPasses(plan[r], disk)
       /\ report' = [report EXCEPT ![r] = [status |-> status, hash |-> @.hash]]
  /\ UNCHANGED <<disk, lock, mem, plan, written, gate, artifacts, saved, touched,
                 edits>>

\* Mutation: the session does not ask for the file exclusively.
OpenSharedSession(r) ==
  /\ ReadyToWrite(r)
  /\ plan[r] # NoPlan
  /\ pc' = [pc EXCEPT ![r] = "opened"]
  /\ lock' = r
  /\ mem' = disk
  /\ UNCHANGED <<disk, plan, report, written, gate, artifacts, saved, touched,
                 edits>>

\* execute_live_write_batch: Excel opens the file for writing and reads it.
OpenSession(r) ==
  /\ ReadyToWrite(r)
  /\ plan[r] # NoPlan
  /\ lock = Free
  /\ pc' = [pc EXCEPT ![r] = "opened"]
  /\ lock' = r
  /\ mem' = disk
  /\ UNCHANGED <<disk, plan, report, written, gate, artifacts, saved, touched,
                 edits>>

\* The session is read-only, conflicts with a lock or Excel is unavailable;
\* with the lock taken this is the only way on.
OpenFails(r) ==
  /\ ReadyToWrite(r)
  /\ plan[r] # NoPlan
  /\ pc' = [pc EXCEPT ![r] = "final_metadata"]
  /\ Persist(r, "hard_blocked_no_write")
  /\ UNCHANGED <<disk, lock, mem, plan, written, gate, planFile, marker, saved,
                 touched, edits>>

BeginPrevalidation(r) ==
  /\ Goto(r, "opened", "prevalidating")
  /\ Persist(r, "prevalidating_targets")
  /\ UNCHANGED <<disk, lock, mem, plan, written, gate, planFile, marker, saved,
                 touched, edits>>

\* Mutation: the probes are not looked at.
PrevalidationUnchecked(r) ==
  /\ Goto(r, "prevalidating", "prevalidated")
  /\ Persist(r, "prevalidated")
  /\ UNCHANGED <<disk, lock, mem, plan, written, gate, planFile, marker, saved,
                 touched, edits>>

\* The probes are taken on a snapshot of the open session.
PrevalidationSucceeds(r) ==
  /\ Goto(r, "prevalidating", "prevalidated")
  /\ PrevalidationPasses(plan[r], mem)
  /\ Persist(r, "prevalidated")
  /\ UNCHANGED <<disk, lock, mem, plan, written, gate, planFile, marker, saved,
                 touched, edits>>

\* Mutation: the failure is recorded under a status the enum does not have.
PrevalidationFailsUnnamed(r) ==
  /\ Goto(r, "prevalidating", "closing")
  /\ ~PrevalidationPasses(plan[r], mem)
  /\ Persist(r, "hard_blocked")
  /\ UNCHANGED <<disk, lock, mem, plan, written, gate, planFile, marker, saved,
                 touched, edits>>

PrevalidationFails(r) ==
  /\ Goto(r, "prevalidating", "closing")
  /\ ~PrevalidationPasses(plan[r], mem)
  /\ Persist(r, "hard_blocked_no_write")
  /\ UNCHANGED <<disk, lock, mem, plan, written, gate, planFile, marker, saved,
                 touched, edits>>

BeginApply(r) ==
  /\ Goto(r, "prevalidated", "applying")
  /\ Persist(r, "applying")
  /\ UNCHANGED <<disk, lock, mem, plan, written, gate, planFile, marker, saved,
                 touched, edits>>

\* session.write_cell: Excel may coerce what it is given into another value.
WriteCell(r, c) ==
  /\ pc[r] = "applying"
  /\ c \in Targets(plan[r]) \ written[r]
  /\ \E v \in Values : mem' = [mem EXCEPT ![c] = v]
  /\ written' = [written EXCEPT ![r] = @ \cup {c}]
  /\ UNCHANGED <<disk, lock, pc, plan, report, gate, artifacts, saved, touched,
                 edits>>

\* Every target of the session reads back as the value the plan wrote.
PostWriteProbesMatch(r) ==
  \A c \in Targets(plan[r]) : ClassifyProbe(plan[r][c], mem[c]) = "matches_post_write"

\* Mutation: committed is recorded before the workbook is saved.
ProbesPassCommit(r) ==
  /\ Goto(r, "applying", "applied")
  /\ written[r] = Targets(plan[r])
  /\ PostWriteProbesMatch(r)
  /\ Persist(r, "committed")
  /\ UNCHANGED <<disk, lock, mem, plan, written, gate, planFile, marker, saved,
                 touched, edits>>

ProbesPass(r) ==
  /\ Goto(r, "applying", "applied")
  /\ written[r] = Targets(plan[r])
  /\ PostWriteProbesMatch(r)
  /\ UNCHANGED <<disk, lock, mem, plan, report, written, gate, artifacts, saved,
                 touched, edits>>

ProbesFail(r) ==
  /\ Goto(r, "applying", "closing")
  /\ written[r] = Targets(plan[r])
  /\ ~PostWriteProbesMatch(r)
  /\ Persist(r, "uncertain_not_committed")
  /\ UNCHANGED <<disk, lock, mem, plan, written, gate, planFile, marker, saved,
                 touched, edits>>

\* The session's memory becomes the file; others see the targets change.
SaveFile(r) ==
  /\ disk' = mem
  /\ saved' = [saved EXCEPT ![r] = TRUE]
  /\ touched' = [q \in Runs |->
       IF q = r THEN touched[q] ELSE touched[q] \cup Targets(plan[r])]

Save(r) ==
  /\ Goto(r, "applied", "saved")
  /\ SaveFile(r)
  /\ UNCHANGED <<lock, mem, plan, report, written, gate, artifacts, edits>>

\* session.save raises, before or after the file was replaced.
SaveFails(r) ==
  /\ Goto(r, "applied", "closing")
  /\ Persist(r, "uncertain_not_committed")
  /\ SaveFile(r) \/ UNCHANGED <<disk, saved, touched>>
  /\ UNCHANGED <<lock, mem, plan, written, gate, planFile, marker, edits>>

Commit(r) ==
  /\ Goto(r, "saved", "closing")
  /\ Persist(r, "committed")
  /\ UNCHANGED <<disk, lock, mem, plan, written, gate, planFile, marker, saved,
                 touched, edits>>

\* Mutation: an exception leaves the session without its finally block.
RuntimeErrorKeepsSession(r) ==
  /\ pc[r] \in InSession \ {"closing"}
  /\ pc' = [pc EXCEPT ![r] = "final_metadata"]
  /\ Persist(r, "uncertain_not_committed")
  /\ UNCHANGED <<disk, lock, mem, plan, written, gate, planFile, marker, saved,
                 touched, edits>>

\* Any exception after the session is open and before the commit is recorded.
RuntimeError(r) ==
  /\ pc[r] \in InSession \ {"closing"}
  /\ pc' = [pc EXCEPT ![r] = "closing"]
  /\ Persist(r, "uncertain_not_committed")
  /\ UNCHANGED <<disk, lock, mem, plan, written, gate, planFile, marker, saved,
                 touched, edits>>

\* The finally block: close discards unsaved memory; if closing fails, Excel
\* is left behind with the file open.
CloseSession(r) ==
  /\ Goto(r, "closing", "final_metadata")
  /\ lock' \in {Free, Orphan}
  /\ mem' = NoBook
  /\ written' = [written EXCEPT ![r] = {}]
  /\ UNCHANGED <<disk, plan, report, gate, artifacts, saved, touched, edits>>

-----------------------------------------------------------------------------
(* The artifacts validate-run persists after the write phase, in its order. *)

PersistFinalMetadata(r) ==
  /\ Goto(r, "final_metadata", "final_plan")
  /\ meta' = [meta EXCEPT ![r] = report[r]]
  /\ UNCHANGED <<disk, lock, mem, plan, report, written, gate, planFile, marker,
                 saved, touched, edits>>

PersistStagedWritePlan(r) ==
  /\ Goto(r, "final_plan", "final_marker")
  /\ planFile' = [planFile EXCEPT ![r] = plan[r]]
  /\ UNCHANGED <<disk, lock, mem, plan, report, written, gate, meta, marker,
                 saved, touched, edits>>

PersistCommitMarker(r) ==
  /\ Goto(r, "final_marker", "done")
  /\ marker' = [marker EXCEPT ![r] = (report[r].status = "committed")]
  /\ UNCHANGED <<disk, lock, mem, plan, report, written, gate, meta, planFile,
                 saved, touched, edits>>

-----------------------------------------------------------------------------
(* The environment. *)

\* The process is killed, or an artifact cannot be written and the exception
\* ends the command; an open Excel session stays behind, and whatever is done
\* to it then, its unsaved memory is lost.
Crash(r) ==
  /\ pc[r] \notin Ended \cup {"idle"}
  /\ pc' = [pc EXCEPT ![r] = "crashed"]
  /\ lock' = IF lock = r THEN Orphan ELSE lock
  /\ mem' = IF lock = r THEN NoBook ELSE mem
  /\ written' = [written EXCEPT ![r] = {}]
  /\ UNCHANGED <<disk, plan, report, gate, artifacts, saved, touched, edits>>

\* The operator ends the Excel instance that was left behind, unsaved.
EndOrphan ==
  /\ lock = Orphan
  /\ lock' = Free
  /\ UNCHANGED <<disk, mem, process, artifacts, saved, touched, edits>>

\* Somebody edits the workbook while no session of the program has it open.
UserEdit(c, v) ==
  /\ lock = Free
  /\ edits < MaxEdits
  /\ edits' = edits + 1
  /\ disk' = [disk EXCEPT ![c] = v]
  /\ touched' = [q \in Runs |-> touched[q] \cup {c}]
  /\ UNCHANGED <<lock, mem, process, artifacts, saved>>

Proceed(r) ==
  \/ Stage(r) \/ SkipEmptyPlan(r) \/ Prepare(r)
  \/ OpenSession(r) \/ OpenFails(r) \/ BeginPrevalidation(r)
  \/ PrevalidationSucceeds(r) \/ PrevalidationFails(r) \/ BeginApply(r)
  \/ \E c \in Cells : WriteCell(r, c)
  \/ ProbesPass(r) \/ ProbesFail(r) \/ Save(r) \/ SaveFails(r) \/ Commit(r)
  \/ RuntimeError(r) \/ CloseSession(r)
  \/ PersistFinalMetadata(r) \/ PersistStagedWritePlan(r) \/ PersistCommitMarker(r)

Next ==
  \/ \E r \in Runs : Initialize(r) \/ Proceed(r) \/ Crash(r)
  \/ \E r, q \in Runs : PassGate(r, q) \/ RefuseGate(r, q)
  \/ EndOrphan
  \/ \E c \in Cells, v \in Values : UserEdit(c, v)

Spec == Init /\ [][Next]_vars

\* A process that is not killed keeps taking its next step.
FairSpec == Spec /\ \A r \in Runs : WF_vars(Proceed(r))
=============================================================================
