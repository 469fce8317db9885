-------------------------- MODULE WriteBatchProofs --------------------------
(***************************************************************************)
(* Proofs about the live write phase, for every set of runs and cells:     *)
(* an inductive invariant, the safety properties that follow from it and   *)
(* the refinement of AtomicBatch.                                          *)
(***************************************************************************)
EXTENDS WriteBatchProps, TLAPS

-----------------------------------------------------------------------------
(* The inductive invariant. *)

\* A process holds the workbook exactly while it is inside its session.
LockInv == \A r \in Runs : pc[r] \in InSession <=> lock = r

\* A staged operation on a blank target expects an empty cell.
PlanInv ==
  \A r \in Runs : \A c \in Targets(plan[r]) :
    plan[r][c].check = "target_cell_blank_by_construction" => plan[r][c].pre = Blank

\* What a session knows: cells it has not written still read as in the file,
\* prevalidated targets still hold their staged values, and applied targets
\* read back as planned.
SessionInv ==
  \A r \in Runs :
    /\ written[r] \subseteq Targets(plan[r])
    /\ pc[r] \in {"opened", "prevalidating", "prevalidated", "applying", "applied"}
         => \A c \in Cells \ written[r] : mem[c] = disk[c]
    /\ pc[r] \in {"prevalidated", "applying", "applied"}
         => \A c \in Targets(plan[r]) : disk[c] = plan[r][c].pre
    /\ pc[r] = "applied" => \A c \in Targets(plan[r]) : mem[c] = plan[r][c].post

\* A report or metadata record agrees with what happened to the file.
Truthful(record, r) ==
  /\ record.status = "committed" => saved[r]
  /\ saved[r] => /\ record.status \in {"applying", "uncertain_not_committed", "committed"}
                 /\ record.hash = plan[r]

NotSavedYet == {"idle", "initialized", "staged", "gated", "refused", "opened",
                "prevalidating", "prevalidated", "applying", "applied"}

\* How far a process has come decides what it may have done and recorded.
PhaseInv ==
  \A r \in Runs :
    /\ pc[r] \in {"idle", "initialized"} => plan[r] = NoPlan
    /\ pc[r] \in {"idle", "initialized", "staged", "gated", "opened", "prevalidating"}
         => written[r] = {}
    /\ pc[r] \in {"staged", "gated"} => report[r].status = "not_started"
    /\ pc[r] \in NotSavedYet => ~saved[r]
    /\ pc[r] = "saved" => saved[r]
    /\ pc[r] \in {"applying", "applied"}
         => meta[r].status = "applying" /\ meta[r].hash = plan[r]
    /\ pc[r] = "saved" => meta[r].status = "applying" /\ meta[r].hash = plan[r]
    /\ Truthful(meta[r], r)
    /\ pc[r] \in {"closing", "final_metadata", "final_plan", "final_marker"}
         => Truthful(report[r], r)

IInv == TypeOK /\ LockInv /\ PlanInv /\ SessionInv /\ PhaseInv /\ SavedWritesStand

-----------------------------------------------------------------------------
(* Types. *)

\* Staging produces plans.
LEMMA StagedPlansType ==
  ASSUME NEW book \in [Cells -> Values]
  PROVE  StagedPlans(book) \subseteq Plans
  BY BlankAssumption, PostAssumption
     DEF StagedPlans, StagedOperation, Plans, WriteOperation, Checks

\* The empty plan is a plan.
LEMMA NoPlanType == NoPlan \in Plans
  BY DEF NoPlan, Plans

\* The initial state is well typed.
LEMMA InitTypeOK == Init => TypeOK
  BY NoPlanType, BlankAssumption
     DEF Init, TypeOK, NoBook, InitialReport, Reports, Statuses, Steps

\* Every step keeps the types.
LEMMA NextTypeOK ==
  ASSUME TypeOK, [Next]_vars
  PROVE  TypeOK'
<1> USE DEF TypeOK, Reports, Statuses, Steps, InSession, Ended, artifacts,
           process, Goto
<1>1. ASSUME NEW r \in Runs, Initialize(r)
      PROVE  TypeOK'
  BY <1>1 DEF Initialize
<1>2. ASSUME NEW r \in Runs, Stage(r)
      PROVE  TypeOK'
  BY StagedPlansType, <1>2 DEF Stage
<1>3. ASSUME NEW r \in Runs, SkipEmptyPlan(r)
      PROVE  TypeOK'
  BY <1>3 DEF SkipEmptyPlan, ReadyToWrite
<1>4. ASSUME NEW r \in Runs, Prepare(r)
      PROVE  TypeOK'
  BY <1>4 DEF Prepare, ReadyToWrite
<1>5. ASSUME NEW r \in Runs, OpenSession(r)
      PROVE  TypeOK'
  BY <1>5 DEF OpenSession, ReadyToWrite
<1>6. ASSUME NEW r \in Runs, OpenFails(r)
      PROVE  TypeOK'
  BY <1>6 DEF OpenFails, Persist, ReadyToWrite
<1>7. ASSUME NEW r \in Runs, BeginPrevalidation(r)
      PROVE  TypeOK'
  BY <1>7 DEF BeginPrevalidation, Persist
<1>8. ASSUME NEW r \in Runs, PrevalidationSucceeds(r)
      PROVE  TypeOK'
  BY <1>8 DEF PrevalidationSucceeds, Persist
<1>9. ASSUME NEW r \in Runs, PrevalidationFails(r)
      PROVE  TypeOK'
  BY <1>9 DEF PrevalidationFails, Persist
<1>10. ASSUME NEW r \in Runs, BeginApply(r)
      PROVE  TypeOK'
  BY <1>10 DEF BeginApply, Persist
<1>11. ASSUME NEW r \in Runs, NEW c \in Cells, WriteCell(r, c)
      PROVE  TypeOK'
  BY <1>11 DEF WriteCell
<1>12. ASSUME NEW r \in Runs, ProbesPass(r)
      PROVE  TypeOK'
  BY <1>12 DEF ProbesPass
<1>13. ASSUME NEW r \in Runs, ProbesFail(r)
      PROVE  TypeOK'
  BY <1>13 DEF ProbesFail, Persist
<1>14. ASSUME NEW r \in Runs, Save(r)
      PROVE  TypeOK'
  BY <1>14 DEF Save, SaveFile, Targets
<1>15. ASSUME NEW r \in Runs, SaveFails(r)
      PROVE  TypeOK'
  <2>1. CASE SaveFile(r)
    BY <1>15, <2>1 DEF SaveFails, Persist, SaveFile, Targets
  <2>2. CASE UNCHANGED <<disk, saved, touched>>
    BY <1>15, <2>2 DEF SaveFails, Persist
  <2>. QED
    BY <1>15, <2>1, <2>2 DEF SaveFails
<1>16. ASSUME NEW r \in Runs, Commit(r)
      PROVE  TypeOK'
  BY <1>16 DEF Commit, Persist
<1>17. ASSUME NEW r \in Runs, RuntimeError(r)
      PROVE  TypeOK'
  BY <1>17 DEF RuntimeError, Persist
<1>18. ASSUME NEW r \in Runs, CloseSession(r)
      PROVE  TypeOK'
  BY BlankAssumption, <1>18 DEF CloseSession, NoBook
<1>19. ASSUME NEW r \in Runs, PersistFinalMetadata(r)
      PROVE  TypeOK'
  BY <1>19 DEF PersistFinalMetadata
<1>20. ASSUME NEW r \in Runs, PersistStagedWritePlan(r)
      PROVE  TypeOK'
  BY <1>20 DEF PersistStagedWritePlan
<1>21. ASSUME NEW r \in Runs, PersistCommitMarker(r)
      PROVE  TypeOK'
  BY <1>21 DEF PersistCommitMarker
<1>22. ASSUME NEW r \in Runs, Crash(r)
      PROVE  TypeOK'
  BY BlankAssumption, <1>22 DEF Crash, NoBook
<1>23. ASSUME NEW r \in Runs, NEW q \in Runs, PassGate(r, q)
      PROVE  TypeOK'
  BY <1>23 DEF PassGate
<1>24. ASSUME NEW r \in Runs, NEW q \in Runs, RefuseGate(r, q)
      PROVE  TypeOK'
  BY <1>24 DEF RefuseGate
<1>25. ASSUME EndOrphan
      PROVE  TypeOK'
  BY <1>25 DEF EndOrphan
<1>26. ASSUME NEW c \in Cells, NEW v \in Values, UserEdit(c, v)
      PROVE  TypeOK'
  BY <1>26 DEF UserEdit
<1>27. ASSUME UNCHANGED vars
      PROVE  TypeOK'
  BY <1>27 DEF vars
<1>. QED
  BY <1>1, <1>2, <1>3, <1>4, <1>5, <1>6, <1>7, <1>8, <1>9, <1>10, <1>11,
     <1>12, <1>13, <1>14, <1>15, <1>16, <1>17, <1>18, <1>19, <1>20, <1>21,
     <1>22, <1>23, <1>24, <1>25, <1>26, <1>27 DEF Next, Proceed

\* Every variable keeps its type.
THEOREM TypeCorrect == Spec => []TypeOK
  BY InitTypeOK, NextTypeOK, PTL DEF Spec

-----------------------------------------------------------------------------
(* The inductive steps of the invariant. *)

\* Every step keeps the session and the workbook lock consistent.
LEMMA NextLockInv ==
  ASSUME TypeOK, LockInv, [Next]_vars
  PROVE  LockInv'
<1> USE DEF TypeOK, LockInv, Steps, InSession, Ended, artifacts, process, Goto
<1>1. ASSUME NEW r \in Runs, Initialize(r)
      PROVE  LockInv'
  BY LockAssumption, <1>1 DEF Initialize
<1>2. ASSUME NEW r \in Runs, Stage(r)
      PROVE  LockInv'
  BY LockAssumption, <1>2 DEF Stage
<1>3. ASSUME NEW r \in Runs, SkipEmptyPlan(r)
      PROVE  LockInv'
  BY LockAssumption, <1>3 DEF SkipEmptyPlan, ReadyToWrite
<1>4. ASSUME NEW r \in Runs, Prepare(r)
      PROVE  LockInv'
  BY LockAssumption, <1>4 DEF Prepare, ReadyToWrite
<1>5. ASSUME NEW r \in Runs, OpenSession(r)
      PROVE  LockInv'
  BY LockAssumption, <1>5 DEF OpenSession, ReadyToWrite
<1>6. ASSUME NEW r \in Runs, OpenFails(r)
      PROVE  LockInv'
  BY LockAssumption, <1>6 DEF OpenFails, ReadyToWrite
<1>7. ASSUME NEW r \in Runs, BeginPrevalidation(r)
      PROVE  LockInv'
  BY LockAssumption, <1>7 DEF BeginPrevalidation
<1>8. ASSUME NEW r \in Runs, PrevalidationSucceeds(r)
      PROVE  LockInv'
  BY LockAssumption, <1>8 DEF PrevalidationSucceeds
<1>9. ASSUME NEW r \in Runs, PrevalidationFails(r)
      PROVE  LockInv'
  BY LockAssumption, <1>9 DEF PrevalidationFails
<1>10. ASSUME NEW r \in Runs, BeginApply(r)
      PROVE  LockInv'
  BY LockAssumption, <1>10 DEF BeginApply
<1>11. ASSUME NEW r \in Runs, NEW c \in Cells, WriteCell(r, c)
      PROVE  LockInv'
  BY LockAssumption, <1>11 DEF WriteCell
<1>12. ASSUME NEW r \in Runs, ProbesPass(r)
      PROVE  LockInv'
  BY LockAssumption, <1>12 DEF ProbesPass
<1>13. ASSUME NEW r \in Runs, ProbesFail(r)
      PROVE  LockInv'
  BY LockAssumption, <1>13 DEF ProbesFail
<1>14. ASSUME NEW r \in Runs, Save(r)
      PROVE  LockInv'
  BY LockAssumption, <1>14 DEF Save
<1>15. ASSUME NEW r \in Runs, SaveFails(r)
      PROVE  LockInv'
  BY LockAssumption, <1>15 DEF SaveFails
<1>16. ASSUME NEW r \in Runs, Commit(r)
      PROVE  LockInv'
  BY LockAssumption, <1>16 DEF Commit
<1>17. ASSUME NEW r \in Runs, RuntimeError(r)
      PROVE  LockInv'
  BY LockAssumption, <1>17 DEF RuntimeError
<1>18. ASSUME NEW r \in Runs, CloseSession(r)
      PROVE  LockInv'
  BY LockAssumption, <1>18 DEF CloseSession
<1>19. ASSUME NEW r \in Runs, PersistFinalMetadata(r)
      PROVE  LockInv'
  BY LockAssumption, <1>19 DEF PersistFinalMetadata
<1>20. ASSUME NEW r \in Runs, PersistStagedWritePlan(r)
      PROVE  LockInv'
  BY LockAssumption, <1>20 DEF PersistStagedWritePlan
<1>21. ASSUME NEW r \in Runs, PersistCommitMarker(r)
      PROVE  LockInv'
  BY LockAssumption, <1>21 DEF PersistCommitMarker
<1>22. ASSUME NEW r \in Runs, Crash(r)
      PROVE  LockInv'
  BY LockAssumption, <1>22 DEF Crash
<1>23. ASSUME NEW r \in Runs, NEW q \in Runs, PassGate(r, q)
      PROVE  LockInv'
  BY <1>23 DEF PassGate
<1>24. ASSUME NEW r \in Runs, NEW q \in Runs, RefuseGate(r, q)
      PROVE  LockInv'
  BY <1>24 DEF RefuseGate
<1>25. ASSUME EndOrphan
      PROVE  LockInv'
  BY LockAssumption, <1>25 DEF EndOrphan
<1>26. ASSUME NEW c \in Cells, NEW v \in Values, UserEdit(c, v)
      PROVE  LockInv'
  BY LockAssumption, <1>26 DEF UserEdit
<1>27. ASSUME UNCHANGED vars
      PROVE  LockInv'
  BY <1>27 DEF vars
<1>. QED
  BY <1>1, <1>2, <1>3, <1>4, <1>5, <1>6, <1>7, <1>8, <1>9, <1>10, <1>11,
     <1>12, <1>13, <1>14, <1>15, <1>16, <1>17, <1>18, <1>19, <1>20, <1>21,
     <1>22, <1>23, <1>24, <1>25, <1>26, <1>27 DEF Next, Proceed

\* A staged target was blank.
LEMMA StagedPlansExpectBlank ==
  ASSUME NEW book \in [Cells -> Values], NEW p \in StagedPlans(book),
         NEW c \in Targets(p),
         p[c].check = "target_cell_blank_by_construction"
  PROVE  p[c].pre = Blank
  BY DEF StagedPlans, StagedOperation, Targets

\* Prevalidation lets a batch write over exactly the values it was staged
\* against.
LEMMA PrevalidatedTarget ==
  ASSUME NEW op \in WriteOperation, NEW v \in Values,
         op.check = "target_cell_blank_by_construction" => op.pre = Blank,
         ClassifyPrevalidation(op, v) \in {"matches_pre_write", "matches_post_write"}
  PROVE  v = op.pre
<1>1. RowEligibilitySatisfied(op, v)
  BY DEF ClassifyPrevalidation
<1>2. op.check \in Checks
  BY DEF WriteOperation
<1>. QED
  BY <1>1, <1>2 DEF RowEligibilitySatisfied, Checks

\* Every step keeps the plans such as staging made them.
LEMMA NextPlanInv ==
  ASSUME TypeOK, PlanInv, [Next]_vars
  PROVE  PlanInv'
<1> USE DEF TypeOK, PlanInv, Targets, artifacts, process
<1>1. ASSUME NEW r \in Runs, Initialize(r)
      PROVE  PlanInv'
  BY <1>1 DEF Initialize
<1>2. ASSUME NEW r \in Runs, Stage(r)
      PROVE  PlanInv'
  BY StagedPlansExpectBlank, StagedPlansType, <1>2 DEF Stage
<1>3. ASSUME NEW r \in Runs, SkipEmptyPlan(r)
      PROVE  PlanInv'
  BY <1>3 DEF SkipEmptyPlan
<1>4. ASSUME NEW r \in Runs, Prepare(r)
      PROVE  PlanInv'
  BY <1>4 DEF Prepare
<1>5. ASSUME NEW r \in Runs, OpenSession(r)
      PROVE  PlanInv'
  BY <1>5 DEF OpenSession
<1>6. ASSUME NEW r \in Runs, OpenFails(r)
      PROVE  PlanInv'
  BY <1>6 DEF OpenFails
<1>7. ASSUME NEW r \in Runs, BeginPrevalidation(r)
      PROVE  PlanInv'
  BY <1>7 DEF BeginPrevalidation
<1>8. ASSUME NEW r \in Runs, PrevalidationSucceeds(r)
      PROVE  PlanInv'
  BY <1>8 DEF PrevalidationSucceeds
<1>9. ASSUME NEW r \in Runs, PrevalidationFails(r)
      PROVE  PlanInv'
  BY <1>9 DEF PrevalidationFails
<1>10. ASSUME NEW r \in Runs, BeginApply(r)
      PROVE  PlanInv'
  BY <1>10 DEF BeginApply
<1>11. ASSUME NEW r \in Runs, NEW c \in Cells, WriteCell(r, c)
      PROVE  PlanInv'
  BY <1>11 DEF WriteCell
<1>12. ASSUME NEW r \in Runs, ProbesPass(r)
      PROVE  PlanInv'
  BY <1>12 DEF ProbesPass
<1>13. ASSUME NEW r \in Runs, ProbesFail(r)
      PROVE  PlanInv'
  BY <1>13 DEF ProbesFail
<1>14. ASSUME NEW r \in Runs, Save(r)
      PROVE  PlanInv'
  BY <1>14 DEF Save
<1>15. ASSUME NEW r \in Runs, SaveFails(r)
      PROVE  PlanInv'
  BY <1>15 DEF SaveFails
<1>16. ASSUME NEW r \in Runs, Commit(r)
      PROVE  PlanInv'
  BY <1>16 DEF Commit
<1>17. ASSUME NEW r \in Runs, RuntimeError(r)
      PROVE  PlanInv'
  BY <1>17 DEF RuntimeError
<1>18. ASSUME NEW r \in Runs, CloseSession(r)
      PROVE  PlanInv'
  BY <1>18 DEF CloseSession
<1>19. ASSUME NEW r \in Runs, PersistFinalMetadata(r)
      PROVE  PlanInv'
  BY <1>19 DEF PersistFinalMetadata
<1>20. ASSUME NEW r \in Runs, PersistStagedWritePlan(r)
      PROVE  PlanInv'
  BY <1>20 DEF PersistStagedWritePlan
<1>21. ASSUME NEW r \in Runs, PersistCommitMarker(r)
      PROVE  PlanInv'
  BY <1>21 DEF PersistCommitMarker
<1>22. ASSUME NEW r \in Runs, Crash(r)
      PROVE  PlanInv'
  BY <1>22 DEF Crash
<1>23. ASSUME NEW r \in Runs, NEW q \in Runs, PassGate(r, q)
      PROVE  PlanInv'
  BY <1>23 DEF PassGate
<1>24. ASSUME NEW r \in Runs, NEW q \in Runs, RefuseGate(r, q)
      PROVE  PlanInv'
  BY <1>24 DEF RefuseGate
<1>25. ASSUME EndOrphan
      PROVE  PlanInv'
  BY <1>25 DEF EndOrphan
<1>26. ASSUME NEW c \in Cells, NEW v \in Values, UserEdit(c, v)
      PROVE  PlanInv'
  BY <1>26 DEF UserEdit
<1>27. ASSUME UNCHANGED vars
      PROVE  PlanInv'
  BY <1>27 DEF vars
<1>. QED
  BY <1>1, <1>2, <1>3, <1>4, <1>5, <1>6, <1>7, <1>8, <1>9, <1>10, <1>11,
     <1>12, <1>13, <1>14, <1>15, <1>16, <1>17, <1>18, <1>19, <1>20, <1>21,
     <1>22, <1>23, <1>24, <1>25, <1>26, <1>27 DEF Next, Proceed

\* Every step keeps the session's memory consistent with its phase.
LEMMA NextSessionInv ==
  ASSUME TypeOK, LockInv, PlanInv, SessionInv, PhaseInv, [Next]_vars
  PROVE  SessionInv'
<1> USE DEF SessionInv, LockInv, TypeOK, Steps, Ended, InSession, artifacts, process, Goto
<1>1. ASSUME NEW r \in Runs, Initialize(r)
      PROVE  SessionInv'
  BY <1>1 DEF Initialize
<1>2. ASSUME NEW r \in Runs, Stage(r)
      PROVE  SessionInv'
  BY <1>2 DEF Stage, PhaseInv, Targets
<1>3. ASSUME NEW r \in Runs, SkipEmptyPlan(r)
      PROVE  SessionInv'
  BY <1>3 DEF SkipEmptyPlan, ReadyToWrite
<1>4. ASSUME NEW r \in Runs, Prepare(r)
      PROVE  SessionInv'
  BY <1>4 DEF Prepare, ReadyToWrite
<1>5. ASSUME NEW r \in Runs, OpenSession(r)
      PROVE  SessionInv'
  BY LockAssumption, <1>5 DEF OpenSession, ReadyToWrite
<1>6. ASSUME NEW r \in Runs, OpenFails(r)
      PROVE  SessionInv'
  BY <1>6 DEF OpenFails, Persist, ReadyToWrite
<1>7. ASSUME NEW r \in Runs, BeginPrevalidation(r)
      PROVE  SessionInv'
  BY <1>7 DEF BeginPrevalidation, Persist
<1>8. ASSUME NEW r \in Runs, PrevalidationSucceeds(r)
      PROVE  SessionInv'
  <2>1. pc[r] = "prevalidating" /\ PrevalidationPasses(plan[r], mem)
    BY <1>8 DEF PrevalidationSucceeds, Goto
  <2>2. ASSUME NEW c \in Targets(plan[r])
        PROVE  disk[c] = plan[r][c].pre
    <3>1. plan[r][c] \in WriteOperation /\ mem[c] \in Values /\ c \in Cells
      BY <2>2 DEF TypeOK, Targets, Plans
    <3>2. ClassifyPrevalidation(plan[r][c], mem[c])
            \in {"matches_pre_write", "matches_post_write"}
      BY <2>1 DEF PrevalidationPasses
    <3>3. mem[c] = plan[r][c].pre
      BY <3>1, <3>2, PrevalidatedTarget DEF PlanInv
    <3>. QED
      BY <2>1, <3>1, <3>3 DEF SessionInv, PhaseInv
  <2>. QED
    BY <1>8, <2>2 DEF PrevalidationSucceeds, Persist
<1>9. ASSUME NEW r \in Runs, PrevalidationFails(r)
      PROVE  SessionInv'
  BY <1>9 DEF PrevalidationFails, Persist
<1>10. ASSUME NEW r \in Runs, BeginApply(r)
      PROVE  SessionInv'
  BY <1>10 DEF BeginApply, Persist
<1>11. ASSUME NEW r \in Runs, NEW c \in Cells, WriteCell(r, c)
      PROVE  SessionInv'
  BY <1>11 DEF WriteCell
<1>12. ASSUME NEW r \in Runs, ProbesPass(r)
      PROVE  SessionInv'
  <2>1. \A c \in Targets(plan[r]) : mem[c] = plan[r][c].post
    BY <1>12 DEF ProbesPass, PostWriteProbesMatch, ClassifyProbe
  <2>. QED
    BY <1>12, <2>1 DEF ProbesPass
<1>13. ASSUME NEW r \in Runs, ProbesFail(r)
      PROVE  SessionInv'
  BY <1>13 DEF ProbesFail, Persist
<1>14. ASSUME NEW r \in Runs, Save(r)
      PROVE  SessionInv'
  BY <1>14 DEF Save, SaveFile
<1>15. ASSUME NEW r \in Runs, SaveFails(r)
      PROVE  SessionInv'
  BY <1>15 DEF SaveFails, Persist, SaveFile
<1>16. ASSUME NEW r \in Runs, Commit(r)
      PROVE  SessionInv'
  BY <1>16 DEF Commit, Persist
<1>17. ASSUME NEW r \in Runs, RuntimeError(r)
      PROVE  SessionInv'
  BY <1>17 DEF RuntimeError, Persist
<1>18. ASSUME NEW r \in Runs, CloseSession(r)
      PROVE  SessionInv'
  BY <1>18 DEF CloseSession, NoBook
<1>19. ASSUME NEW r \in Runs, PersistFinalMetadata(r)
      PROVE  SessionInv'
  BY <1>19 DEF PersistFinalMetadata
<1>20. ASSUME NEW r \in Runs, PersistStagedWritePlan(r)
      PROVE  SessionInv'
  BY <1>20 DEF PersistStagedWritePlan
<1>21. ASSUME NEW r \in Runs, PersistCommitMarker(r)
      PROVE  SessionInv'
  BY <1>21 DEF PersistCommitMarker
<1>22. ASSUME NEW r \in Runs, Crash(r)
      PROVE  SessionInv'
  BY <1>22 DEF Crash, NoBook
<1>23. ASSUME NEW r \in Runs, NEW q \in Runs, PassGate(r, q)
      PROVE  SessionInv'
  BY <1>23 DEF PassGate
<1>24. ASSUME NEW r \in Runs, NEW q \in Runs, RefuseGate(r, q)
      PROVE  SessionInv'
  BY <1>24 DEF RefuseGate
<1>25. ASSUME EndOrphan
      PROVE  SessionInv'
  BY <1>25 DEF EndOrphan
<1>26. ASSUME NEW c \in Cells, NEW v \in Values, UserEdit(c, v)
      PROVE  SessionInv'
  BY LockAssumption, <1>26 DEF UserEdit
<1>27. ASSUME UNCHANGED vars
      PROVE  SessionInv'
  BY <1>27 DEF vars
<1>. QED
  BY <1>1, <1>2, <1>3, <1>4, <1>5, <1>6, <1>7, <1>8, <1>9, <1>10, <1>11,
     <1>12, <1>13, <1>14, <1>15, <1>16, <1>17, <1>18, <1>19, <1>20, <1>21,
     <1>22, <1>23, <1>24, <1>25, <1>26, <1>27 DEF Next, Proceed

\* Every step keeps the status consistent with the save.
LEMMA NextPhaseInv ==
  ASSUME TypeOK, LockInv, PhaseInv, [Next]_vars
  PROVE  PhaseInv'
<1> USE DEF PhaseInv, Truthful, NotSavedYet, TypeOK, Steps, Ended, InSession, artifacts,
           process, Goto, InitialReport
<1>1. ASSUME NEW r \in Runs, Initialize(r)
      PROVE  PhaseInv'
  BY <1>1 DEF Initialize
<1>2. ASSUME NEW r \in Runs, Stage(r)
      PROVE  PhaseInv'
  BY <1>2 DEF Stage
<1>3. ASSUME NEW r \in Runs, SkipEmptyPlan(r)
      PROVE  PhaseInv'
  BY <1>3 DEF SkipEmptyPlan, ReadyToWrite
<1>4. ASSUME NEW r \in Runs, Prepare(r)
      PROVE  PhaseInv'
  BY <1>4 DEF Prepare, ReadyToWrite
<1>5. ASSUME NEW r \in Runs, OpenSession(r)
      PROVE  PhaseInv'
  BY <1>5 DEF OpenSession, ReadyToWrite
<1>6. ASSUME NEW r \in Runs, OpenFails(r)
      PROVE  PhaseInv'
  BY <1>6 DEF OpenFails, Persist, ReadyToWrite
<1>7. ASSUME NEW r \in Runs, BeginPrevalidation(r)
      PROVE  PhaseInv'
  BY <1>7 DEF BeginPrevalidation, Persist
<1>8. ASSUME NEW r \in Runs, PrevalidationSucceeds(r)
      PROVE  PhaseInv'
  BY <1>8 DEF PrevalidationSucceeds, Persist
<1>9. ASSUME NEW r \in Runs, PrevalidationFails(r)
      PROVE  PhaseInv'
  BY <1>9 DEF PrevalidationFails, Persist
<1>10. ASSUME NEW r \in Runs, BeginApply(r)
      PROVE  PhaseInv'
  BY <1>10 DEF BeginApply, Persist
<1>11. ASSUME NEW r \in Runs, NEW c \in Cells, WriteCell(r, c)
      PROVE  PhaseInv'
  BY <1>11 DEF WriteCell
<1>12. ASSUME NEW r \in Runs, ProbesPass(r)
      PROVE  PhaseInv'
  BY <1>12 DEF ProbesPass
<1>13. ASSUME NEW r \in Runs, ProbesFail(r)
      PROVE  PhaseInv'
  BY <1>13 DEF ProbesFail, Persist
<1>14. ASSUME NEW r \in Runs, Save(r)
      PROVE  PhaseInv'
  BY <1>14 DEF Save, SaveFile
<1>15. ASSUME NEW r \in Runs, SaveFails(r)
      PROVE  PhaseInv'
  BY <1>15 DEF SaveFails, Persist, SaveFile
<1>16. ASSUME NEW r \in Runs, Commit(r)
      PROVE  PhaseInv'
  BY <1>16 DEF Commit, Persist
<1>17. ASSUME NEW r \in Runs, RuntimeError(r)
      PROVE  PhaseInv'
  BY <1>17 DEF RuntimeError, Persist
<1>18. ASSUME NEW r \in Runs, CloseSession(r)
      PROVE  PhaseInv'
  BY <1>18 DEF CloseSession, NoBook
<1>19. ASSUME NEW r \in Runs, PersistFinalMetadata(r)
      PROVE  PhaseInv'
  BY <1>19 DEF PersistFinalMetadata
<1>20. ASSUME NEW r \in Runs, PersistStagedWritePlan(r)
      PROVE  PhaseInv'
  BY <1>20 DEF PersistStagedWritePlan
<1>21. ASSUME NEW r \in Runs, PersistCommitMarker(r)
      PROVE  PhaseInv'
  BY <1>21 DEF PersistCommitMarker
<1>22. ASSUME NEW r \in Runs, Crash(r)
      PROVE  PhaseInv'
  BY <1>22 DEF Crash, NoBook
<1>23. ASSUME NEW r \in Runs, NEW q \in Runs, PassGate(r, q)
      PROVE  PhaseInv'
  BY <1>23 DEF PassGate
<1>24. ASSUME NEW r \in Runs, NEW q \in Runs, RefuseGate(r, q)
      PROVE  PhaseInv'
  BY <1>24 DEF RefuseGate
<1>25. ASSUME EndOrphan
      PROVE  PhaseInv'
  BY <1>25 DEF EndOrphan
<1>26. ASSUME NEW c \in Cells, NEW v \in Values, UserEdit(c, v)
      PROVE  PhaseInv'
  BY <1>26 DEF UserEdit
<1>27. ASSUME UNCHANGED vars
      PROVE  PhaseInv'
  BY <1>27 DEF vars
<1>. QED
  BY <1>1, <1>2, <1>3, <1>4, <1>5, <1>6, <1>7, <1>8, <1>9, <1>10, <1>11,
     <1>12, <1>13, <1>14, <1>15, <1>16, <1>17, <1>18, <1>19, <1>20, <1>21,
     <1>22, <1>23, <1>24, <1>25, <1>26, <1>27 DEF Next, Proceed

\* The session's memory is the file with the whole plan applied, when the
\* probes have passed.
LEMMA SessionAppliesPlan ==
  ASSUME SessionInv, NEW r \in Runs, pc[r] = "applied"
  PROVE  /\ \A c \in Cells \ Targets(plan[r]) : mem[c] = disk[c]
         /\ \A c \in Targets(plan[r]) : mem[c] = plan[r][c].post
  BY DEF SessionInv

\* No step disturbs a saved batch but an edit of another user.
LEMMA NextSavedWritesStand ==
  ASSUME TypeOK, LockInv, SessionInv, PhaseInv, SavedWritesStand, [Next]_vars
  PROVE  SavedWritesStand'
<1> USE DEF SavedWritesStand, TypeOK, Targets, artifacts, process, Goto
<1>1. ASSUME NEW r \in Runs, Initialize(r)
      PROVE  SavedWritesStand'
  BY <1>1 DEF Initialize
<1>2. ASSUME NEW r \in Runs, Stage(r)
      PROVE  SavedWritesStand'
  BY <1>2 DEF Stage, PhaseInv, NotSavedYet
<1>3. ASSUME NEW r \in Runs, SkipEmptyPlan(r)
      PROVE  SavedWritesStand'
  BY <1>3 DEF SkipEmptyPlan, ReadyToWrite
<1>4. ASSUME NEW r \in Runs, Prepare(r)
      PROVE  SavedWritesStand'
  BY <1>4 DEF Prepare, ReadyToWrite
<1>5. ASSUME NEW r \in Runs, OpenSession(r)
      PROVE  SavedWritesStand'
  BY <1>5 DEF OpenSession, ReadyToWrite
<1>6. ASSUME NEW r \in Runs, OpenFails(r)
      PROVE  SavedWritesStand'
  BY <1>6 DEF OpenFails, Persist, ReadyToWrite
<1>7. ASSUME NEW r \in Runs, BeginPrevalidation(r)
      PROVE  SavedWritesStand'
  BY <1>7 DEF BeginPrevalidation, Persist
<1>8. ASSUME NEW r \in Runs, PrevalidationSucceeds(r)
      PROVE  SavedWritesStand'
  BY <1>8 DEF PrevalidationSucceeds, Persist
<1>9. ASSUME NEW r \in Runs, PrevalidationFails(r)
      PROVE  SavedWritesStand'
  BY <1>9 DEF PrevalidationFails, Persist
<1>10. ASSUME NEW r \in Runs, BeginApply(r)
      PROVE  SavedWritesStand'
  BY <1>10 DEF BeginApply, Persist
<1>11. ASSUME NEW r \in Runs, NEW c \in Cells, WriteCell(r, c)
      PROVE  SavedWritesStand'
  BY <1>11 DEF WriteCell
<1>12. ASSUME NEW r \in Runs, ProbesPass(r)
      PROVE  SavedWritesStand'
  BY <1>12 DEF ProbesPass
<1>13. ASSUME NEW r \in Runs, ProbesFail(r)
      PROVE  SavedWritesStand'
  BY <1>13 DEF ProbesFail, Persist
<1>14. ASSUME NEW r \in Runs, Save(r)
      PROVE  SavedWritesStand'
  <2>1. /\ \A c \in Cells \ Targets(plan[r]) : mem[c] = disk[c]
        /\ \A c \in Targets(plan[r]) : mem[c] = plan[r][c].post
    BY <1>14, SessionAppliesPlan DEF Save
  <2>. QED
    BY <1>14, <2>1 DEF Save, SaveFile
<1>15. ASSUME NEW r \in Runs, SaveFails(r)
      PROVE  SavedWritesStand'
  <2>1. CASE SaveFile(r)
    <3>1. /\ \A c \in Cells \ Targets(plan[r]) : mem[c] = disk[c]
          /\ \A c \in Targets(plan[r]) : mem[c] = plan[r][c].post
      BY <1>15, SessionAppliesPlan DEF SaveFails
    <3>. QED
      BY <1>15, <2>1, <3>1 DEF SaveFails, Persist, SaveFile
  <2>2. CASE UNCHANGED <<disk, saved, touched>>
    BY <1>15, <2>2 DEF SaveFails, Persist
  <2>. QED
    BY <1>15, <2>1, <2>2 DEF SaveFails
<1>16. ASSUME NEW r \in Runs, Commit(r)
      PROVE  SavedWritesStand'
  BY <1>16 DEF Commit, Persist
<1>17. ASSUME NEW r \in Runs, RuntimeError(r)
      PROVE  SavedWritesStand'
  BY <1>17 DEF RuntimeError, Persist
<1>18. ASSUME NEW r \in Runs, CloseSession(r)
      PROVE  SavedWritesStand'
  BY <1>18 DEF CloseSession, NoBook
<1>19. ASSUME NEW r \in Runs, PersistFinalMetadata(r)
      PROVE  SavedWritesStand'
  BY <1>19 DEF PersistFinalMetadata
<1>20. ASSUME NEW r \in Runs, PersistStagedWritePlan(r)
      PROVE  SavedWritesStand'
  BY <1>20 DEF PersistStagedWritePlan
<1>21. ASSUME NEW r \in Runs, PersistCommitMarker(r)
      PROVE  SavedWritesStand'
  BY <1>21 DEF PersistCommitMarker
<1>22. ASSUME NEW r \in Runs, Crash(r)
      PROVE  SavedWritesStand'
  BY <1>22 DEF Crash, NoBook
<1>23. ASSUME NEW r \in Runs, NEW q \in Runs, PassGate(r, q)
      PROVE  SavedWritesStand'
  BY <1>23 DEF PassGate
<1>24. ASSUME NEW r \in Runs, NEW q \in Runs, RefuseGate(r, q)
      PROVE  SavedWritesStand'
  BY <1>24 DEF RefuseGate
<1>25. ASSUME EndOrphan
      PROVE  SavedWritesStand'
  BY <1>25 DEF EndOrphan
<1>26. ASSUME NEW c \in Cells, NEW v \in Values, UserEdit(c, v)
      PROVE  SavedWritesStand'
  BY <1>26 DEF UserEdit
<1>27. ASSUME UNCHANGED vars
      PROVE  SavedWritesStand'
  BY <1>27 DEF vars
<1>. QED
  BY <1>1, <1>2, <1>3, <1>4, <1>5, <1>6, <1>7, <1>8, <1>9, <1>10, <1>11,
     <1>12, <1>13, <1>14, <1>15, <1>16, <1>17, <1>18, <1>19, <1>20, <1>21,
     <1>22, <1>23, <1>24, <1>25, <1>26, <1>27 DEF Next, Proceed

-----------------------------------------------------------------------------
(* The invariants. *)

\* The inductive invariant holds initially.
LEMMA InitIInv == Init => IInv
<1>. SUFFICES ASSUME Init PROVE IInv
  OBVIOUS
<1>1. TypeOK
  BY InitTypeOK
<1>2. LockInv
  BY LockAssumption DEF Init, LockInv, InSession
<1>3. PlanInv
  BY DEF Init, PlanInv, Targets, NoPlan
<1>4. SessionInv
  BY DEF Init, SessionInv
<1>5. PhaseInv
  BY DEF Init, PhaseInv, Truthful, InitialReport
<1>6. SavedWritesStand
  BY DEF Init, SavedWritesStand
<1>. QED
  BY <1>1, <1>2, <1>3, <1>4, <1>5, <1>6 DEF IInv

\* Every step keeps the inductive invariant.
LEMMA NextIInv == IInv /\ [Next]_vars => IInv'
  BY NextTypeOK, NextLockInv, NextPlanInv, NextSessionInv, NextPhaseInv,
     NextSavedWritesStand DEF IInv

\* The inductive invariant holds in every reachable state.
THEOREM Invariant == Spec => []IInv
  BY InitIInv, NextIInv, PTL DEF Spec

\* No partial batch, for every number of runs and cells: once the plan of a
\* run is in the file each of its targets shows the planned value until
\* somebody else changes it.
THEOREM SavedWritesStandTheorem == Spec => []SavedWritesStand
  BY Invariant, PTL DEF IInv

\* The persisted write phase status agrees with the file after every step of
\* every process, killed or not.
THEOREM MetadataTheorem == Spec => []MetadataMatchesFile
<1>1. IInv => MetadataMatchesFile
  BY DEF IInv, PhaseInv, Truthful, MetadataMatchesFile
<1>. QED
  BY <1>1, Invariant, PTL

\* assess_recovery never allows a reapply of writes that are in the file, nor
\* a resume after writes that are not.
THEOREM RecoveryTheorem == Spec => []RecoverySound
<1>1. ASSUME IInv, NEW r \in Runs,
             Assess(r) = "safe_reapply_staged_writes", saved[r]
      PROVE  Targets(plan[r]) \subseteq touched[r]
  <2>1. planFile[r] = plan[r] /\ ProbeClasses(r) \subseteq {"matches_pre_write"}
    BY <1>1 DEF Assess, AssessUnwritten, AssessWritten, ArtifactsValid, IInv, PhaseInv, Truthful
  <2>2. SUFFICES ASSUME NEW c \in Targets(plan[r]), c \notin touched[r]
                 PROVE  FALSE
    OBVIOUS
  <2>3. disk[c] = plan[r][c].post
    BY <1>1, <2>2 DEF IInv, SavedWritesStand
  <2>4. ClassifyRecoveryProbe(plan[r][c], disk[c]) # "matches_pre_write"
    BY <2>3 DEF ClassifyRecoveryProbe, ClassifyProbe
  <2>. QED
    BY <2>1, <2>2, <2>4 DEF ProbeClasses
<1>2. ASSUME IInv, NEW r \in Runs, Assess(r) = "safe_resume"
      PROVE  saved[r]
  BY <1>2 DEF Assess, AssessUnwritten, AssessWritten, IInv, PhaseInv, Truthful
<1>3. IInv => RecoverySound
  BY <1>1, <1>2 DEF RecoverySound
<1>. QED
  BY <1>3, Invariant, PTL

-----------------------------------------------------------------------------
(* Refinement of AtomicBatch. *)

\* The initial states of the write phase are those of the atomic batch.
LEMMA InitRefines == Init => AB!ABInit
  BY DEF Init, AB!ABInit, AB!NoPlan, NoPlan

\* A save that reaches the file applies the whole plan over the staged values.
LEMMA SaveRefines ==
  ASSUME IInv, NEW r \in Runs, pc[r] = "applied", SaveFile(r), UNCHANGED plan
  PROVE  AB!ABApply(r)
<1>1. /\ \A c \in Cells \ Targets(plan[r]) : mem[c] = disk[c]
      /\ \A c \in Targets(plan[r]) : mem[c] = plan[r][c].post
  BY SessionAppliesPlan DEF IInv
<1>2. mem = Applied(plan[r], disk)
  BY <1>1 DEF Applied, Targets, IInv, TypeOK
<1>3. ~saved[r] /\ \A c \in Targets(plan[r]) : disk[c] = plan[r][c].pre
  BY DEF IInv, SessionInv, PhaseInv, NotSavedYet
<1>. QED
  BY <1>2, <1>3 DEF SaveFile, AB!ABApply, AB!Applied, AB!Targets, Applied, Targets

\* A step of the write phase is a step of the atomic batch or none of it.
LEMMA NextRefines ==
  ASSUME IInv, [Next]_vars
  PROVE  [AB!ABNext]_AB!abVars
<1> USE DEF AB!ABNext, AB!abVars
<1>1. ASSUME NEW r \in Runs, Stage(r)
      PROVE  AB!ABNext
  <2>1. ~saved[r] /\ plan[r] = AB!NoPlan
    BY <1>1 DEF Stage, Goto, IInv, PhaseInv, NotSavedYet, AB!NoPlan, NoPlan
  <2>2. StagedPlans(disk) = AB!StagedPlans(disk)
    BY DEF StagedPlans, StagedOperation, Checks, AB!StagedPlans,
           AB!StagedOperation, AB!Checks
  <2>. QED
    BY <1>1, <2>1, <2>2 DEF Stage, AB!ABStage
<1>2. ASSUME NEW r \in Runs, Save(r)
      PROVE  AB!ABNext
  BY <1>2, SaveRefines DEF Save, Goto
<1>3. ASSUME NEW r \in Runs, SaveFails(r)
      PROVE  AB!ABNext \/ UNCHANGED AB!abVars
  BY <1>3, SaveRefines DEF SaveFails, Goto
<1>4. ASSUME NEW c \in Cells, NEW v \in Values, UserEdit(c, v)
      PROVE  AB!ABNext
  BY <1>4 DEF UserEdit, AB!ABEdit, process
<1>5. ASSUME NEW r \in Runs,
             \/ Initialize(r) \/ SkipEmptyPlan(r) \/ Prepare(r) \/ OpenSession(r)
             \/ OpenFails(r) \/ BeginPrevalidation(r) \/ PrevalidationSucceeds(r)
             \/ PrevalidationFails(r) \/ BeginApply(r)
             \/ \E c \in Cells : WriteCell(r, c)
             \/ ProbesPass(r) \/ ProbesFail(r) \/ Commit(r) \/ RuntimeError(r)
             \/ CloseSession(r) \/ PersistFinalMetadata(r)
             \/ PersistStagedWritePlan(r) \/ PersistCommitMarker(r) \/ Crash(r)
             \/ \E q \in Runs : PassGate(r, q) \/ RefuseGate(r, q)
      PROVE  UNCHANGED AB!abVars
  BY <1>5 DEF Initialize, SkipEmptyPlan, Prepare, OpenSession, OpenFails,
     BeginPrevalidation, PrevalidationSucceeds, PrevalidationFails, BeginApply,
     WriteCell, ProbesPass, ProbesFail, Commit, RuntimeError, CloseSession,
     PersistFinalMetadata, PersistStagedWritePlan, PersistCommitMarker, Crash,
     PassGate, RefuseGate
<1>6. ASSUME EndOrphan \/ UNCHANGED vars
      PROVE  UNCHANGED AB!abVars
  BY <1>6 DEF EndOrphan, vars, process
<1>. QED
  BY <1>1, <1>2, <1>3, <1>4, <1>5, <1>6 DEF Next, Proceed

\* The write phase, with all its interleavings, failures and crashes,
\* implements the atomic batch.
THEOREM RefinesAtomicBatch == Spec => ImplementsAtomicBatch
<1>1. IInv /\ [Next]_vars => [AB!ABNext]_AB!abVars
  BY NextRefines
<1>. QED
  BY <1>1, InitRefines, Invariant, PTL DEF Spec, ImplementsAtomicBatch, AB!ABSpec
=============================================================================
