-------------------------- MODULE RunPhasesProofs --------------------------
(***************************************************************************)
(* Proofs about a run across its commands, for every number of mails: an   *)
(* inductive invariant over the persisted artifacts, the memory of the     *)
(* running command and the artifacts it still has to persist, and the      *)
(* safety properties that follow from it.                                  *)
(***************************************************************************)
EXTENDS RunPhasesProps, TLAPS

-----------------------------------------------------------------------------
(* The inductive invariant. *)

\* The artifacts that a finishing command may still have to persist.
PlanQueues ==
  {<<"run_metadata", "mail_outcomes", "print_plan">>,
   <<"mail_outcomes", "print_plan">>, <<"print_plan">>}
ValidationQueues ==
  {<<"run_metadata", "mail_outcomes", "staged_write_plan">>,
   <<"mail_outcomes", "staged_write_plan">>, <<"staged_write_plan">>}
OtherQueues ==
  {<<"checklist", "run_metadata">>, <<"run_metadata">>, <<"mail_outcomes">>}

PendingInv ==
  IF pc = "finishing"
  THEN pending \in PlanQueues \cup ValidationQueues \cup OtherQueues
  ELSE pending = <<>>

\* Committed means that the writes are in the workbook.
CommitInv ==
  /\ saved \in {{}, Staged}
  /\ pc = "written" => saved = Staged
  /\ meta.write = "committed" => saved = Staged
  /\ mem.meta.write = "committed" => saved = Staged

\* Staged plans hold mails with writes, print plans mails with saved writes.
PlansInv ==
  /\ plan \subseteq Staged
  /\ printPlan \subseteq saved
  /\ pending \in ValidationQueues => mem.mails \subseteq Staged
  /\ pending \in PlanQueues => mem.mails \subseteq saved

\* A completed print phase has printed its plan; the plan changes only after
\* the metadata has left the completed status.
PrintInv ==
  /\ pc = "printing" => mem.mails = printPlan
  /\ meta.print = "completed" => printPlan \subseteq printed
  /\ mem.meta.print = "completed" => printPlan \subseteq printed
  /\ pending \in PlanQueues => mem.meta.print = "planned"
  /\ pending \in PlanQueues /\ Head(pending) # "run_metadata"
       => meta.print = "planned"

\* Outcomes, in a file or in memory, are backed by what happened, and a blocked
\* mail is never eligible.
Sound(os) ==
  \A m \in Mails :
    /\ os[m].eligible => kind[m] # "blocked"
    /\ os[m].status \in {"written", "printed"} => m \in saved
    /\ os[m].status = "printed" => m \in printed
    /\ os[m].status = "moved" => m \in moveMarkers

OutcomesInv == Sound(outcomes) /\ Sound(mem.outcomes)

Handled(m) ==
  /\ kind[m] \in {"duplicate", "printable", "unprintable"}
  /\ m \in Staged => m \in saved

\* The mails that are being moved have passed the gate, and a move precedes
\* its marker.
MovesInv ==
  /\ pc \in {"moving", "moved"} =>
       \A m \in mem.mails : Handled(m) /\ (m \in printPlan => m \in printed)
  /\ pc = "moved" => \A m \in Mails : IsNext(m, moveMarkers) => Moved(m)
  /\ \A m \in moveMarkers : Moved(m)
  /\ MovedMailsAreHandled

IInv ==
  /\ TypeOK /\ PendingInv /\ CommitInv /\ PlansInv /\ PrintInv
  /\ OutcomesInv /\ MovesInv

-----------------------------------------------------------------------------
(* Queues and outcomes. *)

\* A queue of plan-print loses its head until the print plan is persisted.
LEMMA PlanQueueStep ==
  ASSUME NEW q \in PlanQueues
  PROVE  /\ q \in Seq(Artifacts) /\ q # <<>> /\ Len(q) \in 1..3
         /\ Tail(q) \in Seq(Artifacts)
         /\ q[Len(q)] \in {"print_plan"}
         /\ Len(q) = 1 => Tail(q) = <<>>
         /\ Len(q) # 1 => Tail(q) \in PlanQueues
         /\ Len(q) # 1 => Head(Tail(q)) # "run_metadata"
         /\ Len(q) = 1 <=> Head(q) = "print_plan"
         /\ Head(q) \in {"run_metadata", "mail_outcomes", "print_plan"}
<1>1. CASE q = <<"run_metadata", "mail_outcomes", "print_plan">>
  BY <1>1 DEF PlanQueues, Artifacts
<1>2. CASE q = <<"mail_outcomes", "print_plan">>
  BY <1>2 DEF PlanQueues, Artifacts
<1>3. CASE q = <<"print_plan">>
  BY <1>3 DEF PlanQueues, Artifacts
<1> QED BY <1>1, <1>2, <1>3 DEF PlanQueues

\* A queue of validate-run ends with the staged plan.
LEMMA ValidationQueueStep ==
  ASSUME NEW q \in ValidationQueues
  PROVE  /\ q \in Seq(Artifacts) /\ q # <<>> /\ Len(q) \in 1..3
         /\ Tail(q) \in Seq(Artifacts)
         /\ q[Len(q)] \in {"staged_write_plan"}
         /\ Len(q) = 1 => Tail(q) = <<>>
         /\ Len(q) # 1 => Tail(q) \in ValidationQueues
         /\ Len(q) # 1 => Head(Tail(q)) # "run_metadata"
         /\ Len(q) = 1 <=> Head(q) = "staged_write_plan"
         /\ Head(q) \in {"run_metadata", "mail_outcomes", "staged_write_plan"}
<1>1. CASE q = <<"run_metadata", "mail_outcomes", "staged_write_plan">>
  BY <1>1 DEF ValidationQueues, Artifacts
<1>2. CASE q = <<"mail_outcomes", "staged_write_plan">>
  BY <1>2 DEF ValidationQueues, Artifacts
<1>3. CASE q = <<"staged_write_plan">>
  BY <1>3 DEF ValidationQueues, Artifacts
<1> QED BY <1>1, <1>2, <1>3 DEF ValidationQueues

\* The other queues persist no plan.
LEMMA OtherQueueStep ==
  ASSUME NEW q \in OtherQueues
  PROVE  /\ q \in Seq(Artifacts) /\ q # <<>> /\ Len(q) \in 1..3
         /\ Tail(q) \in Seq(Artifacts)
         /\ q[Len(q)] \in {"run_metadata", "mail_outcomes"}
         /\ Len(q) = 1 => Tail(q) = <<>>
         /\ Len(q) # 1 => Tail(q) \in OtherQueues
         /\ Head(q) \in {"checklist", "run_metadata", "mail_outcomes"}
<1>1. CASE q = <<"checklist", "run_metadata">>
  BY <1>1 DEF OtherQueues, Artifacts
<1>2. CASE q = <<"run_metadata">>
  BY <1>2 DEF OtherQueues, Artifacts
<1>3. CASE q = <<"mail_outcomes">>
  BY <1>3 DEF OtherQueues, Artifacts
<1> QED BY <1>1, <1>2, <1>3 DEF OtherQueues

\* The sorts of queues are told apart by what they end with.
LEMMA QueuesDisjoint ==
  /\ PlanQueues \cap ValidationQueues = {}
  /\ PlanQueues \cap OtherQueues = {}
  /\ ValidationQueues \cap OtherQueues = {}
BY PlanQueueStep, ValidationQueueStep, OtherQueueStep

\* No queue is empty.
LEMMA QueuesNotEmpty ==
  /\ <<>> \notin PlanQueues
  /\ <<>> \notin ValidationQueues
  /\ <<>> \notin OtherQueues
BY PlanQueueStep, ValidationQueueStep, OtherQueueStep

\* What the operators on outcomes return.
LEMMA OutcomesType ==
  /\ Snapshotted \in Outcomes
  /\ Validated \in Outcomes
  /\ \A os \in Outcomes : BlockMoves(os) \in Outcomes
  /\ \A os \in Outcomes, mails \in SUBSET Mails, eligible \in BOOLEAN,
        status \in {"written", "printed", "moved"} :
       Mark(os, mails, status, eligible) \in Outcomes
<1>1. Snapshotted \in Outcomes
  BY DEF Snapshotted, Outcomes
<1>2. Validated \in Outcomes
  BY DEF Validated, Outcomes
<1>3. ASSUME NEW os \in Outcomes
      PROVE  BlockMoves(os) \in Outcomes
  BY <1>3 DEF BlockMoves, Outcomes
<1>4. ASSUME NEW os \in Outcomes, NEW mails \in SUBSET Mails,
             NEW eligible \in BOOLEAN, NEW status \in {"written", "printed", "moved"}
      PROVE  Mark(os, mails, status, eligible) \in Outcomes
  BY <1>4 DEF Mark, Outcomes
<1> QED BY <1>1, <1>2, <1>3, <1>4

\* Eligibility that the policy withdraws leaves outcomes.
LEMMA MoveOutcomesType ==
  ASSUME TypeOK
  PROVE  MoveOutcomes \in Outcomes
BY DEF TypeOK, MoveOutcomes, Outcomes, PolicyAllows

\* A process without memory is well typed.
LEMMA NoMemoryType ==
  NoMemory \in [meta : Metadata, outcomes : Outcomes, mails : SUBSET Mails]
BY OutcomesType DEF NoMemory, NotStarted, Metadata, WriteStatuses, PrintStatuses,
   MoveStatuses

\* The queues that commands begin with.
LEMMA QueuesType ==
  /\ ValidationFiles \in ValidationQueues \cap Seq(Artifacts)
  /\ Tail(ValidationFiles) \in ValidationQueues \cap Seq(Artifacts)
  /\ <<"run_metadata", "mail_outcomes", "print_plan">> \in PlanQueues \cap Seq(Artifacts)
  /\ <<"checklist", "run_metadata">> \in OtherQueues \cap Seq(Artifacts)
  /\ <<"mail_outcomes">> \in OtherQueues \cap Seq(Artifacts)
  /\ <<>> \in Seq(Artifacts)
<1>1. ValidationFiles \in ValidationQueues
  BY DEF ValidationFiles, ValidationQueues
<1>2. Tail(ValidationFiles) \in ValidationQueues
  BY DEF ValidationFiles, ValidationQueues
<1>3. <<"run_metadata", "mail_outcomes", "print_plan">> \in PlanQueues
  BY DEF PlanQueues
<1>4. /\ <<"checklist", "run_metadata">> \in OtherQueues
      /\ <<"mail_outcomes">> \in OtherQueues
  BY DEF OtherQueues
<1> QED BY <1>1, <1>2, <1>3, <1>4, PlanQueueStep, ValidationQueueStep,
   OtherQueueStep

\* A command that ends holds what it persists.
LEMMA FinishType ==
  ASSUME NEW m \in Metadata, NEW os \in Outcomes, NEW mails \in SUBSET Mails,
         NEW files \in Seq(Artifacts), Finish(m, os, mails, files)
  PROVE  /\ mem' \in [meta : Metadata, outcomes : Outcomes, mails : SUBSET Mails]
         /\ mem'.meta = m /\ mem'.outcomes = os /\ mem'.mails = mails
         /\ pending' = files /\ pending' \in Seq(Artifacts) /\ pc' = "finishing"
BY DEF Finish

\* A phase that ends persists its status and still holds its outcomes.
LEMMA ConcludeType ==
  ASSUME TypeOK, NEW m \in Metadata, NEW os \in Outcomes, Conclude(m, os)
  PROVE  /\ mem' \in [meta : Metadata, outcomes : Outcomes, mails : SUBSET Mails]
         /\ meta' = m /\ mem'.meta = m /\ mem'.outcomes = os /\ mem'.mails = {}
         /\ pending' = <<"mail_outcomes">> /\ pending' \in Seq(Artifacts)
         /\ pc' = "finishing"
         /\ UNCHANGED <<outcomes, plan, printPlan, checklist>>
<1>1. Finish(m, os, {}, <<"mail_outcomes">>)
  BY DEF Conclude
<1> QED BY <1>1, FinishType, QueuesType DEF Conclude

\* A status replaced by one of its kind keeps the metadata well typed.
LEMMA MetadataType ==
  ASSUME NEW m \in Metadata
  PROVE  /\ \A s \in WriteStatuses : [m EXCEPT !.write = s] \in Metadata
         /\ \A s \in PrintStatuses : [m EXCEPT !.print = s] \in Metadata
         /\ \A s \in MoveStatuses : [m EXCEPT !.move = s] \in Metadata
BY DEF Metadata

\* The next artifact comes from the memory of the command: the metadata before
\* the print plan, and the memory is dropped with the last one.
LEMMA PersistEffect ==
  ASSUME TypeOK, PendingInv, Persist
  PROVE  /\ PendingInv'
         /\ pending' \in Seq(Artifacts)
         /\ pc = "finishing" /\ pc' \in {"idle", "finishing"}
         /\ pc' = "idle" => mem' = NoMemory /\ pending' = <<>>
         /\ pc' = "finishing" => mem' = mem
         /\ meta' \in {meta, mem.meta}
         /\ outcomes' \in {outcomes, mem.outcomes}
         /\ checklist' \in {checklist, mem.mails}
         /\ plan' # plan => pending \in ValidationQueues /\ plan' = mem.mails
         /\ printPlan' # printPlan =>
              /\ pending \in PlanQueues /\ Head(pending) # "run_metadata"
              /\ printPlan' = mem.mails /\ meta' = meta
         /\ pending' \in PlanQueues =>
              /\ pending \in PlanQueues /\ Head(pending') # "run_metadata"
              /\ meta' = IF Head(pending) = "run_metadata" THEN mem.meta ELSE meta
         /\ pending' \in ValidationQueues => pending \in ValidationQueues
<1>1. pc = "finishing"
  BY DEF Persist
<1>2. pending' = Tail(pending)
  BY DEF Persist
<1>3. /\ Len(pending) = 1 => pc' = "idle" /\ mem' = NoMemory
      /\ Len(pending) # 1 => pc' = "finishing" /\ mem' = mem
  BY <1>1 DEF Persist
<1>4. CASE pending \in PlanQueues
  BY <1>1, <1>2, <1>3, <1>4, PlanQueueStep, QueuesDisjoint, QueuesNotEmpty
     DEF Persist, PendingInv
<1>5. CASE pending \in ValidationQueues
  BY <1>1, <1>2, <1>3, <1>5, ValidationQueueStep, QueuesDisjoint, QueuesNotEmpty
     DEF Persist, PendingInv
<1>6. CASE pending \in OtherQueues
  BY <1>1, <1>2, <1>3, <1>6, OtherQueueStep, QueuesDisjoint, QueuesNotEmpty
     DEF Persist, PendingInv
<1> QED BY <1>1, <1>4, <1>5, <1>6 DEF PendingInv

-----------------------------------------------------------------------------
(* Every step keeps the invariant. *)

\* Every step keeps the types.
LEMMA NextTypeOK ==
  ASSUME TypeOK, PendingInv,
         [Next]_vars
  PROVE  TypeOK'
<1>1. ASSUME Persist
      PROVE  TypeOK'
  BY <1>1, PersistEffect, NoMemoryType DEF Persist, TypeOK, markers, world,
     Undisturbed, NoChecklist
<1>2. ASSUME NEW s \in {"not_started", "prevalidated", "hard_blocked_no_write"},
             ValidateOnly(s)
      PROVE  TypeOK'
  <2>1. [meta EXCEPT !.write = s] \in Metadata
    BY <1>2, MetadataType DEF TypeOK, WriteStatuses, PrintStatuses
  <2>2. (IF s = "hard_blocked_no_write" THEN BlockMoves(Validated) ELSE Validated) \in Outcomes
    BY <1>2, OutcomesType DEF TypeOK
  <2>3. Staged \in SUBSET Mails
    BY DEF Staged, PrintGroups, TypeOK
  <2>4. \E files \in Seq(Artifacts) :
          Finish([meta EXCEPT !.write = s],
                 (IF s = "hard_blocked_no_write" THEN BlockMoves(Validated) ELSE Validated),
                 Staged, files)
    BY <1>2, QueuesType DEF ValidateOnly
  <2>5. /\ kind' \in [Mails -> Kinds]
        /\ printed' \in SUBSET Mails /\ partial' \in SUBSET Mails
        /\ moveMarkers' \in SUBSET Mails
        /\ folder' \in [Mails -> {"working", "destination", "elsewhere"}]
        /\ saved' \in SUBSET Mails /\ disturbances' \in Nat
        /\ meta' \in Metadata
        /\ UNCHANGED <<outcomes, plan, printPlan, checklist>>
    BY <1>2, <2>1 DEF ValidateOnly, TypeOK, artifacts, markers, world, Disturb,
       Undisturbed
  <2> QED BY <2>1, <2>2, <2>3, <2>4, <2>5, FinishType DEF TypeOK
<1>3. ASSUME BeginWrites
      PROVE  TypeOK'
  BY <1>3, MetadataType DEF BeginWrites, TypeOK, WriteStatuses, Undisturbed, markers,
     world
<1>4. ASSUME SaveWorkbook
      PROVE  TypeOK'
  BY <1>4 DEF SaveWorkbook, TypeOK, Staged, Undisturbed, artifacts, markers
<1>5. ASSUME CommitWrites
      PROVE  TypeOK'
  <2>1. [meta EXCEPT !.write = "committed"] \in Metadata
    BY <1>5, MetadataType DEF TypeOK, WriteStatuses, PrintStatuses
  <2>2. Mark(Validated, Staged, "written", TRUE) \in Outcomes
    BY <1>5, OutcomesType DEF TypeOK, Staged
  <2>3. Staged \in SUBSET Mails
    BY DEF Staged, PrintGroups, TypeOK
  <2>4. \E files \in Seq(Artifacts) :
          Finish([meta EXCEPT !.write = "committed"],
                 Mark(Validated, Staged, "written", TRUE),
                 Staged, files)
    BY <1>5, QueuesType DEF CommitWrites
  <2>5. /\ kind' \in [Mails -> Kinds]
        /\ printed' \in SUBSET Mails /\ partial' \in SUBSET Mails
        /\ moveMarkers' \in SUBSET Mails
        /\ folder' \in [Mails -> {"working", "destination", "elsewhere"}]
        /\ saved' \in SUBSET Mails /\ disturbances' \in Nat
        /\ meta' \in Metadata
        /\ UNCHANGED <<outcomes, plan, printPlan, checklist>>
    BY <1>5, <2>1 DEF CommitWrites, TypeOK, artifacts, markers, world, Disturb,
       Undisturbed
  <2> QED BY <2>1, <2>2, <2>3, <2>4, <2>5, FinishType DEF TypeOK
<1>6. ASSUME NEW m \in Mails, PrintGroup(m)
      PROVE  TypeOK'
  BY OutcomesType, MoveOutcomesType, NoMemoryType, QueuesType, <1>6
     DEF PrintGroup, artifacts, world, Undisturbed, TypeOK, Metadata,
         WriteStatuses, PrintStatuses, MoveStatuses
<1>7. ASSUME NEW m \in Mails, MoveMail(m)
      PROVE  TypeOK'
  BY OutcomesType, MoveOutcomesType, NoMemoryType, QueuesType, <1>7
     DEF MoveMail, artifacts, markers, Undisturbed, TypeOK, Metadata,
         WriteStatuses, PrintStatuses, MoveStatuses
<1>8. ASSUME NEW m \in Mails, WriteMoveMarker(m)
      PROVE  TypeOK'
  BY OutcomesType, MoveOutcomesType, NoMemoryType, QueuesType, <1>8
     DEF WriteMoveMarker, artifacts, world, Undisturbed, TypeOK, Metadata,
         WriteStatuses, PrintStatuses, MoveStatuses
<1>9. ASSUME NEW m \in Mails, SourceMismatch(m)
      PROVE  TypeOK'
  <2>1. [meta EXCEPT !.move = "hard_blocked"] \in Metadata
    BY <1>9, MetadataType DEF TypeOK, PrintStatuses, MoveStatuses
  <2>2. BlockMoves(mem.outcomes) \in Outcomes
    BY <1>9, OutcomesType, MoveOutcomesType DEF TypeOK
  <2>3. Conclude([meta EXCEPT !.move = "hard_blocked"],
                 BlockMoves(mem.outcomes))
    BY <1>9 DEF SourceMismatch
  <2>4. /\ kind' \in [Mails -> Kinds]
        /\ printed' \in SUBSET Mails /\ partial' \in SUBSET Mails
        /\ moveMarkers' \in SUBSET Mails
        /\ folder' \in [Mails -> {"working", "destination", "elsewhere"}]
        /\ saved' \in SUBSET Mails /\ disturbances' \in Nat
    BY <1>9 DEF SourceMismatch, TypeOK, markers, world, Disturb,
       Undisturbed
  <2> QED BY <2>1, <2>2, <2>3, <2>4, ConcludeType DEF TypeOK
<1>10. ASSUME PrintCompletes
      PROVE  TypeOK'
  <2>1. [meta EXCEPT !.print = "completed"] \in Metadata
    BY <1>10, MetadataType DEF TypeOK, PrintStatuses, MoveStatuses
  <2>2. Mark(mem.outcomes, mem.mails, "printed", TRUE) \in Outcomes
    BY <1>10, OutcomesType, MoveOutcomesType DEF TypeOK
  <2>3. Conclude([meta EXCEPT !.print = "completed"],
                 Mark(mem.outcomes, mem.mails, "printed", TRUE))
    BY <1>10 DEF PrintCompletes
  <2>4. /\ kind' \in [Mails -> Kinds]
        /\ printed' \in SUBSET Mails /\ partial' \in SUBSET Mails
        /\ moveMarkers' \in SUBSET Mails
        /\ folder' \in [Mails -> {"working", "destination", "elsewhere"}]
        /\ saved' \in SUBSET Mails /\ disturbances' \in Nat
    BY <1>10 DEF PrintCompletes, TypeOK, markers, world, Disturb,
       Undisturbed
  <2> QED BY <2>1, <2>2, <2>3, <2>4, ConcludeType DEF TypeOK
<1>11. ASSUME MovesComplete
      PROVE  TypeOK'
  <2>1. [meta EXCEPT !.move = "completed"] \in Metadata
    BY <1>11, MetadataType DEF TypeOK, PrintStatuses, MoveStatuses
  <2>2. Mark(mem.outcomes, mem.mails, "moved", FALSE) \in Outcomes
    BY <1>11, OutcomesType, MoveOutcomesType DEF TypeOK
  <2>3. Conclude([meta EXCEPT !.move = "completed"],
                 Mark(mem.outcomes, mem.mails, "moved", FALSE))
    BY <1>11 DEF MovesComplete
  <2>4. /\ kind' \in [Mails -> Kinds]
        /\ printed' \in SUBSET Mails /\ partial' \in SUBSET Mails
        /\ moveMarkers' \in SUBSET Mails
        /\ folder' \in [Mails -> {"working", "destination", "elsewhere"}]
        /\ saved' \in SUBSET Mails /\ disturbances' \in Nat
    BY <1>11 DEF MovesComplete, TypeOK, markers, world, Disturb,
       Undisturbed
  <2> QED BY <2>1, <2>2, <2>3, <2>4, ConcludeType DEF TypeOK
<1>12. ASSUME WritesFail
      PROVE  TypeOK'
  <2>1. [meta EXCEPT !.write = "uncertain_not_committed"] \in Metadata
    BY <1>12, MetadataType DEF TypeOK, WriteStatuses, PrintStatuses
  <2>2. BlockMoves(Validated) \in Outcomes
    BY <1>12, OutcomesType DEF TypeOK
  <2>3. Staged \in SUBSET Mails
    BY DEF Staged, PrintGroups, TypeOK
  <2>4. \E files \in Seq(Artifacts) :
          Finish([meta EXCEPT !.write = "uncertain_not_committed"],
                 BlockMoves(Validated),
                 Staged, files)
    BY <1>12, QueuesType DEF WritesFail
  <2>5. /\ kind' \in [Mails -> Kinds]
        /\ printed' \in SUBSET Mails /\ partial' \in SUBSET Mails
        /\ moveMarkers' \in SUBSET Mails
        /\ folder' \in [Mails -> {"working", "destination", "elsewhere"}]
        /\ saved' \in SUBSET Mails /\ disturbances' \in Nat
        /\ meta' \in Metadata
        /\ UNCHANGED <<outcomes, plan, printPlan, checklist>>
    BY <1>12, <2>1 DEF WritesFail, TypeOK, artifacts, markers, world, Disturb,
       Undisturbed
  <2> QED BY <2>1, <2>2, <2>3, <2>4, <2>5, FinishType DEF TypeOK
<1>13. ASSUME PlanPrint
      PROVE  TypeOK'
  <2>1. [meta EXCEPT !.print = "planned"] \in Metadata
    BY <1>13, MetadataType DEF TypeOK, WriteStatuses, PrintStatuses
  <2>2. outcomes \in Outcomes
    BY <1>13, OutcomesType DEF TypeOK
  <2>3. PrintGroups \in SUBSET Mails
    BY DEF Staged, PrintGroups, TypeOK
  <2>4. \E files \in Seq(Artifacts) :
          Finish([meta EXCEPT !.print = "planned"],
                 outcomes,
                 PrintGroups, files)
    BY <1>13, QueuesType DEF PlanPrint
  <2>5. /\ kind' \in [Mails -> Kinds]
        /\ printed' \in SUBSET Mails /\ partial' \in SUBSET Mails
        /\ moveMarkers' \in SUBSET Mails
        /\ folder' \in [Mails -> {"working", "destination", "elsewhere"}]
        /\ saved' \in SUBSET Mails /\ disturbances' \in Nat
        /\ meta' \in Metadata
        /\ UNCHANGED <<outcomes, plan, printPlan, checklist>>
    BY <1>13, <2>1 DEF PlanPrint, TypeOK, artifacts, markers, world, Disturb,
       Undisturbed
  <2> QED BY <2>1, <2>2, <2>3, <2>4, <2>5, FinishType DEF TypeOK
<1>14. ASSUME GenerateChecklist
      PROVE  TypeOK'
  <2>1. [meta EXCEPT !.print = IF @ = "hard_blocked" THEN "planned" ELSE @] \in Metadata
    BY <1>14, MetadataType DEF TypeOK, Metadata, PrintStatuses
  <2>2. outcomes \in Outcomes
    BY <1>14, OutcomesType DEF TypeOK
  <2>3. (IF meta.print = "not_started" THEN {} ELSE printPlan) \in SUBSET Mails
    BY DEF Staged, PrintGroups, TypeOK
  <2>4. \E files \in Seq(Artifacts) :
          Finish([meta EXCEPT !.print = IF @ = "hard_blocked" THEN "planned" ELSE @],
                 outcomes,
                 (IF meta.print = "not_started" THEN {} ELSE printPlan), files)
    BY <1>14, QueuesType DEF GenerateChecklist
  <2>5. /\ kind' \in [Mails -> Kinds]
        /\ printed' \in SUBSET Mails /\ partial' \in SUBSET Mails
        /\ moveMarkers' \in SUBSET Mails
        /\ folder' \in [Mails -> {"working", "destination", "elsewhere"}]
        /\ saved' \in SUBSET Mails /\ disturbances' \in Nat
        /\ meta' \in Metadata
        /\ UNCHANGED <<outcomes, plan, printPlan, checklist>>
    BY <1>14, <2>1 DEF GenerateChecklist, TypeOK, artifacts, markers, world, Disturb,
       Undisturbed
  <2> QED BY <2>1, <2>2, <2>3, <2>4, <2>5, FinishType DEF TypeOK
<1>15. ASSUME GenerateChecklistFails
      PROVE  TypeOK'
  <2>1. [meta EXCEPT !.print = "hard_blocked"] \in Metadata
    BY MetadataType DEF TypeOK, PrintStatuses
  <2> QED BY <1>15, <2>1 DEF GenerateChecklistFails, TypeOK, Disturb, markers, world
<1>16. ASSUME ExecutePrint
      PROVE  TypeOK'
  BY OutcomesType, MoveOutcomesType, NoMemoryType, QueuesType, <1>16
     DEF ExecutePrint, PrintExecutable, markers, world, Undisturbed, TypeOK,
         Metadata, WriteStatuses, PrintStatuses, MoveStatuses
<1>17. ASSUME ChecklistInvalid
      PROVE  TypeOK'
  <2>1. [meta EXCEPT !.print = "hard_blocked"] \in Metadata
    BY <1>17, MetadataType DEF TypeOK, PrintStatuses, MoveStatuses
  <2>2. BlockMoves(outcomes) \in Outcomes
    BY <1>17, OutcomesType, MoveOutcomesType DEF TypeOK
  <2>3. Conclude([meta EXCEPT !.print = "hard_blocked"],
                 BlockMoves(outcomes))
    BY <1>17 DEF ChecklistInvalid
  <2>4. /\ kind' \in [Mails -> Kinds]
        /\ printed' \in SUBSET Mails /\ partial' \in SUBSET Mails
        /\ moveMarkers' \in SUBSET Mails
        /\ folder' \in [Mails -> {"working", "destination", "elsewhere"}]
        /\ saved' \in SUBSET Mails /\ disturbances' \in Nat
    BY <1>17 DEF ChecklistInvalid, TypeOK, markers, world, Disturb,
       Undisturbed
  <2> QED BY <2>1, <2>2, <2>3, <2>4, ConcludeType DEF TypeOK
<1>18. ASSUME NEW m \in Mails, NEW s \in {"hard_blocked", "uncertain_incomplete"},
             PrintGroupFails(m, s)
      PROVE  TypeOK'
  <2>1. [meta EXCEPT !.print = s] \in Metadata
    BY <1>18, MetadataType DEF TypeOK, PrintStatuses, MoveStatuses
  <2>2. BlockMoves(mem.outcomes) \in Outcomes
    BY <1>18, OutcomesType, MoveOutcomesType DEF TypeOK
  <2>3. Conclude([meta EXCEPT !.print = s],
                 BlockMoves(mem.outcomes))
    BY <1>18 DEF PrintGroupFails
  <2>4. /\ kind' \in [Mails -> Kinds]
        /\ printed' \in SUBSET Mails /\ partial' \in SUBSET Mails
        /\ moveMarkers' \in SUBSET Mails
        /\ folder' \in [Mails -> {"working", "destination", "elsewhere"}]
        /\ saved' \in SUBSET Mails /\ disturbances' \in Nat
    BY <1>18 DEF PrintGroupFails, TypeOK, markers, world, Disturb,
       Undisturbed
  <2> QED BY <2>1, <2>2, <2>3, <2>4, ConcludeType DEF TypeOK
<1>19. ASSUME NEW m \in Mails, AcknowledgePartialPrint(m)
      PROVE  TypeOK'
  BY OutcomesType, MoveOutcomesType, NoMemoryType, QueuesType, <1>19
     DEF AcknowledgePartialPrint, artifacts, world, Undisturbed, TypeOK,
         Metadata, WriteStatuses, PrintStatuses, MoveStatuses
<1>20. ASSUME NEW m \in Mails, UserMovesMail(m)
      PROVE  TypeOK'
  BY OutcomesType, MoveOutcomesType, NoMemoryType, QueuesType, <1>20
     DEF UserMovesMail, artifacts, markers, Disturb, TypeOK, Metadata,
         WriteStatuses, PrintStatuses, MoveStatuses
<1>21. ASSUME ExecuteMailMoves
      PROVE  TypeOK'
  <2>1. [meta EXCEPT !.move = "moving"] \in Metadata
    BY MetadataType DEF TypeOK, MoveStatuses
  <2>2. Movable \in SUBSET Mails
    BY DEF Movable
  <2> QED BY <1>21, <2>1, <2>2, MoveOutcomesType
          DEF ExecuteMailMoves, TypeOK, Undisturbed, markers, world
<1>22. ASSUME MoveGateUnsatisfied
      PROVE  TypeOK'
  <2>1. [meta EXCEPT !.move = "hard_blocked"] \in Metadata
    BY <1>22, MetadataType DEF TypeOK, PrintStatuses, MoveStatuses
  <2>2. BlockMoves(MoveOutcomes) \in Outcomes
    BY <1>22, OutcomesType, MoveOutcomesType DEF TypeOK
  <2>3. Conclude([meta EXCEPT !.move = "hard_blocked"],
                 BlockMoves(MoveOutcomes))
    BY <1>22 DEF MoveGateUnsatisfied
  <2>4. /\ kind' \in [Mails -> Kinds]
        /\ printed' \in SUBSET Mails /\ partial' \in SUBSET Mails
        /\ moveMarkers' \in SUBSET Mails
        /\ folder' \in [Mails -> {"working", "destination", "elsewhere"}]
        /\ saved' \in SUBSET Mails /\ disturbances' \in Nat
    BY <1>22 DEF MoveGateUnsatisfied, TypeOK, markers, world, Disturb,
       Undisturbed
  <2> QED BY <2>1, <2>2, <2>3, <2>4, ConcludeType DEF TypeOK
<1>23. ASSUME MoveFails
      PROVE  TypeOK'
  <2>1. [meta EXCEPT !.move = "uncertain_incomplete"] \in Metadata
    BY <1>23, MetadataType DEF TypeOK, PrintStatuses, MoveStatuses
  <2>2. BlockMoves(mem.outcomes) \in Outcomes
    BY <1>23, OutcomesType, MoveOutcomesType DEF TypeOK
  <2>3. Conclude([meta EXCEPT !.move = "uncertain_incomplete"],
                 BlockMoves(mem.outcomes))
    BY <1>23 DEF MoveFails
  <2>4. /\ kind' \in [Mails -> Kinds]
        /\ printed' \in SUBSET Mails /\ partial' \in SUBSET Mails
        /\ moveMarkers' \in SUBSET Mails
        /\ folder' \in [Mails -> {"working", "destination", "elsewhere"}]
        /\ saved' \in SUBSET Mails /\ disturbances' \in Nat
    BY <1>23 DEF MoveFails, TypeOK, markers, world, Disturb,
       Undisturbed
  <2> QED BY <2>1, <2>2, <2>3, <2>4, ConcludeType DEF TypeOK
<1>24. ASSUME Crash
      PROVE  TypeOK'
  BY OutcomesType, MoveOutcomesType, NoMemoryType, QueuesType, <1>24
     DEF Crash, artifacts, markers, world, Disturb, TypeOK, Metadata,
         WriteStatuses, PrintStatuses, MoveStatuses
<1>25. ASSUME UNCHANGED vars
      PROVE  TypeOK'
  BY OutcomesType, MoveOutcomesType, NoMemoryType, QueuesType, <1>25
     DEF vars, artifacts, markers, world, TypeOK, Metadata, WriteStatuses,
         PrintStatuses, MoveStatuses
<1> QED BY <1>1, <1>2, <1>3, <1>4, <1>5, <1>6, <1>7, <1>8, <1>9, <1>10,
          <1>11, <1>12, <1>13, <1>14, <1>15, <1>16, <1>17, <1>18, <1>19,
          <1>20, <1>21, <1>22, <1>23, <1>24, <1>25
     DEF Next, Proceed

\* Only a finishing command has artifacts to persist.
LEMMA NextPendingInv ==
  ASSUME TypeOK, PendingInv,
         [Next]_vars
  PROVE  PendingInv'
<1>1. ASSUME Persist
      PROVE  PendingInv'
  BY <1>1, PersistEffect
<1>2. ASSUME NEW s \in {"not_started", "prevalidated", "hard_blocked_no_write"},
             ValidateOnly(s)
      PROVE  PendingInv'
  BY QueuesType, <1>2
     DEF ValidateOnly, Finish, artifacts, markers, world, PendingInv
<1>3. ASSUME BeginWrites
      PROVE  PendingInv'
  BY QueuesType, <1>3
     DEF BeginWrites, markers, world, PendingInv
<1>4. ASSUME SaveWorkbook
      PROVE  PendingInv'
  BY QueuesType, <1>4
     DEF SaveWorkbook, artifacts, markers, PendingInv
<1>5. ASSUME CommitWrites
      PROVE  PendingInv'
  BY QueuesType, <1>5
     DEF CommitWrites, Finish, markers, world, PendingInv
<1>6. ASSUME NEW m \in Mails, PrintGroup(m)
      PROVE  PendingInv'
  BY QueuesType, <1>6
     DEF PrintGroup, artifacts, world, PendingInv
<1>7. ASSUME NEW m \in Mails, MoveMail(m)
      PROVE  PendingInv'
  BY QueuesType, <1>7
     DEF MoveMail, artifacts, markers, PendingInv
<1>8. ASSUME NEW m \in Mails, WriteMoveMarker(m)
      PROVE  PendingInv'
  BY QueuesType, <1>8
     DEF WriteMoveMarker, artifacts, world, PendingInv
<1>9. ASSUME NEW m \in Mails, SourceMismatch(m)
      PROVE  PendingInv'
  BY QueuesType, <1>9
     DEF SourceMismatch, Conclude, Finish, markers, world, PendingInv
<1>10. ASSUME PrintCompletes
      PROVE  PendingInv'
  BY QueuesType, <1>10
     DEF PrintCompletes, Conclude, Finish, markers, world, PendingInv
<1>11. ASSUME MovesComplete
      PROVE  PendingInv'
  BY QueuesType, <1>11
     DEF MovesComplete, Conclude, Finish, markers, world, PendingInv
<1>12. ASSUME WritesFail
      PROVE  PendingInv'
  BY QueuesType, <1>12
     DEF WritesFail, Finish, markers, world, PendingInv
<1>13. ASSUME PlanPrint
      PROVE  PendingInv'
  BY QueuesType, <1>13
     DEF PlanPrint, Finish, artifacts, markers, world, PendingInv
<1>14. ASSUME GenerateChecklist
      PROVE  PendingInv'
  BY QueuesType, <1>14
     DEF GenerateChecklist, Finish, artifacts, markers, world, PendingInv
<1>15. ASSUME GenerateChecklistFails
      PROVE  PendingInv'
  BY QueuesType, <1>15
     DEF GenerateChecklistFails, markers, world, PendingInv
<1>16. ASSUME ExecutePrint
      PROVE  PendingInv'
  BY QueuesType, <1>16
     DEF ExecutePrint, PrintExecutable, markers, world, PendingInv
<1>17. ASSUME ChecklistInvalid
      PROVE  PendingInv'
  BY QueuesType, <1>17
     DEF ChecklistInvalid, PrintExecutable, Conclude, Finish, markers,
         world, PendingInv
<1>18. ASSUME NEW m \in Mails, NEW s \in {"hard_blocked", "uncertain_incomplete"},
             PrintGroupFails(m, s)
      PROVE  PendingInv'
  BY QueuesType, <1>18
     DEF PrintGroupFails, Conclude, Finish, world, PendingInv
<1>19. ASSUME NEW m \in Mails, AcknowledgePartialPrint(m)
      PROVE  PendingInv'
  BY QueuesType, <1>19
     DEF AcknowledgePartialPrint, artifacts, world, PendingInv
<1>20. ASSUME NEW m \in Mails, UserMovesMail(m)
      PROVE  PendingInv'
  BY QueuesType, <1>20
     DEF UserMovesMail, artifacts, markers, PendingInv
<1>21. ASSUME ExecuteMailMoves
      PROVE  PendingInv'
  BY QueuesType, <1>21
     DEF ExecuteMailMoves, MovesExecutable, markers, world, PendingInv
<1>22. ASSUME MoveGateUnsatisfied
      PROVE  PendingInv'
  BY QueuesType, <1>22
     DEF MoveGateUnsatisfied, Conclude, Finish, MovesExecutable, markers,
         world, PendingInv
<1>23. ASSUME MoveFails
      PROVE  PendingInv'
  BY QueuesType, <1>23
     DEF MoveFails, Conclude, Finish, markers, world, PendingInv
<1>24. ASSUME Crash
      PROVE  PendingInv'
  BY QueuesType, <1>24
     DEF Crash, artifacts, markers, world, PendingInv
<1>25. ASSUME UNCHANGED vars
      PROVE  PendingInv'
  BY QueuesType, <1>25
     DEF vars, artifacts, markers, world, PendingInv
<1> QED BY <1>1, <1>2, <1>3, <1>4, <1>5, <1>6, <1>7, <1>8, <1>9, <1>10,
          <1>11, <1>12, <1>13, <1>14, <1>15, <1>16, <1>17, <1>18, <1>19,
          <1>20, <1>21, <1>22, <1>23, <1>24, <1>25
     DEF Next, Proceed

\* Every step keeps what a committed status says of the workbook.
LEMMA NextCommitInv ==
  ASSUME TypeOK, PendingInv, CommitInv,
         [Next]_vars
  PROVE  CommitInv'
<1>1. ASSUME Persist
      PROVE  CommitInv'
  <2>1. UNCHANGED <<kind, saved>>
    BY <1>1 DEF Persist, world
  <2> QED BY <1>1, <2>1, PersistEffect DEF CommitInv, NoMemory, NotStarted, Staged
<1>2. ASSUME NEW s \in {"not_started", "prevalidated", "hard_blocked_no_write"},
             ValidateOnly(s)
      PROVE  CommitInv'
  BY <1>2
     DEF ValidateOnly, Finish, ValidationFiles, artifacts, markers, world,
         CommitInv, TypeOK, Metadata, NoMemory, NotStarted, Staged
<1>3. ASSUME BeginWrites
      PROVE  CommitInv'
  BY <1>3
     DEF BeginWrites, markers, world, CommitInv, TypeOK, Metadata, NoMemory,
         NotStarted, Staged
<1>4. ASSUME SaveWorkbook
      PROVE  CommitInv'
  BY <1>4
     DEF SaveWorkbook, artifacts, markers, CommitInv, TypeOK, Metadata,
         NoMemory, NotStarted, Staged
<1>5. ASSUME CommitWrites
      PROVE  CommitInv'
  BY <1>5
     DEF CommitWrites, Finish, ValidationFiles, markers, world, CommitInv,
         TypeOK, Metadata, NoMemory, NotStarted, Staged
<1>6. ASSUME NEW m \in Mails, PrintGroup(m)
      PROVE  CommitInv'
  BY <1>6
     DEF PrintGroup, artifacts, world, CommitInv, TypeOK, Metadata,
         NoMemory, NotStarted, Staged
<1>7. ASSUME NEW m \in Mails, MoveMail(m)
      PROVE  CommitInv'
  BY <1>7
     DEF MoveMail, artifacts, markers, CommitInv, TypeOK, Metadata,
         NoMemory, NotStarted, Staged
<1>8. ASSUME NEW m \in Mails, WriteMoveMarker(m)
      PROVE  CommitInv'
  BY <1>8
     DEF WriteMoveMarker, artifacts, world, CommitInv, TypeOK, Metadata,
         NoMemory, NotStarted, Staged
<1>9. ASSUME NEW m \in Mails, SourceMismatch(m)
      PROVE  CommitInv'
  BY <1>9
     DEF SourceMismatch, Conclude, Finish, markers, world, CommitInv,
         TypeOK, Metadata, NoMemory, NotStarted, Staged
<1>10. ASSUME PrintCompletes
      PROVE  CommitInv'
  BY <1>10
     DEF PrintCompletes, Conclude, Finish, markers, world, CommitInv,
         TypeOK, Metadata, NoMemory, NotStarted, Staged
<1>11. ASSUME MovesComplete
      PROVE  CommitInv'
  BY <1>11
     DEF MovesComplete, Conclude, Finish, markers, world, CommitInv, TypeOK,
         Metadata, NoMemory, NotStarted, Staged
<1>12. ASSUME WritesFail
      PROVE  CommitInv'
  BY <1>12
     DEF WritesFail, Finish, ValidationFiles, markers, world, CommitInv,
         TypeOK, Metadata, NoMemory, NotStarted, Staged
<1>13. ASSUME PlanPrint
      PROVE  CommitInv'
  BY <1>13
     DEF PlanPrint, Finish, artifacts, markers, world, CommitInv, TypeOK,
         Metadata, NoMemory, NotStarted, Staged
<1>14. ASSUME GenerateChecklist
      PROVE  CommitInv'
  BY <1>14
     DEF GenerateChecklist, Finish, artifacts, markers, world, CommitInv,
         TypeOK, Metadata, NoMemory, NotStarted, Staged
<1>15. ASSUME GenerateChecklistFails
      PROVE  CommitInv'
  BY <1>15
     DEF GenerateChecklistFails, markers, world, CommitInv, TypeOK,
         Metadata, NoMemory, NotStarted, Staged
<1>16. ASSUME ExecutePrint
      PROVE  CommitInv'
  BY <1>16
     DEF ExecutePrint, PrintExecutable, markers, world, CommitInv, TypeOK,
         Metadata, NoMemory, NotStarted, Staged
<1>17. ASSUME ChecklistInvalid
      PROVE  CommitInv'
  BY <1>17
     DEF ChecklistInvalid, PrintExecutable, Conclude, Finish, markers,
         world, CommitInv, TypeOK, Metadata, NoMemory, NotStarted, Staged
<1>18. ASSUME NEW m \in Mails, NEW s \in {"hard_blocked", "uncertain_incomplete"},
             PrintGroupFails(m, s)
      PROVE  CommitInv'
  BY <1>18
     DEF PrintGroupFails, Conclude, Finish, world, CommitInv, TypeOK,
         Metadata, NoMemory, NotStarted, Staged
<1>19. ASSUME NEW m \in Mails, AcknowledgePartialPrint(m)
      PROVE  CommitInv'
  BY <1>19
     DEF AcknowledgePartialPrint, artifacts, world, CommitInv, TypeOK,
         Metadata, NoMemory, NotStarted, Staged
<1>20. ASSUME NEW m \in Mails, UserMovesMail(m)
      PROVE  CommitInv'
  BY <1>20
     DEF UserMovesMail, artifacts, markers, CommitInv, TypeOK, Metadata,
         NoMemory, NotStarted, Staged
<1>21. ASSUME ExecuteMailMoves
      PROVE  CommitInv'
  BY <1>21
     DEF ExecuteMailMoves, MovesExecutable, markers, world, CommitInv,
         TypeOK, Metadata, NoMemory, NotStarted, Staged
<1>22. ASSUME MoveGateUnsatisfied
      PROVE  CommitInv'
  BY <1>22
     DEF MoveGateUnsatisfied, Conclude, Finish, MovesExecutable, markers,
         world, CommitInv, TypeOK, Metadata, NoMemory, NotStarted, Staged
<1>23. ASSUME MoveFails
      PROVE  CommitInv'
  BY <1>23
     DEF MoveFails, Conclude, Finish, markers, world, CommitInv, TypeOK,
         Metadata, NoMemory, NotStarted, Staged
<1>24. ASSUME Crash
      PROVE  CommitInv'
  BY <1>24
     DEF Crash, artifacts, markers, world, CommitInv, TypeOK, Metadata,
         NoMemory, NotStarted, Staged
<1>25. ASSUME UNCHANGED vars
      PROVE  CommitInv'
  BY <1>25
     DEF vars, artifacts, markers, world, CommitInv, TypeOK, Metadata,
         NoMemory, NotStarted, Staged
<1> QED BY <1>1, <1>2, <1>3, <1>4, <1>5, <1>6, <1>7, <1>8, <1>9, <1>10,
          <1>11, <1>12, <1>13, <1>14, <1>15, <1>16, <1>17, <1>18, <1>19,
          <1>20, <1>21, <1>22, <1>23, <1>24, <1>25
     DEF Next, Proceed

\* Every step keeps the plans within the mails they are made for.
LEMMA NextPlansInv ==
  ASSUME TypeOK, PendingInv, CommitInv, PlansInv,
         [Next]_vars
  PROVE  PlansInv'
<1>1. ASSUME Persist
      PROVE  PlansInv'
  <2>1. UNCHANGED <<kind, saved>>
    BY <1>1 DEF Persist, world
  <2> QED BY <1>1, <2>1, PersistEffect, QueuesNotEmpty DEF PlansInv, Staged
<1>2. ASSUME NEW s \in {"not_started", "prevalidated", "hard_blocked_no_write"},
             ValidateOnly(s)
      PROVE  PlansInv'
  BY QueuesType, QueuesDisjoint, QueuesNotEmpty, <1>2
     DEF ValidateOnly, Finish, artifacts, markers, world, PlansInv,
         PendingInv, CommitInv, Staged
<1>3. ASSUME BeginWrites
      PROVE  PlansInv'
  BY QueuesType, QueuesDisjoint, QueuesNotEmpty, <1>3
     DEF BeginWrites, markers, world, PlansInv, PendingInv, CommitInv,
         Staged
<1>4. ASSUME SaveWorkbook
      PROVE  PlansInv'
  BY QueuesType, QueuesDisjoint, QueuesNotEmpty, <1>4
     DEF SaveWorkbook, artifacts, markers, PlansInv, PendingInv, CommitInv,
         Staged
<1>5. ASSUME CommitWrites
      PROVE  PlansInv'
  BY QueuesType, QueuesDisjoint, QueuesNotEmpty, <1>5
     DEF CommitWrites, Finish, markers, world, PlansInv, PendingInv,
         CommitInv, Staged
<1>6. ASSUME NEW m \in Mails, PrintGroup(m)
      PROVE  PlansInv'
  BY QueuesType, QueuesDisjoint, QueuesNotEmpty, <1>6
     DEF PrintGroup, artifacts, world, PlansInv, PendingInv, CommitInv,
         Staged
<1>7. ASSUME NEW m \in Mails, MoveMail(m)
      PROVE  PlansInv'
  BY QueuesType, QueuesDisjoint, QueuesNotEmpty, <1>7
     DEF MoveMail, artifacts, markers, PlansInv, PendingInv, CommitInv,
         Staged
<1>8. ASSUME NEW m \in Mails, WriteMoveMarker(m)
      PROVE  PlansInv'
  BY QueuesType, QueuesDisjoint, QueuesNotEmpty, <1>8
     DEF WriteMoveMarker, artifacts, world, PlansInv, PendingInv, CommitInv,
         Staged
<1>9. ASSUME NEW m \in Mails, SourceMismatch(m)
      PROVE  PlansInv'
  BY QueuesType, QueuesDisjoint, QueuesNotEmpty, <1>9
     DEF SourceMismatch, Conclude, Finish, markers, world, PlansInv,
         PendingInv, CommitInv, Staged
<1>10. ASSUME PrintCompletes
      PROVE  PlansInv'
  BY QueuesType, QueuesDisjoint, QueuesNotEmpty, <1>10
     DEF PrintCompletes, Conclude, Finish, markers, world, PlansInv,
         PendingInv, CommitInv, Staged
<1>11. ASSUME MovesComplete
      PROVE  PlansInv'
  BY QueuesType, QueuesDisjoint, QueuesNotEmpty, <1>11
     DEF MovesComplete, Conclude, Finish, markers, world, PlansInv,
         PendingInv, CommitInv, Staged
<1>12. ASSUME WritesFail
      PROVE  PlansInv'
  BY QueuesType, QueuesDisjoint, QueuesNotEmpty, <1>12
     DEF WritesFail, Finish, markers, world, PlansInv, PendingInv,
         CommitInv, Staged
<1>13. ASSUME PlanPrint
      PROVE  PlansInv'
  BY QueuesType, QueuesDisjoint, QueuesNotEmpty, <1>13
     DEF PlanPrint, Finish, PrintGroups, artifacts, markers, world,
         PlansInv, PendingInv, CommitInv, Staged
<1>14. ASSUME GenerateChecklist
      PROVE  PlansInv'
  BY QueuesType, QueuesDisjoint, QueuesNotEmpty, <1>14
     DEF GenerateChecklist, Finish, artifacts, markers, world, PlansInv,
         PendingInv, CommitInv, Staged
<1>15. ASSUME GenerateChecklistFails
      PROVE  PlansInv'
  BY QueuesType, QueuesDisjoint, QueuesNotEmpty, <1>15
     DEF GenerateChecklistFails, markers, world, PlansInv, PendingInv,
         CommitInv, Staged
<1>16. ASSUME ExecutePrint
      PROVE  PlansInv'
  BY QueuesType, QueuesDisjoint, QueuesNotEmpty, <1>16
     DEF ExecutePrint, PrintExecutable, markers, world, PlansInv,
         PendingInv, CommitInv, Staged
<1>17. ASSUME ChecklistInvalid
      PROVE  PlansInv'
  BY QueuesType, QueuesDisjoint, QueuesNotEmpty, <1>17
     DEF ChecklistInvalid, PrintExecutable, Conclude, Finish, markers,
         world, PlansInv, PendingInv, CommitInv, Staged
<1>18. ASSUME NEW m \in Mails, NEW s \in {"hard_blocked", "uncertain_incomplete"},
             PrintGroupFails(m, s)
      PROVE  PlansInv'
  BY QueuesType, QueuesDisjoint, QueuesNotEmpty, <1>18
     DEF PrintGroupFails, Conclude, Finish, world, PlansInv, PendingInv,
         CommitInv, Staged
<1>19. ASSUME NEW m \in Mails, AcknowledgePartialPrint(m)
      PROVE  PlansInv'
  BY QueuesType, QueuesDisjoint, QueuesNotEmpty, <1>19
     DEF AcknowledgePartialPrint, artifacts, world, PlansInv, PendingInv,
         CommitInv, Staged
<1>20. ASSUME NEW m \in Mails, UserMovesMail(m)
      PROVE  PlansInv'
  BY QueuesType, QueuesDisjoint, QueuesNotEmpty, <1>20
     DEF UserMovesMail, artifacts, markers, PlansInv, PendingInv, CommitInv,
         Staged
<1>21. ASSUME ExecuteMailMoves
      PROVE  PlansInv'
  BY QueuesType, QueuesDisjoint, QueuesNotEmpty, <1>21
     DEF ExecuteMailMoves, MovesExecutable, markers, world, PlansInv,
         PendingInv, CommitInv, Staged
<1>22. ASSUME MoveGateUnsatisfied
      PROVE  PlansInv'
  BY QueuesType, QueuesDisjoint, QueuesNotEmpty, <1>22
     DEF MoveGateUnsatisfied, Conclude, Finish, MovesExecutable, markers,
         world, PlansInv, PendingInv, CommitInv, Staged
<1>23. ASSUME MoveFails
      PROVE  PlansInv'
  BY QueuesType, QueuesDisjoint, QueuesNotEmpty, <1>23
     DEF MoveFails, Conclude, Finish, markers, world, PlansInv, PendingInv,
         CommitInv, Staged
<1>24. ASSUME Crash
      PROVE  PlansInv'
  BY QueuesType, QueuesDisjoint, QueuesNotEmpty, <1>24
     DEF Crash, artifacts, markers, world, PlansInv, PendingInv, CommitInv,
         Staged
<1>25. ASSUME UNCHANGED vars
      PROVE  PlansInv'
  BY QueuesType, QueuesDisjoint, QueuesNotEmpty, <1>25
     DEF vars, artifacts, markers, world, PlansInv, PendingInv, CommitInv,
         Staged
<1> QED BY <1>1, <1>2, <1>3, <1>4, <1>5, <1>6, <1>7, <1>8, <1>9, <1>10,
          <1>11, <1>12, <1>13, <1>14, <1>15, <1>16, <1>17, <1>18, <1>19,
          <1>20, <1>21, <1>22, <1>23, <1>24, <1>25
     DEF Next, Proceed

\* Every step keeps a completed print phase printed.
LEMMA NextPrintInv ==
  ASSUME TypeOK, PendingInv, PlansInv, PrintInv,
         [Next]_vars
  PROVE  PrintInv'
<1>1. ASSUME Persist
      PROVE  PrintInv'
  <2>1. UNCHANGED printed
    BY <1>1 DEF Persist, markers
  <2> QED BY <1>1, <2>1, PersistEffect, QueuesNotEmpty
          DEF PrintInv, NoMemory, NotStarted
<1>2. ASSUME NEW s \in {"not_started", "prevalidated", "hard_blocked_no_write"},
             ValidateOnly(s)
      PROVE  PrintInv'
  BY QueuesType, QueuesDisjoint, QueuesNotEmpty, <1>2
     DEF ValidateOnly, Finish, artifacts, markers, world, PrintInv,
         PendingInv, TypeOK, NoMemory, NotStarted, Metadata
<1>3. ASSUME BeginWrites
      PROVE  PrintInv'
  BY QueuesType, QueuesDisjoint, QueuesNotEmpty, <1>3
     DEF BeginWrites, markers, world, PrintInv, PendingInv, TypeOK,
         NoMemory, NotStarted, Metadata
<1>4. ASSUME SaveWorkbook
      PROVE  PrintInv'
  BY QueuesType, QueuesDisjoint, QueuesNotEmpty, <1>4
     DEF SaveWorkbook, artifacts, markers, PrintInv, PendingInv, TypeOK,
         NoMemory, NotStarted, Metadata
<1>5. ASSUME CommitWrites
      PROVE  PrintInv'
  BY QueuesType, QueuesDisjoint, QueuesNotEmpty, <1>5
     DEF CommitWrites, Finish, markers, world, PrintInv, PendingInv, TypeOK,
         NoMemory, NotStarted, Metadata
<1>6. ASSUME NEW m \in Mails, PrintGroup(m)
      PROVE  PrintInv'
  BY QueuesType, QueuesDisjoint, QueuesNotEmpty, <1>6
     DEF PrintGroup, artifacts, world, PrintInv, PendingInv, TypeOK,
         NoMemory, NotStarted, Metadata
<1>7. ASSUME NEW m \in Mails, MoveMail(m)
      PROVE  PrintInv'
  BY QueuesType, QueuesDisjoint, QueuesNotEmpty, <1>7
     DEF MoveMail, artifacts, markers, PrintInv, PendingInv, TypeOK,
         NoMemory, NotStarted, Metadata
<1>8. ASSUME NEW m \in Mails, WriteMoveMarker(m)
      PROVE  PrintInv'
  BY QueuesType, QueuesDisjoint, QueuesNotEmpty, <1>8
     DEF WriteMoveMarker, artifacts, world, PrintInv, PendingInv, TypeOK,
         NoMemory, NotStarted, Metadata
<1>9. ASSUME NEW m \in Mails, SourceMismatch(m)
      PROVE  PrintInv'
  BY QueuesType, QueuesDisjoint, QueuesNotEmpty, <1>9
     DEF SourceMismatch, Conclude, Finish, markers, world, PrintInv,
         PendingInv, TypeOK, NoMemory, NotStarted, Metadata
<1>10. ASSUME PrintCompletes
      PROVE  PrintInv'
  BY QueuesType, QueuesDisjoint, QueuesNotEmpty, <1>10
     DEF PrintCompletes, Conclude, Finish, markers, world, PrintInv,
         PendingInv, TypeOK, NoMemory, NotStarted, Metadata
<1>11. ASSUME MovesComplete
      PROVE  PrintInv'
  BY QueuesType, QueuesDisjoint, QueuesNotEmpty, <1>11
     DEF MovesComplete, Conclude, Finish, markers, world, PrintInv,
         PendingInv, TypeOK, NoMemory, NotStarted, Metadata
<1>12. ASSUME WritesFail
      PROVE  PrintInv'
  BY QueuesType, QueuesDisjoint, QueuesNotEmpty, <1>12
     DEF WritesFail, Finish, markers, world, PrintInv, PendingInv, TypeOK,
         NoMemory, NotStarted, Metadata
<1>13. ASSUME PlanPrint
      PROVE  PrintInv'
  BY QueuesType, QueuesDisjoint, QueuesNotEmpty, <1>13
     DEF PlanPrint, Finish, PrintGroups, artifacts, markers, world,
         PrintInv, PendingInv, TypeOK, NoMemory, NotStarted, Metadata
<1>14. ASSUME GenerateChecklist
      PROVE  PrintInv'
  BY QueuesType, QueuesDisjoint, QueuesNotEmpty, <1>14
     DEF GenerateChecklist, Finish, artifacts, markers, world, PrintInv,
         PendingInv, TypeOK, NoMemory, NotStarted, Metadata
<1>15. ASSUME GenerateChecklistFails
      PROVE  PrintInv'
  BY QueuesType, QueuesDisjoint, QueuesNotEmpty, <1>15
     DEF GenerateChecklistFails, markers, world, PrintInv, PendingInv,
         TypeOK, NoMemory, NotStarted, Metadata
<1>16. ASSUME ExecutePrint
      PROVE  PrintInv'
  BY QueuesType, QueuesDisjoint, QueuesNotEmpty, <1>16
     DEF ExecutePrint, PrintExecutable, markers, world, PrintInv,
         PendingInv, TypeOK, NoMemory, NotStarted, Metadata
<1>17. ASSUME ChecklistInvalid
      PROVE  PrintInv'
  BY QueuesType, QueuesDisjoint, QueuesNotEmpty, <1>17
     DEF ChecklistInvalid, PrintExecutable, Conclude, Finish, markers,
         world, PrintInv, PendingInv, TypeOK, NoMemory, NotStarted, Metadata
<1>18. ASSUME NEW m \in Mails, NEW s \in {"hard_blocked", "uncertain_incomplete"},
             PrintGroupFails(m, s)
      PROVE  PrintInv'
  BY QueuesType, QueuesDisjoint, QueuesNotEmpty, <1>18
     DEF PrintGroupFails, Conclude, Finish, world, PrintInv, PendingInv,
         TypeOK, NoMemory, NotStarted, Metadata
<1>19. ASSUME NEW m \in Mails, AcknowledgePartialPrint(m)
      PROVE  PrintInv'
  BY QueuesType, QueuesDisjoint, QueuesNotEmpty, <1>19
     DEF AcknowledgePartialPrint, artifacts, world, PrintInv, PendingInv,
         TypeOK, NoMemory, NotStarted, Metadata
<1>20. ASSUME NEW m \in Mails, UserMovesMail(m)
      PROVE  PrintInv'
  BY QueuesType, QueuesDisjoint, QueuesNotEmpty, <1>20
     DEF UserMovesMail, artifacts, markers, PrintInv, PendingInv, TypeOK,
         NoMemory, NotStarted, Metadata
<1>21. ASSUME ExecuteMailMoves
      PROVE  PrintInv'
  BY QueuesType, QueuesDisjoint, QueuesNotEmpty, <1>21
     DEF ExecuteMailMoves, MovesExecutable, markers, world, PrintInv,
         PendingInv, TypeOK, NoMemory, NotStarted, Metadata
<1>22. ASSUME MoveGateUnsatisfied
      PROVE  PrintInv'
  BY QueuesType, QueuesDisjoint, QueuesNotEmpty, <1>22
     DEF MoveGateUnsatisfied, Conclude, Finish, MovesExecutable, markers,
         world, PrintInv, PendingInv, TypeOK, NoMemory, NotStarted, Metadata
<1>23. ASSUME MoveFails
      PROVE  PrintInv'
  BY QueuesType, QueuesDisjoint, QueuesNotEmpty, <1>23
     DEF MoveFails, Conclude, Finish, markers, world, PrintInv, PendingInv,
         TypeOK, NoMemory, NotStarted, Metadata
<1>24. ASSUME Crash
      PROVE  PrintInv'
  BY QueuesType, QueuesDisjoint, QueuesNotEmpty, <1>24
     DEF Crash, artifacts, markers, world, PrintInv, PendingInv, TypeOK,
         NoMemory, NotStarted, Metadata
<1>25. ASSUME UNCHANGED vars
      PROVE  PrintInv'
  BY QueuesType, QueuesDisjoint, QueuesNotEmpty, <1>25
     DEF vars, artifacts, markers, world, PrintInv, PendingInv, TypeOK,
         NoMemory, NotStarted, Metadata
<1> QED BY <1>1, <1>2, <1>3, <1>4, <1>5, <1>6, <1>7, <1>8, <1>9, <1>10,
          <1>11, <1>12, <1>13, <1>14, <1>15, <1>16, <1>17, <1>18, <1>19,
          <1>20, <1>21, <1>22, <1>23, <1>24, <1>25
     DEF Next, Proceed

\* Withdrawing eligibility keeps outcomes sound.
LEMMA BlockMovesSound ==
  ASSUME NEW os \in Outcomes, Sound(os)
  PROVE  Sound(BlockMoves(os))
BY DEF Outcomes, Sound, BlockMoves

\* So does the policy of the moves.
LEMMA MoveOutcomesSound ==
  ASSUME TypeOK, Sound(outcomes)
  PROVE  Sound(MoveOutcomes)
BY DEF TypeOK, Outcomes, Sound, MoveOutcomes

\* Every step keeps the outcomes backed by what happened.
LEMMA NextOutcomesInv ==
  ASSUME TypeOK, PendingInv, CommitInv, PlansInv, PrintInv, OutcomesInv,
         [Next]_vars
  PROVE  OutcomesInv'
<1>1. ASSUME Persist
      PROVE  OutcomesInv'
  <2>1. UNCHANGED <<kind, saved, printed, moveMarkers>>
    BY <1>1 DEF Persist, markers, world
  <2> QED BY <1>1, <2>1, PersistEffect
          DEF OutcomesInv, Sound, NoMemory, Snapshotted
<1>2. ASSUME NEW s \in {"not_started", "prevalidated", "hard_blocked_no_write"},
             ValidateOnly(s)
      PROVE  OutcomesInv'
  BY <1>2
     DEF ValidateOnly, Finish, BlockMoves, Validated, artifacts, markers,
         world, OutcomesInv, Sound, CommitInv, PlansInv, PrintInv, TypeOK,
         Outcomes, Staged
<1>3. ASSUME BeginWrites
      PROVE  OutcomesInv'
  BY <1>3
     DEF BeginWrites, markers, world, OutcomesInv, Sound, CommitInv,
         PlansInv, PrintInv, TypeOK, Outcomes, Staged
<1>4. ASSUME SaveWorkbook
      PROVE  OutcomesInv'
  BY <1>4
     DEF SaveWorkbook, artifacts, markers, OutcomesInv, Sound, CommitInv,
         PlansInv, PrintInv, TypeOK, Outcomes, Staged
<1>5. ASSUME CommitWrites
      PROVE  OutcomesInv'
  BY <1>5
     DEF CommitWrites, Finish, Validated, Mark, markers, world, OutcomesInv,
         Sound, CommitInv, PlansInv, PrintInv, TypeOK, Outcomes, Staged
<1>6. ASSUME NEW m \in Mails, PrintGroup(m)
      PROVE  OutcomesInv'
  BY <1>6
     DEF PrintGroup, artifacts, world, OutcomesInv, Sound, CommitInv,
         PlansInv, PrintInv, TypeOK, Outcomes, Staged
<1>7. ASSUME NEW m \in Mails, MoveMail(m)
      PROVE  OutcomesInv'
  BY <1>7
     DEF MoveMail, artifacts, markers, OutcomesInv, Sound, CommitInv,
         PlansInv, PrintInv, TypeOK, Outcomes, Staged
<1>8. ASSUME NEW m \in Mails, WriteMoveMarker(m)
      PROVE  OutcomesInv'
  BY <1>8
     DEF WriteMoveMarker, artifacts, world, OutcomesInv, Sound, CommitInv,
         PlansInv, PrintInv, TypeOK, Outcomes, Staged
<1>9. ASSUME NEW m \in Mails, SourceMismatch(m)
      PROVE  OutcomesInv'
  <2>1. Sound(BlockMoves(mem.outcomes))
    BY BlockMovesSound, MoveOutcomesSound, MoveOutcomesType
       DEF OutcomesInv, TypeOK
  <2>2. /\ mem'.outcomes = BlockMoves(mem.outcomes) /\ outcomes' = outcomes
        /\ UNCHANGED <<kind, saved, printed, moveMarkers>>
    BY <1>9 DEF SourceMismatch, Conclude, Finish, markers, world
  <2> QED BY <2>1, <2>2 DEF OutcomesInv, Sound
<1>10. ASSUME PrintCompletes
      PROVE  OutcomesInv'
  BY <1>10
     DEF PrintCompletes, Conclude, Finish, Mark, markers, world,
         OutcomesInv, Sound, CommitInv, PlansInv, PrintInv, TypeOK,
         Outcomes, Staged
<1>11. ASSUME MovesComplete
      PROVE  OutcomesInv'
  BY <1>11
     DEF MovesComplete, Conclude, Finish, Mark, markers, world, OutcomesInv,
         Sound, CommitInv, PlansInv, PrintInv, TypeOK, Outcomes, Staged
<1>12. ASSUME WritesFail
      PROVE  OutcomesInv'
  BY <1>12
     DEF WritesFail, Finish, BlockMoves, Validated, markers, world,
         OutcomesInv, Sound, CommitInv, PlansInv, PrintInv, TypeOK,
         Outcomes, Staged
<1>13. ASSUME PlanPrint
      PROVE  OutcomesInv'
  BY <1>13
     DEF PlanPrint, Finish, PrintGroups, artifacts, markers, world,
         OutcomesInv, Sound, CommitInv, PlansInv, PrintInv, TypeOK,
         Outcomes, Staged
<1>14. ASSUME GenerateChecklist
      PROVE  OutcomesInv'
  BY <1>14
     DEF GenerateChecklist, Finish, artifacts, markers, world, OutcomesInv,
         Sound, CommitInv, PlansInv, PrintInv, TypeOK, Outcomes, Staged
<1>15. ASSUME GenerateChecklistFails
      PROVE  OutcomesInv'
  BY <1>15
     DEF GenerateChecklistFails, markers, world, OutcomesInv, Sound,
         CommitInv, PlansInv, PrintInv, TypeOK, Outcomes, Staged
<1>16. ASSUME ExecutePrint
      PROVE  OutcomesInv'
  BY <1>16
     DEF ExecutePrint, PrintExecutable, markers, world, OutcomesInv, Sound,
         CommitInv, PlansInv, PrintInv, TypeOK, Outcomes, Staged
<1>17. ASSUME ChecklistInvalid
      PROVE  OutcomesInv'
  <2>1. Sound(BlockMoves(outcomes))
    BY BlockMovesSound, MoveOutcomesSound, MoveOutcomesType
       DEF OutcomesInv, TypeOK
  <2>2. /\ mem'.outcomes = BlockMoves(outcomes) /\ outcomes' = outcomes
        /\ UNCHANGED <<kind, saved, printed, moveMarkers>>
    BY <1>17 DEF ChecklistInvalid, Conclude, Finish, markers, world
  <2> QED BY <2>1, <2>2 DEF OutcomesInv, Sound
<1>18. ASSUME NEW m \in Mails, NEW s \in {"hard_blocked", "uncertain_incomplete"},
             PrintGroupFails(m, s)
      PROVE  OutcomesInv'
  <2>1. Sound(BlockMoves(mem.outcomes))
    BY BlockMovesSound, MoveOutcomesSound, MoveOutcomesType
       DEF OutcomesInv, TypeOK
  <2>2. /\ mem'.outcomes = BlockMoves(mem.outcomes) /\ outcomes' = outcomes
        /\ UNCHANGED <<kind, saved, printed, moveMarkers>>
    BY <1>18 DEF PrintGroupFails, Conclude, Finish, markers, world
  <2> QED BY <2>1, <2>2 DEF OutcomesInv, Sound
<1>19. ASSUME NEW m \in Mails, AcknowledgePartialPrint(m)
      PROVE  OutcomesInv'
  BY <1>19
     DEF AcknowledgePartialPrint, artifacts, world, OutcomesInv, Sound,
         CommitInv, PlansInv, PrintInv, TypeOK, Outcomes, Staged
<1>20. ASSUME NEW m \in Mails, UserMovesMail(m)
      PROVE  OutcomesInv'
  BY <1>20
     DEF UserMovesMail, artifacts, markers, OutcomesInv, Sound, CommitInv,
         PlansInv, PrintInv, TypeOK, Outcomes, Staged
<1>21. ASSUME ExecuteMailMoves
      PROVE  OutcomesInv'
  BY <1>21
     DEF ExecuteMailMoves, MovesExecutable, MoveOutcomes, markers, world,
         OutcomesInv, Sound, CommitInv, PlansInv, PrintInv, TypeOK,
         Outcomes, Staged
<1>22. ASSUME MoveGateUnsatisfied
      PROVE  OutcomesInv'
  <2>1. Sound(BlockMoves(MoveOutcomes))
    BY BlockMovesSound, MoveOutcomesSound, MoveOutcomesType
       DEF OutcomesInv, TypeOK
  <2>2. /\ mem'.outcomes = BlockMoves(MoveOutcomes) /\ outcomes' = outcomes
        /\ UNCHANGED <<kind, saved, printed, moveMarkers>>
    BY <1>22 DEF MoveGateUnsatisfied, Conclude, Finish, markers, world
  <2> QED BY <2>1, <2>2 DEF OutcomesInv, Sound
<1>23. ASSUME MoveFails
      PROVE  OutcomesInv'
  <2>1. Sound(BlockMoves(mem.outcomes))
    BY BlockMovesSound, MoveOutcomesSound, MoveOutcomesType
       DEF OutcomesInv, TypeOK
  <2>2. /\ mem'.outcomes = BlockMoves(mem.outcomes) /\ outcomes' = outcomes
        /\ UNCHANGED <<kind, saved, printed, moveMarkers>>
    BY <1>23 DEF MoveFails, Conclude, Finish, markers, world
  <2> QED BY <2>1, <2>2 DEF OutcomesInv, Sound
<1>24. ASSUME Crash
      PROVE  OutcomesInv'
  BY <1>24
     DEF Crash, NoMemory, Snapshotted, artifacts, markers, world,
         OutcomesInv, Sound, CommitInv, PlansInv, PrintInv, TypeOK,
         Outcomes, Staged
<1>25. ASSUME UNCHANGED vars
      PROVE  OutcomesInv'
  BY <1>25
     DEF vars, artifacts, markers, world, OutcomesInv, Sound, CommitInv,
         PlansInv, PrintInv, TypeOK, Outcomes, Staged
<1> QED BY <1>1, <1>2, <1>3, <1>4, <1>5, <1>6, <1>7, <1>8, <1>9, <1>10,
          <1>11, <1>12, <1>13, <1>14, <1>15, <1>16, <1>17, <1>18, <1>19,
          <1>20, <1>21, <1>22, <1>23, <1>24, <1>25
     DEF Next, Proceed

\* Every step moves handled mails only, and marks what it has moved.
LEMMA NextMovesInv ==
  ASSUME TypeOK, PendingInv, CommitInv, PlansInv, PrintInv, OutcomesInv, MovesInv,
         [Next]_vars
  PROVE  MovesInv'
<1>1. ASSUME Persist
      PROVE  MovesInv'
  <2>1. UNCHANGED <<kind, saved, printed, moveMarkers, folder>>
    BY <1>1 DEF Persist, markers, world
  <2> QED BY <1>1, <2>1, PersistEffect DEF MovesInv, MovedMailsAreHandled, Moved,
          Handled, Staged
<1>2. ASSUME NEW s \in {"not_started", "prevalidated", "hard_blocked_no_write"},
             ValidateOnly(s)
      PROVE  MovesInv'
  BY <1>2
     DEF ValidateOnly, Finish, artifacts, markers, world, MovesInv,
         MovedMailsAreHandled, Moved, Handled, IsNext, CommitInv, TypeOK,
         Staged, Kinds, Mails
<1>3. ASSUME BeginWrites
      PROVE  MovesInv'
  BY <1>3
     DEF BeginWrites, markers, world, MovesInv, MovedMailsAreHandled, Moved,
         Handled, IsNext, CommitInv, TypeOK, Staged, Kinds, Mails
<1>4. ASSUME SaveWorkbook
      PROVE  MovesInv'
  BY <1>4
     DEF SaveWorkbook, artifacts, markers, MovesInv, MovedMailsAreHandled,
         Moved, Handled, IsNext, CommitInv, TypeOK, Staged, Kinds, Mails
<1>5. ASSUME CommitWrites
      PROVE  MovesInv'
  BY <1>5
     DEF CommitWrites, Finish, markers, world, MovesInv,
         MovedMailsAreHandled, Moved, Handled, IsNext, CommitInv, TypeOK,
         Staged, Kinds, Mails
<1>6. ASSUME NEW m \in Mails, PrintGroup(m)
      PROVE  MovesInv'
  BY <1>6
     DEF PrintGroup, artifacts, world, MovesInv, MovedMailsAreHandled,
         Moved, Handled, IsNext, CommitInv, TypeOK, Staged, Kinds, Mails
<1>7. ASSUME NEW m \in Mails, MoveMail(m)
      PROVE  MovesInv'
  BY <1>7
     DEF MoveMail, artifacts, markers, MovesInv, MovedMailsAreHandled,
         Moved, Handled, IsNext, CommitInv, TypeOK, Staged, Kinds, Mails
<1>8. ASSUME NEW m \in Mails, WriteMoveMarker(m)
      PROVE  MovesInv'
  BY <1>8
     DEF WriteMoveMarker, artifacts, world, MovesInv, MovedMailsAreHandled,
         Moved, Handled, IsNext, CommitInv, TypeOK, Staged, Kinds, Mails
<1>9. ASSUME NEW m \in Mails, SourceMismatch(m)
      PROVE  MovesInv'
  BY <1>9
     DEF SourceMismatch, Conclude, Finish, markers, world, MovesInv,
         MovedMailsAreHandled, Moved, Handled, IsNext, CommitInv, TypeOK,
         Staged, Kinds, Mails
<1>10. ASSUME PrintCompletes
      PROVE  MovesInv'
  BY <1>10
     DEF PrintCompletes, Conclude, Finish, markers, world, MovesInv,
         MovedMailsAreHandled, Moved, Handled, IsNext, CommitInv, TypeOK,
         Staged, Kinds, Mails
<1>11. ASSUME MovesComplete
      PROVE  MovesInv'
  BY <1>11
     DEF MovesComplete, Conclude, Finish, markers, world, MovesInv,
         MovedMailsAreHandled, Moved, Handled, IsNext, CommitInv, TypeOK,
         Staged, Kinds, Mails
<1>12. ASSUME WritesFail
      PROVE  MovesInv'
  BY <1>12
     DEF WritesFail, Finish, markers, world, MovesInv, MovedMailsAreHandled,
         Moved, Handled, IsNext, CommitInv, TypeOK, Staged, Kinds, Mails
<1>13. ASSUME PlanPrint
      PROVE  MovesInv'
  BY <1>13
     DEF PlanPrint, Finish, PrintGroups, artifacts, markers, world,
         MovesInv, MovedMailsAreHandled, Moved, Handled, IsNext, CommitInv,
         TypeOK, Staged, Kinds, Mails
<1>14. ASSUME GenerateChecklist
      PROVE  MovesInv'
  BY <1>14
     DEF GenerateChecklist, Finish, artifacts, markers, world, MovesInv,
         MovedMailsAreHandled, Moved, Handled, IsNext, CommitInv, TypeOK,
         Staged, Kinds, Mails
<1>15. ASSUME GenerateChecklistFails
      PROVE  MovesInv'
  BY <1>15
     DEF GenerateChecklistFails, markers, world, MovesInv,
         MovedMailsAreHandled, Moved, Handled, IsNext, CommitInv, TypeOK,
         Staged, Kinds, Mails
<1>16. ASSUME ExecutePrint
      PROVE  MovesInv'
  BY <1>16
     DEF ExecutePrint, PrintExecutable, markers, world, MovesInv,
         MovedMailsAreHandled, Moved, Handled, IsNext, CommitInv, TypeOK,
         Staged, Kinds, Mails
<1>17. ASSUME ChecklistInvalid
      PROVE  MovesInv'
  BY <1>17
     DEF ChecklistInvalid, PrintExecutable, Conclude, Finish, markers,
         world, MovesInv, MovedMailsAreHandled, Moved, Handled, IsNext,
         CommitInv, TypeOK, Staged, Kinds, Mails
<1>18. ASSUME NEW m \in Mails, NEW s \in {"hard_blocked", "uncertain_incomplete"},
             PrintGroupFails(m, s)
      PROVE  MovesInv'
  BY <1>18
     DEF PrintGroupFails, Conclude, Finish, world, MovesInv,
         MovedMailsAreHandled, Moved, Handled, IsNext, CommitInv, TypeOK,
         Staged, Kinds, Mails
<1>19. ASSUME NEW m \in Mails, AcknowledgePartialPrint(m)
      PROVE  MovesInv'
  BY <1>19
     DEF AcknowledgePartialPrint, artifacts, world, MovesInv,
         MovedMailsAreHandled, Moved, Handled, IsNext, CommitInv, TypeOK,
         Staged, Kinds, Mails
<1>20. ASSUME NEW m \in Mails, UserMovesMail(m)
      PROVE  MovesInv'
  <2>1. \A n \in Mails : Moved(n)' <=> Moved(n)
    BY <1>20 DEF UserMovesMail, Moved, TypeOK
  <2>2. UNCHANGED <<kind, printPlan, printed, moveMarkers, saved, pc, mem>>
    BY <1>20 DEF UserMovesMail, artifacts, markers
  <2> QED BY <2>1, <2>2 DEF MovesInv, MovedMailsAreHandled, Handled, IsNext,
          Staged, TypeOK
<1>21. ASSUME ExecuteMailMoves
      PROVE  MovesInv'
  <2>1. \A n \in Movable : kind[n] \notin {"no_write", "blocked"}
    BY DEF Movable, PolicyAllows, OutcomesInv, Sound
  <2>2. \A n \in Movable : Handled(n) /\ (n \in printPlan => n \in printed)
    <3>1. ASSUME NEW n \in Movable, DuplicatesOnly
          PROVE  Handled(n) /\ n \notin printPlan
      BY <3>1 DEF DuplicatesOnly, Handled, Staged, PlansInv, CommitInv
    <3>2. ASSUME NEW n \in Movable, ~DuplicatesOnly
          PROVE  Handled(n) /\ (n \in printPlan => n \in printed)
      <4>1. saved = Staged /\ printPlan \subseteq printed
        BY <1>21, <3>2 DEF ExecuteMailMoves, GateSatisfied, CommitInv, PrintInv
      <4>2. n \in Mails /\ kind[n] \in {"duplicate", "printable", "unprintable"}
        BY <2>1, <3>2 DEF Movable, TypeOK, Kinds
      <4> QED BY <4>1, <4>2 DEF Handled
    <3> QED BY <3>1, <3>2
  <2>3. /\ mem'.mails = Movable /\ pc' = "moving"
        /\ UNCHANGED <<kind, printPlan, printed, moveMarkers, folder, saved>>
    BY <1>21 DEF ExecuteMailMoves, markers, world
  <2> QED BY <2>2, <2>3 DEF MovesInv, MovedMailsAreHandled, Moved, Handled, Staged
<1>22. ASSUME MoveGateUnsatisfied
      PROVE  MovesInv'
  BY <1>22
     DEF MoveGateUnsatisfied, Conclude, Finish, MovesExecutable, markers,
         world, MovesInv, MovedMailsAreHandled, Moved, Handled, IsNext,
         CommitInv, TypeOK, Staged, Kinds, Mails
<1>23. ASSUME MoveFails
      PROVE  MovesInv'
  BY <1>23
     DEF MoveFails, Conclude, Finish, markers, world, MovesInv,
         MovedMailsAreHandled, Moved, Handled, IsNext, CommitInv, TypeOK,
         Staged, Kinds, Mails
<1>24. ASSUME Crash
      PROVE  MovesInv'
  BY <1>24
     DEF Crash, artifacts, markers, world, MovesInv, MovedMailsAreHandled,
         Moved, Handled, IsNext, CommitInv, TypeOK, Staged, Kinds, Mails
<1>25. ASSUME UNCHANGED vars
      PROVE  MovesInv'
  BY <1>25
     DEF vars, artifacts, markers, world, MovesInv, MovedMailsAreHandled,
         Moved, Handled, IsNext, CommitInv, TypeOK, Staged, Kinds, Mails
<1> QED BY <1>1, <1>2, <1>3, <1>4, <1>5, <1>6, <1>7, <1>8, <1>9, <1>10,
          <1>11, <1>12, <1>13, <1>14, <1>15, <1>16, <1>17, <1>18, <1>19,
          <1>20, <1>21, <1>22, <1>23, <1>24, <1>25
     DEF Next, Proceed

-----------------------------------------------------------------------------
(* Theorems. *)

\* The invariant holds when validate-run has initialised the run.
LEMMA InitIInv == Init => IInv
<1> SUFFICES ASSUME Init PROVE IInv
  OBVIOUS
<1>1. TypeOK
  <2>1. NotStarted \in Metadata
    BY DEF NotStarted, Metadata, WriteStatuses, PrintStatuses, MoveStatuses
  <2>2. mem \in [meta : Metadata, outcomes : Outcomes, mails : SUBSET Mails]
    BY NoMemoryType DEF Init
  <2>3. folder \in [Mails -> {"working", "destination", "elsewhere"}]
    BY DEF Init
  <2>4. outcomes \in Outcomes /\ pending \in Seq(Artifacts)
    BY OutcomesType, QueuesType DEF Init
  <2>5. /\ meta \in Metadata /\ kind \in [Mails -> Kinds] /\ disturbances \in Nat
        /\ checklist \in (SUBSET Mails) \cup {NoChecklist}
    BY <2>1 DEF Init
  <2>6. /\ plan = {} /\ printPlan = {} /\ printed = {} /\ partial = {}
        /\ moveMarkers = {} /\ saved = {} /\ pc = "validating"
    BY DEF Init
  <2> QED BY <2>2, <2>3, <2>4, <2>5, <2>6 DEF TypeOK
<1>2. PendingInv /\ CommitInv
  BY DEF Init, PendingInv, CommitInv, NotStarted, NoMemory
<1>3. PlansInv /\ PrintInv
  BY QueuesNotEmpty DEF Init, PlansInv, PrintInv, NotStarted, NoMemory
<1>4. OutcomesInv
  BY DEF Init, OutcomesInv, Sound, Snapshotted, NoMemory
<1>5. MovesInv
  BY DEF Init, MovesInv, MovedMailsAreHandled, Moved
<1> QED BY <1>1, <1>2, <1>3, <1>4, <1>5 DEF IInv

\* Every step keeps the invariant.
LEMMA NextIInv == IInv /\ [Next]_vars => IInv'
BY NextTypeOK, NextPendingInv, NextCommitInv, NextPlansInv, NextPrintInv,
   NextOutcomesInv, NextMovesInv DEF IInv

\* The inductive invariant of a run: what the artifacts, the memory of the
\* running command and its queue say of each other and of the world.
THEOREM Invariant == Spec => []IInv
BY InitIInv, NextIInv, PTL DEF Spec

\* Every variable keeps its type, for any number of mails.  (the run artifacts)
THEOREM TypeCorrect == Spec => []TypeOK
<1>1. IInv => TypeOK
  BY DEF IInv
<1> QED BY <1>1, Invariant, PTL

\* Only handled mails leave the working folder.  (execute_mail_moves)
THEOREM MovedMailsTheorem == Spec => []MovedMailsAreHandled
<1>1. IInv => MovedMailsAreHandled
  BY DEF IInv, MovesInv
<1> QED BY <1>1, Invariant, PTL

\* The persisted outcomes are backed by workbook, markers and folders.
\* (_mark_written_mail_outcomes, _mark_printed_mail_outcomes,
\* _mark_moved_mail_outcomes)
THEOREM OutcomesTheorem == Spec => []OutcomesAreBacked
<1>1. IInv => OutcomesAreBacked
  BY DEF IInv, OutcomesInv, Sound, MovesInv, OutcomesAreBacked, TypeOK
<1> QED BY <1>1, Invariant, PTL

\* A mail with a planned print group is moved after its group is complete.
\* (the gate of execute_mail_moves)
THEOREM PrintBeforeMovesTheorem == Spec => PlannedGroupsPrintBeforeMoves
<1> DEFINE A == \A m \in printPlan : ~Moved(m) /\ Moved(m)' => m \in printed
<1>1. ASSUME IInv, Next
      PROVE  A
  <2>1. folder' # folder =>
          \/ \E m \in Mails : MoveMail(m)
          \/ \E m \in Mails : UserMovesMail(m)
    BY <1>1 DEF Next, Proceed, Persist, ValidateOnly, BeginWrites, SaveWorkbook,
       CommitWrites, WritesFail, PlanPrint, GenerateChecklist,
       GenerateChecklistFails, ExecutePrint, ChecklistInvalid, PrintGroup,
       PrintGroupFails, PrintCompletes, AcknowledgePartialPrint,
       ExecuteMailMoves, MoveGateUnsatisfied, WriteMoveMarker, SourceMismatch,
       MoveFails, MovesComplete, Crash, world
  <2>2. ASSUME NEW m \in Mails, MoveMail(m)
        PROVE  A
    BY <1>1, <2>2 DEF MoveMail, IsNext, IInv, TypeOK, MovesInv, Moved
  <2>3. ASSUME NEW m \in Mails, UserMovesMail(m)
        PROVE  A
    BY <1>1, <2>3 DEF UserMovesMail, IInv, TypeOK, Moved
  <2>4. CASE folder' = folder
    BY <2>4 DEF Moved
  <2> QED BY <2>1, <2>2, <2>3, <2>4
<1>2. IInv /\ [Next]_vars => [A]_vars
  BY <1>1
<1> QED BY <1>2, Invariant, PTL DEF Spec, PlannedGroupsPrintBeforeMoves

-----------------------------------------------------------------------------
(* What the operator is told. *)

WrittenStatuses == {"applying", "committed", "uncertain_not_committed"}

\* Once the workbook is saved no metadata, in the file or in a command that
\* still has to persist it, says that the write phase has not begun.
WrittenInv ==
  /\ pc \in {"validating", "writing"} => saved = {}
  /\ pc \in {"writing", "written"} => meta.write = "applying"
  /\ saved # {} => meta.write \in WrittenStatuses
  /\ pc = "finishing" /\ saved # {} => mem.meta.write \in WrittenStatuses

\* Every step keeps it.
LEMMA NextWrittenInv ==
  ASSUME IInv, WrittenInv, [Next]_vars
  PROVE  WrittenInv'
<1> USE DEF WrittenInv, WrittenStatuses
<1>t. TypeOK /\ PendingInv
  BY DEF IInv
<1>m. meta \in Metadata /\ mem.meta \in Metadata
  BY <1>t DEF TypeOK
<1>1. ASSUME Persist
      PROVE  WrittenInv'
  <2>1. /\ pc = "finishing" /\ pc' \in {"idle", "finishing"}
        /\ pc' = "finishing" => mem' = mem
        /\ meta' \in {meta, mem.meta} /\ saved' = saved
    BY <1>1, <1>t, PersistEffect DEF Persist, world
  <2> QED BY <2>1
<1>2. ASSUME NEW s \in {"not_started", "prevalidated", "hard_blocked_no_write"},
             ValidateOnly(s)
      PROVE  WrittenInv'
  BY <1>2 DEF ValidateOnly, Finish, world, artifacts
<1>3. ASSUME BeginWrites
      PROVE  WrittenInv'
  BY <1>3, <1>m DEF BeginWrites, world, Metadata
<1>4. ASSUME SaveWorkbook
      PROVE  WrittenInv'
  BY <1>4 DEF SaveWorkbook, artifacts
<1>5. ASSUME CommitWrites
      PROVE  WrittenInv'
  BY <1>5, <1>m DEF CommitWrites, Finish, world, Metadata
<1>6. ASSUME WritesFail
      PROVE  WrittenInv'
  BY <1>6, <1>m DEF WritesFail, Finish, world, Metadata
<1>7. ASSUME PlanPrint
      PROVE  WrittenInv'
  BY <1>7, <1>m DEF PlanPrint, Finish, world, artifacts, Metadata
<1>8. ASSUME GenerateChecklist
      PROVE  WrittenInv'
  BY <1>8, <1>m DEF GenerateChecklist, Finish, world, artifacts, Metadata
<1>9. ASSUME GenerateChecklistFails
      PROVE  WrittenInv'
  BY <1>9, <1>m DEF GenerateChecklistFails, world, Metadata
<1>10. ASSUME ExecutePrint
       PROVE  WrittenInv'
  BY <1>10, <1>m DEF ExecutePrint, world, Metadata
<1>11. ASSUME NEW m \in Metadata, NEW os, Conclude(m, os), m.write = meta.write,
              saved' = saved
       PROVE  WrittenInv'
  BY <1>11 DEF Conclude, Finish
<1>12. ASSUME ChecklistInvalid
       PROVE  WrittenInv'
  <2>1. [meta EXCEPT !.print = "hard_blocked"] \in Metadata
    BY <1>m, MetadataType DEF PrintStatuses
  <2> QED BY <1>12, <2>1, <1>11, <1>m DEF ChecklistInvalid, world, Metadata
<1>13. ASSUME NEW m \in Mails, PrintGroup(m)
       PROVE  WrittenInv'
  BY <1>13 DEF PrintGroup, world, artifacts
<1>14. ASSUME NEW m \in Mails, NEW s \in {"hard_blocked", "uncertain_incomplete"},
              PrintGroupFails(m, s)
       PROVE  WrittenInv'
  <2>1. [meta EXCEPT !.print = s] \in Metadata
    BY <1>m, MetadataType DEF PrintStatuses
  <2> QED BY <1>14, <2>1, <1>11, <1>m DEF PrintGroupFails, world, Metadata
<1>15. ASSUME PrintCompletes
       PROVE  WrittenInv'
  <2>1. [meta EXCEPT !.print = "completed"] \in Metadata
    BY <1>m, MetadataType DEF PrintStatuses
  <2> QED BY <1>15, <2>1, <1>11, <1>m DEF PrintCompletes, world, Metadata
<1>16. ASSUME NEW m \in Mails, AcknowledgePartialPrint(m)
       PROVE  WrittenInv'
  BY <1>16 DEF AcknowledgePartialPrint, world, artifacts
<1>17. ASSUME ExecuteMailMoves
       PROVE  WrittenInv'
  BY <1>17, <1>m DEF ExecuteMailMoves, world, Metadata
<1>18. ASSUME MoveGateUnsatisfied
       PROVE  WrittenInv'
  <2>1. [meta EXCEPT !.move = "hard_blocked"] \in Metadata
    BY <1>m, MetadataType DEF MoveStatuses
  <2> QED BY <1>18, <2>1, <1>11, <1>m DEF MoveGateUnsatisfied, world, Metadata
<1>19. ASSUME NEW m \in Mails, MoveMail(m) \/ WriteMoveMarker(m) \/ UserMovesMail(m)
       PROVE  WrittenInv'
  BY <1>19 DEF MoveMail, WriteMoveMarker, UserMovesMail, world, artifacts
<1>20. ASSUME NEW m \in Mails, SourceMismatch(m)
       PROVE  WrittenInv'
  <2>1. [meta EXCEPT !.move = "hard_blocked"] \in Metadata
    BY <1>m, MetadataType DEF MoveStatuses
  <2> QED BY <1>20, <2>1, <1>11, <1>m DEF SourceMismatch, world, Metadata
<1>21. ASSUME MoveFails
       PROVE  WrittenInv'
  <2>1. [meta EXCEPT !.move = "uncertain_incomplete"] \in Metadata
    BY <1>m, MetadataType DEF MoveStatuses
  <2> QED BY <1>21, <2>1, <1>11, <1>m DEF MoveFails, world, Metadata
<1>22. ASSUME MovesComplete
       PROVE  WrittenInv'
  <2>1. [meta EXCEPT !.move = "completed"] \in Metadata
    BY <1>m, MetadataType DEF MoveStatuses
  <2> QED BY <1>22, <2>1, <1>11, <1>m DEF MovesComplete, world, Metadata
<1>23. ASSUME Crash
       PROVE  WrittenInv'
  BY <1>23 DEF Crash, world, artifacts
<1>24. CASE UNCHANGED vars
  BY <1>24 DEF vars, artifacts, markers, world
<1> QED BY <1>1, <1>2, <1>3, <1>4, <1>5, <1>6, <1>7, <1>8, <1>9, <1>10, <1>12,
     <1>13, <1>14, <1>15, <1>16, <1>17, <1>18, <1>19, <1>20, <1>21, <1>22, <1>23,
     <1>24 DEF Next, Proceed

\* A mail with staged writes and a recorded outcome says new_writes_staged.
LEMMA StagedDisposition ==
  ASSUME NEW m \in Staged, ~Unrecorded(m)
  PROVE  m \in CertainlyWith("new_writes_staged")
BY DEF Staged, CertainlyWith, Dispositions

\* What the artifacts say, the reports say: writes in the workbook are committed
\* or their run is in the recovery queue, the status counts only what has
\* markers, nothing that wrote is listed as needing no action while its
\* outcomes are there, and the contradictions of the precheck are about phases
\* that had nothing to do.
\* (_is_recovery_candidate, _build_handled_reason, summarize_run_status,
\* build_recovery_precheck)
THEOREM ReportsTheorem == Spec => []EffectsAreReported
<1>1. Init => WrittenInv
  BY DEF Init, WrittenInv
<1>2. IInv /\ WrittenInv => EffectsAreReported
  <2> SUFFICES ASSUME IInv, WrittenInv, pc = "idle"
               PROVE  /\ saved # {} => meta.write = "committed" \/ RecoveryCandidate
                      /\ SuccessfulMails("printed") \subseteq PrintMarkers \cup moveMarkers
                      /\ SuccessfulMails("moved") \subseteq moveMarkers
                      /\ MayBeHandled /\ saved # {} => \A m \in saved : Unrecorded(m)
                      /\ "print_completed_without_markers" \in Contradictions
                           => printPlan = {}
                      /\ "mail_moves_completed_without_markers" \in Contradictions
                           => SuccessfulMails("moved") = {}
    BY DEF EffectsAreReported
  <2>1. saved # {} => meta.write = "committed" \/ RecoveryCandidate
    BY DEF WrittenInv, WrittenStatuses, RecoveryCandidate
  <2>2. \A m \in Mails : /\ outcomes[m].status = "printed" => m \in printed
                         /\ outcomes[m].status = "moved" => m \in moveMarkers
    BY DEF IInv, OutcomesInv, Sound
  <2>3. SuccessfulMails("moved") \subseteq moveMarkers
    BY <2>2 DEF SuccessfulMails, AtOrBeyond
  <2>4. SuccessfulMails("printed") \subseteq PrintMarkers \cup moveMarkers
    BY <2>2 DEF SuccessfulMails, AtOrBeyond, PrintMarkers
  <2>5. MayBeHandled => \A m \in saved : Unrecorded(m)
    <3>1. saved \subseteq Staged
      BY DEF IInv, CommitInv
    <3> QED BY <3>1, StagedDisposition DEF MayBeHandled
  <2>6. "print_completed_without_markers" \in Contradictions => printPlan = {}
    <3>1. "print_completed_without_markers" \in Contradictions
            => meta.print = "completed" /\ PrintMarkers = {}
      BY DEF Contradictions
    <3> QED BY <3>1 DEF IInv, PrintInv, PrintMarkers
  <2>7. "mail_moves_completed_without_markers" \in Contradictions
          => SuccessfulMails("moved") = {}
    <3>1. "mail_moves_completed_without_markers" \in Contradictions => moveMarkers = {}
      BY DEF Contradictions
    <3> QED BY <3>1, <2>3
  <2> QED BY <2>1, <2>3, <2>4, <2>5, <2>6, <2>7
<1> QED BY <1>1, <1>2, Invariant, NextWrittenInv, PTL DEF Spec
=============================================================================
