----------------------------- MODULE RunPhases -----------------------------
(***************************************************************************)
(* One run of a printing workflow (export_lc_sc, ud_ip_exp) through all of *)
(* its commands: validate-run, plan-print, generate-print-annotation-html, *)
(* execute-print, acknowledge-partial-print and execute-mail-moves.        *)
(*                                                                         *)
(* The commands are processes that share nothing but the artifacts of the  *)
(* run.  Each loads them, works on copies in its memory and persists file  *)
(* after file; a file is replaced atomically, a command is not atomic.     *)
(*                                                                         *)
(* The write phase is reduced to what WriteBatch shows of it, the printing *)
(* of a group to what PrintExecution shows of it.                          *)
(***************************************************************************)
EXTENDS Naturals, Sequences

CONSTANTS
  NumMails,        \* mails in the snapshot of the run
  MaxDisturbances  \* bound on failures, crashes, moves by a user, replanning

ASSUME NumMailsAssumption == NumMails \in Nat
ASSUME MaxDisturbancesAssumption == MaxDisturbances \in Nat

Mails == 1..NumMails

\* What validation makes of a mail: hard_block; nothing to write; all its files
\* already in the workbook; new writes with or without newly saved documents.
Kinds == {"blocked", "no_write", "duplicate", "printable", "unprintable"}

VARIABLES
  kind,        \* what validation makes of each mail
  meta,        \* run_metadata.json: the statuses of the three phases
  outcomes,    \* mail_outcomes.jsonl
  plan,        \* staged_write_plan.json: the mails with staged writes
  printPlan,   \* print_plan.json: the mails with a print group
  checklist,   \* the print groups the checklist was generated for
  printed,     \* mails whose print group has a completed marker
  partial,     \* mails whose print group has a partial marker
  moveMarkers, \* mails with a mail-move marker
  folder,      \* where Outlook keeps each mail
  saved,       \* mails whose writes are in the workbook file
  pc,          \* what the running command does
  mem,         \* what the running command holds in memory
  pending,     \* the artifacts it still has to persist
  disturbances \* failures, crashes, moves by a user and replanning so far

artifacts == <<meta, outcomes, plan, printPlan, checklist>>
markers == <<printed, partial, moveMarkers>>
world == <<folder, saved>>
vars == <<kind, artifacts, markers, world, pc, mem, pending, disturbances>>

WriteStatuses == {"not_started", "prevalidated", "applying", "committed",
                  "uncertain_not_committed", "hard_blocked_no_write"}
PrintStatuses == {"not_started", "planned", "printing", "completed",
                  "hard_blocked", "uncertain_incomplete"}
MoveStatuses == {"not_started", "moving", "completed", "hard_blocked",
                 "uncertain_incomplete"}
Metadata == [write : WriteStatuses, print : PrintStatuses, move : MoveStatuses]
Outcomes ==
  [Mails -> [status : {"snapshotted", "blocked", "validated", "written",
                       "printed", "moved"},
             eligible : BOOLEAN]]       \* eligible_for_mail_move
Artifacts == {"run_metadata", "mail_outcomes", "staged_write_plan",
              "print_plan", "checklist"}
NoChecklist == {0}

TypeOK ==
  /\ kind \in [Mails -> Kinds]
  /\ meta \in Metadata
  /\ outcomes \in Outcomes
  /\ plan \in SUBSET Mails
  /\ printPlan \in SUBSET Mails
  /\ checklist \in (SUBSET Mails) \cup {NoChecklist}
  /\ printed \in SUBSET Mails
  /\ partial \in SUBSET Mails
  /\ moveMarkers \in SUBSET Mails
  /\ folder \in [Mails -> {"working", "destination", "elsewhere"}]
  /\ saved \in SUBSET Mails
  /\ pc \in {"validating", "writing", "written", "printing", "moving", "moved",
             "finishing", "idle"}
  /\ mem \in [meta : Metadata, outcomes : Outcomes, mails : SUBSET Mails]
  /\ pending \in Seq(Artifacts)
  /\ disturbances \in Nat

NotStarted == [write |-> "not_started", print |-> "not_started",
               move |-> "not_started"]
Snapshotted == [m \in Mails |-> [status |-> "snapshotted", eligible |-> FALSE]]
NoMemory == [meta |-> NotStarted, outcomes |-> Snapshotted, mails |-> {}]

\* validate-run has initialised the artifacts of the run.
Init ==
  /\ kind \in [Mails -> Kinds]
  /\ meta = NotStarted
  /\ outcomes = Snapshotted
  /\ plan = {} /\ printPlan = {} /\ checklist = NoChecklist
  /\ printed = {} /\ partial = {} /\ moveMarkers = {}
  /\ folder = [m \in Mails |-> "working"]
  /\ saved = {}
  /\ pc = "validating"
  /\ mem = NoMemory
  /\ pending = <<>>
  /\ disturbances = 0

Disturb == disturbances < MaxDisturbances /\ disturbances' = disturbances + 1
Undisturbed == UNCHANGED disturbances

\* A command ends by persisting what it holds.
Finish(m, os, mails, files) ==
  /\ mem' = [meta |-> m, outcomes |-> os, mails |-> mails]
  /\ pending' = files
  /\ pc' = "finishing"

\* The metadata is persisted in the middle of a command, the outcomes at its end.
Conclude(m, os) ==
  /\ meta' = m
  /\ Finish(m, os, {}, <<"mail_outcomes">>)
  /\ UNCHANGED <<outcomes, plan, printPlan, checklist>>

\* The next artifact is replaced; the process ends after the last one.
Persist ==
  /\ pc = "finishing"
  /\ meta' = IF Head(pending) = "run_metadata" THEN mem.meta ELSE meta
  /\ outcomes' = IF Head(pending) = "mail_outcomes" THEN mem.outcomes ELSE outcomes
  /\ plan' = IF Head(pending) = "staged_write_plan" THEN mem.mails ELSE plan
  /\ printPlan' = IF Head(pending) = "print_plan" THEN mem.mails ELSE printPlan
  /\ checklist' = IF Head(pending) = "checklist" THEN mem.mails ELSE checklist
  /\ pending' = Tail(pending)
  /\ IF Len(pending) = 1
     THEN pc' = "idle" /\ mem' = NoMemory
     ELSE UNCHANGED <<pc, mem>>
  /\ UNCHANGED <<kind, markers, world>>
  /\ Undisturbed

\* No mail of the run may be moved any more.
BlockMoves(os) == [m \in Mails |-> [os[m] EXCEPT !.eligible = FALSE]]

Mark(os, mails, status, eligible) ==
  [m \in Mails |-> IF m \in mails THEN [status |-> status, eligible |-> eligible]
                                  ELSE os[m]]

-----------------------------------------------------------------------------
(* validate-run. *)

Staged == {m \in Mails : kind[m] \in {"printable", "unprintable"}}

Validated ==
  [m \in Mails |->
    [status |-> IF kind[m] = "blocked" THEN "blocked" ELSE "validated",
     eligible |-> kind[m] # "blocked"]]

ValidationFiles == <<"run_metadata", "mail_outcomes", "staged_write_plan">>

\* validate-run without writes: nothing is staged, the command does not apply live writes,
\* or the session or a target stops the batch before it writes.
ValidateOnly(status) ==
  /\ pc = "validating"
  /\ Staged = {} => status = "not_started"
  /\ Finish([meta EXCEPT !.write = status],
            IF status = "hard_blocked_no_write" THEN BlockMoves(Validated)
                                                ELSE Validated,
            Staged, ValidationFiles)
  /\ UNCHANGED <<kind, artifacts, markers, world>>
  /\ Undisturbed

BeginWrites ==
  /\ pc = "validating"
  /\ Staged # {}
  /\ meta' = [meta EXCEPT !.write = "applying"]
  /\ pc' = "writing"
  /\ UNCHANGED <<kind, outcomes, plan, printPlan, checklist, markers, world,
                 mem, pending>>
  /\ Undisturbed

SaveWorkbook ==
  /\ pc = "writing"
  /\ saved' = Staged
  /\ pc' = "written"
  /\ UNCHANGED <<kind, artifacts, markers, folder, mem, pending>>
  /\ Undisturbed

\* The committed status is persisted before the outcomes and the plan.
CommitWrites ==
  /\ pc = "written"
  /\ meta' = [meta EXCEPT !.write = "committed"]
  /\ Finish(meta', Mark(Validated, Staged, "written", TRUE), Staged,
            Tail(ValidationFiles))
  /\ UNCHANGED <<kind, outcomes, plan, printPlan, checklist, markers, world>>
  /\ Undisturbed

\* Mutation: the write phase gets the status of an interrupted print phase.
WritesFailIncomplete ==
  /\ pc \in {"writing", "written"}
  /\ Disturb
  /\ meta' = [meta EXCEPT !.write = "uncertain_incomplete"]
  /\ Finish(meta', BlockMoves(Validated), Staged, Tail(ValidationFiles))
  /\ UNCHANGED <<kind, outcomes, plan, printPlan, checklist, markers, world>>

WritesFail ==
  /\ pc \in {"writing", "written"}
  /\ Disturb
  /\ meta' = [meta EXCEPT !.write = "uncertain_not_committed"]
  /\ Finish(meta', BlockMoves(Validated), Staged, Tail(ValidationFiles))
  /\ UNCHANGED <<kind, outcomes, plan, printPlan, checklist, markers, world>>

-----------------------------------------------------------------------------
(* plan-print and generate-print-annotation-html. *)

\* A mail has a print group when it has staged writes and newly saved documents.
PrintGroups ==
  {m \in plan : outcomes[m].status # "snapshotted" /\ kind[m] = "printable"}

\* The metadata says planned before the plan is there.  For a run that is not
\* committed the recovery outcome would have to be safe_resume, which it never is.
PlanPrint ==
  /\ pc = "idle"
  /\ meta.write = "committed"
  /\ IF meta.print = "not_started" THEN Undisturbed ELSE Disturb
  /\ Finish([meta EXCEPT !.print = "planned"], outcomes, PrintGroups,
            <<"run_metadata", "mail_outcomes", "print_plan">>)
  /\ UNCHANGED <<kind, artifacts, markers, world>>

\* Without a print plan only a run that stages nothing and has a blocked mail
\* gets its checklist.
ChecklistAllowed ==
  \/ meta.print # "not_started"
  \/ plan = {} /\ \E m \in Mails : outcomes[m].status = "blocked"

GenerateChecklist ==
  /\ pc = "idle"
  /\ ChecklistAllowed
  /\ Finish([meta EXCEPT !.print = IF @ = "hard_blocked" THEN "planned" ELSE @],
            outcomes,
            IF meta.print = "not_started" THEN {} ELSE printPlan,
            <<"checklist", "run_metadata">>)
  /\ UNCHANGED <<kind, artifacts, markers, world>>
  /\ Undisturbed

GenerateChecklistFails ==
  /\ pc = "idle"
  /\ ChecklistAllowed
  /\ Disturb
  /\ meta' = [meta EXCEPT !.print = "hard_blocked"]
  /\ UNCHANGED <<kind, outcomes, plan, printPlan, checklist, markers, world, pc,
                 mem, pending>>

-----------------------------------------------------------------------------
(* execute-print and acknowledge-partial-print. *)

PrintExecutable ==
  pc = "idle" /\ meta.print \in {"planned", "printing", "uncertain_incomplete"}

ExecutePrint ==
  /\ PrintExecutable
  /\ checklist = printPlan
  /\ meta' = [meta EXCEPT !.print = "printing"]
  /\ pc' = "printing"
  /\ mem' = [meta |-> meta', outcomes |-> outcomes, mails |-> printPlan]
  /\ UNCHANGED <<kind, outcomes, plan, printPlan, checklist, markers, world,
                 pending>>
  /\ Undisturbed

ChecklistInvalid ==
  /\ PrintExecutable
  /\ checklist # printPlan
  /\ Conclude([meta EXCEPT !.print = "hard_blocked"], BlockMoves(outcomes))
  /\ UNCHANGED <<kind, markers, world>>
  /\ Undisturbed

\* The next group is the first without a completed marker.
IsNext(m, done) == m \in mem.mails \ done /\ \A n \in mem.mails \ done : m <= n

PrintGroup(m) ==
  /\ pc = "printing"
  /\ IsNext(m, printed)
  /\ printed' = printed \cup {m}
  /\ partial' = partial \ {m}
  /\ UNCHANGED <<kind, artifacts, moveMarkers, world, pc, mem, pending>>
  /\ Undisturbed

\* The adapter is unavailable, or the group is interrupted with or without a
\* partial marker.
PrintGroupFails(m, status) ==
  /\ pc = "printing"
  /\ IsNext(m, printed)
  /\ Disturb
  /\ partial' \in {partial} \cup
       (IF status = "uncertain_incomplete" THEN {partial \cup {m}} ELSE {})
  /\ Conclude([meta EXCEPT !.print = status], BlockMoves(mem.outcomes))
  /\ UNCHANGED <<kind, printed, moveMarkers, world>>

\* Mutation: a group with a partial marker passes for a completed one.
PrintCompletesPartial ==
  /\ pc = "printing"
  /\ mem.mails \subseteq printed \cup partial
  /\ Conclude([meta EXCEPT !.print = "completed"],
              Mark(mem.outcomes, mem.mails, "printed", TRUE))
  /\ UNCHANGED <<kind, markers, world>>
  /\ Undisturbed

PrintCompletes ==
  /\ pc = "printing"
  /\ mem.mails \subseteq printed
  /\ Conclude([meta EXCEPT !.print = "completed"],
              Mark(mem.outcomes, mem.mails, "printed", TRUE))
  /\ UNCHANGED <<kind, markers, world>>
  /\ Undisturbed

\* The operator confirms all documents of a partial group.
AcknowledgePartialPrint(m) ==
  /\ pc = "idle"
  /\ m \in printPlan \cap partial
  /\ printed' = printed \cup {m}
  /\ partial' = partial \ {m}
  /\ UNCHANGED <<kind, artifacts, moveMarkers, world, pc, mem, pending>>
  /\ Undisturbed

-----------------------------------------------------------------------------
(* execute-mail-moves. *)

\* _mail_move_policy_allows
PolicyAllows(m) == kind[m] # "no_write"

Movable == {m \in Mails : outcomes[m].eligible /\ PolicyAllows(m)}

\* Eligibility that the policy overrules is withdrawn.
MoveOutcomes ==
  [m \in Mails |-> [outcomes[m] EXCEPT !.eligible = @ /\ PolicyAllows(m)]]

\* Mutation: one duplicate-only mail waives the gates for all.
SomeDuplicate == \E m \in Movable : kind[m] = "duplicate"

DuplicatesOnly == Movable # {} /\ \A m \in Movable : kind[m] = "duplicate"

\* Mutation: the print phase is not asked for.
WriteGateSatisfied == DuplicatesOnly \/ meta.write = "committed"

GateSatisfied ==
  DuplicatesOnly \/ (meta.write = "committed" /\ meta.print = "completed")

\* Mutation: a blocked or interrupted move phase is not started again.
MovesExecutableOnce == pc = "idle" /\ meta.move = "not_started"

MovesExecutable ==
  pc = "idle" /\ meta.move \in {"not_started", "moving", "hard_blocked"}

ExecuteMailMoves ==
  /\ MovesExecutable
  /\ GateSatisfied
  /\ meta' = [meta EXCEPT !.move = "moving"]
  /\ pc' = "moving"
  /\ mem' = [meta |-> meta', outcomes |-> MoveOutcomes, mails |-> Movable]
  /\ UNCHANGED <<kind, outcomes, plan, printPlan, checklist, markers, world,
                 pending>>
  /\ Undisturbed

MoveGateUnsatisfied ==
  /\ MovesExecutable
  /\ ~GateSatisfied
  /\ Conclude([meta EXCEPT !.move = "hard_blocked"], BlockMoves(MoveOutcomes))
  /\ UNCHANGED <<kind, markers, world>>
  /\ Undisturbed

\* The mail is where the run expects it: Outlook moves it.
MoveMail(m) ==
  /\ pc = "moving"
  /\ IsNext(m, moveMarkers)
  /\ folder[m] = "working"
  /\ folder' = [folder EXCEPT ![m] = "destination"]
  /\ pc' = "moved"
  /\ UNCHANGED <<kind, artifacts, markers, saved, mem, pending>>
  /\ Undisturbed

WriteMoveMarker(m) ==
  /\ pc = "moved"
  /\ IsNext(m, moveMarkers)
  /\ moveMarkers' = moveMarkers \cup {m}
  /\ pc' = "moving"
  /\ UNCHANGED <<kind, artifacts, printed, partial, world, mem, pending>>
  /\ Undisturbed

\* MailMoveSourceLocationError
SourceMismatch(m) ==
  /\ pc = "moving"
  /\ IsNext(m, moveMarkers)
  /\ folder[m] # "working"
  /\ Conclude([meta EXCEPT !.move = "hard_blocked"], BlockMoves(mem.outcomes))
  /\ UNCHANGED <<kind, markers, world>>
  /\ Undisturbed

\* Any other error: before the move, in its verification, or in an artifact.
MoveFails ==
  /\ pc \in {"moving", "moved"}
  /\ Disturb
  /\ Conclude([meta EXCEPT !.move = "uncertain_incomplete"],
              BlockMoves(mem.outcomes))
  /\ UNCHANGED <<kind, markers, world>>

MovesComplete ==
  /\ pc = "moving"
  /\ mem.mails \subseteq moveMarkers
  /\ Conclude([meta EXCEPT !.move = "completed"],
              Mark(mem.outcomes, mem.mails, "moved", FALSE))
  /\ UNCHANGED <<kind, markers, world>>
  /\ Undisturbed

-----------------------------------------------------------------------------
(* Interruptions and the other users of the mailbox. *)

\* A killed process, or an artifact that cannot be persisted at its end.
Crash ==
  /\ pc # "idle"
  /\ Disturb
  /\ pc' = "idle"
  /\ mem' = NoMemory
  /\ pending' = <<>>
  /\ UNCHANGED <<kind, artifacts, markers, world>>

UserMovesMail(m) ==
  /\ Disturb
  /\ \/ folder[m] = "working" /\ folder' = [folder EXCEPT ![m] = "elsewhere"]
     \/ folder[m] = "elsewhere" /\ folder' = [folder EXCEPT ![m] = "working"]
  /\ UNCHANGED <<kind, artifacts, markers, saved, pc, mem, pending>>

Proceed ==
  \/ Persist
  \/ \E s \in {"not_started", "prevalidated", "hard_blocked_no_write"} : ValidateOnly(s)
  \/ BeginWrites \/ SaveWorkbook \/ CommitWrites
  \/ \E m \in Mails :
       PrintGroup(m) \/ MoveMail(m) \/ WriteMoveMarker(m) \/ SourceMismatch(m)
  \/ PrintCompletes \/ MovesComplete

Next ==
  \/ Proceed
  \/ WritesFail
  \/ PlanPrint \/ GenerateChecklist \/ GenerateChecklistFails
  \/ ExecutePrint \/ ChecklistInvalid
  \/ \E m \in Mails :
       \/ \E s \in {"hard_blocked", "uncertain_incomplete"} : PrintGroupFails(m, s)
       \/ AcknowledgePartialPrint(m)
       \/ UserMovesMail(m)
  \/ ExecuteMailMoves \/ MoveGateUnsatisfied \/ MoveFails
  \/ Crash

Spec == Init /\ [][Next]_vars

\* The released sequence of commands, each repeated until its phase is done.
ReleasedSequence ==
  \/ meta.print = "not_started" /\ PlanPrint
  \/ (meta.print = "hard_blocked" \/ checklist # printPlan) /\ GenerateChecklist
  \/ ExecutePrint
  \/ meta.print = "completed" /\ ExecuteMailMoves

\* A process that is not killed goes on; the operator keeps to the sequence.
FairSpec == Spec /\ WF_vars(Proceed) /\ SF_vars(ReleasedSequence)
=============================================================================
