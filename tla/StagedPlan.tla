----------------------------- MODULE StagedPlan -----------------------------
(***************************************************************************)
(* The staged write plan of a run and the probes that compare it with a    *)
(* workbook: target prevalidation before the batch, the post-write probe   *)
(* before the save, and the recovery probe of a later command.             *)
(*                                                                         *)
(* A plan gives each workbook cell either NoWrite or one operation.  The   *)
(* order of the operations is not kept: nothing reads the Excel session    *)
(* between the first write of a batch and the probe after the last one.    *)
(***************************************************************************)
EXTENDS Naturals

CONSTANTS
  Runs,         \* run identifiers
  Cells,        \* workbook cells: (sheet, row, column)
  Values,       \* normalised cell values
  Blank,        \* the value of an empty cell
  PostValues,   \* the values that staging may decide to write
  NoWrite       \* the entry of a cell that a plan leaves alone

ASSUME BlankAssumption == Blank \in Values
ASSUME PostAssumption == PostValues \subseteq Values

\* The predicates that the staging modules put on an operation: an append or
\* fill target must be empty, a dashboard target must still show what it
\* showed when it was staged.
Checks == {"target_cell_blank_by_construction",
           "target_cell_matches_expected_pre_write"}

WriteOperation == [pre : Values, post : Values, check : Checks]

ASSUME NoWriteAssumption == NoWrite \notin WriteOperation

Plans == [Cells -> WriteOperation \cup {NoWrite}]

NoPlan == [c \in Cells |-> NoWrite]

Targets(p) == {c \in Cells : p[c] # NoWrite}

\* A blank-target operation expects an empty cell, a dashboard operation what
\* validation read.
StagedOperation(check, post, read) ==
  [pre |-> IF check = "target_cell_blank_by_construction" THEN Blank ELSE read,
   post |-> post, check |-> check]

\* The plans that validation may stage from a workbook; the workflow of the
\* run decides which check all its operations carry.
StagedPlans(book) ==
  {[c \in Cells |-> IF c \in S THEN StagedOperation(check, post[c], book[c]) ELSE NoWrite] :
     S \in SUBSET Cells, check \in Checks, post \in [Cells -> PostValues]}

\* The workbook after all operations of a plan.
Applied(p, book) ==
  [c \in Cells |-> IF p[c] = NoWrite THEN book[c] ELSE p[c].post]

\* Mutation: the predicate of a blank target is not evaluated.
RowEligibilityOfMatchesOnly(op, v) ==
  op.check = "target_cell_matches_expected_pre_write" => v = op.pre

RowEligibilitySatisfied(op, v) ==
  /\ op.check = "target_cell_blank_by_construction" => v = Blank
  /\ op.check = "target_cell_matches_expected_pre_write" => v = op.pre

\* Prevalidation prefers the pre-write reading of an empty cell.
ClassifyPrevalidation(op, v) ==
  CASE ~RowEligibilitySatisfied(op, v) -> "mismatch_unknown"
    [] RowEligibilitySatisfied(op, v) /\ op.pre = Blank /\ v = Blank -> "matches_pre_write"
    [] OTHER -> IF v = op.post THEN "matches_post_write"
                ELSE IF v = op.pre THEN "matches_pre_write"
                ELSE "mismatch_unknown"

\* Mutation: whatever is no longer the old value counts as the new one.
ClassifyProbeAsChanged(op, v) ==
  IF v # op.pre THEN "matches_post_write" ELSE "matches_pre_write"

\* The probes after the write prefer the post-write reading.
ClassifyProbe(op, v) ==
  IF v = op.post THEN "matches_post_write"
  ELSE IF v = op.pre THEN "matches_pre_write"
  ELSE "mismatch_unknown"

\* assess_recovery resolves the headers of the two blank-target workflows only:
\* the targets of a dashboard run have no column for it.
ClassifyRecoveryProbe(op, v) ==
  IF op.check = "target_cell_matches_expected_pre_write" THEN "mismatch_unknown"
  ELSE ClassifyProbe(op, v)

\* prevalidate_staged_write_plan reports no discrepancy.
PrevalidationPasses(p, book) ==
  \A c \in Targets(p) :
    ClassifyPrevalidation(p[c], book[c]) \in {"matches_pre_write", "matches_post_write"}
=============================================================================
