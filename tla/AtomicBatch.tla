---------------------------- MODULE AtomicBatch ----------------------------
(***************************************************************************)
(* What the live write phase promises about the master workbook, whatever  *)
(* happens inside it: the staged plan of a run reaches the file in one     *)
(* step and completely, at most once, and only over the values the plan    *)
(* was staged against.  Anything else that changes the file is an edit     *)
(* made by somebody outside the program.  WriteBatch implements this.      *)
(***************************************************************************)
EXTENDS StagedPlan

VARIABLES
  disk,      \* the workbook file: the value of every cell
  plan,      \* the staged write plan of every run
  saved      \* has the run's plan reached the file?

abVars == <<disk, plan, saved>>

ABInit ==
  /\ disk \in [Cells -> Values]
  /\ plan = [r \in Runs |-> NoPlan]
  /\ saved = [r \in Runs |-> FALSE]

\* A run fixes its plan before anything of it is in the file.
ABStage(r) ==
  /\ ~saved[r]
  /\ plan[r] = NoPlan
  /\ \E p \in StagedPlans(disk) : plan' = [plan EXCEPT ![r] = p]
  /\ UNCHANGED <<disk, saved>>

\* The whole plan is written in one step, over exactly the staged values.
ABApply(r) ==
  /\ ~saved[r]
  /\ \A c \in Targets(plan[r]) : disk[c] = plan[r][c].pre
  /\ disk' = Applied(plan[r], disk)
  /\ saved' = [saved EXCEPT ![r] = TRUE]
  /\ UNCHANGED plan

\* Somebody edits one cell in a session of their own.
ABEdit(c, v) ==
  /\ disk' = [disk EXCEPT ![c] = v]
  /\ UNCHANGED <<plan, saved>>

ABNext ==
  \/ \E r \in Runs : ABStage(r) \/ ABApply(r)
  \/ \E c \in Cells, v \in Values : ABEdit(c, v)

ABSpec == ABInit /\ [][ABNext]_abVars
=============================================================================
