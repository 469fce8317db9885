---------------------------- MODULE PrintLedger ----------------------------
(***************************************************************************)
(* What the print phase promises to the commands after it, group by group: *)
(* the groups are recorded in planned order and none before all of its     *)
(* documents are on paper; the phase is completed only when every group    *)
(* is.  RunPhases takes a print group as one step of this kind,            *)
(* PrintExecution prints it document by document and implements this.      *)
(***************************************************************************)
EXTENDS Naturals

CONSTANT NumGroups   \* number of planned print groups

VARIABLES
  status,     \* the persisted status of the phase
  whole,      \* the groups that are on paper with all their documents
  partial,    \* the groups recorded in part
  printed     \* the groups recorded as printed

vars == <<status, whole, partial, printed>>

Groups == 1..NumGroups

\* Groups are taken in order.
IsNext(g) == g \in Groups \ printed /\ \A h \in Groups \ printed : g <= h

Init ==
  /\ status = "planned"
  /\ whole = {} /\ partial = {} /\ printed = {}

\* Planning, the checklist, and whatever else forbids to print.
Set(new) ==
  /\ new \in {"planned", "hard_blocked"}
  /\ status' = new
  /\ UNCHANGED <<whole, partial, printed>>

Begin ==
  /\ status \in {"planned", "printing", "uncertain_incomplete"}
  /\ status' = "printing"
  /\ UNCHANGED <<whole, partial, printed>>

\* The last document of a group comes out, and the interruption that may
\* follow it is recorded.
ComesOut(g) ==
  /\ status = "printing" /\ IsNext(g)
  /\ whole' = whole \cup {g}
  /\ partial' \in {partial, partial \cup {g}}
  /\ UNCHANGED <<status, printed>>

Interrupt(g) ==
  /\ status = "printing" /\ IsNext(g)
  /\ partial' = partial \cup {g}
  /\ UNCHANGED <<status, whole, printed>>

EndUncertain ==
  /\ status = "printing"
  /\ status' = "uncertain_incomplete"
  /\ UNCHANGED <<whole, partial, printed>>

\* The group is recorded when it is printed, or when the operator confirms it.
Record(g) ==
  /\ IsNext(g) /\ g \in whole
  /\ status = "printing" \/ g \in partial
  /\ printed' = printed \cup {g}
  /\ partial' = partial \ {g}
  /\ UNCHANGED <<status, whole>>

Complete ==
  /\ status = "printing" /\ printed = Groups
  /\ status' = "completed"
  /\ UNCHANGED <<whole, partial, printed>>

Next ==
  \/ \E new \in {"planned", "hard_blocked"} : Set(new)
  \/ Begin
  \/ \E g \in Groups : ComesOut(g) \/ Interrupt(g) \/ Record(g)
  \/ EndUncertain
  \/ Complete

Spec == Init /\ [][Next]_vars
=============================================================================
