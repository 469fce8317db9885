----------------------------- MODULE BtbRegister -----------------------------
(***************************************************************************)
(* What the import workflow promises of the workbook and of the mailbox:   *)
(* a register in which a BTB LC number is not entered where it is already  *)
(* recognised and never replaced, and mails that are settled only when the *)
(* register holds every number they carry.                                 *)
(***************************************************************************)
EXTENDS Naturals

CONSTANTS
  Rows,        \* the rows of the register
  Numbers,     \* BTB LC numbers
  Legible,     \* the pairs <<row, number>> that are recognised once entered
  Mails,       \* import mails
  Carries      \* the numbers whose documents a mail carries

VARIABLES
  entries,     \* the pairs <<row, number>> entered so far
  settled      \* the mails taken out of the working folder

Entered(n) == \E r \in Rows : <<r, n>> \in entries

\* A number is entered in a row that gives it back as it was entered.
Recognised(n) == \E r \in Rows : <<r, n>> \in entries \cap Legible

Init ==
  /\ entries = {}
  /\ settled = {}

\* A batch is entered as a whole, each number on a free row of its own.
Enter(batch) ==
  /\ batch # {} /\ batch \subseteq Rows \X Numbers
  /\ \A e \in batch :
       /\ ~Recognised(e[2])
       /\ \A f \in entries : f[1] # e[1]
       /\ \A f \in batch : f # e => f[1] # e[1] /\ f[2] # e[2]
  /\ entries' = entries \cup batch
  /\ UNCHANGED settled

Settle(m) ==
  /\ m \notin settled
  /\ \A n \in Carries[m] : Entered(n)
  /\ settled' = settled \cup {m}
  /\ UNCHANGED entries

Next ==
  \/ Enter(entries' \ entries)
  \/ \E m \in Mails : Settle(m)

Spec == Init /\ [][Next]_<<entries, settled>>
=============================================================================
