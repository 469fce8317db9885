---------------------------- MODULE EntryLedger ----------------------------
(***************************************************************************)
(* What export_lc_sc and ud_ip_exp promise together, amounts left out: a   *)
(* ledger in which every export file is entered once and belongs to at     *)
(* most one UD, AM or IP/EXP entry of its family, for good, and mails are  *)
(* settled only when the ledger holds what they brought.                   *)
(***************************************************************************)
EXTENDS Naturals

CONSTANTS
  Files, Family,          \* export files and their family
  Numbers,                \* of UD, AM, IP and EXP documents
  Mails,
  Files_of,               \* the files a mail asks to be entered
  Uds_of,                 \* its UD and AM documents: number, family, value, date
  Covers_of               \* its IP and EXP numbers with their family, if any

VARIABLES
  copies,     \* how often each file is entered
  claims,     \* the numbers entered under each file
  settled     \* mails out of their folder

vars == <<copies, claims, settled>>

Uds == UNION {Uds_of[m] : m \in Mails}
Covers == UNION {Covers_of[m] : m \in Mails}

Entered(lc) == {f \in Files : copies[f] > 0 /\ Family[f] = lc}
Claimed(lc, numbers) == {f \in Entered(lc) : claims[f] = numbers}

\* A new entry under a file that has none; an IP/EXP entry takes the family.
Claim(f) ==
  /\ copies[f] = 1 /\ claims[f] = {}
  /\ \/ \E u \in Uds : u.lc = Family[f] /\ claims'[f] = {u.number}
     \/ \E c \in Covers :
          /\ c.lc = Family[f] /\ claims'[f] = c.numbers
          /\ \A g \in Entered(c.lc) : claims'[g] = c.numbers

\* A batch enters new files and claims entered ones.
Write ==
  /\ \A f \in Files : copies'[f] = copies[f] \/ (copies[f] = 0 /\ copies'[f] = 1)
  /\ \A f \in Files : claims'[f] = claims[f] \/ Claim(f)
  /\ UNCHANGED settled

\* Others take a file without an entry out of the ledger.
Erase(f) ==
  /\ copies[f] > 0 /\ claims[f] = {}
  /\ copies' = [copies EXCEPT ![f] = 0]
  /\ UNCHANGED <<claims, settled>>

Settle(m) ==
  /\ m \notin settled
  /\ \A f \in Files_of[m] : f \in Files /\ copies[f] > 0
  /\ \A u \in Uds_of[m] : Claimed(u.lc, {u.number}) # {}
  /\ \A c \in Covers_of[m] : Claimed(c.lc, c.numbers) # {}
  /\ settled' = settled \cup {m}
  /\ UNCHANGED <<copies, claims>>

Init ==
  /\ copies \in [Files -> {0, 1}]
  /\ claims \in [Files -> SUBSET Numbers]
  /\ \A f \in Files : copies[f] = 0 => claims[f] = {}
  /\ settled = {}

Next ==
  \/ Write
  \/ \E f \in Files : Erase(f)
  \/ \E m \in Mails : Settle(m)

Spec == Init /\ [][Next]_vars
=============================================================================
