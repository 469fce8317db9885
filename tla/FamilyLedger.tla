---------------------------- MODULE FamilyLedger ----------------------------
(***************************************************************************)
(* The promise of export_lc_sc and ud_ip_exp with its amounts: those of    *)
(* the files under an entry add up to the documents it names, and a UD     *)
(* mail is settled only when files that make up its documents are under    *)
(* them.                                                                   *)
(***************************************************************************)
EXTENDS EntryLedger, Integers, FiniteSetsExt

CONSTANTS
  Value,                  \* amount of a file
  Tolerance               \* of an amount

Amount(files) == MapThenSumSet(LAMBDA f : Value[f], files)
Within(a, b, margin) == a - b \in -margin..margin

\* The files under a number make up documents of that number.
Balanced ==
  \A u \in Uds :
    LET under == Claimed(u.lc, {u.number})
    IN  \E docs \in SUBSET {v \in Uds : v.number = u.number /\ v.lc = u.lc} :
          Within(Amount(under), MapThenSumSet(LAMBDA v : v.value, docs),
                 Tolerance * Cardinality(docs))

\* The documents are balanced again when a batch has been entered.
WriteInBalance == Write /\ Balanced'

Holds(u) ==
  \E files \in SUBSET Claimed(u.lc, {u.number}) : Within(Amount(files), u.value, Tolerance)

SettleHeld(m) == Settle(m) /\ \A u \in Uds_of[m] : Holds(u)

BalancedInit == Init /\ Balanced

BalancedNext ==
  \/ WriteInBalance
  \/ \E f \in Files : Erase(f)
  \/ \E m \in Mails : SettleHeld(m)

BalancedSpec == BalancedInit /\ [][BalancedNext]_vars
=============================================================================
