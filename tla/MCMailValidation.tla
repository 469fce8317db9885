-------------------------- MODULE MCMailValidation --------------------------
(***************************************************************************)
(* Instances of MailValidation for TLC.  Family L1 has files of 30, 40 and *)
(* 70, so that a UD of 70 fits two groups of rows.                         *)
(***************************************************************************)
EXTENDS MailValidationProps

MCFiles == {"a", "b", "c", "g", "u"}
MCFamilies == {"L1", "L2"}
MCUnits == {"KGS", "YDS"}
Entry(lc, value, quantity, unit) ==
  [lc |-> lc, value |-> value, quantity |-> quantity, unit |-> unit, complete |-> TRUE]
MCErp == [f \in {"a", "b", "c", "g"} |->
  CASE f = "a" -> Entry("L1", 30, 3, "KGS")
    [] f = "b" -> Entry("L1", 40, 4, "KGS")
    [] f = "c" -> Entry("L1", 70, 7, "KGS")
    [] f = "g" -> Entry("L2", 50, 5, "YDS")]
MCNumbers == {"n1", "n2", "x1", "p1"}
MCPdfs == {"e1", "e2", "d1", "d2", "x", "p"}

Ud(mail, number, value, quantity, pdf) ==
  [mail |-> mail, kind |-> "UD", number |-> number, date |-> 1, value |-> value,
   quantity |-> [u \in MCUnits |-> IF u = "KGS" THEN quantity ELSE 0],
   lc |-> "L1", complete |-> TRUE, lcDateMatches |-> TRUE, pdf |-> pdf]
Cover(mail, kind, number, pdf) ==
  [mail |-> mail, kind |-> kind, number |-> number, date |-> 2, value |-> 0,
   quantity |-> [u \in MCUnits |-> 0], lc |-> "L2", complete |-> TRUE,
   lcDateMatches |-> TRUE, pdf |-> pdf]

\* Two export mails share a file, two UD mails a document; one mail brings an
\* EXP and an IP document, one a file that the register does not know.
MCMails == 1..6
MCMail == <<
  [workflow |-> "export_lc_sc", files |-> <<"a", "b">>, pdfs |-> <<"e1">>],
  [workflow |-> "export_lc_sc", files |-> <<"c", "b">>, pdfs |-> <<"e1", "e2">>],
  [workflow |-> "ud_ip_exp", files |-> <<"a">>, pdfs |-> <<"d1">>],
  [workflow |-> "ud_ip_exp", files |-> <<"c">>, pdfs |-> <<"d2", "d1">>],
  [workflow |-> "ud_ip_exp", files |-> <<"g">>, pdfs |-> <<"x", "p">>],
  [workflow |-> "export_lc_sc", files |-> <<"g", "u">>, pdfs |-> <<"e2">>]>>
MCDocs == 1..5
MCDoc == <<Ud(3, "n1", 70, 7, "d1"), Ud(4, "n2", 71, 7, "d2"), Ud(4, "n1", 70, 7, "d1"),
           Cover(5, "EXP", "x1", "x"), Cover(5, "IP", "p1", "p")>>

Row(f) == [BlankRow EXCEPT !.file = f, !.buyer = TRUE]
MCPlainSheets == {<<>>, <<Row("g")>>}

\* In the last one a row has been cleared above one in use.
MCSheets == MCPlainSheets \cup {<<BlankRow, Row("g")>>}

\* What FamilyLedgerTheorem and AnnotationsTheorem presuppose of documents,
\* register and workbook.
ASSUME LedgerPremises ==
  NumbersTell /\ AmountsTell /\ SheetsInBalance /\ PapersTell /\ SheetsTell
=============================================================================
