--------------------------- MODULE MCImportTransfer ---------------------------
(***************************************************************************)
(* Instances of ImportTransfer for TLC: three mails that bring four        *)
(* documents, three rows.                                                  *)
(***************************************************************************)
EXTENDS ImportTransferProps, TLC

MCMails == 1..3
MCRelevant == 1..3
MCPIs == {"p1", "p2", "p3"}
MCRegister == [p \in MCPIs |->
  [rows |-> 1, valid |-> TRUE,
   amount |-> CASE p = "p1" -> 24 [] p = "p2" -> 26 [] p = "p3" -> 50,
   quantity |-> 7]]

\* One letter of credit in mail 1, sent again in mail 2 with another one that
\* competes for the same rows, and a third whose file name is taken.
MCDocs == 1..4
MCDoc == [d \in MCDocs |->
  [extraction |-> "pass", dated |-> TRUE, date |-> 5, currency |-> 1] @@
  CASE d = 1 -> [mail |-> 1, attachment |-> 1, file |-> 1, content |-> 1,
                 number |-> 11, value |-> 50, pis |-> <<"p1", "p2">>, lc |-> 1]
    [] d = 2 -> [mail |-> 2, attachment |-> 1, file |-> 1, content |-> 1,
                 number |-> 11, value |-> 50, pis |-> <<"p1", "p2">>, lc |-> 1]
    [] d = 3 -> [mail |-> 2, attachment |-> 2, file |-> 2, content |-> 2,
                 number |-> 12, value |-> 50, pis |-> <<"p3">>, lc |-> 1]
    [] d = 4 -> [mail |-> 3, attachment |-> 1, file |-> 2, content |-> 3,
                 number |-> 13, value |-> 24, pis |-> <<"p1">>, lc |-> 1]]

\* A mail of its own, to be entered again.
MCOneMail == 1..1
MCOneDoc == 1..1
MCFirstDoc == [d \in MCOneDoc |-> MCDoc[d]]

MCRows == 1..3
MCOrders == {<<3, 1, 2>>}
MCRow == [r \in MCRows |->
  [lc |-> 1, export |-> CASE r = 1 -> 100 [] r = 2 -> 70 [] r = 3 -> 60, text |-> r = 1]]
=============================================================================
