----------------------- MODULE MCDashboardVerification -----------------------
(***************************************************************************)
(* Five rows of three families: A is searched by its LC number and known   *)
(* under the second form of it, B is searched by the remark of its ERP     *)
(* rows, C has ERP rows of two buyers.  Of the rows of A the first names   *)
(* its buyer, the second has it in its folder, and the third repeats the   *)
(* first in another folder and does not count.                             *)
(***************************************************************************)
EXTENDS DashboardVerificationProps

MCRows == 2..6
MCFamilies == {"A", "B", "C"}
RowOf(family, ud, sl) ==
  [family |-> family, up |-> FALSE, ud |-> ud, sl |-> sl, references |-> {"ref" \o family}]
MCRow == [r \in MCRows |->
  CASE r = 2 -> RowOf("A", "UD", TRUE)
    [] r = 3 -> RowOf("B", "UD", TRUE)
    [] r = 4 -> RowOf("A", "UD", TRUE)
    [] r = 5 -> RowOf("C", "UD", TRUE)
    [] OTHER -> RowOf("B", "IP or EXP", TRUE)]

ErpRow(folder, buyer, remark, value, quantity) ==
  [folder |-> folder, buyer |-> buyer, lcDate |-> 1000, ship |-> 1100, expiry |-> 1150, remark |-> remark,
   value |-> value, quantity |-> quantity, weight |-> 30000]
MCErp == [f \in MCFamilies |->
  CASE f = "A" -> <<ErpRow(Nobody, "buyer1", Nobody, 40000, 20000), ErpRow("buyer1", "parent", Nobody, 60000, 40000),
                    ErpRow("buyer2", "buyer1", Nobody, 40000, 20000)>>
    [] f = "B" -> <<ErpRow(Nobody, "buyer2", "remark", 50000, 20000)>>
    [] OTHER -> <<ErpRow(Nobody, "buyer1", Nobody, 10000, 5000), ErpRow(Nobody, "buyer2", Nobody, 10000, 5000)>>]

MCKeys == {"lcA", "lc0A", "lcB", "remark", "0remark", "lcC"}
MCLcKeys == [f \in MCFamilies |->
  CASE f = "A" -> <<"lcA", "lc0A">> [] f = "B" -> <<"lcB">> [] OTHER -> <<"lcC">>]
MCRemarkKeys == [k \in {"remark"} |-> <<"remark", "0remark">>]

Shown(f, value, quantities) ==
  [beneficiary |-> TRUE, irc |-> {"buyer1", "buyer2"}, erc |-> {"buyer1", "buyer2"},
   lcDate |-> 1000, ship |-> 1120, expiry |-> 1160, value |-> value,
   quantities |-> quantities, references |-> {"ref" \o f}]

\* A agrees in every site; B is too low, malformed, or agrees by its weight.
SiteWith(answerOfB) == ("lc0A" :> Shown("A", 100000, <<20000, 40000>>)) @@ ("remark" :> answerOfB)
MCSites == {SiteWith(Shown("B", 40000, <<20000>>)),
            SiteWith(Shown("B", 50000, <<Malformed>>)),
            SiteWith(Shown("B", 50000, <<30000>>))}

\* Families around the bounds of every rule: first value and quantity with
\* dates that agree, then dates, buyers and references with few amounts.
MCErpCase(weight) ==
  [buyer |-> "buyer1", lcDate |-> 1000, ship |-> 1100, expiry |-> 1150, remark |-> Nobody,
   value |-> 100000, quantity |-> 60000, weight |-> weight]
MCAmounts(value, quantities) == Shown("A", value, quantities)
MCNumericCases ==
  {[references |-> {"refA"}, erp |-> MCErpCase(weight), shown |-> MCAmounts(value, quantities)] :
     weight \in {Blank, 60000, 60081, 62000},
     value \in {Blank, Malformed, 99998, 99999, 100000, 100001, 100002, 109999, 110000, 110002},
     quantities \in {<<>>, <<Blank>>, <<Malformed, 60000>>} \cup
       {<<20000, Blank, q>> : q \in {39998, 39999, 40001, 40002, 40080, 40082, 41999, 42000,
                                     42001, 42080, 47999, 48000, 48001, 48002, 48003}}}
MCOtherCases ==
  {[references |-> {"refA", "refC"}, erp |-> [MCErpCase(62000) EXCEPT !.lcDate = lcDate, !.expiry = 1100 + window],
    shown |-> [MCAmounts(value, <<60000>>) EXCEPT
      !.beneficiary = dates[1] # 1101, !.irc = sections[1], !.erc = sections[2], !.lcDate = shownDate,
      !.ship = dates[1], !.expiry = dates[2], !.references = references]] :
     lcDate \in {1000, Malformed}, shownDate \in {1000, 1001, Malformed, Blank},
     window \in {4, 5, 90, 91},
     dates \in {<<1099, 1190>>, <<1100, 1190>>, <<1101, 1190>>, <<1350, 1355>>, <<1350, 1354>>,
               <<1351, 1400>>, <<1100, 1191>>, <<1100, 1103>>, <<Blank, 1190>>, <<1100, Malformed>>},
     sections \in {<<{}, {}>>, <<{"buyer1"}, {}>>, <<{"buyer1"}, {"buyer2"}>>, <<{"buyer2"}, {}>>,
                  <<{"buyer2", "buyer1"}, {"buyer1"}>>},
     references \in {{}, {"refB"}, {"refA", "refB"}}, value \in {99000, 100000}}
MCCases == MCNumericCases \cup MCOtherCases
=============================================================================
