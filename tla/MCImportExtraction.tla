------------------------- MODULE MCImportExtraction -------------------------
(***************************************************************************)
(* Letters of four banks.  The first page prints every field; its text     *)
(* layer may lack or change one of them or be poor, the second page may    *)
(* add a mention, a third one is beyond the limit.  Scans are faithful, or *)
(* wrong or weak in one field, or blank.                                   *)
(***************************************************************************)
EXTENDS ImportExtractionProps

MCBanks == {"city", "mtb", "brac", "scb"}

Number(bank, serial, spaced, cue) ==
  [shows |-> "number", raw |-> [bank |-> bank, serial |-> serial, spaced |-> spaced],
   cue |-> cue, pos |-> 1]
Date(day, form) == [shows |-> "date", raw |-> [day |-> day, form |-> form], cue |-> "", pos |-> 2]
Money(code, amount) ==
  [shows |-> "money", raw |-> [code |-> code, amount |-> amount], cue |-> "", pos |-> 3]
Pi(maker, serial, slashes, pos) ==
  [shows |-> "pi", raw |-> [maker |-> maker, serial |-> serial, slashes |-> slashes],
   cue |-> "", pos |-> pos]
Export(prefix, body, wellFormed, cue) ==
  [shows |-> "export", raw |-> [prefix |-> prefix, body |-> body, wellFormed |-> wellFormed],
   cue |-> cue, pos |-> 6]

Amount(lens, seps) == [lens |-> lens, seps |-> seps, zero |-> FALSE]
Usual(bank) == Amount(<<2, 3, 2>>, <<GroupingOf(bank), DecimalOf(bank)>>)

CueOf(bank) == CASE bank = "brac" -> "clause" [] bank = "scb" -> "contract" [] OTHER -> "label"

Letter(bank) ==
  {Number(bank, 1, FALSE, "anchored"), Date(1, "yymmdd"), Money("USD", Usual(bank)),
   Pi("BTL", 1, TRUE, 4), Export("", 7, TRUE, CueOf(bank))}

\* Mentions that differ from the print in one respect.
Others(bank) ==
  {Number(bank, 1, TRUE, "anchored"), Number(bank, 2, FALSE, "anchored"),
   Number(bank, 2, FALSE, "loose"), Number("other", 1, FALSE, "loose"),
   Date(1, "d-mon-y"), Date(1, "dmony"), Date(2, "iso"), Date(0, "yymmdd"),
   Money("EUR", Usual(bank)), Money("USD", Amount(<<5, 2>>, <<DecimalOf(bank)>>)),
   Pi("BTL", 1, FALSE, 5), Pi("KYL", 2, TRUE, 7),
   Export("LC", 7, TRUE, "label"), Export("", 8, TRUE, CueOf(bank)),
   Export("SC", 7, TRUE, "contract"), Export("", 7, FALSE, CueOf(bank)),
   Export("", 7, TRUE, "continued")}

Text(mentions, message, open) ==
  [method |-> "text", blank |-> FALSE, message |-> message, banks |-> {}, openLabel |-> open,
   mentions |-> mentions, tokens |-> <<>>, mean |-> Sure]
NoText == [Text({}, FALSE, FALSE) EXCEPT !.blank = TRUE]

\* A scan with one confidence for all and another one for some; a PI is read
\* as two tokens.
Scan(mentions, message, conf, weak, low) ==
  LET Conf(m) == IF m \in weak THEN low ELSE conf
      Tokens(m) == IF m.shows = "pi"
                   THEN <<[of |-> Key(m), part |-> <<1, 2>>, conf |-> conf],
                          [of |-> Key(m), part |-> <<2, 2>>, conf |-> Conf(m)]>>
                   ELSE <<[of |-> Key(m), part |-> <<1, 1>>, conf |-> Conf(m)]>>
  IN  [method |-> "ocr", blank |-> FALSE, message |-> message, banks |-> {},
       openLabel |-> FALSE, mentions |-> mentions,
       tokens |-> FoldSet(LAMBDA m, ts : ts \o Tokens(m), <<>>, mentions), mean |-> conf]
BlankScan == [Scan({}, FALSE, 0, {}, 0) EXCEPT !.blank = TRUE]

Changed(mentions, other) == {m \in mentions : m.shows # other.shows} \cup {other}

ScansOf(bank) ==
  {BlankScan} \cup
  {Scan(Letter(bank), TRUE, 9800, {m}, low) : m \in Letter(bank), low \in {9300, 9500, 9600, 9800}} \cup
  {Scan(Changed(Letter(bank), other), TRUE, 9900, {other}, 9400) : other \in Others(bank)}

Page(text, reliable, scans) == [text |-> text, reliable |-> reliable, scans |-> scans]

FirstPages(bank) ==
  LET Layer(mentions) == Text(mentions, TRUE, Export("", 7, TRUE, CueOf(bank)) \notin mentions)
  IN  {Page(Layer(Letter(bank)), TRUE, {BlankScan})} \cup
      {Page(Layer(Letter(bank) \ {m}), TRUE, ScansOf(bank)) : m \in Letter(bank)} \cup
      {Page(Layer(Changed(Letter(bank), other)), TRUE, {BlankScan}) : other \in Others(bank)} \cup
      {Page(poor, FALSE, ScansOf(bank)) : poor \in {NoText, Text({Date(1, "yymmdd")}, TRUE, FALSE)}}

SecondPages(bank) ==
  {Page(Text({}, FALSE, FALSE), TRUE, {BlankScan})} \cup
  {Page(Text({other}, message, FALSE), TRUE, {BlankScan}) :
     other \in Others(bank), message \in BOOLEAN} \cup
  \* another bank is named beside a clause
  {Page([Text({Export("", 8, TRUE, "clause")}, TRUE, FALSE) EXCEPT !.banks = {other}],
        TRUE, {BlankScan}) : other \in {"brac", "scb"}} \cup
  {Page(NoText, FALSE, {Scan({other}, TRUE, conf, {}, 0) : conf \in {9400, 9800}}) :
     other \in Others(bank)}

\* Beyond the limit.
ThirdPage(bank) == Page(Text(Others(bank), TRUE, FALSE), TRUE, {BlankScan})

\* Every way to write an amount in either notation, and some wrong ones.
Amounts ==
  UNION {Writings(bank, n, m) : bank \in {"city", "mtb"}, n \in {1, 3, 4, 6, 8}, m \in 0..2} \cup
  {Amount(<<2, 2>>, <<"comma">>), Amount(<<2, 4, 2>>, <<"comma", "point">>), Amount(<<0, 2>>, <<"point">>),
   Amount(<<3, 3, 3>>, <<"comma", "point">>), [Amount(<<1, 2>>, <<"comma">>) EXCEPT !.zero = TRUE]}

Listed(S) == FoldSet(LAMBDA x, seq : Append(seq, x), <<>>, S)

First == [bank \in MCBanks |-> Listed(FirstPages(bank))]
Second == [bank \in MCBanks |-> Listed(SecondPages(bank))]
AmountSeq == Listed(Amounts)

\* By bank, first page and second page; or, with second page 0, by amount.
MCPdfs ==
  UNION {{bank} \X (DOMAIN First[bank]) \X (DOMAIN Second[bank]) : bank \in MCBanks} \cup
  {"city", "mtb"} \X (DOMAIN AmountSeq) \X {0}

MCPdf ==
  [d \in MCPdfs |->
     LET bank == d[1]
     IN  IF d[3] > 0
         THEN [name |-> <<bank, 1>>,
               pages |-> <<First[bank][d[2]], Second[bank][d[3]], ThirdPage(bank)>>]
         ELSE [name |-> <<bank, 2>>,
               pages |-> <<Page(Text(Changed(Letter(bank), Money("USD", AmountSeq[d[2]])),
                                     TRUE, FALSE), TRUE, {BlankScan})>>]]
=============================================================================
