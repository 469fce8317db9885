----------------------- MODULE ImportExtractionProps -----------------------
(***************************************************************************)
(* What the extraction of a letter promises.  The meaning of what is       *)
(* printed is defined here, apart from the way the code reads it.          *)
(***************************************************************************)
EXTENDS ImportExtraction

CONSTANT MaxDigits \* bound on the digits of an amount

ASSUME AmountAssumption ==
  /\ MaxDigits \in Nat
  /\ \A d \in Pdfs : \A r \in Readings(d) : \A m \in r.mentions :
       m.shows = "money" => Total(m.raw.amount.lens) <= MaxDigits

\* n digits in groups of three, or with the last three apart and before them
\* groups of two; the first group may have up to three digits.
Grouped(n, k, size) ==
  [i \in 1..k |-> IF i = k THEN 3 ELSE IF i > 1 THEN size ELSE n - 3 - (k - 2) * size]

Groupings(n) ==
  {<<n>>} \cup {g \in {Grouped(n, k, size) : k \in 2..n, size \in {2, 3}} : g[1] \in 1..3}

Same(s, n) == [i \in 1..n |-> s]

\* How a bank writes n digits and m decimals: grouped or not, and with a
\* decimal comma after whole amounts if the bank uses one.
DecimalOf(bank) == IF bank = "mtb" THEN "point" ELSE "comma"
GroupingOf(bank) == IF bank = "mtb" THEN "comma" ELSE "point"

Writings(bank, n, m) ==
  {[lens |-> lens \o tail.lens, seps |-> Same(GroupingOf(bank), Len(lens) - 1) \o tail.seps,
    zero |-> FALSE] :
     lens \in Groupings(n),
     tail \in IF m > 0 THEN {[lens |-> <<m>>, seps |-> <<DecimalOf(bank)>>]}
              ELSE {[lens |-> <<>>, seps |-> <<>>]} \cup
                   (IF bank = "mtb" THEN {} ELSE {[lens |-> <<0>>, seps |-> <<"comma">>]})}

\* mutual_trust_bank_limited prints up to three decimals and the others two.
AmountMeanings(bank, a) ==
  {v \in (1..MaxDigits) \X (0..IF bank = "mtb" THEN 3 ELSE 2) : a \in Writings(bank, v[1], v[2])}

Meaning(f, raw, bank) ==
  CASE f = "number" -> IF raw.spaced \/ raw.bank = "other" THEN {} ELSE {<<raw.bank, raw.serial>>}
    [] f = "date" -> IF raw.day = 0 \/ raw.form = "dmony" THEN {} ELSE {<<raw.day>>}
    [] f = "value" -> AmountMeanings(bank, raw.amount)
    [] f = "currency" -> {<<raw.code>>}
    [] f = "pi" -> IF raw.slashes THEN {<<raw.maker, raw.serial>>} ELSE {}
    [] f = "export" ->
         IF ~raw.wellFormed THEN {}
         ELSE {<<IF raw.prefix = "SC" THEN "SC" ELSE "LC", raw.body>>}

ShownAs(f) == IF f \in {"value", "currency"} THEN "money" ELSE f

\* The readings a field was looked for in, with their mentions of it.
In(rs, f) == UNION {{p} \X {m \in rs[p].mentions : m.shows = ShownAs(f)} : p \in DOMAIN rs}

Accepted == pc = "done" /\ decision \in {"pass", "warning"}
Values(f) == IF f = "pi" THEN ToSet(fields[f].canonical) ELSE {fields[f].canonical}
Issuer == fields["number"].canonical[1]

\* Every value of an accepted letter is what a text layer says or what a scan
\* read with the confidence the field requires, in the notation of the bank
\* that issued it: no weak reading and no other bank's notation decides.
ReadAsMeant ==
  Accepted =>
    \A f \in Fields : \A v \in Values(f) :
      \E rs \in {pages, extra} : \E c \in In(rs, f) :
        /\ v \in Meaning(f, c[2].raw, Issuer)
        /\ \/ rs[c[1]].method = "text"
           \/ MatchedConfidence(rs[c[1]], Key(c[2])) >= Threshold[f]

\* An accepted letter contradicts itself nowhere in the pages it was read
\* from: its dates, its amounts and its labelled numbers agree, and every PI of
\* its message is listed.
NothingContradicts ==
  Accepted =>
    /\ \A f \in {"date", "value", "currency"} : \A c \in In(pages, f) :
         Meaning(f, c[2].raw, Issuer) = {fields[f].canonical}
    /\ \A c \in In(pages, "number") :
         c[2].cue = "anchored" =>
           Meaning("number", c[2].raw, Issuer) = {fields["number"].canonical}
    /\ \A c \in In(pages, "pi") :
         pages[c[1]].message =>
           /\ Meaning("pi", c[2].raw, Issuer) # {}
           /\ Meaning("pi", c[2].raw, Issuer) \subseteq ToSet(fields["pi"].canonical)

\* A letter whose readings show every field in a place where it is looked
\* for, agree on it and are confident is accepted, whichever pages had to be
\* scanned for it.
InPlace(rs, f, c) ==
  CASE f = "pi" -> rs[c[1]].message
    [] f = "export" ->
         \/ c[2].cue \in {"contract", "label"}
         \/ c[2].cue = "continued" /\ c[1] - 1 \in DOMAIN rs /\ rs[c[1] - 1].openLabel
    [] OTHER -> TRUE

ClearIn(rs, f, bank) ==
  /\ \E c \in In(rs, f) : InPlace(rs, f, c)
  /\ \A c \in In(rs, f) :
       /\ Meaning(f, c[2].raw, bank) # {}
       /\ f # "pi" => \A d \in In(rs, f) : Meaning(f, d[2].raw, bank) = Meaning(f, c[2].raw, bank)
       /\ rs[c[1]].method = "ocr" => MatchedConfidence(rs[c[1]], Key(c[2])) >= Threshold[f]

ClearLettersPass ==
  pc = "done" =>
    \A bank \in Banks :
      (/\ \A c \in In(pages, "number") \cup In(extra, "number") : c[2].raw.bank = bank
       /\ \A f \in Fields :
            \/ ClearIn(pages, f, bank)
            \/ In(pages, f) = {} /\ ClearIn(extra, f, bank))
      => Accepted
=============================================================================
