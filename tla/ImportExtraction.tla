-------------------------- MODULE ImportExtraction --------------------------
(***************************************************************************)
(* The extraction of a back-to-back letter of credit from a PDF: the text  *)
(* layer of its first pages, OCR of the pages whose layer is poor, a       *)
(* second OCR for fields that were found nowhere, and the decision on each *)
(* field and on the letter.  A page is what is printed on it as a text     *)
(* layer or a scan reads it; patterns of wording are reduced to what they  *)
(* tell apart.  Confidences are in hundredths of a percent.                *)
(***************************************************************************)
EXTENDS ImportAmounts, Functions

CONSTANTS
  PageLimit,     \* pages that are inspected
  Pdfs,          \* letters that may be read
  Pdf            \* a letter: the stem of its file name and its pages

Fields == {"number", "date", "value", "currency", "pi", "export"}
Shown == {"number", "date", "money", "pi", "export"}

\* Required confidence of a field that was read by OCR.
Threshold ==
  [number |-> 9800, date |-> 9600, value |-> 9600, currency |-> 9600, pi |-> 9500,
   export |-> 9800]

Sure == 10000

DateForms == {"yymmdd", "iso", "slashes", "dashes", "dots", "d-mon-y", "d mon y"}

\* What the patterns find: a number of a bank that is known or of another, a
\* date in a form that is read or one that is not.
IsMention(m) ==
  /\ m.shows \in Shown /\ m.pos \in Nat
  /\ m.shows = "number" => m.raw.bank \in Banks \cup {"other"} /\ m.raw.spaced \in BOOLEAN
  /\ m.shows = "date" => m.raw.form \in DateForms \cup {"dmony"} /\ m.raw.day \in Nat
  /\ m.shows = "money" => IsAmount(m.raw.amount)
  /\ m.shows = "pi" => m.raw.slashes \in BOOLEAN
  /\ m.shows = "export" => m.raw.prefix \in {"", "LC", "SC"} /\ m.raw.wellFormed \in BOOLEAN

\* A reading of a page: the mentions of fields it shows and, of a scan, the
\* tokens it is made of.  A token is all of a value or one of its parts.
IsReading(r) ==
  /\ r.method \in {"text", "ocr"}
  /\ r.blank \in BOOLEAN /\ (r.blank => r.mentions = {})
  /\ r.message \in BOOLEAN                 \* a page of the SWIFT message
  /\ r.banks \subseteq Banks               \* banks named on it
  /\ r.openLabel \in BOOLEAN               \* ends at the label of the export LC
  /\ IsFiniteSet(r.mentions) /\ \A m \in r.mentions : IsMention(m)
  /\ \A m, n \in r.mentions : {m.shows, n.shows} = {"pi"} /\ m.pos = n.pos => m = n
  /\ r.mean \in 0..Sure
  /\ Len(r.tokens) \in Nat /\ DOMAIN r.tokens = 1..Len(r.tokens)
  /\ \A i \in DOMAIN r.tokens :
       r.tokens[i].conf \in 0..Sure /\ r.tokens[i].part[1] \in 1..r.tokens[i].part[2]

ASSUME LimitAssumption == PageLimit \in Nat \ {0}

\* What may be read of a letter.
Readings(d) ==
  UNION {{Pdf[d].pages[i].text} \cup Pdf[d].pages[i].scans : i \in DOMAIN Pdf[d].pages}

ASSUME PdfAssumption ==
  \A d \in Pdfs :
    /\ Len(Pdf[d].pages) \in Nat \ {0} /\ DOMAIN Pdf[d].pages = 1..Len(Pdf[d].pages)
    /\ \A i \in DOMAIN Pdf[d].pages :
         /\ Pdf[d].pages[i].reliable \in BOOLEAN
         /\ Pdf[d].pages[i].text.method = "text"
         /\ \A r \in Pdf[d].pages[i].scans : r.method = "ocr"
    /\ \A r \in Readings(d) : IsReading(r)

VARIABLES
  pdf,        \* the letter
  pc,         \* how far its extraction is
  pages,      \* the reading selected for each page
  extra,      \* readings of the second OCR
  groups,     \* the candidates of each field
  fields,     \* what was decided on each field
  decision    \* and on the letter

vars == <<pdf, pc, pages, extra, groups, fields, decision>>
-----------------------------------------------------------------------------
(* The confidence of a value on a page. *)

\* Values that differ in separators or case only have one key.
Key(m) ==
  CASE m.shows = "number" -> <<"number", m.raw.bank, m.raw.serial>>
    [] m.shows = "date" -> <<"date", m.raw.day, m.raw.form>>
    [] m.shows = "money" -> <<"money", m.raw.code, m.raw.amount.lens>>
    [] m.shows = "pi" -> <<"pi", m.raw.maker, m.raw.serial>>
    [] m.shows = "export" -> <<"export", m.raw.body>>

Whole(r, key) == {i \in DOMAIN r.tokens : r.tokens[i].of = key /\ r.tokens[i].part = <<1, 1>>}

\* Tokens in a row that are the parts of the value.
Runs(r, key) ==
  {w \in (DOMAIN r.tokens) \X (DOMAIN r.tokens) :
     /\ w[1] < w[2]
     /\ \A i \in w[1]..w[2] : /\ r.tokens[i].of = key
                              /\ r.tokens[i].part = <<i - w[1] + 1, w[2] - w[1] + 1>>}

Confidences(r, w) == [i \in 1..(w[2] - w[1] + 1) |-> r.tokens[w[1] + i - 1].conf]

\* Fault: the mean of the tokens is not divided.
SumOf(r, w) == Total(Confidences(r, w))

\* The mean, rounded.
MeanOf(r, w) ==
  LET n == Len(Confidences(r, w)) IN (2 * Total(Confidences(r, w)) + n) \div (2 * n)

\* The best token that holds the value, else the first tokens it is put
\* together from, else the page.
MatchedConfidence(r, key) ==
  IF r.method = "text" THEN r.mean
  ELSE IF Whole(r, key) # {} THEN Max({r.tokens[i].conf : i \in Whole(r, key)})
  ELSE IF Runs(r, key) # {}
    THEN MeanOf(r, CHOOSE w \in Runs(r, key) : \A v \in Runs(r, key) : w[1] <= v[1])
  ELSE r.mean
-----------------------------------------------------------------------------
(* Candidates: mentions with the page they are on and how it was read. *)

Candidate(p, r, m) ==
  [raw |-> m.raw, page |-> p, pos |-> m.pos, method |-> r.method,
   conf |-> MatchedConfidence(r, Key(m))]

Mentions(rs, shows) ==
  {c \in UNION {{p} \X rs[p].mentions : p \in DOMAIN rs} : c[2].shows = shows}

CandidatesOf(rs, marks) == {Candidate(c[1], rs[c[1]], c[2]) : c \in marks}

\* Numbers after the label of the message go before numbers elsewhere.
NumberCandidates(rs) ==
  LET all == Mentions(rs, "number")
      anchored == {c \in all : c[2].cue = "anchored"}
  IN  CandidatesOf(rs, IF anchored # {} THEN anchored ELSE all)

DateCandidates(rs) == CandidatesOf(rs, Mentions(rs, "date"))

\* Currency and amount of one field of the message.
MoneyCandidates(rs) == CandidatesOf(rs, Mentions(rs, "money"))

\* Seller PIs count on the pages of the message only.
PiCandidates(rs) ==
  CandidatesOf(rs, {c \in Mentions(rs, "pi") : rs[c[1]].message})

Identify(rs, bank) ==
  \E p \in DOMAIN rs :
    \/ bank \in rs[p].banks
    \/ \E m \in rs[p].mentions :
         /\ m.shows = "number"
         /\ m.raw.bank = bank /\ ~m.raw.spaced

\* The value continues a label at the end of the page before.
Continues(rs, c) ==
  /\ c[2].cue = "continued"
  /\ c[1] - 1 \in DOMAIN rs /\ rs[c[1] - 1].openLabel

\* BRAC: the first clause is authoritative.
BracPrimary(rs) ==
  IF ~Identify(rs, "brac") THEN {}
  ELSE LET clauses == {c \in Mentions(rs, "export") : c[2].cue = "clause"}
       IN  {c \in clauses :
              \A d \in clauses : c[1] < d[1] \/ (c[1] = d[1] /\ c[2].pos <= d[2].pos)}

ScbCandidates(rs) ==
  IF ~Identify(rs, "scb") THEN {}
  ELSE {c \in Mentions(rs, "export") : c[2].cue = "contract" \/ Continues(rs, c)}

\* Fault: a value on the page after its label is not found.
LabelledOnOnePage(rs) == {c \in Mentions(rs, "export") : c[2].cue \in {"label", "contract"}}

\* The other banks: on one page, else across two.
LabelledExport(rs) ==
  LET whole == {c \in Mentions(rs, "export") : c[2].cue \in {"label", "contract"}}
  IN  IF whole # {} THEN whole
      ELSE {c \in Mentions(rs, "export") : Continues(rs, c)}

ExportCandidates(rs) ==
  LET brac == BracPrimary(rs)
      scb == ScbCandidates(rs)
  IN  CandidatesOf(rs, IF brac # {} THEN brac ELSE IF scb # {} THEN scb
                       ELSE LabelledExport(rs))

CollectAll(rs) ==
  [number |-> NumberCandidates(rs), date |-> DateCandidates(rs),
   value |-> MoneyCandidates(rs), currency |-> MoneyCandidates(rs),
   pi |-> PiCandidates(rs), export |-> ExportCandidates(rs)]
-----------------------------------------------------------------------------
(* Canonical values. *)

CanonicalNumber(raw) ==
  IF raw.spaced \/ raw.bank \notin Banks THEN None ELSE <<raw.bank, raw.serial>>

\* Day 0 is no day of the calendar.
CanonicalDate(raw) == IF raw.form \in DateForms /\ raw.day # 0 THEN <<raw.day>> ELSE None

CanonicalPi(raw) == IF raw.slashes THEN <<raw.maker, raw.serial>> ELSE None

\* A number without prefix is an LC by its label; leading zeros go.
CanonicalExport(raw) ==
  IF raw.wellFormed THEN <<IF raw.prefix = "" THEN "LC" ELSE raw.prefix, raw.body>> ELSE None

Canonical(f, raw, bank) ==
  CASE f = "number" -> CanonicalNumber(raw)
    [] f = "date" -> CanonicalDate(raw)
    [] f = "value" -> CanonicalAmount(raw.amount, bank)
    [] f = "currency" -> <<raw.code>>
    [] f = "pi" -> CanonicalPi(raw)
    [] f = "export" -> CanonicalExport(raw)
-----------------------------------------------------------------------------
(* The decision on a field. *)

Resolved(canonical, status) == [canonical |-> canonical, status |-> status]

BelowThreshold(f, c) == c.method = "ocr" /\ c.conf < Threshold[f]

\* Fault: the first candidate decides.
FirstReading(f, cs, bank) ==
  IF cs = {} THEN Resolved(None, "missing")
  ELSE LET c == CHOOSE c \in cs : \A d \in cs : c.page <= d.page
       IN  Resolved(Canonical(f, c.raw, bank),
                    IF Canonical(f, c.raw, bank) = None THEN "ambiguous"
                    ELSE IF BelowThreshold(f, c) THEN "unsure" ELSE "pass")

\* The first page decides, its text before its scan.  Of several spellings
\* of a value on one page the one that sorts first does, here any.
Selected(cs) ==
  CHOOSE c \in cs :
    \A d \in cs : \/ c.page < d.page
                  \/ c.page = d.page /\ (c.method = "text" \/ d.method = "ocr")

\* One value, nothing malformed, and read with confidence.
ResolveField(f, cs, bank) ==
  LET values == {Canonical(f, c.raw, bank) : c \in cs}
  IN  IF cs = {} THEN Resolved(None, "missing")
      ELSE IF None \in values \/ Cardinality(values) # 1 THEN Resolved(None, "ambiguous")
      ELSE Resolved(CHOOSE v \in values : TRUE,
                    IF BelowThreshold(f, Selected(cs)) THEN "unsure" ELSE "pass")

\* The distinct PIs in the order of the document.
Before(c, d) == c.page < d.page \/ (c.page = d.page /\ c.pos < d.pos)
PiValues(cs) == {CanonicalPi(c.raw) : c \in cs} \ {None}
FirstOf(cs, v) ==
  CHOOSE c \in cs : /\ CanonicalPi(c.raw) = v
                    /\ \A d \in cs : CanonicalPi(d.raw) = v => ~Before(d, c)
Earlier(cs, v) == {w \in PiValues(cs) : Before(FirstOf(cs, w), FirstOf(cs, v))}
InOrder(cs) ==
  [i \in 1..Cardinality(PiValues(cs)) |->
     CHOOSE v \in PiValues(cs) : Cardinality(Earlier(cs, v)) = i - 1]

\* Each of them was read in a text layer or with confidence, none is malformed.
ResolvePis(cs) ==
  LET Backed(c) == \E d \in cs : /\ CanonicalPi(d.raw) = CanonicalPi(c.raw)
                                 /\ ~BelowThreshold("pi", d)
  IN  Resolved(InOrder(cs),
               IF cs = {} THEN "missing"
               ELSE IF \E c \in cs : CanonicalPi(c.raw) = None THEN "ambiguous"
               ELSE IF \E c \in cs : ~Backed(c) THEN "unsure"
               ELSE "pass")

\* The bank is told by the number alone.
DetectBank(number) == IF number.canonical = None THEN "unknown" ELSE number.canonical[1]

ResolveAll(gs) ==
  LET number == ResolveField("number", gs.number, "unknown")
      bank == DetectBank(number)
  IN  [f \in Fields |->
         IF f = "number" THEN number
         ELSE IF f = "pi" THEN ResolvePis(gs.pi)
         ELSE ResolveField(f, gs[f], bank)]

\* The stem of the file name should be the number.
FilenameMatches(name, number) == name = number.canonical

Decision(fs, name) ==
  IF (\E f \in Fields : fs[f].status # "pass") \/ DetectBank(fs.number) = "unknown"
    THEN "hard_block"
  ELSE IF ~FilenameMatches(name, fs.number) THEN "warning"
  ELSE "pass"
-----------------------------------------------------------------------------
(* The steps of an extraction. *)

Inspected == DOMAIN pages
ReliablePages == {p \in Inspected : Pdf[pdf].pages[p].reliable}

\* What OCR may make of some pages.
Scans(ps) ==
  {s \in [ps -> UNION {Pdf[pdf].pages[p].scans : p \in ps}] : \A p \in ps : s[p] \in Pdf[pdf].pages[p].scans}

ReadTextLayer ==
  /\ pc = "open"
  /\ pages' = [p \in 1..Min({PageLimit, Len(Pdf[pdf].pages)}) |-> Pdf[pdf].pages[p].text]
  /\ pc' = "scan"
  /\ UNCHANGED <<pdf, extra, groups, fields, decision>>

\* Pages with a poor layer are scanned; a scan without text leaves the layer.
ScanPoorPages ==
  /\ pc = "scan"
  /\ \E s \in Scans(Inspected \ ReliablePages) :
       pages' = [p \in Inspected |-> IF p \in DOMAIN s /\ ~s[p].blank THEN s[p] ELSE pages[p]]
  /\ pc' = "collect"
  /\ UNCHANGED <<pdf, extra, groups, fields, decision>>

Collect ==
  /\ pc = "collect"
  /\ groups' = CollectAll(pages)
  /\ pc' = "supplement"
  /\ UNCHANGED <<pdf, pages, extra, fields, decision>>

Missing == {f \in Fields : groups[f] = {}}

\* Only fields that were found nowhere take the candidates of the second OCR.
Supplemented(gs, more) ==
  [f \in Fields |-> IF gs[f] = {} /\ more[f] # {} THEN more[f] ELSE gs[f]]

ScanReliablePages ==
  /\ pc = "supplement"
  /\ Missing # {} /\ ReliablePages # {}
  /\ \E s \in Scans(ReliablePages) :
       /\ extra' = s
       /\ groups' = Supplemented(groups, CollectAll(s))
  /\ pc' = "resolve"
  /\ UNCHANGED <<pdf, pages, fields, decision>>

NothingToScan ==
  /\ pc = "supplement"
  /\ Missing = {} \/ ReliablePages = {}
  /\ pc' = "resolve"
  /\ UNCHANGED <<pdf, pages, extra, groups, fields, decision>>

Resolve ==
  /\ pc = "resolve"
  /\ fields' = ResolveAll(groups)
  /\ decision' = Decision(ResolveAll(groups), Pdf[pdf].name)
  /\ pc' = "done"
  /\ UNCHANGED <<pdf, pages, extra, groups>>

Init ==
  /\ pdf \in Pdfs
  /\ pc = "open"
  /\ pages = <<>> /\ extra = <<>>
  /\ groups = [f \in Fields |-> {}]
  /\ fields = [f \in Fields |-> Resolved(None, "missing")]
  /\ decision = "open"

Next ==
  \/ ReadTextLayer
  \/ ScanPoorPages
  \/ Collect
  \/ ScanReliablePages
  \/ NothingToScan
  \/ Resolve

Spec == Init /\ [][Next]_vars

TypeOK ==
  /\ pdf \in Pdfs
  /\ pc \in {"open", "scan", "collect", "supplement", "resolve", "done"}
  /\ \A p \in DOMAIN pages : IsReading(pages[p])
  /\ \A p \in DOMAIN extra : IsReading(extra[p]) /\ extra[p].method = "ocr"
  /\ \A f \in Fields :
       /\ \A c \in groups[f] : c.page \in 1..PageLimit /\ c.conf \in 0..Sure
       /\ fields[f].status \in {"pass", "missing", "ambiguous", "unsure"}
  /\ decision \in {"open", "hard_block", "warning", "pass"}
=============================================================================
