------------------------- MODULE DashboardVerification -------------------------
(***************************************************************************)
(* Runs of bb_dashboard_verification over one workbook sheet.  A run       *)
(* groups the open rows of the sheet by LC family, looks every family up   *)
(* on one page of one browser session, compares what it reads with the ERP *)
(* and writes the result to the rows.  The page is shared state: it keeps  *)
(* what the last search left on it, its answers come late or in part, and  *)
(* the session ends without notice.  The sheet is read once, when a run    *)
(* starts, and others go on working on it.  The inside of the write phase  *)
(* is WriteBatch.                                                          *)
(***************************************************************************)
EXTENDS DashboardRules

CONSTANTS
  Rows,        \* rows of the sheet, by index
  Families,    \* LC families
  Row,         \* a row at first: family, UP No., UD line, SL.No., references
  Erp,         \* the ERP rows of a family
  Keys,        \* search keys
  LcKeys,      \* search keys made from the LC number of a family, in order
  RemarkKeys,  \* search keys made from a remark, in order
  Sites,       \* what the dashboard may know: keys to answers
  NoAnswer,    \* nothing on the page
  MaxEdits,    \* bound on the edits of others
  MaxFaults    \* bound on slow answers, failures and crashes

Compliant == {"OK", "OK (KGS)"}
Messages == {"invalid input", "invalid", "fetch failed", "no result", "mismatch"}

ASSUME RowAssumption ==
  /\ Rows \subseteq Nat /\ IsFiniteSet(Rows) /\ IsFiniteSet(Families)
  /\ \A r \in Rows :
       /\ DOMAIN Row[r] = {"family", "up", "ud", "sl", "references"}
       /\ Row[r].family \in Families /\ Row[r].up \in BOOLEAN
       /\ Row[r].ud \in {"none", "UD", "IP or EXP"} /\ Row[r].sl \in BOOLEAN
ASSUME KeyAssumption ==
  /\ \A f \in Families : ToSet(LcKeys[f]) \subseteq Keys /\ LcKeys[f] # <<>>
  /\ \A k \in DOMAIN RemarkKeys : ToSet(RemarkKeys[k]) \subseteq Keys
ASSUME ErpAssumption == \A f \in Families : IsErpRows(Erp[f])
ASSUME SiteAssumption ==
  \A answers \in Sites : DOMAIN answers \subseteq Keys /\ \A k \in DOMAIN answers : IsShown(answers[k])
ASSUME DashboardBounds == MaxEdits \in Nat /\ MaxFaults \in Nat

VARIABLES
  sheet,     \* the sheet: UP No., dashboard status and dates of each row
  site,      \* what the dashboard knows
  snap,      \* the sheet as the run has read it
  pc,        \* where the run stands
  queue,     \* families not decided yet
  keys,      \* search keys of the family that have not been tried
  session,   \* the browser session
  page,      \* its page
  result,    \* what the run decided on each family
  basis,     \* history: the key whose answer a decision was made from
  logins,    \* history: attempts of the run to log in
  edits,     \* edits of others so far
  faults     \* faults so far

browser == <<session, page, logins>>
run == <<snap, pc, queue, keys, result, basis>>
world == <<sheet, site>>
vars == <<world, run, browser, edits, faults>>
-----------------------------------------------------------------------------
(* The rows a run looks at. *)

\* Fault: a row that carries a diagnosis is left alone.
CandidateOnce(wb, r) == ~wb[r].up /\ Row[r].ud = "UD" /\ wb[r].status = "none"

Candidate(wb, r) ==
  /\ ~wb[r].up
  /\ Row[r].ud = "UD"
  /\ wb[r].status \notin Compliant

CandidateRows(wb, f) == {r \in Rows : Row[r].family = f /\ Candidate(wb, r)}

\* Families in the order of their first candidate row.
CandidateFamilies(wb) ==
  LET open == {f \in Families : CandidateRows(wb, f) # {}}
      Before(f) == {g \in open : Min(CandidateRows(wb, g)) < Min(CandidateRows(wb, f))}
  IN  [i \in 1..Cardinality(open) |-> CHOOSE f \in open : Cardinality(Before(f)) = i - 1]

References(f) == UNION {Row[r].references : r \in CandidateRows(snap, f)}

\* The families whose ERP rows make one aggregate, and the aggregates.
Comparable == {f \in Families : Consistent(Erp[f])}
Ours == [f \in Comparable |-> Aggregate(Erp[f])]

InputValid(f) == f \in Comparable /\ \A r \in CandidateRows(snap, f) : Row[r].sl

SearchKeys == [f \in Comparable |->
  IF Ours[f].remark = Nobody THEN LcKeys[f] ELSE RemarkKeys[Ours[f].remark]]

\* A family that can be looked up has something to search for.
ASSUME SearchAssumption ==
  \A f \in Comparable : SearchKeys[f] \in Seq(Keys) \ {<<>>}
-----------------------------------------------------------------------------
FreshPage == [at |-> "search", dirty |-> FALSE, shown |-> NoAnswer, from |-> NoAnswer,
              pending |-> {}]
NoResult == [decision |-> "none", status |-> "none", dates |-> FALSE]
NothingRead == [r \in Rows |-> [up |-> TRUE, status |-> "none", dates |-> FALSE]]

\* The end of a run: what it held in memory and its browser are gone.
Idle ==
  /\ snap' = NothingRead
  /\ pc' = "idle" /\ queue' = <<>> /\ keys' = <<>>
  /\ session' = "none" /\ page' = FreshPage /\ logins' = 0
  /\ result' = [f \in Families |-> NoResult]
  /\ basis' = [f \in Families |-> NoAnswer]

Init ==
  /\ sheet = [r \in Rows |-> [up |-> Row[r].up, status |-> "none", dates |-> FALSE]]
  /\ site \in Sites
  /\ snap = NothingRead
  /\ pc = "idle" /\ queue = <<>> /\ keys = <<>>
  /\ session = "none" /\ page = FreshPage /\ logins = 0
  /\ result = [f \in Families |-> NoResult]
  /\ basis = [f \in Families |-> NoAnswer]
  /\ edits = 0 /\ faults = 0

Fault == faults < MaxFaults /\ faults' = faults + 1

\* The sheet is read, and its candidate rows make the families of the run.
StartRun ==
  /\ pc = "idle" /\ CandidateFamilies(sheet) # <<>>
  /\ snap' = sheet
  /\ queue' = CandidateFamilies(sheet)
  /\ pc' = "family"
  /\ UNCHANGED <<world, keys, browser, result, basis, edits, faults>>

\* Fault: the keys that were not tried are left for the next family.
DecideKeepingKeys(r, from) ==
  /\ result' = [result EXCEPT ![Head(queue)] = r]
  /\ basis' = [basis EXCEPT ![Head(queue)] = from]
  /\ queue' = Tail(queue)
  /\ keys' = IF keys = <<>> THEN <<>> ELSE Tail(keys)
  /\ pc' = "family"
  /\ UNCHANGED snap

Decide(r, from) ==
  /\ result' = [result EXCEPT ![Head(queue)] = r]
  /\ basis' = [basis EXCEPT ![Head(queue)] = from]
  /\ queue' = Tail(queue)
  /\ keys' = <<>>
  /\ pc' = "family"
  /\ UNCHANGED snap

\* No session, no answer: a diagnosis and the ERP dates.
FetchError == [decision |-> "hard_block", status |-> "fetch failed", dates |-> TRUE]

\* A family without SL.No. or consistent ERP rows is not looked up.
BlockFamily ==
  /\ pc = "family" /\ queue # <<>> /\ ~InputValid(Head(queue))
  /\ Decide([decision |-> "hard_block", status |-> "invalid input", dates |-> FALSE], NoAnswer)
  /\ UNCHANGED <<world, browser, edits, faults>>
-----------------------------------------------------------------------------
(* The lookup of a family. *)

Lookup(s) ==
  pc = "family" /\ queue # <<>> /\ InputValid(Head(queue)) /\ session = s

StartSearch == pc' = "search" /\ keys' = SearchKeys[Head(queue)]

\* The failure that ended the session is the answer for every later family.
StayFailed ==
  /\ Lookup("failed")
  /\ Decide(FetchError, NoAnswer)
  /\ UNCHANGED <<world, browser, edits, faults>>

Login ==
  /\ Lookup("none")
  /\ session' = "open" /\ page' = FreshPage /\ logins' = logins + 1
  /\ StartSearch
  /\ UNCHANGED <<world, snap, queue, result, basis, edits, faults>>

\* Fault: the failure is forgotten, and the next family tries again.
LoginFailsOnce ==
  /\ Lookup("none") /\ Fault
  /\ logins' = logins + 1
  /\ Decide(FetchError, NoAnswer)
  /\ UNCHANGED <<world, session, page, edits>>

LoginFails ==
  /\ Lookup("none") /\ Fault
  /\ session' = "failed" /\ logins' = logins + 1
  /\ Decide(FetchError, NoAnswer)
  /\ UNCHANGED <<world, page, edits>>

\* Fault: the page is used as it is.
ResetSkipped ==
  /\ Lookup("open") /\ page.at = "search"
  /\ page' = page
  /\ StartSearch
  /\ UNCHANGED <<world, snap, queue, session, logins, result, basis, edits, faults>>

\* Back to an empty search page; its navigation drops what is under way.
Reset ==
  /\ Lookup("open") /\ page.at = "search"
  /\ page' = IF page.dirty THEN FreshPage ELSE page
  /\ StartSearch
  /\ UNCHANGED <<world, snap, queue, session, logins, result, basis, edits, faults>>

\* The page is closed or shows the login form.
SessionLost ==
  /\ Lookup("open") /\ page.at # "search"
  /\ session' = "failed"
  /\ Decide(FetchError, NoAnswer)
  /\ UNCHANGED <<world, page, logins, edits, faults>>

\* The page does not come back blank.
ResetFails ==
  /\ Lookup("open") /\ page.at = "search" /\ page.dirty /\ Fault
  /\ session' = "failed"
  /\ Decide(FetchError, NoAnswer)
  /\ UNCHANGED <<world, page, logins, edits>>

\* Type a key and press the button.
Submit ==
  /\ pc = "search" /\ keys # <<>> /\ page.at = "search"
  /\ page' = [page EXCEPT !.dirty = TRUE, !.pending = @ \cup {Head(keys)}]
  /\ pc' = "reading"
  /\ UNCHANGED <<world, snap, queue, keys, session, logins, result, basis, edits, faults>>

\* The search field is not there, or the page has gone.
SubmitFails ==
  /\ pc = "search" /\ keys # <<>>
  /\ IF page.at = "search" THEN Fault ELSE faults' = faults
  /\ session' = "failed"
  /\ Decide(FetchError, NoAnswer)
  /\ UNCHANGED <<world, page, logins, edits>>

\* What the dashboard has on a key, or the part that is there so far.
Answered(k) == k \in DOMAIN site
Parts(answer) ==
  {[answer EXCEPT !.erc = {}], [answer EXCEPT !.quantities = <<>>],
   [answer EXCEPT !.beneficiary = FALSE]}

Answer(k) ==
  /\ page.at = "search" /\ k \in page.pending
  /\ page' = [page EXCEPT !.pending = @ \ {k},
                          !.shown = IF Answered(k) THEN site[k] ELSE NoAnswer,
                          !.from = IF Answered(k) THEN k ELSE NoAnswer]
  /\ UNCHANGED <<world, run, session, logins, edits, faults>>

\* Some fields are filled when the reading times out.
AnswerInPart(k) ==
  /\ pc = "reading" /\ page.at = "search" /\ k \in page.pending /\ Answered(k) /\ Fault
  /\ \E part \in Parts(site[k]) \ {site[k]} : page' = [page EXCEPT !.shown = part, !.from = k]
  /\ UNCHANGED <<world, run, session, logins, edits>>

\* The session expires: the next request is answered with the login form.
Redirect ==
  /\ session = "open" /\ page.at = "search" /\ Fault
  /\ page' = [page EXCEPT !.at = "login"]
  /\ UNCHANGED <<world, run, session, logins, edits>>

\* Somebody closes the browser.
CloseBrowser ==
  /\ session = "open" /\ page.at = "search" /\ Fault
  /\ page' = [page EXCEPT !.at = "closed"]
  /\ UNCHANGED <<world, run, session, logins, edits>>

ReadAnswer ==
  /\ pc = "reading" /\ page.at = "search" /\ page.shown # NoAnswer
  /\ LET f == Head(queue)
     IN  Decide(Evaluation(References(f), Ours[f], page.shown), page.from)
  /\ UNCHANGED <<world, browser, edits, faults>>

\* Nothing on the page, because there is nothing or because it is late: the
\* next key is tried on the page as it is, and after the last there is no
\* result.
ReadNothing ==
  /\ pc = "reading" /\ page.at = "search" /\ page.shown = NoAnswer
  /\ IF Head(keys) \in page.pending THEN Fault ELSE faults' = faults
  /\ IF Len(keys) > 1
       THEN keys' = Tail(keys) /\ pc' = "search" /\ UNCHANGED <<snap, queue, result, basis>>
       ELSE Decide([decision |-> "warning", status |-> "no result", dates |-> TRUE], NoAnswer)
  /\ UNCHANGED <<world, browser, edits>>

\* A field cannot be read.  The session is given up only if the page has gone.
ReadFails ==
  /\ pc = "reading"
  /\ IF page.at = "search" THEN Fault ELSE faults' = faults
  /\ session' = IF page.at = "search" THEN session ELSE "failed"
  /\ Decide(FetchError, NoAnswer)
  /\ UNCHANGED <<world, page, logins, edits>>
-----------------------------------------------------------------------------
(* The end of a run. *)

Decided == pc = "family" /\ queue = <<>>

\* The rows to write: every candidate row of a decided family.
Targets == {r \in Rows : Candidate(snap, r) /\ result[Row[r].family].decision # "none"}

Written ==
  [r \in Rows |->
     IF r \in Targets
       THEN [sheet[r] EXCEPT !.status = result[Row[r].family].status,
                             !.dates = result[Row[r].family].dates \/ @]
       ELSE sheet[r]]

\* Fault: only the dates are compared.
DatesPrevalidated ==
  \A r \in Targets : result[Row[r].family].dates => sheet[r].dates = snap[r].dates

\* Every cell to be written still holds what the run has read of it.
Prevalidated ==
  \A r \in Targets :
    /\ sheet[r].status = snap[r].status
    /\ result[Row[r].family].dates => sheet[r].dates = snap[r].dates

\* The command ends with the write phase and closes the browser.
CommitWrites ==
  /\ Decided /\ Prevalidated
  /\ sheet' = Written
  /\ Idle
  /\ UNCHANGED <<site, edits, faults>>

\* One cell that somebody has changed blocks the whole batch.
WritesBlocked ==
  /\ Decided
  /\ IF Prevalidated THEN Fault ELSE faults' = faults
  /\ Idle
  /\ UNCHANGED <<world, edits>>

WritesUncertain ==
  /\ Decided /\ Prevalidated /\ Fault
  /\ sheet' \in {sheet, Written}
  /\ Idle
  /\ UNCHANGED <<site, edits>>

Crash ==
  /\ pc # "idle" /\ Fault
  /\ Idle
  /\ UNCHANGED <<world, edits>>
-----------------------------------------------------------------------------
(* What others do, between runs and while one is under way. *)

Edit ==
  /\ edits < MaxEdits /\ edits' = edits + 1
  /\ UNCHANGED <<run, browser, faults>>

\* The bank amends what its dashboard knows.
Amend ==
  /\ Edit
  /\ site' \in Sites
  /\ UNCHANGED sheet

\* A row gets its UP No.
FillUpNo(r) ==
  /\ Edit /\ ~sheet[r].up
  /\ sheet' = [sheet EXCEPT ![r].up = TRUE]
  /\ UNCHANGED site

\* Somebody clears the result of a row.
ClearStatus(r) ==
  /\ Edit /\ sheet[r].status # "none"
  /\ sheet' = [sheet EXCEPT ![r].status = "none"]
  /\ UNCHANGED site

\* Somebody verifies an open row by hand, or in a run of their own.
SettleRow(r) ==
  /\ Edit /\ Candidate(sheet, r)
  /\ sheet' = [sheet EXCEPT ![r].status = "OK", ![r].dates = TRUE]
  /\ UNCHANGED site
-----------------------------------------------------------------------------
Provider ==
  \/ StayFailed \/ Login \/ LoginFails \/ Reset \/ SessionLost \/ ResetFails
  \/ Submit \/ SubmitFails \/ ReadAnswer \/ ReadNothing \/ ReadFails
RunStep ==
  \/ BlockFamily \/ Provider
  \/ CommitWrites \/ WritesBlocked \/ WritesUncertain
Site == Redirect \/ CloseBrowser \/ \E k \in Keys : Answer(k) \/ AnswerInPart(k)
Others == Amend \/ \E r \in Rows : FillUpNo(r) \/ ClearStatus(r) \/ SettleRow(r)

Next == StartRun \/ RunStep \/ Site \/ Crash \/ Others

Spec == Init /\ [][Next]_vars

\* The operator starts runs as long as there are open rows, the command goes
\* on by itself, and the dashboard answers in the end.
FairSpec ==
  /\ Spec
  /\ WF_vars(StartRun)
  /\ WF_vars(RunStep)
  /\ \A k \in Keys : WF_vars(Answer(k))
=============================================================================
