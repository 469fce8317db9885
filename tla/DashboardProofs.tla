--------------------------- MODULE DashboardProofs ---------------------------
(***************************************************************************)
(* Proofs about DashboardVerification: types, one login, rows that are     *)
(* settled or read OK, lookups that stay apart, and the comparison with    *)
(* its documented rules and its report, for any sheet, any families, any   *)
(* amounts and dates, and any number of faults and edits.                  *)
(***************************************************************************)
EXTENDS DashboardVerificationProps, Induction

-----------------------------------------------------------------------------
(* One login. *)

\* The login is counted with the session it opened or failed to open, and a
\* search needs an open session.
LoginInv ==
  /\ logins \in {0, 1}
  /\ session \in {"none", "open", "failed"}
  /\ session = "none" => logins = 0
  /\ pc \in {"idle", "family", "search", "reading"}
  /\ pc \in {"search", "reading"} => session = "open"
  /\ pc = "idle" => session = "none"

\* The invariant is kept by every step (the latch of the session failure).
LEMMA NextLoginInv == LoginInv /\ [Next]_vars => LoginInv'
<1> SUFFICES ASSUME LoginInv, [Next]_vars PROVE LoginInv'
  OBVIOUS
<1> USE DEF LoginInv
<1>1. CASE StartRun
  BY <1>1 DEF StartRun, browser
<1>2. CASE BlockFamily \/ StayFailed \/ SessionLost \/ ResetFails \/ SubmitFails
  BY <1>2 DEF BlockFamily, StayFailed, SessionLost, ResetFails, SubmitFails, Lookup,
              Decide, browser
<1>3. CASE Login \/ LoginFails
  BY <1>3 DEF Login, LoginFails, Lookup, StartSearch, Decide, browser
<1>4. CASE Reset \/ Submit
  BY <1>4 DEF Reset, Submit, Lookup, StartSearch, browser
<1>5. CASE ReadAnswer \/ ReadFails
  BY <1>5 DEF ReadAnswer, ReadFails, Decide, browser
<1>6. CASE ReadNothing
  BY <1>6 DEF ReadNothing, Decide, browser
<1>7. CASE CommitWrites \/ WritesBlocked \/ WritesUncertain \/ Crash
  BY <1>7 DEF CommitWrites, WritesBlocked, WritesUncertain, Crash, Idle
<1>8. CASE Site
  BY <1>8 DEF Site, Redirect, CloseBrowser, Answer, AnswerInPart, run
<1>9. CASE Others
  BY <1>9 DEF Others, Amend, FillUpNo, ClearStatus, SettleRow, Edit, run, browser
<1>10. CASE UNCHANGED vars
  BY <1>10 DEF vars, run, browser
<1> QED
  BY <1>1, <1>2, <1>3, <1>4, <1>5, <1>6, <1>7, <1>8, <1>9, <1>10
  DEF Next, RunStep, Provider

\* A run logs in at most once, and nothing is searched in a session that was
\* lost (CTGBBDashboardProvider._ensure_session).
THEOREM OneLoginTheorem == Spec => []OneLogin
<1>1. Init => LoginInv
  BY DEF Init, LoginInv
<1>2. LoginInv => OneLogin
  BY DEF LoginInv, OneLogin
<1> QED
  BY <1>1, <1>2, NextLoginInv, PTL DEF Spec
-----------------------------------------------------------------------------
(* Rows that read OK. *)

\* Results carry dates when they are compliant, and so do rows.
DatesInv ==
  /\ result = [f \in Families |-> result[f]]
  /\ \A f \in Families : result[f].status \in Compliant => result[f].dates
  /\ sheet = [r \in Rows |-> sheet[r]]
  /\ \A r \in Rows :
       /\ sheet[r] = [up |-> sheet[r].up, status |-> sheet[r].status, dates |-> sheet[r].dates]
       /\ sheet[r].status \in Compliant => sheet[r].dates

\* What the comparison decides comes with the dates, unless the answer cannot be
\* read.
LEMMA EvaluationCarriesDates ==
  ASSUME NEW references, NEW erp, NEW shown
  PROVE  LET r == Evaluation(references, erp, shown)
         IN  r.status \in Compliant => r.dates
  BY DEF Evaluation, Compliant

\* A decision with dates keeps the results.
LEMMA DecideKeepsResults ==
  ASSUME DatesInv, NEW r, NEW from, r.status \in Compliant => r.dates, Decide(r, from)
  PROVE  /\ result' = [f \in Families |-> result'[f]]
         /\ \A f \in Families : result'[f].status \in Compliant => result'[f].dates
  BY DEF Decide, DatesInv

\* Writing the results keeps the rows.
LEMMA WrittenKeepsDates ==
  ASSUME DatesInv, NEW r \in Rows, Row[r].family \in Families
  PROVE  /\ Written[r] = [up |-> Written[r].up, status |-> Written[r].status,
                           dates |-> Written[r].dates]
         /\ Written[r].status \in Compliant => Written[r].dates
<1> DEFINE of == result[Row[r].family]
<1>1. CASE r \in Targets
  <2> DEFINE dates == of.dates \/ sheet[r].dates
  <2>1. Written[r] = [sheet[r] EXCEPT !.status = of.status, !.dates = dates]
    BY <1>1 DEF Written
  <2>2. of.status \in Compliant => dates
    BY DEF DatesInv
  <2>3. sheet[r] = [up |-> sheet[r].up, status |-> sheet[r].status, dates |-> sheet[r].dates]
    BY DEF DatesInv
  <2> HIDE DEF dates
  <2>4. Written[r] = [up |-> sheet[r].up, status |-> of.status, dates |-> dates]
    BY <2>1, <2>3
  <2> QED
    BY <2>2, <2>4
<1>2. CASE r \notin Targets
  BY <1>2 DEF Written, DatesInv
<1> QED
  BY <1>1, <1>2

\* The invariant is kept by every step (the operations of a family).
LEMMA NextDatesInv == DatesInv /\ [Next]_vars => DatesInv'
<1> SUFFICES ASSUME DatesInv, [Next]_vars PROVE DatesInv'
  OBVIOUS
<1>0. \A r \in Rows : Row[r].family \in Families
  BY RowAssumption
<1>1. ASSUME sheet' = sheet,
             \/ result' = result
             \/ \E r, from : Decide(r, from) /\ (r.status \in Compliant => r.dates)
             \/ Idle
      PROVE  DatesInv'
  <2>1. /\ result' = [f \in Families |-> result'[f]]
        /\ \A f \in Families : result'[f].status \in Compliant => result'[f].dates
    <3>1. CASE result' = result
      BY <3>1 DEF DatesInv
    <3>2. CASE \E r, from : Decide(r, from) /\ (r.status \in Compliant => r.dates)
      BY <3>2, DecideKeepsResults
    <3>3. CASE Idle
      BY <3>3 DEF Idle, NoResult, Compliant
    <3> QED
      BY <1>1, <3>1, <3>2, <3>3
  <2> QED
    BY <1>1, <2>1 DEF DatesInv
<1>2. ASSUME Idle, sheet' = Written PROVE DatesInv'
  <2>1. /\ result' = [f \in Families |-> result'[f]]
        /\ \A f \in Families : result'[f].status \in Compliant => result'[f].dates
    BY <1>2 DEF Idle, NoResult, Compliant
  <2>2. sheet' = [r \in Rows |-> sheet'[r]]
    BY <1>2 DEF Written
  <2>3. \A r \in Rows :
          /\ sheet'[r] = [up |-> sheet'[r].up, status |-> sheet'[r].status,
                          dates |-> sheet'[r].dates]
          /\ sheet'[r].status \in Compliant => sheet'[r].dates
    BY <1>0, <1>2, WrittenKeepsDates
  <2> QED
    BY <2>1, <2>2, <2>3 DEF DatesInv
<1>3. CASE CommitWrites
  BY <1>2, <1>3 DEF CommitWrites
<1>4. CASE WritesUncertain
  BY <1>1, <1>2, <1>4 DEF WritesUncertain
<1>5. CASE WritesBlocked \/ Crash
  BY <1>1, <1>5 DEF WritesBlocked, Crash, world
<1>6. CASE StartRun \/ Login \/ Reset \/ Submit \/ Site
  BY <1>1, <1>6 DEF StartRun, Login, Reset, Submit, Site, Redirect, CloseBrowser, Answer,
                    AnswerInPart, world, run
<1>7. CASE BlockFamily \/ StayFailed \/ LoginFails \/ SessionLost \/ ResetFails
           \/ SubmitFails \/ ReadFails
  <2> DEFINE invalid == [decision |-> "hard_block", status |-> "invalid input", dates |-> FALSE]
  <2>1. sheet' = sheet /\ (Decide(FetchError, NoAnswer) \/ Decide(invalid, NoAnswer))
    BY <1>7 DEF BlockFamily, StayFailed, LoginFails, SessionLost, ResetFails, SubmitFails,
                ReadFails, world
  <2>2. FetchError.dates /\ invalid.status \notin Compliant
    BY DEF FetchError, Compliant
  <2> QED
    BY <1>1, <2>1, <2>2
<1>8. CASE ReadAnswer
  BY <1>1, <1>8, EvaluationCarriesDates DEF ReadAnswer, world
<1>9. CASE ReadNothing
  <2> DEFINE none == [decision |-> "warning", status |-> "no result", dates |-> TRUE]
  <2>1. sheet' = sheet /\ (result' = result \/ Decide(none, NoAnswer))
    BY <1>9 DEF ReadNothing, world
  <2>2. none.dates
    OBVIOUS
  <2> QED
    BY <1>1, <2>1, <2>2
<1>10. CASE Amend
  BY <1>1, <1>10 DEF Amend, Edit, run
<1>11. CASE \E r \in Rows : FillUpNo(r) \/ ClearStatus(r) \/ SettleRow(r)
  <2>1. PICK q \in Rows : FillUpNo(q) \/ ClearStatus(q) \/ SettleRow(q)
    BY <1>11
  <2>2. result' = result
    BY <2>1 DEF FillUpNo, ClearStatus, SettleRow, Edit, run
  <2>3. CASE FillUpNo(q)
    <3>1. sheet' = [sheet EXCEPT ![q].up = TRUE]
      BY <2>3 DEF FillUpNo
    <3>2. /\ sheet' = [r \in Rows |-> sheet'[r]]
          /\ \A r \in Rows \ {q} : sheet'[r] = sheet[r]
          /\ sheet'[q] = [sheet[q] EXCEPT !.up = TRUE]
      BY <3>1 DEF DatesInv
    <3>3. sheet[q] = [up |-> sheet[q].up, status |-> sheet[q].status, dates |-> sheet[q].dates]
      BY DEF DatesInv
    <3>4. sheet'[q] = [up |-> TRUE, status |-> sheet[q].status, dates |-> sheet[q].dates]
      BY <3>2, <3>3
    <3>5. /\ sheet'[q].up = TRUE
          /\ sheet'[q].status = sheet[q].status
          /\ sheet'[q].dates = sheet[q].dates
      BY <3>4
    <3>6. /\ sheet'[q] = [up |-> sheet'[q].up, status |-> sheet'[q].status,
                          dates |-> sheet'[q].dates]
          /\ sheet'[q].status \in Compliant => sheet'[q].dates
      BY <3>4, <3>5 DEF DatesInv
    <3>7. \A r \in Rows \ {q} :
            /\ sheet'[r] = [up |-> sheet'[r].up, status |-> sheet'[r].status,
                            dates |-> sheet'[r].dates]
            /\ sheet'[r].status \in Compliant => sheet'[r].dates
      BY <3>2 DEF DatesInv
    <3>8. \A f \in Families : result'[f].status \in Compliant => result'[f].dates
      BY <2>2 DEF DatesInv
    <3>9. result' = [f \in Families |-> result'[f]]
      BY <2>2 DEF DatesInv
    <3> QED
      BY <3>2, <3>6, <3>7, <3>8, <3>9 DEF DatesInv
  <2>4. CASE ClearStatus(q)
    <3>1. sheet' = [sheet EXCEPT ![q].status = "none"]
      BY <2>4 DEF ClearStatus
    <3>2. /\ sheet' = [r \in Rows |-> sheet'[r]]
          /\ \A r \in Rows \ {q} : sheet'[r] = sheet[r]
          /\ sheet'[q] = [sheet[q] EXCEPT !.status = "none"]
      BY <3>1 DEF DatesInv
    <3>3. sheet[q] = [up |-> sheet[q].up, status |-> sheet[q].status, dates |-> sheet[q].dates]
      BY DEF DatesInv
    <3>4. sheet'[q] = [up |-> sheet[q].up, status |-> "none", dates |-> sheet[q].dates]
      BY <3>2, <3>3
    <3>5. /\ sheet'[q].up = sheet[q].up
          /\ sheet'[q].status = "none"
          /\ sheet'[q].dates = sheet[q].dates
      BY <3>4
    <3>6. /\ sheet'[q] = [up |-> sheet'[q].up, status |-> sheet'[q].status,
                          dates |-> sheet'[q].dates]
          /\ sheet'[q].status \notin Compliant
      BY <3>4, <3>5 DEF Compliant
    <3>7. \A r \in Rows \ {q} :
            /\ sheet'[r] = [up |-> sheet'[r].up, status |-> sheet'[r].status,
                            dates |-> sheet'[r].dates]
            /\ sheet'[r].status \in Compliant => sheet'[r].dates
      BY <3>2 DEF DatesInv
    <3>8. \A f \in Families : result'[f].status \in Compliant => result'[f].dates
      BY <2>2 DEF DatesInv
    <3>9. result' = [f \in Families |-> result'[f]]
      BY <2>2 DEF DatesInv
    <3> QED
      BY <3>2, <3>6, <3>7, <3>8, <3>9 DEF DatesInv
  <2>5. CASE SettleRow(q)
    <3>1. sheet' = [sheet EXCEPT ![q].status = "OK", ![q].dates = TRUE]
      BY <2>5 DEF SettleRow
    <3>2. /\ sheet' = [r \in Rows |-> sheet'[r]]
          /\ \A r \in Rows \ {q} : sheet'[r] = sheet[r]
          /\ sheet'[q] = [sheet[q] EXCEPT !.status = "OK", !.dates = TRUE]
      BY <3>1 DEF DatesInv
    <3>3. sheet[q] = [up |-> sheet[q].up, status |-> sheet[q].status, dates |-> sheet[q].dates]
      BY DEF DatesInv
    <3>4. sheet'[q] = [up |-> sheet[q].up, status |-> "OK", dates |-> TRUE]
      BY <3>2, <3>3
    <3>5. /\ sheet'[q].up = sheet[q].up
          /\ sheet'[q].status = "OK"
          /\ sheet'[q].dates = TRUE
      BY <3>4
    <3>6. /\ sheet'[q] = [up |-> sheet'[q].up, status |-> sheet'[q].status,
                          dates |-> sheet'[q].dates]
          /\ sheet'[q].dates
      BY <3>4, <3>5
    <3>7. \A r \in Rows \ {q} :
            /\ sheet'[r] = [up |-> sheet'[r].up, status |-> sheet'[r].status,
                            dates |-> sheet'[r].dates]
            /\ sheet'[r].status \in Compliant => sheet'[r].dates
      BY <3>2 DEF DatesInv
    <3>8. \A f \in Families : result'[f].status \in Compliant => result'[f].dates
      BY <2>2 DEF DatesInv
    <3>9. result' = [f \in Families |-> result'[f]]
      BY <2>2 DEF DatesInv
    <3> QED
      BY <3>2, <3>6, <3>7, <3>8, <3>9 DEF DatesInv
  <2> QED
    BY <2>1, <2>3, <2>4, <2>5
<1>12. CASE UNCHANGED vars
  BY <1>1, <1>12 DEF vars, world, run
<1> QED
  BY <1>3, <1>4, <1>5, <1>6, <1>7, <1>8, <1>9, <1>10, <1>11, <1>12
  DEF Next, RunStep, Provider, Others

\* The invariant holds at first.
LEMMA InitDatesInv == Init => DatesInv
<1> SUFFICES ASSUME Init PROVE DatesInv
  OBVIOUS
<1>1. /\ result = [f \in Families |-> result[f]]
      /\ \A f \in Families : result[f].status \notin Compliant
  BY DEF Init, NoResult, Compliant
<1>2. sheet = [r \in Rows |-> sheet[r]]
  BY DEF Init
<1>3. ASSUME NEW r \in Rows
      PROVE  /\ sheet[r] = [up |-> sheet[r].up, status |-> sheet[r].status,
                            dates |-> sheet[r].dates]
             /\ sheet[r].status \notin Compliant
  <2>1. sheet[r] = [up |-> Row[r].up, status |-> "none", dates |-> FALSE]
    BY DEF Init
  <2>2. /\ sheet[r].up = Row[r].up
        /\ sheet[r].status = "none"
        /\ sheet[r].dates = FALSE
    BY <2>1
  <2> QED
    BY <2>1, <2>2 DEF Compliant
<1> QED
  BY <1>1, <1>2, <1>3 DEF DatesInv

\* A row that reads OK carries the ERP dates that were compared
\* (the operations of a family).
THEOREM OkDatesTheorem == Spec => []OkRowsCarryErpDates
<1>1. Init => DatesInv
  BY InitDatesInv
<1>2. DatesInv => OkRowsCarryErpDates
  BY DEF DatesInv, OkRowsCarryErpDates
<1> QED
  BY <1>1, <1>2, NextDatesInv, PTL DEF Spec
-----------------------------------------------------------------------------
(* Lookups stay apart. *)

\* What may be typed into the search for a family.
Own(f) == ToSet(SearchKeys[f])

\* What is on the page, or on its way to it, was asked for a family.
PageIsFor(f) ==
  /\ page.pending \subseteq Own(f)
  /\ page.shown # NoAnswer => page.from \in Own(f)

\* The page of a lookup holds nothing of an earlier one, and a clean page
\* nothing at all.
ApartInv ==
  /\ basis = [f \in Families |-> basis[f]]
  /\ \A f \in Families : basis[f] # NoAnswer => f \in Comparable /\ basis[f] \in Own(f)
  /\ page = [at |-> page.at, dirty |-> page.dirty, shown |-> page.shown,
             from |-> page.from, pending |-> page.pending]
  /\ ~page.dirty => page.pending = {} /\ page.shown = NoAnswer
  /\ pc \in {"search", "reading"} =>
       /\ Head(queue) \in Comparable
       /\ keys \in Seq(Own(Head(queue)))
       /\ page.at = "search" => PageIsFor(Head(queue))

\* The search keys of a family are a sequence of its own keys.
LEMMA SearchKeysAreOwn ==
  ASSUME NEW f \in Comparable
  PROVE  SearchKeys[f] \in Seq(Own(f))
<1> DEFINE s == SearchKeys[f]
<1>1. s \in Seq(Keys)
  BY SearchAssumption
<1> HIDE DEF s
<1>2. s \in Seq(ToSet(s))
  BY <1>1 DEF ToSet
<1> QED
  BY <1>2 DEF Own, s

\* A decision from no answer, or from one of the family's own, keeps the bases.
LEMMA DecideKeepsBases ==
  ASSUME ApartInv, NEW r, NEW from, Decide(r, from),
         from # NoAnswer => Head(queue) \in Comparable /\ from \in Own(Head(queue))
  PROVE  /\ basis' = [f \in Families |-> basis'[f]]
         /\ \A f \in Families :
              basis'[f] # NoAnswer => f \in Comparable /\ basis'[f] \in Own(f)
         /\ pc' = "family"
  BY DEF Decide, ApartInv

\* A fresh page is for any family.
LEMMA FreshPageIsClean ==
  /\ FreshPage = [at |-> FreshPage.at, dirty |-> FreshPage.dirty, shown |-> FreshPage.shown,
                  from |-> FreshPage.from, pending |-> FreshPage.pending]
  /\ ~FreshPage.dirty /\ FreshPage.pending = {} /\ FreshPage.shown = NoAnswer
  BY DEF FreshPage
\* The invariant is kept by every step (the reset of the page before each
\* lookup, the keys that go with a family).
LEMMA NextApartInv == ApartInv /\ [Next]_vars => ApartInv'
<1> SUFFICES ASSUME ApartInv, [Next]_vars PROVE ApartInv'
  OBVIOUS
<1> USE DEF PageIsFor
<1>1. ASSUME page' = page, NEW r, NEW from, Decide(r, from),
             from # NoAnswer => Head(queue) \in Comparable /\ from \in Own(Head(queue))
      PROVE  ApartInv'
  <2>1. /\ basis' = [f \in Families |-> basis'[f]]
        /\ \A f \in Families :
             basis'[f] # NoAnswer => f \in Comparable /\ basis'[f] \in Own(f)
        /\ pc' = "family"
    BY <1>1, DecideKeepsBases
  <2>2. pc' \notin {"search", "reading"}
    BY <2>1
  <2> QED
    BY <1>1, <2>1, <2>2 DEF ApartInv
<1>2. ASSUME Idle PROVE ApartInv'
  <2>1. page' = FreshPage /\ basis' = [f \in Families |-> NoAnswer] /\ pc' = "idle"
    BY <1>2 DEF Idle
  <2> QED
    BY <2>1, FreshPageIsClean DEF ApartInv
<1>3. ASSUME UNCHANGED <<pc, queue, keys, basis, page>> PROVE ApartInv'
  BY <1>3 DEF ApartInv
<1>4. ASSUME StartSearch, InputValid(Head(queue)), UNCHANGED <<queue, basis>>,
             \/ page' = FreshPage
             \/ ~page.dirty /\ page' = page
      PROVE  ApartInv'
  <2>1. Head(queue) \in Comparable
    BY <1>4 DEF InputValid
  <2>2. keys' \in Seq(Own(Head(queue)))
    BY <1>4, <2>1, SearchKeysAreOwn DEF StartSearch
  <2>3. page'.pending = {} /\ page'.shown = NoAnswer /\ ~page'.dirty
    BY <1>4, FreshPageIsClean DEF ApartInv
  <2>4. page' = [at |-> page'.at, dirty |-> page'.dirty, shown |-> page'.shown,
                 from |-> page'.from, pending |-> page'.pending]
    BY <1>4, FreshPageIsClean DEF ApartInv
  <2> QED
    BY <1>4, <2>1, <2>2, <2>3, <2>4 DEF ApartInv
<1>5. CASE StartRun
  BY <1>5 DEF StartRun, browser, ApartInv
<1>6. CASE BlockFamily \/ StayFailed \/ LoginFails \/ SessionLost \/ ResetFails
           \/ SubmitFails \/ ReadFails
  <2>1. page' = page /\ \E r : Decide(r, NoAnswer)
    BY <1>6 DEF BlockFamily, StayFailed, LoginFails, SessionLost, ResetFails, SubmitFails,
                ReadFails, browser
  <2> QED
    BY <1>1, <2>1
<1>7. CASE Login
  BY <1>4, <1>7 DEF Login, Lookup
<1>8. CASE Reset
  BY <1>4, <1>8 DEF Reset, Lookup
<1>9. CASE Submit
  <2>1. /\ keys # <<>> /\ page.at = "search" /\ pc = "search"
        /\ page' = [page EXCEPT !.dirty = TRUE, !.pending = page.pending \cup {Head(keys)}]
        /\ pc' = "reading"
        /\ UNCHANGED <<queue, keys, basis>>
    BY <1>9 DEF Submit
  <2>2. Head(keys) \in Own(Head(queue))
    BY <2>1 DEF ApartInv
  <2>3. page' = [at |-> page.at, dirty |-> TRUE, shown |-> page.shown,
                 from |-> page.from, pending |-> page.pending \cup {Head(keys)}]
    BY <2>1 DEF ApartInv
  <2>4. /\ page'.at = page.at /\ page'.dirty = TRUE /\ page'.shown = page.shown
        /\ page'.from = page.from /\ page'.pending = page.pending \cup {Head(keys)}
    BY <2>3
  <2>5. PageIsFor(Head(queue))'
    BY <2>1, <2>2, <2>4 DEF ApartInv
  <2> QED
    BY <2>1, <2>3, <2>4, <2>5 DEF ApartInv
<1>10. CASE ReadAnswer
  <2>1. /\ pc = "reading" /\ page.at = "search" /\ page.shown # NoAnswer
        /\ page' = page
        /\ \E r : Decide(r, page.from)
    BY <1>10 DEF ReadAnswer, browser
  <2>2. Head(queue) \in Comparable /\ page.from \in Own(Head(queue))
    BY <2>1 DEF ApartInv
  <2> QED
    BY <1>1, <2>1, <2>2
<1>11. CASE ReadNothing
  <2>1. CASE Len(keys) > 1
    <3>1. /\ pc = "reading" /\ pc' = "search" /\ keys' = Tail(keys) /\ page' = page
          /\ UNCHANGED <<queue, basis>>
      BY <1>11, <2>1 DEF ReadNothing, browser
    <3>2. keys' \in Seq(Own(Head(queue)))
      BY <2>1, <3>1 DEF ApartInv
    <3> QED
      BY <3>1, <3>2 DEF ApartInv
  <2>2. CASE ~(Len(keys) > 1)
    <3>1. page' = page /\ \E r : Decide(r, NoAnswer)
      BY <1>11, <2>2 DEF ReadNothing, browser
    <3> QED
      BY <1>1, <3>1
  <2> QED
    BY <2>1, <2>2
<1>12. CASE \E k \in Keys : Answer(k)
  <2>1. PICK k \in Keys : Answer(k)
    BY <1>12
  <2> DEFINE shown == IF Answered(k) THEN site[k] ELSE NoAnswer
             from == IF Answered(k) THEN k ELSE NoAnswer
  <2>2. /\ k \in page.pending
        /\ page' = [page EXCEPT !.pending = page.pending \ {k}, !.shown = shown, !.from = from]
        /\ UNCHANGED <<pc, queue, keys, basis>>
    BY <2>1 DEF Answer, run
  <2>3. shown # NoAnswer => from = k
    OBVIOUS
  <2> HIDE DEF shown, from
  <2>4. page' = [at |-> page.at, dirty |-> page.dirty, shown |-> shown,
                 from |-> from, pending |-> page.pending \ {k}]
    BY <2>2 DEF ApartInv
  <2>5. /\ page'.at = page.at /\ page'.dirty = page.dirty /\ page'.shown = shown
        /\ page'.from = from /\ page'.pending = page.pending \ {k}
    BY <2>4
  <2>6. page.dirty
    BY <2>2 DEF ApartInv
  <2>7. ASSUME pc \in {"search", "reading"}, page.at = "search"
        PROVE  PageIsFor(Head(queue))'
    BY <2>2, <2>3, <2>5, <2>7 DEF ApartInv
  <2> QED
    BY <2>2, <2>4, <2>5, <2>6, <2>7 DEF ApartInv
<1>13. CASE \E k \in Keys : AnswerInPart(k)
  <2>1. PICK k \in Keys : AnswerInPart(k)
    BY <1>13
  <2>2. PICK part : page' = [page EXCEPT !.shown = part, !.from = k]
    BY <2>1 DEF AnswerInPart
  <2>3. k \in page.pending /\ UNCHANGED <<pc, queue, keys, basis>>
    BY <2>1 DEF AnswerInPart, run
  <2>4. page' = [at |-> page.at, dirty |-> page.dirty, shown |-> part,
                 from |-> k, pending |-> page.pending]
    BY <2>2 DEF ApartInv
  <2>5. /\ page'.at = page.at /\ page'.dirty = page.dirty /\ page'.shown = part
        /\ page'.from = k /\ page'.pending = page.pending
    BY <2>4
  <2>6. page.dirty
    BY <2>3 DEF ApartInv
  <2>7. ASSUME pc \in {"search", "reading"}, page.at = "search"
        PROVE  PageIsFor(Head(queue))'
    BY <2>3, <2>5, <2>7 DEF ApartInv
  <2> QED
    BY <2>3, <2>4, <2>5, <2>6, <2>7 DEF ApartInv
<1>14. CASE Redirect \/ CloseBrowser
  <2>1. PICK where \in {"login", "closed"} : page' = [page EXCEPT !.at = where]
    BY <1>14 DEF Redirect, CloseBrowser
  <2>2. UNCHANGED <<pc, queue, keys, basis>>
    BY <1>14 DEF Redirect, CloseBrowser, run
  <2>3. page' = [at |-> where, dirty |-> page.dirty, shown |-> page.shown,
                 from |-> page.from, pending |-> page.pending]
    BY <2>1 DEF ApartInv
  <2>4. /\ page'.at = where /\ page'.dirty = page.dirty /\ page'.shown = page.shown
        /\ page'.from = page.from /\ page'.pending = page.pending
    BY <2>3
  <2>5. page'.at # "search"
    BY <2>4
  <2> QED
    BY <2>2, <2>3, <2>4, <2>5 DEF ApartInv
<1>15. CASE CommitWrites \/ WritesBlocked \/ WritesUncertain \/ Crash
  BY <1>2, <1>15 DEF CommitWrites, WritesBlocked, WritesUncertain, Crash
<1>16. CASE Others \/ UNCHANGED vars
  BY <1>3, <1>16 DEF Others, Amend, FillUpNo, ClearStatus, SettleRow, Edit, vars, run, browser
<1> QED
  BY <1>5, <1>6, <1>7, <1>8, <1>9, <1>10, <1>11, <1>12, <1>13, <1>14, <1>15, <1>16
  DEF Next, RunStep, Provider, Site

\* The invariant holds at first.
LEMMA InitApartInv == Init => ApartInv
<1> SUFFICES ASSUME Init PROVE ApartInv
  OBVIOUS
<1>1. page = FreshPage /\ basis = [f \in Families |-> NoAnswer] /\ pc = "idle"
  BY DEF Init
<1> QED
  BY <1>1, FreshPageIsClean DEF ApartInv

\* A family is judged on the answer to one of its own search keys, however late
\* an earlier family's answer comes (the reset before each lookup).
THEOREM LookupsApartTheorem == Spec => []LookupsStayApart
<1>1. Init => ApartInv
  BY InitApartInv
<1>2. ApartInv => LookupsStayApart
  BY DEF ApartInv, LookupsStayApart, Own
<1> QED
  BY <1>1, <1>2, NextApartInv, PTL DEF Spec
-----------------------------------------------------------------------------
(* Types. *)

\* The least candidate row of a family.
LEMMA FirstCandidate ==
  ASSUME NEW wb, NEW f, CandidateRows(wb, f) # {}
  PROVE  Min(CandidateRows(wb, f)) \in CandidateRows(wb, f)
<1> DEFINE S == CandidateRows(wb, f)
<1>1. S \in SUBSET Nat
  BY RowAssumption DEF CandidateRows
<1>2. PICK m \in S : \A n \in S : m <= n
  BY <1>1, LeastNumber
<1> QED
  BY <1>2 DEF Min

\* The families of a run are a sequence of families: each has its place in the
\* order of their first candidate rows.
LEMMA CandidateFamiliesType ==
  ASSUME NEW wb
  PROVE  CandidateFamilies(wb) \in Seq(Families)
<1> DEFINE open == {f \in Families : CandidateRows(wb, f) # {}}
           R == {p \in open \X open : Min(CandidateRows(wb, p[1])) < Min(CandidateRows(wb, p[2]))}
           n == Cardinality(open)
           Before(f) == {g \in open : Min(CandidateRows(wb, g)) < Min(CandidateRows(wb, f))}
<1>1. IsFiniteSet(open)
  BY RowAssumption, FS_Subset
<1>2. n \in Nat
  BY <1>1, FS_CardinalityType
<1>3. ASSUME NEW f \in open
      PROVE  Min(CandidateRows(wb, f)) \in Nat /\ Row[Min(CandidateRows(wb, f))].family = f
  <2> DEFINE m == Min(CandidateRows(wb, f))
  <2>1. CandidateRows(wb, f) # {}
    OBVIOUS
  <2>2. m \in CandidateRows(wb, f)
    BY <2>1, FirstCandidate
  <2> HIDE DEF m
  <2>3. m \in Nat /\ Row[m].family = f
    BY <2>2, RowAssumption DEF CandidateRows
  <2> QED
    BY <2>3 DEF m
<1>4. StrictlyOrders(R, open)
  <2>1. \A f, g \in open : f # g => Min(CandidateRows(wb, f)) # Min(CandidateRows(wb, g))
    BY <1>3
  <2> DEFINE m(f) == Min(CandidateRows(wb, f))
  <2>2. \A f \in open : m(f) \in Nat
    BY <1>3
  <2>3. \A f, g \in open : f # g => m(f) # m(g)
    BY <2>1
  <2>4. \A f, g \in open : <<f, g>> \in R <=> m(f) < m(g)
    OBVIOUS
  <2> HIDE DEF m, R, open
  <2> QED
    BY <2>2, <2>3, <2>4 DEF StrictlyOrders
<1>5. ASSUME NEW i \in 1..n PROVE \E f \in open : Cardinality(Before(f)) = i - 1
  <2>1. PICK f \in open : Cardinality(Below(f, open, R)) = i - 1
    <3> HIDE DEF open, R
    <3> QED
      BY <1>1, <1>4, PlaceTaken
  <2>2. Below(f, open, R) = Before(f)
    BY DEF Below
  <2> QED
    BY <2>1, <2>2
<1>6. CandidateFamilies(wb) = [i \in 1..n |-> CHOOSE f \in open : Cardinality(Before(f)) = i - 1]
  BY DEF CandidateFamilies
<1>7. \A i \in 1..n : (CHOOSE f \in open : Cardinality(Before(f)) = i - 1) \in open
  BY <1>5
<1>8. open \subseteq Families
  OBVIOUS
<1> HIDE DEF open, n, Before
<1>9. \A i \in 1..n : (CHOOSE f \in open : Cardinality(Before(f)) = i - 1) \in Families
  BY <1>7, <1>8
<1> QED
  BY <1>2, <1>6, <1>9

\* What a sheet holds.
Sheets == [Rows -> [up : BOOLEAN, status : Statuses, dates : BOOLEAN]]

\* What is decided on a family.
Decision == [decision : Decisions, status : Statuses, dates : BOOLEAN]

\* The parts of the state have their types, the results of all families too,
\* and a lookup belongs to a family.
TypeInv ==
  /\ sheet \in Sheets /\ snap \in Sheets
  /\ site \in Sites
  /\ pc \in {"idle", "family", "search", "reading"}
  /\ queue \in Seq(Families) /\ keys \in Seq(Keys)
  /\ pc \in {"search", "reading"} <=> keys # <<>>
  /\ pc \in {"search", "reading"} => queue # <<>>
  /\ session \in {"none", "open", "failed"}
  /\ page = [at |-> page.at, dirty |-> page.dirty, shown |-> page.shown,
             from |-> page.from, pending |-> page.pending]
  /\ page.at \in {"search", "login", "closed"} /\ page.dirty \in BOOLEAN
  /\ page.pending \subseteq Keys
  /\ result \in [Families -> Decision]
  /\ basis = [f \in Families |-> basis[f]]
  /\ logins \in Nat /\ edits \in 0..MaxEdits /\ faults \in 0..MaxFaults

\* What the comparison decides is typed.
LEMMA EvaluationType ==
  ASSUME NEW references, NEW erp, NEW shown
  PROVE  Evaluation(references, erp, shown) \in Decision
<1>1. NumericRule(shown.value, Total(shown.quantities), erp).status
        \in {"OK", "OK (KGS)", "mismatch"}
  BY DEF NumericRule
<1>2. Compare(references, erp, shown).status \in {"OK", "OK (KGS)", "mismatch"}
  BY <1>1 DEF Compare
<1> QED
  BY <1>2 DEF Evaluation, Decision, Decisions, Statuses, Compliant, Messages

\* A decision on the family at the head of the queue keeps the types.
LEMMA DecideKeepsTypes ==
  ASSUME TypeInv, queue # <<>>, NEW r \in Decision, NEW from, Decide(r, from)
  PROVE  /\ result' \in [Families -> Decision]
         /\ basis' = [f \in Families |-> basis'[f]]
         /\ queue' \in Seq(Families) /\ keys' = <<>> /\ keys' \in Seq(Keys) /\ pc' = "family"
<1>1. Head(queue) \in Families /\ Tail(queue) \in Seq(Families)
  BY DEF TypeInv
<1>2. result' \in [Families -> Decision]
  BY <1>1 DEF Decide, TypeInv
<1>3. basis' = [f \in Families |-> basis'[f]]
  BY DEF Decide, TypeInv
<1> QED
  BY <1>1, <1>2, <1>3 DEF Decide

\* A sheet nobody has read is one.
LEMMA NothingReadType == NothingRead \in Sheets
<1>1. "none" \in Statuses
  BY DEF Statuses
<1> QED
  BY <1>1 DEF NothingRead, Sheets

\* The end of a run puts everything but the sheet in its first place.
LEMMA IdleTypes ==
  ASSUME Idle
  PROVE  /\ snap' \in Sheets
         /\ pc' = "idle" /\ queue' = <<>> /\ keys' = <<>>
         /\ queue' \in Seq(Families) /\ keys' \in Seq(Keys)
         /\ session' = "none" /\ page' = FreshPage /\ logins' = 0
         /\ result' \in [Families -> Decision]
         /\ basis' = [f \in Families |-> basis'[f]]
<1>1. NoResult \in Decision
  BY DEF NoResult, Decision, Decisions, Statuses
<1> QED
  BY <1>1, NothingReadType DEF Idle

\* A fresh page is typed.
LEMMA FreshPageType ==
  /\ FreshPage = [at |-> FreshPage.at, dirty |-> FreshPage.dirty, shown |-> FreshPage.shown,
                  from |-> FreshPage.from, pending |-> FreshPage.pending]
  /\ FreshPage.at = "search" /\ FreshPage.dirty = FALSE /\ FreshPage.pending = {}
  BY DEF FreshPage

\* What others do to a row keeps the types of a sheet.
LEMMA EditedSheetType ==
  ASSUME NEW wb \in Sheets, NEW r \in Rows
  PROVE  /\ [wb EXCEPT ![r].up = TRUE] \in Sheets
         /\ [wb EXCEPT ![r].status = "none"] \in Sheets
         /\ [wb EXCEPT ![r].status = "OK", ![r].dates = TRUE] \in Sheets
<1>1. "none" \in Statuses /\ "OK" \in Statuses
  BY DEF Statuses, Compliant
<1>2. ASSUME NEW row \in [up : BOOLEAN, status : Statuses, dates : BOOLEAN]
      PROVE  [wb EXCEPT ![r] = row] \in Sheets
  BY <1>2 DEF Sheets
<1>3. wb[r] \in [up : BOOLEAN, status : Statuses, dates : BOOLEAN]
  BY DEF Sheets
<1>4. /\ [wb[r] EXCEPT !.up = TRUE] \in [up : BOOLEAN, status : Statuses, dates : BOOLEAN]
      /\ [wb[r] EXCEPT !.status = "none"] \in [up : BOOLEAN, status : Statuses, dates : BOOLEAN]
      /\ [wb[r] EXCEPT !.status = "OK", !.dates = TRUE]
           \in [up : BOOLEAN, status : Statuses, dates : BOOLEAN]
  BY <1>1, <1>3
<1>5. /\ [wb EXCEPT ![r].up = TRUE] = [wb EXCEPT ![r] = [wb[r] EXCEPT !.up = TRUE]]
      /\ [wb EXCEPT ![r].status = "none"] = [wb EXCEPT ![r] = [wb[r] EXCEPT !.status = "none"]]
  OBVIOUS
<1>6. [wb EXCEPT ![r].status = "OK", ![r].dates = TRUE]
        = [wb EXCEPT ![r] = [wb[r] EXCEPT !.status = "OK", !.dates = TRUE]]
  BY DEF Sheets
<1> QED
  BY <1>2, <1>4, <1>5, <1>6

\* Writing results keeps the types of the sheet.
LEMMA WrittenType ==
  ASSUME TypeInv
  PROVE  Written \in Sheets
<1>1. ASSUME NEW r \in Rows
      PROVE  Written[r] \in [up : BOOLEAN, status : Statuses, dates : BOOLEAN]
  <2> DEFINE of == result[Row[r].family]
             dates == of.dates \/ sheet[r].dates
  <2>1. of \in Decision /\ sheet[r] \in [up : BOOLEAN, status : Statuses, dates : BOOLEAN]
    BY RowAssumption DEF TypeInv, Sheets
  <2>2. CASE r \in Targets
    <3>1. Written[r] = [sheet[r] EXCEPT !.status = of.status, !.dates = dates]
      BY <2>2 DEF Written
    <3>2. of.status \in Statuses /\ dates \in BOOLEAN
      BY <2>1 DEF Decision
    <3> HIDE DEF dates, of
    <3> QED
      BY <2>1, <3>1, <3>2
  <2>3. CASE r \notin Targets
    BY <2>1, <2>3 DEF Written
  <2> QED
    BY <2>2, <2>3
<1>2. Written = [r \in Rows |-> Written[r]]
  BY DEF Written
<1> HIDE DEF Written
<1> QED
  BY <1>1, <1>2 DEF Sheets

\* The invariant is kept by every step (the handlers of a run, the page's
\* answers and what others do).
LEMMA NextTypeInv == TypeInv /\ [Next]_vars => TypeInv'
<1> SUFFICES ASSUME TypeInv, [Next]_vars PROVE TypeInv'
  OBVIOUS
<1>1. ASSUME queue # <<>>, NEW r \in Decision, NEW from, Decide(r, from),
             UNCHANGED <<sheet, site, page, edits>>, faults' = faults \/ Fault,
             session' \in {"none", "open", "failed"}, logins' \in Nat
      PROVE  TypeInv'
  <2>1. /\ result' \in [Families -> Decision]
        /\ basis' = [f \in Families |-> basis'[f]]
        /\ queue' \in Seq(Families) /\ keys' = <<>> /\ keys' \in Seq(Keys) /\ pc' = "family"
    BY <1>1, DecideKeepsTypes
  <2>2. faults' \in 0..MaxFaults
    BY <1>1, DashboardBounds DEF Fault, TypeInv
  <2>3. page' = page /\ sheet' = sheet /\ site' = site /\ edits' = edits /\ snap' = snap
    BY <1>1 DEF Decide
  <2> QED
    BY <1>1, <2>1, <2>2, <2>3 DEF TypeInv
<1>2. ASSUME Idle, site' = site, edits' = edits, faults' = faults \/ Fault,
             sheet' = sheet \/ sheet' = Written
      PROVE  TypeInv'
  <2>1. /\ pc' = "idle" /\ queue' = <<>> /\ keys' = <<>>
        /\ queue' \in Seq(Families) /\ keys' \in Seq(Keys)
        /\ session' = "none" /\ page' = FreshPage /\ logins' = 0
        /\ result' \in [Families -> Decision]
        /\ basis' = [f \in Families |-> basis'[f]] /\ snap' \in Sheets
    BY <1>2, IdleTypes
  <2>2. faults' \in 0..MaxFaults
    BY <1>2, DashboardBounds DEF Fault, TypeInv
  <2>3. sheet' \in Sheets
    BY <1>2, WrittenType DEF TypeInv
  <2>4. site' \in Sites /\ edits' \in 0..MaxEdits
    BY <1>2 DEF TypeInv
  <2> QED
    BY <2>1, <2>2, <2>3, <2>4, FreshPageType DEF TypeInv
<1>3. ASSUME UNCHANGED <<snap, pc, queue, keys, result, basis, session, logins>>,
             sheet' \in Sheets,
             site' \in Sites, edits' \in 0..MaxEdits, faults' \in 0..MaxFaults,
             page' = [at |-> page'.at, dirty |-> page'.dirty, shown |-> page'.shown,
                      from |-> page'.from, pending |-> page'.pending],
             page'.at \in {"search", "login", "closed"}, page'.dirty \in BOOLEAN,
             page'.pending \subseteq Keys
      PROVE  TypeInv'
  BY <1>3 DEF TypeInv
<1>4. FetchError \in Decision
  BY DEF FetchError, Decision, Decisions, Statuses, Messages
<1>5. CASE StartRun
  <2>1. /\ queue' = CandidateFamilies(sheet) /\ pc' = "family" /\ pc = "idle" /\ snap' = sheet
        /\ UNCHANGED <<sheet, site, keys, session, page, logins, result, basis, edits, faults>>
    BY <1>5 DEF StartRun, world, browser
  <2>2. queue' \in Seq(Families)
    BY <2>1, CandidateFamiliesType
  <2>3. page' = page /\ sheet' = sheet /\ result' = result /\ basis' = basis
    BY <2>1
  <2> QED
    BY <2>1, <2>2, <2>3 DEF TypeInv
<1>6. CASE BlockFamily
  <2> DEFINE blocked == [decision |-> "hard_block", status |-> "invalid input", dates |-> FALSE]
  <2>1. blocked \in Decision
    BY DEF Decision, Decisions, Statuses, Messages
  <2>2. /\ queue # <<>> /\ Decide(blocked, NoAnswer)
        /\ UNCHANGED <<sheet, site, page, edits, faults, session, logins>>
    BY <1>6 DEF BlockFamily, world, browser
  <2> HIDE DEF blocked
  <2>3. session' \in {"none", "open", "failed"} /\ logins' \in Nat
    BY <2>2 DEF TypeInv
  <2> QED
    BY <1>1, <2>1, <2>2, <2>3
<1>7. CASE StayFailed \/ LoginFails \/ SessionLost \/ ResetFails \/ SubmitFails \/ ReadFails
  <2>1. /\ queue # <<>> /\ Decide(FetchError, NoAnswer)
        /\ UNCHANGED <<sheet, site, page, edits>> /\ (faults' = faults \/ Fault)
        /\ session' \in {"none", "open", "failed"} /\ logins' \in Nat
    BY <1>7 DEF StayFailed, LoginFails, SessionLost, ResetFails, SubmitFails, ReadFails,
                Lookup, world, browser, TypeInv
  <2> QED
    BY <1>1, <1>4, <2>1
<1>8. ASSUME queue # <<>>, InputValid(Head(queue)), StartSearch, page' = page \/ page' = FreshPage,
             UNCHANGED <<sheet, site, snap, queue, result, basis, edits, faults>>,
             session' \in {"none", "open", "failed"}, logins' \in Nat
      PROVE  TypeInv'
  <2>1. keys' \in Seq(Keys) \ {<<>>} /\ pc' = "search"
    BY <1>8, SearchAssumption DEF StartSearch, InputValid
  <2>2. /\ page' = [at |-> page'.at, dirty |-> page'.dirty, shown |-> page'.shown,
                    from |-> page'.from, pending |-> page'.pending]
        /\ page'.at \in {"search", "login", "closed"} /\ page'.dirty \in BOOLEAN
        /\ page'.pending \subseteq Keys
    <3>1. CASE page' = page
      BY <3>1 DEF TypeInv
    <3>2. CASE page' = FreshPage
      BY <3>2, FreshPageType
    <3> QED
      BY <1>8, <3>1, <3>2
  <2>3. /\ sheet' = sheet /\ result' = result /\ basis' = basis /\ queue' = queue
        /\ snap' = snap
    BY <1>8
  <2> QED
    BY <1>8, <2>1, <2>2, <2>3 DEF TypeInv
<1>9. CASE Login \/ Reset
  <2>1. /\ queue # <<>> /\ InputValid(Head(queue)) /\ StartSearch
        /\ page' = page \/ page' = FreshPage
        /\ UNCHANGED <<sheet, site, snap, queue, result, basis, edits, faults>>
        /\ session' \in {"none", "open", "failed"} /\ logins' \in Nat
    BY <1>9 DEF Login, Reset, Lookup, world, TypeInv
  <2> QED
    BY <1>8, <2>1
<1>10. CASE Submit
  <2>1. /\ pc = "search" /\ keys # <<>> /\ pc' = "reading"
        /\ page' = [page EXCEPT !.dirty = TRUE, !.pending = page.pending \cup {Head(keys)}]
        /\ UNCHANGED <<sheet, site, snap, queue, keys, session, logins, result, basis, edits,
                       faults>>
    BY <1>10 DEF Submit, world
  <2>2. Head(keys) \in Keys
    BY <2>1 DEF TypeInv
  <2>3. page' = [at |-> page.at, dirty |-> TRUE, shown |-> page.shown,
                 from |-> page.from, pending |-> page.pending \cup {Head(keys)}]
    BY <2>1 DEF TypeInv
  <2>4. /\ page' = [at |-> page'.at, dirty |-> page'.dirty, shown |-> page'.shown,
                    from |-> page'.from, pending |-> page'.pending]
        /\ page'.at = page.at /\ page'.dirty = TRUE
        /\ page'.pending = page.pending \cup {Head(keys)}
    BY <2>3
  <2>5. /\ sheet' = sheet /\ result' = result /\ basis' = basis /\ queue' = queue
        /\ snap' = snap
    BY <2>1
  <2> QED
    BY <2>1, <2>2, <2>4, <2>5 DEF TypeInv
<1>11. CASE ReadAnswer
  <2>1. PICK r, from : /\ r = Evaluation(References(Head(queue)), Ours[Head(queue)], page.shown)
                       /\ Decide(r, from)
    BY <1>11 DEF ReadAnswer
  <2>2. r \in Decision
    BY <2>1, EvaluationType
  <2>3. /\ queue # <<>> /\ UNCHANGED <<sheet, site, page, edits, faults>>
        /\ session' \in {"none", "open", "failed"} /\ logins' \in Nat
    BY <1>11 DEF ReadAnswer, world, browser, TypeInv
  <2> QED
    BY <1>1, <2>1, <2>2, <2>3
<1>12. CASE ReadNothing
  <2>1. /\ pc = "reading" /\ UNCHANGED <<sheet, site, session, page, logins, edits>>
        /\ (faults' = faults \/ Fault)
    BY <1>12 DEF ReadNothing, world, browser
  <2>2. CASE Len(keys) > 1
    <3>1. keys' = Tail(keys) /\ pc' = "search" /\ UNCHANGED <<snap, queue, result, basis>>
      BY <1>12, <2>2 DEF ReadNothing
    <3>2. keys' \in Seq(Keys) /\ keys' # <<>>
      <4>1. keys \in Seq(Keys)
        BY DEF TypeInv
      <4>2. Tail(keys) \in Seq(Keys) /\ Len(Tail(keys)) > 0
        BY <2>2, <4>1
      <4>3. Tail(keys) # <<>>
        <5> DEFINE tail == Tail(keys)
        <5>1. tail \in Seq(Keys) /\ Len(tail) > 0
          BY <4>2
        <5> HIDE DEF tail
        <5>2. tail # <<>>
          BY <5>1
        <5> QED
          BY <5>2 DEF tail
      <4> QED
        BY <3>1, <4>2, <4>3
    <3>3. faults' \in 0..MaxFaults
      BY <2>1, DashboardBounds DEF Fault, TypeInv
    <3>4. /\ sheet' = sheet /\ result' = result /\ basis' = basis /\ queue' = queue
          /\ page' = page /\ snap' = snap
      BY <2>1, <3>1
    <3> QED
      BY <2>1, <3>1, <3>2, <3>3, <3>4 DEF TypeInv
  <2>3. CASE ~(Len(keys) > 1)
    <3> DEFINE nothing == [decision |-> "warning", status |-> "no result", dates |-> TRUE]
    <3>1. nothing \in Decision
      BY DEF Decision, Decisions, Statuses, Messages
    <3>2. Decide(nothing, NoAnswer)
      BY <1>12, <2>3 DEF ReadNothing
    <3> HIDE DEF nothing
    <3>3. queue # <<>> /\ session' \in {"none", "open", "failed"} /\ logins' \in Nat
      BY <2>1 DEF TypeInv
    <3> QED
      BY <1>1, <2>1, <3>1, <3>2, <3>3
  <2> QED
    BY <2>2, <2>3
<1>13. CASE CommitWrites \/ WritesBlocked \/ WritesUncertain \/ Crash
  <2>1. /\ Idle /\ site' = site /\ edits' = edits /\ (faults' = faults \/ Fault)
        /\ sheet' = sheet \/ sheet' = Written
    BY <1>13 DEF CommitWrites, WritesBlocked, WritesUncertain, Crash, world
  <2> QED
    BY <1>2, <2>1
<1>14. CASE \E k \in Keys : Answer(k) \/ AnswerInPart(k)
  <2>1. PICK k \in Keys : Answer(k) \/ AnswerInPart(k)
    BY <1>14
  <2>2. PICK shown, from, pending :
          /\ pending \subseteq page.pending
          /\ page' = [page EXCEPT !.pending = pending, !.shown = shown, !.from = from]
    <3> DEFINE Becomes(shown, from, pending) ==
          /\ pending \subseteq page.pending
          /\ page' = [page EXCEPT !.pending = pending, !.shown = shown, !.from = from]
    <3> SUFFICES \E shown, from, pending : Becomes(shown, from, pending)
      OBVIOUS
    <3>1. CASE Answer(k)
      <4>1. Becomes(IF Answered(k) THEN site[k] ELSE NoAnswer,
                    IF Answered(k) THEN k ELSE NoAnswer, page.pending \ {k})
        BY <3>1 DEF Answer
      <4> HIDE DEF Becomes
      <4> QED
        BY <4>1
    <3>2. CASE AnswerInPart(k)
      <4>1. PICK part : page' = [page EXCEPT !.shown = part, !.from = k]
        BY <3>2 DEF AnswerInPart
      <4>2. Becomes(part, k, page.pending)
        BY <4>1 DEF TypeInv
      <4> HIDE DEF Becomes
      <4> QED
        BY <4>2
    <3> QED
      BY <2>1, <3>1, <3>2
  <2>3. page' = [at |-> page.at, dirty |-> page.dirty, shown |-> shown,
                 from |-> from, pending |-> pending]
    BY <2>2 DEF TypeInv
  <2>4. /\ page' = [at |-> page'.at, dirty |-> page'.dirty, shown |-> page'.shown,
                    from |-> page'.from, pending |-> page'.pending]
        /\ page'.at = page.at /\ page'.dirty = page.dirty /\ page'.pending = pending
    BY <2>3
  <2>5. /\ UNCHANGED <<sheet, site, snap, pc, queue, keys, result, basis, session, logins, edits>>
        /\ (faults' = faults \/ Fault)
    BY <2>1 DEF Answer, AnswerInPart, world, run
  <2>6. faults' \in 0..MaxFaults
    BY <2>5, DashboardBounds DEF Fault, TypeInv
  <2>7. /\ page'.at \in {"search", "login", "closed"} /\ page'.dirty \in BOOLEAN
        /\ page'.pending \subseteq Keys
    BY <2>2, <2>4 DEF TypeInv
  <2>8. /\ sheet' \in Sheets
        /\ site' \in Sites /\ edits' \in 0..MaxEdits
    BY <2>5 DEF TypeInv
  <2> QED
    BY <1>3, <2>4, <2>5, <2>6, <2>7, <2>8
<1>15. CASE Redirect \/ CloseBrowser
  <2>1. PICK where \in {"login", "closed"} : page' = [page EXCEPT !.at = where]
    BY <1>15 DEF Redirect, CloseBrowser
  <2>2. page' = [at |-> where, dirty |-> page.dirty, shown |-> page.shown,
                 from |-> page.from, pending |-> page.pending]
    BY <2>1 DEF TypeInv
  <2>3. /\ page' = [at |-> page'.at, dirty |-> page'.dirty, shown |-> page'.shown,
                    from |-> page'.from, pending |-> page'.pending]
        /\ page'.at = where /\ page'.dirty = page.dirty /\ page'.pending = page.pending
    BY <2>2
  <2>4. /\ UNCHANGED <<sheet, site, snap, pc, queue, keys, result, basis, session, logins, edits>>
        /\ (faults' = faults \/ Fault)
    BY <1>15 DEF Redirect, CloseBrowser, world, run
  <2>5. faults' \in 0..MaxFaults
    BY <2>4, DashboardBounds DEF Fault, TypeInv
  <2>6. /\ page'.at \in {"search", "login", "closed"} /\ page'.dirty \in BOOLEAN
        /\ page'.pending \subseteq Keys
    BY <2>3 DEF TypeInv
  <2>7. /\ sheet' \in Sheets
        /\ site' \in Sites /\ edits' \in 0..MaxEdits
    BY <2>4 DEF TypeInv
  <2> QED
    BY <1>3, <2>3, <2>4, <2>5, <2>6, <2>7
<1>16. CASE Others
  <2>1. /\ UNCHANGED <<snap, pc, queue, keys, result, basis, session, page, logins, faults>>
        /\ site' \in Sites /\ edits' = edits + 1 /\ edits < MaxEdits
    BY <1>16 DEF Others, Amend, FillUpNo, ClearStatus, SettleRow, Edit, run, browser, TypeInv
  <2>2. edits' \in 0..MaxEdits /\ faults' \in 0..MaxFaults
    BY <2>1, DashboardBounds DEF TypeInv
  <2>3. \/ sheet' = sheet
        \/ \E r \in Rows : \/ sheet' = [sheet EXCEPT ![r].up = TRUE]
                           \/ sheet' = [sheet EXCEPT ![r].status = "none"]
                           \/ sheet' = [sheet EXCEPT ![r].status = "OK", ![r].dates = TRUE]
    BY <1>16 DEF Others, Amend, FillUpNo, ClearStatus, SettleRow
  <2>4. sheet' \in Sheets
    <3>1. CASE sheet' = sheet
      BY <3>1 DEF TypeInv
    <3>2. CASE \E r \in Rows : \/ sheet' = [sheet EXCEPT ![r].up = TRUE]
                              \/ sheet' = [sheet EXCEPT ![r].status = "none"]
                              \/ sheet' = [sheet EXCEPT ![r].status = "OK", ![r].dates = TRUE]
      <4>1. PICK r \in Rows : \/ sheet' = [sheet EXCEPT ![r].up = TRUE]
                              \/ sheet' = [sheet EXCEPT ![r].status = "none"]
                              \/ sheet' = [sheet EXCEPT ![r].status = "OK", ![r].dates = TRUE]
        BY <3>2
      <4>2. sheet \in Sheets
        BY DEF TypeInv
      <4> QED
        BY <4>1, <4>2, EditedSheetType
    <3> QED
      BY <2>3, <3>1, <3>2
  <2>5. page' = page
    BY <2>1
  <2>6. /\ page' = [at |-> page'.at, dirty |-> page'.dirty, shown |-> page'.shown,
                    from |-> page'.from, pending |-> page'.pending]
        /\ page'.at \in {"search", "login", "closed"} /\ page'.dirty \in BOOLEAN
        /\ page'.pending \subseteq Keys
    BY <2>5 DEF TypeInv
  <2> QED
    BY <1>3, <2>1, <2>2, <2>4, <2>6
<1>17. CASE UNCHANGED vars
  <2>1. /\ UNCHANGED <<snap, pc, queue, keys, result, basis, session, logins, sheet, site, edits,
                       faults>>
        /\ page' = page
    BY <1>17 DEF vars, world, run, browser
  <2> QED
    BY <2>1 DEF TypeInv
<1> QED
  BY <1>5, <1>6, <1>7, <1>9, <1>10, <1>11, <1>12, <1>13, <1>14, <1>15, <1>16, <1>17
  DEF Next, RunStep, Provider, Site

\* The invariant holds at first.
LEMMA InitTypeInv == Init => TypeInv
<1> SUFFICES ASSUME Init PROVE TypeInv
  OBVIOUS
<1>1. sheet \in Sheets
  <2>1. \A r \in Rows : Row[r].up \in BOOLEAN
    BY RowAssumption
  <2>2. "none" \in Statuses
    BY DEF Statuses
  <2> QED
    BY <2>1, <2>2 DEF Init, Sheets
<1>2. NoResult \in Decision
  BY DEF NoResult, Decision, Decisions, Statuses
<1>3. /\ result \in [Families -> Decision]
      /\ basis = [f \in Families |-> basis[f]]
  BY <1>2 DEF Init
<1>4. page = FreshPage
  BY DEF Init
<1>5. /\ page = [at |-> page.at, dirty |-> page.dirty, shown |-> page.shown,
                 from |-> page.from, pending |-> page.pending]
      /\ page.at = "search" /\ page.dirty = FALSE /\ page.pending = {}
  BY <1>4, FreshPageType
<1>6. edits = 0 /\ faults = 0 /\ MaxEdits \in Nat /\ MaxFaults \in Nat
  BY DashboardBounds DEF Init
<1>7. /\ pc = "idle" /\ queue = <<>> /\ keys = <<>> /\ session = "none" /\ logins = 0
      /\ site \in Sites /\ snap \in Sheets
  BY NothingReadType DEF Init
<1>8. queue \in Seq(Families) /\ keys \in Seq(Keys)
  BY <1>7
<1>9. /\ page.at \in {"search", "login", "closed"} /\ page.dirty \in BOOLEAN
      /\ page.pending \subseteq Keys
  BY <1>5
<1>10. logins \in Nat /\ edits \in 0..MaxEdits /\ faults \in 0..MaxFaults
  BY <1>6, <1>7
<1> QED
  BY <1>1, <1>3, <1>5, <1>7, <1>8, <1>9, <1>10 DEF TypeInv

\* Every reachable state is typed.
THEOREM TypeTheorem == Spec => []TypeOK
<1>1. Init => TypeInv
  BY InitTypeInv
<1>2. TypeInv => TypeOK
  BY DEF TypeInv, TypeOK, Decision, Sheets
<1> QED
  BY <1>1, <1>2, NextTypeInv, PTL DEF Spec
-----------------------------------------------------------------------------
(* Rows that are settled. *)

\* A family is accepted on an answer to one of its own search keys.
AnswerInv ==
  /\ result = [f \in Families |-> result[f]]
  /\ \A f \in Families :
       result[f].status \in Compliant => f \in Comparable /\ basis[f] \in Own(f)

\* The invariant is kept by every step (only ReadAnswer accepts a family).
LEMMA NextAnswerInv == ApartInv /\ AnswerInv /\ [Next]_vars => AnswerInv'
<1> SUFFICES ASSUME ApartInv, AnswerInv, [Next]_vars PROVE AnswerInv'
  OBVIOUS
<1>1. ASSUME NEW r, NEW from, Decide(r, from),
             r.status \in Compliant => Head(queue) \in Comparable /\ from \in Own(Head(queue))
      PROVE  AnswerInv'
  BY <1>1 DEF Decide, AnswerInv, ApartInv
<1>2. ASSUME Idle PROVE AnswerInv'
  BY <1>2 DEF Idle, NoResult, Compliant, AnswerInv
<1>3. ASSUME UNCHANGED <<result, basis>> PROVE AnswerInv'
  BY <1>3 DEF AnswerInv
<1>4. CASE BlockFamily \/ StayFailed \/ LoginFails \/ SessionLost \/ ResetFails
           \/ SubmitFails \/ ReadFails
  <2> DEFINE invalid == [decision |-> "hard_block", status |-> "invalid input", dates |-> FALSE]
  <2>1. Decide(FetchError, NoAnswer) \/ Decide(invalid, NoAnswer)
    BY <1>4 DEF BlockFamily, StayFailed, LoginFails, SessionLost, ResetFails, SubmitFails,
                ReadFails
  <2>2. FetchError.status \notin Compliant /\ invalid.status \notin Compliant
    BY DEF FetchError, Compliant
  <2> QED
    BY <1>1, <2>1, <2>2
<1>5. CASE ReadAnswer
  <2>1. /\ pc = "reading" /\ page.at = "search" /\ page.shown # NoAnswer
        /\ \E r : Decide(r, page.from)
    BY <1>5 DEF ReadAnswer
  <2>2. Head(queue) \in Comparable /\ page.from \in Own(Head(queue))
    BY <2>1 DEF ApartInv, PageIsFor
  <2> QED
    BY <1>1, <2>1, <2>2
<1>6. CASE ReadNothing
  <2> DEFINE none == [decision |-> "warning", status |-> "no result", dates |-> TRUE]
  <2>1. UNCHANGED <<result, basis>> \/ Decide(none, NoAnswer)
    BY <1>6 DEF ReadNothing
  <2>2. none.status \notin Compliant
    BY DEF Compliant
  <2> QED
    BY <1>1, <1>3, <2>1, <2>2
<1>7. CASE CommitWrites \/ WritesBlocked \/ WritesUncertain \/ Crash
  BY <1>2, <1>7 DEF CommitWrites, WritesBlocked, WritesUncertain, Crash
<1>8. CASE StartRun \/ Login \/ Reset \/ Submit \/ Site
  BY <1>3, <1>8 DEF StartRun, Login, Reset, Submit, Site, Redirect, CloseBrowser, Answer,
                    AnswerInPart, run
<1>9. CASE Others \/ UNCHANGED vars
  BY <1>3, <1>9 DEF Others, Amend, FillUpNo, ClearStatus, SettleRow, Edit, vars, run
<1> QED
  BY <1>4, <1>5, <1>6, <1>7, <1>8, <1>9 DEF Next, RunStep, Provider

\* The invariant holds at first.
LEMMA InitAnswerInv == Init => AnswerInv
<1> SUFFICES ASSUME Init PROVE AnswerInv
  OBVIOUS
<1>1. result = [f \in Families |-> NoResult] /\ NoResult.status \notin Compliant
  BY DEF Init, NoResult, Compliant
<1> HIDE DEF NoResult
<1> QED
  BY <1>1 DEF AnswerInv

\* What the writes change is open, and settled on an answer.
LEMMA WrittenSettlesOpen ==
  ASSUME DatesInv, AnswerInv, Prevalidated, NEW r \in Rows, Written[r] # sheet[r]
  PROVE  /\ sheet[r].status \notin Compliant
         /\ Written[r].status \in Compliant =>
              /\ Row[r].family \in Comparable
              /\ basis[Row[r].family] \in ToSet(SearchKeys[Row[r].family])
<1> DEFINE f == Row[r].family
<1>1. r \in Targets
  BY DEF Written
<1>2. sheet[r].status = snap[r].status /\ Candidate(snap, r)
  BY <1>1 DEF Prevalidated, Targets
<1>3. sheet[r].status \notin Compliant
  BY <1>2 DEF Candidate
<1>4. f \in Families
  BY RowAssumption
<1>5. Written[r].status = result[f].status
  <2>1. sheet[r] = [up |-> sheet[r].up, status |-> sheet[r].status, dates |-> sheet[r].dates]
    BY DEF DatesInv
  <2> DEFINE dates == result[f].dates \/ sheet[r].dates
  <2>2. Written[r] = [sheet[r] EXCEPT !.status = result[f].status, !.dates = dates]
    BY <1>1 DEF Written
  <2> HIDE DEF dates
  <2>3. Written[r] = [up |-> sheet[r].up, status |-> result[f].status, dates |-> dates]
    BY <2>1, <2>2
  <2> QED
    BY <2>3
<1> QED
  BY <1>3, <1>4, <1>5 DEF AnswerInv, Own

\* A run changes no row that is settled when it writes, whoever settled it since
\* the run has read the sheet, and settles a row only on an answer to a search
\* key of the row's own family (_build_family_write_operations, prevalidated).
THEOREM OpenRowsTheorem == Spec => RunsSettleOpenRows
<1> DEFINE Inv == TypeInv /\ DatesInv /\ ApartInv /\ AnswerInv
<1>1. Init => Inv
  BY InitTypeInv, InitDatesInv, InitApartInv, InitAnswerInv
<1>2. Inv /\ [Next]_vars => Inv'
  BY NextTypeInv, NextDatesInv, NextApartInv, NextAnswerInv
<1>3. Inv /\ [Next]_vars =>
        [edits' = edits =>
           \A r \in Rows : sheet'[r] # sheet[r] =>
             /\ sheet[r].status \notin Compliant
             /\ sheet'[r].status \in Compliant =>
                  /\ Row[r].family \in Comparable
                  /\ basis[Row[r].family] \in ToSet(SearchKeys[Row[r].family])]_vars
  <2> SUFFICES ASSUME Inv, Next, edits' = edits, NEW r \in Rows, sheet'[r] # sheet[r]
               PROVE  /\ sheet[r].status \notin Compliant
                      /\ sheet'[r].status \in Compliant =>
                           /\ Row[r].family \in Comparable
                           /\ basis[Row[r].family] \in ToSet(SearchKeys[Row[r].family])
    OBVIOUS
  <2>1. CASE CommitWrites \/ WritesUncertain
    <3>1. Prevalidated /\ sheet' \in {sheet, Written}
      BY <2>1 DEF CommitWrites, WritesUncertain
    <3> QED
      BY <3>1, WrittenSettlesOpen
  <2>2. CASE Others
    <3>1. edits' = edits + 1
      BY <2>2 DEF Others, Amend, FillUpNo, ClearStatus, SettleRow, Edit
    <3>2. edits \in 0..MaxEdits /\ MaxEdits \in Nat
      BY DashboardBounds DEF TypeInv
    <3> HIDE DEF Inv
    <3> QED
      BY <3>1, <3>2
  <2>3. CASE StartRun \/ Site \/ Crash \/ WritesBlocked \/ BlockFamily
    BY <2>3 DEF StartRun, Site, Redirect, CloseBrowser, Answer, AnswerInPart, Crash,
                WritesBlocked, BlockFamily, world
  <2>4. CASE Provider
    BY <2>4 DEF Provider, StayFailed, Login, LoginFails, Reset, SessionLost, ResetFails,
                Submit, SubmitFails, ReadAnswer, ReadNothing, ReadFails, world
  <2> QED
    BY <2>1, <2>2, <2>3, <2>4 DEF Next, RunStep
<1> QED
  BY <1>1, <1>2, <1>3, PTL DEF Spec, RunsSettleOpenRows
-----------------------------------------------------------------------------
(* Totals and the numeric rule. *)

\* The total of readings: a mark, or the sum of those that are amounts.
LEMMA TotalCases ==
  ASSUME NEW amounts, Len(amounts) \in Nat, DOMAIN amounts = 1..Len(amounts),
         \A i \in DOMAIN amounts : amounts[i] \in Readings
  PROVE  /\ Total(amounts) = Blank <=> \A i \in DOMAIN amounts : amounts[i] = Blank
         /\ Total(amounts) = Malformed <=> \E i \in DOMAIN amounts : amounts[i] = Malformed
         /\ Total(amounts) \in Readings
<1> DEFINE n == Len(amounts)
           populated == {i \in DOMAIN amounts : amounts[i] # Blank}
           malformed == \E i \in populated : amounts[i] = Malformed
           term == [i \in 1..n |-> IF i \in populated THEN amounts[i] ELSE 0]
           IsSum(g) == g = [i \in 0..n |->
             IF i = 0 THEN 0 ELSE g[i - 1] + (IF i \in populated THEN amounts[i] ELSE 0)]
           sum == CHOOSE g : IsSum(g)
           step == [p \in (1..n) \X Int |-> p[2] + term[p[1]]]
<1>0. Blank \notin Int /\ Malformed \notin Int /\ Blank # Malformed
  BY MarkAssumption
<1>1. n \in Nat /\ DOMAIN amounts = 1..n
  OBVIOUS
<1>2. Total(amounts) = IF populated = {} THEN Blank ELSE IF malformed THEN Malformed ELSE sum[n]
  BY DEF Total
<1>3. populated = {} <=> \A i \in DOMAIN amounts : amounts[i] = Blank
  OBVIOUS
<1>4. malformed <=> \E i \in DOMAIN amounts : amounts[i] = Malformed
  BY <1>0
<1>5. ASSUME ~malformed PROVE sum[n] \in Int
  <2>1. term \in [1..n -> Int]
    BY <1>1, <1>5 DEF Readings
  <2>2. \A i \in 1..n : term[i] = IF i \in populated THEN amounts[i] ELSE 0
    OBVIOUS
  <2> HIDE DEF n, term, populated
  <2>3. step \in [(1..n) \X Int -> Int]
    BY <2>1
  <2>4. \A i \in 1..n, x \in Int : step[<<i, x>>] = x + term[i]
    OBVIOUS
  <2> HIDE DEF step
  <2>5. \E g : IsSum(g)
    <3>1. 0 \in Int
      OBVIOUS
    <3>2. PICK g \in [0..n -> Int] : Recursive(g, n, 0, step)
      BY <1>1, <2>3, <3>1, RecursionExists, Zenon
    <3>3. \A i \in 1..n : g[i - 1] \in Int
      BY <1>1
    <3>4. g[0] = 0 /\ \A i \in 1..n : g[i] = g[i - 1] + term[i]
      BY <2>4, <3>2, <3>3 DEF Recursive
    <3>5. \A i \in 0..n : g[i] = IF i = 0 THEN 0
                    ELSE g[i - 1] + (IF i \in populated THEN amounts[i] ELSE 0)
      BY <1>1, <2>2, <3>4
    <3>6. IsSum(g)
      BY <3>5
    <3> QED
      BY <3>6
  <2>6. IsSum(sum)
    BY <2>5
  <2> HIDE DEF sum
  <2>7. sum[0] = 0 /\ \A i \in 1..n : sum[i] = sum[i - 1] + term[i]
    BY <1>1, <2>2, <2>6
  <2> DEFINE T == {i \in 0..n : sum[i] \in Int}
  <2>8. 0 \in T /\ \A k \in 1..n : k - 1 \in T => k \in T
    BY <1>1, <2>1, <2>7
  <2> HIDE DEF T
  <2>9. 0..n \subseteq T
    BY <1>1, <2>8, UpTo
  <2>10. n \in T
    BY <1>1, <2>9
  <2> QED
    BY <2>10 DEF T
<1> HIDE DEF sum, malformed, populated
<1>6. populated = {} => ~malformed
  BY DEF malformed
<1> QED
  BY <1>0, <1>2, <1>3, <1>4, <1>5, <1>6 DEF Readings

\* Percentages rounded half up bound the same amounts as the documented range.
LEMMA PercentRange ==
  ASSUME NEW excess \in Int, NEW more \in Int
  PROVE  more \in Percent(20, excess)..Percent(80, excess)
           <=> 100 * more \in (20 * excess - 50)..(80 * excess + 50)
<1> DEFINE low == (excess * 20 + 50) \div 100
           high == (excess * 80 + 50) \div 100
<1>1. low \in Int /\ 100 * low <= 20 * excess + 50 /\ 20 * excess + 50 < 100 * low + 100
  OBVIOUS
<1>2. high \in Int /\ 100 * high <= 80 * excess + 50 /\ 80 * excess + 50 < 100 * high + 100
  OBVIOUS
<1>3. Percent(20, excess) = low /\ Percent(80, excess) = high
  BY DEF Percent
<1> HIDE DEF low, high
<1>4. low <= more <=> 20 * excess - 50 <= 100 * more
  BY <1>1
<1>5. more <= high <=> 100 * more <= 80 * excess + 50
  BY <1>2
<1> QED
  BY <1>1, <1>2, <1>3, <1>4, <1>5

\* The rule on amounts: what it accepts and how, and how it labels the rest.
LEMMA NumericRuleCases ==
  ASSUME NEW value \in Int, NEW quantity \in Int, NEW erp,
         erp.value \in Int, erp.quantity \in Int, erp.weight \in Int \cup {Blank}
  PROVE  LET rule == NumericRule(value, quantity, erp)
             matches == \/ Near(quantity, erp.quantity, Tolerance)
                        \/ erp.weight # Blank /\ Near(quantity, erp.weight, WeightTolerance)
         IN  /\ Accepted(value, quantity, erp) =
                  IF rule.status = "mismatch" THEN {} ELSE {rule.status}
             /\ rule.status = "mismatch" <=> rule.topics # {}
             /\ value < erp.value - Tolerance =>
                  "Value" \in rule.topics /\ (matches => rule.topics = {"Value"})
             /\ /\ Near(value, erp.value, Tolerance)
                /\ quantity > erp.quantity + Tolerance /\ rule.status = "mismatch"
                => rule.topics = {"Quantity"}
<1> DEFINE ev == erp.value
           eq == erp.quantity
           rule == NumericRule(value, quantity, erp)
           byQuantity == Near(quantity, eq, Tolerance)
           byWeight == erp.weight # Blank /\ Near(quantity, erp.weight, WeightTolerance)
           sameValue == Near(value, ev, Tolerance)
           excessive == /\ value - ev >= 10000 /\ quantity - eq > Tolerance
                        /\ 100 * (quantity - eq) \in (20 * (value - ev) - 50)..(80 * (value - ev) + 50)
           low == value < ev - Tolerance
           high == value > ev + Tolerance
           less == quantity < eq - Tolerance
           more == quantity > eq + Tolerance
<1>1. sameValue <=> ~low /\ ~high
  BY DEF Near, Tolerance
<1>2. byQuantity <=> ~less /\ ~more
  BY DEF Near, Tolerance
<1>3. ~(low /\ high) /\ ~(less /\ more)
  BY DEF Tolerance
<1>4. Relation(value, ev) = IF sameValue THEN "equal" ELSE IF high THEN "higher" ELSE "lower"
  BY DEF Relation, Near, Tolerance
<1>5. Relation(quantity, eq) = IF byQuantity THEN "equal" ELSE IF more THEN "higher" ELSE "lower"
  BY DEF Relation, Near, Tolerance
<1>6. excessive <=> ExcessAccepted(value, quantity, erp) /\ more
  <2>1. ExcessAccepted(value, quantity, erp) <=>
          /\ value - ev >= 10000
          /\ 100 * (quantity - eq) \in (20 * (value - ev) - 50)..(80 * (value - ev) + 50)
    BY PercentRange DEF ExcessAccepted, MinValueExcess
  <2> QED
    BY <2>1 DEF Tolerance
<1>7. excessive => high
  BY DEF Tolerance
<1>8. Accepted(value, quantity, erp) =
        (IF sameValue /\ byQuantity THEN {"OK"} ELSE {})
          \cup (IF excessive THEN {"OK"} ELSE {})
          \cup (IF sameValue /\ ~byQuantity /\ byWeight THEN {"OK (KGS)"} ELSE {})
  BY DEF Accepted
<1>9. rule =
        IF sameValue /\ byQuantity THEN [status |-> "OK", topics |-> {}]
        ELSE IF sameValue /\ byWeight THEN [status |-> "OK (KGS)", topics |-> {}]
        ELSE IF low
          THEN [status |-> "mismatch",
                topics |-> {"Value"} \cup (IF less /\ ~byWeight THEN {"Quantity"} ELSE {})]
        ELSE IF less \/ sameValue THEN [status |-> "mismatch", topics |-> {"Quantity"}]
        ELSE IF more /\ ExcessAccepted(value, quantity, erp)
          THEN [status |-> "OK", topics |-> {}]
        ELSE [status |-> "mismatch", topics |-> {"Value", "Quantity"}]
  BY <1>1, <1>2, <1>3, <1>4, <1>5 DEF NumericRule
<1>10. value < erp.value - Tolerance <=> low
  OBVIOUS
<1>11. quantity > erp.quantity + Tolerance <=> more
  OBVIOUS
<1> HIDE DEF byQuantity, byWeight, sameValue, excessive, low, high, less, more, rule
<1>12. Accepted(value, quantity, erp) =
         IF rule.status = "mismatch" THEN {} ELSE {rule.status}
  BY <1>1, <1>2, <1>3, <1>6, <1>7, <1>8, <1>9
<1>13. rule.status = "mismatch" <=> rule.topics # {}
  BY <1>9
<1>14. low => "Value" \in rule.topics /\ (byQuantity \/ byWeight => rule.topics = {"Value"})
  BY <1>1, <1>2, <1>9
<1>15. sameValue /\ more /\ rule.status = "mismatch" => rule.topics = {"Quantity"}
  BY <1>1, <1>2, <1>9
<1> QED
  BY <1>10, <1>11, <1>12, <1>13, <1>14, <1>15 DEF rule, sameValue, byQuantity, byWeight
-----------------------------------------------------------------------------
(* The report of a family. *)

\* The results of the rules on a family, one by one.
LEMMA ResultsOfRules ==
  ASSUME NEW references, NEW erp, NEW shown
  PROVE  LET r == RuleResults(references, erp, shown)
             numeric == NumericResults(shown.value, Total(shown.quantities), erp,
                                       NumericStatus(erp, shown))
         IN  /\ r["beneficiary"] = Check(shown.beneficiary)
             /\ r["buyer_section_present"] = Check(shown.irc \cup shown.erc # {})
             /\ r["irc_buyer"] = SectionCheck(erp.buyer, shown.irc)
             /\ r["erc_buyer"] = SectionCheck(erp.buyer, shown.erc)
             /\ r["lc_date"] = DateCheck(erp.lcDate, shown.lcDate, 0, 0)
             /\ r["shipment_offset"] = DateCheck(erp.ship, shown.ship, 0, MaxShipmentOffset)
             /\ r["expiry_order"] = DateCheck(erp.expiry, shown.expiry, 0, Whenever)
             /\ r["dashboard_expiry_window"] =
                  DateCheck(shown.ship, shown.expiry, MinExpiryOffset, MaxExpiryOffset)
             /\ r["erp_expiry_window"] =
                  DateCheck(erp.ship, erp.expiry, MinExpiryOffset, MaxExpiryOffset)
             /\ r["foreign_lc_overlap"] = Check(references \cap shown.references # {})
             /\ \A rule \in {"inputs", "value_floor", "lc_quantity_match", "exact_value_quantity",
                             "kgs_alternative", "excess_alternative", "excess_minimum",
                             "excess_quantity_range"} : r[rule] = numeric[rule]
<1> DEFINE numeric == NumericResults(shown.value, Total(shown.quantities), erp,
                                     NumericStatus(erp, shown))
<1>1. DOMAIN numeric = {"inputs", "value_floor", "lc_quantity_match", "exact_value_quantity",
                        "kgs_alternative", "excess_alternative", "excess_minimum",
                        "excess_quantity_range"}
  BY DEF NumericResults
<1> HIDE DEF numeric
<1> QED
  BY <1>1 DEF RuleResults, RuleIds, numeric

\* The rules about amounts and quantities.
NumericIds == {"inputs", "value_floor", "lc_quantity_match", "exact_value_quantity",
               "kgs_alternative", "excess_alternative", "excess_minimum", "excess_quantity_range"}

\* The status of two readings, where both can be compared.
StatusOf(value, quantity, erp) ==
  IF Usable(value) /\ Usable(quantity) THEN NumericRule(value, quantity, erp).status ELSE "none"

\* The rules on value and quantity find no fault exactly when the status is an
\* acceptance, and those that pass are the way it names.
NumericAgrees(results, status) ==
  /\ (\A rule \in NumericIds : results[rule] \notin {"fail", "unavailable"})
       <=> status \in {"OK", "OK (KGS)"}
  /\ results["exact_value_quantity"] = "pass" => status = "OK"
  /\ results["kgs_alternative"] = "pass" <=> status = "OK (KGS)"
  /\ results["excess_minimum"] = "pass" /\ results["excess_quantity_range"] = "pass"
       => status = "OK"
  /\ status = "OK" => \/ results["exact_value_quantity"] = "pass"
                      \/ /\ results["excess_minimum"] = "pass"
                         /\ results["excess_quantity_range"] = "pass"

\* The rules on value and quantity find no fault exactly when the comparison
\* accepts both, and those that pass are the way it took.
LEMMA NumericEvidence ==
  ASSUME NEW value \in Readings, NEW quantity \in Readings, NEW erp, IsErp(erp),
         NEW status, status = StatusOf(value, quantity, erp),
         NEW results, results = NumericResults(value, quantity, erp, status)
  PROVE  NumericAgrees(results, status)
<1> DEFINE byWeight == erp.weight # Blank /\ Near(quantity, erp.weight, WeightTolerance)
           minimum == value - erp.value >= MinValueExcess
           range == quantity - erp.quantity
                      \in Percent(20, value - erp.value)..Percent(80, value - erp.value)
           valueIs == IF Usable(value) THEN Relation(value, erp.value) ELSE "none"
           quantityIs == IF Usable(quantity) THEN Relation(quantity, erp.quantity) ELSE "none"
<1>0. Blank \notin Int /\ Malformed \notin Int /\ Blank # Malformed
  BY MarkAssumption
<1>1. Usable(erp.value) /\ Usable(erp.quantity)
  BY <1>0 DEF IsErp, Usable
<1>2. Usable(value) => value \in Int /\ Relation(value, erp.value) \in {"equal", "higher", "lower"}
  BY DEF Readings, Usable, Relation
<1>3. Usable(quantity) =>
        quantity \in Int /\ Relation(quantity, erp.quantity) \in {"equal", "higher", "lower"}
  BY DEF Readings, Usable, Relation
<1>4. Usable(quantity) => (Near(quantity, erp.quantity, Tolerance) <=> quantityIs = "equal")
  BY DEF Relation
<1>5. Usable(value) /\ Usable(quantity) =>
        status = IF valueIs = "equal" /\ quantityIs = "equal" THEN "OK"
                 ELSE IF valueIs = "equal" /\ byWeight THEN "OK (KGS)"
                 ELSE IF valueIs = "higher" /\ quantityIs = "higher" /\ minimum /\ range THEN "OK"
                 ELSE "mismatch"
  BY <1>2, <1>3, <1>4 DEF NumericRule, ExcessAccepted, StatusOf
<1>6. ~(Usable(value) /\ Usable(quantity)) => status = "none"
  BY DEF StatusOf
<1>7. /\ results["inputs"] = IF "none" \in {valueIs, quantityIs} THEN "unavailable" ELSE "absent"
      /\ results["value_floor"] =
           IF valueIs = "none" THEN "unavailable" ELSE Check(valueIs # "lower")
      /\ results["lc_quantity_match"] =
           IF quantityIs = "none" THEN "unavailable"
           ELSE IF quantityIs # "equal" /\ status \in {"OK", "OK (KGS)"} THEN "not_applicable"
           ELSE Check(quantityIs = "equal")
  BY <1>1 DEF NumericResults
<1> DEFINE exact == valueIs = "equal" /\ quantityIs = "equal"
           missing == "none" \in {valueIs, quantityIs}
           kgs == valueIs = "equal" /\ quantityIs \notin {"none", "equal"} /\ byWeight
           bothHigher == valueIs = "higher" /\ quantityIs = "higher"
<1>8. /\ results["exact_value_quantity"] =
           IF missing THEN "unavailable" ELSE IF exact THEN "pass" ELSE "not_applicable"
      /\ results["kgs_alternative"] =
           IF exact \/ valueIs \in {"higher", "lower"} THEN "not_applicable"
           ELSE IF missing \/ erp.weight = Blank THEN "unavailable"
           ELSE Check(kgs)
      /\ results["excess_alternative"] =
           IF exact \/ kgs THEN "not_applicable"
           ELSE IF missing THEN "unavailable"
           ELSE IF bothHigher THEN "absent" ELSE "fail"
  BY <1>1 DEF NumericResults
<1>9. /\ results["excess_minimum"] = IF bothHigher THEN Check(minimum) ELSE "absent"
      /\ results["excess_quantity_range"] = IF bothHigher THEN Check(range) ELSE "absent"
  BY <1>1 DEF NumericResults
<1>10. /\ Usable(value) => valueIs \in {"equal", "higher", "lower"}
       /\ ~Usable(value) => valueIs = "none"
       /\ Usable(quantity) => quantityIs \in {"equal", "higher", "lower"}
       /\ ~Usable(quantity) => quantityIs = "none"
  BY <1>2, <1>3
<1>11. byWeight => erp.weight # Blank
  OBVIOUS
<1> HIDE DEF valueIs, quantityIs, minimum, range, byWeight
<1>12. (\A rule \in NumericIds : results[rule] \notin {"fail", "unavailable"})
         <=> status \in {"OK", "OK (KGS)"}
  <2>1. CASE ~(Usable(value) /\ Usable(quantity))
    BY <1>6, <1>7, <1>10, <2>1 DEF NumericIds
  <2>2. CASE Usable(value) /\ Usable(quantity)
    <3>1. CASE status \in {"OK", "OK (KGS)"}
      BY ZenonT(30), <1>5, <1>7, <1>8, <1>9, <1>10, <1>11, <2>2, <3>1 DEF NumericIds, Check
    <3>2. CASE status \notin {"OK", "OK (KGS)"}
      BY <1>5, <1>7, <1>8, <1>9, <1>10, <1>11, <2>2, <3>2 DEF NumericIds, Check
    <3> QED
      BY <3>1, <3>2
  <2> QED
    BY <2>1, <2>2
<1>13. results["exact_value_quantity"] = "pass" => status = "OK"
  BY <1>5, <1>8, <1>10
<1>14. results["kgs_alternative"] = "pass" <=> status = "OK (KGS)"
  BY <1>5, <1>6, <1>8, <1>10, <1>11 DEF Check
<1>15. results["excess_minimum"] = "pass" /\ results["excess_quantity_range"] = "pass"
         => status = "OK"
  BY <1>5, <1>9, <1>10 DEF Check
<1>16. status = "OK" => \/ results["exact_value_quantity"] = "pass"
                        \/ /\ results["excess_minimum"] = "pass"
                           /\ results["excess_quantity_range"] = "pass"
  BY <1>5, <1>6, <1>8, <1>9, <1>10 DEF Check
<1> QED
  BY <1>12, <1>13, <1>14, <1>15, <1>16 DEF NumericAgrees

\* The other rules.
PlainIds == RuleIds \ NumericIds

\* The other rules find no fault, two LC dates that cannot be read apart,
\* exactly when the comparison names no other topic.
LEMMA PlainEvidence ==
  ASSUME NEW references, NEW erp, NEW shown, IsErp(erp), IsShown(shown), NEW gap,
         gap = IF {Readable(erp.lcDate), Readable(shown.lcDate)} = {Blank} THEN {"lc_date"} ELSE {}
  PROVE  LET r == RuleResults(references, erp, shown)
         IN  (\A rule \in PlainIds : r[rule] # "fail" /\ (r[rule] = "unavailable" => rule \in gap))
               <=> OtherTopics(references, erp, shown) = {}
<1> DEFINE r == RuleResults(references, erp, shown)
           Clear(rule) == r[rule] # "fail" /\ (r[rule] = "unavailable" => rule \in gap)
<1>0. Blank \notin Int /\ Malformed \notin Int /\ Blank # Malformed
  BY MarkAssumption
<1>1. /\ r["beneficiary"] = Check(shown.beneficiary)
      /\ r["buyer_section_present"] = Check(shown.irc \cup shown.erc # {})
      /\ r["irc_buyer"] = SectionCheck(erp.buyer, shown.irc)
      /\ r["erc_buyer"] = SectionCheck(erp.buyer, shown.erc)
      /\ r["lc_date"] = DateCheck(erp.lcDate, shown.lcDate, 0, 0)
      /\ r["shipment_offset"] = DateCheck(erp.ship, shown.ship, 0, MaxShipmentOffset)
      /\ r["expiry_order"] = DateCheck(erp.expiry, shown.expiry, 0, Whenever)
      /\ r["dashboard_expiry_window"] =
           DateCheck(shown.ship, shown.expiry, MinExpiryOffset, MaxExpiryOffset)
      /\ r["erp_expiry_window"] =
           DateCheck(erp.ship, erp.expiry, MinExpiryOffset, MaxExpiryOffset)
      /\ r["foreign_lc_overlap"] = Check(references \cap shown.references # {})
  BY ResultsOfRules
<1>2. PlainIds = {"beneficiary", "buyer_section_present", "irc_buyer", "erc_buyer", "lc_date",
                  "shipment_offset", "expiry_order", "dashboard_expiry_window",
                  "erp_expiry_window", "foreign_lc_overlap"}
  BY DEF PlainIds, RuleIds, NumericIds
<1> HIDE DEF r
<1>3. gap \subseteq {"lc_date"}
  OBVIOUS
<1>4. Clear("beneficiary") <=> shown.beneficiary
  BY <1>1, <1>3 DEF Check
<1>5. Clear("buyer_section_present") /\ Clear("irc_buyer") /\ Clear("erc_buyer")
        <=> BuyerTopics(erp.buyer, shown) = {}
  <2>1. Clear("buyer_section_present") <=> shown.irc # {} \/ shown.erc # {}
    BY <1>1 DEF Check
  <2>2. Clear("irc_buyer") <=> shown.irc = {} \/ erp.buyer \in shown.irc
    BY <1>1, <1>3 DEF SectionCheck, Check, IsErp
  <2>3. Clear("erc_buyer") <=> shown.erc = {} \/ erp.buyer \in shown.erc
    BY <1>1, <1>3 DEF SectionCheck, Check, IsErp
  <2>4. BuyerTopics(erp.buyer, shown) = {}
          <=> /\ shown.irc # {} \/ shown.erc # {}
              /\ shown.irc = {} \/ erp.buyer \in shown.irc
              /\ shown.erc = {} \/ erp.buyer \in shown.erc
    <3>1. CASE shown.irc = {} /\ shown.erc = {}
      BY <3>1 DEF BuyerTopics
    <3>2. CASE shown.irc # {} \/ shown.erc # {}
      <4>1. "IRC Details" \in BuyerTopics(erp.buyer, shown)
              <=> shown.irc # {} /\ erp.buyer \notin shown.irc
        BY <3>2 DEF BuyerTopics
      <4>2. "ERC Details" \in BuyerTopics(erp.buyer, shown)
              <=> shown.erc # {} /\ erp.buyer \notin shown.erc
        BY <3>2 DEF BuyerTopics
      <4>3. BuyerTopics(erp.buyer, shown) \subseteq {"IRC Details", "ERC Details"}
        BY DEF BuyerTopics
      <4> QED
        BY <3>2, <4>1, <4>2, <4>3
    <3> QED
      BY <3>1, <3>2
  <2> HIDE DEF Clear
  <2> QED
    BY <2>1, <2>2, <2>3, <2>4
<1>6. ASSUME NEW rule \in PlainIds \ {"lc_date"}, NEW from \in Readings, NEW to \in Readings,
             NEW min \in Int, NEW max \in Int, r[rule] = DateCheck(from, to, min, max)
      PROVE  Clear(rule) <=> Days(from, to, min, max)
  BY <1>0, <1>3, <1>6 DEF DateCheck, Days, Readable, Readings, Check
<1>7. Clear("lc_date") <=> Readable(shown.lcDate) = Readable(erp.lcDate)
  <2>1. erp.lcDate \in Readings /\ shown.lcDate \in Readings
    BY DEF IsErp, IsShown
  <2>2. CASE Readable(erp.lcDate) = Blank /\ Readable(shown.lcDate) = Blank
    BY <1>1, <2>2 DEF DateCheck
  <2>3. CASE Blank \in {Readable(erp.lcDate), Readable(shown.lcDate)}
             /\ Readable(erp.lcDate) # Readable(shown.lcDate)
    <3>1. gap = {}
      BY <2>3
    <3>2. r["lc_date"] = "unavailable"
      BY <1>1, <2>3 DEF DateCheck
    <3> QED
      BY <3>1, <3>2, <2>3
  <2>4. CASE Blank \notin {Readable(erp.lcDate), Readable(shown.lcDate)}
    <3>1. erp.lcDate \in Int /\ shown.lcDate \in Int
      BY <2>1, <2>4 DEF Readable, Readings
    <3>2. r["lc_date"] = Check(Days(erp.lcDate, shown.lcDate, 0, 0))
      BY <1>1, <2>4 DEF DateCheck
    <3>3. Days(erp.lcDate, shown.lcDate, 0, 0) <=> erp.lcDate = shown.lcDate
      BY <1>0, <3>1 DEF Days
    <3>4. Readable(erp.lcDate) = erp.lcDate /\ Readable(shown.lcDate) = shown.lcDate
      BY <1>0, <3>1 DEF Readable
    <3> QED
      BY <3>2, <3>3, <3>4 DEF Check
  <2> QED
    BY <2>2, <2>3, <2>4
<1>r. /\ erp.ship \in Readings /\ erp.expiry \in Readings
      /\ shown.ship \in Readings /\ shown.expiry \in Readings
  BY DEF IsErp, IsShown
<1>12. Clear("foreign_lc_overlap") <=> references \cap shown.references # {}
  BY <1>1, <1>3 DEF Check
<1> HIDE DEF Clear
<1>8. Clear("shipment_offset") <=> Days(erp.ship, shown.ship, 0, MaxShipmentOffset)
  BY <1>1, <1>2, <1>6, <1>r DEF MaxShipmentOffset
<1>9. Clear("expiry_order") <=> Days(erp.expiry, shown.expiry, 0, Whenever)
  BY <1>1, <1>2, <1>6, <1>r DEF Whenever
<1>10. Clear("dashboard_expiry_window")
         <=> Days(shown.ship, shown.expiry, MinExpiryOffset, MaxExpiryOffset)
  BY <1>1, <1>2, <1>6, <1>r DEF MinExpiryOffset, MaxExpiryOffset
<1>11. Clear("erp_expiry_window")
         <=> Days(erp.ship, erp.expiry, MinExpiryOffset, MaxExpiryOffset)
  BY <1>1, <1>2, <1>6, <1>r DEF MinExpiryOffset, MaxExpiryOffset
<1>13. (\A rule \in PlainIds : Clear(rule))
         <=> /\ Clear("beneficiary") /\ Clear("buyer_section_present")
             /\ Clear("irc_buyer") /\ Clear("erc_buyer") /\ Clear("lc_date")
             /\ Clear("shipment_offset") /\ Clear("expiry_order")
             /\ Clear("dashboard_expiry_window") /\ Clear("erp_expiry_window")
             /\ Clear("foreign_lc_overlap")
  BY <1>2
<1>14. OtherTopics(references, erp, shown) = {}
         <=> /\ BuyerTopics(erp.buyer, shown) = {}
             /\ shown.beneficiary
             /\ Readable(shown.lcDate) = Readable(erp.lcDate)
             /\ Days(erp.ship, shown.ship, 0, MaxShipmentOffset)
             /\ Days(erp.expiry, shown.expiry, 0, Whenever)
             /\ Days(shown.ship, shown.expiry, MinExpiryOffset, MaxExpiryOffset)
             /\ Days(erp.ship, erp.expiry, MinExpiryOffset, MaxExpiryOffset)
             /\ references \cap shown.references # {}
  BY DEF OtherTopics
<1>15. (\A rule \in PlainIds : Clear(rule)) <=> OtherTopics(references, erp, shown) = {}
  BY <1>4, <1>5, <1>7, <1>8, <1>9, <1>10, <1>11, <1>12, <1>13, <1>14
<1> QED
  BY <1>15 DEF Clear, r

\* No topic of the other rules is Value or Quantity.
LEMMA OtherTopicsAreOthers ==
  ASSUME NEW references, NEW erp, NEW shown
  PROVE  {"Value", "Quantity"} \cap OtherTopics(references, erp, shown) = {}
<1>1. BuyerTopics(erp.buyer, shown) \subseteq {"IRC Details", "ERC Details"}
  BY DEF BuyerTopics
<1> QED
  BY <1>1 DEF OtherTopics

\* The report of a family explains the decision on it.
LEMMA EvidenceExplains ==
  ASSUME NEW c, IsErp(c.erp), IsShown(c.shown)
  PROVE  Explained(c)
<1> DEFINE erp == c.erp
           shown == c.shown
           value == shown.value
           quantity == Total(shown.quantities)
           status == NumericStatus(erp, shown)
           rule == NumericRule(value, quantity, erp)
           results == RuleResults(c.references, erp, shown)
           numeric == NumericResults(value, quantity, erp, status)
           other == OtherTopics(c.references, erp, shown)
           decided == Evaluation(c.references, erp, shown)
           comparison == Compare(c.references, erp, shown)
           evidence == Evidence(c.references, erp, shown)
           gap == IF {Readable(erp.lcDate), Readable(shown.lcDate)} = {Blank} THEN {"lc_date"} ELSE {}
           issues == NumericIssues(shown)
           usable == Usable(value) /\ Usable(quantity)
<1>0. Blank \notin Int /\ Malformed \notin Int /\ Blank # Malformed
  BY MarkAssumption
<1>1. /\ shown.quantities \in Seq(Readings) /\ value \in Readings
      /\ Usable(erp.value) /\ Usable(erp.quantity)
      /\ erp.value \in Int /\ erp.quantity \in Int /\ erp.weight \in Int \cup {Blank}
  BY <1>0 DEF IsErp, IsShown, Usable
<1>2. /\ quantity \in Readings
      /\ quantity = Malformed <=> Malformed \in ToSet(shown.quantities)
  <2> DEFINE amounts == shown.quantities
  <2>1. amounts \in Seq(Readings)
    BY <1>1
  <2> HIDE DEF amounts
  <2>2. /\ Len(amounts) \in Nat /\ DOMAIN amounts = 1..Len(amounts)
        /\ \A i \in DOMAIN amounts : amounts[i] \in Readings
    BY <2>1
  <2>3. Malformed \in ToSet(amounts) <=> \E i \in DOMAIN amounts : amounts[i] = Malformed
    BY DEF ToSet
  <2> QED
    BY <2>2, <2>3, TotalCases DEF amounts
<1>3. status = IF usable THEN rule.status ELSE "none"
  BY <1>1 DEF NumericStatus, Usable
<1>4. /\ (\A id \in NumericIds : numeric[id] \notin {"fail", "unavailable"})
           <=> status \in {"OK", "OK (KGS)"}
      /\ numeric["exact_value_quantity"] = "pass" => status = "OK"
      /\ numeric["kgs_alternative"] = "pass" <=> status = "OK (KGS)"
      /\ numeric["excess_minimum"] = "pass" /\ numeric["excess_quantity_range"] = "pass"
           => status = "OK"
      /\ status = "OK" => \/ numeric["exact_value_quantity"] = "pass"
                          \/ /\ numeric["excess_minimum"] = "pass"
                             /\ numeric["excess_quantity_range"] = "pass"
  <2> HIDE DEF status, quantity, erp, shown
  <2>1. status = StatusOf(value, quantity, erp)
    BY <1>3 DEF StatusOf
  <2>2. IsErp(erp)
    BY DEF erp
  <2>3. value \in Readings /\ quantity \in Readings
    BY <1>1, <1>2
  <2> HIDE DEF value
  <2> QED
    <3>1. numeric = NumericResults(value, quantity, erp, status)
      OBVIOUS
    <3> HIDE DEF numeric
    <3>2. NumericAgrees(numeric, status)
      BY <2>1, <2>2, <2>3, <3>1, NumericEvidence
    <3> QED
      BY <3>2 DEF NumericAgrees
<1>5. \A id \in NumericIds : results[id] = numeric[id]
  BY ResultsOfRules DEF NumericIds
<1>6. (\A id \in PlainIds : results[id] # "fail" /\ (results[id] = "unavailable" => id \in gap))
        <=> other = {}
  BY PlainEvidence
<1>7. issues <=> Malformed \in {value, quantity}
  BY <1>2 DEF NumericIssues
<1>8. usable => /\ rule.status \in {"OK", "OK (KGS)", "mismatch"}
                /\ rule.status = "mismatch" <=> rule.topics # {}
  <2> SUFFICES ASSUME usable
               PROVE  /\ rule.status \in {"OK", "OK (KGS)", "mismatch"}
                      /\ rule.status = "mismatch" <=> rule.topics # {}
    OBVIOUS
  <2>1. value \in Int /\ quantity \in Int
    BY <1>1, <1>2 DEF Usable, Readings
  <2>2. rule.status = "mismatch" <=> rule.topics # {}
    BY <1>1, <2>1, NumericRuleCases
  <2>3. rule.status \in {"OK", "OK (KGS)", "mismatch"}
    BY DEF NumericRule
  <2> QED
    BY <2>2, <2>3
<1>9. ~issues => comparison =
        IF ~usable THEN [status |-> "mismatch",
                         topics |-> other \cup (IF value = Blank THEN {"Value"} ELSE {})
                                     \cup (IF quantity = Blank THEN {"Quantity"} ELSE {})]
        ELSE IF other = {} THEN rule
        ELSE [status |-> "mismatch", topics |-> other \cup rule.topics]
  <2> HIDE DEF quantity, value, rule, issues
  <2>1. comparison =
          IF (IF value = Blank THEN {"Value"} ELSE {})
               \cup (IF quantity = Blank THEN {"Quantity"} ELSE {}) # {}
            THEN [status |-> "mismatch",
                  topics |-> other \cup ((IF value = Blank THEN {"Value"} ELSE {})
                                     \cup (IF quantity = Blank THEN {"Quantity"} ELSE {}))]
          ELSE IF other = {} THEN rule
          ELSE [status |-> "mismatch", topics |-> other \cup rule.topics]
    BY DEF Compare, quantity, value, rule
  <2> QED
    BY <1>7, <2>1 DEF Usable
<1>10. decided = IF issues THEN [decision |-> "hard_block", status |-> "invalid", dates |-> FALSE]
         ELSE [decision |-> IF comparison.status = "mismatch" THEN "warning" ELSE "pass",
               status |-> comparison.status, dates |-> TRUE]
  BY DEF Evaluation
<1>11. /\ evidence.path = NumericPath(results, status)
       /\ evidence.failed = With(results, "fail")
       /\ evidence.unavailable = With(results, "unavailable")
  BY DEF Evidence
<1>12. RuleIds = NumericIds \cup PlainIds /\ gap \cap NumericIds = {}
  BY DEF RuleIds, NumericIds, PlainIds
<1> HIDE DEF results, numeric, other, decided, comparison, evidence, gap, issues, status, rule,
             quantity, value, usable
<1>13. evidence.failed \cup (evidence.unavailable \ gap) = {}
         <=> status \in {"OK", "OK (KGS)"} /\ other = {}
  <2>1. evidence.failed \cup (evidence.unavailable \ gap) = {}
          <=> \A id \in RuleIds : results[id] # "fail" /\ (results[id] = "unavailable" => id \in gap)
    BY <1>11 DEF With
  <2>2. (\A id \in NumericIds : results[id] # "fail" /\ (results[id] = "unavailable" => id \in gap))
          <=> status \in {"OK", "OK (KGS)"}
    BY <1>4, <1>5, <1>12
  <2> QED
    BY <1>6, <1>12, <2>1, <2>2
<1>14. /\ decided.decision = "pass" <=> status \in {"OK", "OK (KGS)"} /\ other = {}
       /\ decided.decision = "pass" => decided.status = status
       /\ decided.decision = "warning" => ~issues
  <2>1. CASE issues
    <3>1. status = "none" /\ decided.decision = "hard_block"
      BY <1>3, <1>7, <1>10, <2>1 DEF Usable, usable
    <3> QED
      BY <2>1, <3>1
  <2>2. CASE ~issues /\ ~usable
    <3>1. status = "none" /\ comparison.status = "mismatch"
      BY <1>3, <1>9, <2>2
    <3>2. decided.decision = "warning"
      BY <1>10, <2>2, <3>1
    <3> QED
      BY <2>2, <3>1, <3>2
  <2>3. CASE ~issues /\ usable /\ other = {}
    <3>1. status = rule.status /\ comparison = rule
      BY <1>3, <1>9, <2>3
    <3>2. /\ decided.decision = IF status = "mismatch" THEN "warning" ELSE "pass"
          /\ decided.status = status
      BY <1>10, <2>3, <3>1
    <3> QED
      BY <1>8, <2>3, <3>1, <3>2
  <2>4. CASE ~issues /\ usable /\ other # {}
    <3>1. comparison.status = "mismatch"
      BY <1>9, <2>4
    <3>2. decided.decision = "warning"
      BY <1>10, <2>4, <3>1
    <3> QED
      BY <2>4, <3>2
  <2> QED
    BY <2>1, <2>2, <2>3, <2>4
<1>15. /\ evidence.path \in {"tolerance", "excess"} <=> status = "OK"
       /\ evidence.path = "weight" <=> status = "OK (KGS)"
  BY <1>4, <1>5, <1>11 DEF NumericPath, With, RuleIds, NumericIds
<1>16. ASSUME decided.decision = "warning", evidence.path \in {"tolerance", "weight", "excess"}
       PROVE  {"Value", "Quantity"} \cap comparison.topics = {}
  <2>1. ~issues /\ usable /\ rule.topics = {}
    BY <1>3, <1>8, <1>14, <1>15, <1>16
  <2>2. comparison.topics = other
    BY <1>9, <2>1
  <2> QED
    BY <2>2, OtherTopicsAreOthers DEF other
<1> QED
  BY <1>13, <1>14, <1>15, <1>16 DEF Explained, decided, evidence, comparison, gap
-----------------------------------------------------------------------------
(* The comparison in the state of a run. *)

\* What the columns of a family's rows add up to.
LEMMA ColumnTotalType ==
  ASSUME NEW rows, IsErpRows(rows), NEW field \in {"value", "quantity", "weight"}
  PROVE  ColumnTotal(rows, field) \in Readings
<1> DEFINE amounts == [i \in DOMAIN rows |-> IF i \in Deduped(rows) THEN rows[i][field] ELSE Blank]
<1>1. Len(rows) \in Nat /\ DOMAIN rows = 1..Len(rows)
  BY DEF IsErpRows
<1>2. amounts \in Seq(Readings)
  <2>1. \A i \in DOMAIN rows : rows[i][field] \in Readings
    BY DEF IsErpRows
  <2>2. \A i \in DOMAIN rows : amounts[i] \in Readings
    BY <2>1 DEF Readings
  <2> QED
    BY <1>1, <2>2
<1>3. ColumnTotal(rows, field) = Total(amounts)
  BY DEF ColumnTotal
<1> HIDE DEF amounts
<1>4. /\ Len(amounts) \in Nat /\ DOMAIN amounts = 1..Len(amounts)
      /\ \A i \in DOMAIN amounts : amounts[i] \in Readings
  BY <1>2
<1> QED
  BY <1>3, <1>4, TotalCases

\* An aggregate of consistent ERP rows can be compared.
LEMMA OursAreErp ==
  ASSUME NEW f \in Comparable
  PROVE  IsErp(Ours[f])
<1> DEFINE rows == Erp[f]
<1>1. f \in Families /\ Consistent(rows) /\ IsErpRows(rows)
  BY ErpAssumption DEF Comparable
<1>2. Ours[f] = Aggregate(rows)
  BY DEF Ours
<1> HIDE DEF rows
<1>3. ASSUME NEW field \in {"lcDate", "ship", "expiry"}
      PROVE  Only(Column(rows, field, Blank), Blank) \in Readings
  <2>1. Column(rows, field, Blank) \subseteq Readings
    BY <1>1 DEF Column, Deduped, IsErpRows
  <2> QED
    BY <2>1 DEF Only, Readings
<1>4. Only(Buyers(rows), Nobody) # Nobody
  <2>1. Cardinality(Buyers(rows)) = 1
    BY <1>1 DEF Consistent
  <2>2. Buyers(rows) # {}
    BY <2>1, FS_EmptySet
  <2>3. Only(Buyers(rows), Nobody) \in Buyers(rows)
    BY <2>2 DEF Only
  <2> QED
    BY <2>3 DEF Buyers
<1>5. /\ ColumnTotal(rows, "value") \in Readings
      /\ ColumnTotal(rows, "quantity") \in Readings
      /\ ColumnTotal(rows, "weight") \in Readings
  BY <1>1, ColumnTotalType
<1>6. ColumnTotal(rows, "value") \in Int /\ ColumnTotal(rows, "quantity") \in Int
  BY <1>1, <1>5 DEF Consistent, Readings
<1>7. (IF ColumnTotal(rows, "weight") = Malformed THEN Blank ELSE ColumnTotal(rows, "weight"))
        \in Int \cup {Blank}
  BY <1>5 DEF Readings
<1>8. /\ Aggregate(rows).buyer = Only(Buyers(rows), Nobody)
      /\ Aggregate(rows).lcDate = Only(Column(rows, "lcDate", Blank), Blank)
      /\ Aggregate(rows).ship = Only(Column(rows, "ship", Blank), Blank)
      /\ Aggregate(rows).expiry = Only(Column(rows, "expiry", Blank), Blank)
      /\ Aggregate(rows).value = ColumnTotal(rows, "value")
      /\ Aggregate(rows).quantity = ColumnTotal(rows, "quantity")
      /\ Aggregate(rows).weight =
           IF ColumnTotal(rows, "weight") = Malformed THEN Blank ELSE ColumnTotal(rows, "weight")
  BY DEF Aggregate
<1> QED
  BY <1>2, <1>3, <1>4, <1>6, <1>7, <1>8 DEF IsErp

\* What the dashboard knows is always one of the sites.
LEMMA SiteIsOne == Spec => [](site \in Sites)
<1>1. Init => site \in Sites
  BY DEF Init
<1>2. site \in Sites /\ [Next]_vars => (site \in Sites)'
  <2> SUFFICES ASSUME site \in Sites, [Next]_vars PROVE site' \in Sites
    OBVIOUS
  <2>1. site' = site \/ Amend
    BY DEF Next, StartRun, RunStep, BlockFamily, Provider, StayFailed, Login, LoginFails, Reset,
           SessionLost, ResetFails, Submit, SubmitFails, ReadAnswer, ReadNothing, ReadFails,
           CommitWrites, WritesBlocked, WritesUncertain, Site, Redirect, CloseBrowser, Answer,
           AnswerInPart, Crash, Others, FillUpNo, ClearStatus, SettleRow, world, vars
  <2> QED
    BY <2>1 DEF Amend
<1> QED
  BY <1>1, <1>2, PTL DEF Spec

\* What a family of the run is compared with can be compared.
LEMMA SiteCasesAreCases ==
  ASSUME site \in Sites, NEW c \in SiteCases
  PROVE  IsErp(c.erp) /\ IsShown(c.shown)
<1>1. PICK f \in Comparable, k \in {k \in Keys : Answered(k)} :
        c = [references |-> {"none"}, erp |-> Ours[f], shown |-> site[k]]
  BY DEF SiteCases
<1>2. c.erp = Ours[f] /\ c.shown = site[k]
  BY <1>1
<1>3. IsShown(site[k])
  BY SiteAssumption DEF Answered
<1> QED
  BY <1>2, <1>3, OursAreErp

\* A comparison of readings is documented.
LEMMA CaseDocumented ==
  ASSUME NEW c, IsErp(c.erp), IsShown(c.shown)
  PROVE  Documented(c)
<1> DEFINE amounts == c.shown.quantities
           value == c.shown.value
           quantity == Total(amounts)
<1> SUFFICES ASSUME {value, quantity} \cap {Blank, Malformed} = {} PROVE Documented(c)
  BY DEF Documented
<1>1. quantity \in Readings
  <2>1. amounts \in Seq(Readings)
    BY DEF IsShown
  <2> HIDE DEF amounts
  <2>2. /\ Len(amounts) \in Nat /\ DOMAIN amounts = 1..Len(amounts)
        /\ \A i \in DOMAIN amounts : amounts[i] \in Readings
    BY <2>1
  <2> QED
    BY <2>2, TotalCases
<1>2. value \in Int /\ quantity \in Int
  BY <1>1 DEF IsShown, Readings
<1>3. c.erp.value \in Int /\ c.erp.quantity \in Int /\ c.erp.weight \in Int \cup {Blank}
  BY DEF IsErp
<1> QED
  BY ZenonT(30), <1>2, <1>3, NumericRuleCases DEF Documented

\* The cascade of early returns accepts exactly what one of the documented ways
\* accepts (_compare_value_and_quantity).
THEOREM NumericRuleTheorem == Spec => []NumericRuleAsDocumented
<1>1. site \in Sites => NumericRuleAsDocumented
  <2>1. CasesDocumented
    BY CaseAssumption, CaseDocumented DEF CasesDocumented
  <2>2. ASSUME site \in Sites, NEW c \in SiteCases PROVE Documented(c)
    BY <2>2, SiteCasesAreCases, CaseDocumented
  <2> QED
    BY <2>1, <2>2 DEF NumericRuleAsDocumented
<1> QED
  BY <1>1, SiteIsOne, PTL

\* The report explains every decision (_build_rule_results against the
\* comparison).
THEOREM EvidenceTheorem == Spec => []EvidenceExplainsDecision
<1>1. site \in Sites => EvidenceExplainsDecision
  <2>1. CasesExplained
    BY CaseAssumption, EvidenceExplains DEF CasesExplained
  <2>2. ASSUME site \in Sites, NEW c \in SiteCases PROVE Explained(c)
    BY <2>2, SiteCasesAreCases, EvidenceExplains
  <2> QED
    BY <2>1, <2>2 DEF EvidenceExplainsDecision
<1> QED
  BY <1>1, SiteIsOne, PTL
=============================================================================
