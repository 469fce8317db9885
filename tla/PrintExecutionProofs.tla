------------------------ MODULE PrintExecutionProofs ------------------------
(***************************************************************************)
(* Proofs about the print phase, for every number of groups and documents. *)
(***************************************************************************)
EXTENDS PrintExecutionProps, TLAPS

-----------------------------------------------------------------------------
(* The inductive invariant. *)

\* Where execute-print stands, and what it may find there.
PlaceInv ==
  /\ pc # "idle" => status = "printing"
  /\ pc # "idle" => group \in 1..(NumGroups + 1)
  /\ pc \in {"submit", "interrupted"} => group \in Groups
  /\ pc = "submit" => marker[group].state # "completed" /\ Recorded <= Count[group]
  /\ pc = "submit" /\ blank => Recorded = Count[group]
  /\ pc # "idle" => \A g \in Groups : g < group => marker[g].state = "completed"

\* What a marker says of the number of documents.
MarkerInv ==
  /\ \A g \in Groups :
       /\ marker[g].printed <= Count[g]
       /\ marker[g].state = "missing" => marker[g].printed = 0
       /\ marker[g].state = "completed" => marker[g].printed = Count[g]
  /\ status = "completed" => \A g \in Groups : marker[g].state = "completed"

\* A document has a receipt, in its marker or in the running process.
Accounted(p) ==
  \/ p[2] <= marker[p[1]].printed
  \/ pc = "submit" /\ p[1] = group /\ p[2] <= Recorded

\* What has a receipt is on paper, and apart from lost outputs only that.
PaperInv ==
  \A p \in Pages :
    /\ Accounted(p) => paper[p] > 0
    /\ paper[p] <= lost[p] + (IF Accounted(p) THEN 1 ELSE 0)

BlankInv ==
  \A g \in Groups :
    blanks[g] <= lostBlanks[g] +
      (IF marker[g].state = "completed" \/ (pc = "submit" /\ group = g /\ blank)
       THEN 1 ELSE 0)

IInv == TypeOK /\ PlaceInv /\ MarkerInv /\ PaperInv /\ BlankInv /\ PrintedInOrder

-----------------------------------------------------------------------------
(* Types and places. *)

\* The pages are the documents of the groups.
LEMMA PageOfGroup ==
  ASSUME NEW g \in Groups, NEW d \in 1..Count[g]
  PROVE  <<g, d>> \in Pages
  BY DEF Pages

\* A page is a group and the place of one of its documents.
LEMMA PageHasGroup ==
  ASSUME NEW p \in Pages
  PROVE  /\ p[1] \in Groups /\ p[2] \in 1..Count[p[1]]
         /\ p = <<p[1], p[2]>>
         /\ p[2] \in Nat
<1>1. PICK g \in Groups : p \in {g} \X (1..Count[g])
  BY DEF Pages
<1>. QED
  BY <1>1

\* Every group has at least one document.
LEMMA CountType == \A g \in Groups : Count[g] \in Nat /\ Count[g] > 0
  BY CountAssumption

\* A planned phase is well typed.
LEMMA InitTypeOK == Init => TypeOK
<1>1. NoMarker \in Markers
  BY DEF NoMarker, Markers, MarkerStates
<1>2. Init => blank \in BOOLEAN
  BY DEF Init
<1>. QED
  BY <1>1, <1>2 DEF Init, TypeOK, PrintStatuses

\* Every step keeps the types.
LEMMA NextTypeOK ==
  ASSUME TypeOK, PlaceInv, [Next]_vars
  PROVE  TypeOK'
<1> USE DEF TypeOK, PlaceInv, counters, Markers, MarkerStates, PrintStatuses, Recorded
<1>1. ASSUME PlanPrint
      PROVE  TypeOK'
  BY PageOfGroup, GroupsAssumption, CountType, <1>1 DEF PlanPrint, Disturb
<1>2. ASSUME GenerateChecklist
      PROVE  TypeOK'
  BY PageOfGroup, GroupsAssumption, CountType, <1>2 DEF GenerateChecklist
<1>3. ASSUME GenerateChecklistFails
      PROVE  TypeOK'
  BY PageOfGroup, GroupsAssumption, CountType, <1>3 DEF
     GenerateChecklistFails, Disturb
<1>4. ASSUME NEW g \in Groups, NEW n \in 1..(Count[g] + 1), AcknowledgePartialPrint(g, n)
      PROVE  TypeOK'
  BY PageOfGroup, GroupsAssumption, CountType, <1>4 DEF
     AcknowledgePartialPrint
<1>5. ASSUME Execute
      PROVE  TypeOK'
  BY PageOfGroup, GroupsAssumption, CountType, <1>5 DEF Execute, Executable
<1>6. ASSUME ChecklistInvalid
      PROVE  TypeOK'
  BY PageOfGroup, GroupsAssumption, CountType, <1>6 DEF ChecklistInvalid,
     Executable, Disturb
<1>7. ASSUME AdapterUnavailable
      PROVE  TypeOK'
  BY PageOfGroup, GroupsAssumption, CountType, <1>7 DEF AdapterUnavailable,
     AtGroup, Disturb
<1>8. ASSUME DocumentThroughFallback
      PROVE  TypeOK'
  BY PageOfGroup, GroupsAssumption, CountType, <1>8 DEF
     DocumentThroughFallback, Disturb, NextIsDocument, PrintPage, LosePage
<1>9. ASSUME SeparatorThroughFallback
      PROVE  TypeOK'
  BY PageOfGroup, GroupsAssumption, CountType, <1>9 DEF
     SeparatorThroughFallback, Disturb, NextIsSeparator, PrintBlank,
     LoseBlank
<1>10. ASSUME SubmissionFails
      PROVE  TypeOK'
  BY PageOfGroup, GroupsAssumption, CountType, <1>10 DEF SubmissionFails, NothingSubmitted,
     RecordPartial, Disturb, NextIsDocument, NextIsSeparator
<1>11. ASSUME DocumentFailsAfterOutput
      PROVE  TypeOK'
  BY PageOfGroup, GroupsAssumption, CountType, <1>11 DEF
     DocumentFailsAfterOutput, RecordPartial, Disturb, NextIsDocument,
     PrintPage, LosePage
<1>12. ASSUME SeparatorFailsAfterOutput
      PROVE  TypeOK'
  BY PageOfGroup, GroupsAssumption, CountType, <1>12 DEF
     SeparatorFailsAfterOutput, RecordPartial, Disturb, NextIsSeparator,
     PrintBlank, LoseBlank
<1>13. ASSUME Crash
      PROVE  TypeOK'
  <2>1. lost' \in [Pages -> Nat] /\ lostBlanks' \in [Groups -> Nat]
    <3>1. CASE pc = "submit"
      BY <1>13, <3>1 DEF Crash, ForgetReceipts
    <3>2. CASE pc # "submit"
      BY <1>13, <3>2 DEF Crash, ForgetReceipts
    <3>. QED
      BY <3>1, <3>2
  <2>. QED
    BY <1>13, <2>1 DEF Crash, Disturb
<1>14. ASSUME RuntimeError
      PROVE  TypeOK'
  <2>1. lost' \in [Pages -> Nat] /\ lostBlanks' \in [Groups -> Nat]
    <3>1. CASE pc = "submit"
      BY <1>14, <3>1 DEF RuntimeError, ForgetReceipts
    <3>2. CASE pc # "submit"
      BY <1>14, <3>2 DEF RuntimeError, ForgetReceipts
    <3>. QED
      BY <3>1, <3>2
  <2>. QED
    BY <1>14, <2>1 DEF RuntimeError, Disturb
<1>15. ASSUME SkipCompletedGroup
      PROVE  TypeOK'
  BY PageOfGroup, GroupsAssumption, CountType, <1>15 DEF SkipCompletedGroup,
     AtGroup
<1>16. ASSUME StartGroup
      PROVE  TypeOK'
  BY PageOfGroup, GroupsAssumption, CountType, <1>16 DEF StartGroup, AtGroup
<1>17. ASSUME SubmitDocument
      PROVE  TypeOK'
  BY PageOfGroup, GroupsAssumption, CountType, <1>17 DEF SubmitDocument,
     NextIsDocument, PrintPage
<1>18. ASSUME SubmitSeparator
      PROVE  TypeOK'
  BY PageOfGroup, GroupsAssumption, CountType, <1>18 DEF SubmitSeparator,
     NextIsSeparator, PrintBlank
<1>19. ASSUME FinishGroup
      PROVE  TypeOK'
  BY PageOfGroup, GroupsAssumption, CountType, <1>19 DEF FinishGroup
<1>20. ASSUME Complete
      PROVE  TypeOK'
  BY PageOfGroup, GroupsAssumption, CountType, <1>20 DEF Complete
<1>21. ASSUME PersistUncertain
      PROVE  TypeOK'
  BY PageOfGroup, GroupsAssumption, CountType, <1>21 DEF PersistUncertain
<1>22. ASSUME UNCHANGED vars
      PROVE  TypeOK'
  BY PageOfGroup, GroupsAssumption, CountType, <1>22 DEF vars
<1>. QED
  BY <1>1, <1>2, <1>3, <1>4, <1>5, <1>6, <1>7, <1>8, <1>9, <1>10, <1>11,
     <1>12, <1>13, <1>14, <1>15, <1>16, <1>17, <1>18, <1>19, <1>20, <1>21,
     <1>22 DEF Next, Proceed

\* Every step keeps the place of execute-print consistent with the markers.
LEMMA NextPlaceInv ==
  ASSUME TypeOK, PlaceInv, MarkerInv, [Next]_vars
  PROVE  PlaceInv'
<1> USE DEF TypeOK, PlaceInv, Groups, Recorded, Markers
<1>1. ASSUME PlanPrint
      PROVE  PlaceInv'
  BY GroupsAssumption, CountType, <1>1 DEF PlanPrint, Disturb
<1>2. ASSUME GenerateChecklist
      PROVE  PlaceInv'
  BY GroupsAssumption, CountType, <1>2 DEF GenerateChecklist
<1>3. ASSUME GenerateChecklistFails
      PROVE  PlaceInv'
  BY GroupsAssumption, CountType, <1>3 DEF GenerateChecklistFails, Disturb
<1>4. ASSUME NEW g \in Groups, NEW n \in 1..(Count[g] + 1), AcknowledgePartialPrint(g, n)
      PROVE  PlaceInv'
  BY GroupsAssumption, CountType, <1>4 DEF AcknowledgePartialPrint
<1>5. ASSUME Execute
      PROVE  PlaceInv'
  BY GroupsAssumption, CountType, <1>5 DEF Execute, Executable
<1>6. ASSUME ChecklistInvalid
      PROVE  PlaceInv'
  BY GroupsAssumption, CountType, <1>6 DEF ChecklistInvalid, Executable,
     Disturb
<1>7. ASSUME AdapterUnavailable
      PROVE  PlaceInv'
  BY GroupsAssumption, CountType, <1>7 DEF AdapterUnavailable, AtGroup,
     Disturb
<1>8. ASSUME DocumentThroughFallback
      PROVE  PlaceInv'
  BY GroupsAssumption, CountType, <1>8 DEF DocumentThroughFallback, Disturb,
     NextIsDocument, PrintPage, LosePage
<1>9. ASSUME SeparatorThroughFallback
      PROVE  PlaceInv'
  BY GroupsAssumption, CountType, <1>9 DEF SeparatorThroughFallback,
     Disturb, NextIsSeparator, PrintBlank, LoseBlank
<1>10. ASSUME SubmissionFails
      PROVE  PlaceInv'
  BY GroupsAssumption, CountType, <1>10 DEF SubmissionFails, NothingSubmitted, RecordPartial,
     Disturb, NextIsDocument, NextIsSeparator
<1>11. ASSUME DocumentFailsAfterOutput
      PROVE  PlaceInv'
  BY GroupsAssumption, CountType, <1>11 DEF DocumentFailsAfterOutput,
     RecordPartial, Disturb, NextIsDocument, PrintPage, LosePage
<1>12. ASSUME SeparatorFailsAfterOutput
      PROVE  PlaceInv'
  BY GroupsAssumption, CountType, <1>12 DEF SeparatorFailsAfterOutput,
     RecordPartial, Disturb, NextIsSeparator, PrintBlank, LoseBlank
<1>13. ASSUME Crash
      PROVE  PlaceInv'
  BY GroupsAssumption, CountType, <1>13 DEF Crash, Disturb, ForgetReceipts
<1>14. ASSUME RuntimeError
      PROVE  PlaceInv'
  BY GroupsAssumption, CountType, <1>14 DEF RuntimeError, Disturb,
     ForgetReceipts
<1>15. ASSUME SkipCompletedGroup
      PROVE  PlaceInv'
  BY GroupsAssumption, CountType, <1>15 DEF SkipCompletedGroup, AtGroup
<1>16. ASSUME StartGroup
      PROVE  PlaceInv'
  BY GroupsAssumption, CountType, <1>16 DEF StartGroup, AtGroup, MarkerInv
<1>17. ASSUME SubmitDocument
      PROVE  PlaceInv'
  BY GroupsAssumption, CountType, <1>17 DEF SubmitDocument, NextIsDocument,
     PrintPage
<1>18. ASSUME SubmitSeparator
      PROVE  PlaceInv'
  BY GroupsAssumption, CountType, <1>18 DEF SubmitSeparator,
     NextIsSeparator, PrintBlank
<1>19. ASSUME FinishGroup
      PROVE  PlaceInv'
  <2>1. group \in Groups /\ group' = group + 1 /\ pc' = "group" /\ status' = status
    BY <1>19 DEF FinishGroup
  <2>2. marker'[group].state = "completed"
    BY <1>19, <2>1 DEF FinishGroup
  <2>3. ASSUME NEW g \in Groups, g < group + 1
        PROVE  marker'[g].state = "completed"
    BY <1>19, <2>1, <2>2, <2>3 DEF FinishGroup
  <2>. QED
    BY <1>19, <2>1, <2>3, GroupsAssumption DEF FinishGroup
<1>20. ASSUME Complete
      PROVE  PlaceInv'
  BY GroupsAssumption, CountType, <1>20 DEF Complete
<1>21. ASSUME PersistUncertain
      PROVE  PlaceInv'
  BY GroupsAssumption, CountType, <1>21 DEF PersistUncertain
<1>22. ASSUME UNCHANGED vars
      PROVE  PlaceInv'
  BY GroupsAssumption, CountType, <1>22 DEF vars
<1>. QED
  BY <1>1, <1>2, <1>3, <1>4, <1>5, <1>6, <1>7, <1>8, <1>9, <1>10, <1>11,
     <1>12, <1>13, <1>14, <1>15, <1>16, <1>17, <1>18, <1>19, <1>20, <1>21,
     <1>22 DEF Next, Proceed

\* An acknowledgement moves the recorded number to k documents, all of them
\* on paper, and completes the group only with its last one.
LEMMA AcknowledgementRecords ==
  ASSUME TypeOK, MarkerInv, NEW g \in Groups, NEW n \in 1..(Count[g] + 1),
         AcknowledgePartialPrint(g, n)
  PROVE  \E k \in 1..Count[g], state \in {"completed", "partial_incomplete"} :
           /\ marker' = [marker EXCEPT ![g] = [state |-> state, printed |-> k]]
           /\ marker[g].printed <= k
           /\ \A j \in 1..k : paper[<<g, j>>] > 0
           /\ state = "completed" => k = Count[g]
<1> DEFINE k == IF n < Count[g] THEN n ELSE Count[g]
           state == IF n = Count[g] THEN "completed" ELSE "partial_incomplete"
<1>1. /\ n \in Nat /\ Count[g] \in Nat /\ Count[g] > 0 /\ n > 0
      /\ marker[g].printed \in Nat
      /\ marker[g].printed <= Count[g] /\ marker[g].printed < n
  BY CountType DEF TypeOK, Markers, MarkerInv, AcknowledgePartialPrint
<1>2. k \in 1..Count[g] /\ k <= n /\ marker[g].printed <= k
  BY <1>1
<1>3. state = "completed" => k = Count[g]
  BY <1>1
<1>4. \A j \in 1..k : paper[<<g, j>>] > 0
  BY <1>1, <1>2 DEF AcknowledgePartialPrint
<1>5. marker' = [marker EXCEPT ![g] = [state |-> state, printed |-> k]]
  BY DEF AcknowledgePartialPrint
<1>6. state \in {"completed", "partial_incomplete"}
  OBVIOUS
<1> HIDE DEF k, state
<1> QED BY <1>2, <1>3, <1>4, <1>5, <1>6

\* Every step keeps the states and the counts of the markers consistent.
LEMMA NextMarkerInv ==
  ASSUME TypeOK, PlaceInv, MarkerInv, [Next]_vars
  PROVE  MarkerInv'
<1> USE DEF TypeOK, PlaceInv, MarkerInv, Groups, Recorded, Markers
<1>1. ASSUME PlanPrint
      PROVE  MarkerInv'
  BY GroupsAssumption, CountType, <1>1 DEF PlanPrint, Disturb
<1>2. ASSUME GenerateChecklist
      PROVE  MarkerInv'
  BY GroupsAssumption, CountType, <1>2 DEF GenerateChecklist
<1>3. ASSUME GenerateChecklistFails
      PROVE  MarkerInv'
  BY GroupsAssumption, CountType, <1>3 DEF GenerateChecklistFails, Disturb
<1>4. ASSUME NEW g \in Groups, NEW n \in 1..(Count[g] + 1), AcknowledgePartialPrint(g, n)
      PROVE  MarkerInv'
  <2>1. PICK k \in 1..Count[g], state \in {"completed", "partial_incomplete"} :
          /\ marker' = [marker EXCEPT ![g] = [state |-> state, printed |-> k]]
          /\ marker[g].printed <= k
          /\ \A j \in 1..k : paper[<<g, j>>] > 0
          /\ state = "completed" => k = Count[g]
    BY <1>4, AcknowledgementRecords
  <2>2. status' = status /\ marker[g].state # "completed"
    BY <1>4 DEF AcknowledgePartialPrint
  <2> QED BY <2>1, <2>2, CountType
<1>5. ASSUME Execute
      PROVE  MarkerInv'
  BY GroupsAssumption, CountType, <1>5 DEF Execute, Executable
<1>6. ASSUME ChecklistInvalid
      PROVE  MarkerInv'
  BY GroupsAssumption, CountType, <1>6 DEF ChecklistInvalid, Executable,
     Disturb
<1>7. ASSUME AdapterUnavailable
      PROVE  MarkerInv'
  BY GroupsAssumption, CountType, <1>7 DEF AdapterUnavailable, AtGroup,
     Disturb
<1>8. ASSUME DocumentThroughFallback
      PROVE  MarkerInv'
  BY GroupsAssumption, CountType, <1>8 DEF DocumentThroughFallback, Disturb,
     NextIsDocument, PrintPage, LosePage
<1>9. ASSUME SeparatorThroughFallback
      PROVE  MarkerInv'
  BY GroupsAssumption, CountType, <1>9 DEF SeparatorThroughFallback,
     Disturb, NextIsSeparator, PrintBlank, LoseBlank
<1>10. ASSUME SubmissionFails
      PROVE  MarkerInv'
  BY GroupsAssumption, CountType, <1>10 DEF SubmissionFails, NothingSubmitted, RecordPartial,
     Disturb, NextIsDocument, NextIsSeparator
<1>11. ASSUME DocumentFailsAfterOutput
      PROVE  MarkerInv'
  BY GroupsAssumption, CountType, <1>11 DEF DocumentFailsAfterOutput,
     RecordPartial, Disturb, NextIsDocument, PrintPage, LosePage
<1>12. ASSUME SeparatorFailsAfterOutput
      PROVE  MarkerInv'
  BY GroupsAssumption, CountType, <1>12 DEF SeparatorFailsAfterOutput,
     RecordPartial, Disturb, NextIsSeparator, PrintBlank, LoseBlank
<1>13. ASSUME Crash
      PROVE  MarkerInv'
  BY GroupsAssumption, CountType, <1>13 DEF Crash, Disturb, ForgetReceipts
<1>14. ASSUME RuntimeError
      PROVE  MarkerInv'
  BY GroupsAssumption, CountType, <1>14 DEF RuntimeError, Disturb,
     ForgetReceipts
<1>15. ASSUME SkipCompletedGroup
      PROVE  MarkerInv'
  BY GroupsAssumption, CountType, <1>15 DEF SkipCompletedGroup, AtGroup
<1>16. ASSUME StartGroup
      PROVE  MarkerInv'
  BY GroupsAssumption, CountType, <1>16 DEF StartGroup, AtGroup
<1>17. ASSUME SubmitDocument
      PROVE  MarkerInv'
  BY GroupsAssumption, CountType, <1>17 DEF SubmitDocument, NextIsDocument,
     PrintPage
<1>18. ASSUME SubmitSeparator
      PROVE  MarkerInv'
  BY GroupsAssumption, CountType, <1>18 DEF SubmitSeparator,
     NextIsSeparator, PrintBlank
<1>19. ASSUME FinishGroup
      PROVE  MarkerInv'
  BY GroupsAssumption, CountType, <1>19 DEF FinishGroup
<1>20. ASSUME Complete
      PROVE  MarkerInv'
  BY GroupsAssumption, CountType, <1>20 DEF Complete
<1>21. ASSUME PersistUncertain
      PROVE  MarkerInv'
  BY GroupsAssumption, CountType, <1>21 DEF PersistUncertain
<1>22. ASSUME UNCHANGED vars
      PROVE  MarkerInv'
  BY GroupsAssumption, CountType, <1>22 DEF vars
<1>. QED
  BY <1>1, <1>2, <1>3, <1>4, <1>5, <1>6, <1>7, <1>8, <1>9, <1>10, <1>11,
     <1>12, <1>13, <1>14, <1>15, <1>16, <1>17, <1>18, <1>19, <1>20, <1>21,
     <1>22 DEF Next, Proceed

\* The document that a submission prints, and a lost copy of it.
LEMMA PrintPageEffect ==
  ASSUME TypeOK, NEW k \in Nat, PrintPage(k), NEW p \in Pages
  PROVE  paper'[p] = paper[p] + (IF p[1] = group /\ p[2] = Recorded + 1 THEN k ELSE 0)
<1>1. p = <<group, Recorded + 1>> <=> p[1] = group /\ p[2] = Recorded + 1
  BY PageHasGroup
<1>2. CASE p = <<group, Recorded + 1>>
  BY <1>1, <1>2 DEF PrintPage, TypeOK
<1>3. CASE p # <<group, Recorded + 1>>
  BY <1>1, <1>3 DEF PrintPage, TypeOK
<1>. QED
  BY <1>2, <1>3

\* A copy without a receipt is lost for the page that was submitted only.
LEMMA LosePageEffect ==
  ASSUME TypeOK, NEW k \in Nat, LosePage(k), NEW p \in Pages
  PROVE  lost'[p] = lost[p] + (IF p[1] = group /\ p[2] = Recorded + 1 THEN k ELSE 0)
<1>1. p = <<group, Recorded + 1>> <=> p[1] = group /\ p[2] = Recorded + 1
  BY PageHasGroup
<1>2. CASE p = <<group, Recorded + 1>>
  BY <1>1, <1>2 DEF LosePage, TypeOK
<1>3. CASE p # <<group, Recorded + 1>>
  BY <1>1, <1>3 DEF LosePage, TypeOK
<1>. QED
  BY <1>2, <1>3

\* A submission with a receipt accounts for one document more.
LEMMA SubmissionAccounts ==
  ASSUME TypeOK, PlaceInv, NextIsDocument, receipts' = receipts + 1,
         UNCHANGED <<marker, pc, group>>, NEW p \in Pages
  PROVE  Accounted(p)' <=> Accounted(p) \/ (p[1] = group /\ p[2] = Recorded + 1)
  BY PageHasGroup DEF TypeOK, PlaceInv, NextIsDocument, Accounted, Recorded, Markers

\* A partial marker accounts for what the process had receipts for.
LEMMA PartialAccounts ==
  ASSUME TypeOK, PlaceInv, pc = "submit", RecordPartial, NEW p \in Pages
  PROVE  Accounted(p)' <=> Accounted(p)
  BY PageHasGroup DEF TypeOK, PlaceInv, RecordPartial, Accounted, Recorded, Markers

\* Without a marker the receipts of the process are lost.
LEMMA ForgetReceiptsEffect ==
  ASSUME TypeOK, ForgetReceipts, NEW p \in Pages
  PROVE  lost'[p] = lost[p] + (IF Accounted(p) /\ p[2] > marker[p[1]].printed THEN 1 ELSE 0)
<1>1. p[1] \in Groups /\ p[2] \in Nat /\ marker[p[1]].printed \in Nat
  BY PageHasGroup DEF TypeOK, Markers
<1>2. CASE pc = "submit"
  BY <1>1, <1>2 DEF ForgetReceipts, Accounted, TypeOK
<1>3. CASE pc # "submit"
  BY <1>1, <1>3 DEF ForgetReceipts, Accounted, TypeOK
<1>. QED
  BY <1>2, <1>3

\* Every step keeps the receipts and the paper in balance.
LEMMA NextPaperInv ==
  ASSUME TypeOK, PlaceInv, MarkerInv, PaperInv, [Next]_vars
  PROVE  PaperInv'
<1>1. ASSUME PlanPrint
      PROVE  PaperInv'
  BY GroupsAssumption, CountType, PageHasGroup, <1>1 DEF PlanPrint, Disturb,
     TypeOK, PlaceInv, MarkerInv, PaperInv, Accounted, Recorded, Markers,
     Groups, counters
<1>2. ASSUME GenerateChecklist
      PROVE  PaperInv'
  BY GroupsAssumption, CountType, PageHasGroup, <1>2 DEF GenerateChecklist,
     TypeOK, PlaceInv, MarkerInv, PaperInv, Accounted, Recorded, Markers,
     Groups, counters
<1>3. ASSUME GenerateChecklistFails
      PROVE  PaperInv'
  BY GroupsAssumption, CountType, PageHasGroup, <1>3 DEF
     GenerateChecklistFails, Disturb, TypeOK, PlaceInv, MarkerInv, PaperInv,
     Accounted, Recorded, Markers, Groups, counters
<1>4. ASSUME NEW g \in Groups, NEW n \in 1..(Count[g] + 1), AcknowledgePartialPrint(g, n)
      PROVE  PaperInv'
  <2>1. PICK k \in 1..Count[g], state \in {"completed", "partial_incomplete"} :
          /\ marker' = [marker EXCEPT ![g] = [state |-> state, printed |-> k]]
          /\ marker[g].printed <= k
          /\ \A j \in 1..k : paper[<<g, j>>] > 0
          /\ state = "completed" => k = Count[g]
    BY <1>4, AcknowledgementRecords
  <2>2. pc = "idle" /\ UNCHANGED <<pc, group, receipts, paper, lost>>
    BY <1>4 DEF AcknowledgePartialPrint, counters
  <2>3. ASSUME NEW p \in Pages, Accounted(p)
        PROVE  Accounted(p)'
    BY <2>1, <2>2, <2>3, CountType, PageHasGroup DEF Accounted, TypeOK, Markers
  <2>4. ASSUME NEW p \in Pages, Accounted(p)'
        PROVE  paper[p] > 0
    BY <2>1, <2>2, <2>4, CountType, PageHasGroup
       DEF Accounted, TypeOK, Markers, PaperInv
  <2>5. ASSUME NEW p \in Pages
        PROVE  paper[p] <= lost[p] + (IF Accounted(p)' THEN 1 ELSE 0)
    BY <2>3, <2>5 DEF PaperInv, TypeOK
  <2> QED BY <2>2, <2>4, <2>5 DEF PaperInv
<1>5. ASSUME Execute
      PROVE  PaperInv'
  BY GroupsAssumption, CountType, PageHasGroup, <1>5 DEF Execute,
     Executable, TypeOK, PlaceInv, MarkerInv, PaperInv, Accounted, Recorded,
     Markers, Groups, counters
<1>6. ASSUME ChecklistInvalid
      PROVE  PaperInv'
  BY GroupsAssumption, CountType, PageHasGroup, <1>6 DEF ChecklistInvalid,
     Executable, Disturb, TypeOK, PlaceInv, MarkerInv, PaperInv, Accounted,
     Recorded, Markers, Groups, counters
<1>7. ASSUME AdapterUnavailable
      PROVE  PaperInv'
  BY GroupsAssumption, CountType, PageHasGroup, <1>7 DEF AdapterUnavailable,
     AtGroup, Disturb, TypeOK, PlaceInv, MarkerInv, PaperInv, Accounted,
     Recorded, Markers, Groups, counters
<1>8. ASSUME DocumentThroughFallback
      PROVE  PaperInv'
  <2>1. SUFFICES ASSUME NEW p \in Pages
                 PROVE  /\ Accounted(p)' => paper'[p] > 0
                        /\ paper'[p] <= lost'[p] + (IF Accounted(p)' THEN 1 ELSE 0)
    BY DEF PaperInv
  <2>0. PICK n \in 1..(Attempts - 1) : PrintPage(n + 1) /\ LosePage(n)
    BY <1>8 DEF DocumentThroughFallback
  <2>2. paper'[p] = paper[p] + (IF p[1] = group /\ p[2] = Recorded + 1 THEN n + 1 ELSE 0)
    BY <2>0, PrintPageEffect DEF Attempts
  <2>3. lost'[p] = lost[p] + (IF p[1] = group /\ p[2] = Recorded + 1 THEN n ELSE 0)
    BY <2>0, LosePageEffect, <2>1 DEF Attempts
  <2>4. Accounted(p)' <=> Accounted(p) \/ (p[1] = group /\ p[2] = Recorded + 1)
    BY <1>8, SubmissionAccounts DEF DocumentThroughFallback, NextIsDocument
  <2>5. p[1] = group /\ p[2] = Recorded + 1 => ~Accounted(p)
    BY <1>8 DEF DocumentThroughFallback, NextIsDocument, Accounted, Recorded, TypeOK, Markers, PlaceInv
  <2>6. paper[p] \in Nat /\ lost[p] \in Nat
    BY DEF TypeOK
  <2>. QED
    BY <2>0, <2>2, <2>3, <2>4, <2>5, <2>6 DEF PaperInv, Attempts
<1>9. ASSUME SeparatorThroughFallback
      PROVE  PaperInv'
  BY GroupsAssumption, CountType, PageHasGroup, <1>9 DEF
     SeparatorThroughFallback, Disturb, NextIsSeparator, PrintBlank,
     LoseBlank, TypeOK, PlaceInv, MarkerInv, PaperInv, Accounted, Recorded,
     Markers, Groups, counters
<1>10. ASSUME SubmissionFails
      PROVE  PaperInv'
  <2>1. ASSUME NEW p \in Pages
        PROVE  Accounted(p)' <=> Accounted(p)
    BY <1>10, PartialAccounts DEF SubmissionFails, NothingSubmitted, NextIsDocument, NextIsSeparator
  <2>2. UNCHANGED <<paper, lost>>
    BY <1>10 DEF SubmissionFails, NothingSubmitted, PrintBlank, LoseBlank, counters
  <2>. QED
    BY <2>1, <2>2 DEF PaperInv
<1>11. ASSUME DocumentFailsAfterOutput
      PROVE  PaperInv'
  <2>1. SUFFICES ASSUME NEW p \in Pages
                 PROVE  /\ Accounted(p)' => paper'[p] > 0
                        /\ paper'[p] <= lost'[p] + (IF Accounted(p)' THEN 1 ELSE 0)
    BY DEF PaperInv
  <2>0. PICK n \in 1..Attempts : PrintPage(n) /\ LosePage(n)
    BY <1>11 DEF DocumentFailsAfterOutput
  <2>2. paper'[p] = paper[p] + (IF p[1] = group /\ p[2] = Recorded + 1 THEN n ELSE 0)
    BY <2>0, PrintPageEffect DEF Attempts
  <2>3. lost'[p] = lost[p] + (IF p[1] = group /\ p[2] = Recorded + 1 THEN n ELSE 0)
    BY <2>0, LosePageEffect, <2>1 DEF Attempts
  <2>4. Accounted(p)' <=> Accounted(p)
    BY <1>11, PartialAccounts DEF DocumentFailsAfterOutput, NextIsDocument, RecordPartial
  <2>5. p[1] = group /\ p[2] = Recorded + 1 => ~Accounted(p)
    BY <1>11 DEF DocumentFailsAfterOutput, NextIsDocument, RecordPartial, Accounted, Recorded, TypeOK, Markers, PlaceInv
  <2>6. paper[p] \in Nat /\ lost[p] \in Nat
    BY DEF TypeOK
  <2>. QED
    BY <2>0, <2>2, <2>3, <2>4, <2>5, <2>6 DEF PaperInv, Attempts
<1>12. ASSUME SeparatorFailsAfterOutput
      PROVE  PaperInv'
  <2>1. ASSUME NEW p \in Pages
        PROVE  Accounted(p)' <=> Accounted(p)
    BY <1>12, PartialAccounts DEF SeparatorFailsAfterOutput, NextIsDocument, NextIsSeparator
  <2>2. UNCHANGED <<paper, lost>>
    BY <1>12 DEF SeparatorFailsAfterOutput, PrintBlank, LoseBlank, counters
  <2>. QED
    BY <2>1, <2>2 DEF PaperInv
<1>13. ASSUME Crash
      PROVE  PaperInv'
  <2>1. SUFFICES ASSUME NEW p \in Pages
                 PROVE  /\ Accounted(p)' => paper'[p] > 0
                        /\ paper'[p] <= lost'[p] + (IF Accounted(p)' THEN 1 ELSE 0)
    BY DEF PaperInv
  <2>2. lost'[p] = lost[p] + (IF Accounted(p) /\ p[2] > marker[p[1]].printed THEN 1 ELSE 0)
    BY <1>13, ForgetReceiptsEffect DEF Crash
  <2>3. paper'[p] = paper[p] /\ (Accounted(p)' <=> p[2] <= marker[p[1]].printed)
    BY <1>13 DEF Crash, Accounted
  <2>4. /\ paper[p] \in Nat /\ lost[p] \in Nat
        /\ p[2] \in Nat /\ marker[p[1]].printed \in Nat
    BY PageHasGroup DEF TypeOK, Markers
  <2>. QED
    BY <2>2, <2>3, <2>4 DEF PaperInv, Accounted
<1>14. ASSUME RuntimeError
      PROVE  PaperInv'
  <2>1. SUFFICES ASSUME NEW p \in Pages
                 PROVE  /\ Accounted(p)' => paper'[p] > 0
                        /\ paper'[p] <= lost'[p] + (IF Accounted(p)' THEN 1 ELSE 0)
    BY DEF PaperInv
  <2>2. lost'[p] = lost[p] + (IF Accounted(p) /\ p[2] > marker[p[1]].printed THEN 1 ELSE 0)
    BY <1>14, ForgetReceiptsEffect DEF RuntimeError
  <2>3. paper'[p] = paper[p] /\ (Accounted(p)' <=> p[2] <= marker[p[1]].printed)
    BY <1>14 DEF RuntimeError, Accounted
  <2>4. /\ paper[p] \in Nat /\ lost[p] \in Nat
        /\ p[2] \in Nat /\ marker[p[1]].printed \in Nat
    BY PageHasGroup DEF TypeOK, Markers
  <2>. QED
    BY <2>2, <2>3, <2>4 DEF PaperInv, Accounted
<1>15. ASSUME SkipCompletedGroup
      PROVE  PaperInv'
  BY GroupsAssumption, CountType, PageHasGroup, <1>15 DEF
     SkipCompletedGroup, AtGroup, TypeOK, PlaceInv, MarkerInv, PaperInv,
     Accounted, Recorded, Markers, Groups, counters
<1>16. ASSUME StartGroup
      PROVE  PaperInv'
  BY SMTT(30), GroupsAssumption, CountType, PageHasGroup, <1>16 DEF StartGroup,
     AtGroup, TypeOK, PlaceInv, MarkerInv, PaperInv, Accounted, Recorded,
     Markers, Groups, counters
<1>17. ASSUME SubmitDocument
      PROVE  PaperInv'
  <2>1. SUFFICES ASSUME NEW p \in Pages
                 PROVE  /\ Accounted(p)' => paper'[p] > 0
                        /\ paper'[p] <= lost'[p] + (IF Accounted(p)' THEN 1 ELSE 0)
    BY DEF PaperInv
  <2>2. paper'[p] = paper[p] + (IF p[1] = group /\ p[2] = Recorded + 1 THEN 1 ELSE 0)
    BY <1>17, PrintPageEffect DEF SubmitDocument
  <2>3. lost'[p] = lost[p]
    BY <1>17, <2>1 DEF SubmitDocument
  <2>4. Accounted(p)' <=> Accounted(p) \/ (p[1] = group /\ p[2] = Recorded + 1)
    BY <1>17, SubmissionAccounts DEF SubmitDocument, NextIsDocument
  <2>5. p[1] = group /\ p[2] = Recorded + 1 => ~Accounted(p)
    BY <1>17 DEF SubmitDocument, NextIsDocument, Accounted, Recorded, TypeOK, Markers, PlaceInv
  <2>6. paper[p] \in Nat /\ lost[p] \in Nat
    BY DEF TypeOK
  <2>. QED
    BY <2>2, <2>3, <2>4, <2>5, <2>6 DEF PaperInv
<1>18. ASSUME SubmitSeparator
      PROVE  PaperInv'
  BY GroupsAssumption, CountType, PageHasGroup, <1>18 DEF SubmitSeparator,
     NextIsSeparator, PrintBlank, TypeOK, PlaceInv, MarkerInv, PaperInv,
     Accounted, Recorded, Markers, Groups, counters
<1>19. ASSUME FinishGroup
      PROVE  PaperInv'
  <2>1. ASSUME NEW p \in Pages
        PROVE  Accounted(p)' <=> Accounted(p)
    <3>1. marker' = [marker EXCEPT ![group] = [state |-> "completed", printed |-> Recorded]]
      BY <1>19 DEF FinishGroup
    <3>. QED
      BY <1>19, <3>1, PageHasGroup
         DEF FinishGroup, Accounted, Recorded, TypeOK, Markers, PlaceInv
  <2>2. UNCHANGED <<paper, lost>>
    BY <1>19 DEF FinishGroup, counters
  <2>. QED
    BY <2>1, <2>2 DEF PaperInv
<1>20. ASSUME Complete
      PROVE  PaperInv'
  BY GroupsAssumption, CountType, PageHasGroup, <1>20 DEF Complete, TypeOK,
     PlaceInv, MarkerInv, PaperInv, Accounted, Recorded, Markers, Groups,
     counters
<1>21. ASSUME PersistUncertain
      PROVE  PaperInv'
  BY GroupsAssumption, CountType, PageHasGroup, <1>21 DEF PersistUncertain,
     TypeOK, PlaceInv, MarkerInv, PaperInv, Accounted, Recorded, Markers,
     Groups, counters
<1>22. ASSUME UNCHANGED vars
      PROVE  PaperInv'
  BY GroupsAssumption, CountType, PageHasGroup, <1>22 DEF vars, TypeOK,
     PlaceInv, MarkerInv, PaperInv, Accounted, Recorded, Markers, Groups,
     counters
<1>. QED
  BY <1>1, <1>2, <1>3, <1>4, <1>5, <1>6, <1>7, <1>8, <1>9, <1>10, <1>11,
     <1>12, <1>13, <1>14, <1>15, <1>16, <1>17, <1>18, <1>19, <1>20, <1>21,
     <1>22 DEF Next, Proceed

\* Every step keeps the receipts of the separators in balance.
LEMMA NextBlankInv ==
  ASSUME TypeOK, PlaceInv, MarkerInv, BlankInv, [Next]_vars
  PROVE  BlankInv'
<1>1. ASSUME PlanPrint
      PROVE  BlankInv'
  BY GroupsAssumption, CountType, <1>1 DEF PlanPrint, Disturb, TypeOK,
     PlaceInv, MarkerInv, BlankInv, Recorded, Markers, Groups, counters
<1>2. ASSUME GenerateChecklist
      PROVE  BlankInv'
  BY GroupsAssumption, CountType, <1>2 DEF GenerateChecklist, TypeOK,
     PlaceInv, MarkerInv, BlankInv, Recorded, Markers, Groups, counters
<1>3. ASSUME GenerateChecklistFails
      PROVE  BlankInv'
  BY GroupsAssumption, CountType, <1>3 DEF GenerateChecklistFails, Disturb,
     TypeOK, PlaceInv, MarkerInv, BlankInv, Recorded, Markers, Groups,
     counters
<1>4. ASSUME NEW g \in Groups, NEW n \in 1..(Count[g] + 1), AcknowledgePartialPrint(g, n)
      PROVE  BlankInv'
  <2>1. PICK k \in 1..Count[g], state \in {"completed", "partial_incomplete"} :
          /\ marker' = [marker EXCEPT ![g] = [state |-> state, printed |-> k]]
          /\ marker[g].printed <= k
          /\ \A j \in 1..k : paper[<<g, j>>] > 0
          /\ state = "completed" => k = Count[g]
    BY <1>4, AcknowledgementRecords
  <2>2. /\ pc = "idle" /\ marker[g].state # "completed"
        /\ UNCHANGED <<pc, group, blank, blanks, lostBlanks>>
    BY <1>4 DEF AcknowledgePartialPrint, counters
  <2> QED BY <2>1, <2>2 DEF BlankInv, TypeOK, Markers
<1>5. ASSUME Execute
      PROVE  BlankInv'
  BY GroupsAssumption, CountType, <1>5 DEF Execute, Executable, TypeOK,
     PlaceInv, MarkerInv, BlankInv, Recorded, Markers, Groups, counters
<1>6. ASSUME ChecklistInvalid
      PROVE  BlankInv'
  BY GroupsAssumption, CountType, <1>6 DEF ChecklistInvalid, Executable,
     Disturb, TypeOK, PlaceInv, MarkerInv, BlankInv, Recorded, Markers,
     Groups, counters
<1>7. ASSUME AdapterUnavailable
      PROVE  BlankInv'
  BY GroupsAssumption, CountType, <1>7 DEF AdapterUnavailable, AtGroup,
     Disturb, TypeOK, PlaceInv, MarkerInv, BlankInv, Recorded, Markers,
     Groups, counters
<1>8. ASSUME DocumentThroughFallback
      PROVE  BlankInv'
  BY GroupsAssumption, CountType, <1>8 DEF DocumentThroughFallback, Disturb,
     NextIsDocument, PrintPage, LosePage, TypeOK, PlaceInv, MarkerInv,
     BlankInv, Recorded, Markers, Groups, counters
<1>9. ASSUME SeparatorThroughFallback
      PROVE  BlankInv'
  BY GroupsAssumption, CountType, <1>9 DEF SeparatorThroughFallback,
     Disturb, NextIsSeparator, PrintBlank, LoseBlank, TypeOK, PlaceInv,
     MarkerInv, BlankInv, Recorded, Markers, Groups, counters
<1>10. ASSUME SubmissionFails
      PROVE  BlankInv'
  <2>1. ~blank /\ pc = "submit" /\ group \in Groups
    BY <1>10 DEF SubmissionFails, NothingSubmitted, NextIsDocument, NextIsSeparator, PlaceInv, TypeOK,
       Recorded, Markers
  <2>2. /\ UNCHANGED <<blanks, lostBlanks>>
        /\ pc' # "submit"
        /\ \A g \in Groups : g # group => marker'[g] = marker[g]
    BY <1>10 DEF SubmissionFails, NothingSubmitted, RecordPartial, counters, PrintPage, LosePage, TypeOK
  <2>3. marker[group].state # "completed"
    BY <2>1 DEF PlaceInv
  <2>4. SUFFICES ASSUME NEW g \in Groups
                 PROVE  blanks[g] <= lostBlanks[g] +
                          (IF marker'[g].state = "completed" THEN 1 ELSE 0)
    BY <2>2 DEF BlankInv
  <2>5. blanks[g] \in Nat /\ lostBlanks[g] \in Nat
    BY DEF TypeOK
  <2>6. blanks[g] <= lostBlanks[g] + (IF marker[g].state = "completed" THEN 1 ELSE 0)
    BY <2>1 DEF BlankInv
  <2>. QED
    BY <2>1, <2>2, <2>3, <2>5, <2>6
<1>11. ASSUME DocumentFailsAfterOutput
      PROVE  BlankInv'
  <2>1. ~blank /\ pc = "submit" /\ group \in Groups
    BY <1>11 DEF DocumentFailsAfterOutput, NextIsDocument, NextIsSeparator, PlaceInv, TypeOK,
       Recorded, Markers
  <2>2. /\ UNCHANGED <<blanks, lostBlanks>>
        /\ pc' # "submit"
        /\ \A g \in Groups : g # group => marker'[g] = marker[g]
    BY <1>11 DEF DocumentFailsAfterOutput, RecordPartial, counters, PrintPage, LosePage, TypeOK
  <2>3. marker[group].state # "completed"
    BY <2>1 DEF PlaceInv
  <2>4. SUFFICES ASSUME NEW g \in Groups
                 PROVE  blanks[g] <= lostBlanks[g] +
                          (IF marker'[g].state = "completed" THEN 1 ELSE 0)
    BY <2>2 DEF BlankInv
  <2>5. blanks[g] \in Nat /\ lostBlanks[g] \in Nat
    BY DEF TypeOK
  <2>6. blanks[g] <= lostBlanks[g] + (IF marker[g].state = "completed" THEN 1 ELSE 0)
    BY <2>1 DEF BlankInv
  <2>. QED
    BY <2>1, <2>2, <2>3, <2>5, <2>6
<1>12. ASSUME SeparatorFailsAfterOutput
      PROVE  BlankInv'
  BY SMTT(30), GroupsAssumption, CountType, <1>12 DEF SeparatorFailsAfterOutput,
     RecordPartial, Disturb, NextIsSeparator, PrintBlank, LoseBlank, TypeOK,
     PlaceInv, MarkerInv, BlankInv, Recorded, Markers, Groups, counters
<1>13. ASSUME Crash
      PROVE  BlankInv'
  <2>1. SUFFICES ASSUME NEW g \in Groups
                 PROVE  blanks'[g] <= lostBlanks'[g] +
                          (IF marker'[g].state = "completed" THEN 1 ELSE 0)
    BY <1>13 DEF Crash, BlankInv
  <2>2. UNCHANGED <<blanks, marker>>
    BY <1>13 DEF Crash
  <2>3. blanks[g] \in Nat /\ lostBlanks[g] \in Nat
    BY DEF TypeOK
  <2>4. CASE pc = "submit" /\ g = group /\ blank
    <3>1. lostBlanks'[g] = lostBlanks[g] + 1
      BY <1>13, <2>4 DEF Crash, ForgetReceipts
    <3>. QED
      BY <2>2, <2>3, <3>1 DEF BlankInv
  <2>5. CASE ~(pc = "submit" /\ g = group /\ blank)
    <3>1. lostBlanks'[g] = lostBlanks[g]
      BY <1>13, <2>5 DEF Crash, ForgetReceipts, TypeOK
    <3>. QED
      BY <2>2, <2>3, <2>5, <3>1 DEF BlankInv
  <2>. QED
    BY <2>4, <2>5
<1>14. ASSUME RuntimeError
      PROVE  BlankInv'
  <2>1. SUFFICES ASSUME NEW g \in Groups
                 PROVE  blanks'[g] <= lostBlanks'[g] +
                          (IF marker'[g].state = "completed" THEN 1 ELSE 0)
    BY <1>14 DEF RuntimeError, BlankInv
  <2>2. UNCHANGED <<blanks, marker>>
    BY <1>14 DEF RuntimeError
  <2>3. blanks[g] \in Nat /\ lostBlanks[g] \in Nat
    BY DEF TypeOK
  <2>4. CASE pc = "submit" /\ g = group /\ blank
    <3>1. lostBlanks'[g] = lostBlanks[g] + 1
      BY <1>14, <2>4 DEF RuntimeError, ForgetReceipts
    <3>. QED
      BY <2>2, <2>3, <3>1 DEF BlankInv
  <2>5. CASE ~(pc = "submit" /\ g = group /\ blank)
    <3>1. lostBlanks'[g] = lostBlanks[g]
      BY <1>14, <2>5 DEF RuntimeError, ForgetReceipts, TypeOK
    <3>. QED
      BY <2>2, <2>3, <2>5, <3>1 DEF BlankInv
  <2>. QED
    BY <2>4, <2>5
<1>15. ASSUME SkipCompletedGroup
      PROVE  BlankInv'
  BY GroupsAssumption, CountType, <1>15 DEF SkipCompletedGroup, AtGroup,
     TypeOK, PlaceInv, MarkerInv, BlankInv, Recorded, Markers, Groups,
     counters
<1>16. ASSUME StartGroup
      PROVE  BlankInv'
  BY GroupsAssumption, CountType, <1>16 DEF StartGroup, AtGroup, TypeOK,
     PlaceInv, MarkerInv, BlankInv, Recorded, Markers, Groups, counters
<1>17. ASSUME SubmitDocument
      PROVE  BlankInv'
  BY GroupsAssumption, CountType, <1>17 DEF SubmitDocument, NextIsDocument,
     PrintPage, TypeOK, PlaceInv, MarkerInv, BlankInv, Recorded, Markers,
     Groups, counters
<1>18. ASSUME SubmitSeparator
      PROVE  BlankInv'
  BY GroupsAssumption, CountType, <1>18 DEF SubmitSeparator,
     NextIsSeparator, PrintBlank, TypeOK, PlaceInv, MarkerInv, BlankInv,
     Recorded, Markers, Groups, counters
<1>19. ASSUME FinishGroup
      PROVE  BlankInv'
  BY SMTT(30), GroupsAssumption, CountType, <1>19 DEF FinishGroup, TypeOK, PlaceInv,
     MarkerInv, BlankInv, Recorded, Markers, Groups, counters
<1>20. ASSUME Complete
      PROVE  BlankInv'
  BY GroupsAssumption, CountType, <1>20 DEF Complete, TypeOK, PlaceInv,
     MarkerInv, BlankInv, Recorded, Markers, Groups, counters
<1>21. ASSUME PersistUncertain
      PROVE  BlankInv'
  BY GroupsAssumption, CountType, <1>21 DEF PersistUncertain, TypeOK,
     PlaceInv, MarkerInv, BlankInv, Recorded, Markers, Groups, counters
<1>22. ASSUME UNCHANGED vars
      PROVE  BlankInv'
  BY GroupsAssumption, CountType, <1>22 DEF vars, TypeOK, PlaceInv,
     MarkerInv, BlankInv, Recorded, Markers, Groups, counters
<1>. QED
  BY <1>1, <1>2, <1>3, <1>4, <1>5, <1>6, <1>7, <1>8, <1>9, <1>10, <1>11,
     <1>12, <1>13, <1>14, <1>15, <1>16, <1>17, <1>18, <1>19, <1>20, <1>21,
     <1>22 DEF Next, Proceed

\* No step prints a document before those planned before it.
LEMMA NextPrintedInOrder ==
  ASSUME TypeOK, PlaceInv, MarkerInv, PaperInv, PrintedInOrder, [Next]_vars
  PROVE  PrintedInOrder'
<1>1. ASSUME PlanPrint
      PROVE  PrintedInOrder'
  BY GroupsAssumption, CountType, PageHasGroup, PageOfGroup, <1>1 DEF
     PlanPrint, Disturb, TypeOK, PlaceInv, MarkerInv, PrintedInOrder,
     Recorded, Markers, Groups, counters
<1>2. ASSUME GenerateChecklist
      PROVE  PrintedInOrder'
  BY GroupsAssumption, CountType, PageHasGroup, PageOfGroup, <1>2 DEF
     GenerateChecklist, TypeOK, PlaceInv, MarkerInv, PrintedInOrder,
     Recorded, Markers, Groups, counters
<1>3. ASSUME GenerateChecklistFails
      PROVE  PrintedInOrder'
  BY GroupsAssumption, CountType, PageHasGroup, PageOfGroup, <1>3 DEF
     GenerateChecklistFails, Disturb, TypeOK, PlaceInv, MarkerInv,
     PrintedInOrder, Recorded, Markers, Groups, counters
<1>4. ASSUME NEW g \in Groups, NEW n \in 1..(Count[g] + 1), AcknowledgePartialPrint(g, n)
      PROVE  PrintedInOrder'
  BY GroupsAssumption, CountType, PageHasGroup, PageOfGroup, <1>4 DEF
     AcknowledgePartialPrint, TypeOK, PlaceInv, MarkerInv, PrintedInOrder,
     Recorded, Markers, Groups, counters
<1>5. ASSUME Execute
      PROVE  PrintedInOrder'
  BY GroupsAssumption, CountType, PageHasGroup, PageOfGroup, <1>5 DEF
     Execute, Executable, TypeOK, PlaceInv, MarkerInv, PrintedInOrder,
     Recorded, Markers, Groups, counters
<1>6. ASSUME ChecklistInvalid
      PROVE  PrintedInOrder'
  BY GroupsAssumption, CountType, PageHasGroup, PageOfGroup, <1>6 DEF
     ChecklistInvalid, Executable, Disturb, TypeOK, PlaceInv, MarkerInv,
     PrintedInOrder, Recorded, Markers, Groups, counters
<1>7. ASSUME AdapterUnavailable
      PROVE  PrintedInOrder'
  BY GroupsAssumption, CountType, PageHasGroup, PageOfGroup, <1>7 DEF
     AdapterUnavailable, AtGroup, Disturb, TypeOK, PlaceInv, MarkerInv,
     PrintedInOrder, Recorded, Markers, Groups, counters
<1>8. ASSUME DocumentThroughFallback
      PROVE  PrintedInOrder'
  <2>1. group \in Groups /\ Recorded \in Nat /\ Recorded < Count[group]
    BY <1>8 DEF DocumentThroughFallback, NextIsDocument, PlaceInv, TypeOK, Recorded, Markers
  <2>0. PICK n \in 1..(Attempts - 1) : PrintPage(n + 1) /\ LosePage(n)
    BY <1>8 DEF DocumentThroughFallback
  <2>2. \A p \in Pages :
          paper'[p] = paper[p] +
            (IF p[1] = group /\ p[2] = Recorded + 1 THEN n + 1 ELSE 0)
    BY <2>0, PrintPageEffect DEF Attempts
  <2>3. \A g \in Groups : marker[g].state = "completed" => marker'[g].state = "completed"
    BY <1>8, <2>1 DEF DocumentThroughFallback, NextIsDocument, TypeOK, PlaceInv
  <2>4. \A k \in 1..Recorded : paper[<<group, k>>] > 0
    BY <1>8, <2>1, CountType, PageOfGroup
       DEF DocumentThroughFallback, NextIsDocument, PaperInv, Accounted
  <2>5. \A g \in Groups : g < group => marker[g].state = "completed"
    BY <1>8 DEF DocumentThroughFallback, NextIsDocument, PlaceInv
  <2>6. \A p \in Pages :
          paper[p] \in Nat /\ paper'[p] \in Nat /\ paper'[p] >= paper[p]
    BY <2>0, <2>2 DEF TypeOK, Attempts
  <2>7. ASSUME NEW p \in Pages, paper'[p] > 0
        PROVE  /\ \A g \in Groups : g < p[1] => marker'[g].state = "completed"
               /\ \A k \in 1..p[2] : paper'[<<p[1], k>>] > 0
    <3>1. p[1] \in Groups /\ p[2] \in 1..Count[p[1]] /\ Count[p[1]] \in Nat
      BY PageHasGroup, CountType
    <3>2. \A k \in 1..p[2] : <<p[1], k>> \in Pages
      BY <3>1, PageOfGroup
    <3>3. CASE paper[p] > 0
      <4>1. ASSUME NEW k \in 1..p[2]
            PROVE  paper'[<<p[1], k>>] > 0
        <5>1. <<p[1], k>> \in Pages
          BY <3>2
        <5>2. paper[<<p[1], k>>] > 0
          BY <3>3 DEF PrintedInOrder
        <5>. QED
          BY <2>6, <5>1, <5>2
      <4>2. \A g \in Groups : g < p[1] => marker'[g].state = "completed"
        BY <2>3, <3>3 DEF PrintedInOrder
      <4>. QED
        BY <4>1, <4>2
    <3>4. CASE ~(paper[p] > 0)
      <4>1. p[1] = group /\ p[2] = Recorded + 1
        BY <2>2, <2>6, <2>7, <3>4
      <4>2. paper'[<<group, Recorded + 1>>] > 0
        BY <2>7, <4>1, PageHasGroup
      <4>3. ASSUME NEW k \in 1..p[2]
            PROVE  paper'[<<p[1], k>>] > 0
        <5>1. <<p[1], k>> \in Pages
          BY <3>2
        <5>2. CASE k = Recorded + 1
          BY <4>1, <4>2, <5>2
        <5>3. CASE k # Recorded + 1
          <6>1. paper[<<group, k>>] > 0
            BY <2>1, <2>4, <4>1, <5>3
          <6>. QED
            BY <2>6, <4>1, <5>1, <6>1
        <5>. QED
          BY <5>2, <5>3
      <4>4. \A g \in Groups : g < p[1] => marker'[g].state = "completed"
        BY <2>3, <2>5, <4>1
      <4>. QED
        BY <4>3, <4>4
    <3>. QED
      BY <3>3, <3>4
  <2>. QED
    BY <2>7 DEF PrintedInOrder
<1>9. ASSUME SeparatorThroughFallback
      PROVE  PrintedInOrder'
  BY GroupsAssumption, CountType, PageHasGroup, PageOfGroup, <1>9 DEF
     SeparatorThroughFallback, Disturb, NextIsSeparator, PrintBlank,
     LoseBlank, TypeOK, PlaceInv, MarkerInv, PrintedInOrder, Recorded,
     Markers, Groups, counters
<1>10. ASSUME SubmissionFails
      PROVE  PrintedInOrder'
  BY GroupsAssumption, CountType, PageHasGroup, PageOfGroup, <1>10 DEF
     SubmissionFails, NothingSubmitted, RecordPartial, Disturb, NextIsDocument,
     NextIsSeparator, TypeOK, PlaceInv, MarkerInv, PrintedInOrder, Recorded,
     Markers, Groups, counters
<1>11. ASSUME DocumentFailsAfterOutput
      PROVE  PrintedInOrder'
  <2>1. group \in Groups /\ Recorded \in Nat /\ Recorded < Count[group]
    BY <1>11 DEF DocumentFailsAfterOutput, NextIsDocument, PlaceInv, TypeOK, Recorded, Markers
  <2>0. PICK n \in 1..Attempts : PrintPage(n) /\ LosePage(n)
    BY <1>11 DEF DocumentFailsAfterOutput
  <2>2. \A p \in Pages :
          paper'[p] = paper[p] +
            (IF p[1] = group /\ p[2] = Recorded + 1 THEN n ELSE 0)
    BY <2>0, PrintPageEffect DEF Attempts
  <2>3. \A g \in Groups : marker[g].state = "completed" => marker'[g].state = "completed"
    BY <1>11, <2>1 DEF DocumentFailsAfterOutput, NextIsDocument, RecordPartial, TypeOK, PlaceInv
  <2>4. \A k \in 1..Recorded : paper[<<group, k>>] > 0
    BY <1>11, <2>1, CountType, PageOfGroup
       DEF DocumentFailsAfterOutput, NextIsDocument, PaperInv, Accounted
  <2>5. \A g \in Groups : g < group => marker[g].state = "completed"
    BY <1>11 DEF DocumentFailsAfterOutput, NextIsDocument, PlaceInv
  <2>6. \A p \in Pages :
          paper[p] \in Nat /\ paper'[p] \in Nat /\ paper'[p] >= paper[p]
    BY <2>0, <2>2 DEF TypeOK, Attempts
  <2>7. ASSUME NEW p \in Pages, paper'[p] > 0
        PROVE  /\ \A g \in Groups : g < p[1] => marker'[g].state = "completed"
               /\ \A k \in 1..p[2] : paper'[<<p[1], k>>] > 0
    <3>1. p[1] \in Groups /\ p[2] \in 1..Count[p[1]] /\ Count[p[1]] \in Nat
      BY PageHasGroup, CountType
    <3>2. \A k \in 1..p[2] : <<p[1], k>> \in Pages
      BY <3>1, PageOfGroup
    <3>3. CASE paper[p] > 0
      <4>1. ASSUME NEW k \in 1..p[2]
            PROVE  paper'[<<p[1], k>>] > 0
        <5>1. <<p[1], k>> \in Pages
          BY <3>2
        <5>2. paper[<<p[1], k>>] > 0
          BY <3>3 DEF PrintedInOrder
        <5>. QED
          BY <2>6, <5>1, <5>2
      <4>2. \A g \in Groups : g < p[1] => marker'[g].state = "completed"
        BY <2>3, <3>3 DEF PrintedInOrder
      <4>. QED
        BY <4>1, <4>2
    <3>4. CASE ~(paper[p] > 0)
      <4>1. p[1] = group /\ p[2] = Recorded + 1
        BY <2>2, <2>6, <2>7, <3>4
      <4>2. paper'[<<group, Recorded + 1>>] > 0
        BY <2>7, <4>1, PageHasGroup
      <4>3. ASSUME NEW k \in 1..p[2]
            PROVE  paper'[<<p[1], k>>] > 0
        <5>1. <<p[1], k>> \in Pages
          BY <3>2
        <5>2. CASE k = Recorded + 1
          BY <4>1, <4>2, <5>2
        <5>3. CASE k # Recorded + 1
          <6>1. paper[<<group, k>>] > 0
            BY <2>1, <2>4, <4>1, <5>3
          <6>. QED
            BY <2>6, <4>1, <5>1, <6>1
        <5>. QED
          BY <5>2, <5>3
      <4>4. \A g \in Groups : g < p[1] => marker'[g].state = "completed"
        BY <2>3, <2>5, <4>1
      <4>. QED
        BY <4>3, <4>4
    <3>. QED
      BY <3>3, <3>4
  <2>. QED
    BY <2>7 DEF PrintedInOrder
<1>12. ASSUME SeparatorFailsAfterOutput
      PROVE  PrintedInOrder'
  BY GroupsAssumption, CountType, PageHasGroup, PageOfGroup, <1>12 DEF
     SeparatorFailsAfterOutput, RecordPartial, Disturb, NextIsSeparator,
     PrintBlank, LoseBlank, TypeOK, PlaceInv, MarkerInv, PrintedInOrder,
     Recorded, Markers, Groups, counters
<1>13. ASSUME Crash
      PROVE  PrintedInOrder'
  BY GroupsAssumption, CountType, PageHasGroup, PageOfGroup, <1>13 DEF
     Crash, Disturb, ForgetReceipts, TypeOK, PlaceInv, MarkerInv,
     PrintedInOrder, Recorded, Markers, Groups, counters
<1>14. ASSUME RuntimeError
      PROVE  PrintedInOrder'
  BY GroupsAssumption, CountType, PageHasGroup, PageOfGroup, <1>14 DEF
     RuntimeError, Disturb, ForgetReceipts, TypeOK, PlaceInv, MarkerInv,
     PrintedInOrder, Recorded, Markers, Groups, counters
<1>15. ASSUME SkipCompletedGroup
      PROVE  PrintedInOrder'
  BY GroupsAssumption, CountType, PageHasGroup, PageOfGroup, <1>15 DEF
     SkipCompletedGroup, AtGroup, TypeOK, PlaceInv, MarkerInv,
     PrintedInOrder, Recorded, Markers, Groups, counters
<1>16. ASSUME StartGroup
      PROVE  PrintedInOrder'
  BY GroupsAssumption, CountType, PageHasGroup, PageOfGroup, <1>16 DEF
     StartGroup, AtGroup, TypeOK, PlaceInv, MarkerInv, PrintedInOrder,
     Recorded, Markers, Groups, counters
<1>17. ASSUME SubmitDocument
      PROVE  PrintedInOrder'
  <2>1. group \in Groups /\ Recorded \in Nat /\ Recorded < Count[group]
    BY <1>17 DEF SubmitDocument, NextIsDocument, PlaceInv, TypeOK, Recorded, Markers
  <2>2. \A p \in Pages :
          paper'[p] = paper[p] +
            (IF p[1] = group /\ p[2] = Recorded + 1 THEN 1 ELSE 0)
    BY <1>17, PrintPageEffect DEF SubmitDocument
  <2>3. \A g \in Groups : marker[g].state = "completed" => marker'[g].state = "completed"
    BY <1>17, <2>1 DEF SubmitDocument, NextIsDocument, TypeOK, PlaceInv
  <2>4. \A k \in 1..Recorded : paper[<<group, k>>] > 0
    BY <1>17, <2>1, CountType, PageOfGroup
       DEF SubmitDocument, NextIsDocument, PaperInv, Accounted
  <2>5. \A g \in Groups : g < group => marker[g].state = "completed"
    BY <1>17 DEF SubmitDocument, NextIsDocument, PlaceInv
  <2>6. \A p \in Pages :
          paper[p] \in Nat /\ paper'[p] \in Nat /\ paper'[p] >= paper[p]
    BY <2>2 DEF TypeOK
  <2>7. ASSUME NEW p \in Pages, paper'[p] > 0
        PROVE  /\ \A g \in Groups : g < p[1] => marker'[g].state = "completed"
               /\ \A k \in 1..p[2] : paper'[<<p[1], k>>] > 0
    <3>1. p[1] \in Groups /\ p[2] \in 1..Count[p[1]] /\ Count[p[1]] \in Nat
      BY PageHasGroup, CountType
    <3>2. \A k \in 1..p[2] : <<p[1], k>> \in Pages
      BY <3>1, PageOfGroup
    <3>3. CASE paper[p] > 0
      <4>1. ASSUME NEW k \in 1..p[2]
            PROVE  paper'[<<p[1], k>>] > 0
        <5>1. <<p[1], k>> \in Pages
          BY <3>2
        <5>2. paper[<<p[1], k>>] > 0
          BY <3>3 DEF PrintedInOrder
        <5>. QED
          BY <2>6, <5>1, <5>2
      <4>2. \A g \in Groups : g < p[1] => marker'[g].state = "completed"
        BY <2>3, <3>3 DEF PrintedInOrder
      <4>. QED
        BY <4>1, <4>2
    <3>4. CASE ~(paper[p] > 0)
      <4>1. p[1] = group /\ p[2] = Recorded + 1
        BY <2>2, <2>6, <2>7, <3>4
      <4>2. paper'[<<group, Recorded + 1>>] > 0
        BY <2>7, <4>1, PageHasGroup
      <4>3. ASSUME NEW k \in 1..p[2]
            PROVE  paper'[<<p[1], k>>] > 0
        <5>1. <<p[1], k>> \in Pages
          BY <3>2
        <5>2. CASE k = Recorded + 1
          BY <4>1, <4>2, <5>2
        <5>3. CASE k # Recorded + 1
          <6>1. paper[<<group, k>>] > 0
            BY <2>1, <2>4, <4>1, <5>3
          <6>. QED
            BY <2>6, <4>1, <5>1, <6>1
        <5>. QED
          BY <5>2, <5>3
      <4>4. \A g \in Groups : g < p[1] => marker'[g].state = "completed"
        BY <2>3, <2>5, <4>1
      <4>. QED
        BY <4>3, <4>4
    <3>. QED
      BY <3>3, <3>4
  <2>. QED
    BY <2>7 DEF PrintedInOrder
<1>18. ASSUME SubmitSeparator
      PROVE  PrintedInOrder'
  BY GroupsAssumption, CountType, PageHasGroup, PageOfGroup, <1>18 DEF
     SubmitSeparator, NextIsSeparator, PrintBlank, TypeOK, PlaceInv,
     MarkerInv, PrintedInOrder, Recorded, Markers, Groups, counters
<1>19. ASSUME FinishGroup
      PROVE  PrintedInOrder'
  BY GroupsAssumption, CountType, PageHasGroup, PageOfGroup, <1>19 DEF
     FinishGroup, TypeOK, PlaceInv, MarkerInv, PrintedInOrder, Recorded,
     Markers, Groups, counters
<1>20. ASSUME Complete
      PROVE  PrintedInOrder'
  BY GroupsAssumption, CountType, PageHasGroup, PageOfGroup, <1>20 DEF
     Complete, TypeOK, PlaceInv, MarkerInv, PrintedInOrder, Recorded,
     Markers, Groups, counters
<1>21. ASSUME PersistUncertain
      PROVE  PrintedInOrder'
  BY GroupsAssumption, CountType, PageHasGroup, PageOfGroup, <1>21 DEF
     PersistUncertain, TypeOK, PlaceInv, MarkerInv, PrintedInOrder,
     Recorded, Markers, Groups, counters
<1>22. ASSUME UNCHANGED vars
      PROVE  PrintedInOrder'
  BY GroupsAssumption, CountType, PageHasGroup, PageOfGroup, <1>22 DEF vars,
     TypeOK, PlaceInv, MarkerInv, PrintedInOrder, Recorded, Markers, Groups,
     counters
<1>. QED
  BY <1>1, <1>2, <1>3, <1>4, <1>5, <1>6, <1>7, <1>8, <1>9, <1>10, <1>11,
     <1>12, <1>13, <1>14, <1>15, <1>16, <1>17, <1>18, <1>19, <1>20, <1>21,
     <1>22 DEF Next, Proceed

-----------------------------------------------------------------------------
(* The theorems. *)

\* The inductive invariant holds of a planned phase.
LEMMA InitIInv == Init => IInv
<1> SUFFICES ASSUME Init PROVE IInv
  OBVIOUS
<1>1. TypeOK
  BY InitTypeOK
<1>2. PlaceInv
  BY DEF Init, PlaceInv
<1>3. MarkerInv
  BY CountType DEF Init, MarkerInv, NoMarker
<1>4. \A p \in Pages : ~Accounted(p) /\ paper[p] = 0 /\ lost[p] = 0
  <2>1. ASSUME NEW p \in Pages
        PROVE  ~Accounted(p)
    BY PageHasGroup DEF Init, Accounted, NoMarker
  <2>. QED
    BY <2>1 DEF Init
<1>5. PaperInv
  BY <1>4 DEF PaperInv
<1>6. BlankInv
  BY DEF Init, BlankInv
<1>7. PrintedInOrder
  BY <1>4 DEF PrintedInOrder
<1>. QED
  BY <1>1, <1>2, <1>3, <1>5, <1>6, <1>7 DEF IInv

\* Every step keeps the inductive invariant.
LEMMA NextIInv == IInv /\ [Next]_vars => IInv'
  BY NextTypeOK, NextPlaceInv, NextMarkerInv, NextPaperInv, NextBlankInv,
     NextPrintedInOrder DEF IInv

\* The inductive invariant holds in every reachable state of the print phase.
THEOREM Invariant == Spec => []IInv
  BY InitIInv, NextIInv, PTL DEF Spec

\* Every variable keeps its type.
THEOREM TypeCorrect == Spec => []TypeOK
<1>1. IInv => TypeOK
  BY DEF IInv
<1>. QED
  BY <1>1, Invariant, PTL

\* Whatever is interrupted, resumed or acknowledged, the markers and the
\* completed phase record only documents that are on paper.
THEOREM RecordedTheorem == Spec => []RecordedIsPrinted
<1>1. ASSUME IInv, NEW p \in Pages, p[2] <= marker[p[1]].printed
      PROVE  paper[p] > 0
  BY <1>1 DEF IInv, PaperInv, Accounted
<1>2. ASSUME IInv, NEW g \in Groups, marker[g].state = "completed"
      PROVE  marker[g].printed = Count[g]
  BY <1>2 DEF IInv, MarkerInv
<1>3. ASSUME IInv, status = "completed", NEW p \in Pages
      PROVE  paper[p] > 0
  <2>1. p[1] \in Groups /\ p[2] \in 1..Count[p[1]]
    BY PageHasGroup
  <2>2. marker[p[1]].printed = Count[p[1]]
    BY <1>3, <2>1 DEF IInv, MarkerInv
  <2>. QED
    BY <1>1, <1>3, <2>1, <2>2, CountType
<1>4. IInv => RecordedIsPrinted
  BY <1>1, <1>2, <1>3 DEF RecordedIsPrinted
<1>. QED
  BY <1>4, Invariant, PTL

\* Documents and separators come out again only after an output that was lost
\* without a record.
THEOREM NoNeedlessReprintTheorem == Spec => []NoNeedlessReprint
<1>1. ASSUME IInv, NEW p \in Pages
      PROVE  paper[p] <= lost[p] + 1
  <2>1. paper[p] \in Nat /\ lost[p] \in Nat
    BY <1>1 DEF IInv, TypeOK
  <2>2. paper[p] <= lost[p] + (IF Accounted(p) THEN 1 ELSE 0)
    BY <1>1 DEF IInv, PaperInv
  <2>. QED
    BY <2>1, <2>2
<1>2. ASSUME IInv, NEW g \in Groups
      PROVE  blanks[g] <= lostBlanks[g] + 1
  BY <1>2 DEF IInv, TypeOK, BlankInv
<1>3. IInv => NoNeedlessReprint
  BY <1>1, <1>2 DEF NoNeedlessReprint
<1>. QED
  BY <1>3, Invariant, PTL

\* The stack of paper is in planned order.
THEOREM PrintedInOrderTheorem == Spec => []PrintedInOrder
<1>1. IInv => PrintedInOrder
  BY DEF IInv
<1>. QED
  BY <1>1, Invariant, PTL
-----------------------------------------------------------------------------
(* The print phase implements its ledger. *)

Whole == {g \in Groups : \A k \in 1..Count[g] : paper[<<g, k>>] > 0}
Partial == MarkedGroups("partial_incomplete")
Printed == MarkedGroups("completed")

ledgerVars == <<status, Whole, Partial, Printed>>

\* The group at which execute-print stands is the next one to record.
LEMMA GroupIsNext ==
  ASSUME IInv, pc = "submit"
  PROVE  status = "printing" /\ group \in Groups /\ Ledger!IsNext(group)
<1>1. /\ status = "printing" /\ group \in Groups /\ marker[group].state # "completed"
      /\ \A g \in Groups : g < group => marker[g].state = "completed"
  BY DEF IInv, PlaceInv
<1>2. group \in Groups \ Printed /\ \A h \in Groups \ Printed : group <= h
  BY <1>1, GroupsAssumption DEF Printed, MarkedGroups, Groups
<1> QED
  BY <1>1, <1>2 DEF Ledger!IsNext, Ledger!Groups, Groups, Printed

\* A page that comes out can make the group whole, and no other.
LEMMA PageMakesWhole ==
  ASSUME IInv, pc = "submit", NEW n \in Nat, PrintPage(n)
  PROVE  Whole' \in {Whole, Whole \cup {group}}
<1>1. ASSUME NEW p \in Pages
      PROVE  /\ p[1] # group => paper'[p] = paper[p]
             /\ paper[p] > 0 => paper'[p] > 0
  BY PrintPageEffect DEF IInv, TypeOK
<1>2. ASSUME NEW g \in Groups, NEW k \in 1..Count[g]
      PROVE  /\ g # group => paper'[<<g, k>>] = paper[<<g, k>>]
             /\ paper[<<g, k>>] > 0 => paper'[<<g, k>>] > 0
  <2>1. PICK p \in Pages : p = <<g, k>>
    BY PageOfGroup
  <2>2. p[1] = g
    BY <2>1
  <2>3. /\ g # group => paper'[p] = paper[p]
        /\ paper[p] > 0 => paper'[p] > 0
    BY <1>1, <2>2
  <2> QED
    BY <2>1, <2>3
<1>3. Whole \subseteq Whole'
  BY <1>2 DEF Whole
<1>4. Whole' \subseteq Whole \cup {group}
  <2> SUFFICES ASSUME NEW g \in Groups, g # group, g \in Whole'
               PROVE  g \in Whole
    BY DEF Whole
  <2>1. \A k \in 1..Count[g] : paper[<<g, k>>] > 0
    BY <1>2 DEF Whole
  <2> QED
    BY <2>1 DEF Whole
<1> HIDE DEF Whole
<1>5. CASE group \in Whole'
  <2>1. Whole' = Whole \cup {group}
    BY <1>3, <1>4, <1>5
  <2> QED
    BY <2>1
<1>6. CASE group \notin Whole'
  <2>1. Whole' = Whole
    BY <1>3, <1>4, <1>6
  <2> QED
    BY <2>1
<1> QED
  BY <1>5, <1>6

\* A marker of the current group that is written as partial.
LEMMA PartialIsMarked ==
  ASSUME IInv, pc = "submit", RecordPartial
  PROVE  Partial' = Partial \cup {group} /\ Printed' = Printed /\ status' = status
<1>1. /\ marker \in [Groups -> Markers] /\ group \in Groups
      /\ marker[group].state # "completed"
  BY DEF IInv, TypeOK, PlaceInv
<1>2. /\ marker' = [marker EXCEPT ![group] = marker'[group]]
      /\ marker'[group].state = "partial_incomplete"
      /\ status' = status
  BY <1>1 DEF RecordPartial
<1> QED
  BY <1>1, <1>2 DEF Partial, Printed, MarkedGroups

\* Every step of the phase is one of the ledger or none.
LEMMA StepImplementsLedger ==
  ASSUME IInv, [Next]_vars
  PROVE  [Ledger!Next]_ledgerVars
<1> USE DEF ledgerVars
<1>1. ASSUME UNCHANGED <<marker, paper>>
      PROVE  UNCHANGED <<Whole, Partial, Printed>>
  BY <1>1 DEF Whole, Partial, Printed, MarkedGroups
<1>2. ASSUME UNCHANGED <<marker, paper>>,
             status' = status \/ status' \in {"planned", "hard_blocked"}
      PROVE  [Ledger!Next]_ledgerVars
  <2>1. CASE status' = status
    BY <1>1, <1>2, <2>1
  <2>2. CASE status' \in {"planned", "hard_blocked"}
    BY <1>1, <1>2, <2>2 DEF Ledger!Next, Ledger!Set, Whole, Partial, Printed
  <2> QED
    BY <1>2, <2>1, <2>2
<1>3. CASE PlanPrint \/ GenerateChecklist \/ GenerateChecklistFails \/ ChecklistInvalid
           \/ AdapterUnavailable \/ SkipCompletedGroup \/ StartGroup \/ Crash
  BY <1>3, <1>2 DEF PlanPrint, GenerateChecklist, GenerateChecklistFails, ChecklistInvalid,
     AdapterUnavailable, SkipCompletedGroup, StartGroup, Crash, counters
<1>4. CASE Execute
  BY <1>4, <1>1 DEF Execute, Executable, counters, Ledger!Next, Ledger!Begin, Whole, Partial,
     Printed
<1>5. CASE RuntimeError \/ PersistUncertain
  <2>1. /\ status = "printing" /\ status' = "uncertain_incomplete"
        /\ UNCHANGED <<marker, paper>>
    BY <1>5 DEF RuntimeError, PersistUncertain, counters, IInv, PlaceInv
  <2> QED
    BY <2>1, <1>1 DEF Ledger!Next, Ledger!EndUncertain, Whole, Partial, Printed
<1>6. CASE Complete
  <2>1. /\ status = "printing" /\ status' = "completed" /\ UNCHANGED <<marker, paper>>
        /\ \A g \in Groups : marker[g].state = "completed"
    BY <1>6, GroupsAssumption DEF Complete, counters, IInv, PlaceInv, Groups
  <2>2. Printed = Groups
    BY <2>1 DEF Printed, MarkedGroups
  <2> QED
    BY <2>1, <2>2, <1>1 DEF Ledger!Next, Ledger!Complete, Ledger!Groups, Groups, Whole,
       Partial, Printed
<1>7. CASE SubmitSeparator \/ SeparatorThroughFallback
  BY <1>7, <1>2 DEF SubmitSeparator, SeparatorThroughFallback, PrintBlank
<1>8. CASE SubmitDocument \/ DocumentThroughFallback
  <2>1. /\ pc = "submit" /\ UNCHANGED <<status, marker>>
        /\ \E n \in Nat : PrintPage(n)
    BY <1>8 DEF SubmitDocument, DocumentThroughFallback, NextIsDocument, Attempts
  <2>2. Whole' \in {Whole, Whole \cup {group}} /\ UNCHANGED <<Partial, Printed>>
    BY <2>1, PageMakesWhole DEF Partial, Printed, MarkedGroups
  <2>3. group \in Ledger!Groups /\ status = "printing" /\ Ledger!IsNext(group)
    BY <2>1, GroupIsNext DEF Ledger!Groups, Groups
  <2> QED
    BY <2>1, <2>2, <2>3 DEF Ledger!Next, Ledger!ComesOut, Whole, Partial, Printed
<1>9. CASE SubmissionFails \/ DocumentFailsAfterOutput \/ SeparatorFailsAfterOutput
  <2>1. pc = "submit" /\ RecordPartial
    BY <1>9 DEF SubmissionFails, DocumentFailsAfterOutput, SeparatorFailsAfterOutput,
       NothingSubmitted, NextIsDocument, NextIsSeparator
  <2>2. Partial' = Partial \cup {group} /\ Printed' = Printed /\ status' = status
    BY <2>1, PartialIsMarked
  <2>3. Whole' \in {Whole, Whole \cup {group}}
    <3>1. CASE UNCHANGED paper
      BY <3>1 DEF Whole
    <3>2. CASE DocumentFailsAfterOutput
      BY <2>1, <3>2, PageMakesWhole DEF DocumentFailsAfterOutput, Attempts
    <3> QED
      BY <1>9, <3>1, <3>2 DEF SubmissionFails, SeparatorFailsAfterOutput, PrintBlank, counters
  <2>4. group \in Ledger!Groups /\ status = "printing" /\ Ledger!IsNext(group)
    BY <2>1, GroupIsNext DEF Ledger!Groups, Groups
  <2>5. CASE Whole' = Whole
    <3>1. Ledger!Interrupt(group)
      BY <2>2, <2>4, <2>5 DEF Ledger!Interrupt, Whole, Partial, Printed
    <3> QED
      BY <2>4, <3>1 DEF Ledger!Next
  <2>6. CASE Whole' = Whole \cup {group}
    <3>1. PICK g \in Ledger!Groups : g = group
      BY <2>4
    <3>2. Ledger!IsNext(g)
      BY <2>4, <3>1 DEF Ledger!IsNext
    <3>3. Ledger!ComesOut(g)
      BY <2>2, <2>4, <2>6, <3>1, <3>2 DEF Ledger!ComesOut, Whole, Partial, Printed
    <3> QED
      BY <3>3 DEF Ledger!Next
  <2> QED
    BY <2>3, <2>5, <2>6
<1>10. CASE FinishGroup
  <2>1. /\ pc = "submit" /\ Recorded = Count[group] /\ UNCHANGED <<status, paper>>
        /\ marker' = [marker EXCEPT ![group] =
             [state |-> "completed", printed |-> Count[group]]]
    BY <1>10 DEF FinishGroup, counters
  <2>2. group \in Ledger!Groups /\ status = "printing" /\ Ledger!IsNext(group)
        /\ group \in Groups
    BY <2>1, GroupIsNext DEF Ledger!Groups, Groups
  <2>3. group \in Whole
    <3>1. ASSUME NEW k \in 1..Count[group]
          PROVE  paper[<<group, k>>] > 0
      <4>1. <<group, k>> \in Pages /\ Accounted(<<group, k>>)
        BY <2>1, <2>2, PageOfGroup, CountType DEF Accounted
      <4> QED
        BY <4>1 DEF IInv, PaperInv
    <3> QED
      BY <2>2, <3>1 DEF Whole
  <2>4. Printed' = Printed \cup {group} /\ Partial' = Partial \ {group} /\ Whole' = Whole
    <3>1. marker \in [Groups -> Markers]
      BY DEF IInv, TypeOK
    <3>2. \A g \in Groups : marker'[g].state = IF g = group THEN "completed"
                                             ELSE marker[g].state
      BY <2>1, <2>2, <3>1
    <3> QED
      BY <2>1, <2>2, <3>2 DEF Whole, Partial, Printed, MarkedGroups
  <2> QED
    BY <2>1, <2>2, <2>3, <2>4 DEF Ledger!Next, Ledger!Record, Whole, Partial, Printed
<1>11. ASSUME NEW g \in Groups, NEW n \in 1..(Count[g] + 1), AcknowledgePartialPrint(g, n)
       PROVE  [Ledger!Next]_ledgerVars
  <2>1. PICK k \in 1..Count[g], state \in {"completed", "partial_incomplete"} :
           /\ marker' = [marker EXCEPT ![g] = [state |-> state, printed |-> k]]
           /\ \A j \in 1..k : paper[<<g, j>>] > 0
           /\ state = "completed" => k = Count[g]
    BY <1>11, AcknowledgementRecords DEF IInv
  <2>2. UNCHANGED <<status, paper>> /\ marker[g].state = "partial_incomplete"
    BY <1>11 DEF AcknowledgePartialPrint, counters
  <2>3. Whole' = Whole
    BY <2>2 DEF Whole
  <2>4. \A h \in Groups : marker'[h].state = IF h = g THEN state ELSE marker[h].state
    BY <2>1 DEF IInv, TypeOK
  <2>5. CASE state = "partial_incomplete"
    <3>1. \A h \in Groups : marker'[h].state = marker[h].state
      BY <2>2, <2>4, <2>5
    <3>2. UNCHANGED <<Partial, Printed>>
      BY <3>1 DEF Partial, Printed, MarkedGroups
    <3> QED
      BY <2>2, <2>3, <3>2
  <2>6. CASE state = "completed"
    <3>1. g \in Whole
      BY <2>1, <2>6 DEF Whole
    <3>2. Printed' = Printed \cup {g} /\ Partial' = Partial \ {g} /\ g \in Partial
      BY <2>2, <2>4, <2>6 DEF Partial, Printed, MarkedGroups
    <3>3. \A h \in Groups : h < g => marker[h].state = "completed"
      <4>1. <<g, 1>> \in Pages /\ paper[<<g, 1>>] > 0 /\ <<g, 1>>[1] = g
        BY <3>1, CountType, PageOfGroup DEF Whole
      <4> QED
        BY <4>1 DEF IInv, PrintedInOrder
    <3>4. g \in Groups \ Printed /\ \A h \in Groups \ Printed : g <= h
      BY <2>2, <3>3, GroupsAssumption DEF Printed, MarkedGroups, Groups
    <3>5. Ledger!IsNext(g) /\ g \in Ledger!Groups
      BY <3>4 DEF Ledger!IsNext, Ledger!Groups, Groups, Printed
    <3> QED
      BY <2>2, <2>3, <3>1, <3>2, <3>5 DEF Ledger!Next, Ledger!Record, Whole, Partial, Printed
  <2> QED
    BY <2>5, <2>6
<1>12. CASE UNCHANGED vars
  BY <1>12, <1>2 DEF vars
<1> QED
  BY <1>3, <1>4, <1>5, <1>6, <1>7, <1>8, <1>9, <1>10, <1>11, <1>12 DEF Next, Proceed

\* The print phase implements its ledger: groups are recorded one after the
\* other, each when it is on paper (execute_print_batches,
\* acknowledge_partial_print_progress).
THEOREM RefinesPrintLedger == Spec => ImplementsPrintLedger
<1>1. Init => Ledger!Init
  <2> SUFFICES ASSUME Init PROVE Ledger!Init
    OBVIOUS
  <2>1. MarkedGroups("partial_incomplete") = {} /\ MarkedGroups("completed") = {}
    BY DEF Init, MarkedGroups, NoMarker
  <2>2. ASSUME NEW g \in Groups
        PROVE  <<g, 1>> \in Pages /\ 1 \in 1..Count[g] /\ ~(paper[<<g, 1>>] > 0)
    BY CountType, PageOfGroup DEF Init
  <2>3. {g \in Groups : \A k \in 1..Count[g] : paper[<<g, k>>] > 0} = {}
    BY <2>2
  <2> QED
    BY <2>1, <2>3 DEF Init, Ledger!Init
<1>2. IInv /\ [Next]_vars => [Ledger!Next]_ledgerVars
  BY StepImplementsLedger
<1> QED
  BY <1>1, <1>2, InitIInv, NextIInv, PTL
  DEF Spec, ImplementsPrintLedger, Ledger!Spec, Ledger!vars, ledgerVars, Whole, Partial, Printed
=============================================================================
