\* Two mails of every kind with up to four disturbances.
CONSTANTS
  NumMails = 2
  MaxDisturbances = 4
SPECIFICATION FairSpec
INVARIANTS TypeOK MovedMailsAreHandled OutcomesAreBacked EffectsAreReported
PROPERTIES PlannedGroupsPrintBeforeMoves CommittedRunEnds
CHECK_DEADLOCK FALSE
