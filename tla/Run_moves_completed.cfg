\* One mail is somewhere else at the first attempt to move.
CONSTANTS
  NumMails = 2
  MaxDisturbances = 1
SPECIFICATION Spec
INVARIANT CompletedRunMovedPrintedMails
CHECK_DEADLOCK FALSE
