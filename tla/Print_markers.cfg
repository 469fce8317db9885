\* Three groups with up to four failures, crashes or repeated plannings, and an
\* operator who repeats the commands.
CONSTANTS
  NumGroups = 3
  Count <- ThreeGroups
  MaxDisturbances = 4
SPECIFICATION FairSpec
INVARIANTS TypeOK RecordedIsPrinted NoNeedlessReprint PrintedInOrder
PROPERTIES ImplementsPrintLedger PrintCompletes
