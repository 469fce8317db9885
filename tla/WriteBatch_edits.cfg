\* Two runs over one cell that somebody else edits, with fair processes: the
\* guarantees under edits, and every session is given up.
CONSTANTS
  Runs = {r1, r2}
  Cells = {c1}
  Values = {blank, a}
  Blank = blank
  PostValues = {a}
  NoWrite = NoWrite
  Free = Free
  Orphan = Orphan
  MaxEdits = 1
SPECIFICATION FairSpec
INVARIANTS RecoverySound SavedWritesStand
PROPERTIES ImplementsAtomicBatch SessionReleased
CHECK_DEADLOCK FALSE
