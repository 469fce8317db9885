\* Two runs of the program over two cells: every interleaving, crash and
\* failure, with the workbook left alone by everybody else.
CONSTANTS
  Runs = {r1, r2}
  Cells = {c1, c2}
  Values = {blank, a, b}
  Blank = blank
  PostValues = {a}
  NoWrite = NoWrite
  Free = Free
  Orphan = Orphan
  MaxEdits = 0
SPECIFICATION Spec
SYMMETRY Symmetry
INVARIANTS TypeOK MetadataMatchesFile
PROPERTY ImplementsAtomicBatch
CHECK_DEADLOCK FALSE
