SPECIFICATION Spec
CONSTANTS
  PageLimit = 2
  MaxDigits = 10
  Pdfs <- MCPdfs
  Pdf <- MCPdf
INVARIANTS
  TypeOK
  ReadAsMeant
  NothingContradicts
  ClearLettersPass
CHECK_DEADLOCK FALSE
