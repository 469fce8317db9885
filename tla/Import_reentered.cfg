CONSTANTS
  Mails <- MCOneMail
  Relevant <- MCOneMail
  Docs <- MCOneDoc
  Doc <- MCFirstDoc
  PIs <- MCPIs
  Register <- MCRegister
  Rows <- MCRows
  Row <- MCRow
  DigitNumbers = {11, 12, 13}
  Orders <- MCOrders
  EditKinds = {}
  MaxEdits = 0
  MaxFaults = 1
SPECIFICATION Spec
INVARIANTS NumberEnteredOnce
