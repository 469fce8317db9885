CONSTANTS
  Mails <- MCMails
  Relevant <- MCRelevant
  Docs <- MCDocs
  Doc <- MCDoc
  PIs <- MCPIs
  Register <- MCRegister
  Rows <- MCRows
  Row <- MCRow
  DigitNumbers = {12, 13}
  Orders <- MCOrders
  EditKinds = {"cells", "rows", "columns"}
  MaxEdits = 1
  MaxFaults = 1
SPECIFICATION FairSpec
INVARIANTS TypeOK
PROPERTIES ImplementsBtbRegister OnlyStagedCellsChange RecordedMailLeaves
