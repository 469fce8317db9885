CONSTANTS
  Files <- MCFiles
  Families <- MCFamilies
  Units <- MCUnits
  Erp <- MCErp
  Numbers <- MCNumbers
  Pdfs <- MCPdfs
  Tolerance = 1
  Threshold = 5
  Mails <- MCMails
  Mail <- MCMail
  Docs <- MCDocs
  Doc <- MCDoc
  InitialSheets <- MCPlainSheets
  EditKinds = {"sort", "clear", "fill"}
  MaxEdits = 0
  MaxFaults = 1
  MaxRows = 5
SPECIFICATION FairSpec
CHECK_DEADLOCK FALSE
PROPERTIES RecordedCoverLeaves
