CONSTANTS
  Files <- MCFiles
  Families <- MCFamilies
  Units <- MCUnits
  Erp <- MCErp
  Numbers <- MCNumbers
  Pdfs <- MCPdfs
  Tolerance = 1
  Threshold = 5
  Mails <- MCMails
  Mail <- MCMail
  Docs <- MCDocs
  Doc <- MCDoc
  InitialSheets <- MCSheets
  EditKinds = {"sort", "clear", "fill"}
  MaxEdits = 1
  MaxFaults = 1
  MaxRows = 5
SPECIFICATION FairSpec
INVARIANTS TypeOK WorkingSnapshotIsOutcome AnnotationsNameTheirRows
PROPERTIES ImplementsFamilyLedger RecordedMailLeaves
CHECK_DEADLOCK FALSE
