SPECIFICATION FairSpec
CONSTANTS
  Rows <- MCRows
  Families <- MCFamilies
  Row <- MCRow
  Erp <- MCErp
  Keys <- MCKeys
  LcKeys <- MCLcKeys
  RemarkKeys <- MCRemarkKeys
  Sites <- MCSites
  NoAnswer = NoAnswer
  Blank = Blank
  Malformed = Malformed
  Cases <- MCCases
  MaxEdits = 1
  MaxFaults = 2
INVARIANTS TypeOK LookupsStayApart OneLogin OkRowsCarryErpDates NumericRuleAsDocumented EvidenceExplainsDecision
PROPERTIES RunsSettleOpenRows MatchingRowsVerified
CHECK_DEADLOCK FALSE
