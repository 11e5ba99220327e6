SPECIFICATION FairSpec
CONSTANTS
  Workers = {w1, w2}
  Emails = {e1, e2}
  maxBulkImportRows = 2
  MaxFileRows = 3
  Faults = {"cancel", "db"}
  Invalid = Invalid
  Broken = Broken
  Outside = Outside
  None = None
INVARIANTS
  TypeOK
  SummaryAddsUp
  SummaryTellsTheTruth
  NothingLeftBehind
  NoSendAfterClose
PROPERTIES
  ImportTerminates
  ImplementsImporter
