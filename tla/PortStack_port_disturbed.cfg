CONSTANTS
  AccessAt <- Found
  MaxRetry = 1
  MaxJobs = 8
  MSeq = "TYPE_2_X"
  RequestSegments = 1
  EventOctets = 1
  Parameters = 1
  Devices <- OneDevice
  Configs <- Manual
  Scenarios <- Disturbed
  IsduAnswers = {"ok", "busy", "malformed", "checksum"}
  IsduTotals = {1, 2}
  StatusCodes = {"type1"}
  EventSets <- OneNotice
  DsAnswers = {"plain", "differs", "upload"}
  Indices = {"ISDU", "BATCH"}
SPECIFICATION FairSpec
CHECK_DEADLOCK FALSE
INVARIANTS
  TypeOK
  NoFailure
  OneStartUpService
  BlockedForOneService
  ReconfigurationIsTaken
  ActiveMeansOperate
PROPERTIES
  AnsweredOrStopped
  ExchangeIsFreed
  LossIsNoticed
