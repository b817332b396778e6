CONSTANTS
  AccessAt <- Found
  MaxRetry = 1
  MaxJobs = 8
  MSeq = "TYPE_2_X"
  RequestSegments = 1
  EventOctets = 1
  Parameters = 1
  Devices <- OneDevice
  Configs <- Backup
  Scenarios <- Unplugged
  IsduAnswers = {"ok"}
  IsduTotals = {1, 2}
  StatusCodes = {"type1"}
  EventSets <- OneNotice
  DsAnswers = {"plain", "differs", "upload"}
  Indices = {}
SPECIFICATION FairSpec
CHECK_DEADLOCK FALSE
PROPERTIES
  ComlostIsHandled
