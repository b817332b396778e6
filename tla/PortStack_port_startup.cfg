CONSTANTS
  AccessAt <- Operational
  MaxRetry = 1
  MaxJobs = 8
  MSeq = "TYPE_2_X"
  RequestSegments = 1
  EventOctets = 1
  Parameters = 1
  Devices <- AllDevices
  Configs <- AllCom
  Scenarios <- Undisturbed
  IsduAnswers = {"ok"}
  IsduTotals = {1, 2}
  StatusCodes = {"type1"}
  EventSets <- OneNotice
  DsAnswers = {"plain", "differs", "upload"}
  Indices = {"PARAM"}
SPECIFICATION FairSpec
CHECK_DEADLOCK FALSE
PROPERTIES
  StartUpSettles
