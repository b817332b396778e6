CONSTANTS
  AccessAt <- Operational
  MaxRetry = 1
  MaxJobs = 8
  MSeq = "TYPE_1_1"
  RequestSegments = 1
  EventOctets = 1
  Parameters = 1
  Devices <- SomeDevices
  Configs <- TwoRevisions
  Scenarios <- SwapsOrBusyLine
  IsduAnswers = {"ok"}
  IsduTotals = {1, 2}
  StatusCodes = {"details"}
  EventSets <- AlarmsAndUpload
  DsAnswers = {"plain", "differs", "upload"}
  Indices = {"ISDU", "PARAM_0"}
SPECIFICATION Spec
CHECK_DEADLOCK FALSE
INVARIANTS
  OnlyMatchingDevices
  FaultsAreTrue
  ServiceIsDue
  EventSetsAreWhole
