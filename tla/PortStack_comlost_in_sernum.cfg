CONSTANTS
  AccessAt <- Found
  MaxRetry = 1
  MaxJobs = 8
  MSeq = "TYPE_2_X"
  RequestSegments = 1
  EventOctets = 1
  Parameters = 1
  Devices <- OldDevice
  Configs <- ManualOld
  Scenarios <- OldUnplugged
  IsduAnswers = {"ok"}
  IsduTotals = {1, 2}
  StatusCodes = {"type1"}
  EventSets <- OneNotice
  DsAnswers = {"plain", "differs", "upload"}
  Indices = {}
SPECIFICATION Spec
CHECK_DEADLOCK FALSE
INVARIANTS
  SerialNumberIsDue
