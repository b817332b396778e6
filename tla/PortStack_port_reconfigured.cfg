CONSTANTS
  AccessAt <- Found
  MaxRetry = 1
  MaxJobs = 12
  MSeq = "TYPE_2_X"
  RequestSegments = 1
  EventOctets = 1
  Parameters = 1
  Devices <- OneDevice
  Configs <- AllModesAndBackup
  Scenarios <- Reconfigured
  IsduAnswers = {"ok"}
  IsduTotals = {1, 2}
  StatusCodes = {"type1"}
  EventSets <- OneNotice
  DsAnswers = {"plain", "big", "locked", "upload", "differs", "negative", "garbled"}
  Indices = {"ISDU"}
SPECIFICATION Spec
CHECK_DEADLOCK FALSE
INVARIANTS
  StorageHasThePort
  StoredWhenActive
PROPERTIES
  LifecycleKept
