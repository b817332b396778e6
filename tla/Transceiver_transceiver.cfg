SPECIFICATION FairSpec
CONSTANTS
  Channels = {"A", "B"}
  MaxStart = 2
  MaxReply = 2
INVARIANTS
  WholeReplyIsNoticed
  DataReadyIsDue
  WakeUpIsDue
  WakeUpIsNotRefused
  EnablesMatchMode
PROPERTIES
  ReplyIsFetched
CHECK_DEADLOCK FALSE
