SPECIFICATION Spec
PROPERTIES
  WaitReturns
  CopyEnds
  ShutdownEndsLoop
  EventuallyDelivered
  CatchupCompletes
  StreamsAreDelivered
  CallsReturn
  WritesEnd
CHECK_DEADLOCK FALSE
