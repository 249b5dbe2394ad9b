SPECIFICATION FairSpec
CONSTANTS
  Conn = {c1, c2}
  Invalid = Invalid
  Garbage = Garbage
  Message = {m}
  MaxInbox = 1
  Debug = TRUE
  Stops = TRUE
INVARIANTS
  OnlyHandleAlive
  StatusLagsByCallbacks
  CallbacksMatchStatus
  OnlyStaleCallbacksFault
PROPERTIES
  Session
  StatusCatchesUp
  StopReturns
