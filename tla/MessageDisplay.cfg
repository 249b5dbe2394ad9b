SPECIFICATION FairSpec
CONSTANTS
  Size = 2
  Width = 4
  Limits <- MCLimits
  InitialLimit = 2
  MaxMessages = 5
INVARIANTS
  FreeListIsRest
  IndicesArePlaces
  LogIsRecent
  FaultsHaveCause
PROPERTIES
  RoomReturns
