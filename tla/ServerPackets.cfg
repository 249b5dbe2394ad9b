SPECIFICATION Spec
CONSTANTS
  Conn = {1, 2}
  ned = ned
  NoNick = NoNick
  ChosenNick <- MCChosenNick
  ChosenLength <- MCChosenLength
  Kinds = {"nickname", "whosonline", "other", "short"}
  Requested <- MCRequested
  MaxChoices = {2}
  MaxInbox = 1
  Kicks = TRUE
INVARIANTS
  TypeOK
  GroupIsClients
  OnlyClosedPeersFault
  RosterAccurate
PROPERTIES
  PacketsKeepNicksApart
