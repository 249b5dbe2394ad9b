SPECIFICATION FairSpec
CONSTANTS
  Conn = {1, 2}
  ned = ned
  NoNick = NoNick
  ChosenNick <- MCChosenNick
  ChosenLength <- MCChosenLength
  Kinds = {"other"}
  Requested = {}
  MaxChoices = {1, 2}
  MaxInbox = 1
  Kicks = TRUE
INVARIANTS
  CountIsClients
  EveryConnectionIsHandled
PROPERTIES
  Membership
  ConnectionsAreDealtWith
  ClientsAreWelcomed
  QuitEndsServer
