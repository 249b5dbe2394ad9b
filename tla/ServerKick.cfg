SPECIFICATION Spec
CONSTANTS
  Conn = {1, 2}
  ned = ned
  NoNick = NoNick
  ChosenNick <- MCChosenNick
  ChosenLength <- MCChosenLength
  Kinds = {}
  Requested = {}
  MaxChoices = {1}
  MaxInbox = 1
  Kicks = TRUE
INVARIANT
  AppKnowsClients
