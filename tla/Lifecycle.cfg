SPECIFICATION FairSpec
CONSTANTS
  Sides <- MCSides
  Line <- MCLine
  MaxLines = 3
  MaxStarts = 2
INVARIANTS
  TypeOK
  FirstInFirstOut
  NothingAfterQuit
  FlagsTellTruth
  NothingSurvives
PROPERTIES
  QuitIsObeyed
  CallsReturn
