SPECIFICATION FairSpec
CONSTANTS
  Sides = {"server"}
  Line = {"other"}
  MaxLines = 1
  MaxStarts = 1
PROPERTY
  StopStops
