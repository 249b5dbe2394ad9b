SPECIFICATION Spec
CONSTANTS
  Capacity = 7
  LengthSize = 2
  SizeMod = 32
  MaxText = 23
  RawSizes = {1, 2}
  TextSizes = {0, 1, 2, 5}
  Odd <- MCOdd
  MaxItems = 4
INVARIANTS
  TypeOK
  NoOverrun
  WhatFitsArrives
  OnlyLiteralsThrow
CHECK_DEADLOCK FALSE
