SPECIFICATION Spec
CONSTANTS
  Letter = {a, b}
  Junk = Junk
  Nul = Nul
  MaxInput = 4
INVARIANTS
  LinesAreTyped
  OnlyFullLinesAbort
