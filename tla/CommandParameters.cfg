SPECIFICATION Spec
CONSTANTS
  Blank = Blank
  Quote = Quote
  Id = Id
  User = User
  Digit = Digit
  Letter = {}
  Kept = Kept
  Nul = Nul
  MaxLine = 8
  MaxArgs = 3
  MaxDigits = 2
INVARIANTS
  CommandAndRest
  TokensAreWords
  OnlyBadIdsThrow
