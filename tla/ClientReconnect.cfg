SPECIFICATION Spec
CONSTANTS
  Conn = {c1, c2}
  Invalid = Invalid
  Garbage = Garbage
  Message = {}
  MaxInbox = 1
  Debug = TRUE
  Stops = FALSE
INVARIANT
  CallbackIsCurrent
