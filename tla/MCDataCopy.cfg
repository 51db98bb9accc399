SPECIFICATION FairSpec
CONSTANTS
  Programs = {p, q}
  Notepads = {n1, n2}
  None = None
  Blank = Blank
  Typed = Typed
INVARIANTS TypeOK
PROPERTIES TextDelivered CreateReturns
