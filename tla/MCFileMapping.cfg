SPECIFICATION FairSpec
CONSTANTS
  Senders = {s1, s2}
  Receivers = {r}
  Size = 2
  NoName = NoName
INVARIANTS TypeOK LateReceiverPrintsAll
PROPERTIES FileKept Delivered
