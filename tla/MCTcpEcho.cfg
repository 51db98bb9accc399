SPECIFICATION FairSpec
CONSTANTS
  Clients = {c1, c2}
  NoClient = NoClient
  MaxInput = 3
  MaxTyped = 8
  BufSize = 3
  InRoom = 4
  OutRoom = 4
INVARIANTS TypeOK EchoInOrder
PROPERTIES AnswerComes ServerEnds
CHECK_DEADLOCK FALSE
