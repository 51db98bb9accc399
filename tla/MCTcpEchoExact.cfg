SPECIFICATION Spec
CONSTANTS
  Clients = {c1}
  NoClient = NoClient
  MaxInput = 1
  MaxTyped = 2
  BufSize = 2
  InRoom = 2
  OutRoom = 4
INVARIANTS EchoesMessage
CHECK_DEADLOCK FALSE
