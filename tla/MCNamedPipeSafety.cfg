SPECIFICATION Spec
CONSTANTS
  Clients = {c1, c2}
  Instances = {i1, i2, i3}
  NoPipe = NoPipe
  NoClient = NoClient
SYMMETRY Symmetry
INVARIANTS TypeOK HandleDiscipline ReplyIsolation AcceptLoopFree
PROPERTIES DropsOnlyDeadClients Session
