SPECIFICATION FairSpec
CONSTANTS
  Clients = {c1, c2}
  Instances = {i1, i2}
  NoPipe = NoPipe
  NoClient = NoClient
PROPERTIES FinishesUnlessAbandoned InstanceReclaimed
