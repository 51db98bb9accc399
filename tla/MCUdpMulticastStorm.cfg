SPECIFICATION Spec
CONSTANTS
  Servers = {s1, s2}
  Clients = {c1, c2}
  Group = Group
  AnyAddress = AnyAddress
SYMMETRY Symmetry
INVARIANTS TypeOK NoStorm
CHECK_DEADLOCK FALSE
