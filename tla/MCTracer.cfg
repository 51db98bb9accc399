SPECIFICATION FairSpec
CONSTANTS
  Procs = {p1, p2}
  Main = Main
  Workers = {w}
  Bom = Bom
  Nothing = Nothing
  Nobody = Nobody
  Deleted = Deleted
  Room = 2
INVARIANTS TypeOK LogWellFormed
PROPERTIES AppendOnly TraceReturns
