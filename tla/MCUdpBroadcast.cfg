SPECIFICATION FairSpec
CONSTANTS
  Servers = {s1, s2}
  Clients = {c1, c2}
  Nobody = Nobody
  Gone = Gone
  Nothing = Nothing
  Reply = Reply
  Unreachable = Unreachable
  Room = 2
INVARIANTS TypeOK
PROPERTIES Session ServerEnds FirstIsServed LostForGood
