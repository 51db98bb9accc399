SPECIFICATION FairSpec
CONSTANTS
  Clients = {c1, c2}
  Texts = {t1, t2}
  Nothing = Nothing
  Gone = Gone
  Unreachable = Unreachable
  Room = 2
INVARIANTS TypeOK AnswersOwnQuestion
PROPERTIES KeptUntilAnswered PendingAnswered
