SPECIFICATION FairSpec
CONSTANTS
  P1 = P1
  P2 = P2
  Texts = {t1}
  NoText = NoText
  Freed = Freed
  Nobody = Nobody
  Other = Other
INVARIANTS TypeOK ClipboardReturned ShowsCurrentText
PROPERTIES NobodyStuck PendingSignalDelivers
