SPECIFICATION FairSpec
CONSTANTS
  Players = {p1, p2}
  Scanners = {s1, s2}
  None = None
  SendTimeout = 0
  GetterTimeout = 1
  ScanTimeout = 1
  Backoff = 0
  Lateness = 2
  ReplyLateness = 2
  MaxRequests = 2
  MaxDrops = 1
INVARIANTS TypeOK OwnReply AwaitedIsRegistered OneLiveScan
PROPERTIES PromptReply EveryCallReturns
