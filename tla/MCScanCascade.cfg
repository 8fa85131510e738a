SPECIFICATION HistorySpec
CONSTANTS
  Players = {}
  Scanners = {s1}
  None = None
  SendTimeout = 2
  GetterTimeout = 3
  ScanTimeout = 2
  Backoff = 1
  Lateness = 4
  ReplyLateness = 1
  MaxRequests = 4
  MaxDrops = 0
PROPERTIES LossIsForgotten
