SPECIFICATION FairSpec
CONSTANTS
  Players = {a, b}
  Link = Link
  MaxInflight = 2
  MaxRunning = 1
  MaxSessions = 1
  MaxMessages = 2
  MaxLinks = 2
PROPERTIES LockedStays EveryTurnEnds
CHECK_DEADLOCK FALSE
