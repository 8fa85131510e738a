SPECIFICATION Spec
CONSTANTS
  Players = {a}
  Link = Link
  MaxInflight = 3
  MaxRunning = 2
  MaxSessions = 4
  MaxMessages = 3
  MaxLinks = 1
INVARIANTS OneTurnPerPlayer
CHECK_DEADLOCK FALSE
