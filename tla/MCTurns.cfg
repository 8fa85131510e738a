SPECIFICATION Spec
CONSTANTS
  Players = {a, b, c}
  Link = Link
  MaxInflight = 2
  MaxRunning = 1
  MaxSessions = 3
  MaxMessages = 3
  MaxLinks = 1
SYMMETRY PlayersAreAlike
INVARIANTS TypeOK NothingLeaks SessionCap AnsweredOnce HistoryIsSound
CHECK_DEADLOCK FALSE
