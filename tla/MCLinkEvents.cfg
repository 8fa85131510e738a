SPECIFICATION MCSpec
CONSTANTS
  Players = {a}
  NoOne = NoOne
  RingSize = 3
  DamageCap = 2
  RateWindow = 1
  CoalesceWindow = 2
  MaxDamage = 4
  MaxDeaths = 2
  MaxTime = 6
  Sockets = {s1, s2, s3}
  None = None
  Tries = 1
  Replies = {p1, p2, p3}
  NoReply = NoReply
  Gap = 2
  MaxClock = 6
  Survivors = {a, b}
  Calls = {c1, c2, c3}
  NoCall = NoCall
  MaxPins = 2
INVARIANTS TypesOK RateIsCapped DeathsOutliveBursts CensusFollowsLink PinsAgree
PROPERTIES TasksEnd RepliesLast
CHECK_DEADLOCK FALSE
