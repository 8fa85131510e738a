SPECIFICATION Spec
CONSTANTS
  Players = {a, b}
  NoOne = NoOne
  RingSize = 3
  DamageCap = 2
  RateWindow = 1
  CoalesceWindow = 2
  MaxDamage = 2
  MaxDeaths = 1
  MaxTime = 3
INVARIANT OwnDamage
CHECK_DEADLOCK FALSE
