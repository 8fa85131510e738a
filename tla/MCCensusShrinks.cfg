SPECIFICATION Spec
CONSTANTS
  rex = rex
  dodo = dodo
  Dinos <- Herd
  Start <- FarApart
  Extent = 5
  PlayerSpots = {}
  Tile = 1
  Floor = 1
  ActiveSize = 2
  Reach = 0
  Dense = 3
  FullEvery = 1
  Ttl = 3
  ReprobeEvery = 12
  SettleFor = 0
  WipeMin = 50
  MaxChanges = 0
  MaxFaults = 1
PROPERTY LiveRowsSurvive
