SPECIFICATION FairSpec
CONSTANTS
  rex = rex
  dodo = dodo
  Dinos <- Herd
  Start <- OneAtTheEdge
  Extent = 5
  PlayerSpots = {5}
  Tile = 2
  Floor = 1
  ActiveSize = 2
  Reach = 1
  Dense = 2
  FullEvery = 1
  Ttl = 2
  ReprobeEvery = 3
  SettleFor = 0
  WipeMin = 2
  MaxChanges = 1
  MaxFaults = 2
INVARIANTS TypeOK PassIsComplete
PROPERTIES SweepsAreHonest Converges
