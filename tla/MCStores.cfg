SPECIFICATION MCSpec
CONSTANTS
  Uids = {d1, d2}
  Regions = {r1, r2}
  Nowhere = Nowhere
  Tasks = {t1, t2}
  None = None
  MaxId = 3
  MaxCuts = 1
  campaign = campaign
  telemetry = telemetry
  Files <- FileSet
  Scripts <- Schema
  Openers = {o1, o2}
  Nobody = Nobody
  MaxStops = 2
  MaxConns = 4
  Old = Old
  New = New
  MaxRows = 4
  MaxRekeys = 2
  weather = weather
  base = base
  map = map
  Queries = {weather, base}
  Dependent = {weather}
  Contexts = {map}
  NoContext = NoContext
  Similarity <- Alike
  Threshold = 2
  MaxEntries = 2
  Ttls = {0, 1}
  MaxStored = 3
  MaxHours = 2
  Facts <- MCFacts
  Questions <- MCQuestions
  RowSizes = {1, 2}
  TokenBudget = 6
  ChatReserve = 1
  MinChat = 1
  MaxRead = 2
  LoreLimit = 1
  DeathLimit = 1
  DeathAge = 0
  StaleAfter = 0
  MaxLore = 2
  MaxHistory = 3
  MaxEvents = 2
  MaxMinutes = 1
  look = look
  destroy = destroy
  Tiers <- TierList
  NoTier = NoTier
  Parent <- Inherits
  Tools <- ToolSet
  DeclaredTier <- Declared
  Granted <- Patterns
  Requests <- RequestLimits
  ToolCalls <- CallLimits
  ToolLimits <- LimitsOfTools
  TierLimits <- LimitsOfTiers
  Arguments <- Values
  NotGiven = NotGiven
  NotANumber = NotANumber
  Fallbacks <- FallbackModels
  Catalog <- Models
  Attempts = 2
  MaxIterations = 2
  MaxCalls = 2
  Sizes = {1}
  Budget = 4
  TightBudget = 3
  Window = 2
  CleanupAge = 2
  MaxTurns = 2
  MaxNow = 3
  island = island
  ridge = ridge
  wolves = wolves
  bears = bears
  Tribes <- TribeSet
  Names = {wolves, bears}
  Unknown = Unknown
  FirstNames <- NamesAtFirst
  DinoRingSize = 2
  TeamTribeMax = 1
  Limit = 1
  MaxFrames = 3
  MaxRenames = 1
INVARIANTS TypeOK TypesOK NoStrayChanges InSync NoCollision SchemaIsWhole
INVARIANTS CallsAreAnswered EveryCallIsCleared
PROPERTIES OnlyScansMoveDinos FailsOnlyTorn RekeyIsWhole HistoriesSurvive LookupsAreSound ContextIsSound
PROPERTIES EveryRunEnds OwnDinosAreTold
