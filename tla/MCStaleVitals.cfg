SPECIFICATION ContextSpec
CONSTANTS
  Facts <- MCFacts
  Questions = {{}}
  RowSizes = {1}
  TokenBudget = 6
  ChatReserve = 1
  MinChat = 1
  MaxRead = 1
  LoreLimit = 1
  DeathLimit = 1
  DeathAge = 1
  StaleAfter = 1
  MaxLore = 1
  MaxHistory = 1
  MaxEvents = 1
  MaxMinutes = 3
PROPERTY OldVitalsAreFlagged
CHECK_DEADLOCK FALSE
