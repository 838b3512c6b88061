SPECIFICATION BoardFairSpec
CONSTANTS
  Worlds <- MCWorlds
  Locales = {"en", "de"}
  Found <- MCFound
  MaxFlight = 2
  MaxEvents = 3
INVARIANTS TrophyIsEarned StatisticsAddUp
PROPERTY BoardSettles
CHECK_DEADLOCK FALSE
