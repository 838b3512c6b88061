SPECIFICATION LiveFairSpec
CONSTANTS
  t1 = t1
  t2 = t2
  Ranges = {1, 6}
  FirstRange = 1
  MetricTenants <- MCTenants
  GuardTenant = t1
  MetricsTenant = t1
  Scraped <- MCScraped
  MaxRate = 2
  LiveMax = 2
  MaxFlight = 2
  MaxEvents = 2
INVARIANTS ChartsOfSelection PeakOfSession
PROPERTY LoadingEnds
