SPECIFICATION SocFairSpec
CONSTANTS
  Worlds <- MCWorlds
  PrivateIps = {2}
  Tenants = {1, 2}
  MaxBans = 2
  MaxMapBans = 2
  MaxGeo = 3
  MaxEntries = 4
  MaxPreview = 2
  MaxCache = 1
  MaxFlight = 2
  MaxActs = 4
INVARIANTS TimelineNewest ViewsAgree
PROPERTY Settles
CHECK_DEADLOCK FALSE
