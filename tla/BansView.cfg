\* Two addresses, pages of one row, one click, one change by others, one fault.
SPECIFICATION FairSpec
CONSTANTS
  Ips = {1, 2}
  Searchable = {1}
  ProofIps = {2}
  DemoIps = {1}
  PageSize = 1
  PreviewLimit = 2
  InitialBans = {{1, 2}}
  Sessions <- MCSessions
  Ops = {1}
  MaxEvents = 1
CHECK_DEADLOCK FALSE
INVARIANTS
  FreshAfterBan
  PageIsOneAnswer
PROPERTIES
  BadgeSettles
