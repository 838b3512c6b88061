SPECIFICATION FairSpec
CONSTANTS
  Keys = {"wan", "lan"}
  Bypass = {"lan"}
  Users <- MCUsers
  Agents = {"a1", "a2"}
  Tenants = {"t1", "t2"}
  TenantOf <- MCTenantOf
  Paths <- MCPaths
  VpsShadow = TRUE
  Tier = 1
  MaxAttempts = 2
  Window = 2
  TokenLife = 2
  OnlineAge = 1
  AlertAge = 2
  MaxAge = 2
  MaxLogins = 2
INVARIANTS TypeOK FailuresBounded OwnTenantOnly
PROPERTY LockoutEnds
