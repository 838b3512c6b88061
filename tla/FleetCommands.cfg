\* Two commands, two agents, late and lost
\* acknowledgements, one poll given up or crash.
SPECIFICATION FairSpec
CONSTANTS
  a1 = a1
  a2 = a2
  t1 = t1
  t2 = t2
  Agents = {a1, a2}
  Tenants = {t1, t2}
  TenantOf <- MCTenantOf
  Shadow = Shadow
  NoAgent = NoAgent
  NoTenant = NoTenant
  Host = Host
  MaxCmd = 2
  Requests <- MCRequests
  Deployments <- MCDeployments
  Slots = {1, 2}
  InboxCaps = {1, 2}
  MaxFaults = 1
CHECK_DEADLOCK FALSE
INVARIANTS
  TenantIsolated
  InOrder
  SettledIsReal
PROPERTIES
  LifeSpec
  PendingIsHandedOut
