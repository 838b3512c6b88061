-------------------------- MODULE MCFleetCommands --------------------------
(* Two agents of one tenant, commands for it and for another; the posts     *)
(* differ in route, role, target and tenant.                                *)
EXTENDS FleetCommands, TLC

CONSTANTS a1, a2, t1, t2

MCTenantOf == (a1 :> t1) @@ (a2 :> t1)

Request(route, admin, user, tenant, target, type, ok, now) ==
  [route |-> route, admin |-> admin, user |-> user, tenant |-> tenant, target |-> target,
   type |-> type, wellFormed |-> ok, now |-> now]

MCRequests ==
  { Request("fleet", TRUE, t1, NoTenant, NoAgent, "BAN_IP", TRUE, FALSE),
    Request("fleet", FALSE, t1, t2, a1, "PUSH_CONFIG", TRUE, FALSE),
    Request("copilot", FALSE, t2, NoTenant, NoAgent, "UPDATE_THRESHOLD", TRUE, FALSE) }

\* The same key on both sides, and agents with another key than the dashboard.
MCDeployments ==
  { [key |-> TRUE, requireSig |-> TRUE, agentKey |-> k] : k \in {"same", "other"} }
=============================================================================
