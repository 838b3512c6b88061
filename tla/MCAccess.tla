------------------------------ MODULE MCAccess ------------------------------
(* One address under the limit and one without, an administrator and a     *)
(* user of another tenant.                                                 *)
EXTENDS Access

MCUsers == [admin |-> [tenant |-> "t1", admin |-> TRUE],
            user |-> [tenant |-> "t2", admin |-> FALSE]]
MCTenantOf == [a1 |-> "t1", a2 |-> "t2"]
MCPaths == {"/login", "/fleet", "/api/fleet", "/api/tenants", "/alerting",
            "/api/marketplace/signed", "/api/metrics/fleet", "/api/tier",
            "/api/attack-tree", "/api/fleet/commands/ack",
            "/api/data-room/soak-report.json"}
=============================================================================
