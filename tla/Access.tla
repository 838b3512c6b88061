-------------------------------- MODULE Access --------------------------------
(***************************************************************************)
(* Who gets into the dashboard and what they are shown: the login route    *)
(* with its limit on failed attempts, the middleware in front of every     *)
(* page and route, the telemetry agents post under their key, and the      *)
(* routes that answer by tenant.                                           *)
(*                                                                         *)
(* A login looks at the counter of its address, then waits for the body    *)
(* and the database, and counts a failure only afterwards: attempts of one *)
(* address overlap.  Deadlines are kept as the ticks that remain, so that  *)
(* time may pass for ever.  A request that is no login changes nothing:    *)
(* its answer (Answer) is a function of the state, and the properties are  *)
(* about every request that could be made in it.                           *)
(***************************************************************************)
EXTENDS Integers, FiniteSets

CONSTANTS
  Keys,         \* addresses logins come from (loginRateLimitKey)
  Bypass,       \* the addresses the limit does not apply to
  Users,        \* user -> [tenant, admin]
  Agents,       \* agents that post telemetry, each under a key of a tenant
  Tenants,
  TenantOf,     \* agent -> the tenant its key belongs to
  Paths,        \* pages and routes asked for
  VpsShadow,    \* a VPS answers over SSH and is listed as one more agent
  Tier,         \* LOG_GUARDIAN_TIER, as TIER_ORDER numbers it
  MaxAttempts,  \* MAX_ATTEMPTS
  Window,       \* WINDOW_MS, in ticks
  TokenLife,    \* lifetime of a token, in ticks
  OnlineAge,    \* 15 s: an agent is online below this age
  AlertAge,     \* 15 min: the scraped metric calls it online below this one
  MaxAge,       \* ages at and above are not told apart (stale_hours)
  MaxLogins     \* bound on the logins of all addresses in progress

ASSUME AccessAssumption ==
  /\ IsFiniteSet(Keys) /\ Bypass \subseteq Keys
  /\ MaxAttempts \in Nat \ {0} /\ Window \in Nat \ {0}
  /\ TokenLife \in Nat \ {0} /\ MaxLogins \in Nat \ {0}
  /\ VpsShadow \in BOOLEAN
  /\ OnlineAge \in Nat /\ AlertAge \in Nat /\ MaxAge \in Nat
  /\ TenantOf \in [Agents -> Tenants] /\ "*" \notin Tenants
  /\ \A u \in DOMAIN Users : /\ Users[u].tenant \in Tenants
                             /\ Users[u].admin \in BOOLEAN

VARIABLES
  buckets,   \* address -> failures of the window and what remains of it
  attempts,  \* slot -> login in progress
  cookie,    \* address -> auth_token of its browser
  rows       \* agent -> age of its telemetry row, Absent without one

vars == <<buckets, attempts, cookie, rows>>

Logins == 1..MaxLogins
Absent == MaxAge + 1
NoToken == [user |-> "none", left |-> 0]
Free == [st |-> "free", key |-> "none", user |-> "none"]

\* A password that fits no user.
Nobody == "nobody"

-----------------------------------------------------------------------------
(* The limit on failed logins.                                             *)

\* A window that is over counts as none.
Bucket(k) == IF buckets[k].left = 0 THEN [count |-> 0, left |-> Window]
             ELSE buckets[k]

\* The limit is noticed one attempt late.
LockedLate(k) == k \notin Bypass /\ Bucket(k).count > MaxAttempts

Locked(k) == k \notin Bypass /\ Bucket(k).count >= MaxAttempts

\* A refused attempt starts the window again.
CheckedAnew(k) ==
  IF k \in Bypass THEN buckets[k] ELSE [Bucket(k) EXCEPT !.left = Window]

\* The check opens a window and leaves a bypassed address alone.
Checked(k) == IF k \in Bypass THEN buckets[k] ELSE Bucket(k)

\* POST /api/auth/login, up to the first await: refused with 429, or on to
\* the database.
checkLoginRateLimit(i, k, u) ==
  /\ attempts[i] = Free
  /\ buckets' = [buckets EXCEPT ![k] = Checked(k)]
  /\ attempts' = IF Locked(k) THEN attempts
                 ELSE [attempts EXCEPT
                         ![i] = [st |-> "verify", key |-> k, user |-> u]]
  /\ UNCHANGED <<cookie, rows>>

\* The user is unknown or the password wrong.
recordLoginFailure(i) ==
  /\ attempts[i].st = "verify" /\ attempts[i].user = Nobody
  /\ LET k == attempts[i].key
     IN  buckets' = IF k \in Bypass THEN buckets
                    ELSE [buckets EXCEPT ![k] = [Bucket(k) EXCEPT !.count = @ + 1]]
  /\ attempts' = [attempts EXCEPT ![i] = Free]
  /\ UNCHANGED <<cookie, rows>>

\* A token whoever asks.
signAnyToken(i) ==
  /\ attempts[i].st = "verify"
  /\ cookie' = [cookie EXCEPT
       ![attempts[i].key] = [user |-> attempts[i].user, left |-> TokenLife]]
  /\ attempts' = [attempts EXCEPT ![i] = Free]
  /\ UNCHANGED <<buckets, rows>>

\* The token says who it is for and when it ends (not when it was issued,
\* so that the idle limit of the middleware has nothing to compare with).
signAuthToken(i) ==
  /\ attempts[i].st = "verify" /\ attempts[i].user # Nobody
  /\ cookie' = [cookie EXCEPT
       ![attempts[i].key] = [user |-> attempts[i].user, left |-> TokenLife]]
  /\ attempts' = [attempts EXCEPT ![i] = Free]
  /\ UNCHANGED <<buckets, rows>>

\* A body that cannot be read or a database that does not answer: the
\* attempt counts neither way.
LoginThrows(i) ==
  /\ attempts[i].st = "verify"
  /\ attempts' = [attempts EXCEPT ![i] = Free]
  /\ UNCHANGED <<buckets, cookie, rows>>

\* The form waits while a login is sent.
LoginForm(k) ==
  [disabled |-> \E i \in Logins :
                  attempts[i].st = "verify" /\ attempts[i].key = k]

-----------------------------------------------------------------------------
(* The middleware.  TIER_ORDER: 0 community, 1 pro, 2 pro_plus,            *)
(* 3 enterprise.                                                           *)

tierAtLeast(t) == Tier >= t

isEnterpriseRoute(p) == p = "/api/marketplace/signed"

isProRoute(p) ==
  p \in {"/fleet", "/api/fleet", "/api/fleet/commands",
         "/api/tenants/isolation", "/api/reports/export"}

isApiRoute(p) == p \notin {"/", "/login", "/fleet", "/competitive-proof",
                           "/alerting"}

isPublic(p) ==
  p \in {"/login", "/competitive-proof", "/api/auth/login", "/api/telemetry",
         "/api/tier", "/api/metrics/fleet", "/api/internal/bans-invalidate",
         "/api/fleet/commands", "/api/fleet/commands/ack",
         "/api/data-room/competitive-proof.pdf",
         "/api/data-room/competitive-proof.json"}

\* What tierStatus tells the pages.
tierFeatures ==
  [fleet |-> tierAtLeast(1), compliance |-> tierAtLeast(1),
   helmChart |-> tierAtLeast(2), wasmSignedMarketplace |-> tierAtLeast(3)]

tierBlocked(p) == \/ isEnterpriseRoute(p) /\ ~tierAtLeast(3)
                  \/ isProRoute(p) /\ ~tierAtLeast(1)

\* The headers of a request that is let through with a valid token; asked is
\* the tenant the browser asks for, which only an administrator may choose.
HeadersAsked(t, asked) ==
  [role |-> IF Users[t.user].admin THEN "admin" ELSE "user",
   userTenant |-> Users[t.user].tenant,
   tenant |-> asked]

Headers(t, asked) ==
  [role |-> IF Users[t.user].admin THEN "admin" ELSE "user",
   userTenant |-> Users[t.user].tenant,
   tenant |-> IF Users[t.user].admin THEN asked ELSE Users[t.user].tenant]

Anonymous(asked) == [role |-> "none", userTenant |-> "none", tenant |-> asked]

\* The order of the tests: redirect to Grafana, tier, token.
middleware(p, t, asked) ==
  IF p = "/alerting" THEN [to |-> "grafana", headers |-> Anonymous(asked)]
  ELSE IF tierBlocked(p)
       THEN [to |-> IF isApiRoute(p) THEN "403" ELSE "/",
             headers |-> Anonymous(asked)]
  ELSE IF t.left = 0    \* no token, or one that is no longer valid
       THEN [to |-> IF isPublic(p) THEN "next"
                    ELSE IF isApiRoute(p) THEN "401" ELSE "/login",
             headers |-> Anonymous(asked)]
  ELSE IF p = "/login" THEN [to |-> "/", headers |-> Anonymous(asked)]
  ELSE [to |-> "next", headers |-> Headers(t, asked)]

-----------------------------------------------------------------------------
(* The routes that answer by tenant.                                       *)

Known == {a \in Agents : rows[a] # Absent}

\* The filter of /api/tenants: everything for an administrator.
tenantWhere(h) ==
  IF h.role = "admin" THEN Known
  ELSE {a \in Known : TenantOf[a] = h.userTenant}

\* /api/fleet goes by X-Tenant-Id, "*" being all; agents not seen for
\* stale_hours are left out unless they are online.
FleetAgents(h, hidesStale) ==
  {a \in Known : /\ h.tenant \in {"*", TenantOf[a]}
                 /\ hidesStale => rows[a] < MaxAge \/ rows[a] < OnlineAge}

\* /api/tenants: one line per tenant.
TenantLines(h) ==
  {[tenant |-> TenantOf[a],
    agents |-> Cardinality({b \in tenantWhere(h) : TenantOf[b] = TenantOf[a]}),
    online |-> Cardinality({b \in tenantWhere(h) : /\ TenantOf[b] = TenantOf[a]
                                                   /\ rows[b] < OnlineAge})] :
     a \in tenantWhere(h)}

\* /api/metrics/fleet, scraped without a token, with the longer age; a
\* default line stands in for an empty fleet.
FleetMetrics ==
  IF Known = {} THEN {[tenant |-> "default", online |-> 0, total |-> 0]}
  ELSE {[tenant |-> t,
         online |-> Cardinality({a \in Known : TenantOf[a] = t /\ rows[a] < AlertAge}),
         total |-> Cardinality({a \in Known : TenantOf[a] = t})] :
          t \in {TenantOf[a] : a \in Known}}

\* Next to its agents /api/fleet tells everybody how many agents every tenant
\* has (and how many commands wait in all of them), and lists the VPS.
FleetTotals ==
  [tenants |-> {[tenant |-> t,
                 agents |-> Cardinality({a \in Known : TenantOf[a] = t})] :
                  t \in {TenantOf[a] : a \in Known}},
   shadow |-> VpsShadow]

\* The agents a request comes to see.  The scraped ages and the attack trees
\* are those of all agents.
Shown(p, h, hidesStale) ==
  CASE p = "/api/fleet" -> FleetAgents(h, hidesStale)
    [] p = "/api/tenants" -> tenantWhere(h)
    [] p \in {"/api/metrics/fleet", "/api/attack-tree"} -> Known
    [] OTHER -> {}

\* /api/data-room verifies the token once more for files that are not public.
dataRoomAuthOk(p, t) == p = "/api/data-room/soak-report.json" => t.left > 0

\* /api/marketplace/signed: with signatures enforced, a package whose
\* signature does not verify is refused.
Marketplace(verified, enforced) == IF enforced /\ ~verified THEN "403" ELSE "ok"

\* What a route or page that is reached answers with, next to the agents.
Body(k, p, h) ==
  CASE p = "/api/tenants" -> TenantLines(h)
    [] p = "/api/fleet" -> FleetTotals
    [] p = "/api/metrics/fleet" -> FleetMetrics
    [] p = "/api/tier" -> tierFeatures
    [] p = "/api/marketplace/signed" ->
         {Marketplace(verified, TRUE) : verified \in BOOLEAN}
    [] p = "/login" -> LoginForm(k)
    [] OTHER -> {}

\* What the browser of an address gets to see.
Answer(k, p, asked, hidesStale) ==
  LET m == middleware(p, cookie[k], asked)
      to == IF m.to = "next" /\ ~dataRoomAuthOk(p, cookie[k]) THEN "401"
            ELSE m.to
  IN  [to |-> to,
       agents |-> IF to = "next" THEN Shown(p, m.headers, hidesStale) ELSE {},
       body |-> IF to = "next" THEN Body(k, p, m.headers) ELSE {}]

\* POST /api/telemetry: the row of the tenant the key belongs to, created or
\* brought up to date.
Telemetry(a) ==
  /\ rows' = [rows EXCEPT ![a] = 0]
  /\ UNCHANGED <<buckets, attempts, cookie>>

-----------------------------------------------------------------------------
(* Surroundings: time, and a restart of the dashboard, which forgets the   *)
(* counters and the requests but not the tokens.                           *)

Tick ==
  /\ buckets' = [k \in Keys |->
       IF buckets[k].left <= 1 THEN [count |-> 0, left |-> 0]
       ELSE [buckets[k] EXCEPT !.left = @ - 1]]
  /\ cookie' = [k \in Keys |-> IF cookie[k].left <= 1 THEN NoToken
                               ELSE [cookie[k] EXCEPT !.left = @ - 1]]
  /\ rows' = [a \in Agents |-> IF rows[a] < MaxAge THEN rows[a] + 1 ELSE rows[a]]
  /\ UNCHANGED attempts

Restart ==
  /\ buckets' = [k \in Keys |-> [count |-> 0, left |-> 0]]
  /\ attempts' = [i \in Logins |-> Free]
  /\ UNCHANGED <<cookie, rows>>

-----------------------------------------------------------------------------
Init ==
  /\ buckets = [k \in Keys |-> [count |-> 0, left |-> 0]]
  /\ attempts = [i \in Logins |-> Free]
  /\ cookie = [k \in Keys |-> NoToken]
  /\ rows = [a \in Agents |-> Absent]

Next ==
  \/ \E i \in Logins, k \in Keys, u \in DOMAIN Users \union {Nobody} :
       checkLoginRateLimit(i, k, u)
  \/ \E i \in Logins : \/ recordLoginFailure(i)
                       \/ signAuthToken(i)
                       \/ LoginThrows(i)
  \/ \E a \in Agents : Telemetry(a)
  \/ Tick
  \/ Restart

Spec == Init /\ [][Next]_vars

\* Time passes.
FairSpec == Spec /\ WF_vars(Tick)

-----------------------------------------------------------------------------
\* Every variable keeps its type.
TypeOK ==
  /\ buckets \in [Keys -> [count : Nat, left : 0..Window]]
  /\ attempts \in [Logins -> {Free} \union
                   [st : {"verify"}, key : Keys, user : DOMAIN Users \union {Nobody}]]
  /\ cookie \in [Keys -> {NoToken} \union
                         [user : DOMAIN Users, left : 1..TokenLife]]
  /\ rows \in [Agents -> 0..Absent]

\* The logins of an address that passed the check and are not decided.
Flying(k) == {i \in Logins : attempts[i].st = "verify" /\ attempts[i].key = k}

\* The limit holds although a login looks at the counter long before it
\* counts: however attempts overlap, a window sees at most the failures
\* allowed and those that were under way when the last of them was let in.
FailuresBounded ==
  \A k \in Keys :
    buckets[k].count + Cardinality(Flying(k)) <= MaxAttempts - 1 + MaxLogins

\* In the two lists that go by tenant (the rows of /api/fleet and the lines
\* of /api/tenants) a user who is no administrator finds the own tenant only,
\* whichever tenant the browser asked for and whoever used it before; without
\* a valid token only the scraped metric names agents, and the form is
\* reachable.  It says nothing of the other answers: the fleet's totals, the
\* attack trees and the scraped metric cover every tenant.
OwnTenantOnly ==
  \A k \in Keys, p \in Paths, asked \in Tenants \union {"*"}, stale \in BOOLEAN :
    LET r == Answer(k, p, asked, stale)
        signedIn == cookie[k].left > 0
        mine(t) == /\ signedIn
                   /\ LET u == Users[cookie[k].user]
                      IN  u.admin \/ u.tenant = t
    IN  /\ p \in {"/api/fleet", "/api/tenants"} =>
             \A a \in r.agents : mine(TenantOf[a])
        /\ p = "/api/tenants" => \A l \in r.body : mine(l.tenant)
        /\ r.agents # {} => signedIn \/ p = "/api/metrics/fleet"
        /\ p = "/login" /\ ~signedIn => r.to = "next"

\* A locked address is let in again, however often it tries meanwhile.
LockoutEnds == \A k \in Keys : Locked(k) ~> ~Locked(k)
=============================================================================
