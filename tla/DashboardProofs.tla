--------------------------- MODULE DashboardProofs ---------------------------
(***************************************************************************)
(* Login and tenants (Access), the live metrics (LiveMetrics), the status  *)
(* panels (OpsPanels) and the board of validation tests (TestsBoard) of    *)
(* the dashboard, each for every value of its constants.                   *)
(*                                                                         *)
(* The four are proved one after the other and never meet: a statement     *)
(* speaks of one of them, from the assumption on its constants alone.      *)
(*                                                                         *)
(* Access: FailuresBounded counts the logins under way with the failures,  *)
(* which makes it inductive but for one thing: the check lets a bypassed   *)
(* address through whatever its counter says, so IInv adds that this       *)
(* counter never moves.                                                    *)
(***************************************************************************)
EXTENDS Access, LiveMetrics, OpsPanels, TestsBoard, FiniteSetTheorems, TLAPS

\* Failures of a bypassed address are not counted.
BypassUncounted == \A k \in Bypass : buckets[k].count = 0

IInv == TypeOK /\ FailuresBounded /\ BypassUncounted

-----------------------------------------------------------------------------
\* Logins in progress are finitely many, at most one per slot.
LEMMA SlotsFinite ==
  ASSUME NEW T \in SUBSET Logins
  PROVE  /\ IsFiniteSet(T)
         /\ Cardinality(T) \in Nat
         /\ Cardinality(T) <= MaxLogins
<1>1. IsFiniteSet(Logins) /\ Cardinality(Logins) = MaxLogins
  BY FS_Interval, AccessAssumption DEF Logins
<1>2. IsFiniteSet(T) /\ Cardinality(T) <= Cardinality(Logins)
  BY <1>1, FS_Subset
<1> QED BY <1>1, <1>2, FS_CardinalityType

(* The logins under way are finitely many, so that they can be counted. *)
LEMMA FlyingFinite ==
  ASSUME NEW k
  PROVE  /\ IsFiniteSet(Flying(k))
         /\ Cardinality(Flying(k)) \in Nat
         /\ Cardinality(Flying(k)) <= MaxLogins
<1>1. Flying(k) \in SUBSET Logins
  BY DEF Flying
<1> QED BY <1>1, SlotsFinite

\* What a window that may be over counts: no more than what is stored.
LEMMA BucketType ==
  ASSUME TypeOK, NEW k \in Keys
  PROVE  /\ Bucket(k) \in [count : Nat, left : 0 .. Window]
         /\ Bucket(k).count <= buckets[k].count
  BY AccessAssumption DEF TypeOK, Bucket

\* A login that is decided leaves its slot to nobody.
LEMMA FlyingFreed ==
  ASSUME TypeOK, NEW i \in Logins, attempts[i].st = "verify",
         attempts' = [attempts EXCEPT ![i] = Free], NEW k \in Keys
  PROVE  /\ Cardinality(Flying(k)') \in Nat
         /\ Cardinality(Flying(k)') =
              IF attempts[i].key = k THEN Cardinality(Flying(k)) - 1
              ELSE Cardinality(Flying(k))
<1>1. Flying(k)' = Flying(k) \ {i}
  BY DEF Flying, TypeOK, Free
<1>2. i \in Flying(k) <=> attempts[i].key = k
  BY DEF Flying
<1>3. /\ IsFiniteSet(Flying(k) \ {i})
      /\ Cardinality(Flying(k) \ {i}) =
           IF i \in Flying(k) THEN Cardinality(Flying(k)) - 1
           ELSE Cardinality(Flying(k))
  BY FlyingFinite, FS_RemoveElement
<1> QED BY <1>1, <1>2, <1>3, FS_CardinalityType

-----------------------------------------------------------------------------
\* Types.
LEMMA InitType == Init => TypeOK
  BY AccessAssumption DEF Init, TypeOK, Absent

(* Every step keeps the types. *)
LEMMA NextType == TypeOK /\ [Next]_vars => TypeOK'
<1> SUFFICES ASSUME TypeOK, [Next]_vars PROVE TypeOK'
  OBVIOUS
<1>1. ASSUME NEW i \in Logins, NEW k \in Keys,
             NEW u \in DOMAIN Users \union {Nobody}, checkLoginRateLimit(i, k, u)
      PROVE  TypeOK'
  <2>1. Checked(k) \in [count : Nat, left : 0 .. Window]
    BY BucketType DEF Checked, TypeOK
  <2>2. buckets' \in [Keys -> [count : Nat, left : 0 .. Window]]
    BY <1>1, <2>1 DEF checkLoginRateLimit, TypeOK
  <2>3. attempts' \in [Logins -> {Free} \union
          [st : {"verify"}, key : Keys, user : DOMAIN Users \union {Nobody}]]
    BY <1>1 DEF checkLoginRateLimit, TypeOK
  <2> QED BY <1>1, <2>2, <2>3 DEF checkLoginRateLimit, TypeOK
<1>2. ASSUME NEW i \in Logins, recordLoginFailure(i) PROVE TypeOK'
  <2>1. attempts[i].key \in Keys
    BY <1>2 DEF recordLoginFailure, TypeOK, Free
  <2>2. Bucket(attempts[i].key) \in [count : Nat, left : 0 .. Window]
    BY <2>1, BucketType
  <2>3. buckets' \in [Keys -> [count : Nat, left : 0 .. Window]]
    BY <1>2, <2>1, <2>2 DEF recordLoginFailure, TypeOK
  <2>4. attempts' \in [Logins -> {Free} \union
          [st : {"verify"}, key : Keys, user : DOMAIN Users \union {Nobody}]]
    BY <1>2 DEF recordLoginFailure, TypeOK
  <2> QED BY <1>2, <2>3, <2>4 DEF recordLoginFailure, TypeOK
<1>3. ASSUME NEW i \in Logins, signAuthToken(i) PROVE TypeOK'
  <2>1. /\ attempts[i].key \in Keys
        /\ attempts[i].user \in DOMAIN Users
    BY <1>3 DEF signAuthToken, TypeOK, Free
  <2>2. cookie' \in [Keys -> {NoToken} \union
                             [user : DOMAIN Users, left : 1 .. TokenLife]]
    BY <1>3, <2>1, AccessAssumption DEF signAuthToken, TypeOK
  <2>3. attempts' \in [Logins -> {Free} \union
          [st : {"verify"}, key : Keys, user : DOMAIN Users \union {Nobody}]]
    BY <1>3 DEF signAuthToken, TypeOK
  <2> QED BY <1>3, <2>2, <2>3 DEF signAuthToken, TypeOK
<1>4. ASSUME NEW i \in Logins, LoginThrows(i) PROVE TypeOK'
  BY <1>4 DEF LoginThrows, TypeOK
<1>5. ASSUME NEW a \in Agents, Telemetry(a) PROVE TypeOK'
  BY <1>5, AccessAssumption DEF Telemetry, TypeOK, Absent
<1>6. CASE Tick
  <2>1. buckets' \in [Keys -> [count : Nat, left : 0 .. Window]]
    BY <1>6, AccessAssumption DEF Tick, TypeOK
  <2>2. cookie' \in [Keys -> {NoToken} \union
                             [user : DOMAIN Users, left : 1 .. TokenLife]]
    <3>1. ASSUME NEW k \in Keys, ~(cookie[k].left <= 1)
          PROVE  [cookie[k] EXCEPT !.left = @ - 1]
                   \in [user : DOMAIN Users, left : 1 .. TokenLife]
      BY <3>1, AccessAssumption DEF TypeOK, NoToken
    <3> QED BY <1>6, <3>1 DEF Tick
  <2>3. rows' \in [Agents -> 0 .. Absent]
    BY <1>6, AccessAssumption DEF Tick, TypeOK, Absent
  <2> QED BY <1>6, <2>1, <2>2, <2>3 DEF Tick, TypeOK
<1>7. CASE Restart
  BY <1>7, AccessAssumption DEF Restart, TypeOK
<1>8. CASE UNCHANGED vars
  BY <1>8 DEF vars, TypeOK
<1> QED BY <1>1, <1>2, <1>3, <1>4, <1>5, <1>6, <1>7, <1>8 DEF Next

\* The login route, the middleware's tokens and the telemetry keep their
\* types whatever the limit and the clients.
THEOREM TypeCorrect == Spec => []TypeOK
  BY InitType, NextType, PTL DEF Spec

-----------------------------------------------------------------------------
\* The limit.
LEMMA InitBounded == Init => IInv
<1> SUFFICES ASSUME Init PROVE IInv
  OBVIOUS
<1>1. ASSUME NEW k \in Keys
      PROVE  buckets[k].count + Cardinality(Flying(k))
               <= MaxAttempts - 1 + MaxLogins
  <2>1. buckets[k].count = 0
    BY DEF Init
  <2> QED BY <2>1, FlyingFinite, AccessAssumption
<1>2. BypassUncounted
  BY AccessAssumption DEF Init, BypassUncounted
<1> QED BY <1>1, <1>2, InitType DEF IInv, FailuresBounded

(* Every step keeps failures and logins under way within the bound. *)
LEMMA NextBounded == IInv /\ [Next]_vars => IInv'
<1> SUFFICES ASSUME IInv, [Next]_vars PROVE IInv'
  OBVIOUS
<1>t. TypeOK /\ TypeOK'
  BY NextType DEF IInv
<1>n. \A k \in Keys : /\ Cardinality(Flying(k)) \in Nat
                      /\ buckets[k].count \in Nat
                      /\ buckets'[k].count \in Nat
  BY <1>t, FlyingFinite DEF TypeOK
<1>m. ASSUME NEW k PROVE /\ Cardinality(Flying(k)') \in Nat
                         /\ Cardinality(Flying(k)') <= MaxLogins
  <2>1. Flying(k)' \in SUBSET Logins
    BY DEF Flying
  <2> QED BY <2>1, SlotsFinite
<1> DEFINE Within(k) ==
      buckets'[k].count + Cardinality(Flying(k)') <= MaxAttempts - 1 + MaxLogins
<1>0. ASSUME \A k \in Keys : Within(k),
             \A k \in Bypass : buckets'[k].count = 0
      PROVE  IInv'
  BY <1>t, <1>0 DEF IInv, FailuresBounded, BypassUncounted
<1>old. \A k \in Keys :
          buckets[k].count + Cardinality(Flying(k)) <= MaxAttempts - 1 + MaxLogins
  BY DEF IInv, FailuresBounded
<1>u. \A k \in Bypass : k \in Keys /\ buckets[k].count = 0
  BY AccessAssumption DEF IInv, BypassUncounted
\* The check lets a login in only while the counter is below the limit, and
\* then all the slots together are what may still fail.
<1>1. ASSUME NEW i \in Logins, NEW j \in Keys,
             NEW u \in DOMAIN Users \union {Nobody}, checkLoginRateLimit(i, j, u)
      PROVE  IInv'
  <2>1. Checked(j).count <= buckets[j].count
    BY <1>t, <1>n, BucketType DEF Checked
  <2>2. buckets'[j] = Checked(j) /\ \A k \in Keys \ {j} : buckets'[k] = buckets[k]
    BY <1>1, <1>t DEF checkLoginRateLimit, TypeOK
  <2>3. ASSUME NEW k \in Bypass PROVE buckets'[k].count = 0
    <3>1. CASE k = j
      BY <3>1, <2>1, <2>2, <1>n, <1>u
    <3>2. CASE k # j
      BY <3>2, <2>2, <1>u
    <3> QED BY <3>1, <3>2
  <2>4. ASSUME NEW k \in Keys PROVE Within(k)
    <3>1. CASE attempts' = attempts
      <4>1. Flying(k)' = Flying(k)
        BY <3>1 DEF Flying
      <4>2. buckets'[k].count <= buckets[k].count
        BY <2>1, <2>2, <1>n
      <4> QED BY <4>1, <4>2, <1>n, <1>old, AccessAssumption
    <3>2. CASE k # j
      <4>1. Flying(k)' = Flying(k)
        BY <1>1, <1>t, <3>2 DEF Flying, checkLoginRateLimit, TypeOK, Free
      <4>2. buckets'[k] = buckets[k]
        BY <2>2, <3>2
      <4> QED BY <4>1, <4>2, <1>old
    <3>3. CASE k = j /\ attempts' # attempts
      <4>1. ~Locked(j)
        BY <1>1, <3>3 DEF checkLoginRateLimit
      <4>2. Checked(j).count <= MaxAttempts - 1
        <5>1. CASE j \in Bypass
          BY <5>1, <2>1, <2>2, <1>n, <1>u, AccessAssumption
        <5>2. CASE j \notin Bypass
          BY <5>2, <4>1, <1>t, BucketType, AccessAssumption DEF Locked, Checked
        <5> QED BY <5>1, <5>2
      <4>3. Cardinality(Flying(j)') \in Nat /\ Cardinality(Flying(j)') <= MaxLogins
        BY <1>m
      <4> QED BY <3>3, <4>2, <4>3, <2>2, <1>n, AccessAssumption
    <3> QED BY <3>1, <3>2, <3>3
  <2> QED BY <2>3, <2>4, <1>0
\* A failure takes the place of the login that was under way.
<1>2. ASSUME NEW i \in Logins, recordLoginFailure(i) PROVE IInv'
  <2> DEFINE j == attempts[i].key
  <2>1. /\ j \in Keys /\ attempts[i].st = "verify"
        /\ attempts' = [attempts EXCEPT ![i] = Free]
    BY <1>2, <1>t DEF recordLoginFailure, TypeOK, Free
  <2>2. \A k \in Keys \ {j} : buckets'[k] = buckets[k]
    BY <1>2, <1>t DEF recordLoginFailure, TypeOK
  <2>3. j \in Bypass => buckets' = buckets
    BY <1>2 DEF recordLoginFailure
  <2>4. buckets'[j].count <= buckets[j].count + 1
    <3>1. CASE j \in Bypass
      BY <3>1, <2>1, <2>3, <1>n
    <3>2. CASE j \notin Bypass
      <4>1. buckets'[j].count = Bucket(j).count + 1
        BY <1>2, <3>2, <2>1, <1>t, BucketType DEF recordLoginFailure, TypeOK
      <4> QED BY <4>1, <2>1, <1>n, <1>t, BucketType
    <3> QED BY <3>1, <3>2
  <2>5. ASSUME NEW k \in Keys PROVE Within(k)
    <3>1. /\ Cardinality(Flying(k)') \in Nat
          /\ Cardinality(Flying(k)') = IF j = k THEN Cardinality(Flying(k)) - 1
                                       ELSE Cardinality(Flying(k))
      BY <2>1, <1>t, FlyingFreed
    <3> HIDE DEF j
    <3> QED BY <3>1, <2>2, <2>4, <1>n, <1>old, AccessAssumption
  <2>6. ASSUME NEW k \in Bypass PROVE buckets'[k].count = 0
    BY <2>2, <2>3, <1>u
  <2> QED BY <2>5, <2>6, <1>0
\* A login that ends without a failure.
<1>3. ASSUME NEW i \in Logins, signAuthToken(i) \/ LoginThrows(i) PROVE IInv'
  <2>1. /\ attempts[i].st = "verify" /\ buckets' = buckets
        /\ attempts' = [attempts EXCEPT ![i] = Free]
    BY <1>3 DEF signAuthToken, LoginThrows
  <2>2. ASSUME NEW k \in Keys PROVE Within(k)
    <3>1. /\ Cardinality(Flying(k)') \in Nat
          /\ Cardinality(Flying(k)') <= Cardinality(Flying(k))
      <4>1. Cardinality(Flying(k)') =
              IF attempts[i].key = k THEN Cardinality(Flying(k)) - 1
              ELSE Cardinality(Flying(k))
        BY <2>1, <1>t, FlyingFreed
      <4> QED BY <4>1, <1>m, <1>n
    <3> QED BY <3>1, <2>1, <1>n, <1>old, AccessAssumption
  <2> QED BY <2>1, <2>2, <1>0, <1>u
\* Steps that start no login and raise no counter.
<1>4. ASSUME \A k \in Keys : Flying(k)' = Flying(k),
             \A k \in Keys : buckets'[k].count <= buckets[k].count
      PROVE  IInv'
  <2>1. ASSUME NEW k \in Keys PROVE Within(k)
    BY <1>4, <1>n, <1>old, AccessAssumption
  <2>2. ASSUME NEW k \in Bypass PROVE buckets'[k].count = 0
    BY <1>4, <1>n, <1>u
  <2> QED BY <2>1, <2>2, <1>0
<1>5. ASSUME NEW a \in Agents, Telemetry(a) PROVE IInv'
  <2>1. \A k \in Keys : Flying(k)' = Flying(k)
    BY <1>5 DEF Telemetry, Flying
  <2>2. \A k \in Keys : buckets'[k].count <= buckets[k].count
    BY <1>5, <1>n DEF Telemetry
  <2> QED BY <2>1, <2>2, <1>4
<1>6. CASE Tick
  <2>1. \A k \in Keys : Flying(k)' = Flying(k)
    BY <1>6 DEF Tick, Flying
  <2>2. ASSUME NEW k \in Keys PROVE buckets'[k].count <= buckets[k].count
    BY <1>6, <1>t, <1>n DEF Tick, TypeOK
  <2> QED BY <2>1, <2>2, <1>4
<1>7. CASE Restart
  <2>1. ASSUME NEW k \in Keys PROVE Within(k)
    <3>1. buckets'[k].count = 0
      BY <1>7 DEF Restart
    <3>2. Cardinality(Flying(k)') \in Nat /\ Cardinality(Flying(k)') <= MaxLogins
      BY <1>m
    <3> QED BY <3>1, <3>2, AccessAssumption
  <2>2. \A k \in Bypass : buckets'[k].count = 0
    BY <1>7, AccessAssumption DEF Restart
  <2> QED BY <2>1, <2>2, <1>0
<1>8. CASE UNCHANGED vars
  <2>1. \A k \in Keys : Flying(k)' = Flying(k)
    BY <1>8 DEF vars, Flying
  <2>2. \A k \in Keys : buckets'[k].count <= buckets[k].count
    BY <1>8, <1>n DEF vars
  <2> QED BY <2>1, <2>2, <1>4
<1> QED BY <1>1, <1>2, <1>3, <1>5, <1>6, <1>7, <1>8 DEF Next

\* However the logins of an address overlap, a window sees at most the
\* failures allowed and those that were under way when the last was let in
\* (checkLoginRateLimit before the awaits, recordLoginFailure after them).
THEOREM LimitHolds == Spec => []FailuresBounded
<1>1. IInv => FailuresBounded
  BY DEF IInv
<1> QED BY <1>1, InitBounded, NextBounded, PTL DEF Spec

-----------------------------------------------------------------------------
\* Tenants.  What follows is about the answer to any one request.

\* A request that reaches the fleet, the tenants or the trees has a valid
\* token, and headers made from it.
LEMMA ReachedWithToken ==
  ASSUME NEW p, NEW t, NEW asked,
         p \in {"/api/fleet", "/api/tenants", "/api/attack-tree"},
         middleware(p, t, asked).to = "next"
  PROVE  t.left # 0 /\ middleware(p, t, asked).headers = Headers(t, asked)
  BY DEF middleware, isPublic, isApiRoute

\* Those headers let a user see the agents of the own tenant.
LEMMA HeadersConfine ==
  ASSUME NEW t, t.user \in DOMAIN Users, NEW asked, NEW stale \in BOOLEAN,
         NEW a \in tenantWhere(Headers(t, asked))
                     \union FleetAgents(Headers(t, asked), stale)
  PROVE  Users[t.user].admin \/ Users[t.user].tenant = TenantOf[a]
  BY AccessAssumption DEF Headers, tenantWhere, FleetAgents

\* With the types right, no list shows another tenant.
LEMMA AnswersConfined == TypeOK => OwnTenantOnly
<1> SUFFICES ASSUME TypeOK, NEW k \in Keys, NEW p \in Paths,
                    NEW asked \in Tenants \union {"*"}, NEW stale \in BOOLEAN
             PROVE  LET r == Answer(k, p, asked, stale)
                        signedIn == cookie[k].left > 0
                        mine(t) == /\ signedIn
                                   /\ LET u == Users[cookie[k].user]
                                      IN  u.admin \/ u.tenant = t
                    IN  /\ p \in {"/api/fleet", "/api/tenants"} =>
                             \A a \in r.agents : mine(TenantOf[a])
                        /\ p = "/api/tenants" => \A l \in r.body : mine(l.tenant)
                        /\ r.agents # {} => signedIn \/ p = "/api/metrics/fleet"
                        /\ p = "/login" /\ ~signedIn => r.to = "next"
  BY DEF OwnTenantOnly
<1> DEFINE r == Answer(k, p, asked, stale)
           m == middleware(p, cookie[k], asked)
           mine(t) == /\ cookie[k].left > 0
                      /\ \/ Users[cookie[k].user].admin
                         \/ Users[cookie[k].user].tenant = t
<1>1. /\ cookie[k].left # 0 =>
           cookie[k].user \in DOMAIN Users /\ cookie[k].left > 0
      /\ ~(cookie[k].left > 0) => cookie[k].left = 0
  BY AccessAssumption DEF TypeOK, NoToken
<1>2. ASSUME p \in {"/api/fleet", "/api/tenants"}, NEW a \in r.agents
      PROVE  mine(TenantOf[a])
  <2>1. m.to = "next" /\ a \in Shown(p, m.headers, stale)
    BY <1>2 DEF Answer
  <2>2. a \in tenantWhere(m.headers) \union FleetAgents(m.headers, stale)
    BY <1>2, <2>1 DEF Shown
  <2>3. cookie[k].left # 0 /\ m.headers = Headers(cookie[k], asked)
    BY <1>2, <2>1, ReachedWithToken
  <2> QED BY <2>2, <2>3, <1>1, HeadersConfine
<1>5. ASSUME NEW a \in r.agents, p # "/api/metrics/fleet"
      PROVE  cookie[k].left > 0
  <2>1. m.to = "next" /\ a \in Shown(p, m.headers, stale)
    BY <1>5 DEF Answer
  <2>2. p \in {"/api/fleet", "/api/tenants", "/api/attack-tree"}
    BY <1>5, <2>1 DEF Shown
  <2> QED BY <2>1, <2>2, <1>1, ReachedWithToken
<1>3. ASSUME p = "/api/tenants", NEW l \in r.body PROVE mine(l.tenant)
  <2>0. m.to = "next" /\ l \in Body(k, p, m.headers)
    BY <1>3 DEF Answer
  <2>1. l \in TenantLines(m.headers)
    BY <1>3, <2>0 DEF Body
  <2>2. cookie[k].left # 0 /\ m.headers = Headers(cookie[k], asked)
    BY <1>3, <2>0, ReachedWithToken
  <2>3. PICK a \in tenantWhere(m.headers) : l.tenant = TenantOf[a]
    <3>1. PICK a \in tenantWhere(m.headers) :
            l = [tenant |-> TenantOf[a],
                 agents |-> Cardinality({b \in tenantWhere(m.headers) :
                                           TenantOf[b] = TenantOf[a]}),
                 online |-> Cardinality({b \in tenantWhere(m.headers) :
                                           /\ TenantOf[b] = TenantOf[a]
                                           /\ rows[b] < OnlineAge})]
      BY <2>1, Zenon DEF TenantLines
    <3> QED BY <3>1
  <2> QED BY <2>2, <2>3, <1>1, HeadersConfine
<1>4. ASSUME p = "/login", cookie[k].left = 0 PROVE r.to = "next"
  BY <1>4 DEF Answer, middleware, isPublic, tierBlocked, isEnterpriseRoute,
              isProRoute, dataRoomAuthOk
<1> QED BY <1>1, <1>2, <1>3, <1>4, <1>5

\* Whoever used the browser before and whichever tenant it asks for, a user
\* who is no administrator finds the own tenant only in the rows of the fleet
\* and in the lines of the tenants (the header forced by the middleware, the
\* filters of /api/fleet and /api/tenants).
THEOREM TenantsConfined == Spec => []OwnTenantOnly
  BY TypeCorrect, AnswersConfined, PTL

-----------------------------------------------------------------------------
(***************************************************************************)
(* The live metrics.  Requests overlap, and only the answer to the newest  *)
(* is used; the charts are right because that request is always for the    *)
(* present selection (LiveNewest), because an answer, the cached one       *)
(* included, is for the selection it was asked for (LiveServed), and       *)
(* because all that was accumulated was asked for with the present         *)
(* selection (LiveShown).  The peak needs the largest rate of the session  *)
(* to be one that was reported, unless the counter jumped (LivePeak).      *)
(***************************************************************************)

\* What a route may answer: the source is named exactly when something was
\* reached, a series is of the selection and the tenant asked for, and the
\* figures are that tenant's or the analyzer's.
LiveFields ==
  [reachable : BOOLEAN, source : {"none", "direct", "prometheus"},
   sel : Selections, of : MetricTenants, own : BOOLEAN, stats : Stats,
   pts : Seq(Points)]

OwnPoint(s) == [sel |-> s, of |-> s.tenant]

LiveBodies ==
  {b \in LiveFields :
     /\ b.reachable <=> b.source # "none"
     /\ b.of \in {b.sel.tenant, GuardTenant}
     /\ b.pts \in {<<>>, <<OwnPoint(b.sel), OwnPoint(b.sel)>>}
     /\ b.pts # <<>> => b.reachable}

LiveRequests ==
  [st : {"sent", "prom", "direct", "ready", "denied", "failed"},
   sel : Selections, smoke : Rates \union {-1},
   body : {Nothing} \union LiveBodies]

LiveGuards ==
  [up : BOOLEAN, eps : Rates, peak : Rates, lines : Rates]

\* The route: what is cached and what is under way was computed for the
\* selection it carries; only a refused request has no smoke report.
LiveServed ==
  /\ guard \in LiveGuards /\ smoke \in Rates
  /\ cache # Nothing => cache \in LiveBodies /\ cache.reachable
  /\ flight \in [Slots -> {Idle} \union LiveRequests]
  /\ \A i \in Slots :
       /\ flight[i].st \in {"prom", "direct", "ready"}
            => flight[i].smoke \in Rates
       /\ flight[i].st = "ready" => /\ flight[i].body # Nothing
                                    /\ flight[i].body.sel = flight[i].sel

\* The component: it waits exactly while the newest request is under way, and
\* that request is for what is selected.
LiveNewest ==
  /\ sel \in Selections /\ newest \in Slots \union {0}
  /\ loading \in BOOLEAN /\ (loading <=> newest # 0)
  /\ newest # 0 => flight[newest] # Idle /\ flight[newest].sel = sel

\* A point that may be accumulated under a selection.
Askable(s) == {p \in Points : p.sel = s /\ p.of \in {s.tenant, GuardTenant}}

\* The accumulated history, and what is shown while nothing is awaited.
LiveShown ==
  /\ hist \in Seq(Points) /\ Len(hist) <= LiveMax
  /\ \A k \in DOMAIN hist : hist[k] \in Askable(sel)
  /\ ~loading =>
       /\ data.pts = hist \/ \A k \in DOMAIN data.pts : data.pts[k] = OwnPoint(sel)
       /\ data.pts # <<>> => data.reachable /\ data.source # "none"

\* The largest rate is no less than those reported, and one of them, unless
\* the counter jumped.
LivePeak ==
  /\ seen \subseteq Rates /\ epsSmoke \in Rates /\ jumped \in BOOLEAN
  /\ prevLines # Nothing => prevLines \in [n : Rates, own : BOOLEAN]
  /\ peak \in Rates /\ (peak \in seen \/ jumped) /\ \A r \in seen : r <= peak
  /\ ~loading /\ data.reachable =>
       data.stats.eps_live \in Rates
       /\ (data.stats.eps_live = 0 => data.stats.eps = peak)

LiveInv ==
  /\ LiveServed /\ LiveNewest /\ LiveShown /\ LivePeak
  /\ events \in 0..MaxEvents

-----------------------------------------------------------------------------
\* The bounds of the rates, and the statistics that are none.
LEMMA LiveRates ==
  /\ 0 \in Rates /\ 1 \in Rates /\ MaxRate \in Rates
  /\ NoStats \in Stats /\ Scraped \in Stats
  /\ Rates \subseteq Int /\ -1 \notin Rates
  BY LiveMetricsAssumption DEF Rates, Stats, NoStats

\* The parser finds nothing or one rate: the first of the lines that fit.
LEMMA LiveGauge ==
  ASSUME guard \in LiveGuards, NEW m, NEW T
  PROVE  \/ parsePrometheusGauge(Exposition, m, T) = {}
         \/ \E v \in Rates :
              parsePrometheusGauge(Exposition, m, T) = {v}
<1> DEFINE body == Exposition
           Fits(k) == IsPrefix(m, body[k].name) /\ body[k].tenant \in T
           First(k) == Fits(k) /\ \A j \in 1..(k - 1) : ~Fits(j)
           hits == {j \in DOMAIN body : First(j)}
<1>1. /\ DOMAIN body = 1..3
      /\ \A k \in 1..3 : body[k].v \in Rates
  BY DEF Exposition, LiveGuards
<1>2. parsePrometheusGauge(Exposition, m, T) = {body[k].v : k \in hits}
  BY DEF parsePrometheusGauge
<1>3. \A j, k \in hits : j = k
  <2> SUFFICES ASSUME NEW j \in hits, NEW k \in hits, j < k PROVE FALSE
    BY <1>1
  <2>1. j \in 1..(k - 1) /\ Fits(j) /\ First(k)
    BY <1>1
  <2> HIDE DEF Fits
  <2> QED BY <2>1
<1>4. hits \subseteq 1..3
  BY <1>1
<1> HIDE DEF hits, body
<1>5. CASE hits = {}
  BY <1>2, <1>5
<1>6. CASE hits # {}
  <2>1. PICK k \in hits : TRUE
    BY <1>6
  <2>2. {body[i].v : i \in hits} = {body[k].v}
    BY <2>1, <1>3
  <2> QED BY <2>1, <2>2, <1>1, <1>2, <1>4
<1> QED BY <1>5, <1>6

\* What is parsed of the analyzer's text is a record of rates.
LEMMA LiveMetric ==
  ASSUME guard \in LiveGuards
  PROVE  parseGuardianMetrics \in Stats
<1>1. ASSUME NEW m PROVE GuardianMetric(m) \in Rates
  <2> DEFINE own == parsePrometheusGauge(Exposition, m, {MetricsTenant})
             any == parsePrometheusGauge(Exposition, m, MetricTenants)
             S == IF own # {} THEN own ELSE IF any # {} THEN any ELSE {0}
  <2>1. \E v \in Rates : S = {v}
    BY LiveGauge, LiveRates
  <2>2. GuardianMetric(m) = CHOOSE v \in S : TRUE
    BY DEF GuardianMetric
  <2> HIDE DEF S
  <2> QED BY <2>1, <2>2
<1>2. parseGuardianMetrics =
        [eps |-> GuardianMetric(MetricName.eps),
         eps_peak |-> GuardianMetric(MetricName.eps_peak),
         lines |-> GuardianMetric(MetricName.lines)]
  BY DEF parseGuardianMetrics, MetricName
<1> QED BY <1>1, <1>2 DEF Stats

\* So is what is merged with what Prometheus scraped.
LEMMA LivePromStats ==
  ASSUME guard \in LiveGuards, NEW t
  PROVE  PromStats(t) \in Stats
<1>1. tenantExpr(t) \in Stats
  BY LiveRates DEF tenantExpr
<1>2. ASSUME NEW p \in Stats, NEW l \in Stats
      PROVE  MergeLive(p, l) \in Stats
  <2>1. DOMAIN p = {"eps", "eps_peak", "lines"}
    BY DEF Stats
  <2>2. MergeLive(p, l) =
          [eps |-> Larger(p.eps, l.eps),
           eps_peak |-> Larger(p.eps_peak, l.eps_peak),
           lines |-> Larger(p.lines, l.lines)]
    BY <2>1 DEF MergeLive
  <2> QED BY <2>2 DEF Larger, Stats
<1> QED BY <1>1, <1>2, LiveMetric DEF PromStats

-----------------------------------------------------------------------------
(* The steps of the route.                                                 *)

\* The invariant holds when the component was just mounted.
LEMMA LiveInitInv ==
  ASSUME LiveInit
  PROVE  LiveInv
<1> USE LiveRates DEF LiveInit, MetricsRequest, Idle, Nothing
<1>1. sel \in Selections
  BY LiveMetricsAssumption DEF Selections
<1>2. flight \in [Slots -> {Idle} \union LiveRequests]
  BY <1>1 DEF LiveRequests
<1>3. LiveServed
  BY <1>2 DEF LiveServed, LiveGuards
<1>4. LiveNewest
  BY <1>1, LiveMetricsAssumption DEF LiveNewest, Slots
<1>5. LiveShown
  BY LiveMetricsAssumption DEF LiveShown
<1>6. LivePeak
  <2>1. /\ seen = {0} /\ jumped = FALSE /\ peak = 0 /\ epsSmoke = 0 /\ loading = TRUE
        /\ prevLines = Nothing
    OBVIOUS
  <2>2. seen \subseteq Rates /\ epsSmoke \in Rates /\ peak \in Rates
    BY <2>1
  <2>3. peak \in seen /\ \A r \in seen : r <= peak
    BY <2>1
  <2>4. jumped \in BOOLEAN
    BY <2>1
  <2> QED BY <2>1, <2>2, <2>3, <2>4 DEF LivePeak
<1> QED BY <1>3, <1>4, <1>5, <1>6, LiveMetricsAssumption DEF LiveInv

\* A request that goes on, whatever its next stage, is still for what it was
\* sent for.
LEMMA LiveRequestMoves ==
  ASSUME LiveInv, NEW i \in Slots, NEW r \in LiveRequests,
         flight[i] # Idle, r.sel = flight[i].sel,
         r.st \in {"prom", "direct", "ready"} => r.smoke \in Rates,
         r.st = "ready" => r.body # Nothing /\ r.body.sel = r.sel,
         flight' = [flight EXCEPT ![i] = r],
         cache' # Nothing => cache' \in LiveBodies /\ cache'.reachable,
         UNCHANGED <<guard, prom, smoke, auth, sel, newest, loading, data,
                     hist, prevLines, peak, epsSmoke, seen, jumped>>,
         events' \in 0..MaxEvents
  PROVE  LiveInv'
<1>1. flight' \in [Slots -> {Idle} \union LiveRequests]
  BY DEF LiveInv, LiveServed
<1>2. r # Idle
  BY DEF LiveRequests, Idle
<1>3. ASSUME NEW j \in Slots
      PROVE  flight'[j] = IF j = i THEN r ELSE flight[j]
  BY DEF LiveInv, LiveServed
<1>4. LiveServed'
  BY <1>1, <1>3 DEF LiveInv, LiveServed, Slots, Rates, LiveGuards
<1>5. LiveNewest'
  BY <1>2, <1>3 DEF LiveInv, LiveNewest
<1>6. LiveShown'
  BY DEF LiveInv, LiveShown
<1>7. LivePeak'
  BY DEF LiveInv, LivePeak
<1> QED BY <1>4, <1>5, <1>6, <1>7 DEF LiveInv

\* ServeStart: the cached answer is for the selection that is asked for.
LEMMA LiveServeStart ==
  ASSUME LiveInv,
         NEW i \in Slots, ServeStart(i)
  PROVE  LiveInv'
<1> DEFINE f == flight[i]
           hit == cache # Nothing /\ cache.sel = f.sel
           r == [st |-> IF ~auth THEN "denied" ELSE IF hit THEN "ready"
                        ELSE IF prom THEN "prom" ELSE "direct",
                 sel |-> f.sel, smoke |-> IF auth THEN smoke ELSE -1,
                 body |-> IF auth /\ hit THEN cache ELSE Nothing]
<1>1. f \in LiveRequests
  BY DEF LiveInv, LiveServed, ServeStart, Idle
<1>2. f # Idle
  BY <1>1 DEF LiveRequests, Idle
<1>3. r \in LiveRequests
  BY <1>1 DEF LiveInv, LiveServed, LiveRequests
<1>4. /\ r.st \in {"prom", "direct", "ready"} => r.smoke \in Rates
      /\ r.st = "ready" => r.body # Nothing /\ r.body.sel = r.sel
  BY DEF LiveInv, LiveServed
<1>5. flight' = [flight EXCEPT ![i] = r]
  BY DEF ServeStart
<1> HIDE DEF r
<1> QED BY <1>1, <1>2, <1>3, <1>4, <1>5, LiveRequestMoves
        DEF r, ServeStart, sources, client, LiveInv, LiveServed

\* The route has its answer.
LEMMA LiveRequestReady ==
  ASSUME LiveInv, NEW i \in Slots,
         flight[i].st \in {"prom", "direct"}, NEW b \in LiveBodies,
         b.sel = flight[i].sel,
         flight' = [flight EXCEPT ![i].st = "ready", ![i].body = b],
         cache' # Nothing => cache' \in LiveBodies /\ cache'.reachable,
         UNCHANGED <<guard, prom, smoke, auth, sel, newest, loading, data,
                     hist, prevLines, peak, epsSmoke, seen, jumped, events>>
  PROVE  LiveInv'
<1> DEFINE r == [flight[i] EXCEPT !.st = "ready", !.body = b]
<1>1. flight[i] \in LiveRequests
  BY DEF LiveInv, LiveServed, Idle
<1>2. flight[i] # Idle
  BY <1>1 DEF LiveRequests, Idle
<1>3. r \in LiveRequests /\ r.sel = flight[i].sel /\ r.body = b
      /\ r.smoke = flight[i].smoke
  BY <1>1 DEF LiveRequests
<1>4. b # Nothing
  BY DEF LiveBodies, LiveFields, Nothing
<1>5. flight' = [flight EXCEPT ![i] = r]
  BY <1>1 DEF LiveInv, LiveServed, LiveRequests
<1>6. r.smoke \in Rates
  BY <1>3 DEF LiveInv, LiveServed
<1>7. events' \in 0..MaxEvents
  BY DEF LiveInv
<1>8. UNCHANGED <<guard, prom, smoke, auth, sel, newest, loading, data,
                  hist, prevLines, peak, epsSmoke, seen, jumped>>
  OBVIOUS
<1>9. r.st = "ready" => r.body # Nothing /\ r.body.sel = r.sel
  BY <1>3, <1>4
<1> HIDE DEF r
<1> QED BY <1>2, <1>3, <1>5, <1>6, <1>7, <1>8, <1>9, LiveRequestMoves

\* A body is one that a route may answer.
LEMMA LiveBodyOf ==
  ASSUME NEW s \in Selections, NEW st \in Stats,
         NEW source \in {"none", "direct", "prometheus"},
         NEW of \in {s.tenant, GuardTenant}, NEW own \in BOOLEAN,
         NEW pts \in {<<>>, <<OwnPoint(s), OwnPoint(s)>>},
         pts # <<>> => source # "none"
  PROVE  LET b == MetricsBody(s, source, of, own, st, pts)
         IN  /\ b \in LiveBodies /\ b.sel = s
             /\ b.reachable <=> source # "none"
<1> DEFINE b == MetricsBody(s, source, of, own, st, pts)
<1>0. OwnPoint(s) \in Points /\ of \in MetricTenants
  BY LiveMetricsAssumption DEF OwnPoint, Points, Selections
<1>1. pts \in Seq(Points)
  <2>1. <<>> \in Seq(Points) /\ <<OwnPoint(s), OwnPoint(s)>> \in Seq(Points)
    BY <1>0
  <2> QED BY <2>1
<1>2. PICK r \in BOOLEAN : r = (source # "none")
  OBVIOUS
<1>3. b = [reachable |-> r, source |-> source, sel |-> s, of |-> of,
           own |-> own, stats |-> st, pts |-> pts]
  BY <1>2 DEF MetricsBody
<1> HIDE DEF b
<1>4. b \in LiveFields
  BY <1>0, <1>1, <1>3 DEF LiveFields
<1>5. /\ b.reachable = r /\ b.source = source /\ b.sel = s /\ b.pts = pts
      /\ b.of = of
  BY <1>3
<1>6. b.reachable <=> source # "none"
  BY <1>2, <1>5
<1>7. b \in LiveBodies
  BY <1>4, <1>5, <1>6 DEF LiveBodies
<1> QED BY <1>5, <1>6, <1>7 DEF b

\* ServeDirect keeps the invariant.
LEMMA LiveServeDirect ==
  ASSUME LiveInv,
         NEW i \in Slots, ServeDirect(i)
  PROVE  LiveInv'
<1> DEFINE s == flight[i].sel
           b == IF guard.up
                THEN MetricsBody(s, "direct", GuardTenant, TRUE,
                                 parseGuardianMetrics, <<>>)
                ELSE MetricsBody(s, "none", s.tenant, FALSE, NoStats, <<>>)
<1>1. s \in Selections
  BY DEF LiveInv, LiveServed, ServeDirect, Idle, LiveRequests
<1>2. parseGuardianMetrics \in Stats
  BY LiveMetric DEF LiveInv, LiveServed
<1>3. b \in LiveBodies /\ b.sel = s /\ (guard.up => b.reachable)
  <2>1. CASE guard.up
    BY <1>1, <1>2, <2>1, LiveBodyOf
  <2>2. CASE ~guard.up
    <3>1. b = MetricsBody(s, "none", s.tenant, FALSE, NoStats, <<>>)
      BY <2>2
    <3> HIDE DEF b, s
    <3> QED BY <1>1, <2>2, <3>1, LiveRates, LiveBodyOf
  <2> QED BY <2>1, <2>2
<1>4. /\ flight' = [flight EXCEPT ![i].st = "ready", ![i].body = b]
      /\ cache' = IF guard.up THEN b ELSE cache
      /\ flight[i].st = "direct"
  BY DEF ServeDirect
<1> HIDE DEF b
<1> QED BY <1>3, <1>4, LiveRequestReady
        DEF ServeDirect, sources, client, LiveInv, LiveServed

\* ServeProm keeps the invariant.
LEMMA LiveServeProm ==
  ASSUME LiveInv,
         NEW i \in Slots, ServeProm(i)
  PROVE  LiveInv'
<1> DEFINE s == flight[i].sel
           of == IF guard.up THEN GuardTenant ELSE s.tenant
           own == guard.up /\ tenantExpr(s.tenant).lines <= guard.lines
           b(full) == MetricsBody(s, "prometheus", of, own, PromStats(s.tenant),
                                  IF full THEN <<OwnPoint(s), OwnPoint(s)>> ELSE <<>>)
<1>1. s \in Selections
  BY DEF LiveInv, LiveServed, ServeProm, Idle, LiveRequests
<1>2. PromStats(s.tenant) \in Stats
  BY LivePromStats DEF LiveInv, LiveServed
<1>3. PICK full \in BOOLEAN :
        /\ flight' = [flight EXCEPT ![i].st = "ready", ![i].body = b(full)]
        /\ cache' = b(full)
  BY DEF ServeProm, OwnPoint
<1>4. b(full) \in LiveBodies /\ b(full).sel = s /\ b(full).reachable
  <2>1. own \in BOOLEAN /\ of \in {s.tenant, GuardTenant}
    OBVIOUS
  <2> HIDE DEF own, of
  <2> QED BY <1>1, <1>2, <2>1, LiveBodyOf
<1> HIDE DEF b
<1> QED BY <1>3, <1>4, LiveRequestReady
        DEF ServeProm, sources, client

\* ServeFails keeps the invariant.
LEMMA LiveServeFails ==
  ASSUME LiveInv,
         NEW i \in Slots, ServeFails(i)
  PROVE  LiveInv'
<1> DEFINE r == [flight[i] EXCEPT !.st = "failed"]
<1>1. flight[i] \in LiveRequests
  BY DEF LiveInv, LiveServed, ServeFails, Idle
<1>2. flight[i] # Idle
  BY <1>1 DEF LiveRequests, Idle
<1>3. r \in LiveRequests /\ r.sel = flight[i].sel /\ r.st = "failed"
  BY <1>1 DEF LiveRequests
<1>4. flight' = [flight EXCEPT ![i] = r]
  BY <1>1 DEF ServeFails
<1>5. events' \in 0..MaxEvents
  BY LiveMetricsAssumption DEF LiveInv, ServeFails
<1>6. cache' # Nothing => cache' \in LiveBodies /\ cache'.reachable
  BY DEF ServeFails, LiveInv, LiveServed
<1> HIDE DEF r
<1> QED BY <1>2, <1>3, <1>4, <1>5, <1>6, LiveRequestMoves
        DEF ServeFails, sources, client

-----------------------------------------------------------------------------
(* The steps of the component.                                             *)

\* The rate of the session: at least every rate compared, and one of them.
LEMMA LiveSessionPeak ==
  ASSUME LiveInv, NEW st \in Stats,
         NEW sm \in Rates, NEW gap \in BOOLEAN
  PROVE  LET p == SessionPeak(st, sm, gap)
             d == Derived(st.lines, gap)
             new == {st.eps, st.eps_peak, sm, d}
         IN  /\ d \in Rates
             /\ p \in {peak} \union new
             /\ \A r \in {peak} \union new : r <= p
<1> DEFINE d == Derived(st.lines, gap)
<1>1. d \in Rates
  BY LiveMetricsAssumption DEF LiveInv, LivePeak, Derived, Stats, Rates
<1>2. /\ peak \in Int /\ sm \in Int /\ d \in Int
      /\ st.eps \in Int /\ st.eps_peak \in Int
  BY <1>1, LiveRates DEF LiveInv, LivePeak, Stats
<1>3. SessionPeak(st, sm, gap) =
        Larger(Larger(peak, st.eps_peak), Larger(Larger(sm, st.eps), d))
  BY DEF SessionPeak
<1> HIDE DEF d
<1>4. SessionPeak(st, sm, gap) \in {peak, st.eps, st.eps_peak, sm, d}
  BY <1>3 DEF Larger
<1>5. \A r \in {peak, st.eps, st.eps_peak, sm, d} :
        r <= SessionPeak(st, sm, gap)
  BY <1>2, <1>3 DEF Larger
<1> QED BY <1>1, <1>4, <1>5 DEF d

\* A request leaves its slot; when it was the newest, nothing is awaited.
LEMMA LiveFreed ==
  ASSUME LiveInv, NEW i \in Slots,
         flight' = [flight EXCEPT ![i] = Idle],
         newest' = IF i = newest THEN 0 ELSE newest,
         loading' = IF i = newest THEN FALSE ELSE loading,
         UNCHANGED <<guard, prom, smoke, auth, cache, sel, events>>
  PROVE  LiveServed' /\ LiveNewest' /\ events' \in 0..MaxEvents
<1>1. flight' \in [Slots -> {Idle} \union LiveRequests]
  BY DEF LiveInv, LiveServed
<1>2. ASSUME NEW j \in Slots
      PROVE  flight'[j] = IF j = i THEN Idle ELSE flight[j]
  BY DEF LiveInv, LiveServed
<1>3. LiveServed'
  BY <1>1, <1>2 DEF LiveInv, LiveServed, Idle
<1>4. 0 \notin Slots
  BY LiveMetricsAssumption DEF Slots
<1>5. LiveNewest'
  BY <1>2, <1>4 DEF LiveInv, LiveNewest
<1> QED BY <1>3, <1>5 DEF LiveInv

\* One more point of the same selection, and the oldest out at the limit.
LEMMA LiveHistGrows ==
  ASSUME LiveInv, NEW p \in Askable(sel)
  PROVE  LET h == appendLiveHist(hist, p)
         IN  /\ h \in Seq(Points) /\ Len(h) <= LiveMax
             /\ \A k \in DOMAIN h : h[k] \in Askable(sel)
<1> DEFINE n == Append(hist, p)
<1>1. /\ hist \in Seq(Points) /\ Len(hist) <= LiveMax /\ p \in Points
      /\ \A k \in DOMAIN hist : hist[k] \in Askable(sel)
  BY DEF LiveInv, LiveShown, Askable
<1>2. /\ n \in Seq(Points) /\ Len(n) = Len(hist) + 1
      /\ \A k \in 1..Len(n) : n[k] \in Askable(sel)
  BY <1>1
<1> HIDE DEF n
<1>3. CASE Len(n) > LiveMax
  <2>1. appendLiveHist(hist, p) = Tail(n)
    BY <1>3 DEF appendLiveHist, n
  <2>2. n # <<>>
    BY <1>1, <1>2
  <2>3. /\ Tail(n) \in Seq(Points) /\ Len(Tail(n)) = Len(n) - 1
        /\ \A k \in 1..Len(Tail(n)) : Tail(n)[k] = n[k + 1]
    BY <1>2, <2>2
  <2> QED BY <1>1, <1>2, <2>1, <2>3
<1>4. CASE ~(Len(n) > LiveMax)
  <2>1. appendLiveHist(hist, p) = n
    BY <1>4 DEF appendLiveHist, n
  <2> QED BY <1>1, <1>2, <1>4, <2>1, LiveMetricsAssumption
<1> QED BY <1>3, <1>4

\* AnswerNewest keeps the invariant: what is used is for the selection.
LEMMA LiveAnswer ==
  ASSUME LiveInv, NEW i \in Slots, AnswerNewest(i)
  PROVE  LiveInv'
<1> DEFINE b == flight[i].body
           sm == flight[i].smoke
<1>1. /\ flight[i] \in LiveRequests /\ b \in LiveBodies
      /\ b.sel = flight[i].sel /\ sm \in Rates
  BY DEF LiveInv, LiveServed, AnswerNewest, Idle, LiveRequests
<1>2. LiveServed' /\ LiveNewest' /\ events' \in 0..MaxEvents
  BY LiveFreed DEF AnswerNewest, sources
<1>3. CASE i # newest
  <2>1. UNCHANGED <<sel, newest, loading, data, hist, prevLines, peak, seen,
                      jumped>>
        /\ epsSmoke' = sm
    BY <1>3 DEF AnswerNewest
  <2>2. LiveShown'
    BY <2>1 DEF LiveInv, LiveShown
  <2>3. LivePeak'
    BY <1>1, <2>1 DEF LiveInv, LivePeak
  <2> QED BY <1>2, <2>2, <2>3 DEF LiveInv
<1>4. CASE i = newest
  <2>1. b.sel = sel /\ b.stats \in Stats /\ b.own \in BOOLEAN
        /\ b.of \in {sel.tenant, GuardTenant} /\ sel \in Selections
        /\ b.pts \in {<<>>, <<OwnPoint(sel), OwnPoint(sel)>>}
        /\ (b.reachable <=> b.source # "none")
        /\ (b.pts # <<>> => b.reachable) /\ b.reachable \in BOOLEAN
    BY <1>1, <1>4, LiveMetricsAssumption DEF LiveInv, LiveNewest, LiveBodies,
       LiveFields, Slots
  <2>2. PICK gap \in BOOLEAN : UseAnswer(b, sm, gap)
    BY <1>4 DEF AnswerNewest
  <2> DEFINE live == needsLiveHistory(b)
             p == [sel |-> sel, of |-> b.of]
             h == IF live THEN appendLiveHist(hist, p) ELSE hist
             d == Derived(b.stats.lines, gap)
             told == {b.stats.eps, b.stats.eps_peak, sm}
             m == mergeEpsDisplay(b.stats, sm, gap)
             q == IF live THEN h ELSE b.pts
  <2>3. /\ peak' = SessionPeak(b.stats, sm, gap)
        /\ seen' = seen \union told \union {r \in {d} : Alike(b)}
        /\ jumped' = (jumped \/ (Grew(b, gap) /\ ~Alike(b)))
        /\ prevLines' = [n |-> b.stats.lines, own |-> b.own]
        /\ hist' = h
        /\ data' = [b EXCEPT !.stats = m, !.pts = q]
        /\ epsSmoke' = sm /\ sel' = sel /\ loading' = FALSE
    BY <2>1, <2>2, <1>4 DEF UseAnswer, AnswerNewest
  <2>4. /\ data'.reachable = b.reachable /\ data'.source = b.source
        /\ data'.stats = m /\ data'.pts = q
    BY <1>1, <2>3 DEF LiveBodies, LiveFields
  <2>5. live => b.reachable
    BY DEF needsLiveHistory
  <2>p. p \in Askable(sel)
    BY <2>1, LiveMetricsAssumption DEF Askable, Points, Selections
  <2>6. /\ h \in Seq(Points) /\ Len(h) <= LiveMax
        /\ \A k \in DOMAIN h : h[k] \in Askable(sel)
    <3> HIDE DEF p
    <3> QED BY <2>p, LiveHistGrows DEF LiveInv, LiveShown
  <2>7. \A k \in DOMAIN b.pts : b.pts[k] = OwnPoint(sel)
    <3>1. DOMAIN <<>> = {}
      OBVIOUS
    <3>2. CASE b.pts = <<>>
      BY <3>1, <3>2
    <3>3. CASE b.pts = <<OwnPoint(sel), OwnPoint(sel)>>
      BY <3>3
    <3> QED BY <2>1, <3>2, <3>3
  <2>8. LiveShown'
    <3> HIDE DEF live, h, m
    <3>1. q = h \/ \A k \in DOMAIN q : q[k] = OwnPoint(sel)
      BY <2>6, <2>7
    <3>2. q # <<>> => b.reachable
      BY <2>1, <2>5
    <3> HIDE DEF q
    <3> QED BY <2>1, <2>3, <2>4, <2>6, <3>1, <3>2 DEF LiveShown
  <2>9. LivePeak'
    <3>1. /\ d \in Rates
          /\ peak' \in {peak, d} \union told
          /\ \A r \in {peak, d} \union told : r <= peak'
      BY <1>1, <2>1, <2>3, LiveSessionPeak
    <3>2. told \subseteq Rates /\ b.stats.lines \in Rates
      BY <1>1, <2>1 DEF Stats
    <3>3. m.eps_live = b.stats.eps /\ (m.eps_live = 0 => m.eps = peak')
      BY <2>3 DEF mergeEpsDisplay
    <3>4. b.stats.eps \in Rates
      BY <2>1 DEF Stats
    <3>0. Grew(b, gap) <=> d > 0
      BY DEF Grew
    <3>n. /\ peak \in Rates /\ (peak \in seen \/ jumped) /\ seen \subseteq Rates
          /\ (\A r \in seen : r <= peak) /\ jumped \in BOOLEAN
      BY DEF LiveInv, LivePeak
    <3> HIDE DEF m, d
    <3>5. /\ data'.stats.eps_live \in Rates
          /\ data'.stats.eps_live = 0 => data'.stats.eps = peak'
      BY <2>4, <3>3, <3>4
    <3>6. peak' \in Rates /\ seen' \subseteq Rates /\ jumped' \in BOOLEAN
      BY <2>3, <3>1, <3>2, <3>n
    <3>i. peak' \in Int /\ seen \subseteq Int /\ peak \in Int /\ told \subseteq Int
      BY <3>2, <3>6, <3>n, LiveRates
    <3>7. \A r \in seen' : r <= peak'
      <4>0. peak <= peak'
        BY <3>1
      <4>1. \A r \in seen : r <= peak'
        BY <4>0, <3>n, <3>i
      <4> QED BY <2>3, <3>1, <4>1
    <3>8. epsSmoke' \in Rates /\ prevLines' \in [n : Rates, own : BOOLEAN]
      BY <1>1, <2>1, <2>3, <3>2
    <3>9. peak' \in seen' \/ jumped'
      <4>1. CASE peak' = peak
        BY <2>3, <3>n, <4>1
      <4>2. CASE peak' \in told
        BY <2>3, <4>2
      <4>3. CASE peak' = d /\ Alike(b)
        BY <2>3, <4>3
      <4>4. CASE peak' = d /\ d > 0 /\ ~Alike(b)
        BY <2>3, <3>0, <4>4
      <4>5. CASE peak' = d /\ ~(d > 0)
        <5>1. peak' = 0 /\ b.stats.eps = 0
          BY <3>1, <3>4, <4>5, LiveMetricsAssumption DEF Rates
        <5> QED BY <4>2, <5>1
      <4> QED BY <3>1, <4>1, <4>2, <4>3, <4>4, <4>5
    <3> QED BY <3>5, <3>6, <3>7, <3>8, <3>9 DEF LivePeak
  <2> QED BY <1>2, <2>8, <2>9 DEF LiveInv
<1> QED BY <1>3, <1>4

\* AnswerNothing keeps the invariant: there is nothing to draw.
LEMMA LiveAnswerNothing ==
  ASSUME LiveInv, NEW i \in Slots,
         AnswerNothing(i)
  PROVE  LiveInv'
<1>1. LiveServed' /\ LiveNewest' /\ events' \in 0..MaxEvents
  BY LiveFreed DEF AnswerNothing, sources
<1>2. epsSmoke' \in Rates
  <2>1. flight[i] \in LiveRequests
    BY DEF LiveInv, LiveServed, AnswerNothing, Idle
  <2> QED BY <2>1 DEF LiveInv, LivePeak, AnswerNothing, LiveRequests
<1>3. UNCHANGED <<sel, hist, prevLines, peak, seen, jumped>>
  BY DEF AnswerNothing
<1>4. CASE i # newest
  <2>1. UNCHANGED <<loading, data>>
    BY <1>4 DEF AnswerNothing
  <2> QED BY <1>1, <1>2, <1>3, <2>1 DEF LiveInv, LiveShown, LivePeak
<1>5. CASE i = newest
  <2>1. data'.pts = <<>> /\ data'.reachable = FALSE
    BY <1>5 DEF AnswerNothing, Unreachable
  <2> QED BY <1>1, <1>2, <1>3, <2>1 DEF LiveInv, LiveShown, LivePeak
<1> QED BY <1>4, <1>5

\* A request is sent for the selection, old or new.
LEMMA LiveFetch ==
  ASSUME LiveInv, NEW s \in Selections,
         fetchMetrics(s), sel' = s,
         UNCHANGED <<guard, prom, smoke, auth, cache>>
  PROVE  LiveServed' /\ LiveNewest' /\ loading' = TRUE
<1>1. PICK i \in Slots : /\ flight' = [flight EXCEPT ![i] = MetricsRequest(s)]
                         /\ newest' = i
  BY DEF fetchMetrics
<1>2. /\ MetricsRequest(s) \in LiveRequests /\ MetricsRequest(s) # Idle
      /\ MetricsRequest(s).sel = s /\ MetricsRequest(s).st = "sent"
  BY DEF MetricsRequest, LiveRequests, Idle
<1>3. flight' \in [Slots -> {Idle} \union LiveRequests]
  BY <1>1, <1>2 DEF LiveInv, LiveServed
<1>4. ASSUME NEW j \in Slots
      PROVE  flight'[j] = IF j = i THEN MetricsRequest(s) ELSE flight[j]
  BY <1>1 DEF LiveInv, LiveServed
<1>5. LiveServed'
  BY <1>2, <1>3, <1>4 DEF LiveInv, LiveServed
<1>6. loading' = TRUE /\ 0 \notin Slots
  BY LiveMetricsAssumption DEF fetchMetrics, Slots
<1>7. LiveNewest'
  BY <1>1, <1>2, <1>4, <1>6 DEF LiveNewest
<1> QED BY <1>5, <1>6, <1>7

\* Select keeps the invariant: all that was accumulated is dropped.
LEMMA LiveSelect ==
  ASSUME LiveInv, NEW s \in Selections,
         Select(s)
  PROVE  LiveInv'
<1>1. LiveServed' /\ LiveNewest' /\ loading' = TRUE
  BY LiveFetch DEF Select, sources
<1>2. LiveShown'
  BY <1>1, LiveMetricsAssumption DEF LiveShown, Select
<1>3. LivePeak'
  <2>1. /\ seen' = {0} /\ jumped' = FALSE /\ peak' = 0 /\ epsSmoke' = epsSmoke
        /\ prevLines' = Nothing
    BY DEF Select
  <2>2. seen' \subseteq Rates /\ epsSmoke' \in Rates /\ peak' \in Rates
    BY <2>1, LiveRates DEF LiveInv, LivePeak
  <2>3. peak' \in seen' /\ \A r \in seen' : r <= peak'
    BY <2>1
  <2>4. jumped' \in BOOLEAN
    BY <2>1
  <2> QED BY <1>1, <2>1, <2>2, <2>3, <2>4 DEF LivePeak
<1> QED BY <1>1, <1>2, <1>3, LiveMetricsAssumption DEF LiveInv, Select

\* LivePoll keeps the invariant.
LEMMA LivePollSent ==
  ASSUME LiveInv, LivePoll
  PROVE  LiveInv'
<1>1. LiveServed' /\ LiveNewest' /\ loading' = TRUE
  <2>1. sel \in Selections
    BY DEF LiveInv, LiveNewest
  <2> QED BY <2>1, LiveFetch DEF LivePoll, sources
<1>2. LiveShown' /\ LivePeak'
  BY <1>1 DEF LiveShown, LivePeak, LiveInv, LivePoll
<1>3. events' \in 0..MaxEvents
  BY LiveMetricsAssumption DEF LiveInv, LivePoll
<1> QED BY <1>1, <1>2, <1>3 DEF LiveInv

\* What happens outside the page.
LEMMA LiveWorldMoves ==
  ASSUME LiveInv,
         CacheExpires \/ GuardMoves \/ PromMoves \/ OthersMove
  PROVE  LiveInv'
<1>1. UNCHANGED <<sel, flight, newest, loading, data, hist, prevLines, peak,
                  epsSmoke, seen, jumped>>
  BY DEF CacheExpires, GuardMoves, PromMoves, OthersMove, client
<1>2. events' \in 0..MaxEvents
  BY LiveMetricsAssumption DEF LiveInv, CacheExpires, GuardMoves, PromMoves,
     OthersMove, Acts
<1>3. guard' \in LiveGuards
  <2>1. CASE GuardMoves
    <3>1. guard \in LiveGuards
      BY DEF LiveInv, LiveServed
    <3>2. [up |-> TRUE, eps |-> 0, peak |-> 0, lines |-> 0] \in LiveGuards
      BY LiveRates DEF LiveGuards
    <3>3. [guard EXCEPT !.up = FALSE] \in LiveGuards
      BY <3>1 DEF LiveGuards
    <3>4. /\ [guard EXCEPT !.eps = 0, !.lines = MaxRate] \in LiveGuards
          /\ [guard EXCEPT !.eps = MaxRate, !.peak = MaxRate] \in LiveGuards
      BY <3>1, LiveRates DEF LiveGuards
    <3> QED BY <2>1, <3>2, <3>3, <3>4 DEF GuardMoves
  <2>2. CASE guard' = guard
    BY <2>2 DEF LiveInv, LiveServed
  <2> QED BY <2>1, <2>2 DEF CacheExpires, PromMoves, OthersMove, sources
<1>4. smoke' \in Rates
  BY LiveRates DEF LiveInv, LiveServed, CacheExpires, GuardMoves,
     PromMoves, OthersMove, sources
<1>5. cache' \in {cache, Nothing}
  BY DEF CacheExpires, GuardMoves, PromMoves, OthersMove
<1>6. LiveServed'
  BY <1>1, <1>3, <1>4, <1>5 DEF LiveInv, LiveServed
<1>7. LiveNewest' /\ LiveShown' /\ LivePeak'
  BY <1>1 DEF LiveInv, LiveNewest, LiveShown, LivePeak
<1> QED BY <1>2, <1>6, <1>7 DEF LiveInv

\* Every step keeps the invariant.
LEMMA LiveNextInv ==
  ASSUME LiveInv, [LiveNext]_liveVars
  PROVE  LiveInv'
<1>1. CASE UNCHANGED liveVars
  BY <1>1 DEF liveVars, sources, client, LiveInv, LiveServed, LiveNewest,
     LiveShown, LivePeak
<1>2. ASSUME NEW i \in Slots, Progress(i) \/ ServeFails(i)
      PROVE  LiveInv'
  BY <1>2, LiveServeStart, LiveServeDirect, LiveServeProm, LiveServeFails,
     LiveAnswer, LiveAnswerNothing DEF Progress
<1>3. ASSUME NEW s \in Selections, Select(s) PROVE LiveInv'
  BY <1>3, LiveSelect
<1>4. CASE LivePoll
  BY <1>4, LivePollSent
<1>5. CASE CacheExpires \/ GuardMoves \/ PromMoves \/ OthersMove
  BY <1>5, LiveWorldMoves
<1> QED BY <1>1, <1>2, <1>3, <1>4, <1>5 DEF LiveNext

\* In every reachable state the answers, the newest request, what is shown and
\* the peak of the session belong together.
THEOREM LiveInvariant ==
  LiveSpec => []LiveInv
<1>1. LiveInit => LiveInv
  BY LiveInitInv
<1>2. LiveInv /\ [LiveNext]_liveVars => LiveInv'
  BY LiveNextInv
<1> QED BY <1>1, <1>2, PTL DEF LiveSpec

\* The variables keep their types; the history of the browser never outgrows
\* LIVE_MAX (appendLiveHist).
THEOREM LiveTypeCorrect ==
  LiveSpec => []LiveTypeOK
<1>1. LiveInv => LiveTypeOK
  <2> SUFFICES ASSUME LiveInv PROVE LiveTypeOK
    OBVIOUS
  <2> DEFINE Series == {<<>>} \union {<<p, p>> : p \in Points}
             Cached == [reachable : {TRUE}, source : {"direct", "prometheus"},
                        sel : Selections, of : MetricTenants, own : BOOLEAN,
                        stats : Stats, pts : Series]
  <2>1. cache \in {Nothing} \union Cached
    <3>1. SUFFICES ASSUME cache # Nothing PROVE cache \in Cached
      OBVIOUS
    <3>2. /\ cache \in LiveFields
          /\ cache.reachable <=> cache.source # "none"
          /\ cache.pts \in {<<>>, <<OwnPoint(cache.sel), OwnPoint(cache.sel)>>}
          /\ cache.reachable
      BY <3>1 DEF LiveInv, LiveServed, LiveBodies
    <3>3. cache.reachable = TRUE /\ cache.source \in {"direct", "prometheus"}
      BY <3>2 DEF LiveFields
    <3>4. cache.pts \in Series
      <4>1. OwnPoint(cache.sel) \in Points
        BY <3>2 DEF LiveFields, OwnPoint, Points, Selections
      <4> QED BY <3>2, <4>1
    <3> HIDE DEF Series
    <3> QED BY <3>2, <3>3, <3>4 DEF LiveFields
  <2>2. hist \in SeqOf(Points, LiveMax)
    <3>1. /\ hist \in [1..Len(hist) -> Points]
          /\ Len(hist) \in 0..LiveMax
      BY LiveMetricsAssumption DEF LiveInv, LiveShown
    <3> QED BY <3>1 DEF SeqOf
  <2>3. /\ sel \in Selections /\ newest \in Slots \union {0}
        /\ loading \in BOOLEAN /\ events \in 0..MaxEvents
    BY DEF LiveInv, LiveNewest
  <2>4. /\ peak \in Rates /\ epsSmoke \in Rates /\ seen \subseteq Rates
        /\ jumped \in BOOLEAN
    BY DEF LiveInv, LivePeak
  <2> HIDE DEF Cached
  <2> QED BY <2>1, <2>2, <2>3, <2>4 DEF LiveTypeOK, Cached
<1> QED BY <1>1, LiveInvariant, PTL

\* Every point drawn was asked for with the range and the tenant selected now;
\* a figure of another tenant is the analyzer's, in an accumulated chart; and
\* nothing is drawn under the offline note or without its source (the reqGen
\* guard of fetchMetrics, the effect's reset and chartsReady together).
THEOREM LiveChartsOfSelection ==
  LiveSpec => []ChartsOfSelection
<1>1. LiveInv => ChartsOfSelection
  <2> SUFFICES ASSUME LiveInv,
                      MiniTs(Charts) = "lines"
                        \/ MiniStat(Charts) = "sparkline"
               PROVE  /\ \A k \in DOMAIN Charts :
                           /\ Charts[k].sel = sel
                           /\ Charts[k].of # sel.tenant =>
                                Charts = hist /\ Charts[k].of = GuardTenant
                      /\ "offline" \notin Notes
                      /\ SourceLabel # "none"
    BY DEF ChartsOfSelection
  <2>1. Charts # <<>>
    <3>1. Len(<<>>) = 0
      OBVIOUS
    <3> QED BY <3>1 DEF MiniTs, MiniStat
  <2>2. ~loading /\ data # Nothing /\ Charts = data.pts
    BY <2>1 DEF Charts, chartsReady
  <2>3. /\ Charts = hist \/ \A k \in DOMAIN Charts : Charts[k] = OwnPoint(sel)
        /\ \A k \in DOMAIN hist : hist[k] \in Askable(sel)
        /\ data.reachable /\ data.source # "none"
    BY <2>1, <2>2 DEF LiveInv, LiveShown
  <2>4. "offline" \notin Notes
    BY <2>2, <2>3 DEF Notes
  <2>5. SourceLabel # "none"
    BY <2>2, <2>3 DEF SourceLabel
  <2>6. ASSUME NEW k \in DOMAIN Charts
        PROVE  /\ Charts[k].sel = sel
               /\ Charts[k].of # sel.tenant => Charts = hist /\ Charts[k].of = GuardTenant
    <3> HIDE DEF Charts
    <3>1. CASE Charts = hist
      BY <2>3, <2>6, <3>1 DEF Askable
    <3>2. CASE \A j \in DOMAIN Charts : Charts[j] = OwnPoint(sel)
      BY <2>6, <3>2 DEF OwnPoint
    <3> QED BY <2>3, <3>1, <3>2
  <2> QED BY <2>4, <2>5, <2>6
<1> QED BY <1>1, LiveInvariant, PTL

\* A rate presented as the peak is no less than any reported since the
\* selection, and one of them, unless the line counter jumped between unlike
\* answers (mergeEpsDisplay and the reset of the refs).
THEOREM LivePeakOfSession ==
  LiveSpec => []PeakOfSession
<1>1. LiveInv => PeakOfSession
  <2> SUFFICES ASSUME LiveInv, ~loading, data # Nothing, data.reachable,
                      EpsTile.title = "peak"
               PROVE  /\ \A r \in seen : r <= EpsTile.v
                      /\ EpsTile.v \in seen \/ jumped
    BY DEF PeakOfSession
  <2>1. ~(data.stats.eps_live > 0) /\ EpsTile.v = data.stats.eps
    BY DEF EpsTile
  <2>2. data.stats.eps_live = 0
    BY <2>1 DEF LiveInv, LivePeak, Rates
  <2> QED BY <2>1, <2>2 DEF LiveInv, LivePeak
<1> QED BY <1>1, LiveInvariant, PTL

-----------------------------------------------------------------------------
(***************************************************************************)
(* The status panels.  A lamp may stay green long after its report turned  *)
(* red, and an answer may be shown after a later one; what never happens   *)
(* is a green lamp that nothing has backed.  The invariant carries it from *)
(* the disk through the reports a request has read to the answer shown;    *)
(* one lemma per panel then follows every lamp back to a report.           *)
(***************************************************************************)

\* A report as it was read: what it says is among what was said (S).
StatusSaid(S, x, r) ==
  x # None => /\ x.pass => Fact(r, "pass") \in S
              /\ x.flag => Fact(r, "flag") \in S
              /\ x.more => Fact(r, "more") \in S

\* The system as it was seen.
StatusSeen(S, w) ==
  /\ w.up => Fact("analyzer", "up") \in S
  /\ w.up /\ w.route => Fact("analyzer", "route") \in S
  /\ w.db /\ w.online > 0 => Fact("database", "online") \in S

\* All that an answer is computed from.
StatusBacked(S, got, w) ==
  /\ \A r \in Reads[panel] : StatusSaid(S, got[r], r)
  /\ StatusSeen(S, w)

\* A request that is served: what it has read, and all of it at the end.
StatusRead(f) ==
  /\ DOMAIN f = {"st", "w", "got", "said"}
  /\ DOMAIN f.got = Reads[panel]
  /\ \A r \in Reads[panel] :
       f.got[r] = Unread \/ StatusSaid(f.said, f.got[r], r)
  /\ f.st = "ready" => StatusBacked(f.said, f.got, f.w)

\* A request, with what is said as long as it reads.
StatusServed(f, now) ==
  /\ f.st \in {"reading", "ready"} => StatusRead(f)
  /\ f.st = "reading" => now \subseteq f.said

\* What is shown: an answer to a request that was served.
StatusShown(d) ==
  /\ DOMAIN d = {"main", "side", "said"}
  /\ d.main = None \/ \E got, w : /\ StatusBacked(d.said, got, w)
                                  /\ d.main = PanelAnswer(got, w)
  /\ d.side = None \/ \E got, w : /\ StatusBacked(d.said, got, w)
                                  /\ d.side = SideAnswer(got, w)

StatusInv ==
  /\ panel \in Panels /\ hot \subseteq Reads[panel]
  /\ DOMAIN disk = Reads[panel]
  /\ DOMAIN flight = Slots
  /\ \A i \in Slots : StatusServed(flight[i], SaidBy(disk, world))
  /\ StatusShown(data)

-----------------------------------------------------------------------------
\* What readJson returns is the first copy that is whole.
LEMMA StatusReadJson ==
  ASSUME NEW copies, readJson(copies) # None
  PROVE  \E b \in Bases : /\ readJson(copies) = copies[b]
                          /\ copies[b] \in Report
                          /\ \A c \in Bases : c < b => copies[c] \notin Report
<1> DEFINE whole == {b \in Bases : copies[b] \in Report}
           first == CHOOSE b \in whole : \A c \in whole : b <= c
<1>1. whole # {} /\ readJson(copies) = copies[first]
  BY DEF readJson
<1>2. whole \subseteq 1..2
  BY DEF Bases
<1>3. \E b \in whole : \A c \in whole : b <= c
  <2> HIDE DEF whole
  <2>1. CASE 1 \in whole
    BY <1>2, <2>1
  <2>2. CASE 1 \notin whole
    <3>1. \A c \in whole : c = 2
      BY <1>2, <2>2
    <3> QED BY <1>1, <3>1
  <2> QED BY <2>1, <2>2
<1>4. first \in whole /\ \A c \in whole : first <= c
  <2> HIDE DEF whole
  <2> QED BY <1>3
<1> HIDE DEF first
<1>5. ASSUME NEW c \in Bases, c < first
      PROVE  copies[c] \notin Report
  BY <1>2, <1>4, <1>5 DEF Bases
<1> QED BY <1>1, <1>4, <1>5

\* A report on disk says nothing that is not recorded.
LEMMA StatusDiskSaid ==
  ASSUME NEW d, NEW w, NEW S, SaidBy(d, w) \subseteq S,
         NEW r \in DOMAIN d
  PROVE  StatusSaid(S, readJson(d[r]), r)
<1> DEFINE x == readJson(d[r])
<1>1. SUFFICES ASSUME x # None
               PROVE  /\ x.pass => Fact(r, "pass") \in S
                      /\ x.flag => Fact(r, "flag") \in S
                      /\ x.more => Fact(r, "more") \in S
  BY DEF StatusSaid
<1>2. PICK b \in Bases : /\ x = d[r][b]
                         /\ d[r][b] \in Report
                         /\ \A c \in Bases : c < b => d[r][c] \notin Report
  BY <1>1, StatusReadJson
<1> HIDE DEF x
<1>3. /\ x.pass => Says(d[r], "pass")
      /\ x.flag => Says(d[r], "flag")
      /\ x.more => Says(d[r], "more")
  BY <1>2 DEF Says
<1>4. ASSUME NEW f \in {"pass", "flag", "more"}, Says(d[r], f)
      PROVE  Fact(r, f) \in S
  <2>1. /\ Fact(r, f) \in [report : DOMAIN d, field : {"pass", "flag", "more"}]
        /\ Fact(r, f).report = r /\ Fact(r, f).field = f
    BY DEF Fact
  <2> QED BY <1>4, <2>1 DEF SaidBy
<1> QED BY <1>3, <1>4

\* What is seen of the system is recorded.
LEMMA StatusWorldSaid ==
  ASSUME NEW d, NEW w, NEW S, SaidBy(d, w) \subseteq S
  PROVE  StatusSeen(S, w)
<1>1. w.up => Fact("analyzer", "up") \in S
  BY DEF SaidBy
<1>2. w.up /\ w.route => Fact("analyzer", "route") \in S
  BY DEF SaidBy
<1>3. w.db /\ w.online > 0 => Fact("database", "online") \in S
  BY DEF SaidBy
<1> QED BY <1>1, <1>2, <1>3 DEF StatusSeen

\* An answer is a function of the panel and of what was read.
LEMMA StatusSamePanel ==
  ASSUME panel' = panel, NEW CONSTANT got, NEW CONSTANT w
  PROVE  /\ PanelAnswer(got, w)' = PanelAnswer(got, w)
         /\ SideAnswer(got, w)' = SideAnswer(got, w)
  BY DEF PanelAnswer, SideAnswer

\* Steps: the panel stays the same, and every request and what is shown are
\* as they must be for the reports as they now are.
LEMMA StatusServes ==
  ASSUME StatusInv, UNCHANGED <<panel, hot>>, DOMAIN disk' = DOMAIN disk,
         DOMAIN flight' = Slots,
         \A i \in Slots : StatusServed(flight'[i], SaidBy(disk', world')),
         StatusShown(data')
  PROVE  StatusInv'
<1>1. SaidBy(disk, world)' = SaidBy(disk', world')
  BY DEF SaidBy, Fact, Says
<1>2. \A i \in Slots : StatusServed(flight[i], SaidBy(disk, world))'
  BY <1>1 DEF StatusServed, StatusRead, StatusBacked
<1>3. StatusShown(data)'
  BY StatusSamePanel DEF StatusShown, StatusBacked
<1> QED BY <1>2, <1>3 DEF StatusInv

\* What was said stays said, and a request hears what is said while it reads.
LEMMA StatusHears ==
  ASSUME NEW f, NEW now, NEW more, StatusServed(f, now), f.st = "reading"
  PROVE  StatusServed([f EXCEPT !.said = @ \union more], more)
<1> DEFINE g == [f EXCEPT !.said = @ \union more]
<1>1. StatusRead(f)
  BY DEF StatusServed
<1>2. /\ DOMAIN g = DOMAIN f /\ g.st = f.st /\ g.got = f.got
      /\ g.said = f.said \union more
  BY <1>1 DEF StatusRead
<1> HIDE DEF g
<1>3. StatusRead(g)
  BY <1>1, <1>2 DEF StatusRead, StatusSaid
<1> QED BY <1>2, <1>3 DEF StatusServed, g

\* Steps of scripts and of the system.
LEMMA StatusSays ==
  ASSUME StatusInv, DOMAIN disk' = DOMAIN disk,
         flight' = Heard(disk', world'), UNCHANGED <<panel, hot, data>>
  PROVE  StatusInv'
<1> DEFINE now == SaidBy(disk', world')
<1>1. DOMAIN flight' = Slots
  BY DEF Heard
<1>2. ASSUME NEW i \in Slots
      PROVE  StatusServed(flight'[i], now)
  <2>1. StatusServed(flight[i], SaidBy(disk, world))
    BY DEF StatusInv
  <2>2. CASE flight[i].st = "reading"
    <3>1. flight'[i] = [flight[i] EXCEPT !.said = @ \union now]
      BY <2>2 DEF Heard
    <3> HIDE DEF now
    <3> QED BY <2>1, <2>2, <3>1, StatusHears
  <2>3. CASE flight[i].st # "reading"
    <3>1. flight'[i] = flight[i]
      BY <2>3 DEF Heard
    <3> QED BY <2>1, <2>3, <3>1 DEF StatusServed
  <2> QED BY <2>2, <2>3
<1>3. StatusShown(data')
  BY DEF StatusInv
<1> QED BY <1>1, <1>2, <1>3, StatusServes

\* One slot changes.
LEMMA StatusSlot ==
  ASSUME StatusInv, UNCHANGED <<panel, hot, disk, world>>,
         NEW i \in Slots, NEW f, flight' = [flight EXCEPT ![i] = f],
         StatusServed(f, SaidBy(disk, world)), StatusShown(data')
  PROVE  StatusInv'
<1>1. DOMAIN flight' = Slots
  BY DEF StatusInv
<1>2. ASSUME NEW j \in Slots
      PROVE  StatusServed(flight'[j], SaidBy(disk', world'))
  BY DEF StatusInv
<1> QED BY <1>1, <1>2, StatusServes

\* A free slot asks for nothing.
LEMMA StatusIdle ==
  ASSUME NEW f, f.st \notin {"reading", "ready"}, NEW now
  PROVE  StatusServed(f, now)
  BY DEF StatusServed

\* A request that was just sent has read what no script rewrites.
LEMMA StatusNewRequest ==
  ASSUME hot \subseteq Reads[panel], DOMAIN disk = Reads[panel]
  PROVE  StatusServed(PanelRequest, SaidBy(disk, world))
<1> DEFINE f == PanelRequest
           S == SaidBy(disk, world)
           g == [r \in Reads[panel] |->
                   IF r \in hot THEN Unread ELSE readJson(disk[r])]
<1>1. f = [st |-> "reading", w |-> world, said |-> S, got |-> g]
  BY DEF PanelRequest
<1>2. /\ f.st = "reading" /\ f.got = g /\ f.said = S
      /\ DOMAIN f = {"st", "w", "got", "said"}
  BY <1>1
<1>3. ASSUME NEW r \in Reads[panel]
      PROVE  g[r] = Unread \/ StatusSaid(S, g[r], r)
  BY StatusDiskSaid
<1>4. DOMAIN g = Reads[panel]
  OBVIOUS
<1> HIDE DEF f, g, S
<1> QED BY <1>2, <1>3, <1>4 DEF StatusRead, StatusServed, f, S

\* The invariant holds when the panel was just opened.
LEMMA StatusInitInv ==
  ASSUME PanelInit
  PROVE  StatusInv
<1>1. panel \in Panels /\ hot \subseteq Reads[panel]
  BY DEF PanelInit
<1>2. DOMAIN disk = Reads[panel]
  BY DEF PanelInit
<1>3. StatusShown(data)
  <2>1. data = [main |-> None, side |-> None, said |-> {}]
    BY DEF PanelInit
  <2> QED BY <2>1 DEF StatusShown
<1>4. flight = [i \in Slots |-> IF i = 1 THEN PanelRequest ELSE Idle]
  BY DEF PanelInit
<1>5. StatusServed(PanelRequest, SaidBy(disk, world))
  BY <1>1, <1>2, StatusNewRequest
<1>6. StatusServed(Idle, SaidBy(disk, world))
  BY StatusIdle DEF Idle
<1>7. ASSUME NEW i \in Slots
      PROVE  StatusServed(flight[i], SaidBy(disk, world))
  BY <1>4, <1>5, <1>6
<1> QED BY <1>1, <1>2, <1>3, <1>4, <1>7 DEF StatusInv

\* PanelPoll and Refresh keep the invariant.
LEMMA StatusSend ==
  ASSUME StatusInv, Send, UNCHANGED <<panel, hot, disk, world, data>>
  PROVE  StatusInv'
<1>1. PICK i \in Slots : flight' = [flight EXCEPT ![i] = PanelRequest]
  BY DEF Send
<1>2. StatusServed(PanelRequest, SaidBy(disk, world)) /\ StatusShown(data')
  BY StatusNewRequest DEF StatusInv
<1> QED BY <1>1, <1>2, StatusSlot

\* ReadReport keeps the invariant: the copy read has been recorded.
LEMMA StatusReadReport ==
  ASSUME StatusInv, NEW i \in Slots, NEW r \in hot, ReadReport(i, r)
  PROVE  StatusInv'
<1> DEFINE old == flight[i].got
           S == flight[i].said
           got == [old EXCEPT ![r] = readJson(disk[r])]
           last == \A q \in DOMAIN got : got[q] # Unread
           f == [st |-> IF last THEN "ready" ELSE "reading",
                 got |-> got, w |-> world, said |-> S]
<1>1. /\ flight[i].st = "reading" /\ flight' = [flight EXCEPT ![i] = f]
      /\ UNCHANGED <<panel, hot, disk, world, data>>
  BY DEF ReadReport
<1>2. /\ DOMAIN old = Reads[panel] /\ r \in Reads[panel]
      /\ \A q \in Reads[panel] :
           old[q] = Unread \/ StatusSaid(S, old[q], q)
      /\ SaidBy(disk, world) \subseteq S
  BY <1>1 DEF StatusInv, StatusServed, StatusRead
<1>3. StatusSaid(S, readJson(disk[r]), r)
  BY <1>2, StatusDiskSaid DEF StatusInv
<1>4. /\ DOMAIN got = Reads[panel]
      /\ \A q \in Reads[panel] :
           got[q] = Unread \/ StatusSaid(S, got[q], q)
  BY <1>2, <1>3
<1>5. last => StatusBacked(S, got, world)
  BY <1>2, <1>4, StatusWorldSaid DEF StatusBacked, StatusInv
<1>6. /\ f.got = got /\ f.w = world /\ (f.st = "ready" => last)
      /\ f.said = S /\ DOMAIN f = {"st", "w", "got", "said"}
  OBVIOUS
<1> HIDE DEF f, got, old, last, S
<1>7. StatusServed(f, SaidBy(disk, world))
  BY <1>2, <1>4, <1>5, <1>6 DEF StatusRead, StatusServed
<1>8. StatusShown(data')
  BY <1>1 DEF StatusInv
<1> QED BY <1>1, <1>7, <1>8, StatusSlot

\* Show keeps the invariant.
LEMMA StatusShow ==
  ASSUME StatusInv, NEW i \in Slots, Show(i)
  PROVE  StatusInv'
<1> DEFINE f == flight[i]
<1>1. /\ f.st = "ready" /\ flight' = [flight EXCEPT ![i] = Idle]
      /\ data' = [main |-> PanelAnswer(f.got, f.w),
                  side |-> SideAnswer(f.got, f.w), said |-> f.said]
      /\ UNCHANGED <<panel, hot, disk, world>>
  BY DEF Show
<1>2. StatusBacked(f.said, f.got, f.w)
  BY <1>1 DEF StatusInv, StatusServed, StatusRead
<1>3. /\ DOMAIN data' = {"main", "side", "said"}
      /\ data'.main = PanelAnswer(f.got, f.w)
      /\ data'.side = SideAnswer(f.got, f.w)
      /\ data'.said = f.said
  BY <1>1
<1>4. StatusShown(data')
  BY <1>2, <1>3 DEF StatusShown
<1>5. StatusServed(Idle, SaidBy(disk, world))
  BY StatusIdle DEF Idle
<1> QED BY <1>1, <1>4, <1>5, StatusSlot

\* ShowNothing keeps the invariant.
LEMMA StatusShowNothing ==
  ASSUME StatusInv, NEW i \in Slots, ShowNothing(i)
  PROVE  StatusInv'
<1>1. /\ flight' = [flight EXCEPT ![i] = Idle]
      /\ data' \in {data, [data EXCEPT !.main = None]}
      /\ UNCHANGED <<panel, hot, disk, world>>
  BY DEF ShowNothing
<1>2. /\ DOMAIN data' = {"main", "side", "said"} /\ data'.side = data.side
      /\ data'.main \in {data.main, None} /\ data'.said = data.said
  BY <1>1 DEF StatusInv, StatusShown
<1>3. StatusShown(data')
  BY <1>2 DEF StatusShown, StatusInv
<1>4. StatusServed(Idle, SaidBy(disk, world))
  BY StatusIdle DEF Idle
<1> QED BY <1>1, <1>3, <1>4, StatusSlot

\* RequestFails keeps the invariant.
LEMMA StatusFails ==
  ASSUME StatusInv, NEW i \in Slots, RequestFails(i)
  PROVE  StatusInv'
<1>1. PICK st \in {"refused", "lost"} :
        flight' = [flight EXCEPT ![i] = [st |-> st, w |-> world]]
  BY DEF RequestFails
<1>2. StatusServed([st |-> st, w |-> world], SaidBy(disk, world))
  BY StatusIdle
<1>3. /\ StatusShown(data')
      /\ UNCHANGED <<panel, hot, disk, world>>
  BY DEF RequestFails, StatusInv
<1> QED BY <1>1, <1>2, <1>3, StatusSlot

\* Every step keeps the invariant.
LEMMA StatusNextInv ==
  ASSUME StatusInv, [PanelNext]_panelVars
  PROVE  StatusInv'
<1>1. CASE UNCHANGED <<panel, hot, disk, world, flight, data>>
  <2>1. /\ DOMAIN disk' = DOMAIN disk /\ DOMAIN flight' = Slots
        /\ StatusShown(data')
        /\ \A i \in Slots : StatusServed(flight'[i], SaidBy(disk', world'))
    BY <1>1 DEF StatusInv
  <2> QED BY <1>1, <2>1, StatusServes
<1>2. ASSUME NEW r \in hot, BeginWrite(r) \/ FinishWrite(r)
      PROVE  StatusInv'
  <2>1. /\ DOMAIN disk' = DOMAIN disk /\ world' = world
        /\ flight' = Heard(disk', world)
        /\ UNCHANGED <<panel, hot, data>>
    BY <1>2 DEF BeginWrite, FinishWrite
  <2> QED BY <2>1, StatusSays
<1>3. ASSUME NEW t \in Tabs, PickTab(t) PROVE StatusInv'
  BY <1>1, <1>3 DEF PickTab
<1>4. ASSUME NEW i \in Slots, Serve(i) \/ RequestFails(i)
      PROVE  StatusInv'
  BY <1>4, StatusReadReport, StatusShow, StatusShowNothing, StatusFails
     DEF Serve
<1>5. CASE WorldMoves
  <2>1. /\ disk' = disk /\ UNCHANGED <<panel, hot, data>>
        /\ flight' = Heard(disk, world')
    BY <1>5 DEF WorldMoves
  <2> QED BY <2>1, StatusSays
<1>6. CASE PanelPoll \/ Refresh
  BY <1>6, StatusSend DEF PanelPoll, Refresh
<1>7. CASE UNCHANGED panelVars
  BY <1>1, <1>7 DEF panelVars
<1> QED BY <1>2, <1>3, <1>4, <1>5, <1>6, <1>7 DEF PanelNext

\* Whatever is read, under way or shown was said by a report or the system
\* while its request was served.
THEOREM StatusInvariant == PanelSpec => []StatusInv
<1>1. PanelInit => StatusInv
  BY StatusInitInv
<1>2. StatusInv /\ [PanelNext]_panelVars => StatusInv'
  BY StatusNextInv
<1> QED BY <1>1, <1>2, PTL DEF PanelSpec

-----------------------------------------------------------------------------
StatusGreens(f) == {l \in DOMAIN f : f[l] = "green"}

\* A lamp of two parts is green in one of them.
LEMMA StatusBeside ==
  ASSUME NEW f, NEW g
  PROVE  StatusGreens(Beside(f, g)) \subseteq
           StatusGreens(f) \union StatusGreens(g)
  BY DEF Beside, StatusGreens

\* What a green lamp may rest on.
StatusTold(got) ==
  \A r \in Reads[panel] :
    /\ LampOf(got[r]) = "green" => Fact(r, "pass") \in data.said
    /\ Passes(got[r]) => Fact(r, "pass") \in data.said
    /\ got[r] # None /\ got[r].pass => Fact(r, "pass") \in data.said
    /\ got[r] # None /\ got[r].flag => Fact(r, "flag") \in data.said
    /\ Flagged(got[r]) => Fact(r, "flag") \in data.said
    /\ More(got[r]) => Fact(r, "more") \in data.said

\* What was read has been said.
LEMMA StatusFacts ==
  ASSUME NEW got, NEW w, StatusBacked(data.said, got, w)
  PROVE  StatusTold(got) /\ StatusSeen(data.said, w)
  BY DEF StatusBacked, StatusSaid, StatusTold, LampOf, Lamp, Passes, Flagged,
         More

\* The lamps of the edge panel.
LEMMA StatusEdge ==
  ASSUME StatusInv, panel = "edge",
         NEW l \in StatusGreens(Lamps) \ {"queue", "intel"}
  PROVE  BackedBy(l) \intersect data.said # {}
<1> DEFINE a == data.main
<1>1. \/ l \in StatusGreens(EdgeHead(a))
      \/ l \in StatusGreens(EdgeChips(a))
      \/ l \in StatusGreens(EdgeRows(a))
  <2>1. Lamps = Beside(EdgeHead(a),
                       Beside(EdgeChips(a), EdgeRows(a)))
    BY DEF Lamps
  <2> QED BY <2>1, StatusBeside
<1>2. CASE a = None
  <2>1. /\ EdgeHead(a) = [badge |-> "none"]
        /\ EdgeChips(a) = [ipc |-> "warn", nginx |-> "warn"]
        /\ DOMAIN EdgeRows(a) = {}
    BY <1>2 DEF EdgeHead, EdgeChips, EdgeRows, NoLamps, Green
  <2> QED BY <1>1, <2>1 DEF StatusGreens
<1>3. CASE a # None
  <2>1. PICK got, w : StatusBacked(data.said, got, w) /\ a = EdgeStatus(got, w)
    BY <1>3 DEF StatusInv, StatusShown, PanelAnswer
  <2>2. /\ EdgeHead(a) = [badge |-> Green(a.mode = "live")]
        /\ EdgeChips(a) = [gate |-> a.gate, ipc |-> a.ipc,
                           nginx |-> Lamp(a.nginx),
                           relay |-> a.relay, smoke |-> a.smoke]
        /\ EdgeRows(a) = [checklist |-> a.checklist, e9 |-> a.e9,
                          intel |-> a.intel]
    BY <1>3 DEF EdgeHead, EdgeChips, EdgeRows, Green
  <2> HIDE DEF a
  <2>3. \/ l = "badge" /\ a.mode = "live"
        \/ l = "gate" /\ a.gate = "green"
        \/ l = "ipc" /\ a.ipc = "green"
        \/ l = "nginx" /\ a.nginx
        \/ l = "relay" /\ a.relay = "green"
        \/ l = "smoke" /\ a.smoke = "green"
        \/ l = "checklist" /\ a.checklist = "green"
        \/ l = "e9" /\ a.e9 = "green"
    BY <1>1, <2>2 DEF StatusGreens, Green, Lamp
  <2>4. /\ a.gate = LampOf(got["gate"])
        /\ a.nginx => More(got["gate"])
        /\ a.relay = LampOf(got["relay"])
        /\ a.checklist = LampOf(got["checklist"])
        /\ a.e9 = LampOf(got["e9"])
    BY <2>1 DEF EdgeStatus
  <2>5. a.mode = "live" => Passes(got["gate"])
    BY <2>1 DEF EdgeStatus
  <2>6. a.ipc = "green" => \/ got["gate"] # None /\ got["gate"].flag
                           \/ Flagged(got["status"])
    BY <2>1 DEF EdgeStatus, Lamp
  <2>7. a.smoke = "green" => got["smoke"] # None /\ got["smoke"].pass
    BY <2>1 DEF EdgeStatus, Lamp
  <2>8. {"gate", "status", "relay", "smoke", "checklist", "e9"}
          \subseteq Reads[panel]
    BY DEF Reads
  <2>9. StatusTold(got)
    BY <2>1, StatusFacts
  <2> USE DEF StatusTold
  <2>10. CASE l = "badge" /\ a.mode = "live"
    BY <2>10, <2>5, <2>8, <2>9 DEF BackedBy
  <2>11. CASE l = "gate" /\ a.gate = "green"
    BY <2>11, <2>4, <2>8, <2>9 DEF BackedBy
  <2>12. CASE l = "ipc" /\ a.ipc = "green"
    BY <2>12, <2>6, <2>8, <2>9 DEF BackedBy
  <2>13. CASE l = "smoke" /\ a.smoke = "green"
    BY <2>13, <2>7, <2>8, <2>9 DEF BackedBy
  <2>14. CASE l \in {"relay", "checklist", "e9"}
    BY <2>14, <2>3, <2>4, <2>8, <2>9 DEF BackedBy
  <2>15. CASE l = "nginx" /\ a.nginx
    BY <2>15, <2>4, <2>8, <2>9 DEF BackedBy
  <2> QED BY <2>3, <2>10, <2>11, <2>12, <2>13, <2>14, <2>15
<1> QED BY <1>2, <1>3

\* The lamps of the fleet panel.
LEMMA StatusFleet ==
  ASSUME StatusInv, panel = "fleet",
         NEW l \in StatusGreens(Lamps) \ {"queue", "intel"}
  PROVE  BackedBy(l) \intersect data.said # {}
<1> DEFINE a == data.main
<1>1. \/ l \in StatusGreens(FleetChips(a))
      \/ l \in StatusGreens(FleetRows(a))
  <2>1. Lamps = Beside(FleetChips(a), FleetRows(a))
    BY DEF Lamps
  <2> QED BY <2>1, StatusBeside
<1>2. CASE a = None
  <2>1. /\ DOMAIN FleetChips(a) = {}
        /\ FleetRows(a) = [agents |-> "none", shadow |-> "none",
                           prune |-> "none"]
    BY <1>2 DEF FleetChips, FleetRows, NoLamps, Green
  <2> QED BY <1>1, <2>1 DEF StatusGreens
<1>3. CASE a # None
  <2>1. PICK got, w : /\ StatusBacked(data.said, got, w)
                      /\ a = FleetOfflineStatus(got, w)
    BY <1>3 DEF StatusInv, StatusShown, PanelAnswer
  <2>2. /\ FleetChips(a) =
             [gate |-> a.gate, queue |-> Lamp(a.pending = 0),
              report |-> IF a.stale THEN "warn" ELSE "none"]
        /\ FleetRows(a) =
             [agents |-> Green(a.online), shadow |-> Green(a.shadow),
              prune |-> IF a.pending > 0 THEN "warn" ELSE "none"]
    BY <1>3 DEF FleetChips, FleetRows, Green
  <2> HIDE DEF a
  <2>3. \/ l = "gate" /\ a.gate = "green"
        \/ l = "shadow" /\ a.shadow
        \/ l = "agents" /\ a.online
    BY <1>1, <2>2 DEF StatusGreens, Green
  <2>4. a.gate = "green" => Passes(got["fleet"])
    BY <2>1 DEF FleetOfflineStatus, Lamp
  <2>5. /\ a.shadow => Flagged(got["remote"])
        /\ a.online => w.db /\ w.online > 0
    BY <2>1 DEF FleetOfflineStatus, buildVpsFleetShadow
  <2>6. {"fleet", "remote"} \subseteq Reads[panel]
    BY DEF Reads
  <2>7. StatusTold(got) /\ StatusSeen(data.said, w)
    BY <2>1, StatusFacts
  <2>8. CASE l = "gate" /\ a.gate = "green"
    BY <2>8, <2>4, <2>6, <2>7 DEF StatusTold, BackedBy
  <2>9. CASE l = "shadow" /\ a.shadow
    BY <2>9, <2>5, <2>6, <2>7 DEF StatusTold, BackedBy
  <2>10. CASE l = "agents" /\ a.online
    <3>1. Fact("database", "online") \in data.said
      BY <2>10, <2>5, <2>7 DEF StatusSeen
    <3> QED BY <2>10, <3>1 DEF BackedBy
  <2> QED BY <2>3, <2>8, <2>9, <2>10
<1> QED BY <1>2, <1>3

\* The lamps of the ban API panel.
LEMMA StatusBanApi ==
  ASSUME StatusInv, panel = "banapi",
         NEW l \in StatusGreens(Lamps) \ {"queue", "intel"}
  PROVE  BackedBy(l) \intersect data.said # {}
<1> DEFINE a == data.main
<1>1. \/ l \in StatusGreens(BanApiChips(a))
      \/ l \in StatusGreens(BanApiRows(a))
  <2>1. Lamps = Beside(BanApiChips(a), BanApiRows(a))
    BY DEF Lamps
  <2> QED BY <2>1, StatusBeside
<1>2. CASE a = None
  <2>1. /\ DOMAIN BanApiChips(a) = {}
        /\ BanApiRows(a) = [soar |-> "none", banPass |-> "none",
                            button |-> "warn"]
    BY <1>2 DEF BanApiChips, BanApiRows, NoLamps, Green
  <2> QED BY <1>1, <2>1 DEF StatusGreens
<1>3. CASE a # None
  <2>1. PICK got, w : StatusBacked(data.said, got, w) /\ a = BanApiStatus(got, w)
    BY <1>3 DEF StatusInv, StatusShown, PanelAnswer
  <2>2. /\ BanApiChips(a) =
             [host |-> a.path, bridge |-> a.path, apiRelay |-> a.path,
              docker |-> a.path, metrics |-> a.metrics,
              relay |-> a.relay, gate |-> a.gate, expiry |-> a.expiry]
        /\ BanApiRows(a) =
             [soar |-> Green(a.soar /\ a.verified),
              banPass |-> Green(a.banPass),
              button |-> IF a.soar THEN "none" ELSE "warn"]
    BY <1>3 DEF BanApiChips, BanApiRows, Green
  <2> HIDE DEF a
  <2>3. \/ l \in {"host", "bridge", "apiRelay", "docker"} /\ a.path = "green"
        \/ l = "metrics" /\ a.metrics = "green"
        \/ l = "relay" /\ a.relay = "green"
        \/ l = "gate" /\ a.gate = "green"
        \/ l = "expiry" /\ a.expiry = "green"
        \/ l = "soar" /\ a.verified
        \/ l = "banPass" /\ a.banPass
    BY <1>1, <2>2 DEF StatusGreens, Green
  <2> DEFINE path == \/ got["dashban"] # None /\ got["dashban"].flag
                     \/ Passes(got["caddy"])
  <2>4. a.path = "green" => path
    BY <2>1 DEF BanApiStatus, Lamp
  <2>5. a.metrics = "green" => w.up \/ path
    BY <2>1 DEF BanApiStatus, Lamp
  <2>6. /\ a.relay = LampOf(got["relay"])
        /\ a.gate = "green" => Passes(got["soar"])
        /\ a.expiry = "green" => Passes(got["expiry"])
    BY <2>1 DEF BanApiStatus, Lamp
  <2>7. a.verified => \/ got["mtls"] # None /\ got["mtls"].pass
                      \/ Passes(got["caddy"])
    BY <2>1 DEF BanApiStatus
  <2>15. a.banPass => \/ got["dashban"] # None /\ got["dashban"].pass
                      \/ More(got["caddy"])
    BY <2>1 DEF BanApiStatus
  <2>8. {"caddy", "dashban", "mtls", "soar", "expiry", "relay"}
          \subseteq Reads[panel]
    BY DEF Reads
  <2>9. StatusTold(got) /\ (w.up => Fact("analyzer", "up") \in data.said)
    BY <2>1, StatusFacts DEF StatusSeen
  <2>10. path => \/ Fact("dashban", "flag") \in data.said
                 \/ Fact("caddy", "pass") \in data.said
    BY <2>8, <2>9 DEF StatusTold
  <2> HIDE DEF path
  <2>11. CASE l \in {"host", "bridge", "apiRelay", "docker"} /\ a.path = "green"
    BY <2>11, <2>4, <2>10 DEF BackedBy
  <2>12. CASE l = "metrics" /\ a.metrics = "green"
    BY <2>12, <2>5, <2>9, <2>10 DEF BackedBy
  <2>13. CASE l \in {"relay", "gate", "expiry"}
    BY <2>13, <2>3, <2>6, <2>8, <2>9 DEF StatusTold, BackedBy
  <2>14. CASE l = "soar" /\ a.verified
    BY <2>14, <2>7, <2>8, <2>9 DEF StatusTold, BackedBy
  <2>16. CASE l = "banPass" /\ a.banPass
    BY <2>16, <2>15, <2>8, <2>9 DEF StatusTold, BackedBy
  <2> QED BY <2>3, <2>11, <2>12, <2>13, <2>14, <2>16
<1> QED BY <1>2, <1>3

\* The lamps of the VPS panel.
LEMMA StatusVps ==
  ASSUME StatusInv, panel = "vps",
         NEW l \in StatusGreens(Lamps) \ {"queue", "intel"}
  PROVE  BackedBy(l) \intersect data.said # {}
<1> DEFINE a == data.main
<1>1. \/ l \in StatusGreens(VpsChips(a))
      \/ l \in StatusGreens(VpsRows(a))
  <2>1. Lamps = Beside(VpsChips(a), VpsRows(a))
    BY DEF Lamps
  <2> QED BY <2>1, StatusBeside
<1>2. CASE a = None
  <2>1. /\ VpsChips(a) = [gate |-> "warn"]
        /\ VpsRows(a) = [title |-> "none", handsOff |-> "none",
                         host |-> "warn"]
    BY <1>2 DEF VpsChips, VpsRows, Green
  <2> QED BY <1>1, <2>1 DEF StatusGreens
<1>3. CASE a # None
  <2>1. PICK got, w : StatusBacked(data.said, got, w) /\ a = VpsPrepStatus(got)
    BY <1>3 DEF StatusInv, StatusShown, PanelAnswer
  <2>2. /\ VpsChips(a) =
             [gate |-> a.gate, remote |-> Green(a.ssh),
              soak |-> Green(a.soak)]
        /\ VpsRows(a) =
             [title |-> Green(a.ssh /\ a.soak), handsOff |-> Green(a.soak),
              host |-> IF a.laptop /\ ~a.ssh THEN "warn" ELSE "none"]
    BY <1>3 DEF VpsChips, VpsRows, Green
  <2> HIDE DEF a
  <2>3. \/ l = "gate" /\ a.gate = "green"
        \/ l \in {"remote", "title"} /\ a.ssh
        \/ l \in {"soak", "handsOff"} /\ a.soak
    BY <1>1, <2>2 DEF StatusGreens, Green
  <2>4. a.gate = "green" => Passes(got["prep"])
    BY <2>1 DEF VpsPrepStatus, Lamp
  <2>5. /\ a.ssh => Flagged(got["remote"])
        /\ a.soak => More(got["remote"])
    BY <2>1 DEF VpsPrepStatus
  <2>6. {"prep", "remote"} \subseteq Reads[panel]
    BY DEF Reads
  <2>7. StatusTold(got)
    BY <2>1, StatusFacts
  <2>8. CASE l = "gate" /\ a.gate = "green"
    BY <2>8, <2>4, <2>6, <2>7 DEF StatusTold, BackedBy
  <2>9. CASE l \in {"remote", "title"} /\ a.ssh
    BY <2>9, <2>5, <2>6, <2>7 DEF StatusTold, BackedBy
  <2>10. CASE l \in {"soak", "handsOff"} /\ a.soak
    BY <2>10, <2>5, <2>6, <2>7 DEF StatusTold, BackedBy
  <2> QED BY <2>3, <2>8, <2>9, <2>10
<1> QED BY <1>2, <1>3

\* The lamps of the webhook panel.
LEMMA StatusWebhook ==
  ASSUME StatusInv, panel = "webhook",
         NEW l \in StatusGreens(Lamps) \ {"queue", "intel"}
  PROVE  BackedBy(l) \intersect data.said # {}
<1> DEFINE a == data.main
<1>1. \/ l \in StatusGreens(WebhookChips(a))
      \/ l \in StatusGreens(WebhookRows(a))
  <2>1. Lamps = Beside(WebhookChips(a), WebhookRows(a))
    BY DEF Lamps
  <2> QED BY <2>1, StatusBeside
<1>2. CASE a = None
  <2>1. /\ DOMAIN WebhookChips(a) = {}
        /\ WebhookRows(a) = [route |-> "none"]
    BY <1>2 DEF WebhookChips, WebhookRows, NoLamps, Green
  <2> QED BY <1>1, <2>1 DEF StatusGreens
<1>3. CASE a # None
  <2>1. PICK got, w : StatusBacked(data.said, got, w) /\ a = WebhookOps(got, w)
    BY <1>3 DEF StatusInv, StatusShown, PanelAnswer
  <2>2. /\ WebhookChips(a) =
             [live |-> Green(a.mode = "live"),
              proof |-> IF a.proof /\ a.mode # "live"
                        THEN "warn" ELSE "none",
              production |-> Green(a.production),
              undo |-> Green(a.undo)]
        /\ WebhookRows(a) = [route |-> Green(a.route)]
    BY <1>3 DEF WebhookChips, WebhookRows, Green
  <2> HIDE DEF a
  <2>3. \/ l = "live" /\ a.mode = "live"
        \/ l = "production" /\ a.production
        \/ l = "undo" /\ a.undo
        \/ l = "route" /\ a.route
    BY <1>1, <2>2 DEF StatusGreens, Green
  <2>4. a.mode = "live" => \/ w.up
                           \/ Flagged(got["status"])
    BY <2>1 DEF WebhookOps
  <2>5. /\ a.production => More(got["proof"])
        /\ a.undo => Passes(got["undo"])
    BY <2>1 DEF WebhookOps
  <2>6. a.route => \/ Passes(got["status"])
                   \/ w.up /\ w.route
                   \/ Flagged(got["proof"])
    BY <2>1 DEF WebhookOps
  <2>7. {"status", "proof", "undo"} \subseteq Reads[panel]
    BY DEF Reads
  <2>8. /\ StatusTold(got)
        /\ w.up => Fact("analyzer", "up") \in data.said
        /\ w.up /\ w.route => Fact("analyzer", "route") \in data.said
    BY <2>1, StatusFacts DEF StatusSeen
  <2>9. CASE l = "live" /\ a.mode = "live"
    BY <2>9, <2>4, <2>7, <2>8 DEF StatusTold, BackedBy
  <2>10. CASE l \in {"production", "undo"}
    BY <2>10, <2>3, <2>5, <2>7, <2>8 DEF StatusTold, BackedBy
  <2>11. CASE l = "route" /\ a.route
    BY <2>11, <2>6, <2>7, <2>8 DEF StatusTold, BackedBy
  <2> QED BY <2>3, <2>9, <2>10, <2>11
<1> QED BY <1>2, <1>3

\* The lamps of the morning panel, which is fed by two routes.
LEMMA StatusMorning ==
  ASSUME StatusInv, panel = "morning",
         NEW l \in StatusGreens(Lamps) \ {"queue", "intel"}
  PROVE  BackedBy(l) \intersect data.said # {}
<1> DEFINE a == data.main
<1> DEFINE s == data.side
<1>1. \/ l \in StatusGreens(MorningChips(a, s))
      \/ l \in StatusGreens(MorningRows(a))
  <2>1. Lamps = Beside(MorningChips(a, s), MorningRows(a))
    BY DEF Lamps
  <2> QED BY <2>1, StatusBeside
<1>2. \/ l = "gate" /\ a # None /\ a.gate = "green"
      \/ l = "smoke" /\ s # None /\ s.gate = "green"
      \/ l = "smoke" /\ a # None /\ a.smokeOk
      \/ l = "ticks" /\ a # None /\ a.checked
  BY <1>1 DEF StatusGreens, MorningChips, MorningRows, Green
<1>3. {"morning", "smoke"} \subseteq Reads[panel]
  BY DEF Reads
<1>4. CASE /\ a # None
           /\ \/ l = "gate" /\ a.gate = "green"
              \/ l = "smoke" /\ a.smokeOk
              \/ l = "ticks" /\ a.checked
  <2>1. PICK got, w : StatusBacked(data.said, got, w) /\ a = MorningStatus(got)
    BY <1>4 DEF StatusInv, StatusShown, PanelAnswer
  <2> HIDE DEF a
  <2>2. /\ a.gate = LampOf(got["morning"])
        /\ a.smokeOk => Flagged(got["morning"])
        /\ a.checked => More(got["morning"])
    BY <2>1 DEF MorningStatus
  <2>3. StatusTold(got)
    BY <2>1, StatusFacts
  <2> QED BY <1>3, <1>4, <2>2, <2>3 DEF StatusTold, BackedBy
<1>5. CASE l = "smoke" /\ s # None /\ s.gate = "green"
  <2>1. PICK got, w : StatusBacked(data.said, got, w) /\ s = EpsSmokeStatus(got)
    BY <1>5 DEF StatusInv, StatusShown, SideAnswer
  <2> HIDE DEF s
  <2>2. s.gate = "green" => got["smoke"] # None /\ got["smoke"].pass
    BY <2>1 DEF EpsSmokeStatus, Lamp
  <2>3. StatusTold(got)
    BY <2>1, StatusFacts
  <2> QED BY <1>3, <1>5, <2>2, <2>3 DEF StatusTold, BackedBy
<1> QED BY <1>2, <1>4, <1>5

\* The lamp of the e9 panel.
LEMMA StatusE9 ==
  ASSUME StatusInv, panel = "e9",
         NEW l \in StatusGreens(Lamps) \ {"queue", "intel"}
  PROVE  BackedBy(l) \intersect data.said # {}
<1> DEFINE a == data.main
<1>1. l \in StatusGreens(E9Chips(a))
  BY DEF Lamps
<1>2. a # None
  BY <1>1 DEF StatusGreens, E9Chips, NoLamps
<1>3. PICK got, w : StatusBacked(data.said, got, w) /\ a = E9Status(got)
  BY <1>2 DEF StatusInv, StatusShown, PanelAnswer
<1>4. E9Chips(a) = [gate |-> a.gate, ticks |-> Green(a.checked)]
  BY <1>2 DEF E9Chips
<1> HIDE DEF a
<1>5. \/ l = "gate" /\ a.gate = "green"
      \/ l = "ticks" /\ a.checked
  BY <1>1, <1>4 DEF StatusGreens, Green
<1>6. a.gate = LampOf(got["e9"]) /\ (a.checked => More(got["e9"]))
  BY <1>3 DEF E9Status, Lamp
<1>7. {"e9"} \subseteq Reads[panel]
  BY DEF Reads
<1>8. StatusTold(got)
  BY <1>3, StatusFacts
<1> QED BY <1>5, <1>6, <1>7, <1>8 DEF StatusTold, BackedBy

\* The lamps of the benchmark panel.
LEMMA StatusCompetitive ==
  ASSUME StatusInv, panel = "competitive",
         NEW l \in StatusGreens(Lamps) \ {"queue", "intel"}
  PROVE  BackedBy(l) \intersect data.said # {}
<1> DEFINE a == data.main
<1>1. l \in StatusGreens(CompetitiveChips(a))
  BY DEF Lamps
<1>2. a # None /\ a.available
  BY <1>1 DEF StatusGreens, CompetitiveChips, NoLamps
<1>3. PICK got, w : StatusBacked(data.said, got, w) /\ a = BenchMetrics(got)
  BY <1>2 DEF StatusInv, StatusShown, PanelAnswer
<1>4. CompetitiveChips(a) = [ban |-> a.ban, fp |-> a.fp]
  BY <1>2 DEF CompetitiveChips
<1> HIDE DEF a
<1>5. \/ l = "ban" /\ a.ban = "green"
      \/ l = "fp" /\ a.fp = "green"
  BY <1>1, <1>4 DEF StatusGreens
<1>6. a.ban = LampOf(got["ban"]) /\ a.fp = LampOf(got["fp"])
  BY <1>3 DEF BenchMetrics, Lamp
<1>7. {"ban", "fp"} \subseteq Reads[panel]
  BY DEF Reads
<1>8. StatusTold(got)
  BY <1>3, StatusFacts
<1> QED BY <1>5, <1>6, <1>7, <1>8 DEF StatusTold, BackedBy

\* The lamp of the false positive panel.
LEMMA StatusFp ==
  ASSUME StatusInv, panel = "fp",
         NEW l \in StatusGreens(Lamps) \ {"queue", "intel"}
  PROVE  BackedBy(l) \intersect data.said # {}
<1> DEFINE a == data.main
<1>1. l \in StatusGreens(FpChips(a))
  BY DEF Lamps
<1>2. a # None /\ a.available
  BY <1>1 DEF StatusGreens, FpChips, NoLamps
<1>3. PICK got, w : StatusBacked(data.said, got, w) /\ a = FpMetrics(got)
  BY <1>2 DEF StatusInv, StatusShown, PanelAnswer
<1>4. FpChips(a) = [rate |-> a.rate, trust |-> Lamp(a.warmed)]
  BY <1>2 DEF FpChips
<1> HIDE DEF a
<1>5. \/ l = "rate" /\ a.rate = "green"
      \/ l = "trust" /\ a.warmed
  BY <1>1, <1>4 DEF StatusGreens, Lamp
<1>6. a.rate = LampOf(got["fp"]) /\ (a.warmed => Flagged(got["fp"]))
  BY <1>3 DEF FpMetrics, Lamp
<1>7. {"fp"} \subseteq Reads[panel]
  BY DEF Reads
<1>8. StatusTold(got)
  BY <1>3, StatusFacts
<1> QED BY <1>5, <1>6, <1>7, <1>8 DEF StatusTold, BackedBy

\* The lamps of the lineage panel.
LEMMA StatusLineage ==
  ASSUME StatusInv, panel = "lineage",
         NEW l \in StatusGreens(Lamps) \ {"queue", "intel"}
  PROVE  BackedBy(l) \intersect data.said # {}
<1> DEFINE a == data.main
<1>1. l \in StatusGreens(LineageChips(a))
  BY DEF Lamps
<1>2. a # None
  BY <1>1 DEF StatusGreens, LineageChips, NoLamps
<1>3. PICK got, w : StatusBacked(data.said, got, w) /\ a = LineageL7(got)
  BY <1>2 DEF StatusInv, StatusShown, PanelAnswer
<1>4. LineageChips(a) = [live |-> Green(a.live), wasm |-> a.wasm]
  BY <1>2 DEF LineageChips
<1> HIDE DEF a
<1>5. \/ l = "live" /\ a.live
      \/ l = "wasm" /\ a.wasm = "green"
  BY <1>1, <1>4 DEF StatusGreens, Green
<1>6. /\ a.live => Flagged(got["status"])
      /\ a.wasm = "green" => \/ got["wasm"] # None /\ got["wasm"].pass
                             \/ Passes(got["status"])
  BY <1>3 DEF LineageL7, Lamp
<1>7. {"status", "wasm"} \subseteq Reads[panel]
  BY DEF Reads
<1>8. StatusTold(got)
  BY <1>3, StatusFacts
<1> QED BY <1>5, <1>6, <1>7, <1>8 DEF StatusTold, BackedBy

\* The summary of the gates, shown by the strip and by the tabs.
LEMMA StatusGates ==
  ASSUME NEW got, NEW w, StatusBacked(data.said, got, w),
         panel \in {"strip", "tabs"}, NEW a, a = GatesSummary(got),
         NEW l, \/ l = "morning" /\ a.morning = "green"
                \/ l = "fleet" /\ a.fleet = "green"
                \/ l = "vps" /\ a.vps = "green"
                \/ l = "e9" /\ a.e9 = "green"
                \/ l = "relay" /\ a.relay = "green"
                \/ l = "smoke" /\ a.smoke = "green"
  PROVE  BackedBy(l) \intersect data.said # {}
<1>1. /\ a.morning = LampOf(got["morning"])
      /\ a.fleet = LampOf(got["fleet"])
      /\ a.e9 = LampOf(got["e9"])
      /\ a.relay = LampOf(got["relay"])
  BY DEF GatesSummary
<1>2. a.vps = "green" => \/ Passes(got["prep"])
                         \/ Flagged(got["remote"])
  BY DEF GatesSummary, Lamp
<1>3. a.smoke = "green" => got["smoke"] # None /\ got["smoke"].pass
  BY DEF GatesSummary, Lamp
<1>4. {"morning", "fleet", "remote", "prep", "e9", "relay", "smoke"}
        \subseteq Reads[panel]
  BY DEF Reads
<1>5. StatusTold(got)
  BY StatusFacts
<1>6. CASE l \in {"morning", "fleet", "e9", "relay"}
  BY <1>1, <1>4, <1>5, <1>6 DEF StatusTold, BackedBy
<1>7. CASE l = "vps"
  BY <1>2, <1>4, <1>5, <1>7 DEF StatusTold, BackedBy
<1>8. CASE l = "smoke"
  BY <1>3, <1>4, <1>5, <1>8 DEF StatusTold, BackedBy
<1> QED BY <1>6, <1>7, <1>8

\* The pills of the strip.
LEMMA StatusStrip ==
  ASSUME StatusInv, panel = "strip",
         NEW l \in StatusGreens(Lamps) \ {"queue", "intel"}
  PROVE  BackedBy(l) \intersect data.said # {}
<1> DEFINE a == data.main
<1> DEFINE s == data.side
           live == s # None /\ s.eps
<1>1. l \in StatusGreens(StripPills(a, live))
  BY DEF Lamps
<1>2. a # None
  BY <1>1 DEF StatusGreens, StripPills, NoLamps
<1>3. StripPills(a, live) =
        [morning |-> a.morning, fleet |-> a.fleet, vps |-> a.vps,
         e9 |-> a.e9, relay |-> a.relay,
         smoke |-> IF live THEN "green" ELSE a.smoke]
  BY <1>2 DEF StripPills
<1>4. PICK got, w : StatusBacked(data.said, got, w) /\ a = GatesSummary(got)
  BY <1>2 DEF StatusInv, StatusShown, PanelAnswer
<1>5. CASE l = "smoke" /\ live
  <2>1. PICK got1, w1 : StatusBacked(data.said, got1, w1) /\ s = MetricsLive(w1)
    BY <1>5 DEF StatusInv, StatusShown, SideAnswer
  <2>2. w1.up
    <3> HIDE DEF s
    <3> QED BY <1>5, <2>1 DEF MetricsLive
  <2> QED BY <1>5, <2>1, <2>2, StatusFacts DEF BackedBy, StatusSeen
<1>6. CASE ~(l = "smoke" /\ live)
  <2> HIDE DEF a, live
  <2>1. \/ l = "morning" /\ a.morning = "green"
        \/ l = "fleet" /\ a.fleet = "green"
        \/ l = "vps" /\ a.vps = "green"
        \/ l = "e9" /\ a.e9 = "green"
        \/ l = "relay" /\ a.relay = "green"
        \/ l = "smoke" /\ a.smoke = "green"
    BY <1>1, <1>3, <1>6 DEF StatusGreens
  <2> QED BY <1>4, <2>1, StatusGates
<1> QED BY <1>5, <1>6

\* The chips of the tabs.
LEMMA StatusTabs ==
  ASSUME StatusInv, panel = "tabs",
         NEW l \in StatusGreens(Lamps) \ {"queue", "intel"}
  PROVE  BackedBy(l) \intersect data.said # {}
<1> DEFINE a == data.main
<1>1. l \in StatusGreens(TabChips(a))
  BY DEF Lamps
<1>2. a # None
  BY <1>1 DEF StatusGreens, TabChips, NoLamps
<1>3. TabChips(a) =
        [morning |-> a.morning, fleet |-> a.fleet, vps |-> a.vps,
         e9 |-> a.e9, relay |-> a.relay, smoke |-> a.smoke]
  BY <1>2 DEF TabChips
<1>4. PICK got, w : StatusBacked(data.said, got, w) /\ a = GatesSummary(got)
  BY <1>2 DEF StatusInv, StatusShown, PanelAnswer
<1> HIDE DEF a
<1>5. \/ l = "morning" /\ a.morning = "green"
      \/ l = "fleet" /\ a.fleet = "green"
      \/ l = "vps" /\ a.vps = "green"
      \/ l = "e9" /\ a.e9 = "green"
      \/ l = "relay" /\ a.relay = "green"
      \/ l = "smoke" /\ a.smoke = "green"
  BY <1>1, <1>3 DEF StatusGreens
<1> QED BY <1>4, <1>5, StatusGates

\* No lamp is green by itself: the first whole copy of a report behind it, or
\* the running system, said so while the request that brought the answer
\* shown was served (the status routes, readJson and the panels).
THEOREM StatusGreenIsReported == PanelSpec => []GreenIsReported
<1>1. StatusInv => GreenIsReported
  <2> SUFFICES ASSUME StatusInv,
                      NEW l \in DOMAIN Lamps \ {"queue", "intel"},
                      Lamps[l] = "green"
               PROVE  BackedBy(l) \intersect data.said # {}
    BY DEF GreenIsReported
  <2>1. l \in StatusGreens(Lamps) \ {"queue", "intel"}
    BY DEF StatusGreens
  <2>2. panel \in {"edge", "fleet", "banapi", "vps", "morning", "webhook",
                   "e9", "competitive", "fp", "lineage", "strip", "tabs"}
    BY DEF StatusInv, Panels, Reads
  <2>3. CASE panel \in {"edge", "fleet", "banapi", "vps"}
    BY <2>1, <2>3, StatusEdge, StatusFleet, StatusBanApi, StatusVps
  <2>4. CASE panel \in {"morning", "webhook", "e9", "competitive"}
    BY <2>1, <2>4, StatusMorning, StatusWebhook, StatusE9, StatusCompetitive
  <2>5. CASE panel \in {"fp", "lineage", "strip", "tabs"}
    BY <2>1, <2>5, StatusFp, StatusLineage, StatusStrip, StatusTabs
  <2> QED BY <2>2, <2>3, <2>4, <2>5
<1> QED BY <1>1, StatusInvariant, PTL

-----------------------------------------------------------------------------
(***************************************************************************)
(* The board of validation tests.  That no test has two cards rests on the *)
(* rules of the groups never meeting (BoardGraded); what is listed then    *)
(* has no more cards than the proof, so that the statistics are never      *)
(* capped and a full count of green cards leaves no card of another grade. *)
(***************************************************************************)

\* The grade of the card n when it comes from reports R.
BoardGrade(R, n) ==
  CASE n = "mtls-cert-expiry" -> IF R[n].pass THEN "pass" ELSE "warn"
    [] n = "fp-rate" -> PassFail(R[n].rate < R[n].target)
    [] n = "soak-stability" -> soakStatus(R[readBestSoak(R)])
    [] n = "bench-eps" -> "pass"
    [] n = "ban-latency" -> IF R[n].measured
                            THEN PassFail(R[n].pass \/ R[n].rate <= R[n].target)
                            ELSE "pending"
    [] n = "live-pipeline" -> PassFail(R[n].ok /\ R[n].failures = 0)
    [] n = "intel-ban-db" -> IF R[n].pass THEN "pass" ELSE "warn"
    [] n = "vm-fleet-gate" -> PassFail(R[n].pass \/ R[n].skipped)
    [] n = "dashboard-live-demo" -> IF R[n].pass \/ R[n].ok THEN "pass"
                                    ELSE IF R[n].skipped THEN "warn" ELSE "fail"
    [] n = "wasm-native" -> IF R[n].mode = "native" /\ R[n].pass THEN "pass"
                            ELSE IF R[n].hasPass /\ ~R[n].pass THEN "fail"
                            ELSE "warn"
    [] n = "copilot-ollama" -> IF ~R[n].pass THEN "fail"
                               ELSE IF R[n].mode # "skip" /\ R[n].ok THEN "pass"
                               ELSE "warn"
    [] n = "marketplace-signed-api" ->
         IF ~R[n].pass THEN "fail"
         ELSE IF R[n].mode = "enterprise-live" /\ ~R[n].ok THEN "warn" ELSE "pass"
    [] n = "compliance-export" ->
         IF ~R[n].pass THEN "fail"
         ELSE IF R[n].mode \in {"tier_gate", "skip"} THEN "warn" ELSE "pass"
    [] n = "vps-xdp-kernel" ->
         IF ~R[n].pass THEN "fail"
         ELSE IF R[n].mode \in {"kernel-xdp", "skip"} THEN "pass" ELSE "warn"
    [] n = "arm64-build" ->
         IF ~R[n].pass THEN "fail"
         ELSE IF R[n].mode \notin {"dry-run", "skip"} /\ R[n].ok
              THEN "pass" ELSE "warn"
    [] n = "l7-probe-prod" -> IF ~R[n].pass THEN "fail"
                              ELSE IF R[n].ok THEN "pass" ELSE "warn"
    [] n \in {"k8s-admission", "k8s-kind-e2e"} ->
         IF ~R[n].pass THEN "fail"
         ELSE IF R[n].mode = "skip" THEN "warn" ELSE "pass"
    [] n = "mesh-etcd-docker" ->
         IF ~R[n].pass THEN "fail"
         ELSE IF R[n].mode = "docker-live" THEN "pass" ELSE "warn"
    [] OTHER -> PassFail(R[n].pass)

\* What a group of cards may hold: cards of reports, as they are graded.
BoardGrades(R) ==
  {Card(n, BoardGrade(R, n)) : n \in DOMAIN R \union {"soak-stability"}}

(* The groups whose reports are all taken at their word. *)
LEMMA BoardPlain ==
  ASSUME NEW R
  PROVE  /\ CorpusTests(R) \subseteq BoardGrades(R)
         /\ AttackTests(R) \subseteq BoardGrades(R)
         /\ NginxTests(R) \subseteq BoardGrades(R)
         /\ MutationTests(R) \subseteq BoardGrades(R)
         /\ MtlsTests(R) \subseteq BoardGrades(R)
         /\ ClusterTests(R) \subseteq BoardGrades(R)
         /\ TelegramTests(R) \subseteq BoardGrades(R)
         /\ HostTests(R) \subseteq BoardGrades(R)
         /\ ShipTests(R) \subseteq BoardGrades(R)
         /\ MorningTests(R) \subseteq BoardGrades(R)
         /\ FeedTests(R) \subseteq BoardGrades(R)
<1>1. CorpusTests(R) \subseteq BoardGrades(R)
  BY DEF CorpusTests, Plain, BoardGrades, BoardGrade
<1>2. AttackTests(R) \subseteq BoardGrades(R)
  BY DEF AttackTests, Plain, BoardGrades, BoardGrade
<1>3. NginxTests(R) \subseteq BoardGrades(R)
  BY DEF NginxTests, Plain, BoardGrades, BoardGrade
<1>4. MutationTests(R) \subseteq BoardGrades(R)
  BY DEF MutationTests, Plain, BoardGrades, BoardGrade
<1>5. MtlsTests(R) \subseteq BoardGrades(R)
  BY DEF MtlsTests, Plain, BoardGrades, BoardGrade
<1>6. ClusterTests(R) \subseteq BoardGrades(R)
  BY DEF ClusterTests, Plain, BoardGrades, BoardGrade
<1>7. TelegramTests(R) \subseteq BoardGrades(R)
  BY DEF TelegramTests, Plain, BoardGrades, BoardGrade
<1>8. HostTests(R) \subseteq BoardGrades(R)
  BY DEF HostTests, Plain, BoardGrades, BoardGrade
<1>9. ShipTests(R) \subseteq BoardGrades(R)
  BY DEF ShipTests, Plain, BoardGrades, BoardGrade
<1>10. MorningTests(R) \subseteq BoardGrades(R)
  BY DEF MorningTests, Plain, BoardGrades, BoardGrade
<1>11. FeedTests(R) \subseteq BoardGrades(R)
  BY DEF FeedTests, Plain, BoardGrades, BoardGrade
<1> QED
  BY <1>1, <1>2, <1>3, <1>4, <1>5, <1>6, <1>7, <1>8, <1>9, <1>10,
     <1>11

(* The groups with rules of their own: no two rules are about one test, and
   no test with a rule is also taken at its word. *)
LEMMA BoardRuled ==
  ASSUME NEW R
  PROVE  /\ HardeningTests(R) \subseteq BoardGrades(R)
         /\ RateTests(R) \subseteq BoardGrades(R)
         /\ BenchTests(R) \subseteq BoardGrades(R)
         /\ PipelineTests(R) \subseteq BoardGrades(R)
         /\ EdgeTests(R) \subseteq BoardGrades(R)
         /\ ReleaseTests(R) \subseteq BoardGrades(R)
         /\ DemoTests(R) \subseteq BoardGrades(R)
         /\ FleetTests(R) \subseteq BoardGrades(R)
         /\ OptionalTests(R) \subseteq BoardGrades(R)
         /\ PlatformTests(R) \subseteq BoardGrades(R)
         /\ StackTests(R) \subseteq BoardGrades(R)
         /\ RiskTests(R) \subseteq BoardGrades(R)
         /\ ClusterE2eTests(R) \subseteq BoardGrades(R)
<1>1. HardeningTests(R) \subseteq BoardGrades(R)
  BY DEF HardeningTests, Plain, ReportOf, BoardGrades, BoardGrade
<1>2. RateTests(R) \subseteq BoardGrades(R)
  BY DEF RateTests, Plain, ReportOf, BoardGrades, BoardGrade
<1>3. BenchTests(R) \subseteq BoardGrades(R)
  BY DEF BenchTests, Plain, ReportOf, BoardGrades, BoardGrade
<1>4. PipelineTests(R) \subseteq BoardGrades(R)
  BY DEF PipelineTests, Plain, ReportOf, BoardGrades, BoardGrade
<1>5. EdgeTests(R) \subseteq BoardGrades(R)
  BY DEF EdgeTests, Plain, ReportOf, BoardGrades, BoardGrade
<1>6. ReleaseTests(R) \subseteq BoardGrades(R)
  BY DEF ReleaseTests, Plain, ReportOf, BoardGrades, BoardGrade
<1>7. DemoTests(R) \subseteq BoardGrades(R)
  BY DEF DemoTests, Plain, ReportOf, BoardGrades, BoardGrade
<1>8. FleetTests(R) \subseteq BoardGrades(R)
  BY DEF FleetTests, Plain, ReportOf, BoardGrades, BoardGrade
<1>9. OptionalTests(R) \subseteq BoardGrades(R)
  BY DEF OptionalTests, Plain, ReportOf, BoardGrades, BoardGrade
<1>10. PlatformTests(R) \subseteq BoardGrades(R)
  BY DEF PlatformTests, ReportOf, BoardGrades, BoardGrade
<1>11. StackTests(R) \subseteq BoardGrades(R)
  BY DEF StackTests, Plain, ReportOf, BoardGrades, BoardGrade
<1>12. RiskTests(R) \subseteq BoardGrades(R)
  BY DEF RiskTests, Plain, ReportOf, BoardGrades, BoardGrade
<1>13. ClusterE2eTests(R) \subseteq BoardGrades(R)
  BY DEF ClusterE2eTests, Plain, ReportOf, BoardGrades, BoardGrade
<1> QED
  BY <1>1, <1>2, <1>3, <1>4, <1>5, <1>6, <1>7, <1>8, <1>9, <1>10,
     <1>11, <1>12, <1>13

(* The card of the longest soak. *)
LEMMA BoardSoak ==
  ASSUME NEW R
  PROVE  SoakTest(R) \subseteq BoardGrades(R)
  BY DEF SoakTest, BoardGrades, BoardGrade

(* Every grade is one of the four of TestStatus. *)
LEMMA BoardGradeType ==
  ASSUME NEW R, NEW n
  PROVE  BoardGrade(R, n) \in Statuses
  BY DEF BoardGrade, Statuses, PassFail, soakStatus

(* Every card comes from a report and is graded by its rule, whatever group
   it is in. *)
LEMMA BoardGraded ==
  ASSUME NEW R
  PROVE  evaluateValidationTests(R) \subseteq BoardGrades(R)
  BY BoardPlain, BoardRuled, BoardSoak DEF evaluateValidationTests

(* Cards with different ids, all of them in K, are no more than K has. *)
LEMMA BoardInto ==
  ASSUME NEW C, NEW K, IsFiniteSet(K),
         \A c \in C : c.id \in K,
         \A c, e \in C : c.id = e.id => c = e
  PROVE  /\ IsFiniteSet(C)
         /\ Cardinality(C) \in Nat
         /\ Cardinality(C) <= Cardinality(K)
<1> DEFINE f == [c \in C |-> c.id]
<1>1. f \in Injection(C, K)
  BY DEF Injection, IsInjective
<1> QED BY <1>1, FS_Injection, FS_CardinalityType

(* A list of cards has as many ids as cards. *)
LEMMA BoardIds ==
  ASSUME NEW P, DistinctCards(P)
  PROVE  /\ IsFiniteSet(P)
         /\ IsFiniteSet(Ids(P))
         /\ Cardinality(P) \in Nat
         /\ Cardinality(Ids(P)) = Cardinality(P)
<1> DEFINE f == [c \in P |-> c.id]
<1>1. IsFiniteSet(P)
  BY DEF DistinctCards
<1>2. f \in Surjection(P, Ids(P))
  BY DEF Surjection, Ids
<1>3. f \in Injection(P, Ids(P))
  BY DEF Injection, IsInjective, Ids, DistinctCards
<1> QED BY <1>1, <1>2, <1>3, FS_Surjection, FS_CardinalityType

(* A list of cards has cards that are told apart by their ids: what is left
   of it when it is cut down is one too. *)
LEMMA BoardPart ==
  ASSUME NEW C, DistinctCards(C), NEW D \in SUBSET C
  PROVE  DistinctCards(D)
<1>1. IsFiniteSet(D)
  BY BoardIds, FS_Subset
<1> QED BY <1>1 DEF DistinctCards

(* The reports are graded to a list: no test has two cards. *)
LEMMA BoardEvaluated ==
  ASSUME NEW R, IsFiniteSet(DOMAIN R)
  PROVE  DistinctCards(evaluateValidationTests(R))
<1> DEFINE C == evaluateValidationTests(R)
           K == DOMAIN R \union {"soak-stability"}
<1>1. IsFiniteSet(K)
  BY FS_AddElement
<1>2. \A c \in C : /\ c.id \in K
                   /\ c.status = BoardGrade(R, c.id)
                   /\ c = Card(c.id, c.status)
  BY BoardGraded DEF BoardGrades, Card
<1> HIDE DEF C, K
<1>3. \A c, e \in C : c.id = e.id => c = e
  BY <1>2
<1>4. \A c \in C : c.status \in Statuses
  BY <1>2, BoardGradeType
<1>5. IsFiniteSet(C)
  BY <1>1, <1>2, <1>3, BoardInto
<1>6. DistinctCards(C)
  BY <1>3, <1>4, <1>5 DEF DistinctCards
<1> QED BY <1>6 DEF C

(* Aligned with a proof, a list has the tests of the proof, each graded from
   its report where there is one. *)
LEMMA BoardAligned ==
  ASSUME NEW C, DistinctCards(C), NEW P, DistinctCards(P)
  PROVE  LET A == alignTestsToProof(C, P)
         IN  /\ DistinctCards(A)
             /\ Ids(A) = Ids(P)
             /\ Cardinality(A) = Cardinality(P)
             /\ \A c \in A, g \in C : g.id = c.id => g = c
             /\ \A c \in A : c \in C \/ (c \in P /\ c.id \notin Ids(C))
<1> DEFINE A == alignTestsToProof(C, P)
           Of(c) == IF c.id \in Ids(C)
                    THEN CHOOSE d \in C : d.id = c.id ELSE c
<1>1. A = {Of(c) : c \in P}
  BY DEF alignTestsToProof
<1>2. ASSUME NEW c \in P
      PROVE  /\ Of(c).id = c.id
             /\ Of(c).status \in Statuses
             /\ \A g \in C : g.id = c.id => g = Of(c)
             /\ Of(c) \in C \/ (Of(c) \in P /\ Of(c).id \notin Ids(C))
  <2>1. CASE c.id \in Ids(C)
    <3>1. PICK d \in C : d.id = c.id
      BY <2>1 DEF Ids
    <3>2. Of(c) \in C /\ Of(c).id = c.id
      BY <2>1, <3>1
    <3> HIDE DEF Of
    <3> QED BY <3>2 DEF DistinctCards
  <2>2. CASE c.id \notin Ids(C)
    BY <2>2 DEF Ids, DistinctCards
  <2> QED BY <2>1, <2>2
<1> HIDE DEF A, Of
<1>3. \A a \in A : \E c \in P : a = Of(c)
  BY <1>1
<1>4. Ids(A) = Ids(P)
  BY <1>1, <1>2 DEF Ids
<1>5. \A a, e \in A : a.id = e.id => a = e
  BY <1>2, <1>3 DEF DistinctCards
<1>6. IsFiniteSet(A)
  <2>1. \A a \in A : a.id \in Ids(P)
    BY <1>4 DEF Ids
  <2> QED BY <2>1, <1>5, BoardIds, BoardInto
<1>7. DistinctCards(A)
  BY <1>2, <1>3, <1>5, <1>6 DEF DistinctCards
<1>8. Cardinality(A) = Cardinality(P)
  BY <1>4, <1>7, BoardIds
<1>9. \A c \in A, g \in C : g.id = c.id => g = c
  BY <1>2, <1>3
<1>10. \A c \in A : c \in C \/ (c \in P /\ c.id \notin Ids(C))
  BY <1>2, <1>3
<1> QED BY <1>4, <1>7, <1>8, <1>9, <1>10 DEF A

(* Cut down to a proof, a list has no more cards than it, and cutting it
   down again leaves it as it is. *)
LEMMA BoardCut ==
  ASSUME NEW C, DistinctCards(C), NEW P, DistinctCards(P)
  PROVE  LET D == proofAlignedTests(C, P)
         IN  /\ D \in SUBSET C
             /\ DistinctCards(D)
             /\ P # {} => Cardinality(D) <= Cardinality(P)
             /\ proofAlignedTests(D, P) = D
             /\ P = {} \/ Cardinality(C) <= Cardinality(P) => D = C
<1> DEFINE D == proofAlignedTests(C, P)
<1>1. D \in SUBSET C
  BY DEF proofAlignedTests
<1>2. DistinctCards(D)
  BY <1>1, BoardPart
<1>3. P = {} \/ Cardinality(C) <= Cardinality(P) => D = C
  BY DEF proofAlignedTests
<1>4. ASSUME P # {} PROVE Cardinality(D) <= Cardinality(P)
  <2>1. CASE Cardinality(C) <= Cardinality(P)
    BY <1>3, <2>1
  <2>2. CASE ~(Cardinality(C) <= Cardinality(P))
    <3>1. \A c \in D : c.id \in Ids(P)
      BY <1>4, <2>2 DEF proofAlignedTests
    <3>2. \A c, e \in D : c.id = e.id => c = e
      BY <1>2 DEF DistinctCards
    <3> QED BY <3>1, <3>2, BoardIds, BoardInto
  <2> QED BY <2>1, <2>2
<1>5. proofAlignedTests(D, P) = D
  <2> HIDE DEF D
  <2> QED BY <1>4 DEF proofAlignedTests
<1> QED BY <1>1, <1>2, <1>3, <1>4, <1>5

(* The sizes of sets that have nothing in common add up. *)
LEMMA BoardApart ==
  ASSUME NEW A, IsFiniteSet(A), NEW B, IsFiniteSet(B), A \intersect B = {}
  PROVE  /\ IsFiniteSet(A \union B)
         /\ Cardinality(A \union B) = Cardinality(A) + Cardinality(B)
<1>1. /\ IsFiniteSet(A \union B)
      /\ Cardinality(A \union B)
           = Cardinality(A) + Cardinality(B) - Cardinality(A \intersect B)
  BY FS_Union
<1>2. Cardinality(A \intersect B) = 0
  BY FS_EmptySet
<1> QED BY <1>1, <1>2, FS_CardinalityType

(* The cards of a list are counted by their grade. *)
LEMMA BoardCounts ==
  ASSUME NEW D, DistinctCards(D)
  PROVE  /\ \A st : /\ Count(D, st) \in Nat
                    /\ Count(D, st) <= Cardinality(D)
                    /\ Count(D, st) = Cardinality(D)
                         => \A c \in D : c.status = st
         /\ Count(D, "pass") + Count(D, "fail") + Count(D, "warn")
              + Count(D, "pending") = Cardinality(D)
<1> DEFINE K(st) == {c \in D : c.status = st}
<1>1. IsFiniteSet(D) /\ Cardinality(D) \in Nat
  BY BoardIds
<1>2. \A st : Count(D, st) = Cardinality(K(st))
  BY DEF Count
<1>3. \A st : K(st) \in SUBSET D
  OBVIOUS
<1>4. \A st : /\ IsFiniteSet(K(st))
              /\ Cardinality(K(st)) \in Nat
              /\ Cardinality(K(st)) <= Cardinality(D)
              /\ Cardinality(D) = Cardinality(K(st)) => D = K(st)
  BY <1>1, <1>3, FS_Subset, FS_CardinalityType
<1>5. \A st : \A c \in K(st) : c.status = st
  OBVIOUS
<1>6. D = ((K("pass") \union K("fail")) \union K("warn")) \union K("pending")
  BY DEF DistinctCards, Statuses
<1>7. /\ K("pass") \intersect K("fail") = {}
      /\ (K("pass") \union K("fail")) \intersect K("warn") = {}
      /\ ((K("pass") \union K("fail")) \union K("warn"))
           \intersect K("pending") = {}
  OBVIOUS
<1> HIDE DEF K
<1>8. /\ IsFiniteSet(K("pass") \union K("fail"))
      /\ Cardinality(K("pass") \union K("fail"))
           = Cardinality(K("pass")) + Cardinality(K("fail"))
  BY <1>4, <1>7, BoardApart
<1>9. /\ IsFiniteSet((K("pass") \union K("fail")) \union K("warn"))
      /\ Cardinality((K("pass") \union K("fail")) \union K("warn"))
           = Cardinality(K("pass")) + Cardinality(K("fail"))
             + Cardinality(K("warn"))
  BY <1>4, <1>7, <1>8, BoardApart
<1>10. Cardinality(D) = Cardinality(K("pass")) + Cardinality(K("fail"))
                        + Cardinality(K("warn")) + Cardinality(K("pending"))
  BY <1>4, <1>6, <1>7, <1>9, BoardApart
<1> QED BY <1>2, <1>4, <1>5, <1>10

-----------------------------------------------------------------------------
\* What a request, or the answer shown, was made of; BoardKnown: what it has
\* read is of worlds that were, and a proof comes only with an answer.
BoardRequests ==
  [st : {"none", "idle", "sent", "graded", "ready", "refused", "lost",
         "unavailable"},
   reports : DOMAIN Worlds \union {0}, proof : DOMAIN Worlds \union {0},
   locale : Locales \union {"none", "en", "tr"}]

BoardKnown(d) ==
  /\ d \in BoardRequests
  /\ d.st \in {"graded", "ready"} => d.reports \in DOMAIN Worlds
  /\ IF d.st = "ready" THEN d.proof \in DOMAIN Worlds ELSE d.proof = 0

\* The inductive invariant.
BoardInv ==
  /\ files \in DOMAIN Worlds
  /\ DistinctCards(meta)
  /\ flight \in [Slots -> BoardRequests]
  /\ \A i \in Slots : BoardKnown(flight[i])
  /\ BoardKnown(data)
  /\ data.st \in {"none", "unavailable", "ready"}
  /\ locale \in Locales
  /\ filter \in {"all"} \union Statuses

(* A world holds what the files may. *)
LEMMA BoardWorld ==
  ASSUME NEW w \in DOMAIN Worlds
  PROVE  /\ IsFiniteSet(DOMAIN Worlds[w].reports)
         /\ DistinctCards(Worlds[w].proof)
         /\ DistinctCards(evaluateValidationTests(Worlds[w].reports))
<1>1. /\ IsFiniteSet(DOMAIN Worlds[w].reports)
      /\ DistinctCards(Worlds[w].proof)
  BY TestsBoardAssumption
<1> QED BY <1>1, BoardEvaluated

(* A page that is opened knows nothing yet. *)
LEMMA BoardOpened ==
  /\ BoardKnown(NoData) /\ BoardKnown(NoTests) /\ BoardKnown(NoPoll)
  /\ NoData.st = "none" /\ NoTests.st = "unavailable"
  BY DEF BoardKnown, BoardRequests, NoData, NoTests, NoPoll

(* The first page. *)
LEMMA BoardInitInv ==
  ASSUME BoardInit PROVE BoardInv
<1>1. DistinctCards(meta)
  BY BoardWorld DEF BoardInit
<1>2. flight = [i \in Slots |-> NoPoll] /\ data = NoData
  BY DEF BoardInit
<1>3. NoPoll \in BoardRequests
  BY BoardOpened DEF BoardKnown
<1> QED BY <1>1, <1>2, <1>3, BoardOpened DEF BoardInv, BoardInit

(* A request that is put into its slot is as sound as it was. *)
LEMMA BoardSlot ==
  ASSUME BoardInv, NEW i \in Slots, NEW r, BoardKnown(r),
         flight' = [flight EXCEPT ![i] = r]
  PROVE  /\ flight' \in [Slots -> BoardRequests]
         /\ \A j \in Slots : BoardKnown(flight'[j])
  BY DEF BoardInv, BoardKnown

(* Every step keeps the invariant: one case for every action. *)
LEMMA BoardNextInv ==
  ASSUME BoardInv, [BoardNext]_boardVars
  PROVE  BoardInv'
<1>1. ASSUME poll PROVE BoardInv'
  <2>1. PICK i \in Slots :
          flight' = [flight EXCEPT ![i] = [NoData EXCEPT !.st = "sent",
                                                         !.locale = locale]]
    BY <1>1 DEF poll
  <2>2. BoardKnown([NoData EXCEPT !.st = "sent", !.locale = locale])
    BY DEF BoardKnown, BoardRequests, NoData, BoardInv
  <2>3. UNCHANGED <<files, meta, data, locale, filter>>
    BY <1>1 DEF poll
  <2>4. /\ flight' \in [Slots -> BoardRequests]
        /\ \A j \in Slots : BoardKnown(flight'[j])
    BY <2>1, <2>2, BoardSlot
  <2> QED BY <2>3, <2>4 DEF BoardInv, BoardKnown, BoardRequests
<1>2. ASSUME NEW i \in Slots, ReadReports(i) PROVE BoardInv'
  <2> DEFINE r == [flight[i] EXCEPT !.st = "graded", !.reports = files,
                                    !.locale = Served(@)]
  <2>1. flight' = [flight EXCEPT ![i] = r]
    BY <1>2 DEF ReadReports, BoardInv
  <2>2. BoardKnown(r)
    BY <1>2 DEF ReadReports, BoardKnown, BoardRequests, BoardInv, Served
  <2>3. UNCHANGED <<files, meta, data, locale, filter>>
    BY <1>2 DEF ReadReports
  <2> HIDE DEF r
  <2>4. /\ flight' \in [Slots -> BoardRequests]
        /\ \A j \in Slots : BoardKnown(flight'[j])
    BY <2>1, <2>2, BoardSlot
  <2> QED BY <2>3, <2>4 DEF BoardInv, BoardKnown, BoardRequests
<1>3. ASSUME NEW i \in Slots, ReadProof(i) PROVE BoardInv'
  <2> DEFINE r == [flight[i] EXCEPT !.st = "ready", !.proof = files]
  <2>1. flight' = [flight EXCEPT ![i] = r]
    BY <1>3 DEF ReadProof, BoardInv
  <2>2. BoardKnown(r)
    BY <1>3 DEF ReadProof, BoardKnown, BoardRequests, BoardInv
  <2>3. UNCHANGED <<files, meta, data, locale, filter>>
    BY <1>3 DEF ReadProof
  <2> HIDE DEF r
  <2>4. /\ flight' \in [Slots -> BoardRequests]
        /\ \A j \in Slots : BoardKnown(flight'[j])
    BY <2>1, <2>2, BoardSlot
  <2> QED BY <2>3, <2>4 DEF BoardInv, BoardKnown, BoardRequests
<1>4. ASSUME NEW i \in Slots, PollFails(i) PROVE BoardInv'
  <2>1. PICK st \in {"refused", "lost"} :
          flight' = [flight EXCEPT ![i].st = st]
    BY <1>4 DEF PollFails
  <2> DEFINE r == [flight[i] EXCEPT !.st = st]
  <2>2. flight' = [flight EXCEPT ![i] = r]
    BY <2>1 DEF BoardInv
  <2>3. BoardKnown(r)
    BY <1>4 DEF PollFails, BoardKnown, BoardRequests, BoardInv
  <2>4. UNCHANGED <<files, meta, data, locale, filter>>
    BY <1>4 DEF PollFails
  <2> HIDE DEF r
  <2>5. /\ flight' \in [Slots -> BoardRequests]
        /\ \A j \in Slots : BoardKnown(flight'[j])
    BY <2>2, <2>3, BoardSlot
  <2> QED BY <2>4, <2>5 DEF BoardInv, BoardKnown, BoardRequests
<1>5. ASSUME NEW i \in Slots, ShowBoard(i) PROVE BoardInv'
  <2>1. /\ flight' \in [Slots -> BoardRequests]
        /\ \A j \in Slots : BoardKnown(flight'[j])
    BY <1>5, BoardOpened, BoardSlot DEF ShowBoard
  <2>2. BoardKnown(data') /\ data'.st \in {"none", "unavailable", "ready"}
    BY <1>5, BoardOpened DEF ShowBoard, BoardInv
  <2>3. UNCHANGED <<files, meta, locale, filter>>
    BY <1>5 DEF ShowBoard
  <2> QED BY <2>1, <2>2, <2>3 DEF BoardInv, BoardKnown, BoardRequests
<1>6. ASSUME Switch \/ SetLocale PROVE BoardInv'
  BY <1>6 DEF Switch, SetLocale, BoardInv, BoardKnown, BoardRequests
<1>7. ASSUME SetFilter \/ SetSearch PROVE BoardInv'
  <2>1. filter' \in {"all"} \union Statuses
    BY <1>7 DEF SetFilter, SetSearch, FilterTabs, BoardInv
  <2>2. UNCHANGED <<files, meta, flight, data, locale>>
    BY <1>7 DEF SetFilter, SetSearch
  <2> QED BY <2>1, <2>2 DEF BoardInv, BoardKnown, BoardRequests
<1>8. ASSUME Reload PROVE BoardInv'
  <2>1. DistinctCards(meta')
    BY <1>8, BoardWorld DEF Reload, BoardInv
  <2>2. NoPoll \in BoardRequests
    BY BoardOpened DEF BoardKnown
  <2>3. /\ flight' = [i \in Slots |-> NoPoll] /\ data' = NoData
        /\ files' = files /\ locale' = locale /\ filter' = "all"
    BY <1>8 DEF Reload
  <2>4. /\ flight' \in [Slots -> BoardRequests]
        /\ \A i \in Slots : BoardKnown(flight[i])'
    <3>1. flight' \in [Slots -> BoardRequests]
      BY <2>2, <2>3
    <3>2. ASSUME NEW i \in Slots PROVE BoardKnown(flight[i])'
      <4>1. flight'[i] = NoPoll
        BY <2>3
      <4> QED BY <4>1, BoardOpened DEF BoardKnown, BoardRequests
    <3> QED BY <3>1, <3>2
  <2>5. BoardKnown(data)' /\ data'.st \in {"none", "unavailable", "ready"}
    BY <2>3, BoardOpened DEF BoardKnown, BoardRequests
  <2>6. files' \in DOMAIN Worlds /\ locale' \in Locales
    BY <2>3 DEF BoardInv
  <2> QED BY <2>1, <2>3, <2>4, <2>5, <2>6 DEF BoardInv
<1>9. ASSUME FilesMove PROVE BoardInv'
  BY <1>9 DEF FilesMove, BoardInv, BoardKnown, BoardRequests
<1>10. ASSUME UNCHANGED boardVars PROVE BoardInv'
  BY <1>10 DEF boardVars, BoardInv, BoardKnown, BoardRequests
<1> QED BY <1>1, <1>2, <1>3, <1>4, <1>5, <1>6, <1>7, <1>8, <1>9, <1>10
        DEF BoardNext

\* What the page shows was read from files that were there: an answer has the
\* reports and the proof of worlds that were, an empty board no proof, and a
\* list of cards never has a test twice (/api/tests and its poll).
THEOREM BoardInvariant ==
  BoardSpec => []BoardInv
<1>1. BoardInit => BoardInv
  BY BoardInitInv
<1>2. BoardInv /\ [BoardNext]_boardVars => BoardInv'
  BY BoardNextInv
<1> QED BY <1>1, <1>2, PTL DEF BoardSpec

-----------------------------------------------------------------------------
(* The cards of an answer: those of its proof when it has one, graded; those
   of the reports otherwise. *)
LEMMA BoardAnswer ==
  ASSUME BoardInv
  PROVE  LET A == ApiTests(data)
             P == ProofOf(data)
             G == evaluateValidationTests(Worlds[data.reports].reports)
         IN  /\ DistinctCards(A)
             /\ DistinctCards(P)
             /\ DistinctCards(Canonical(data))
             /\ data.st # "ready" => A = {} /\ P = {}
             /\ P # {} => Cardinality(A) = Cardinality(P) /\ Ids(A) = Ids(P)
             /\ data.st = "ready" =>
                  \A c \in A, g \in G : g.id = c.id => g = c
             /\ data.st = "ready" =>
                  \A c \in A : c \in G \/ (c \in P /\ c.id \notin Ids(G))
             /\ P = {} /\ data.st = "ready" => A = G
<1> DEFINE A == ApiTests(data)
           P == ProofOf(data)
           G == evaluateValidationTests(Worlds[data.reports].reports)
<1>0. DistinctCards({})
  BY FS_EmptySet DEF DistinctCards
<1>1. DistinctCards(P) /\ (data.st # "ready" => P = {})
  BY <1>0, BoardWorld DEF ProofOf, BoardInv, BoardKnown
<1>2. DistinctCards(Canonical(data))
  BY <1>1 DEF Canonical, BoardInv
<1>3. CASE data.st # "ready"
  <2>1. A = {}
    BY <1>3 DEF ApiTests
  <2> QED BY <2>1, <1>0, <1>1, <1>2, <1>3
<1>4. CASE data.st = "ready"
  <2>1. DistinctCards(G)
    BY <1>4, BoardWorld DEF BoardInv, BoardKnown
  <2>2. A = IF P # {} THEN alignTestsToProof(G, P) ELSE G
    BY <1>4 DEF ApiTests, Tests
  <2> HIDE DEF A, P, G
  <2>3. CASE P # {}
    BY <1>1, <1>2, <1>4, <2>1, <2>2, <2>3, BoardAligned DEF A, P, G
  <2>4. CASE P = {}
    <3>1. A = G
      BY <2>2, <2>4
    <3>2. \A c \in A, g \in G : g.id = c.id => g = c
      BY <2>1, <3>1 DEF DistinctCards
    <3> QED BY <1>1, <1>2, <1>4, <2>1, <2>4, <3>1, <3>2 DEF A, P, G
  <2> QED BY <2>3, <2>4
<1> QED BY <1>3, <1>4

(* What is listed of an answer, cut down to the proof the page knows. *)
LEMMA BoardListed ==
  ASSUME BoardInv
  PROVE  LET A == ApiTests(data)
             D == Listed(data)
             Q == Canonical(data)
         IN  /\ D \in SUBSET A
             /\ DistinctCards(D)
             /\ normalizeTestsPayload(data) = D
             /\ Q # {} => Cardinality(D) <= Cardinality(Q)
             /\ ProofOf(data) # {} =>
                  /\ D = A /\ Q = ProofOf(data)
                  /\ Cardinality(D) = Cardinality(Q)
<1> DEFINE A == ApiTests(data)
           D == Listed(data)
           Q == Canonical(data)
           N == proofAlignedTests(A, Q)
<1>1. DistinctCards(A) /\ DistinctCards(Q)
  BY BoardAnswer
<1>2. normalizeTestsPayload(data) = N /\ D = proofAlignedTests(N, Q)
  BY DEF normalizeTestsPayload, Listed
<1> HIDE DEF A, D, Q
<1>3. /\ N \in SUBSET A
      /\ DistinctCards(N)
      /\ Q # {} => Cardinality(N) <= Cardinality(Q)
      /\ proofAlignedTests(N, Q) = N
      /\ Cardinality(A) <= Cardinality(Q) => N = A
  BY <1>1, BoardCut
<1> HIDE DEF N
<1>4. ASSUME ProofOf(data) # {}
      PROVE  /\ D = A /\ Q = ProofOf(data)
             /\ Cardinality(D) = Cardinality(Q)
  <2>1. Q = ProofOf(data)
    BY <1>4 DEF Q, Canonical
  <2>2. Cardinality(A) = Cardinality(Q) /\ Cardinality(Q) \in Nat
    BY <1>1, <1>4, <2>1, BoardAnswer, BoardIds DEF A
  <2> QED BY <1>2, <1>3, <2>1, <2>2
<1> QED BY <1>2, <1>3, <1>4 DEF A, D, Q

(* The statistics: what is passed is never capped, because no more is listed
   than the proof has. *)
LEMMA BoardStats ==
  ASSUME BoardInv
  PROVE  LET s == displayStats(data)
             D == Listed(data)
             Q == Canonical(data)
         IN  /\ s.passed = Count(D, "pass") /\ s.failed = Count(D, "fail")
             /\ s.warned = Count(D, "warn")
             /\ s.pending = Count(D, "pending")
             /\ s.total = IF Q # {} THEN Cardinality(Q) ELSE Cardinality(D)
             /\ Cardinality(D) <= s.total
<1> DEFINE D == Listed(data)
           Q == Canonical(data)
           n == Count(D, "pass")
<1>1. DistinctCards(D) /\ (Q # {} => Cardinality(D) <= Cardinality(Q))
  BY BoardListed
<1>2. DistinctCards(Q)
  BY BoardAnswer
<1>3. Cardinality(D) \in Nat /\ Cardinality(Q) \in Nat
  BY <1>1, <1>2, BoardIds
<1>4. Cardinality(Q) > 0 <=> Q # {}
  BY <1>2, <1>3, BoardIds, FS_EmptySet
<1>5. n \in Nat /\ n <= Cardinality(D)
  BY <1>1, BoardCounts
<1>6. Cardinality(Q) = Cardinality(Q) /\ Cardinality(D) = Cardinality(D)
  OBVIOUS
<1>7. displayStats(data) =
        [total |-> IF Cardinality(Q) > 0 THEN Cardinality(Q)
                   ELSE Cardinality(D),
         passed |-> IF Cardinality(Q) > 0 /\ n > Cardinality(Q)
                    THEN Cardinality(Q) ELSE n,
         failed |-> Count(D, "fail"), warned |-> Count(D, "warn"),
         pending |-> Count(D, "pending")]
  BY DEF displayStats
<1> HIDE DEF D, Q, n
<1>8. ~(Cardinality(Q) > 0 /\ n > Cardinality(Q))
  BY <1>1, <1>3, <1>4, <1>5
<1>9. LET s == displayStats(data)
      IN  /\ s.passed = n
          /\ s.total = IF Q # {} THEN Cardinality(Q) ELSE Cardinality(D)
          /\ s.failed = Count(D, "fail") /\ s.warned = Count(D, "warn")
          /\ s.pending = Count(D, "pending")
          /\ Cardinality(D) <= s.total
  BY <1>1, <1>3, <1>4, <1>6, <1>7, <1>8
<1> QED BY <1>9 DEF D, Q, n

\* The trophy is shown for green cards only, each as its own report is graded
\* or, where there is no graded report, as the proof has it, and for all tests
\* of the proof (displayStats, allPassed and alignTestsToProof).
THEOREM BoardTrophyIsEarned ==
  BoardSpec => []TrophyIsEarned
<1>1. ASSUME BoardInv PROVE TrophyIsEarned
  <2> SUFFICES ASSUME allPassed(data) PROVE TrophyIsEarned
    BY DEF TrophyIsEarned
  <2> DEFINE D == Listed(data)
             s == displayStats(data)
             G == evaluateValidationTests(Worlds[data.reports].reports)
  <2>1. DistinctCards(D) /\ D \in SUBSET ApiTests(data)
    BY <1>1, BoardListed
  <2>2. s.total > 0 /\ s.passed = s.total
    BY DEF allPassed
  <2>3. s.passed = Count(D, "pass") /\ Cardinality(D) <= s.total
    BY <1>1, BoardStats
  <2>4. /\ Count(D, "pass") \in Nat
        /\ Count(D, "pass") <= Cardinality(D)
        /\ Count(D, "pass") = Cardinality(D)
             => \A c \in D : c.status = "pass"
        /\ Cardinality(D) \in Nat
    BY <2>1, BoardCounts, BoardIds
  <2> HIDE DEF D, s, G
  <2>5. Cardinality(D) > 0 /\ \A c \in D : c.status = "pass"
    BY <2>2, <2>3, <2>4
  <2>6. data.st = "ready"
    <3>1. D # {}
      BY <2>5, FS_EmptySet
    <3> QED BY <1>1, <2>1, <3>1, BoardAnswer
  <2>7. \A c \in D : c \in G \/ (c \in ProofOf(data) /\ c.id \notin Ids(G))
    BY <1>1, <2>1, <2>6, BoardAnswer DEF G
  <2>8. ProofOf(data) # {} => Ids(D) = Ids(ProofOf(data))
    BY <1>1, BoardAnswer, BoardListed DEF D
  <2> QED BY <2>5, <2>7, <2>8 DEF TrophyIsEarned, D, G
<1> QED BY <1>1, BoardInvariant, PTL

\* The figures of the board belong together: the statistics count exactly the
\* cards that are listed, the number on a tab is that of the cards under it
\* unless a text is searched or the proof is an older one of the page, drift is
\* never noted beside the trophy, and the morning banner has its green card
\* (ValidationTestsPanel).
THEOREM BoardStatisticsAddUp ==
  BoardSpec => []StatisticsAddUp
<1>1. ASSUME BoardInv PROVE StatisticsAddUp
  <2> DEFINE A == ApiTests(data)
             D == Listed(data)
             P == ProofOf(data)
             Q == Canonical(data)
             s == displayStats(data)
             v == PanelView(data, filter, search)
             G == evaluateValidationTests(Worlds[data.reports].reports)
  <2>1. /\ DistinctCards(D) /\ D \in SUBSET A
        /\ normalizeTestsPayload(data) = D
        /\ Q # {} => Cardinality(D) <= Cardinality(Q)
        /\ P # {} => D = A /\ Q = P /\ Cardinality(D) = Cardinality(Q)
    BY <1>1, BoardListed
  <2>2. /\ s.passed = Count(D, "pass") /\ s.failed = Count(D, "fail")
        /\ s.warned = Count(D, "warn") /\ s.pending = Count(D, "pending")
        /\ s.total = IF Q # {} THEN Cardinality(Q) ELSE Cardinality(D)
        /\ Cardinality(D) <= s.total
    BY <1>1, BoardStats
  <2>3. /\ Cardinality(D) = Cardinality(D)
        /\ Cardinality(A) = Cardinality(A)
        /\ Cardinality(P) = Cardinality(P)
        /\ Cardinality(Q) = Cardinality(Q)
    OBVIOUS
  <2>4. s.passed + s.failed + s.warned + s.pending = Cardinality(D)
    <3>1. Count(D, "pass") + Count(D, "fail") + Count(D, "warn")
            + Count(D, "pending") = Cardinality(D)
      BY <2>1, BoardCounts
    <3> HIDE DEF D, s
    <3> QED BY <2>2, <2>3, <3>1
  <2>5. v.cards = filtered(D, filter, search, data.locale)
    BY DEF PanelView
  <2>6. Cardinality(v.cards) <= TabCount(s, filter)
    <3> DEFINE K == {c \in D : c.status = filter}
    <3>1. IsFiniteSet(D) /\ Cardinality(D) \in Nat /\ Cardinality(Q) \in Nat
      BY <1>1, <2>1, BoardIds, BoardAnswer
    <3>2. CASE filter = "all"
      <4>1. v.cards \in SUBSET D
        BY <2>5 DEF filtered
      <4>2. Cardinality(v.cards) <= Cardinality(D) /\ Cardinality(v.cards) \in Nat
        BY <3>1, <4>1, FS_Subset, FS_CardinalityType
      <4>3. TabCount(s, filter) = s.total
        BY <3>2 DEF TabCount
      <4> HIDE DEF v, s, D, Q
      <4> QED BY <2>2, <2>3, <3>1, <4>2, <4>3
    <3>3. CASE filter # "all"
      <4>1. v.cards \in SUBSET K
        BY <2>5, <3>3 DEF filtered
      <4>2. IsFiniteSet(K)
        BY <3>1, FS_Subset
      <4>3. Cardinality(v.cards) <= Cardinality(K)
        BY <4>1, <4>2, FS_Subset
      <4>4. TabCount(s, filter) = Count(D, filter)
        <5> HIDE DEF s, D
        <5> QED BY <1>1, <2>2, <3>3 DEF TabCount, BoardInv, Statuses
      <4> QED BY <4>3, <4>4 DEF Count
    <3> QED BY <3>2, <3>3
  <2>7. ASSUME search = "", filter = "all" => P # {} \/ meta = {}
        PROVE  Cardinality(v.cards) = TabCount(s, filter)
    <3>1. CASE filter = "all"
      <4>1. v.cards = D
        BY <2>5, <2>7, <3>1 DEF filtered
      <4>2. TabCount(s, filter) = s.total
        BY <3>1 DEF TabCount
      <4>3. P = {} /\ meta = {} => Q = {}
        BY DEF Canonical
      <4> HIDE DEF v, s, D, Q, P
      <4> QED BY <2>1, <2>2, <2>7, <3>1, <4>1, <4>2, <4>3
    <3>2. CASE filter # "all"
      <4>1. v.cards = {c \in D : c.status = filter}
        BY <2>5, <2>7, <3>2 DEF filtered
      <4>2. TabCount(s, filter) = Count(D, filter)
        <5> HIDE DEF s, D
        <5> QED BY <1>1, <2>2, <3>2 DEF TabCount, BoardInv, Statuses
      <4> QED BY <4>1, <4>2 DEF Count
    <3> QED BY <3>1, <3>2
  <2>8. v.drift => ~allPassed(data) /\ P = {}
    <3>1. v.drift => Q # {} /\ drift(data)
      BY DEF PanelView
    <3>2. drift(data) =
            IF Q # {} /\ Cardinality(A) > Cardinality(Q)
            THEN Cardinality(normalizeTestsPayload(data)) # Cardinality(Q)
            ELSE P # {} /\ Cardinality(A) # Cardinality(P)
      BY DEF drift
    <3>3. /\ P # {} => Cardinality(A) = Cardinality(P)
          /\ DistinctCards(A) /\ DistinctCards(Q)
      BY <1>1, BoardAnswer
    <3>4. Cardinality(A) \in Nat /\ Cardinality(Q) \in Nat /\ Cardinality(D) \in Nat
      BY <2>1, <3>3, BoardIds
    <3>5. allPassed(data) => s.passed = s.total
      BY DEF allPassed
    <3>6. Count(D, "pass") \in Nat /\ Count(D, "pass") <= Cardinality(D)
      BY <2>1, BoardCounts
    <3> HIDE DEF A, D, P, Q, s, v
    <3>7. drift(data) /\ Q # {} => P = {} /\ Cardinality(D) # Cardinality(Q)
      BY <2>1, <2>3, <3>2, <3>3, <3>4
    <3>8. Q # {} /\ Cardinality(D) # Cardinality(Q) => ~allPassed(data)
      BY <2>1, <2>2, <3>4, <3>5, <3>6
    <3> QED BY <3>1, <3>7, <3>8
  <2>9. ASSUME v.banners.morning, NEW c \in D, c.id = "morning-operator-gate"
        PROVE  c.status = "pass"
    <3> DEFINE R == Worlds[data.reports].reports
               m == "morning-operator-gate"
    <3>1. data.st = "ready"
      <4>1. data.st # "ready" => A = {}
        BY <1>1, BoardAnswer
      <4> QED BY <2>1, <2>9, <4>1
    <3>2. m \in DOMAIN R /\ R[m].pass
      BY <2>9, <3>1 DEF PanelView, Banners
    <3>3. Card(m, "pass") \in G
      <4>1. Card(m, "pass") \in MorningTests(R)
        BY <3>2 DEF MorningTests, Plain, PassFail
      <4> QED BY <4>1 DEF evaluateValidationTests
    <3>4. Card(m, "pass").id = c.id /\ Card(m, "pass").status = "pass"
      BY <2>9 DEF Card
    <3>5. \A a \in A, g \in G : g.id = a.id => g = a
      BY <1>1, <3>1, BoardAnswer
    <3> QED BY <2>1, <2>9, <3>3, <3>4, <3>5
  <2> HIDE DEF v, s
  <2> QED BY <2>4, <2>6, <2>7, <2>8, <2>9 DEF StatisticsAddUp, v, s
<1> QED BY <1>1, BoardInvariant, PTL
==============================================================================
