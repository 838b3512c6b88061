----------------------------- MODULE LiveMetrics -----------------------------
(***************************************************************************)
(* The live metrics section of the dashboard: GrafanaMiniPanels polls      *)
(* /api/metrics/grafana and /api/eps-smoke-status every twelve seconds,    *)
(* and again on every change of range or tenant.  Requests overlap; only   *)
(* the answer to the newest one is used.  Without Prometheus the charts    *)
(* are accumulated in the browser from one answer to the next.             *)
(*                                                                         *)
(* The counter reqGen is only compared with its present value, so a        *)
(* request carries no number here: newest is the slot of the request that  *)
(* holds the present number.                                               *)
(***************************************************************************)
EXTENDS Page, Sequences, SequencesExt

CONSTANTS
  Ranges,        \* the two ranges of the buttons
  FirstRange,    \* the one selected at first
  MetricTenants, \* tenants of the page's selector
  GuardTenant,   \* tenant_id the analyzer prints on its metrics
  MetricsTenant, \* METRICS_TENANT of the dashboard
  Scraped,       \* what Prometheus scraped of the analyzer, some time ago
  MaxRate,       \* bound on the rates and the line counter
  LiveMax        \* LIVE_MAX

ASSUME LiveMetricsAssumption ==
  /\ GuardTenant \in MetricTenants /\ FirstRange \in Ranges
  /\ MaxRate \in Nat \ {0} /\ LiveMax \in Nat \ {0} /\ MaxEvents \in Nat
  /\ Scraped \in [eps : 0..MaxRate, eps_peak : {0}, lines : 0..MaxRate]
  /\ MaxFlight \in Nat \ {0, 1}

VARIABLES
  guard,   \* analyzer: up, eps gauge, session peak, lines
  prom,    \* does Prometheus answer?
  smoke,   \* peak_eps of webhook-eps-smoke-report.json, 0 without a report
  auth,    \* is the session of the browser valid?
  cache,   \* the one entry of the route's cache, or Nothing
  sel,     \* selected range and tenant
  newest,  \* slot whose number is reqGen.current, 0 when it was answered
  loading, hist, prevLines, peak, epsSmoke,  \* state and refs
  seen,    \* history: rates of the answers used since the selection
  jumped   \* history: since then the counter grew between unlike answers

sources == <<guard, prom, smoke, auth>>
client == <<loading, data, hist, prevLines, peak, epsSmoke, seen, jumped>>
liveVars == <<sources, cache, sel, flight, newest, client, events>>

Nothing == [none |-> TRUE]
Rates == 0..MaxRate
Larger(a, b) == IF a < b THEN b ELSE a

Stats == [eps : Rates, eps_peak : Rates, lines : Rates]
NoStats == [eps |-> 0, eps_peak |-> 0, lines |-> 0]
Selections == [range : Ranges, tenant : MetricTenants]
\* A point of a chart: what was asked for, and the tenant whose figure it is.
Points == [sel : Selections, of : MetricTenants]

-----------------------------------------------------------------------------
(* The text exposition of the analyzer and its parser.                     *)

\* metrics.c prints the gauge before the peak, whose name it is a prefix of.
Exposition ==
  << [name |-> <<"eps">>, tenant |-> GuardTenant, v |-> guard.eps],
     [name |-> <<"eps", "peak">>, tenant |-> GuardTenant, v |-> guard.peak],
     [name |-> <<"lines", "total">>, tenant |-> GuardTenant,
      v |-> guard.lines] >>

\* The first line that starts with the name of the metric and carries one of
\* the tenants; nothing otherwise.
parsePrometheusGauge(body, metric, tenants) ==
  LET Fits(k) == IsPrefix(metric, body[k].name) /\ body[k].tenant \in tenants
      First(k) == Fits(k) /\ \A j \in 1..(k - 1) : ~Fits(j)
  IN  {body[k].v : k \in {j \in DOMAIN body : First(j)}}

\* A metric of the configured tenant, else of any tenant, else 0.
GuardianMetric(metric) ==
  LET own == parsePrometheusGauge(Exposition, metric, {MetricsTenant})
      any == parsePrometheusGauge(Exposition, metric, MetricTenants)
  IN  CHOOSE v \in (IF own # {} THEN own ELSE IF any # {} THEN any ELSE {0}) :
        TRUE

\* The metrics asked for, as the names the analyzer prints.
MetricName ==
  [eps |-> <<"eps">>, eps_peak |-> <<"eps", "peak">>,
   lines |-> <<"lines", "total">>]

parseGuardianMetrics ==
  [k \in DOMAIN MetricName |-> GuardianMetric(MetricName[k])]

-----------------------------------------------------------------------------
(* The route.  An answer names the selection it was computed for; of: the  *)
(* tenant whose figures its stats are; own: its line counter is the        *)
(* analyzer's; pts stands for its series.                                  *)

MetricsBody(s, source, of, own, stats, pts) ==
  [reachable |-> source # "none", source |-> source, sel |-> s, of |-> of,
   own |-> own, stats |-> stats, pts |-> pts]

\* What Prometheus scraped for a tenant: it knows the analyzer's tenant only,
\* and the panels' expressions are instantiated with the tenant asked for.
tenantExpr(t) == IF t = GuardTenant THEN Scraped ELSE NoStats

\* Counters and rates are the larger of what Prometheus and the analyzer say.
MergeLive(p, l) == [k \in DOMAIN p |-> Larger(p[k], l[k])]

PromStats(t) ==
  IF guard.up THEN MergeLive(tenantExpr(t), parseGuardianMetrics)
              ELSE tenantExpr(t)

\* A request begins: an expired session is refused, an entry of the same
\* selection answered at once, otherwise Prometheus is tried.
ServeStart(i) ==
  /\ flight[i].st = "sent"
  /\ LET f == flight[i]
         hit == cache # Nothing /\ cache.sel = f.sel
         st == IF ~auth THEN "denied"
               ELSE IF hit THEN "ready"
               ELSE IF prom THEN "prom" ELSE "direct"
     IN  flight' = [flight EXCEPT ![i] =
                      [st |-> st, sel |-> f.sel,
                       smoke |-> IF auth THEN smoke ELSE -1,
                       body |-> IF auth /\ hit THEN cache ELSE Nothing]]
  /\ UNCHANGED <<sources, cache, sel, newest, client, events>>

\* Without Prometheus: the analyzer's metrics, whatever tenant was asked for,
\* without any series; an answer that reaches neither is not cached.
ServeDirect(i) ==
  /\ flight[i].st = "direct"
  /\ LET s == flight[i].sel
         b == IF guard.up
              THEN MetricsBody(s, "direct", GuardTenant, TRUE,
                               parseGuardianMetrics, <<>>)
              ELSE MetricsBody(s, "none", s.tenant, FALSE, NoStats, <<>>)
     IN  /\ flight' = [flight EXCEPT ![i].st = "ready", ![i].body = b]
         /\ cache' = IF guard.up THEN b ELSE cache
  /\ UNCHANGED <<sources, sel, newest, client, events>>

\* With Prometheus: every panel's value and series, then the analyzer's own
\* metrics on top.  A query answered with an error yields no points.
ServeProm(i) ==
  /\ flight[i].st = "prom"
  /\ \E full \in BOOLEAN :
       LET s == flight[i].sel
           p == [sel |-> s, of |-> s.tenant]
           b == MetricsBody(s, "prometheus",
                            IF guard.up THEN GuardTenant ELSE s.tenant,
                            guard.up /\ tenantExpr(s.tenant).lines <= guard.lines,
                            PromStats(s.tenant),
                            IF full THEN <<p, p>> ELSE <<>>)
       IN  /\ full => prom
           /\ flight' = [flight EXCEPT ![i].st = "ready", ![i].body = b]
           /\ cache' = b
  /\ UNCHANGED <<sources, sel, newest, client, events>>

\* A query that times out rejects, and nothing catches it: the whole request
\* fails.  So does a request the network loses.
ServeFails(i) ==
  /\ flight[i].st \in {"sent", "prom"}
  /\ events < MaxEvents
  /\ events' = events + 1
  /\ flight' = [flight EXCEPT ![i].st = "failed"]
  /\ UNCHANGED <<sources, cache, sel, newest, client>>

CacheExpires ==
  /\ cache # Nothing
  /\ cache' = Nothing
  /\ UNCHANGED <<sources, sel, flight, newest, client, events>>

-----------------------------------------------------------------------------
(* The component.                                                          *)

MetricsRequest(s) == [st |-> "sent", sel |-> s, smoke |-> -1, body |-> Nothing]

\* fetchMetrics up to its first await.
fetchMetrics(s) ==
  /\ \E i \in Slots :
       /\ flight[i] = Idle
       /\ flight' = [flight EXCEPT ![i] = MetricsRequest(s)]
       /\ newest' = i
  /\ loading' = TRUE

\* The rate shown by the tile: the gauge and what the counter grew by since
\* the last answer, or the largest rate of the session when the gauge is 0.
Derived(lines, gap) ==
  IF prevLines # Nothing /\ gap /\ lines > prevLines.n
  THEN lines - prevLines.n ELSE 0

SessionPeak(st, sm, gap) ==
  Larger(Larger(peak, st.eps_peak),
         Larger(Larger(sm, st.eps), Derived(st.lines, gap)))

mergeEpsDisplay(st, sm, gap) ==
  [eps_live |-> st.eps, lines |-> st.lines,
   eps |-> IF st.eps > 0 THEN Larger(st.eps, Derived(st.lines, gap))
           ELSE SessionPeak(st, sm, gap)]

needsLiveHistory(b) ==
  b.reachable /\ (b.source = "direct" \/ b.pts = <<>>)

appendLiveHist(h, p) ==
  LET n == Append(h, p)
  IN  IF Len(n) > LiveMax THEN Tail(n) ELSE n

Unreachable(s) ==
  [reachable |-> FALSE, source |-> "none", sel |-> s, of |-> s.tenant,
   own |-> FALSE, pts |-> <<>>,
   stats |-> [eps_live |-> 0, lines |-> 0, eps |-> 0]]

\* The growth of the counter is a rate where both answers took it from the
\* analyzer; an answer that reached nothing counts 0 lines.
Grew(b, gap) == Derived(b.stats.lines, gap) > 0
Alike(b) == prevLines # Nothing /\ prevLines.own /\ b.own

\* An answer of the route, merged with what the component remembers; gap: it
\* was computed at least two seconds after the last one.
UseAnswer(b, sm, gap) ==
  LET live == needsLiveHistory(b)
      h == IF live THEN appendLiveHist(hist, [sel |-> b.sel, of |-> b.of]) ELSE hist
  IN  /\ peak' = SessionPeak(b.stats, sm, gap)
      /\ seen' = seen \union {b.stats.eps, b.stats.eps_peak, sm}
                      \union {r \in {Derived(b.stats.lines, gap)} : Alike(b)}
      /\ jumped' = (jumped \/ (Grew(b, gap) /\ ~Alike(b)))
      /\ prevLines' = [n |-> b.stats.lines, own |-> b.own]
      /\ hist' = h
      /\ data' = [b EXCEPT !.stats = mergeEpsDisplay(b.stats, sm, gap),
                           !.pts = IF live THEN h ELSE b.pts]

\* Every answer is used, whatever was asked for since.
AnswerAny(i) ==
  /\ flight[i].st = "ready"
  /\ flight' = [flight EXCEPT ![i] = Idle]
  /\ epsSmoke' = flight[i].smoke
  /\ newest' = IF i = newest THEN 0 ELSE newest
  /\ loading' = FALSE
  /\ \E gap \in BOOLEAN : UseAnswer(flight[i].body, epsSmoke', gap)
  /\ UNCHANGED <<sources, cache, sel, events>>

\* Both answers are there.  The smoke report is taken in any case, the rest
\* only from the newest request.
AnswerNewest(i) ==
  /\ flight[i].st = "ready"
  /\ flight' = [flight EXCEPT ![i] = Idle]
  /\ epsSmoke' = flight[i].smoke
  /\ IF i = newest
     THEN /\ newest' = 0
          /\ loading' = FALSE
          /\ \E gap \in BOOLEAN : UseAnswer(flight[i].body, epsSmoke', gap)
     ELSE UNCHANGED <<newest, loading, data, hist, prevLines, peak, seen, jumped>>
  /\ UNCHANGED <<sources, cache, sel, events>>

\* A failed request leaves the component waiting.
AnswerNothingWaits(i) ==
  /\ flight[i].st \in {"denied", "failed"}
  /\ flight' = [flight EXCEPT ![i] = Idle]
  /\ epsSmoke' = epsSmoke
  /\ newest' = IF i = newest THEN 0 ELSE newest
  /\ UNCHANGED <<sources, cache, sel, loading, data, hist, prevLines,
                 peak, seen, jumped, events>>

\* A refusal or a failure of either request: no data, only from the newest.
\* The smoke report is taken if it came before the failure was noticed.
AnswerNothing(i) ==
  /\ flight[i].st \in {"denied", "failed"}
  /\ flight' = [flight EXCEPT ![i] = Idle]
  /\ epsSmoke' \in {epsSmoke} \union ({flight[i].smoke} \ {-1})
  /\ IF i = newest
     THEN /\ newest' = 0
          /\ loading' = FALSE
          /\ data' = Unreachable(flight[i].sel)
     ELSE UNCHANGED <<newest, loading, data>>
  /\ UNCHANGED <<sources, cache, sel, hist, prevLines, peak, seen, jumped,
                 events>>

\* A change of range keeps the largest rate of the session before.
SelectKeepsPeak(s) ==
  /\ s # sel
  /\ events < MaxEvents
  /\ events' = events + 1
  /\ sel' = s
  /\ hist' = <<>>
  /\ prevLines' = Nothing
  /\ seen' = {0} /\ jumped' = FALSE
  /\ fetchMetrics(s)
  /\ UNCHANGED <<sources, cache, data, peak, epsSmoke>>

\* The operator picks another range or tenant: the effect empties what was
\* accumulated and fetches.
Select(s) ==
  /\ s # sel
  /\ events < MaxEvents
  /\ events' = events + 1
  /\ sel' = s
  /\ hist' = <<>>
  /\ prevLines' = Nothing
  /\ peak' = 0
  /\ seen' = {0} /\ jumped' = FALSE
  /\ fetchMetrics(s)
  /\ UNCHANGED <<sources, cache, data, epsSmoke>>

\* The interval polls, whether or not the last poll was answered; a hidden
\* tab does not, and polls at once when it is visible again.  So an answer
\* that takes longer than the period is overtaken.
LivePoll ==
  /\ fetchMetrics(sel)
  /\ UNCHANGED <<sources, cache, sel, data, hist, prevLines, peak, epsSmoke,
                 seen, jumped, events>>

-----------------------------------------------------------------------------
(* What the page shows.                                                    *)

\* Charts wait for an answer of the selected range.
chartsReady == ~loading /\ data # Nothing /\ data.sel.range = sel.range

Charts == IF chartsReady THEN data.pts ELSE <<>>

\* A chart without points is a placeholder; a tile draws its line from two
\* points on.
MiniTs(pts) == IF pts = <<>> THEN "placeholder" ELSE "lines"

MiniStat(pts) == IF Len(pts) > 1 THEN "sparkline" ELSE "number"

\* The tile of the event rate: the gauge, or the peak under its own title.
EpsTile ==
  IF data = Nothing THEN [title |-> "eps", v |-> 0]
  ELSE IF data.stats.eps_live > 0
  THEN [title |-> "eps", v |-> data.stats.eps_live]
  ELSE [title |-> IF data.stats.eps > 0 THEN "peak" ELSE "eps",
        v |-> data.stats.eps]

\* The notes above the tiles.
Notes ==
  LET off == data = Nothing \/ ~data.reachable
  IN  {n \in {"smoke", "offline", "direct", "zero"} :
         \/ n = "smoke" /\ epsSmoke > 0
         \/ n = "offline" /\ off /\ ~loading
         \/ n = "direct" /\ ~off /\ data.source = "direct"
         \/ n = "zero" /\ ~off /\ ~loading /\ data.stats.lines = 0}

\* The label of the source; the sections below show the same answer.
SourceLabel ==
  IF data = Nothing \/ ~data.reachable THEN "none" ELSE data.source

-----------------------------------------------------------------------------
(* The rest of the system, from how the code uses it.                      *)

\* The analyzer reads a burst, rests, or restarts with its counters at 0.
GuardMoves ==
  /\ Acts
  /\ guard' \in IF guard.up
               THEN {[guard EXCEPT !.up = FALSE],
                     [guard EXCEPT !.eps = 0, !.lines = MaxRate],
                     [guard EXCEPT !.eps = MaxRate, !.peak = MaxRate]}
               ELSE {[up |-> TRUE, eps |-> 0, peak |-> 0, lines |-> 0]}
  /\ UNCHANGED <<prom, smoke, auth, cache, sel, flight, newest,
                 client>>

\* Prometheus goes down or comes back.
PromMoves ==
  /\ Acts
  /\ prom' = ~prom
  /\ UNCHANGED <<guard, smoke, auth, cache, sel, flight, newest,
                 client>>

\* The smoke script writes its report, or the session expires.
OthersMove ==
  /\ Acts
  /\ \/ smoke' = MaxRate /\ auth' = auth
     \/ auth' = FALSE /\ smoke' = smoke
  /\ UNCHANGED <<guard, prom, cache, sel, flight, newest, client>>

-----------------------------------------------------------------------------
\* The component was just mounted: its effect and the interval have both
\* sent a request.
LiveInit ==
  /\ guard = [up |-> TRUE, eps |-> 0, peak |-> 1, lines |-> 0]
  /\ prom \in BOOLEAN
  /\ smoke = 0
  /\ auth = TRUE
  /\ cache = Nothing
  /\ sel = [range |-> FirstRange, tenant |-> GuardTenant]
  /\ flight = [i \in Slots |-> IF i <= 2 THEN MetricsRequest(sel) ELSE Idle]
  /\ newest = 2
  /\ loading = TRUE /\ data = Nothing /\ hist = <<>> /\ prevLines = Nothing
  /\ peak = 0 /\ epsSmoke = 0
  /\ seen = {0} /\ jumped = FALSE
  /\ events = 0

Progress(i) ==
  \/ ServeStart(i) \/ ServeDirect(i) \/ ServeProm(i)
  \/ AnswerNewest(i) \/ AnswerNothing(i)

LiveNext ==
  \/ \E i \in Slots : Progress(i) \/ ServeFails(i)
  \/ \E s \in Selections : Select(s)
  \/ LivePoll \/ CacheExpires
  \/ GuardMoves \/ PromMoves \/ OthersMove

LiveSpec == LiveInit /\ [][LiveNext]_liveVars

\* Every request is answered, by a result, a refusal or a timeout (all
\* fetches of the route have one).
LiveFairSpec == LiveSpec /\ \A i \in Slots : WF_liveVars(Progress(i))

-----------------------------------------------------------------------------
\* Every variable keeps its type; in particular the history of the browser
\* never outgrows LIVE_MAX and a session peak is a rate.
LiveTypeOK ==
  /\ cache \in {Nothing} \union [reachable : {TRUE},
                                 source : {"direct", "prometheus"},
                                 sel : Selections, of : MetricTenants,
                                 own : BOOLEAN, stats : Stats,
                                 pts : {<<>>} \union {<<p, p>> : p \in Points}]
  /\ sel \in Selections
  /\ hist \in SeqOf(Points, LiveMax)
  /\ peak \in Rates /\ epsSmoke \in Rates /\ seen \subseteq Rates
  /\ loading \in BOOLEAN /\ jumped \in BOOLEAN
  /\ newest \in Slots \union {0}
  /\ events \in 0..MaxEvents

\* The charts never mix selections: every point drawn, whether it came with
\* the answer or was accumulated in the browser, was asked for with the range
\* and the tenant that are selected now (the reqGen guard, the effect's reset
\* and chartsReady together).  A figure of another tenant is drawn only where
\* points are accumulated, and is then the analyzer's, which answers for
\* every tenant; and nothing is drawn under the offline note or without the
\* label of its source.
ChartsOfSelection ==
  MiniTs(Charts) = "lines" \/ MiniStat(Charts) = "sparkline" =>
    /\ \A k \in DOMAIN Charts :
         /\ Charts[k].sel = sel
         /\ Charts[k].of # sel.tenant => Charts = hist /\ Charts[k].of = GuardTenant
    /\ "offline" \notin Notes
    /\ SourceLabel # "none"

\* The peak of the tile is no less than any rate that was reported since the
\* range or tenant was selected, and is one of these rates, unless the line
\* counter jumped: after an answer that reached nothing, which counts 0 lines,
\* or a change between Prometheus and the analyzer, the whole counter is taken
\* for growth and stays as the peak.
PeakOfSession ==
  ~loading /\ data # Nothing /\ data.reachable /\ EpsTile.title = "peak"
    => /\ \A r \in seen : r <= EpsTile.v
       /\ EpsTile.v \in seen \/ jumped

\* A request is sent while the newest one is unanswered.
Overtakes == newest # 0 /\ newest' # 0 /\ newest' # newest

\* The spinner always ends, also after failed, refused and overtaken requests,
\* unless from some time on every answer comes after the next poll.
LoadingEnds == []<><<Overtakes>>_liveVars \/ (loading ~> ~loading)

=============================================================================
