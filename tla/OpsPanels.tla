------------------------------ MODULE OpsPanels -------------------------------
(***************************************************************************)
(* A status panel of the dashboard over time: scripts rewrite the reports  *)
(* in place, the route reads them one by one, answers overtake each other, *)
(* and the panel keeps or drops what it shows when a request fails.        *)
(*                                                                         *)
(* A behaviour is about one panel and about one set of reports that the    *)
(* scripts rewrite in it (hot); when a route reads one of the others makes *)
(* no difference.                                                          *)
(***************************************************************************)
EXTENDS OpsReports, Page

CONSTANTS
  HotSets,  \* the sets of reports rewritten in one behaviour
  Written   \* what the scripts write

ASSUME OpsPanelsAssumption ==
  /\ HotSets \subseteq SUBSET Reports
  /\ Written \subseteq Report
  /\ MaxFlight \in Nat \ {0} /\ MaxEvents \in Nat

VARIABLES
  panel,    \* the panel
  hot,      \* the reports that are rewritten
  disk,     \* report -> its copies
  world,    \* the analyzer and the database, as the routes see them
  busy,     \* loading
  tab

panelVars == <<panel, hot, disk, world, flight, data, busy, tab, events>>

Unread == [unread |-> TRUE]
Tabs == {"morning", "fleet", "vps", "e9"}

\* The reports each panel's routes read.
Reads ==
  [edge |-> {"gate", "status", "intel", "relay", "smoke", "checklist", "e9"},
   fleet |-> {"fleet", "multi", "prune", "remote"},
   banapi |-> {"caddy", "dashban", "mtls", "soar", "expiry", "relay"},
   vps |-> {"prep", "remote"},
   morning |-> {"morning", "smoke"},
   webhook |-> {"status", "proof", "undo"},
   e9 |-> {"e9"},
   competitive |-> {"bench", "ban", "fp", "status", "crs"},
   fp |-> {"fp"},
   lineage |-> {"status", "wasm"},
   strip |-> {"morning", "fleet", "remote", "prep", "e9", "relay", "smoke"},
   tabs |-> {"morning", "fleet", "remote", "prep", "e9", "relay", "smoke"}]

Panels == DOMAIN Reads

\* Panels that poll, that have a button instead, and that load only once.
Polled == {"edge", "webhook", "lineage", "morning", "e9", "fp", "strip"}
Manual == {"fleet", "vps", "banapi"}

\* Panels whose routes also look at the analyzer or at the database.
SeesSystem == {"edge", "fleet", "banapi", "webhook", "strip"}

\* What a refusal and an exception do to the answer shown.
KeepsOnRefusal == {"fleet", "vps", "banapi", "morning", "e9", "strip", "tabs"}
KeepsOnError == {"strip", "tabs"}

PanelAnswer(got, w) ==
  CASE panel = "edge" -> EdgeStatus(got, w)
    [] panel = "fleet" -> FleetOfflineStatus(got, w)
    [] panel = "banapi" -> BanApiStatus(got, w)
    [] panel = "vps" -> VpsPrepStatus(got)
    [] panel = "morning" -> MorningStatus(got)
    [] panel = "webhook" -> WebhookOps(got, w)
    [] panel = "e9" -> E9Status(got)
    [] panel = "competitive" -> BenchMetrics(got)
    [] panel = "fp" -> FpMetrics(got)
    [] panel = "lineage" -> LineageL7(got)
    [] panel \in {"strip", "tabs"} -> GatesSummary(got)

\* The second request of the morning panel and of the strip.
SideAnswer(got, w) ==
  CASE panel = "morning" -> EpsSmokeStatus(got)
    [] panel = "strip" -> MetricsLive(w)
    [] OTHER -> None

\* The lamps of two parts of a panel.
Beside(f, g) ==
  [l \in DOMAIN f \union DOMAIN g |-> IF l \in DOMAIN f THEN f[l] ELSE g[l]]

\* The lamps shown.
Lamps ==
  LET a == data.main
  IN  CASE panel = "edge" ->
             Beside(EdgeHead(a), Beside(EdgeChips(a), EdgeRows(a)))
        [] panel = "fleet" -> Beside(FleetChips(a), FleetRows(a))
        [] panel = "banapi" -> Beside(BanApiChips(a), BanApiRows(a))
        [] panel = "vps" -> Beside(VpsChips(a), VpsRows(a))
        [] panel = "morning" -> Beside(MorningChips(a, data.side), MorningRows(a))
        [] panel = "webhook" -> Beside(WebhookChips(a), WebhookRows(a))
        [] panel = "e9" -> E9Chips(a)
        [] panel = "competitive" -> CompetitiveChips(a)
        [] panel = "fp" -> FpChips(a)
        [] panel = "lineage" -> LineageChips(a)
        [] panel = "strip" ->
             StripPills(a, data.side # None /\ data.side.eps)
        [] panel = "tabs" -> TabChips(a)

-----------------------------------------------------------------------------
(* What the reports say: facts, each a field of a report that is true.     *)

Fact(r, f) == [report |-> r, field |-> f]

\* The first whole copy has the field set.
Says(copies, field) ==
  \E b \in Bases : /\ copies[b] \in Report
                   /\ \A c \in Bases : c < b => copies[c] \notin Report
                   /\ copies[b][field]

SaidBy(d, w) ==
  {x \in [report : DOMAIN d, field : {"pass", "flag", "more"}] :
     Says(d[x.report], x.field)}
  \union (IF w.up THEN {Fact("analyzer", "up")} ELSE {})
  \union (IF w.up /\ w.route THEN {Fact("analyzer", "route")} ELSE {})
  \union (IF w.db /\ w.online > 0 THEN {Fact("database", "online")} ELSE {})

\* History: what is said while a request is served.
Heard(d, w) ==
  [i \in Slots |->
     IF flight[i].st = "reading"
     THEN [flight[i] EXCEPT !.said = @ \union SaidBy(d, w)] ELSE flight[i]]

-----------------------------------------------------------------------------
(* Scripts and the system around, from how the routes use them.            *)

\* A script opens its report for writing, which empties it; it may die there.
BeginWrite(r) ==
  /\ Acts
  /\ r \in hot
  /\ disk[r][1] # Torn
  /\ disk' = [disk EXCEPT ![r][1] = Torn]
  /\ flight' = Heard(disk', world)
  /\ UNCHANGED <<panel, hot, world, data, busy, tab>>

FinishWrite(r) ==
  /\ r \in hot
  /\ disk[r][1] = Torn
  /\ \E x \in Written : disk' = [disk EXCEPT ![r][1] = x]
  /\ flight' = Heard(disk', world)
  /\ UNCHANGED <<panel, hot, world, data, busy, tab, events>>

\* The analyzer stops or starts, and the database with it.
WorldMoves ==
  /\ Acts
  /\ panel \in SeesSystem
  /\ world' = [world EXCEPT !.up = ~@, !.eps = ~world.up, !.db = ~world.up]
  /\ flight' = Heard(disk, world')
  /\ UNCHANGED <<panel, hot, disk, data, busy, tab>>

-----------------------------------------------------------------------------
(* Requests.                                                               *)

PanelRequest ==
  [st |-> "reading", w |-> world, said |-> SaidBy(disk, world),
   got |-> [r \in Reads[panel] |->
              IF r \in hot THEN Unread ELSE readJson(disk[r])]]

Send ==
  \E i \in Slots : /\ flight[i] = Idle
                   /\ flight' = [flight EXCEPT ![i] = PanelRequest]

\* No poll after a poll that left nothing to show.
PollWhileShown ==
  /\ panel \in Polled
  /\ busy \/ data.main # None
  /\ IF \A i \in Slots : flight[i] = Idle THEN UNCHANGED events ELSE Acts
  /\ Send
  /\ busy' = IF panel \in {"morning", "e9"} THEN TRUE ELSE busy
  /\ UNCHANGED <<panel, hot, disk, world, data, tab>>

\* The interval fires, or the operator asks for the same; the webhook panel
\* also loads when its mode changes.  A poll that overtakes an unanswered one
\* is counted as a fault.
PanelPoll ==
  /\ panel \in Polled
  /\ IF \A i \in Slots : flight[i] = Idle THEN UNCHANGED events ELSE Acts
  /\ Send
  /\ busy' = IF panel \in {"morning", "e9"} THEN TRUE ELSE busy
  /\ UNCHANGED <<panel, hot, disk, world, data, tab>>

\* The button of the other panels, disabled while they load.
Refresh ==
  /\ panel \in Manual
  /\ ~busy
  /\ Acts
  /\ Send
  /\ busy' = TRUE
  /\ UNCHANGED <<panel, hot, disk, world, data, tab>>

\* The operator picks a tab, or follows a link to it.
PickTab(t) ==
  /\ panel = "tabs"
  /\ t # tab
  /\ Acts
  /\ tab' = t
  /\ UNCHANGED <<panel, hot, disk, world, flight, data, busy>>

\* The route reads one more of its reports; it sees the system as it is when
\* the last one is read.
ReadReport(i, r) ==
  /\ flight[i].st = "reading"
  /\ flight[i].got[r] = Unread
  /\ LET got == [flight[i].got EXCEPT ![r] = readJson(disk[r])]
         last == \A q \in DOMAIN got : got[q] # Unread
     IN  flight' = [flight EXCEPT ![i] =
                      [st |-> IF last THEN "ready" ELSE "reading",
                       got |-> got, w |-> world, said |-> flight[i].said]]
  /\ UNCHANGED <<panel, hot, disk, world, data, busy, tab, events>>

\* The session has expired, the server fails, or the network does.
RequestFails(i) ==
  /\ flight[i].st = "reading"
  /\ Acts
  /\ \E st \in {"refused", "lost"} :
       flight' = [flight EXCEPT ![i] = [st |-> st, w |-> world]]
  /\ UNCHANGED <<panel, hot, disk, world, data, busy, tab>>

\* The answer is shown, whichever request it belongs to; the tabs also jump
\* to the first gate that fails.
Show(i) ==
  /\ flight[i].st = "ready"
  /\ LET f == flight[i]
     IN  /\ data' = [main |-> PanelAnswer(f.got, f.w),
                     side |-> SideAnswer(f.got, f.w), said |-> f.said]
         /\ tab' = IF panel = "tabs" THEN FirstFailing(data'.main, tab)
                                     ELSE tab
  /\ flight' = [flight EXCEPT ![i] = Idle]
  /\ busy' = FALSE
  /\ UNCHANGED <<panel, hot, disk, world, events>>

\* No answer.
ShowNothing(i) ==
  /\ flight[i].st \in {"refused", "lost"}
  /\ LET keeps == \/ flight[i].st = "refused" /\ panel \in KeepsOnRefusal
                  \/ panel \in KeepsOnError
     IN  data' = IF keeps THEN data ELSE [data EXCEPT !.main = None]
  /\ flight' = [flight EXCEPT ![i] = Idle]
  /\ busy' = FALSE
  /\ UNCHANGED <<panel, hot, disk, world, tab, events>>

-----------------------------------------------------------------------------
Old == [pass |-> TRUE, flag |-> TRUE, more |-> TRUE, n |-> 2]   \* the checkout's copy

\* A panel was just opened; the checkout may hold an old report that passes.
PanelInit ==
  /\ panel \in Panels
  /\ hot \in {h \in HotSets : h # {} /\ h \subseteq Reads[panel]}
  /\ \E new \in [hot -> Written \union {NoFile}], old \in {NoFile, Old} :
       disk = [r \in Reads[panel] |->
                 IF r \in hot THEN <<new[r], old>> ELSE <<NoFile, old>>]
  /\ \E on \in IF panel \in SeesSystem THEN BOOLEAN ELSE {TRUE} :
     \E route \in IF panel = "webhook" THEN BOOLEAN ELSE {FALSE} :
       world = [up |-> on, eps |-> on, route |-> route, legacy |-> 0,
                bans |-> 0, db |-> on, total |-> 1, online |-> 1,
                pending |-> 0]
  /\ flight = [i \in Slots |-> IF i = 1 THEN PanelRequest ELSE Idle]
  /\ data = [main |-> None, side |-> None, said |-> {}]
  /\ busy = TRUE
  /\ tab = "morning"
  /\ events = 0

Serve(i) ==
  (\E r \in hot : ReadReport(i, r)) \/ Show(i) \/ ShowNothing(i)

PanelNext ==
  \/ \E r \in hot : BeginWrite(r) \/ FinishWrite(r)
  \/ \E t \in Tabs : PickTab(t)
  \/ \E i \in Slots : Serve(i) \/ RequestFails(i)
  \/ WorldMoves \/ PanelPoll \/ Refresh

PanelSpec == PanelInit /\ [][PanelNext]_panelVars

\* Requests end, and the interval of a mounted panel keeps firing.
PanelFairSpec ==
  /\ PanelSpec /\ WF_panelVars(PanelPoll)
  /\ \A i \in Slots : WF_panelVars(Serve(i))

-----------------------------------------------------------------------------
\* The facts one of which must be true for a lamp to be green.
BackedBy(l) ==
  CASE l = "gate" ->
         {Fact([edge |-> "gate", fleet |-> "fleet", vps |-> "prep",
                banapi |-> "soar", morning |-> "morning",
                e9 |-> "e9"][panel], "pass")}
    [] l = "ipc" -> {Fact("gate", "flag"), Fact("status", "flag")}
    [] l = "nginx" -> {Fact("gate", "more")}
    [] l \in {"host", "bridge", "apiRelay", "docker"} ->
         {Fact("dashban", "flag"), Fact("caddy", "pass")}
    [] l = "metrics" -> {Fact("dashban", "flag"), Fact("caddy", "pass"),
                         Fact("analyzer", "up")}
    [] l = "banPass" -> {Fact("dashban", "pass"), Fact("caddy", "more")}
    [] l = "vps" -> {Fact("prep", "pass"), Fact("remote", "flag")}
    [] l = "smoke" -> {Fact("smoke", "pass")} \union
         (IF panel = "morning" THEN {Fact("morning", "flag")} ELSE {}) \union
         (IF panel = "strip" THEN {Fact("analyzer", "up")} ELSE {})
    [] l = "live" -> {Fact("status", "flag"), Fact("analyzer", "up")}
    [] l = "wasm" -> {Fact("wasm", "pass"), Fact("status", "pass")}
    [] l = "rate" -> {Fact("fp", "pass")}
    [] l = "trust" -> {Fact("fp", "flag")}
    [] l = "badge" -> {Fact("gate", "pass")}
    [] l \in {"remote", "shadow", "title"} -> {Fact("remote", "flag")}
    [] l \in {"soak", "handsOff"} -> {Fact("remote", "more")}
    [] l = "agents" -> {Fact("database", "online")}
    [] l = "ticks" -> {Fact(panel, "more")}
    [] l = "soar" -> {Fact("mtls", "pass"), Fact("caddy", "pass")}
    [] l = "production" -> {Fact("proof", "more")}
    [] l = "route" -> {Fact("status", "pass"), Fact("proof", "flag"),
                       Fact("analyzer", "route")}
    [] l \in {"report", "prune", "button", "hint"} -> {}
    [] OTHER -> {Fact(l, "pass")}

\* No lamp is green by itself or by an earlier answer: while the request
\* that brought the answer shown was being served, the first whole copy of a
\* report behind the lamp, or the running system, said so, whatever was torn,
\* missing, late or refused.  The copy may be the checkout's old one, when
\* the newer one was missing or half written in that time: such a green is
\* out of date, and only CatchesUp speaks of its end.  Two lamps are left
\* out, since they take a missing report for a good one: the queue of the
\* fleet panel and the ban database of the edge panel.
GreenIsReported ==
  \A l \in DOMAIN Lamps \ {"queue", "intel"} :
    Lamps[l] = "green" => BackedBy(l) \intersect data.said # {}

\* What the panel would show of the reports as they are.
Current ==
  LET got == [r \in Reads[panel] |-> readJson(disk[r])]
  IN  [main |-> PanelAnswer(got, world), side |-> SideAnswer(got, world)]

\* Once scripts and faults rest, a panel that polls comes to show the reports
\* as they are and keeps to it: a failed request, a torn report or an answer
\* that came late is made good by a later poll.
CatchesUp ==
  panel \in Polled => <>[](/\ data.main = Current.main
                           /\ data.side = Current.side)
=============================================================================
