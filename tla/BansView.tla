------------------------------ MODULE BansView ------------------------------
(***************************************************************************)
(* The ban list of the dashboard: the routes behind /api/bans with their   *)
(* cache, the ban route, which reaches the analyzer over its API or the    *)
(* command line, and the browser: the badge of the navigation bar          *)
(* (BannedIpsContext), the preview panel, the bans page with its search    *)
(* and the Telegram panel below it, and the buttons that ban and unban.    *)
(*                                                                         *)
(* Requests overlap and answers arrive in any order.  A handler of         *)
(* /api/bans is two steps: Serve makes its reads, Answer stores the result *)
(* in the cache and hands it to the browser.  An address is a number; its  *)
(* place in a list follows the order of the numbers.                       *)
(***************************************************************************)
EXTENDS Naturals, FiniteSets

CONSTANTS
  Ips,          \* addresses, numbers from 1
  Searchable,   \* bound: the addresses that the operator types
  ProofIps,     \* bans of the proof reports in the data directory
  DemoIps,      \* bans of dashboard-live-demo.json
  PageSize,     \* PAGE_SIZE of the bans page
  PreviewLimit, \* PREVIEW_LIMIT of the panel
  Sessions,     \* bound: who looks on, what is mounted, what is installed
  InitialBans,  \* bound: the lists at the start
  Ops,          \* bound: clicks on ban or unban
  MaxEvents     \* bound: what else the operator does, changes by others, failed calls

Searches == {0} \cup Ips  \* 0: no search
Surfaces == {"panel", "page"}
Slots == {"badge", "panel", "page", "tele"} \X {1, 2}
\* lanes and flight, bounds: the slots for requests that overlap, and nothing new
\* is asked while as many as flight are under way.
SessionType == [admin : BOOLEAN, token : BOOLEAN, bin : BOOLEAN, mounted : Surfaces,
                lanes : SUBSET Slots, flight : Nat]

ASSUME IpAssumption == /\ Ips \subseteq Nat \ {0} /\ IsFiniteSet(Ips)
                       /\ ProofIps \cup DemoIps \cup Searchable \subseteq Ips
ASSUME SizeAssumption == /\ InitialBans \subseteq SUBSET Ips
                         /\ PageSize \in Nat \ {0} /\ PreviewLimit \in Nat \ {0}
                         /\ MaxEvents \in Nat
ASSUME SessionAssumption == Sessions \subseteq SessionType

VARIABLES
  session,
  kernel,   \* the bans in force
  live,     \* the daemon's export of them, the list that the API returns
  file,     \* active_bans.json in the data directory, a copy of the export
  demo,     \* the files that choose the display mode
  cache,    \* bansCache
  req,      \* requests to /api/bans
  op,       \* ban posts
  tab,      \* the browser tab: visible, interval running
  badge, panel, page, tele,  \* state of the components
  events,   \* bounded by MaxEvents
  unfresh   \* history: an answer was read before a success that came before its request

vars == <<session, kernel, live, file, demo, cache, req, op, tab, badge, panel, page, tele,
          events, unfresh>>
Browser == <<tab, badge, panel, page, tele>>

Opts == [off : 0..(Cardinality(Ips) * PageSize), q : Searches, lim : Nat, count : BOOLEAN]
Sources == {"ipset", "empty", "proof-reports", "live-demo"}
\* seen: the posts that had been answered with success at the time of the read.
SnapType == [ips : SUBSET Ips, source : Sources, seen : SUBSET Ops]
NoOpts == [off |-> 0, q |-> 0, lim |-> 0, count |-> FALSE]
NoSnap == [ips |-> {}, source |-> "empty", seen |-> {}]
FreeReq == [phase |-> "free", opts |-> NoOpts, snap |-> NoSnap, after |-> {},
            cached |-> FALSE, late |-> FALSE, cancelled |-> FALSE, then |-> FALSE]

TypeOK ==
  /\ session \in Sessions
  /\ kernel \subseteq Ips /\ live \subseteq Ips /\ file \subseteq Ips
  /\ demo \in {"none", "flag", "pass", "cleanup"}
  /\ cache \in [Ips -> [snap : SnapType, late : BOOLEAN, fresh : BOOLEAN]]
  /\ \A i \in Slots : /\ req[i].phase \in {"free", "sent", "read"}
                      /\ req[i].opts \in Opts /\ req[i].snap \in SnapType
  /\ op \in [Ops -> [phase : {"new", "posted", "api", "cli", "ok", "failed", "confirmed", "end"},
                     ip : Searches, action : {"ban", "unban"}, called : BOOLEAN,
                     applied : BOOLEAN, off : Nat, q : Searches]]
  /\ tab \in [visible : BOOLEAN, timer : BOOLEAN]
  /\ badge \in [count : Nat, source : Sources \cup {""}, preview : BOOLEAN, loading : BOOLEAN]
  /\ panel \in [rows : SUBSET Ips, preview : BOOLEAN, loading : BOOLEAN, refreshing : BOOLEAN]
  /\ page \in [rows : SUBSET Ips, total : Nat, off : Nat, search : Searches, filter : Searches,
               preview : BOOLEAN, loading : BOOLEAN, refreshing : BOOLEAN, timer : BOOLEAN]
  /\ tele \in [ip : Searches, banned : {"unknown", "yes", "no"}]
  /\ events \in 0..MaxEvents
  /\ unfresh \in BOOLEAN

\* bound: one more event.
Event == events < MaxEvents /\ events' = events + 1

-----------------------------------------------------------------------------
(* What an answer holds. *)

\* Posts that the ban route has answered with success.
Confirmed == {o \in Ops : op[o].phase \in {"ok", "confirmed"}}

Match(S, q) == IF q = 0 THEN S ELSE S \cap {q}
Rank(S, i) == Cardinality({j \in S : j <= i})
Slice(S, off, lim) == {i \in S : off < Rank(S, i) /\ Rank(S, i) <= off + lim}

\* packResult and packBanEntries.
Pack(o, snap) ==
  LET found == Match(snap.ips, o.q)
  IN [count   |-> Cardinality(found),
      rows    |-> IF o.count THEN {} ELSE Slice(found, o.off, o.lim),
      source  |-> snap.source,
      preview |-> snap.source = "proof-reports"]

\* ipsetLiveOverridesDemo.
LiveOverridesDemo(active) ==
  active # {} /\ (Cardinality(active) > Cardinality(DemoIps) \/ active \ DemoIps # {})

\* resolveBansDisplayMode.
DisplayMode ==
  CASE demo = "cleanup" -> "proof"
    [] demo = "pass" /\ DemoIps # {} -> IF LiveOverridesDemo(file) THEN "live" ELSE "live-demo"
    [] demo = "flag" -> "proof"
    [] OTHER -> "live"

ProofBans(else) == IF ProofIps = {} THEN else
                   ELSE [ips |-> ProofIps, source |-> "proof-reports", seen |-> Confirmed]

\* fetchBannedIps: the API, which returns the export, or after an error or 8
\* seconds the file.
FetchBanned(ok) ==
  IF ok THEN [ips |-> live, source |-> "ipset", seen |-> Confirmed]
  ELSE [ips |-> file, source |-> IF file = {} THEN "empty" ELSE "ipset", seen |-> Confirmed]

\* The body of GET after the cache.  No live match: the proof reports.
ReadBans(o, ok) ==
  CASE DisplayMode = "proof" -> ProofBans([NoSnap EXCEPT !.seen = Confirmed])
    [] DisplayMode = "live-demo" -> [ips |-> DemoIps, source |-> "live-demo", seen |-> Confirmed]
    [] OTHER -> LET data == FetchBanned(ok)
                IN IF Match(data.ips, o.q) = {} THEN ProofBans(data) ELSE data

-----------------------------------------------------------------------------
(* The cache. *)

\* The entry of the Telegram panel for an address; the others all ask with bust,
\* so that what the cache holds for them is never read, and is left out.
NoEntry == [snap |-> NoSnap, late |-> FALSE, fresh |-> FALSE]

\* getCachedBans: TTL_MS have passed, or the entry was the oldest of 33.
Expire(ip) ==
  /\ cache[ip].fresh
  /\ cache' = [cache EXCEPT ![ip] = NoEntry]
  /\ UNCHANGED <<session, kernel, live, file, demo, req, op, Browser, unfresh, events>>

\* invalidateAllBansCache; requests that have read already are late from now on.
InvalidateAll ==
  /\ cache' = [ip \in Ips |-> NoEntry]
  /\ req' = [i \in Slots |-> IF req[i].phase = "read" THEN [req[i] EXCEPT !.late = TRUE] ELSE req[i]]

-----------------------------------------------------------------------------
(* Sending. *)

InFlight == {i \in Slots : req[i].phase # "free"}
FreeSlot(r, who) == {n \in {1, 2} : <<who, n>> \in session.lanes /\ r[<<who, n>>].phase = "free"}
\* bound: the components named may send.
Room(names) == /\ Cardinality(InFlight) < session.flight
               /\ \A w \in names : FreeSlot(req, w) # {}

Request(o) == [FreeReq EXCEPT !.phase = "sent", !.opts = o, !.after = Confirmed]

\* One request of a component, in the first slot that is free.
Send(r, who, o) ==
  LET n == IF 1 \in FreeSlot(r, who) THEN 1 ELSE 2
  IN [r EXCEPT ![<<who, n>>] = Request(o)]

\* The same request twice in one tick.  Where only one slot is free the two are
\* taken for one.
SendTwice(r, who, o) == IF FreeSlot(r, who) = {1, 2}
                        THEN Send(Send(r, who, o), who, o) ELSE Send(r, who, o)

CountOpts == [NoOpts EXCEPT !.count = TRUE]
PanelOpts == [NoOpts EXCEPT !.lim = PreviewLimit]
PageOpts(off, q) == [NoOpts EXCEPT !.lim = PageSize, !.off = off, !.q = q]
TeleOpts(ip) == [NoOpts EXCEPT !.lim = 5, !.q = ip]

Init ==
  /\ session \in Sessions
  /\ kernel \in InitialBans /\ live = kernel /\ file = live
  /\ demo = "none"
  /\ cache = [ip \in Ips |-> NoEntry]
  /\ op = [o \in Ops |-> [phase |-> "new", ip |-> 0, action |-> "ban", called |-> FALSE,
                       applied |-> FALSE, off |-> 0, q |-> 0]]
  /\ tab = [visible |-> TRUE, timer |-> TRUE]
  /\ badge = [count |-> 0, source |-> "", preview |-> FALSE, loading |-> TRUE]
  /\ panel = [rows |-> {}, preview |-> FALSE, loading |-> TRUE, refreshing |-> session.mounted = "panel"]
  /\ page = [rows |-> {}, total |-> 0, off |-> 0, search |-> 0, filter |-> 0, preview |-> FALSE,
             loading |-> TRUE, refreshing |-> session.mounted = "page", timer |-> FALSE]
  /\ tele = [ip |-> 0, banned |-> "unknown"]
  /\ events = 0 /\ unfresh = FALSE
  /\ req = [i \in Slots |->
       CASE i = <<"badge", 1>> -> [FreeReq EXCEPT !.phase = "sent", !.opts = CountOpts]
         [] i = <<"panel", 1>> /\ session.mounted = "panel" ->
              [FreeReq EXCEPT !.phase = "sent", !.opts = PanelOpts]
         [] i = <<"page", 1>> /\ session.mounted = "page" ->
              [FreeReq EXCEPT !.phase = "sent", !.opts = PageOpts(0, 0)]
         [] OTHER -> FreeReq]

-----------------------------------------------------------------------------
(* What the components show, and which of their controls are enabled. *)

BadgeView == [count |-> badge.count,
              mark  |-> CASE badge.preview -> "proof"
                          [] badge.source = "ipset" /\ badge.count > 0 -> "live"
                          [] OTHER -> "plain"]

PanelView ==
  [list    |-> CASE panel.loading /\ panel.rows = {} -> "loading"
                 [] badge.count = 0 -> "empty"
                 [] OTHER -> "rows",
   unban   |-> ~(panel.preview \/ badge.preview),  \* readOnly of the buttons
   refresh |-> ~(panel.loading \/ panel.refreshing)]

PageView ==
  LET filtering == page.search # 0
      spinning == page.loading \/ page.refreshing
      pageEnd == page.off + Cardinality(page.rows)
  IN [list    |-> CASE page.loading /\ page.rows = {} -> "loading"
                    [] page.total = 0 /\ ~filtering -> "empty"
                    [] page.rows = {} -> IF filtering THEN "searchEmpty" ELSE "empty"
                    [] OTHER -> "rows",
      unban   |-> ~page.preview,
      refresh |-> ~spinning,
      prev    |-> ~filtering /\ page.total > PageSize /\ page.off > 0 /\ ~spinning,
      next    |-> ~filtering /\ page.total > PageSize /\ pageEnd < page.total /\ ~spinning]

-----------------------------------------------------------------------------
(* GET /api/bans. *)

CacheHit(i) == i[1] = "tele" /\ cache[req[i].opts.q].fresh

\* The handler looks into the cache, or reads.
Serve(i, ok) ==
  /\ req[i].phase = "sent"
  /\ IF CacheHit(i)
     THEN LET e == cache[req[i].opts.q]
          IN /\ ok
             /\ req' = [req EXCEPT ![i].phase = "read", ![i].snap = e.snap,
                                   ![i].cached = TRUE, ![i].late = e.late]
             /\ UNCHANGED events
     ELSE /\ IF ok THEN UNCHANGED events ELSE DisplayMode = "live" /\ Event
          /\ req' = [req EXCEPT ![i].phase = "read", ![i].snap = ReadBans(req[i].opts, ok)]
  /\ UNCHANGED <<session, kernel, live, file, demo, cache, op, Browser, unfresh>>

\* The end of the handler, and the answer on its way to the component.
Finish(i) ==
  /\ req[i].phase = "read"
  /\ cache' = IF i[1] = "tele" /\ ~req[i].cached
              THEN [cache EXCEPT ![req[i].opts.q] = [snap |-> req[i].snap, late |-> req[i].late,
                                                     fresh |-> TRUE]]
              ELSE cache
  /\ unfresh' = (unfresh \/ ( /\ ~(req[i].after \subseteq req[i].snap.seen)
                              /\ ~(i[1] = "tele" /\ req[i].cached /\ req[i].late) ))

\* The request fails in the browser: the handler has thrown, or the network.
FailRequest(i) ==
  /\ req[i].phase # "free" /\ Event
  /\ UNCHANGED <<cache, unfresh>>

Drop(i) == [req EXCEPT ![i] = FreeReq]
Rest == <<session, kernel, live, file, demo, op>>

-----------------------------------------------------------------------------
(* The badge: refresh of BannedIpsProvider.  The panel awaits the count that
   it asked for. *)

PanelAfter(i) == IF req[i].then THEN [panel EXCEPT !.loading = FALSE, !.refreshing = FALSE]
                 ELSE panel

\* A new source makes a new loadPage, and the effect of the page runs again.
AnswerBadge(i) ==
  /\ i[1] = "badge" /\ Finish(i)
  /\ LET a == Pack(req[i].opts, req[i].snap)
     IN /\ badge' = [count |-> a.count, source |-> a.source, preview |-> a.preview, loading |-> FALSE]
        /\ page' = IF session.mounted = "page" /\ a.source # badge.source
                   THEN [page EXCEPT !.timer = TRUE] ELSE page
  /\ panel' = PanelAfter(i)
  /\ req' = Drop(i)
  /\ UNCHANGED <<Rest, tab, tele, events>>

FailBadge(i) ==
  /\ i[1] = "badge" /\ FailRequest(i)
  /\ badge' = [badge EXCEPT !.count = 0, !.preview = FALSE, !.loading = FALSE]
  /\ panel' = PanelAfter(i)
  /\ req' = Drop(i)
  /\ UNCHANGED <<Rest, tab, page, tele>>

-----------------------------------------------------------------------------
(* The panel: useBanPreview. *)

AnswerPanel(i) ==
  /\ i[1] = "panel" /\ Finish(i)
  /\ FreeSlot(req, "badge") # {}
  /\ LET a == Pack(req[i].opts, req[i].snap)
         n == IF 1 \in FreeSlot(req, "badge") THEN 1 ELSE 2
     IN /\ panel' = [panel EXCEPT !.rows = a.rows, !.preview = a.preview]
        /\ req' = [Send(Drop(i), "badge", CountOpts) EXCEPT ![<<"badge", n>>].then = TRUE]
  /\ UNCHANGED <<Rest, tab, badge, page, tele, events>>

FailPanel(i) ==
  /\ i[1] = "panel" /\ FailRequest(i)
  /\ panel' = [panel EXCEPT !.rows = {}, !.loading = FALSE, !.refreshing = FALSE]
  /\ req' = Drop(i)
  /\ UNCHANGED <<Rest, tab, badge, page, tele>>

\* The interval of 45 seconds, or the button while it is enabled.
RefreshPanel ==
  /\ session.mounted = "panel"
  /\ \/ tab.visible /\ tab.timer /\ UNCHANGED events
     \/ PanelView.refresh /\ Event
  /\ Room({"panel"})
  /\ req' = Send(req, "panel", PanelOpts)
  /\ panel' = [panel EXCEPT !.refreshing = TRUE]
  /\ UNCHANGED <<Rest, tab, badge, page, tele, cache, unfresh>>

-----------------------------------------------------------------------------
(* The page: loadPage, search, paging; the Telegram panel below asks again for
   every address searched, and cancels what it asked for before. *)

(* Mutant: the offset is set when the page is asked for. *)
LoadPageEarly(off, q) == [page EXCEPT !.refreshing = TRUE, !.off = off]

\* The state while loadPage waits.
LoadPage(off, q) == [page EXCEPT !.refreshing = TRUE]

\* The panel has no key: from one address to another it is the same component
\* and keeps its verdict until the next answer; without an address it goes.
Mounted(ip) == [ip |-> ip, banned |-> IF ip = 0 \/ tele.ip = 0 THEN "unknown" ELSE tele.banned]

AnswerPage(i) ==
  /\ i[1] = "page" /\ Finish(i)
  /\ LET o == req[i].opts
         a == Pack(o, req[i].snap)
         gone == [j \in Slots |-> IF j[1] = "tele" /\ req[j].phase # "free"
                                  THEN [Drop(i)[j] EXCEPT !.cancelled = TRUE] ELSE Drop(i)[j]]
     IN /\ page' = [page EXCEPT !.rows = a.rows, !.total = a.count, !.preview = a.preview,
                                !.off = o.off, !.search = o.q, !.loading = FALSE, !.refreshing = FALSE]
        /\ IF o.q = page.search THEN req' = Drop(i) /\ UNCHANGED tele
           ELSE /\ tele' = Mounted(o.q)
                /\ o.q # 0 => FreeSlot(req, "tele") # {}
                /\ req' = IF o.q = 0 THEN gone ELSE Send(gone, "tele", TeleOpts(o.q))
  /\ UNCHANGED <<Rest, tab, badge, panel, events>>

FailPage(i) ==
  /\ i[1] = "page" /\ FailRequest(i)
  /\ page' = [page EXCEPT !.rows = {}, !.loading = FALSE, !.refreshing = FALSE]
  /\ req' = Drop(i)
  /\ UNCHANGED <<Rest, tab, badge, panel, tele>>

Turn(off, q) ==
  /\ Room({"page"})
  /\ req' = Send(req, "page", PageOpts(off, q))
  /\ UNCHANGED <<Rest, tab, badge, panel, tele, cache, unfresh>>

PrevPage == /\ UNCHANGED events /\ PageView.prev
            /\ LET off == IF page.off < PageSize THEN 0 ELSE page.off - PageSize
               IN Turn(off, page.search) /\ page' = LoadPage(off, page.search)
NextPage == /\ Event /\ PageView.next
            /\ LET off == page.off + PageSize
               IN Turn(off, page.search) /\ page' = LoadPage(off, page.search)

\* The debounce of 300 ms has run out.
FireSearch ==
  /\ page.timer /\ UNCHANGED events
  /\ Turn(0, page.filter)
  /\ page' = [LoadPage(0, page.filter) EXCEPT !.timer = FALSE]

TypeSearch(q) ==
  /\ Event
  /\ session.mounted = "page" /\ q # page.filter
  /\ page' = [page EXCEPT !.filter = q, !.timer = TRUE]
  /\ UNCHANGED <<Rest, tab, badge, panel, tele, req, cache, unfresh>>

\* activeSearch || filter.
RefreshSearch == IF page.search # 0 THEN page.search ELSE page.filter

\* The refresh button: handleRefresh.
RefreshPage ==
  /\ Event
  /\ session.mounted = "page" /\ PageView.refresh
  /\ Room({"page", "badge"})
  /\ req' = Send(Send(req, "page", PageOpts(page.off, RefreshSearch)), "badge", CountOpts)
  /\ page' = LoadPage(page.off, RefreshSearch)
  /\ UNCHANGED <<Rest, tab, badge, panel, tele, cache, unfresh>>

AnswerTele(i) ==
  /\ i[1] = "tele" /\ Finish(i)
  /\ tele' = IF req[i].cancelled THEN tele
             ELSE [tele EXCEPT !.banned = IF tele.ip \in Pack(req[i].opts, req[i].snap).rows
                                          THEN "yes" ELSE "no"]
  /\ req' = Drop(i)
  /\ UNCHANGED <<Rest, tab, badge, panel, page, events>>

\* An error forgets the verdict; an answer that is not ok leaves it.
FailTele(i) ==
  /\ i[1] = "tele" /\ FailRequest(i)
  /\ \/ UNCHANGED tele
     \/ ~req[i].cancelled /\ tele' = [tele EXCEPT !.banned = "unknown"]
  /\ req' = Drop(i)
  /\ UNCHANGED <<Rest, tab, badge, panel, page>>

-----------------------------------------------------------------------------
(* useVisibleInterval. *)

Tick ==
  /\ tab.visible /\ tab.timer
  /\ FreeSlot(req, "badge") # {}
  /\ req' = Send(req, "badge", CountOpts)
  /\ UNCHANGED <<Rest, Browser, cache, unfresh, events>>

Hide ==
  /\ Event
  /\ tab.visible
  /\ tab' = [visible |-> FALSE, timer |-> FALSE]
  /\ UNCHANGED <<Rest, badge, panel, page, tele, req, cache, unfresh>>

(* Mutant: stop forgets to reset timer, so that start returns. *)
ShowStopped ==
  /\ ~tab.visible
  /\ tab' = [tab EXCEPT !.visible = TRUE]
  /\ UNCHANGED <<Rest, badge, panel, page, tele, req, cache, unfresh, events>>

\* start: a tick at once, and the interval again.
Show ==
  /\ ~tab.visible
  /\ Room({"badge"})
  /\ tab' = [visible |-> TRUE, timer |-> TRUE]
  /\ IF session.mounted = "panel"
     THEN /\ Room({"panel"})
          /\ req' = Send(Send(req, "badge", CountOpts), "panel", PanelOpts)
          /\ panel' = [panel EXCEPT !.refreshing = TRUE]
     ELSE req' = Send(req, "badge", CountOpts) /\ UNCHANGED panel
  /\ UNCHANGED <<Rest, badge, page, tele, cache, unfresh, events>>

-----------------------------------------------------------------------------
(* The buttons, POST /api/guardian/ban and executeGuardianBan. *)

Idle == <<session, live, file, demo, Browser>>

\* What ban_pipeline_ban and ban_pipeline_unban leave in force when they report
\* success: an address on the white list or reserved is skipped, and an unban
\* succeeds also when the test after it fails.  Which addresses are exempt is open.
Effects(o) == {kernel, IF op[o].action = "ban" THEN kernel \cup {op[o].ip}
                       ELSE kernel \ {op[o].ip}}

\* A click: each button has its own busy flag, so posts for different addresses
\* overlap.  The callbacks keep the offset and the search of this render.
Click(o, ip, action) ==
  /\ op[o].phase = "new" /\ \A p \in Ops : p < o => op[p].phase # "new"
  /\ \A p \in Ops : op[p].ip = ip => op[p].phase \in {"confirmed", "end"}
  /\ \/ action = "unban" /\ session.mounted = "panel" /\ PanelView.list = "rows"
        /\ PanelView.unban /\ ip \in panel.rows
     \/ action = "unban" /\ session.mounted = "page" /\ PageView.unban /\ ip \in page.rows
     \/ action = "ban" /\ session.mounted = "page" /\ ip \in Searchable
  /\ op' = [op EXCEPT ![o] = [@ EXCEPT !.phase = "posted", !.ip = ip, !.action = action,
                                       !.off = page.off, !.q = RefreshSearch]]
  /\ UNCHANGED <<Idle, kernel, cache, req, unfresh, events>>

\* The checks of the route; then the call of the API.
AcceptPost(o) ==
  /\ op[o].phase = "posted"
  /\ op' = [op EXCEPT ![o] = IF session.admin /\ session.token
                             THEN [@ EXCEPT !.phase = "api", !.called = TRUE]
                             ELSE [@ EXCEPT !.phase = "failed"]]
  /\ UNCHANGED <<Idle, kernel, cache, req, unfresh, events>>

\* handle_post_ban of the analyzer, also when the route has stopped waiting.
Apply(o) ==
  /\ op[o].called
  /\ kernel' \in Effects(o)
  /\ op' = [op EXCEPT ![o].called = FALSE, ![o].applied = TRUE]
  /\ UNCHANGED <<Idle, cache, req, unfresh, events>>

(* Mutant: the cache is kept. *)
ApiSuccessKeeps(o) ==
  /\ op[o].phase = "api" /\ op[o].applied
  /\ op' = [op EXCEPT ![o].phase = "ok"]
  /\ UNCHANGED <<Idle, kernel, cache, req, unfresh, events>>

ApiSuccess(o) ==
  /\ op[o].phase = "api" /\ op[o].applied
  /\ InvalidateAll
  /\ op' = [op EXCEPT ![o].phase = "ok"]
  /\ UNCHANGED <<Idle, kernel, unfresh, events>>

ApiRefuses(o) ==
  /\ op[o].phase = "api" /\ op[o].called
  /\ op' = [op EXCEPT ![o].phase = "failed", ![o].called = FALSE]
  /\ UNCHANGED <<Idle, kernel, cache, req, unfresh, events>>

\* The timeout of 10 seconds, or no connection: the command line if GUARDIAN_BIN
\* is set.
ApiThrows(o) ==
  /\ op[o].phase = "api" /\ Event
  /\ op' = [op EXCEPT ![o].phase = IF session.bin THEN "cli" ELSE "failed"]
  /\ UNCHANGED <<Idle, kernel, cache, req, unfresh>>

RunCli(o, ok) ==
  /\ op[o].phase = "cli"
  /\ IF ok THEN /\ kernel' \in Effects(o)
                /\ op' = [op EXCEPT ![o].phase = "ok", ![o].applied = TRUE]
                /\ InvalidateAll
     ELSE /\ op' = [op EXCEPT ![o].phase = "failed"]
          /\ UNCHANGED <<kernel, cache, req>>
  /\ UNCHANGED <<Idle, unfresh, events>>

\* onDone and onRefresh both refresh.  A ban by hand also searches the address.
Succeed(o) ==
  /\ op[o].phase = "ok"
  /\ op' = [op EXCEPT ![o].phase = "confirmed"]
  /\ IF session.mounted = "panel"
     THEN /\ Room({"panel"})
          /\ req' = SendTwice(req, "panel", PanelOpts)
          /\ panel' = [panel EXCEPT !.refreshing = TRUE]
          /\ UNCHANGED page
     ELSE /\ Room({"page", "badge"})
          /\ req' = Send(SendTwice(req, "page", PageOpts(op[o].off, op[o].q)), "badge", CountOpts)
          /\ page' = IF op[o].action = "ban" /\ page.filter # op[o].ip
                     THEN [LoadPage(op[o].off, op[o].q) EXCEPT !.filter = op[o].ip, !.timer = TRUE]
                     ELSE LoadPage(op[o].off, op[o].q)
          /\ UNCHANGED panel
  /\ UNCHANGED <<session, kernel, live, file, demo, tab, badge, tele, cache, unfresh, events>>

\* onDone of the panel refreshes after a failure too.
FailOp(o) ==
  /\ op[o].phase = "failed"
  /\ op' = [op EXCEPT ![o].phase = "end"]
  /\ IF session.mounted = "panel"
     THEN /\ Room({"panel"})
          /\ req' = Send(req, "panel", PanelOpts)
          /\ panel' = [panel EXCEPT !.refreshing = TRUE]
     ELSE UNCHANGED <<req, panel>>
  /\ UNCHANGED <<session, kernel, live, file, demo, tab, badge, page, tele, cache, unfresh, events>>

-----------------------------------------------------------------------------
(* Others: the analyzer, the exporter of the daemon, the demo script. *)

LiveChange(ip) ==
  /\ Event
  /\ kernel' = IF ip \in kernel THEN kernel \ {ip} ELSE kernel \cup {ip}
  /\ UNCHANGED <<session, live, file, demo, cache, req, op, Browser, unfresh>>

\* The watchdog of the daemon, every 5 seconds while the list is marked as
\* changed; a listing that fails is exported as an empty one.
ExportBans(ok) ==
  /\ IF ok THEN live # kernel /\ live' = kernel /\ UNCHANGED events
     ELSE live # {} /\ live' = {} /\ Event
  /\ UNCHANGED <<session, kernel, file, demo, cache, req, op, Browser, unfresh>>

SyncFile ==
  /\ file # live /\ file' = live
  /\ UNCHANGED <<session, kernel, live, demo, cache, req, op, Browser, unfresh, events>>

\* The script writes its report and posts to bans-invalidate.
DemoScript(d) ==
  /\ Event
  /\ demo' = d
  /\ InvalidateAll
  /\ UNCHANGED <<session, kernel, live, file, op, Browser, unfresh>>

-----------------------------------------------------------------------------
ServerStep == \/ \E i \in Slots, ok \in BOOLEAN : Serve(i, ok)
              \/ \E ip \in Searchable : Expire(ip)
              \/ \E o \in Ops : \/ AcceptPost(o) \/ Apply(o) \/ ApiSuccess(o) \/ ApiRefuses(o)
                                \/ ApiThrows(o) \/ \E ok \in BOOLEAN : RunCli(o, ok)

BrowserStep == \/ \E i \in Slots : \/ AnswerBadge(i) \/ FailBadge(i) \/ AnswerPanel(i) \/ FailPanel(i)
                                   \/ AnswerPage(i) \/ FailPage(i) \/ AnswerTele(i) \/ FailTele(i)
               \/ Tick \/ Hide \/ Show
               \/ RefreshPanel \/ RefreshPage \/ PrevPage \/ NextPage \/ FireSearch
               \/ \E q \in Searchable \cup {0} : TypeSearch(q)
               \/ \E o \in Ops : \/ Succeed(o) \/ FailOp(o)
                                 \/ \E ip \in Ips, a \in {"ban", "unban"} : Click(o, ip, a)

OtherStep == \/ \E ip \in Ips : LiveChange(ip)
             \/ \E ok \in BOOLEAN : ExportBans(ok)
             \/ SyncFile
             \/ \E d \in {"flag", "pass", "cleanup"} : DemoScript(d)

Next == ServerStep \/ BrowserStep \/ OtherStep

(* The interval ticks while the tab is visible, handlers run on, and answers
   reach the badge or fail.  The tick is strongly fair because the slots, a bound
   of the model only, may be taken.  Nothing is assumed of the operator, of the
   other components and of others. *)
Fairness ==
  /\ SF_vars(Tick)
  /\ \A n \in {1, 2} : /\ WF_vars(Serve(<<"badge", n>>, TRUE))
                       /\ WF_vars(AnswerBadge(<<"badge", n>>))

Spec == Init /\ [][Next]_vars
FairSpec == Spec /\ Fairness
-----------------------------------------------------------------------------
(* Nothing older than the last success: once the ban route has answered a post
   with success, the answer to a request sent later was read after that success.
   The badge, the panel and the page ask with bust and never see the cache; the
   Telegram panel may, and gets an older read only from an entry that a handler
   read before the invalidation and stored after it.  The read itself is of the
   daemon's export, which shows a new ban with its next rewriting, so this is all
   that the routes can promise. *)
FreshAfterBan == ~unfresh

(* The rows of the page with their count, offset, search and preview mark are
   one answer, however the answers of overlapping loads are ordered; so unban is
   never offered for a row of the proof reports. *)
PageIsOneAnswer ==
  page.rows # {} => \E S \in SUBSET Ips, src \in Sources :
    LET a == Pack(PageOpts(page.off, page.search), [ips |-> S, source |-> src, seen |-> {}])
    IN page.rows = a.rows /\ page.total = a.count /\ page.preview = a.preview

(* Where the tab stays visible the badge ends with what the server would answer
   now: lost answers, answers that overtake each other and failures, which show
   as no bans at all, are made good by the next ticks. *)
BadgeSettles ==
  <>[]tab.visible =>
    <>[](LET a == Pack(CountOpts, ReadBans(CountOpts, TRUE))
         IN BadgeView.count = a.count /\ badge.preview = a.preview)
=============================================================================
