------------------------------- MODULE SocView --------------------------------
(***************************************************************************)
(* The views of the operations centre: the timeline, the world map, the    *)
(* incident dialog, the lineage page and the totals of the home page.      *)
(* Each polls a route that merges several sources; requests overlap and    *)
(* none of the views checks which request an answer belongs to.            *)
(*                                                                         *)
(* A behaviour is about one of the views (open); the kind filter is the    *)
(* state the timeline and the map share.                                   *)
(***************************************************************************)
EXTENDS Integers, Sequences, FiniteSets, SequencesExt

CONSTANTS
  Worlds,      \* what the sources may hold
  PrivateIps,  \* addresses placed without a lookup
  Tenants,     \* tenants of the selector of the home page
  MaxBans,     \* bans the timeline asks for
  MaxMapBans,  \* bans the map asks for
  MaxGeo,      \* GEO_LIMIT, addresses the map locates
  MaxEntries,  \* MAX of the timeline
  MaxPreview,  \* what the fallback is cut down to
  MaxCache,    \* MAX_CACHE of the locator
  MaxFlight,   \* bound on the requests in flight
  MaxActs      \* bound on what operators, attackers and faults do

Kinds == {"incident", "ban", "lineage", "waf", "ack"}

\* The sources: a time is 0 when none is recorded.
World ==
  [now : Nat, up : BOOLEAN, agents : BOOLEAN, treeSource : STRING,
   incidents : Seq([ip : Nat, ts : Nat]), bans : Seq([ip : Nat, ts : Nat]),
   trees : Seq([pid : Nat, risk : Nat, events : Seq(Nat)]),
   alerts : Seq([waf : BOOLEAN, ip : Nat, ts : Nat]),
   statusBans : Seq([undo : BOOLEAN, ip : Nat, ts : Nat]),
   acks : Seq([ip : Nat, ts : Nat]), rce : Nat, kills : Nat,
   proofs : Seq([kind : Kinds, src : STRING, ip : Nat, ts : Nat])]

ASSUME SocViewAssumption ==
  /\ Worlds \subseteq World
  /\ MaxBans \in Nat \ {0} /\ MaxMapBans \in Nat \ {0} /\ MaxGeo \in Nat \ {0}
  /\ MaxEntries \in Nat \ {0} /\ MaxPreview \in Nat \ {0}
  /\ MaxCache \in Nat \ {0}
  /\ MaxFlight \in Nat \ {0} /\ MaxActs \in Nat

VARIABLES
  open,     \* which page is open
  world,    \* the sources
  geo,      \* cache of the locator: sequence of <<address, found>>
  flight,   \* slot -> request or NoRequest
  filter,   \* kindFilter, shared by timeline and map
  timeline, \* the sources the shown timeline was made of, None before
  markers, hover,       \* of the map
  dialog, dialogBusy,   \* selected and loadingDetail of the incidents
  tree,     \* trees, source and selected of the lineage page
  home,     \* fleet and totals of the home page
  acts

views == <<timeline, markers, hover, dialog, dialogBusy, tree, home>>
socVars == <<open, world, geo, flight, filter, views, acts>>

SocSlots == 1..MaxFlight
NoRequest == [st |-> "idle"]
None == [none |-> TRUE]

-----------------------------------------------------------------------------
(* The timeline.  An entry keeps its kind, source, time and address.       *)

Entry(kind, src, ts, ip) == [kind |-> kind, src |-> src, ts |-> ts, ip |-> ip]

\* The values of s at the elements of K, one after the other: before[i] holds
\* i and the elements that come before it.
Listed(s, K, before) ==
  [k \in 1..Cardinality(K) |-> s[CHOOSE i \in K : Cardinality(before[i]) = k]]

\* The entries of a sequence at some of its positions (filter).
Where(s, K) == Listed(s, K, [i \in K |-> {j \in K : j <= i}])

\* The first of every group of equal entries.
Firsts(s) ==
  Where(s, {i \in DOMAIN s : \A j \in 1..(i - 1) : s[j] # s[i]})

incidentEntries(rows) ==
  [i \in DOMAIN rows |-> Entry("incident", "api", rows[i].ts, rows[i].ip)]

\* An entry of the ban list without a time is dated now, each a second before
\* the one above it.
banEntries(bans, now) ==
  [i \in DOMAIN bans |->
     Entry("ban", "list",
           IF bans[i].ts = 0 THEN now - (i - 1) ELSE bans[i].ts, bans[i].ip)]

\* Events of processes that are risky enough, tree by tree.
lineageEntries(trees) ==
  LET K == UNION {{<<t, e>> : e \in DOMAIN trees[t].events} :
                    t \in {u \in DOMAIN trees : trees[u].risk > 0}}
  IN  Listed([p \in K |-> Entry("lineage", "tree", trees[p[1]].events[p[2]],
                                 trees[p[1]].pid)],
             K, [p \in K |-> {q \in K : \/ q[1] < p[1]
                                        \/ q[1] = p[1] /\ q[2] <= p[2]}])

\* Alerts of the firewall; an address once per second.
wafAlertEntries(alerts) ==
  Firsts(Where([i \in DOMAIN alerts |->
                  Entry("waf", "status", alerts[i].ts, alerts[i].ip)],
               {i \in DOMAIN alerts : alerts[i].waf}))

statusBanEntries(bans) ==
  Where([i \in DOMAIN bans |-> Entry("ban", "status", bans[i].ts, bans[i].ip)],
        {i \in DOMAIN bans : ~bans[i].undo})

telegramAckEntries(acks) ==
  [i \in DOMAIN acks |-> Entry("ack", "status", acks[i].ts, acks[i].ip)]

\* Positions of the bans of an address.
BansOf(s, ip) == {i \in DOMAIN s : s[i].kind = "ban" /\ s[i].ip = ip}

\* The newest ban of an address, the later one of two of the same time.
bestBan(s, ip) ==
  s[CHOOSE i \in BansOf(s, ip) :
      \A j \in BansOf(s, ip) :
        s[j].ts < s[i].ts \/ (s[j].ts = s[i].ts /\ j <= i)]

\* One ban for every address, after the other entries; it stands where the
\* first one of its address was.
dedupeTimelineBansByIp(s) ==
  Where(s, {i \in DOMAIN s : s[i].kind # "ban"})
  \o Where([i \in DOMAIN s |-> bestBan(s, s[i].ip)],
           {i \in DOMAIN s : /\ s[i].kind = "ban"
                             /\ \A j \in BansOf(s, s[i].ip) : i <= j})

\* Newest first; sorting keeps the order of entries of the same time.
SortNewest(s) ==
  Listed(s, DOMAIN s,
         [i \in DOMAIN s |->
            {j \in DOMAIN s : \/ s[j].ts > s[i].ts
                              \/ s[j].ts = s[i].ts /\ j <= i}])

\* slice(0, n).
Cut(s, n) == SubSeq(s, 1, IF Len(s) < n THEN Len(s) ELSE n)

\* Sorting after the cut.
NewestLate(s) == SortNewest(Cut(s, MaxEntries))

Newest(s) == Cut(SortNewest(s), MaxEntries)

\* The first entry of every id.
UniqueIds(s) == Firsts(s)

\* Entries that have a time, and all bans.
Dated(s) == Where(s, {i \in DOMAIN s : s[i].ts > 0 \/ s[i].kind = "ban"})

\* What the sources give.  The ban list is cut to its first entries as they
\* are listed, before anything is sorted.
Merged(w) ==
  Dated(dedupeTimelineBansByIp(
    incidentEntries(w.incidents) \o banEntries(Cut(w.bans, MaxBans), w.now)
    \o lineageEntries(w.trees) \o wafAlertEntries(w.alerts)
    \o statusBanEntries(w.statusBans) \o telegramAckEntries(w.acks)))

\* Proof reports stand in for live entries; an address may be banned in two
\* of them.
fetchSocTimelineFallback(w) ==
  Cut(SortNewest(Dated(Firsts(
        [i \in DOMAIN w.proofs |->
           Entry(w.proofs[i].kind, w.proofs[i].src, w.proofs[i].ts,
                 w.proofs[i].ip)]))), MaxPreview)

\* /api/soc-timeline: two live sources make it live, none a preview.
SocTimeline(w) ==
  LET live == Cardinality({k \in {"incidents", "bans", "trees", "status"} :
                IF k = "status"
                THEN \/ wafAlertEntries(w.alerts) # <<>>
                     \/ statusBanEntries(w.statusBans) # <<>>
                     \/ w.acks # <<>>
                ELSE w[k] # <<>>})
      final == SortNewest(UniqueIds(Newest(Merged(w))))
      preview == Cut(fetchSocTimelineFallback(w), MaxEntries)
  IN  IF final # <<>>
      THEN [entries |-> final,
            mode |-> IF live > 1 THEN "live" ELSE "live_partial"]
      ELSE [entries |-> preview,
            mode |-> IF preview # <<>> THEN "preview" ELSE "none"]

\* What the panel shows under a filter, and its count of banned addresses.
Shown(entries, f) ==
  IF f = "all" THEN entries
  ELSE Where(entries, {i \in DOMAIN entries : entries[i].kind = f})

kindCount(entries, k) ==
  IF k = "ban" THEN Cardinality({e.ip : e \in {x \in ToSet(entries) :
                                                 x.kind = "ban"}})
  ELSE Len(Shown(entries, k))

-----------------------------------------------------------------------------
(* The map: addresses of the sources, located one after the other.         *)

\* Bans, then incidents over them, then acknowledgements of the others;
\* proofs if there is nothing else, the first of an address.
AttackIps ==
  LET ips(s) == [i \in DOMAIN s |-> s[i].ip]
      bans == ips(Cut(world.bans, MaxMapBans))
      incs == ips(world.incidents)
      live == Firsts(bans \o incs \o ips(world.acks))
      kind(ip) == IF ip \in ToSet(incs) THEN "incident"
                  ELSE IF ip \in ToSet(bans) THEN "ban" ELSE "ack"
      proof(ip) == CHOOSE p \in ToSet(world.proofs) :
                     \E i \in DOMAIN world.proofs :
                       /\ world.proofs[i] = p /\ p.ip = ip
                       /\ \A j \in 1..(i - 1) : world.proofs[j].ip # ip
  IN  IF live # <<>>
      THEN {[ip |-> ip, kind |-> kind(ip)] : ip \in ToSet(Cut(live, MaxGeo))}
      ELSE {[ip |-> ip, kind |-> proof(ip).kind] :
              ip \in ToSet(Cut(Firsts(ips(world.proofs)), MaxGeo))}

Cached(ip) == \E i \in DOMAIN geo : geo[i][1] = ip
Found(ip) == \E i \in DOMAIN geo : geo[i] = <<ip, TRUE>>

\* The oldest entry makes room.
trimCache(c) == IF Len(c) > MaxCache THEN Tail(c) ELSE c

\* cache.set: an address that is there keeps its place.
Remembered(ip, ok) ==
  IF Cached(ip)
  THEN [i \in DOMAIN geo |-> IF geo[i][1] = ip THEN <<ip, ok>> ELSE geo[i]]
  ELSE trimCache(Append(geo, <<ip, ok>>))

\* The request r with one address less to do.
Located(r, ip, ok) ==
  LET m == CHOOSE x \in r.todo : x.ip = ip
  IN  [r EXCEPT !.todo = @ \ {m},
                !.out = IF ok THEN @ \union {m} ELSE @,
                !.st = IF r.todo = {m} THEN "ready" ELSE "locating"]

\* One address: from the cache, else located.  Private and documentation
\* addresses need no lookup; the answer of another is waited for, while other
\* requests go on.
lookupIpGeo(i, ip) ==
  /\ flight[i].st = "locating"
  /\ \E m \in flight[i].todo : m.ip = ip
  /\ \/ /\ Cached(ip)
        /\ flight' = [flight EXCEPT ![i] = Located(@, ip, Found(ip))]
        /\ UNCHANGED geo
     \/ /\ ~Cached(ip) /\ ip \in PrivateIps
        /\ flight' = [flight EXCEPT ![i] = Located(@, ip, TRUE)]
        /\ geo' = Remembered(ip, TRUE)
     \/ /\ ~Cached(ip) /\ ip \notin PrivateIps
        /\ flight' = [flight EXCEPT ![i].st = "asking", ![i].arg = ip]
        /\ UNCHANGED geo
  /\ UNCHANGED <<open, world, filter, views, acts>>

\* The answer to a lookup, remembered whether it failed or not.
StoreGeo(i, ok) ==
  /\ flight[i].st = "asking"
  /\ IF ok THEN UNCHANGED acts ELSE acts < MaxActs /\ acts' = acts + 1
  /\ flight' = [flight EXCEPT ![i] = Located(@, @.arg, ok)]
  /\ geo' = Remembered(flight[i].arg, ok)
  /\ UNCHANGED <<open, world, filter, views>>

\* The markers a filter leaves; kinds the map does not know leave none.
filteredMarkers(ms, f) ==
  IF f = "all" THEN ms ELSE {m \in ms : m.kind = f}

\* Arcs of the globe: acknowledgements have none.
Arcs(ms) == {m \in ms : m.kind # "ack"}

-----------------------------------------------------------------------------
(* The lineage page.                                                       *)

\* /api/attack-tree: telemetry of the agents, else the analyzer, else the
\* file of the daemon.  Agents without trees leave the source "telemetry".
AttackTree ==
  IF world.trees # <<>> THEN [source |-> world.treeSource, trees |-> world.trees]
  ELSE [source |-> IF world.agents THEN "telemetry" ELSE "empty",
        trees |-> <<>>]

-----------------------------------------------------------------------------
(* The home page.                                                          *)

\* /api/dashboard-snapshot: shells that were blocked, as the daemon's file has
\* them.
DashboardSnapshot ==
  Cardinality({k \in DOMAIN world.trees : world.trees[k].events # <<>>})

\* What the requests of one round answer; without any, nothing is live.
HomeAnswer == [live |-> world.up, rce |-> world.rce, hints |-> DashboardSnapshot]
NoAnswer == [live |-> FALSE, rce |-> 0, hints |-> 0]

\* With the fleet of the answer a, its agents are shown and the rate is marked
\* live or not.
FleetShown(prev, tenant, a) ==
  [prev EXCEPT !.tenant = tenant, !.fromLive = a.live, !.tick = (@ + 1) % 5]

\* Totals over the agents; a rate the analyzer reports itself replaces that of
\* the agents.  Without the fleet its figures stay.
FleetTotals(prev, fleetOk, a) ==
  IF fleetOk
  THEN [prev EXCEPT !.eps = IF a.live THEN "live" ELSE "agents",
                    !.rce = a.rce]
  ELSE [prev EXCEPT !.eps = IF a.live THEN "live" ELSE @, !.fromLive = a.live]

\* The snapshot stands in when nothing was live.
Totals(prev, fleetOk, a) ==
  LET base == FleetTotals(prev, fleetOk, a)
      useSnap == ~a.live /\ (fleetOk => a.rce = 0) /\ a.hints > 0
  IN  [base EXCEPT !.rce = IF useSnap /\ base.rce = 0 THEN a.hints ELSE @,
                   !.fromSnap = useSnap]

\* The figures: where the rate comes from, and a hint at the snapshot.
HomeView == [live |-> home.fromLive,
             hint |-> home.fromSnap /\ home.rce > 0]

-----------------------------------------------------------------------------
(* Requests.                                                               *)

NewRequest(view, arg) ==
  [view |-> view, st |-> "sent", arg |-> arg, todo |-> {}, out |-> {}]

SendRequest(view, arg) ==
  \E i \in SocSlots : /\ flight[i] = NoRequest
                      /\ flight' = [flight EXCEPT ![i] = NewRequest(view, arg)]

Acts == acts < MaxActs /\ acts' = acts + 1

Waiting(view) ==
  \E i \in SocSlots : flight[i].st # "idle" /\ flight[i].view = view

\* Polls only while the last answer was used.
PollOnce(view) ==
  /\ view \in open.polls
  /\ timeline = None \/ view # "timeline"
  /\ UNCHANGED acts /\ ~Waiting(view)
  /\ SendRequest(view, open.tenant)
  /\ UNCHANGED <<open, world, geo, filter, views>>

\* Every view polls on its own; a poll that overtakes an unanswered one is
\* counted as a fault.
Poll(view) ==
  /\ view \in open.polls
  /\ IF Waiting(view) THEN Acts ELSE UNCHANGED acts
  /\ SendRequest(view, open.tenant)
  /\ UNCHANGED <<open, world, geo, filter, views>>

\* The route of the map collects its addresses.
ServeMap(i) ==
  /\ flight[i].st = "sent" /\ flight[i].view = "map"
  /\ flight' = [flight EXCEPT ![i].todo = AttackIps,
                              ![i].st = IF AttackIps = {} THEN "ready"
                                        ELSE "locating"]
  /\ UNCHANGED <<open, world, geo, filter, views, acts>>

\* The other routes answer from their sources at once; the answer of the
\* timeline is kept as the sources it is made of (SocTimeline).
ServeRequest(i) ==
  /\ flight[i].st = "sent" /\ flight[i].view # "map"
  /\ flight' = [flight EXCEPT
       ![i].st = "ready",
       ![i].out = CASE flight[i].view = "timeline" -> world
                    [] flight[i].view = "detail" ->
                         IF \E k \in DOMAIN world.incidents :
                              world.incidents[k].ip = flight[i].arg
                         THEN flight[i].arg ELSE 0
                    [] flight[i].view = "tree" -> AttackTree
                    [] flight[i].view = "home" -> HomeAnswer]
  /\ UNCHANGED <<open, world, geo, filter, views, acts>>

RequestFails(i) ==
  /\ flight[i].st \in {"sent", "locating", "asking"}
  /\ Acts
  /\ \E st \in {"refused", "lost"} : flight' = [flight EXCEPT ![i].st = st]
  /\ UNCHANGED <<open, world, geo, filter, views>>

Done(i) == flight' = [flight EXCEPT ![i] = NoRequest]

\* An answer of the timeline is shown; a refusal keeps the last one and an
\* exception drops it.
ShowTimeline(i) ==
  /\ flight[i].st \in {"ready", "refused", "lost"}
  /\ flight[i].view = "timeline"
  /\ Done(i)
  /\ timeline' = CASE flight[i].st = "ready" -> flight[i].out
                   [] flight[i].st = "refused" -> timeline
                   [] flight[i].st = "lost" -> None
  /\ UNCHANGED <<open, world, geo, filter, markers, hover, dialog,
                 dialogBusy, tree, home, acts>>

\* The map keeps its markers when a request fails; the marker under the
\* pointer is forgotten when it is no longer drawn.
ShowMap(i) ==
  /\ flight[i].st \in {"ready", "refused", "lost"}
  /\ flight[i].view = "map"
  /\ Done(i)
  /\ markers' = IF flight[i].st = "ready" THEN flight[i].out ELSE markers
  /\ hover' = IF hover \in {m.ip : m \in filteredMarkers(markers', filter)}
              THEN hover ELSE 0
  /\ UNCHANGED <<open, world, geo, filter, timeline, dialog, dialogBusy,
                 tree, home, acts>>

\* The dialog shows the detail, or keeps what the list knows; it opens again
\* if it was closed meanwhile.
ShowDetail(i) ==
  /\ flight[i].st \in {"ready", "refused", "lost"}
  /\ flight[i].view = "detail"
  /\ Done(i)
  /\ dialog' = IF flight[i].st = "ready" /\ flight[i].out # 0
               THEN flight[i].out ELSE dialog
  /\ dialogBusy' = FALSE
  /\ UNCHANGED <<open, world, geo, filter, timeline, markers, hover, tree,
                 home, acts>>

\* The page takes the body of an error for an empty list; the selection is
\* compared with its first value only, so that it never moves.
ShowTree(i) ==
  /\ flight[i].st \in {"ready", "refused", "lost"}
  /\ flight[i].view = "tree"
  /\ Done(i)
  /\ tree' = CASE flight[i].st = "ready" ->
                    [tree EXCEPT !.trees = flight[i].out.trees,
                                 !.source = flight[i].out.source]
               [] flight[i].st = "refused" ->
                    [tree EXCEPT !.trees = <<>>, !.source = "empty"]
               [] flight[i].st = "lost" -> tree
  /\ UNCHANGED <<open, world, geo, filter, timeline, markers, hover,
                 dialog, dialogBusy, home, acts>>

\* The round's requests settle one by one; when only the fleet is refused the
\* others are used.  In every fifth round the kill counter is asked for and
\* waited for before the totals are set.
ShowHome(i) ==
  /\ flight[i].st \in {"ready", "refused", "lost"}
  /\ flight[i].view = "home"
  /\ LET ok == flight[i].st = "ready"
         a == CASE ok -> flight[i].out
                [] flight[i].st = "refused" -> HomeAnswer
                [] flight[i].st = "lost" -> NoAnswer
         h == IF ok THEN FleetShown(home, flight[i].arg, a) ELSE home
     IN  IF ok /\ h.tick = 1
         THEN /\ flight' = [flight EXCEPT ![i].st = "counting"]
              /\ home' = h
         ELSE /\ Done(i)
              /\ home' = Totals(h, ok, a)
  /\ UNCHANGED <<open, world, geo, filter, timeline, markers, hover,
                 dialog, dialogBusy, tree, acts>>

\* The kill counter answers, or counts as 0, and the round goes on with what
\* it had before.
CountKills(i) ==
  /\ flight[i].st = "counting"
  /\ Done(i)
  /\ \E kills \in {world.kills, 0} :
       /\ IF kills = world.kills THEN UNCHANGED acts ELSE Acts
       /\ home' = Totals([home EXCEPT !.kills = kills], TRUE, flight[i].out)
  /\ UNCHANGED <<open, world, geo, filter, timeline, markers, hover,
                 dialog, dialogBusy, tree>>

-----------------------------------------------------------------------------
(* The operator.                                                           *)

\* Mutant: the pointer stays on a marker the new filter hides.
SetFilterKeepsPointer(f) ==
  /\ open.page \in {"timeline", "map"}
  /\ f # filter
  /\ Acts
  /\ filter' = f
  /\ UNCHANGED <<open, world, geo, flight, timeline, markers, hover, dialog,
                 dialogBusy, tree, home>>

\* A chip of the timeline or of the map filters both.
SetFilter(f) ==
  /\ open.page \in {"timeline", "map"}
  /\ f # filter
  /\ Acts
  /\ filter' = f
  /\ hover' = IF hover \in {m.ip : m \in filteredMarkers(markers, f)}
              THEN hover ELSE 0
  /\ UNCHANGED <<open, world, geo, flight, timeline, markers, dialog,
                 dialogBusy, tree, home>>

Hover(m) ==
  /\ m \in filteredMarkers(markers, filter)
  /\ hover # m.ip
  /\ Acts
  /\ hover' = m.ip
  /\ UNCHANGED <<open, world, geo, flight, filter, timeline, markers,
                 dialog, dialogBusy, tree, home>>

\* A row of the list opens the dialog with what the list knows and asks for
\* the rest.
openDetail(ip) ==
  /\ open.page = "incidents"
  /\ Acts
  /\ dialog' = ip
  /\ dialogBusy' = TRUE
  /\ SendRequest("detail", ip)
  /\ UNCHANGED <<open, world, geo, filter, timeline, markers, hover, tree,
                 home>>

CloseDetail ==
  /\ dialog # 0
  /\ Acts
  /\ dialog' = 0
  /\ UNCHANGED <<open, world, geo, flight, filter, timeline, markers,
                 hover, dialogBusy, tree, home>>

SelectTree(k) ==
  /\ k \in DOMAIN tree.trees
  /\ k # tree.selected
  /\ Acts
  /\ tree' = [tree EXCEPT !.selected = k]
  /\ UNCHANGED <<open, world, geo, flight, filter, timeline, markers,
                 hover, dialog, dialogBusy, home>>

\* Another tenant: nothing is fetched before the interval fires again.
SelectTenant(t) ==
  /\ open.page = "home"
  /\ t # open.tenant
  /\ Acts
  /\ open' = [open EXCEPT !.tenant = t]
  /\ UNCHANGED <<world, geo, flight, filter, views>>

\* The sources change.
WorldMoves ==
  /\ Acts
  /\ world' \in Worlds \ {world}
  /\ UNCHANGED <<open, geo, flight, filter, views>>

-----------------------------------------------------------------------------
Pages == [timeline |-> {"timeline"}, map |-> {"map"}, incidents |-> {},
          lineage |-> {"tree"}, home |-> {"home"}]

SocInit ==
  /\ \E p \in DOMAIN Pages :
       open = [page |-> p, polls |-> Pages[p],
               tenant |-> CHOOSE t \in Tenants : TRUE]
  /\ world \in Worlds
  /\ geo = <<>>
  /\ flight = [i \in SocSlots |-> NoRequest]
  /\ filter = "all"
  /\ timeline = None
  /\ markers = {} /\ hover = 0
  /\ dialog = 0 /\ dialogBusy = FALSE
  /\ tree = [trees |-> <<>>, source |-> "empty", selected |-> 1]
  /\ home = [tenant |-> open.tenant, eps |-> "agents", rce |-> 0,
             kills |-> 0, fromSnap |-> FALSE, fromLive |-> FALSE, tick |-> 0]
  /\ acts = 0

ShowAny(i) ==
  ShowTimeline(i) \/ ShowMap(i) \/ ShowDetail(i) \/ ShowTree(i) \/ ShowHome(i)

Progress(i) ==
  \/ ServeMap(i) \/ ServeRequest(i) \/ ShowAny(i) \/ CountKills(i)
  \/ \E ok \in BOOLEAN : StoreGeo(i, ok)
  \/ \E m \in IF flight[i].st = "locating" THEN flight[i].todo ELSE {} :
       lookupIpGeo(i, m.ip)

SocNext ==
  \/ \E i \in SocSlots : Progress(i) \/ RequestFails(i)
  \/ \E v \in open.polls : Poll(v)
  \/ \E f \in {"all", "ban", "waf"} : SetFilter(f)
  \/ \E m \in markers : Hover(m)
  \/ \E k \in DOMAIN world.incidents : openDetail(world.incidents[k].ip)
  \/ CloseDetail
  \/ \E k \in DOMAIN tree.trees : SelectTree(k)
  \/ \E t \in Tenants : SelectTenant(t)
  \/ WorldMoves

SocSpec == SocInit /\ [][SocNext]_socVars

\* Every request ends, and the intervals of an open page keep firing.
SocFairSpec ==
  /\ SocSpec
  /\ \A i \in SocSlots : WF_socVars(Progress(i))
  /\ WF_socVars(\E v \in open.polls : Poll(v))

-----------------------------------------------------------------------------
\* The counts on the filter buttons are those of the entries; a preview may
\* list two proofs of one ban, which the button counts once.
CountsAgree ==
  timeline # None =>
    LET a == SocTimeline(timeline)
        s == a.entries
    IN  \A k \in Kinds :
          /\ kindCount(s, k) <= Len(Shown(s, k))
          /\ a.mode # "preview" => kindCount(s, k) = Len(Shown(s, k))

\* The marker under the pointer is one that is drawn, with or without an arc.
PointerOnMarker ==
  hover # 0 =>
    \E m \in filteredMarkers(markers, filter) :
      m.ip = hover /\ (m \in Arcs(markers) \/ m.kind = "ack")

\* The parts of a view agree with each other after every poll, filter and
\* selection: counts and entries of the timeline, pointer and markers of the
\* map; and the locator has one answer for an address and keeps to its limit,
\* although it checks its cache before it waits and stores after.
ViewsAgree ==
  /\ CountsAgree
  /\ PointerOnMarker
  /\ \A i, j \in DOMAIN geo : geo[i][1] = geo[j][1] => i = j
  /\ Len(geo) <= MaxCache

\* The timeline shows the newest events of those the route merged: entries are
\* in order and none is listed twice; of a live answer, whatever it leaves out
\* is not newer than the oldest entry it shows, and an address has one ban
\* entry.  The bans beyond the first MaxBans of the list are never merged, so
\* one of those may be newer than all that is shown.  (Fewer than the limit
\* may be shown, since duplicates are dropped after the cut.)
TimelineNewest ==
  timeline # None =>
    LET a == SocTimeline(timeline)
        s == a.entries
    IN  /\ \A i, j \in DOMAIN s : i < j => /\ s[i].ts >= s[j].ts
                                           /\ s[i] # s[j]
        /\ a.mode \in {"live", "live_partial"} =>
             /\ \A i, j \in DOMAIN s :
                  s[i].kind = "ban" /\ s[j].kind = "ban" /\ s[i].ip = s[j].ip
                    => i = j
             /\ \A e \in ToSet(Merged(timeline)) \ ToSet(s) :
                  e.ts <= Last(s).ts

\* What a view shows once it has caught up with its sources.
UpToDate ==
  CASE open.page = "timeline" -> timeline = world
    [] open.page = "map" ->
         /\ markers \subseteq AttackIps
         /\ \A m \in AttackIps \ markers : Cached(m.ip) /\ ~Found(m.ip)
    [] open.page = "incidents" -> ~dialogBusy
    [] open.page = "lineage" -> tree.trees = world.trees
    [] open.page = "home" ->
         /\ home.tenant = open.tenant
         /\ HomeView.live = world.up
         /\ HomeView.hint => ~HomeView.live

\* Nothing an attacker, the network or the operator does leaves a view behind
\* for good: once they rest, every polling view comes to show its sources as
\* they are, the map all addresses but those that are remembered as not found,
\* and the home page the tenant that is selected, with a rate marked live when
\* it is and no hint at a snapshot beside it.  (Before, both can be shown: the
\* rate is marked before the kill counter is waited for, the hint after.)
Settles == <>[]UpToDate
=============================================================================
