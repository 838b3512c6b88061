# A TLA+ verification of Linux Log Guardian

Log Guardian reads a web server's log, finds attacks, and has the kernel drop
the attackers' addresses; a web dashboard shows what it does and commands a fleet
of them. This directory holds TLA+ modules of the parts of the system that run
concurrently, talk over a network or survive crashes, the TLC configurations that
check them on small instances, and TLAPS proofs of what should hold on every
instance.
Paths below are relative to the repository (`src/` here). `PROJECT.json` maps every
definition to the lines it models, and lists the runs, the mutants and the hazards.

## 1. The system

Two processes on each host, a dashboard, and many peripherals:

```
 log file -> main thread -> chunk ring -> parser threads -> address table
                 |                          |                   |
       XDP events, keyboard          trap, alerts, FSM      GC thread
                 |                          |                   |
                 +----------- ban_ip / unban_ip ----------------+
                                  | Unix socket, or ipset directly
                              ban daemon -> XDP map, ipset, active_bans.json

 browser -> middleware -> dashboard routes -> database, report files,
    polls                    |        |       analyzer's API, Prometheus
                             |        +-- ban and unban, metrics
                             +-- command queue <- polls of the fleet's agents
```

| Component | State | Operations | Hard behaviour | What makes it correct |
|---|---|---|---|---|
| Chunk queue and parser threads, `main.c` | ring `g_queue` (slots, head, tail, done), `g_running`, `g_paused` | `spmc_enqueue`, `worker_loop`, pause, stop, growth of the file | one producer and N consumers without a lock, a copy after the claim, an exit test of two loads | each chunk analysed once, no overfull ring, back-pressure and stop end |
| Address table, `ip_map.c` | 65536 records with a state word, `size` | `ipmap_get_or_create`, forced overwriting, `ipmap_evict_lru`, `ipmap_expire_bans` | open addressing with CAS, records reused under a pointer | one writer per record, one record per address, a lookup gives the address's own record |
| Ban state of a record, `main.c`, `ip_map.c` | `banned`, `ban_until_ts`, `threat_stage`, the kernel's block | TTL check, trap, critical alert, XDP event, manual ban, GC expiry | some paths lock `g_tui_mutex`, some do not; test, kernel call and stores are apart | the analyzer's own block has a flag and a deadline, one notice per ban, passed bans are cleared |
| Threat stages, `siem_fsm.c` | a stage per address | `siem_update` | load, decide and store are apart | stages stay in range, a trap's stage stays |
| Ban daemon, `ebpf_daemon.c` | XDP map, ipset, `active_bans.json`, dirty flag | ban, unban, alert and tarpit commands, two exporters, restore | crash at any step, exports without a lock, kernel calls that fail one by one | the file is whole and fresh, an acknowledged command is in effect as far as its kernel calls were |
| Ban pipeline and IPC client, `ban_pipeline.c`, `daemon_ipc.c` | none but the socket | try the daemon, fall back to ipset, verify | two-second timeouts against a daemon that still works | the result says what is in effect, unless the kernel's calls fail |
| Webhook delivery, `webhook.c` | job queue, batch, cooldown and dedup tables | enqueue, batch, flush, deliver, stop | three kinds of threads, flush with the lock released, drain at stop | no accepted alert vanishes, at most one per cooldown |
| SIEM forwarder, `siem_forwarder.c` | bounded queue, connection | enqueue, send, reconnect, stop | full queue, failing sends | what was accepted is sent in order or counted as dropped |
| Event database, `db.c` | alerts and `ban_events` in SQLite | log, reload at start | restart | a reload restores the bans that still run |
| Fleet agent and command queue, `agent_sync.c`, `app/api/fleet/commands` | rows of commands with status and signature, the agent's reply buffer | post, sign, ban at once, poll, mark, run, acknowledge | every await is an interleaving point; lost and late replies, two writers of a row, crashes on both sides | a command runs once, in order, for its tenant; its status is true |
| Ban list, `app/api/bans`, `lib/bansCache.ts`, `app/bans`, `context/BannedIpsContext.tsx` | daemon's export, server cache, count and rows in the browser | read with fallbacks, ban, unban, export, invalidate, page, search, tick | handlers that cross an invalidation, overlapping loads, failed refreshes | no answer is older than the last success, a page is one answer, the badge comes back |
| Live metrics, `app/api/metrics/grafana`, `components/GrafanaMiniPanels.tsx` | route cache, last answer, history and peak in refs | poll, select range or tenant, merge two sources | answers overtake each other, sources fail one by one | charts were asked for with the selection, the peak is one that was reported |
| Operator reports, the `*-status` routes and their panels | report files, last answer of a panel | read, poll, refresh, pick a tab | files rewritten in place while read one by one | a green lamp was said by a report while the request was served, panels catch up |
| SOC views, `soc-timeline`, `attack-geo`, `attack-tree`, home page | entries, markers, trees, totals, filter, dialog | poll, filter, point, open, select | merged sources cut to a limit, stale answers, selections that vanish | newest of the events merged are shown, parts of a view agree |
| Login and tenants, `middleware.ts`, `lib/loginRateLimit.ts` | failure counters, tokens, agents' rows | check, verify, count, sign, let through | check and count are apart by awaits | the limit holds, lockouts end, lists by tenant show the own tenant |
| Validation tests, `lib/validationTests.ts`, `ValidationTestsPanel.tsx` | reports, stored proof, page's proof | grade, align, poll, filter | reports and proof read at different times | no trophy without green reports |
| Mesh, `etcd_mesh.c`, `mesh_intel.c` | seen events, peers | publish, watch, apply | duplicated and reordered events | a remote ban is applied once and does not echo |
| Incident engine, `incident_engine.c` | open incidents | correlate, time out | time windows | an incident is raised once per window |
| Top-10 heap, `min_heap.c` | heap of records | offer, sift | scores change under the heap | it holds the largest scores |
| Ban policy, `ban_policy.c`, `dist_risk.c`, `fp_trust.c` | trust tables | decide | thresholds | exempt addresses are not banned |

Paths of the dashboard are relative to `dashboard/src`. Detection (parser, WAF rules,
PCRE, anomaly statistics, GeoIP, JA3, feeds), the terminal, the HTTP API, the eBPF
programs, the landing site and the Kubernetes operator are listed in `PROJECT.json`
with the reason why each is left out. They matter to the models as nondeterministic
inputs: any line may be an attack, any kernel call may fail.

## 2. The modules

### SpmcQueue

The ring between the main thread and the parser threads. Chunks are numbered in
file order and a slot holds a number; every load, store and CAS of `g_queue` is
an action. `EnqueueBegin/Space/Store/Publish` are `spmc_enqueue`, `LoadTail`,
`LoadHead`, `LoadDone`, `Claim`, `ClaimFails`, `CopySlot` and `WorkOff` are one turn
of `worker_loop`. The copy of a slot is an unsynchronised read of a struct, so
`CopyResults` lets a copy that races with the producer's store yield either
chunk or a torn mixture. The pause key is read by the main loop only, and holds
the parser threads in `WorkOff` while the program runs. Left out: the lines
inside a chunk and the mapping under it (see section 6).

### SiemFsm, BanRecord

`SiemFsm` has the transition and TTL tables of `siem_update` as pure operators.
`BanRecord` follows one address, because addresses share nothing but
`g_tui_mutex`: the three fields of its record, whether the kernel blocks it, and
the step each thread is at. One group of actions per path: `Ttl*` (the TTL check
of a parser thread and `ipmap_expire_bans`), `Trap*`, `Alert*` with `Stale*` (the
critical alert, under the mutex from `AlertLock` on), `Xdp*`, `Key*`. `BanIp`
abstracts the pipeline to an effect and a result; exempt addresses are answered
with success and not blocked. Time is abstracted to whether the deadline has
passed. `ip_is_blocked` and the `ipset test` that ends an unban take every failure
for "not blocked", so `StaleTest` and `TtlUnban` may go on to clear the flag while the
block stays. `OutsideBan` and `OutsideUnban` are the bans and unbans that do not go
through the record: fleet commands, the analyzer's API, feeds, JA3 clusters, the mesh,
and requests that the daemon carries out after their caller has given up. The history
`stray` marks a block in force that came from outside, or that a failed test or unban
has told the record is gone; the analyzer's own ban ends it.

### IpMap

The table as an array of slots with a state word (0 free, 1 being written, 2
ready). `Reserve` to `Publish` are `ipmap_get_or_create`, including the spin on a
slot being written and the overwriting of a record when the probe length is used
up; `Evict*` are `ipmap_evict_lru`, `Expire*` the flag's part of
`ipmap_expire_bans`; `Use*` is what a thread does with the pointer it got, up to
the ban of `rec->ip`. An address field is a value, blank, or mixed while
`memcpy` is under way. The choice of the least recently used candidate is a
choice among all the candidates. `MCIpMap` fixes a hash with a collision.

### BanDaemon

The daemon and one IPv4 address: its entries in the XDP map and in the ipset, the
file, its temporary file and the dirty flag. A client thread handles one command
with one kernel call per step, each of which may fail. The daemon ignores the result of
the delete from the XDP map, and takes a failing `ipset test` for gone; the history
`left` has the entries that an unban running alone has left behind in this way. An
`ipset list` that fails is exported as an empty list. The watchdog and the main
loop run the same export through the same temporary file; `fd` records on which
file an exporter's stream is open, because a rename by the other exporter moves
the file under it. `Crash` may come at any moment and keeps the kernel's state;
`Restart` creates a new XDP map, bans what the file lists and exports.
`MCBanDaemon` adds the symmetry of the client threads.

### BanPath

The way of a ban from a thread of the analyzer to the kernel, with the sockets in
between. A thread sends on the connection `g_ipc_fd` that all threads share
(`SharedSend`, `SharedRecv`), then on connections of its own (`Request`, `Recv`,
`NextAttempt`), then falls back to the analyzer's XDP map and the ipset
(`BanLoader`, `BanAdd`); an unban pings, asks the daemon, deletes and tests. Per
connection the model has the unread messages, the unread responses and the step
of the daemon's handler, which handles one message and closes. Any recv may end
without a response (the two-second timeout), and what was asked for is then done
late. Deletes from the XDP map and the ipset may fail without being noticed, and an
`ipset test` that could not run reads as gone, on both sides of the socket. The step
`retest` tells the test after a failed `ipset del` of the analyzer apart, so that the
property can except the one case in which two failures in a row make a success. A
response carries the request it answers as a history that no step reads. `result`
keeps what was reported while calls and left-over requests for an address are all bans
or all unbans (`Unopposed`).

### CommandLife, FleetCommands

`CommandLife` is the promise of the command queue: posted, handed out, settled,
settled only with a result that somebody had who carried the command out, never
queued or handed out again after that, and nobody carries it out twice (`runs` counts,
and a second run is no step of it). That a later report replaces an earlier one is
part of the promise, because it is what the code does. `FleetCommands` is the code. A Node handler yields at each await, so each
database call is a step: `CreateCommand` and `SignCommand` (the row is visible
unsigned in between), `ExecuteNow` and `CompleteCommand` (a ban carried out by the
post itself), `FindCommands` and `MarkDelivered` (the poll), `FindAcked` and
`UpdateAcked` (the acknowledgement, whose update does not look at the status again).
The agent's
thread gives up on a poll (`PollTimeout`), cuts a long reply at its buffer (`Fits`),
skips what does not verify and runs the rest in order. Replies and
acknowledgements may be lost or late; both sides may crash. What an accepted post
looks like is in `FleetAccepts`, `CopilotAccepts`, `SchemaAccepts` and
`PluginsAccepts`, one per route.

### BansView

The list from the analyzer to the browser: the bans in force (`kernel`), the daemon's
export of them that the analyzer's API returns (`live`, rewritten by `ExportBans`), and
the copy of the export in the data directory. A handler of `/api/bans` is `Serve` (its
reads, with the fallbacks of `FetchBanned`) and `Finish` (it stores into the cache
and answers), with the invalidation by a ban possible in between. The ban route
tries the analyzer's API and then the command line; an API call that times out may
still be carried out (`Apply`), and a success may leave everything as it was (`Effects`:
exempt addresses, an unban whose test failed). In the browser the badge, the preview panel, the
page and the Telegram panel ask on their own clocks; `Tick`, `Hide` and `Show` are
`useVisibleInterval`. The Telegram panel has no key and keeps its verdict from one
address to the next (`Mounted`). An address is a number and a list is in their order.

### Page, LiveMetrics

`Page` has what the polling pages share: slots for requests in flight, what is shown
and a bound on what else happens. `LiveMetrics`, `OpsPanels` and `TestsBoard` extend it;
their own definitions carry prefixes (`LiveInit`, `PanelInit`, `BoardInit`), as do those
of `SocView`, so that a module of proofs can extend several of them.

`/api/metrics/grafana` asks Prometheus or the analyzer directly, merges and
caches; `GrafanaMiniPanels` keeps only the answer to its newest request. Since
`reqGen` is only compared with its present value, the model remembers which slot
holds the newest request instead of a number. `mergeEpsDisplay`, `appendLiveHist`,
`chartsReady` and the tiles are operators. One series stands for the panels' many. A
point has the selection it was asked for and the tenant whose figure it is: the
analyzer's own metrics, which the route takes when Prometheus is away, are those of
`METRICS_TENANT` whatever tenant is selected. An answer that reaches nothing counts 0
lines, and the history `jumped` notes that the counter then grew between answers that
cannot be compared. Polls are not limited: `LivePoll` may overtake a request at any time.

### OpsReports, OpsPanels

`OpsReports` has no variables: each route is a function from the reports it read
to an answer, each panel one from its answers to named lamps. A report is its
verdict, two flags and one number; the module's header says which fields they are
for each report. Green is whatever tells the operator that a thing works, ticks and
lines of text included. `OpsPanels` lets scripts rewrite reports in
place (`BeginWrite` leaves a torn file, `FinishWrite` a whole one) while the route
reads them one by one, answers overtake each other, and requests fail. With each
request goes the history `said`, what the first whole copies of the reports and the
running system said while it was served. A behaviour is about one panel; all of them
are initial states of the run.

### SocView

Timeline, world map, incident dialog, lineage page and home page, one per
behaviour. The timeline's merge (`Merged`, `Newest`, `UniqueIds`) works on sequences
of entries of six sources, of which the ban list is cut to its first `MaxBans` entries
as they are listed, before anything is sorted; filter, sort and removal of duplicates are all `Listed`, the
elements of a set of positions in a linear order, and need no recursion. The
fallback keeps `MaxPreview` entries. `lookupIpGeo` looks into the locator's bounded
cache and `StoreGeo` stores the answer after the wait, so that lookups of one address
overlap; the map locates the first `MaxGeo` of its addresses. A round of the home page
that asks for the kill counter is two steps: `ShowHome` shows the fleet and marks the rate
live or not, `CountKills` sets the totals (`Totals`: live, fleet or snapshot figures).
The drawing of a lineage graph is left out.

### Access

A login checks its counter (`checkLoginRateLimit`), waits, and counts afterwards
(`recordLoginFailure`), so that logins overlap. Deadlines are kept as what remains
of them, which lets time pass for ever in finitely many states. A request that is
no login changes nothing; `Answer` is what it would be answered with, and
`OwnTenantOnly` quantifies over all the requests that could be made. The answers
include what goes to everybody: the totals of all tenants in `/api/fleet`
(`FleetTotals`), the attack trees and the scraped ages of all agents, the row of a VPS.

### ValidationTests, TestsBoard

`ValidationTests` grades reports in 25 groups, each a stretch of the one long function
`evaluateValidationTests`, and aligns the cards to the stored proof. `TestsBoard` is
the page: the handler's two readings, overlapping polls, languages, tabs, and a proof
the page was rendered with that may be older than both. The route has the cards in
English and Turkish and gives Turkish for every other language (`Served`). The text
searched, from the box or from `?q=`, is abstracted by `Found`: which tests have it, in
each language. Reports of auth-log and of the ops gates are read and not graded, as in
the code. The constant `Worlds` says
what the files may hold: any finite set of reports, and a proof that has no test twice
(`DistinctCards`), as the script writes it. An empty proof is not told apart from one
that cannot be read.

## 3. The runs

| Run | Instance | Shows |
|---|---|---|
| `spmc_queue` | 2 threads, 2 slots, 5 chunks | claims are exact, unclaimed chunks stay, back-pressure and stop end |
| `ban_record` | 2 parser threads, GC, main | the analyzer's own blocks are tracked, one notice, unless a ban overlaps a clearing; passed bans are cleared |
| `ip_map` | 2 threads and GC, 2 slots, 3 addresses | one writer; unique and own records before the first eviction |
| `ban_daemon` | 2 clients, 2 exporters, 3 commands | whole and fresh file through crashes, acknowledged commands in effect unless a delete or a test failed |
| `ban_path` | 2 threads, 1 address, shared + 1 connection, 2 attempts | a ban that reports success is in force, an unban too unless its kernel calls failed; every call returns |
| `fleet_commands` | 2 agents, 2 tenants, 2 commands, 1 fault | own tenant, once, in order, true status, handed out in the end; implements `CommandLife` |
| `bans_view` | 2 addresses, pages of one row, 1 click, 1 fault | answers are read after the last success, a page is one answer, the badge comes back |
| `live_metrics` | 2 ranges, 2 tenants, 2 requests in flight | charts of the selection, another tenant's figures only from the analyzer; a true peak unless the counter jumped; loading ends unless every answer is overtaken |
| `ops_panels` | every panel, each set of rewritten reports, 2 requests | no green lamp that nobody said while the request was served; polling panels catch up |
| `soc_view` | 3 states of the sources, 2 requests, 4 events | newest of the merged events, agreeing parts, views settle |
| `access` | 2 addresses (one bypassed), 2 users, 2 agents, 2 logins in flight | failures bounded, lists of the own tenant only, lockouts end |
| `tests_board` | 4 states of the files, 2 requests, English and German, one search | the trophy is earned, figures add up, the board settles |

A run's properties go to hazards. `BanRecord`, `IpMap`, `BanDaemon`, `BanPath`,
`FleetCommands`, `BansView` and `LiveMetrics` (`LiveTypeOK`) also state a type
invariant that documents their variables and is not among them; `RingBound` of
`SpmcQueue` is proved.

**Bounds.** *SpmcQueue*: a slot is reused when head has moved by the ring's size, so
five chunks in two slots reuse each slot while older claims are still open, and
leave one chunk over; two threads are what a race on the CAS needs. The proofs
cover every size. *BanRecord* has no numeric bound: one address, and two threads of
the kind that races with itself; the kernel's calls fail and outsiders ban at any
moment. *IpMap*: two slots and three addresses give a
collision, a full table and every kind of eviction; a probe length equal to the
capacity makes the wrap-around happen. *BanDaemon*: two clients at once; the file
and the kernel are finite. The end of a tarpit is left out of the instance: it is
an unban that leaves no mark, and the RCE alert already stands for an unmarked
command. With it the same invariants hold on 5 million states. *BanPath*: a late
request on the shared connection and a repeated one on another are enough for a
command to be carried out twice and late. `Backlog` is the buffer of a socket, one
message here; a full one makes a send time out.

*FleetCommands*: two commands are what order is about, two agents of one tenant
what a broadcast is, and a command of another tenant lies in the same table;
`InboxCaps` lets a reply be cut after the first command; one fault (a poll given up
or a crash) falls at any step. *BansView*: one click and one further event (a change by
others, another act of the operator, a failed call) at any point of the requests in
flight, which themselves never stop; the sessions differ in what is mounted and
whether the command line is there.
*LiveMetrics*: rates up to 2 tell a gauge from a peak; `LiveMax` 2 makes the history
overflow; two requests overtake each other, as often as they like. *OpsPanels*: `Written` has a good, a mixed
and a bad report; `HotSets` names the reports that are rewritten, alone or in the pairs one
lamp depends on. *SocView*: `Busy` holds more entries than `MaxEntries`, equal and
missing times, repeated ids, and a ban list longer than `MaxBans` whose last entry is the
newest; `MaxCache` 1 makes every second lookup evict. The map's
cut of the ban list is reached, its cut at `MaxGeo` addresses is not.
*Access*: a limit of 2 with 2 logins in flight can exceed it by one; windows and
tokens of 2 ticks end in the middle of logins. *TestsBoard*: the worlds are all
green (but for an auth-log report that failed and is not graded), all grades, no proof,
and a proof that lags behind; no rule of
`ValidationTests` depends on a report of another test except the soak's.

Histories (`finished`, `noticed`, `overlapped`, `stray`, `evicted`, `ack`, `left`, `stale`,
`mixed`, `result`, `results`, `runs`, `misordered`, `unfresh`, `seen`, `jumped`, `said`) guard
nothing: they record what a property talks about.

**Conditional properties.** `TrackedUnlessOverlap`, `OneNoticePerBan`,
`UniqueUnlessEvicted`, `OwnRecordUnlessEvicted`, `FileWhole`, `FileFresh`,
`AckedIsEffective`, `ResultIsEffect` and `PeakOfSession` hold up to a named event. Each
condition is the weakest we found; section 5 says what happens without it.

- `TrackedUnlessOverlap` excepts stray blocks: nothing in the record can know of a ban
  from outside, or of a block that the kernel was wrongly read to have dropped.
- `PublishedIsClaimed` ends at the stop, `OwnRecordUnlessEvicted` and
  `UniqueUnlessEvicted` at the first eviction, `FileWhole` when two exports have mixed, and
  `FileFresh` when an export failed or lost a mark. So the hazards behind these
  conditions are not caught by the properties; the refuted statements of section 5
  are about them.
- `ResultIsEffect` is about calls that no call of the other kind opposes, and excepts an
  unban whose `ipset del` and `ipset test` have both failed. `AckedIsEffective` excepts
  the entries whose delete failed (in the ipset: whose test failed as well).
- `FreshAfterBan` says that an answer was read after the last success, and not that the
  ban is in it: the list is the daemon's export, which lags by up to five seconds. It
  leaves out the Telegram panel's answers from a cache entry that was read before the
  invalidation and stored after it.
- `ChartsOfSelection` allows the analyzer's figures in charts that the browser accumulates
  under another tenant; `LoadingEnds` excepts that from some time on every answer comes
  after the next poll.
- `GreenIsReported` leaves out two lamps that take a missing report for a good one, and
  takes the checkout's old copy of a report for a report, as the routes do.
- `TimelineNewest` is about the entries that were merged, `OwnTenantOnly` about the rows of
  `/api/fleet` and the lines of `/api/tenants`.
- `CatchesUp` and `Settles` are about views that poll; panels with a button show what the
  last press brought.

**Fairness.** *SpmcQueue*: weak fairness of the producer and of each thread, since
they are runnable threads that never block on a lock, and strong fairness of
`Claim`, since a weak CAS that keeps being tried on an unmoved tail does not fail
for ever. Keys, signals and growth of the log are not fair. *BanRecord*: weak
fairness of the GC thread, which scans about once a minute, and strong fairness of
a successful unban: a kernel that refuses every unban for ever would keep the
block, and so would the code. *BanPath*: weak fairness of the
analyzer's threads only; the daemon may do nothing at all, as every wait for it has
a timeout. *IpMap* and *BanDaemon* are checked for safety only.
*FleetCommands*: agents poll in a loop (strong, because a slot of the server may be
taken in between), and handlers that have started go on; posts, faults and
acknowledgements are not fair. *BansView*: the interval fires again and again while
the tab is visible (strong, since it is off while hidden), and the badge's requests
are served; clicks and failures are not fair. *LiveMetrics*, *OpsPanels*, *SocView*,
*TestsBoard*: every request ends, with an answer or not, as HTTP clients and
handlers time out, and intervals keep firing (in *LiveMetrics* not even that is
needed, and nothing is assumed on how fast answers are: see `LoadingEnds`). *Access*: time passes; nobody has to log in.

## 4. The proofs

`SpmcQueueProofs` proves `TypeOK`, `RingBound`, `ClaimedExactlyOnce` and
`UnclaimedIntact` for every number of threads, ring size and file length. None is
inductive alone. `IInv` adds `LoadsAreOld` (a thread's tail is at most the shared
one and, before its CAS, below head: otherwise a claim could pass the producer)
and `ProducerKnows` (inside `spmc_enqueue` there is a chunk left, and its slot is
written before head is released).
`UnclaimedIntact` then rests on `SlotInjective`: positions that are less than the
ring's size apart have different slots. Assumptions: `QSize` and `MaxChunks` are
positive, `None` and `Torn` are not chunks.

`IpMapProofs` proves `OneWriter`, `OwnRecordUnlessEvicted` and `UniqueUnlessEvicted` for
every number of threads, slots and addresses and every hash. `IInv` adds `Shape` (the
part of the type the argument needs) and `Settled`: before the first eviction, a ready
slot has a complete address, a thread that compares or uses a slot has found
it ready, and a slot about to be published holds its writer's address.
Assumptions: capacity positive, probe length within it, the hash within the
table, the two special field values different from each other and from addresses.

`UniqueUnlessEvicted` needs a second invariant on top of it, `ProbeInv`: `Walk` (a
thread that walks has passed only slots that were ready for other addresses, which
before the first eviction they stay) and `Placed` (a record lies on its address's
probe, and every slot before it is ready for another address). Of two records of
one address the later would have passed the other by.

`BanRecordProofs` proves `TypeOK`, `TrackedUnlessOverlap` and the action property
`OneNoticePerBan` for every number of parser threads. `MutexInv` says where
`g_tui_mutex` is held. The rest of `IInv` holds while no path that clears has
overlapped one that bans: `GoneInv` (between the unban or test and the clearing of
the flag nothing blocks, or the block is stray), `BlockInv` (a block that is not stray
and that the record does not account for yet belongs to a thread about to set flag or
deadline) and `NoticeInv` (after a
notice the flag stands, so that no alert passes its second look). The steps of the
paths fall into six shapes, and one lemma per shape does the work. Assumption: the
threads are different from each other and from "nobody holds the mutex".

`BanDaemonProofs` proves `TypeOK`, `FileWhole`, `FileFresh` and `AckedIsEffective` for
every number of client threads and through any number of crashes and restarts.
`WholeInv` follows the stream and the temporary file of an exporter through its
steps; `FreshInv` says who still owes the file something (a client thread before its
answer, the mark, or an export that has listed the ipset already); `Solo` and
`Progress` say how far a command that runs alone has come, and that whatever it leaves is
in `left`. Assumption: the watchdog
and the main loop are two exporters.

`BanPathProofs` proves `TypeOK` and `ResultIsEffect` for every number of threads,
addresses, connections and attempts. The daemon's messages name no caller, so the
argument is about everything that is under way for an address, requests that their
client has given up included: `Alone` says that without a clash all of it is the same
request, however many callers sent it, `Own` that a caller's own connection carries
nothing else, `Effective` that the success of a ban noted by a handler or reported by an
answer on its way, and the `ipset del` of an unban about to be tested, are in effect,
because nothing that could undo them is under way. `Control` and `Sockets`
tie the program counters to operations and queues. Assumptions: there is an address,
the shared connection is none of the one-shot ones, at least one attempt is made.

`FleetCommandsProofs` proves `TypeOK`, `TenantIsolated`, `InOrder`, `SettledIsReal` and the
refinement `LifeSpec` for every number of commands, agents, tenants and handlers.
No agent remembers what it ran, so `InOrder` rests on `OrderInv`, which speaks of
three places at once: when c comes before d, an agent that ran d, holds it in its
inbox or waits for a reply with it finds c in none of the rows, the reply or the
inbox any more (or in the same reply). `PollsInv`, `AgentsInv` and `ResultsInv` tie
lists, inboxes, results and acknowledgements to rows that keep their tenant and
target (`Forward`), and `RunsInv` says that what nobody has carried out has not been
counted. The refinement maps each step to one of `CommandLife` or a stutter; that a
second run is neither is what `InOrder` and `RunsInv` exclude. Assumption: handlers' slots are positive numbers, since 0 says that an
agent waits for none.

`DashboardProofs` takes four components in turn. *Access*: `TypeOK`, `FailuresBounded`
and `OwnTenantOnly` hold for every set of addresses, users, tenants and agents, every
tier, limit, window and number of logins in flight. `FailuresBounded` counts the
logins under way together with the failures, so that a failure only moves one from the
second sum to the first; `IInv` adds `BypassUncounted`, because the check does not
look at the counter of a bypassed address. `OwnTenantOnly` follows from `TypeOK`:
whoever reaches the fleet, the tenants or the trees has a token of a known user
(`ReachedWithToken`), and headers made from it select that user's tenant
(`HeadersConfine`) in the rows and lines that go by tenant. Assumptions: bounds positive, agents and users have a tenant, and
no tenant is called `*`, the name `/api/fleet` takes for all of them: a user of such a
tenant would be shown every agent.

*LiveMetrics*: `ChartsOfSelection`, `PeakOfSession` and `LiveTypeOK` hold for every set of
ranges and tenants, every rate, history length and number of requests in flight.
`LiveInv` says that a body, the cached one included, is for the selection it was asked
for, with figures of its tenant or of the analyzer (`LiveServed`); that the component waits exactly while its newest request is under
way, and that this request is for the present selection (`LiveNewest`); that what was
accumulated was asked for with the present selection (`LiveShown`); and that the largest
rate is no less than those reported, and one of them unless the counter jumped
(`LivePeak`). Assumptions: bounds positive,
two slots at least.

*OpsPanels*: `GreenIsReported` holds for every set of rewritten reports and everything the
scripts write, without any assumption on the constants. `StatusInv` carries what was
said while a request was served from the disk through the reports it has read to the
answer that is shown; one lemma per panel then follows each of its lamps back to a report or to the
analyzer.

*TestsBoard*: `TrophyIsEarned` and `StatisticsAddUp` hold for all files that `Worlds` may
name. `BoardInv` (what is under way or shown was read from files that were) is the small
part. The large one is that the rules of the 25 groups never meet, so that a
test has one card and its grade is that of its rule (`BoardGraded`); then a
list cut to the proof has no more cards than the proof, the counts are never capped,
and as many green cards as tests leave no other card. The trophy's cards are green as
their reports are graded, or as the proof has them where no graded report exists. Assumption:
`TestsBoardAssumption`, on `Worlds`.

`ViewsProofs` takes two. *BansView*: `FreshAfterBan` and `PageIsOneAnswer` hold for
every number of addresses and posts, every page size and any overlap of requests. What
was read before a success is the problem: it may be under way still, or in the cache.
`Requests` says that a read with no invalidation since came after every success, and any
other one at least after those before its request, except a late entry of the cache;
`Entries` says the same of the cache, `Posts` that a success was carried out. That the page asks only with `PageOpts` makes its rows one answer. Assumption:
the addresses are finitely many, so that they can be counted.

*SocView*: `TimelineNewest` and `ViewsAgree` hold for sources of every length. `SocInv` is
small: what is under way or shown was made of sources the system had, a lookup that is
waited for is of an address still to do, the pointer is on a marker, and the locator's
cache has one answer for an address and keeps its limit. The hard part is the merge: sources are
concatenated, reduced to one ban for an address, sorted, cut, freed of duplicates
and sorted again. `SocListed` shows once, by counting and without induction, that
`Listed` enumerates a finite set in a linear order; after that an entry is followed as
a member of what a list holds, and one ban per address as a fact about that set,
which no later step can lose. Assumptions: `Worlds` has states of the sources, bounds
positive.

TLC has checked the inductive invariants of the analyzer, of *Access*, *FleetCommands*
and *BansView* on the instances of the components' runs as well (`ProbeInv` with its
numbers bounded by the size of the table); several of their conjuncts were found
that way. `LiveInv`, `StatusInv`, `BoardInv` and `SocInv` quantify over sets that TLC cannot
enumerate; what follows from them is checked in the runs.

Every safety invariant of the runs, and the refinement, is proved. Only model-checked
are the liveness properties, because fairness is out of the prover's reach:
`PublishedIsClaimed`, `BackPressureEnds`, `StopEnds`, `PassedBanIsCleared`, `CallReturns`,
`PendingIsHandedOut`, `BadgeSettles`, `LoadingEnds`, `CatchesUp`, `Settles`, `LockoutEnds` and
`BoardSettles`. `SiemFsm`, `OpsReports` and `ValidationTests` have no variables; what
is proved of the latter two is in the lemmas on lamps and cards. `TypeOK` of `BansView` also
bounds the offsets that the page asks for, which the proofs do not need and do not
state.

## 5. Where the code differs from its comments

Seven statements that comments or documents make of the analyzer are refuted by
its model. Each is a definition of its module with a configuration of its own,
which ends with a counterexample; they are not among the project's runs, which are
the checks that pass.

| Configuration | Module | Refutes |
|---|---|---|
| `SpmcOverwrite.cfg` | `SpmcQueue` | `WorksOnClaimedChunk` |
| `SpmcDrain.cfg` | `SpmcQueue` | `DrainedAtJoin` |
| `BanDeadline.cfg` | `BanRecord` | `BlockHasDeadline` |
| `TrapPermanent.cfg` | `BanRecord` | `TrapBanIsPermanent` |
| `BanOther.cfg` | `MCIpMap` | `BansOwnAddress` |
| `ExportLost.cfg` | `BanDaemon` | `FileIsIpsetSummary` |
| `AnswerSwapped.cfg` | `BanPath` | `AnswerIsOwn` |

1. `spmc_enqueue` counts a slot as free once it is claimed, but `worker_loop` copies
   it after the claim (`main.c:3033`, `3039`). A thread delayed there while the ring
   wraps analyses a newer chunk, and its own is never analysed. The comment at
   `main.c:2987` says the producer waits until the consumers have emptied the ring.
2. `worker_loop` loads head before done (`main.c:3006`, `3010`); what is published in
   between is left behind if every thread does so, although `main.c:3009` says that
   done is looked at when the queue is empty.
3. The TTL paths clear flag and deadline without the mutex after their unban
   (`ip_map.c:296`, `main.c:3112`), and an alert clears a stale flag after its test
   (`main.c:3208`). A ban in between is forgotten while the kernel goes on blocking: no scan will lift it, against the usage text at `main.c:2876`
   ("sure dolunca otomatik unban").
4. The trap bans without the mutex (`main.c:3158`); a concurrent ban overwrites the
   permanent deadline by a finite one. `main.c:3151` says "aninda kalici ban".
5. `rec->version` is incremented "ABA problemi icin" and never read (`ip_map.c:97`): a
   thread that keeps a pointer over an eviction bans the record's new address.
6. The dirty flag is cleared after the export (`ebpf_daemon.c:148`), so that a
   command marked during it is not exported; `scripts/repair_active_bans_json.sh:2`
   calls the file the summary of the ipset.
7. The threads share `g_ipc_fd` without a lock and responses are not matched with
   requests (`ban_pipeline.c:53`): a ban may report success on another's answer,
   where `daemon_ipc.h:59` promises the answer to the message sent.

Seen while modelling the analyzer and the daemon, and kept in the models as the code
has it:

- `ip_is_blocked` takes every failure of `ipset test` for "not blocked"
  (`firewall.c:472`), and an address that is only in the XDP map as well. A flag is then
  cleared while the block stays, and no scan will lift it.
- `ban_pipeline_unban` discards what the daemon and the XDP map answer
  (`ban_pipeline.c:131`), and the daemon the result of its delete (`ebpf_daemon.c:415`); an
  unban reports success when only the last `ipset test` says so, or fails to run.
- An `ipset list` that fails is exported as an empty list (`firewall.c:397`); a restart
  after that restores nothing.
- Fleet commands, the API, feeds and the mesh ban and unban without the record of the
  address, so that their bans have no deadline and the record's flag may be wrong.

Seen while modelling the dashboard, and kept in the models as the code has it:

- The list of bans is the daemon's export, rewritten every five seconds
  (`ebpf_daemon.c:139`, `api_server.c:813`), and success is reported for exempt addresses
  too (`ban_pipeline.c:86`): a ban that was confirmed may be missing in the next answers,
  or never appear.
- The Telegram panel has no key (`app/bans/page.tsx:215`): after a search for another
  address it shows the verdict on the one before until the answer comes.
- An acknowledgement replaces whatever status its row has
  (`fleet/commands/ack/route.ts:27`), so that of two performers the later report stays. The
  route accepts "delivered" too, which no agent of this repository sends.
- `/api/fleet` tells everybody the tenants, their numbers of agents and the commands that
  wait in all of them (`fleet/route.ts:67`); `/api/metrics/fleet` names all agents without
  a token, and the attack trees are those of all tenants. `lib/tenantGuard.ts` is imported
  by no route; `tenants/route.ts:14` has the rule itself.
- Without Prometheus the charts are drawn from the metrics of `METRICS_TENANT`, whatever
  tenant is selected (`metrics/grafana/route.ts:134`).
- An answer that reaches nothing counts 0 lines (`metrics/grafana/route.ts:162`); with the
  next good one the whole counter is taken for growth, and stays as the peak. A change
  between Prometheus and the analyzer can do the same.
- The spinner of the live charts ends with the answer to the newest request: if every
  answer takes longer than the interval, it never does.
- A report that is half written is replaced by the checkout's copy, so that a lamp can be
  green of old for one answer. The lamps of the fleet's queue and of the ban database
  take a missing report for a good one.
- The timeline asks for the first 20 bans in the order of the list
  (`soc-timeline/route.ts:282`), so that a ban further down is left out although it is
  newer than all that is shown.
- A round of the home page marks the rate live before it waits for the kill counter and
  sets the snapshot's hint after (`app/page.tsx:181`, `218`): until the round ends, both can
  be shown.
- Every language but English gets Turkish cards (`app/api/tests/route.ts:48`).
- `auth-log-report.json` and `ops-gate-report.json` are read and graded by no rule
  (`app/api/tests/route.ts:112`, `201`): the trophy can stand beside a failure they report.
- A command without a target is marked delivered for all when the first agent has
  polled it, while the comment at `fleet/commands/route.ts:44` speaks of all agents.
  Whoever polls next does not see it, and a reply that is lost or cut is not repeated.
- The token has no `iat` (`lib/loginAuth.ts`), so the idle limit of `middleware.ts:103`
  never applies.
- A lookup that failed is cached like an answer (`lib/ipGeoLookup.ts:175`), and an address
  without a place stays so until it is evicted.
- An incident's detail that arrives after the dialog was closed opens it again
  (`components/IncidentsPanel.tsx:60`).
- A late summary switches the operator's tab (`components/OperatorGatesTabs.tsx:76`).
- `duration_hours ?? duration_sec ? ... : 0` in `lib/validationTests.ts:2081` is read as
  `(a ?? b) ? ... : 0`: a soak report with hours and no seconds counts as 0 hours.
- The banner of the long soak needs only a VPS report that passed
  (`app/api/tests/route.ts:253`), while the card is graded by the hours of the best
  report: the banner can stand beside a card that is no pass. A clause
  of `StatisticsAddUp` that said otherwise could not be proved, and was false.

## 6. What is not modelled, and the plan

In the modelled components: the mapping under the chunks (`mremap` may move it, a
rotation unmaps it), log lines, the sliding windows and counters of a record, IPv6
commands of the daemon (same steps, one kernel call), its statistics file, the
limits of 500 exported addresses and 32 KB read, and memory orders weaker than
sequential consistency. In the dashboard: texts and layout, the many figures that
are shown and not acted upon, the drawing of lineage graphs, and the agents' heartbeat
and rule downloads. The reload of the tests page after a new build
(`ValidationTestsPanel.tsx:286`) is a `Reload`, which may come at any moment.

Not modelled at all, with the reason in `PROJECT.json`: the copilot's chat (the
answers of a language model, streamed), report and PDF pages (one request, no
state), tables of translations and the landing site (text), charts (drawing),
detection (byte patterns and floating point), the eBPF programs and the Kubernetes
operator (behaviour of the kernel and of the cluster).

Next, in this order:

1. `SpmcQueue`: mapping generations, for `mremap` and rotation.
2. `Webhook`: job queue, batch with its deadline, cooldown, stop and drain. A full
   batch is flushed with the lock released (`webhook.c:2493`), and at the stop the
   delivery worker is joined before the batch timer (`webhook.c:2462`).
3. `SiemForwarder`: a full queue drops silently and a taken event is lost when all
   its sends fail (`siem_forwarder.c:199`).
4. `BanReload`: a restart reloads every recorded ban with a deadline of one day,
   permanent and passed ones too (`db.c:204`).
5. An abstract `Blocklist` (calls that take effect between their start and their
   return), implemented by `BanPath` as far as the code does.
6. `MinHeap`, `BanPolicy`, `Incident`: pure algorithms against reference
   definitions. Mesh last.

Proofs planned: `TypeOK` of `BansView` with its bound on offsets.
