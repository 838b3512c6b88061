------------------------------ MODULE OpsReports ------------------------------
(***************************************************************************)
(* The status routes of the dashboard and the panels that show them.       *)
(* Every gate script of the repository leaves a JSON report; a route reads *)
(* a handful of them and answers with lamps, numbers and modes; a panel    *)
(* shows the last answer it has.  Everything here is a function of the     *)
(* reports read, so that the module has no variables.                      *)
(*                                                                         *)
(* A report is abstracted to three flags and a number, the fields the     *)
(* lamps depend on (pass alone where nothing else is said):                *)
(*   gate      flag: ipc is "ok"   more: nginx is set up   n: ipset entries *)
(*   status    pass: Telegram, its routing and native plugins are on       *)
(*             flag: ipc is "ok"   n: bans of the database                 *)
(*   intel     n: rows of the old form                                     *)
(*   relay     flag: the bridge is up                                      *)
(*   smoke     flag: lines were read       n: rate, 2 measured, 1 derived  *)
(*   fleet, multi, prune   n: agents online, commands waiting              *)
(*   prep      flag: laptop mode                                           *)
(*   remote    flag: SSH answers           more: the soak ran for 72 h     *)
(*   morning   flag: its smoke test passed more: its other checks did      *)
(*   e9        more: its checks passed                                     *)
(*   dashban   pass: the ban button works  flag: the paths to it answer    *)
(*   caddy     pass: paths and certificate check are good                  *)
(*             flag: SOAR is enabled       more: the ban button works      *)
(*   mtls      pass: verified              expiry   flag: skipped          *)
(*   proof     flag: routes are on         more: tested in production      *)
(*   wasm      flag: native                fp   flag: trust is warmed up   *)
(***************************************************************************)
EXTENDS Integers, FiniteSets

None == [none |-> TRUE]
NoFile == [absent |-> TRUE]   \* no such file
Torn == [torn |-> TRUE]       \* cut off by the script that writes it

Bases == 1..2   \* the data directory, then the checkout

Report == [pass : BOOLEAN, flag : BOOLEAN, more : BOOLEAN, n : 0..2]
Cell == {NoFile, Torn} \union Report

Reports == {"gate", "status", "intel", "relay", "smoke", "checklist", "e9",
            "fleet", "multi", "prune", "prep", "remote", "morning", "caddy",
            "dashban", "mtls", "soar", "expiry", "proof", "undo", "wasm",
            "fp", "bench", "ban", "crs"}

\* The copy of the checkout is preferred.
readOldest(copies) ==
  LET whole == {b \in Bases : copies[b] \in Report}
  IN  IF whole = {} THEN None
      ELSE copies[CHOOSE b \in whole : \A c \in whole : c <= b]

\* The first copy that exists and parses.
readJson(copies) ==
  LET whole == {b \in Bases : copies[b] \in Report}
  IN  IF whole = {} THEN None
      ELSE copies[CHOOSE b \in whole : \A c \in whole : b <= c]

\* pass === true, and pass !== false.
Passes(r) == r # None /\ r.pass
Flagged(r) == r # None /\ r.flag
More(r) == r # None /\ r.more
NotFailed(r) == r # None => r.pass

Lamp(ok) == IF ok THEN "green" ELSE "warn"
LampOf(r) == IF r = None THEN "none" ELSE Lamp(r.pass)
Num(r) == IF r = None THEN 0 ELSE r.n

-----------------------------------------------------------------------------
(* The routes: got maps every report the route reads to a report or None,  *)
(* w is what the route sees of the running system.                         *)

\* /api/edge-status: a gate without the analyzer's answer is only a proof.
EdgeStatus(got, w) ==
  LET ipc == IF got["gate"] # None THEN got["gate"].flag
             ELSE Flagged(got["status"])
      bans == IF Num(got["gate"]) > 0 THEN Num(got["gate"])
              ELSE Num(got["status"])
      legacy == IF w.up THEN w.legacy ELSE Num(got["intel"])
      smoke == got["smoke"]
  IN  [mode |-> IF ipc /\ Passes(got["gate"]) THEN "live"
                ELSE IF got["gate"] # None THEN "proof" ELSE "unknown",
       gate |-> LampOf(got["gate"]),
       ipc |-> Lamp(ipc),
       nginx |-> More(got["gate"]),
       bans |-> IF w.bans > 0 THEN w.bans ELSE bans,
       intel |-> Lamp(NotFailed(got["intel"]) /\ legacy = 0),
       checklist |-> LampOf(got["checklist"]),
       e9 |-> LampOf(got["e9"]),
       relay |-> LampOf(got["relay"]),
       smoke |-> IF smoke = None THEN "none"
                 ELSE Lamp(smoke.pass /\ smoke.flag /\ smoke.n > 0)]

\* A VPS that answers over SSH is shown as an agent.
buildVpsFleetShadow(remote) == Flagged(remote)

\* /api/fleet-offline-status: the gate's counts next to those of the
\* database; without the database the queue of commands comes from the last
\* prune report.  A reachable VPS is listed as one more agent.
FleetOfflineStatus(got, w) ==
  LET reported == IF got["fleet"] # None THEN Num(got["fleet"])
                  ELSE Num(got["multi"])
      shadow == buildVpsFleetShadow(got["remote"])
  IN  [gate |-> Lamp(Passes(got["fleet"])),
       reported |-> reported,
       agents |-> (IF w.db THEN w.total ELSE 0) + (IF shadow THEN 1 ELSE 0),
       stale |-> w.db /\ w.total > 0 /\ reported # w.online,
       online |-> w.db /\ w.online > 0,
       multi |-> LampOf(got["multi"]),
       shadow |-> shadow,
       pending |-> IF w.db THEN w.pending ELSE Num(got["prune"])]

\* /api/ban-api-status: the smoke test of the ban button, else what the
\* proxy setup wrote; the paths of a report are good or bad together.  An
\* expiry report is hidden only if it was skipped.
BanApiStatus(got, w) ==
  LET path == IF got["dashban"] # None THEN got["dashban"].flag
              ELSE Passes(got["caddy"])
  IN  [path |-> Lamp(path),
       metrics |-> Lamp(w.up \/ path),
       banPass |-> IF got["dashban"] # None THEN got["dashban"].pass
                   ELSE More(got["caddy"]),
       soar |-> Flagged(got["caddy"]),
       verified |-> IF got["mtls"] # None THEN got["mtls"].pass
                    ELSE Passes(got["caddy"]),
       gate |-> Lamp(Passes(got["soar"])),
       expiry |-> IF got["expiry"] # None /\ got["expiry"].flag THEN "none"
                  ELSE Lamp(Passes(got["expiry"])),
       relay |-> LampOf(got["relay"])]

\* /api/vps-prep-status.
VpsPrepStatus(got) ==
  LET ssh == Flagged(got["remote"])
  IN  [gate |-> Lamp(Passes(got["prep"])),
       laptop |-> (got["prep"] # None => got["prep"].flag) /\ ~ssh,
       remote |-> got["remote"] # None,
       ssh |-> ssh,
       soak |-> More(got["remote"])]

\* /api/operator-gates-summary: a VPS that survived the soak needs no gate.
GatesSummary(got) ==
  LET handsOff == Flagged(got["remote"]) /\ More(got["remote"])
      smoke == got["smoke"]
  IN  [morning |-> LampOf(got["morning"]),
       fleet |-> LampOf(got["fleet"]),
       vps |-> Lamp(Passes(got["prep"]) \/ handsOff),
       handsOff |-> handsOff,
       e9 |-> LampOf(got["e9"]),
       relay |-> LampOf(got["relay"]),
       smoke |-> IF smoke = None THEN "none"
                 ELSE Lamp(smoke.pass /\ smoke.flag /\ smoke.n > 0),
       peak |-> smoke # None /\ smoke.n = 2]

\* /api/morning-operator-status and /api/e9-status: pass and the checks, or
\* nothing without a report.
MorningStatus(got) ==
  [gate |-> LampOf(got["morning"]),
   checks |-> got["morning"] # None,
   checked |-> More(got["morning"]),
   smokeOk |-> Flagged(got["morning"])]

E9Status(got) ==
  [gate |-> LampOf(got["e9"]),
   checks |-> got["e9"] # None,
   checked |-> More(got["e9"])]

\* /api/eps-smoke-status: a pass without lines or without a rate is none.
EpsSmokeStatus(got) ==
  LET r == got["smoke"]
  IN  [gate |-> IF r = None THEN "none"
                ELSE Lamp(r.pass /\ r.flag /\ r.n > 0)]

\* /api/webhook-ops: live when messages are really sent, a proof when only
\* the report says so.  Routing is on if the status, the analyzer's gauge or
\* the proof says so.
WebhookOps(got, w) ==
  LET ipc == Flagged(got["status"])
      telegram == Passes(got["status"])
  IN  [mode |-> IF telegram /\ (w.up \/ ipc) THEN "live"
                ELSE IF Passes(got["proof"]) THEN "proof"
                ELSE IF w.up THEN "live" ELSE "unknown",
       telegram |-> telegram,
       route |-> telegram \/ (w.up /\ w.route) \/ Flagged(got["proof"]),
       proof |-> Passes(got["proof"]),
       production |-> More(got["proof"]),
       undo |-> Passes(got["undo"])]

\* /api/bench-metrics: every measurement that was ever made.
BenchMetrics(got) ==
  [available |-> \E r \in {"bench", "ban", "fp", "status", "crs"} :
                   got[r] # None,
   fp |-> LampOf(got["fp"]),
   ban |-> LampOf(got["ban"]),
   live |-> got["status"] # None]

\* /api/fp-metrics.
FpMetrics(got) ==
  [available |-> got["fp"] # None, rate |-> LampOf(got["fp"]),
   warmed |-> Flagged(got["fp"])]

\* /api/lineage-l7: the plugin runtime is what its own report says, else what
\* the status says.
LineageL7(got) ==
  [live |-> Flagged(got["status"]),
   wasm |-> Lamp(IF got["wasm"] # None THEN got["wasm"].pass /\ got["wasm"].flag
                 ELSE Passes(got["status"]))]

\* /api/metrics/live: the rate now, else the peak; unreachable is no error.
MetricsLive(w) == [reachable |-> w.up, eps |-> w.up /\ w.eps]

-----------------------------------------------------------------------------
(* The panels: what each lamp shows of the last answer, None before it.    *)
(* Green is whatever tells the operator that a thing works.                *)

NoLamps == [lamp \in {} |-> "none"]
Green(ok) == IF ok THEN "green" ELSE "none"

\* The head of the edge panel: a badge when bans are enforced now.  (Its
\* number of bans is that of the navigation bar, see BansView.)
EdgeHead(a) ==
  [badge |-> Green(a # None /\ a.mode = "live")]

\* Its row of numbers.
EdgeChips(a) ==
  IF a = None THEN [ipc |-> "warn", nginx |-> "warn"]
  ELSE [gate |-> a.gate, ipc |-> a.ipc, nginx |-> Lamp(a.nginx),
        relay |-> a.relay, smoke |-> a.smoke]

\* Its last rows: checklist, e9 and the ban database.
EdgeRows(a) ==
  IF a = None THEN NoLamps
  ELSE [checklist |-> a.checklist, e9 |-> a.e9, intel |-> a.intel]

\* The fleet panel: gate, counts and queue.
FleetChips(a) ==
  IF a = None THEN NoLamps
  ELSE [gate |-> a.gate, queue |-> Lamp(a.pending = 0),
        report |-> IF a.stale THEN "warn" ELSE "none"]

\* Below: the agents online and the VPS among them, and a command to copy
\* while commands wait.
FleetRows(a) ==
  [agents |-> Green(a # None /\ a.online),
   shadow |-> Green(a # None /\ a.shadow),
   prune |-> IF a # None /\ a.pending > 0 THEN "warn" ELSE "none"]

VpsChips(a) ==
  IF a = None THEN [gate |-> "warn"]
  ELSE [gate |-> a.gate, remote |-> Green(a.ssh), soak |-> Green(a.soak)]

\* The title speaks of a live VPS after a soak there, a line of one that runs
\* unattended; without a connection the host is said to be a laptop.
VpsRows(a) ==
  [title |-> Green(a # None /\ a.ssh /\ a.soak),
   handsOff |-> Green(a # None /\ a.soak),
   host |-> IF a = None \/ (a.laptop /\ ~a.ssh) THEN "warn" ELSE "none"]

BanApiChips(a) ==
  IF a = None THEN NoLamps
  ELSE [host |-> a.path, bridge |-> a.path, apiRelay |-> a.path,
        docker |-> a.path, metrics |-> a.metrics,
        relay |-> a.relay, gate |-> a.gate, expiry |-> a.expiry]

\* The SOAR line says "on" once its certificate check was verified; the last
\* line says that the ban button works.
BanApiRows(a) ==
  [soar |-> Green(a # None /\ a.soar /\ a.verified),
   banPass |-> Green(a # None /\ a.banPass),
   button |-> IF a # None /\ a.soar THEN "none" ELSE "warn"]

\* The morning panel is fed by two routes: its smoke line is green if either
\* says so.
MorningChips(a, s) ==
  [gate |-> IF a = None THEN "none" ELSE a.gate,
   smoke |-> Green(\/ s # None /\ s.gate = "green"
                   \/ a # None /\ a.smokeOk)]

\* The ticks of the checks, or a hint in their place.
MorningRows(a) ==
  [ticks |-> Green(a # None /\ a.checked),
   hint |-> IF a # None /\ a.checks THEN "none" ELSE "warn"]

WebhookChips(a) ==
  IF a = None THEN NoLamps
  ELSE [live |-> Green(a.mode = "live"),
        proof |-> IF a.proof /\ a.mode # "live" THEN "warn" ELSE "none",
        production |-> Green(a.production),
        undo |-> Green(a.undo)]

WebhookRows(a) == [route |-> Green(a # None /\ a.route)]

E9Chips(a) ==
  IF a = None THEN NoLamps
  ELSE [gate |-> a.gate, ticks |-> Green(a.checked)]

CompetitiveChips(a) ==
  IF a = None \/ ~a.available THEN NoLamps
  ELSE [ban |-> a.ban, fp |-> a.fp]

FpChips(a) ==
  IF a = None \/ ~a.available THEN NoLamps
  ELSE [rate |-> a.rate, trust |-> Lamp(a.warmed)]

LineageChips(a) ==
  IF a = None THEN NoLamps
  ELSE [live |-> Green(a.live), wasm |-> a.wasm]

\* The strip shows nothing before the first summary; a running analyzer
\* makes its smoke pill green whatever the report says.
StripPills(a, live) ==
  IF a = None THEN NoLamps
  ELSE [morning |-> a.morning, fleet |-> a.fleet, vps |-> a.vps,
        e9 |-> a.e9, relay |-> a.relay,
        smoke |-> IF live THEN "green" ELSE a.smoke]

\* The first gate that fails selects the tab; without one it stays.
FirstFailing(a, tab) ==
  IF a.morning = "warn" THEN "morning"
  ELSE IF a.fleet = "warn" THEN "fleet"
  ELSE IF a.vps = "warn" THEN "vps"
  ELSE IF a.e9 = "warn" THEN "e9" ELSE tab

TabChips(a) ==
  IF a = None THEN NoLamps
  ELSE [morning |-> a.morning, fleet |-> a.fleet, vps |-> a.vps,
        e9 |-> a.e9, relay |-> a.relay, smoke |-> a.smoke]
=============================================================================
