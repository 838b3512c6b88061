---------------------------- MODULE ValidationTests ---------------------------
(***************************************************************************)
(* How the dashboard grades its proof reports.  A report is known by the   *)
(* test it is graded as; R maps the tests whose report could be read to    *)
(* what the grade depends on.  A test without a report has no card.  The   *)
(* reports of auth-log and of the ops gates are read too, and graded by    *)
(* nobody: a card the proof has for them keeps what the proof says.        *)
(***************************************************************************)
EXTENDS Integers, FiniteSets

Card(id, status) == [id |-> id, status |-> status]

PassFail(ok) == IF ok THEN "pass" ELSE "fail"

\* Reports that are taken at their word.
Plain(R, ids) ==
  {Card(n, PassFail(R[n].pass)) : n \in ids \intersect DOMAIN R}

\* The report of a test with a rule of its own, if it could be read.
ReportOf(R, n) == {R[m] : m \in {n} \intersect DOMAIN R}

-----------------------------------------------------------------------------
(* The groups, in the order of evaluateValidationTests.                    *)

CorpusTests(R) == Plain(R, {"crs-parity", "real-attack", "real-attack-10k"})

AttackTests(R) ==
  Plain(R, {"live-attack", "owasp-corpus", "tr-hosting-corpus",
            "threat-intel-sync"})

NginxTests(R) == Plain(R, {"nginx-consult", "nginx-hybrid", "ban-profile-e2e"})

MutationTests(R) ==
  Plain(R, {"ipv6-ban-e2e", "api-mutation-token-e2e", "api-mutation-audit-e2e",
            "dashboard-login-rl-e2e"})

\* A certificate about to expire is a warning, and skipped tests have no card.
HardeningTests(R) ==
  Plain(R, {"hardening-rollback-gate", "dashboard-jwt-idle-gate"})
    \union {Card("mtls-cert-expiry", IF r.pass THEN "pass" ELSE "warn") :
              r \in {q \in ReportOf(R, "mtls-cert-expiry") : ~q.skipped}}

MtlsTests(R) == Plain(R, {"ban-api-mtls", "enterprise-soar-gate"})

ClusterTests(R) ==
  Plain(R, {"ja3-cluster", "ja3-cluster-ban-live", "fp-cluster-trust"})

\* The rate of false positives is compared with its target, whatever the
\* report concludes.
RateTests(R) ==
  Plain(R, {"lineage-live", "soak-short-gate"})
    \union {Card("fp-rate", PassFail(r.rate < r.target)) :
              r \in ReportOf(R, "fp-rate")}

\* The hours of a soak are counted from its seconds even where the report
\* has hours, which only decide whether there is anything to count.
soakHours(r) ==
  IF (IF r.hasHours THEN r.hours ELSE r.sec) = 0 THEN 0 ELSE r.sec \div 3600

\* Passed on the laptop, or operational for 70 hours without a failure.
soakStatus(r) ==
  IF r.laptopProof \/ (r.operational /\ soakHours(r) >= 70 /\ r.failures = 0)
  THEN "pass" ELSE IF r.operational THEN "warn" ELSE "fail"

\* The longest of three soaks, the first of equals.
readBestSoak(R) ==
  LET names == <<"soak-vps", "soak-laptop", "soak-short-gate">>
      there == {i \in 1..3 : names[i] \in DOMAIN R}
      best == CHOOSE i \in there :
                \A j \in there : \/ R[names[i]].sec > R[names[j]].sec
                                 \/ R[names[i]].sec = R[names[j]].sec /\ i <= j
  IN  IF there = {} THEN "none" ELSE names[best]

SoakTest(R) ==
  LET n == readBestSoak(R)
  IN  IF n = "none" THEN {}
      ELSE IF R[n].short THEN {}
      ELSE {Card("soak-stability", soakStatus(R[n]))}

\* The benchmark has no way to fail; a latency counts when it is measured,
\* and waits when the report says why it is not.
BenchTests(R) ==
  Plain(R, {"tenant-isolation"})
    \union {Card("bench-eps", "pass") : r \in ReportOf(R, "bench-eps")}
    \union {Card("ban-latency",
                 IF r.measured THEN PassFail(r.pass \/ r.rate <= r.target)
                 ELSE "pending") :
              r \in {q \in ReportOf(R, "ban-latency") : q.measured \/ q.note}}

PipelineTests(R) ==
  Plain(R, {"webhook-route-proof", "webhook-telegram-live"})
    \union {Card("live-pipeline", PassFail(r.ok /\ r.failures = 0)) :
              r \in ReportOf(R, "live-pipeline")}

TelegramTests(R) ==
  Plain(R, {"webhook-telegram-ack-live", "telegram-operator-undo-e2e",
            "telegram-soc-gate", "bans-telegram-ops"})

EdgeTests(R) ==
  Plain(R, {"edge-protection-gate", "grafana-parity-gate"})
    \union {Card("intel-ban-db", IF r.pass THEN "pass" ELSE "warn") :
              r \in ReportOf(R, "intel-ban-db")}

HostTests(R) ==
  Plain(R, {"website-preview-gate", "enterprise-escalation-gate",
            "vm-host-prep-gate", "docs-consistency-gate"})

\* A fleet of machines that was skipped passes.
ReleaseTests(R) ==
  Plain(R, {"laptop-excellence-gate", "website-live-gate",
            "release-ready-gate"})
    \union {Card("vm-fleet-gate", PassFail(r.pass \/ r.skipped)) :
              r \in ReportOf(R, "vm-fleet-gate")}

ShipTests(R) ==
  Plain(R, {"demo-rehearsal-gate", "presentation-ship-gate", "demo-video-gate"})

MorningTests(R) ==
  Plain(R, {"github-ship-gate", "laptop-core-gate", "morning-operator-gate"})

\* A demo that was cleaned up is a warning, unless its bans were applied.
DemoTests(R) ==
  Plain(R, {"dashboard-ban-api", "attack-map"})
    \union {Card("dashboard-live-demo",
                 IF r.pass \/ r.ok THEN "pass"
                 ELSE IF r.skipped THEN "warn" ELSE "fail") :
              r \in ReportOf(R, "dashboard-live-demo")}

\* Native and passed; a report that does not conclude is a warning.
FleetTests(R) ==
  Plain(R, {"siem-export", "fleet-multi-node", "fleet-offline-gate"})
    \union {Card("wasm-native",
                 IF r.mode = "native" /\ r.pass THEN "pass"
                 ELSE IF r.hasPass /\ ~r.pass THEN "fail" ELSE "warn") :
              r \in ReportOf(R, "wasm-native")}

\* A run that was skipped, or had no model to talk to, is a warning.
OptionalTests(R) ==
  Plain(R, {"grafana-alerts"})
    \union {Card("copilot-ollama",
                 IF ~r.pass THEN "fail"
                 ELSE IF r.mode # "skip" /\ r.ok THEN "pass"
                 ELSE "warn") :
              r \in ReportOf(R, "copilot-ollama")}
    \union {Card("marketplace-signed-api",
                 IF ~r.pass THEN "fail"
                 ELSE IF r.mode = "enterprise-live" /\ ~r.ok
                      THEN "warn" ELSE "pass") :
              r \in ReportOf(R, "marketplace-signed-api")}

PlatformTests(R) ==
  {Card("compliance-export",
        IF ~r.pass THEN "fail"
        ELSE IF r.mode \in {"tier_gate", "skip"} THEN "warn"
        ELSE "pass") :
     r \in ReportOf(R, "compliance-export")}
    \union {Card("vps-xdp-kernel",
                 IF ~r.pass THEN "fail"
                 ELSE IF r.mode \in {"kernel-xdp", "skip"}
                      THEN "pass" ELSE "warn") :
              r \in ReportOf(R, "vps-xdp-kernel")}
    \union {Card("arm64-build",
                 IF ~r.pass THEN "fail"
                 ELSE IF r.mode \notin {"dry-run", "skip"} /\ r.ok
                      THEN "pass" ELSE "warn") :
              r \in ReportOf(R, "arm64-build")}

StackTests(R) ==
  Plain(R, {"prod-stack-e2e", "phase100-fast-gate", "honeypot-feed"})
    \union {Card("l7-probe-prod",
                 IF ~r.pass THEN "fail"
                 ELSE IF r.ok THEN "pass" ELSE "warn") :
              r \in ReportOf(R, "l7-probe-prod")}

FeedTests(R) ==
  Plain(R, {"crowdsec-bouncer", "taxii-feed", "parser-fuzz",
            "ban-policy-audit"})

RiskTests(R) ==
  Plain(R, {"dist-risk-proof", "lineage-incident"})
    \union {Card("k8s-admission",
                 IF ~r.pass THEN "fail"
                 ELSE IF r.mode = "skip" THEN "warn" ELSE "pass") :
              r \in ReportOf(R, "k8s-admission")}

ClusterE2eTests(R) ==
  Plain(R, {"mesh-etcd-live"})
    \union {Card("k8s-kind-e2e",
                 IF ~r.pass THEN "fail"
                 ELSE IF r.mode = "skip" THEN "warn" ELSE "pass") :
              r \in ReportOf(R, "k8s-kind-e2e")}
    \union {Card("mesh-etcd-docker",
                 IF ~r.pass THEN "fail"
                 ELSE IF r.mode = "docker-live" THEN "pass"
                 ELSE "warn") :
              r \in ReportOf(R, "mesh-etcd-docker")}

evaluateValidationTests(R) ==
  UNION {CorpusTests(R), AttackTests(R), NginxTests(R), MutationTests(R),
         HardeningTests(R), MtlsTests(R), ClusterTests(R), RateTests(R),
         SoakTest(R), BenchTests(R), PipelineTests(R), TelegramTests(R),
         EdgeTests(R), HostTests(R), ReleaseTests(R), ShipTests(R),
         MorningTests(R), DemoTests(R), FleetTests(R), OptionalTests(R),
         PlatformTests(R), StackTests(R), FeedTests(R), RiskTests(R),
         ClusterE2eTests(R)}

-----------------------------------------------------------------------------
(* competitive-proof.json lists the canonical cards.  P is the set of its  *)
(* cards, empty when the file cannot be read.                              *)

Ids(cards) == {c.id : c \in cards}

\* The stored cards, whatever the reports say.
alignToStored(cards, P) == IF cards = {} THEN {} ELSE P

\* Every card of the proof, graded from its report where there is one; other
\* cards are left out.
alignTestsToProof(cards, P) ==
  LET graded == Ids(cards)
  IN  {IF c.id \in graded THEN CHOOSE d \in cards : d.id = c.id ELSE c : c \in P}

\* /api/tests
Tests(R, P) ==
  LET cards == evaluateValidationTests(R)
  IN  IF P # {} THEN alignTestsToProof(cards, P) ELSE cards

Count(cards, status) == Cardinality({c \in cards : c.status = status})

\* The banners of the answer.
Banners(R) ==
  [soak |-> /\ readBestSoak(R) = "soak-vps" /\ R["soak-vps"].pass,
   morning |-> "morning-operator-gate" \in DOMAIN R
                 /\ R["morning-operator-gate"].pass,
   eps |-> "eps-smoke" \in DOMAIN R
             /\ R["eps-smoke"].pass /\ R["eps-smoke"].ok
             /\ R["eps-smoke"].rate > 0]
=============================================================================
