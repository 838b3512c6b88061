---------------------------- MODULE MCTestsBoard ----------------------------
(* Worlds of the reports that have rules of their own and of some that are *)
(* taken at their word: everything green, some of every grade, a proof     *)
(* that lags behind, no proof.                                             *)
EXTENDS TestsBoard

Good == [pass |-> TRUE, hasPass |-> TRUE, skipped |-> FALSE,
         mode |-> "native", ok |-> TRUE,
         rate |-> 1, target |-> 5, failures |-> 0, measured |-> TRUE,
         note |-> FALSE, short |-> FALSE, sec |-> 259200, hasHours |-> TRUE,
         hours |-> 72, operational |-> TRUE, laptopProof |-> FALSE]
Bad == [Good EXCEPT !.pass = FALSE, !.ok = FALSE, !.rate = 9, !.failures = 1]
Unsure == [Good EXCEPT !.mode = "skip", !.ok = FALSE, !.operational = TRUE,
                       !.measured = FALSE, !.note = TRUE, !.sec = 600]

Green == {"crs-parity", "nginx-consult", "ipv6-ban-e2e", "mtls-cert-expiry",
          "fp-rate", "soak-vps", "ban-latency", "live-pipeline",
          "morning-operator-gate"}
Other == {"vm-fleet-gate", "dashboard-live-demo", "wasm-native",
          "copilot-ollama", "k8s-kind-e2e", "arm64-build", "bench-eps",
          "intel-ban-db", "eps-smoke", "soak-laptop"}

\* auth-log has a report that failed, and no grade.
Ungraded == "auth-log-ingest"

MCFound == [smoke |-> [tr |-> {"eps-smoke", "crs-parity"},
                       en |-> {"helm-smoke", "fp-rate"}]]

Stored(ids, status) == {Card(n, status) : n \in ids}
Proof == Stored((Green \ {"soak-vps"})
                  \union {"soak-stability", "helm-smoke", Ungraded}, "pass")

MCWorlds ==
  <<[reports |-> [n \in Green \union {Ungraded} |->
                    IF n = Ungraded THEN Bad ELSE Good],
     proof |-> Proof],
    [reports |-> [n \in Green \union Other |->
                    IF n \in {"crs-parity", "wasm-native"} THEN Bad
                    ELSE IF n \in {"copilot-ollama", "ban-latency", "soak-vps"}
                    THEN Unsure ELSE Good],
     proof |-> Proof],
    [reports |-> [n \in Green \union Other |->
                    IF n = "wasm-native" THEN [Bad EXCEPT !.hasPass = FALSE]
                    ELSE Good],
     proof |-> {}],
    [reports |-> [n \in Other |-> IF n = "intel-ban-db" THEN Bad ELSE Good],
     proof |-> Stored({"crs-parity", "fp-rate"}, "pass")]>>
=============================================================================
