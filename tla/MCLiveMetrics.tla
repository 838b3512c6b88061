---------------------------- MODULE MCLiveMetrics ----------------------------
(* Two ranges and two tenants, the analyzer's own and another one.         *)
EXTENDS LiveMetrics

CONSTANTS t1, t2

MCTenants == {t1, t2}

MCScraped == [eps |-> 1, eps_peak |-> 0, lines |-> 1]
=============================================================================
