---------------------------- MODULE MCBanDaemon ----------------------------
(* Client threads are interchangeable; the two exporters are not.           *)
EXTENDS BanDaemon, TLC

Symmetry == Permutations(Clients)
=============================================================================
