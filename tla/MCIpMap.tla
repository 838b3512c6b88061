------------------------------ MODULE MCIpMap ------------------------------
(* Two addresses with the same hash, and one with another.                  *)
EXTENDS IpMap, TLC

CONSTANT ip3

MCHome == [a \in Ips |-> IF a = ip3 THEN 1 ELSE 0]

Symmetry == Permutations(Threads) \cup Permutations(Ips \ {ip3})
=============================================================================
