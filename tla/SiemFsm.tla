------------------------------ MODULE SiemFsm ------------------------------
(***************************************************************************)
(* The threat stages of an address (siem_fsm.c) as pure operators.  An     *)
(* alert is abstracted to what siem_update tells apart: its level and the  *)
(* class of its message.                                                   *)
(***************************************************************************)
EXTENDS Naturals

CLEAN == 0
RECON == 1
EXPLOIT == 2
C2 == 3
PERSISTENT == 4

Stages == CLEAN .. PERSISTENT

(* Critical alerts by the text siem_update looks for: "BEACONING"; "SQL",
   "INJECTION" or "PAYLOAD"; anything else.  Then the two lower levels. *)
CritKinds == {"beaconing", "injection", "other"}
AlertKinds == CritKinds \cup {"warn", "info"}

StageAtLeast(s, cur) == IF cur < s THEN s ELSE cur

(* The local next of siem_update for an address at stage cur. *)
NextStage(cur, kind) ==
  CASE kind = "beaconing" -> IF cur \in {EXPLOIT, PERSISTENT} THEN PERSISTENT ELSE C2
    [] kind = "injection" -> IF cur \in {C2, PERSISTENT} THEN PERSISTENT ELSE EXPLOIT
    [] kind = "other" -> StageAtLeast(EXPLOIT, cur)
    [] kind = "warn" -> StageAtLeast(RECON, cur)
    [] kind = "info" -> cur

(* The multiple of the base TTL that siem_update returns; 0 stands for its
   -1, a permanent ban. *)
TtlFactor(stage) ==
  CASE stage \in {CLEAN, RECON} -> 1
    [] stage = EXPLOIT -> 2
    [] stage = C2 -> 4
    [] stage = PERSISTENT -> 0
=============================================================================
