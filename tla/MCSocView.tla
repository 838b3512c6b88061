----------------------------- MODULE MCSocView ------------------------------
(* Sources with more entries than fit, with entries of the same time, with *)
(* repeated ones, and with nothing but proofs.                             *)
EXTENDS SocView

At(ip, ts) == [ip |-> ip, ts |-> ts]

Quiet ==
  [now |-> 3, up |-> FALSE, agents |-> TRUE, treeSource |-> "telemetry",
   incidents |-> <<>>, bans |-> <<>>, trees |-> <<>>, alerts |-> <<>>,
   statusBans |-> <<>>, acks |-> <<>>, rce |-> 0, kills |-> 0,
   proofs |-> <<[kind |-> "ban", src |-> "ja3", ip |-> 2, ts |-> 1],
                [kind |-> "incident", src |-> "dist", ip |-> 2, ts |-> 0],
                [kind |-> "ban", src |-> "replay", ip |-> 2, ts |-> 2],
                [kind |-> "ban", src |-> "ja3", ip |-> 2, ts |-> 1],
                [kind |-> "ban", src |-> "live", ip |-> 1, ts |-> 0]>>]

Busy ==
  [Quiet EXCEPT
     !.up = TRUE, !.kills = 1, !.rce = 1,
     !.incidents = <<At(1, 2)>>,
     !.bans = <<At(1, 0), At(2, 1), At(3, 3)>>,
     !.trees = <<[pid |-> 7, risk |-> 1, events |-> <<2, 2>>],
                 [pid |-> 9, risk |-> 0, events |-> <<>>]>>,
     !.alerts = <<[waf |-> TRUE, ip |-> 2, ts |-> 2],
                  [waf |-> TRUE, ip |-> 2, ts |-> 2]>>,
     !.statusBans = <<[undo |-> FALSE, ip |-> 2, ts |-> 1],
                      [undo |-> TRUE, ip |-> 1, ts |-> 2]>>,
     !.acks = <<At(2, 1), At(2, 1)>>]

Calm ==
  [Quiet EXCEPT !.incidents = <<At(1, 1), At(2, 2)>>, !.acks = <<At(1, 3)>>,
                !.treeSource = "daemon_file",
                !.trees = <<[pid |-> 7, risk |-> 1, events |-> <<1>>]>>]

MCWorlds == {Quiet, Busy, Calm}
=============================================================================
