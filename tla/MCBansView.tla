----------------------------- MODULE MCBansView -----------------------------
(* An operator with the panel, where counts overlap, and one with the page, *)
(* where page loads overlap and the command line is the fallback.           *)
EXTENDS BansView

MCSessions ==
  { [admin |-> TRUE, token |-> TRUE, bin |-> FALSE, mounted |-> "panel",
     lanes |-> {<<"badge", 1>>, <<"badge", 2>>, <<"panel", 1>>}, flight |-> 1],
    [admin |-> TRUE, token |-> TRUE, bin |-> TRUE, mounted |-> "page",
     lanes |-> {<<"page", 1>>, <<"page", 2>>, <<"badge", 1>>, <<"tele", 1>>}, flight |-> 2] }
=============================================================================
