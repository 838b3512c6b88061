---------------------------- MODULE MCOpsPanels -----------------------------
(* One report is rewritten, or two of which a lamp depends on both.        *)
EXTENDS OpsPanels

MCHotSets ==
  {{"gate"}, {"smoke"}, {"e9"}, {"fleet"}, {"dashban"}, {"soar"}, {"remote"},
   {"proof"}, {"fp"}, {"wasm"}} \union {{"prep", "remote"}, {"morning", "smoke"}}

MCWritten ==
  {[pass |-> TRUE, flag |-> TRUE, more |-> TRUE, n |-> 2],
   [pass |-> TRUE, flag |-> FALSE, more |-> FALSE, n |-> 0],
   [pass |-> FALSE, flag |-> TRUE, more |-> TRUE, n |-> 1]}
=============================================================================
