\* Two client threads at once, both exporters, marked and unmarked commands;
\* crashes, stops and restarts at any moment.
SPECIFICATION Spec
SYMMETRY Symmetry
CONSTANTS
  Clients = {c1, c2}
  Watchdog = Watchdog
  Loop = Loop
  Commands = {"ban", "unban", "rce_alert"}
  ExportsFail = TRUE
INVARIANTS
  FileWhole
  FileFresh
  AckedIsEffective
