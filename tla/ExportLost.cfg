\* A command that is marked while an export is under way: the export clears
\* the mark and the file stays as it is.
SPECIFICATION Spec
CONSTANTS
  Clients = {c1}
  Watchdog = Watchdog
  Loop = Loop
  Commands = {"ban", "unban"}
  ExportsFail = FALSE
INVARIANT
  FileIsIpsetSummary
