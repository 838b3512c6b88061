----------------------------- MODULE BanDaemon -----------------------------
(***************************************************************************)
(* log-guardian-daemon (ebpf_daemon.c) and ONE IPv4 address: its entries   *)
(* in the XDP map and in the ipset, and the file active_bans.json, which   *)
(* the daemon writes from the ipset and restores both from at its start.   *)
(*                                                                         *)
(*   - a thread per client handles one command and marks the file dirty;   *)
(*   - the watchdog thread and the main loop both export a dirty file,     *)
(*     with no lock, through the same temporary file;                      *)
(*   - the process stops in order, or crashes, and starts again.           *)
(*                                                                         *)
(* Every kernel call, file operation and access of g_bans_json_dirty that  *)
(* another thread can see is a step.  Commands for other addresses appear  *)
(* by the dirty mark they leave.  Authentication and the validation of the *)
(* address are assumed to succeed, and the ipset to hold no more than the  *)
(* BANS_JSON_EXPORT_MAX addresses that an export lists.                    *)
(***************************************************************************)
EXTENDS FiniteSets

CONSTANTS Clients,         \* client threads that are alive at once
          Watchdog, Loop,  \* the two exporting threads
          Commands,        \* the commands that clients send
          ExportsFail      \* whether ipset list and fopen may fail

(* Commands that change the address: IPC_CMD_BAN_V4, IPC_CMD_UNBAN_V4, and the
   RCE alert and the end of a tarpit, which do the same and mark nothing. *)
AllCommands == {"ban", "unban", "rce_alert", "tarpit_stop"}
Bans(c) == c \in {"ban", "rce_alert"}
Marks(c) == c \in {"ban", "unban"}

ASSUME ExporterAssumption == Watchdog # Loop
ASSUME CommandsAssumption == Commands \subseteq AllCommands
ASSUME ExportsFailAssumption == ExportsFail \in BOOLEAN

Exporters == {Watchdog, Loop}

(* What a file can hold: the JSON with or without the address, nothing yet,
   or a mixture of two writers. *)
Listing == {"with", "without"}
Content == Listing \cup {"absent", "empty", "torn"}

VARIABLES
  mode,     \* "run", "stop" (g_running = 0), "final" (the main thread's last
            \* export) or "down"
  xdp,      \* the address is in the XDP map in use
  ipset,    \* the address is in the ipset
  file,     \* active_bans.json
  tmp,      \* active_bans.json.tmp
  dirty,    \* g_bans_json_dirty
  hpc,      \* where each client thread is
  cmd,      \* its command
  rc,       \* its rc == 0
  epc,      \* where each exporter is
  snap,     \* the listing of the ipset it holds
  fd,       \* the file its stream is open on: "none", "tmp", "file",
            \* or "gone" once that file has been replaced
  ack,      \* history: "in" or "out" after an acknowledged ban or unban that
            \* ran alone, "clash" if commands overlapped, else "none"
  left,     \* history: the entries that the unban running alone could not
            \* remove and does not know of
  stale,    \* history: an update was made that no export accounts for
  mixed     \* history: two exports were under way at once

kernel == <<xdp, ipset>>
files == <<file, tmp>>
clients == <<hpc, cmd, rc>>
exports == <<epc, snap, fd>>
history == <<ack, left, stale, mixed>>
vars == <<mode, xdp, ipset, file, tmp, dirty, hpc, cmd, rc, epc, snap, fd,
          ack, left, stale, mixed>>

ListingOf(present) == IF present THEN "with" ELSE "without"

(* A client thread that may still change the kernel or has to set the mark. *)
Busy(h) == hpc[h] # "idle"
(* An exporter that has read the ipset and not yet cleared the mark. *)
Listed(e) == epc[e] \in {"open", "write", "rename", "clear"}
Exporting(e) == epc[e] # "idle"

Init ==
  /\ mode = "run"
  /\ xdp = FALSE /\ ipset = FALSE
  /\ file = "without" /\ tmp = "absent" /\ dirty = FALSE
  /\ hpc = [h \in Clients |-> "idle"]
  /\ cmd = [h \in Clients |-> "ban"]
  /\ rc = [h \in Clients |-> FALSE]
  /\ epc = [e \in Exporters |-> "idle"]
  /\ snap = [e \in Exporters |-> "without"]
  /\ fd = [e \in Exporters |-> "none"]
  /\ ack = "none" /\ left = {} /\ stale = FALSE /\ mixed = FALSE

-----------------------------------------------------------------------------
(* A client thread, in handle_client. *)

(* Messages are received as long as the accept thread runs. *)
Receive(h) ==
  /\ mode = "run" /\ hpc[h] = "idle"
  /\ \E c \in Commands : cmd' = [cmd EXCEPT ![h] = c]
  /\ rc' = [rc EXCEPT ![h] = FALSE]
  /\ hpc' = [hpc EXCEPT ![h] = "xdp"]
  /\ ack' = IF \E g \in Clients : Busy(g) THEN "clash" ELSE "none"
  /\ left' = {}
  /\ UNCHANGED <<mode, kernel, files, dirty, exports, stale, mixed>>

(* do_ban_v4: bpf_map_update_elem, which may fail or have no map. *)
BanXdp(h) ==
  /\ hpc[h] = "xdp" /\ Bans(cmd[h])
  /\ \/ xdp' = TRUE /\ rc' = [rc EXCEPT ![h] = TRUE]
     \/ UNCHANGED <<xdp, rc>>
  /\ hpc' = [hpc EXCEPT ![h] = "ipset"]
  /\ UNCHANGED <<mode, ipset, files, dirty, cmd, exports, history>>

(* Mutant: a failed ipset add is reported as success. *)
BanIpsetUnchecked(h) ==
  /\ hpc[h] = "ipset" /\ Bans(cmd[h])
  /\ ipset' \in {ipset, TRUE}
  /\ rc' = [rc EXCEPT ![h] = TRUE]
  /\ hpc' = [hpc EXCEPT ![h] = "reply"]
  /\ UNCHANGED <<mode, xdp, files, dirty, cmd, exports, history>>

(* do_ban_v4: ipset add; the ban has failed only if both have. *)
BanIpset(h) ==
  /\ hpc[h] = "ipset" /\ Bans(cmd[h])
  /\ \/ ipset' = TRUE /\ rc' = [rc EXCEPT ![h] = TRUE]
     \/ UNCHANGED <<ipset, rc>>
  /\ hpc' = [hpc EXCEPT ![h] = "reply"]
  /\ UNCHANGED <<mode, xdp, files, dirty, cmd, exports, history>>

(* The unban that runs alone leaves entry k behind and goes on as if it did not. *)
LeftBehind(k, b) == left' = IF b /\ ack = "none" THEN left \cup {k} ELSE left

(* do_unban_v4: bpf_map_delete_elem, whose result is ignored. *)
UnbanXdp(h) ==
  /\ hpc[h] = "xdp" /\ ~Bans(cmd[h])
  /\ xdp' \in {FALSE, xdp}
  /\ LeftBehind("xdp", xdp')
  /\ hpc' = [hpc EXCEPT ![h] = "ipset"]
  /\ UNCHANGED <<mode, ipset, files, dirty, cmd, rc, exports, ack, stale, mixed>>

(* do_unban_v4: ipset del; an error is looked into with ipset test. *)
UnbanIpset(h) ==
  /\ hpc[h] = "ipset" /\ ~Bans(cmd[h])
  /\ \/ /\ ipset' = FALSE /\ rc' = [rc EXCEPT ![h] = TRUE]
        /\ hpc' = [hpc EXCEPT ![h] = "reply"]
     \/ /\ hpc' = [hpc EXCEPT ![h] = "test"]
        /\ UNCHANGED <<ipset, rc>>
  /\ UNCHANGED <<mode, xdp, files, dirty, cmd, exports, history>>

(* do_unban_v4: anything but a found member counts as gone, also a test that
   could not run. *)
UnbanTest(h) ==
  /\ hpc[h] = "test"
  /\ \E gone \in {TRUE, ~ipset} :
       /\ rc' = [rc EXCEPT ![h] = gone]
       /\ LeftBehind("ipset", gone /\ ipset)
  /\ hpc' = [hpc EXCEPT ![h] = "reply"]
  /\ UNCHANGED <<mode, kernel, files, dirty, cmd, exports, ack, stale, mixed>>

(* The command is over.  An update that succeeded without a mark, or is marked
   while an export is between its listing and its clearing, may be lost. *)
Leave(h) ==
  /\ hpc' = [hpc EXCEPT ![h] = "idle"]
  /\ cmd' = [cmd EXCEPT ![h] = "ban"] /\ rc' = [rc EXCEPT ![h] = FALSE]
  /\ ack' = IF ack = "none" /\ rc[h] THEN IF Bans(cmd[h]) THEN "in" ELSE "out" ELSE ack
  /\ stale' = (stale \/ (rc[h] /\ (~Marks(cmd[h]) \/ \E e \in Exporters : Listed(e))))

(* Mutant: an unban does not mark the file. *)
ReplyMarkBansOnly(h) ==
  /\ hpc[h] = "reply"
  /\ dirty' = (dirty \/ (rc[h] /\ cmd[h] = "ban"))
  /\ Leave(h)
  /\ UNCHANGED <<mode, kernel, files, exports, left, mixed>>

(* The response is sent and the file is marked; a crash between the two loses
   the mark like one after both. *)
Reply(h) ==
  /\ hpc[h] = "reply"
  /\ dirty' = (dirty \/ (rc[h] /\ Marks(cmd[h])))
  /\ Leave(h)
  /\ UNCHANGED <<mode, kernel, files, exports, left, mixed>>

(* A command for another address is acknowledged. *)
OtherCommand ==
  /\ mode = "run" /\ ~dirty
  /\ dirty' = TRUE
  /\ UNCHANGED <<mode, kernel, files, clients, exports, history>>

-----------------------------------------------------------------------------
(* An exporter, in export_active_bans_json. *)

(* The watchdog's and the main loop's period is over and the mark is set; or
   the main loop has ended, and exports whatever the mark says. *)
ExportBegin(e) ==
  /\ epc[e] = "idle"
  /\ \/ mode = "run" /\ dirty /\ UNCHANGED mode
     \/ mode = "stop" /\ e = Loop /\ mode' = "final"
  /\ epc' = [epc EXCEPT ![e] = "list"]
  /\ mixed' = (mixed \/ \E o \in Exporters \ {e} : Exporting(o))
  /\ UNCHANGED <<kernel, files, dirty, clients, snap, fd, ack, left, stale>>

(* An export that gives up clears the mark like any other. *)
GiveUp(e) ==
  /\ ExportsFail
  /\ epc' = [epc EXCEPT ![e] = "clear"]
  /\ stale' = TRUE
  /\ UNCHANGED <<snap, fd>>

(* ipset list; without a pipe or a process the export gives up, and a program
   that fails to start or to list leaves an empty list, which is exported. *)
ExportList(e) ==
  /\ epc[e] = "list"
  /\ \/ /\ snap' = [snap EXCEPT ![e] = ListingOf(ipset)]
        /\ epc' = [epc EXCEPT ![e] = "open"]
        /\ UNCHANGED <<fd, stale>>
     \/ /\ ExportsFail
        /\ snap' = [snap EXCEPT ![e] = "without"]
        /\ epc' = [epc EXCEPT ![e] = "open"]
        /\ stale' = TRUE
        /\ UNCHANGED fd
     \/ GiveUp(e)
  /\ UNCHANGED <<mode, kernel, files, dirty, clients, ack, left, mixed>>

(* Mutant: the file itself is opened and truncated. *)
ExportOpenInPlace(e) ==
  /\ epc[e] = "open"
  /\ file' = "empty"
  /\ fd' = [fd EXCEPT ![e] = "file"]
  /\ epc' = [epc EXCEPT ![e] = "write"]
  /\ UNCHANGED <<mode, kernel, tmp, dirty, clients, snap, history>>

(* fopen with "w" creates the temporary file or truncates the one there is. *)
ExportOpen(e) ==
  /\ epc[e] = "open"
  /\ \/ /\ tmp' = "empty"
        /\ fd' = [fd EXCEPT ![e] = "tmp"]
        /\ epc' = [epc EXCEPT ![e] = "write"]
        /\ UNCHANGED <<snap, stale>>
     \/ GiveUp(e) /\ UNCHANGED tmp
  /\ UNCHANGED <<mode, kernel, file, dirty, clients, ack, left, mixed>>

(* What a stream leaves in a file that held c: another listing may remain
   behind a shorter one. *)
Written(c, s) == IF c \in {"empty", s} THEN {s} ELSE {s, "torn"}

(* fprintf and fclose, on the file the stream is open on by now. *)
ExportWrite(e) ==
  /\ epc[e] = "write"
  /\ tmp' \in (IF fd[e] = "tmp" THEN Written(tmp, snap[e]) ELSE {tmp})
  /\ file' \in (IF fd[e] = "file" THEN Written(file, snap[e]) ELSE {file})
  /\ fd' = [fd EXCEPT ![e] = "none"]
  /\ epc' = [epc EXCEPT ![e] = "rename"]
  /\ UNCHANGED <<mode, kernel, dirty, clients, snap, history>>

(* rename; it fails, unnoticed, if the other exporter has taken the file away. *)
ExportRename(e) ==
  /\ epc[e] = "rename"
  /\ \/ tmp = "absent" /\ UNCHANGED <<files, fd>>
     \/ /\ tmp # "absent"
        /\ file' = tmp /\ tmp' = "absent"
        /\ fd' = [o \in Exporters |-> CASE fd[o] = "tmp" -> "file"
                                        [] fd[o] = "file" -> "gone"
                                        [] OTHER -> fd[o]]
  /\ epc' = [epc EXCEPT ![e] = "clear"]
  /\ UNCHANGED <<mode, kernel, dirty, clients, snap, history>>

(* The mark is cleared when the export is over; the last export of the main
   thread is followed by the end of the process instead. *)
ExportClear(e) ==
  /\ epc[e] = "clear"
  /\ ~(mode = "final" /\ e = Loop)
  /\ dirty' = FALSE
  /\ epc' = [epc EXCEPT ![e] = "idle"]
  /\ snap' = [snap EXCEPT ![e] = "without"]
  /\ UNCHANGED <<mode, kernel, files, clients, fd, history>>

-----------------------------------------------------------------------------
(* The process. *)

(* SIGTERM, SIGINT or IPC_CMD_SHUTDOWN: g_running = 0. *)
StopRequest ==
  /\ mode = "run"
  /\ mode' = "stop"
  /\ UNCHANGED <<kernel, files, dirty, clients, exports, history>>

(* The process is gone, and its threads with it. *)
Die ==
  /\ mode' = "down"
  /\ dirty' = FALSE
  /\ hpc' = [h \in Clients |-> "idle"]
  /\ cmd' = [h \in Clients |-> "ban"]
  /\ rc' = [h \in Clients |-> FALSE]
  /\ epc' = [e \in Exporters |-> "idle"]
  /\ snap' = [e \in Exporters |-> "without"]
  /\ fd' = [e \in Exporters |-> "none"]

(* The file says what the kernel holds and the last unban has left nothing, so
   that a restart changes nothing. *)
Agreed == file = ListingOf(ipset) /\ (xdp => ipset) /\ left = {}

(* main returns after its last export; xdp_cleanup detaches the XDP program. *)
Exit ==
  /\ mode = "final" /\ epc[Loop] = "clear"
  /\ Die
  /\ xdp' = FALSE
  /\ ack' = IF Agreed THEN ack ELSE "none"
  /\ UNCHANGED <<ipset, files, left, stale, mixed>>

(* The process is killed; the attached XDP program and its map stay. *)
Crash ==
  /\ mode # "down"
  /\ Die
  /\ UNCHANGED <<kernel, files, history>>

(* restore_active_bans_from_json: do_ban_v4 for a listed address, into the new
   XDP map and the ipset that is still there; either entry may fail. *)
Restore ==
  /\ xdp' \in {FALSE, file = "with"}
  /\ ipset' \in {ipset, ipset \/ file = "with"}

(* main up to the start of the threads: the new map, the ipset as it is, the
   restore, and an export that no other thread can disturb. *)
Restart ==
  /\ mode = "down"
  /\ mode' = "run"
  /\ Restore
  /\ \/ /\ file' = ListingOf(ipset') /\ tmp' = "absent"
        /\ stale' = FALSE /\ mixed' = FALSE
     \/ /\ ExportsFail
        /\ stale' = TRUE
        /\ \/ file' = "without" /\ tmp' = "absent" /\ mixed' = FALSE
           \/ UNCHANGED <<files, mixed>>
  /\ ack' = IF Agreed THEN ack ELSE "none"
  /\ UNCHANGED <<dirty, clients, exports, left>>

-----------------------------------------------------------------------------
Client(h) ==
  \/ Receive(h) \/ BanXdp(h) \/ BanIpset(h)
  \/ UnbanXdp(h) \/ UnbanIpset(h) \/ UnbanTest(h)
  \/ Reply(h)
Export(e) ==
  \/ ExportBegin(e) \/ ExportList(e) \/ ExportOpen(e)
  \/ ExportWrite(e) \/ ExportRename(e) \/ ExportClear(e)

Next ==
  \/ \E h \in Clients : Client(h)
  \/ OtherCommand
  \/ \E e \in Exporters : Export(e)
  \/ StopRequest \/ Exit \/ Crash \/ Restart

Spec == Init /\ [][Next]_vars

-----------------------------------------------------------------------------
(* Properties. *)

(* The type of the daemon's state, of its threads and of the histories. *)
TypeOK ==
  /\ mode \in {"run", "stop", "final", "down"}
  /\ xdp \in BOOLEAN /\ ipset \in BOOLEAN /\ dirty \in BOOLEAN
  /\ file \in Content /\ tmp \in Content
  /\ hpc \in [Clients -> {"idle", "xdp", "ipset", "test", "reply"}]
  /\ cmd \in [Clients -> AllCommands]
  /\ rc \in [Clients -> BOOLEAN]
  /\ epc \in [Exporters -> {"idle", "list", "open", "write", "rename", "clear"}]
  /\ snap \in [Exporters -> Listing]
  /\ fd \in [Exporters -> {"none", "tmp", "file", "gone"}]
  /\ ack \in {"none", "clash", "in", "out"} /\ left \subseteq {"xdp", "ipset"}
  /\ stale \in BOOLEAN /\ mixed \in BOOLEAN

(* The temporary file and the rename keep active_bans.json whole through
   crashes at any step of an export, as long as the two exporters do not
   overlap: no reader and no restart ever sees half a file. *)
FileWhole == ~mixed => file \in Listing

(* No command and no export is under way and none is owed. *)
AtRest ==
  /\ mode = "run" /\ ~dirty
  /\ \A h \in Clients : ~Busy(h)
  /\ \A e \in Exporters : ~Exporting(e)

(* As long as exports do not overlap or fail and no command is marked between
   an export's listing and its clearing, a clean mark means a fresh file,
   across crashes and restarts: the address is listed iff it is in the ipset. *)
FileFresh == AtRest /\ ~stale /\ ~mixed => file = ListingOf(ipset)

(* An acknowledged command that ran alone has its effect until the next one
   begins, although its two kernel entries are changed one by one and each may
   fail: a ban blocks in the XDP map or in the ipset; an unban leaves an entry
   only where its own delete has failed, and in the ipset only where the test
   after the delete has failed too.  A restart undoes it only if the file
   disagreed with the kernel. *)
AckedIsEffective ==
  /\ ack = "in" => xdp \/ ipset
  /\ ack = "out" => (xdp => "xdp" \in left) /\ (ipset => "ipset" \in left)

(* What the repair script's header says of active_bans.json, "summary of the
   ipset": when the daemon is at rest and has nothing left to export, the file
   lists the address iff it is in the ipset. *)
FileIsIpsetSummary == AtRest => file = ListingOf(ipset)
=============================================================================
