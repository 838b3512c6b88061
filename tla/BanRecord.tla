----------------------------- MODULE BanRecord -----------------------------
(***************************************************************************)
(* The ban state of ONE address in the analyzer (main.c, ip_map.c,         *)
(* siem_fsm.c): the flag, the deadline and the threat stage of its         *)
(* IpRecord, against the kernel's block list, under every thread of the    *)
(* process that works on it:                                               *)
(*                                                                         *)
(*   - parser threads, each with a log line of the address: the TTL check, *)
(*     the trap URL, the critical alert and its ban under g_tui_mutex;     *)
(*   - the GC thread, which expires bans (ipmap_expire_bans);              *)
(*   - the main thread: XDP packet events and the manual ban key.          *)
(*                                                                         *)
(* Every load and store of the record that another thread can see is a     *)
(* step.  Addresses share nothing but g_tui_mutex, so one is enough.       *)
(*                                                                         *)
(* ban_ip and unban_ip are abstracted to one effect on the block list and  *)
(* a result; an exempt address (whitelist or reserved target) is answered  *)
(* with success and not blocked.  What the kernel is asked may fail and is *)
(* then read as "not blocked", and other parts of the program ban and      *)
(* unban the address without a look at the record: `stray` marks a block   *)
(* in force that the record cannot know of.  Deadlines are abstracted to   *)
(* "running" and "passed", INT_MAX to "perm" and 0 to "none".              *)
(***************************************************************************)
EXTENDS SiemFsm, FiniteSets

CONSTANTS Workers,   \* the parser threads
          Gc, Main,  \* the GC thread and the main thread
          Free       \* nobody holds g_tui_mutex

Threads == Workers \cup {Gc, Main}

ASSUME ThreadAssumption ==
  /\ Gc \notin Workers /\ Main \notin Workers /\ Gc # Main
  /\ Free \notin Threads

VARIABLES
  banned,    \* rec->banned
  until,     \* rec->ban_until_ts
  stage,     \* rec->threat_stage
  blocked,   \* the kernel drops the address
  exempt,    \* ban_pipeline_ban skips the address and answers 0
  allow,     \* g_allow_ban: FALSE under --no-ban
  mutex,     \* the holder of g_tui_mutex
  pc,        \* where each thread is
  next,      \* the local next of siem_update, and whether next > cur
  stray,     \* history: the block in force was made behind the record's back,
             \* or the record was told that it is gone
  noticed,   \* history, up to the first overlap: a ban notice was sent since
             \* the flag was last cleared
  overlapped \* history: a ban and a clearing of the flag were under way at once

record == <<banned, until, stage>>
history == <<noticed, overlapped>>
mode == <<exempt, allow>>
kernel == <<blocked, stray>>
vars == <<banned, until, stage, blocked, stray, exempt, allow, mutex, pc, next,
          noticed, overlapped>>

NoNext == [stage |-> CLEAN, raise |-> FALSE]

(* Steps of a path that clears the flag, and of a path that bans: from the
   load of the record that decides on it, or from the lock, to its last store. *)
ClearSteps == {"ttl_load", "ttl_unban", "ttl_flag", "ttl_until",
               "stale_test", "stale_flag"}
BanSteps == {"trap_stage", "trap_ban", "trap_flag", "trap_until",
             "check", "fsm", "ban", "flag", "until",
             "xdp_ban", "xdp_flag", "xdp_until",
             "key_check", "key_ban", "key_flag", "key_until"}
Steps == {"idle", "trap", "alert", "policy", "lock", "key_lock"}
         \cup ClearSteps \cup BanSteps

Overlap(p) ==
  \E a, b \in Threads : a # b /\ p[a] \in ClearSteps /\ p[b] \in BanSteps

Init ==
  /\ banned = FALSE /\ until = "none" /\ stage = CLEAN
  /\ blocked = FALSE /\ stray = FALSE
  /\ exempt \in BOOLEAN /\ allow \in BOOLEAN
  /\ mutex = Free
  /\ pc = [t \in Threads |-> "idle"]
  /\ next = [w \in Workers |-> NoNext]
  /\ noticed = FALSE /\ overlapped = FALSE

(* Thread t goes on at step s. *)
Goto(t, s) ==
  /\ pc' = [pc EXCEPT ![t] = s]
  /\ overlapped' = (overlapped \/ Overlap(pc'))

(* The parser thread is done with its line. *)
EndLine(w) ==
  /\ next' = [next EXCEPT ![w] = NoNext]
  /\ Goto(w, "idle")

AfterTtl(t) == IF t = Gc THEN "idle" ELSE "trap"

(* The histories of a step. *)
Stray(b) == stray' = b
Noticed(b) == noticed' = (b /\ ~overlapped')
KeepHistory == Stray(stray) /\ Noticed(noticed)

(* The result of ban_ip and its effect on the kernel.  A request that the
   daemon carries out after its caller has given up is an OutsideBan. *)
BanIp(ok) ==
  /\ exempt => ok
  /\ blocked' = (blocked \/ (ok /\ ~exempt))
  /\ Stray(stray /\ ~(ok /\ ~exempt))

Lock(t) == mutex = Free /\ mutex' = t
Unlock(t) == mutex' = Free

-----------------------------------------------------------------------------
(* The environment. *)

(* The clock reaches the deadline of the ban. *)
DeadlinePasses ==
  /\ until = "running"
  /\ until' = "passed"
  /\ UNCHANGED <<banned, stage, kernel, mode, mutex, pc, next, history>>

(* A fleet command, the API, the mesh or a late unban of the daemon clears the
   block; none of them reaches the record. *)
OutsideUnban ==
  /\ blocked
  /\ blocked' = FALSE /\ stray' = FALSE
  /\ UNCHANGED <<record, mode, mutex, pc, next, history>>

(* A fleet command or feed, the API, a threat feed, a JA3 cluster or the mesh
   (which asks the daemon and so bans exempt addresses too) blocks the address,
   or the daemon carries out a ban whose caller has given up. *)
OutsideBan ==
  /\ ~blocked
  /\ blocked' = TRUE /\ stray' = TRUE
  /\ UNCHANGED <<record, mode, mutex, pc, next, history>>

-----------------------------------------------------------------------------
(* The end of a ban's time, seen by a parser thread or by the GC thread. *)

(* Mutant: the deadline is compared the wrong way round. *)
TtlLoadInverted(t) ==
  /\ pc[t] = "ttl_load"
  /\ \/ until \in {"running", "perm"} /\ Goto(t, "ttl_unban")
     \/ until \notin {"running", "perm"} /\ Goto(t, AfterTtl(t))
  /\ KeepHistory
  /\ UNCHANGED <<record, blocked, mode, mutex, next>>

(* until > 0 && ts >= until.  A log line may be older than the clock. *)
TtlLoad(t) ==
  /\ pc[t] = "ttl_load"
  /\ \/ until = "passed" /\ Goto(t, "ttl_unban")
     \/ (t = Gc => until # "passed") /\ Goto(t, AfterTtl(t))
  /\ KeepHistory
  /\ UNCHANGED <<record, blocked, mode, mutex, next>>

(* unban_ip: what the daemon and the map answer is discarded and only the last
   `ipset test` decides.  It fails when the address is still found there; when
   it is not, the block is gone, or in force as an XDP entry, or the test itself
   has failed. *)
TtlUnban(t) ==
  /\ pc[t] = "ttl_unban"
  /\ \/ blocked' = FALSE /\ Goto(t, "ttl_flag") /\ Stray(FALSE)
     \/ blocked /\ blocked' = TRUE /\ Goto(t, "ttl_flag") /\ Stray(TRUE)
     \/ blocked /\ blocked' = TRUE /\ Goto(t, AfterTtl(t)) /\ Stray(stray)
  /\ Noticed(noticed)
  /\ UNCHANGED <<record, mode, mutex, next>>

TtlFlag(t) ==
  /\ pc[t] = "ttl_flag"
  /\ banned' = FALSE
  /\ Goto(t, "ttl_until")
  /\ Noticed(FALSE) /\ Stray(stray)
  /\ UNCHANGED <<until, stage, blocked, mode, mutex, next>>

TtlUntil(t) ==
  /\ pc[t] = "ttl_until"
  /\ until' = "none"
  /\ Goto(t, AfterTtl(t))
  /\ KeepHistory
  /\ UNCHANGED <<banned, stage, blocked, mode, mutex, next>>

(* ipmap_expire_bans reaches the record and finds it banned. *)
GcScan ==
  /\ pc[Gc] = "idle" /\ allow /\ banned
  /\ Goto(Gc, "ttl_load")
  /\ KeepHistory
  /\ UNCHANGED <<record, blocked, mode, mutex, next>>

-----------------------------------------------------------------------------
(* A parser thread with a line of the address. *)

(* The line is parsed; the TTL check begins with the load of banned. *)
StartLine(w) ==
  /\ pc[w] = "idle"
  /\ Goto(w, IF allow /\ banned THEN "ttl_load" ELSE "trap")
  /\ KeepHistory
  /\ UNCHANGED <<record, blocked, mode, mutex, next>>

(* The whitelist ends the work on a line; a trap URL looks at banned. *)
Trap(w) ==
  /\ pc[w] = "trap"
  /\ \/ exempt /\ Goto(w, "idle")
     \/ ~banned /\ Goto(w, "trap_stage")
     \/ Goto(w, "alert")
  /\ KeepHistory
  /\ UNCHANGED <<record, blocked, mode, mutex, next>>

TrapStage(w) ==
  /\ pc[w] = "trap_stage"
  /\ stage' = PERSISTENT
  /\ Goto(w, "trap_ban")
  /\ KeepHistory
  /\ UNCHANGED <<banned, until, blocked, mode, mutex, next>>

TrapBan(w) ==
  /\ pc[w] = "trap_ban"
  /\ \E ok \in BOOLEAN : /\ Goto(w, IF ok THEN "trap_flag" ELSE "alert")
                         /\ BanIp(ok)
  /\ Noticed(noticed)
  /\ UNCHANGED <<record, mode, mutex, next>>

TrapFlag(w) ==
  /\ pc[w] = "trap_flag"
  /\ banned' = TRUE
  /\ Goto(w, "trap_until")
  /\ KeepHistory
  /\ UNCHANGED <<until, stage, blocked, mode, mutex, next>>

(* The deadline INT_MAX, and the alert that announces a permanent ban. *)
TrapUntil(w) ==
  /\ pc[w] = "trap_until"
  /\ until' = "perm"
  /\ Goto(w, "alert")
  /\ KeepHistory
  /\ UNCHANGED <<banned, stage, blocked, mode, mutex, next>>

(* A critical alert looks for a flag that outlived its block. *)
AlertBegin(w) ==
  /\ pc[w] = "alert"
  /\ \/ Goto(w, "idle")
     \/ Goto(w, IF banned THEN "stale_test" ELSE "policy")
  /\ KeepHistory
  /\ UNCHANGED <<record, blocked, mode, mutex, next>>

(* ip_is_blocked: anything but a found member of the ipset reads as "not
   blocked", an XDP entry and a test that could not run too. *)
StaleTest(w) ==
  /\ pc[w] = "stale_test"
  /\ \/ blocked /\ Goto(w, "policy") /\ Stray(stray)
     \/ Goto(w, "stale_flag") /\ Stray(blocked)
  /\ Noticed(noticed)
  /\ UNCHANGED <<record, blocked, mode, mutex, next>>

StaleFlag(w) ==
  /\ pc[w] = "stale_flag"
  /\ banned' = FALSE
  /\ Goto(w, "policy")
  /\ Noticed(FALSE) /\ Stray(stray)
  /\ UNCHANGED <<until, stage, blocked, mode, mutex, next>>

(* ban_policy_should_auto_ban decides either way; then banned is read. *)
Policy(w) ==
  /\ pc[w] = "policy"
  /\ \/ allow /\ ~banned /\ Goto(w, "lock")
     \/ Goto(w, "idle")
  /\ KeepHistory
  /\ UNCHANGED <<record, blocked, mode, mutex, next>>

AlertLock(w) ==
  /\ pc[w] = "lock"
  /\ Lock(w) /\ Goto(w, "check")
  /\ KeepHistory
  /\ UNCHANGED <<record, blocked, mode, next>>

(* Mutant: banned is not read again under the lock. *)
AlertCheckOnce(w) ==
  /\ pc[w] = "check"
  /\ \E kind \in CritKinds :
       LET n == NextStage(stage, kind)
       IN  next' = [next EXCEPT ![w] = [stage |-> n, raise |-> n > stage]]
  /\ Goto(w, "fsm")
  /\ KeepHistory
  /\ UNCHANGED <<record, blocked, mode, mutex>>

(* banned is read again under the lock; siem_update loads the stage. *)
AlertCheck(w) ==
  /\ pc[w] = "check"
  /\ \/ banned /\ Unlock(w) /\ EndLine(w)
     \/ /\ ~banned
        /\ \E kind \in CritKinds :
             LET n == NextStage(stage, kind)
             IN  next' = [next EXCEPT ![w] = [stage |-> n, raise |-> n > stage]]
        /\ Goto(w, "fsm")
        /\ UNCHANGED mutex
  /\ KeepHistory
  /\ UNCHANGED <<record, blocked, mode>>

(* siem_update stores a stage higher than the one it has loaded, over
   whatever the stage is by now. *)
AlertStage(w) ==
  /\ pc[w] = "fsm"
  /\ stage' = IF next[w].raise THEN next[w].stage ELSE stage
  /\ next' = [next EXCEPT ![w].raise = FALSE]
  /\ Goto(w, "ban")
  /\ KeepHistory
  /\ UNCHANGED <<banned, until, blocked, mode, mutex>>

AlertBan(w) ==
  /\ pc[w] = "ban"
  /\ \/ Goto(w, "flag") /\ BanIp(TRUE) /\ UNCHANGED <<mutex, next>>
     \/ EndLine(w) /\ BanIp(FALSE) /\ Unlock(w)
  /\ Noticed(noticed)
  /\ UNCHANGED <<record, mode>>

AlertFlag(w) ==
  /\ pc[w] = "flag"
  /\ banned' = TRUE
  /\ Goto(w, "until")
  /\ KeepHistory
  /\ UNCHANGED <<until, stage, blocked, mode, mutex, next>>

(* Mutant: a permanent ban leaves the deadline at 0. *)
AlertUntilNoDeadline(w) ==
  /\ pc[w] = "until"
  /\ until' = IF TtlFactor(next[w].stage) = 0 THEN "none" ELSE "running"
  /\ Unlock(w) /\ EndLine(w)
  /\ Noticed(TRUE) /\ Stray(stray)
  /\ UNCHANGED <<banned, stage, blocked, mode>>

(* The deadline by the stage siem_update computed, then the ban's webhook,
   audit and database notice, and the unlock. *)
AlertUntil(w) ==
  /\ pc[w] = "until"
  /\ until' = IF TtlFactor(next[w].stage) = 0 THEN "perm" ELSE "running"
  /\ Unlock(w) /\ EndLine(w)
  /\ Noticed(TRUE) /\ Stray(stray)
  /\ UNCHANGED <<banned, stage, blocked, mode>>

-----------------------------------------------------------------------------
(* The main thread. *)

(* handle_xdp_packet: a payload or a TLS fingerprint of an unflagged record. *)
XdpEvent ==
  /\ pc[Main] = "idle" /\ ~banned
  /\ Goto(Main, "xdp_ban")
  /\ KeepHistory
  /\ UNCHANGED <<record, blocked, mode, mutex, next>>

(* The result of ban_ip is ignored here. *)
XdpBan ==
  /\ pc[Main] = "xdp_ban"
  /\ Goto(Main, "xdp_flag")
  /\ \E ok \in BOOLEAN : BanIp(ok)
  /\ Noticed(noticed)
  /\ UNCHANGED <<record, mode, mutex, next>>

XdpFlag ==
  /\ pc[Main] = "xdp_flag"
  /\ banned' = TRUE
  /\ Goto(Main, "xdp_until")
  /\ KeepHistory
  /\ UNCHANGED <<until, stage, blocked, mode, mutex, next>>

XdpUntil ==
  /\ pc[Main] = "xdp_until"
  /\ until' = "running"
  /\ Goto(Main, "idle")
  /\ KeepHistory
  /\ UNCHANGED <<banned, stage, blocked, mode, mutex, next>>

(* manual_ban_top_ip: the b key with this address at the top of the heap. *)
KeyPressed ==
  /\ pc[Main] = "idle" /\ allow /\ ~banned
  /\ Goto(Main, "key_lock")
  /\ KeepHistory
  /\ UNCHANGED <<record, blocked, mode, mutex, next>>

KeyLock ==
  /\ pc[Main] = "key_lock"
  /\ Lock(Main) /\ Goto(Main, "key_check")
  /\ KeepHistory
  /\ UNCHANGED <<record, blocked, mode, next>>

KeyCheck ==
  /\ pc[Main] = "key_check"
  /\ \/ banned /\ Unlock(Main) /\ Goto(Main, "idle")
     \/ ~banned /\ Goto(Main, "key_ban") /\ UNCHANGED mutex
  /\ KeepHistory
  /\ UNCHANGED <<record, blocked, mode, next>>

KeyBan ==
  /\ pc[Main] = "key_ban"
  /\ \/ Goto(Main, "key_flag") /\ BanIp(TRUE) /\ UNCHANGED mutex
     \/ Goto(Main, "idle") /\ BanIp(FALSE) /\ Unlock(Main)
  /\ Noticed(noticed)
  /\ UNCHANGED <<record, mode, next>>

KeyFlag ==
  /\ pc[Main] = "key_flag"
  /\ banned' = TRUE
  /\ Goto(Main, "key_until")
  /\ KeepHistory
  /\ UNCHANGED <<until, stage, blocked, mode, mutex, next>>

KeyUntil ==
  /\ pc[Main] = "key_until"
  /\ until' = "running"
  /\ Unlock(Main) /\ Goto(Main, "idle")
  /\ KeepHistory
  /\ UNCHANGED <<banned, stage, blocked, mode, next>>

-----------------------------------------------------------------------------
Ttl(t) == TtlLoad(t) \/ TtlUnban(t) \/ TtlFlag(t) \/ TtlUntil(t)
OnTrap(w) == Trap(w) \/ TrapStage(w) \/ TrapBan(w) \/ TrapFlag(w) \/ TrapUntil(w)
OnAlert(w) ==
  \/ AlertBegin(w) \/ StaleTest(w) \/ StaleFlag(w) \/ Policy(w) \/ AlertLock(w)
  \/ AlertCheck(w) \/ AlertStage(w) \/ AlertBan(w) \/ AlertFlag(w) \/ AlertUntil(w)
OnXdp == XdpBan \/ XdpFlag \/ XdpUntil
OnKey == KeyLock \/ KeyCheck \/ KeyBan \/ KeyFlag \/ KeyUntil

Next ==
  \/ DeadlinePasses \/ OutsideUnban \/ OutsideBan
  \/ \E w \in Workers : StartLine(w) \/ Ttl(w) \/ OnTrap(w) \/ OnAlert(w)
  \/ GcScan \/ Ttl(Gc)
  \/ XdpEvent \/ OnXdp
  \/ KeyPressed \/ OnKey

Spec == Init /\ [][Next]_vars

(* The GC thread keeps scanning, and an unban that it keeps trying succeeds in
   the end.  Nothing is asked of the log, the network or the operator. *)
GcSteps == GcScan \/ TtlLoad(Gc) \/ TtlFlag(Gc) \/ TtlUntil(Gc)
UnbanSucceeds == TtlUnban(Gc) /\ pc'[Gc] = "ttl_flag"
FairSpec == Spec /\ WF_vars(GcSteps) /\ WF_vars(TtlUnban(Gc)) /\ SF_vars(UnbanSucceeds)

-----------------------------------------------------------------------------
(* Properties. *)

(* The type of the record, of the threads and of the histories. *)
TypeOK ==
  /\ banned \in BOOLEAN /\ blocked \in BOOLEAN /\ stray \in BOOLEAN
  /\ until \in {"none", "running", "passed", "perm"}
  /\ stage \in Stages
  /\ exempt \in BOOLEAN /\ allow \in BOOLEAN
  /\ mutex \in Threads \cup {Free}
  /\ pc \in [Threads -> Steps]
  /\ next \in [Workers -> [stage : Stages, raise : BOOLEAN]]
  /\ noticed \in BOOLEAN /\ overlapped \in BOOLEAN

AllIdle == \A t \in Threads : pc[t] = "idle"

(* The kernel's block is accounted for by the record: its flag is set, so that
   a scan finds it, and it has a deadline. *)
Tracked == blocked => banned /\ until # "none"

(* The analyzer forgets no block of its own: as long as no path that clears the
   flag has overlapped one that bans, whatever the trap, the alerts, the XDP
   events and the key do to one another and whatever others ban and unban,
   whenever all the threads are done with the address, a blocked address is
   flagged and has a deadline.  Excepted are blocks made behind the record's
   back and not made again by the analyzer since, and those that a test or an
   unban has told it are gone. *)
TrackedUnlessOverlap == AllIdle /\ ~overlapped /\ ~stray => Tracked

(* Under the same condition, parser threads that race on alerts of the address
   send one ban notice: a second one needs the flag to be cleared first. *)
OneNoticePerBan ==
  [][\A w \in Workers : AlertUntil(w) /\ ~overlapped => ~noticed]_vars

(* A flagged record whose deadline has passed does not stay so: the GC thread
   clears it, however often a ban interferes with its scan. *)
PassedBanIsCleared ==
  (allow /\ banned /\ until = "passed") ~> ~(banned /\ until = "passed")

(* What the usage text says of --ban-ttl-sec, "automatic unban at the end of
   the time": a block that the analyzer has made and was not told is gone is
   flagged and has a deadline once no thread is working on the address, so that
   the end of its time can be noticed. *)
BlockHasDeadline == AllIdle /\ ~stray => Tracked

(* What the trap's comment and its alert announce, an immediate permanent ban:
   the deadline INT_MAX of a blocked address is not replaced by another one. *)
TrapBanIsPermanent == [][until = "perm" => until' = "perm" \/ ~blocked]_vars
=============================================================================
