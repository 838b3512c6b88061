------------------------------- MODULE IpMap -------------------------------
(***************************************************************************)
(* The address table of log_guardian (ip_map.c): a fixed array of records  *)
(* with open addressing and no lock.  Each record has a state word, 0 for  *)
(* free, 1 for being written and 2 for ready, which is moved by CAS.       *)
(*                                                                         *)
(*   - the parser threads and the main thread look addresses up, create    *)
(*     records, overwrite an old one when the probe length is used up, and *)
(*     go on using the pointer they got: they may ban rec->ip;             *)
(*   - the GC thread evicts records and expires bans.                      *)
(*                                                                         *)
(* Every access of a record that another thread can see is a step.  Of a   *)
(* record's data the model keeps the address, threat_stage >= 2 and        *)
(* banned; the counters and times that choose the OLDEST candidate are     *)
(* abstracted to a choice among the candidates.                            *)
(***************************************************************************)
EXTENDS Integers, FiniteSets

CONSTANTS Threads,   \* parser threads and the main thread
          Ips,       \* addresses
          Capacity,  \* MAP_CAPACITY
          MaxProbe,  \* MAX_PROBE_LEN
          Home,      \* the hash of an address, modulo the capacity
          Blank,     \* an address field of zeros
          Mixed      \* an address field in the middle of a memcpy

ASSUME CapacityAssumption == Capacity \in Nat \ {0}
ASSUME MaxProbeAssumption == MaxProbe \in 1 .. Capacity
ASSUME HomeAssumption == Home \in [Ips -> 0 .. Capacity - 1]
ASSUME FieldAssumption == Blank \notin Ips /\ Mixed \notin Ips /\ Blank # Mixed

Slots == 0 .. Capacity - 1

VARIABLES
  state,    \* rec->state
  ip,       \* rec->ip
  danger,   \* rec->threat_stage >= 2
  banned,   \* rec->banned
  size,     \* m->size
  pc,       \* where each thread is
  key,      \* the address it looks up: entry.ip, or the packet's
  probe,    \* its probe count
  rec,      \* the slot it works on
  steal,    \* it overwrites a record instead of creating one
  gpc,      \* where the GC thread is
  grec,     \* the slot it works on
  evicted   \* history: an eviction has moved a ready record to state 1

record == <<state, ip, danger, banned>>
lookup == <<key, probe, rec, steal>>
gc == <<gpc, grec>>
vars == <<state, ip, danger, banned, size, pc, key, probe, rec, steal,
          gpc, grec, evicted>>

Init ==
  /\ state = [s \in Slots |-> 0]
  /\ ip = [s \in Slots |-> Blank]
  /\ danger = [s \in Slots |-> FALSE]
  /\ banned = [s \in Slots |-> FALSE]
  /\ size = 0
  /\ pc = [t \in Threads |-> "idle"]
  /\ key = [t \in Threads |-> Blank]
  /\ probe = [t \in Threads |-> 0]
  /\ rec = [t \in Threads |-> 0]
  /\ steal = [t \in Threads |-> FALSE]
  /\ gpc = "idle" /\ grec = 0
  /\ evicted = FALSE

Goto(t, p) == pc' = [pc EXCEPT ![t] = p]
Probed(a, n) == (Home[a] + n) % Capacity

(* The thread is done with its line or packet. *)
Leave(t) ==
  /\ Goto(t, "idle")
  /\ probe' = [probe EXCEPT ![t] = 0]
  /\ rec' = [rec EXCEPT ![t] = 0]
  /\ steal' = [steal EXCEPT ![t] = FALSE]
  /\ key' = [key EXCEPT ![t] = Blank]

(* The lookup returns rec. *)
Return(t) ==
  /\ Goto(t, "use")
  /\ probe' = [probe EXCEPT ![t] = 0]
  /\ steal' = [steal EXCEPT ![t] = FALSE]
  /\ UNCHANGED <<key, rec>>

-----------------------------------------------------------------------------
(* ipmap_get_or_create *)

Lookup(t) ==
  /\ pc[t] = "idle"
  /\ \E a \in Ips : /\ key' = [key EXCEPT ![t] = a]
                    /\ rec' = [rec EXCEPT ![t] = Probed(a, 0)]
  /\ Goto(t, "cas")
  /\ UNCHANGED <<record, size, probe, steal, gc, evicted>>

(* The CAS of a free slot to state 1, or the load of a state that is not 0. *)
Reserve(t) ==
  /\ pc[t] = "cas"
  /\ \/ /\ state[rec[t]] = 0
        /\ state' = [state EXCEPT ![rec[t]] = 1]
        /\ Goto(t, "fill")
     \/ /\ state[rec[t]] # 0
        /\ Goto(t, "load")
        /\ UNCHANGED state
  /\ UNCHANGED <<ip, danger, banned, size, lookup, gc, evicted>>

(* The next slot of the probe, or the search for a record to overwrite. *)
NextSlot(t) ==
  /\ probe' = [probe EXCEPT ![t] = @ + 1]
  /\ \/ /\ probe[t] + 1 < MaxProbe
        /\ rec' = [rec EXCEPT ![t] = Probed(key[t], probe[t] + 1)]
        /\ Goto(t, "cas")
     \/ /\ probe[t] + 1 = MaxProbe
        /\ Goto(t, "scan")
        /\ UNCHANGED rec
  /\ UNCHANGED <<key, steal>>

(* Mutant: a slot that is being written is passed over. *)
LoadStateNoWait(t) ==
  /\ pc[t] = "load"
  /\ \/ state[rec[t]] = 2 /\ Goto(t, "compare") /\ UNCHANGED lookup
     \/ state[rec[t]] # 2 /\ NextSlot(t)
  /\ UNCHANGED <<record, size, gc, evicted>>

(* A slot that is being written is waited for.  One that was freed since the
   CAS is passed over. *)
LoadState(t) ==
  /\ pc[t] = "load"
  /\ \/ state[rec[t]] = 2 /\ Goto(t, "compare") /\ UNCHANGED lookup
     \/ state[rec[t]] = 1 /\ Goto(t, "spin") /\ UNCHANGED lookup
     \/ state[rec[t]] = 0 /\ NextSlot(t)
  /\ UNCHANGED <<record, size, gc, evicted>>

(* The wait ends; the state is loaded again after it. *)
SpinEnds(t) ==
  /\ pc[t] = "spin"
  /\ state[rec[t]] # 1
  /\ Goto(t, "reload")
  /\ UNCHANGED <<record, size, lookup, gc, evicted>>

Reload(t) ==
  /\ pc[t] = "reload"
  /\ \/ state[rec[t]] = 2 /\ Goto(t, "compare") /\ UNCHANGED lookup
     \/ state[rec[t]] # 2 /\ NextSlot(t)
  /\ UNCHANGED <<record, size, gc, evicted>>

(* Mutant: strncmp without the test of the terminator, which also accepts an
   address that only begins like the one looked for. *)
ComparePrefix(t) ==
  /\ pc[t] = "compare"
  /\ \/ ip[rec[t]] # Blank /\ Return(t)
     \/ ip[rec[t]] # key[t] /\ NextSlot(t)
  /\ UNCHANGED <<record, size, gc, evicted>>

(* The address is compared after the state was loaded; by now the record may
   be another's, and the field may be read in the middle of a memcpy. *)
Compare(t) ==
  /\ pc[t] = "compare"
  /\ \/ ip[rec[t]] \in {key[t], Mixed} /\ Return(t)
     \/ ip[rec[t]] # key[t] /\ NextSlot(t)
  /\ UNCHANGED <<record, size, gc, evicted>>

(* Records a forced eviction may take: ready, threat_stage < 2. *)
Replaceable(s) == state[s] = 2 /\ ~danger[s]

(* The oldest candidate among the probed slots, as it was when the scan came
   to it, or NULL and the janitor's flag: the slots are visited one by one, so
   that a candidate may appear behind the scan. *)
ScanProbed(t) ==
  /\ pc[t] = "scan"
  /\ \/ \E n \in 0 .. MaxProbe - 1 :
          /\ Replaceable(Probed(key[t], n))
          /\ rec' = [rec EXCEPT ![t] = Probed(key[t], n)]
          /\ Goto(t, "take")
          /\ UNCHANGED <<key, probe, steal>>
     \/ Leave(t)
  /\ UNCHANGED <<record, size, gc, evicted>>

(* The CAS from 2 to 1; threat_stage is not looked at again. *)
Take(t) ==
  /\ pc[t] = "take"
  /\ \/ /\ state[rec[t]] = 2
        /\ state' = [state EXCEPT ![rec[t]] = 1]
        /\ steal' = [steal EXCEPT ![t] = TRUE]
        /\ evicted' = TRUE
        /\ Goto(t, "fill")
        /\ UNCHANGED <<key, probe, rec>>
     \/ /\ state[rec[t]] # 2
        /\ Leave(t)
        /\ UNCHANGED <<state, evicted>>
  /\ UNCHANGED <<ip, danger, banned, size, gc>>

(* The memcpy of the address begins. *)
Fill(t) ==
  /\ pc[t] = "fill"
  /\ ip' = [ip EXCEPT ![rec[t]] = Mixed]
  /\ Goto(t, "label")
  /\ UNCHANGED <<state, danger, banned, size, lookup, gc, evicted>>

(* The address is complete.  A new record is counted; an overwritten one loses
   its stage and keeps banned and ban_until_ts. *)
Label(t) ==
  /\ pc[t] = "label"
  /\ ip' = [ip EXCEPT ![rec[t]] = key[t]]
  /\ \/ /\ ~steal[t]
        /\ size' = size + 1
        /\ UNCHANGED danger
     \/ /\ steal[t]
        /\ danger' = [danger EXCEPT ![rec[t]] = FALSE]
        /\ UNCHANGED size
  /\ Goto(t, "publish")
  /\ UNCHANGED <<state, banned, lookup, gc, evicted>>

Publish(t) ==
  /\ pc[t] = "publish"
  /\ state' = [state EXCEPT ![rec[t]] = 2]
  /\ Return(t)
  /\ UNCHANGED <<ip, danger, banned, size, gc, evicted>>

-----------------------------------------------------------------------------
(* The use of the record that the lookup returned. *)

(* The line or packet gives no reason for a ban, or the flag is set. *)
UseNoBan(t) ==
  /\ pc[t] = "use"
  /\ Leave(t)
  /\ UNCHANGED <<record, size, gc, evicted>>

(* The flag's time is over, or it outlived its block: it is cleared, and the
   work on the line goes on. *)
UseUnflag(t) ==
  /\ pc[t] = "use" /\ banned[rec[t]]
  /\ banned' = [banned EXCEPT ![rec[t]] = FALSE]
  /\ UNCHANGED <<state, ip, danger, size, pc, lookup, gc, evicted>>

(* A trap or a critical alert raises the stage before ban_ip(rec->ip), which
   takes the address from the record. *)
UseRaise(t) ==
  /\ pc[t] = "use" /\ ~banned[rec[t]]
  /\ danger' = [danger EXCEPT ![rec[t]] = TRUE]
  /\ Goto(t, "ban")
  /\ UNCHANGED <<state, ip, banned, size, lookup, gc, evicted>>

(* handle_xdp_packet bans its own copy of the packet's address, whatever the
   outcome, and leaves the stage. *)
UseXdp(t) ==
  /\ pc[t] = "use" /\ ~banned[rec[t]]
  /\ Goto(t, "flag")
  /\ UNCHANGED <<record, size, lookup, gc, evicted>>

(* The ban failed. *)
UseBanFails(t) ==
  /\ pc[t] = "ban"
  /\ Leave(t)
  /\ UNCHANGED <<record, size, gc, evicted>>

(* The ban of the record's address, or of the packet's, is over. *)
UseFlag(t) ==
  /\ pc[t] \in {"ban", "flag"}
  /\ banned' = [banned EXCEPT ![rec[t]] = TRUE]
  /\ Leave(t)
  /\ UNCHANGED <<state, ip, danger, size, gc, evicted>>

-----------------------------------------------------------------------------
(* The GC thread: ipmap_evict_lru and ipmap_expire_bans. *)

GcGoto(p, s) == gpc' = p /\ grec' = s

(* A candidate: ready, neither dangerous nor banned, and not seen for five
   minutes by the time stamps of the log. *)
EvictScan ==
  /\ gpc = "idle"
  /\ \E s \in Slots : /\ state[s] = 2 /\ ~danger[s] /\ ~banned[s]
                      /\ GcGoto("take", s)
  /\ UNCHANGED <<record, size, pc, lookup, evicted>>

(* The CAS from 2 to 1. *)
EvictTake ==
  /\ gpc = "take"
  /\ \/ /\ state[grec] = 2
        /\ state' = [state EXCEPT ![grec] = 1]
        /\ GcGoto("check", grec)
        /\ evicted' = TRUE
     \/ /\ state[grec] # 2
        /\ GcGoto("idle", 0)
        /\ UNCHANGED <<state, evicted>>
  /\ UNCHANGED <<ip, danger, banned, size, pc, lookup>>

(* Mutant: an eviction that is called off leaves the slot in state 1. *)
EvictCheckKeepsSlot ==
  /\ gpc = "check"
  /\ \/ /\ danger[grec] \/ banned[grec]
        /\ GcGoto("idle", 0)
     \/ /\ ~danger[grec] /\ ~banned[grec]
        /\ GcGoto("clear", grec)
  /\ UNCHANGED <<record, size, pc, lookup, evicted>>

(* Stage and flag are looked at again; the eviction may be called off. *)
EvictCheck ==
  /\ gpc = "check"
  /\ \/ /\ danger[grec] \/ banned[grec]
        /\ state' = [state EXCEPT ![grec] = 2]
        /\ GcGoto("idle", 0)
     \/ /\ ~danger[grec] /\ ~banned[grec]
        /\ GcGoto("clear", grec)
        /\ UNCHANGED state
  /\ UNCHANGED <<ip, danger, banned, size, pc, lookup, evicted>>

EvictClear ==
  /\ gpc = "clear"
  /\ ip' = [ip EXCEPT ![grec] = Blank]
  /\ danger' = [danger EXCEPT ![grec] = FALSE]
  /\ banned' = [banned EXCEPT ![grec] = FALSE]
  /\ GcGoto("free", grec)
  /\ UNCHANGED <<state, size, pc, lookup, evicted>>

EvictFree ==
  /\ gpc = "free"
  /\ state' = [state EXCEPT ![grec] = 0]
  /\ GcGoto("count", grec)
  /\ UNCHANGED <<ip, danger, banned, size, pc, lookup, evicted>>

EvictCount ==
  /\ gpc = "count"
  /\ size' = size - 1
  /\ GcGoto("idle", 0)
  /\ UNCHANGED <<record, pc, lookup, evicted>>

(* A ready, flagged record whose deadline has passed: the unban of rec->ip. *)
ExpireUnban ==
  /\ gpc = "idle"
  /\ \E s \in Slots : /\ state[s] = 2 /\ banned[s]
                      /\ GcGoto("unflag", s)
  /\ UNCHANGED <<record, size, pc, lookup, evicted>>

ExpireFlag ==
  /\ gpc = "unflag"
  /\ banned' = [banned EXCEPT ![grec] = FALSE]
  /\ GcGoto("idle", 0)
  /\ UNCHANGED <<state, ip, danger, size, pc, lookup, evicted>>

-----------------------------------------------------------------------------
GetOrCreate(t) ==
  \/ Reserve(t) \/ LoadState(t) \/ SpinEnds(t) \/ Reload(t) \/ Compare(t)
  \/ ScanProbed(t) \/ Take(t) \/ Fill(t) \/ Label(t) \/ Publish(t)
Use(t) ==
  \/ UseNoBan(t) \/ UseUnflag(t) \/ UseRaise(t) \/ UseXdp(t)
  \/ UseBanFails(t) \/ UseFlag(t)
EvictLru == EvictTake \/ EvictCheck \/ EvictClear \/ EvictFree \/ EvictCount

Next ==
  \/ \E t \in Threads : Lookup(t) \/ GetOrCreate(t) \/ Use(t)
  \/ EvictScan \/ EvictLru
  \/ ExpireUnban \/ ExpireFlag

Spec == Init /\ [][Next]_vars

-----------------------------------------------------------------------------
(* Properties. *)

GcSteps == {"idle", "take", "check", "clear", "free", "count", "unflag"}
WriteSteps == {"fill", "label", "publish"}
LookupSteps == {"cas", "load", "spin", "reload", "compare", "scan", "take"} \cup WriteSteps
UseSteps == {"use", "ban", "flag"}

(* The type of the table, of the threads' locals and of the history. *)
TypeOK ==
  /\ state \in [Slots -> 0 .. 2]
  /\ ip \in [Slots -> Ips \cup {Blank, Mixed}]
  /\ danger \in [Slots -> BOOLEAN] /\ banned \in [Slots -> BOOLEAN]
  /\ size \in 0 .. Capacity + 1
  /\ pc \in [Threads -> {"idle"} \cup LookupSteps \cup UseSteps]
  /\ key \in [Threads -> Ips \cup {Blank}]
  /\ probe \in [Threads -> 0 .. MaxProbe]
  /\ rec \in [Threads -> Slots]
  /\ steal \in [Threads -> BOOLEAN]
  /\ gpc \in GcSteps /\ grec \in Slots
  /\ evicted \in BOOLEAN

(* The threads that write the slot s. *)
Writers(s) == {t \in Threads : pc[t] \in WriteSteps /\ rec[t] = s}
GcWrites(s) == gpc \in {"check", "clear", "free"} /\ grec = s

(* The state word is a lock: a slot in state 1 is written by exactly one of
   the creating, overwriting and evicting threads, and no thread writes a slot
   that is free or ready.  No slot is left in state 1, where lookups that meet
   it would wait for ever: its writer is under way and waits for nobody. *)
OneWriter ==
  \A s \in Slots :
    /\ \A t, u \in Writers(s) : t = u
    /\ ~(GcWrites(s) /\ Writers(s) # {})
    /\ state[s] = 1 <=> GcWrites(s) \/ Writers(s) # {}

Ready == {s \in Slots : state[s] = 2}

(* As long as no eviction has claimed a record, threads that race on the same
   free slots never give one address two records.  (An eviction that is called
   off is enough for a second one: a thread that waited for the slot may find
   it claimed again when it reloads the state, and passes it over.) *)
UniqueUnlessEvicted ==
  ~evicted => \A r, s \in Ready : ip[r] = ip[s] => r = s

(* As long as no eviction has claimed a record, the record that a lookup
   returned is that of the address it was asked for, until the thread is done
   with it: no thread takes another's half-written address for its own. *)
OwnRecordUnlessEvicted ==
  ~evicted => \A t \in Threads : pc[t] \in UseSteps => ip[rec[t]] = key[t]

(* What the version counter is there for by its comment, "the ABA problem" of
   an evicted record: a thread that bans rec->ip for a line does not ban an
   address other than the line's. *)
BansOwnAddress ==
  \A t \in Threads : pc[t] = "ban" => ip[rec[t]] \notin Ips \ {key[t]}
=============================================================================
