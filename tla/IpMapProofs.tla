---------------------------- MODULE IpMapProofs ----------------------------
(***************************************************************************)
(* The state word of a record is a lock, and until the first eviction      *)
(* lookups return the record they were asked for and no address has two:   *)
(* for every number of threads, of addresses and of slots, and every hash  *)
(* function.                                                               *)
(*                                                                         *)
(* OneWriter is inductive once the shape of the variables it reads is      *)
(* known.  Every step into a writing step is a CAS from 0 or 2 to 1, which *)
(* by OneWriter nobody else can be writing behind; every step out of one   *)
(* stores 0 or 2; and the other steps move no writer and no state word.    *)
(***************************************************************************)
EXTENDS IpMap, TLAPS

Shape ==
  /\ state \in [Slots -> 0 .. 2]
  /\ pc \in [Threads -> {"idle"} \cup LookupSteps \cup UseSteps]
  /\ key \in [Threads -> Ips \cup {Blank}]
  /\ \A t \in Threads : pc[t] \in LookupSteps => key[t] \in Ips
  /\ probe \in [Threads -> Nat]
  /\ rec \in [Threads -> Slots]
  /\ ip \in [Slots -> Ips \cup {Blank, Mixed}]
  /\ gpc \in GcSteps /\ grec \in Slots

(* Before the first eviction a ready record stays ready and keeps a complete
   address; whoever holds one has found it ready. *)
Settled ==
  ~evicted =>
    /\ gpc \notin {"check", "clear", "free"}
    /\ \A s \in Slots : state[s] = 2 => ip[s] \in Ips
    /\ \A t \in Threads : pc[t] \in {"compare"} \cup UseSteps => state[rec[t]] = 2
    /\ \A t \in Threads : pc[t] = "publish" => ip[rec[t]] = key[t]

IInv == Shape /\ OneWriter /\ Settled /\ OwnRecordUnlessEvicted

(* A probed slot is a slot of the table. *)
LEMMA ProbedType == \A a \in Ips, n \in Nat : Probed(a, n) \in Slots
  BY CapacityAssumption, HomeAssumption DEF Probed, Slots

(* The table has a first slot. *)
LEMMA ZeroIsSlot == 0 \in Slots
  BY CapacityAssumption DEF Slots

(* The table starts empty and nobody writes. *)
LEMMA InitIInv == Init => IInv
  BY ZeroIsSlot
     DEF Init, IInv, Shape, Settled, OwnRecordUnlessEvicted, OneWriter, Writers, GcWrites, WriteSteps, LookupSteps,
         UseSteps, GcSteps

USE DEF WriteSteps, LookupSteps, UseSteps, GcSteps

(* Every step keeps the shape. *)
LEMMA StepShape == IInv /\ [Next]_vars => Shape'
<1> SUFFICES ASSUME IInv, [Next]_vars PROVE Shape'
  OBVIOUS
<1> USE DEF IInv, Shape, record, lookup, gc
<1>1. ASSUME NEW t \in Threads, Lookup(t) PROVE Shape'
  BY <1>1, ProbedType DEF Lookup, Goto
<1>2. ASSUME NEW t \in Threads, Reserve(t) PROVE Shape'
  BY <1>2 DEF Reserve, Goto
<1>3. ASSUME NEW t \in Threads, pc[t] \in LookupSteps, NextSlot(t),
             UNCHANGED <<record, gc>>
      PROVE  Shape'
  <2>1. Probed(key[t], probe[t] + 1) \in Slots
    BY <1>3, ProbedType
  <2> QED BY <1>3, <2>1 DEF NextSlot, Goto
<1>4. ASSUME NEW t \in Threads, Leave(t), UNCHANGED <<record, gc>>
      PROVE  Shape'
  BY <1>4, ZeroIsSlot DEF Leave, Goto
<1>5. ASSUME NEW t \in Threads, Return(t), UNCHANGED <<record, gc>>
      PROVE  Shape'
  BY <1>5 DEF Return, Goto
<1>6. ASSUME NEW t \in Threads, LoadState(t) PROVE Shape'
  <2>1. CASE NextSlot(t)
    BY <1>6, <2>1, <1>3 DEF LoadState
  <2>2. CASE ~NextSlot(t)
    BY <1>6, <2>2 DEF LoadState, Goto
  <2> QED BY <2>1, <2>2
<1>7. ASSUME NEW t \in Threads, SpinEnds(t) PROVE Shape'
  BY <1>7 DEF SpinEnds, Goto
<1>8. ASSUME NEW t \in Threads, Reload(t) PROVE Shape'
  <2>1. CASE NextSlot(t)
    BY <1>8, <2>1, <1>3 DEF Reload
  <2>2. CASE ~NextSlot(t)
    BY <1>8, <2>2 DEF Reload, Goto
  <2> QED BY <2>1, <2>2
<1>9. ASSUME NEW t \in Threads, Compare(t) PROVE Shape'
  <2>1. CASE NextSlot(t)
    BY <1>9, <2>1, <1>3 DEF Compare
  <2>2. CASE Return(t)
    BY <1>9, <2>2, <1>5 DEF Compare
  <2> QED BY <1>9, <2>1, <2>2 DEF Compare
<1>10. ASSUME NEW t \in Threads, ScanProbed(t) PROVE Shape'
  <2>1. CASE Leave(t)
    BY <1>10, <2>1, <1>4 DEF ScanProbed
  <2>2. CASE ~Leave(t)
    <3>1. PICK n \in 0 .. MaxProbe - 1 :
            /\ rec' = [rec EXCEPT ![t] = Probed(key[t], n)]
            /\ Goto(t, "take")
            /\ UNCHANGED <<key, probe, steal>>
      BY <1>10, <2>2 DEF ScanProbed
    <3>2. Probed(key[t], n) \in Slots
      BY <1>10, ProbedType, MaxProbeAssumption DEF ScanProbed
    <3> QED BY <1>10, <3>1, <3>2 DEF ScanProbed, Goto
  <2> QED BY <2>1, <2>2
<1>11. ASSUME NEW t \in Threads, Take(t) PROVE Shape'
  BY <1>11, ZeroIsSlot DEF Take, Leave, Goto
<1>12. ASSUME NEW t \in Threads, Fill(t) PROVE Shape'
  BY <1>12 DEF Fill, Goto
<1>13. ASSUME NEW t \in Threads, Label(t) PROVE Shape'
  BY <1>13 DEF Label, Goto
<1>14. ASSUME NEW t \in Threads, Publish(t) PROVE Shape'
  BY <1>14 DEF Publish, Return, Goto
<1>15. ASSUME NEW t \in Threads, Use(t) PROVE Shape'
  BY <1>15, ZeroIsSlot
     DEF Use, UseNoBan, UseUnflag, UseRaise, UseXdp, UseBanFails, UseFlag, Leave, Goto
<1>16. CASE EvictScan \/ EvictLru \/ ExpireUnban \/ ExpireFlag
  BY <1>16, ZeroIsSlot
     DEF EvictScan, EvictLru, EvictTake, EvictCheck, EvictClear, EvictFree,
         EvictCount, ExpireUnban, ExpireFlag, GcGoto
<1>17. CASE UNCHANGED vars
  BY <1>17 DEF vars
<1> QED
  BY <1>1, <1>2, <1>6, <1>7, <1>8, <1>9, <1>10, <1>11, <1>12, <1>13, <1>14,
     <1>15, <1>16, <1>17 DEF Next, GetOrCreate

(* Every step keeps each slot with one writer or none. *)
LEMMA StepOneWriter == IInv /\ [Next]_vars => OneWriter'
<1> SUFFICES ASSUME IInv, [Next]_vars PROVE OneWriter'
  OBVIOUS
<1> USE DEF IInv, Shape, OneWriter, Writers, GcWrites, record, lookup, gc
<1>0. Shape'
  BY StepShape
(* A thread that neither was nor becomes a writer. *)
<1>1. ASSUME NEW t \in Threads, pc[t] \notin WriteSteps,
             pc' = [pc EXCEPT ![t] = pc'[t]], pc'[t] \notin WriteSteps,
             \A u \in Threads \ {t} : rec'[u] = rec[u],
             UNCHANGED <<state, gpc, grec>>
      PROVE  OneWriter'
  BY <1>1, <1>0
<1>2. ASSUME NEW t \in Threads, Lookup(t) PROVE OneWriter'
  BY <1>2, <1>1 DEF Lookup, Goto
<1>3. ASSUME NEW t \in Threads, Reserve(t) PROVE OneWriter'
  <2>1. CASE state[rec[t]] = 0
    BY <1>3, <1>0, <2>1 DEF Reserve, Goto
  <2>2. CASE state[rec[t]] # 0
    BY <1>3, <1>1, <2>2 DEF Reserve, Goto
  <2> QED BY <2>1, <2>2
<1>4. ASSUME NEW t \in Threads, LoadState(t) \/ SpinEnds(t) \/ Reload(t) \/ Compare(t)
      PROVE  OneWriter'
  BY <1>4, <1>1 DEF LoadState, SpinEnds, Reload, Compare, NextSlot, Return, Goto
<1>5. ASSUME NEW t \in Threads, ScanProbed(t) PROVE OneWriter'
  BY <1>5, <1>1 DEF ScanProbed, Leave, Goto
<1>6. ASSUME NEW t \in Threads, Take(t) PROVE OneWriter'
  <2>1. CASE state[rec[t]] = 2
    BY <1>6, <1>0, <2>1 DEF Take, Goto
  <2>2. CASE state[rec[t]] # 2
    BY <1>6, <1>1, <2>2 DEF Take, Leave, Goto
  <2> QED BY <2>1, <2>2
<1>7. ASSUME NEW t \in Threads, Fill(t) \/ Label(t) PROVE OneWriter'
  BY <1>7, <1>0 DEF Fill, Label, Goto
<1>8. ASSUME NEW t \in Threads, Publish(t) PROVE OneWriter'
  BY <1>8, <1>0 DEF Publish, Return, Goto
<1>9. ASSUME NEW t \in Threads, Use(t) PROVE OneWriter'
  BY <1>9, <1>1
     DEF Use, UseNoBan, UseUnflag, UseRaise, UseXdp, UseBanFails, UseFlag, Leave, Goto
<1>10. CASE EvictScan \/ EvictClear \/ EvictCount \/ ExpireUnban \/ ExpireFlag
  BY <1>10, <1>0 DEF EvictScan, EvictClear, EvictCount, ExpireUnban, ExpireFlag, GcGoto
<1>11. CASE EvictTake
  BY <1>11, <1>0 DEF EvictTake, GcGoto
<1>12. CASE EvictCheck
  BY <1>12, <1>0 DEF EvictCheck, GcGoto
<1>13. CASE EvictFree
  BY <1>13, <1>0 DEF EvictFree, GcGoto
<1>14. CASE UNCHANGED vars
  BY <1>14 DEF vars
<1> QED
  BY <1>2, <1>3, <1>4, <1>5, <1>6, <1>7, <1>8, <1>9, <1>10, <1>11, <1>12, <1>13,
     <1>14 DEF Next, GetOrCreate, EvictLru

(* Every step but a CAS from 2 to 1 keeps the records of the addresses. *)
LEMMA StepSettled == IInv /\ [Next]_vars => Settled' /\ OwnRecordUnlessEvicted'
<1> SUFFICES ASSUME IInv, [Next]_vars, ~evicted'
             PROVE  Settled' /\ OwnRecordUnlessEvicted'
  BY DEF Settled, OwnRecordUnlessEvicted
<1> USE FieldAssumption
    DEF IInv, Shape, Settled, OwnRecordUnlessEvicted, record, lookup, gc
<1>0. Shape' /\ OneWriter'
  BY StepShape, StepOneWriter DEF IInv
<1>1. ~evicted
  BY DEF Next, GetOrCreate, Use, EvictLru, vars, Lookup, Reserve, LoadState, SpinEnds,
         Reload, Compare, ScanProbed, Take, Fill, Label, Publish, UseNoBan, UseUnflag,
         UseRaise, UseXdp, UseBanFails, UseFlag, EvictScan, EvictTake, EvictCheck,
         EvictClear, EvictFree, EvictCount, ExpireUnban, ExpireFlag
(* A thread that moves on without touching state words and addresses. *)
<1>2. ASSUME NEW t \in Threads, pc' = [pc EXCEPT ![t] = pc'[t]],
             pc'[t] \notin {"compare", "publish"} \cup UseSteps,
             \A u \in Threads \ {t} : rec'[u] = rec[u] /\ key'[u] = key[u],
             UNCHANGED <<state, ip, gpc>>
      PROVE  Settled' /\ OwnRecordUnlessEvicted'
  BY <1>0, <1>1, <1>2
<1>3. ASSUME NEW t \in Threads, Lookup(t) PROVE Settled' /\ OwnRecordUnlessEvicted'
  BY <1>2, <1>3 DEF Lookup, Goto
<1>4. ASSUME NEW t \in Threads, Reserve(t) PROVE Settled' /\ OwnRecordUnlessEvicted'
  BY <1>0, <1>1, <1>4 DEF Reserve, Goto
<1>5. ASSUME NEW t \in Threads, LoadState(t) \/ Reload(t)
      PROVE  Settled' /\ OwnRecordUnlessEvicted'
  <2>1. CASE NextSlot(t)
    BY <1>2, <1>5, <2>1 DEF LoadState, Reload, NextSlot, Goto
  <2>2. CASE ~NextSlot(t)
    BY <1>0, <1>1, <1>5, <2>2 DEF LoadState, Reload, Goto
  <2> QED BY <2>1, <2>2
<1>6. ASSUME NEW t \in Threads, SpinEnds(t) PROVE Settled' /\ OwnRecordUnlessEvicted'
  BY <1>2, <1>6 DEF SpinEnds, Goto
<1>7. ASSUME NEW t \in Threads, Compare(t) PROVE Settled' /\ OwnRecordUnlessEvicted'
  <2>1. CASE NextSlot(t)
    BY <1>2, <1>7, <2>1 DEF Compare, NextSlot, Goto
  <2>2. CASE Return(t) /\ ip[rec[t]] \in {key[t], Mixed}
    <3>1. ip[rec[t]] = key[t]
      BY <1>1, <1>7, <2>2 DEF Compare
    <3> QED BY <1>0, <1>1, <1>7, <2>2, <3>1 DEF Compare, Return, Goto
  <2> QED BY <1>7, <2>1, <2>2 DEF Compare
<1>8. ASSUME NEW t \in Threads, ScanProbed(t) PROVE Settled' /\ OwnRecordUnlessEvicted'
  BY <1>2, <1>8 DEF ScanProbed, Leave, Goto
<1>9. ASSUME NEW t \in Threads, Take(t) PROVE Settled' /\ OwnRecordUnlessEvicted'
  BY <1>1, <1>2, <1>9 DEF Take, Leave, Goto
<1>10. ASSUME NEW t \in Threads, Fill(t) PROVE Settled' /\ OwnRecordUnlessEvicted'
  BY <1>0, <1>1, <1>10 DEF Fill, Goto, OneWriter, Writers
<1>11. ASSUME NEW t \in Threads, Label(t) PROVE Settled' /\ OwnRecordUnlessEvicted'
  BY <1>0, <1>1, <1>11 DEF Label, Goto, OneWriter, Writers
<1>12. ASSUME NEW t \in Threads, Publish(t) PROVE Settled' /\ OwnRecordUnlessEvicted'
  BY <1>0, <1>1, <1>12 DEF Publish, Return, Goto
<1>13. ASSUME NEW t \in Threads, Use(t) PROVE Settled' /\ OwnRecordUnlessEvicted'
  BY <1>0, <1>1, <1>13
     DEF Use, UseNoBan, UseUnflag, UseRaise, UseXdp, UseBanFails, UseFlag, Leave, Goto
<1>14. CASE EvictScan \/ EvictLru \/ ExpireUnban \/ ExpireFlag
  BY <1>0, <1>1, <1>14
     DEF EvictScan, EvictLru, EvictTake, EvictCheck, EvictClear, EvictFree,
         EvictCount, ExpireUnban, ExpireFlag, GcGoto
<1>15. CASE UNCHANGED vars
  BY <1>1, <1>15 DEF vars
<1> QED
  BY <1>3, <1>4, <1>5, <1>6, <1>7, <1>8, <1>9, <1>10, <1>11, <1>12, <1>13, <1>14,
     <1>15 DEF Next, GetOrCreate

(* The shape, the lock discipline and what holds before the first eviction are
   an inductive invariant of the table. *)
THEOREM TableInductive == Spec => []IInv
<1>1. IInv /\ [Next]_vars => IInv'
  BY StepShape, StepOneWriter, StepSettled DEF IInv
<1> QED BY InitIInv, <1>1, PTL DEF Spec

(* However many threads create, overwrite, evict and expire records at once, a
   slot in state 1 has exactly one writer, and no other slot has any. *)
THEOREM StateWordIsALock == Spec => []OneWriter
<1>1. IInv => OneWriter
  BY DEF IInv
<1> QED BY TableInductive, <1>1, PTL

(* Until an eviction claims a record, every thread works on the record of the
   address it looked up, although records are published, compared and used
   without a lock. *)
THEOREM LookupsReturnOwnRecord == Spec => []OwnRecordUnlessEvicted
<1>1. IInv => OwnRecordUnlessEvicted
  BY DEF IInv
<1> QED BY TableInductive, <1>1, PTL

-----------------------------------------------------------------------------
(* No address has two records before the first eviction.  The table knows the
   order in which each address is probed, and nothing is ever taken out of it:
   the slots that a lookup has passed by are ready with other addresses and
   stay so.  A lookup therefore reserves the first slot of its probe that is
   not another's, and a second lookup of that address stops at the same one. *)

PassedBy(a, m) == state[Probed(a, m)] = 2 /\ ip[Probed(a, m)] # a

(* What a lookup that is at probe[t] has seen on its way. *)
Walked(t) ==
  /\ pc[t] \in LookupSteps => \A m \in Nat : m < probe[t] => PassedBy(key[t], m)
  /\ pc[t] \in LookupSteps \ {"scan", "take"} => rec[t] = Probed(key[t], probe[t])
  /\ pc[t] \in {"load", "spin"} => state[rec[t]] # 0
  /\ pc[t] = "reload" => state[rec[t]] = 2

Walk ==
  /\ \A t \in Threads : pc[t] \notin LookupSteps => probe[t] = 0
  /\ ~evicted => \A t \in Threads : Walked(t)

(* A ready record is where the probe of its address finds it first. *)
Placed ==
  ~evicted =>
    \A s \in Slots : state[s] = 2 =>
      \E n \in Nat : s = Probed(ip[s], n) /\ \A m \in Nat : m < n => PassedBy(ip[s], m)

ProbeInv == IInv /\ Walk /\ Placed

(* The first probe of an empty table has passed nothing by. *)
LEMMA InitProbeInv == Init => ProbeInv
<1> SUFFICES ASSUME Init PROVE ProbeInv
  OBVIOUS
<1>1. IInv
  BY InitIInv
<1>2. Walk
  BY DEF Init, Walk, Walked
<1>3. Placed
  BY DEF Init, Placed
<1> QED BY <1>1, <1>2, <1>3 DEF ProbeInv

(* Until an eviction claims a record, a ready record keeps its state and its
   address, and a slot that is taken is not freed. *)
LEMMA NothingTakenOut ==
  IInv /\ [Next]_vars /\ ~evicted' =>
    /\ ~evicted
    /\ \A s \in Slots : state[s] = 2 => state'[s] = 2 /\ ip'[s] = ip[s]
    /\ \A s \in Slots : state[s] # 0 => state'[s] # 0
<1> SUFFICES ASSUME IInv, [Next]_vars, ~evicted'
             PROVE  /\ ~evicted
                    /\ \A s \in Slots : state[s] = 2 => state'[s] = 2 /\ ip'[s] = ip[s]
                    /\ \A s \in Slots : state[s] # 0 => state'[s] # 0
  OBVIOUS
<1> USE DEF IInv, Shape, record, lookup, gc
<1>1. ~evicted
  BY DEF Next, GetOrCreate, Use, EvictLru, vars, Lookup, Reserve, LoadState, SpinEnds,
         Reload, Compare, ScanProbed, Take, Fill, Label, Publish, UseNoBan, UseUnflag,
         UseRaise, UseXdp, UseBanFails, UseFlag, EvictScan, EvictTake, EvictCheck,
         EvictClear, EvictFree, EvictCount, ExpireUnban, ExpireFlag
<1>2. CASE UNCHANGED <<state, ip>>
  BY <1>1, <1>2
<1>3. ASSUME NEW t \in Threads, Reserve(t) \/ Publish(t)
      PROVE  \A s \in Slots : /\ state[s] = 2 => state'[s] = 2 /\ ip'[s] = ip[s]
                              /\ state[s] # 0 => state'[s] # 0
  BY <1>3 DEF Reserve, Publish
<1>4. ASSUME NEW t \in Threads, Fill(t) \/ Label(t)
      PROVE  \A s \in Slots : /\ state[s] = 2 => state'[s] = 2 /\ ip'[s] = ip[s]
                              /\ state[s] # 0 => state'[s] # 0
  <2>1. state[rec[t]] = 1
    BY <1>4 DEF Fill, Label, OneWriter, Writers
  <2> QED BY <1>4, <2>1 DEF Fill, Label
<1>5. ASSUME NEW t \in Threads, Take(t) PROVE UNCHANGED <<state, ip>>
  BY <1>1, <1>5 DEF Take
<1>6. CASE EvictLru
  BY <1>1, <1>6 DEF EvictLru, EvictTake, EvictCheck, EvictClear, EvictFree, EvictCount, Settled
<1>7. ASSUME NEW t \in Threads,
             Lookup(t) \/ LoadState(t) \/ SpinEnds(t) \/ Reload(t) \/ Compare(t)
               \/ ScanProbed(t) \/ Use(t)
      PROVE  UNCHANGED <<state, ip>>
  BY <1>7 DEF Lookup, LoadState, SpinEnds, Reload, Compare, ScanProbed, Use, UseNoBan,
              UseUnflag, UseRaise, UseXdp, UseBanFails, UseFlag
<1>8. CASE EvictScan \/ ExpireUnban \/ ExpireFlag \/ UNCHANGED vars
  BY <1>2, <1>8 DEF EvictScan, ExpireUnban, ExpireFlag, vars
<1> QED
  BY <1>1, <1>2, <1>3, <1>4, <1>5, <1>6, <1>7, <1>8 DEF Next, GetOrCreate

(* A slot that was passed by stays so. *)
LEMMA StaysPassedBy ==
  IInv /\ [Next]_vars /\ ~evicted' =>
    \A a \in Ips, m \in Nat : PassedBy(a, m) => PassedBy(a, m)'
  BY NothingTakenOut, ProbedType DEF PassedBy

(* Every step keeps what the lookups have seen. *)
LEMMA StepWalk == ProbeInv /\ [Next]_vars => Walk'
<1> SUFFICES ASSUME ProbeInv, [Next]_vars PROVE Walk'
  OBVIOUS
<1> USE DEF record, lookup, gc
<1>a. IInv /\ Shape /\ Shape' /\ IInv'
  BY StepShape, StepOneWriter, StepSettled DEF ProbeInv, IInv
<1>w. Walk
  BY DEF ProbeInv
<1>s. ASSUME ~evicted'
      PROVE  /\ ~evicted
             /\ \A s \in Slots : state[s] = 2 => state'[s] = 2 /\ ip'[s] = ip[s]
             /\ \A s \in Slots : state[s] # 0 => state'[s] # 0
             /\ \A a \in Ips, m \in Nat : PassedBy(a, m) => PassedBy(a, m)'
  BY <1>a, <1>s, NothingTakenOut, StaysPassedBy
(* A thread that does not move. *)
<1>o. ASSUME NEW u \in Threads, ~evicted',
             pc'[u] = pc[u], key'[u] = key[u], probe'[u] = probe[u], rec'[u] = rec[u]
      PROVE  Walked(u)'
  <2>1. Walked(u)
    BY <1>o, <1>s, <1>w DEF Walk
  <2>2. pc[u] \in LookupSteps => key[u] \in Ips
    BY <1>a DEF Shape
  <2>3. rec[u] \in Slots
    BY <1>a DEF Shape
  <2> QED BY <1>o, <1>s, <2>1, <2>2, <2>3 DEF Walked
(* One thread moves. *)
<1>m. ASSUME NEW t \in Threads, pc' = [pc EXCEPT ![t] = pc'[t]],
             key' = [key EXCEPT ![t] = key'[t]], probe' = [probe EXCEPT ![t] = probe'[t]],
             rec' = [rec EXCEPT ![t] = rec'[t]],
             pc'[t] \notin LookupSteps => probe'[t] = 0,
             ~evicted' => Walked(t)'
      PROVE  Walk'
  <2>1. ASSUME NEW u \in Threads PROVE pc'[u] \notin LookupSteps => probe'[u] = 0
    BY <1>m, <1>a, <1>w DEF Walk, Shape
  <2>2. ASSUME NEW u \in Threads, ~evicted' PROVE Walked(u)'
    <3>1. CASE u = t
      BY <1>m, <2>2, <3>1
    <3>2. CASE u # t
      BY <1>m, <1>a, <1>o, <2>2, <3>2 DEF Shape
    <3> QED BY <3>1, <3>2
  <2> QED BY <2>1, <2>2 DEF Walk
(* No thread moves. *)
<1>n. CASE UNCHANGED <<pc, key, probe, rec>>
  BY <1>n, <1>o, <1>w DEF Walk
(* The slot of the probe is another address's, and the next one is tried. *)
<1>p. ASSUME NEW t \in Threads, pc[t] \in {"load", "reload", "compare"}, NextSlot(t),
             ~evicted' => PassedBy(key[t], probe[t]), UNCHANGED <<state, ip>>
      PROVE  Walk'
  <2>0. key[t] \in Ips /\ key'[t] = key[t] /\ probe[t] \in Nat /\ probe'[t] = probe[t] + 1
    BY <1>a, <1>p DEF Shape, NextSlot
  <2>1. ASSUME ~evicted', NEW m \in Nat, m < probe[t] + 1 PROVE PassedBy(key[t], m)'
    <3>1. m < probe[t] \/ m = probe[t]
      BY <2>0, <2>1
    <3>2. m < probe[t] => PassedBy(key[t], m)
      BY <1>p, <1>s, <1>w, <2>1 DEF Walk, Walked
    <3>3. PassedBy(key[t], m)
      BY <1>p, <2>1, <3>1, <3>2
    <3> QED BY <2>0, <1>s, <2>1, <3>3
  <2>2. \/ pc'[t] = "cas" /\ rec'[t] = Probed(key[t], probe[t] + 1)
        \/ pc'[t] = "scan"
    BY <1>a, <1>p DEF Shape, NextSlot, Goto
  <2>3. ~evicted' => Walked(t)'
    BY <2>0, <2>1, <2>2 DEF Walked, PassedBy
  <2> QED BY <1>a, <1>m, <1>p, <2>0, <2>2, <2>3 DEF Shape, NextSlot, Goto
<1>l. ASSUME NEW t \in Threads, Leave(t) PROVE Walk'
  <2>1. pc'[t] = "idle" /\ probe'[t] = 0
    BY <1>a, <1>l DEF Shape, Leave, Goto
  <2>2. Walked(t)'
    BY <2>1 DEF Walked
  <2> QED BY <1>a, <1>l, <1>m, <2>1, <2>2 DEF Shape, Leave, Goto
<1>r. ASSUME NEW t \in Threads, Return(t) PROVE Walk'
  <2>1. pc'[t] = "use" /\ probe'[t] = 0
    BY <1>a, <1>r DEF Shape, Return, Goto
  <2>2. Walked(t)'
    BY <2>1 DEF Walked
  <2> QED BY <1>a, <1>r, <1>m, <2>1, <2>2 DEF Shape, Return, Goto
<1>q. ASSUME NEW t \in Threads, pc' = [pc EXCEPT ![t] = pc'[t]], UNCHANGED <<key, probe, rec>>,
             pc[t] \in LookupSteps, pc'[t] \in LookupSteps,
             pc[t] \in {"scan", "take"} => pc'[t] \in {"scan", "take"} \/ evicted',
             ~evicted' /\ pc'[t] \in {"load", "spin"} => state'[rec[t]] # 0,
             ~evicted' /\ pc'[t] = "reload" => state'[rec[t]] = 2
      PROVE  Walk'
  <2>1. ASSUME ~evicted' PROVE Walked(t)'
    <3>1. Walked(t) /\ key[t] \in Ips
      BY <1>a, <1>q, <1>s, <1>w, <2>1 DEF Walk, Shape
    <3>2. \A m \in Nat : m < probe'[t] => PassedBy(key[t], m)'
      BY <1>q, <1>s, <2>1, <3>1 DEF Walked
    <3>3. \A m \in Nat : m < probe'[t] => PassedBy(key[t], m)' /\ key'[t] = key[t]
      BY <1>q, <3>2
    <3>4. pc'[t] \in LookupSteps \ {"scan", "take"} => rec'[t] = Probed(key'[t], probe'[t])
      BY <1>q, <2>1, <3>1 DEF Walked
    <3> QED BY <1>q, <2>1, <3>3, <3>4 DEF Walked, PassedBy
  <2> QED BY <1>a, <1>m, <1>q, <2>1 DEF Shape
<1>1. ASSUME NEW t \in Threads, Lookup(t) PROVE Walk'
  <2>1. probe[t] = 0 /\ probe'[t] = 0 /\ pc'[t] = "cas" /\ rec'[t] = Probed(key'[t], 0)
    BY <1>1, <1>a, <1>w DEF Lookup, Goto, Walk, Shape
  <2>2. Walked(t)'
    BY <2>1 DEF Walked
  <2> QED BY <1>1, <1>a, <1>m, <2>1, <2>2 DEF Lookup, Goto, Shape
<1>2. ASSUME NEW t \in Threads, Reserve(t) PROVE Walk'
  BY <1>2, <1>a, <1>q DEF Reserve, Goto, Shape
<1>3. ASSUME NEW t \in Threads, LoadState(t) PROVE Walk'
  <2>1. CASE state[rec[t]] # 0
    BY <1>3, <2>1, <1>a, <1>q DEF LoadState, Goto, Shape
  <2>2. CASE state[rec[t]] = 0
    <3>1. evicted'
      BY <1>3, <2>2, <1>s, <1>w DEF LoadState, Walk, Walked
    <3> QED BY <1>3, <2>2, <3>1, <1>p DEF LoadState
  <2> QED BY <2>1, <2>2
<1>4. ASSUME NEW t \in Threads, SpinEnds(t) PROVE Walk'
  <2>1. ~evicted' => state'[rec[t]] = 2
    <3>1. ~evicted' => state[rec[t]] # 0
      BY <1>4, <1>s, <1>w DEF SpinEnds, Walk, Walked
    <3> QED BY <1>4, <1>a, <3>1 DEF SpinEnds, Shape
  <2> QED BY <1>4, <2>1, <1>a, <1>q DEF SpinEnds, Goto, Shape
<1>5. ASSUME NEW t \in Threads, Reload(t) PROVE Walk'
  <2>1. CASE state[rec[t]] = 2
    BY <1>5, <2>1, <1>a, <1>q DEF Reload, Goto, Shape
  <2>2. CASE state[rec[t]] # 2
    <3>1. evicted'
      BY <1>5, <2>2, <1>s, <1>w DEF Reload, Walk, Walked
    <3> QED BY <1>5, <2>2, <3>1, <1>p DEF Reload
  <2> QED BY <2>1, <2>2
<1>6. ASSUME NEW t \in Threads, Compare(t) PROVE Walk'
  <2>1. CASE Return(t)
    BY <1>r, <2>1
  <2>2. CASE ip[rec[t]] # key[t] /\ NextSlot(t)
    <3>1. ASSUME ~evicted' PROVE PassedBy(key[t], probe[t])
      <4>1. rec[t] = Probed(key[t], probe[t])
        BY <1>6, <1>s, <1>w, <3>1 DEF Compare, Walk, Walked
      <4>2. state[rec[t]] = 2
        BY <1>6, <1>a, <1>s, <3>1 DEF Compare, IInv, Settled
      <4> QED BY <2>2, <4>1, <4>2 DEF PassedBy
    <3> QED BY <1>6, <2>2, <3>1, <1>p DEF Compare
  <2> QED BY <1>6, <2>1, <2>2 DEF Compare
<1>7. ASSUME NEW t \in Threads, ScanProbed(t) PROVE Walk'
  <2>1. CASE Leave(t)
    BY <1>l, <2>1
  <2>2. CASE ~Leave(t)
    <3>1. pc'[t] = "take" /\ UNCHANGED <<key, probe, state, ip>> /\ pc[t] = "scan"
      BY <1>7, <1>a, <2>2 DEF ScanProbed, Goto, Shape
    <3>2. ASSUME ~evicted' PROVE Walked(t)'
      BY <1>s, <1>w, <3>1, <3>2 DEF Walk, Walked, PassedBy
    <3> QED BY <1>7, <1>a, <1>m, <2>2, <3>1, <3>2 DEF ScanProbed, Goto, Shape
  <2> QED BY <2>1, <2>2
<1>8. ASSUME NEW t \in Threads, Take(t) PROVE Walk'
  <2>1. CASE state[rec[t]] = 2
    BY <1>8, <2>1, <1>a, <1>q DEF Take, Goto, Shape
  <2>2. CASE state[rec[t]] # 2
    BY <1>8, <2>2, <1>l DEF Take
  <2> QED BY <2>1, <2>2
<1>9. ASSUME NEW t \in Threads, Fill(t) \/ Label(t) PROVE Walk'
  BY <1>9, <1>a, <1>q DEF Fill, Label, Goto, Shape
<1>10. ASSUME NEW t \in Threads, Publish(t) PROVE Walk'
  BY <1>10, <1>r DEF Publish
<1>11. ASSUME NEW t \in Threads, Use(t) PROVE Walk'
  <2>1. CASE Leave(t)
    BY <1>l, <2>1
  <2>2. CASE ~Leave(t)
    <3>1. /\ pc[t] = "use" /\ pc'[t] \in UseSteps /\ UNCHANGED <<key, probe, rec>>
          /\ pc' = [pc EXCEPT ![t] = pc'[t]]
      BY <1>11, <1>a, <2>2
         DEF Use, UseNoBan, UseUnflag, UseRaise, UseXdp, UseBanFails, UseFlag, Goto, Shape
    <3>2. Walked(t)'
      BY <3>1 DEF Walked
    <3>3. probe[t] = 0
      BY <1>w, <3>1 DEF Walk
    <3> QED BY <1>a, <1>m, <3>1, <3>2, <3>3 DEF Shape
  <2> QED BY <2>1, <2>2
<1>12. CASE EvictScan \/ EvictLru \/ ExpireUnban \/ ExpireFlag
  BY <1>12, <1>n
     DEF EvictScan, EvictLru, EvictTake, EvictCheck, EvictClear, EvictFree,
         EvictCount, ExpireUnban, ExpireFlag
<1>13. CASE UNCHANGED vars
  BY <1>13, <1>n DEF vars
<1> QED
  BY <1>1, <1>2, <1>3, <1>4, <1>5, <1>6, <1>7, <1>8, <1>9, <1>10, <1>11, <1>12,
     <1>13 DEF Next, GetOrCreate

(* A slot becomes ready at its publication only, where the walk of its writer
   says that it is the first of the probe. *)
LEMMA StepPlaced == ProbeInv /\ [Next]_vars => Placed'
<1> DEFINE Passed(a, m) == state'[Probed(a, m)] = 2 /\ ip'[Probed(a, m)] # a
<1> SUFFICES ASSUME ProbeInv, [Next]_vars
             PROVE  ~evicted' =>
                      \A s \in Slots : state'[s] = 2 =>
                        \E n \in Nat : /\ s = Probed(ip'[s], n)
                                       /\ \A m \in Nat : m < n => Passed(ip'[s], m)
  BY DEF Placed, PassedBy
<1> SUFFICES ASSUME ~evicted', NEW s \in Slots, state'[s] = 2
             PROVE  \E n \in Nat : /\ s = Probed(ip'[s], n)
                                   /\ \A m \in Nat : m < n => Passed(ip'[s], m)
  OBVIOUS
<1> USE DEF record, lookup, gc
<1>a. IInv /\ Shape /\ Settled /\ IInv'
  BY StepShape, StepOneWriter, StepSettled DEF ProbeInv, IInv
<1>s. /\ ~evicted
      /\ state[s] = 2 => ip'[s] = ip[s]
      /\ \A a \in Ips, m \in Nat : PassedBy(a, m) => Passed(a, m)
  BY <1>a, NothingTakenOut, StaysPassedBy DEF PassedBy
<1> HIDE DEF Passed
<1>1. CASE state[s] = 2
  <2>1. PICK n \in Nat : s = Probed(ip[s], n) /\ \A m \in Nat : m < n => PassedBy(ip[s], m)
    BY <1>1, <1>s DEF ProbeInv, Placed
  <2>2. ip[s] \in Ips
    BY <1>1, <1>a, <1>s DEF Settled
  <2>3. \A m \in Nat : m < n => Passed(ip[s], m)
    BY <1>s, <2>1, <2>2
  <2> QED BY <1>1, <1>s, <2>1, <2>3
<1>2. CASE state[s] # 2
  <2>1. PICK t \in Threads : Publish(t) /\ rec[t] = s
    <3>1. ASSUME NEW t \in Threads, Reserve(t) \/ Take(t) PROVE FALSE
      BY <1>2, <1>a, <3>1 DEF Reserve, Take, Shape
    <3>2. ASSUME EvictLru PROVE FALSE
      BY <1>2, <1>a, <1>s, <3>2
         DEF EvictLru, EvictTake, EvictCheck, EvictClear, EvictFree, EvictCount, Settled, Shape
    <3>3. state' # state
      BY <1>2
    <3>4. ASSUME NEW t \in Threads,
                 Lookup(t) \/ LoadState(t) \/ SpinEnds(t) \/ Reload(t) \/ Compare(t)
                   \/ ScanProbed(t) \/ Fill(t) \/ Label(t) \/ Use(t)
          PROVE  state' = state
      BY <3>4 DEF Lookup, LoadState, SpinEnds, Reload, Compare, ScanProbed, Fill, Label, Use,
                  UseNoBan, UseUnflag, UseRaise, UseXdp, UseBanFails, UseFlag
    <3>5. ASSUME EvictScan \/ ExpireUnban \/ ExpireFlag \/ UNCHANGED vars
          PROVE  state' = state
      BY <3>5 DEF EvictScan, ExpireUnban, ExpireFlag, vars
    <3>6. PICK t \in Threads : Publish(t)
      BY <3>1, <3>2, <3>3, <3>4, <3>5 DEF Next, GetOrCreate
    <3> QED BY <1>2, <1>a, <3>6 DEF Publish, Shape
  <2>2. pc[t] = "publish" /\ ip'[s] = key[t] /\ key[t] \in Ips /\ probe[t] \in Nat
    BY <1>a, <1>s, <2>1 DEF Publish, Settled, Shape
  <2>3. Walked(t)
    BY <1>s DEF ProbeInv, Walk
  <2>4. s = Probed(ip'[s], probe[t])
    BY <2>1, <2>2, <2>3 DEF Walked
  <2>5. \A m \in Nat : m < probe[t] => Passed(key[t], m)
    BY <1>s, <2>2, <2>3 DEF Walked
  <2> QED BY <2>2, <2>4, <2>5
<1> QED BY <1>1, <1>2

(* The order of every probe, and each record's place in it, are an inductive
   invariant of the table. *)
THEOREM ProbeInductive == Spec => []ProbeInv
<1>1. ProbeInv /\ [Next]_vars => ProbeInv'
  BY StepShape, StepOneWriter, StepSettled, StepWalk, StepPlaced DEF ProbeInv, IInv
<1> QED BY InitProbeInv, <1>1, PTL DEF Spec

(* Until an eviction claims a record, threads that create records for the same
   address at once, in a table without a lock, end up with one: of two records
   with one address, the later in the probe would have passed the other by. *)
THEOREM RecordsAreUnique == Spec => []UniqueUnlessEvicted
<1>1. ASSUME ProbeInv PROVE UniqueUnlessEvicted
  <2> SUFFICES ASSUME ~evicted, NEW r \in Slots, NEW s \in Slots,
                      state[r] = 2, state[s] = 2, ip[r] = ip[s]
               PROVE  r = s
    BY DEF UniqueUnlessEvicted, Ready
  <2>1. PICK n \in Nat : r = Probed(ip[r], n) /\ \A m \in Nat : m < n => PassedBy(ip[r], m)
    BY <1>1 DEF ProbeInv, Placed
  <2>2. PICK k \in Nat : s = Probed(ip[s], k) /\ \A m \in Nat : m < k => PassedBy(ip[s], m)
    BY <1>1 DEF ProbeInv, Placed
  <2>3. ~(n < k) /\ ~(k < n)
    BY <2>1, <2>2 DEF PassedBy
  <2>4. n = k
    BY <2>3
  <2> QED BY <2>1, <2>2, <2>4
<1> QED BY ProbeInductive, <1>1, PTL
=============================================================================
