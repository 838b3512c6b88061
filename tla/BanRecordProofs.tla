-------------------------- MODULE BanRecordProofs --------------------------
(***************************************************************************)
(* What BanRecord guarantees for any number of parser threads.             *)
(*                                                                         *)
(* Both properties speak of executions in which no path that bans has      *)
(* overlapped one that clears the flag.  The steps of all the paths fall   *)
(* into a few shapes (a ban is made, the flag is set, the deadline is set, *)
(* the flag is cleared, the deadline is cleared, anything else); one lemma *)
(* per shape shows what it does to the invariant.                          *)
(***************************************************************************)
EXTENDS BanRecord, TLAPS

MakeSteps == {"trap_ban", "ban", "xdp_ban", "key_ban"}
FlagSteps == {"trap_flag", "flag", "xdp_flag", "key_flag"}
UntilSteps == {"trap_until", "until", "xdp_until", "key_until"}
\* The steps after the kernel seemed to answer that the block is gone.
GoneSteps == {"ttl_flag", "ttl_until", "stale_flag"}
\* The steps of an alert after it has read banned again under the lock.
NoticeSteps == {"fsm", "ban", "flag", "until"}
LockedSteps == NoticeSteps \cup {"check", "key_check", "key_ban", "key_flag", "key_until"}

\* g_tui_mutex is held from its lock to its unlock.
MutexInv == \A t \in Threads : pc[t] \in LockedSteps => mutex = t

\* No path that clears runs beside one that bans.
Calm == \A a, b \in Threads : a # b /\ pc[a] \in ClearSteps => pc[b] \notin BanSteps

GoneInv == \A t \in Threads : pc[t] \in GoneSteps => ~blocked \/ stray

\* A block that is not stray and that the record does not account for yet belongs to a thread that is
\* about to set the flag, or the deadline.
BlockInv ==
  blocked /\ ~stray =>
             /\ banned \/ \E t \in Threads : pc[t] \in FlagSteps
             /\ until # "none" \/ \E t \in Threads : pc[t] \in FlagSteps \cup UntilSteps

\* After a notice the flag stands, so that no alert passes its second look at it.
NoticeInv ==
  /\ noticed => banned
  /\ \A w \in Workers : /\ pc[w] \in NoticeSteps => ~noticed
                        /\ pc[w] = "until" => banned

CalmInv == GoneInv /\ BlockInv /\ NoticeInv

IInv == TypeOK /\ MutexInv /\ (~overlapped => Calm /\ CalmInv)

-----------------------------------------------------------------------------
(* siem_update stays within the five stages. *)
LEMMA NextStageType ==
  ASSUME NEW cur \in Stages, NEW kind \in CritKinds
  PROVE  NextStage(cur, kind) \in Stages /\ (NextStage(cur, kind) > cur) \in BOOLEAN
  BY DEF NextStage, StageAtLeast, Stages, CritKinds, CLEAN, RECON, EXPLOIT, C2, PERSISTENT

(* A thread moves to a step, and overlapped stays a truth value. *)
LEMMA GotoType ==
  ASSUME TypeOK, NEW t \in Threads, NEW s \in Steps, Goto(t, s)
  PROVE  pc' \in [Threads -> Steps] /\ overlapped' \in BOOLEAN
<1>1. pc' \in [Threads -> Steps]
  BY DEF TypeOK, Goto
<1>2. overlapped' \in BOOLEAN
  BY DEF TypeOK, Goto
<1> QED
  BY <1>1, <1>2

(* A parser thread that is done with its line is back at the start. *)
LEMMA EndLineType ==
  ASSUME TypeOK, NEW w \in Workers, EndLine(w)
  PROVE  /\ next' \in [Workers -> [stage : Stages, raise : BOOLEAN]]
         /\ pc' \in [Threads -> Steps] /\ overlapped' \in BOOLEAN
<1>1. NoNext \in [stage : Stages, raise : BOOLEAN]
  BY DEF NoNext, CLEAN, PERSISTENT, Stages
<1>2. next' \in [Workers -> [stage : Stages, raise : BOOLEAN]]
  BY <1>1 DEF EndLine, TypeOK
<1>3. "idle" \in Steps /\ w \in Threads /\ Goto(w, "idle")
  BY DEF EndLine, Steps, Threads
<1> QED
  BY <1>2, <1>3, GotoType

(* What a thread that goes to a step leaves of Calm: overlapped records it. *)
LEMMA GotoCalm ==
  ASSUME NEW t \in Threads, NEW s, Goto(t, s), ~overlapped'
  PROVE  ~overlapped /\ Calm'
  BY DEF Goto, Overlap, Calm

(* Shape 1: neither flag, deadline nor block change. *)
LEMMA PlainShape ==
  ASSUME TypeOK, Calm, CalmInv, NEW t \in Threads, NEW s, pc' = [pc EXCEPT ![t] = s],
         pc[t] \notin FlagSteps \cup UntilSteps, s \notin GoneSteps,
         s \in NoticeSteps => t \notin Workers \/ pc[t] \in NoticeSteps \/ ~banned, s # "until",
         blocked' = blocked, stray' = stray, banned' = banned, until' = until, noticed' = noticed
  PROVE  CalmInv'
<1>1. GoneInv'
  BY DEF CalmInv, GoneInv, TypeOK
<1>2. BlockInv'
  BY DEF CalmInv, BlockInv, TypeOK
<1>3. NoticeInv'
  BY DEF CalmInv, NoticeInv, TypeOK
<1> QED
  BY <1>1, <1>2, <1>3 DEF CalmInv

(* Shape 2: ban_ip has answered, and the thread goes on to set the flag. *)
LEMMA MakeShape ==
  ASSUME TypeOK, Calm, CalmInv, NEW t \in Threads, NEW s \in FlagSteps, pc' = [pc EXCEPT ![t] = s],
         pc[t] \in MakeSteps, s = "flag" => pc[t] = "ban",
         banned' = banned, until' = until, noticed' = noticed
  PROVE  CalmInv'
<1>1. GoneInv'
  BY DEF GoneInv, Calm, TypeOK, MakeSteps, FlagSteps, GoneSteps, ClearSteps, BanSteps
<1>2. BlockInv'
  BY DEF BlockInv, TypeOK
<1>3. NoticeInv'
  BY DEF CalmInv, NoticeInv, TypeOK, NoticeSteps, FlagSteps
<1> QED
  BY <1>1, <1>2, <1>3 DEF CalmInv

(* Shape 3: the flag is set. *)
LEMMA FlagShape ==
  ASSUME TypeOK, Calm, CalmInv, NEW t \in Threads, NEW s \in UntilSteps, pc' = [pc EXCEPT ![t] = s],
         pc[t] \in FlagSteps, s = "until" => pc[t] = "flag",
         blocked' = blocked, stray' = stray, banned' = TRUE, until' = until, noticed' = noticed
  PROVE  CalmInv'
<1>1. GoneInv'
  BY DEF CalmInv, GoneInv, TypeOK, UntilSteps, GoneSteps
<1>2. BlockInv'
  BY DEF CalmInv, BlockInv, TypeOK
<1>3. NoticeInv'
  BY DEF CalmInv, NoticeInv, TypeOK, NoticeSteps, UntilSteps
<1> QED
  BY <1>1, <1>2, <1>3 DEF CalmInv

(* Shape 4: the deadline is set; an alert also sends its notice. *)
LEMMA UntilShape ==
  ASSUME TypeOK, MutexInv, Calm, CalmInv, NEW t \in Threads, NEW s \in {"idle", "alert"},
         pc' = [pc EXCEPT ![t] = s], pc[t] \in UntilSteps,
         blocked' = blocked, stray' = stray, banned' = banned, until' # "none",
         \/ noticed' = noticed
         \/ t \in Workers /\ pc[t] = "until"
  PROVE  CalmInv'
<1>1. GoneInv'
  BY DEF CalmInv, GoneInv, TypeOK, GoneSteps
<1>2. BlockInv'
  BY DEF CalmInv, BlockInv, TypeOK, FlagSteps, UntilSteps
<1>3. NoticeInv'
  <2>1. CASE noticed' = noticed
    BY <2>1 DEF CalmInv, NoticeInv, TypeOK, NoticeSteps
  <2>2. CASE t \in Workers /\ pc[t] = "until"
    <3>1. banned'
      BY <2>2 DEF CalmInv, NoticeInv
    <3>2. \A w \in Workers : w # t => pc[w] \notin NoticeSteps
      BY <2>2 DEF MutexInv, LockedSteps, NoticeSteps, Threads
    <3>3. \A w \in Workers : pc'[w] \notin NoticeSteps
      BY <3>2 DEF TypeOK, NoticeSteps, Threads
    <3>4. \A w \in Workers : pc'[w] # "until"
      BY <3>3 DEF NoticeSteps
    <3> QED
      BY <3>1, <3>3, <3>4 DEF NoticeInv
  <2> QED
    BY <2>1, <2>2
<1> QED
  BY <1>1, <1>2, <1>3 DEF CalmInv

(* Shape 5: the flag is cleared, or the deadline, of a block that is gone. *)
LEMMA ClearShape ==
  ASSUME TypeOK, Calm, CalmInv, NEW t \in Threads, NEW s, pc' = [pc EXCEPT ![t] = s],
         pc[t] \in GoneSteps, s \notin NoticeSteps, blocked' = blocked, stray' = stray,
         \/ banned' = FALSE /\ noticed' = FALSE
         \/ banned' = banned /\ noticed' = noticed
  PROVE  CalmInv'
<1>1. ~blocked' \/ stray'
  BY DEF CalmInv, GoneInv
<1>2. \A w \in Workers : w # t => pc[w] \notin NoticeSteps
  BY DEF Calm, Threads, GoneSteps, ClearSteps, BanSteps, NoticeSteps
<1>3. \A w \in Workers : pc'[w] \notin NoticeSteps
  BY <1>2 DEF TypeOK, Threads
<1>4. \A w \in Workers : pc'[w] # "until"
  BY <1>3 DEF NoticeSteps
<1>5. noticed' => banned'
  BY DEF CalmInv, NoticeInv
<1> QED
  BY <1>1, <1>3, <1>4, <1>5 DEF CalmInv, GoneInv, BlockInv, NoticeInv

(* Shape 6: the block is gone, or in force behind the record's back. *)
LEMMA GoneShape ==
  ASSUME TypeOK, Calm, CalmInv, NEW t \in Threads, NEW s, pc' = [pc EXCEPT ![t] = s],
         s \notin NoticeSteps, ~blocked' \/ stray', banned' = banned, noticed' = noticed
  PROVE  CalmInv'
<1>1. NoticeInv'
  BY DEF CalmInv, NoticeInv, TypeOK, NoticeSteps
<1> QED
  BY <1>1 DEF CalmInv, GoneInv, BlockInv

-----------------------------------------------------------------------------
(* The record, the mutex and every thread keep their types: stages stay within
   siem_fsm.h, and each thread is at a step of its path. *)
THEOREM RecordTypeCorrect == Spec => []TypeOK
<1> USE DEF TypeOK, record, history, mode, kernel, NoNext, Stray, Noticed, KeepHistory
<1>0. CLEAN \in Stages /\ PERSISTENT \in Stages
  BY DEF CLEAN, PERSISTENT, Stages
<1>1. Init => TypeOK
  <2> SUFFICES ASSUME Init PROVE TypeOK
    OBVIOUS
  <2>1. pc \in [Threads -> Steps]
    BY DEF Init, Steps
  <2>2. next \in [Workers -> [stage : Stages, raise : BOOLEAN]]
    BY <1>0 DEF Init
  <2> QED
    BY <1>0, <2>1, <2>2 DEF Init
<1>2. TypeOK /\ [Next]_vars => TypeOK'
  <2> SUFFICES ASSUME TypeOK, [Next]_vars PROVE TypeOK'
    OBVIOUS
  <2> USE DEF Steps, ClearSteps, BanSteps, AfterTtl, BanIp, Lock, Unlock
  <2>0. Gc \in Threads /\ Main \in Threads /\ Workers \subseteq Threads
    BY DEF Threads
  <2>1. ASSUME NEW t \in Threads, Ttl(t) PROVE TypeOK'
    BY <2>1, GotoType DEF Ttl, TtlLoad, TtlUnban, TtlFlag, TtlUntil
  <2>2. ASSUME NEW w \in Workers, StartLine(w) \/ OnTrap(w) PROVE TypeOK'
    <3>1. CASE StartLine(w) \/ Trap(w)
      BY <2>0, <3>1, GotoType DEF StartLine, Trap
    <3>2. CASE TrapStage(w)
      BY <1>0, <2>0, <3>2, GotoType DEF TrapStage
    <3>3. CASE TrapBan(w)
      BY <2>0, <3>3, GotoType DEF TrapBan
    <3>4. CASE TrapFlag(w) \/ TrapUntil(w)
      BY <2>0, <3>4, GotoType DEF TrapFlag, TrapUntil
    <3> QED
      BY <2>2, <3>1, <3>2, <3>3, <3>4 DEF OnTrap
  <2>3. ASSUME NEW w \in Workers, \/ AlertBegin(w) \/ StaleTest(w) \/ StaleFlag(w)
                                  \/ Policy(w) \/ AlertLock(w) \/ AlertFlag(w)
        PROVE  TypeOK'
    <3>1. CASE AlertBegin(w) \/ Policy(w)
      BY <2>0, <3>1, GotoType DEF AlertBegin, Policy
    <3>2. CASE StaleTest(w) \/ StaleFlag(w)
      BY <2>0, <3>2, GotoType DEF StaleTest, StaleFlag
    <3>3. CASE AlertLock(w) \/ AlertFlag(w)
      BY <2>0, <3>3, GotoType DEF AlertLock, AlertFlag
    <3> QED
      BY <2>3, <3>1, <3>2, <3>3
  <2>4. ASSUME NEW w \in Workers, AlertCheck(w) PROVE TypeOK'
    <3>1. CASE EndLine(w)
      BY <2>0, <2>4, <3>1, EndLineType DEF AlertCheck
    <3>2. ASSUME NEW kind \in CritKinds, Goto(w, "fsm"),
                 next' = [next EXCEPT ![w] = [stage |-> NextStage(stage, kind),
                                              raise |-> NextStage(stage, kind) > stage]]
          PROVE  TypeOK'
      <4>1. [stage |-> NextStage(stage, kind), raise |-> NextStage(stage, kind) > stage]
              \in [stage : Stages, raise : BOOLEAN]
        BY NextStageType
      <4>2. next' \in [Workers -> [stage : Stages, raise : BOOLEAN]]
        BY <3>2, <4>1
      <4> QED
        BY <2>0, <2>4, <3>2, <4>2, GotoType DEF AlertCheck
    <3> QED
      BY <2>4, <3>1, <3>2 DEF AlertCheck
  <2>5. ASSUME NEW w \in Workers, AlertStage(w) PROVE TypeOK'
    <3>1. next[w] \in [stage : Stages, raise : BOOLEAN]
      BY <2>5
    <3>2. next' \in [Workers -> [stage : Stages, raise : BOOLEAN]] /\ stage' \in Stages
      BY <2>5, <3>1 DEF AlertStage
    <3> QED
      BY <2>0, <2>5, <3>2, GotoType DEF AlertStage
  <2>6. ASSUME NEW w \in Workers, AlertBan(w) PROVE TypeOK'
    <3>1. CASE EndLine(w)
      BY <2>0, <2>6, <3>1, EndLineType DEF AlertBan
    <3>2. CASE Goto(w, "flag") /\ UNCHANGED <<mutex, next>>
      BY <2>0, <2>6, <3>2, GotoType DEF AlertBan
    <3> QED
      BY <2>6, <3>1, <3>2 DEF AlertBan
  <2>7. ASSUME NEW w \in Workers, AlertUntil(w) PROVE TypeOK'
    BY <2>0, <2>7, EndLineType DEF AlertUntil
  <2>8. CASE GcScan \/ XdpEvent \/ OnXdp
    BY <2>0, <2>8, GotoType DEF GcScan, XdpEvent, OnXdp, XdpBan, XdpFlag, XdpUntil
  <2>9. CASE KeyPressed \/ OnKey
    BY <2>0, <2>9, GotoType DEF KeyPressed, OnKey, KeyLock, KeyCheck, KeyBan, KeyFlag, KeyUntil
  <2>10. CASE DeadlinePasses \/ OutsideUnban \/ OutsideBan \/ UNCHANGED vars
    BY <2>10 DEF DeadlinePasses, OutsideUnban, OutsideBan, vars
  <2> QED
    BY <2>0, <2>1, <2>2, <2>3, <2>4, <2>5, <2>6, <2>7, <2>8, <2>9, <2>10 DEF Next, OnAlert
<1> QED
  BY <1>1, <1>2, PTL DEF Spec

-----------------------------------------------------------------------------
(* The alert and the key lock g_tui_mutex before they look at the flag again and
   unlock it on every way out. *)
LEMMA MutexStep ==
  ASSUME TypeOK, MutexInv, [Next]_vars
  PROVE  MutexInv'
<1> USE DEF TypeOK, LockedSteps, NoticeSteps, EndLine, Goto
<1>0. Gc \in Threads /\ Main \in Threads /\ Workers \subseteq Threads /\ Free \notin Threads
  BY ThreadAssumption DEF Threads
<1>1. ASSUME mutex' = mutex, NEW t \in Threads, NEW s, pc' = [pc EXCEPT ![t] = s],
             s \in LockedSteps => pc[t] \in LockedSteps
      PROVE  MutexInv'
  BY <1>1 DEF MutexInv
<1>2. ASSUME NEW t \in Threads, NEW s, pc' = [pc EXCEPT ![t] = s], mutex = Free, mutex' = t
      PROVE  MutexInv'
  BY <1>0, <1>2 DEF MutexInv
<1>3. ASSUME NEW t \in Threads, NEW s \in Steps \ LockedSteps, pc' = [pc EXCEPT ![t] = s],
             pc[t] \in LockedSteps
      PROVE  MutexInv'
  BY <1>0, <1>3 DEF MutexInv
<1>4. ASSUME NEW t \in Threads, Ttl(t) PROVE MutexInv'
  BY <1>1, <1>4 DEF Ttl, TtlLoad, TtlUnban, TtlFlag, TtlUntil, AfterTtl
<1>5. ASSUME NEW w \in Workers, StartLine(w) \/ OnTrap(w) PROVE MutexInv'
  BY <1>0, <1>1, <1>5 DEF StartLine, OnTrap, Trap, TrapStage, TrapBan, TrapFlag, TrapUntil
<1>6. ASSUME NEW w \in Workers, AlertBegin(w) \/ StaleTest(w) \/ StaleFlag(w) \/ Policy(w)
      PROVE  MutexInv'
  BY <1>0, <1>1, <1>6 DEF AlertBegin, StaleTest, StaleFlag, Policy
<1>7. ASSUME NEW w \in Workers, AlertLock(w) PROVE MutexInv'
  BY <1>0, <1>2, <1>7 DEF AlertLock, Lock
<1>8. ASSUME NEW w \in Workers, AlertStage(w) \/ AlertFlag(w) PROVE MutexInv'
  BY <1>0, <1>1, <1>8 DEF AlertStage, AlertFlag
<1>9. ASSUME NEW w \in Workers, AlertCheck(w) \/ AlertBan(w) \/ AlertUntil(w) PROVE MutexInv'
  <2>1. CASE mutex' = mutex
    BY <1>0, <1>1, <1>9, <2>1 DEF AlertCheck, AlertBan, AlertUntil
  <2>2. CASE pc' = [pc EXCEPT ![w] = "idle"]
    BY <1>0, <1>3, <1>9, <2>2 DEF AlertCheck, AlertBan, AlertUntil, Steps
  <2> QED
    BY <1>9, <2>1, <2>2 DEF AlertCheck, AlertBan, AlertUntil
<1>10. CASE GcScan \/ XdpEvent \/ OnXdp \/ KeyPressed
  BY <1>0, <1>1, <1>10 DEF GcScan, XdpEvent, OnXdp, XdpBan, XdpFlag, XdpUntil, KeyPressed
<1>11. CASE OnKey
  <2>1. CASE KeyLock
    BY <1>0, <1>2, <2>1 DEF KeyLock, Lock
  <2>2. CASE KeyFlag
    BY <1>0, <1>1, <2>2 DEF KeyFlag
  <2>3. CASE (KeyCheck \/ KeyBan) /\ mutex' = mutex
    BY <1>0, <1>1, <2>3 DEF KeyCheck, KeyBan
  <2>4. CASE (KeyCheck \/ KeyBan \/ KeyUntil) /\ pc' = [pc EXCEPT ![Main] = "idle"]
    BY <1>0, <1>3, <2>4 DEF KeyCheck, KeyBan, KeyUntil, Steps
  <2> QED
    BY <1>11, <2>1, <2>2, <2>3, <2>4 DEF OnKey, KeyCheck, KeyBan, KeyUntil
<1>12. CASE DeadlinePasses \/ OutsideUnban \/ OutsideBan \/ UNCHANGED vars
  BY <1>12 DEF DeadlinePasses, OutsideUnban, OutsideBan, vars, MutexInv
<1> QED
  BY <1>0, <1>4, <1>5, <1>6, <1>7, <1>8, <1>9, <1>10, <1>11, <1>12 DEF Next, OnAlert

(* Every step of the parser threads, the GC thread and the main thread has one of
   the shapes. *)
LEMMA CalmStep ==
  ASSUME TypeOK, TypeOK', MutexInv, ~overlapped', ~overlapped => Calm /\ CalmInv, [Next]_vars
  PROVE  Calm' /\ CalmInv'
<1>10. /\ Stray(stray) => stray' = stray
       /\ Noticed(noticed) => noticed' = noticed
       /\ Noticed(FALSE) => noticed' = FALSE
       /\ KeepHistory => stray' = stray /\ noticed' = noticed
  BY DEF TypeOK, Stray, Noticed, KeepHistory
<1> USE <1>10 DEF record, mode, history, kernel, MakeSteps, FlagSteps, UntilSteps, GoneSteps, NoticeSteps
<1>0. Gc \in Threads /\ Main \in Threads /\ Workers \subseteq Threads
  BY DEF Threads
<1>1. CASE DeadlinePasses \/ OutsideUnban \/ OutsideBan \/ UNCHANGED vars
  <2>1. Calm /\ CalmInv /\ pc' = pc /\ banned' = banned /\ noticed' = noticed
    BY <1>1 DEF DeadlinePasses, OutsideUnban, OutsideBan, vars
  <2>2. /\ blocked' /\ ~stray' => blocked /\ ~stray
        /\ until # "none" => until' # "none"
    BY <1>1 DEF DeadlinePasses, OutsideUnban, OutsideBan, vars, TypeOK
  <2>3. Calm' /\ GoneInv' /\ NoticeInv'
    BY <2>1, <2>2 DEF Calm, CalmInv, GoneInv, NoticeInv, TypeOK
  <2>4. BlockInv'
    BY <2>1, <2>2 DEF CalmInv, BlockInv, TypeOK
  <2> QED
    BY <2>3, <2>4 DEF CalmInv
<1>2. ASSUME NEW t \in Threads, NEW s, Goto(t, s), CalmInv' PROVE Calm' /\ CalmInv'
  BY <1>2, GotoCalm
<1>3. ASSUME NEW t \in Threads, NEW s, Goto(t, s)
      PROVE  Calm /\ CalmInv /\ pc' = [pc EXCEPT ![t] = s]
  BY <1>3, GotoCalm DEF Goto
<1>4. ASSUME NEW t \in Threads, Ttl(t) PROVE Calm' /\ CalmInv'
  <2>1. CASE TtlLoad(t)
    BY <1>2, <1>3, <2>1, PlainShape DEF TtlLoad, AfterTtl
  <2>2. CASE TtlUnban(t)
    <3>1. CASE Goto(t, "ttl_flag") /\ (~blocked' \/ Stray(TRUE))
      <4>1. ~blocked' \/ stray'
        BY <3>1 DEF Stray
      <4> QED
        BY <1>2, <1>3, <2>2, <3>1, <4>1, GoneShape DEF TtlUnban, TypeOK
    <3>2. CASE blocked /\ blocked' = TRUE /\ Goto(t, AfterTtl(t)) /\ Stray(stray)
      <4>1. blocked' = blocked /\ stray' = stray /\ noticed' = noticed
        BY <2>2, <3>2 DEF TtlUnban, TypeOK
      <4> QED
        BY <1>2, <1>3, <2>2, <3>2, <4>1, PlainShape DEF TtlUnban, AfterTtl
    <3> QED
      BY <2>2, <3>1, <3>2 DEF TtlUnban
  <2>3. CASE TtlFlag(t)
    BY <1>2, <1>3, <2>3, ClearShape DEF TtlFlag
  <2>4. CASE TtlUntil(t)
    BY <1>2, <1>3, <2>4, ClearShape DEF TtlUntil, AfterTtl
  <2> QED
    BY <1>4, <2>1, <2>2, <2>3, <2>4 DEF Ttl
<1>5. ASSUME NEW w \in Workers, StartLine(w) \/ OnTrap(w) PROVE Calm' /\ CalmInv'
  <2>1. CASE StartLine(w)
    BY <1>0, <1>2, <1>3, <2>1, PlainShape DEF StartLine
  <2>2. CASE Trap(w)
    BY <1>0, <1>2, <1>3, <2>2, PlainShape DEF Trap
  <2>3. CASE TrapStage(w)
    BY <1>0, <1>2, <1>3, <2>3, PlainShape DEF TrapStage
  <2>4. CASE TrapBan(w)
    <3>1. CASE Goto(w, "trap_flag")
      BY <1>0, <1>2, <1>3, <2>4, <3>1, MakeShape DEF TrapBan
    <3>2. CASE BanIp(FALSE) /\ Goto(w, "alert")
      <4>1. blocked' = blocked /\ stray' = stray
        BY <3>2 DEF BanIp, Stray, TypeOK
      <4> QED
        BY <1>0, <1>2, <1>3, <2>4, <3>2, <4>1, PlainShape DEF TrapBan
    <3> QED
      BY <2>4, <3>1, <3>2 DEF TrapBan
  <2>5. CASE TrapFlag(w)
    BY <1>0, <1>2, <1>3, <2>5, FlagShape DEF TrapFlag
  <2>6. CASE TrapUntil(w)
    BY <1>0, <1>2, <1>3, <2>6, UntilShape DEF TrapUntil
  <2> QED
    BY <1>5, <2>1, <2>2, <2>3, <2>4, <2>5, <2>6 DEF OnTrap
<1>6. ASSUME NEW w \in Workers, AlertBegin(w) \/ StaleTest(w) \/ StaleFlag(w) \/ Policy(w) \/ AlertLock(w)
      PROVE  Calm' /\ CalmInv'
  <2>1. CASE AlertBegin(w)
    BY <1>0, <1>2, <1>3, <2>1, PlainShape DEF AlertBegin
  <2>2. CASE StaleTest(w)
    <3>1. CASE Goto(w, "policy") /\ Stray(stray)
      <4>1. stray' = stray /\ noticed' = noticed
        BY <2>2, <3>1 DEF StaleTest, TypeOK
      <4> QED
        BY <1>0, <1>2, <1>3, <2>2, <3>1, <4>1, PlainShape DEF StaleTest
    <3>2. CASE Goto(w, "stale_flag") /\ Stray(blocked)
      <4>1. (~blocked' \/ stray') /\ noticed' = noticed
        BY <2>2, <3>2 DEF StaleTest, Stray, TypeOK
      <4> QED
        BY <1>0, <1>2, <1>3, <2>2, <3>2, <4>1, GoneShape DEF StaleTest
    <3> QED
      BY <2>2, <3>1, <3>2 DEF StaleTest
  <2>3. CASE StaleFlag(w)
    BY <1>0, <1>2, <1>3, <2>3, ClearShape DEF StaleFlag
  <2>4. CASE Policy(w) \/ AlertLock(w)
    BY <1>0, <1>2, <1>3, <2>4, PlainShape DEF Policy, AlertLock
  <2> QED
    BY <1>6, <2>1, <2>2, <2>3, <2>4
<1>7. ASSUME NEW w \in Workers, \/ AlertCheck(w) \/ AlertStage(w) \/ AlertBan(w)
                                \/ AlertFlag(w) \/ AlertUntil(w)
      PROVE  Calm' /\ CalmInv'
  <2>1. CASE AlertCheck(w)
    BY <1>0, <1>2, <1>3, <2>1, PlainShape DEF AlertCheck, EndLine
  <2>2. CASE AlertStage(w)
    BY <1>0, <1>2, <1>3, <2>2, PlainShape DEF AlertStage
  <2>3. CASE AlertBan(w)
    <3>1. CASE Goto(w, "flag")
      BY <1>0, <1>2, <1>3, <2>3, <3>1, MakeShape DEF AlertBan
    <3>2. CASE BanIp(FALSE) /\ Goto(w, "idle")
      <4>1. blocked' = blocked /\ stray' = stray
        BY <3>2 DEF BanIp, Stray, TypeOK
      <4> QED
        BY <1>0, <1>2, <1>3, <2>3, <3>2, <4>1, PlainShape DEF AlertBan
    <3> QED
      BY <2>3, <3>1, <3>2 DEF AlertBan, EndLine
  <2>4. CASE AlertFlag(w)
    BY <1>0, <1>2, <1>3, <2>4, FlagShape DEF AlertFlag
  <2>5. CASE AlertUntil(w)
    BY <1>0, <1>2, <1>3, <2>5, UntilShape DEF AlertUntil, EndLine
  <2> QED
    BY <1>7, <2>1, <2>2, <2>3, <2>4, <2>5
<1>8. CASE GcScan \/ XdpEvent \/ OnXdp
  <2>1. CASE GcScan \/ XdpEvent
    BY <1>0, <1>2, <1>3, <2>1, PlainShape DEF GcScan, XdpEvent
  <2>2. CASE XdpBan
    BY <1>0, <1>2, <1>3, <2>2, MakeShape DEF XdpBan
  <2>3. CASE XdpFlag
    BY <1>0, <1>2, <1>3, <2>3, FlagShape DEF XdpFlag
  <2>4. CASE XdpUntil
    BY <1>0, <1>2, <1>3, <2>4, UntilShape DEF XdpUntil
  <2> QED
    BY <1>8, <2>1, <2>2, <2>3, <2>4 DEF OnXdp
<1>9. CASE KeyPressed \/ OnKey
  <2>0. Main \notin Workers
    BY ThreadAssumption
  <2>1. CASE KeyPressed \/ KeyLock \/ KeyCheck
    BY <1>0, <1>2, <1>3, <2>1, PlainShape DEF KeyPressed, KeyLock, KeyCheck
  <2>2. CASE KeyBan
    <3>1. CASE Goto(Main, "key_flag")
      BY <1>0, <1>2, <1>3, <2>2, <3>1, MakeShape DEF KeyBan
    <3>2. CASE BanIp(FALSE) /\ Goto(Main, "idle")
      <4>1. blocked' = blocked /\ stray' = stray
        BY <3>2 DEF BanIp, Stray, TypeOK
      <4> QED
        BY <1>0, <1>2, <1>3, <2>2, <3>2, <4>1, PlainShape DEF KeyBan
    <3> QED
      BY <2>2, <3>1, <3>2 DEF KeyBan
  <2>3. CASE KeyFlag
    BY <1>0, <1>2, <1>3, <2>3, FlagShape DEF KeyFlag
  <2>4. CASE KeyUntil
    BY <1>0, <1>2, <1>3, <2>4, UntilShape DEF KeyUntil
  <2> QED
    BY <1>9, <2>1, <2>2, <2>3, <2>4 DEF OnKey
<1> QED
  BY <1>0, <1>1, <1>4, <1>5, <1>6, <1>7, <1>8, <1>9 DEF Next, OnAlert

-----------------------------------------------------------------------------
(* The inductive invariant of the record. *)
THEOREM RecordInvariant == Spec => []IInv
<1>1. Init => MutexInv /\ (~overlapped => Calm /\ CalmInv)
  BY DEF Init, MutexInv, LockedSteps, NoticeSteps, Calm, ClearSteps, CalmInv, GoneInv, GoneSteps,
         BlockInv, NoticeInv, Threads
<1>2. IInv /\ TypeOK' /\ [Next]_vars => IInv'
  BY MutexStep, CalmStep DEF IInv
<1> QED
  BY <1>1, <1>2, RecordTypeCorrect, PTL DEF Spec, IInv

(* As long as no path that clears the flag has overlapped one that bans, a block
   in the kernel that is not stray is flagged and has a deadline when all threads
   are done: a failed test or unban, or somebody else's ban, is the only other way
   to a block that no scan will find. *)
THEOREM BlocksAreTracked == Spec => []TrackedUnlessOverlap
<1>1. IInv => TrackedUnlessOverlap
  BY DEF IInv, CalmInv, BlockInv, TrackedUnlessOverlap, AllIdle, Tracked, FlagSteps, UntilSteps
<1> QED
  BY <1>1, RecordInvariant, PTL

(* Under the same condition parser threads that race on alerts of an address send
   one ban notice: AlertUntil never follows another notice of the same ban. *)
THEOREM NoticesAreSingle == Spec => OneNoticePerBan
<1>1. IInv /\ [Next]_vars => [\A w \in Workers : AlertUntil(w) /\ ~overlapped => ~noticed]_vars
  BY DEF IInv, CalmInv, NoticeInv, AlertUntil, NoticeSteps
<1> QED
  BY <1>1, RecordInvariant, PTL DEF Spec, OneNoticePerBan
=============================================================================
