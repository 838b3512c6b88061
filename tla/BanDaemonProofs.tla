-------------------------- MODULE BanDaemonProofs --------------------------
(***************************************************************************)
(* What BanDaemon guarantees for any number of client threads, through any *)
(* number of crashes, stops and restarts.                                  *)
(*                                                                         *)
(* FileWhole needs what an exporter's stream and the temporary file hold   *)
(* at each of its steps.  FileFresh needs who still owes the file a mark   *)
(* or an export: a client thread that has changed the ipset and has not    *)
(* answered yet, the mark, or an export that listed the ipset before.      *)
(***************************************************************************)
EXTENDS BanDaemon, TLAPS

\* Nothing runs in a process that is down.
DownInv == mode = "down" => /\ \A h \in Clients : ~Busy(h)
                            /\ \A e \in Exporters : ~Exporting(e) /\ fd[e] = "none"

\* At most one export is under way.
Alone == \A e, o \in Exporters : Exporting(e) /\ Exporting(o) => e = o

\* The stream of an exporter and what it has left in the temporary file.
Streams == \A e \in Exporters : /\ fd[e] = IF epc[e] = "write" THEN "tmp" ELSE "none"
                                /\ epc[e] = "write" => tmp = "empty"
                                /\ epc[e] = "rename" => tmp = snap[e]

WholeInv == ~mixed => Alone /\ Streams /\ file \in Listing

\* A client thread has changed the ipset, or succeeded otherwise, and has still
\* to set the mark.
Owed == \E h \in Clients : hpc[h] = "reply" /\ rc[h]

FreshInv ==
  ~stale /\ ~mixed /\ mode # "down" =>
    /\ file = ListingOf(ipset) \/ dirty \/ Owed
    /\ \A e \in Exporters :
         /\ epc[e] \in {"open", "write", "rename"} => snap[e] = ListingOf(ipset) \/ Owed
         /\ epc[e] = "clear" => file = ListingOf(ipset) \/ Owed

\* Unless commands clashed, one client thread works, and none after its answer.
Solo == /\ ack # "clash" => \A g, h \in Clients : Busy(g) /\ Busy(h) => g = h
        /\ ack \in {"in", "out"} => \A h \in Clients : ~Busy(h)

\* The entries there are those that the last unban could not remove.
Cleared == (xdp => "xdp" \in left) /\ (ipset => "ipset" \in left)

\* What the client thread that works alone has done so far.
Progress ==
  ack = "none" => \A h \in Clients :
    /\ hpc[h] = "xdp" => ~rc[h]
    /\ hpc[h] = "ipset" => IF Bans(cmd[h]) THEN rc[h] => xdp ELSE ~rc[h] /\ (xdp => "xdp" \in left)
    /\ hpc[h] = "test" => ~Bans(cmd[h]) /\ (xdp => "xdp" \in left)
    /\ hpc[h] = "reply" /\ rc[h] => IF Bans(cmd[h]) THEN xdp \/ ipset ELSE Cleared

IInv == TypeOK /\ DownInv /\ WholeInv /\ FreshInv /\ Solo /\ Progress /\ AckedIsEffective

-----------------------------------------------------------------------------
(* Every thread and the process keep the type of the state: what a file holds is
   a listing, nothing, an empty file or a mixture. *)
THEOREM DaemonTypeCorrect == Spec => []TypeOK
<1> USE DEF TypeOK, AllCommands, Content, Listing, kernel, files, clients, exports, history
<1>1. Init => TypeOK
  <2> SUFFICES ASSUME Init PROVE TypeOK
    OBVIOUS
  <2>1. /\ hpc \in [Clients -> {"idle", "xdp", "ipset", "test", "reply"}]
        /\ cmd \in [Clients -> AllCommands] /\ rc \in [Clients -> BOOLEAN]
    BY DEF Init
  <2>2. /\ epc \in [Exporters -> {"idle", "list", "open", "write", "rename", "clear"}]
        /\ snap \in [Exporters -> Listing] /\ fd \in [Exporters -> {"none", "tmp", "file", "gone"}]
    BY DEF Init
  <2> QED
    BY <2>1, <2>2 DEF Init
<1>2. TypeOK /\ [Next]_vars => TypeOK'
  <2> SUFFICES ASSUME TypeOK, [Next]_vars PROVE TypeOK'
    OBVIOUS
  <2>1. ASSUME NEW h \in Clients, Receive(h) PROVE TypeOK'
    BY <2>1, CommandsAssumption DEF Receive
  <2>2. ASSUME NEW h \in Clients, BanXdp(h) PROVE TypeOK'
    <3>1. hpc' \in [Clients -> {"idle", "xdp", "ipset", "test", "reply"}] /\ rc' \in [Clients -> BOOLEAN]
      BY <2>2 DEF BanXdp
    <3>2. xdp' \in BOOLEAN /\ ipset' \in BOOLEAN
      BY <2>2 DEF BanXdp
    <3> QED
      BY <2>2, <3>1, <3>2 DEF BanXdp
  <2>3. ASSUME NEW h \in Clients, BanIpset(h) PROVE TypeOK'
    <3>1. hpc' \in [Clients -> {"idle", "xdp", "ipset", "test", "reply"}] /\ rc' \in [Clients -> BOOLEAN]
      BY <2>3 DEF BanIpset
    <3>2. xdp' \in BOOLEAN /\ ipset' \in BOOLEAN
      BY <2>3 DEF BanIpset
    <3> QED
      BY <2>3, <3>1, <3>2 DEF BanIpset
  <2>4. ASSUME NEW h \in Clients, UnbanXdp(h) PROVE TypeOK'
    <3>1. hpc' \in [Clients -> {"idle", "xdp", "ipset", "test", "reply"}] /\ rc' \in [Clients -> BOOLEAN]
      BY <2>4 DEF UnbanXdp
    <3>2. xdp' \in BOOLEAN /\ ipset' \in BOOLEAN /\ left' \subseteq {"xdp", "ipset"}
      BY <2>4 DEF UnbanXdp, LeftBehind
    <3> QED
      BY <2>4, <3>1, <3>2 DEF UnbanXdp
  <2>5. ASSUME NEW h \in Clients, UnbanIpset(h) PROVE TypeOK'
    <3>1. hpc' \in [Clients -> {"idle", "xdp", "ipset", "test", "reply"}] /\ rc' \in [Clients -> BOOLEAN]
      BY <2>5 DEF UnbanIpset
    <3>2. xdp' \in BOOLEAN /\ ipset' \in BOOLEAN
      BY <2>5 DEF UnbanIpset
    <3> QED
      BY <2>5, <3>1, <3>2 DEF UnbanIpset
  <2>6. ASSUME NEW h \in Clients, UnbanTest(h) PROVE TypeOK'
    <3>1. hpc' \in [Clients -> {"idle", "xdp", "ipset", "test", "reply"}] /\ rc' \in [Clients -> BOOLEAN]
      BY <2>6 DEF UnbanTest
    <3>2. xdp' \in BOOLEAN /\ ipset' \in BOOLEAN /\ left' \subseteq {"xdp", "ipset"}
      BY <2>6 DEF UnbanTest, LeftBehind
    <3> QED
      BY <2>6, <3>1, <3>2 DEF UnbanTest
  <2>7. ASSUME NEW h \in Clients, Reply(h) PROVE TypeOK'
    BY <2>7 DEF Reply, Leave
  <2>8. CASE OtherCommand
    BY <2>8 DEF OtherCommand
  <2>9. ASSUME NEW e \in Exporters, ExportBegin(e) PROVE TypeOK'
    BY <2>9 DEF ExportBegin
  <2>10. ASSUME NEW e \in Exporters, ExportList(e) PROVE TypeOK'
    <3>1. /\ epc' \in [Exporters -> {"idle", "list", "open", "write", "rename", "clear"}]
          /\ snap' \in [Exporters -> Listing] /\ fd' \in [Exporters -> {"none", "tmp", "file", "gone"}]
      BY <2>10 DEF ExportList, GiveUp, ListingOf
    <3>2. stale' \in BOOLEAN
      BY <2>10 DEF ExportList, GiveUp, ListingOf
    <3> QED
      BY <2>10, <3>1, <3>2 DEF ExportList, GiveUp, ListingOf
  <2>11. ASSUME NEW e \in Exporters, ExportOpen(e) PROVE TypeOK'
    <3>1. /\ epc' \in [Exporters -> {"idle", "list", "open", "write", "rename", "clear"}]
          /\ snap' \in [Exporters -> Listing] /\ fd' \in [Exporters -> {"none", "tmp", "file", "gone"}]
      BY <2>11 DEF ExportOpen, GiveUp
    <3>2. stale' \in BOOLEAN
      BY <2>11 DEF ExportOpen, GiveUp
    <3> QED
      BY <2>11, <3>1, <3>2 DEF ExportOpen, GiveUp
  <2>12. ASSUME NEW e \in Exporters, ExportWrite(e) PROVE TypeOK'
    BY <2>12 DEF ExportWrite, Written
  <2>13. ASSUME NEW e \in Exporters, ExportRename(e) PROVE TypeOK'
    BY <2>13 DEF ExportRename
  <2>14. ASSUME NEW e \in Exporters, ExportClear(e) PROVE TypeOK'
    <3>1. /\ epc' \in [Exporters -> {"idle", "list", "open", "write", "rename", "clear"}]
          /\ snap' \in [Exporters -> Listing] /\ fd' \in [Exporters -> {"none", "tmp", "file", "gone"}]
      BY <2>14 DEF ExportClear
    <3>2. stale' \in BOOLEAN
      BY <2>14 DEF ExportClear
    <3> QED
      BY <2>14, <3>1, <3>2 DEF ExportClear
  <2>15. CASE StopRequest
    BY <2>15 DEF StopRequest
  <2>16. CASE Exit
    BY <2>16 DEF Exit, Die
  <2>17. CASE Crash
    BY <2>17 DEF Crash, Die
  <2>18. CASE Restart
    BY <2>18 DEF Restart, Restore, ListingOf
  <2>19. CASE UNCHANGED vars
    BY <2>19 DEF vars
  <2> QED
    BY <2>1, <2>2, <2>3, <2>4, <2>5, <2>6, <2>7, <2>8, <2>9, <2>10, <2>11, <2>12, <2>13,
       <2>14, <2>15, <2>16, <2>17, <2>18, <2>19 DEF Next, Client, Export
<1> QED
  BY <1>1, <1>2, PTL DEF Spec

-----------------------------------------------------------------------------
(* A process that is down starts nothing but itself. *)
LEMMA DownStep ==
  ASSUME TypeOK, DownInv, [Next]_vars
  PROVE  DownInv'
<1> USE DEF TypeOK, DownInv, Busy, Exporting, kernel, files, clients, exports, history
<1>1. CASE mode' # "down"
  BY <1>1
<1>2. CASE Exit \/ Crash
  BY <1>2 DEF Exit, Crash, Die
<1>3. CASE mode = "down" /\ mode' = "down" /\ UNCHANGED <<hpc, epc, fd>>
  BY <1>3
<1>4. ASSUME NEW h \in Clients, Client(h), mode' = "down" PROVE DownInv'
  BY <1>4 DEF Client, Receive, BanXdp, BanIpset, UnbanXdp, UnbanIpset, UnbanTest, Reply
<1>5. ASSUME NEW e \in Exporters, Export(e), mode' = "down" PROVE DownInv'
  BY <1>5 DEF Export, ExportBegin, ExportList, ExportOpen, ExportWrite, ExportRename, ExportClear
<1>6. CASE OtherCommand \/ StopRequest \/ Restart \/ UNCHANGED vars
  BY <1>3, <1>6 DEF OtherCommand, StopRequest, Restart, vars
<1> QED
  BY <1>1, <1>2, <1>4, <1>5, <1>6 DEF Next

(* Whatever other threads do, an exporter that runs alone finds in the temporary
   file what it has put there, and renames a whole listing. *)
LEMMA WholeStep ==
  ASSUME TypeOK, DownInv, WholeInv, [Next]_vars
  PROVE  WholeInv'
<1> USE DEF TypeOK, WholeInv, kernel, files, clients, exports, history
<1>1. CASE UNCHANGED <<file, tmp, epc, snap, fd, mixed>>
  BY <1>1 DEF Alone, Streams, Exporting
<1>2. ASSUME NEW e \in Exporters, ExportBegin(e), ~mixed' PROVE WholeInv'
  <2>1. ~mixed /\ \A o \in Exporters : o # e => ~Exporting(o)
    BY <1>2 DEF ExportBegin
  <2>2. Alone'
    BY <1>2, <2>1 DEF ExportBegin, Alone, Exporting
  <2>3. Streams'
    BY <1>2, <2>1 DEF ExportBegin, Streams
  <2> QED
    BY <1>2, <2>1, <2>2, <2>3 DEF ExportBegin
<1>3. ASSUME NEW e \in Exporters, epc[e] # "idle", ~mixed, ~mixed', UNCHANGED <<file>>,
             \A o \in Exporters : o # e => UNCHANGED <<epc[o], snap[o], fd[o]>>,
             /\ fd'[e] = IF epc'[e] = "write" THEN "tmp" ELSE "none"
             /\ epc'[e] = "write" => tmp' = "empty"
             /\ epc'[e] = "rename" => tmp' = snap'[e]
      PROVE  WholeInv'
  <2>1. \A o \in Exporters : o # e => epc[o] = "idle"
    BY <1>3 DEF Alone, Exporting
  <2>2. Alone'
    BY <1>3, <2>1 DEF Alone, Exporting
  <2>3. Streams'
    BY <1>3, <2>1 DEF Streams
  <2> QED
    BY <1>3, <2>2, <2>3
<1>4. ASSUME NEW e \in Exporters, ExportList(e), ~mixed' PROVE WholeInv'
  BY <1>3, <1>4 DEF ExportList, GiveUp, Streams
<1>5. ASSUME NEW e \in Exporters, ExportOpen(e), ~mixed' PROVE WholeInv'
  BY <1>3, <1>5 DEF ExportOpen, GiveUp, Streams
<1>6. ASSUME NEW e \in Exporters, ExportWrite(e), ~mixed' PROVE WholeInv'
  BY <1>3, <1>6 DEF ExportWrite, Written, Streams
<1>7. ASSUME NEW e \in Exporters, ExportRename(e), ~mixed' PROVE WholeInv'
  <2>1. /\ ~mixed /\ tmp = snap[e] /\ snap[e] \in Listing
        /\ \A o \in Exporters : (o # e => epc[o] = "idle") /\ fd[o] = "none"
    BY <1>7 DEF ExportRename, Streams, Alone, Exporting
  <2>2. /\ file' = tmp /\ snap' = snap /\ epc' = [epc EXCEPT ![e] = "clear"]
        /\ \A o \in Exporters : fd'[o] = "none"
    BY <1>7, <2>1 DEF ExportRename, Listing
  <2>3. Alone'
    BY <2>1, <2>2 DEF Alone, Exporting
  <2>4. Streams'
    BY <2>1, <2>2 DEF Streams
  <2> QED
    BY <2>1, <2>2, <2>3, <2>4
<1>8. ASSUME NEW e \in Exporters, ExportClear(e), ~mixed' PROVE WholeInv'
  BY <1>3, <1>8 DEF ExportClear, Streams
<1>9. CASE Exit \/ Crash
  BY <1>9 DEF Exit, Crash, Die, Alone, Streams, Exporting
<1>10. CASE Restart
  <2>1. Alone' /\ Streams'
    BY <1>10 DEF Restart, DownInv, Alone, Streams, Exporting
  <2>2. ~mixed' => file' \in Listing
    BY <1>10 DEF Restart, Listing, ListingOf
  <2> QED
    BY <2>1, <2>2
<1>11. CASE \/ \E h \in Clients : Client(h)
            \/ OtherCommand \/ StopRequest \/ UNCHANGED vars
  BY <1>1, <1>11 DEF Client, Receive, BanXdp, BanIpset, UnbanXdp, UnbanIpset, UnbanTest, Reply,
                     OtherCommand, StopRequest, vars
<1>12. CASE mixed'
  BY <1>12
<1> QED
  BY <1>2, <1>4, <1>5, <1>6, <1>7, <1>8, <1>9, <1>10, <1>11, <1>12 DEF Next, Export

(* A clean mark means a fresh file: whoever changes the ipset owes the mark until
   it answers, and the mark stands until an export that listed the change has
   renamed its file. *)
LEMMA FreshStep ==
  ASSUME TypeOK, TypeOK', DownInv, WholeInv, WholeInv', FreshInv, [Next]_vars
  PROVE  FreshInv'
<1> DEFINE Fresh == file = ListingOf(ipset)
           Held == \A e \in Exporters :
             /\ epc[e] \in {"open", "write", "rename"} => snap[e] = ListingOf(ipset) \/ Owed
             /\ epc[e] = "clear" => Fresh \/ Owed
<1> USE DEF TypeOK, kernel, files, clients, exports, history
<1>1. SUFFICES ASSUME ~stale', ~mixed', mode' # "down"
               PROVE  (Fresh \/ dirty \/ Owed)' /\ Held'
  BY DEF FreshInv
<1>2. CASE Restart
  <2>1. Fresh' /\ \A e \in Exporters : epc'[e] = "idle"
    BY <1>1, <1>2 DEF Restart, DownInv, Exporting
  <2> QED
    BY <2>1
<1>3. CASE Exit \/ Crash
  BY <1>1, <1>3 DEF Exit, Crash, Die
<1>4. ASSUME ~Restart, ~Exit, ~Crash, [Next]_vars
      PROVE  (Fresh \/ dirty \/ Owed)' /\ Held'
  <2>1. ~stale /\ ~mixed /\ mode # "down"
    <3>1. ASSUME NEW h \in Clients, Client(h) PROVE ~stale /\ ~mixed /\ mode # "down"
      <4>1. CASE Receive(h) \/ BanXdp(h) \/ BanIpset(h)
        BY <1>1, <4>1 DEF Receive, BanXdp, BanIpset
      <4>2. CASE UnbanXdp(h) \/ UnbanIpset(h)
        BY <1>1, <4>2 DEF UnbanXdp, UnbanIpset
      <4>3. CASE UnbanTest(h)
        BY <1>1, <4>3 DEF UnbanTest
      <4>4. CASE Reply(h)
        BY <1>1, <4>4 DEF Reply, Leave
      <4> QED
        BY <3>1, <4>1, <4>2, <4>3, <4>4 DEF Client
    <3>2. ASSUME NEW e \in Exporters, Export(e) PROVE ~stale /\ ~mixed /\ mode # "down"
      <4>1. CASE ExportBegin(e)
        BY <1>1, <4>1 DEF ExportBegin
      <4>2. CASE ExportList(e) \/ ExportOpen(e)
        BY <1>1, <4>2 DEF ExportList, ExportOpen, GiveUp
      <4>3. CASE ExportWrite(e) \/ ExportRename(e) \/ ExportClear(e)
        BY <1>1, <4>3 DEF ExportWrite, ExportRename, ExportClear
      <4> QED
        BY <3>2, <4>1, <4>2, <4>3 DEF Export
    <3>3. CASE OtherCommand \/ StopRequest \/ UNCHANGED vars
      BY <1>1, <3>3 DEF OtherCommand, StopRequest, vars
    <3> QED
      BY <1>4, <3>1, <3>2, <3>3 DEF Next
  <2>2. (Fresh \/ dirty \/ Owed) /\ Held
    BY <2>1 DEF FreshInv
  <2>3. CASE UNCHANGED <<file, ipset, epc, snap>> /\ (dirty => dirty') /\ (Owed => Owed')
    BY <2>2, <2>3
  <2>4. ASSUME NEW h \in Clients, Client(h)
        PROVE  (Fresh \/ dirty \/ Owed)' /\ Held'
    <3>1. ASSUME hpc[h] # "reply", \A g \in Clients : g # h => hpc'[g] = hpc[g] /\ rc'[g] = rc[g]
          PROVE  Owed => Owed'
      BY <3>1 DEF Owed
    <3>2. CASE Receive(h) \/ BanXdp(h) \/ UnbanXdp(h) \/ UnbanTest(h)
      <4>1. CASE Receive(h) \/ BanXdp(h) \/ UnbanXdp(h)
        <5>1. hpc[h] # "reply" /\ \A g \in Clients : g # h => hpc'[g] = hpc[g] /\ rc'[g] = rc[g]
          <6>1. CASE Receive(h) \/ BanXdp(h)
            BY <6>1 DEF Receive, BanXdp
          <6>2. CASE UnbanXdp(h)
            <7>1. hpc[h] = "xdp" /\ hpc' = [hpc EXCEPT ![h] = "ipset"] /\ rc' = rc
              BY <6>2 DEF UnbanXdp
            <7> QED
              BY <7>1
          <6> QED
            BY <4>1, <6>1, <6>2
        <5>2. UNCHANGED <<file, ipset, epc, snap, dirty>>
          BY <4>1 DEF Receive, BanXdp, UnbanXdp
        <5>3. Owed => Owed'
          BY <3>1, <5>1
        <5> QED
          BY <2>3, <5>2, <5>3
      <4>2. CASE UnbanTest(h)
        <5>1. PICK gone \in {TRUE, ~ipset} : rc' = [rc EXCEPT ![h] = gone]
          BY <4>2 DEF UnbanTest
        <5>2. hpc[h] = "test" /\ \A g \in Clients : g # h => hpc'[g] = hpc[g] /\ rc'[g] = rc[g]
          BY <4>2, <5>1 DEF UnbanTest
        <5>3. UNCHANGED <<file, ipset, epc, snap, dirty>>
          BY <4>2 DEF UnbanTest
        <5>4. Owed => Owed'
          BY <3>1, <5>2
        <5> QED
          BY <2>3, <5>3, <5>4
      <4> QED
        BY <3>2, <4>1, <4>2
    <3>3. CASE BanIpset(h) \/ UnbanIpset(h)
      <4>1. CASE ipset' = ipset /\ UNCHANGED <<file, epc, snap, dirty>>
        BY <2>3, <3>1, <3>3, <4>1 DEF BanIpset, UnbanIpset
      <4>2. CASE hpc' = [hpc EXCEPT ![h] = "reply"] /\ rc' = [rc EXCEPT ![h] = TRUE]
        <5>1. Owed'
          BY <4>2 DEF Owed
        <5> QED
          BY <5>1
      <4> QED
        BY <3>3, <4>1, <4>2 DEF BanIpset, UnbanIpset
    <3>4. CASE Reply(h) /\ rc[h]
      <4>1. dirty'
        BY <1>1, <3>4 DEF Reply, Leave
      <4>2. \A e \in Exporters : epc'[e] = epc[e] /\ ~Listed(e)
        BY <1>1, <3>4 DEF Reply, Leave
      <4> QED
        BY <4>1, <4>2 DEF Listed
    <3>5. CASE Reply(h) /\ ~rc[h]
      <4>1. Owed => Owed'
        BY <3>5 DEF Reply, Leave, Owed
      <4> QED
        BY <2>3, <3>5, <4>1 DEF Reply
    <3> QED
      BY <2>4, <3>2, <3>3, <3>4, <3>5 DEF Client
  <2>5. CASE OtherCommand \/ StopRequest \/ UNCHANGED vars
    BY <2>3, <2>5 DEF OtherCommand, StopRequest, vars, Owed
  <2>6. ASSUME NEW e \in Exporters, Export(e)
        PROVE  (Fresh \/ dirty \/ Owed)' /\ Held'
    <3>1. /\ UNCHANGED <<ipset, hpc, rc>> /\ (Owed' <=> Owed)
          /\ \A o \in Exporters : o # e => epc'[o] = epc[o] /\ snap'[o] = snap[o]
      BY <2>6 DEF Export, ExportBegin, ExportList, ExportOpen, ExportWrite, ExportRename, ExportClear,
                  GiveUp, Owed
    <3>2. CASE ExportBegin(e)
      BY <2>2, <3>1, <3>2 DEF ExportBegin
    <3>3. CASE ExportList(e)
      BY <1>1, <2>2, <3>1, <3>3 DEF ExportList, GiveUp
    <3>4. CASE ExportOpen(e)
      BY <1>1, <2>2, <3>1, <3>4 DEF ExportOpen, GiveUp
    <3>5. CASE ExportWrite(e)
      <4>1. file' = file
        BY <2>1, <3>5 DEF ExportWrite, WholeInv, Streams
      <4> QED
        BY <2>2, <3>1, <3>5, <4>1 DEF ExportWrite
    <3>6. CASE ExportRename(e)
      <4>1. tmp = snap[e] /\ \A o \in Exporters : o # e => epc'[o] = "idle"
        BY <2>1, <3>1, <3>6 DEF ExportRename, WholeInv, Streams, Alone, Exporting
      <4>2. file' = tmp /\ snap' = snap /\ dirty' = dirty /\ epc'[e] = "clear"
        BY <3>6, <4>1 DEF ExportRename, Listing
      <4>3. Fresh' \/ Owed'
        BY <2>2, <3>1, <3>6, <4>1, <4>2 DEF ExportRename
      <4> QED
        BY <4>1, <4>2, <4>3
    <3>7. CASE ExportClear(e)
      <4>1. file' = file /\ (Fresh \/ Owed) /\ epc'[e] = "idle"
        BY <2>2, <3>7 DEF ExportClear
      <4> QED
        BY <2>2, <3>1, <4>1
    <3> QED
      BY <2>6, <3>2, <3>3, <3>4, <3>5, <3>6, <3>7 DEF Export
  <2> QED
    BY <1>4, <2>4, <2>5, <2>6 DEF Next
<1> QED
  BY <1>2, <1>3, <1>4

(* A command that runs alone changes two entries one after the other, and its
   answer counts what it did to both; a restart that agrees with the file keeps
   the effect. *)
LEMMA AckStep ==
  ASSUME TypeOK, TypeOK', DownInv, Solo, Progress, AckedIsEffective, [Next]_vars
  PROVE  Solo' /\ Progress' /\ AckedIsEffective'
<1> DEFINE At(h) ==
      /\ hpc[h] = "xdp" => ~rc[h]
      /\ hpc[h] = "ipset" => IF Bans(cmd[h]) THEN rc[h] => xdp ELSE ~rc[h] /\ (xdp => "xdp" \in left)
      /\ hpc[h] = "test" => ~Bans(cmd[h]) /\ (xdp => "xdp" \in left)
      /\ hpc[h] = "reply" /\ rc[h] => IF Bans(cmd[h]) THEN xdp \/ ipset ELSE Cleared
<1> USE DEF TypeOK, kernel, files, clients, exports, history
<1>1. ack = "none" => \A h \in Clients : At(h)
  BY DEF Progress
<1>2. (ack' = "none" => \A h \in Clients : At(h)') => Progress'
  BY DEF Progress
<1>3. CASE UNCHANGED <<xdp, ipset, hpc, cmd, rc, ack, left>>
  BY <1>3 DEF Solo, Progress, AckedIsEffective, Cleared, Busy
<1>4. ASSUME \A h \in Clients : ~Busy(h)' PROVE Solo' /\ Progress'
  BY <1>2, <1>4 DEF Solo, Busy
<1>5. CASE Exit
  <2>1. \A h \in Clients : ~Busy(h)'
    BY <1>5 DEF Exit, Die, Busy
  <2>2. ack' \in {"in", "out"} => ack' = ack /\ Agreed
    BY <1>5 DEF Exit
  <2>3. AckedIsEffective'
    BY <1>5, <2>2 DEF Exit, Agreed, AckedIsEffective
  <2> QED
    BY <1>4, <2>1, <2>3
<1>6. CASE Crash
  <2>1. \A h \in Clients : ~Busy(h)'
    BY <1>6 DEF Crash, Die, Busy
  <2> QED
    BY <1>4, <1>6, <2>1 DEF Crash, AckedIsEffective
<1>7. CASE Restart
  <2>1. \A h \in Clients : ~Busy(h)'
    BY <1>7 DEF Restart, DownInv, Busy
  <2>2. ack' \in {"in", "out"} => ack' = ack /\ Agreed
    BY <1>7 DEF Restart
  <2>3. ack' = "in" => ipset'
    BY <1>7, <2>2 DEF Restart, Restore, Agreed, AckedIsEffective
  <2>4. ack' = "out" => ~xdp' /\ ~ipset'
    BY <1>7, <2>2 DEF Restart, Restore, Agreed, AckedIsEffective, ListingOf
  <2> QED
    BY <1>4, <2>1, <2>3, <2>4 DEF AckedIsEffective
<1>8. ASSUME NEW h \in Clients, Receive(h) PROVE Solo' /\ Progress' /\ AckedIsEffective'
  <2>1. ack' = "none" => \A g \in Clients : ~Busy(g)
    BY <1>8 DEF Receive
  <2>2. Solo'
    BY <1>8, <2>1 DEF Receive, Solo, Busy
  <2>3. ack' = "none" => \A g \in Clients : At(g)'
    BY <1>8, <2>1 DEF Receive, Busy
  <2>4. AckedIsEffective'
    BY <1>8 DEF Receive, AckedIsEffective
  <2> QED
    BY <1>2, <2>2, <2>3, <2>4
<1>9. ASSUME NEW h \in Clients, Client(h), ~Receive(h) PROVE Solo' /\ Progress' /\ AckedIsEffective'
  <2>1. /\ Busy(h) /\ (ack = "clash" => ack' = "clash")
        /\ \A g \in Clients : g # h => hpc'[g] = hpc[g]
    BY <1>9 DEF Client, BanXdp, BanIpset, UnbanXdp, UnbanIpset, UnbanTest, Reply, Leave, Busy
  <2>2. CASE ack = "clash"
    BY <1>2, <2>1, <2>2 DEF Solo, AckedIsEffective
  <2>3. CASE ack = "none"
    <3>1. \A g \in Clients : g # h => hpc'[g] = "idle"
      BY <2>1, <2>3 DEF Solo, Busy
    <3>2. ASSUME ack' = "none", At(h)' PROVE Solo' /\ Progress' /\ AckedIsEffective'
      <4>1. \A g \in Clients : At(g)'
        BY <3>1, <3>2
      <4> HIDE DEF At
      <4>2. Solo'
        BY <3>1, <3>2 DEF Solo, Busy
      <4> QED
        BY <1>2, <3>2, <4>1, <4>2 DEF AckedIsEffective
    <3>3. At(h)
      BY <1>1, <2>3
    <3>4. CASE BanXdp(h)
      BY <2>3, <3>2, <3>3, <3>4 DEF BanXdp
    <3>5. CASE BanIpset(h)
      BY <2>3, <3>2, <3>3, <3>5 DEF BanIpset
    <3>6. CASE UnbanXdp(h)
      BY <2>3, <3>2, <3>3, <3>6 DEF UnbanXdp, LeftBehind
    <3>7. CASE UnbanIpset(h)
      BY <2>3, <3>2, <3>3, <3>7 DEF UnbanIpset, Cleared
    <3>8. CASE UnbanTest(h)
      BY <2>3, <3>2, <3>3, <3>8 DEF UnbanTest, LeftBehind, Cleared
    <3>9. CASE Reply(h)
      <4>1. \A g \in Clients : ~Busy(g)'
        BY <3>1, <3>9 DEF Reply, Leave, Busy
      <4>2. AckedIsEffective'
        BY <2>3, <3>3, <3>9 DEF Reply, Leave, AckedIsEffective, Cleared
      <4> QED
        BY <1>4, <4>1, <4>2
    <3> QED
      BY <1>9, <3>4, <3>5, <3>6, <3>7, <3>8, <3>9 DEF Client
  <2> QED
    BY <2>1, <2>2, <2>3 DEF Solo
<1>10. CASE \/ \E e \in Exporters : Export(e)
            \/ OtherCommand \/ StopRequest \/ UNCHANGED vars
  BY <1>3, <1>10 DEF Export, ExportBegin, ExportList, ExportOpen, ExportWrite, ExportRename,
                     ExportClear, GiveUp, OtherCommand, StopRequest, vars
<1> QED
  BY <1>5, <1>6, <1>7, <1>8, <1>9, <1>10 DEF Next

-----------------------------------------------------------------------------
(* The inductive invariant of the daemon. *)
THEOREM DaemonInvariant == Spec => []IInv
<1>1. Init => DownInv /\ WholeInv /\ FreshInv /\ Solo /\ Progress /\ AckedIsEffective
  BY DEF Init, DownInv, WholeInv, FreshInv, Solo, Progress, AckedIsEffective, Alone, Streams,
         Busy, Exporting, Listing, ListingOf
<1>2. IInv /\ TypeOK' /\ [Next]_vars => IInv'
  BY DownStep, WholeStep, FreshStep, AckStep DEF IInv
<1> QED
  BY <1>1, <1>2, DaemonTypeCorrect, PTL DEF Spec, IInv

(* active_bans.json is whole at every moment, through crashes at any step of an
   export, as long as the two exporters have not overlapped since the start. *)
THEOREM FileStaysWhole == Spec => []FileWhole
<1>1. IInv => FileWhole
  BY DEF IInv, WholeInv, FileWhole
<1> QED
  BY <1>1, DaemonInvariant, PTL

(* A daemon at rest with a clean mark has a file that agrees with the ipset, as
   long as no export failed, overlapped or was overtaken by a mark. *)
THEOREM FileIsFresh == Spec => []FileFresh
<1>1. IInv => FileFresh
  BY DEF IInv, FreshInv, FileFresh, AtRest, Owed, Busy
<1> QED
  BY <1>1, DaemonInvariant, PTL

(* An acknowledged command that ran alone keeps its effect until the next one,
   also through crashes and restarts that agree with the file; what an unban
   leaves is what its own calls failed to remove. *)
THEOREM AcknowledgedIsEffective == Spec => []AckedIsEffective
<1>1. IInv => AckedIsEffective
  BY DEF IInv
<1> QED
  BY <1>1, DaemonInvariant, PTL
=============================================================================
