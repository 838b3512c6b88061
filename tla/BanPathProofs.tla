--------------------------- MODULE BanPathProofs ---------------------------
(***************************************************************************)
(* What a ban or an unban reports is what the kernel does, for any number  *)
(* of threads, addresses, connections and attempts, although every request *)
(* may time out at its client and be carried out later.                    *)
(*                                                                         *)
(* The daemon's messages name no caller, so the argument is about what is  *)
(* under way for an address: as long as its calls do not overlap, all of   *)
(* it is one and the same request, however often it was repeated (Alone);  *)
(* a connection of a caller's own carries nothing else (Own); and an       *)
(* answer that reports a ban finds the address dropped, because nothing    *)
(* that could lift the ban is under way (Effective).                       *)
(***************************************************************************)
EXTENDS BanPath, SequenceTheorems, TLAPS

(* Where a thread is says what it was asked to do, and the attempts of a ban
   are counted. *)
Control ==
  \A t \in Threads :
    /\ pc[t] \in {"shared_send", "shared_recv"} => call[t].op \in {"ban", "tarpit"}
    /\ pc[t] \in {"connect", "recv"} => call[t].op \in {"ban", "unban"}
    /\ pc[t] \in {"loader", "add"} => call[t].op = "ban"
    /\ pc[t] \in {"ping", "del", "test", "retest"} => call[t].op = "unban"
    /\ pc[t] \notin {"loader", "add"} => try[t] < Retries

(* A connection carries one response at most, after the daemon has closed it;
   its handler starts without a success and goes on to the ipset for bans and
   unbans, and to its test for unbans. *)
Sockets ==
  \A c \in Conns :
    /\ Len(reply[c]) <= 1
    /\ hpc[c] # "closed" => reply[c] = << >>
    /\ hpc[c] \in {"none", "recv", "xdp", "closed"} => ~ok[c]
    /\ hpc[c] = "ipset" => msg[c].op # "tarpit"
    /\ hpc[c] = "test" => msg[c].op # "ban"

(* The connection on which the thread t waits carries nothing but its request. *)
OwnConn(t) ==
  /\ conn[t] \in OneShots /\ hpc[conn[t]] # "none" /\ peer[conn[t]]
  /\ \A i \in 1 .. Len(inbox[conn[t]]) : inbox[conn[t]][i] = call[t]
  /\ hpc[conn[t]] \in WorkSteps => msg[conn[t]] = call[t]
  /\ reply[conn[t]] # << >> => Head(reply[conn[t]]).req = call[t]

(* No two threads wait on the same one. *)
Own ==
  \A t \in Threads : pc[t] = "recv" =>
    /\ OwnConn(t)
    /\ \A u \in Threads : pc[u] = "recv" /\ conn[u] = conn[t] => u = t

(* As long as no ban of an address overlaps an unban, everything under way for it
   is the same request, by however many callers; what is under way after a
   success is the request that succeeded. *)
Alone ==
  \A q \in Ips : result[q] # "clash" =>
    /\ \A m, n \in Calls : Underway(m) /\ Underway(n) /\ Asks(m, q) /\ Asks(n, q) => m = n
    /\ \A m \in Calls : Underway(m) /\ Asks(m, q) =>
         /\ result[q] = "in" => m.op = "ban"
         /\ result[q] = "out" => m.op = "unban"

(* The answer r says that the ban m has been done, and it is in effect. *)
Told(r, m) ==
  m.op = "ban" /\ r.ok /\ r.req = m /\ result[m.ip] # "clash" => entries[m.ip] # {}

(* A success that the daemon has noted, or that an answer on its way reports, is
   in effect, and so is the ipset del of an unban about to test it, for a call
   that nothing opposes. *)
Effective ==
  /\ \A c \in Conns : hpc[c] \in {"ipset", "send"} => Told([req |-> msg[c], ok |-> ok[c]], msg[c])
  /\ \A t \in Threads :
       /\ pc[t] = "shared_recv" /\ reply[Shared] # << >> => Told(Head(reply[Shared]), call[t])
       /\ pc[t] = "recv" /\ reply[conn[t]] # << >> => Told(Head(reply[conn[t]]), call[t])
       /\ pc[t] = "test" /\ result[call[t].ip] # "clash" => "ipset" \notin entries[call[t].ip]

IInv == TypeOK /\ Control /\ Sockets /\ Own /\ Alone /\ Effective /\ ResultIsEffect

-----------------------------------------------------------------------------
(* The first element of a sequence and those after it. *)
LEMMA TailFacts ==
  ASSUME NEW S, NEW s \in Seq(S), s # << >>
  PROVE  /\ Head(s) \in S /\ Head(s) = s[1] /\ 1 \in 1 .. Len(s)
         /\ Tail(s) \in Seq(S) /\ Len(Tail(s)) = Len(s) - 1
         /\ \A i \in 1 .. Len(Tail(s)) : i + 1 \in 1 .. Len(s) /\ Tail(s)[i] = s[i + 1]
  BY HeadTailProperties

(* Nothing is left of a sequence of one element. *)
LEMMA TailOfOne ==
  ASSUME NEW S, NEW s \in Seq(S), s # << >>, Len(s) <= 1
  PROVE  Tail(s) = << >>
<1>1. Tail(s) \in Seq(S) /\ Len(Tail(s)) = Len(s) - 1 /\ 1 \in 1 .. Len(s)
  BY TailFacts
<1>2. Len(s) \in Nat
  BY LenProperties
<1>3. Len(s) = 1
  BY <1>1, <1>2
<1>4. Len(Tail(s)) = 0
  BY <1>1, <1>3
<1> QED BY <1>1, <1>4, EmptySeq

(* What appending an element leaves and adds. *)
LEMMA AppendFacts ==
  ASSUME NEW S, NEW s \in Seq(S), NEW e \in S
  PROVE  /\ Append(s, e) \in Seq(S) /\ Append(s, e) # << >> /\ Len(Append(s, e)) = Len(s) + 1
         /\ \A i \in 1 .. Len(s) : Append(s, e)[i] = s[i]
         /\ Append(s, e)[Len(s) + 1] = e
         /\ s = << >> => Head(Append(s, e)) = e
  BY AppendProperties

(* The value of an idle thread is a call. *)
LEMMA NoCallType == NoCall \in Calls /\ NoCall.op = "ban"
<1>1. PICK q \in Ips : TRUE
  BY IpsAssumption
<1>2. [op |-> "ban", ip |-> q] \in Calls
  BY DEF Calls
<1>3. \E m \in Calls : m.op = "ban"
  BY <1>2
<1> QED BY <1>3 DEF NoCall

(* The fields of a call. *)
LEMMA CallFields == \A m \in Calls : m.op \in {"ban", "unban", "tarpit"} /\ m.ip \in Ips
  BY DEF Calls

(* Calls are told apart by their fields. *)
LEMMA CallsEqual == \A m, n \in Calls : m.op = n.op /\ m.ip = n.ip => m = n
  BY DEF Calls

(* The shared connection is one of the connections and never one of a
   thread's own. *)
LEMMA SharedFacts == Shared \in Conns /\ Shared \notin OneShots /\ OneShots \subseteq Conns
  BY SharedAssumption DEF Conns

(* At the start nothing is under way. *)
LEMMA InitIInv == Init => IInv
<1> SUFFICES ASSUME Init PROVE IInv
  OBVIOUS
<1> USE NoCallType, SharedFacts DEF Init
<1>1. TypeOK
  BY RetriesAssumption DEF TypeOK
<1>2. Control
  <2>1. 0 < Retries
    BY RetriesAssumption
  <2> QED BY <2>1 DEF Control
<1>3. Sockets
  BY DEF Sockets
<1>4. Own
  BY DEF Own
<1>5. \A m \in Calls : ~Underway(m)
  BY DEF Underway, WorkSteps
<1>6. Alone
  BY <1>5 DEF Alone
<1>7. Effective
  BY DEF Effective
<1>8. ResultIsEffect
  BY DEF ResultIsEffect
<1> QED BY <1>1, <1>2, <1>3, <1>4, <1>6, <1>7, <1>8 DEF IInv

(* What a return leaves. *)
LEMMA ReturnType ==
  ASSUME TypeOK, NEW t \in Threads, NEW b \in BOOLEAN, Return(t, b)
  PROVE  /\ pc' \in [Threads -> {"idle", "shared_send", "shared_recv", "ping", "connect",
                                 "recv", "loader", "add", "del", "test", "retest"}]
         /\ call' \in [Threads -> Calls] /\ try' \in [Threads -> 0 .. Retries]
         /\ conn' \in [Threads -> Conns]
         /\ result' \in [Ips -> {"none", "in", "out", "clash"}]
  BY NoCallType, CallFields, SharedFacts, RetriesAssumption DEF TypeOK, Return, Goto, Outcome

(* The test of an unban ends the call; after a del that failed it is right. *)
LEMMA UnbanTestReturns ==
  ASSUME NEW t \in Threads, UnbanTest(t)
  PROVE  \E b \in BOOLEAN :
           /\ Return(t, b)
           /\ pc[t] = "test" \/ (pc[t] = "retest" /\ (b => "ipset" \notin entries[call[t].ip]))
<1>1. ("ipset" \notin entries[call[t].ip]) \in BOOLEAN
  OBVIOUS
<1>2. CASE pc[t] = "test" /\ \E b \in {TRUE, "ipset" \notin entries[call[t].ip]} : Return(t, b)
  BY <1>1, <1>2
<1>3. CASE pc[t] = "retest" /\ Return(t, "ipset" \notin entries[call[t].ip])
  BY <1>1, <1>3
<1> QED BY <1>2, <1>3 DEF UnbanTest

(* Every step keeps the types. *)
LEMMA StepType == IInv /\ [Next]_vars => TypeOK'
<1> SUFFICES ASSUME IInv, [Next]_vars PROVE TypeOK'
  OBVIOUS
<1> USE SharedFacts, NoCallType, CallFields DEF threads, socket, handler
<1>0. TypeOK
  BY DEF IInv
<1>a. ASSUME NEW q \in Ips, NEW X \in SUBSET {"xdp", "loader", "ipset"},
             entries' = [entries EXCEPT ![q] = X]
      PROVE  entries' \in [Ips -> SUBSET {"xdp", "loader", "ipset"}]
  BY <1>0, <1>a DEF TypeOK
<1>b. ASSUME NEW q \in Ips
      PROVE  /\ entries[q] \cup {"xdp"} \in SUBSET {"xdp", "loader", "ipset"}
             /\ entries[q] \cup {"loader"} \in SUBSET {"xdp", "loader", "ipset"}
             /\ entries[q] \cup {"ipset"} \in SUBSET {"xdp", "loader", "ipset"}
             /\ entries[q] \ {"xdp"} \in SUBSET {"xdp", "loader", "ipset"}
             /\ entries[q] \ {"loader"} \in SUBSET {"xdp", "loader", "ipset"}
             /\ entries[q] \ {"ipset"} \in SUBSET {"xdp", "loader", "ipset"}
  <2>1. entries[q] \in SUBSET {"xdp", "loader", "ipset"}
    BY <1>0 DEF TypeOK
  <2> QED BY <2>1
<1>c. \A t \in Threads : call[t].ip \in Ips
  BY <1>0 DEF TypeOK
<1>d. \A c \in Conns : msg[c].ip \in Ips
  BY <1>0 DEF TypeOK
<1>e. entries \in [Ips -> SUBSET {"xdp", "loader", "ipset"}]
  BY <1>0 DEF TypeOK
<1>1. ASSUME NEW t \in Threads, Call(t) PROVE TypeOK'
  <2>1. PICK m \in Calls :
          /\ call' = [call EXCEPT ![t] = m]
          /\ Goto(t, IF m.op = "unban" THEN "ping" ELSE "shared_send")
          /\ result' = IF m.op = "tarpit" THEN result
                       ELSE [result EXCEPT ![m.ip] =
                              IF ~Quiet(m.ip) /\ (@ = "clash" \/ ~Unopposed(m)) THEN "clash"
                              ELSE IF @ = Outcome(m) THEN @ ELSE "none"]
    BY <1>1 DEF Call
  <2>2. result' \in [Ips -> {"none", "in", "out", "clash"}]
    BY <1>0, <2>1 DEF TypeOK
  <2>3. pc' \in [Threads -> {"idle", "shared_send", "shared_recv", "ping", "connect",
                             "recv", "loader", "add", "del", "test", "retest"}]
    BY <1>0, <2>1 DEF TypeOK, Goto
  <2>4. call' \in [Threads -> Calls]
    BY <1>0, <2>1 DEF TypeOK
  <2> QED BY <1>0, <1>1, <2>2, <2>3, <2>4 DEF TypeOK, Call
<1>2. ASSUME NEW t \in Threads, SharedSend(t) PROVE TypeOK'
  <2>1. call[t] \in Calls /\ inbox[Shared] \in Seq(Calls)
    BY <1>0 DEF TypeOK
  <2>2. Append(inbox[Shared], call[t]) \in Seq(Calls)
    BY <2>1, AppendFacts
  <2>3. inbox' \in [Conns -> Seq(Calls)]
    BY <1>0, <1>2, <2>2 DEF TypeOK, SharedSend
  <2> QED BY <1>0, <1>2, <2>3 DEF TypeOK, SharedSend, Goto
<1>3. ASSUME NEW t \in Threads, SharedRecv(t) PROVE TypeOK'
  <2>1. reply' \in [Conns -> Seq([req : Calls, ok : BOOLEAN])]
    BY <1>0, <1>3, TailFacts DEF TypeOK, SharedRecv
  <2>2. CASE \E b \in BOOLEAN : Return(t, b)
    BY <1>0, <1>3, <2>1, <2>2, ReturnType DEF TypeOK, SharedRecv
  <2>3. CASE ~\E b \in BOOLEAN : Return(t, b)
    BY <1>0, <1>3, <2>1, <2>3 DEF TypeOK, SharedRecv, Goto
  <2> QED BY <2>2, <2>3
<1>4. ASSUME NEW t \in Threads, SharedRecvFails(t) PROVE TypeOK'
  <2>2. CASE Return(t, FALSE)
    BY <1>0, <1>4, <2>2, ReturnType DEF TypeOK, SharedRecvFails
  <2>3. CASE ~Return(t, FALSE)
    BY <1>0, <1>4, <2>3 DEF TypeOK, SharedRecvFails, Goto
  <2> QED BY <2>2, <2>3
<1>5. ASSUME NEW t \in Threads, Ping(t) PROVE TypeOK'
  <2>1. entries' \in [Ips -> SUBSET {"xdp", "loader", "ipset"}]
    BY <1>5, <1>a, <1>b, <1>c, <1>e DEF Ping
  <2>2. pc' \in [Threads -> {"idle", "shared_send", "shared_recv", "ping", "connect",
                             "recv", "loader", "add", "del", "test", "retest"}]
    BY <1>0, <1>5 DEF TypeOK, Ping, Goto
  <2> QED BY <1>0, <1>5, <2>1, <2>2 DEF TypeOK, Ping
<1>6. ASSUME NEW t \in Threads, Request(t) PROVE TypeOK'
  <2>1. <<call[t]>> \in Seq(Calls)
    BY <1>0 DEF TypeOK
  <2>2. inbox' \in [Conns -> Seq(Calls)]
    BY <1>0, <1>6, <2>1 DEF TypeOK, Request
  <2>3. hpc' \in [Conns -> {"none", "recv", "xdp", "ipset", "test", "send", "closed"}]
    BY <1>0, <1>6 DEF TypeOK, Request
  <2>4. peer' \in [Conns -> BOOLEAN] /\ conn' \in [Threads -> Conns]
    BY <1>0, <1>6 DEF TypeOK, Request
  <2>5. pc' = [pc EXCEPT ![t] = "recv"] /\ UNCHANGED <<entries, call, try, reply, msg, ok, result>>
    BY <1>6 DEF Request, Goto
  <2> QED BY <1>0, <2>2, <2>3, <2>4, <2>5 DEF TypeOK
<1>7. ASSUME NEW t \in Threads, pc[t] \in {"connect", "recv"}, NextAttempt(t)
      PROVE  /\ try' \in [Threads -> 0 .. Retries]
             /\ pc' \in [Threads -> {"idle", "shared_send", "shared_recv", "ping", "connect",
                                     "recv", "loader", "add", "del", "test", "retest"}]
  <2>1. try[t] < Retries
    BY <1>7 DEF IInv, Control
  <2> QED BY <1>0, <1>7, <2>1, RetriesAssumption DEF TypeOK, NextAttempt, Goto
<1>8. ASSUME NEW t \in Threads, RequestFails(t) PROVE TypeOK'
  BY <1>0, <1>7, <1>8 DEF TypeOK, RequestFails
<1>9. ASSUME NEW c \in Conns, Close(c)
      PROVE  /\ inbox' \in [Conns -> Seq(Calls)]
             /\ reply' \in [Conns -> Seq([req : Calls, ok : BOOLEAN])]
             /\ hpc' \in [Conns -> {"none", "recv", "xdp", "ipset", "test", "send", "closed"}]
             /\ msg' \in [Conns -> Calls] /\ ok' \in [Conns -> BOOLEAN]
             /\ peer' \in [Conns -> BOOLEAN]
  BY <1>0, <1>9, EmptySeq DEF TypeOK, Close
<1>10. ASSUME NEW t \in Threads, Recv(t) PROVE TypeOK'
  <2>1. conn[t] \in Conns
    BY <1>0 DEF TypeOK
  <2>2. CASE Return(t, TRUE)
    BY <1>0, <1>9, <1>10, <2>1, <2>2, ReturnType DEF TypeOK, Recv
  <2>3. CASE ~Return(t, TRUE)
    <3>1. conn' \in [Threads -> Conns]
      BY <1>0, <1>10, <2>3 DEF TypeOK, Recv
    <3> QED BY <1>0, <1>7, <1>9, <1>10, <2>1, <2>3, <3>1 DEF TypeOK, Recv
  <2> QED BY <2>2, <2>3
<1>11. ASSUME NEW t \in Threads, RecvFails(t) PROVE TypeOK'
  BY <1>0, <1>7, <1>9, <1>11 DEF TypeOK, RecvFails
<1>12. ASSUME NEW t \in Threads, BanLoader(t) PROVE TypeOK'
  <2>1. entries' \in [Ips -> SUBSET {"xdp", "loader", "ipset"}]
    <3>1. \/ entries' = [entries EXCEPT ![call[t].ip] = entries[call[t].ip] \cup {"loader"}]
          \/ entries' = entries
      BY <1>12 DEF BanLoader
    <3> QED BY <3>1, <1>a, <1>b, <1>c, <1>e
  <2>2. CASE Return(t, TRUE)
    BY <1>0, <1>12, <2>1, <2>2, ReturnType DEF TypeOK, BanLoader
  <2>3. CASE ~Return(t, TRUE)
    BY <1>0, <1>12, <2>3 DEF TypeOK, BanLoader, Goto
  <2> QED BY <2>2, <2>3
<1>13. ASSUME NEW t \in Threads, BanAdd(t) PROVE TypeOK'
  <2>1. entries' \in [Ips -> SUBSET {"xdp", "loader", "ipset"}]
    <3>1. \/ entries' = [entries EXCEPT ![call[t].ip] = entries[call[t].ip] \cup {"ipset"}]
          \/ entries' = entries
      BY <1>13 DEF BanAdd
    <3> QED BY <3>1, <1>a, <1>b, <1>c, <1>e
  <2> QED BY <1>0, <1>13, <2>1, ReturnType DEF TypeOK, BanAdd
<1>14. ASSUME NEW t \in Threads, UnbanDel(t) PROVE TypeOK'
  <2>1. entries' \in [Ips -> SUBSET {"xdp", "loader", "ipset"}]
    BY <1>14, <1>a, <1>b, <1>c, <1>e DEF UnbanDel
  <2> QED BY <1>0, <1>14, <2>1 DEF TypeOK, UnbanDel, Goto
<1>15. ASSUME NEW t \in Threads, UnbanTest(t) PROVE TypeOK'
  <2>1. PICK b \in BOOLEAN : Return(t, b)
    BY <1>15, UnbanTestReturns
  <2>2. UNCHANGED <<entries, socket, handler>>
    BY <1>15 DEF UnbanTest
  <2> QED BY <1>0, <2>1, <2>2, ReturnType DEF TypeOK
<1>16. ASSUME NEW c \in Conns, Receive(c) PROVE TypeOK'
  <2>1. Head(inbox[c]) \in Calls /\ Tail(inbox[c]) \in Seq(Calls)
    BY <1>0, <1>16, TailFacts DEF TypeOK, Receive
  <2> QED BY <1>0, <1>16, <2>1 DEF TypeOK, Receive
<1>17. ASSUME NEW c \in Conns, HandleXdp(c) PROVE TypeOK'
  <2>1. entries' \in [Ips -> SUBSET {"xdp", "loader", "ipset"}]
    BY <1>17, <1>a, <1>b, <1>d, <1>e DEF HandleXdp
  <2>2. ok' \in [Conns -> BOOLEAN]
    BY <1>0, <1>17 DEF TypeOK, HandleXdp
  <2>3. hpc' \in [Conns -> {"none", "recv", "xdp", "ipset", "test", "send", "closed"}]
    <3>1. hpc' = [hpc EXCEPT ![c] = "ipset"] \/ hpc' = [hpc EXCEPT ![c] = "send"]
      BY <1>17 DEF HandleXdp
    <3> QED BY <1>0, <3>1 DEF TypeOK
  <2>4. UNCHANGED <<threads, socket, msg, result>>
    BY <1>17 DEF HandleXdp
  <2> QED BY <1>0, <2>1, <2>2, <2>3, <2>4 DEF TypeOK
<1>18. ASSUME NEW c \in Conns, HandleIpset(c) PROVE TypeOK'
  <2>1. entries' \in [Ips -> SUBSET {"xdp", "loader", "ipset"}]
    BY <1>18, <1>a, <1>b, <1>d, <1>e DEF HandleIpset
  <2>2. ok' \in [Conns -> BOOLEAN]
    BY <1>0, <1>18 DEF TypeOK, HandleIpset
  <2>3. hpc' \in [Conns -> {"none", "recv", "xdp", "ipset", "test", "send", "closed"}]
    BY <1>0, <1>18 DEF TypeOK, HandleIpset
  <2>4. UNCHANGED <<threads, socket, msg, result>>
    BY <1>18 DEF HandleIpset
  <2> QED BY <1>0, <2>1, <2>2, <2>3, <2>4 DEF TypeOK
<1>19. ASSUME NEW c \in Conns, HandleTest(c) PROVE TypeOK'
  <2>1. ok' \in [Conns -> BOOLEAN]
    BY <1>0, <1>19 DEF TypeOK, HandleTest
  <2>2. hpc' \in [Conns -> {"none", "recv", "xdp", "ipset", "test", "send", "closed"}]
    BY <1>0, <1>19 DEF TypeOK, HandleTest
  <2>3. UNCHANGED <<entries, threads, socket, msg, result>>
    BY <1>19 DEF HandleTest
  <2> QED BY <1>0, <2>1, <2>2, <2>3 DEF TypeOK
<1>20. ASSUME NEW c \in Conns, Respond(c) PROVE TypeOK'
  <2>1. [req |-> msg[c], ok |-> ok[c]] \in [req : Calls, ok : BOOLEAN]
    BY <1>0 DEF TypeOK
  <2>2. reply' \in [Conns -> Seq([req : Calls, ok : BOOLEAN])]
    BY <1>0, <1>20, <2>1, AppendFacts DEF TypeOK, Respond
  <2>3. inbox' \in [Conns -> Seq(Calls)]
    BY <1>0, <1>20, EmptySeq DEF TypeOK, Respond
  <2> QED BY <1>0, <1>20, <2>2, <2>3 DEF TypeOK, Respond
<1>21. CASE UNCHANGED vars
  BY <1>0, <1>21 DEF TypeOK, vars
<1> QED
  BY <1>1, <1>2, <1>3, <1>4, <1>5, <1>6, <1>8, <1>10, <1>11, <1>12, <1>13, <1>14, <1>15,
     <1>16, <1>17, <1>18, <1>19, <1>20, <1>21 DEF Next, Thread, Handler

-----------------------------------------------------------------------------
(* A step moves one thread or none. *)
LEMMA OneMoves ==
  ASSUME TypeOK, NEW t \in Threads, Call(t) \/ Thread(t), NEW u \in Threads, u # t
  PROVE  pc'[u] = pc[u] /\ call'[u] = call[u] /\ try'[u] = try[u] /\ conn'[u] = conn[u]
<1> USE DEF TypeOK, Goto, threads, socket, handler
<1>1. CASE Call(t)
  BY <1>1 DEF Call
<1>2. CASE SharedSend(t) \/ Ping(t) \/ Request(t) \/ UnbanDel(t)
  BY <1>2 DEF SharedSend, Ping, Request, UnbanDel
<1>3. CASE SharedRecv(t) \/ SharedRecvFails(t) \/ BanLoader(t) \/ BanAdd(t) \/ UnbanTest(t)
  BY <1>3, UnbanTestReturns DEF SharedRecv, SharedRecvFails, BanLoader, BanAdd, Return
<1>4. CASE RequestFails(t) \/ Recv(t) \/ RecvFails(t)
  BY <1>4 DEF RequestFails, Recv, RecvFails, NextAttempt, Return
<1> QED BY <1>1, <1>2, <1>3, <1>4 DEF Thread

(* What a thread's step does to its own control. *)
LEMMA ThreadMoves ==
  ASSUME TypeOK, Control, NEW t \in Threads, Call(t) \/ Thread(t)
  PROVE  /\ pc'[t] \in {"shared_send", "shared_recv"} => call'[t].op \in {"ban", "tarpit"}
         /\ pc'[t] \in {"connect", "recv"} => call'[t].op \in {"ban", "unban"}
         /\ pc'[t] \in {"loader", "add"} => call'[t].op = "ban"
         /\ pc'[t] \in {"ping", "del", "test", "retest"} => call'[t].op = "unban"
         /\ pc'[t] \notin {"loader", "add"} => try'[t] < Retries
<1> DEFINE Goal ==
         /\ pc'[t] \in {"shared_send", "shared_recv"} => call'[t].op \in {"ban", "tarpit"}
         /\ pc'[t] \in {"connect", "recv"} => call'[t].op \in {"ban", "unban"}
         /\ pc'[t] \in {"loader", "add"} => call'[t].op = "ban"
         /\ pc'[t] \in {"ping", "del", "test", "retest"} => call'[t].op = "unban"
         /\ pc'[t] \notin {"loader", "add"} => try'[t] < Retries
<1> USE RetriesAssumption, CallFields DEF threads, socket, handler
<1>0. /\ pc \in [Threads -> {"idle", "shared_send", "shared_recv", "ping", "connect",
                             "recv", "loader", "add", "del", "test", "retest"}]
      /\ call \in [Threads -> Calls] /\ try \in [Threads -> 0 .. Retries]
      /\ 0 < Retries
  BY DEF TypeOK
<1>1. CASE Call(t)
  BY <1>0, <1>1 DEF Control, Call, Goto
<1>2. CASE SharedSend(t) \/ Ping(t) \/ Request(t) \/ UnbanDel(t)
  BY <1>0, <1>2 DEF Control, SharedSend, Ping, Request, UnbanDel, Goto
<1>3. ASSUME NEW b \in BOOLEAN, Return(t, b) PROVE Goal
  BY <1>0, <1>3 DEF Return, Goto
<1>4. CASE SharedRecv(t) \/ SharedRecvFails(t)
  BY <1>0, <1>3, <1>4 DEF Control, SharedRecv, SharedRecvFails, Goto
<1>5. CASE BanLoader(t)
  BY <1>0, <1>3, <1>5 DEF Control, BanLoader, Goto
<1>6. CASE BanAdd(t) \/ UnbanTest(t)
  BY <1>3, <1>6, UnbanTestReturns DEF BanAdd
<1>7. ASSUME NextAttempt(t), pc[t] \in {"connect", "recv"}, UNCHANGED call PROVE Goal
  <2>1. call[t].op \in {"ban", "unban"} /\ try[t] < Retries
    BY <1>7 DEF Control
  <2>2. CASE call[t].op = "unban"
    BY <1>0, <1>7, <2>1, <2>2 DEF NextAttempt, Goto
  <2>3. CASE call[t].op = "ban"
    BY <1>0, <1>7, <2>1, <2>3 DEF NextAttempt, Goto
  <2> QED BY <2>1, <2>2, <2>3
<1>8. CASE RequestFails(t) \/ Recv(t) \/ RecvFails(t)
  BY <1>3, <1>7, <1>8 DEF RequestFails, Recv, RecvFails
<1> QED BY <1>1, <1>2, <1>4, <1>5, <1>6, <1>8 DEF Thread

(* Every step keeps the threads' control. *)
LEMMA StepControl == IInv /\ [Next]_vars => Control'
<1> SUFFICES ASSUME IInv, [Next]_vars PROVE Control'
  OBVIOUS
<1>1. ASSUME NEW t \in Threads, Call(t) \/ Thread(t) PROVE Control'
  <2> SUFFICES ASSUME NEW u \in Threads
               PROVE  /\ pc'[u] \in {"shared_send", "shared_recv"} => call'[u].op \in {"ban", "tarpit"}
                      /\ pc'[u] \in {"connect", "recv"} => call'[u].op \in {"ban", "unban"}
                      /\ pc'[u] \in {"loader", "add"} => call'[u].op = "ban"
                      /\ pc'[u] \in {"ping", "del", "test", "retest"} => call'[u].op = "unban"
                      /\ pc'[u] \notin {"loader", "add"} => try'[u] < Retries
    BY DEF Control
  <2>1. CASE u = t
    BY <1>1, <2>1, ThreadMoves DEF IInv
  <2>2. CASE u # t
    BY <1>1, <2>2, OneMoves DEF IInv, Control
  <2> QED BY <2>1, <2>2
<1>2. ASSUME NEW c \in Conns, Handler(c) PROVE UNCHANGED <<pc, call, try>>
  BY <1>2 DEF Handler, Receive, HandleXdp, HandleIpset, HandleTest, Respond, threads
<1>3. CASE UNCHANGED <<pc, call, try>>
  BY <1>3 DEF IInv, Control
<1> QED BY <1>1, <1>2, <1>3 DEF Next, vars

(* A step of a thread leaves the sockets alone, sends its call on the shared
   connection or on one of its own, takes an answer from the shared connection,
   or closes its own. *)
LEMMA ThreadSockets ==
  ASSUME NEW t \in Threads, Call(t) \/ Thread(t)
  PROVE  \/ UNCHANGED <<inbox, reply, hpc, msg, ok, peer>>
         \/ SharedSend(t) /\ UNCHANGED <<reply, hpc, msg, ok, peer>>
                          /\ inbox' = [inbox EXCEPT ![Shared] = Append(@, call[t])]
         \/ SharedRecv(t) /\ UNCHANGED <<inbox, hpc, msg, ok, peer>>
         \/ Request(t) /\ UNCHANGED <<reply, msg, ok>>
         \/ (Recv(t) \/ RecvFails(t)) /\ pc[t] = "recv" /\ Close(conn[t])
<1> USE DEF threads, socket, handler
<1>1. CASE Call(t) \/ Ping(t) \/ UnbanDel(t) \/ SharedRecvFails(t)
  BY <1>1 DEF Call, Ping, UnbanDel, SharedRecvFails
<1>2. CASE SharedSend(t) \/ SharedRecv(t) \/ Request(t)
  BY <1>2 DEF SharedSend, SharedRecv, Request
<1>3. CASE BanLoader(t) \/ BanAdd(t) \/ UnbanTest(t) \/ RequestFails(t)
  BY <1>3 DEF BanLoader, BanAdd, UnbanTest, RequestFails
<1>4. CASE Recv(t) \/ RecvFails(t)
  BY <1>4 DEF Recv, RecvFails
<1> QED BY <1>1, <1>2, <1>3, <1>4 DEF Thread

(* Every step keeps a connection to one response. *)
LEMMA StepSockets == IInv /\ [Next]_vars => Sockets'
<1> SUFFICES ASSUME IInv, [Next]_vars PROVE Sockets'
  OBVIOUS
<1> USE SharedFacts DEF threads, socket, handler
<1>0. TypeOK /\ Sockets /\ TypeOK'
  BY StepType DEF IInv
<1>t. /\ reply \in [Conns -> Seq([req : Calls, ok : BOOLEAN])]
      /\ hpc \in [Conns -> {"none", "recv", "xdp", "ipset", "test", "send", "closed"}]
      /\ ok \in [Conns -> BOOLEAN] /\ msg \in [Conns -> Calls]
  BY <1>0 DEF TypeOK
<1>e. Len(<< >>) = 0
  OBVIOUS
<1>1. CASE UNCHANGED <<reply, hpc, ok, msg>>
  BY <1>0, <1>1 DEF Sockets
<1>2. ASSUME NEW t \in Threads, SharedRecv(t), UNCHANGED <<hpc, ok, msg>> PROVE Sockets'
  <2>1. reply[Shared] # << >> /\ reply' = [reply EXCEPT ![Shared] = Tail(reply[Shared])]
    BY <1>2 DEF SharedRecv
  <2>2. Len(Tail(reply[Shared])) <= 1 /\ hpc[Shared] = "closed"
    BY <1>0, <1>t, <2>1, TailFacts DEF Sockets
  <2> QED BY <1>0, <1>t, <1>2, <2>1, <2>2 DEF Sockets
<1>3. ASSUME NEW t \in Threads, Request(t), UNCHANGED <<reply, ok, msg>> PROVE Sockets'
  BY <1>0, <1>t, <1>3 DEF Sockets, Request
<1>4. ASSUME NEW c \in Conns, Close(c) PROVE Sockets'
  <2>1. /\ reply' = [reply EXCEPT ![c] = << >>] /\ UNCHANGED <<ok, msg>>
        /\ \/ hpc' = hpc
           \/ hpc[c] = "closed" /\ hpc' = [hpc EXCEPT ![c] = "none"]
    BY <1>4 DEF Close
  <2> QED BY <1>0, <1>t, <1>e, <2>1 DEF Sockets
<1>5. ASSUME NEW c \in Conns, Receive(c) \/ HandleXdp(c) \/ HandleIpset(c) \/ HandleTest(c)
      PROVE Sockets'
  <2>1. /\ UNCHANGED reply /\ hpc[c] # "closed"
        /\ \/ /\ hpc[c] = "recv" /\ hpc' = [hpc EXCEPT ![c] = "xdp"] /\ UNCHANGED ok
              /\ \A d \in Conns \ {c} : msg'[d] = msg[d]
           \/ /\ \E p \in {"ipset", "test", "send"} :
                   /\ hpc' = [hpc EXCEPT ![c] = p]
                   /\ p = "ipset" => msg[c].op # "tarpit"
                   /\ p = "test" => msg[c].op # "ban"
              /\ UNCHANGED msg
        /\ \A d \in Conns \ {c} : ok'[d] = ok[d]
    BY <1>t, <1>5 DEF Receive, HandleXdp, HandleIpset, HandleTest
  <2> QED BY <1>0, <1>t, <2>1 DEF Sockets
<1>6. ASSUME NEW c \in Conns, Respond(c) PROVE Sockets'
  <2>1. reply[c] = << >> /\ [req |-> msg[c], ok |-> ok[c]] \in [req : Calls, ok : BOOLEAN]
    BY <1>0, <1>6 DEF Respond, Sockets, TypeOK
  <2>2. Len(Append(reply[c], [req |-> msg[c], ok |-> ok[c]])) <= 1
    BY <1>t, <2>1, <1>e, AppendFacts
  <2>3. /\ ok' = [ok EXCEPT ![c] = FALSE]
        /\ \A d \in Conns \ {c} : msg'[d] = msg[d]
        /\ \/ hpc' = [hpc EXCEPT ![c] = "closed"]
              /\ reply' = [reply EXCEPT ![c] = Append(reply[c], [req |-> msg[c], ok |-> ok[c]])]
           \/ hpc' = [hpc EXCEPT ![c] = "none"] /\ UNCHANGED reply
    BY <1>t, <1>6 DEF Respond
  <2> QED BY <1>0, <1>t, <2>1, <2>2, <2>3 DEF Sockets
<1>7. ASSUME NEW t \in Threads, Call(t) \/ Thread(t) PROVE Sockets'
  <2>1. conn[t] \in Conns
    BY <1>0 DEF TypeOK
  <2> QED BY <1>1, <1>2, <1>3, <1>4, <1>7, <2>1, ThreadSockets
<1> QED BY <1>1, <1>5, <1>6, <1>7 DEF Next, Handler, vars

(* A thread begins to wait on a connection of its own by a request only. *)
LEMMA WaitsAfterRequest ==
  ASSUME TypeOK, NEW t \in Threads, Call(t) \/ Thread(t), pc'[t] = "recv"
  PROVE  Request(t)
<1> USE DEF threads, socket, handler
<1>0. pc \in [Threads -> {"idle", "shared_send", "shared_recv", "ping", "connect",
                             "recv", "loader", "add", "del", "test", "retest"}]
  BY DEF TypeOK
<1>1. ~Call(t) /\ ~SharedSend(t) /\ ~Ping(t) /\ ~UnbanDel(t)
  BY <1>0 DEF Call, SharedSend, Ping, UnbanDel, Goto
<1>2. \A b \in BOOLEAN : ~Return(t, b)
  BY <1>0 DEF Return, Goto
<1>3. ~SharedRecv(t) /\ ~SharedRecvFails(t) /\ ~BanLoader(t) /\ ~BanAdd(t) /\ ~UnbanTest(t)
  BY <1>0, <1>2, UnbanTestReturns DEF SharedRecv, SharedRecvFails, BanLoader, BanAdd, Goto
<1>4. ~NextAttempt(t)
  BY <1>0 DEF NextAttempt, Goto
<1>5. ~RequestFails(t) /\ ~Recv(t) /\ ~RecvFails(t)
  BY <1>2, <1>4 DEF RequestFails, Recv, RecvFails
<1> QED BY <1>1, <1>3, <1>5 DEF Thread

(* A connection that a step leaves alone stays its thread's own. *)
LEMMA OwnUntouched ==
  ASSUME TypeOK, NEW u \in Threads, OwnConn(u), conn'[u] = conn[u], call'[u] = call[u],
         hpc'[conn[u]] = hpc[conn[u]], inbox'[conn[u]] = inbox[conn[u]],
         msg'[conn[u]] = msg[conn[u]], reply'[conn[u]] = reply[conn[u]],
         peer'[conn[u]] = peer[conn[u]]
  PROVE  OwnConn(u)'
  BY DEF OwnConn

(* Every step leaves each waiting thread a connection of its own. *)
LEMMA StepOwn == IInv /\ [Next]_vars => Own'
<1> SUFFICES ASSUME IInv, [Next]_vars PROVE Own'
  OBVIOUS
<1> USE SharedFacts DEF threads, socket, handler
<1>0. TypeOK /\ Sockets /\ Own /\ TypeOK'
  BY StepType DEF IInv
<1>t. /\ reply \in [Conns -> Seq([req : Calls, ok : BOOLEAN])]
      /\ inbox \in [Conns -> Seq(Calls)]
      /\ hpc \in [Conns -> {"none", "recv", "xdp", "ipset", "test", "send", "closed"}]
      /\ msg \in [Conns -> Calls] /\ ok \in [Conns -> BOOLEAN] /\ peer \in [Conns -> BOOLEAN]
      /\ call \in [Threads -> Calls] /\ conn \in [Threads -> Conns]
  BY <1>0 DEF TypeOK
<1>p. pc \in [Threads -> {"idle", "shared_send", "shared_recv", "ping", "connect",
                          "recv", "loader", "add", "del", "test", "retest"}]
  BY <1>0 DEF TypeOK
<1>1. ASSUME NEW t \in Threads, Call(t) \/ Thread(t), NEW u \in Threads, u # t, pc'[u] = "recv"
      PROVE  /\ OwnConn(u)' /\ pc[u] = "recv" /\ conn'[u] = conn[u]
             /\ Request(t) => conn'[t] # conn[u]
  <2>1. pc[u] = "recv" /\ conn'[u] = conn[u] /\ call'[u] = call[u]
    BY <1>0, <1>1, OneMoves
  <2>2. OwnConn(u) /\ conn[u] \in OneShots /\ conn[u] # Shared /\ hpc[conn[u]] # "none"
    BY <1>0, <2>1 DEF Own, OwnConn
  <2>3. ASSUME UNCHANGED <<inbox, reply, hpc, msg, ok, peer>> PROVE OwnConn(u)'
    BY <1>0, <2>1, <2>2, <2>3, OwnUntouched
  <2>4. ASSUME UNCHANGED <<reply, hpc, msg, ok, peer>>,
               inbox' = [inbox EXCEPT ![Shared] = Append(@, call[t])]
        PROVE  OwnConn(u)'
    <3>1. inbox'[conn[u]] = inbox[conn[u]]
      BY <1>t, <2>2, <2>4
    <3> QED BY <1>0, <2>1, <2>2, <2>4, <3>1, OwnUntouched
  <2>5. ASSUME SharedRecv(t), UNCHANGED <<inbox, hpc, msg, ok, peer>> PROVE OwnConn(u)'
    <3>1. reply'[conn[u]] = reply[conn[u]]
      BY <1>t, <2>2, <2>5 DEF SharedRecv
    <3> QED BY <1>0, <2>1, <2>2, <2>5, <3>1, OwnUntouched
  <2>6. ASSUME Request(t) PROVE OwnConn(u)' /\ conn'[t] # conn[u]
    <3>1. PICK c \in OneShots :
            /\ hpc[c] = "none" /\ hpc' = [hpc EXCEPT ![c] = "recv"]
            /\ inbox' = [inbox EXCEPT ![c] = <<call[t]>>] /\ conn' = [conn EXCEPT ![t] = c]
            /\ peer' = [peer EXCEPT ![c] = TRUE] /\ UNCHANGED <<reply, msg, ok>>
      BY <2>6 DEF Request
    <3>2. /\ hpc'[conn[u]] = hpc[conn[u]] /\ inbox'[conn[u]] = inbox[conn[u]]
          /\ conn'[t] # conn[u] /\ peer'[conn[u]] = peer[conn[u]]
      BY <1>t, <2>2, <3>1
    <3> QED BY <1>0, <2>1, <2>2, <3>1, <3>2, OwnUntouched
  <2>7. ASSUME pc[t] = "recv", Close(conn[t]) PROVE OwnConn(u)'
    <3>1. conn[t] # conn[u]
      BY <1>0, <1>1, <2>1, <2>7 DEF Own
    <3>2. /\ hpc'[conn[u]] = hpc[conn[u]] /\ inbox'[conn[u]] = inbox[conn[u]]
          /\ msg'[conn[u]] = msg[conn[u]] /\ reply'[conn[u]] = reply[conn[u]]
          /\ peer'[conn[u]] = peer[conn[u]]
      BY <1>t, <2>2, <2>7, <3>1 DEF Close
    <3> QED BY <1>0, <2>1, <2>2, <3>2, OwnUntouched
  <2>8. OwnConn(u)'
    BY <1>1, <2>3, <2>4, <2>5, <2>6, <2>7, ThreadSockets
  <2> QED BY <2>1, <2>6, <2>8
<1>2. ASSUME NEW t \in Threads, Request(t) PROVE OwnConn(t)'
  <2>1. PICK c \in OneShots :
          /\ hpc[c] = "none" /\ hpc' = [hpc EXCEPT ![c] = "recv"]
          /\ inbox' = [inbox EXCEPT ![c] = <<call[t]>>] /\ conn' = [conn EXCEPT ![t] = c]
          /\ peer' = [peer EXCEPT ![c] = TRUE] /\ UNCHANGED <<reply, msg, ok, call>>
    BY <1>2 DEF Request
  <2>2. /\ conn'[t] = c /\ hpc'[c] = "recv" /\ inbox'[c] = <<call[t]>> /\ reply'[c] = << >>
        /\ peer'[c]
    BY <1>0, <1>t, <2>1 DEF Sockets
  <2> QED BY <2>1, <2>2 DEF OwnConn, WorkSteps
<1>3. ASSUME NEW t \in Threads, Call(t) \/ Thread(t) PROVE Own'
  <2> SUFFICES ASSUME NEW u \in Threads, pc'[u] = "recv"
               PROVE  /\ OwnConn(u)'
                      /\ \A v \in Threads : pc'[v] = "recv" /\ conn'[v] = conn'[u] => v = u
    BY DEF Own
  <2>1. OwnConn(u)'
    BY <1>0, <1>1, <1>2, <1>3, WaitsAfterRequest
  <2>2. ASSUME NEW v \in Threads, pc'[v] = "recv", conn'[v] = conn'[u], v # u PROVE FALSE
    <3>1. CASE u # t /\ v # t
      BY <1>0, <1>1, <1>3, <2>2, <3>1 DEF Own
    <3>2. CASE u = t
      BY <1>0, <1>1, <1>3, <2>2, <3>2, WaitsAfterRequest
    <3>3. CASE v = t
      BY <1>0, <1>1, <1>3, <2>2, <3>3, WaitsAfterRequest
    <3> QED BY <3>1, <3>2, <3>3
  <2> QED BY <2>1, <2>2
<1>4. ASSUME NEW c \in Conns, Handler(c), NEW u \in Threads, pc[u] = "recv",
             UNCHANGED <<pc, call, conn>>
      PROVE  OwnConn(u)'
  <2>1. OwnConn(u) /\ conn[u] \in Conns
    BY <1>0, <1>4 DEF Own, OwnConn
  <2>2. CASE conn[u] # c
    <3>1. /\ hpc'[conn[u]] = hpc[conn[u]] /\ inbox'[conn[u]] = inbox[conn[u]]
          /\ msg'[conn[u]] = msg[conn[u]] /\ reply'[conn[u]] = reply[conn[u]]
          /\ peer'[conn[u]] = peer[conn[u]]
      BY <1>t, <1>4, <2>1, <2>2
         DEF Handler, Receive, HandleXdp, HandleIpset, HandleTest, Respond
    <3> QED BY <1>0, <1>4, <2>1, <3>1, OwnUntouched
  <2>3. CASE conn[u] = c
    <3>1. CASE Receive(c)
      <4>1. /\ inbox[c] # << >> /\ hpc'[c] = "xdp" /\ msg'[c] = Head(inbox[c])
            /\ inbox'[c] = Tail(inbox[c]) /\ reply' = reply /\ peer' = peer
        BY <1>t, <3>1 DEF Receive
      <4>2. msg'[c] = call[u]
        BY <1>t, <2>1, <2>3, <4>1, TailFacts DEF OwnConn
      <4>3. \A i \in 1 .. Len(inbox'[c]) : inbox'[c][i] = call[u]
        BY <1>t, <2>1, <2>3, <4>1, TailFacts DEF OwnConn
      <4> QED BY <1>4, <2>1, <2>3, <4>1, <4>2, <4>3 DEF OwnConn
    <3>2. CASE HandleXdp(c) \/ HandleIpset(c) \/ HandleTest(c)
      <4>1. /\ hpc'[c] \in WorkSteps /\ hpc[c] \in WorkSteps
            /\ UNCHANGED <<msg, inbox, reply, peer>>
        BY <1>t, <3>2 DEF HandleXdp, HandleIpset, HandleTest, WorkSteps
      <4> QED BY <1>4, <2>1, <2>3, <4>1 DEF OwnConn, WorkSteps
    <3>3. CASE Respond(c)
      <4>1. /\ hpc[c] = "send" /\ reply[c] = << >>
            /\ [req |-> msg[c], ok |-> ok[c]] \in [req : Calls, ok : BOOLEAN]
        BY <1>0, <1>t, <3>3 DEF Respond, Sockets
      <4>2. msg[c] = call[u]
        BY <2>1, <2>3, <4>1 DEF OwnConn, WorkSteps
      <4>3. inbox'[c] = << >> /\ peer'[c] = peer[c] /\ peer[c]
        BY <1>t, <2>1, <2>3, <3>3 DEF Respond, OwnConn
      <4>4. hpc'[c] = "closed" /\ Head(reply'[c]) = [req |-> msg[c], ok |-> ok[c]]
        BY <1>t, <3>3, <4>1, <4>3, AppendFacts DEF Respond
      <4> QED BY <1>4, <2>1, <2>3, <4>2, <4>3, <4>4 DEF OwnConn, WorkSteps
    <3> QED BY <1>4, <3>1, <3>2, <3>3 DEF Handler
  <2> QED BY <2>2, <2>3
<1>5. ASSUME NEW c \in Conns, Handler(c) PROVE UNCHANGED <<pc, call, conn>>
  BY <1>5 DEF Handler, Receive, HandleXdp, HandleIpset, HandleTest, Respond
<1>6. ASSUME NEW c \in Conns, Handler(c) PROVE Own'
  BY <1>0, <1>4, <1>5, <1>6 DEF Own
<1>7. CASE UNCHANGED vars
  BY <1>0, <1>7 DEF Own, OwnConn, vars
<1> QED BY <1>3, <1>6, <1>7 DEF Next

-----------------------------------------------------------------------------
(* A thread that goes on keeps its call, and one that does not is idle. *)
LEMMA KeepsCall ==
  ASSUME TypeOK, NEW t \in Threads, Thread(t)
  PROVE  pc[t] # "idle" /\ (pc'[t] # "idle" => call'[t] = call[t])
<1> USE DEF threads, socket, handler
<1>0. pc \in [Threads -> {"idle", "shared_send", "shared_recv", "ping", "connect",
                             "recv", "loader", "add", "del", "test", "retest"}]
  BY DEF TypeOK
<1>1. CASE SharedSend(t) \/ Ping(t) \/ Request(t) \/ UnbanDel(t) \/ RequestFails(t) \/ RecvFails(t)
  BY <1>1 DEF SharedSend, Ping, Request, UnbanDel, RequestFails, RecvFails
<1>2. ASSUME NEW b \in BOOLEAN, Return(t, b) PROVE pc'[t] = "idle"
  BY <1>0, <1>2 DEF Return, Goto
<1>3. CASE SharedRecv(t) \/ SharedRecvFails(t) \/ BanLoader(t) \/ BanAdd(t) \/ UnbanTest(t)
  BY <1>2, <1>3, UnbanTestReturns DEF SharedRecv, SharedRecvFails, BanLoader, BanAdd
<1>4. CASE Recv(t)
  BY <1>2, <1>4 DEF Recv
<1> QED BY <1>1, <1>3, <1>4 DEF Thread

(* A thread's step puts nothing under way that was not before: what it sends is
   its call. *)
LEMMA ThreadAddsNothing ==
  ASSUME TypeOK, NEW t \in Threads, Thread(t), NEW m \in Calls, Underway(m)'
  PROVE  Underway(m)
<1> USE SharedFacts DEF threads, socket, handler
<1>t. /\ inbox \in [Conns -> Seq(Calls)] /\ call \in [Threads -> Calls]
      /\ hpc \in [Conns -> {"none", "recv", "xdp", "ipset", "test", "send", "closed"}]
  BY DEF TypeOK
<1>0. pc[t] # "idle" /\ (pc'[t] # "idle" => call'[t] = call[t])
  BY KeepsCall
<1>1. ASSUME NEW u \in Threads, pc'[u] # "idle", call'[u] = m PROVE Underway(m)
  BY <1>0, <1>1, OneMoves DEF Underway
<1>2. ASSUME NEW c \in Conns, NEW i \in 1 .. Len(inbox'[c]), inbox'[c][i] = m
      PROVE  Underway(m)
  <2>1. CASE inbox' = inbox
    BY <1>2, <2>1 DEF Underway
  <2>2. CASE inbox' = [inbox EXCEPT ![Shared] = Append(@, call[t])]
    <3>1. CASE c # Shared
      BY <1>t, <1>2, <2>2, <3>1 DEF Underway
    <3>2. CASE c = Shared
      <4>1. (i \in 1 .. Len(inbox[c]) /\ inbox[c][i] = m) \/ call[t] = m
        BY <1>t, <1>2, <2>2, <3>2, AppendFacts
      <4> QED BY <1>0, <4>1 DEF Underway
    <3> QED BY <3>1, <3>2
  <2>3. CASE Request(t)
    <3>1. PICK d \in OneShots : inbox' = [inbox EXCEPT ![d] = <<call[t]>>]
      BY <2>3 DEF Request
    <3>2. CASE c # d
      BY <1>t, <1>2, <3>1, <3>2 DEF Underway
    <3>3. CASE c = d
      <4>1. inbox'[c] = <<call[t]>>
        BY <1>t, <3>1, <3>3
      <4>2. call[t] = m
        BY <1>2, <4>1
      <4> QED BY <1>0, <4>2 DEF Underway
    <3> QED BY <3>2, <3>3
  <2> QED BY <2>1, <2>2, <2>3, ThreadSockets DEF Close
<1>3. ASSUME NEW c \in Conns, hpc'[c] \in WorkSteps, msg'[c] = m PROVE Underway(m)
  <2>1. hpc[c] \in WorkSteps /\ msg[c] = m
    BY <1>t, <1>3, ThreadSockets DEF Close, Request, WorkSteps
  <2> QED BY <2>1 DEF Underway
<1> QED BY <1>1, <1>2, <1>3 DEF Underway

(* Nor does a step of the daemon. *)
LEMMA HandlerAddsNothing ==
  ASSUME TypeOK, NEW d \in Conns, Handler(d), NEW m \in Calls, Underway(m)'
  PROVE  Underway(m)
<1> USE DEF threads, socket, handler
<1>t. /\ inbox \in [Conns -> Seq(Calls)] /\ msg \in [Conns -> Calls]
      /\ hpc \in [Conns -> {"none", "recv", "xdp", "ipset", "test", "send", "closed"}]
  BY DEF TypeOK
<1>0. UNCHANGED <<pc, call>>
  BY DEF Handler, Receive, HandleXdp, HandleIpset, HandleTest, Respond
<1>1. ASSUME NEW u \in Threads, pc'[u] # "idle", call'[u] = m PROVE Underway(m)
  BY <1>0, <1>1 DEF Underway
<1>2. CASE Receive(d)
  <2>0. /\ hpc[d] = "recv" /\ inbox[d] # << >> /\ msg' = [msg EXCEPT ![d] = Head(inbox[d])]
        /\ inbox' = [inbox EXCEPT ![d] = Tail(inbox[d])] /\ hpc' = [hpc EXCEPT ![d] = "xdp"]
    BY <1>2 DEF Receive
  <2>1. ASSUME NEW c \in Conns, NEW i \in 1 .. Len(inbox'[c]), inbox'[c][i] = m
        PROVE  \E j \in 1 .. Len(inbox[c]) : inbox[c][j] = m
    <3>1. CASE c = d
      BY <1>t, <2>0, <2>1, <3>1, TailFacts
    <3>2. CASE c # d
      BY <1>t, <2>0, <2>1, <3>2
    <3> QED BY <3>1, <3>2
  <2>2. ASSUME NEW c \in Conns, hpc'[c] \in WorkSteps, msg'[c] = m PROVE Underway(m)
    <3>1. CASE c = d
      <4>1. 1 \in 1 .. Len(inbox[d]) /\ inbox[d][1] = m
        BY <1>t, <2>0, <2>2, <3>1, TailFacts
      <4> QED BY <4>1 DEF Underway
    <3>2. CASE c # d
      BY <1>t, <2>0, <2>2, <3>2 DEF Underway
    <3> QED BY <3>1, <3>2
  <2> QED BY <1>1, <2>1, <2>2 DEF Underway
<1>3. CASE HandleXdp(d) \/ HandleIpset(d) \/ HandleTest(d)
  <2>1. ASSUME NEW c \in Conns, hpc'[c] \in WorkSteps PROVE hpc[c] \in WorkSteps
    BY <1>t, <1>3, <2>1 DEF HandleXdp, HandleIpset, HandleTest, WorkSteps
  <2>2. UNCHANGED <<inbox, msg>>
    BY <1>3 DEF HandleXdp, HandleIpset, HandleTest
  <2> QED BY <1>1, <2>1, <2>2 DEF Underway
<1>4. CASE Respond(d)
  <2>0. /\ inbox' = [inbox EXCEPT ![d] = << >>] /\ hpc'[d] \notin WorkSteps
        /\ \A c \in Conns \ {d} : hpc'[c] = hpc[c] /\ msg'[c] = msg[c]
    BY <1>t, <1>4 DEF Respond, WorkSteps
  <2>1. ASSUME NEW c \in Conns, NEW i \in 1 .. Len(inbox'[c]), inbox'[c][i] = m
        PROVE  i \in 1 .. Len(inbox[c]) /\ inbox[c][i] = m
    <3>1. CASE c = d
      BY <1>t, <2>0, <2>1, <3>1
    <3>2. CASE c # d
      BY <1>t, <2>0, <2>1, <3>2
    <3> QED BY <3>1, <3>2
  <2> QED BY <1>1, <2>0, <2>1 DEF Underway
<1> QED BY <1>2, <1>3, <1>4 DEF Handler

(* A call begins, and nothing else does; if nothing was under way for its
   address, nothing else is. *)
LEMMA CallAddsItself ==
  ASSUME TypeOK, NEW t \in Threads, Call(t), NEW m \in Calls, Underway(m)'
  PROVE  Underway(m) \/ m = call'[t]
  BY OneMoves DEF Underway, Call, socket, handler

LEMMA QuietIsQuiet ==
  ASSUME NEW q \in Ips, Quiet(q), NEW m \in Calls, Underway(m)
  PROVE  ~Asks(m, q)
  BY DEF Quiet

(* A step of a thread reports a success, if at all, for the call that it
   returns from, and only if nothing has clashed with it. *)
LEMMA ReportsOwnCall ==
  ASSUME TypeOK, NEW t \in Threads, Thread(t), NEW q \in Ips, result'[q] # result[q]
  PROVE  /\ result[q] = "none" /\ q = call[t].ip /\ pc'[t] = "idle"
         /\ result'[q] = IF call[t].op = "ban" THEN "in" ELSE "out"
         /\ \/ SharedRecv(t) /\ call[t].op = "ban" /\ Head(reply[Shared]).ok
               /\ Head(reply[Shared]).req = call[t]
            \/ Recv(t) /\ call[t].op = "ban" /\ Head(reply[conn[t]]).ok
            \/ BanLoader(t) /\ entries' = [entries EXCEPT ![call[t].ip] = @ \cup {"loader"}]
            \/ BanAdd(t) /\ entries' = [entries EXCEPT ![call[t].ip] = @ \cup {"ipset"}]
            \/ UnbanTest(t) /\ (pc[t] = "test" \/ "ipset" \notin entries[call[t].ip])
<1> USE DEF threads, socket, handler
<1>t. /\ pc \in [Threads -> {"idle", "shared_send", "shared_recv", "ping", "connect",
                             "recv", "loader", "add", "del", "test", "retest"}]
      /\ call \in [Threads -> Calls] /\ result \in [Ips -> {"none", "in", "out", "clash"}]
      /\ call[t].ip \in Ips
  BY CallFields DEF TypeOK
<1>1. ASSUME NEW b \in BOOLEAN, Return(t, b)
      PROVE  /\ b /\ result[q] = "none" /\ q = call[t].ip /\ pc'[t] = "idle"
             /\ result'[q] = IF call[t].op = "ban" THEN "in" ELSE "out"
  BY <1>t, <1>1 DEF Return, Goto, Outcome
<1>2. ~Return(t, FALSE)
  BY <1>1
<1>3. CASE SharedSend(t) \/ Ping(t) \/ Request(t) \/ UnbanDel(t) \/ RequestFails(t) \/ RecvFails(t)
  BY <1>3 DEF SharedSend, Ping, Request, UnbanDel, RequestFails, RecvFails
<1>4. CASE SharedRecv(t)
  <2>1. /\ call[t].op = "ban" /\ Head(reply[Shared]).ok
        /\ Return(t, Head(reply[Shared]).req = call[t])
    BY <1>2, <1>4 DEF SharedRecv
  <2>2. (Head(reply[Shared]).req = call[t]) \in BOOLEAN
    OBVIOUS
  <2> QED BY <1>1, <1>4, <2>1, <2>2
<1>5. CASE SharedRecvFails(t)
  BY <1>2, <1>5 DEF SharedRecvFails
<1>6. CASE BanLoader(t)
  BY <1>1, <1>6 DEF BanLoader
<1>7. CASE BanAdd(t)
  BY <1>1, <1>2, <1>7 DEF BanAdd
<1>8. CASE UnbanTest(t)
  <2>1. PICK b \in BOOLEAN :
          /\ Return(t, b)
          /\ pc[t] = "test" \/ (pc[t] = "retest" /\ (b => "ipset" \notin entries[call[t].ip]))
    BY <1>8, UnbanTestReturns
  <2> QED BY <1>1, <1>8, <2>1
<1>9. CASE Recv(t)
  BY <1>1, <1>9 DEF Recv
<1> QED BY <1>3, <1>4, <1>5, <1>6, <1>7, <1>8, <1>9 DEF Thread

(* The entries of an address change on its behalf only: its last one goes by an
   unban, and it gets into the ipset by a ban, that is under way. *)
LEMMA EntriesOnRequest ==
  ASSUME IInv, (\E t \in Threads : Thread(t)) \/ (\E c \in Conns : Handler(c)), NEW q \in Ips
  PROVE  /\ entries[q] # {} /\ entries'[q] = {} =>
              \E m \in Calls : Underway(m) /\ m.op = "unban" /\ m.ip = q
         /\ "ipset" \notin entries[q] /\ "ipset" \in entries'[q] =>
              \E m \in Calls : Underway(m) /\ m.op = "ban" /\ m.ip = q
<1> USE DEF threads, socket, handler
<1>t. /\ entries \in [Ips -> SUBSET {"xdp", "loader", "ipset"}]
      /\ call \in [Threads -> Calls] /\ msg \in [Conns -> Calls]
      /\ \A m \in Calls : m.op \in {"ban", "unban", "tarpit"} /\ m.ip \in Ips
  BY CallFields DEF IInv, TypeOK
<1> DEFINE Goal ==
         /\ entries[q] # {} /\ entries'[q] = {} =>
              \E m \in Calls : Underway(m) /\ m.op = "unban" /\ m.ip = q
         /\ "ipset" \notin entries[q] /\ "ipset" \in entries'[q] =>
              \E m \in Calls : Underway(m) /\ m.op = "ban" /\ m.ip = q
<1>1. ASSUME NEW m \in Calls, Underway(m), m.op = "unban",
             NEW e \in {"xdp", "loader", "ipset"},
             entries' = [entries EXCEPT ![m.ip] = @ \ {e}]
      PROVE  Goal
  BY <1>t, <1>1
<1>2. ASSUME NEW m \in Calls, Underway(m), m.op = "ban",
             NEW e \in {"xdp", "loader", "ipset"},
             entries' = [entries EXCEPT ![m.ip] = @ \cup {e}]
      PROVE  Goal
  BY <1>t, <1>2
<1>3. CASE entries' = entries
  BY <1>3
<1>4. ASSUME NEW t \in Threads, Thread(t) PROVE Goal
  <2>1. Underway(call[t]) /\ call[t] \in Calls
    BY <1>t, <1>4, KeepsCall DEF IInv, Underway
  <2>2. CASE Ping(t) \/ UnbanDel(t)
    <3>1. call[t].op = "unban"
      BY <2>2 DEF IInv, Control, Ping, UnbanDel
    <3>2. \/ entries' = entries
          \/ \E e \in {"xdp", "loader", "ipset"} : entries' = [entries EXCEPT ![call[t].ip] = @ \ {e}]
      BY <2>2 DEF Ping, UnbanDel
    <3> QED BY <1>1, <1>3, <2>1, <3>1, <3>2
  <2>3. CASE BanLoader(t) \/ BanAdd(t)
    <3>1. call[t].op = "ban"
      BY <2>3 DEF IInv, Control, BanLoader, BanAdd
    <3>2. \/ entries' = entries
          \/ \E e \in {"xdp", "loader", "ipset"} : entries' = [entries EXCEPT ![call[t].ip] = @ \cup {e}]
      BY <2>3 DEF BanLoader, BanAdd
    <3> QED BY <1>2, <1>3, <2>1, <3>1, <3>2
  <2> QED BY <1>3, <1>4, <2>2, <2>3
          DEF Thread, SharedSend, SharedRecv, SharedRecvFails, Request, RequestFails, Recv,
              RecvFails, UnbanTest
<1>5. ASSUME NEW c \in Conns, Handler(c) PROVE Goal
  <2>2. CASE HandleXdp(c)
    <3>1. Underway(msg[c]) /\ msg[c] \in Calls
      BY <1>t, <2>2 DEF Underway, WorkSteps, HandleXdp
    <3>2. \/ entries' = entries
          \/ msg[c].op = "ban" /\ entries' = [entries EXCEPT ![msg[c].ip] = @ \cup {"xdp"}]
          \/ msg[c].op = "unban" /\ entries' = [entries EXCEPT ![msg[c].ip] = @ \ {"xdp"}]
      BY <2>2 DEF HandleXdp
    <3> QED BY <1>1, <1>2, <1>3, <3>1, <3>2
  <2>3. CASE HandleIpset(c)
    <3>1. Underway(msg[c]) /\ msg[c] \in Calls /\ msg[c].op \in {"ban", "unban"}
      BY <1>t, <2>3 DEF Underway, WorkSteps, HandleIpset, IInv, Sockets
    <3>2. \/ entries' = entries
          \/ msg[c].op = "ban" /\ entries' = [entries EXCEPT ![msg[c].ip] = @ \cup {"ipset"}]
          \/ msg[c].op = "unban" /\ entries' = [entries EXCEPT ![msg[c].ip] = @ \ {"ipset"}]
      BY <2>3, <3>1 DEF HandleIpset
    <3> QED BY <1>1, <1>2, <1>3, <3>1, <3>2
  <2> QED BY <1>3, <1>5, <2>2, <2>3 DEF Handler, Receive, HandleTest, Respond
<1> QED BY <1>4, <1>5

(* A ban that has taken effect stays in effect while a request for it is under
   way and nothing has clashed with it. *)
LEMMA BanStays ==
  ASSUME IInv, (\E t \in Threads : Thread(t)) \/ (\E c \in Conns : Handler(c)),
         NEW m \in Calls, Underway(m), m.op = "ban", result[m.ip] # "clash", entries[m.ip] # {}
  PROVE  entries'[m.ip] # {}
<1> SUFFICES ASSUME entries'[m.ip] = {} PROVE FALSE
  OBVIOUS
<1>1. PICK n \in Calls : Underway(n) /\ n.op = "unban" /\ n.ip = m.ip
  BY EntriesOnRequest, CallFields
<1>2. m = n
  BY <1>1, CallFields DEF IInv, Alone, Asks
<1> QED BY <1>1, <1>2

(* An address that an unban has taken out of the ipset stays out of it while a
   request for the unban is under way and nothing has clashed with it. *)
LEMMA UnbanStays ==
  ASSUME IInv, (\E t \in Threads : Thread(t)) \/ (\E c \in Conns : Handler(c)),
         NEW m \in Calls, Underway(m), m.op = "unban", result[m.ip] # "clash",
         "ipset" \notin entries[m.ip]
  PROVE  "ipset" \notin entries'[m.ip]
<1> SUFFICES ASSUME "ipset" \in entries'[m.ip] PROVE FALSE
  OBVIOUS
<1>1. PICK n \in Calls : Underway(n) /\ n.op = "ban" /\ n.ip = m.ip
  BY EntriesOnRequest, CallFields
<1>2. m = n
  BY <1>1, CallFields DEF IInv, Alone, Asks
<1> QED BY <1>1, <1>2

-----------------------------------------------------------------------------
(* A call's beginning, for the addresses that it is about and the others. *)
LEMMA CallBegins ==
  ASSUME TypeOK, NEW t \in Threads, Call(t)
  PROVE  /\ pc[t] = "idle" /\ call'[t] \in Calls
         /\ UNCHANGED <<entries, inbox, reply, hpc, msg, ok, conn>>
         /\ \A q \in Ips :
              \/ ~Asks(call'[t], q) /\ result'[q] = result[q]
              \/ /\ Asks(call'[t], q)
                 /\ Quiet(q) \/ (result[q] # "clash" /\ Unopposed(call'[t]))
                 /\ \/ result'[q] = "none"
                    \/ result'[q] = result[q] /\ result[q] = Outcome(call'[t])
              \/ Asks(call'[t], q) /\ result'[q] = "clash"
<1>1. PICK m \in Calls :
        /\ call' = [call EXCEPT ![t] = m]
        /\ result' = IF m.op = "tarpit" THEN result
                     ELSE [result EXCEPT ![m.ip] =
                            IF ~Quiet(m.ip) /\ (@ = "clash" \/ ~Unopposed(m)) THEN "clash"
                            ELSE IF @ = Outcome(m) THEN @ ELSE "none"]
  BY DEF Call
<1>2. call'[t] = m
  BY <1>1 DEF TypeOK
<1>3. pc[t] = "idle" /\ UNCHANGED <<entries, inbox, reply, hpc, msg, ok, conn>>
  BY DEF Call, socket, handler
<1>4. ASSUME NEW q \in Ips
      PROVE  \/ ~Asks(m, q) /\ result'[q] = result[q]
             \/ /\ Asks(m, q)
                /\ Quiet(q) \/ (result[q] # "clash" /\ Unopposed(m))
                /\ \/ result'[q] = "none"
                   \/ result'[q] = result[q] /\ result[q] = Outcome(m)
             \/ Asks(m, q) /\ result'[q] = "clash"
  <2>1. result \in [Ips -> {"none", "in", "out", "clash"}]
    BY DEF TypeOK
  <2> QED BY <1>1, <2>1 DEF Asks
<1> QED BY <1>2, <1>3, <1>4

(* A call that begins clears a clash only when nothing is under way. *)
LEMMA ClashStays ==
  ASSUME TypeOK, NEW t \in Threads, Call(t), NEW m \in Calls, Underway(m), m.op # "tarpit",
         result'[m.ip] # "clash"
  PROVE  result[m.ip] # "clash"
<1>1. m.ip \in Ips /\ Asks(m, m.ip)
  BY CallFields DEF Asks
<1>2. ~Quiet(m.ip)
  BY <1>1, QuietIsQuiet
<1> QED BY <1>1, <1>2, CallBegins

(* Every step leaves an address without a clash to one request. *)
LEMMA StepAlone == IInv /\ [Next]_vars => Alone'
<1> SUFFICES ASSUME IInv, [Next]_vars, NEW q \in Ips, result'[q] # "clash"
             PROVE  /\ \A m, n \in Calls :
                         Underway(m)' /\ Underway(n)' /\ Asks(m, q) /\ Asks(n, q) => m = n
                    /\ \A m \in Calls : Underway(m)' /\ Asks(m, q) =>
                         /\ result'[q] = "in" => m.op = "ban"
                         /\ result'[q] = "out" => m.op = "unban"
  BY DEF Alone
<1> DEFINE Goal ==
      /\ \A m, n \in Calls :
           Underway(m)' /\ Underway(n)' /\ Asks(m, q) /\ Asks(n, q) => m = n
      /\ \A m \in Calls : Underway(m)' /\ Asks(m, q) =>
           /\ result'[q] = "in" => m.op = "ban"
           /\ result'[q] = "out" => m.op = "unban"
<1>0. TypeOK /\ Alone
  BY DEF IInv
(* Nothing begins for the address and nothing is reported. *)
<1>1. ASSUME \A m \in Calls : Underway(m)' /\ Asks(m, q) => Underway(m),
             result'[q] = result[q]
      PROVE  Goal
  BY <1>0, <1>1 DEF Alone
<1>2. ASSUME NEW t \in Threads, Call(t) PROVE Goal
  <2>1. CASE ~Asks(call'[t], q) /\ result'[q] = result[q]
    <3>1. \A m \in Calls : Underway(m)' /\ Asks(m, q) => Underway(m)
      BY <1>0, <1>2, <2>1, CallAddsItself
    <3> QED BY <1>1, <2>1, <3>1
  <2>2. CASE /\ Asks(call'[t], q)
             /\ Quiet(q) \/ (result[q] # "clash" /\ Unopposed(call'[t]))
             /\ \/ result'[q] = "none"
                \/ result'[q] = result[q] /\ result[q] = Outcome(call'[t])
    <3>1. \A m \in Calls : Underway(m) /\ Asks(m, q) => m = call'[t]
      BY <2>2, QuietIsQuiet DEF Unopposed, Asks
    <3>2. \A m \in Calls : Underway(m)' /\ Asks(m, q) => m = call'[t]
      BY <1>0, <1>2, <3>1, CallAddsItself
    <3>3. call'[t].op \in {"ban", "unban"}
      BY <1>0, <1>2, <2>2, CallBegins, CallFields DEF Asks
    <3>4. /\ result'[q] = "in" => call'[t].op = "ban"
          /\ result'[q] = "out" => call'[t].op = "unban"
      BY <2>2, <3>3 DEF Outcome
    <3> QED BY <3>2, <3>4
  <2> QED BY <1>0, <1>2, <2>1, <2>2, CallBegins
<1>3. ASSUME NEW t \in Threads, Thread(t) PROVE Goal
  <2>1. \A m \in Calls : Underway(m)' => Underway(m)
    BY <1>0, <1>3, ThreadAddsNothing
  <2>3. CASE result'[q] = result[q]
    BY <1>1, <2>1, <2>3
  <2>4. CASE result'[q] # result[q]
    <3>1. /\ result[q] = "none" /\ q = call[t].ip
          /\ result'[q] = IF call[t].op = "ban" THEN "in" ELSE "out"
      BY <1>0, <1>3, <2>4, ReportsOwnCall
    <3>2. call[t].op \in {"ban", "unban"}
      BY <1>0, <1>3, <2>4, ReportsOwnCall DEF IInv, Control, BanLoader, BanAdd, UnbanTest
    <3>3. call[t] \in Calls /\ Underway(call[t])
      BY <1>0, <1>3, KeepsCall DEF TypeOK, Underway
    <3>4. Asks(call[t], q)
      BY <3>1, <3>2 DEF Asks
    <3>5. \A m \in Calls : Underway(m)' /\ Asks(m, q) => m = call[t]
      BY <1>0, <2>1, <3>1, <3>3, <3>4 DEF Alone
    <3> QED BY <3>1, <3>2, <3>5
  <2> QED BY <2>3, <2>4
<1>4. ASSUME NEW c \in Conns, Handler(c) PROVE Goal
  <2>1. \A m \in Calls : Underway(m)' => Underway(m)
    BY <1>0, <1>4, HandlerAddsNothing
  <2>2. UNCHANGED result
    BY <1>4 DEF Handler, Receive, HandleXdp, HandleIpset, HandleTest, Respond
  <2> QED BY <1>1, <2>1, <2>2
<1>5. CASE UNCHANGED vars
  BY <1>1, <1>5 DEF vars, Underway
<1> QED BY <1>2, <1>3, <1>4, <1>5 DEF Next

(* An answer that was true of a call under way stays true of it. *)
LEMMA StaysTold ==
  ASSUME IInv, [Next]_vars, NEW m \in Calls, Underway(m), NEW r, Told(r, m)
  PROVE  m.op = "ban" /\ r.ok /\ r.req = m /\ result'[m.ip] # "clash" => entries'[m.ip] # {}
<1> SUFFICES ASSUME m.op = "ban", r.ok, r.req = m, result'[m.ip] # "clash"
             PROVE  entries'[m.ip] # {}
  OBVIOUS
<1>0. TypeOK /\ m.ip \in Ips /\ Asks(m, m.ip)
  BY CallFields DEF IInv, Asks
<1>1. ASSUME NEW t \in Threads, Call(t) PROVE entries'[m.ip] # {}
  <2>1. result[m.ip] # "clash"
    BY <1>0, <1>1, ClashStays
  <2>2. entries' = entries
    BY <1>0, <1>1, CallBegins
  <2> QED BY <2>1, <2>2 DEF Told
<1>2. ASSUME (\E t \in Threads : Thread(t)) \/ (\E c \in Conns : Handler(c))
      PROVE  entries'[m.ip] # {}
  <2>1. result[m.ip] # "clash"
    <3>1. ASSUME NEW t \in Threads, Thread(t) PROVE result[m.ip] # "clash"
      BY <1>0, <3>1, ReportsOwnCall
    <3>2. ASSUME NEW c \in Conns, Handler(c) PROVE result[m.ip] # "clash"
      BY <3>2 DEF Handler, Receive, HandleXdp, HandleIpset, HandleTest, Respond
    <3> QED BY <1>2, <3>1, <3>2
  <2> QED BY <1>2, <2>1, BanStays DEF Told
<1>3. CASE UNCHANGED vars
  BY <1>3 DEF vars, Told
<1> QED BY <1>1, <1>2, <1>3 DEF Next

(* A success that the daemon has noted is in effect after every step. *)
LEMMA StepNoted ==
  ASSUME IInv, [Next]_vars, NEW c \in Conns, hpc'[c] \in {"ipset", "send"},
         msg'[c].op = "ban", ok'[c], result'[msg'[c].ip] # "clash"
  PROVE  entries'[msg'[c].ip] # {}
<1> USE SharedFacts DEF threads, socket, handler
<1>t. /\ hpc \in [Conns -> {"none", "recv", "xdp", "ipset", "test", "send", "closed"}]
      /\ msg \in [Conns -> Calls] /\ ok \in [Conns -> BOOLEAN]
      /\ entries \in [Ips -> SUBSET {"xdp", "loader", "ipset"}]
      /\ msg[c].ip \in Ips
  BY CallFields DEF IInv, TypeOK
<1>1. CASE hpc'[c] = hpc[c] /\ msg'[c] = msg[c] /\ ok'[c] = ok[c]
  <2>1. Told([req |-> msg[c], ok |-> ok[c]], msg[c])
    BY <1>1 DEF IInv, Effective
  <2>2. Underway(msg[c]) /\ msg[c] \in Calls
    BY <1>t, <1>1 DEF Underway, WorkSteps
  <2> QED BY <1>1, <2>1, <2>2, StaysTold
<1>2. ASSUME NEW t \in Threads, Call(t) \/ Thread(t)
      PROVE  hpc'[c] = hpc[c] /\ msg'[c] = msg[c] /\ ok'[c] = ok[c]
  BY <1>t, <1>2, ThreadSockets DEF Request, Close
<1>3. ASSUME NEW d \in Conns, d # c, Handler(d)
      PROVE  hpc'[c] = hpc[c] /\ msg'[c] = msg[c] /\ ok'[c] = ok[c]
  BY <1>t, <1>3 DEF Handler, Receive, HandleXdp, HandleIpset, HandleTest, Respond
<1>4. CASE HandleXdp(c)
  <2>1. ~ok[c] /\ msg' = msg
    BY <1>4 DEF IInv, Sockets, HandleXdp
  <2>2. entries' = [entries EXCEPT ![msg[c].ip] = @ \cup {"xdp"}]
    BY <1>4, <2>1 DEF HandleXdp
  <2> QED BY <1>t, <2>1, <2>2
<1>5. CASE HandleIpset(c)
  <2>0. msg' = msg
    BY <1>5 DEF HandleIpset
  <2>1. CASE entries' = [entries EXCEPT ![msg[c].ip] = IF msg[c].op = "ban" THEN @ \cup {"ipset"}
                                                       ELSE @ \ {"ipset"}]
    BY <1>t, <2>0, <2>1
  <2>2. CASE UNCHANGED <<entries, ok>>
    <3>1. Told([req |-> msg[c], ok |-> ok[c]], msg[c])
      BY <1>5 DEF IInv, Effective, HandleIpset
    <3>2. result' = result
      BY <1>5 DEF HandleIpset
    <3> QED BY <2>0, <2>2, <3>1, <3>2 DEF Told
  <2> QED BY <1>5, <2>1, <2>2 DEF HandleIpset
<1>6. ~Receive(c) /\ ~HandleTest(c) /\ ~Respond(c)
  BY <1>t DEF Receive, HandleTest, Respond, IInv, Sockets
<1>7. CASE UNCHANGED vars
  BY <1>1, <1>7 DEF vars
<1> QED BY <1>1, <1>2, <1>3, <1>4, <1>5, <1>6, <1>7 DEF Next, Handler

(* An answer that waits for a thread is true after every step. *)
LEMMA StepTold ==
  ASSUME IInv, [Next]_vars, NEW t \in Threads, NEW c \in Conns,
         \/ pc'[t] = "shared_recv" /\ c = Shared
         \/ pc'[t] = "recv" /\ c = conn'[t],
         reply'[c] # << >>
  PROVE  Told(Head(reply[c]), call[t])'
<1> USE SharedFacts DEF threads, socket, handler
<1>0. TypeOK /\ Sockets /\ Own /\ Control
  BY DEF IInv
<1>t. /\ reply \in [Conns -> Seq([req : Calls, ok : BOOLEAN])]
      /\ hpc \in [Conns -> {"none", "recv", "xdp", "ipset", "test", "send", "closed"}]
      /\ msg \in [Conns -> Calls] /\ ok \in [Conns -> BOOLEAN]
      /\ call \in [Threads -> Calls] /\ conn \in [Threads -> Conns]
      /\ pc \in [Threads -> {"idle", "shared_send", "shared_recv", "ping", "connect",
                             "recv", "loader", "add", "del", "test", "retest"}]
  BY <1>0 DEF TypeOK
(* A thread that was waiting there, and an answer that was there. *)
<1>1. ASSUME pc'[t] = pc[t], call'[t] = call[t], conn'[t] = conn[t], reply'[c] = reply[c]
      PROVE  Told(Head(reply[c]), call[t])'
  <2>1. Told(Head(reply[c]), call[t])
    BY <1>1 DEF IInv, Effective
  <2>2. Underway(call[t]) /\ call[t] \in Calls
    BY <1>t, <1>1 DEF Underway
  <2>3. LET r == Head(reply[c])
            m == call[t]
        IN  m.op = "ban" /\ r.ok /\ r.req = m /\ result'[m.ip] # "clash" => entries'[m.ip] # {}
    BY <2>1, <2>2, StaysTold
  <2> QED BY <1>1, <2>3 DEF Told
<1>2. ASSUME Call(t) \/ Thread(t) PROVE Told(Head(reply[c]), call[t])'
  <2>1. CASE pc'[t] = "recv" /\ c = conn'[t]
    <3>1. Request(t)
      BY <1>0, <1>2, <2>1, WaitsAfterRequest
    <3>2. hpc[c] = "none" /\ reply' = reply
      BY <1>t, <2>1, <3>1 DEF Request
    <3> QED BY <1>0, <3>2 DEF Sockets
  <2>2. CASE pc'[t] = "shared_recv" /\ c = Shared
    <3>1. SharedSend(t)
      <4>1. \A b \in BOOLEAN : ~Return(t, b)
        BY <1>t, <2>2 DEF Return, Goto
      <4>2. ~NextAttempt(t)
        BY <1>t, <2>2 DEF NextAttempt, Goto
      <4>3. ~Recv(t) /\ ~RecvFails(t) /\ ~RequestFails(t)
        BY <4>1, <4>2 DEF Recv, RecvFails, RequestFails
      <4>4. ~SharedRecv(t) /\ ~SharedRecvFails(t) /\ ~BanLoader(t) /\ ~BanAdd(t) /\ ~UnbanTest(t)
        BY <1>t, <2>2, <4>1, UnbanTestReturns DEF SharedRecv, SharedRecvFails, BanLoader, BanAdd, Goto
      <4>5. ~Call(t) /\ ~Ping(t) /\ ~Request(t) /\ ~UnbanDel(t)
        BY <1>t, <2>2 DEF Call, Ping, Request, UnbanDel, Goto
      <4> QED BY <1>2, <4>3, <4>4, <4>5 DEF Thread
    <3>2. reply' = reply /\ call' = call
      BY <3>1 DEF SharedSend
    <3>3. hpc[Shared] = "closed"
      BY <1>0, <2>2, <3>2 DEF Sockets
    <3>4. call[t].op # "ban"
      BY <1>t, <2>2, <3>1, <3>3 DEF SharedSend, Goto
    <3> QED BY <3>2, <3>4 DEF Told
  <2> QED BY <2>1, <2>2
<1>3. ASSUME NEW u \in Threads, u # t, Call(u) \/ Thread(u)
      PROVE  Told(Head(reply[c]), call[t])'
  <2>1. pc'[t] = pc[t] /\ call'[t] = call[t] /\ conn'[t] = conn[t]
    BY <1>0, <1>3, OneMoves
  <2>2. CASE reply' = reply
    BY <1>1, <2>1, <2>2
  <2>3. ASSUME SharedRecv(u) PROVE reply'[c] = reply[c]
    <3>1. /\ reply[Shared] # << >>
          /\ reply' = [reply EXCEPT ![Shared] = Tail(reply[Shared])]
      BY <2>3 DEF SharedRecv
    <3>a. Len(reply[Shared]) <= 1 /\ reply[Shared] \in Seq([req : Calls, ok : BOOLEAN])
      BY <1>0, <1>t DEF Sockets
    <3>3. Tail(reply[Shared]) = << >>
      BY <3>1, <3>a, TailOfOne
    <3> QED BY <1>t, <3>1, <3>3
  <2>4. ASSUME pc[u] = "recv", Close(conn[u]) PROVE reply'[c] = reply[c]
    <3>1. conn[u] # c
      <4>1. conn[u] # Shared
        BY <1>0, <2>4 DEF Own, OwnConn
      <4>2. pc[t] = "recv" => conn[u] # conn[t]
        BY <1>0, <1>3, <2>4 DEF Own
      <4> QED BY <2>1, <4>1, <4>2
    <3> QED BY <1>t, <2>4, <3>1 DEF Close
  <2>5. reply'[c] = reply[c]
    BY <1>3, <2>3, <2>4, ThreadSockets
  <2> QED BY <1>1, <2>1, <2>5
<1>4. ASSUME NEW d \in Conns, Handler(d) PROVE Told(Head(reply[c]), call[t])'
  <2>1. UNCHANGED <<pc, call, conn, result>>
    BY <1>4 DEF Handler, Receive, HandleXdp, HandleIpset, HandleTest, Respond
  <2>2. CASE d # c \/ ~Respond(d)
    <3>1. reply'[c] = reply[c]
      BY <1>t, <1>4, <2>2 DEF Handler, Receive, HandleXdp, HandleIpset, HandleTest, Respond
    <3> QED BY <1>1, <2>1, <3>1
  <2>3. CASE d = c /\ Respond(c)
    <3>1. /\ hpc[c] = "send" /\ reply[c] = << >> /\ entries' = entries
          /\ [req |-> msg[c], ok |-> ok[c]] \in [req : Calls, ok : BOOLEAN]
      BY <1>0, <1>t, <2>3 DEF Respond, Sockets
    <3>2. Head(reply'[c]) = [req |-> msg[c], ok |-> ok[c]]
      BY <1>t, <2>3, <3>1, AppendFacts DEF Respond
    <3>3. Told([req |-> msg[c], ok |-> ok[c]], msg[c])
      BY <3>1 DEF IInv, Effective
    <3> QED BY <2>1, <3>1, <3>2, <3>3 DEF Told
  <2> QED BY <2>2, <2>3
<1>5. CASE UNCHANGED vars
  BY <1>1, <1>5 DEF vars
<1> QED BY <1>2, <1>3, <1>4, <1>5 DEF Next

(* The ipset del of an unban is in effect when it is tested, after every step. *)
LEMMA StepDeleted ==
  ASSUME IInv, [Next]_vars, NEW t \in Threads, pc'[t] = "test", result'[call'[t].ip] # "clash"
  PROVE  "ipset" \notin entries'[call'[t].ip]
<1> USE DEF threads, socket, handler
<1>0. TypeOK /\ Control
  BY DEF IInv
<1>t. /\ pc \in [Threads -> {"idle", "shared_send", "shared_recv", "ping", "connect",
                             "recv", "loader", "add", "del", "test", "retest"}]
      /\ call \in [Threads -> Calls] /\ call[t].ip \in Ips
      /\ entries \in [Ips -> SUBSET {"xdp", "loader", "ipset"}]
  BY <1>0, CallFields DEF TypeOK
(* A thread that was there already, with its call. *)
<1>1. ASSUME pc[t] = "test", call'[t] = call[t] PROVE "ipset" \notin entries'[call'[t].ip]
  <2>1. call[t].op = "unban" /\ Underway(call[t]) /\ call[t] \in Calls
    BY <1>0, <1>t, <1>1 DEF Control, Underway
  <2>2. ASSUME NEW u \in Threads, Call(u) PROVE "ipset" \notin entries'[call'[t].ip]
    <3>1. result[call[t].ip] # "clash"
      BY <1>0, <1>1, <2>1, <2>2, ClashStays
    <3>2. entries' = entries
      BY <1>0, <2>2, CallBegins
    <3> QED BY <1>1, <3>1, <3>2 DEF IInv, Effective
  <2>3. ASSUME (\E u \in Threads : Thread(u)) \/ (\E c \in Conns : Handler(c))
        PROVE  "ipset" \notin entries'[call'[t].ip]
    <3>1. result[call[t].ip] # "clash"
      <4>1. ASSUME NEW u \in Threads, Thread(u) PROVE result[call[t].ip] # "clash"
        BY <1>0, <1>t, <1>1, <4>1, ReportsOwnCall
      <4>2. ASSUME NEW c \in Conns, Handler(c) PROVE result[call[t].ip] # "clash"
        BY <1>1, <4>2 DEF Handler, Receive, HandleXdp, HandleIpset, HandleTest, Respond
      <4> QED BY <2>3, <4>1, <4>2
    <3>2. "ipset" \notin entries[call[t].ip]
      BY <1>1, <3>1 DEF IInv, Effective
    <3> QED BY <1>1, <2>1, <2>3, <3>1, <3>2, UnbanStays
  <2>4. CASE UNCHANGED vars
    BY <1>1, <2>4 DEF vars, IInv, Effective
  <2> QED BY <2>2, <2>3, <2>4 DEF Next
<1>2. ASSUME Call(t) \/ Thread(t) PROVE "ipset" \notin entries'[call'[t].ip]
  <2>1. UnbanDel(t)
    <3>1. \A b \in BOOLEAN : ~Return(t, b)
      BY <1>t DEF Return, Goto
    <3>2. ~NextAttempt(t)
      BY <1>t DEF NextAttempt, Goto
    <3>3. ~Recv(t) /\ ~RecvFails(t) /\ ~RequestFails(t)
      BY <3>1, <3>2 DEF Recv, RecvFails, RequestFails
    <3>4. ~SharedRecv(t) /\ ~SharedRecvFails(t) /\ ~BanLoader(t) /\ ~BanAdd(t) /\ ~UnbanTest(t)
      BY <1>t, <3>1, UnbanTestReturns DEF SharedRecv, SharedRecvFails, BanLoader, BanAdd, Goto
    <3>5. ~Call(t) /\ ~Ping(t) /\ ~Request(t) /\ ~SharedSend(t)
      BY <1>t DEF Call, Ping, Request, SharedSend, Goto
    <3> QED BY <1>2, <3>3, <3>4, <3>5 DEF Thread
  <2>2. entries' = [entries EXCEPT ![call[t].ip] = @ \ {"ipset"}] /\ call' = call
    BY <1>t, <2>1 DEF UnbanDel, Goto
  <2> QED BY <1>t, <2>2
<1>3. ASSUME NEW u \in Threads, u # t, Call(u) \/ Thread(u)
      PROVE  pc[t] = "test" /\ call'[t] = call[t]
  BY <1>0, <1>3, OneMoves
<1>4. ASSUME NEW c \in Conns, Handler(c) PROVE pc[t] = "test" /\ call'[t] = call[t]
  BY <1>4 DEF Handler, Receive, HandleXdp, HandleIpset, HandleTest, Respond
<1>5. CASE UNCHANGED vars
  BY <1>1, <1>5 DEF vars
<1> QED BY <1>1, <1>2, <1>3, <1>4, <1>5 DEF Next

(* Every step keeps what answers report in effect. *)
LEMMA StepEffective == IInv /\ [Next]_vars => Effective'
<1> SUFFICES ASSUME IInv, [Next]_vars PROVE Effective'
  OBVIOUS
<1>1. ASSUME NEW c \in Conns, hpc'[c] \in {"ipset", "send"}
      PROVE  Told([req |-> msg[c], ok |-> ok[c]], msg[c])'
  BY <1>1, StepNoted DEF Told
<1>2. ASSUME NEW t \in Threads, pc'[t] = "shared_recv", reply'[Shared] # << >>
      PROVE  Told(Head(reply[Shared]), call[t])'
  BY <1>2, StepTold, SharedFacts
<1>3. ASSUME NEW t \in Threads, pc'[t] = "recv", reply'[conn'[t]] # << >>
      PROVE  Told(Head(reply[conn[t]]), call[t])'
  <2>1. conn'[t] \in Conns
    BY StepType DEF TypeOK
  <2>2. PICK c \in Conns : c = conn'[t]
    BY <2>1
  <2>3. Told(Head(reply[c]), call[t])'
    BY <1>3, <2>2, StepTold
  <2> QED BY <2>2, <2>3 DEF Told
<1>4. ASSUME NEW t \in Threads, pc'[t] = "test", result'[call'[t].ip] # "clash"
      PROVE  "ipset" \notin entries'[call'[t].ip]
  BY <1>4, StepDeleted
<1> QED BY <1>1, <1>2, <1>3, <1>4 DEF Effective

(* Every step keeps what calls reported true of the kernel. *)
LEMMA StepResult == IInv /\ [Next]_vars => ResultIsEffect'
<1> SUFFICES ASSUME IInv, [Next]_vars, NEW q \in Ips
             PROVE  /\ result'[q] = "in" => entries'[q] # {}
                    /\ result'[q] = "out" => "ipset" \notin entries'[q]
  BY DEF ResultIsEffect
<1> USE DEF threads, socket, handler
<1> DEFINE Goal == /\ result'[q] = "in" => entries'[q] # {}
                   /\ result'[q] = "out" => "ipset" \notin entries'[q]
<1>0. TypeOK /\ Alone /\ Control /\ ResultIsEffect
  BY DEF IInv
<1>1. ASSUME (\E t \in Threads : Thread(t)) \/ (\E c \in Conns : Handler(c)),
             result'[q] = result[q]
      PROVE  Goal
  <2>1. \A m \in Calls : Underway(m) /\ m.op \in {"ban", "unban"} /\ m.ip = q =>
          /\ result[q] = "in" => m.op = "ban"
          /\ result[q] = "out" => m.op = "unban"
    BY <1>0 DEF Alone, Asks
  <2> QED BY <1>0, <1>1, <2>1, EntriesOnRequest DEF ResultIsEffect
<1>2. ASSUME NEW t \in Threads, Call(t) PROVE Goal
  BY <1>0, <1>2, CallBegins DEF ResultIsEffect
<1>3. ASSUME NEW t \in Threads, Thread(t), result'[q] # result[q] PROVE Goal
  <2>1. /\ result[q] = "none" /\ q = call[t].ip
        /\ result'[q] = IF call[t].op = "ban" THEN "in" ELSE "out"
    BY <1>0, <1>3, ReportsOwnCall
  <2>t. /\ entries \in [Ips -> SUBSET {"xdp", "loader", "ipset"}]
        /\ reply \in [Conns -> Seq([req : Calls, ok : BOOLEAN])]
    BY <1>0 DEF TypeOK
  <2>2. CASE /\ SharedRecv(t) /\ call[t].op = "ban" /\ Head(reply[Shared]).ok
             /\ Head(reply[Shared]).req = call[t]
    <3>1. Told(Head(reply[Shared]), call[t]) /\ entries' = entries
      BY <2>2 DEF IInv, Effective, SharedRecv
    <3> QED BY <2>1, <2>2, <3>1 DEF Told
  <2>3. CASE Recv(t) /\ call[t].op = "ban" /\ Head(reply[conn[t]]).ok
    <3>1. Told(Head(reply[conn[t]]), call[t]) /\ entries' = entries
      BY <2>3 DEF IInv, Effective, Recv
    <3>2. Head(reply[conn[t]]).req = call[t]
      BY <2>3 DEF IInv, Own, OwnConn, Recv
    <3> QED BY <2>1, <2>3, <3>1, <3>2 DEF Told
  <2>4. CASE BanLoader(t) /\ entries' = [entries EXCEPT ![call[t].ip] = @ \cup {"loader"}]
    <3>1. call[t].op = "ban"
      BY <1>0, <2>4 DEF Control, BanLoader
    <3> QED BY <2>t, <2>1, <2>4, <3>1
  <2>5. CASE BanAdd(t) /\ entries' = [entries EXCEPT ![call[t].ip] = @ \cup {"ipset"}]
    <3>1. call[t].op = "ban"
      BY <1>0, <2>5 DEF Control, BanAdd
    <3> QED BY <2>t, <2>1, <2>5, <3>1
  <2>6. CASE UnbanTest(t) /\ (pc[t] = "test" \/ "ipset" \notin entries[call[t].ip])
    <3>1. call[t].op = "unban" /\ entries' = entries
      BY <1>0, <2>6 DEF Control, UnbanTest
    <3>2. "ipset" \notin entries[call[t].ip]
      BY <2>1, <2>6 DEF IInv, Effective
    <3> QED BY <2>1, <3>1, <3>2
  <2> QED BY <1>0, <1>3, <2>2, <2>3, <2>4, <2>5, <2>6, ReportsOwnCall
<1>4. ASSUME NEW c \in Conns, Handler(c) PROVE result' = result
  BY <1>4 DEF Handler, Receive, HandleXdp, HandleIpset, HandleTest, Respond
<1>5. CASE UNCHANGED vars
  BY <1>0, <1>5 DEF vars, ResultIsEffect
<1> QED BY <1>1, <1>2, <1>3, <1>4, <1>5 DEF Next

-----------------------------------------------------------------------------
(* Types, control, connections, what is under way and what answers report are
   an inductive invariant of the analyzer's threads and the daemon. *)
THEOREM PathInvariant == Spec => []IInv
<1>1. IInv /\ [Next]_vars => IInv'
  BY StepType, StepControl, StepSockets, StepOwn, StepAlone, StepEffective, StepResult DEF IInv
<1> QED BY InitIInv, <1>1, PTL DEF Spec

(* The threads, the connections, the daemon's handlers and the kernel's entries
   stay within their types; the attempts of a ban never exceed BAN_IPC_RETRIES. *)
THEOREM PathTypeCorrect == Spec => []TypeOK
<1>1. IInv => TypeOK
  BY DEF IInv
<1> QED BY PathInvariant, <1>1, PTL

(* However requests time out, are repeated, are carried out after their client
   has given up and fail half-way, a ban that no unban overlapped and that
   reported success finds its address dropped, and an unban that no ban
   overlapped finds it out of the ipset, unless both its ipset del and its ipset
   test failed; it stays so until a call of the other kind. *)
THEOREM ReportsAreTrue == Spec => []ResultIsEffect
<1>1. IInv => ResultIsEffect
  BY DEF IInv
<1> QED BY PathInvariant, <1>1, PTL
=============================================================================
