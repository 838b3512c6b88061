------------------------------ MODULE BanPath ------------------------------
(***************************************************************************)
(* How a ban or an unban gets from the analyzer to the kernel:             *)
(* ban_pipeline.c and the IPC client daemon_ipc.c against the connection   *)
(* handlers of the daemon (handle_client in ebpf_daemon.c).                *)
(*                                                                         *)
(*   - threads of the analyzer call ban_pipeline_ban, ban_pipeline_unban   *)
(*     and send_tarpit_ipc (deception.c) for addresses;                    *)
(*   - all of them share the connection g_ipc_fd that main opened, and a   *)
(*     ban that fails there is tried on connections of its own, then in    *)
(*     the analyzer's XDP map, then in the ipset;                          *)
(*   - the daemon handles ONE message per connection and closes it;        *)
(*   - every recv of a client ends after two seconds at the latest, and    *)
(*     what it asked for may still be done later.                          *)
(*                                                                         *)
(* Addresses are valid and not exempt.  The daemon stays up, but any       *)
(* connect and any kernel call may fail (BanDaemon has the crashes).       *)
(***************************************************************************)
EXTENDS Naturals, Sequences

CONSTANTS Threads,   \* threads of the analyzer that ban and unban
          Ips,       \* addresses
          Shared,    \* the connection behind g_ipc_fd
          OneShots,  \* bound: connections of _ipc_one_shot alive at once
          Backlog,   \* messages that fit into the buffer of a socket
          Retries,   \* BAN_IPC_RETRIES
          Loader     \* xdp_loader_active(): the analyzer has an XDP map too

ASSUME IpsAssumption == Ips # {}
ASSUME SharedAssumption == Shared \notin OneShots
ASSUME BacklogAssumption == Backlog \in Nat \ {0}
ASSUME RetriesAssumption == Retries \in Nat \ {0}
ASSUME LoaderAssumption == Loader \in BOOLEAN

Conns == OneShots \cup {Shared}

(* A call of the analyzer, and the message it sends. *)
Calls == [op : {"ban", "unban", "tarpit"}, ip : Ips]

VARIABLES
  entries,  \* where the kernel drops each address: the daemon's XDP map, the
            \* analyzer's XDP map ("loader"), the ipset
  pc,       \* where each thread is
  call,     \* what it has been asked to do
  try,      \* attempt in try_ipc_ban
  conn,     \* the connection it waits on
  inbox,    \* messages on each connection that the daemon has not received
  reply,    \* responses that the analyzer has not received; what a response
            \* answers (req) is not part of it and is never tested
  hpc,      \* where the daemon's handler is, "none" for a connection unused
  msg,      \* the message it works on
  ok,       \* its rc == 0
  peer,     \* the analyzer still has the connection open
  result    \* history: what the calls for an address have reported since the
            \* last one of the other kind, "in" or "out"; "clash" if calls or
            \* requests of both kinds were under way at once

threads == <<pc, call, try, conn>>
socket == <<inbox, reply, peer>>
handler == <<hpc, msg, ok>>
vars == <<entries, pc, call, try, conn, inbox, reply, hpc, msg, ok, peer, result>>

(* A message, or a call in progress, to ban or unban the address. *)
Asks(m, q) == m.op # "tarpit" /\ m.ip = q
Calling(t, q) == pc[t] # "idle" /\ Asks(call[t], q)

(* Where the daemon works on a message. *)
WorkSteps == {"xdp", "ipset", "test", "send"}

(* A call that has not returned, or a request that the daemon has not finished,
   although its client may have given it up. *)
Underway(m) ==
  \/ \E t \in Threads : pc[t] # "idle" /\ call[t] = m
  \/ \E c \in Conns : \E i \in 1 .. Len(inbox[c]) : inbox[c][i] = m
  \/ \E c \in Conns : hpc[c] \in WorkSteps /\ msg[c] = m

(* Nothing is under way for the address, or nothing but more of the same. *)
Quiet(q) == \A n \in Calls : Asks(n, q) => ~Underway(n)
Unopposed(m) == \A n \in Calls : Asks(n, m.ip) /\ Underway(n) => n = m

NoCall == CHOOSE m \in Calls : m.op = "ban"

Init ==
  /\ entries = [q \in Ips |-> {}]
  /\ pc = [t \in Threads |-> "idle"]
  /\ call = [t \in Threads |-> NoCall]
  /\ try = [t \in Threads |-> 0]
  /\ conn = [t \in Threads |-> Shared]
  /\ inbox = [c \in Conns |-> << >>]
  /\ reply = [c \in Conns |-> << >>]
  /\ hpc = [c \in Conns |-> IF c = Shared THEN "recv" ELSE "none"]
  /\ msg = [c \in Conns |-> NoCall]
  /\ ok = [c \in Conns |-> FALSE]
  /\ peer = [c \in Conns |-> c = Shared]
  /\ result = [q \in Ips |-> "none"]

-----------------------------------------------------------------------------
(* A thread of the analyzer. *)

Goto(t, p) == pc' = [pc EXCEPT ![t] = p]

Outcome(m) == IF m.op = "ban" THEN "in" ELSE "out"

(* The call is over; a success is recorded unless calls have clashed. *)
Return(t, success) ==
  /\ Goto(t, "idle")
  /\ call' = [call EXCEPT ![t] = NoCall]
  /\ try' = [try EXCEPT ![t] = 0]
  /\ conn' = [conn EXCEPT ![t] = Shared]
  /\ result' = IF success /\ result[call[t].ip] = "none"
               THEN [result EXCEPT ![call[t].ip] = Outcome(call[t])]
               ELSE result

(* ban_pipeline_ban starts with the shared connection, ban_pipeline_unban with
   a ping, and send_tarpit_ipc uses nothing but the shared connection. *)
Call(t) ==
  /\ pc[t] = "idle"
  /\ \E m \in Calls :
       /\ call' = [call EXCEPT ![t] = m]
       /\ Goto(t, IF m.op = "unban" THEN "ping" ELSE "shared_send")
       /\ result' = IF m.op = "tarpit" THEN result
                    ELSE [result EXCEPT ![m.ip] =
                           IF ~Quiet(m.ip) /\ (@ = "clash" \/ ~Unopposed(m)) THEN "clash"
                           ELSE IF @ = Outcome(m) THEN @ ELSE "none"]
  /\ UNCHANGED <<entries, try, conn, socket, handler>>

(* send on g_ipc_fd.  It fails once the daemon has closed the connection, and
   times out while the buffer is full: a ban goes on with its own connections,
   a tarpit with the recv. *)
SharedSend(t) ==
  /\ pc[t] = "shared_send"
  /\ \/ /\ hpc[Shared] # "closed" /\ Len(inbox[Shared]) < Backlog
        /\ inbox' = [inbox EXCEPT ![Shared] = Append(@, call[t])]
        /\ Goto(t, "shared_recv")
     \/ /\ hpc[Shared] = "closed" \/ Len(inbox[Shared]) = Backlog
        /\ Goto(t, IF call[t].op = "ban" THEN "connect" ELSE "shared_recv")
        /\ UNCHANGED inbox
  /\ UNCHANGED <<entries, call, try, conn, reply, peer, handler, result>>

(* recv on g_ipc_fd: whatever response comes first.  A tarpit ignores it; a ban
   takes it for its own. *)
SharedRecv(t) ==
  /\ pc[t] = "shared_recv"
  /\ reply[Shared] # << >>
  /\ reply' = [reply EXCEPT ![Shared] = Tail(@)]
  /\ LET r == Head(reply[Shared])
     IN \/ call[t].op = "tarpit" /\ Return(t, FALSE)
        \/ call[t].op = "ban" /\ r.ok /\ Return(t, r.req = call[t])
        \/ /\ call[t].op = "ban" /\ ~r.ok
           /\ Goto(t, "connect")
           /\ UNCHANGED <<call, try, conn, result>>
  /\ UNCHANGED <<entries, inbox, peer, handler>>

(* The recv times out, or the connection is closed or reset. *)
SharedRecvFails(t) ==
  /\ pc[t] = "shared_recv"
  /\ \/ call[t].op = "tarpit" /\ Return(t, FALSE)
     \/ /\ call[t].op = "ban"
        /\ Goto(t, "connect")
        /\ UNCHANGED <<call, try, conn, result>>
  /\ UNCHANGED <<entries, socket, handler>>

(* daemon_ipc_ping, three attempts that change nothing.  If the daemon answers
   it is sent the unban, else the analyzer's XDP map is cleared. *)
Ping(t) ==
  /\ pc[t] = "ping"
  /\ \/ Goto(t, "connect") /\ UNCHANGED entries
     \/ /\ Goto(t, "del")
        /\ entries' = IF Loader THEN [entries EXCEPT ![call[t].ip] = @ \ {"loader"}]
                      ELSE entries
  /\ UNCHANGED <<call, try, conn, socket, handler, result>>

(* daemon_ipc_connect and the send on the new connection. *)
Request(t) ==
  /\ pc[t] = "connect"
  /\ \E c \in OneShots :
       /\ hpc[c] = "none"
       /\ hpc' = [hpc EXCEPT ![c] = "recv"]
       /\ peer' = [peer EXCEPT ![c] = TRUE]
       /\ inbox' = [inbox EXCEPT ![c] = <<call[t]>>]
       /\ conn' = [conn EXCEPT ![t] = c]
  /\ Goto(t, "recv")
  /\ UNCHANGED <<entries, call, try, reply, msg, ok, result>>

(* Mutant: the attempts are not counted. *)
NextAttemptUncounted(t) ==
  /\ Goto(t, IF call[t].op = "unban" THEN "del" ELSE "connect")
  /\ UNCHANGED try

(* An attempt has failed.  A ban has Retries of them; an unban has one, whose
   result is ignored. *)
NextAttempt(t) ==
  /\ Goto(t, CASE call[t].op = "unban" -> "del"
               [] call[t].op = "ban" /\ try[t] + 1 < Retries -> "connect"
               [] OTHER -> "loader")
  /\ try' = [try EXCEPT ![t] = IF call[t].op = "ban" THEN @ + 1 ELSE @]

RequestFails(t) ==
  /\ pc[t] = "connect"
  /\ NextAttempt(t)
  /\ UNCHANGED <<entries, call, conn, socket, handler, result>>

(* daemon_ipc_close: a connection is unused again when both sides closed it. *)
Close(c) ==
  /\ peer' = [peer EXCEPT ![c] = FALSE]
  /\ reply' = [reply EXCEPT ![c] = << >>]
  /\ hpc' = IF hpc[c] = "closed" THEN [hpc EXCEPT ![c] = "none"] ELSE hpc
  /\ UNCHANGED <<inbox, msg, ok>>

(* recv of the response on a connection of its own, and close. *)
Recv(t) ==
  /\ pc[t] = "recv"
  /\ reply[conn[t]] # << >>
  /\ Close(conn[t])
  /\ \/ /\ call[t].op = "ban" /\ Head(reply[conn[t]]).ok
        /\ Return(t, TRUE)
     \/ /\ ~(call[t].op = "ban" /\ Head(reply[conn[t]]).ok)
        /\ NextAttempt(t)
        /\ conn' = [conn EXCEPT ![t] = Shared]
        /\ UNCHANGED <<call, result>>
  /\ UNCHANGED entries

(* Mutant: no answer in time counts as success. *)
RecvFailsIgnored(t) ==
  /\ pc[t] = "recv"
  /\ Close(conn[t])
  /\ Return(t, call[t].op = "ban")
  /\ UNCHANGED entries

(* Two seconds are over, or the connection was closed without an answer. *)
RecvFails(t) ==
  /\ pc[t] = "recv"
  /\ Close(conn[t])
  /\ NextAttempt(t)
  /\ conn' = [conn EXCEPT ![t] = Shared]
  /\ UNCHANGED <<entries, call, result>>

(* xdp_ban_ipv4 in the analyzer's map, if it has one. *)
BanLoader(t) ==
  /\ pc[t] = "loader"
  /\ \/ /\ Loader
        /\ entries' = [entries EXCEPT ![call[t].ip] = @ \cup {"loader"}]
        /\ Return(t, TRUE)
     \/ Goto(t, "add") /\ UNCHANGED <<entries, call, try, conn, result>>
  /\ UNCHANGED <<socket, handler>>

(* try_ipset_ban, the last path. *)
BanAdd(t) ==
  /\ pc[t] = "add"
  /\ \/ /\ entries' = [entries EXCEPT ![call[t].ip] = @ \cup {"ipset"}]
        /\ Return(t, TRUE)
     \/ Return(t, FALSE) /\ UNCHANGED entries
  /\ UNCHANGED <<socket, handler>>

(* ban_pipeline_unban: ipset del, whose result is ignored (the model remembers a
   failure), *)
UnbanDel(t) ==
  /\ pc[t] = "del"
  /\ \/ entries' = [entries EXCEPT ![call[t].ip] = @ \ {"ipset"}] /\ Goto(t, "test")
     \/ UNCHANGED entries /\ Goto(t, "retest")
  /\ UNCHANGED <<call, try, conn, socket, handler, result>>

(* and ipset test: anything but a found member is a success of the call, also a
   test that could not run.  A success that only two failures in a row have led
   to is not recorded. *)
UnbanTest(t) ==
  LET gone == "ipset" \notin entries[call[t].ip]
  IN  /\ \/ pc[t] = "test" /\ \E success \in {TRUE, gone} : Return(t, success)
         \/ pc[t] = "retest" /\ Return(t, gone)
      /\ UNCHANGED <<entries, socket, handler>>

-----------------------------------------------------------------------------
(* The daemon's thread for a connection, in handle_client. *)

Receive(c) ==
  /\ hpc[c] = "recv" /\ inbox[c] # << >>
  /\ msg' = [msg EXCEPT ![c] = Head(inbox[c])]
  /\ inbox' = [inbox EXCEPT ![c] = Tail(@)]
  /\ hpc' = [hpc EXCEPT ![c] = "xdp"]
  /\ UNCHANGED <<entries, threads, reply, peer, ok, result>>

(* bpf_map_update_elem, which may fail or have no map, or bpf_map_delete_elem,
   whose result is ignored; the map of the tarpit is another one. *)
HandleXdp(c) ==
  LET q == msg[c].ip
  IN /\ hpc[c] = "xdp"
     /\ \/ /\ msg[c].op = "ban"
           /\ \/ /\ entries' = [entries EXCEPT ![q] = @ \cup {"xdp"}]
                 /\ ok' = [ok EXCEPT ![c] = TRUE]
              \/ UNCHANGED <<entries, ok>>
           /\ hpc' = [hpc EXCEPT ![c] = "ipset"]
        \/ /\ msg[c].op = "unban"
           /\ \/ entries' = [entries EXCEPT ![q] = @ \ {"xdp"}]
              \/ UNCHANGED entries
           /\ hpc' = [hpc EXCEPT ![c] = "ipset"]
           /\ UNCHANGED ok
        \/ /\ msg[c].op = "tarpit"
           /\ \E b \in BOOLEAN : ok' = [ok EXCEPT ![c] = b]
           /\ hpc' = [hpc EXCEPT ![c] = "send"]
           /\ UNCHANGED entries
     /\ UNCHANGED <<threads, socket, msg, result>>

(* ipset add or del.  A ban has failed if both its entries have; a del that
   fails is looked into with ipset test. *)
HandleIpset(c) ==
  LET q == msg[c].ip
  IN /\ hpc[c] = "ipset"
     /\ \/ /\ entries' = [entries EXCEPT ![q] = IF msg[c].op = "ban" THEN @ \cup {"ipset"}
                                                ELSE @ \ {"ipset"}]
           /\ ok' = [ok EXCEPT ![c] = TRUE]
           /\ hpc' = [hpc EXCEPT ![c] = "send"]
        \/ /\ hpc' = [hpc EXCEPT ![c] = IF msg[c].op = "ban" THEN "send" ELSE "test"]
           /\ UNCHANGED <<entries, ok>>
     /\ UNCHANGED <<threads, socket, msg, result>>

(* Anything but a found member counts as gone, also a test that could not run. *)
HandleTest(c) ==
  /\ hpc[c] = "test"
  /\ \E gone \in {TRUE, "ipset" \notin entries[msg[c].ip]} : ok' = [ok EXCEPT ![c] = gone]
  /\ hpc' = [hpc EXCEPT ![c] = "send"]
  /\ UNCHANGED <<entries, threads, socket, msg, result>>

(* The response is sent, if anybody is there to receive it, and the connection
   is closed with whatever else has arrived on it. *)
Respond(c) ==
  /\ hpc[c] = "send"
  /\ reply' = IF peer[c] THEN [reply EXCEPT ![c] = Append(@, [req |-> msg[c], ok |-> ok[c]])]
              ELSE reply
  /\ hpc' = [hpc EXCEPT ![c] = IF peer[c] THEN "closed" ELSE "none"]
  /\ inbox' = [inbox EXCEPT ![c] = << >>]
  /\ msg' = [msg EXCEPT ![c] = NoCall]
  /\ ok' = [ok EXCEPT ![c] = FALSE]
  /\ UNCHANGED <<entries, threads, peer, result>>

-----------------------------------------------------------------------------
Thread(t) ==
  \/ SharedSend(t) \/ SharedRecv(t) \/ SharedRecvFails(t)
  \/ Ping(t) \/ Request(t) \/ RequestFails(t) \/ Recv(t) \/ RecvFails(t)
  \/ BanLoader(t) \/ BanAdd(t) \/ UnbanDel(t) \/ UnbanTest(t)
Handler(c) ==
  \/ Receive(c) \/ HandleXdp(c) \/ HandleIpset(c) \/ HandleTest(c) \/ Respond(c)

Next ==
  \/ \E t \in Threads : Call(t) \/ Thread(t)
  \/ \E c \in Conns : Handler(c)

Spec == Init /\ [][Next]_vars

(* The analyzer's threads keep being scheduled.  Nothing is asked of the
   daemon: every wait for it has a timeout. *)
FairSpec == Spec /\ \A t \in Threads : WF_vars(Thread(t))

-----------------------------------------------------------------------------
(* Properties. *)

(* The type of the kernel's entries, the threads, the connections and the
   history. *)
TypeOK ==
  /\ entries \in [Ips -> SUBSET {"xdp", "loader", "ipset"}]
  /\ pc \in [Threads -> {"idle", "shared_send", "shared_recv", "ping", "connect",
                         "recv", "loader", "add", "del", "test", "retest"}]
  /\ call \in [Threads -> Calls]
  /\ try \in [Threads -> 0 .. Retries]
  /\ conn \in [Threads -> Conns]
  /\ inbox \in [Conns -> Seq(Calls)]
  /\ reply \in [Conns -> Seq([req : Calls, ok : BOOLEAN])]
  /\ hpc \in [Conns -> {"none", "recv", "xdp", "ipset", "test", "send", "closed"}]
  /\ msg \in [Conns -> Calls] /\ ok \in [Conns -> BOOLEAN]
  /\ peer \in [Conns -> BOOLEAN]
  /\ result \in [Ips -> {"none", "in", "out", "clash"}]

(* What a call reports is what the kernel does, although requests time out and
   are carried out later, are repeated by several threads, and fail half-way:
   after a ban that reported success the address is dropped somewhere, and after
   an unban that did it is not in the ipset, unless both its ipset del and its
   ipset test have failed.  It stays so until a call of the other kind begins.
   Bans may overlap bans and unbans unbans, and requests of the same kind that
   were given up may still arrive; a ban and an unban, or what is left over of
   them, may not overlap.  An answer on the shared connection counts if it is
   for the address. *)
ResultIsEffect ==
  \A q \in Ips :
    /\ result[q] = "in" => entries[q] # {}
    /\ result[q] = "out" => "ipset" \notin entries[q]

(* Every ban and unban returns, whatever the daemon does: the attempts are
   counted and every wait has a timeout.  The caller may hold g_tui_mutex. *)
CallReturns == \A t \in Threads : []<>(pc[t] = "idle")

(* What daemon_ipc.h says of daemon_ipc_send, "send a message, receive the
   answer, 0 = success": a ban that succeeds on the shared connection was
   answered for its own address. *)
AnswerIsOwn ==
  [][\A t \in Threads :
       pc[t] = "shared_recv" /\ call[t].op = "ban" /\ pc'[t] = "idle"
         => Head(reply[Shared]).req = call[t]]_vars
=============================================================================
