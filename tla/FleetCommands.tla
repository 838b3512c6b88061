--------------------------- MODULE FleetCommands ---------------------------
(***************************************************************************)
(* The fleet command queue: dashboard routes that post commands (fleet/    *)
(* commands, copilot/action, schema, plugins), the poll that hands them    *)
(* out, the acknowledgement route, and the sync thread of the agents       *)
(* (agent_sync.c) at the other end.                                        *)
(*                                                                         *)
(* A route is one Node handler and yields at every await, so each database *)
(* call and each call of the guardian is a step of its own.  A command is  *)
(* a number, in the order of createdAt.  Replies and acknowledgements may  *)
(* be lost or late, an agent gives up on a poll after its timeout while    *)
(* the handler runs on, and the dashboard and the agents may crash; the    *)
(* database survives.                                                      *)
(***************************************************************************)
EXTENDS Naturals, FiniteSets

CONSTANTS
  Agents,       \* agents that poll
  Tenants,
  TenantOf,     \* agent -> the tenant of its API key
  Shadow,       \* VPS_FLEET_AGENT_ID, watched over SSH and never commanded
  NoAgent,      \* targetAgentId = null: every agent of the tenant
  NoTenant,     \* targetTenantId absent
  Host,         \* the guardian that executeGuardianBan reaches
  MaxCmd,       \* bound: commands posted
  Requests,     \* bound: the posts that occur
  Deployments,  \* bound: the configurations that occur
  Slots,        \* bound: poll handlers alive at once
  InboxCaps,    \* how many commands may fit into the 8 KB buffer of an agent
  MaxFaults     \* bound: polls given up and faults

Cmds == 1..MaxCmd
Performers == Agents \cup {Host}

BanTypes == {"BAN_IP", "UNBAN_IP"}
\* ALLOWED_TYPES of fleetCommandValidate.ts; process_commands knows the same.
FleetTypes == BanTypes \cup {"PUSH_WAF_RULE", "PUSH_THREAT_FEED", "PUSH_CONFIG",
                             "PUSH_SCHEMA", "PUSH_WASM_PLUGIN"}
Types == FleetTypes \cup {"UPDATE_THRESHOLD"}

(* A post: the route, the caller's role and tenant, the tenant and agent it
   names, and whether the payload passes validateFleetCommand. *)
RequestType == [route : {"fleet", "copilot", "schema", "plugins"}, admin : BOOLEAN,
                user : Tenants, tenant : Tenants \cup {NoTenant},
                target : Agents \cup {Shadow, NoAgent}, type : Types,
                wellFormed : BOOLEAN, now : BOOLEAN]
\* key: fleetSignKey() # null; requireSig: fleetRequireSig(); agentKey: whether
\* the agents hold no key, or a key and then require signatures, and which.
DeploymentType == [key : BOOLEAN, requireSig : BOOLEAN, agentKey : {"none", "same", "other"}]

ASSUME TenantAssumption == TenantOf \in [Agents -> Tenants]
ASSUME NameAssumption == Host \notin Agents /\ Shadow \notin Agents /\ NoAgent \notin Agents
ASSUME CmdAssumption == MaxCmd \in Nat /\ InboxCaps \subseteq Nat /\ MaxFaults \in Nat
ASSUME SlotAssumption == Slots \subseteq Nat \ {0}  \* 0 is no handler
ASSUME RequestAssumption == Requests \subseteq RequestType
ASSUME DeploymentAssumption == Deployments \subseteq DeploymentType

VARIABLES
  env,      \* the deployment
  row,      \* AgentCommand rows
  post,     \* the handler that created each command: what it awaits
  poll,     \* the poll handlers
  agent,    \* the sync thread of each agent
  acks,     \* acknowledgements under way
  faults,   \* polls given up and faults so far
  results,  \* history: who carried out which command, with what result
  runs,     \* history: how often each performer carried out each command
  before,   \* history: pairs <<c, d>>, c signed before d was created, or c = d
  misordered \* history: an agent ran c although it had run d, for such a pair

vars == <<env, row, post, poll, agent, acks, faults, results, runs, before, misordered>>

Statuses == {"absent", "pending", "delivered", "executed", "failed", "completed"}
Settled == {"executed", "failed", "completed"}
NoRequest == [route |-> "none"]
RowType == [status : Statuses, executed : BOOLEAN, signed : BOOLEAN,
            request : Requests \cup {NoRequest}, tenant : Tenants \cup {NoTenant},
            target : Agents \cup {Shadow, NoAgent}]
NoRow == [status |-> "absent", executed |-> FALSE, signed |-> FALSE,
          request |-> NoRequest, tenant |-> NoTenant, target |-> NoAgent]
PollType == [phase : {"free", "found"}, agent : Agents \cup {NoAgent},
             list : SUBSET Cmds, signed : SUBSET Cmds]
FreePoll == [phase |-> "free", agent |-> NoAgent, list |-> {}, signed |-> {}]
AgentType == [phase : {"idle", "waiting", "working"}, slot : Slots \cup {0},
              inbox : SUBSET Cmds, signed : SUBSET Cmds]
IdleAgent == [phase |-> "idle", slot |-> 0, inbox |-> {}, signed |-> {}]
AckType == [cmd : Cmds, from : Agents, status : {"executed", "failed"}, found : BOOLEAN]

TypeOK ==
  /\ env \in Deployments
  /\ row \in [Cmds -> RowType]
  /\ post \in [Cmds -> {"none", "sign", "ban", "complete", "done"}]
  /\ poll \in [Slots -> PollType]
  /\ agent \in [Agents -> AgentType]
  /\ acks \subseteq AckType
  /\ faults \in 0..MaxFaults
  /\ results \subseteq Performers \X Cmds \X {"executed", "failed"}
  /\ runs \in [Performers \X Cmds -> Nat]
  /\ before \subseteq Cmds \X Cmds
  /\ misordered \in BOOLEAN

Init ==
  /\ env \in Deployments
  /\ row = [c \in Cmds |-> NoRow]
  /\ post = [c \in Cmds |-> "none"]
  /\ poll = [s \in Slots |-> FreePoll]
  /\ agent = [a \in Agents |-> IdleAgent]
  /\ acks = {}
  /\ faults = 0
  /\ results = {}
  /\ runs = [r \in Performers \X Cmds |-> 0]
  /\ before = {}
  /\ misordered = FALSE

Least(S) == CHOOSE c \in S : \A d \in S : c <= d

-----------------------------------------------------------------------------
(* Posting. *)

(* The checks of each route before anything is stored. *)

FleetAccepts(q) == /\ q.route = "fleet"
                   /\ q.type \in FleetTypes /\ q.wellFormed /\ q.target # Shadow

\* Neither validates the payload nor looks for the shadow agent.
CopilotAccepts(q) ==
  /\ q.route = "copilot"
  /\ q.admin \/ q.type \in {"UNBAN_IP", "PUSH_CONFIG", "UPDATE_THRESHOLD"}

SchemaAccepts(q) == /\ q.route = "schema" /\ q.type = "PUSH_SCHEMA" /\ q.target = NoAgent
                    /\ q.admin /\ q.wellFormed

PluginsAccepts(q) == /\ q.route = "plugins" /\ q.type = "PUSH_WASM_PLUGIN" /\ q.target = NoAgent
                     /\ q.admin /\ q.wellFormed

Accepted(q) == FleetAccepts(q) \/ CopilotAccepts(q) \/ SchemaAccepts(q) \/ PluginsAccepts(q)

FinalTenant(q) == IF q.route = "fleet" /\ q.admin /\ q.tenant # NoTenant
                  THEN q.tenant ELSE q.user

\* Whether the handler bans at once through the guardian of the dashboard's host.
Immediate(q) == /\ q.type \in BanTypes
                /\ \/ q.route = "fleet" /\ q.admin
                   \/ q.route = "copilot" /\ q.now

\* agentCommand.create: the row is visible, without a signature.
CreateCommand(c, q) ==
  /\ c = Cardinality({d \in Cmds : row[d].status # "absent"}) + 1
  /\ Accepted(q)
  /\ \A d \in Cmds : row[d].request # q  \* bound: each post of Requests occurs once
  /\ row' = [row EXCEPT ![c] = [NoRow EXCEPT !.status = "pending", !.request = q,
                                             !.tenant = FinalTenant(q), !.target = q.target]]
  /\ post' = [post EXCEPT ![c] = "sign"]
  /\ before' = before \cup {<<d, c>> : d \in {e \in Cmds : row[e].signed} \cup {c}}
  /\ UNCHANGED <<env, poll, agent, acks, faults, results, runs, misordered>>

\* The second half of createSignedFleetCommand; without a key the row stays
\* unsigned.
SignCommand(c) ==
  /\ post[c] = "sign"
  /\ row' = [row EXCEPT ![c].signed = env.key]
  /\ post' = [post EXCEPT ![c] = IF Immediate(row[c].request) THEN "ban" ELSE "done"]
  /\ UNCHANGED <<env, poll, agent, acks, faults, results, runs, before, misordered>>

\* executeGuardianBan, which may fail in many ways (see BansView).  Only the
\* fleet route records the success on the command.
ExecuteNow(c, ok) ==
  /\ post[c] = "ban"
  /\ ok => row[c].request.wellFormed
  /\ results' = IF ok THEN results \cup {<<Host, c, "executed">>} ELSE results
  /\ runs' = IF ok THEN [runs EXCEPT ![<<Host, c>>] = @ + 1] ELSE runs
  /\ post' = [post EXCEPT ![c] = IF ok /\ row[c].request.route = "fleet"
                                 THEN "complete" ELSE "done"]
  /\ UNCHANGED <<env, row, poll, agent, acks, faults, before, misordered>>

\* The update after a successful ban; it does not look at the status.
CompleteCommand(c) ==
  /\ post[c] = "complete"
  /\ row' = [row EXCEPT ![c].status = "completed", ![c].executed = TRUE]
  /\ post' = [post EXCEPT ![c] = "done"]
  /\ UNCHANGED <<env, poll, agent, acks, faults, results, runs, before, misordered>>

-----------------------------------------------------------------------------
(* Polling. *)

(* Mutant: the tenant is missing in the where clause. *)
MatchesAnyTenant(c, a) == /\ row[c].status = "pending"
                          /\ ~row[c].executed
                          /\ row[c].target \in {a, NoAgent}

(* Mutant: NoAgent does not match. *)
MatchesTargetOnly(c, a) == /\ row[c].status = "pending"
                           /\ ~row[c].executed
                           /\ row[c].tenant = TenantOf[a]
                           /\ row[c].target = a

\* The where clause of findMany.
Matches(c, a) == /\ row[c].status = "pending"
                 /\ ~row[c].executed
                 /\ row[c].tenant = TenantOf[a]
                 /\ row[c].target \in {a, NoAgent}

\* verifyFleetCommandSignature.  (An acknowledgement may change the payload that
\* was signed, but then the command is no longer pending.)
Verified(c) == IF row[c].signed THEN env.key ELSE ~env.requireSig

\* The agent polls: the key is looked up, findMany and the filter follow, and the
\* handler keeps what it found.
FindCommands(a, s) ==
  /\ agent[a].phase = "idle"
  /\ poll[s].phase = "free"
  /\ \A r \in Slots : r < s => poll[r].phase # "free"  \* handlers are alike
  /\ LET found == {c \in Cmds : Matches(c, a) /\ Verified(c)}
     IN poll' = [poll EXCEPT ![s] = [phase |-> "found", agent |-> a, list |-> found,
                                     signed |-> {c \in found : row[c].signed}]]
  /\ agent' = [agent EXCEPT ![a] = [IdleAgent EXCEPT !.phase = "waiting", !.slot = s]]
  /\ UNCHANGED <<env, row, post, acks, faults, results, runs, before, misordered>>

\* The part of the reply that fits into the buffer of curl_write_cb.
Fits(list, n) == {c \in list : Cardinality({d \in list : d <= c}) <= n}

\* What is left of a reply; the sync loop goes on when nothing is.
Rest(inbox, signed) == IF inbox = {} THEN IdleAgent
                       ELSE [phase |-> "working", slot |-> 0, inbox |-> inbox, signed |-> signed]

(* Mutant: updateMany without status: 'pending'. *)
MarkDeliveredUnguarded(s, n) ==
  /\ poll[s].phase = "found"
  /\ row' = [c \in Cmds |-> IF c \in poll[s].list
                            THEN [row[c] EXCEPT !.status = "delivered"] ELSE row[c]]
  /\ LET a == poll[s].agent
     IN agent' = IF agent[a].slot = s
                 THEN [agent EXCEPT ![a] = Rest(Fits(poll[s].list, n), poll[s].signed)]
                 ELSE agent
  /\ poll' = [poll EXCEPT ![s] = FreePoll]
  /\ UNCHANGED <<env, post, acks, faults, results, runs, before, misordered>>

\* updateMany: what is still pending becomes delivered.  The reply, all that was
\* found, goes to the agent if it still waits for it.
MarkDelivered(s, n) ==
  /\ poll[s].phase = "found"
  /\ row' = [c \in Cmds |-> IF c \in poll[s].list /\ row[c].status = "pending"
                            THEN [row[c] EXCEPT !.status = "delivered"] ELSE row[c]]
  /\ LET a == poll[s].agent
     IN agent' = IF agent[a].slot = s
                 THEN [agent EXCEPT ![a] = Rest(Fits(poll[s].list, n), poll[s].signed)]
                 ELSE agent
  /\ poll' = [poll EXCEPT ![s] = FreePoll]
  /\ UNCHANGED <<env, post, acks, faults, results, runs, before, misordered>>

-----------------------------------------------------------------------------
(* The agent: process_commands of agent_sync.c. *)

\* CURLOPT_TIMEOUT, or the connection breaks: the agent gives up, and a reply,
\* sent or not, finds nobody.
PollTimeout(a) ==
  /\ agent[a].phase = "waiting"
  /\ faults < MaxFaults
  /\ faults' = faults + 1
  /\ agent' = [agent EXCEPT ![a] = IdleAgent]
  /\ UNCHANGED <<env, row, post, poll, acks, results, runs, before, misordered>>

\* fleet_verify_command_sig on what the reply carried.
AgentVerifies(a, c) == \/ env.agentKey = "none"
                       \/ env.agentKey = "same" /\ c \in agent[a].signed

(* Mutant: orderBy createdAt turned round. *)
CurrentNewest(a) == CHOOSE c \in agent[a].inbox : \A d \in agent[a].inbox : c >= d

\* The next command of the reply, in its order.
Current(a) == Least(agent[a].inbox)

\* A command whose signature does not verify is passed over, and not answered.
SkipCommand(a) ==
  /\ agent[a].phase = "working"
  /\ ~AgentVerifies(a, Current(a))
  /\ agent' = [agent EXCEPT ![a] = Rest(@.inbox \ {Current(a)}, @.signed)]
  /\ UNCHANGED <<env, row, post, poll, acks, faults, results, runs, before, misordered>>

\* The command is carried out and acknowledged; the agent does not look at the
\* answer to its acknowledgement.
RunCommand(a, ok) ==
  /\ agent[a].phase = "working"
  /\ LET c == Current(a)
         st == IF ok THEN "executed" ELSE "failed"
     IN /\ AgentVerifies(a, c)
        /\ ok => row[c].request.type \in FleetTypes /\ row[c].request.wellFormed
        /\ results' = results \cup {<<a, c, st>>}
        /\ runs' = [runs EXCEPT ![<<a, c>>] = @ + 1]
        /\ acks' = acks \cup {[cmd |-> c, from |-> a, status |-> st, found |-> FALSE]}
        /\ agent' = [agent EXCEPT ![a] = Rest(@.inbox \ {c}, @.signed)]
        /\ misordered' = (misordered \/ \E d \in Cmds :
             /\ <<c, d>> \in before
             /\ \E r \in results : r[1] = a /\ r[2] = d)
  /\ UNCHANGED <<env, row, post, poll, faults, before>>

\* The analyzer stops and starts again: the rest of the reply is gone.
AgentCrash(a) ==
  /\ agent[a].phase = "working"
  /\ faults < MaxFaults
  /\ faults' = faults + 1
  /\ agent' = [agent EXCEPT ![a] = IdleAgent]
  /\ UNCHANGED <<env, row, post, poll, acks, results, runs, before, misordered>>

-----------------------------------------------------------------------------
(* Acknowledging.  An acknowledgement that is lost is one that never arrives. *)

\* findFirst by id and tenant.
FindAcked(k) ==
  /\ ~k.found
  /\ acks' = IF row[k.cmd].tenant = TenantOf[k.from]
             THEN (acks \ {k}) \cup {[k EXCEPT !.found = TRUE]} ELSE acks \ {k}
  /\ UNCHANGED <<env, row, post, poll, agent, faults, results, runs, before, misordered>>

(* Mutant: every acknowledgement counts as executed. *)
AckStatusExecuted(st) == "executed"

\* Whatever is not "failed" or "delivered" counts as executed; the agents of this
\* repository send "executed" and "failed" only.
AckStatus(st) == IF st \in {"failed", "delivered"} THEN st ELSE "executed"

\* The update, which does not look at the status that the row has by now.  The
\* detail that it adds to the payload read before is left out.
UpdateAcked(k) ==
  /\ k.found
  /\ LET st == AckStatus(k.status)
     IN row' = [row EXCEPT ![k.cmd].status = st,
                           ![k.cmd].executed = st \in {"executed", "failed"}]
  /\ acks' = acks \ {k}
  /\ UNCHANGED <<env, post, poll, agent, faults, results, runs, before, misordered>>

\* The dashboard restarts: every handler and connection is gone, the rows are not.
DashboardCrash ==
  /\ faults < MaxFaults
  /\ faults' = faults + 1
  /\ post' = [c \in Cmds |-> IF post[c] = "none" THEN "none" ELSE "done"]
  /\ poll' = [s \in Slots |-> FreePoll]
  /\ agent' = [a \in Agents |-> IF agent[a].phase = "waiting" THEN IdleAgent ELSE agent[a]]
  /\ acks' = {k \in acks : ~k.found}
  /\ UNCHANGED <<env, row, results, runs, before, misordered>>

-----------------------------------------------------------------------------
PostStep(c) == \/ \E q \in Requests : CreateCommand(c, q)
               \/ SignCommand(c)
               \/ \E ok \in BOOLEAN : ExecuteNow(c, ok)
               \/ CompleteCommand(c)

PollStep(s) == \/ \E a \in Agents : FindCommands(a, s)
               \/ \E n \in InboxCaps : MarkDelivered(s, n)

AgentStep(a) == \/ PollTimeout(a) \/ SkipCommand(a) \/ AgentCrash(a)
                \/ \E ok \in BOOLEAN : RunCommand(a, ok)

AckStep(k) == FindAcked(k) \/ UpdateAcked(k)

Next == \/ \E c \in Cmds : PostStep(c)
        \/ \E s \in Slots : PollStep(s)
        \/ \E a \in Agents : AgentStep(a)
        \/ \E k \in acks : AckStep(k)
        \/ DashboardCrash

(* The sync loop of an agent never ends, and a handler that runs goes on:
   nothing is assumed of replies and acknowledgements.  A poll starts under
   strong fairness because Slots, a bound of the model only, may be taken. *)
Fairness ==
  /\ \A a \in Agents : /\ SF_vars(\E s \in Slots : FindCommands(a, s))
                       /\ WF_vars(SkipCommand(a) \/ \E ok \in BOOLEAN : RunCommand(a, ok))
  /\ \A s \in Slots : WF_vars(\E n \in InboxCaps : MarkDelivered(s, n))
  /\ \A c \in Cmds : WF_vars(SignCommand(c))

Spec == Init /\ [][Next]_vars
FairSpec == Spec /\ Fairness
-----------------------------------------------------------------------------
(* A command is run only by agents of the tenant it was posted for and, when it
   names an agent, by that one: the tenant comes from the API key of the poll
   and from the session of the post, and nothing in between may mix them. *)
TenantIsolated ==
  \A r \in results : r[1] \in Agents =>
    /\ row[r[2]].tenant = TenantOf[r[1]]
    /\ row[r[2]].target \in {r[1], NoAgent}

(* An agent never runs a command twice, nor after one that was created when the
   command was signed already, whatever polls time out, overlap or are lost. *)
InOrder == ~misordered

(* The status that the operator sees is true: "executed" and "failed" were
   reported by an agent that ran the command with that result, "completed" by
   the handler that banned through the guardian. *)
SettledIsReal ==
  \A c \in Cmds :
    /\ row[c].status \in {"executed", "failed"} =>
         \E a \in Agents : <<a, c, row[c].status>> \in results
    /\ row[c].status = "completed" => <<Host, c, "executed">> \in results

(* A signed command that some agent may run is handed out in the end, although
   handlers crash between the read and the update and agents give up on polls. *)
PendingIsHandedOut ==
  \A c \in Cmds :
    ( /\ row[c].status = "pending" /\ row[c].signed
      /\ \E a \in Agents : row[c].tenant = TenantOf[a] /\ row[c].target \in {a, NoAgent} )
    ~> (row[c].status # "pending")

(* The queue implements CommandLife. *)
Stage(status) == CASE status = "pending" -> "queued"
                   [] status = "delivered" -> "taken"
                   [] OTHER -> status

Life == INSTANCE CommandLife WITH life <- [c \in Cmds |-> Stage(row[c].status)],
                                  done <- results

(* An agent runs a command only once it is marked as handed out, nobody runs it
   twice, it is settled with a result that someone had, and once settled it is
   never pending or delivered again, although the update after a ban and the
   update of an acknowledgement write a row that they read earlier or not at all.
   What is not promised is that a result stays: the reports of several performers
   replace each other. *)
LifeSpec == Life!LifeSpec
=============================================================================
