------------------------ MODULE FleetCommandsProofs ------------------------
(***************************************************************************)
(* What FleetCommands guarantees for any number of commands, agents,       *)
(* tenants, poll handlers and faults.                                      *)
(*                                                                         *)
(* Nothing tells an agent which commands it ran already: that it runs none *)
(* twice, and none late, follows from what polls can still find.  OrderInv *)
(* therefore speaks of three places at once, the rows, the list of the     *)
(* poll that an agent waits for, and its inbox.                            *)
(***************************************************************************)
EXTENDS FleetCommands, FiniteSetTheorems, WellFoundedInduction, TLAPS

\* c has been created.
Known(c) == row[c].status # "absent"

\* c was posted for the tenant of a, and for a or for all its agents.
For(c, a) == /\ Known(c)
             /\ row[c].tenant = TenantOf[a]
             /\ row[c].target \in {a, NoAgent}

\* p has carried out c.
Ran(p, c) == \E r \in results : r[1] = p /\ r[2] = c

\* a waits for the reply of handler s.
Waits(a, s) == agent[a].phase = "waiting" /\ agent[a].slot = s

\* An agent that works has a command left, so that Current is one of them.
WorkInv == \A a \in Agents : agent[a].phase = "working" => agent[a].inbox # {}

\* Commands are numbered without gaps, and only the handler of a created one runs.
RowsInv ==
  \A c \in Cmds :
    /\ Known(c) => \A d \in Cmds : d < c => Known(d)
    /\ ~Known(c) => post[c] = "none" /\ ~row[c].signed
    /\ row[c].signed => env.key

\* How far a handler that bans at once has come.
HostInv ==
  \A c \in Cmds :
    /\ post[c] \in {"sign", "ban"} => ~Ran(Host, c)
    /\ post[c] = "complete" => <<Host, c, "executed">> \in results

\* A poll found commands for its agent only.
PollsInv ==
  \A s \in Slots : poll[s].phase = "found" =>
    /\ poll[s].agent \in Agents
    /\ \A c \in poll[s].list : For(c, poll[s].agent)

\* An agent waits for a poll of its own, and what it received is marked.
AgentsInv ==
  \A a \in Agents :
    /\ agent[a].phase = "waiting" => /\ agent[a].slot \in Slots
                                     /\ poll[agent[a].slot].phase = "found"
                                     /\ poll[agent[a].slot].agent = a
    /\ agent[a].phase # "waiting" => agent[a].slot = 0
    /\ agent[a].inbox # {} => agent[a].phase = "working"
    /\ \A c \in agent[a].inbox : For(c, a) /\ row[c].status # "pending"

\* What was carried out had been handed out; only that is acknowledged.
ResultsInv ==
  /\ \A r \in results : /\ Known(r[2])
                        /\ r[1] \in Agents => For(r[2], r[1]) /\ row[r[2]].status # "pending"
  /\ \A k \in acks : <<k.from, k.cmd, k.status>> \in results

\* What nobody has carried out has not been counted.
RunsInv == \A p \in Performers, c \in Cmds : ~Ran(p, c) => runs[<<p, c>>] = 0

\* before relates created commands, in the order of their creation.
BeforeInv ==
  /\ \A c \in Cmds : Known(c) => <<c, c>> \in before
  /\ \A c, d \in Cmds : <<c, d>> \in before =>
       /\ Known(c) /\ Known(d) /\ c <= d
       /\ c = d \/ row[c].signed

\* When c comes before d, an agent that has d in a reply or ran it will not find
\* c any more, and an agent that ran d does not hold c either.
OrderInv ==
  \A a \in Agents : \A c, d \in Cmds : <<c, d>> \in before =>
    /\ Ran(a, d) => /\ ~Matches(c, a)
                    /\ c \notin agent[a].inbox
                    /\ \A s \in Slots : Waits(a, s) => c \notin poll[s].list
    /\ d \in agent[a].inbox => ~Matches(c, a)
    /\ \A s \in Slots : Waits(a, s) /\ d \in poll[s].list /\ Matches(c, a) => c \in poll[s].list

IInv == /\ TypeOK /\ WorkInv
        /\ RowsInv /\ HostInv /\ PollsInv /\ AgentsInv /\ ResultsInv
        /\ RunsInv /\ BeforeInv /\ OrderInv /\ InOrder /\ SettledIsReal

\* What a step does to a row that exists: it never becomes pending again, and
\* keeps the tenant and the agent it was posted for.
Forward ==
  \A c \in Cmds : row[c].status # "absent" =>
    /\ row'[c].status # "absent"
    /\ row'[c].status = "pending" => row[c].status = "pending"
    /\ row'[c].tenant = row[c].tenant /\ row'[c].target = row[c].target
    /\ row[c].executed => row'[c].executed
    /\ row[c].signed => row'[c].signed

-----------------------------------------------------------------------------
(* A set of numbers that is not empty has a least one. *)
LEMMA HasLeast ==
  ASSUME NEW S \in SUBSET Nat, S # {}
  PROVE  \E c \in S : \A d \in S : c <= d
<1> DEFINE Less == {ss \in Nat \X Nat : ss[1] < ss[2]}
<1>1. IsWellFoundedOn(Less, Nat)
  <2>1. OpToRel(<, Nat) = Less
    BY DEF OpToRel
  <2> QED
    BY <2>1, NatLessThanWellFounded
<1>2. PICK c \in S : \A d \in S : ~(<<d, c>> \in Less)
  <2> HIDE DEF Less
  <2> QED
    BY <1>1, WFMin
<1>3. ASSUME NEW d \in S PROVE c <= d
  <2>1. c \in Nat /\ d \in Nat
    OBVIOUS
  <2>2. <<d, c>> \in Nat \X Nat
    BY <2>1
  <2>3. ~(d < c)
    BY <1>2, <2>2
  <2> QED
    BY <2>1, <2>3
<1> QED
  BY <1>3

(* The agent takes the commands of a reply in the order they were created:
   process_commands walks the array of the reply from its start. *)
LEMMA CurrentIsLeast ==
  ASSUME TypeOK, WorkInv, NEW a \in Agents, agent[a].phase = "working"
  PROVE  /\ Current(a) \in agent[a].inbox
         /\ Current(a) \in Cmds
         /\ \A d \in agent[a].inbox : Current(a) <= d
<1>1. agent[a].inbox \in SUBSET Cmds /\ agent[a].inbox # {}
  BY DEF TypeOK, AgentType, WorkInv
<1>2. agent[a].inbox \in SUBSET Nat
  BY <1>1, CmdAssumption DEF Cmds
<1>3. PICK c \in agent[a].inbox : \A d \in agent[a].inbox : c <= d
  BY <1>1, <1>2, HasLeast
<1> QED
  BY <1>1, <1>3 DEF Current, Least

(* An update of the columns that a handler writes leaves a row a row. *)
LEMMA RowUpdate ==
  ASSUME NEW r \in RowType, NEW st \in Statuses, NEW b \in BOOLEAN
  PROVE  /\ [r EXCEPT !.status = st, !.executed = b] \in RowType
         /\ [r EXCEPT !.signed = b] \in RowType
         /\ [r EXCEPT !.status = st] \in RowType
  BY DEF RowType

(* A step of the acknowledgement route writes what the agent reported into the
   row, or leaves it alone, and adds no acknowledgement. *)
LEMMA AckMoves ==
  ASSUME TypeOK, NEW k \in acks, AckStep(k)
  PROVE  /\ k \in AckType /\ k.cmd \in Cmds /\ k.status \in {"executed", "failed"}
         /\ UNCHANGED <<env, post, poll, agent, faults, results, runs, before, misordered>>
         /\ row' \in [Cmds -> RowType]
         /\ \A d \in Cmds : d # k.cmd => row'[d] = row[d]
         /\ row' = row \/ (row'[k.cmd].status = k.status /\ row'[k.cmd].executed)
         /\ row'[k.cmd].tenant = row[k.cmd].tenant /\ row'[k.cmd].target = row[k.cmd].target
         /\ row'[k.cmd].signed = row[k.cmd].signed
         /\ \A j \in acks' : /\ j \in AckType
                             /\ \E i \in acks : j.from = i.from /\ j.cmd = i.cmd /\ j.status = i.status
<1>0. k \in AckType /\ k.cmd \in Cmds /\ k.status \in {"executed", "failed"}
  BY DEF TypeOK, AckType
<1>1. CASE FindAcked(k)
  <2> DEFINE f == [k EXCEPT !.found = TRUE]
  <2>1. f \in AckType /\ f.from = k.from /\ f.cmd = k.cmd /\ f.status = k.status
    BY <1>0 DEF AckType
  <2> HIDE DEF f
  <2>2. acks' \subseteq acks \cup {f}
    BY <1>1 DEF FindAcked, f
  <2>3. UNCHANGED <<env, row, post, poll, agent, faults, results, runs, before, misordered>>
    BY <1>1 DEF FindAcked
  <2> QED
    BY <1>0, <2>1, <2>2, <2>3 DEF TypeOK
<1>2. CASE UpdateAcked(k)
  <2> DEFINE r == [row[k.cmd] EXCEPT !.status = k.status, !.executed = TRUE]
  <2>1. AckStatus(k.status) = k.status /\ (k.status \in {"executed", "failed"}) = TRUE
    BY <1>0 DEF AckStatus
  <2>2. row' = [row EXCEPT ![k.cmd] = r]
    BY <1>0, <1>2, <2>1 DEF UpdateAcked, TypeOK
  <2>3. row[k.cmd] \in RowType
    BY <1>0 DEF TypeOK
  <2>4. /\ r \in RowType /\ r.status = k.status /\ r.executed
        /\ r.tenant = row[k.cmd].tenant /\ r.target = row[k.cmd].target
        /\ r.signed = row[k.cmd].signed
    BY <1>0, <2>3 DEF RowType, Statuses
  <2> HIDE DEF r
  <2>5. acks' \subseteq acks
    BY <1>2 DEF UpdateAcked
  <2>6. UNCHANGED <<env, post, poll, agent, faults, results, runs, before, misordered>>
    BY <1>2 DEF UpdateAcked
  <2>7. row' \in [Cmds -> RowType] /\ row'[k.cmd] = r /\ \A d \in Cmds : d # k.cmd => row'[d] = row[d]
    BY <1>0, <2>2, <2>4 DEF TypeOK
  <2> QED
    BY <1>0, <2>4, <2>5, <2>6, <2>7 DEF TypeOK
<1> QED
  BY <1>1, <1>2 DEF AckStep

(* Each handler and each step of an agent keeps the type of every variable; an
   agent stops working when its inbox is empty. *)
THEOREM FleetTypeCorrect == Spec => [](TypeOK /\ WorkInv)
<1> USE DEF PollType, AgentType, FreePoll, IdleAgent, Performers
<1>1. Init => TypeOK
  <2> SUFFICES ASSUME Init PROVE TypeOK
    OBVIOUS
  <2>1. NoRow \in RowType
    BY DEF NoRow, RowType, Statuses
  <2>2. 0 \in 0..MaxFaults
    BY CmdAssumption
  <2> QED
    BY <2>1, <2>2 DEF Init, TypeOK
<1>2. TypeOK /\ WorkInv /\ [Next]_vars => TypeOK'
  <2> SUFFICES ASSUME TypeOK, WorkInv, [Next]_vars PROVE TypeOK'
    OBVIOUS
  <2> USE DEF TypeOK
  <2>1. ASSUME NEW c \in Cmds, NEW q \in Requests, CreateCommand(c, q) PROVE TypeOK'
    <3>1. q \in RequestType
      BY <2>1, RequestAssumption
    <3>2. FinalTenant(q) \in Tenants \cup {NoTenant} /\ q.target \in Agents \cup {Shadow, NoAgent}
      BY <3>1 DEF FinalTenant, RequestType
    <3>3. row' \in [Cmds -> RowType]
      BY <2>1, <3>2 DEF CreateCommand, NoRow, RowType, Statuses
    <3>4. before' \subseteq Cmds \X Cmds
      BY <2>1 DEF CreateCommand
    <3> QED
      BY <2>1, <3>3, <3>4 DEF CreateCommand
  <2>2. ASSUME NEW c \in Cmds, SignCommand(c) PROVE TypeOK'
    <3>1. env.key \in BOOLEAN
      BY DeploymentAssumption DEF DeploymentType
    <3>4. [row[c] EXCEPT !.signed = env.key] \in RowType
      BY <3>1, RowUpdate, "absent" \in Statuses DEF Statuses
    <3>2. ASSUME NEW d \in Cmds PROVE row'[d] \in RowType
      BY <2>2, <3>4 DEF SignCommand
    <3>3. row' \in [Cmds -> RowType]
      BY <2>2, <3>2 DEF SignCommand
    <3> QED
      BY <2>2, <3>3 DEF SignCommand
  <2>3. ASSUME NEW c \in Cmds, NEW ok \in BOOLEAN, ExecuteNow(c, ok) PROVE TypeOK'
    <3>1. runs' \in [Performers \X Cmds -> Nat]
      <4>1. <<Host, c>> \in Performers \X Cmds
        OBVIOUS
      <4> QED
        BY <2>3, <4>1 DEF ExecuteNow
    <3> QED
      BY <2>3, <3>1 DEF ExecuteNow
  <2>4. ASSUME NEW c \in Cmds, CompleteCommand(c) PROVE TypeOK'
    <3>1. ASSUME NEW d \in Cmds PROVE row'[d] \in RowType
      BY <2>4, RowUpdate DEF CompleteCommand, Statuses
    <3>2. row' \in [Cmds -> RowType]
      BY <2>4, <3>1 DEF CompleteCommand
    <3> QED
      BY <2>4, <3>2 DEF CompleteCommand
  <2>5. ASSUME NEW a \in Agents, NEW s \in Slots, FindCommands(a, s) PROVE TypeOK'
    BY <2>5 DEF FindCommands
  <2>6. ASSUME NEW s \in Slots, NEW n \in InboxCaps, MarkDelivered(s, n) PROVE TypeOK'
    <3>1. row' \in [Cmds -> RowType]
      BY <2>6, RowUpdate DEF MarkDelivered, Statuses
    <3>2. Rest(Fits(poll[s].list, n), poll[s].signed) \in AgentType
      BY DEF Rest, Fits
    <3>3. agent' \in [Agents -> AgentType]
      BY <2>6, <3>2 DEF MarkDelivered
    <3> QED
      BY <2>6, <3>1, <3>3 DEF MarkDelivered
  <2>7. ASSUME NEW a \in Agents, PollTimeout(a) PROVE TypeOK'
    BY <2>7, CmdAssumption DEF PollTimeout
  <2>8. ASSUME NEW a \in Agents, SkipCommand(a) PROVE TypeOK'
    BY <2>8 DEF SkipCommand, Rest
  <2>9. ASSUME NEW a \in Agents, AgentCrash(a) PROVE TypeOK'
    BY <2>9, CmdAssumption DEF AgentCrash
  <2>10. ASSUME NEW a \in Agents, NEW ok \in BOOLEAN, RunCommand(a, ok) PROVE TypeOK'
    <3>1. Current(a) \in Cmds
      BY <2>10, CurrentIsLeast DEF RunCommand
    <3>2. agent' \in [Agents -> AgentType]
      BY <2>10 DEF RunCommand, Rest
    <3>3. acks' \subseteq AckType
      <4>1. PICK st \in {"executed", "failed"} :
              acks' = acks \cup {[cmd |-> Current(a), from |-> a, status |-> st, found |-> FALSE]}
        BY <2>10 DEF RunCommand
      <4>2. [cmd |-> Current(a), from |-> a, status |-> st, found |-> FALSE] \in AckType
        BY <3>1 DEF AckType
      <4> QED
        BY <4>1, <4>2
    <3>4. results' \subseteq Performers \X Cmds \X {"executed", "failed"}
      BY <2>10, <3>1 DEF RunCommand
    <3>5. misordered' \in BOOLEAN
      BY <2>10 DEF RunCommand
    <3>6. runs' \in [Performers \X Cmds -> Nat]
      <4>1. <<a, Current(a)>> \in Performers \X Cmds
        BY <3>1
      <4> QED
        BY <2>10, <4>1 DEF RunCommand
    <3> QED
      BY <2>10, <3>2, <3>3, <3>4, <3>5, <3>6 DEF RunCommand
  <2>11. ASSUME NEW k \in acks, AckStep(k) PROVE TypeOK'
    <3>1. acks' \subseteq AckType /\ row' \in [Cmds -> RowType]
      BY <2>11, AckMoves
    <3>2. UNCHANGED <<env, post, poll, agent, faults, results, runs, before, misordered>>
      BY <2>11, AckMoves
    <3> QED
      BY <3>1, <3>2
  <2>12. CASE DashboardCrash
    BY <2>12, CmdAssumption DEF DashboardCrash
  <2>13. CASE UNCHANGED vars
    BY <2>13 DEF vars
  <2> QED
    BY <2>1, <2>2, <2>3, <2>4, <2>5, <2>6, <2>7, <2>8, <2>9, <2>10, <2>11, <2>12, <2>13
       DEF Next, PostStep, PollStep, AgentStep
<1>3. Init => WorkInv
  BY DEF Init, WorkInv
<1>4. TypeOK /\ WorkInv /\ [Next]_vars => WorkInv'
  <2> SUFFICES ASSUME TypeOK, WorkInv, [Next]_vars PROVE WorkInv'
    OBVIOUS
  <2> USE DEF WorkInv, TypeOK, Rest
  <2>1. CASE UNCHANGED agent
    BY <2>1
  <2>2. ASSUME NEW a \in Agents, NEW s \in Slots, FindCommands(a, s) PROVE WorkInv'
    BY <2>2 DEF FindCommands
  <2>3. ASSUME NEW s \in Slots, NEW n \in InboxCaps, MarkDelivered(s, n) PROVE WorkInv'
    BY <2>3 DEF MarkDelivered
  <2>4. ASSUME NEW a \in Agents, AgentStep(a) PROVE WorkInv'
    <3>1. CASE PollTimeout(a) \/ AgentCrash(a)
      BY <3>1 DEF PollTimeout, AgentCrash, IdleAgent
    <3>2. CASE SkipCommand(a)
      BY <3>2 DEF SkipCommand, IdleAgent
    <3>3. ASSUME NEW ok \in BOOLEAN, RunCommand(a, ok) PROVE WorkInv'
      BY <3>3 DEF RunCommand, IdleAgent
    <3> QED
      BY <2>4, <3>1, <3>2, <3>3 DEF AgentStep
  <2>5. CASE DashboardCrash
    BY <2>5 DEF DashboardCrash
  <2>6. CASE \/ \E c \in Cmds : PostStep(c)
             \/ \E k \in acks : AckStep(k)
             \/ UNCHANGED vars
    BY <2>1, <2>6 DEF PostStep, CreateCommand, SignCommand, ExecuteNow, CompleteCommand,
                      AckStep, FindAcked, UpdateAcked, vars
  <2> QED
    BY <2>2, <2>3, <2>4, <2>5, <2>6 DEF Next, PollStep
<1> QED
  BY <1>1, <1>2, <1>3, <1>4, PTL DEF Spec

-----------------------------------------------------------------------------
(* createdAt numbers the commands: the one that is created follows all others. *)
LEMMA CreatedIsNext ==
  ASSUME TypeOK, RowsInv, NEW c \in Cmds, NEW q \in Requests, CreateCommand(c, q)
  PROVE  \A d \in Cmds : Known(d) <=> d < c
<1> DEFINE S == {d \in Cmds : Known(d)}
<1>1. Cmds \subseteq Nat /\ IsFiniteSet(Cmds)
  BY CmdAssumption, FS_Interval DEF Cmds
<1>2. IsFiniteSet(S) /\ Cardinality(S) \in Nat
  BY <1>1, FS_Subset, FS_CardinalityType
<1>3. c = Cardinality(S) + 1
  BY DEF CreateCommand, Known
<1>4. ASSUME NEW d \in S, c <= d PROVE FALSE
  <2>1. c \in S
    BY <1>1, <1>4, c = d \/ c < d DEF RowsInv
  <2>2. \A e \in Cmds : e < c => e \in S
    BY <2>1 DEF RowsInv
  <2>3. 1..c \in SUBSET S
    BY <1>1, <2>1, <2>2, CmdAssumption DEF Cmds
  <2>4. Cardinality(1..c) = c
    BY <1>2, <1>3, FS_Interval
  <2> HIDE DEF S
  <2>5. Cardinality(1..c) <= Cardinality(S)
    BY <1>2, <2>3, FS_Subset
  <2> QED
    BY <1>2, <1>3, <2>4, <2>5
<1>5. ASSUME NEW d \in Cmds, d \notin S, d < c PROVE FALSE
  <2>1. \A e \in S : e < d
    BY <1>1, <1>5 DEF RowsInv
  <2>2. S \in SUBSET (1..(d - 1))
    BY <1>1, <2>1 DEF Cmds
  <2>3. IsFiniteSet(1..(d - 1)) /\ Cardinality(1..(d - 1)) <= d - 1
    <3>1. d \in Nat /\ 1 <= d /\ d - 1 \in Int
      BY <1>1 DEF Cmds
    <3>2. /\ IsFiniteSet(1..(d - 1))
          /\ Cardinality(1..(d - 1)) = IF 1 > d - 1 THEN 0 ELSE (d - 1) - 1 + 1
      BY <3>1, FS_Interval
    <3> QED
      BY <3>1, <3>2
  <2> HIDE DEF S
  <2>4. Cardinality(S) <= Cardinality(1..(d - 1))
    BY <2>2, <2>3, FS_Subset
  <2>5. Cardinality(1..(d - 1)) \in Nat /\ d \in Nat
    BY <1>1, <2>3, FS_CardinalityType
  <2> QED
    BY <1>2, <1>3, <1>5, <2>3, <2>4, <2>5
<1> QED
  BY <1>1, <1>4, <1>5

(* The writers of a row, handlers, polls and acknowledgements, move it forward. *)
LEMMA RowForward ==
  ASSUME IInv, [Next]_vars
  PROVE  Forward
<1> USE DEF Forward, TypeOK, IInv
<1>1. CASE UNCHANGED row
  BY <1>1
<1>2. ASSUME NEW c \in Cmds, NEW q \in Requests, CreateCommand(c, q) PROVE Forward
  <2>1. row[c].status = "absent"
    BY <1>2, CreatedIsNext, CmdAssumption DEF Known, Cmds
  <2> QED
    BY <1>2, <2>1 DEF CreateCommand
<1>3. ASSUME NEW c \in Cmds, SignCommand(c) PROVE Forward
  BY <1>3 DEF SignCommand, RowsInv, RowType
<1>4. ASSUME NEW c \in Cmds, CompleteCommand(c) PROVE Forward
  BY <1>4 DEF CompleteCommand, RowType
<1>5. ASSUME NEW s \in Slots, NEW n \in InboxCaps, MarkDelivered(s, n) PROVE Forward
  BY <1>5 DEF MarkDelivered, RowType
<1>6. ASSUME NEW k \in acks, AckStep(k) PROVE Forward
  BY <1>6, AckMoves DEF AckType, RowType
<1>7. CASE \/ \E c \in Cmds, ok \in BOOLEAN : ExecuteNow(c, ok)
           \/ \E s \in Slots, a \in Agents : FindCommands(a, s)
           \/ \E a \in Agents : AgentStep(a)
           \/ DashboardCrash \/ UNCHANGED vars
  BY <1>1, <1>7 DEF ExecuteNow, FindCommands, AgentStep, PollTimeout, SkipCommand,
                    AgentCrash, RunCommand, DashboardCrash, vars
<1> QED
  BY <1>2, <1>3, <1>4, <1>5, <1>6, <1>7 DEF Next, PostStep, PollStep

(* What a step that moves rows forward keeps of a command that was created. *)
LEMMA ForwardKeeps ==
  ASSUME Forward, TypeOK, TypeOK', NEW c \in Cmds, Known(c), NEW a \in Agents
  PROVE  /\ Known(c)'
         /\ For(c, a) => For(c, a)'
         /\ row[c].status # "pending" => row'[c].status # "pending"
         /\ Matches(c, a)' => Matches(c, a)
<1>1. /\ Known(c)'
      /\ For(c, a) => For(c, a)'
      /\ row[c].status # "pending" => row'[c].status # "pending"
  BY DEF Forward, Known, For
<1>2. row[c].executed \in BOOLEAN /\ row'[c].executed \in BOOLEAN
  BY DEF TypeOK, RowType
<1>3. row[c].executed => row'[c].executed
  BY DEF Forward, Known
<1>4. Matches(c, a)' => Matches(c, a)
  BY <1>2, <1>3 DEF Forward, Known, Matches
<1> QED
  BY <1>1, <1>4

-----------------------------------------------------------------------------
(* One lemma for each part of the invariant.  Rows: what is created comes next,
   and only a created command is signed or has a handler. *)
LEMMA RowsStep ==
  ASSUME IInv, [Next]_vars, Forward
  PROVE  RowsInv'
<1> USE DEF RowsInv, TypeOK, IInv, Known
<1>1. CASE UNCHANGED <<row, post, env>>
  BY <1>1
<1>2. ASSUME NEW c \in Cmds, NEW q \in Requests, CreateCommand(c, q) PROVE RowsInv'
  <2>1. \A d \in Cmds : Known(d) <=> d < c
    BY <1>2, CreatedIsNext
  <2>2. \A d \in Cmds : d # c => row'[d] = row[d] /\ post'[d] = post[d]
    BY <1>2 DEF CreateCommand
  <2>3. row'[c].status = "pending" /\ ~row'[c].signed /\ env' = env
    BY <1>2 DEF CreateCommand, NoRow
  <2>4. \A d \in Cmds : Known(d)' <=> d < c \/ d = c
    BY <2>1, <2>2, <2>3
  <2>5. \A d, e \in Cmds : Known(d)' /\ e < d => Known(e)'
    BY <2>4, CmdAssumption DEF Cmds
  <2> QED
    BY <2>1, <2>2, <2>3, <2>5
<1>3. ASSUME NEW c \in Cmds, SignCommand(c) PROVE RowsInv'
  BY <1>3 DEF SignCommand
<1>4. ASSUME NEW c \in Cmds, NEW ok \in BOOLEAN, ExecuteNow(c, ok) PROVE RowsInv'
  BY <1>4 DEF ExecuteNow
<1>5. ASSUME NEW c \in Cmds, CompleteCommand(c) PROVE RowsInv'
  BY <1>5 DEF CompleteCommand
<1>6. ASSUME NEW s \in Slots, NEW n \in InboxCaps, MarkDelivered(s, n) PROVE RowsInv'
  BY <1>6 DEF MarkDelivered
<1>7. ASSUME NEW k \in acks, AckStep(k) PROVE RowsInv'
  <2>1. k.cmd \in Cmds /\ k.status # "absent" /\ <<k.from, k.cmd, k.status>> \in results
    BY DEF ResultsInv, AckType
  <2>2. Known(k.cmd)
    BY <2>1 DEF ResultsInv
  <2> QED
    BY <1>7, <2>1, <2>2, AckMoves
<1>8. CASE DashboardCrash
  BY <1>8 DEF DashboardCrash
<1>9. CASE \/ \E s \in Slots, a \in Agents : FindCommands(a, s)
           \/ \E a \in Agents : AgentStep(a)
           \/ UNCHANGED vars
  BY <1>1, <1>9 DEF FindCommands, AgentStep, PollTimeout, SkipCommand, AgentCrash, RunCommand, vars
<1> QED
  BY <1>2, <1>3, <1>4, <1>5, <1>6, <1>7, <1>8, <1>9 DEF Next, PostStep, PollStep

(* A handler bans at most once, and completes only what it banned. *)
LEMMA HostStep ==
  ASSUME IInv, [Next]_vars, Forward
  PROVE  HostInv'
<1> USE DEF HostInv, TypeOK, IInv, Ran
<1>1. CASE UNCHANGED <<results, post>>
  BY <1>1
<1>2. ASSUME NEW c \in Cmds, NEW q \in Requests, CreateCommand(c, q) PROVE HostInv'
  <2>1. ~Known(c)
    BY <1>2, CreatedIsNext, CmdAssumption DEF Cmds
  <2>2. ~Ran(Host, c)
    BY <2>1 DEF ResultsInv
  <2> QED
    BY <1>2, <2>2 DEF CreateCommand
<1>3. ASSUME NEW c \in Cmds, SignCommand(c) PROVE HostInv'
  BY <1>3 DEF SignCommand
<1>4. ASSUME NEW c \in Cmds, NEW ok \in BOOLEAN, ExecuteNow(c, ok) PROVE HostInv'
  BY <1>4 DEF ExecuteNow
<1>5. ASSUME NEW c \in Cmds, CompleteCommand(c) PROVE HostInv'
  BY <1>5 DEF CompleteCommand
<1>6. ASSUME NEW a \in Agents, NEW ok \in BOOLEAN, RunCommand(a, ok) PROVE HostInv'
  BY <1>6, NameAssumption DEF RunCommand
<1>7. CASE DashboardCrash
  BY <1>7 DEF DashboardCrash
<1>8. CASE \/ \E s \in Slots : PollStep(s)
           \/ \E a \in Agents : PollTimeout(a) \/ SkipCommand(a) \/ AgentCrash(a)
           \/ \E k \in acks : AckStep(k)
           \/ UNCHANGED vars
  BY <1>1, <1>8, AckMoves DEF PollStep, FindCommands, MarkDelivered, PollTimeout, SkipCommand,
                              AgentCrash, vars
<1> QED
  BY <1>2, <1>3, <1>4, <1>5, <1>6, <1>7, <1>8 DEF Next, PostStep, AgentStep

(* findMany selects by tenant and target, and rows keep both. *)
LEMMA PollsStep ==
  ASSUME IInv, TypeOK', [Next]_vars, Forward
  PROVE  PollsInv'
<1> USE DEF TypeOK, IInv
<1>1. ASSUME NEW s \in Slots, poll'[s].phase = "found", poll'[s] = poll[s]
      PROVE  (/\ poll[s].agent \in Agents
              /\ \A c \in poll[s].list : For(c, poll[s].agent))'
  <2>1. /\ poll[s].agent \in Agents
        /\ \A c \in poll[s].list : c \in Cmds /\ For(c, poll[s].agent)
    BY <1>1 DEF PollsInv, PollType
  <2>2. ASSUME NEW c \in poll[s].list, NEW a \in Agents, For(c, a)
        PROVE  For(c, a)'
    BY <2>1, <2>2, ForwardKeeps DEF For
  <2> QED
    BY <1>1, <2>1, <2>2
<1>2. CASE UNCHANGED poll
  BY <1>1, <1>2 DEF PollsInv
<1>3. ASSUME NEW a \in Agents, NEW s \in Slots, FindCommands(a, s) PROVE PollsInv'
  <2>1. (\A c \in poll[s].list : For(c, a))'
    BY <1>3 DEF FindCommands, Matches, For, Known
  <2>2. poll'[s].agent = a /\ \A r \in Slots : r # s => poll'[r] = poll[r]
    BY <1>3 DEF FindCommands
  <2> QED
    BY <1>1, <2>1, <2>2 DEF PollsInv
<1>4. ASSUME NEW s \in Slots, NEW n \in InboxCaps, MarkDelivered(s, n) PROVE PollsInv'
  <2>1. poll'[s].phase = "free" /\ \A r \in Slots : r # s => poll'[r] = poll[r]
    BY <1>4 DEF MarkDelivered, FreePoll
  <2> QED
    BY <1>1, <2>1 DEF PollsInv
<1>5. CASE DashboardCrash
  BY <1>5 DEF DashboardCrash, FreePoll, PollsInv
<1>6. CASE \/ \E c \in Cmds : PostStep(c)
           \/ \E a \in Agents : AgentStep(a)
           \/ \E k \in acks : AckStep(k)
           \/ UNCHANGED vars
  BY <1>2, <1>6 DEF PostStep, CreateCommand, SignCommand, ExecuteNow, CompleteCommand, AgentStep,
                    PollTimeout, SkipCommand, AgentCrash, RunCommand,
                    AckStep, FindAcked, UpdateAcked, vars
<1> QED
  BY <1>3, <1>4, <1>5, <1>6 DEF Next, PollStep

(* An agent receives the reply of its own poll, after updateMany. *)
LEMMA AgentsStep ==
  ASSUME IInv, TypeOK', [Next]_vars, Forward
  PROVE  AgentsInv'
<1> DEFINE Good(a) ==
      /\ agent[a].phase = "waiting" => /\ agent[a].slot \in Slots
                                       /\ poll[agent[a].slot].phase = "found"
                                       /\ poll[agent[a].slot].agent = a
      /\ agent[a].phase # "waiting" => agent[a].slot = 0
      /\ agent[a].inbox # {} => agent[a].phase = "working"
    Own(a) == \A c \in agent[a].inbox : For(c, a) /\ row[c].status # "pending"
<1> USE DEF TypeOK, IInv
<1>0. \A a \in Agents : Good(a) /\ Own(a)
  BY DEF AgentsInv
<1>1. SUFFICES \A a \in Agents : Good(a)' /\ Own(a)'
  BY DEF AgentsInv
<1> HIDE DEF Good
<1>2. ASSUME NEW a \in Agents, agent'[a].inbox \subseteq agent[a].inbox
      PROVE  Own(a)'
  <2>1. \A c \in agent[a].inbox : c \in Cmds /\ Known(c)
    BY <1>0 DEF AgentType, For
  <2>2. \A c \in agent[a].inbox : For(c, a)' /\ row'[c].status # "pending"
    BY <1>0, <2>1, ForwardKeeps
  <2> QED
    BY <1>2, <2>2
<1> HIDE DEF Own
<1>3. CASE UNCHANGED <<agent, poll>>
  BY <1>0, <1>2, <1>3 DEF Good
<1>4. ASSUME NEW a \in Agents, NEW s \in Slots, FindCommands(a, s)
      PROVE  \A b \in Agents : Good(b)' /\ Own(b)'
  <2>1. \A b \in Agents : agent'[b].inbox \subseteq agent[b].inbox
    BY <1>4 DEF FindCommands, IdleAgent
  <2>2. Good(a)'
    BY <1>4 DEF FindCommands, IdleAgent, Good
  <2>3. ASSUME NEW b \in Agents, b # a PROVE Good(b)'
    BY <1>0, <1>4, <2>3 DEF FindCommands, Good
  <2> QED
    BY <1>2, <2>1, <2>2, <2>3
<1>5. ASSUME NEW s \in Slots, NEW n \in InboxCaps, MarkDelivered(s, n)
      PROVE  \A b \in Agents : Good(b)' /\ Own(b)'
  <2>1. PICK a \in Agents : a = poll[s].agent
    BY <1>5 DEF MarkDelivered, PollsInv
  <2>2. ASSUME NEW b \in Agents, agent'[b] = agent[b], b # a \/ agent[a].slot # s
        PROVE  Good(b)' /\ Own(b)'
    BY <1>0, <1>2, <1>5, <2>1, <2>2 DEF MarkDelivered, Good
  <2>3. CASE agent[a].slot # s
    BY <1>5, <2>1, <2>2, <2>3 DEF MarkDelivered
  <2>4. CASE agent[a].slot = s
    <3>1. agent' = [agent EXCEPT ![a] = Rest(Fits(poll[s].list, n), poll[s].signed)]
      BY <1>5, <2>1, <2>4 DEF MarkDelivered
    <3>2. Good(a)'
      BY <3>1 DEF Good, Rest, IdleAgent
    <3>3. agent'[a].inbox \subseteq poll[s].list
      BY <3>1 DEF Rest, IdleAgent, Fits
    <3>4. \A c \in poll[s].list : c \in Cmds /\ For(c, a)
      BY <1>5, <2>1 DEF MarkDelivered, PollsInv, PollType
    <3>5. \A c \in poll[s].list : For(c, a)'
      BY <3>4, ForwardKeeps DEF For
    <3>6. \A c \in poll[s].list : row'[c].status # "pending"
      BY <1>5, <3>4 DEF MarkDelivered, RowType
    <3>7. Own(a)'
      BY <3>3, <3>5, <3>6 DEF Own
    <3> QED
      BY <2>2, <3>1, <3>2, <3>7
  <2> QED
    BY <2>3, <2>4
<1>6. ASSUME NEW a \in Agents, agent' = [agent EXCEPT ![a] = IdleAgent], poll' = poll
      PROVE  \A b \in Agents : Good(b)' /\ Own(b)'
  <2>1. \A b \in Agents : agent'[b].inbox \subseteq agent[b].inbox
    BY <1>6 DEF IdleAgent
  <2>2. \A b \in Agents : Good(b)'
    BY <1>0, <1>6 DEF Good, IdleAgent
  <2> QED
    BY <1>2, <2>1, <2>2
<1>7. ASSUME NEW a \in Agents, NEW T \in SUBSET agent[a].inbox, NEW U, poll' = poll,
             agent' = [agent EXCEPT ![a] = Rest(T, U)]
      PROVE  \A b \in Agents : Good(b)' /\ Own(b)'
  <2>1. \A b \in Agents : agent'[b].inbox \subseteq agent[b].inbox
    BY <1>7 DEF IdleAgent, Rest
  <2>2. \A b \in Agents : Good(b)'
    BY <1>0, <1>7 DEF Good, IdleAgent, Rest
  <2> QED
    BY <1>2, <2>1, <2>2
<1>8. ASSUME NEW a \in Agents, AgentStep(a)
      PROVE  \A b \in Agents : Good(b)' /\ Own(b)'
  <2>1. CASE PollTimeout(a) \/ AgentCrash(a)
    BY <1>6, <2>1 DEF PollTimeout, AgentCrash
  <2>2. CASE SkipCommand(a)
    BY <1>7, <2>2 DEF SkipCommand
  <2>3. CASE \E ok \in BOOLEAN : RunCommand(a, ok)
    BY <1>7, <2>3 DEF RunCommand
  <2> QED
    BY <1>8, <2>1, <2>2, <2>3 DEF AgentStep
<1>9. CASE DashboardCrash
  <2>1. \A b \in Agents : agent'[b].inbox \subseteq agent[b].inbox
    BY <1>9 DEF DashboardCrash, IdleAgent
  <2>2. \A b \in Agents : Good(b)'
    BY <1>0, <1>9 DEF DashboardCrash, Good, IdleAgent
  <2> QED
    BY <1>2, <2>1, <2>2
<1>10. CASE \/ \E c \in Cmds : PostStep(c)
            \/ \E k \in acks : AckStep(k)
            \/ UNCHANGED vars
  BY <1>3, <1>10 DEF PostStep, CreateCommand, SignCommand, ExecuteNow, CompleteCommand,
                     AckStep, FindAcked, UpdateAcked, vars
<1> QED
  BY <1>4, <1>5, <1>8, <1>9, <1>10 DEF Next, PollStep

(* An agent runs what is in its inbox, and acknowledges what it ran. *)
LEMMA ResultsStep ==
  ASSUME IInv, TypeOK', [Next]_vars, Forward
  PROVE  ResultsInv'
<1> DEFINE Backed(r) == /\ Known(r[2])
                        /\ r[1] \in Agents => For(r[2], r[1]) /\ row[r[2]].status # "pending"
<1> USE DEF TypeOK, IInv
<1>1. \A r \in results : Backed(r)
  BY DEF ResultsInv
<1>2. ASSUME NEW p \in Performers, NEW c \in Cmds, NEW st, Backed(<<p, c, st>>)
      PROVE  Backed(<<p, c, st>>)'
  BY <1>2, ForwardKeeps DEF Forward, Known, Performers
<1> HIDE DEF Backed
<1>3. \A r \in results : Backed(r)'
  <2> SUFFICES ASSUME NEW r \in results PROVE Backed(r)'
    OBVIOUS
  <2>1. PICK p \in Performers, c \in Cmds, st \in {"executed", "failed"} : r = <<p, c, st>>
    OBVIOUS
  <2>2. Backed(<<p, c, st>>)
    BY <1>1, <2>1
  <2>3. Backed(<<p, c, st>>)'
    BY <1>2, <2>2
  <2> QED
    BY <2>1, <2>3
<1>4. SUFFICES /\ \A r \in results' : Backed(r)'
               /\ \A k \in acks' : <<k.from, k.cmd, k.status>> \in results'
  BY DEF ResultsInv, Backed
<1>5. CASE results' = results /\ acks' \subseteq acks
  BY <1>3, <1>5 DEF ResultsInv
<1>9. ASSUME NEW k \in acks, AckStep(k)
      PROVE  /\ \A r \in results' : Backed(r)'
             /\ \A j \in acks' : <<j.from, j.cmd, j.status>> \in results'
  <2>1. /\ results' = results
        /\ \A j \in acks' : \E i \in acks : j.from = i.from /\ j.cmd = i.cmd /\ j.status = i.status
    BY <1>9, AckMoves
  <2> QED
    BY <1>3, <2>1 DEF ResultsInv
<1>6. ASSUME NEW c \in Cmds, NEW ok \in BOOLEAN, ExecuteNow(c, ok)
      PROVE  /\ \A r \in results' : Backed(r)'
             /\ \A k \in acks' : <<k.from, k.cmd, k.status>> \in results'
  <2>1. Backed(<<Host, c, "executed">>)
    BY <1>6, NameAssumption DEF Backed, ExecuteNow, RowsInv
  <2>2. Backed(<<Host, c, "executed">>)'
    BY <1>2, <2>1 DEF Performers
  <2> QED
    BY <1>3, <1>6, <2>2 DEF ExecuteNow, ResultsInv
<1>7. ASSUME NEW a \in Agents, NEW ok \in BOOLEAN, RunCommand(a, ok)
      PROVE  /\ \A r \in results' : Backed(r)'
             /\ \A k \in acks' : <<k.from, k.cmd, k.status>> \in results'
  <2> DEFINE st == IF ok THEN "executed" ELSE "failed"
  <2>1. PICK c \in Cmds : c = Current(a) /\ c \in agent[a].inbox
    BY <1>7, CurrentIsLeast DEF RunCommand
  <2>2. For(c, a) /\ row[c].status # "pending"
    BY <2>1 DEF AgentsInv
  <2> HIDE DEF st
  <2>3. Backed(<<a, c, st>>)
    BY <2>2 DEF Backed, For
  <2>4. Backed(<<a, c, st>>)'
    BY <1>2, <2>1, <2>3 DEF Performers
  <2>5. /\ results' = results \cup {<<a, c, st>>}
        /\ acks' = acks \cup {[cmd |-> c, from |-> a, status |-> st, found |-> FALSE]}
    BY <1>7, <2>1 DEF RunCommand, st
  <2> QED
    BY <1>3, <2>4, <2>5 DEF ResultsInv
<1>8. CASE \/ \E c \in Cmds : (\E q \in Requests : CreateCommand(c, q)) \/ SignCommand(c) \/ CompleteCommand(c)
           \/ \E s \in Slots : PollStep(s)
           \/ \E a \in Agents : PollTimeout(a) \/ SkipCommand(a) \/ AgentCrash(a)
           \/ DashboardCrash \/ UNCHANGED vars
  BY <1>5, <1>8 DEF CreateCommand, SignCommand, CompleteCommand, PollStep, FindCommands, MarkDelivered,
                    PollTimeout, SkipCommand, AgentCrash, DashboardCrash, vars
<1> QED
  BY <1>6, <1>7, <1>8, <1>9 DEF Next, PostStep, AgentStep

(* Every run that is counted is one that was carried out. *)
LEMMA RunsStep ==
  ASSUME IInv, [Next]_vars
  PROVE  RunsInv'
<1> USE DEF TypeOK, IInv, RunsInv
<1>1. CASE UNCHANGED <<results, runs>>
  BY <1>1 DEF Ran
<1>2. ASSUME NEW p \in Performers, NEW c \in Cmds, NEW st,
             results' = results \cup {<<p, c, st>>}, runs' = [runs EXCEPT ![<<p, c>>] = @ + 1]
      PROVE  RunsInv'
  <2>1. Ran(p, c)'
    <3> DEFINE new == <<p, c, st>>
    <3>1. new[1] = p /\ new[2] = c /\ new \in results'
      BY <1>2
    <3> HIDE DEF new
    <3> QED
      BY <3>1 DEF Ran
  <2>2. ASSUME NEW o \in Performers, NEW d \in Cmds, ~Ran(o, d)' PROVE runs'[<<o, d>>] = 0
    <3>1. ~Ran(o, d) /\ <<o, d>> # <<p, c>>
      BY <1>2, <2>1, <2>2 DEF Ran
    <3> QED
      BY <1>2, <3>1
  <2> QED
    BY <2>2
<1>3. ASSUME NEW c \in Cmds, NEW ok \in BOOLEAN, ExecuteNow(c, ok) PROVE RunsInv'
  BY <1>1, <1>2, <1>3 DEF ExecuteNow, Performers
<1>4. ASSUME NEW a \in Agents, NEW ok \in BOOLEAN, RunCommand(a, ok) PROVE RunsInv'
  <2>1. PICK c \in Cmds : c = Current(a)
    BY <1>4, CurrentIsLeast DEF RunCommand
  <2>2. \E st : results' = results \cup {<<a, c, st>>}
    BY <1>4, <2>1 DEF RunCommand
  <2>3. runs' = [runs EXCEPT ![<<a, c>>] = @ + 1]
    BY <1>4, <2>1 DEF RunCommand
  <2> QED
    BY <1>2, <2>2, <2>3 DEF Performers
<1>5. CASE \/ \E c \in Cmds : (\E q \in Requests : CreateCommand(c, q)) \/ SignCommand(c) \/ CompleteCommand(c)
           \/ \E s \in Slots : PollStep(s)
           \/ \E a \in Agents : PollTimeout(a) \/ SkipCommand(a) \/ AgentCrash(a)
           \/ \E k \in acks : AckStep(k)
           \/ DashboardCrash \/ UNCHANGED vars
  BY <1>1, <1>5 DEF CreateCommand, SignCommand, CompleteCommand, PollStep, FindCommands, MarkDelivered,
                    PollTimeout, SkipCommand, AgentCrash, AckStep, FindAcked, UpdateAcked,
                    DashboardCrash, vars
<1> QED
  BY <1>3, <1>4, <1>5 DEF Next, PostStep, AgentStep

(* New pairs lead from signed commands to the one that is created. *)
LEMMA BeforeStep ==
  ASSUME IInv, TypeOK', [Next]_vars, Forward
  PROVE  BeforeInv'
<1> USE DEF TypeOK, IInv, BeforeInv, Known
<1>1. ASSUME NEW c \in Cmds, NEW d \in Cmds, <<c, d>> \in before
      PROVE  Known(c)' /\ Known(d)' /\ c <= d /\ (c = d \/ row'[c].signed)
  BY <1>1 DEF Forward
<1>2. CASE before' = before /\ \A c \in Cmds : Known(c)' => Known(c)
  BY <1>1, <1>2
<1>3. ASSUME NEW c \in Cmds, NEW q \in Requests, CreateCommand(c, q) PROVE BeforeInv'
  <2>1. \A d \in Cmds : Known(d) <=> d < c
    BY <1>3, CreatedIsNext
  <2>2. \A d \in Cmds : row[d].signed => Known(d)
    BY DEF RowsInv
  <2>3. /\ row'[c].status = "pending"
        /\ \A d \in Cmds : d # c => row'[d] = row[d]
        /\ before' = before \cup {<<d, c>> : d \in {e \in Cmds : row[e].signed} \cup {c}}
    BY <1>3 DEF CreateCommand, NoRow
  <2>4. \A d \in Cmds : Known(d)' => <<d, d>> \in before'
    BY <2>3
  <2>5. ASSUME NEW d \in Cmds, row[d].signed
        PROVE  Known(d)' /\ d <= c /\ row'[d].signed
    BY <2>1, <2>2, <2>3, <2>5, CmdAssumption DEF Cmds
  <2>6. c <= c
    BY CmdAssumption DEF Cmds
  <2>7. ASSUME NEW d \in Cmds, NEW e \in Cmds, <<d, e>> \in before'
        PROVE  Known(d)' /\ Known(e)' /\ d <= e /\ (d = e \/ row'[d].signed)
    <3>1. CASE <<d, e>> \in before
      BY <1>1, <3>1
    <3>2. CASE e = c /\ (d = c \/ row[d].signed)
      BY <2>3, <2>5, <2>6, <3>2
    <3> QED
      BY <2>3, <2>7, <3>1, <3>2
  <2> QED
    BY <2>4, <2>7
<1>4. ASSUME before' = before, \A c \in Cmds : ~Known(c) => row'[c].status = row[c].status
      PROVE  BeforeInv'
  BY <1>2, <1>4
<1>5. ASSUME NEW c \in Cmds, SignCommand(c) \/ CompleteCommand(c) PROVE BeforeInv'
  BY <1>4, <1>5 DEF SignCommand, CompleteCommand, RowsInv
<1>6. ASSUME NEW s \in Slots, NEW n \in InboxCaps, MarkDelivered(s, n) PROVE BeforeInv'
  BY <1>4, <1>6 DEF MarkDelivered
<1>7. ASSUME NEW k \in acks, AckStep(k) PROVE BeforeInv'
  <2>1. k.cmd \in Cmds /\ Known(k.cmd)
    BY DEF ResultsInv, AckType
  <2> QED
    BY <1>4, <1>7, <2>1, AckMoves
<1>8. CASE \/ \E c \in Cmds, ok \in BOOLEAN : ExecuteNow(c, ok)
           \/ \E s \in Slots, a \in Agents : FindCommands(a, s)
           \/ \E a \in Agents : AgentStep(a)
           \/ DashboardCrash \/ UNCHANGED vars
  BY <1>4, <1>8 DEF ExecuteNow, FindCommands, AgentStep, PollTimeout, SkipCommand,
                    AgentCrash, RunCommand, DashboardCrash, vars
<1> QED
  BY <1>3, <1>5, <1>6, <1>7, <1>8 DEF Next, PostStep, PollStep

(* The acknowledgement route and the handler write what was carried out. *)
LEMMA SettledStep ==
  ASSUME IInv, [Next]_vars
  PROVE  SettledIsReal'
<1> DEFINE Real(c) == /\ row[c].status \in {"executed", "failed"} =>
                           \E a \in Agents : <<a, c, row[c].status>> \in results
                      /\ row[c].status = "completed" => <<Host, c, "executed">> \in results
<1> USE DEF TypeOK, IInv
<1>0. ASSUME NEW c \in Cmds, results \subseteq results',
             row'[c].status \in {row[c].status, "pending", "delivered"}
      PROVE  Real(c)'
  BY <1>0 DEF SettledIsReal
<1>9. SUFFICES \A c \in Cmds : Real(c)'
  BY DEF SettledIsReal
<1> HIDE DEF Real
<1>1. CASE row' = row /\ results \subseteq results'
  BY <1>0, <1>1
<1>2. ASSUME NEW c \in Cmds, NEW q \in Requests, CreateCommand(c, q)
      PROVE  \A d \in Cmds : Real(d)'
  BY <1>0, <1>2 DEF CreateCommand, NoRow
<1>3. ASSUME NEW c \in Cmds, SignCommand(c) PROVE \A d \in Cmds : Real(d)'
  BY <1>0, <1>3 DEF SignCommand
<1>4. ASSUME NEW c \in Cmds, CompleteCommand(c) PROVE \A d \in Cmds : Real(d)'
  <2>1. results' = results /\ \A d \in Cmds : d # c => row'[d] = row[d]
    BY <1>4 DEF CompleteCommand
  <2>2. row'[c].status = "completed" /\ <<Host, c, "executed">> \in results
    BY <1>4 DEF CompleteCommand, HostInv, RowType
  <2>3. Real(c)'
    BY <2>1, <2>2 DEF Real
  <2> QED
    BY <1>0, <2>1, <2>3
<1>5. ASSUME NEW s \in Slots, NEW n \in InboxCaps, MarkDelivered(s, n)
      PROVE  \A d \in Cmds : Real(d)'
  BY <1>0, <1>5 DEF MarkDelivered, RowType
<1>6. ASSUME NEW k \in acks, AckStep(k) PROVE \A d \in Cmds : Real(d)'
  <2>1. /\ k.cmd \in Cmds /\ k.from \in Agents /\ k.status \in {"executed", "failed"}
        /\ <<k.from, k.cmd, k.status>> \in results
    BY DEF ResultsInv, AckType
  <2>2. results' = results /\ \A d \in Cmds : d # k.cmd => row'[d] = row[d]
    BY <1>6, AckMoves
  <2>3. row'[k.cmd] = row[k.cmd] \/ row'[k.cmd].status = k.status
    BY <1>6, <2>1, AckMoves DEF RowType
  <2>4. ASSUME NEW d \in Cmds, d = k.cmd PROVE Real(d)'
    <3>1. CASE row'[d] = row[d]
      BY <1>0, <2>2, <3>1
    <3>2. CASE row'[d].status = k.status
      BY <2>1, <2>2, <2>4, <3>2 DEF Real
    <3> QED
      BY <2>3, <2>4, <3>1, <3>2
  <2> QED
    BY <1>0, <2>2, <2>4
<1>7. CASE \/ \E c \in Cmds, ok \in BOOLEAN : ExecuteNow(c, ok)
           \/ \E s \in Slots, a \in Agents : FindCommands(a, s)
           \/ \E a \in Agents : AgentStep(a)
           \/ DashboardCrash \/ UNCHANGED vars
  BY <1>1, <1>7 DEF ExecuteNow, FindCommands, AgentStep, PollTimeout, SkipCommand,
                    AgentCrash, RunCommand, DashboardCrash, vars
<1> QED
  BY <1>2, <1>3, <1>4, <1>5, <1>6, <1>7 DEF Next, PostStep, PollStep

(* A poll finds every signed command that is pending, and updateMany marks all
   it found: whoever has the later command has the earlier one or missed it. *)
LEMMA OrderStep ==
  ASSUME IInv, TypeOK', [Next]_vars, Forward
  PROVE  OrderInv' /\ InOrder'
<1> DEFINE Done(a, c, d) ==
      Ran(a, d) => /\ ~Matches(c, a)
                   /\ c \notin agent[a].inbox
                   /\ \A s \in Slots : Waits(a, s) => c \notin poll[s].list
    Has(a, c, d) ==
      /\ d \in agent[a].inbox => ~Matches(c, a)
      /\ \A s \in Slots : Waits(a, s) /\ d \in poll[s].list /\ Matches(c, a) => c \in poll[s].list
<1> USE DEF TypeOK, IInv
<1>0. ASSUME NEW a \in Agents, NEW c \in Cmds, NEW d \in Cmds, <<c, d>> \in before
      PROVE  Done(a, c, d) /\ Has(a, c, d)
  BY <1>0 DEF OrderInv
<1>1. ASSUME NEW a \in Agents, NEW c \in Cmds, NEW d \in Cmds, <<c, d>> \in before
      PROVE  /\ Matches(c, a)' => Matches(c, a)
             /\ Known(c) /\ Known(d) /\ c <= d /\ (c = d \/ row[c].signed)
  BY <1>1, ForwardKeeps DEF BeforeInv
<1>2. ASSUME ~misordered',
             ASSUME NEW a \in Agents, NEW c \in Cmds, NEW d \in Cmds, <<c, d>> \in before'
             PROVE  Done(a, c, d)' /\ Has(a, c, d)'
      PROVE  OrderInv' /\ InOrder'
  BY <1>2 DEF OrderInv, InOrder
<1>3. ASSUME NEW a \in Agents, NEW c \in Cmds, NEW d \in Cmds, <<c, d>> \in before,
             Ran(a, d)' => Ran(a, d), agent'[a].inbox \subseteq agent[a].inbox,
             \A s \in Slots : Waits(a, s)' => Waits(a, s) /\ poll'[s].list = poll[s].list
      PROVE  Done(a, c, d)' /\ Has(a, c, d)'
  <2>1. Done(a, c, d)'
    BY <1>0, <1>1, <1>3
  <2>2. Has(a, c, d)'
    BY <1>0, <1>1, <1>3
  <2> QED
    BY <2>1, <2>2
<1>4. ASSUME NEW d \in Cmds, ~Known(d), NEW a \in Agents
      PROVE  /\ ~Ran(a, d) /\ d \notin agent[a].inbox
             /\ \A s \in Slots : Waits(a, s) => d \notin poll[s].list
  BY <1>4 DEF ResultsInv, AgentsInv, PollsInv, For, Ran, Waits
<1> HIDE DEF Done, Has
<1>5. ASSUME NEW c \in Cmds, NEW q \in Requests, CreateCommand(c, q) PROVE OrderInv' /\ InOrder'
  <2>1. ~Known(c)
    BY <1>5, CreatedIsNext, CmdAssumption DEF Cmds
  <2>2. /\ UNCHANGED <<poll, agent, results, misordered>>
        /\ \A d, e \in Cmds : <<d, e>> \in before' => <<d, e>> \in before \/ e = c
    BY <1>5 DEF CreateCommand
  <2>3. ASSUME NEW a \in Agents, NEW d \in Cmds PROVE Done(a, d, c)' /\ Has(a, d, c)'
    BY <1>4, <2>1, <2>2 DEF Done, Has, Ran, Waits
  <2>4. ASSUME NEW a \in Agents, NEW d \in Cmds, NEW e \in Cmds, <<d, e>> \in before
        PROVE  Done(a, d, e)' /\ Has(a, d, e)'
    BY <1>3, <2>2, <2>4 DEF Ran, Waits
  <2> QED
    BY <1>2, <2>2, <2>3, <2>4 DEF InOrder
<1>6. CASE /\ UNCHANGED <<before, misordered>>
           /\ \A a \in Agents : /\ agent'[a].inbox \subseteq agent[a].inbox
                                /\ \A c \in Cmds : Ran(a, c)' => Ran(a, c)
                                /\ \A s \in Slots : Waits(a, s)' => /\ Waits(a, s)
                                                                    /\ poll'[s].list = poll[s].list
  BY <1>2, <1>3, <1>6 DEF InOrder
<1>7. ASSUME NEW a \in Agents, NEW s \in Slots, FindCommands(a, s) PROVE OrderInv' /\ InOrder'
  <2>1. /\ UNCHANGED <<before, misordered, results, row>>
        /\ agent'[a].inbox = {}
        /\ \A r \in Slots : Waits(a, r)' <=> r = s
        /\ poll'[s].list = {c \in Cmds : Matches(c, a) /\ Verified(c)}
        /\ \A b \in Agents : b # a => /\ agent'[b] = agent[b]
                                      /\ \A r \in Slots : Waits(b, r)' =>
                                           Waits(b, r) /\ poll'[r].list = poll[r].list
    BY <1>7 DEF FindCommands, IdleAgent, Waits, AgentsInv
  <2>2. ASSUME NEW b \in Agents, b # a, NEW c \in Cmds, NEW d \in Cmds, <<c, d>> \in before
        PROVE  Done(b, c, d)' /\ Has(b, c, d)'
    BY <1>3, <2>1, <2>2 DEF Ran
  <2>3. ASSUME NEW c \in Cmds, NEW d \in Cmds, <<c, d>> \in before
        PROVE  Done(a, c, d)' /\ Has(a, c, d)'
    <3>1. Ran(a, d)' => ~Matches(c, a)' /\ ~Matches(c, a)
      BY <1>0, <1>1, <2>1, <2>3 DEF Done, Ran
    <3>2. Done(a, c, d)'
      BY <2>1, <3>1 DEF Done
    <3>3. ASSUME d \in poll'[s].list, Matches(c, a) PROVE c \in poll'[s].list
      <4>1. CASE c = d
        BY <3>3, <4>1
      <4>2. CASE row[c].signed
        BY <2>1, <3>3, <4>2 DEF Verified, RowsInv
      <4> QED
        BY <1>1, <2>3, <4>1, <4>2
    <3>4. Has(a, c, d)'
      BY <1>1, <2>1, <2>3, <3>3 DEF Has
    <3> QED
      BY <3>2, <3>4
  <2> QED
    BY <1>2, <2>1, <2>2, <2>3 DEF InOrder
<1>8. ASSUME NEW s \in Slots, NEW n \in InboxCaps, MarkDelivered(s, n) PROVE OrderInv' /\ InOrder'
  <2>1. PICK a \in Agents : a = poll[s].agent
    BY <1>8 DEF MarkDelivered, PollsInv
  <2>2. UNCHANGED <<before, misordered, results>> /\ \A r \in Slots : r # s => poll'[r] = poll[r]
    BY <1>8 DEF MarkDelivered
  <2>3. ASSUME NEW b \in Agents, agent'[b] = agent[b], ~Waits(b, s),
               NEW c \in Cmds, NEW d \in Cmds, <<c, d>> \in before
        PROVE  Done(b, c, d)' /\ Has(b, c, d)'
    BY <1>3, <2>2, <2>3 DEF Ran, Waits
  <2>4. \A b \in Agents : b # a => agent'[b] = agent[b] /\ ~Waits(b, s)
    BY <1>8, <2>1 DEF MarkDelivered, AgentsInv, Waits
  <2>5. CASE agent[a].slot # s
    <3>1. agent' = agent /\ \A b \in Agents : ~Waits(b, s)
      BY <1>8, <2>1, <2>4, <2>5 DEF MarkDelivered, Waits
    <3>2. ASSUME NEW b \in Agents, NEW c \in Cmds, NEW d \in Cmds, <<c, d>> \in before'
          PROVE  Done(b, c, d)' /\ Has(b, c, d)'
      BY <2>2, <2>3, <3>1, <3>2
    <3> QED
      BY <1>2, <2>2, <3>2 DEF InOrder
  <2>6. CASE agent[a].slot = s
    <3>1. Waits(a, s)
      BY <2>6, SlotAssumption DEF AgentsInv, Waits, AgentType
    <3>2. agent' = [agent EXCEPT ![a] = Rest(Fits(poll[s].list, n), poll[s].signed)]
      BY <1>8, <2>1, <2>6 DEF MarkDelivered
    <3>3. agent'[a].inbox \subseteq poll[s].list /\ \A r \in Slots : ~Waits(a, r)'
      BY <3>2 DEF Rest, IdleAgent, Fits, Waits
    <3>4. \A c \in poll[s].list : ~Matches(c, a)'
      BY <1>8 DEF MarkDelivered, RowType, PollType, Matches
    <3>5. ASSUME NEW c \in Cmds, NEW d \in Cmds, <<c, d>> \in before
          PROVE  Done(a, c, d)' /\ Has(a, c, d)'
      <4>1. Done(a, c, d)'
        BY <1>0, <1>1, <2>2, <3>1, <3>3, <3>5 DEF Done, Ran
      <4>2. ASSUME d \in poll[s].list PROVE ~Matches(c, a)'
        BY <1>0, <1>1, <3>1, <3>4, <3>5, <4>2 DEF Has
      <4>3. Has(a, c, d)'
        BY <3>3, <4>2 DEF Has
      <4> QED
        BY <4>1, <4>3
    <3> QED
      BY <1>2, <2>2, <2>3, <2>4, <3>5 DEF InOrder
  <2> QED
    BY <2>5, <2>6
<1>9. ASSUME NEW a \in Agents, NEW ok \in BOOLEAN, RunCommand(a, ok) PROVE OrderInv' /\ InOrder'
  <2>1. PICK e \in Cmds : /\ e = Current(a) /\ e \in agent[a].inbox
                          /\ \A d \in agent[a].inbox : e <= d
    BY <1>9, CurrentIsLeast DEF RunCommand
  <2>2. /\ UNCHANGED <<before, poll, row>>
        /\ agent'[a].inbox = agent[a].inbox \ {e} /\ \A r \in Slots : ~Waits(a, r)'
        /\ \A b \in Agents : b # a => agent'[b] = agent[b]
    BY <1>9, <2>1 DEF RunCommand, Rest, IdleAgent, Waits
  <2>6. \E st : results' = results \cup {<<a, e, st>>}
    BY <1>9, <2>1 DEF RunCommand
  <2>7. /\ \A d \in Cmds : Ran(a, d)' => Ran(a, d) \/ d = e
        /\ \A b \in Agents, d \in Cmds : b # a => (Ran(b, d)' => Ran(b, d))
    BY <2>6 DEF Ran
  <2>8. misordered' => \/ misordered
                       \/ \E d \in Cmds : <<e, d>> \in before /\ Ran(a, d)
    BY <1>9, <2>1 DEF RunCommand, Ran
  <2>3. ~misordered'
    BY <1>0, <2>1, <2>8 DEF InOrder, Done
  <2>4. ASSUME NEW b \in Agents, b # a, NEW c \in Cmds, NEW d \in Cmds, <<c, d>> \in before
        PROVE  Done(b, c, d)' /\ Has(b, c, d)'
    BY <1>3, <2>2, <2>4, <2>7 DEF Waits
  <2>5. ASSUME NEW c \in Cmds, NEW d \in Cmds, <<c, d>> \in before
        PROVE  Done(a, c, d)' /\ Has(a, c, d)'
    <3>1. CASE d # e \/ Ran(a, e)
      BY <1>3, <2>2, <2>5, <2>7, <3>1
    <3>2. CASE d = e
      <4>1. c \notin agent[a].inbox \ {e}
        BY <1>1, <2>1, <2>5, <3>2, CmdAssumption DEF Cmds
      <4>2. ~Matches(c, a)'
        BY <1>0, <1>1, <2>1, <2>5, <3>2 DEF Has
      <4> QED
        BY <2>2, <4>1, <4>2 DEF Done, Has
    <3> QED
      BY <3>1, <3>2
  <2>9. ASSUME NEW b \in Agents, NEW c \in Cmds, NEW d \in Cmds, <<c, d>> \in before'
        PROVE  Done(b, c, d)' /\ Has(b, c, d)'
    <3>1. <<c, d>> \in before
      BY <2>2, <2>9
    <3>2. CASE b = a
      BY <2>5, <3>1, <3>2
    <3>3. CASE b # a
      BY <2>4, <3>1, <3>3
    <3> QED
      BY <3>2, <3>3
  <2> QED
    BY <1>2, <2>3, <2>9
<1>10. CASE \E c \in Cmds : SignCommand(c) \/ CompleteCommand(c)
  BY <1>6, <1>10 DEF SignCommand, CompleteCommand, Ran, Waits
<1>11. ASSUME NEW c \in Cmds, NEW ok \in BOOLEAN, ExecuteNow(c, ok) PROVE OrderInv' /\ InOrder'
  <2>1. \A a \in Agents, d \in Cmds : Ran(a, d)' => Ran(a, d)
    BY <1>11, NameAssumption DEF ExecuteNow, Ran
  <2> QED
    BY <1>6, <1>11, <2>1 DEF ExecuteNow, Waits
<1>12. ASSUME NEW a \in Agents, PollTimeout(a) \/ SkipCommand(a) \/ AgentCrash(a)
       PROVE  OrderInv' /\ InOrder'
  <2>1. \A b \in Agents : /\ agent'[b].inbox \subseteq agent[b].inbox
                          /\ \A s \in Slots : Waits(b, s)' => Waits(b, s)
    BY <1>12 DEF PollTimeout, SkipCommand, AgentCrash, IdleAgent, Rest, Waits
  <2>2. UNCHANGED <<poll, before, misordered, results>>
    BY <1>12 DEF PollTimeout, SkipCommand, AgentCrash
  <2> QED
    BY <1>6, <2>1, <2>2 DEF Ran
<1>13. CASE DashboardCrash
  <2>1. \A b \in Agents : /\ agent'[b].inbox \subseteq agent[b].inbox
                          /\ \A s \in Slots : ~Waits(b, s)'
    BY <1>13 DEF DashboardCrash, IdleAgent, Waits
  <2> QED
    BY <1>6, <1>13, <2>1 DEF DashboardCrash, Ran
<1>14. CASE (\E k \in acks : AckStep(k)) \/ UNCHANGED vars
  BY <1>6, <1>14, AckMoves DEF vars, Ran, Waits
<1> QED
  BY <1>5, <1>7, <1>8, <1>9, <1>10, <1>11, <1>12, <1>13, <1>14
     DEF Next, PostStep, PollStep, AgentStep

-----------------------------------------------------------------------------
(* The inductive invariant: what lists, replies, acknowledgements and handlers
   hold agrees with the rows and with what was really carried out. *)
THEOREM FleetInvariant == Spec => []IInv
<1>1. Init => RowsInv /\ HostInv /\ PollsInv /\ AgentsInv /\ ResultsInv
  BY DEF Init, RowsInv, HostInv, PollsInv, AgentsInv, ResultsInv, Known, NoRow, FreePoll, IdleAgent
<1>4. Init => RunsInv
  BY DEF Init, RunsInv
<1>2. Init => BeforeInv /\ OrderInv /\ InOrder /\ SettledIsReal
  BY DEF Init, BeforeInv, OrderInv, InOrder, SettledIsReal, Known, NoRow
<1>3. IInv /\ TypeOK' /\ WorkInv' /\ [Next]_vars => IInv'
  <2> SUFFICES ASSUME IInv, TypeOK', WorkInv', [Next]_vars PROVE IInv'
    OBVIOUS
  <2>1. Forward
    BY RowForward
  <2> QED
    BY <2>1, RowsStep, HostStep, PollsStep, AgentsStep, ResultsStep, RunsStep, BeforeStep, OrderStep,
       SettledStep
       DEF IInv
<1> QED
  BY <1>1, <1>2, <1>3, <1>4, FleetTypeCorrect, PTL DEF Spec, IInv

(* A command is carried out only by agents of the tenant it was posted for: the
   where clause of the poll and what an agent ran later are tied together by
   rows that keep their tenant and lists that hold nothing else. *)
THEOREM TenantsIsolated == Spec => []TenantIsolated
<1>1. IInv => TenantIsolated
  BY DEF IInv, ResultsInv, TenantIsolated, For
<1> QED
  BY <1>1, FleetInvariant, PTL

(* An agent never runs a command twice, nor after one created when the command
   was signed already, whatever polls overlap, time out or are lost. *)
THEOREM CommandsInOrder == Spec => []InOrder
<1>1. IInv => InOrder
  BY DEF IInv
<1> QED
  BY <1>1, FleetInvariant, PTL

(* A status that says that a command was executed, failed or completed is backed
   by somebody who carried it out with that result. *)
THEOREM SettledAreReal == Spec => []SettledIsReal
<1>1. IInv => SettledIsReal
  BY DEF IInv
<1> QED
  BY <1>1, FleetInvariant, PTL

-----------------------------------------------------------------------------
(* The refinement mapping. *)
lifeBar == [c \in Cmds |-> Stage(row[c].status)]

(* Each step of the queue is a step of CommandLife or leaves it alone. *)
LEMMA LifeStep ==
  ASSUME IInv, IInv', [Next]_vars, Forward
  PROVE  [Life!LifeNext]_(Life!lifeVars)
<1> USE DEF IInv, TypeOK
<1>1. CASE lifeBar' = lifeBar /\ UNCHANGED <<results, runs>>
  BY <1>1 DEF Life!lifeVars, lifeBar
<1>2. ASSUME NEW c \in Cmds, lifeBar[c] = "absent", UNCHANGED <<results, runs>>,
             lifeBar' = [lifeBar EXCEPT ![c] = "queued"]
      PROVE  Life!LifeNext
  BY <1>2 DEF Life!LifeNext, Life!Post, lifeBar
<1>3. ASSUME NEW c \in Cmds, lifeBar[c] # "absent", UNCHANGED <<results, runs>>,
             NEW st \in {"executed", "failed", "completed"},
             \/ st = "completed" /\ <<Host, c, "executed">> \in results
             \/ st \in {"executed", "failed"} /\ \E a \in Agents : <<a, c, st>> \in results,
             lifeBar' = [lifeBar EXCEPT ![c] = st]
      PROVE  Life!LifeNext
  <2>1. Life!Settle(c, st)
    BY <1>3 DEF Life!Settle, Life!Reports, lifeBar
  <2> QED
    BY <2>1 DEF Life!LifeNext, Life!Reports
<1>4. ASSUME NEW S \in SUBSET Cmds, \A c \in S : lifeBar[c] = "queued",
             UNCHANGED <<results, runs>>,
             lifeBar' = [c \in Cmds |-> IF c \in S THEN "taken" ELSE lifeBar[c]]
      PROVE  Life!LifeNext
  BY <1>4 DEF Life!LifeNext, Life!Take, lifeBar
<1>5. ASSUME NEW p \in Performers, NEW c \in Cmds, NEW st \in {"executed", "failed"},
             runs[<<p, c>>] = 0, lifeBar[c] # "absent", p \in Agents => lifeBar[c] # "queued",
             results' = results \cup {<<p, c, st>>}, runs' = [runs EXCEPT ![<<p, c>>] = 1],
             lifeBar' = lifeBar
      PROVE  Life!LifeNext
  <2>1. Life!Perform(p, c, st)
    BY <1>5 DEF Life!Perform, lifeBar
  <2> QED
    BY <2>1 DEF Life!LifeNext, Life!Reports, Life!Performers, Performers
<1>6. ASSUME NEW c \in Cmds
      PROVE  /\ lifeBar[c] = Stage(row[c].status) /\ lifeBar'[c] = Stage(row'[c].status)
             /\ row[c].status \in Statuses
  BY DEF lifeBar, RowType
<1>7. CASE UNCHANGED <<results, runs>> /\ \A c \in Cmds : row'[c].status = row[c].status
  BY <1>1, <1>7 DEF lifeBar
<1>8. ASSUME NEW c \in Cmds, UNCHANGED <<results, runs>>, \A d \in Cmds : d # c => row'[d] = row[d],
             row[c].status # "absent", NEW st \in {"executed", "failed", "completed"},
             row'[c].status = st,
             \/ st = "completed" /\ <<Host, c, "executed">> \in results
             \/ st \in {"executed", "failed"} /\ \E a \in Agents : <<a, c, st>> \in results
      PROVE  Life!LifeNext
  <2>1. lifeBar'[c] = st /\ lifeBar[c] # "absent"
    BY <1>6, <1>8 DEF Stage, Statuses
  <2>2. lifeBar' = [lifeBar EXCEPT ![c] = st]
    BY <1>8, <2>1 DEF lifeBar
  <2> QED
    BY <1>3, <1>8, <2>1, <2>2
<1>9. ASSUME NEW p \in Performers, NEW c \in Cmds, NEW st \in {"executed", "failed"}, row' = row,
             ~Ran(p, c), Known(c), p \in Agents => row[c].status # "pending",
             results' = results \cup {<<p, c, st>>}, runs' = [runs EXCEPT ![<<p, c>>] = @ + 1]
      PROVE  Life!LifeNext
  <2>1. runs[<<p, c>>] = 0
    BY <1>9 DEF RunsInv
  <2>2. runs' = [runs EXCEPT ![<<p, c>>] = 1]
    BY <1>9, <2>1
  <2>3. lifeBar' = lifeBar
    BY <1>9 DEF lifeBar
  <2>4. lifeBar[c] # "absent" /\ (p \in Agents => lifeBar[c] # "queued")
    BY <1>6, <1>9 DEF Stage, Known, Statuses
  <2> QED
    BY <1>5, <1>9, <2>1, <2>2, <2>3, <2>4
<1>10. ASSUME NEW c \in Cmds, NEW q \in Requests, CreateCommand(c, q) PROVE Life!LifeNext
  <2>1. row[c].status = "absent"
    BY <1>10, CreatedIsNext, CmdAssumption DEF Cmds, Known
  <2>2. /\ UNCHANGED <<results, runs>> /\ row'[c].status = "pending"
        /\ \A d \in Cmds : d # c => row'[d] = row[d]
    BY <1>10 DEF CreateCommand, NoRow
  <2>3. lifeBar[c] = "absent" /\ lifeBar'[c] = "queued"
    BY <1>6, <2>1, <2>2 DEF Stage
  <2>4. lifeBar' = [lifeBar EXCEPT ![c] = "queued"]
    BY <2>2, <2>3 DEF lifeBar
  <2> QED
    BY <1>2, <2>2, <2>3, <2>4
<1>11. ASSUME NEW c \in Cmds, SignCommand(c) PROVE [Life!LifeNext]_(Life!lifeVars)
  BY <1>7, <1>11 DEF SignCommand, RowType
<1>12. ASSUME NEW c \in Cmds, NEW ok \in BOOLEAN, ExecuteNow(c, ok)
       PROVE  [Life!LifeNext]_(Life!lifeVars)
  <2>1. CASE ~ok
    BY <1>7, <1>12, <2>1 DEF ExecuteNow
  <2>2. CASE ok
    <3>1. ~Ran(Host, c) /\ Known(c) /\ Host \in Performers
      BY <1>12 DEF ExecuteNow, HostInv, RowsInv, Performers
    <3> QED
      BY <1>9, <1>12, <2>2, <3>1, NameAssumption DEF ExecuteNow
  <2> QED
    BY <2>1, <2>2
<1>13. ASSUME NEW c \in Cmds, CompleteCommand(c) PROVE Life!LifeNext
  <2>1. <<Host, c, "executed">> \in results
    BY <1>13 DEF CompleteCommand, HostInv
  <2>2. /\ UNCHANGED <<results, runs>> /\ \A d \in Cmds : d # c => row'[d] = row[d]
        /\ row[c].status # "absent" /\ row'[c].status = "completed"
    BY <1>13 DEF CompleteCommand, RowsInv, RowType, Known
  <2> QED
    BY <1>8, <2>1, <2>2
<1>14. ASSUME NEW s \in Slots, NEW n \in InboxCaps, MarkDelivered(s, n) PROVE Life!LifeNext
  <2> DEFINE S == {c \in poll[s].list : row[c].status = "pending"}
  <2>1. S \in SUBSET Cmds
    BY DEF PollType
  <2>2. /\ UNCHANGED <<results, runs>>
        /\ \A c \in Cmds : IF c \in S THEN row'[c].status = "delivered" ELSE row'[c] = row[c]
    BY <1>14 DEF MarkDelivered, RowType
  <2>3. \A c \in S : lifeBar[c] = "queued"
    BY <1>6, <2>1 DEF Stage
  <2> HIDE DEF S
  <2>4. lifeBar' = [c \in Cmds |-> IF c \in S THEN "taken" ELSE lifeBar[c]]
    BY <2>1, <2>2 DEF lifeBar, Stage
  <2> QED
    BY <1>4, <2>1, <2>2, <2>3, <2>4
<1>15. ASSUME NEW a \in Agents, NEW ok \in BOOLEAN, RunCommand(a, ok) PROVE Life!LifeNext
  <2>1. PICK c \in Cmds : c = Current(a) /\ c \in agent[a].inbox
    BY <1>15, CurrentIsLeast DEF RunCommand
  <2>2. Known(c) /\ row[c].status # "pending"
    BY <2>1 DEF AgentsInv, For
  <2>3. ~Ran(a, c)
    BY <2>1, <2>2 DEF BeforeInv, OrderInv
  <2>4. row' = row /\ \E st \in {"executed", "failed"} : results' = results \cup {<<a, c, st>>}
    BY <1>15, <2>1 DEF RunCommand
  <2>5. runs' = [runs EXCEPT ![<<a, c>>] = @ + 1]
    BY <1>15, <2>1 DEF RunCommand
  <2> QED
    BY <1>9, <2>2, <2>3, <2>4, <2>5 DEF Performers
<1>16. ASSUME NEW k \in acks, AckStep(k) PROVE [Life!LifeNext]_(Life!lifeVars)
  <2>1. /\ k.cmd \in Cmds /\ k.from \in Agents /\ k.status \in {"executed", "failed"}
        /\ <<k.from, k.cmd, k.status>> \in results
    BY DEF ResultsInv, AckType
  <2>2. row[k.cmd].status # "absent"
    BY <2>1 DEF ResultsInv, Known
  <2>3. UNCHANGED <<results, runs>> /\ \A d \in Cmds : d # k.cmd => row'[d] = row[d]
    BY <1>16, AckMoves
  <2>4. CASE row' = row
    BY <1>7, <2>3, <2>4
  <2>5. CASE row'[k.cmd].status = k.status
    BY <1>8, <2>1, <2>2, <2>3, <2>5
  <2> QED
    BY <1>16, <2>1, <2>4, <2>5, AckMoves DEF RowType
<1>17. CASE \/ \E s \in Slots, a \in Agents : FindCommands(a, s)
            \/ \E a \in Agents : PollTimeout(a) \/ SkipCommand(a) \/ AgentCrash(a)
            \/ DashboardCrash \/ UNCHANGED vars
  BY <1>7, <1>17 DEF FindCommands, PollTimeout, SkipCommand, AgentCrash, DashboardCrash, vars
<1> QED
  BY <1>10, <1>11, <1>12, <1>13, <1>14, <1>15, <1>16, <1>17 DEF Next, PostStep, PollStep, AgentStep

(* The queue implements CommandLife: agents run only what is marked as handed
   out, nobody runs a command twice, it settles only with a result that somebody
   had, and once settled it is never pending or delivered again. *)
THEOREM FleetImplementsLife == Spec => LifeSpec
<1>1. Init => Life!LifeInit
  <2>1. Stage("absent") = "absent"
    BY DEF Stage
  <2> QED
    BY <2>1 DEF Init, Life!LifeInit, Life!Performers, Performers, NoRow
<1>2. IInv /\ IInv' /\ [Next]_vars => [Life!LifeNext]_(Life!lifeVars)
  BY RowForward, LifeStep
<1> QED
  BY <1>1, <1>2, FleetInvariant, PTL DEF Spec, LifeSpec, Life!LifeSpec
=============================================================================
