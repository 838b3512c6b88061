---------------------------- MODULE CommandLife ----------------------------
(***************************************************************************)
(* What the fleet command queue promises, without requests, signatures,    *)
(* replies or acknowledgements.  A command is posted, handed out, and      *)
(* settled; it is settled only with a result that somebody had who really  *)
(* carried it out, nobody carries it out twice, and once it is settled it  *)
(* is never queued or handed out again.  A later report may replace an     *)
(* earlier one.                                                            *)
(***************************************************************************)
EXTENDS Naturals

CONSTANTS Cmds,    \* the commands
          Agents,  \* the agents that poll for commands
          Host     \* the guardian beside the dashboard, which may act at once

VARIABLES life,    \* command -> "absent", "queued", "taken" or a settled status
          done,    \* triples <<who, command, result>>
          runs     \* <<who, command>> -> how often it was carried out

lifeVars == <<life, done, runs>>

Performers == Agents \cup {Host}
Reports == {"executed", "failed"}

LifeTypeOK == /\ life \in [Cmds -> {"absent", "queued", "taken", "completed"} \cup Reports]
              /\ done \subseteq Performers \X Cmds \X Reports
              /\ runs \in [Performers \X Cmds -> Nat]

LifeInit == /\ life = [c \in Cmds |-> "absent"]
            /\ done = {}
            /\ runs = [r \in Performers \X Cmds |-> 0]

Post(c) == /\ life[c] = "absent"
           /\ life' = [life EXCEPT ![c] = "queued"]
           /\ UNCHANGED <<done, runs>>

\* Several queued commands may be handed out by one poll.
Take(S) == /\ \A c \in S : life[c] = "queued"
           /\ life' = [c \in Cmds |-> IF c \in S THEN "taken" ELSE life[c]]
           /\ UNCHANGED <<done, runs>>

\* An agent acts only on what was handed out; the host acts on its own.
Perform(p, c, st) == /\ runs[<<p, c>>] = 0
                     /\ life[c] # "absent"
                     /\ p \in Agents => life[c] # "queued"
                     /\ runs' = [runs EXCEPT ![<<p, c>>] = 1]
                     /\ done' = done \cup {<<p, c, st>>}
                     /\ UNCHANGED life

Settle(c, st) == /\ life[c] # "absent"
                 /\ \/ st = "completed" /\ <<Host, c, "executed">> \in done
                    \/ st \in Reports /\ \E a \in Agents : <<a, c, st>> \in done
                 /\ life' = [life EXCEPT ![c] = st]
                 /\ UNCHANGED <<done, runs>>

LifeNext == \/ \E c \in Cmds : Post(c)
            \/ \E c \in Cmds, st \in Reports \cup {"completed"} : Settle(c, st)
            \/ \E S \in SUBSET Cmds : Take(S)
            \/ \E p \in Performers, c \in Cmds, st \in Reports : Perform(p, c, st)

LifeSpec == LifeInit /\ [][LifeNext]_lifeVars
=============================================================================
