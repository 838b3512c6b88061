--------------------------------- MODULE Page ---------------------------------
(***************************************************************************)
(* What the polling pages of the dashboard have in common: requests that   *)
(* may be in flight together, the answer that is shown, and a bound on     *)
(* what operators, scripts and faults do.                                  *)
(***************************************************************************)
EXTENDS Integers, FiniteSets

CONSTANTS
  MaxFlight,  \* bound on the requests in flight
  MaxEvents   \* bound on what operators, scripts and faults do

VARIABLES
  flight,  \* slot -> request in flight, or a mark that there is none
  data,    \* what is shown
  events   \* how much has been done

Slots == 1..MaxFlight
Idle == [st |-> "idle"]

Acts == events < MaxEvents /\ events' = events + 1
===============================================================================
