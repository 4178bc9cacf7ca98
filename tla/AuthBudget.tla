----------------------------- MODULE AuthBudget -----------------------------
(***************************************************************************)
(* What one authentication promises the server and the user, whatever the  *)
(* server answers: every method is requested at most once in a stage, a    *)
(* stage is entered only after a partial success, and neither stages nor   *)
(* keyboard-interactive rounds exceed their budget.                        *)
(***************************************************************************)
EXTENDS Naturals

CONSTANTS MaxStages, MaxRounds

BudgetMethods == {"publickey", "keyboard-interactive", "password"}

VARIABLES
  stage,     \* stages entered so far, the first one included
  requests,  \* how often each method was requested in this stage
  rounds,    \* challenges shown to the user, over all stages
  result     \* "running", or how the authentication ended

vars == <<stage, requests, rounds, result>>

NoRequests == [m \in BudgetMethods |-> 0]

Init ==
  /\ stage = 1
  /\ requests = NoRequests
  /\ rounds = 0
  /\ result = "running"

Request(m) ==
  /\ requests[m] = 0
  /\ requests' = [requests EXCEPT ![m] = 1]
  /\ UNCHANGED <<stage, rounds, result>>

\* A partial success opens a new stage; its first request may go out at once.
Advance ==
  /\ stage < MaxStages
  /\ stage' = stage + 1
  /\ \/ requests' = NoRequests
     \/ \E m \in BudgetMethods : requests' = [NoRequests EXCEPT ![m] = 1]
  /\ UNCHANGED rounds
  /\ result' \in {"running", "failed"}

Challenge ==
  /\ rounds < MaxRounds
  /\ rounds' = rounds + 1
  /\ result' \in {"running", "failed"}
  /\ UNCHANGED <<stage, requests>>

End ==
  /\ result' \in {"authenticated", "cancelled", "failed"}
  /\ UNCHANGED <<stage, requests, rounds>>

Next ==
  /\ result = "running"
  /\ (\E m \in BudgetMethods : Request(m)) \/ Advance \/ Challenge \/ End

Spec == Init /\ [][Next]_vars
=============================================================================
