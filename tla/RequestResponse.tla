-------------------------- MODULE RequestResponse --------------------------
(***************************************************************************)
(* What a dApp relies on when it awaits a request, whatever carries the    *)
(* messages: the request is settled at most once, never changes its mind,  *)
(* and what it is settled with is an answer the wallet's user gave to that *)
(* very request.                                                           *)
(***************************************************************************)

CONSTANTS
  Requests,   \* the requests the dApps can make
  Answers     \* what the wallet's user can answer

VARIABLES
  outcome,    \* what the dApp's code sees of each request
  answered    \* the answers the user gave to each request

vars == <<outcome, answered>>

Outcomes == {"idle", "waiting", "gone"} \cup Answers

TypeOK ==
  /\ outcome \in [Requests -> Outcomes]
  /\ answered \in [Requests -> SUBSET Answers]

Init ==
  /\ outcome = [r \in Requests |-> "idle"]
  /\ answered = [r \in Requests |-> {}]

\* The dApp makes a request and waits for it.
Ask(r) ==
  /\ outcome[r] = "idle"
  /\ outcome' = [outcome EXCEPT ![r] = "waiting"]
  /\ UNCHANGED answered

\* The user answers a request that was made.
Answer(r, a) ==
  /\ outcome[r] # "idle"
  /\ answered' = [answered EXCEPT ![r] = @ \cup {a}]
  /\ UNCHANGED outcome

\* The dApp's wait ends with one of the answers given to this request.
Settle(r, a) ==
  /\ outcome[r] = "waiting"
  /\ a \in answered[r]
  /\ outcome' = [outcome EXCEPT ![r] = a]
  /\ UNCHANGED answered

\* The page that waited for these requests is gone.
Abandon(S) ==
  /\ \A r \in S : outcome[r] = "waiting"
  /\ outcome' = [r \in Requests |-> IF r \in S THEN "gone" ELSE outcome[r]]
  /\ UNCHANGED answered

Next ==
  \/ \E r \in Requests : Ask(r)
  \/ \E r \in Requests, a \in Answers : Answer(r, a) \/ Settle(r, a)
  \/ \E S \in SUBSET Requests : Abandon(S)

Spec == Init /\ [][Next]_vars

=============================================================================
