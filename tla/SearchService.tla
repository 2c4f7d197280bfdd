----------------------------- MODULE SearchService -----------------------------
(***************************************************************************)
(* What a session may expect of the OEF Search behind its client, free of  *)
(* connections, identifiers, handles and threads: a request is carried out *)
(* at most once, its session is told at most once, and what it is told is  *)
(* what became of it.  A request need never be carried out, and a session  *)
(* need never be told: the Search or the connection to it may be gone.     *)
(***************************************************************************)
CONSTANTS
  Requests  \* the requests sessions make

VARIABLES
  asked,    \* the requests made
  verdict,  \* the Search's answer to each request, or "none"
  told      \* what the session of each request has been told, or "none"

serviceVars == <<asked, verdict, told>>

Outcomes == {"ok", "fail"}

Init ==
  /\ asked = {}
  /\ verdict = [r \in Requests |-> "none"]
  /\ told = [r \in Requests |-> "none"]

Ask(r) ==
  /\ r \notin asked
  /\ asked' = asked \union {r}
  /\ UNCHANGED <<verdict, told>>

\* The Search does as it is asked, or refuses.
Decide(r) ==
  /\ r \in asked
  /\ verdict[r] = "none"
  /\ told[r] = "none"
  /\ \E outcome \in Outcomes : verdict' = [verdict EXCEPT ![r] = outcome]
  /\ UNCHANGED <<asked, told>>

\* The session is told what the Search decided.
Tell(r) ==
  /\ verdict[r] # "none"
  /\ told[r] = "none"
  /\ told' = [told EXCEPT ![r] = verdict[r]]
  /\ UNCHANGED <<asked, verdict>>

\* The request did not reach the Search, and never will.
GiveUp(r) ==
  /\ r \in asked
  /\ verdict[r] = "none"
  /\ told[r] = "none"
  /\ told' = [told EXCEPT ![r] = "fail"]
  /\ UNCHANGED <<asked, verdict>>

Next == \E r \in Requests : Ask(r) \/ Decide(r) \/ Tell(r) \/ GiveUp(r)

Spec == Init /\ [][Next]_serviceVars
===============================================================================
