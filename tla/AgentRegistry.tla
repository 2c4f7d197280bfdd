---------------------------- MODULE AgentRegistry ----------------------------
(***************************************************************************)
(* What the OEF Core promises about agent names, free of threads, locks,   *)
(* sockets and handlers: a public key belongs to at most one connection at *)
(* a time, a connection that got a key is the only one that gives it up,   *)
(* and the answer "connected" is only ever given to a connection that got  *)
(* its key, the answer "refused" only to one that never did.               *)
(***************************************************************************)
CONSTANTS
  Keys,    \* public keys
  Conns,   \* agent connections
  KeyOf,   \* the key each connection claims, a function from Conns to Keys
  None     \* no connection

VARIABLES
  owner,    \* the connection each key belongs to, or None
  claimed,  \* the connections that own or have owned their key
  verdict   \* what each connection has been told

regVars == <<owner, claimed, verdict>>

Verdicts == {"none", "connected", "refused"}

TypeOK ==
  /\ owner \in [Keys -> Conns \union {None}]
  /\ claimed \subseteq Conns
  /\ verdict \in [Conns -> Verdicts]

Init ==
  /\ owner = [k \in Keys |-> None]
  /\ claimed = {}
  /\ verdict = [c \in Conns |-> "none"]

\* A free key goes to a connection that has had no key and no answer so far.
Claim(c) ==
  /\ owner[KeyOf[c]] = None
  /\ c \notin claimed
  /\ verdict[c] = "none"
  /\ owner' = [owner EXCEPT ![KeyOf[c]] = c]
  /\ claimed' = claimed \union {c}
  /\ UNCHANGED verdict

\* The connection may have lost its key again before it hears of it.
Confirm(c) ==
  /\ c \in claimed
  /\ verdict[c] = "none"
  /\ verdict' = [verdict EXCEPT ![c] = "connected"]
  /\ UNCHANGED <<owner, claimed>>

Reject(c) ==
  /\ c \notin claimed
  /\ verdict[c] = "none"
  /\ verdict' = [verdict EXCEPT ![c] = "refused"]
  /\ UNCHANGED <<owner, claimed>>

Release(c) ==
  /\ owner[KeyOf[c]] = c
  /\ owner' = [owner EXCEPT ![KeyOf[c]] = None]
  /\ UNCHANGED <<claimed, verdict>>

Next == \E c \in Conns : Claim(c) \/ Confirm(c) \/ Reject(c) \/ Release(c)

Spec == Init /\ [][Next]_regVars
==============================================================================
