---------------------------- MODULE AgentDirectory ----------------------------
(***************************************************************************)
(* The agent directory (lib/include/agent_directory.hpp): a map from       *)
(* public key to session guarded by one mutex.  add, remove and session    *)
(* take the mutex; exist does not.  A session is named by the connection   *)
(* it was created for.                                                     *)
(*                                                                         *)
(* A change of the map is two steps, from taking the mutex to releasing    *)
(* it, so that the unlocked exist can fall in between; calls that hold the *)
(* mutex without changing the map are one step.                            *)
(***************************************************************************)
CONSTANTS
  Keys,    \* public keys, the empty key of a malformed ID message included
  Conns,   \* connections, each standing for the session it may get
  None     \* no session, or nobody holding the mutex

ASSUME NoneAssumption == None \notin Conns

VARIABLES
  sessions,  \* sessions_: the session registered under each key, or None
  writer     \* who holds lock_ in order to change sessions_, or None

dirVars == <<sessions, writer>>

DirTypeOK ==
  /\ sessions \in [Keys -> Conns \union {None}]
  /\ writer \in Conns \union {None}

DirInit ==
  /\ sessions = [k \in Keys |-> None]
  /\ writer = None

\* exist takes no lock: beside a writer it reads a map that is being changed,
\* a data race, and may answer anything.
Exist(k) == IF writer = None THEN {sessions[k] # None} ELSE BOOLEAN

\* Mutant: newSession has called exist already, so add does not.
AddBeginsUntested(c, k) == writer = None /\ writer' = c

\* add, up to the outcome of its own test under the mutex.
AddBegins(c, k) == writer = None /\ sessions[k] = None /\ writer' = c
AddFails(c, k)  == writer = None /\ sessions[k] # None /\ writer' = writer
AddEnds(c, k)   == /\ writer = c
                   /\ sessions' = [sessions EXCEPT ![k] = c]
                   /\ writer' = None

\* remove erases whatever is registered under the key.
RemoveBegins(c, k) == writer = None /\ writer' = c
RemoveEnds(c, k)   == /\ writer = c
                      /\ sessions' = [sessions EXCEPT ![k] = None]
                      /\ writer' = None

\* session: a lookup under the mutex that finds `found`.
Session(k, found) == writer = None /\ found = sessions[k]
===============================================================================
