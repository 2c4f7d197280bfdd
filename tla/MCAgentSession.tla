---------------------------- MODULE MCAgentSession ----------------------------
(* Instances of AgentSession for TLC. *)
EXTENDS AgentSession, TLC

CONSTANTS s1, s2, m1, m2

Of(kind, models) == [kind : {kind}, model : models]

\* One agent describes itself and searches, the other takes back a service that
\* it may or may not have registered with the first one's model.
AgentEnvelopes ==
  (s1 :> (Of("register_description", {m1, m2})
            \union Of("unregister_description", {None})
            \union Of("search_services_wide", {None}))) @@
  (s2 :> (Of("unregister_service", {m1}) \union Of("not_set", {None})))
===============================================================================
