---------------------------- MODULE MCSearchClient ----------------------------
(* Instances of SearchClient for TLC: two updates and a search; the second
   update uses the identifier of the first, once that is answered, and the
   greatest identifier wraps around on the wire. *)
EXTENDS SearchClient, TLC

CONSTANTS u1, u2, s1

Operations == (u1 :> "update") @@ (u2 :> "update") @@ (s1 :> "search-local")

\* The second update and the search are made whenever their agents please.
DistinctIds == (u1 :> 3) @@ (u2 :> 0) @@ (s1 :> 1)
NoWait == [r \in Requests |-> {}]

ReusedIds == (u1 :> 3) @@ (u2 :> 3) @@ (s1 :> 0)
ReuseWaits == (u1 :> {}) @@ (u2 :> {u1}) @@ (s1 :> {})
===============================================================================
