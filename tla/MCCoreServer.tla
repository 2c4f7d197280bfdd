----------------------------- MODULE MCCoreServer -----------------------------
(* Instances of CoreServer for TLC. *)
EXTENDS CoreServer, TLC

CONSTANTS ka, kb, c1, c2, c3

\* Two connections contend for one key; the third is another agent.
RivalsAndOther == (c1 :> ka) @@ (c2 :> ka) @@ (c3 :> kb)

\* Two agents.
TwoAgents == (c1 :> ka) @@ (c2 :> kb)

\* Each client may send one message, or the first one two.
OneEach == [c \in Conns |-> 3]
TwoFromFirst == [OneEach EXCEPT ![c1] = 4]

\* The rivals may be exchanged.
Symmetry == Permutations({c1, c2})
===============================================================================
