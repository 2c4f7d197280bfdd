------------------------------ MODULE MCAsioComm ------------------------------
(* Instances of AsioComm for TLC: two asynchronous sends, and a synchronous one
   of a frame or of a group of two. *)
EXTENDS AsioComm, TLC

CONSTANTS a1, a2, s1, f1, f2, f3, f4

Modes == (a1 :> "async") @@ (a2 :> "async") @@ (s1 :> "sync")
Messages == (a1 :> {<<f1>>}) @@ (a2 :> {<<f2>>}) @@ (s1 :> {<<f3>>, <<f4, f3>>})
Bodies == (f1 :> 1) @@ (f2 :> 0) @@ (f3 :> 2) @@ (f4 :> 0)
===============================================================================
