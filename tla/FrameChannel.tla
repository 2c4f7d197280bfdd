----------------------------- MODULE FrameChannel -----------------------------
(***************************************************************************)
(* What a communicator promises for one direction of a connection, free of *)
(* units, buffers and partial writes: frames arrive whole and in the order *)
(* they were sent, up to the first that the communicator does not hand     *)
(* over undisturbed.  From there on anything may arrive.                   *)
(***************************************************************************)
EXTENDS Naturals, Sequences

CONSTANTS
  Frames,     \* what is sent
  Bad         \* what arrives and was never sent

VARIABLES
  sent,       \* the frames sent, in order
  safe,       \* how many of them were handed over undisturbed
  spoiled,    \* a frame was sent that was not
  delivered   \* what has arrived, in order

channelVars == <<sent, safe, spoiled, delivered>>

Init ==
  /\ sent = <<>>
  /\ safe = 0
  /\ spoiled = FALSE
  /\ delivered = <<>>

\* Frames are sent, one or a group, and are handed over now, later or never.
Send ==
  /\ \E group \in UNION {[1..n -> Frames] : n \in 1..2} :
       sent' = sent \o group
  /\ \/ UNCHANGED <<safe, spoiled>>
     \/ spoiled' = TRUE /\ UNCHANGED safe
     \/ ~spoiled /\ UNCHANGED spoiled /\ safe' = Len(sent')
  /\ UNCHANGED delivered

HandOver ==
  /\ ~spoiled
  /\ safe < Len(sent)
  /\ safe' = Len(sent)
  /\ UNCHANGED <<sent, spoiled, delivered>>

Deliver ==
  /\ Len(delivered) < safe
  /\ delivered' = Append(delivered, sent[Len(delivered) + 1])
  /\ UNCHANGED <<sent, safe, spoiled>>

DeliverAnything ==
  /\ spoiled
  /\ Len(delivered) >= safe
  /\ \E f \in Frames \union {Bad} : delivered' = Append(delivered, f)
  /\ UNCHANGED <<sent, safe, spoiled>>

Next == Send \/ HandOver \/ Deliver \/ DeliverAnything

Spec == Init /\ [][Next]_channelVars
===============================================================================
