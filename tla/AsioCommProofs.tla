---------------------------- MODULE AsioCommProofs ----------------------------
(***************************************************************************)
(* Theorems about AsioComm for any calls and frames, any capacity of the   *)
(* socket and any size of pieces, with either end going away at any time:  *)
(* types, outcomes, and that the units of overlapping writes still parse   *)
(* into what FrameChannel says, step by step.                              *)
(***************************************************************************)
EXTENDS AsioComm, SequenceTheorems, TLAPS

\* A call is in the queue of the reactor once.
QueuedOnce ==
  \A i, j \in DOMAIN opq : opq[i] = opq[j] => i = j

\* What is not begun is whole, and a caller that is blocked has more to write.
Progress ==
  \A c \in Calls : /\ stage[c] = "idle" => pos[c] = 0
                   /\ stage[c] = "sync" => Left(c) > 0

IInv == TypeOK /\ QueuedOnce /\ Progress /\ OutcomeIsTrue

-------------------------------------------------------------------------------
(* Frames and pieces *)

LEMMA UnitsType ==
  ASSUME NEW f \in Frames
  PROVE  UnitsOf(f) \in Seq(Unit) /\ Len(UnitsOf(f)) = BodyOf[f] + 1
<1>1. BodyOf[f] \in Nat
  BY BodyAssumption
<1>2. \A k \in 1..(BodyOf[f] + 1) : [of |-> f, i |-> k - 1] \in Unit
  BY <1>1 DEF Unit
<1>3. BodyOf[f] + 1 \in Nat
  BY <1>1
<1>4. UnitsOf(f) \in [1..(BodyOf[f] + 1) -> Unit]
  BY <1>2 DEF UnitsOf
<1> QED BY <1>3, <1>4

\* A call has something to write, and it is made of units.
LEMMA ContentType ==
  ASSUME NEW c \in Calls, frames[c] \in Offers[c]
  PROVE  /\ Content(c) \in Seq(Unit)
         /\ Len(Content(c)) \in Nat \ {0}
         /\ DOMAIN Content(c) = 1..Len(Content(c))
         /\ frames[c] \in Seq(Frames)
<1>1. frames[c] \in Seq(Frames) /\ (Len(frames[c]) = 1 \/ Len(frames[c]) = 2)
  BY OffersAssumption
<1>2. frames[c][1] \in Frames
  BY <1>1
<1>3. UnitsOf(frames[c][1]) \in Seq(Unit) /\ Len(UnitsOf(frames[c][1])) \in Nat \ {0}
  BY <1>2, UnitsType, BodyAssumption
<1>4. CASE Len(frames[c]) = 1
  BY <1>1, <1>3, <1>4 DEF Content
<1>5. CASE Len(frames[c]) # 1
  <2>1. frames[c][2] \in Frames
    BY <1>1, <1>5
  <2>2. UnitsOf(frames[c][2]) \in Seq(Unit) /\ Len(UnitsOf(frames[c][2])) \in Nat
    BY <2>1, UnitsType, BodyAssumption
  <2>3. Content(c) = UnitsOf(frames[c][1]) \o UnitsOf(frames[c][2])
    BY <1>5 DEF Content
  <2>4. /\ Content(c) \in Seq(Unit)
        /\ Len(Content(c)) = Len(UnitsOf(frames[c][1])) + Len(UnitsOf(frames[c][2]))
    BY <1>3, <2>2, <2>3, ConcatProperties
  <2> QED BY <1>1, <1>3, <2>2, <2>4
<1> QED BY <1>4, <1>5

\* A piece is no longer than what is left of the call and than the socket has
\* room for.
LEMMA PieceBounds ==
  ASSUME TypeOK, NEW c \in Calls
  PROVE  /\ Left(c) \in Nat /\ Room \in Nat
         /\ Piece(c) \in Nat /\ Piece(c) <= Left(c) /\ Piece(c) <= Room
         /\ Len(stream) + Room = Capacity /\ Len(stream) \in Nat
         /\ pos[c] \in Nat /\ pos[c] + Left(c) = Len(Content(c))
<1>1. /\ pos[c] \in Nat /\ pos[c] <= Len(Content(c)) /\ Len(Content(c)) \in Nat
      /\ Len(stream) \in Nat /\ Len(stream) <= Capacity
  BY ContentType DEF TypeOK
<1>2. Left(c) \in Nat /\ Room \in Nat
  BY <1>1, CapacityAssumption DEF Left, Room
<1>3. \A a, b \in Nat : Least(a, b) \in Nat /\ Least(a, b) <= a /\ Least(a, b) <= b
  BY DEF Least
<1>4. /\ Requested(c) \in Nat /\ Requested(c) <= Left(c)
      /\ Piece(c) \in Nat /\ Piece(c) <= Requested(c) /\ Piece(c) <= Room
  BY <1>2, <1>3, CapacityAssumption DEF Requested, Piece
<1>5. Piece(c) <= Left(c)
  BY <1>2, <1>4
<1> QED BY <1>1, <1>2, <1>4, <1>5, CapacityAssumption DEF Left, Room

\* What a piece does to the socket and to its call.
LEMMA WrittenType ==
  ASSUME TypeOK, NEW c \in Calls, NEW gone, Written(c, gone)
  PROVE  /\ stream' \in Seq(Unit) /\ Len(stream') <= Capacity
         /\ pos' \in [Calls -> Nat]
         /\ \A d \in Calls : d # c => pos'[d] = pos[d]
         /\ pos'[c] = pos[c] + Piece(c)
         /\ pos'[c] <= Len(Content(c))
<1>1. PICK kept \in BOOLEAN :
        stream' = stream \o [k \in 1..Piece(c) |->
                               IF kept \/ pos[c] + k \notin gone
                                 THEN Content(c)[pos[c] + k] ELSE Junk]
  BY DEF Written
<1> DEFINE x == [k \in 1..Piece(c) |-> IF kept \/ pos[c] + k \notin gone
                                         THEN Content(c)[pos[c] + k] ELSE Junk]
<1>2. Content(c) \in Seq(Unit)
  BY ContentType DEF TypeOK
<1>3. \A k \in 1..Piece(c) : Content(c)[pos[c] + k] \in Unit
  <2> SUFFICES ASSUME NEW k \in 1..Piece(c) PROVE Content(c)[pos[c] + k] \in Unit
    OBVIOUS
  <2>1. pos[c] + k \in 1..Len(Content(c))
    BY PieceBounds
  <2> QED BY <1>2, <2>1
<1>4. Junk \in Unit
  BY DEF Junk, Unit
<1>5. x \in [1..Piece(c) -> Unit]
  BY <1>3, <1>4
<1>6. Piece(c) \in Nat
  BY PieceBounds
<1>7. x \in Seq(Unit) /\ Len(x) = Piece(c)
  BY <1>5, <1>6
<1> HIDE DEF x
<1>8. stream \in Seq(Unit) /\ stream' = stream \o x
  BY <1>1 DEF TypeOK, x
<1>9. stream' \in Seq(Unit) /\ Len(stream') = Len(stream) + Len(x)
  BY <1>7, <1>8, ConcatProperties
<1>10. Len(stream') <= Capacity
  BY <1>7, <1>9, PieceBounds, CapacityAssumption
<1>11. pos' = [pos EXCEPT ![c] = pos[c] + Piece(c)] /\ pos \in [Calls -> Nat]
  BY DEF Written, TypeOK
<1>12. pos' \in [Calls -> Nat] /\ pos'[c] = pos[c] + Piece(c)
  BY <1>6, <1>11
<1>13. pos'[c] <= Len(Content(c))
  BY <1>12, PieceBounds
<1> QED BY <1>9, <1>10, <1>11, <1>12, <1>13

-------------------------------------------------------------------------------
(* The writing side *)

\* The variables a writer changes, with their types.
WriteTypes ==
  /\ \A c \in Calls : frames[c] \in Offers[c]
  /\ stage \in [Calls -> Stages]
  /\ pos \in [Calls -> Nat]
  /\ \A c \in Calls : pos[c] <= Len(Content(c))
  /\ opq \in Seq(Calls)
  /\ \A c \in Calls : stage[c] = "queued" <=> \E i \in DOMAIN opq : opq[i] = c
  /\ speculative \in BOOLEAN
  /\ stream \in Seq(Unit)
  /\ Len(stream) <= Capacity

\* What a call owes its caller.
Owes(c) ==
  /\ stage[c] = "idle" => pos[c] = 0
  /\ stage[c] = "sync" => Left(c) > 0
  /\ stage[c] = "done" => Left(c) = 0
  /\ stage[c] = "failed" => conn # "up" /\ Left(c) > 0

Writing == WriteTypes /\ QueuedOnce /\ \A c \in Calls : Owes(c)

LEMMA WritingOfIInv == IInv => Writing
BY DEF IInv, TypeOK, WriteTypes, Progress, OutcomeIsTrue, Owes, Writing

\* A step of one call that keeps what it has written leaves the others as they
\* are.
LEMMA OthersOwe ==
  ASSUME Writing, NEW c \in Calls, UNCHANGED frames, conn' = "up" => conn = "up",
         \A d \in Calls : d # c => pos'[d] = pos[d] /\ stage'[d] = stage[d]
  PROVE  \A d \in Calls : d # c => Owes(d)'
<1> SUFFICES ASSUME NEW d \in Calls, d # c PROVE Owes(d)'
  OBVIOUS
<1>1. Owes(d) /\ pos'[d] = pos[d] /\ stage'[d] = stage[d]
  BY DEF Writing
<1>2. Left(d)' = Left(d)
  BY <1>1 DEF Left, Content
<1> QED BY <1>1, <1>2 DEF Owes

\* A piece is begun by a call that has one to write.
LEMMA WriteSomeWrites ==
  ASSUME TypeOK, Writing, NEW c \in Calls, NEW gone, WriteSome(c, gone),
         stage[c] \in {"idle", "posted"}, UNCHANGED <<conn, frames>>
  PROVE  Writing'
<1>t. /\ stage \in [Calls -> Stages] /\ opq \in Seq(Calls)
      /\ pos \in [Calls -> Nat] /\ stream \in Seq(Unit) /\ Len(stream) <= Capacity
  BY DEF TypeOK
<1>c. \A d \in Calls : Content(d)' = Content(d) /\ frames'[d] \in Offers[d]
  BY DEF TypeOK, Content
<1>1. CASE /\ Goes(c, "posted") /\ UNCHANGED opq
           /\ \/ UNCHANGED <<pos, speculative, stream>>
              \/ Written(c, gone) /\ speculative' \in BOOLEAN
  <2>1. /\ stage'[c] = "posted" /\ stage' \in [Calls -> Stages]
        /\ \A d \in Calls : d # c => stage'[d] = stage[d]
    BY <1>1, <1>t DEF Goes, Stages
  <2>2. /\ stream' \in Seq(Unit) /\ Len(stream') <= Capacity
        /\ pos' \in [Calls -> Nat]
        /\ \A d \in Calls : d # c => pos'[d] = pos[d]
        /\ \A d \in Calls : pos'[d] <= Len(Content(d))
    BY <1>1, <1>t, WrittenType DEF TypeOK
  <2>3. \A d \in Calls : stage'[d] = "queued" <=> \E i \in DOMAIN opq : opq[i] = d
    BY <2>1 DEF TypeOK
  <2>4. speculative' \in BOOLEAN
    BY <1>1 DEF TypeOK
  <2>5. WriteTypes' /\ QueuedOnce'
    BY <1>1, <1>t, <1>c, <2>1, <2>2, <2>3, <2>4 DEF WriteTypes, Writing, QueuedOnce
  <2>6. Owes(c)'
    BY <2>1 DEF Owes
  <2> QED BY <2>1, <2>2, <2>5, <2>6, OthersOwe DEF Writing
<1>2. CASE /\ Goes(c, "queued") /\ opq' = Append(opq, c)
           /\ UNCHANGED <<pos, speculative, stream>>
  <2>1. /\ stage'[c] = "queued" /\ stage' \in [Calls -> Stages]
        /\ \A d \in Calls : d # c => stage'[d] = stage[d]
    BY <1>2, <1>t DEF Goes, Stages
  <2>2. /\ opq' \in Seq(Calls) /\ DOMAIN opq' = 1..(Len(opq) + 1)
        /\ DOMAIN opq = 1..Len(opq) /\ Len(opq) \in Nat
        /\ \A i \in DOMAIN opq : opq'[i] = opq[i] /\ opq[i] # c
        /\ opq'[Len(opq) + 1] = c
    <3>1. \A i \in DOMAIN opq : opq[i] # c
      BY DEF TypeOK
    <3> QED BY <1>2, <1>t, <3>1
  <2>3. QueuedOnce'
    BY <2>2 DEF QueuedOnce, Writing
  <2>4. ASSUME NEW d \in Calls
        PROVE  stage'[d] = "queued" <=> \E i \in DOMAIN opq' : opq'[i] = d
    <3>1. CASE d = c
      BY <2>1, <2>2, <3>1
    <3>2. CASE d # c
      <4>1. (\E i \in DOMAIN opq' : opq'[i] = d) <=> \E i \in DOMAIN opq : opq[i] = d
        BY <2>2, <3>2
      <4> QED BY <2>1, <3>2, <4>1 DEF TypeOK
    <3> QED BY <3>1, <3>2
  <2>5. WriteTypes'
    BY <1>2, <1>t, <1>c, <2>1, <2>2, <2>4 DEF WriteTypes, TypeOK
  <2>6. Owes(c)'
    BY <2>1 DEF Owes
  <2> QED BY <1>2, <2>1, <2>3, <2>5, <2>6, OthersOwe DEF Writing
<1> QED BY <1>1, <1>2 DEF WriteSome

\* A call ends or goes on without its place in the queue being touched.
LEMMA CallGoes ==
  ASSUME TypeOK, Writing, NEW c \in Calls, NEW to \in Stages \ {"queued"},
         Goes(c, to), stage[c] # "queued", UNCHANGED <<conn, frames, opq, speculative>>,
         \/ UNCHANGED <<pos, stream>>
         \/ \E gone \in SUBSET Nat : Written(c, gone),
         Owes(c)'
  PROVE  Writing'
<1>t. /\ stage \in [Calls -> Stages] /\ opq \in Seq(Calls)
      /\ pos \in [Calls -> Nat] /\ stream \in Seq(Unit) /\ Len(stream) <= Capacity
  BY DEF TypeOK
<1>c. \A d \in Calls : Content(d)' = Content(d) /\ frames'[d] \in Offers[d]
  BY DEF TypeOK, Content
<1>1. /\ stage'[c] = to /\ stage' \in [Calls -> Stages]
      /\ \A d \in Calls : d # c => stage'[d] = stage[d]
  BY <1>t DEF Goes
<1>2. /\ stream' \in Seq(Unit) /\ Len(stream') <= Capacity
      /\ pos' \in [Calls -> Nat]
      /\ \A d \in Calls : d # c => pos'[d] = pos[d]
      /\ \A d \in Calls : pos'[d] <= Len(Content(d))
  BY <1>t, WrittenType DEF TypeOK
<1>3. \A d \in Calls : stage'[d] = "queued" <=> \E i \in DOMAIN opq : opq[i] = d
  BY <1>1 DEF TypeOK
<1>4. WriteTypes' /\ QueuedOnce'
  BY <1>t, <1>c, <1>1, <1>2, <1>3 DEF WriteTypes, TypeOK, Writing, QueuedOnce
<1> QED BY <1>1, <1>2, <1>4, OthersOwe DEF Writing

LEMMA ReactorWriting ==
  ASSUME TypeOK, Writing, ReactorWrites
  PROVE  Writing'
<1>t. /\ stage \in [Calls -> Stages] /\ opq \in Seq(Calls)
      /\ pos \in [Calls -> Nat] /\ stream \in Seq(Unit) /\ Len(stream) <= Capacity
  BY DEF TypeOK
<1>u. UNCHANGED <<conn, frames>>
  BY DEF ReactorWrites
<1>c. \A d \in Calls : Content(d)' = Content(d) /\ frames'[d] \in Offers[d]
  BY <1>u DEF TypeOK, Content
<1>1. CASE opq = <<>>
  BY <1>1, <1>u DEF ReactorWrites, Writing, WriteTypes, QueuedOnce, Owes, Left, Content
<1>2. CASE opq # <<>>
  <2>1. PICK c \in Calls : c = Head(opq)
    BY <1>2, <1>t
  <2>2. /\ Goes(c, "posted") /\ opq' = Tail(opq)
        /\ \/ UNCHANGED <<pos, speculative, stream>>
           \/ Written(c, DOMAIN Content(c)) /\ speculative' \in BOOLEAN
    BY <1>2, <2>1 DEF ReactorWrites
  <2>3. /\ stage'[c] = "posted" /\ stage' \in [Calls -> Stages]
        /\ \A d \in Calls : d # c => stage'[d] = stage[d]
    BY <2>2, <1>t DEF Goes, Stages
  <2>4. /\ stream' \in Seq(Unit) /\ Len(stream') <= Capacity
        /\ pos' \in [Calls -> Nat] /\ speculative' \in BOOLEAN
        /\ \A d \in Calls : d # c => pos'[d] = pos[d]
        /\ \A d \in Calls : pos'[d] <= Len(Content(d))
    BY <2>2, <1>t, WrittenType DEF TypeOK
  <2>5. /\ opq' \in Seq(Calls) /\ opq[1] = c
        /\ DOMAIN opq = 1..Len(opq) /\ Len(opq) \in Nat \ {0}
        /\ DOMAIN opq' = 1..(Len(opq) - 1)
        /\ \A i \in DOMAIN opq' : opq'[i] = opq[i + 1]
    BY <1>2, <1>t, <2>1, <2>2
  <2>6. QueuedOnce'
    BY <2>5 DEF QueuedOnce, Writing
  <2>7. ASSUME NEW d \in Calls
        PROVE  stage'[d] = "queued" <=> \E i \in DOMAIN opq' : opq'[i] = d
    <3>1. CASE d = c
      <4>1. \A i \in DOMAIN opq' : opq'[i] # c
        BY <2>5 DEF QueuedOnce, Writing
      <4> QED BY <2>3, <3>1, <4>1
    <3>2. CASE d # c
      <4>1. ASSUME NEW i \in DOMAIN opq, opq[i] = d
            PROVE  i - 1 \in DOMAIN opq' /\ opq'[i - 1] = d
        BY <2>5, <3>2, <4>1
      <4>2. \A i \in DOMAIN opq' : i + 1 \in DOMAIN opq
        BY <2>5
      <4>3. (\E i \in DOMAIN opq' : opq'[i] = d) <=> \E i \in DOMAIN opq : opq[i] = d
        BY <2>5, <4>1, <4>2
      <4> QED BY <2>3, <3>2, <4>3 DEF TypeOK
    <3> QED BY <3>1, <3>2
  <2>8. WriteTypes'
    BY <1>c, <2>3, <2>4, <2>5, <2>7 DEF WriteTypes
  <2>9. Owes(c)'
    BY <2>3 DEF Owes
  <2> QED BY <1>u, <2>3, <2>4, <2>6, <2>8, <2>9, OthersOwe DEF Writing
<1> QED BY <1>1, <1>2

\* Calls, handlers of pieces and blocked callers.
LEMMA CallWriting ==
  ASSUME TypeOK, Writing, NEW c \in Calls, Send(c) \/ Proceed(c)
  PROVE  Writing'
<1>t. stage \in [Calls -> Stages] /\ pos \in [Calls -> Nat]
  BY DEF TypeOK
<1>1. CASE SendAsync(c)
  BY <1>1, WriteSomeWrites DEF SendAsync
<1>2. CASE SendSync(c)
  <2>1. /\ stage[c] = "idle" /\ Goes(c, "sync") /\ UNCHANGED <<conn, frames>>
        /\ UNCHANGED <<pos, opq, speculative, stream>>
    BY <1>2 DEF SendSync
  <2>2. Left(c)' = Left(c)
    BY <2>1 DEF Left, Content
  <2>3. Left(c) > 0
    <3>1. pos[c] = 0 /\ Len(Content(c)) \in Nat \ {0}
      BY <2>1, ContentType DEF Writing, Owes, TypeOK
    <3> QED BY <3>1 DEF Left
  <2>4. Owes(c)'
    BY <1>t, <2>1, <2>2, <2>3 DEF Owes, Goes
  <2> QED BY <2>1, <2>4, CallGoes DEF Stages
<1>3. CASE OnPiece(c)
  <2>1. stage[c] = "posted" /\ UNCHANGED <<conn, frames>>
    BY <1>3 DEF OnPiece
  <2>2. ASSUME NEW to \in {"done", "failed"}, Goes(c, to),
               to = "done" => Left(c) = 0,
               to = "failed" => Left(c) > 0 /\ conn # "up",
               UNCHANGED <<pos, opq, speculative, stream>>
        PROVE  Writing'
    <3>1. Left(c)' = Left(c)
      BY <2>1, <2>2 DEF Left, Content
    <3>2. Owes(c)'
      BY <1>t, <2>1, <2>2, <3>1 DEF Owes, Goes
    <3> QED BY <2>1, <2>2, <3>2, CallGoes DEF Stages
  <2>3. ASSUME WriteSome(c, DOMAIN Content(c)) PROVE Writing'
    BY <2>1, <2>3, WriteSomeWrites
  <2> QED BY <1>3, <2>2, <2>3 DEF OnPiece
<1>4. CASE SyncWrites(c)
  <2>1. /\ stage[c] = "sync" /\ Left(c) > 0
        /\ UNCHANGED <<conn, frames, opq, speculative>>
    BY <1>4 DEF SyncWrites, Writing, Owes
  <2>2. CASE conn = "up"
    <3>1. PICK gone \in SUBSET Nat : Written(c, gone)
      BY <1>4, <2>2 DEF SyncWrites
    <3>2. PICK to \in {"done", "sync"} :
            Goes(c, to) /\ (to = "done" <=> pos'[c] = Len(Content(c)))
      BY <1>4, <2>2 DEF SyncWrites
    <3>3. pos'[c] \in Nat /\ pos'[c] <= Len(Content(c)) /\ Len(Content(c)) \in Nat
      BY <3>1, WrittenType, ContentType DEF TypeOK
    <3>4. Left(c)' = Len(Content(c)) - pos'[c]
      BY <2>1 DEF Left, Content
    <3>5. Owes(c)'
      BY <1>t, <3>2, <3>3, <3>4 DEF Owes, Goes
    <3> QED BY <2>1, <3>1, <3>2, <3>5, CallGoes DEF Stages
  <2>3. CASE conn # "up"
    <3>1. Goes(c, "failed") /\ UNCHANGED <<pos, stream>>
      BY <1>4, <2>3 DEF SyncWrites
    <3>2. Left(c)' = Left(c)
      BY <2>1, <3>1 DEF Left, Content
    <3>3. Owes(c)'
      BY <1>t, <2>1, <2>3, <3>1, <3>2 DEF Owes, Goes
    <3> QED BY <2>1, <3>1, <3>3, CallGoes DEF Stages
  <2> QED BY <2>2, <2>3
<1> QED BY <1>1, <1>2, <1>3, <1>4 DEF Send, Proceed

LEMMA DisconnectWriting ==
  ASSUME TypeOK, Writing, WriterDisconnects \/ ReaderDisconnects
  PROVE  Writing'
<1>1. CASE WriterDisconnects
  <2>1. /\ conn' = "writer" /\ opq' = <<>>
        /\ stage' = [c \in Calls |->
                       IF stage[c] = "queued" THEN "posted" ELSE stage[c]]
        /\ UNCHANGED <<frames, pos, speculative, stream>>
    BY <1>1 DEF WriterDisconnects
  <2>2. \A c \in Calls : Left(c)' = Left(c) /\ Content(c)' = Content(c)
    BY <2>1 DEF Left, Content
  <2>3. stage' \in [Calls -> Stages] /\ \A c \in Calls : stage'[c] # "queued"
    BY <2>1 DEF TypeOK, Stages
  <2>4. WriteTypes' /\ QueuedOnce'
    BY <2>1, <2>2, <2>3 DEF Writing, WriteTypes, QueuedOnce
  <2>5. \A c \in Calls : Owes(c)'
    BY <2>1, <2>2 DEF Writing, Owes
  <2> QED BY <2>4, <2>5 DEF Writing
<1>2. CASE ReaderDisconnects
  <2>1. /\ conn' = "reader" /\ stream' = <<>> /\ UNCHANGED writeVars
    BY <1>2 DEF ReaderDisconnects
  <2>2. stream' \in Seq(Unit) /\ Len(stream') <= Capacity
    BY <2>1, CapacityAssumption
  <2>3. \A c \in Calls : Left(c)' = Left(c) /\ Content(c)' = Content(c)
    BY <2>1 DEF Left, Content, writeVars
  <2>4. WriteTypes' /\ QueuedOnce'
    BY <2>1, <2>2, <2>3 DEF Writing, WriteTypes, QueuedOnce, writeVars
  <2>5. \A c \in Calls : Owes(c)'
    BY <2>1, <2>3 DEF Writing, Owes, writeVars
  <2> QED BY <2>4, <2>5 DEF Writing
<1> QED BY <1>1, <1>2

-------------------------------------------------------------------------------
(* The reading side *)

ReadTypes ==
  /\ rcv \in {"length", "body", "dead"}
  /\ part \in Seq(Unit)
  /\ need \in Nat
  /\ rcv = "length" => part = <<>>
  /\ rcv = "body" => Len(part) \in 1..(need + 1)
  /\ delivered \in Seq(Frames \union {Bad})

\* Reading takes from the socket and gives to the continuation.
LEMMA ReceiveReads ==
  ASSUME TypeOK, Receive
  PROVE  /\ ReadTypes'
         /\ stream' \in Seq(Unit) /\ Len(stream') <= Capacity
         /\ UNCHANGED <<conn, writeVars, history>>
<1>t. /\ stream \in Seq(Unit) /\ Len(stream) \in Nat /\ Len(stream) <= Capacity
      /\ part \in Seq(Unit) /\ Len(part) \in Nat /\ need \in Nat
  BY DEF TypeOK
<1>u. UNCHANGED <<conn, writeVars, history>>
  BY DEF Receive, ReadLength, ReadBody, Deliver, ReceiveFails
<1>1. CASE ReadLength
  <2>1. Head(stream) \in Unit /\ Tail(stream) \in Seq(Unit)
        /\ Len(Tail(stream)) <= Capacity
    BY <1>1, <1>t, CapacityAssumption DEF ReadLength
  <2>2. need' \in Nat
    <3>1. LengthsOf(Head(stream)) \subseteq Nat
      BY <2>1, BodyAssumption DEF LengthsOf, Unit
    <3> QED BY <1>1, <3>1 DEF ReadLength
  <2>3. part' \in Seq(Unit) /\ Len(part') = 1
    BY <1>1, <2>1 DEF ReadLength
  <2>4. rcv' = "body" /\ stream' = Tail(stream) /\ delivered' = delivered
    BY <1>1 DEF ReadLength
  <2>5. delivered \in Seq(Frames \union {Bad})
    BY DEF TypeOK
  <2>6. Len(part') \in 1..(need' + 1)
    <3>1. \A n \in Nat : 1 \in 1..(n + 1)
      OBVIOUS
    <3>2. 1 \in 1..(need' + 1)
      BY <2>2, <3>1
    <3> QED BY <2>3, <3>2, Zenon
  <2>7. rcv' # "length" /\ rcv' \in {"length", "body", "dead"}
    BY <2>4
  <2>8. ReadTypes'
    BY <2>2, <2>3, <2>4, <2>5, <2>6, <2>7 DEF ReadTypes
  <2> QED BY <1>u, <2>1, <2>4, <2>8
<1>2. CASE ReadBody
  <2> DEFINE k == Least(Len(stream), need - (Len(part) - 1))
  <2>1. /\ rcv = "body" /\ Len(part) \in 1..need
        /\ part' = part \o SubSeq(stream, 1, k)
        /\ stream' = SubSeq(stream, k + 1, Len(stream))
        /\ UNCHANGED <<rcv, need, delivered>>
    BY <1>2, <1>t DEF ReadBody, TypeOK
  <2>2. k \in Nat /\ k <= Len(stream) /\ k <= need - (Len(part) - 1)
    BY <1>t, <2>1 DEF Least
  <2> HIDE DEF k
  <2>3. \A i \in 1..Len(stream) : stream[i] \in Unit
    BY <1>t
  <2>4. SubSeq(stream, 1, k) \in Seq(Unit) /\ Len(SubSeq(stream, 1, k)) = k
    <3>1. \A i \in 1..k : stream[i] \in Unit
      BY <1>t, <2>2, <2>3
    <3>2. /\ SubSeq(stream, 1, k) \in Seq(Unit)
          /\ Len(SubSeq(stream, 1, k)) = IF 1 <= k THEN k - 1 + 1 ELSE 0
      BY <2>2, <3>1, SubSeqProperties
    <3> QED BY <2>2, <3>2
  <2>5. stream' \in Seq(Unit) /\ Len(stream') <= Len(stream)
    <3>1. \A i \in (k + 1)..Len(stream) : stream[i] \in Unit
      BY <1>t, <2>2, <2>3
    <3>2. /\ SubSeq(stream, k + 1, Len(stream)) \in Seq(Unit)
          /\ Len(SubSeq(stream, k + 1, Len(stream))) =
               IF k + 1 <= Len(stream) THEN Len(stream) - (k + 1) + 1 ELSE 0
      BY <1>t, <2>2, <3>1, SubSeqProperties
    <3> QED BY <1>t, <2>1, <2>2, <3>2
  <2>6. part' \in Seq(Unit) /\ Len(part') = Len(part) + k
    BY <1>t, <2>1, <2>4, ConcatProperties
  <2>7. Len(part') \in 1..(need + 1)
    BY <1>t, <2>1, <2>2, <2>6
  <2>8. Len(stream') <= Capacity
    BY <1>t, <2>5, CapacityAssumption
  <2>9. delivered \in Seq(Frames \union {Bad})
    BY DEF TypeOK
  <2>10. ReadTypes'
    BY <1>t, <2>1, <2>6, <2>7, <2>9 DEF ReadTypes
  <2> QED BY <1>u, <2>5, <2>8, <2>10
<1>3. CASE Deliver
  <2>1. Frame(part) \in Frames \union {Bad}
    BY DEF Frame
  <2>2. delivered' \in Seq(Frames \union {Bad})
    BY <1>3, <2>1 DEF Deliver, TypeOK
  <2> QED BY <1>3, <1>t, <1>u, <2>2 DEF Deliver, ReadTypes
<1>4. CASE ReceiveFails
  BY <1>4, <1>t, <1>u DEF ReceiveFails, ReadTypes, TypeOK
<1> QED BY <1>1, <1>2, <1>3, <1>4 DEF Receive

-------------------------------------------------------------------------------
(* The history *)

HistoryTypes ==
  /\ sent \in Seq(Frames)
  /\ safe \in 0..Len(sent)
  /\ spoiled \in BOOLEAN

LEMMA CallHistory ==
  ASSUME TypeOK, NEW c \in Calls, Send(c) \/ Proceed(c)
  PROVE  HistoryTypes'
<1>t. /\ sent \in Seq(Frames) /\ Len(sent) \in Nat /\ safe \in 0..Len(sent)
      /\ spoiled \in BOOLEAN
  BY DEF TypeOK
<1>1. CASE Accounts(c)
  <2>1. sent' = sent \o frames[c] /\ spoiled' \in BOOLEAN /\ safe' \in {safe, Len(sent')}
    BY <1>1 DEF Accounts
  <2>2. frames[c] \in Seq(Frames) /\ Len(frames[c]) \in Nat
    BY ContentType DEF TypeOK
  <2>3. sent' \in Seq(Frames) /\ Len(sent') = Len(sent) + Len(frames[c])
    BY <1>t, <2>1, <2>2, ConcatProperties
  <2> QED BY <1>t, <2>1, <2>2, <2>3 DEF HistoryTypes
<1>2. CASE OnPiece(c)
  BY <1>2, <1>t DEF OnPiece, history, HistoryTypes
<1>3. CASE SyncWrites(c)
  BY <1>3, <1>t DEF SyncWrites, HistoryTypes
<1> QED BY <1>1, <1>2, <1>3 DEF Send, Proceed, SendAsync, SendSync

-------------------------------------------------------------------------------
LEMMA InitIInv == Init => IInv
<1> SUFFICES ASSUME Init PROVE IInv
  OBVIOUS
<1>1. \A c \in Calls : frames[c] \in Offers[c] /\ pos[c] = 0
  BY DEF Init
<1>2. \A c \in Calls : pos[c] <= Len(Content(c))
  BY <1>1, ContentType
<1>3. TypeOK
  <2>1. /\ stage \in [Calls -> Stages] /\ pos \in [Calls -> Nat]
        /\ \A c \in Calls : stage[c] = "idle"
    BY DEF Init, Stages
  <2>2. opq = <<>> /\ stream = <<>> /\ part = <<>> /\ sent = <<>> /\ delivered = <<>>
        /\ need = 0 /\ rcv = "length" /\ safe = 0 /\ spoiled = FALSE
        /\ speculative = TRUE /\ conn = "up"
    BY DEF Init, Channel!Init
  <2>3. /\ opq \in Seq(Calls) /\ stream \in Seq(Unit) /\ part \in Seq(Unit)
        /\ sent \in Seq(Frames) /\ delivered \in Seq(Frames \union {Bad})
        /\ Len(stream) <= Capacity /\ safe \in 0..Len(sent) /\ need \in Nat
    BY <2>2, CapacityAssumption
  <2>4. \A c \in Calls : stage[c] = "queued" <=> \E i \in DOMAIN opq : opq[i] = c
    BY <2>1, <2>2
  <2> QED BY <1>1, <1>2, <2>1, <2>2, <2>3, <2>4 DEF TypeOK
<1>4. \A c \in Calls : stage[c] = "idle"
  BY DEF Init
<1> QED BY <1>1, <1>3, <1>4 DEF Init, IInv, QueuedOnce, Progress, OutcomeIsTrue

\* The types are those of the three groups of variables.
LEMMA IInvOf ==
  ASSUME conn' \in {"up", "writer", "reader"}, Writing', ReadTypes', HistoryTypes'
  PROVE  IInv'
BY DEF IInv, TypeOK, Writing, WriteTypes, Owes, ReadTypes, HistoryTypes,
   Progress, OutcomeIsTrue

LEMMA NextIInv == IInv /\ [Next]_vars => IInv'
<1> SUFFICES ASSUME IInv, [Next]_vars PROVE IInv'
  OBVIOUS
<1>t. TypeOK /\ Writing /\ ReadTypes /\ HistoryTypes
  BY WritingOfIInv DEF IInv, TypeOK, ReadTypes, HistoryTypes
<1>1. ASSUME NEW c \in Calls, Send(c) \/ Proceed(c) PROVE IInv'
  <2>1. UNCHANGED <<conn, readVars, delivered>>
    BY <1>1 DEF Send, Proceed, SendAsync, SendSync, OnPiece, SyncWrites
  <2>2. ReadTypes'
    BY <1>t, <2>1 DEF ReadTypes, readVars
  <2> QED BY <1>1, <1>t, <2>1, <2>2, CallWriting, CallHistory, IInvOf DEF TypeOK
<1>2. ASSUME ReactorWrites PROVE IInv'
  <2>1. UNCHANGED <<conn, readVars, history, delivered>>
    BY <1>2 DEF ReactorWrites
  <2>2. ReadTypes' /\ HistoryTypes'
    BY <1>t, <2>1 DEF ReadTypes, HistoryTypes, readVars, history
  <2> QED BY <1>2, <1>t, <2>1, <2>2, ReactorWriting, IInvOf DEF TypeOK
<1>3. ASSUME Receive PROVE IInv'
  <2>1. /\ ReadTypes' /\ stream' \in Seq(Unit) /\ Len(stream') <= Capacity
        /\ UNCHANGED <<conn, writeVars, history>>
    BY <1>3, <1>t, ReceiveReads
  <2>2. \A c \in Calls : Left(c)' = Left(c) /\ Content(c)' = Content(c)
    BY <2>1 DEF Left, Content, writeVars
  <2>3. Writing'
    BY <1>t, <2>1, <2>2 DEF Writing, WriteTypes, QueuedOnce, Owes, writeVars
  <2>4. HistoryTypes'
    BY <1>t, <2>1 DEF HistoryTypes, history
  <2> QED BY <1>t, <2>1, <2>3, <2>4, IInvOf DEF TypeOK
<1>4. ASSUME WriterDisconnects \/ ReaderDisconnects PROVE IInv'
  <2>1. /\ conn' \in {"up", "writer", "reader"}
        /\ UNCHANGED <<readVars, history, delivered>>
    BY <1>4 DEF WriterDisconnects, ReaderDisconnects
  <2>2. ReadTypes' /\ HistoryTypes'
    BY <1>t, <2>1 DEF ReadTypes, HistoryTypes, readVars, history
  <2> QED BY <1>4, <1>t, <2>1, <2>2, DisconnectWriting, IInvOf
<1>5. ASSUME UNCHANGED vars PROVE IInv'
  <2>1. \A c \in Calls : Left(c)' = Left(c) /\ Content(c)' = Content(c)
    BY <1>5 DEF Left, Content, vars, writeVars
  <2>2. Writing'
    BY <1>5, <1>t, <2>1 DEF vars, Writing, WriteTypes, QueuedOnce, Owes, writeVars
  <2>3. ReadTypes' /\ HistoryTypes' /\ conn' = conn
    BY <1>5, <1>t DEF vars, readVars, history, ReadTypes, HistoryTypes
  <2> QED BY <1>t, <2>2, <2>3, IInvOf DEF TypeOK
<1> QED BY <1>1, <1>2, <1>3, <1>4, <1>5 DEF Next, Idle

\* The variables keep their types: no piece goes past the end of its call or the
\* capacity of the socket, and no call is in the queue without waiting there.
THEOREM TypeCorrect == Spec => []TypeOK
<1>1. IInv => TypeOK
  BY DEF IInv
<1> QED BY <1>1, InitIInv, NextIInv, PTL DEF Spec

\* However a write is cut into pieces and whoever goes away in the middle, its
\* continuation is called only when all is written, and an error is only met by
\* a call that is not (AsioComm::send_async, send_sync).
THEOREM OutcomesAreTrue == Spec => []OutcomeIsTrue
<1>1. IInv => OutcomeIsTrue
  BY DEF IInv
<1> QED BY <1>1, InitIInv, NextIInv, PTL DEF Spec

-------------------------------------------------------------------------------
(* Where the frames lie *)

\* What is written and not delivered.
Unread == part \o stream

\* Frame i, if it was handed over undisturbed, begins after the first b[i - 1]
\* units that were ever written.
Starts(b) ==
  /\ b \in [Nat -> Nat]
  /\ \A i \in 1..safe : b[i] = b[i - 1] + BodyOf[sent[i]] + 1
  /\ \A i, j \in 0..safe : i <= j => b[i] <= b[j]

\* The units of those frames that are not delivered.
Owed(b) == b[safe] - b[Len(delivered)]

\* What is there of those frames is in its place.
InPlace(b) ==
  \A i \in 1..safe : Len(delivered) < i =>
    \A k \in 1..(BodyOf[sent[i]] + 1) :
      LET p == b[i - 1] + k - b[Len(delivered)]
      IN  p <= Len(Unread) => Unread[p] = UnitsOf(sent[i])[k]

\* They are all there, until the connection goes.
AllThere(b) ==
  conn = "up" /\ Len(delivered) <= safe => Len(Unread) >= Owed(b)

\* Behind them is nothing, or a part of the frame that is being handed over.
PartOfNext(b) ==
  ~spoiled =>
    /\ Len(delivered) <= safe
    /\ Len(Unread) > Owed(b) =>
         /\ safe < Len(sent)
         /\ Len(Unread) - Owed(b) <= BodyOf[sent[safe + 1]]
         /\ \A p \in (Owed(b) + 1)..Len(Unread) :
              Unread[p] = UnitsOf(sent[safe + 1])[p - Owed(b)]

\* A call that has written a part of its frame and is blocked for the rest.
Blocked(b, c) ==
  /\ Len(frames[c]) = 1
  /\ Len(sent) = safe + 1
  /\ sent[safe + 1] = frames[c][1]
  /\ Len(Unread) = Owed(b) + pos[c]
  /\ \A e \in Calls : stage[e] = "sync" => e = c

\* It is the only one that writes.
OneWriter(b) ==
  ~spoiled /\ conn = "up" =>
    /\ opq = <<>>
    /\ \A c \in Calls : /\ stage[c] = "posted" => Left(c) = 0
                        /\ stage[c] = "sync" => Blocked(b, c)
    /\ (\A c \in Calls : stage[c] # "sync") =>
         safe = Len(sent) /\ Len(Unread) = Owed(b)

\* The reader has the right length of what it is reading.
NeedFits ==
  rcv = "body" /\ (Len(delivered) < safe \/ ~spoiled) =>
    Len(delivered) < Len(sent) /\ need = BodyOf[sent[Len(delivered) + 1]]

Laid(b) == Starts(b) /\ InPlace(b) /\ AllThere(b) /\ PartOfNext(b) /\ OneWriter(b)

WireInv == NeedFits /\ \E b \in [Nat -> Nat] : Laid(b)

LEMMA UnreadType ==
  ASSUME TypeOK
  PROVE  /\ part \in Seq(Unit) /\ stream \in Seq(Unit) /\ Unread \in Seq(Unit)
         /\ Len(part) \in Nat /\ Len(stream) \in Nat /\ Len(Unread) \in Nat
         /\ Len(Unread) = Len(part) + Len(stream)
         /\ \A p \in 1..Len(part) : Unread[p] = part[p]
         /\ \A p \in 1..Len(stream) : Unread[Len(part) + p] = stream[p]
<1>1. part \in Seq(Unit) /\ stream \in Seq(Unit)
  BY DEF TypeOK
<1>2. Len(part) \in Nat /\ Len(stream) \in Nat
  BY <1>1
<1>3. /\ Unread \in Seq(Unit)
      /\ Len(Unread) = Len(part) + Len(stream)
      /\ \A p \in 1..Len(part) + Len(stream) :
           Unread[p] = IF p <= Len(part) THEN part[p] ELSE stream[p - Len(part)]
  BY <1>1, ConcatProperties DEF Unread
<1>4. \A p \in 1..Len(part) : Unread[p] = part[p]
  BY <1>2, <1>3
<1>5. \A p \in 1..Len(stream) : Unread[Len(part) + p] = stream[p]
  BY <1>2, <1>3
<1> QED BY <1>1, <1>2, <1>3, <1>4, <1>5

LEMMA HistoryLengths ==
  ASSUME TypeOK
  PROVE  /\ Len(delivered) \in Nat /\ Len(sent) \in Nat /\ safe \in Nat
         /\ safe <= Len(sent)
         /\ \A i \in 1..Len(sent) : sent[i] \in Frames /\ BodyOf[sent[i]] \in Nat
<1>1. sent \in Seq(Frames) /\ delivered \in Seq(Frames \union {Bad}) /\ safe \in 0..Len(sent)
  BY DEF TypeOK
<1>2. Len(sent) \in Nat /\ Len(delivered) \in Nat
  BY <1>1
<1>3. \A i \in 1..Len(sent) : sent[i] \in Frames
  BY <1>1
<1> QED BY <1>1, <1>2, <1>3, BodyAssumption

\* Where a frame that is not delivered begins and ends.
LEMMA Boundaries ==
  ASSUME TypeOK, NEW b, Starts(b),
         NEW i \in 1..safe, Len(delivered) < i
  PROVE  /\ b[Len(delivered)] \in Nat /\ b[i - 1] \in Nat /\ b[safe] \in Nat
         /\ BodyOf[sent[i]] \in Nat
         /\ b[Len(delivered)] <= b[i - 1]
         /\ b[i] = b[i - 1] + BodyOf[sent[i]] + 1
         /\ b[i] <= b[safe]
<1>1. Len(delivered) \in Nat /\ safe \in Nat /\ safe <= Len(sent) /\ Len(sent) \in Nat
  BY HistoryLengths
<1>2. /\ i - 1 \in 0..safe /\ i \in 0..safe /\ safe \in 0..safe
      /\ Len(delivered) \in 0..safe /\ Len(delivered) <= i - 1
  BY <1>1
<1>3. i \in 1..Len(sent)
  BY <1>1
<1>4. BodyOf[sent[i]] \in Nat
  BY <1>3, HistoryLengths
<1>5. b[Len(delivered)] <= b[i - 1] /\ b[i] <= b[safe]
  BY <1>2 DEF Starts
<1>6. b[i] = b[i - 1] + BodyOf[sent[i]] + 1
  BY DEF Starts
<1> QED BY <1>1, <1>2, <1>4, <1>5, <1>6 DEF Starts

\* The place of a unit is behind what is delivered and before the end of what
\* was handed over.
LEMMA Places ==
  ASSUME TypeOK, NEW b, Starts(b),
         NEW i \in 1..safe, Len(delivered) < i,
         NEW k \in 1..(BodyOf[sent[i]] + 1)
  PROVE  /\ b[i - 1] + k - b[Len(delivered)] \in Nat \ {0}
         /\ b[i - 1] + k - b[Len(delivered)] <= Owed(b)
         /\ Owed(b) \in Nat
<1>1. PICK n, d, x, s \in Nat : n = BodyOf[sent[i]] /\ d = b[Len(delivered)]
                                /\ x = b[i - 1] /\ s = b[safe]
  BY Boundaries
<1>2. d <= x /\ x + n + 1 <= s
  BY <1>1, Boundaries
<1>3. k \in 1..(n + 1)
  BY <1>1
<1> SUFFICES x + k - d \in Nat \ {0} /\ x + k - d <= s - d /\ s - d \in Nat
  BY <1>1 DEF Owed
<1> QED BY <1>2, <1>3

\* A step that hands nothing over: it may write behind what is there while the
\* connection is up, and what is not read may be lost when it goes.
Continues ==
  /\ UNCHANGED <<safe, delivered>>
  /\ Len(sent') >= Len(sent) /\ \A i \in 1..Len(sent) : sent'[i] = sent[i]
  /\ conn' = "up" => conn = "up"
  /\ ~spoiled' => ~spoiled
  /\ \A p \in 1..Len(Unread) : p <= Len(Unread') => Unread'[p] = Unread[p]
  /\ Len(Unread') > Len(Unread) => conn = "up"
  /\ Len(Unread') < Len(Unread) => conn' # "up"

\* Writing behind what is there, while the connection is up, and losing what is
\* not read when it goes, leave the frames in place.
LEMMA StaysInPlace ==
  ASSUME TypeOK, TypeOK', NEW b, Laid(b),
         Continues
  PROVE  Starts(b)' /\ InPlace(b)' /\ AllThere(b)' /\ Owed(b)' = Owed(b)
<1>c. /\ UNCHANGED <<safe, delivered>>
      /\ Len(sent') >= Len(sent) /\ \A i \in 1..Len(sent) : sent'[i] = sent[i]
      /\ conn' = "up" => conn = "up"
      /\ \A p \in 1..Len(Unread) : p <= Len(Unread') => Unread'[p] = Unread[p]
      /\ Len(Unread') > Len(Unread) => conn = "up"
      /\ Len(Unread') < Len(Unread) => conn' # "up"
  BY DEF Continues
<1>l. /\ Len(sent) \in Nat /\ safe \in Nat /\ safe <= Len(sent)
      /\ Len(delivered) \in Nat /\ Len(Unread) \in Nat /\ Len(Unread') \in Nat
  BY HistoryLengths, UnreadType
<1>1. \A i \in 1..safe : sent'[i] = sent[i]
  BY <1>c, <1>l
<1>2. Starts(b)'
  BY <1>c, <1>1 DEF Starts, Laid
<1>3. Owed(b)' = Owed(b)
  BY <1>c DEF Owed
<1>4. AllThere(b)'
  <2> SUFFICES ASSUME conn' = "up", Len(delivered) <= safe
               PROVE  Len(Unread') >= Owed(b)
    BY <1>c, <1>3 DEF AllThere
  <2>1. Len(Unread) >= Owed(b) /\ Len(Unread') >= Len(Unread)
    BY <1>c, <1>l DEF Laid, AllThere
  <2>2. Owed(b) \in Int
    BY <1>l DEF Owed, Laid, Starts
  <2> QED BY <1>l, <2>1, <2>2
<1>5. ASSUME NEW i \in 1..safe, Len(delivered) < i,
             NEW k \in 1..(BodyOf[sent[i]] + 1),
             b[i - 1] + k - b[Len(delivered)] <= Len(Unread')
      PROVE  Unread'[b[i - 1] + k - b[Len(delivered)]] = UnitsOf(sent[i])[k]
  <2> DEFINE p == b[i - 1] + k - b[Len(delivered)]
  <2>1. p \in Nat \ {0} /\ p <= Owed(b) /\ Owed(b) \in Nat
    BY <1>5, Places DEF Laid
  <2>2. p <= Len(Unread)
    <3>1. CASE Len(Unread') > Len(Unread)
      <4>1. conn = "up" /\ Len(delivered) <= safe
        BY <1>5, <1>c, <1>l, <3>1
      <4>2. Len(Unread) >= Owed(b)
        BY <4>1 DEF Laid, AllThere
      <4> QED BY <1>l, <2>1, <4>2
    <3>2. CASE ~(Len(Unread') > Len(Unread))
      BY <1>5, <1>l, <2>1, <3>2
    <3> QED BY <3>1, <3>2
  <2>3. Unread'[p] = Unread[p]
    BY <1>5, <1>c, <1>l, <2>1, <2>2
  <2>4. Unread[p] = UnitsOf(sent[i])[k]
    BY <1>5, <2>2 DEF Laid, InPlace
  <2> QED BY <2>3, <2>4
<1>6. InPlace(b)'
  <2> SUFFICES ASSUME NEW i \in 1..safe', Len(delivered') < i,
                      NEW k \in 1..(BodyOf[sent'[i]] + 1),
                      b[i - 1] + k - b[Len(delivered')] <= Len(Unread')
               PROVE  Unread'[b[i - 1] + k - b[Len(delivered')]] = UnitsOf(sent'[i])[k]
    BY DEF InPlace, UnitsOf
  <2>1. sent'[i] = sent[i]
    BY <1>c, <1>1
  <2> QED BY <1>c, <1>5, <2>1
<1> QED BY <1>2, <1>3, <1>4, <1>6

\* So it leaves the part of the next frame that is behind them, unless the
\* channel is spoiled by then.
LEMMA LaidStays ==
  ASSUME TypeOK, TypeOK', NEW b, Laid(b), Continues,
         spoiled' \/ Len(Unread') <= Len(Unread), OneWriter(b)'
  PROVE  Laid(b)'
<1>1. Starts(b)' /\ InPlace(b)' /\ AllThere(b)' /\ Owed(b)' = Owed(b)
  BY StaysInPlace
<1>l. /\ Len(sent) \in Nat /\ safe \in Nat /\ safe <= Len(sent)
      /\ Len(delivered) \in Nat /\ Len(Unread) \in Nat /\ Len(Unread') \in Nat
  BY HistoryLengths, UnreadType
<1>2. PartOfNext(b)'
  <2> SUFFICES ASSUME ~spoiled'
               PROVE  /\ Len(delivered) <= safe
                      /\ Len(Unread') > Owed(b) =>
                           /\ safe < Len(sent')
                           /\ Len(Unread') - Owed(b) <= BodyOf[sent'[safe + 1]]
                           /\ \A p \in (Owed(b) + 1)..Len(Unread') :
                                Unread'[p] = UnitsOf(sent'[safe + 1])[p - Owed(b)]
    BY <1>1 DEF PartOfNext, Continues, UnitsOf
  <2>1. ~spoiled /\ Len(Unread') <= Len(Unread) /\ Len(sent') >= Len(sent)
    BY DEF Continues
  <2>2. Len(delivered) <= safe
    BY <2>1 DEF Laid, PartOfNext
  <2>3. Owed(b) \in Nat
    <3>1. b[Len(delivered)] \in Nat /\ b[safe] \in Nat
      BY <1>l DEF Laid, Starts
    <3>2. Len(delivered) \in 0..safe /\ safe \in 0..safe
      BY <1>l, <2>2
    <3>3. b[Len(delivered)] <= b[safe]
      BY <2>2, <3>2 DEF Laid, Starts
    <3> QED BY <3>1, <3>3 DEF Owed
  <2>4. ASSUME Len(Unread') > Owed(b)
        PROVE  /\ safe < Len(sent')
               /\ Len(Unread') - Owed(b) <= BodyOf[sent'[safe + 1]]
               /\ \A p \in (Owed(b) + 1)..Len(Unread') :
                    Unread'[p] = UnitsOf(sent'[safe + 1])[p - Owed(b)]
    <3>1. Len(Unread) > Owed(b)
      BY <1>l, <2>1, <2>3, <2>4
    <3>2. /\ safe < Len(sent)
          /\ Len(Unread) - Owed(b) <= BodyOf[sent[safe + 1]]
          /\ \A p \in (Owed(b) + 1)..Len(Unread) :
               Unread[p] = UnitsOf(sent[safe + 1])[p - Owed(b)]
      BY <2>1, <3>1 DEF Laid, PartOfNext
    <3>3. safe + 1 \in 1..Len(sent)
      BY <1>l, <3>2
    <3>4. sent'[safe + 1] = sent[safe + 1] /\ BodyOf[sent[safe + 1]] \in Nat
      BY <3>3, HistoryLengths DEF Continues
    <3>5. ASSUME NEW p \in (Owed(b) + 1)..Len(Unread')
          PROVE  Unread'[p] = UnitsOf(sent[safe + 1])[p - Owed(b)]
      <4>1. p \in 1..Len(Unread) /\ p \in (Owed(b) + 1)..Len(Unread) /\ p <= Len(Unread')
        BY <1>l, <2>1, <2>3
      <4> QED BY <3>2, <4>1 DEF Continues
    <3> QED BY <1>l, <2>1, <2>3, <3>2, <3>4, <3>5
  <2> QED BY <2>2, <2>4
<1> QED BY <1>1, <1>2 DEF Laid

\* The length that was read stays right.
LEMMA NeedStays ==
  ASSUME TypeOK, TypeOK', NeedFits, UNCHANGED <<rcv, need, delivered>>,
         Len(sent') >= Len(sent), \A i \in 1..Len(sent) : sent'[i] = sent[i],
         ~spoiled' => ~spoiled, safe' # safe => ~spoiled
  PROVE  NeedFits'
<1> SUFFICES ASSUME rcv = "body", Len(delivered) < safe' \/ ~spoiled'
             PROVE  Len(delivered) < Len(sent') /\ need = BodyOf[sent'[Len(delivered) + 1]]
  BY DEF NeedFits
<1>1. Len(delivered) < Len(sent) /\ need = BodyOf[sent[Len(delivered) + 1]]
  BY DEF NeedFits
<1>2. /\ Len(sent) \in Nat /\ Len(sent') \in Nat /\ Len(delivered) \in Nat
  BY HistoryLengths
<1>3. Len(delivered) + 1 \in 1..Len(sent)
  BY <1>1, <1>2
<1> QED BY <1>1, <1>2, <1>3

\* With the last of its units the frame is handed over, by a call after which
\* none writes.
HandsOver(b, f) ==
  /\ ~spoiled /\ conn = "up" /\ UNCHANGED delivered
  /\ safe' = safe + 1 /\ Len(sent') = safe + 1 /\ sent'[safe + 1] = f
  /\ \A i \in 1..safe : sent'[i] = sent[i]
  /\ Len(Unread') = Owed(b) + BodyOf[f] + 1
  /\ \A p \in 1..Len(Unread) : Unread'[p] = Unread[p]
  /\ \A k \in 1..(BodyOf[f] + 1) : Unread'[Owed(b) + k] = UnitsOf(f)[k]
  /\ opq' = <<>>
  /\ \A e \in Calls : stage'[e] # "sync" /\ (stage'[e] = "posted" => Left(e)' = 0)

\* The next one begins behind it.
NextBegins(b, x, f) ==
  /\ x \in [Nat -> Nat]
  /\ x[safe + 1] = b[safe] + BodyOf[f] + 1
  /\ \A i \in 0..safe : x[i] = b[i]

LEMMA AnotherBeginning ==
  ASSUME NEW b, b \in [Nat -> Nat], NEW s \in Nat, NEW n \in Nat
  PROVE  \E x : /\ x \in [Nat -> Nat]
                /\ x[s + 1] = b[s] + n + 1
                /\ \A i \in 0..s : x[i] = b[i]
<1> DEFINE x == [b EXCEPT ![s + 1] = b[s] + n + 1]
<1>1. b[s] \in Nat /\ s + 1 \in Nat
  OBVIOUS
<1>2. b[s] + n + 1 \in Nat
  BY <1>1
<1>3. x \in [Nat -> Nat] /\ x[s + 1] = b[s] + n + 1
  BY <1>1, <1>2
<1>4. \A i \in 0..s : i \in Nat /\ i # s + 1
  OBVIOUS
<1>5. \A i \in 0..s : x[i] = b[i]
  BY <1>4
<1> QED BY <1>3, <1>5

\* Something is owed, or nothing.
LEMMA OwedType ==
  ASSUME TypeOK, NEW b, Starts(b), Len(delivered) <= safe
  PROVE  Owed(b) \in Nat /\ b[safe] \in Nat /\ b[Len(delivered)] \in Nat
<1>1. Len(delivered) \in Nat /\ safe \in Nat
  BY HistoryLengths
<1>2. b[safe] \in Nat /\ b[Len(delivered)] \in Nat
  BY <1>1 DEF Starts
<1>3. Len(delivered) \in 0..safe /\ safe \in 0..safe
  BY <1>1
<1>4. b[Len(delivered)] <= b[safe]
  BY <1>3 DEF Starts
<1> QED BY <1>2, <1>4 DEF Owed

LEMMA StartsAgain ==
  ASSUME TypeOK, NEW b, Starts(b), NEW f \in Frames, NEW x, NextBegins(b, x, f),
         HandsOver(b, f)
  PROVE  Starts(x)'
<1>l. safe \in Nat /\ BodyOf[f] \in Nat
  BY HistoryLengths, BodyAssumption
<1>h. safe' = safe + 1 /\ sent'[safe + 1] = f /\ \A i \in 1..safe : sent'[i] = sent[i]
  BY DEF HandsOver
<1>x. /\ x[safe + 1] = b[safe] + BodyOf[f] + 1
      /\ \A i \in 0..safe : x[i] = b[i]
  BY DEF NextBegins
<1>1. ASSUME NEW i \in 1..(safe + 1)
      PROVE  x[i] = x[i - 1] + BodyOf[sent'[i]] + 1
  <2>1. CASE i = safe + 1
    <3>1. safe \in 0..safe /\ i - 1 = safe
      BY <1>l, <2>1
    <3> QED BY <1>h, <1>x, <2>1, <3>1
  <2>2. CASE i # safe + 1
    <3>1. i \in 1..safe /\ i \in 0..safe /\ i - 1 \in 0..safe
      BY <1>l, <2>2
    <3>2. b[i] = b[i - 1] + BodyOf[sent[i]] + 1
      BY <3>1 DEF Starts
    <3> QED BY <1>h, <1>x, <3>1, <3>2
  <2> QED BY <2>1, <2>2
<1>2. ASSUME NEW i \in 0..(safe + 1), NEW j \in 0..(safe + 1), i <= j
      PROVE  x[i] <= x[j]
  <2>1. \A m, n \in 0..safe : m <= n => b[m] <= b[n]
    BY DEF Starts
  <2>2. \/ i \in 0..safe /\ j \in 0..safe
        \/ i \in 0..safe /\ j = safe + 1
        \/ i = j
    BY <1>l, <1>2
  <2>3. CASE i \in 0..safe /\ j \in 0..safe
    BY <1>x, <1>2, <2>1, <2>3
  <2>4. CASE i \in 0..safe /\ j = safe + 1
    <3>1. safe \in 0..safe /\ i <= safe /\ i \in Nat
      BY <1>l, <2>4
    <3>2. b[i] <= b[safe]
      BY <2>1, <2>4, <3>1
    <3>3. b[i] \in Nat /\ b[safe] \in Nat
      BY <1>l, <3>1 DEF Starts
    <3>4. b[i] <= b[safe] + BodyOf[f] + 1
      BY <1>l, <3>2, <3>3
    <3> QED BY <1>x, <2>4, <3>4
  <2>5. CASE i = j
    <3>1. x[i] \in Nat
      <4>1. i \in Nat
        BY <1>l
      <4> QED BY <4>1 DEF NextBegins
    <3> QED BY <2>5, <3>1
  <2> QED BY <2>2, <2>3, <2>4, <2>5
<1>3. x \in [Nat -> Nat]
  BY DEF NextBegins
<1> QED BY <1>h, <1>1, <1>2, <1>3 DEF Starts

LEMMA InPlaceAgain ==
  ASSUME TypeOK, NEW b, Laid(b), NEW f \in Frames, NEW x, NextBegins(b, x, f),
         HandsOver(b, f)
  PROVE  InPlace(x)' /\ Owed(x)' = Owed(b) + BodyOf[f] + 1
<1>l. /\ safe \in Nat /\ Len(delivered) \in Nat /\ Len(Unread) \in Nat
      /\ BodyOf[f] \in Nat
  BY HistoryLengths, UnreadType, BodyAssumption
<1>h. /\ UNCHANGED delivered /\ safe' = safe + 1 /\ sent'[safe + 1] = f
      /\ \A i \in 1..safe : sent'[i] = sent[i]
      /\ \A p \in 1..Len(Unread) : Unread'[p] = Unread[p]
      /\ \A k \in 1..(BodyOf[f] + 1) : Unread'[Owed(b) + k] = UnitsOf(f)[k]
  BY DEF HandsOver
<1>x. /\ x[safe + 1] = b[safe] + BodyOf[f] + 1
      /\ \A i \in 0..safe : x[i] = b[i]
  BY DEF NextBegins
<1>d. Len(delivered) <= safe
  BY DEF Laid, PartOfNext, HandsOver
<1>o. Owed(b) \in Nat /\ b[safe] \in Nat /\ b[Len(delivered)] \in Nat
  BY <1>d, OwedType DEF Laid
<1>1. Len(Unread) >= Owed(b)
  BY <1>d DEF Laid, AllThere, HandsOver
<1>2. x[Len(delivered)] = b[Len(delivered)]
  <2>1. Len(delivered) \in 0..safe
    BY <1>l, <1>d
  <2> QED BY <1>x, <2>1
<1>3. Owed(x)' = Owed(b) + BodyOf[f] + 1
  <2>1. Owed(x)' = x[safe + 1] - x[Len(delivered)]
    BY <1>h DEF Owed
  <2>2. Owed(b) = b[safe] - b[Len(delivered)]
    BY DEF Owed
  <2> QED BY <1>l, <1>o, <1>x, <1>2, <2>1, <2>2
<1>4. ASSUME NEW i \in 1..(safe + 1), Len(delivered) < i,
             NEW k \in 1..(BodyOf[sent'[i]] + 1)
      PROVE  Unread'[x[i - 1] + k - b[Len(delivered)]] = UnitsOf(sent'[i])[k]
  <2>1. CASE i = safe + 1
    <3>1. safe \in 0..safe /\ i - 1 = safe
      BY <1>l, <2>1
    <3>2. x[i - 1] = b[safe] /\ sent'[i] = f
      BY <1>h, <1>x, <2>1, <3>1
    <3>3. k \in 1..(BodyOf[f] + 1) /\ k \in Nat
      BY <1>l, <3>2
    <3>4. b[safe] + k - b[Len(delivered)] = Owed(b) + k
      BY <1>o, <3>3 DEF Owed
    <3> QED BY <1>h, <3>2, <3>3, <3>4
  <2>2. CASE i # safe + 1
    <3>1. i \in 1..safe /\ i - 1 \in 0..safe
      BY <1>l, <2>2
    <3>2. sent'[i] = sent[i] /\ x[i - 1] = b[i - 1]
      BY <1>h, <1>x, <3>1
    <3>3. k \in 1..(BodyOf[sent[i]] + 1)
      BY <3>2
    <3>4. /\ b[i - 1] + k - b[Len(delivered)] \in Nat \ {0}
          /\ b[i - 1] + k - b[Len(delivered)] <= Owed(b)
      BY <1>4, <3>1, <3>3, Places DEF Laid
    <3>5. /\ b[i - 1] + k - b[Len(delivered)] \in 1..Len(Unread)
          /\ b[i - 1] + k - b[Len(delivered)] <= Len(Unread)
      BY <1>l, <1>o, <1>1, <3>4
    <3>6. Unread[b[i - 1] + k - b[Len(delivered)]] = UnitsOf(sent[i])[k]
      BY <1>4, <3>1, <3>3, <3>5 DEF Laid, InPlace
    <3> QED BY <1>h, <3>2, <3>5, <3>6
  <2> QED BY <2>1, <2>2
<1>5. InPlace(x)'
  <2> SUFFICES ASSUME NEW i \in 1..safe', Len(delivered') < i,
                      NEW k \in 1..(BodyOf[sent'[i]] + 1)
               PROVE  Unread'[x[i - 1] + k - x[Len(delivered')]] = UnitsOf(sent'[i])[k]
    BY DEF InPlace, UnitsOf
  <2> QED BY <1>h, <1>2, <1>4
<1> QED BY <1>3, <1>5

LEMMA HandedOver ==
  ASSUME TypeOK, TypeOK', NEW b, Laid(b), NEW f \in Frames, HandsOver(b, f)
  PROVE  \E x \in [Nat -> Nat] : Laid(x)'
<1>1. safe \in Nat /\ BodyOf[f] \in Nat /\ b \in [Nat -> Nat]
  BY HistoryLengths, BodyAssumption DEF Laid, Starts
<1>2. PICK x : NextBegins(b, x, f)
  BY <1>1, AnotherBeginning DEF NextBegins
<1>3. Starts(x)' /\ InPlace(x)' /\ Owed(x)' = Owed(b) + BodyOf[f] + 1
  BY <1>2, StartsAgain, InPlaceAgain DEF Laid
<1>4. Len(delivered) \in Nat /\ Len(delivered) <= safe
  BY HistoryLengths DEF Laid, PartOfNext, HandsOver
<1>5. Owed(b) \in Nat
  BY <1>4, OwedType DEF Laid
<1>6. Len(Unread') = Owed(x)' /\ Owed(x)' \in Nat
  BY <1>1, <1>3, <1>5 DEF HandsOver
<1>7. Len(delivered') <= safe' /\ safe' = Len(sent')
  BY <1>1, <1>4 DEF HandsOver
<1>8. AllThere(x)' /\ PartOfNext(x)' /\ OneWriter(x)'
  BY <1>6, <1>7 DEF AllThere, PartOfNext, OneWriter, HandsOver
<1> QED BY <1>2, <1>3, <1>8 DEF Laid, NextBegins

-------------------------------------------------------------------------------
(* Every step keeps the frames where they are *)

\* A piece goes behind what is there, as it is in the frames of its call if
\* their memory is not gone.
LEMMA PieceGoesBehind ==
  ASSUME TypeOK, NEW c \in Calls, NEW gone, Written(c, gone), UNCHANGED part
  PROVE  /\ Len(Unread') = Len(Unread) + Piece(c)
         /\ \A p \in 1..Len(Unread) : Unread'[p] = Unread[p]
         /\ gone = {} => \A k \in 1..Piece(c) :
              Unread'[Len(Unread) + k] = Content(c)[pos[c] + k]
<1>1. PICK kept \in BOOLEAN :
        stream' = stream \o [k \in 1..Piece(c) |->
                               IF kept \/ pos[c] + k \notin gone
                                 THEN Content(c)[pos[c] + k] ELSE Junk]
  BY DEF Written
<1> DEFINE x == [k \in 1..Piece(c) |-> IF kept \/ pos[c] + k \notin gone
                                         THEN Content(c)[pos[c] + k] ELSE Junk]
           u == UNION {{x[k] : k \in 1..Piece(c)}, Unit}
<1>2. Piece(c) \in Nat
  BY PieceBounds
<1>3. x \in [1..Piece(c) -> u]
  OBVIOUS
<1>4. x \in Seq(u) /\ Len(x) = Piece(c)
  BY <1>2, <1>3
<1>5. gone = {} => \A k \in 1..Piece(c) : x[k] = Content(c)[pos[c] + k]
  OBVIOUS
<1>6. stream' = stream \o x
  BY <1>1
<1>7. part \in Seq(u) /\ stream \in Seq(u)
  <2>1. part \in Seq(Unit) /\ stream \in Seq(Unit)
    BY UnreadType
  <2>2. Unit \subseteq u
    OBVIOUS
  <2> QED BY <2>1, <2>2
<1> HIDE DEF x, u
<1>8. /\ stream' \in Seq(u) /\ Len(stream') = Len(stream) + Piece(c)
      /\ \A p \in 1..(Len(stream) + Len(x)) :
           stream'[p] = IF p <= Len(stream) THEN stream[p] ELSE x[p - Len(stream)]
  BY <1>4, <1>6, <1>7, ConcatProperties
<1>9. /\ Len(Unread') = Len(part) + Len(stream')
      /\ \A p \in 1..(Len(part) + Len(stream')) :
           Unread'[p] = IF p <= Len(part) THEN part[p] ELSE stream'[p - Len(part)]
  <2>1. Unread' = part \o stream'
    BY DEF Unread
  <2> QED BY <1>7, <1>8, <2>1, ConcatProperties
<1>l. /\ Len(part) \in Nat /\ Len(stream) \in Nat
      /\ Len(Unread) = Len(part) + Len(stream)
      /\ \A p \in 1..Len(part) : Unread[p] = part[p]
      /\ \A p \in 1..Len(stream) : Unread[Len(part) + p] = stream[p]
  BY UnreadType
<1>10. ASSUME NEW p \in 1..Len(Unread) PROVE Unread'[p] = Unread[p]
  <2>0. p \in 1..(Len(part) + Len(stream'))
    BY <1>2, <1>8, <1>l
  <2>1. CASE p <= Len(part)
    <3>1. p \in 1..Len(part)
      BY <1>l, <2>1
    <3> QED BY <1>9, <1>l, <2>0, <2>1, <3>1
  <2>2. CASE ~(p <= Len(part))
    <3>1. p - Len(part) \in 1..Len(stream) /\ p = Len(part) + (p - Len(part))
      BY <1>l, <2>2
    <3>2. Unread[p] = stream[p - Len(part)]
      BY <1>l, <3>1
    <3>3. Unread'[p] = stream'[p - Len(part)]
      BY <1>9, <2>0, <2>2
    <3>4. stream'[p - Len(part)] = stream[p - Len(part)]
      BY <1>2, <1>4, <1>8, <1>l, <3>1
    <3> QED BY <3>2, <3>3, <3>4
  <2> QED BY <2>1, <2>2
<1>11. ASSUME NEW k \in 1..Piece(c) PROVE Unread'[Len(Unread) + k] = x[k]
  <2>1. Unread'[Len(Unread) + k] = stream'[Len(stream) + k]
    <3>1. /\ Len(Unread) + k \in 1..(Len(part) + Len(stream'))
          /\ ~(Len(Unread) + k <= Len(part))
          /\ Len(Unread) + k - Len(part) = Len(stream) + k
      BY <1>2, <1>8, <1>l
    <3> QED BY <1>9, <3>1
  <2>2. stream'[Len(stream) + k] = x[k]
    <3>1. /\ Len(stream) + k \in 1..(Len(stream) + Len(x))
          /\ ~(Len(stream) + k <= Len(stream))
          /\ Len(stream) + k - Len(stream) = k
      BY <1>2, <1>4, <1>l
    <3> QED BY <1>8, <3>1
  <2> QED BY <2>1, <2>2
<1>12. Len(Unread') = Len(Unread) + Piece(c)
  BY <1>2, <1>8, <1>9, <1>l
<1> QED BY <1>5, <1>10, <1>11, <1>12

\* The frames of a call are sent behind those that were.
LEMMA SentGrows ==
  ASSUME TypeOK, NEW c \in Calls, Accounts(c)
  PROVE  /\ Len(sent') = Len(sent) + Len(frames[c])
         /\ Len(frames[c]) \in {1, 2} /\ frames[c][1] \in Frames
         /\ \A i \in 1..Len(sent) : sent'[i] = sent[i]
         /\ sent'[Len(sent) + 1] = frames[c][1]
         /\ ~spoiled' => ~spoiled
         /\ safe' # safe => ~spoiled'
         /\ spoiled' => safe' = safe
<1>1. /\ frames[c] \in Seq(Frames) /\ sent \in Seq(Frames)
      /\ Len(frames[c]) = 1 \/ Len(frames[c]) = 2
  BY OffersAssumption DEF TypeOK
<1>2. sent' = sent \o frames[c]
  BY DEF Accounts
<1>3. /\ Len(sent') = Len(sent) + Len(frames[c])
      /\ \A i \in 1..(Len(sent) + Len(frames[c])) :
           sent'[i] = IF i <= Len(sent) THEN sent[i] ELSE frames[c][i - Len(sent)]
  BY <1>1, <1>2, ConcatProperties
<1>4. Len(sent) \in Nat /\ Len(frames[c]) \in {1, 2} /\ frames[c][1] \in Frames
  BY <1>1
<1>5. \A i \in 1..Len(sent) : sent'[i] = sent[i]
  BY <1>3, <1>4
<1>6. sent'[Len(sent) + 1] = frames[c][1]
  BY <1>3, <1>4
<1>7. (~spoiled' => ~spoiled) /\ (safe' # safe => ~spoiled') /\ (spoiled' => safe' = safe)
  BY DEF Accounts
<1> QED BY <1>3, <1>4, <1>5, <1>6, <1>7

LEMMA BeginningsOf ==
  ASSUME NEW b, Laid(b)'
  PROVE  \E x \in [Nat -> Nat] : Laid(x)'
BY DEF Laid, Starts

\* While nothing is spoiled a call that is alone finds nothing behind what was
\* handed over.
LEMMA NobodyWrites ==
  ASSUME TypeOK, Progress, NEW b, Laid(b), ~spoiled, conn = "up", InProgress = {}
  PROVE  safe = Len(sent) /\ Len(Unread) = Owed(b) /\ \A e \in Calls : stage[e] # "sync"
<1>1. \A e \in Calls : stage[e] # "sync"
  BY DEF Progress, InProgress
<1> QED BY <1>1 DEF Laid, OneWriter

\* A call that begins: in the history, and for the reader.
LEMMA CallBegins ==
  ASSUME TypeOK, TypeOK', NEW c \in Calls, Accounts(c),
         UNCHANGED <<conn, delivered>>,
         Len(Unread') >= Len(Unread), Len(Unread') > Len(Unread) => conn = "up",
         \A p \in 1..Len(Unread) : Unread'[p] = Unread[p],
         safe' = safe
  PROVE  Continues
<1>1. /\ Len(sent) \in Nat /\ Len(Unread) \in Nat /\ Len(Unread') \in Nat
  BY HistoryLengths, UnreadType
<1>2. /\ Len(sent') >= Len(sent) /\ \A i \in 1..Len(sent) : sent'[i] = sent[i]
      /\ ~spoiled' => ~spoiled
  BY <1>1, SentGrows
<1> QED BY <1>1, <1>2 DEF Continues

LEMMA SendAsyncLays ==
  ASSUME TypeOK, TypeOK', Progress, NEW b, Laid(b), NEW c \in Calls, SendAsync(c)
  PROVE  \E x \in [Nat -> Nat] : Laid(x)'
<1>1. /\ ModeOf[c] = "async" /\ stage[c] = "idle" /\ WriteSome(c, {}) /\ Accounts(c)
      /\ UNCHANGED <<conn, frames, part, delivered>>
  BY DEF SendAsync, readVars
<1>l. /\ Len(sent) \in Nat /\ Len(Unread) \in Nat /\ safe \in Nat
  BY HistoryLengths, UnreadType
<1>2. \/ UNCHANGED <<pos, stream>>
      \/ conn = "up" /\ Written(c, {}) /\ Goes(c, "posted") /\ UNCHANGED opq
  BY <1>1 DEF WriteSome
<1>3. /\ Len(Unread') >= Len(Unread) /\ (Len(Unread') > Len(Unread) => conn = "up")
      /\ \A p \in 1..Len(Unread) : Unread'[p] = Unread[p]
  <2>1. CASE UNCHANGED <<pos, stream>>
    <3>1. Unread' = Unread
      BY <1>1, <2>1 DEF Unread
    <3> QED BY <1>l, <3>1
  <2>2. CASE conn = "up" /\ Written(c, {})
    <3>1. Piece(c) \in Nat
      BY PieceBounds
    <3> QED BY <1>1, <1>l, <2>2, <3>1, PieceGoesBehind
  <2> QED BY <1>2, <2>1, <2>2
<1>4. CASE spoiled'
  <2>1. safe' = safe
    BY <1>1, <1>4, SentGrows
  <2>2. Continues
    BY <1>1, <1>3, <2>1, CallBegins
  <2>3. OneWriter(b)'
    BY <1>4 DEF OneWriter
  <2> QED BY <1>4, <2>2, <2>3, LaidStays, BeginningsOf
<1>5. CASE ~spoiled'
  <2>1. /\ ~spoiled /\ InProgress = {} /\ Len(frames[c]) = 1
        /\ pos'[c] = Len(Content(c)) /\ safe' = Len(sent')
    BY <1>1, <1>5 DEF Accounts
  <2>2. pos[c] = 0 /\ Len(Content(c)) \in Nat \ {0}
    BY <1>1, ContentType DEF Progress, TypeOK
  <2>3. conn = "up" /\ Written(c, {}) /\ Goes(c, "posted") /\ UNCHANGED opq
    BY <1>2, <2>1, <2>2
  <2>4. safe = Len(sent) /\ Len(Unread) = Owed(b) /\ \A e \in Calls : stage[e] # "sync"
    BY <2>1, <2>3, NobodyWrites
  <2>5. Piece(c) = Len(Content(c))
    <3>1. pos'[c] = pos[c] + Piece(c) /\ Piece(c) \in Nat
      BY <2>3, WrittenType, PieceBounds
    <3> QED BY <2>1, <2>2, <3>1
  <2>6. PICK f \in Frames : f = frames[c][1]
    BY <1>1, SentGrows
  <2>7. Content(c) = UnitsOf(f) /\ Len(Content(c)) = BodyOf[f] + 1 /\ BodyOf[f] \in Nat
    BY <2>1, <2>6, UnitsType, BodyAssumption DEF Content
  <2>8. /\ Len(sent') = safe + 1 /\ sent'[safe + 1] = f
        /\ \A i \in 1..safe : sent'[i] = sent[i]
    BY <1>1, <2>1, <2>4, <2>6, SentGrows
  <2>9. /\ Len(Unread') = Owed(b) + BodyOf[f] + 1
        /\ \A k \in 1..(BodyOf[f] + 1) : Unread'[Owed(b) + k] = UnitsOf(f)[k]
    <3>1. /\ Len(Unread') = Len(Unread) + Piece(c)
          /\ \A k \in 1..Piece(c) : Unread'[Len(Unread) + k] = Content(c)[pos[c] + k]
      BY <1>1, <2>3, PieceGoesBehind
    <3>2. \A k \in 1..Piece(c) : pos[c] + k = k
      BY <2>2, <2>5
    <3>3. \A k \in 1..(BodyOf[f] + 1) : Unread'[Owed(b) + k] = UnitsOf(f)[k]
      BY <2>4, <2>5, <2>7, <3>1, <3>2
    <3>4. Len(Unread') = Owed(b) + BodyOf[f] + 1
      BY <1>l, <2>4, <2>5, <2>7, <3>1
    <3> QED BY <3>3, <3>4
  <2>10. opq' = <<>>
    BY <2>1, <2>3 DEF Laid, OneWriter
  <2>11. ASSUME NEW e \in Calls
         PROVE  stage'[e] # "sync" /\ (stage'[e] = "posted" => Left(e)' = 0)
    <3>1. CASE e = c
      <4>1. stage'[c] = "posted"
        BY <2>3 DEF Goes, TypeOK
      <4>2. Left(c)' = 0
        BY <1>1, <2>1, <2>2 DEF Left, Content
      <4> QED BY <3>1, <4>1, <4>2
    <3>2. CASE e # c
      <4>1. stage'[e] = stage[e] /\ pos'[e] = pos[e]
        <5>1. stage'[e] = stage[e]
          BY <2>3, <3>2 DEF Goes, TypeOK
        <5>2. pos'[e] = pos[e]
          BY <2>3, <3>2, WrittenType
        <5> QED BY <5>1, <5>2
      <4>2. stage[e] = "posted" => Left(e) = 0
        BY <2>1, <2>3 DEF Laid, OneWriter
      <4>3. Left(e)' = Left(e)
        BY <1>1, <4>1 DEF Left, Content
      <4> QED BY <2>4, <4>1, <4>2, <4>3
    <3> QED BY <3>1, <3>2
  <2>12. HandsOver(b, f)
    BY <1>1, <1>3, <2>1, <2>3, <2>8, <2>9, <2>10, <2>11 DEF HandsOver
  <2> QED BY <2>12, HandedOver
<1> QED BY <1>4, <1>5

LEMMA SendSyncLays ==
  ASSUME TypeOK, TypeOK', Progress, NEW b, Laid(b), NEW c \in Calls, SendSync(c)
  PROVE  Laid(b)'
<1>1. /\ stage[c] = "idle" /\ Goes(c, "sync") /\ Accounts(c)
      /\ UNCHANGED <<conn, frames, pos, opq, stream, part, delivered>>
  BY DEF SendSync, readVars
<1>l. /\ Len(sent) \in Nat /\ Len(Unread) \in Nat /\ safe \in Nat
  BY HistoryLengths, UnreadType
<1>2. Unread' = Unread
  BY <1>1 DEF Unread
<1>3. safe' = safe
  <2>1. pos'[c] # Len(Content(c))
    BY <1>1, ContentType DEF Progress, TypeOK
  <2> QED BY <1>1, <2>1 DEF Accounts
<1>4. Continues
  BY <1>1, <1>l, <1>2, <1>3, CallBegins
<1>5. OneWriter(b)'
  <2>1. CASE spoiled' \/ conn # "up"
    BY <1>1, <2>1 DEF OneWriter
  <2>2. CASE ~spoiled' /\ conn = "up"
    <3>1. ~spoiled /\ InProgress = {} /\ Len(frames[c]) = 1
      BY <1>1, <2>2 DEF Accounts
    <3>2. safe = Len(sent) /\ Len(Unread) = Owed(b) /\ \A e \in Calls : stage[e] # "sync"
      BY <2>2, <3>1, NobodyWrites
    <3>3. /\ stage'[c] = "sync"
          /\ \A e \in Calls : e # c => stage'[e] = stage[e]
      BY <1>1 DEF Goes, TypeOK
    <3>4. Owed(b)' = Owed(b)
      BY <1>1, <1>3 DEF Owed
    <3>5. Len(sent') = safe + 1 /\ sent'[safe + 1] = frames[c][1]
      BY <1>1, <3>1, <3>2, SentGrows
    <3>6. Len(Unread) = Owed(b) + pos[c]
      BY <1>1, <1>l, <3>2 DEF Progress
    <3>7. \A e \in Calls : Left(e)' = Left(e)
      BY <1>1 DEF Left, Content
    <3>8. Blocked(b, c)'
      BY <1>1, <1>2, <1>3, <3>1, <3>2, <3>3, <3>4, <3>5, <3>6 DEF Blocked
    <3>9. opq = <<>> /\ \A e \in Calls : stage[e] = "posted" => Left(e) = 0
      BY <2>2, <3>1 DEF Laid, OneWriter
    <3>10. ASSUME NEW e \in Calls
           PROVE  /\ stage'[e] = "posted" => Left(e)' = 0
                  /\ stage'[e] = "sync" => Blocked(b, e)'
      <4>1. CASE e = c
        BY <3>3, <3>8, <4>1
      <4>2. CASE e # c
        BY <3>2, <3>3, <3>7, <3>9, <4>2
      <4> QED BY <4>1, <4>2
    <3> QED BY <1>1, <3>3, <3>9, <3>10 DEF OneWriter
  <2> QED BY <2>1, <2>2
<1> QED BY <1>l, <1>2, <1>4, <1>5, LaidStays

\* A step that writes nothing and of which no call begins.
Quiet ==
  /\ UNCHANGED <<safe, delivered, sent, spoiled, pos, frames>>
  /\ Unread' = Unread /\ conn' = conn

LEMMA QuietLays ==
  ASSUME TypeOK, TypeOK', NEW b, Laid(b), Quiet, OneWriter(b)'
  PROVE  Laid(b)'
<1>1. Len(Unread) \in Nat /\ Len(sent) \in Nat
  BY HistoryLengths, UnreadType
<1>2. Continues /\ Len(Unread') <= Len(Unread)
  BY <1>1 DEF Quiet, Continues
<1> QED BY <1>2, LaidStays

\* Once something is spoiled what is written does not matter.
LEMMA SpoiledWriteLays ==
  ASSUME TypeOK, TypeOK', NEW b, Laid(b), spoiled, conn = "up",
         NEW c \in Calls, NEW gone, Written(c, gone),
         UNCHANGED <<conn, part, sent, spoiled, safe, delivered>>
  PROVE  Laid(b)'
<1>1. Piece(c) \in Nat /\ Len(Unread) \in Nat /\ Len(sent) \in Nat
  BY PieceBounds, HistoryLengths, UnreadType
<1>2. /\ Len(Unread') = Len(Unread) + Piece(c)
      /\ \A p \in 1..Len(Unread) : Unread'[p] = Unread[p]
  BY PieceGoesBehind
<1>3. Len(Unread') >= Len(Unread)
  BY <1>1, <1>2
<1>4. Continues
  BY <1>1, <1>2, <1>3 DEF Continues
<1>5. OneWriter(b)'
  BY DEF OneWriter
<1> QED BY <1>4, <1>5, LaidStays

\* A call that ends, or a piece that comes to the end of the queue, where
\* nothing is spoiled: the others are what they were.
LEMMA EndLays ==
  ASSUME TypeOK, TypeOK', NEW b, Laid(b), Quiet, NEW c \in Calls, UNCHANGED opq,
         NEW to \in {"done", "failed"}, Goes(c, to), stage[c] = "posted" \/ conn # "up"
  PROVE  Laid(b)'
<1>q. UNCHANGED <<safe, delivered, sent, spoiled, pos, frames, conn>> /\ Unread' = Unread
  BY DEF Quiet
<1>1. CASE spoiled \/ conn # "up"
  <2>1. OneWriter(b)'
    BY <1>q, <1>1 DEF OneWriter
  <2> QED BY <2>1, QuietLays
<1>2. CASE ~spoiled /\ conn = "up"
  <2>1. /\ opq = <<>>
        /\ \A e \in Calls : /\ stage[e] = "posted" => Left(e) = 0
                            /\ stage[e] = "sync" => Blocked(b, e)
        /\ (\A e \in Calls : stage[e] # "sync") =>
             safe = Len(sent) /\ Len(Unread) = Owed(b)
    BY <1>2 DEF Laid, OneWriter
  <2>2. /\ stage'[c] \in {"done", "failed"} /\ stage[c] = "posted"
        /\ \A e \in Calls : e # c => stage'[e] = stage[e]
    BY <1>2 DEF Goes, TypeOK
  <2>3. Owed(b)' = Owed(b) /\ \A e \in Calls : Left(e)' = Left(e)
    BY <1>q DEF Owed, Left, Content
  <2>4. \A e \in Calls : stage'[e] = "sync" <=> stage[e] = "sync"
    BY <2>2
  <2>5. \A e \in Calls : stage[e] = "sync" => Blocked(b, e)'
    BY <1>q, <2>1, <2>3, <2>4 DEF Blocked
  <2>6. \A e \in Calls : stage'[e] = "posted" => Left(e)' = 0
    BY <2>1, <2>2, <2>3
  <2>7. OneWriter(b)'
    BY <1>q, <2>1, <2>3, <2>4, <2>5, <2>6 DEF OneWriter
  <2> QED BY <2>7, QuietLays
<1> QED BY <1>1, <1>2

LEMMA OnPieceLays ==
  ASSUME TypeOK, TypeOK', NEW b, Laid(b), NEW c \in Calls, OnPiece(c)
  PROVE  Laid(b)'
<1>1. /\ stage[c] = "posted"
      /\ UNCHANGED <<conn, frames, part, sent, safe, spoiled, delivered>>
  BY DEF OnPiece, readVars, history
<1>2. CASE /\ Goes(c, "done") \/ Goes(c, "failed")
           /\ UNCHANGED <<pos, opq, speculative, stream>>
  <2>1. Quiet
    BY <1>1, <1>2 DEF Quiet, Unread
  <2> QED BY <1>1, <1>2, <2>1, EndLays
<1>3. CASE Left(c) > 0 /\ conn = "up" /\ WriteSome(c, DOMAIN Content(c))
  <2>1. spoiled
    <3>1. Left(c) # 0
      BY <1>3, PieceBounds
    <3> QED BY <1>1, <1>3, <3>1 DEF Laid, OneWriter
  <2>2. CASE Written(c, DOMAIN Content(c))
    BY <1>1, <1>3, <2>1, <2>2, SpoiledWriteLays
  <2>3. CASE UNCHANGED <<pos, stream>>
    <3>1. Quiet
      BY <1>1, <2>3 DEF Quiet, Unread
    <3>2. OneWriter(b)'
      BY <1>1, <2>1 DEF OneWriter
    <3> QED BY <3>1, <3>2, QuietLays
  <2> QED BY <1>3, <2>2, <2>3 DEF WriteSome
<1> QED BY <1>2, <1>3 DEF OnPiece

LEMMA ReactorLays ==
  ASSUME TypeOK, TypeOK', NEW b, Laid(b), ReactorWrites
  PROVE  Laid(b)'
<1>1. UNCHANGED <<conn, frames, part, sent, safe, spoiled, delivered>>
  BY DEF ReactorWrites, readVars, history
<1>2. CASE opq = <<>>
  <2>1. UNCHANGED <<stage, pos, opq, stream>>
    BY <1>2 DEF ReactorWrites
  <2>2. Quiet
    BY <1>1, <2>1 DEF Quiet, Unread
  <2>3. OneWriter(b)'
    <3>1. OneWriter(b)
      BY DEF Laid
    <3> QED BY <1>1, <2>1, <3>1 DEF OneWriter, Blocked, Owed, Unread, Left, Content
  <2> QED BY <2>2, <2>3, QuietLays
<1>3. CASE opq # <<>>
  <2>1. spoiled \/ conn # "up"
    BY <1>3 DEF Laid, OneWriter
  <2>2. PICK c \in Calls : c = Head(opq)
    <3>1. opq \in Seq(Calls)
      BY DEF TypeOK
    <3> QED BY <1>3, <3>1
  <2>3. CASE conn = "up"
    <3>1. Written(c, DOMAIN Content(c))
      BY <1>3, <2>2, <2>3 DEF ReactorWrites
    <3> QED BY <1>1, <2>1, <2>3, <3>1, SpoiledWriteLays
  <2>4. CASE conn # "up"
    <3>1. UNCHANGED <<pos, stream>>
      BY <1>3, <2>4 DEF ReactorWrites
    <3>2. Quiet
      BY <1>1, <3>1 DEF Quiet, Unread
    <3>3. OneWriter(b)'
      BY <1>1, <2>4 DEF OneWriter
    <3> QED BY <3>2, <3>3, QuietLays
  <2> QED BY <2>3, <2>4
<1> QED BY <1>2, <1>3

\* The caller that is blocked writes its frame on, and hands it over with the
\* last piece.
LEMMA SyncWritesLays ==
  ASSUME TypeOK, TypeOK', NEW b, Laid(b), NEW c \in Calls, SyncWrites(c)
  PROVE  \E x \in [Nat -> Nat] : Laid(x)'
<1>1. /\ stage[c] = "sync"
      /\ UNCHANGED <<conn, frames, opq, part, sent, spoiled, delivered>>
  BY DEF SyncWrites, readVars
<1>2. CASE conn # "up"
  <2>1. UNCHANGED <<pos, stream, safe>> /\ Goes(c, "failed")
    BY <1>2 DEF SyncWrites
  <2>2. Quiet
    BY <1>1, <2>1 DEF Quiet, Unread
  <2> QED BY <1>1, <1>2, <2>1, <2>2, EndLays, BeginningsOf
<1>3. PICK gone \in {{}, {1}} : conn = "up" => /\ Written(c, gone)
                                               /\ Len(frames[c]) # 2 => gone = {}
  BY DEF SyncWrites
<1>4. CASE conn = "up" /\ spoiled
  <2>1. safe' = safe
    BY <1>4 DEF SyncWrites
  <2> QED BY <1>1, <1>3, <1>4, <2>1, SpoiledWriteLays, BeginningsOf
<1>5. CASE conn = "up" /\ ~spoiled
  <2>1. Blocked(b, c) /\ opq = <<>>
        /\ \A e \in Calls : stage[e] = "posted" => Left(e) = 0
    BY <1>1, <1>5 DEF Laid, OneWriter
  <2>2. Written(c, {})
    <3>1. Written(c, gone) /\ (Len(frames[c]) # 2 => gone = {})
      BY <1>3, <1>5
    <3>2. Len(frames[c]) = 1
      BY <2>1 DEF Blocked
    <3>3. gone = {}
      BY <3>1, <3>2
    <3> QED BY <3>1, <3>3
  <2>3. PICK f \in Frames : f = frames[c][1]
    <3>1. frames[c] \in Seq(Frames) /\ Len(frames[c]) = 1
      BY <2>1, ContentType DEF Blocked, TypeOK
    <3> QED BY <3>1
  <2>4. /\ Content(c) = UnitsOf(f) /\ Len(Content(c)) = BodyOf[f] + 1
        /\ BodyOf[f] \in Nat
    BY <2>1, <2>3, UnitsType, BodyAssumption DEF Content, Blocked
  <2>5. /\ Len(sent) = safe + 1 /\ sent[safe + 1] = f
        /\ Len(Unread) = Owed(b) + pos[c]
        /\ \A e \in Calls : stage[e] = "sync" => e = c
    BY <2>1, <2>3 DEF Blocked
  <2>6. /\ Piece(c) \in Nat /\ pos[c] \in Nat /\ pos'[c] = pos[c] + Piece(c)
        /\ pos'[c] <= BodyOf[f] + 1
        /\ Len(Unread) \in Nat /\ safe \in Nat /\ Len(sent) \in Nat
        /\ \A e \in Calls : e # c => pos'[e] = pos[e]
    BY <2>2, <2>4, WrittenType, PieceBounds, HistoryLengths, UnreadType
  <2>7. Len(delivered) <= safe /\ Owed(b) \in Nat
    BY <1>5, OwedType DEF Laid, PartOfNext
  <2>8. /\ Len(Unread') = Owed(b) + pos'[c]
        /\ \A p \in 1..Len(Unread) : Unread'[p] = Unread[p]
        /\ \A k \in 1..Piece(c) : Unread'[Len(Unread) + k] = UnitsOf(f)[pos[c] + k]
    <3>1. /\ Len(Unread') = Len(Unread) + Piece(c)
          /\ \A p \in 1..Len(Unread) : Unread'[p] = Unread[p]
          /\ \A k \in 1..Piece(c) : Unread'[Len(Unread) + k] = UnitsOf(f)[pos[c] + k]
      BY <1>1, <2>2, <2>4, PieceGoesBehind
    <3>2. Len(Unread') = Owed(b) + pos'[c]
      BY <2>5, <2>6, <2>7, <3>1
    <3> QED BY <3>1, <3>2
  <2>n. /\ Piece(c) \in Nat /\ pos[c] \in Nat /\ pos'[c] = pos[c] + Piece(c)
        /\ Len(Unread) = Owed(b) + pos[c] /\ Owed(b) \in Nat
    BY <2>5, <2>6, <2>7
  <2>9. ASSUME NEW k \in 1..pos'[c] PROVE Unread'[Owed(b) + k] = UnitsOf(f)[k]
    <3>1. CASE k <= pos[c]
      <4>1. PICK q \in (Owed(b) + 1)..Len(Unread) : q = Owed(b) + k
        BY <2>n, <3>1
      <4>2. q \in 1..Len(Unread) /\ q - Owed(b) = k /\ Len(Unread) > Owed(b)
        BY <2>n, <3>1, <4>1
      <4>3. \A p \in (Owed(b) + 1)..Len(Unread) :
              Unread[p] = UnitsOf(sent[safe + 1])[p - Owed(b)]
        BY <1>5, <4>2 DEF Laid, PartOfNext
      <4>4. Unread[q] = UnitsOf(f)[k]
        BY <2>5, <4>3, <4>2
      <4> QED BY <2>8, <4>1, <4>4, <4>2
    <3>2. CASE ~(k <= pos[c])
      <4>1. /\ k - pos[c] \in 1..Piece(c)
            /\ Len(Unread) + (k - pos[c]) = Owed(b) + k
            /\ pos[c] + (k - pos[c]) = k
        BY <2>n, <3>2
      <4>2. Unread'[Len(Unread) + (k - pos[c])] = UnitsOf(f)[pos[c] + (k - pos[c])]
        BY <2>8, <4>1
      <4> QED BY <4>1, <4>2
    <3> QED BY <3>1, <3>2
  <2>10. CASE pos'[c] = Len(Content(c))
    <3>1. safe' = safe + 1 /\ Goes(c, "done")
      BY <1>5, <2>5, <2>10 DEF SyncWrites
    <3>2. ASSUME NEW e \in Calls
          PROVE  stage'[e] # "sync" /\ (stage'[e] = "posted" => Left(e)' = 0)
      <4>1. CASE e = c
        BY <3>1, <4>1 DEF Goes, TypeOK
      <4>2. CASE e # c
        <5>1. stage'[e] = stage[e]
          BY <3>1, <4>2 DEF Goes, TypeOK
        <5>2. Left(e)' = Left(e)
          BY <1>1, <2>6, <4>2 DEF Left, Content
        <5> QED BY <2>1, <2>5, <4>2, <5>1, <5>2
      <4> QED BY <4>1, <4>2
    <3>3. /\ Len(Unread') = Owed(b) + BodyOf[f] + 1
          /\ \A k \in 1..(BodyOf[f] + 1) : Unread'[Owed(b) + k] = UnitsOf(f)[k]
      <4>1. Owed(b) + pos'[c] = Owed(b) + BodyOf[f] + 1
        BY <2>4, <2>7, <2>10
      <4>2. pos'[c] = BodyOf[f] + 1
        BY <2>4, <2>10
      <4> QED BY <2>8, <2>9, <4>1, <4>2
    <3>4. HandsOver(b, f)
      BY <1>1, <1>5, <2>1, <2>5, <2>8, <3>1, <3>2, <3>3 DEF HandsOver
    <3> QED BY <3>4, HandedOver
  <2>11. CASE pos'[c] # Len(Content(c))
    <3>1. safe' = safe /\ Goes(c, "sync")
      BY <1>5, <2>11 DEF SyncWrites
    <3>2. stage' = stage
      BY <1>1, <3>1 DEF Goes, TypeOK
    <3>3. Continues
      <4>1. Len(Unread') >= Len(Unread)
        BY <2>5, <2>6, <2>7, <2>8
      <4> QED BY <1>1, <1>5, <2>6, <2>8, <3>1, <4>1 DEF Continues
    <3>4. Starts(b)' /\ InPlace(b)' /\ AllThere(b)' /\ Owed(b)' = Owed(b)
      BY <3>3, StaysInPlace
    <3>5. pos'[c] <= BodyOf[f] /\ pos'[c] \in Nat
      BY <2>4, <2>6, <2>11
    <3>6. ASSUME NEW p \in (Owed(b) + 1)..Len(Unread')
          PROVE  Unread'[p] = UnitsOf(f)[p - Owed(b)]
      <4>1. p - Owed(b) \in 1..pos'[c] /\ Owed(b) + (p - Owed(b)) = p
        BY <2>7, <2>8, <3>5
      <4>2. Unread'[Owed(b) + (p - Owed(b))] = UnitsOf(f)[p - Owed(b)]
        BY <2>9, <4>1
      <4> QED BY <4>1, <4>2
    <3>7. Len(Unread') - Owed(b) <= BodyOf[f]
      BY <2>7, <2>8, <3>5
    <3>8. PartOfNext(b)'
      <4>1. /\ Len(delivered) <= safe /\ safe < Len(sent) /\ sent[safe + 1] = f
        BY <2>5, <2>6, <2>7
      <4> QED BY <1>1, <3>1, <3>4, <3>6, <3>7, <4>1 DEF PartOfNext, UnitsOf
    <3>9. Blocked(b, c)'
      BY <1>1, <2>1, <2>5, <2>8, <3>1, <3>2, <3>4 DEF Blocked
    <3>10. \A e \in Calls : stage[e] = "posted" => Left(e)' = 0
      <4>1. ASSUME NEW e \in Calls, stage[e] = "posted" PROVE Left(e)' = 0
        <5>1. e # c
          BY <1>1, <4>1
        <5>2. Left(e)' = Left(e)
          BY <1>1, <2>6, <5>1 DEF Left, Content
        <5> QED BY <2>1, <4>1, <5>2
      <4> QED BY <4>1
    <3>11. \A e \in Calls : stage[e] = "sync" => Blocked(b, e)'
      BY <2>5, <3>9
    <3>12. OneWriter(b)'
      BY <1>1, <2>1, <3>2, <3>10, <3>11 DEF OneWriter
    <3> QED BY <3>4, <3>8, <3>12, BeginningsOf DEF Laid
  <2> QED BY <2>10, <2>11
<1> QED BY <1>2, <1>4, <1>5

\* A connection that goes takes with it at most what is not read.
LEMMA DisconnectLays ==
  ASSUME TypeOK, TypeOK', NEW b, Laid(b), WriterDisconnects \/ ReaderDisconnects
  PROVE  Laid(b)'
<1>1. /\ UNCHANGED <<part, sent, safe, spoiled, delivered>> /\ conn' # "up"
      /\ stream' = stream \/ stream' = <<>>
  BY DEF WriterDisconnects, ReaderDisconnects, readVars, history
<1>l. /\ Len(sent) \in Nat /\ Len(Unread) \in Nat /\ Len(part) \in Nat
      /\ Len(part) <= Len(Unread)
      /\ \A p \in 1..Len(part) : Unread[p] = part[p]
  BY HistoryLengths, UnreadType
<1>2. /\ Len(Unread') <= Len(Unread)
      /\ \A p \in 1..Len(Unread) : p <= Len(Unread') => Unread'[p] = Unread[p]
  <2>1. CASE stream' = stream
    <3>1. Unread' = Unread
      BY <1>1, <2>1 DEF Unread
    <3> QED BY <1>l, <3>1
  <2>2. CASE stream' = <<>>
    <3>1. Unread' = part \o <<>> /\ part \in Seq(Unit)
      BY <1>1, <2>2, UnreadType DEF Unread
    <3>2. Unread' = part
      BY <3>1
    <3> QED BY <1>l, <3>2
  <2> QED BY <1>1, <2>1, <2>2
<1>3. Len(Unread') \in Nat
  BY UnreadType
<1>4. Continues
  BY <1>1, <1>2, <1>3, <1>l DEF Continues
<1>5. OneWriter(b)'
  BY <1>1 DEF OneWriter
<1> QED BY <1>2, <1>4, <1>5, LaidStays

\* Where nothing is delivered, reading moves units and leaves their order.
LEMMA ReadingMoves ==
  ASSUME TypeOK, ReadLength \/ ReadBody
  PROVE  Unread' = Unread
<1>t. part \in Seq(Unit) /\ stream \in Seq(Unit) /\ Len(stream) \in Nat /\ Len(part) \in Nat
  BY UnreadType
<1>1. CASE ReadLength
  <2>1. part = <<>> /\ part' = <<Head(stream)>> /\ stream' = Tail(stream) /\ stream # <<>>
    BY <1>1 DEF ReadLength, TypeOK
  <2>2. <<Head(stream)>> \o Tail(stream) = stream
    BY <1>t, <2>1
  <2>3. <<>> \o stream = stream
    BY <1>t
  <2> QED BY <2>1, <2>2, <2>3 DEF Unread
<1>2. CASE ReadBody
  <2>1. PICK k \in Nat : /\ k <= Len(stream)
                         /\ part' = part \o SubSeq(stream, 1, k)
                         /\ stream' = SubSeq(stream, k + 1, Len(stream))
    <3>1. /\ Len(part) - 1 < need /\ need \in Nat
          /\ LET k == Least(Len(stream), need - (Len(part) - 1))
             IN  /\ part' = part \o SubSeq(stream, 1, k)
                 /\ stream' = SubSeq(stream, k + 1, Len(stream))
      BY <1>2 DEF ReadBody, TypeOK
    <3>2. /\ Least(Len(stream), need - (Len(part) - 1)) \in Nat
          /\ Least(Len(stream), need - (Len(part) - 1)) <= Len(stream)
      BY <1>t, <3>1 DEF Least
    <3> QED BY <3>1, <3>2
  <2> DEFINE x == SubSeq(stream, 1, k)
             y == SubSeq(stream, k + 1, Len(stream))
  <2>2. x \o y = stream
    <3>1. /\ 1 \in 1..(Len(stream) + 1) /\ k \in (1 - 1)..Len(stream)
          /\ Len(stream) \in k..Len(stream)
      BY <1>t, <2>1
    <3>2. x \o y = SubSeq(stream, 1, Len(stream))
      BY <1>t, <3>1, ConcatAdjacentSubSeq
    <3> QED BY <1>t, <3>2, SubSeqFull
  <2>3. x \in Seq(Unit) /\ y \in Seq(Unit)
    <3>1. /\ \A i \in 1..k : stream[i] \in Unit
          /\ \A i \in (k + 1)..Len(stream) : stream[i] \in Unit
      BY <1>t, <2>1
    <3> QED BY <1>t, <3>1, SubSeqProperties
  <2> HIDE DEF x, y
  <2>4. (part \o x) \o y = part \o (x \o y)
    BY <1>t, <2>3, ConcatAssociative
  <2>5. Unread' = (part \o x) \o y
    BY <2>1 DEF Unread, x, y
  <2> QED BY <2>2, <2>4, <2>5 DEF Unread
<1> QED BY <1>1, <1>2

\* What is delivered is the next of the frames that were handed over; behind
\* the last of them no whole frame is there unless the channel is spoiled.
LEMMA NextIsWhole ==
  ASSUME TypeOK, NEW b, Laid(b), NeedFits, rcv = "body", Len(part) - 1 = need
  PROVE  /\ Len(delivered) < safe =>
              /\ Len(delivered) + 1 \in 1..Len(sent)
              /\ part = UnitsOf(sent[Len(delivered) + 1])
              /\ Len(part) = BodyOf[sent[Len(delivered) + 1]] + 1
         /\ Len(delivered) >= safe => spoiled
<1>l. /\ Len(delivered) \in Nat /\ safe \in Nat /\ Len(sent) \in Nat /\ safe <= Len(sent)
      /\ Len(part) \in Nat /\ Len(part) <= Len(Unread) /\ Len(Unread) \in Nat
      /\ part \in Seq(Unit) /\ need \in Nat
      /\ \A p \in 1..Len(part) : Unread[p] = part[p]
  BY HistoryLengths, UnreadType DEF TypeOK
<1>1. ASSUME Len(delivered) < safe
      PROVE  /\ Len(delivered) + 1 \in 1..Len(sent)
             /\ part = UnitsOf(sent[Len(delivered) + 1])
             /\ Len(part) = BodyOf[sent[Len(delivered) + 1]] + 1
  <2>1. PICK i \in 1..safe : i = Len(delivered) + 1
    BY <1>1, <1>l
  <2>2. i \in 1..Len(sent) /\ Len(delivered) < i /\ i - 1 = Len(delivered)
    BY <1>l, <2>1
  <2>3. need = BodyOf[sent[i]]
    BY <1>1, <2>1 DEF NeedFits
  <2>4. sent[i] \in Frames
    BY <2>2, HistoryLengths
  <2>5. b[Len(delivered)] \in Nat
    BY <1>1, OwedType, <1>l DEF Laid
  <2>6. ASSUME NEW k \in 1..Len(part) PROVE part[k] = UnitsOf(sent[i])[k]
    <3>1. k \in 1..(BodyOf[sent[i]] + 1)
      BY <1>l, <2>3
    <3>2. b[i - 1] + k - b[Len(delivered)] = k
      BY <1>l, <2>2, <2>5
    <3>3. Unread[k] = UnitsOf(sent[i])[k]
      <4>1. k <= Len(Unread)
        BY <1>l
      <4> QED BY <2>2, <3>1, <3>2, <4>1 DEF Laid, InPlace
    <3> QED BY <1>l, <3>3
  <2>7. UnitsOf(sent[i]) \in Seq(Unit) /\ Len(UnitsOf(sent[i])) = BodyOf[sent[i]] + 1
    BY <2>4, UnitsType
  <2>8. Len(part) = BodyOf[sent[i]] + 1
    BY <1>l, <2>3
  <2>9. part = UnitsOf(sent[i])
    BY <1>l, <2>6, <2>7, <2>8, SeqEqual
  <2> QED BY <2>1, <2>2, <2>8, <2>9
<1>2. ASSUME Len(delivered) >= safe, ~spoiled PROVE FALSE
  <2>1. Len(delivered) = safe
    BY <1>2, <1>l DEF Laid, PartOfNext
  <2>2. Owed(b) = 0
    <3>1. b[safe] \in Nat
      BY <1>l DEF Laid, Starts
    <3> QED BY <2>1, <3>1 DEF Owed
  <2>3. need = BodyOf[sent[safe + 1]]
    BY <1>2, <1>l, <2>1 DEF NeedFits
  <2>4. Len(Unread) > 0
    BY <1>l
  <2>5. Len(Unread) <= BodyOf[sent[safe + 1]]
    BY <1>2, <1>l, <2>2, <2>4 DEF Laid, PartOfNext
  <2>6. Len(Unread) <= need
    BY <2>3, <2>5
  <2> QED BY <1>l, <2>6
<1> QED BY <1>1, <1>2

LEMMA MovedUp ==
  ASSUME NEW x \in Nat, NEW y \in Nat, NEW z \in Nat, NEW k \in Nat
  PROVE  x + k - z = (y - z) + (x + k - y)
OBVIOUS

\* Delivering a frame takes its units away and moves the others up.
LEMMA DeliverLays ==
  ASSUME TypeOK, TypeOK', NEW b, Laid(b), NeedFits, Deliver
  PROVE  Laid(b)'
<1>1. /\ rcv = "body" /\ Len(part) - 1 = need
      /\ delivered' = Append(delivered, Frame(part)) /\ part' = <<>>
      /\ UNCHANGED <<conn, frames, stage, pos, opq, stream, sent, safe, spoiled>>
  BY DEF Deliver, writeVars, history
<1>l. /\ Len(delivered) \in Nat /\ safe \in Nat /\ Len(sent) \in Nat /\ safe <= Len(sent)
      /\ Len(part) \in Nat /\ Len(stream) \in Nat /\ Len(Unread) \in Nat
      /\ Len(Unread) = Len(part) + Len(stream)
      /\ \A p \in 1..Len(stream) : Unread[Len(part) + p] = stream[p]
  BY HistoryLengths, UnreadType
<1>n. /\ Len(part) \in Nat /\ Len(stream) \in Nat /\ Len(Unread) \in Nat
      /\ Len(Unread) = Len(part) + Len(stream)
  BY <1>l
<1>2. Len(delivered') = Len(delivered) + 1
  BY <1>1 DEF TypeOK
<1>3. Unread' = stream
  <2>1. Unread' = <<>> \o stream
    BY <1>1 DEF Unread
  <2> QED BY <2>1, UnreadType
<1>4. Starts(b)'
  BY <1>1 DEF Starts, Laid
<1>5. CASE Len(delivered) >= safe
  <2>1. spoiled
    BY <1>1, <1>5, NextIsWhole
  <2>2. InPlace(b)'
    <3>1. ASSUME NEW i \in 1..safe PROVE ~(Len(delivered') < i)
      BY <1>2, <1>5, <1>l
    <3> QED BY <1>1, <3>1 DEF InPlace
  <2>3. AllThere(b)'
    BY <1>1, <1>2, <1>5, <1>l DEF AllThere
  <2>4. PartOfNext(b)' /\ OneWriter(b)'
    BY <1>1, <2>1 DEF PartOfNext, OneWriter
  <2> QED BY <1>4, <2>2, <2>3, <2>4 DEF Laid
<1>6. CASE Len(delivered) < safe
  <2>1. PICK e \in 1..safe : e = Len(delivered) + 1
    BY <1>6, <1>l
  <2>2. Len(delivered) < e /\ e - 1 = Len(delivered) /\ e \in 0..safe /\ e \in Nat
    BY <1>l, <2>1
  <2>3. b[e] - b[Len(delivered)] = Len(part) /\ b[Len(delivered)] \in Nat /\ b[e] \in Nat
        /\ b[safe] \in Nat
    <3>1. Len(part) = BodyOf[sent[e]] + 1
      BY <1>1, <1>6, <2>1, NextIsWhole
    <3>2. /\ b[e] = b[e - 1] + BodyOf[sent[e]] + 1 /\ BodyOf[sent[e]] \in Nat
          /\ b[e - 1] \in Nat /\ b[safe] \in Nat
      BY <2>2, Boundaries DEF Laid
    <3> QED BY <2>2, <3>1, <3>2
  <2>4. Owed(b)' = Owed(b) - Len(part) /\ Owed(b) \in Int
    <3>1. Owed(b)' = b[safe] - b[e] /\ Owed(b) = b[safe] - b[Len(delivered)]
      BY <1>1, <1>2, <2>1 DEF Owed
    <3> QED BY <1>l, <2>3, <3>1
  <2>5. InPlace(b)'
    <3> SUFFICES ASSUME NEW i \in 1..safe', Len(delivered') < i,
                        NEW k \in 1..(BodyOf[sent'[i]] + 1),
                        b[i - 1] + k - b[Len(delivered')] <= Len(Unread')
                 PROVE  Unread'[b[i - 1] + k - b[Len(delivered')]] = UnitsOf(sent'[i])[k]
      BY DEF InPlace, UnitsOf
    <3>1. /\ i \in 1..safe /\ i \in Nat /\ e < i /\ i - 1 \in 0..safe /\ e <= i - 1
          /\ Len(delivered) < i
      BY <1>1, <1>2, <1>l, <2>1
    <3>2. k \in 1..(BodyOf[sent[i]] + 1) /\ BodyOf[sent[i]] \in Nat /\ b[i - 1] \in Nat
      BY <1>1, <3>1, Boundaries DEF Laid
    <3>3. b[e] <= b[i - 1]
      BY <2>2, <3>1 DEF Laid, Starts
    <3>4. PICK q : q = b[i - 1] + k - b[e]
      OBVIOUS
    <3>5. k \in Nat \ {0}
      BY <3>2
    <3>6. q \in 1..Len(stream)
      <4>1. q <= Len(stream)
        BY <1>2, <1>3, <2>1, <3>4
      <4>2. q \in Nat \ {0}
        <5>1. b[e] \in Nat /\ b[i - 1] \in Nat
          BY <2>3, <3>2
        <5> QED BY <3>3, <3>4, <3>5, <5>1
      <4> QED BY <1>l, <4>1, <4>2
    <3>7. /\ b[i - 1] + k - b[Len(delivered)] = Len(part) + q
          /\ Len(part) + q <= Len(Unread)
      <4>1. b[i - 1] + k - b[Len(delivered)] = Len(part) + q
        <5>1. b[i - 1] \in Nat /\ b[e] \in Nat /\ b[Len(delivered)] \in Nat /\ k \in Nat
          BY <2>3, <3>2, <3>5
        <5>2. PICK u, v, w \in Nat :
                u = b[i - 1] /\ v = b[e] /\ w = b[Len(delivered)]
          BY <5>1
        <5>3. u + k - w = (v - w) + (u + k - v)
          BY <5>1, MovedUp
        <5> QED BY <2>3, <3>4, <5>2, <5>3
      <4> QED BY <1>n, <3>6, <4>1
    <3>8. Unread[Len(part) + q] = UnitsOf(sent[i])[k]
      BY <3>1, <3>2, <3>7 DEF Laid, InPlace
    <3>9. Unread'[q] = UnitsOf(sent[i])[k]
      BY <1>3, <1>l, <3>8, <3>6
    <3> QED BY <1>1, <1>2, <2>1, <3>4, <3>9
  <2>6. AllThere(b)'
    <3> SUFFICES ASSUME conn = "up" PROVE Len(stream) >= Owed(b)'
      BY <1>1, <1>3 DEF AllThere
    <3>1. Len(Unread) >= Owed(b)
      BY <1>6, <1>l DEF Laid, AllThere
    <3> QED BY <1>l, <2>4, <3>1
  <2>7. PartOfNext(b)'
    <3> SUFFICES ASSUME ~spoiled, Len(stream) > Owed(b) - Len(part)
                 PROVE  /\ safe < Len(sent)
                        /\ Len(stream) - (Owed(b) - Len(part)) <= BodyOf[sent[safe + 1]]
                        /\ \A p \in (Owed(b) - Len(part) + 1)..Len(stream) :
                             stream[p] = UnitsOf(sent[safe + 1])[p - (Owed(b) - Len(part))]
      <4>1. Len(delivered') <= safe
        BY <1>2, <1>6, <1>l
      <4>2. UnitsOf(sent[safe + 1])' = UnitsOf(sent[safe + 1])
        BY <1>1 DEF UnitsOf
      <4> QED BY <1>1, <1>3, <2>4, <4>1, <4>2 DEF PartOfNext
    <3>1. Len(Unread) > Owed(b)
      BY <1>l, <2>4
    <3>2. /\ safe < Len(sent)
          /\ Len(Unread) - Owed(b) <= BodyOf[sent[safe + 1]]
          /\ \A p \in (Owed(b) + 1)..Len(Unread) :
               Unread[p] = UnitsOf(sent[safe + 1])[p - Owed(b)]
      BY <3>1 DEF Laid, PartOfNext
    <3>3. Len(stream) - (Owed(b) - Len(part)) = Len(Unread) - Owed(b)
      BY <1>l, <2>4
    <3>4. Owed(b) >= Len(part)
      <4>1. b[e] <= b[safe]
        BY <2>2, Boundaries DEF Laid
      <4> QED BY <2>3, <4>1 DEF Owed
    <3>5. ASSUME NEW p \in (Owed(b) - Len(part) + 1)..Len(stream)
          PROVE  stream[p] = UnitsOf(sent[safe + 1])[p - (Owed(b) - Len(part))]
      <4>0. p \in Nat \ {0} /\ p <= Len(stream) /\ Owed(b) - Len(part) < p
        BY <1>l, <2>4, <3>4
      <4>1. PICK q \in (Owed(b) + 1)..Len(Unread) : q = Len(part) + p
        <5>1. Len(part) + p \in Nat /\ Owed(b) < Len(part) + p
          BY <1>n, <2>4, <4>0
        <5>2. Len(part) + p <= Len(Unread)
          BY <1>n, <4>0
        <5> QED BY <1>n, <2>4, <3>4, <5>1, <5>2
      <4>2. q - Owed(b) = p - (Owed(b) - Len(part)) /\ p \in 1..Len(stream)
        BY <1>l, <2>4, <3>4, <4>1
      <4>3. Unread[q] = UnitsOf(sent[safe + 1])[q - Owed(b)]
        BY <3>2
      <4> QED BY <1>l, <4>1, <4>2, <4>3
    <3> QED BY <3>2, <3>3, <3>5
  <2>8. OneWriter(b)'
    <3>1. \A c \in Calls : Left(c)' = Left(c) /\ (Blocked(b, c) => Blocked(b, c)')
      <4>1. ASSUME NEW c \in Calls, Blocked(b, c) PROVE Blocked(b, c)'
        <5>1. Len(Unread) = Owed(b) + pos[c] /\ pos[c] \in Nat
          BY <4>1 DEF Blocked, TypeOK
        <5>2. Len(stream) = Owed(b)' + pos[c]
          BY <1>l, <2>4, <5>1
        <5> QED BY <1>1, <1>3, <4>1, <5>2 DEF Blocked
      <4>2. \A c \in Calls : Left(c)' = Left(c)
        BY <1>1 DEF Left, Content
      <4> QED BY <4>1, <4>2
    <3>2. Len(Unread) = Owed(b) => Len(stream) = Owed(b)'
      BY <1>l, <2>4
    <3>3. OneWriter(b)
      BY DEF Laid
    <3> QED BY <1>1, <1>3, <3>1, <3>2, <3>3 DEF OneWriter
  <2> QED BY <1>4, <2>5, <2>6, <2>7, <2>8 DEF Laid
<1> QED BY <1>5, <1>6, <1>l

LEMMA ReceiveFailsLays ==
  ASSUME TypeOK, TypeOK', NEW b, Laid(b), ReceiveFails
  PROVE  Laid(b)'
<1>1. /\ UNCHANGED <<conn, sent, safe, spoiled, delivered>> /\ conn # "up"
      /\ stream' = <<>> /\ part' = <<>>
  BY DEF ReceiveFails, writeVars, history
<1>2. Len(Unread') = 0 /\ Len(Unread) \in Nat /\ Len(sent) \in Nat
  <2>1. Unread' = <<>> \o <<>>
    BY <1>1 DEF Unread
  <2>2. <<>> \o <<>> = <<>>
    BY EmptySeq, ConcatEmptySeq
  <2> QED BY <2>1, <2>2, HistoryLengths, UnreadType
<1>3. Continues
  BY <1>1, <1>2 DEF Continues
<1>4. OneWriter(b)'
  BY <1>1 DEF OneWriter
<1> QED BY <1>2, <1>3, <1>4, LaidStays

\* The first unit that is there is the length of the frame that comes next.
LEMMA LengthIsNext ==
  ASSUME TypeOK, NEW b, Laid(b), rcv = "length", stream # <<>>,
         Len(delivered) < safe \/ ~spoiled
  PROVE  /\ Len(delivered) < Len(sent)
         /\ LengthsOf(Head(stream)) = {BodyOf[sent[Len(delivered) + 1]]}
<1>l. /\ Len(delivered) \in Nat /\ safe \in Nat /\ Len(sent) \in Nat /\ safe <= Len(sent)
      /\ stream \in Seq(Unit) /\ Len(stream) \in Nat
  BY HistoryLengths, UnreadType
<1>1. Unread = stream
  <2>1. Unread = <<>> \o stream
    BY DEF Unread, TypeOK
  <2> QED BY <2>1, <1>l
<1>2. Head(stream) = Unread[1] /\ Len(Unread) >= 1
  BY <1>1, <1>l
<1>3. /\ Len(delivered) < Len(sent)
      /\ Unread[1] = UnitsOf(sent[Len(delivered) + 1])[1]
  <2>1. CASE Len(delivered) < safe
    <3>1. PICK i \in 1..safe : i = Len(delivered) + 1
      BY <2>1, <1>l
    <3>2. i - 1 = Len(delivered) /\ Len(delivered) < i
      BY <1>l, <3>1
    <3>3. b[Len(delivered)] \in Nat /\ BodyOf[sent[i]] \in Nat
      BY <3>2, Boundaries DEF Laid
    <3>4. b[i - 1] + 1 - b[Len(delivered)] = 1
      BY <3>2, <3>3
    <3>5. 1 \in 1..(BodyOf[sent[i]] + 1)
      BY <3>3
    <3>6. Unread[1] = UnitsOf(sent[i])[1]
      <4>1. \A k \in 1..(BodyOf[sent[i]] + 1) :
              b[i - 1] + k - b[Len(delivered)] <= Len(Unread) =>
                Unread[b[i - 1] + k - b[Len(delivered)]] = UnitsOf(sent[i])[k]
        BY <3>2 DEF Laid, InPlace
      <4>2. 1 <= Len(Unread)
        BY <1>1, <1>2, <1>l
      <4> QED BY <3>4, <3>5, <4>1, <4>2
    <3>7. Len(delivered) < Len(sent)
      BY <2>1, <1>l
    <3> QED BY <3>1, <3>6, <3>7
  <2>2. CASE ~(Len(delivered) < safe)
    <3>1. Len(delivered) = safe /\ ~spoiled
      BY <2>2, <1>l DEF Laid, PartOfNext
    <3>2. Owed(b) = 0
      <4>1. b[safe] \in Nat
        BY <1>l DEF Laid, Starts
      <4> QED BY <3>1, <4>1 DEF Owed
    <3>3. /\ safe < Len(sent)
          /\ \A p \in (Owed(b) + 1)..Len(Unread) :
               Unread[p] = UnitsOf(sent[safe + 1])[p - Owed(b)]
      <4>1. Len(Unread) > Owed(b)
        BY <1>1, <1>2, <1>l, <3>2
      <4> QED BY <3>1, <4>1 DEF Laid, PartOfNext
    <3>4. 1 \in (Owed(b) + 1)..Len(Unread) /\ 1 - Owed(b) = 1
      BY <1>1, <1>2, <1>l, <3>2
    <3>5. Unread[1] = UnitsOf(sent[safe + 1])[1]
      BY <3>3, <3>4
    <3> QED BY <3>1, <3>3, <3>5
  <2> QED BY <2>1, <2>2
<1>4. PICK f \in Frames : f = sent[Len(delivered) + 1]
  <2>1. Len(delivered) + 1 \in 1..Len(sent)
    BY <1>3, <1>l
  <2> QED BY <2>1, HistoryLengths
<1>5. UnitsOf(f)[1] = [of |-> f, i |-> 0]
  <2>1. 1 \in 1..(BodyOf[f] + 1) /\ 1 - 1 = 0
    BY BodyAssumption
  <2> QED BY <2>1 DEF UnitsOf
<1>6. Head(stream).of = f /\ Head(stream).i = 0 /\ f # Bad
  BY <1>2, <1>3, <1>4, <1>5, BadAssumption
<1> QED BY <1>3, <1>4, <1>6 DEF LengthsOf

LEMMA NeedStaysFit ==
  ASSUME TypeOK, TypeOK', NEW b, Laid(b), NeedFits, Receive
  PROVE  NeedFits'
<1>1. UNCHANGED <<sent, safe, spoiled>>
  BY DEF Receive, ReadLength, ReadBody, Deliver, ReceiveFails, history
<1>2. CASE ReadLength
  <2>1. /\ rcv = "length" /\ stream # <<>> /\ delivered' = delivered
        /\ need' \in LengthsOf(Head(stream))
    BY <1>2 DEF ReadLength
  <2> SUFFICES ASSUME Len(delivered) < safe \/ ~spoiled
               PROVE  Len(delivered) < Len(sent) /\ need' = BodyOf[sent[Len(delivered) + 1]]
    BY <1>1, <2>1 DEF NeedFits
  <2> QED BY <2>1, LengthIsNext
<1>3. CASE ReadBody
  <2>1. UNCHANGED <<rcv, need, delivered>>
    BY <1>3 DEF ReadBody
  <2> QED BY <1>1, <2>1 DEF NeedFits
<1>4. CASE Deliver \/ ReceiveFails
  BY <1>4 DEF Deliver, ReceiveFails, NeedFits
<1> QED BY <1>2, <1>3, <1>4 DEF Receive

LEMMA InitWire == Init => WireInv
<1> SUFFICES ASSUME Init PROVE WireInv
  OBVIOUS
<1>1. /\ part = <<>> /\ stream = <<>> /\ rcv = "length" /\ safe = 0 /\ sent = <<>>
      /\ delivered = <<>> /\ opq = <<>> /\ \A c \in Calls : stage[c] = "idle"
  BY DEF Init, Channel!Init
<1>2. Len(Unread) = 0 /\ Len(delivered) = 0 /\ Len(sent) = 0
  <2>1. Unread = <<>> \o <<>>
    BY <1>1 DEF Unread
  <2> QED BY <1>1, <2>1, EmptySeq, ConcatEmptySeq
<1>3. NeedFits
  BY <1>1 DEF NeedFits
<1>4. PICK b : b = [n \in Nat |-> 0]
  OBVIOUS
<1>5. b \in [Nat -> Nat] /\ \A n \in Nat : b[n] = 0
  BY <1>4
<1>6. Owed(b) = 0
  BY <1>1, <1>2, <1>5 DEF Owed
<1>7. Starts(b)
  <2>1. \A i \in 1..safe : FALSE
    BY <1>1
  <2>2. \A i \in 0..safe : i = 0
    BY <1>1
  <2> QED BY <1>5, <2>1, <2>2 DEF Starts
<1>8. InPlace(b)
  BY <1>1 DEF InPlace
<1>9. AllThere(b) /\ PartOfNext(b)
  BY <1>1, <1>2, <1>6 DEF AllThere, PartOfNext
<1>10. OneWriter(b)
  BY <1>1, <1>2, <1>6 DEF OneWriter
<1> QED BY <1>3, <1>5, <1>7, <1>8, <1>9, <1>10 DEF WireInv, Laid

LEMMA NextWire == IInv /\ IInv' /\ WireInv /\ [Next]_vars => WireInv'
<1> SUFFICES ASSUME IInv, IInv', WireInv, [Next]_vars PROVE WireInv'
  OBVIOUS
<1>t. TypeOK /\ TypeOK' /\ Progress /\ NeedFits
  BY DEF IInv, WireInv
<1>b. PICK b : Laid(b)
  BY DEF WireInv
<1>l. Len(sent) \in Nat
  BY <1>t, HistoryLengths
<1>1. ASSUME NEW c \in Calls, Send(c) PROVE WireInv'
  <2>1. Accounts(c) /\ UNCHANGED <<rcv, need, delivered>>
    BY <1>1 DEF Send, SendAsync, SendSync, readVars
  <2>2. NeedFits'
    <3>1. Len(sent') >= Len(sent)
      BY <1>l, <1>t, <2>1, SentGrows
    <3> QED BY <1>t, <2>1, <3>1, SentGrows, NeedStays
  <2>3. \E x \in [Nat -> Nat] : Laid(x)'
    BY <1>1, <1>t, <1>b, SendAsyncLays, SendSyncLays, BeginningsOf DEF Send
  <2> QED BY <2>2, <2>3 DEF WireInv
<1>2. ASSUME NEW c \in Calls, Proceed(c) PROVE WireInv'
  <2>1. /\ UNCHANGED <<rcv, need, delivered, sent, spoiled>>
        /\ safe' # safe => ~spoiled
    BY <1>2 DEF Proceed, OnPiece, SyncWrites, readVars, history
  <2>2. NeedFits'
    BY <1>l, <1>t, <2>1, NeedStays
  <2>3. \E x \in [Nat -> Nat] : Laid(x)'
    BY <1>2, <1>t, <1>b, OnPieceLays, SyncWritesLays, BeginningsOf DEF Proceed
  <2> QED BY <2>2, <2>3 DEF WireInv
<1>3. ASSUME ReactorWrites \/ WriterDisconnects \/ ReaderDisconnects PROVE WireInv'
  <2>1. UNCHANGED <<rcv, need, delivered, sent, spoiled, safe>>
    BY <1>3 DEF ReactorWrites, WriterDisconnects, ReaderDisconnects, readVars, history
  <2>2. NeedFits'
    BY <1>t, <2>1 DEF NeedFits
  <2>3. \E x \in [Nat -> Nat] : Laid(x)'
    BY <1>3, <1>t, <1>b, ReactorLays, DisconnectLays, BeginningsOf
  <2> QED BY <2>2, <2>3 DEF WireInv
<1>4. ASSUME Receive PROVE WireInv'
  <2>1. NeedFits'
    BY <1>4, <1>t, <1>b, NeedStaysFit
  <2>2. CASE ReadLength \/ ReadBody
    <3>1. Unread' = Unread
      BY <1>t, <2>2, ReadingMoves
    <3>2. /\ UNCHANGED <<conn, frames, stage, pos, opq, sent, safe, spoiled, delivered>>
      BY <2>2 DEF ReadLength, ReadBody, writeVars, history
    <3>3. Quiet
      BY <3>1, <3>2 DEF Quiet
    <3>4. OneWriter(b)'
      <4>1. OneWriter(b)
        BY <1>b DEF Laid
      <4> QED BY <3>1, <3>2, <4>1 DEF OneWriter, Blocked, Owed, Left, Content
    <3>5. Laid(b)'
      BY <1>t, <1>b, <3>3, <3>4, QuietLays
    <3> QED BY <2>1, <3>5, BeginningsOf DEF WireInv
  <2>3. CASE Deliver \/ ReceiveFails
    <3>1. Laid(b)'
      BY <1>t, <1>b, <2>3, DeliverLays, ReceiveFailsLays
    <3> QED BY <2>1, <3>1, BeginningsOf DEF WireInv
  <2> QED BY <1>4, <2>2, <2>3 DEF Receive
<1>5. ASSUME UNCHANGED vars PROVE WireInv'
  <2>1. /\ UNCHANGED <<conn, frames, stage, pos, opq, part, stream>>
        /\ UNCHANGED <<sent, safe, spoiled, delivered, rcv, need>>
    BY <1>5 DEF vars, writeVars, readVars, history
  <2>2. Quiet
    BY <2>1 DEF Quiet, Unread
  <2>3. OneWriter(b)'
    <3>1. OneWriter(b)
      BY <1>b DEF Laid
    <3> QED BY <2>1, <3>1 DEF OneWriter, Blocked, Owed, Unread, Left, Content
  <2>4. Laid(b)'
    BY <1>t, <1>b, <2>2, <2>3, QuietLays
  <2>5. NeedFits'
    BY <1>t, <2>1 DEF NeedFits
  <2> QED BY <2>4, <2>5, BeginningsOf DEF WireInv
<1> QED BY <1>1, <1>2, <1>3, <1>4, <1>5 DEF Next, Idle

-------------------------------------------------------------------------------
(* The channel *)

LEMMA CallRefines ==
  ASSUME TypeOK, NEW c \in Calls, Accounts(c), UNCHANGED delivered
  PROVE  Channel!Send
<1>1. sent' = sent \o frames[c]
  BY DEF Accounts
<1>2. frames[c] \in UNION {[1..n -> Frames] : n \in 1..2}
  <2>1. frames[c] \in Seq(Frames) /\ (Len(frames[c]) = 1 \/ Len(frames[c]) = 2)
    BY OffersAssumption DEF TypeOK
  <2>2. frames[c] \in [1..Len(frames[c]) -> Frames] /\ Len(frames[c]) \in 1..2
    BY <2>1
  <2> QED BY <2>2
<1>3. \/ UNCHANGED <<safe, spoiled>>
      \/ spoiled' = TRUE /\ UNCHANGED safe
      \/ ~spoiled /\ UNCHANGED spoiled /\ safe' = Len(sent')
  <2>1. spoiled \in BOOLEAN /\ spoiled' \in BOOLEAN
    BY DEF TypeOK, Accounts
  <2>2. CASE spoiled'
    <3>1. safe' = safe
      BY <2>2 DEF Accounts
    <3> QED BY <2>1, <2>2, <3>1
  <2>3. CASE ~spoiled'
    <3>1. ~spoiled /\ (safe' = Len(sent') \/ safe' = safe)
      BY <2>3 DEF Accounts
    <3> QED BY <2>1, <2>3, <3>1
  <2> QED BY <2>2, <2>3
<1> QED BY <1>1, <1>2, <1>3 DEF Channel!Send

LEMMA SyncRefines ==
  ASSUME TypeOK, NEW c \in Calls, SyncWrites(c)
  PROVE  Channel!HandOver \/ UNCHANGED <<sent, safe, spoiled, delivered>>
<1>1. /\ UNCHANGED <<sent, spoiled, delivered>>
      /\ safe' = safe \/ (~spoiled /\ safe' = Len(sent))
  BY DEF SyncWrites
<1>2. Len(sent) \in Nat /\ safe \in Nat /\ safe <= Len(sent)
  BY HistoryLengths
<1>3. safe' = safe \/ (~spoiled /\ safe' = Len(sent) /\ safe < Len(sent))
  BY <1>1, <1>2
<1> QED BY <1>1, <1>3 DEF Channel!HandOver

\* The units of two frames differ: the first names the frame.
LEMMA FrameOfUnits ==
  ASSUME NEW f \in Frames
  PROVE  Frame(UnitsOf(f)) = f
<1>1. \A g \in Frames : UnitsOf(g)[1] = [of |-> g, i |-> 0]
  <2>1. \A g \in Frames : 1 \in 1..(BodyOf[g] + 1) /\ 1 - 1 = 0
    BY BodyAssumption
  <2> QED BY <2>1 DEF UnitsOf
<1>2. \A g \in Frames : UnitsOf(f) = UnitsOf(g) => g = f
  <2> SUFFICES ASSUME NEW g \in Frames, UnitsOf(f) = UnitsOf(g) PROVE g = f
    OBVIOUS
  <2>1. [of |-> f, i |-> 0] = [of |-> g, i |-> 0]
    BY <1>1
  <2> QED BY <2>1
<1> QED BY <1>2 DEF Frame

LEMMA DeliverRefines ==
  ASSUME TypeOK, WireInv, Deliver
  PROVE  Channel!Deliver \/ Channel!DeliverAnything
<1>b. PICK b : Laid(b)
  BY DEF WireInv
<1>1. /\ rcv = "body" /\ Len(part) - 1 = need /\ NeedFits
      /\ delivered' = Append(delivered, Frame(part)) /\ UNCHANGED <<sent, safe, spoiled>>
  BY DEF Deliver, WireInv, history
<1>2. CASE Len(delivered) < safe
  <2>1. /\ Len(delivered) + 1 \in 1..Len(sent)
        /\ part = UnitsOf(sent[Len(delivered) + 1])
    BY <1>b, <1>1, <1>2, NextIsWhole
  <2>2. Frame(part) = sent[Len(delivered) + 1]
    BY <2>1, FrameOfUnits, HistoryLengths
  <2> QED BY <1>1, <1>2, <2>2 DEF Channel!Deliver
<1>3. CASE ~(Len(delivered) < safe)
  <2>1. Len(delivered) >= safe
    BY <1>3, HistoryLengths
  <2>2. spoiled
    BY <1>b, <1>1, <2>1, NextIsWhole
  <2>3. Frame(part) \in Frames \union {Bad}
    BY DEF Frame
  <2> QED BY <1>1, <2>1, <2>2, <2>3 DEF Channel!DeliverAnything
<1> QED BY <1>2, <1>3

LEMMA StepRefines ==
  ASSUME IInv, WireInv, [Next]_vars
  PROVE  [Channel!Next]_(Channel!channelVars)
<1>t. TypeOK
  BY DEF IInv
<1>1. ASSUME NEW c \in Calls, Send(c) PROVE Channel!Next
  <2>1. Accounts(c) /\ UNCHANGED delivered
    BY <1>1 DEF Send, SendAsync, SendSync
  <2> QED BY <1>t, <2>1, CallRefines DEF Channel!Next
<1>2. ASSUME NEW c \in Calls, SyncWrites(c)
      PROVE  Channel!Next \/ UNCHANGED <<sent, safe, spoiled, delivered>>
  BY <1>2, <1>t, SyncRefines DEF Channel!Next
<1>3. CASE Deliver
  BY <1>3, <1>t, DeliverRefines DEF Channel!Next
<1>4. CASE \/ \E c \in Calls : OnPiece(c)
           \/ ReactorWrites \/ ReadLength \/ ReadBody \/ ReceiveFails
           \/ WriterDisconnects \/ ReaderDisconnects \/ UNCHANGED vars
  BY <1>4 DEF OnPiece, ReactorWrites, ReadLength, ReadBody, ReceiveFails,
     WriterDisconnects, ReaderDisconnects, vars, history, Channel!channelVars
<1> QED BY <1>1, <1>2, <1>3, <1>4
    DEF Next, Proceed, Receive, Idle, Channel!channelVars

\* Whatever the pieces are, whoever goes away and however calls run into each
\* other, frames arrive whole and in the order they were sent, up to the first
\* that is not handed over undisturbed (the protocol of communicator_t.hpp:33-36,
\* as send_async, send_sync and receive_async of AsioComm keep it).
THEOREM CommImplementsChannel == Spec => RefinesFrameChannel
<1>1. Init => Channel!Init
  BY DEF Init
<1>2. IInv /\ WireInv /\ [Next]_vars => [Channel!Next]_(Channel!channelVars)
  BY StepRefines
<1>3. IInv /\ [Next]_vars => IInv'
  BY NextIInv
<1>4. IInv /\ IInv' /\ WireInv /\ [Next]_vars => WireInv'
  BY NextWire
<1>5. Init => IInv /\ WireInv
  BY InitIInv, InitWire
<1>6. Spec => [](IInv /\ WireInv)
  BY <1>3, <1>4, <1>5, PTL DEF Spec
<1> QED BY <1>1, <1>2, <1>6, PTL DEF Spec, RefinesFrameChannel, Channel!Spec
===============================================================================
