------------------------------- MODULE AsioComm -------------------------------
(***************************************************************************)
(* One direction of a connection between two communicators                 *)
(* (lib/src/asio_communicator.cpp): frames, a length and a body, written   *)
(* in pieces to a socket whose buffer is bounded and read by a loop of     *)
(* receive_async.                                                          *)
(*                                                                         *)
(* The pieces are those of asio::async_write: the initiating call writes   *)
(* what the socket takes, the rest is written by the reactor or by the     *)
(* handler of the piece before.  The buffers send_async writes from, the   *)
(* local length and the data that is not captured, live as long as that    *)
(* call: what is written later is whatever their memory holds by then.     *)
(***************************************************************************)
EXTENDS Naturals, FiniteSets, Sequences

CONSTANTS
  Calls,     \* the calls of send_async and send_sync
  ModeOf,    \* "async" or "sync"
  Offers,    \* what each call may send: one frame or, in a group, two
  Frames,    \* the frames
  BodyOf,    \* the units of data in each frame; its length is one unit more
  Capacity,  \* units the socket buffer and the network hold
  Chunk,     \* units asio writes in one piece at most, 64 KiB in the code
  Bad        \* no frame

ASSUME ModeAssumption == ModeOf \in [Calls -> {"async", "sync"}]
ASSUME OffersAssumption ==
  /\ Offers \in [Calls -> SUBSET Seq(Frames)]
  /\ \A c \in Calls : \A frames \in Offers[c] :
       Len(frames) = 1 \/ (Len(frames) = 2 /\ ModeOf[c] = "sync")
ASSUME BodyAssumption == BodyOf \in [Frames -> Nat]
ASSUME CapacityAssumption == Capacity \in Nat \ {0} /\ Chunk \in Nat \ {0}
ASSUME BadAssumption == Bad \notin Frames

VARIABLES
  conn,         \* "up", or closed by the "writer" or by the "reader"
  frames,       \* what each call sends
  stage,        \* how far each call has got
  pos,          \* the units of each call that are written
  opq,          \* pieces waiting for the socket to be writable, in order
  speculative,  \* the reactor believes the socket to be writable
  stream,       \* units written and not read
  rcv,          \* what the receive loop is waiting for
  part,         \* the units of the frame it has read
  need,         \* the units of the body it is to read
  sent, safe, spoiled, delivered  \* see FrameChannel

writeVars == <<frames, stage, pos, opq, speculative>>
readVars == <<rcv, part, need>>
history == <<sent, safe, spoiled>>
vars == <<conn, writeVars, stream, readVars, history, delivered>>

Channel == INSTANCE FrameChannel

\* posted: the handler of a piece is to run; sync: the caller is blocked.
Stages == {"idle", "queued", "posted", "sync", "done", "failed"}

\* The length is unit 0 of a frame, the data are units 1, 2, ...
Unit == [of : Frames \union {Bad}, i : Nat]
Junk == [of |-> Bad, i |-> 0]

UnitsOf(f) == [k \in 1..(BodyOf[f] + 1) |-> [of |-> f, i |-> k - 1]]

Content(c) ==
  IF Len(frames[c]) = 1 THEN UnitsOf(frames[c][1])
  ELSE UnitsOf(frames[c][1]) \o UnitsOf(frames[c][2])

Left(c) == Len(Content(c)) - pos[c]
Room == Capacity - Len(stream)

Least(a, b) == IF a < b THEN a ELSE b

\* Memory never holds more than it is asked for, and a body is read after its
\* length.
TypeOK ==
  /\ conn \in {"up", "writer", "reader"}
  /\ \A c \in Calls : frames[c] \in Offers[c]
  /\ stage \in [Calls -> Stages]
  /\ pos \in [Calls -> Nat]
  /\ \A c \in Calls : pos[c] <= Len(Content(c))
  /\ opq \in Seq(Calls)
  /\ \A c \in Calls : stage[c] = "queued" <=> \E i \in DOMAIN opq : opq[i] = c
  /\ speculative \in BOOLEAN
  /\ stream \in Seq(Unit)
  /\ Len(stream) <= Capacity
  /\ rcv \in {"length", "body", "dead"}
  /\ part \in Seq(Unit)
  /\ need \in Nat
  /\ rcv = "length" => part = <<>>
  /\ rcv = "body" => Len(part) \in 1..(need + 1)
  /\ sent \in Seq(Frames)
  /\ safe \in 0..Len(sent)
  /\ spoiled \in BOOLEAN
  /\ delivered \in Seq(Frames \union {Bad})

Init ==
  /\ conn = "up"
  /\ frames \in {g \in [Calls -> UNION {Offers[c] : c \in Calls}] :
                  \A c \in Calls : g[c] \in Offers[c]}
  /\ stage = [c \in Calls |-> "idle"]
  /\ pos = [c \in Calls |-> 0]
  /\ opq = <<>>
  /\ speculative = TRUE
  /\ stream = <<>>
  /\ rcv = "length"
  /\ part = <<>>
  /\ need = 0
  /\ Channel!Init

-------------------------------------------------------------------------------
(* Pieces: async_write_some and the reactor, as asio has them *)

Requested(c) == Least(Chunk, Left(c))
Piece(c) == Least(Requested(c), Room)

Goes(c, to) == stage' = [stage EXCEPT ![c] = to]

\* The units of a piece: those of the call, and where their memory is gone
\* these or others.
Written(c, gone) ==
  /\ pos' = [pos EXCEPT ![c] = @ + Piece(c)]
  /\ \E kept \in BOOLEAN :
       stream' = stream \o [k \in 1..Piece(c) |->
                              IF kept \/ pos[c] + k \notin gone
                                THEN Content(c)[pos[c] + k] ELSE Junk]

\* async_write_some: a piece is written at once when none is waiting and the
\* socket is believed to be writable, and is queued otherwise.
WriteSome(c, gone) ==
  \/ /\ conn # "up"
     /\ Goes(c, "posted")
     /\ UNCHANGED <<pos, opq, speculative, stream>>
  \/ /\ conn = "up"
     /\ opq = <<>> /\ speculative /\ Room > 0
     /\ Written(c, gone)
     /\ Goes(c, "posted")
     /\ speculative' = (Piece(c) = Requested(c))
     /\ UNCHANGED opq
  \/ /\ conn = "up"
     /\ ~(opq = <<>> /\ speculative /\ Room > 0)
     /\ opq' = Append(opq, c)
     /\ Goes(c, "queued")
     /\ UNCHANGED <<pos, speculative, stream>>

\* The socket is writable, or the connection is gone: the first piece in the
\* queue is taken up.
ReactorWrites ==
  /\ Room > 0 \/ conn # "up"
  /\ IF opq = <<>>
       THEN /\ speculative' = TRUE
            /\ UNCHANGED <<stage, pos, opq, stream>>
       ELSE LET c == Head(opq)
            IN  /\ Goes(c, "posted")
                /\ opq' = Tail(opq)
                /\ IF conn = "up"
                     THEN /\ Written(c, DOMAIN Content(c))
                          /\ speculative' = (Piece(c) = Requested(c))
                     ELSE UNCHANGED <<pos, speculative, stream>>
  /\ UNCHANGED <<conn, frames, readVars, history, delivered>>

-------------------------------------------------------------------------------
(* send_async and send_sync *)

\* A call that has begun and not ended.
InProgress == {c \in Calls : stage[c] \in {"queued", "posted", "sync"}
                               /\ Left(c) > 0}

\* For the history: the frames of a call are handed over undisturbed when the
\* call is alone, is not a group and writes all of them before it returns.
Accounts(c) ==
  LET alone == InProgress = {} /\ Len(frames[c]) = 1
      whole == pos'[c] = Len(Content(c)) \/ ModeOf[c] = "sync"
  IN  /\ sent' = sent \o frames[c]
      /\ spoiled' = (spoiled \/ ~alone \/ ~whole)
      /\ safe' = IF ~spoiled' /\ pos'[c] = Len(Content(c)) THEN Len(sent')
                                                          ELSE safe

SendAsync(c) ==
  /\ ModeOf[c] = "async"
  /\ stage[c] = "idle"
  /\ WriteSome(c, {})
  /\ Accounts(c)
  /\ UNCHANGED <<conn, frames, readVars, delivered>>

\* Mutant: a piece is taken for the whole.
OnPieceOnce(c) ==
  /\ stage[c] = "posted"
  /\ Goes(c, IF conn = "up" THEN "done" ELSE "failed")
  /\ UNCHANGED <<pos, opq, speculative, stream>>
  /\ UNCHANGED <<conn, frames, readVars, history, delivered>>

\* Mutant: the rest of the buffers is not written.
OnPieceStops(c) ==
  /\ stage[c] = "posted"
  /\ Left(c) = 0 \/ conn # "up"
  /\ Goes(c, IF Left(c) = 0 THEN "done" ELSE "failed")
  /\ UNCHANGED <<pos, opq, speculative, stream>>
  /\ UNCHANGED <<conn, frames, readVars, history, delivered>>

\* The handler of a piece: the continuation is called when all is written; an
\* error is logged and the continuation is not called; else the next piece is
\* written from the same buffers.
OnPiece(c) ==
  /\ stage[c] = "posted"
  /\ \/ /\ Left(c) = 0
        /\ Goes(c, "done")
        /\ UNCHANGED <<pos, opq, speculative, stream>>
     \/ /\ Left(c) > 0
        /\ conn # "up"
        /\ Goes(c, "failed")
        /\ UNCHANGED <<pos, opq, speculative, stream>>
     \/ /\ Left(c) > 0
        /\ conn = "up"
        /\ WriteSome(c, DOMAIN Content(c))
  /\ UNCHANGED <<conn, frames, readVars, history, delivered>>

\* send_sync does not return before all is written.
SendSync(c) ==
  /\ ModeOf[c] = "sync"
  /\ stage[c] = "idle"
  /\ Goes(c, "sync")
  /\ UNCHANGED <<pos, opq, speculative, stream>>
  /\ Accounts(c)
  /\ UNCHANGED <<conn, frames, readVars, delivered>>

\* The buffers live as long as the call, but a grouped send keeps pointers into
\* a vector of lengths that grows: the first length has moved when it is written.
SyncWrites(c) ==
  /\ stage[c] = "sync"
  /\ IF conn = "up"
       THEN /\ Room > 0
            /\ Written(c, IF Len(frames[c]) = 2 THEN {1} ELSE {})
            /\ Goes(c, IF pos'[c] = Len(Content(c)) THEN "done" ELSE "sync")
            /\ safe' = IF ~spoiled /\ pos'[c] = Len(Content(c))
                         THEN Len(sent) ELSE safe
       ELSE /\ Goes(c, "failed")
            /\ UNCHANGED <<pos, stream, safe>>
  /\ UNCHANGED <<conn, frames, opq, speculative, readVars, sent, spoiled, delivered>>

-------------------------------------------------------------------------------
(* receive_async, called again by its continuation *)

\* What was written as a length is read as that length; other units may be
\* read as any.
LengthsOf(u) ==
  IF u.of # Bad /\ u.i = 0 THEN {BodyOf[u.of]} ELSE {BodyOf[f] : f \in Frames}

ReadLength ==
  /\ rcv = "length"
  /\ stream # <<>>
  /\ part' = <<Head(stream)>>
  /\ stream' = Tail(stream)
  /\ need' \in LengthsOf(Head(stream))
  /\ rcv' = "body"
  /\ UNCHANGED <<conn, writeVars, history, delivered>>

\* The body arrives in pieces too.
ReadBody ==
  /\ rcv = "body"
  /\ stream # <<>>
  /\ Len(part) - 1 < need
  /\ LET k == Least(Len(stream), need - (Len(part) - 1))
     IN  /\ part' = part \o SubSeq(stream, 1, k)
         /\ stream' = SubSeq(stream, k + 1, Len(stream))
  /\ UNCHANGED <<conn, writeVars, rcv, need, history, delivered>>

Frame(units) ==
  IF \E f \in Frames : units = UnitsOf(f)
    THEN CHOOSE f \in Frames : units = UnitsOf(f) ELSE Bad

\* Mutant: a body that has begun to arrive is passed on.
DeliverEarly ==
  /\ rcv = "body"
  /\ Len(part) - 1 = need \/ Len(part) > 1
  /\ delivered' = Append(delivered, Frame(part))
  /\ rcv' = "length"
  /\ part' = <<>>
  /\ need' = 0
  /\ UNCHANGED <<conn, writeVars, stream, history>>

\* Mutant: the continuation does not ask for the next frame.
DeliverOnce ==
  /\ rcv = "body"
  /\ Len(part) - 1 = need
  /\ delivered' = Append(delivered, Frame(part))
  /\ rcv' = "dead"
  /\ part' = <<>>
  /\ need' = 0
  /\ UNCHANGED <<conn, writeVars, stream, history>>

\* Mutant: what was read is not taken out.
DeliverAndKeep ==
  /\ rcv = "body"
  /\ Len(part) - 1 = need
  /\ delivered' = Append(delivered, Frame(part))
  /\ rcv' = "length"
  /\ UNCHANGED <<conn, writeVars, stream, part, need, history>>

\* The body is there: the continuation has it and asks for the next frame.
Deliver ==
  /\ rcv = "body"
  /\ Len(part) - 1 = need
  /\ delivered' = Append(delivered, Frame(part))
  /\ rcv' = "length"
  /\ part' = <<>>
  /\ need' = 0
  /\ UNCHANGED <<conn, writeVars, stream, history>>

\* The connection ends before a length or in the middle of a frame: the
\* continuation has the error and does not ask again.
ReceiveFails ==
  /\ rcv = "length" \/ (rcv = "body" /\ Len(part) - 1 < need)
  /\ stream = <<>>
  /\ conn # "up"
  /\ rcv' = "dead"
  /\ part' = <<>>
  /\ need' = 0
  /\ UNCHANGED <<conn, writeVars, stream, history, delivered>>

-------------------------------------------------------------------------------
(* disconnect, at either end *)

\* The writer's pieces that wait are aborted; what is written can be read.
WriterDisconnects ==
  /\ conn = "up"
  /\ conn' = "writer"
  /\ opq' = <<>>
  /\ stage' = [c \in Calls |->
                 IF stage[c] = "queued" THEN "posted" ELSE stage[c]]
  /\ UNCHANGED <<frames, pos, speculative, stream, readVars, history, delivered>>

ReaderDisconnects ==
  /\ conn = "up"
  /\ conn' = "reader"
  /\ stream' = <<>>
  /\ UNCHANGED <<writeVars, readVars, history, delivered>>

-------------------------------------------------------------------------------
\* Nothing is on its way: the connection waits for calls.
Idle ==
  /\ \A c \in Calls : stage[c] \in {"idle", "done", "failed"}
  /\ stream = <<>>
  /\ UNCHANGED vars

Send(c) == SendAsync(c) \/ SendSync(c)
Proceed(c) == OnPiece(c) \/ SyncWrites(c)
Receive == ReadLength \/ ReadBody \/ Deliver \/ ReceiveFails

Next ==
  \/ \E c \in Calls : Send(c) \/ Proceed(c)
  \/ ReactorWrites
  \/ Receive
  \/ WriterDisconnects \/ ReaderDisconnects
  \/ Idle

Spec == Init /\ [][Next]_vars

\* Handlers that are ready run, the reactor looks after the socket and the
\* reader goes on reading, as CoreServer's sessions do.  Of an agent, the reader of
\* what the core sends, this is assumed: one that stops holds up its writers.
Fairness ==
  /\ \A c \in Calls : WF_vars(Proceed(c))
  /\ WF_vars(ReactorWrites)
  /\ WF_vars(Receive)

FairSpec == Spec /\ Fairness

-------------------------------------------------------------------------------
(* Properties *)

\* A continuation is called, and send_sync returns without an error, only when
\* every unit is written; an error is only met when the connection is gone
\* (asio_communicator.cpp:55-64, 101-106).
OutcomeIsTrue ==
  \A c \in Calls : /\ stage[c] = "done" => Left(c) = 0
                   /\ stage[c] = "failed" => conn # "up" /\ Left(c) > 0

\* Frames arrive whole and in the order they were sent, up to the first that
\* is not written in the call that sends it, is sent while another is being
\* written, or is sent in a group (communicator_t.hpp:33-36).
RefinesFrameChannel == Channel!Spec

\* What is handed over undisturbed arrives, unless the reader goes.
SafeArrives ==
  (Len(delivered) < safe) ~> (Len(delivered) >= safe \/ conn = "reader")

\* Every call comes to an end, however small the pieces and whatever is in
\* the frames that are read.
Ended == \A c \in Calls : stage[c] \in {"idle", "done", "failed"}
CallsEnd == ~Ended ~> Ended
===============================================================================
