-------------------------- MODULE CoreServerOutcomes --------------------------
(***************************************************************************)
(* What becomes of every message an agent's session reads, for any number  *)
(* of connections, keys, threads and frames.  The invariant follows each   *)
(* message by itself: the frames, messages in flight and losses that bear  *)
(* its number are none before it is read and one from then on.             *)
(***************************************************************************)
EXTENDS CoreServerProofs, FiniteSetTheorems

NoneOf(a, b, c, d) == a = {} /\ b = {} /\ c = {} /\ d = {}

OneOf(a, b, c, d) ==
  \/ (\E x : a = {x}) /\ b = {} /\ c = {} /\ d = {}
  \/ a = {} /\ (\E x : b = {x}) /\ c = {} /\ d = {}
  \/ a = {} /\ b = {} /\ (\E x : c = {x}) /\ d = {}
  \/ a = {} /\ b = {} /\ c = {} /\ (\E x : d = {x})

HasNone(c, n) ==
  NoneOf(Delivered(c, n), Reported(c, n), Pending(c, n), LostOf(c, n))
HasOne(c, n) ==
  OneOf(Delivered(c, n), Reported(c, n), Pending(c, n), LostOf(c, n))

\* A message has no outcome before it is read; once it is read it has one, or,
\* if its sender has gone, at most one.
Fated(c, n) ==
  /\ HasNone(c, n) \/ HasOne(c, n)
  /\ n > got[c] => HasNone(c, n)
  /\ open[c] /\ n <= got[c] => HasOne(c, n)

\* The first two frames are read by the handshake.
HandshakeReadsTwo ==
  \A c \in Conns : /\ hs[c] \in {"none", "backlog", "rcvId"} => got[c] = 0
                   /\ hs[c] = "rcvAnswer" => got[c] <= 1

AllFated == \A c \in Conns, n \in 3..MaxFrames : Fated(c, n)

-------------------------------------------------------------------------------
(* Writing a frame *)

Indices(d, f) == {i \in DOMAIN out[d] : out[d][i] = f}

\* A frame that is not the one written is where it was, and nowhere else.
LEMMA OtherFramesStay ==
  ASSUME out \in [Conns -> Seq(Frames)], NEW d \in Conns, NEW f \in Frames,
         Send(d, f), NEW g, g # f, NEW e \in Conns
  PROVE  Indices(e, g)' = Indices(e, g)
<1>1. out[e] \in Seq(Frames)
  OBVIOUS
<1>2. CASE e = d /\ open[d]
  <2>1. out'[e] = Append(out[e], f)
    BY <1>2 DEF Send
  <2>2. \A i : i \in DOMAIN out'[e] /\ out'[e][i] = g
               <=> i \in DOMAIN out[e] /\ out[e][i] = g
    BY <1>1, <2>1
  <2> QED BY <2>2 DEF Indices
<1>3. CASE ~(e = d /\ open[d])
  <2>1. out'[e] = out[e]
    BY <1>3 DEF Send
  <2> QED BY <2>1 DEF Indices
<1> QED BY <1>2, <1>3

\* The frame written is where it was and, if it is written, at the end.
LEMMA FrameIsLast ==
  ASSUME out \in [Conns -> Seq(Frames)], NEW d \in Conns, NEW f \in Frames,
         Send(d, f)
  PROVE  /\ open[d] => \E i : Indices(d, f)' = Indices(d, f) \union {i}
         /\ ~open[d] => Indices(d, f)' = Indices(d, f)
         /\ \A e \in Conns : e # d => Indices(e, f)' = Indices(e, f)
<1>1. CASE open[d]
  <2>1. out'[d] = Append(out[d], f) /\ out[d] \in Seq(Frames)
    BY <1>1 DEF Send
  <2>2. \A i : i \in DOMAIN out'[d] /\ out'[d][i] = f
               <=> \/ i \in DOMAIN out[d] /\ out[d][i] = f
                   \/ i = Len(out[d]) + 1
    BY <2>1
  <2>3. Indices(d, f)' = Indices(d, f) \union {Len(out[d]) + 1}
    BY <2>2 DEF Indices
  <2>4. \A e \in Conns : e # d => out'[e] = out[e]
    BY <1>1 DEF Send
  <2> QED BY <1>1, <2>3, <2>4 DEF Indices
<1>2. CASE ~open[d]
  <2>1. out' = out
    BY <1>2 DEF Send
  <2> QED BY <1>2, <2>1 DEF Indices
<1> QED BY <1>1, <1>2

\* What has been delivered and reported, by where its frame is.
LEMMA OutcomesAreFrames ==
  ASSUME NEW c \in Conns, NEW n
  PROVE  /\ Delivered(c, n) = {d \in Conns : Indices(d, Frame("content", c, n)) # {}}
         /\ Reported(c, n) = Indices(c, Frame("dlgerr", c, n))
         /\ Delivered(c, n)' = {d \in Conns : Indices(d, Frame("content", c, n))' # {}}
         /\ Reported(c, n)' = Indices(c, Frame("dlgerr", c, n))'
BY DEF Delivered, Reported, Indices

\* Writing a frame that is not about message n of c does not change what has
\* become of it.
LEMMA OutcomesStay ==
  ASSUME out \in [Conns -> Seq(Frames)], NEW d \in Conns, NEW f \in Frames,
         Send(d, f), NEW c \in Conns, NEW n
  PROVE  /\ f # Frame("content", c, n) => Delivered(c, n)' = Delivered(c, n)
         /\ f # Frame("dlgerr", c, n) => Reported(c, n)' = Reported(c, n)
<1>1. ASSUME f # Frame("content", c, n) PROVE Delivered(c, n)' = Delivered(c, n)
  <2>1. \A e \in Conns : Indices(e, Frame("content", c, n))'
                          = Indices(e, Frame("content", c, n))
    BY <1>1, OtherFramesStay
  <2>2. \A e \in Conns : e \in Delivered(c, n)' <=> e \in Delivered(c, n)
    BY <2>1 DEF Delivered, Indices
  <2> QED BY <2>2 DEF Delivered
<1>2. ASSUME f # Frame("dlgerr", c, n) PROVE Reported(c, n)' = Reported(c, n)
  <2>1. Indices(c, Frame("dlgerr", c, n))' = Indices(c, Frame("dlgerr", c, n))
    BY <1>2, OtherFramesStay
  <2> QED BY <2>1, OutcomesAreFrames
<1> QED BY <1>1, <1>2

-------------------------------------------------------------------------------
(* The steps *)

\* A step that does not touch what has become of a message, nor read it.
LEMMA FateStays ==
  ASSUME NEW c \in Conns, NEW n, Fated(c, n),
         Delivered(c, n)' = Delivered(c, n), Reported(c, n)' = Reported(c, n),
         Pending(c, n)' = Pending(c, n), LostOf(c, n)' = LostOf(c, n),
         n > got'[c] <=> n > got[c], n <= got'[c] <=> n <= got[c],
         open'[c] /\ n <= got'[c] => open[c]
  PROVE  Fated(c, n)'
BY DEF Fated, HasNone, HasOne

\* The same of a step that leaves all that is about messages alone.
LEMMA FatesStay ==
  ASSUME UNCHANGED <<out, inflight, lost, got>>, AllFated,
         \A c \in Conns, n \in 3..MaxFrames :
           open'[c] /\ n <= got[c] => open[c]
  PROVE  AllFated'
<1> SUFFICES ASSUME NEW c \in Conns, NEW n \in 3..MaxFrames PROVE Fated(c, n)'
  BY DEF AllFated
<1>1. /\ Delivered(c, n)' = Delivered(c, n) /\ Reported(c, n)' = Reported(c, n)
      /\ Pending(c, n)' = Pending(c, n) /\ LostOf(c, n)' = LostOf(c, n)
  BY DEF Delivered, Reported, Pending, LostOf
<1>2. Fated(c, n)
  BY DEF AllFated
<1> QED BY <1>1, <1>2, FateStays

\* Clients read nothing and are told nothing; a client that opens a connection
\* has sent nothing on it.
LEMMA ClientFates ==
  ASSUME TypeOK, HandshakeReadsTwo, AllFated, NEW c \in Conns, Client(c)
  PROVE  HandshakeReadsTwo' /\ AllFated'
<1>1. UNCHANGED <<out, inflight, lost, got>>
  BY DEF Client, Connect, ClientSend, ClientClose, relayVars
<1>2. \A d \in Conns, n \in 3..MaxFrames : open'[d] /\ n <= got[d] => open[d]
  BY DEF Client, Connect, ClientSend, ClientClose, HsGoes, HandshakeReadsTwo, TypeOK
<1>3. HandshakeReadsTwo'
  BY <1>1 DEF Client, Connect, ClientSend, ClientClose, HsGoes, HandshakeReadsTwo, TypeOK
<1> QED BY <1>1, <1>2, <1>3, FatesStay

\* The handshake reads two frames and writes notices.
LEMMA HandshakeFates ==
  ASSUME TypeOK, HandshakeReadsTwo, AllFated, NEW c \in Conns, Handshake(c)
  PROVE  HandshakeReadsTwo' /\ AllFated'
<1> USE DEF HsGoes, RdGoes, dirVars, relayVars, commVars
<1>1. UNCHANGED <<inflight, lost, open>>
  BY DEF Handshake, Accept, OnId, OnHandshakeError, OnAnswer, Add, AddDone,
     Start, Welcome, Refuse, Received
<1>2. \/ UNCHANGED got
      \/ /\ hs[c] \in {"rcvId", "rcvAnswer"}
         /\ got' = [got EXCEPT ![c] = @ + 1]
  BY DEF Handshake, Accept, OnId, OnHandshakeError, OnAnswer, Add, AddDone,
     Start, Welcome, Refuse, Received
<1>3. got \in [Conns -> 0..MaxFrames] /\ got' \in [Conns -> Int]
  BY <1>2, BoundsAssumption DEF TypeOK
<1>4. HandshakeReadsTwo'
  <2>1. CASE OnId(c)
    BY <1>3, <2>1 DEF OnId, Received, HandshakeReadsTwo, TypeOK
  <2>2. CASE OnAnswer(c)
    BY <1>3, <2>2 DEF OnAnswer, Received, HandshakeReadsTwo, TypeOK
  <2>3. CASE UNCHANGED got /\ ~OnId(c) /\ ~OnAnswer(c)
    BY <2>3 DEF Handshake, Accept, OnHandshakeError, Add, AddDone,
       Start, Welcome, Refuse, HandshakeReadsTwo, TypeOK
  <2> QED BY <2>1, <2>2, <2>3 DEF Handshake, Accept, OnHandshakeError, Add,
          AddDone, Start, Welcome, Refuse
<1>5. ASSUME NEW d \in Conns, NEW n \in 3..MaxFrames PROVE Fated(d, n)'
  <2>1. /\ n > got'[d] <=> n > got[d]
        /\ n <= got'[d] <=> n <= got[d]
    <3>1. got[d] \in Int /\ got'[d] \in Int /\ (got[d] # got'[d] => got'[d] <= 2 /\ got[d] <= 1)
      BY <1>2, <1>3, BoundsAssumption DEF HandshakeReadsTwo
    <3> QED BY <3>1, BoundsAssumption
  <2>2. Pending(d, n)' = Pending(d, n) /\ LostOf(d, n)' = LostOf(d, n)
    BY <1>1 DEF Pending, LostOf
  <2>3. Delivered(d, n)' = Delivered(d, n) /\ Reported(d, n)' = Reported(d, n)
    <3>1. CASE UNCHANGED out
      BY <3>1 DEF Delivered, Reported
    <3>2. ASSUME NEW kind \in {"phrase", "failure", "connected", "refused"},
                 Send(c, Notice(kind))
          PROVE  Delivered(d, n)' = Delivered(d, n) /\ Reported(d, n)' = Reported(d, n)
      <4>1. /\ Notice(kind) \in Frames /\ Notice(kind) # Frame("content", d, n)
            /\ Notice(kind) # Frame("dlgerr", d, n)
        BY FrameTypes DEF Frame, Notice
      <4> QED BY <3>2, <4>1, OutcomesStay DEF TypeOK
    <3> QED BY <3>1, <3>2 DEF Handshake, Accept, OnId, OnHandshakeError,
            OnAnswer, Add, AddDone, Start, Welcome, Refuse
  <2>4. Fated(d, n) /\ open' = open
    BY <1>1 DEF AllFated
  <2> QED BY <2>1, <2>2, <2>3, <2>4, FateStays
<1> QED BY <1>4, <1>5 DEF AllFated

\* A message that was read is looked up, or its sender is told that there is
\* nobody to send it to.
LEMMA OnMessageFates ==
  ASSUME TypeOK, TypeOK', HandshakeReadsTwo, AllFated, StagesAgree,
         NEW c \in Conns, OnMessage(c)
  PROVE  HandshakeReadsTwo' /\ AllFated'
<1> USE DEF RdGoes, dirVars
<1>1. /\ Received(c) /\ rd[c] = "armed" /\ UNCHANGED <<hs, open, lost>>
      /\ hs[c] \in {"welcome", "served"}
  BY DEF OnMessage, Received, StagesAgree
<1>2. /\ got'[c] = got[c] + 1 /\ \A d \in Conns : d # c => got'[d] = got[d]
      /\ \A d \in Conns : got[d] \in Nat /\ got'[d] \in Nat
      /\ got'[c] \in 1..MaxFrames
  <2>1. got \in [Conns -> 0..MaxFrames] /\ got' \in [Conns -> 0..MaxFrames]
    BY DEF TypeOK
  <2>2. /\ got'[c] = got[c] + 1
        /\ \A d \in Conns : d # c => got'[d] = got[d]
    BY <1>1, ReceivedGrows
  <2>3. \A d \in Conns : got[d] \in Nat /\ got'[d] \in Nat
    BY <2>1, CountsAreNumbers
  <2> QED BY <2>1, <2>2, <2>3, BoundsAssumption
<1>3. HandshakeReadsTwo'
  BY <1>1, <1>2 DEF HandshakeReadsTwo
<1>k. PICK k \in 1..MaxFrames : k = got'[c]
  BY <1>2
<1>4. PICK to \in Keys, found \in Conns \union {None} :
        IF found = None
          THEN Send(c, Frame("dlgerr", c, k)) /\ UNCHANGED inflight
          ELSE /\ inflight' = inflight \union
                    {[from |-> c, n |-> k, via |-> found]}
               /\ UNCHANGED out
  BY <1>k DEF OnMessage
<1>5. ASSUME NEW d \in Conns, NEW n \in 3..MaxFrames, ~(d = c /\ n = k)
      PROVE  Fated(d, n)'
  <2>1. /\ n > got'[d] <=> n > got[d]
        /\ n <= got'[d] <=> n <= got[d]
    BY <1>2, <1>k, <1>5, BoundsAssumption
  <2>2. LostOf(d, n)' = LostOf(d, n) /\ Fated(d, n)
    BY <1>1 DEF LostOf, AllFated
  <2>3. /\ Delivered(d, n)' = Delivered(d, n) /\ Reported(d, n)' = Reported(d, n)
        /\ Pending(d, n)' = Pending(d, n)
    <3>1. CASE found = None
      <4>1. /\ Frame("dlgerr", c, k) \in Frames
            /\ Frame("dlgerr", c, k) # Frame("content", d, n)
            /\ Frame("dlgerr", c, k) # Frame("dlgerr", d, n)
        BY <1>2, <1>5, FrameTypes DEF Frame
      <4>2. Send(c, Frame("dlgerr", c, k)) /\ UNCHANGED inflight
        BY <1>4, <3>1
      <4> QED BY <4>1, <4>2, OutcomesStay DEF TypeOK, Pending
    <3>2. CASE found # None
      <4>1. /\ inflight' = inflight \union {[from |-> c, n |-> k, via |-> found]}
            /\ UNCHANGED out
        BY <1>4, <3>2
      <4>2. Pending(d, n)' = Pending(d, n)
        BY <1>5, <4>1 DEF Pending
      <4> QED BY <4>1, <4>2 DEF Delivered, Reported
    <3> QED BY <3>1, <3>2
  <2> QED BY <1>1, <2>1, <2>2, <2>3, FateStays
<1>6. ASSUME k \in 3..MaxFrames PROVE Fated(c, k)'
  <2>1. HasNone(c, k)
    BY <1>2, <1>k, <1>6 DEF AllFated, Fated
  <2>2. LostOf(c, k)' = {}
    BY <1>1, <2>1 DEF LostOf, HasNone, NoneOf
  <2>3. HasOne(c, k)' \/ (HasNone(c, k)' /\ ~open'[c])
    <3>1. CASE found = None
      <4>1. /\ Frame("dlgerr", c, k) \in Frames
            /\ Frame("dlgerr", c, k) # Frame("content", c, k)
        BY <1>2, FrameTypes DEF Frame
      <4>2. Send(c, Frame("dlgerr", c, k)) /\ UNCHANGED inflight
        BY <1>4, <3>1
      <4>3. Delivered(c, k)' = {} /\ Pending(c, k)' = {}
        BY <2>1, <4>1, <4>2, OutcomesStay DEF TypeOK, Pending, HasNone, NoneOf
      <4>4. /\ open[c] => \E i : Reported(c, k)' = {i}
            /\ ~open[c] => Reported(c, k)' = {}
        <5>1. /\ Reported(c, k) = Indices(c, Frame("dlgerr", c, k))
              /\ Reported(c, k)' = Indices(c, Frame("dlgerr", c, k))'
              /\ Reported(c, k) = {}
          BY <2>1, OutcomesAreFrames DEF HasNone, NoneOf
        <5>2. /\ open[c] => \E i : Reported(c, k)' = Reported(c, k) \union {i}
              /\ ~open[c] => Reported(c, k)' = Reported(c, k)
          BY <4>1, <4>2, <5>1, FrameIsLast DEF TypeOK
        <5> QED BY <5>1, <5>2
      <4> QED BY <1>1, <2>2, <4>3, <4>4 DEF HasOne, HasNone, OneOf, NoneOf
    <3>2. CASE found # None
      <4>1. /\ inflight' = inflight \union {[from |-> c, n |-> k, via |-> found]}
            /\ UNCHANGED out
        BY <1>4, <3>2
      <4>2. Pending(c, k)' = {[from |-> c, n |-> k, via |-> found]}
        BY <2>1, <4>1 DEF Pending, HasNone, NoneOf
      <4>3. Delivered(c, k)' = {} /\ Reported(c, k)' = {}
        BY <2>1, <4>1 DEF Delivered, Reported, HasNone, NoneOf
      <4> QED BY <2>2, <4>2, <4>3 DEF HasOne, OneOf
    <3> QED BY <3>1, <3>2
  <2>4. ~(k > got'[c])
    BY <1>k, <1>2
  <2> QED BY <2>3, <2>4 DEF Fated
<1>7. AllFated'
  BY <1>5, <1>6 DEF AllFated
<1> QED BY <1>3, <1>7

\* A message in flight is its sender's only one with that number; when it is
\* written it is delivered or lost.
LEMMA RelayFates ==
  ASSUME TypeOK, HandshakeReadsTwo, AllFated, InflightIsRelayed, InflightIsLast,
         NEW m \in inflight, Relay(m)
  PROVE  HandshakeReadsTwo' /\ AllFated'
<1> USE DEF dirVars
<1>1. m.from \in Conns /\ m.via \in Conns /\ m.n \in 1..MaxFrames
  BY DEF TypeOK, Messages
<1>2. /\ inflight' = inflight \ {m} /\ UNCHANGED <<hs, got, open>>
      /\ Send(m.via, Frame("content", m.from, m.n))
  BY DEF Relay
<1>3. /\ open[m.via] => UNCHANGED lost
      /\ ~open[m.via] => \E ec \in BOOLEAN :
           lost' = lost \union {[from |-> m.from, n |-> m.n, err |-> ec]}
  BY DEF Relay
<1>4. HandshakeReadsTwo'
  BY <1>2 DEF HandshakeReadsTwo
<1>5. Frame("content", m.from, m.n) \in Frames
  BY <1>1, FrameTypes
<1>6. ASSUME NEW c \in Conns, NEW n \in 3..MaxFrames, ~(c = m.from /\ n = m.n)
      PROVE  Fated(c, n)'
  <2>1. /\ Frame("content", m.from, m.n) # Frame("content", c, n)
        /\ Frame("content", m.from, m.n) # Frame("dlgerr", c, n)
    BY <1>6 DEF Frame
  <2>2. Delivered(c, n)' = Delivered(c, n) /\ Reported(c, n)' = Reported(c, n)
    BY <1>1, <1>2, <1>5, <2>1, OutcomesStay DEF TypeOK
  <2>3. Pending(c, n)' = Pending(c, n)
    BY <1>2, <1>6 DEF Pending
  <2>4. LostOf(c, n)' = LostOf(c, n)
    <3>1. CASE open[m.via]
      BY <1>3, <3>1 DEF LostOf
    <3>2. CASE ~open[m.via]
      <4>1. PICK ec \in BOOLEAN :
              lost' = lost \union {[from |-> m.from, n |-> m.n, err |-> ec]}
        BY <1>3, <3>2
      <4> QED BY <1>6, <4>1 DEF LostOf
    <3> QED BY <3>1, <3>2
  <2> QED BY <1>2, <2>2, <2>3, <2>4, FateStays DEF AllFated
<1>7. ASSUME m.n \in 3..MaxFrames PROVE Fated(m.from, m.n)'
  <2> DEFINE c == m.from
             n == m.n
  <2>1. m \in Pending(c, n) /\ Fated(c, n)
    BY <1>1, <1>7 DEF Pending, AllFated
  <2>2. /\ Delivered(c, n) = {} /\ Reported(c, n) = {} /\ LostOf(c, n) = {}
        /\ Pending(c, n) = {m}
    BY <2>1 DEF Fated, HasNone, HasOne, NoneOf, OneOf
  <2>3. Pending(c, n)' = {}
    BY <1>2, <2>2 DEF Pending
  <2>4. Reported(c, n)' = {}
    <3>1. Frame("content", c, n) # Frame("dlgerr", c, n)
      BY DEF Frame
    <3> QED BY <1>1, <1>2, <1>5, <2>2, <3>1, OutcomesStay DEF TypeOK
  <2>5. HasOne(c, n)'
    <3>1. CASE open[m.via]
      <4>1. LostOf(c, n)' = {}
        BY <1>3, <2>2, <3>1 DEF LostOf
      <4>2. \A d \in Conns : Indices(d, Frame("content", c, n)) = {}
        BY <2>2, OutcomesAreFrames, <1>1
      <4>3. /\ Indices(m.via, Frame("content", c, n))' # {}
            /\ \A d \in Conns : d # m.via => Indices(d, Frame("content", c, n))' = {}
        <5>1. /\ \E i : Indices(m.via, Frame("content", c, n))'
                          = Indices(m.via, Frame("content", c, n)) \union {i}
              /\ \A d \in Conns : d # m.via =>
                   Indices(d, Frame("content", c, n))'
                     = Indices(d, Frame("content", c, n))
          BY <1>1, <1>2, <1>5, <3>1, FrameIsLast DEF TypeOK
        <5> QED BY <1>1, <4>2, <5>1
      <4>4. Delivered(c, n)' = {m.via}
        BY <1>1, <4>3 DEF Delivered, Indices
      <4> QED BY <2>3, <2>4, <4>1, <4>4 DEF HasOne, OneOf
    <3>2. CASE ~open[m.via]
      <4>1. PICK ec \in BOOLEAN :
              lost' = lost \union {[from |-> c, n |-> n, err |-> ec]}
        BY <1>3, <3>2
      <4>2. LostOf(c, n)' = {[from |-> c, n |-> n, err |-> ec]}
        BY <2>2, <4>1 DEF LostOf
      <4>3. out' = out
        BY <1>2, <3>2 DEF Send
      <4>4. Delivered(c, n)' = {}
        BY <2>2, <4>3 DEF Delivered
      <4> QED BY <2>3, <2>4, <4>2, <4>4 DEF HasOne, OneOf
    <3> QED BY <3>1, <3>2
  <2>6. ~(n > got'[c])
    <3>1. m.n = got[m.from] /\ got' = got
      BY <1>2 DEF InflightIsLast
    <3> QED BY <1>1, <3>1, BoundsAssumption
  <2> QED BY <2>5, <2>6 DEF Fated
<1> QED BY <1>4, <1>6, <1>7 DEF AllFated

LEMMA NextFates ==
  ASSUME IInv, IInv', Relaying, HandshakeReadsTwo, AllFated, [Next]_vars
  PROVE  HandshakeReadsTwo' /\ AllFated'
<1>1. TypeOK /\ TypeOK' /\ StagesAgree /\ InflightIsRelayed /\ InflightIsLast
  BY DEF IInv, Relaying
<1>2. ASSUME UNCHANGED <<hs, open, out, inflight, lost, got>>
      PROVE  HandshakeReadsTwo' /\ AllFated'
  <2>1. AllFated'
    BY <1>2, FatesStay
  <2> QED BY <1>2, <2>1 DEF HandshakeReadsTwo
<1>3. ASSUME NEW c \in Conns, Client(c) PROVE HandshakeReadsTwo' /\ AllFated'
  BY <1>1, <1>3, ClientFates
<1>4. ASSUME NEW c \in Conns, Handshake(c) PROVE HandshakeReadsTwo' /\ AllFated'
  BY <1>1, <1>4, HandshakeFates
<1>5. ASSUME NEW c \in Conns, ReadLoop(c) PROVE HandshakeReadsTwo' /\ AllFated'
  <2>1. CASE OnMessage(c)
    BY <1>1, <2>1, OnMessageFates
  <2>2. CASE OnReadError(c) \/ Remove(c) \/ RemoveDone(c)
    <3>1. UNCHANGED <<hs, open, out, inflight, lost, got>>
      BY <2>2 DEF OnReadError, Remove, RemoveDone, relayVars, commVars
    <3> QED BY <1>2, <3>1
  <2>3. ASSUME NEW m \in inflight, Relay(m) PROVE HandshakeReadsTwo' /\ AllFated'
    BY <1>1, <2>3, RelayFates
  <2> QED BY <1>5, <2>1, <2>2, <2>3 DEF ReadLoop
<1>6. ASSUME AcceptFails \/ UNCHANGED vars PROVE HandshakeReadsTwo' /\ AllFated'
  BY <1>2, <1>6 DEF AcceptFails, vars, relayVars, commVars
<1>7. \/ \E c \in Conns : Client(c) \/ Handshake(c) \/ ReadLoop(c)
      \/ AcceptFails \/ UNCHANGED vars
  BY DEF Next, Idle
<1> QED BY <1>3, <1>4, <1>5, <1>6, <1>7

\* What has one element counts one.
LEMMA FatesCount ==
  ASSUME NEW c, NEW n
  PROVE  /\ HasNone(c, n) => Outcomes(c, n) = 0
         /\ HasOne(c, n) => Outcomes(c, n) = 1
<1>1. Cardinality({}) = 0
  BY FS_EmptySet
<1>2. \A x : Cardinality({x}) = 1
  BY FS_Singleton
<1>3. HasNone(c, n) => Outcomes(c, n) = 0
  BY <1>1 DEF HasNone, NoneOf, Outcomes
<1>4. HasOne(c, n) => Outcomes(c, n) = 1
  <2> SUFFICES ASSUME HasOne(c, n) PROVE Outcomes(c, n) = 1
    OBVIOUS
  <2> DEFINE D == Cardinality(Delivered(c, n))
             R == Cardinality(Reported(c, n))
             P == Cardinality(Pending(c, n))
             L == Cardinality(LostOf(c, n))
  <2>1. \/ D = 1 /\ R = 0 /\ P = 0 /\ L = 0
        \/ D = 0 /\ R = 1 /\ P = 0 /\ L = 0
        \/ D = 0 /\ R = 0 /\ P = 1 /\ L = 0
        \/ D = 0 /\ R = 0 /\ P = 0 /\ L = 1
    BY <1>1, <1>2, Zenon DEF HasOne, OneOf
  <2>2. Outcomes(c, n) = D + R + P + L
    BY DEF Outcomes
  <2> HIDE DEF D, R, P, L
  <2> QED BY <2>1, <2>2
<1> QED BY <1>3, <1>4

\* Every message a session has read is in flight, delivered, reported as
\* undeliverable or lost with its receiver, one of them and once, for any
\* number of threads and connections; a sender that is still there misses
\* nothing (AgentSession::read, process_message and send).
THEOREM MessagesHaveOneOutcome == Spec => []OneOutcomePerMessage
<1>1. Init => HandshakeReadsTwo /\ AllFated
  <2> SUFFICES ASSUME Init PROVE HandshakeReadsTwo /\ AllFated
    OBVIOUS
  <2>1. HandshakeReadsTwo
    BY DEF Init, HandshakeReadsTwo
  <2>2. ASSUME NEW c \in Conns, NEW n \in 3..MaxFrames PROVE Fated(c, n)
    <3>1. HasNone(c, n)
      BY DEF Init, HasNone, NoneOf, Delivered, Reported, Pending, LostOf
    <3>2. ~open[c]
      BY DEF Init
    <3> QED BY <3>1, <3>2 DEF Fated
  <2> QED BY <2>1, <2>2 DEF AllFated
<1>2. TypeOK /\ AllFated => OneOutcomePerMessage
  <2> SUFFICES ASSUME TypeOK, AllFated, NEW c \in Conns, NEW n \in 3..MaxFrames
               PROVE  /\ Outcomes(c, n) <= (IF n <= got[c] THEN 1 ELSE 0)
                      /\ open[c] /\ n <= got[c] => Outcomes(c, n) = 1
    BY DEF OneOutcomePerMessage
  <2>1. Fated(c, n) /\ (n <= got[c] \/ n > got[c])
    BY BoundsAssumption DEF AllFated, TypeOK
  <2> QED BY <2>1, FatesCount DEF Fated
<1>3. IInv => TypeOK
  BY DEF IInv
<1> QED BY <1>1, <1>2, <1>3, NextFates, AlwaysRelaying, PTL DEF Spec
===============================================================================
