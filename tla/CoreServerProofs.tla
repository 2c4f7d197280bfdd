--------------------------- MODULE CoreServerProofs ---------------------------
(***************************************************************************)
(* Theorems about CoreServer for every number of connections, keys,        *)
(* threads and frames.  The inductive invariant ties the three places the  *)
(* code keeps a session's life in (the handshake's position, the read      *)
(* loop's position and the directory) to one another and to the mutex.     *)
(***************************************************************************)
EXTENDS CoreServer, TLAPS

\* A connection has no read loop before start and one from then on.
StagesAgree ==
  \A c \in Conns : rd[c] = "off" <=> hs[c] \notin {"welcome", "served"}

\* The mutex is held for a change exactly by the handler that is making it.
WriterIsInside ==
  \A c \in Conns : writer = c <=> hs[c] = "adding" \/ rd[c] = "removing"

\* The key is still free while add is putting its session in.
AddingFindsRoom ==
  \A c \in Conns : hs[c] = "adding" => sessions[KeyOf[c]] = None

\* A message in flight is the one its sender's handler is relaying.
InflightIsRelayed ==
  /\ \A m \in inflight : rd[m.from] = "relay"
  /\ \A m, n \in inflight : m.from = n.from => m = n

\* What has been read and what waits to be read are frames that were sent.
FramesBounded == \A c \in Conns : got[c] + avail[c] \in 0..MaxFrames

IInv == /\ TypeOK
        /\ FramesBounded
        /\ StagesAgree
        /\ WriterIsInside
        /\ AddingFindsRoom
        /\ InflightIsRelayed
        /\ DirectoryMatchesSessions

-------------------------------------------------------------------------------
(* Types *)

\* The frames the server writes are frames.
LEMMA FrameTypes ==
  /\ \A kind \in {"phrase", "failure", "connected", "refused"} :
       Notice(kind) \in Frames
  /\ \A kind \in {"content", "dlgerr"}, c \in Conns, n \in 1..MaxFrames :
       Frame(kind, c, n) \in Frames
BY DEF Notice, Frame, Frames

\* Writing a frame leaves every connection a sequence of frames.
LEMMA SendType ==
  ASSUME out \in [Conns -> Seq(Frames)], NEW c \in Conns,
         NEW f \in Frames, Send(c, f)
  PROVE  out' \in [Conns -> Seq(Frames)]
BY DEF Send

\* Reading a frame keeps the counts of frames in their range, and numbers the
\* frame.
LEMMA ReceivedType ==
  ASSUME TypeOK, FramesBounded, NEW c \in Conns, Received(c)
  PROVE  /\ avail' \in [Conns -> 0..MaxFrames]
         /\ got' \in [Conns -> 0..MaxFrames]
         /\ open' \in [Conns -> BOOLEAN]
         /\ got'[c] \in 1..MaxFrames
         /\ FramesBounded'
<1>1. avail[c] \in Nat /\ got[c] \in Nat /\ MaxFrames \in Nat
  BY BoundsAssumption DEF TypeOK
<1>2. avail[c] > 0 /\ got[c] + avail[c] <= MaxFrames
  BY <1>1 DEF Received, FramesBounded
<1>3. avail[c] - 1 \in 0..MaxFrames /\ got[c] + 1 \in 1..MaxFrames
  BY <1>1, <1>2
<1>4. /\ avail' = [avail EXCEPT ![c] = avail[c] - 1]
      /\ got' = [got EXCEPT ![c] = got[c] + 1]
      /\ open' = open
  BY DEF Received
<1>5. /\ avail' \in [Conns -> 0..MaxFrames]
      /\ got' \in [Conns -> 0..MaxFrames]
      /\ open' \in [Conns -> BOOLEAN]
      /\ got'[c] \in 1..MaxFrames
  BY <1>1, <1>3, <1>4 DEF TypeOK
<1>6. ASSUME NEW d \in Conns PROVE got'[d] + avail'[d] = got[d] + avail[d]
  <2>1. CASE d = c
    BY <1>1, <1>4, <2>1 DEF TypeOK
  <2>2. CASE d # c
    BY <1>4, <2>2 DEF TypeOK
  <2> QED BY <2>1, <2>2
<1> QED BY <1>5, <1>6 DEF FramesBounded

\* A step of a client keeps the types.
LEMMA ClientType ==
  ASSUME TypeOK, FramesBounded, NEW c \in Conns, Client(c)
  PROVE  TypeOK' /\ FramesBounded'
<1> USE BoundsAssumption
<1>1. CASE Connect(c)
  BY <1>1 DEF Connect, HsGoes, TypeOK, DirTypeOK, HsStates, FramesBounded,
     dirVars, relayVars
<1>2. CASE ClientSend(c)
  <2>1. avail[c] \in Nat /\ got[c] \in Nat /\ got[c] + avail[c] < MaxFrames
    <3>1. got[c] + avail[c] < FramesOf[c] /\ FramesOf[c] \in 0..MaxFrames
      BY <1>2, FramesAssumption DEF ClientSend
    <3>2. avail[c] \in 0..MaxFrames /\ got[c] \in 0..MaxFrames
      BY DEF TypeOK
    <3> QED BY <3>1, <3>2, BoundsAssumption
  <2>2. avail[c] + 1 \in 0..MaxFrames
    BY <2>1
  <2>3. avail' = [avail EXCEPT ![c] = avail[c] + 1]
    BY <1>2 DEF ClientSend
  <2>4. TypeOK'
    BY <1>2, <2>2, <2>3 DEF ClientSend, TypeOK, DirTypeOK, dirVars, relayVars
  <2>5. ASSUME NEW d \in Conns PROVE got'[d] + avail'[d] \in 0..MaxFrames
    BY <1>2, <2>1, <2>3 DEF ClientSend, TypeOK, FramesBounded
  <2> QED BY <2>4, <2>5 DEF FramesBounded
<1>3. CASE ClientClose(c)
  <2>1. PICK left \in {0, avail[c]} : avail' = [avail EXCEPT ![c] = left]
    BY <1>3 DEF ClientClose
  <2>2. left \in 0..MaxFrames /\ left <= avail[c]
    BY <2>1 DEF TypeOK
  <2>3. TypeOK'
    BY <1>3, <2>1, <2>2 DEF ClientClose, TypeOK, DirTypeOK, dirVars, relayVars
  <2>4. ASSUME NEW d \in Conns PROVE got'[d] + avail'[d] \in 0..MaxFrames
    BY <1>3, <2>1, <2>2 DEF ClientClose, TypeOK, FramesBounded
  <2> QED BY <2>3, <2>4 DEF FramesBounded
<1> QED BY <1>1, <1>2, <1>3 DEF Client

\* A step of accepting or of a handshake keeps the types.
LEMMA HandshakeType ==
  ASSUME TypeOK, FramesBounded, NEW c \in Conns, Handshake(c)
  PROVE  TypeOK' /\ FramesBounded'
<1> USE DEF HsGoes, RdGoes, dirVars, relayVars, commVars, HsStates, RdStates
<1>1. CASE Accept(c)
  BY <1>1 DEF Accept, TypeOK, DirTypeOK, FramesBounded
<1>2. CASE OnId(c)
  <2>1. out' \in [Conns -> Seq(Frames)]
    BY <1>2, SendType, FrameTypes DEF OnId, TypeOK
  <2>2. hs' \in [Conns -> HsStates]
    BY <1>2 DEF OnId, TypeOK
  <2>3. Received(c)
    BY <1>2 DEF OnId
  <2> QED BY <1>2, <2>1, <2>2, <2>3, ReceivedType DEF OnId, TypeOK, DirTypeOK
<1>3. CASE OnHandshakeError(c)
  BY <1>3 DEF OnHandshakeError, TypeOK, DirTypeOK, FramesBounded
<1>4. CASE OnAnswer(c)
  BY <1>4, ReceivedType DEF OnAnswer, TypeOK, DirTypeOK
<1>5. CASE Add(c)
  BY <1>5 DEF Add, AddBegins, AddFails, TypeOK, DirTypeOK, FramesBounded
<1>6. CASE AddDone(c)
  BY <1>6, KeyOfAssumption
     DEF AddDone, AddEnds, TypeOK, DirTypeOK, FramesBounded
<1>7. CASE Start(c)
  BY <1>7 DEF Start, TypeOK, DirTypeOK, FramesBounded
<1>8. CASE Welcome(c)
  <2>1. out' \in [Conns -> Seq(Frames)]
    BY <1>8, SendType, FrameTypes DEF Welcome, TypeOK
  <2> QED BY <1>8, <2>1 DEF Welcome, TypeOK, DirTypeOK, FramesBounded
<1>9. CASE Refuse(c)
  <2>1. out' \in [Conns -> Seq(Frames)]
    BY <1>9, SendType, FrameTypes DEF Refuse, TypeOK
  <2> QED BY <1>9, <2>1 DEF Refuse, TypeOK, DirTypeOK, FramesBounded
<1> QED BY <1>1, <1>2, <1>3, <1>4, <1>5, <1>6, <1>7, <1>8, <1>9 DEF Handshake

\* A step of a session's read loop keeps the types.
LEMMA ReadLoopType ==
  ASSUME TypeOK, FramesBounded, NEW c \in Conns, ReadLoop(c)
  PROVE  TypeOK' /\ FramesBounded'
<1> USE DEF RdGoes, dirVars, relayVars, commVars, RdStates
<1>1. CASE OnMessage(c)
  <2>1. Received(c)
    BY <1>1 DEF OnMessage
  <2>2. PICK to \in Keys, found \in Conns \union {None} :
          IF found = None
            THEN /\ RdGoes(c, "armed", "armed")
                 /\ Send(c, Frame("dlgerr", c, got'[c]))
                 /\ UNCHANGED inflight
            ELSE /\ RdGoes(c, "armed", "relay")
                 /\ inflight' = inflight \union
                      {[from |-> c, n |-> got'[c], via |-> found]}
                 /\ UNCHANGED out
    BY <1>1 DEF OnMessage
  <2>3. got'[c] \in 1..MaxFrames
    BY <2>1, ReceivedType
  <2>4. out' \in [Conns -> Seq(Frames)]
    BY <2>2, <2>3, SendType, FrameTypes DEF TypeOK
  <2>5. inflight' \subseteq Messages
    BY <2>2, <2>3 DEF TypeOK, Messages
  <2>6. rd' \in [Conns -> RdStates]
    BY <2>2 DEF TypeOK
  <2> QED BY <1>1, <2>1, <2>4, <2>5, <2>6, ReceivedType
          DEF OnMessage, TypeOK, DirTypeOK
<1>2. CASE OnReadError(c)
  BY <1>2 DEF OnReadError, TypeOK, DirTypeOK, FramesBounded
<1>3. CASE Remove(c)
  BY <1>3 DEF Remove, RemoveBegins, TypeOK, DirTypeOK, FramesBounded
<1>4. CASE RemoveDone(c)
  BY <1>4, KeyOfAssumption
     DEF RemoveDone, RemoveEnds, TypeOK, DirTypeOK, FramesBounded
<1>5. ASSUME NEW m \in inflight, m.from = c, Relay(m)
      PROVE  TypeOK' /\ FramesBounded'
  <2>1. m \in Messages
    BY DEF TypeOK
  <2>2. m.from \in Conns /\ m.n \in 1..MaxFrames /\ m.via \in Conns
    BY <2>1 DEF Messages
  <2>3. out' \in [Conns -> Seq(Frames)]
    BY <1>5, <2>2, SendType, FrameTypes DEF Relay, TypeOK
  <2>4. lost' \subseteq Losses
    BY <1>5, <2>2 DEF Relay, TypeOK, Losses
  <2>5. rd' \in [Conns -> RdStates] /\ inflight' \subseteq Messages
    BY <1>5 DEF Relay, TypeOK
  <2> QED BY <1>5, <2>3, <2>4, <2>5
          DEF Relay, TypeOK, DirTypeOK, FramesBounded
<1> QED BY <1>1, <1>2, <1>3, <1>4, <1>5 DEF ReadLoop

\* No step leaves the types.
LEMMA NextType == TypeOK /\ FramesBounded /\ [Next]_vars => TypeOK' /\ FramesBounded'
<1> SUFFICES ASSUME TypeOK, FramesBounded, [Next]_vars
             PROVE  TypeOK' /\ FramesBounded'
  OBVIOUS
<1>1. ASSUME NEW c \in Conns, Client(c) \/ Handshake(c) \/ ReadLoop(c)
      PROVE  TypeOK' /\ FramesBounded'
  BY <1>1, ClientType, HandshakeType, ReadLoopType
<1>2. CASE AcceptFails
  <2>1. acceptors - 1 \in 0..Threads
    BY <1>2, ThreadsAssumption DEF AcceptFails, TypeOK
  <2> QED BY <1>2, <2>1 DEF AcceptFails, TypeOK, DirTypeOK, FramesBounded,
            dirVars, relayVars, commVars
<1>3. CASE UNCHANGED vars
  BY <1>3 DEF vars, dirVars, relayVars, commVars, TypeOK, DirTypeOK,
     FramesBounded
<1> QED BY <1>1, <1>2, <1>3 DEF Next, Idle

-------------------------------------------------------------------------------
(* The inductive invariant *)

Shape == StagesAgree /\ WriterIsInside /\ AddingFindsRoom /\ InflightIsRelayed
           /\ DirectoryMatchesSessions

LEMMA InitIInv == Init => IInv
<1> SUFFICES ASSUME Init PROVE IInv
  OBVIOUS
<1> USE BoundsAssumption, ThreadsAssumption, NoneAssumption DEF Init, DirInit
<1>1. TypeOK
  BY DEF TypeOK, DirTypeOK, HsStates, RdStates
<1>2. FramesBounded
  BY DEF FramesBounded
<1>3. StagesAgree /\ WriterIsInside /\ AddingFindsRoom /\ InflightIsRelayed
  BY DEF StagesAgree, WriterIsInside, AddingFindsRoom, InflightIsRelayed
<1>4. DirectoryMatchesSessions
  BY DEF DirectoryMatchesSessions, Holds
<1> QED BY <1>1, <1>2, <1>3, <1>4 DEF IInv

\* A step that changes neither the directory nor the read loops, and moves no
\* handshake in or out of a stage the invariant speaks of.
LEMMA QuietStep ==
  ASSUME TypeOK, Shape, UNCHANGED <<sessions, writer, rd, inflight>>,
         \A c \in Conns :
           hs'[c] = hs[c] \/ {hs[c], hs'[c]} \subseteq
             {"none", "backlog", "rcvId", "rcvAnswer", "add", "refuse",
              "refused", "dropped"}
  PROVE  Shape'
<1>1. \A c \in Conns : \A s \in {"adding", "start", "welcome", "served"} :
        hs'[c] = s <=> hs[c] = s
  OBVIOUS
<1>2. \A c \in Conns : Holds(c)' <=> Holds(c)
  BY <1>1 DEF Holds
<1>3. StagesAgree' /\ WriterIsInside' /\ AddingFindsRoom'
  BY <1>1 DEF Shape, StagesAgree, WriterIsInside, AddingFindsRoom
<1>4. InflightIsRelayed'
  BY DEF Shape, InflightIsRelayed
<1>5. DirectoryMatchesSessions'
  BY <1>2 DEF Shape, DirectoryMatchesSessions, TypeOK, DirTypeOK
<1> QED BY <1>3, <1>4, <1>5 DEF Shape

\* Putting the session of c where there was none, as it becomes a holder.
LEMMA EntryAdded ==
  ASSUME DirTypeOK, DirectoryMatchesSessions, NEW c \in Conns,
         sessions[KeyOf[c]] = None,
         sessions' = [sessions EXCEPT ![KeyOf[c]] = c],
         Holds(c)', \A d \in Conns : d # c => (Holds(d)' <=> Holds(d))
  PROVE  DirectoryMatchesSessions'
<1>1. KeyOf[c] \in Keys /\ sessions'[KeyOf[c]] = c
  BY KeyOfAssumption DEF DirTypeOK
<1>2. \A k \in Keys : k # KeyOf[c] => sessions'[k] = sessions[k]
  BY DEF DirTypeOK
<1>3. ASSUME NEW k \in Keys, sessions'[k] # None
      PROVE  KeyOf[sessions'[k]] = k /\ Holds(sessions[k])'
  <2>1. CASE k = KeyOf[c]
    BY <1>1, <2>1
  <2>2. CASE k # KeyOf[c]
    <3>1. sessions[k] # None /\ sessions'[k] = sessions[k]
      BY <1>2, <1>3, <2>2
    <3>2. KeyOf[sessions[k]] = k /\ Holds(sessions[k]) /\ sessions[k] \in Conns
      BY <3>1 DEF DirectoryMatchesSessions, DirTypeOK
    <3> QED BY <3>1, <3>2
  <2> QED BY <2>1, <2>2
<1>4. ASSUME NEW d \in Conns, Holds(d)'
      PROVE  sessions'[KeyOf[d]] = d
  <2>1. CASE d = c
    BY <1>1, <2>1
  <2>2. CASE d # c
    <3>1. sessions[KeyOf[d]] = d /\ KeyOf[d] \in Keys
      BY <1>4, <2>2, KeyOfAssumption DEF DirectoryMatchesSessions
    <3>2. KeyOf[d] # KeyOf[c]
      BY <3>1, NoneAssumption
    <3> QED BY <1>2, <3>1, <3>2
  <2> QED BY <2>1, <2>2
<1> QED BY <1>3, <1>4 DEF DirectoryMatchesSessions

LEMMA HandshakeShape ==
  ASSUME TypeOK, Shape, NEW c \in Conns, Handshake(c)
  PROVE  Shape'
<1> USE DEF HsGoes, RdGoes, dirVars, relayVars, commVars
<1>1. CASE Accept(c)
  BY <1>1, QuietStep DEF Accept, TypeOK
<1>2. CASE OnId(c)
  BY <1>2, QuietStep DEF OnId, TypeOK
<1>3. CASE OnHandshakeError(c)
  BY <1>3, QuietStep DEF OnHandshakeError, TypeOK
<1>4. CASE OnAnswer(c)
  BY <1>4, QuietStep DEF OnAnswer, TypeOK
<1>5. CASE Add(c)
  <2>1. CASE AddFails(c, KeyOf[c]) /\ HsGoes(c, "add", "refuse")
    BY <1>5, <2>1, QuietStep DEF Add, AddFails, TypeOK
  <2>2. CASE AddBegins(c, KeyOf[c]) /\ HsGoes(c, "add", "adding")
    BY <1>5, <2>2, NoneAssumption DEF Add, AddBegins, TypeOK, DirTypeOK, Shape,
       StagesAgree, WriterIsInside, AddingFindsRoom, InflightIsRelayed,
       DirectoryMatchesSessions, Holds
  <2> QED BY <1>5, <2>1, <2>2 DEF Add
<1>6. CASE AddDone(c)
  <2>1. /\ writer = c /\ writer' = None /\ hs[c] = "adding"
        /\ sessions' = [sessions EXCEPT ![KeyOf[c]] = c]
        /\ hs' = [hs EXCEPT ![c] = "start"]
        /\ UNCHANGED <<rd, inflight>>
    BY <1>6 DEF AddDone, AddEnds
  <2>2. rd[c] = "off" /\ sessions[KeyOf[c]] = None
    BY <2>1 DEF Shape, StagesAgree, AddingFindsRoom
  <2>3. \A d \in Conns : d # c => hs[d] # "adding" /\ rd[d] # "removing"
    BY <2>1 DEF Shape, WriterIsInside
  <2>4. StagesAgree' /\ AddingFindsRoom' /\ InflightIsRelayed'
    BY <2>1, <2>2, <2>3 DEF Shape, StagesAgree, AddingFindsRoom,
       InflightIsRelayed, TypeOK
  <2>5. WriterIsInside'
    BY <2>1, <2>2, <2>3, NoneAssumption DEF WriterIsInside, TypeOK
  <2>6. Holds(c)' /\ \A d \in Conns : d # c => (Holds(d)' <=> Holds(d))
    BY <2>1 DEF Holds, TypeOK
  <2>7. DirectoryMatchesSessions'
    BY <2>1, <2>2, <2>6, EntryAdded DEF Shape, TypeOK
  <2> QED BY <2>4, <2>5, <2>7 DEF Shape
<1>7. CASE Start(c)
  BY <1>7 DEF Start, TypeOK, Shape, StagesAgree, WriterIsInside,
     AddingFindsRoom, InflightIsRelayed, DirectoryMatchesSessions, Holds
<1>8. CASE Welcome(c)
  BY <1>8 DEF Welcome, TypeOK, Shape, StagesAgree, WriterIsInside,
     AddingFindsRoom, InflightIsRelayed, DirectoryMatchesSessions, Holds
<1>9. CASE Refuse(c)
  BY <1>9, QuietStep DEF Refuse, TypeOK
<1> QED BY <1>1, <1>2, <1>3, <1>4, <1>5, <1>6, <1>7, <1>8, <1>9 DEF Handshake

LEMMA ReadLoopShape ==
  ASSUME TypeOK, Shape, NEW c \in Conns, ReadLoop(c)
  PROVE  Shape'
<1> USE DEF RdGoes, dirVars, relayVars, commVars
<1>1. CASE OnMessage(c)
  <2>1. PICK found \in Conns \union {None} :
          \/ /\ rd[c] = "armed" /\ rd' = [rd EXCEPT ![c] = "armed"]
             /\ UNCHANGED inflight
          \/ /\ rd[c] = "armed" /\ rd' = [rd EXCEPT ![c] = "relay"]
             /\ inflight' = inflight \union
                  {[from |-> c, n |-> got'[c], via |-> found]}
    BY <1>1 DEF OnMessage
  <2>2. UNCHANGED <<sessions, writer, hs>>
    BY <1>1 DEF OnMessage
  <2>3. InflightIsRelayed'
    <3>1. \A m \in inflight : m.from \in Conns /\ m.from # c
      BY <2>1 DEF Shape, InflightIsRelayed, TypeOK, Messages
    <3>2. \A m \in inflight : rd'[m.from] = "relay"
      BY <2>1, <3>1 DEF Shape, InflightIsRelayed, TypeOK
    <3>3. \A m \in inflight' : m \in inflight \/ (m.from = c /\ rd'[c] = "relay")
      BY <2>1 DEF TypeOK
    <3>4. \A m, n \in inflight' : m.from = n.from => m = n
      BY <2>1, <3>1 DEF Shape, InflightIsRelayed
    <3> QED BY <3>2, <3>3, <3>4 DEF InflightIsRelayed
  <2>4. StagesAgree' /\ WriterIsInside' /\ AddingFindsRoom'
    BY <2>1, <2>2 DEF Shape, StagesAgree, WriterIsInside, AddingFindsRoom,
       TypeOK
  <2>5. \A d \in Conns : Holds(d)' <=> Holds(d)
    BY <2>1, <2>2 DEF Holds, TypeOK
  <2>6. DirectoryMatchesSessions'
    BY <2>2, <2>5 DEF Shape, DirectoryMatchesSessions, TypeOK, DirTypeOK
  <2> QED BY <2>3, <2>4, <2>6 DEF Shape
<1>2. CASE OnReadError(c)
  BY <1>2 DEF OnReadError, TypeOK, Shape, StagesAgree, WriterIsInside,
     AddingFindsRoom, InflightIsRelayed, DirectoryMatchesSessions, Holds
<1>3. CASE Remove(c)
  BY <1>3, NoneAssumption DEF Remove, RemoveBegins, TypeOK, DirTypeOK, Shape,
     StagesAgree, WriterIsInside, AddingFindsRoom, InflightIsRelayed,
     DirectoryMatchesSessions, Holds
<1>4. CASE RemoveDone(c)
  <2>1. /\ writer = c /\ writer' = None /\ rd[c] = "removing"
        /\ sessions' = [sessions EXCEPT ![KeyOf[c]] = None]
        /\ rd' = [rd EXCEPT ![c] = "ended"]
        /\ UNCHANGED <<hs, inflight>>
    BY <1>4 DEF RemoveDone, RemoveEnds
  <2>2. hs[c] \in {"welcome", "served"} /\ sessions[KeyOf[c]] = c
    BY <2>1 DEF Shape, StagesAgree, DirectoryMatchesSessions, Holds
  <2>3. \A d \in Conns : d # c => hs[d] # "adding" /\ rd[d] # "removing"
    BY <2>1 DEF Shape, WriterIsInside
  <2>4. StagesAgree' /\ AddingFindsRoom' /\ InflightIsRelayed'
    BY <2>1, <2>2, <2>3 DEF Shape, StagesAgree, AddingFindsRoom,
       InflightIsRelayed, TypeOK, Messages
  <2>5. WriterIsInside'
    BY <2>1, <2>2, <2>3, NoneAssumption DEF WriterIsInside, TypeOK
  <2>6. DirectoryMatchesSessions'
    BY <2>1, <2>2, KeyOfAssumption, NoneAssumption
       DEF Shape, DirectoryMatchesSessions, Holds, TypeOK, DirTypeOK
  <2> QED BY <2>4, <2>5, <2>6 DEF Shape
<1>5. ASSUME NEW m \in inflight, m.from = c, Relay(m)
      PROVE  Shape'
  <2>1. /\ rd[c] = "relay" /\ rd' = [rd EXCEPT ![c] = "armed"]
        /\ inflight' = inflight \ {m}
        /\ UNCHANGED <<sessions, writer, hs>>
    BY <1>5 DEF Relay, Shape, InflightIsRelayed
  <2>2. InflightIsRelayed'
    BY <1>5, <2>1 DEF Shape, InflightIsRelayed, TypeOK, Messages
  <2>3. StagesAgree' /\ WriterIsInside' /\ AddingFindsRoom'
    BY <2>1 DEF Shape, StagesAgree, WriterIsInside, AddingFindsRoom, TypeOK
  <2>4. DirectoryMatchesSessions'
    BY <2>1 DEF Shape, DirectoryMatchesSessions, Holds, TypeOK
  <2> QED BY <2>2, <2>3, <2>4 DEF Shape
<1> QED BY <1>1, <1>2, <1>3, <1>4, <1>5 DEF ReadLoop

LEMMA NextIInv == IInv /\ [Next]_vars => IInv'
<1> SUFFICES ASSUME IInv, [Next]_vars PROVE IInv'
  OBVIOUS
<1> USE DEF dirVars, relayVars, commVars
<1>1. TypeOK' /\ FramesBounded'
  BY NextType DEF IInv
<1>2. Shape
  BY DEF IInv, Shape
<1>3. ASSUME NEW c \in Conns, Client(c) PROVE Shape'
  BY <1>2, <1>3, QuietStep
     DEF IInv, Client, Connect, ClientSend, ClientClose, HsGoes, TypeOK
<1>4. ASSUME NEW c \in Conns, Handshake(c) \/ ReadLoop(c) PROVE Shape'
  BY <1>2, <1>4, HandshakeShape, ReadLoopShape DEF IInv
<1>5. ASSUME AcceptFails \/ UNCHANGED vars PROVE Shape'
  BY <1>2, <1>5, QuietStep DEF IInv, AcceptFails, vars
<1>6. Shape'
  <2>1. \/ \E c \in Conns : Client(c) \/ Handshake(c) \/ ReadLoop(c)
        \/ AcceptFails \/ UNCHANGED vars
    BY DEF Next, Idle
  <2> QED BY <2>1, <1>3, <1>4, <1>5
<1> QED BY <1>1, <1>6 DEF IInv, Shape

\* In every behaviour of the server the invariant holds.
THEOREM Invariance == Spec => []IInv
<1>1. Init => IInv
  BY InitIInv
<1>2. IInv /\ [Next]_vars => IInv'
  BY NextIInv
<1> QED BY <1>1, <1>2, PTL DEF Spec

\* The variables keep their types: every frame written is a frame of the
\* protocol, no count leaves its range.
THEOREM TypeCorrect == Spec => []TypeOK
<1>1. IInv => TypeOK
  BY DEF IInv
<1> QED BY <1>1, Invariance, PTL

\* The directory lists exactly the sessions that are served or being removed
\* (AgentDirectory::add and remove, AgentSession::read).
THEOREM DirectoryIsExact == Spec => []DirectoryMatchesSessions
<1>1. IInv => DirectoryMatchesSessions
  BY DEF IInv
<1> QED BY <1>1, Invariance, PTL

\* No two connections serve the same key, for any number of threads
\* (CoreServer::newSession, secretHandshake).
THEOREM KeyHasOneSession == Spec => []OneSessionPerKey
<1>1. IInv => OneSessionPerKey
  BY DEF IInv, DirectoryMatchesSessions, OneSessionPerKey
<1> QED BY <1>1, Invariance, PTL

-------------------------------------------------------------------------------
(* Messages between agents *)

Talks(c) == hs[c] \in {"welcome", "served"}
Listens(c) == hs[c] = "start" \/ Talks(c)

\* A message in flight is the last its sender's session has read, and is for a
\* session that was registered when it was looked up.
InflightIsLast ==
  \A m \in inflight : Listens(m.via) /\ Talks(m.from) /\ m.n = got[m.from]

\* An agent's message that was written comes from one session and went to
\* another, was read before, and is not the one in flight.
ContentWasRead ==
  \A d \in Conns : \A i \in DOMAIN out[d] : out[d][i].kind = "content" =>
    /\ Listens(d)
    /\ Talks(out[d][i].from)
    /\ out[d][i].n <= got[out[d][i].from]
    /\ \A m \in inflight : m.from = out[d][i].from => out[d][i].n < m.n

Relaying == InflightIsLast /\ ContentWasRead /\ PerSenderFifo

\* Writing a frame puts it behind the frames that were there.
LEMMA SendAppends ==
  ASSUME out \in [Conns -> Seq(Frames)], NEW c \in Conns, NEW f \in Frames,
         Send(c, f), NEW d \in Conns
  PROVE  /\ DOMAIN out[d] \subseteq Nat /\ DOMAIN out'[d] \subseteq Nat
         /\ \A i \in DOMAIN out'[d] :
              \/ i \in DOMAIN out[d] /\ out'[d][i] = out[d][i]
              \/ /\ d = c /\ out'[d][i] = f
                 /\ \A j \in DOMAIN out'[d] : j <= i
<1>1. out[d] \in Seq(Frames)
  OBVIOUS
<1>2. CASE d = c /\ open[c]
  <2>1. out'[d] = Append(out[d], f)
    BY <1>2 DEF Send
  <2> QED BY <1>1, <1>2, <2>1
<1>3. CASE ~(d = c /\ open[c])
  <2>1. out'[d] = out[d]
    BY <1>3 DEF Send
  <2> QED BY <1>1, <2>1
<1> QED BY <1>2, <1>3

\* The counts of the frames that were read are numbers, before and after.
LEMMA CountsAreNumbers ==
  ASSUME got \in [Conns -> 0..MaxFrames], got' \in [Conns -> 0..MaxFrames]
  PROVE  \A c \in Conns : got[c] \in Nat /\ got'[c] \in Nat
BY BoundsAssumption

\* A step that writes no agent's message and takes none up, in which no
\* session that is registered goes back in its handshake.
LEMMA NoContentStep ==
  ASSUME TypeOK, TypeOK', Relaying, UNCHANGED inflight,
         \A c \in Conns : (Talks(c) => Talks(c)') /\ (Listens(c) => Listens(c)'),
         \A c \in Conns : got[c] <= got'[c],
         \A m \in inflight : got'[m.from] = got[m.from],
         \A d \in Conns : \A i \in DOMAIN out'[d] :
           out'[d][i].kind = "content" =>
             i \in DOMAIN out[d] /\ out'[d][i] = out[d][i]
  PROVE  Relaying'
<1>0. \A c \in Conns : got[c] \in Nat /\ got'[c] \in Nat
  <2>1. got \in [Conns -> 0..MaxFrames] /\ got' \in [Conns -> 0..MaxFrames]
    BY DEF TypeOK
  <2> QED BY <2>1, CountsAreNumbers
<1>1. InflightIsLast'
  BY DEF Relaying, InflightIsLast, TypeOK, Messages
<1>2. ASSUME NEW d \in Conns, NEW i \in DOMAIN out'[d],
             out'[d][i].kind = "content"
      PROVE  /\ Listens(d)'
             /\ Talks(out[d][i].from)'
             /\ out'[d][i].n <= got'[out'[d][i].from]
             /\ \A m \in inflight' :
                  m.from = out'[d][i].from => out'[d][i].n < m.n
  <2>1. i \in DOMAIN out[d] /\ out'[d][i] = out[d][i]
    BY <1>2
  <2>2. out[d] \in Seq(Frames) /\ out[d][i] \in Frames
    <3>1. out[d] \in Seq(Frames)
      BY DEF TypeOK
    <3> QED BY <2>1, <3>1
  <2>3. out[d][i].from \in Conns /\ out[d][i].n \in 1..MaxFrames
    BY <1>2, <2>1, <2>2 DEF Frames
  <2>4. /\ got[out[d][i].from] \in Nat
        /\ got'[out[d][i].from] \in Nat
    BY <1>0, <2>3
  <2>5. /\ Listens(d)
        /\ Talks(out[d][i].from)
        /\ out[d][i].n <= got[out[d][i].from]
        /\ \A m \in inflight : m.from = out[d][i].from => out[d][i].n < m.n
    BY <1>2, <2>1 DEF Relaying, ContentWasRead
  <2>6. got[out[d][i].from] <= got'[out[d][i].from]
    BY <2>3
  <2>7. out[d][i].n <= got'[out[d][i].from]
    BY <2>3, <2>4, <2>5, <2>6, BoundsAssumption
  <2> QED BY <2>1, <2>3, <2>5, <2>7
<1>3. ContentWasRead'
  BY <1>2 DEF ContentWasRead
<1>4. PerSenderFifo'
  BY DEF Relaying, PerSenderFifo
<1> QED BY <1>1, <1>3, <1>4 DEF Relaying

\* Writing a notice or a dialogue error writes no agent's message.
LEMMA NoticeIsNoContent ==
  ASSUME TypeOK, NEW c \in Conns, NEW f \in Frames, f.kind # "content",
         Send(c, f), NEW d \in Conns, NEW i \in DOMAIN out'[d],
         out'[d][i].kind = "content"
  PROVE  i \in DOMAIN out[d] /\ out'[d][i] = out[d][i]
BY SendAppends DEF TypeOK

\* Reading a frame raises the count of the connection it came on.
LEMMA ReceivedGrows ==
  ASSUME TypeOK, NEW c \in Conns, Received(c)
  PROVE  /\ got'[c] = got[c] + 1
         /\ \A d \in Conns : got[d] <= got'[d] /\ (d # c => got'[d] = got[d])
BY DEF Received, TypeOK

LEMMA HandshakeRelaying ==
  ASSUME TypeOK, TypeOK', Shape, Relaying, NEW c \in Conns, Handshake(c)
  PROVE  Relaying'
<1> USE DEF HsGoes, RdGoes, dirVars, relayVars, commVars, Talks, Listens
<1>1. UNCHANGED inflight
  BY DEF Handshake, Accept, OnId, OnHandshakeError, OnAnswer, Add, AddDone,
     Start, Welcome, Refuse
<1>2. \A d \in Conns : (Talks(d) => Talks(d)') /\ (Listens(d) => Listens(d)')
  BY DEF Handshake, Accept, OnId, OnHandshakeError, OnAnswer, Add, AddDone,
     Start, Welcome, Refuse, TypeOK
<1>3. ASSUME NEW d \in Conns, NEW i \in DOMAIN out'[d],
             out'[d][i].kind = "content"
      PROVE  i \in DOMAIN out[d] /\ out'[d][i] = out[d][i]
  <2>1. CASE UNCHANGED out
    BY <1>3, <2>1
  <2>2. ASSUME NEW kind \in {"phrase", "failure", "connected", "refused"},
               Send(c, Notice(kind))
        PROVE  i \in DOMAIN out[d] /\ out'[d][i] = out[d][i]
    <3>1. Notice(kind) \in Frames /\ Notice(kind).kind # "content"
      BY FrameTypes DEF Notice, Frame
    <3> QED BY <1>3, <2>2, <3>1, NoticeIsNoContent
  <2> QED BY <2>1, <2>2 DEF Handshake, Accept, OnId, OnHandshakeError,
          OnAnswer, Add, AddDone, Start, Welcome, Refuse
<1>4. /\ \A d \in Conns : got[d] <= got'[d]
      /\ \A m \in inflight : got'[m.from] = got[m.from]
  <2>1. CASE OnId(c) \/ OnAnswer(c)
    <3>1. Received(c) /\ ~Talks(c)
      BY <2>1 DEF OnId, OnAnswer
    <3>2. \A m \in inflight : m.from \in Conns /\ m.from # c
      BY <3>1 DEF Relaying, InflightIsLast, TypeOK, Messages
    <3> QED BY <3>1, <3>2, ReceivedGrows
  <2>2. CASE UNCHANGED got
    BY <2>2 DEF TypeOK
  <2> QED BY <2>1, <2>2 DEF Handshake, Accept, OnHandshakeError, Add, AddDone,
          Start, Welcome, Refuse
<1> QED BY <1>1, <1>2, <1>3, <1>4, NoContentStep

\* A message is looked up: it is newer than all its sender has sent so far.
LEMMA OnMessageRelaying ==
  ASSUME TypeOK, TypeOK', Shape, Relaying, NEW c \in Conns, OnMessage(c)
  PROVE  Relaying'
<1> USE DEF RdGoes, dirVars
<1>0. \A d \in Conns : got[d] \in Nat /\ got'[d] \in Nat
  <2>1. got \in [Conns -> 0..MaxFrames] /\ got' \in [Conns -> 0..MaxFrames]
    BY DEF TypeOK
  <2> QED BY <2>1, CountsAreNumbers
<1>1. Received(c) /\ rd[c] = "armed" /\ UNCHANGED <<hs, sessions>>
  BY DEF OnMessage
<1>2. /\ got'[c] = got[c] + 1 /\ got[c] \in Nat /\ got'[c] \in 1..MaxFrames
      /\ \A d \in Conns : got[d] <= got'[d] /\ (d # c => got'[d] = got[d])
  BY <1>1, ReceivedGrows, BoundsAssumption DEF TypeOK
<1>3. \A m \in inflight : m.from \in Conns /\ m.via \in Conns /\ m.from # c
  BY <1>1 DEF Shape, InflightIsRelayed, TypeOK, Messages
<1>4. Talks(c)
  BY <1>1 DEF Shape, StagesAgree, Talks
<1>5. \A d \in Conns : (Talks(d)' <=> Talks(d)) /\ (Listens(d)' <=> Listens(d))
  BY <1>1 DEF Talks, Listens
<1>6. CASE UNCHANGED inflight /\ Send(c, Frame("dlgerr", c, got'[c]))
  <2>1. /\ Frame("dlgerr", c, got'[c]) \in Frames
        /\ Frame("dlgerr", c, got'[c]).kind # "content"
    BY <1>2, FrameTypes DEF Frame
  <2>2. \A d \in Conns : \A i \in DOMAIN out'[d] :
          out'[d][i].kind = "content" =>
            i \in DOMAIN out[d] /\ out'[d][i] = out[d][i]
    BY <1>6, <2>1, NoticeIsNoContent
  <2>3. \A m \in inflight : got'[m.from] = got[m.from]
    BY <1>2, <1>3
  <2> QED BY <1>2, <1>5, <1>6, <2>2, <2>3, NoContentStep
<1>7. ASSUME NEW found \in Conns, found = sessions[KeyOf[found]], UNCHANGED out,
             inflight' = inflight \union
               {[from |-> c, n |-> got'[c], via |-> found]}, Holds(found)
      PROVE  Relaying'
  <2>1. Listens(found)
    BY <1>7 DEF Holds, Shape, StagesAgree, Listens, Talks
  <2>2. InflightIsLast'
    BY <1>2, <1>3, <1>4, <1>5, <1>7, <2>1 DEF Relaying, InflightIsLast
  <2>3. ASSUME NEW d \in Conns, NEW i \in DOMAIN out[d],
               out[d][i].kind = "content"
        PROVE  /\ Listens(d)'
               /\ Talks(out[d][i].from)'
               /\ out[d][i].n <= got'[out[d][i].from]
               /\ \A m \in inflight' :
                    m.from = out[d][i].from => out[d][i].n < m.n
    <3>1. out[d][i].from \in Conns /\ out[d][i].n \in 1..MaxFrames
      <4>1. out[d] \in Seq(Frames)
        BY DEF TypeOK
      <4>2. out[d][i] \in Frames
        BY <4>1
      <4> QED BY <2>3, <4>2 DEF Frames
    <3>2. /\ Listens(d) /\ Talks(out[d][i].from)
          /\ out[d][i].n <= got[out[d][i].from]
          /\ \A m \in inflight : m.from = out[d][i].from => out[d][i].n < m.n
      <4>1. ContentWasRead
        BY DEF Relaying
      <4> QED BY <2>3, <4>1 DEF ContentWasRead
    <3>3. got[out[d][i].from] \in Nat /\ got'[out[d][i].from] \in Nat
      BY <1>0, <3>1
    <3>4. got[out[d][i].from] <= got'[out[d][i].from]
      BY <1>2, <3>1
    <3>5. out[d][i].n <= got'[out[d][i].from]
      BY <3>1, <3>2, <3>3, <3>4, BoundsAssumption
    <3>6. out[d][i].from = c => out[d][i].n < got'[c]
      BY <1>2, <3>1, <3>2, BoundsAssumption
    <3> QED BY <1>5, <1>7, <3>1, <3>2, <3>5, <3>6
  <2>4. ContentWasRead'
    BY <1>7, <2>3 DEF ContentWasRead
  <2>5. PerSenderFifo'
    BY <1>7 DEF Relaying, PerSenderFifo
  <2> QED BY <2>2, <2>4, <2>5 DEF Relaying
<1>8. PICK to \in Keys, found \in Conns \union {None} :
        /\ Session(to, found)
        /\ IF found = None
             THEN /\ Send(c, Frame("dlgerr", c, got'[c]))
                  /\ UNCHANGED inflight
             ELSE /\ inflight' = inflight \union
                       {[from |-> c, n |-> got'[c], via |-> found]}
                  /\ UNCHANGED out
  BY DEF OnMessage
<1>9. CASE found = None
  BY <1>6, <1>8, <1>9
<1>10. CASE found # None
  <2>1. found \in Conns /\ Holds(found) /\ found = sessions[KeyOf[found]]
    BY <1>8, <1>10 DEF Session, Shape, DirectoryMatchesSessions
  <2> QED BY <1>7, <1>8, <1>10, <2>1
<1> QED BY <1>9, <1>10

\* A message is written: it goes behind its sender's earlier ones.
LEMMA RelayRelaying ==
  ASSUME TypeOK, TypeOK', Shape, Relaying, NEW m \in inflight, Relay(m)
  PROVE  Relaying'
<1> USE DEF dirVars
<1>1. m.from \in Conns /\ m.via \in Conns /\ m.n \in 1..MaxFrames
  BY DEF TypeOK, Messages
<1>2. /\ inflight' = inflight \ {m} /\ UNCHANGED <<hs, got>>
      /\ Send(m.via, Frame("content", m.from, m.n))
  BY DEF Relay
<1>3. \A d \in Conns : (Talks(d)' <=> Talks(d)) /\ (Listens(d)' <=> Listens(d))
  BY <1>2 DEF Talks, Listens
<1>4. /\ Frame("content", m.from, m.n) \in Frames
      /\ Frame("content", m.from, m.n).from = m.from
      /\ Frame("content", m.from, m.n).n = m.n
  BY <1>1, FrameTypes DEF Frame
<1>5. Listens(m.via) /\ Talks(m.from) /\ m.n = got[m.from]
  BY DEF Relaying, InflightIsLast
<1>6. \A n \in inflight' : n \in inflight /\ n.from # m.from
  BY <1>2 DEF Shape, InflightIsRelayed
<1>7. \A d \in Conns : \A i \in DOMAIN out'[d] :
        \/ i \in DOMAIN out[d] /\ out'[d][i] = out[d][i]
        \/ /\ d = m.via /\ out'[d][i] = Frame("content", m.from, m.n)
           /\ \A j \in DOMAIN out'[d] : j <= i
  BY <1>1, <1>2, <1>4, SendAppends DEF TypeOK
<1>8. InflightIsLast'
  BY <1>2, <1>3, <1>6 DEF Relaying, InflightIsLast, TypeOK, Messages
<1>9. ASSUME NEW d \in Conns, NEW i \in DOMAIN out'[d],
             out'[d][i].kind = "content"
      PROVE  /\ Listens(d)'
             /\ Talks(out[d][i].from)'
             /\ out'[d][i].n <= got'[out'[d][i].from]
             /\ \A n \in inflight' :
                  n.from = out'[d][i].from => out'[d][i].n < n.n
  <2>1. CASE i \in DOMAIN out[d] /\ out'[d][i] = out[d][i]
    <3>1. out[d][i].from \in Conns
      <4>1. out[d][i] \in Frames
        BY <2>1 DEF TypeOK
      <4> QED BY <1>9, <2>1, <4>1 DEF Frames
    <3> QED BY <1>2, <1>3, <1>6, <1>9, <2>1, <3>1 DEF Relaying, ContentWasRead
  <2>2. CASE d = m.via /\ out'[d][i] = Frame("content", m.from, m.n)
    BY <1>1, <1>2, <1>3, <1>4, <1>5, <1>6, <2>2, BoundsAssumption
  <2> QED BY <1>7, <2>1, <2>2
<1>10. ContentWasRead'
  BY <1>9 DEF ContentWasRead
<1>11. ASSUME NEW d \in Conns, NEW i \in DOMAIN out'[d], NEW j \in DOMAIN out'[d],
              i < j, out'[d][i].kind = "content", out'[d][j].kind = "content",
              out'[d][i].from = out'[d][j].from
       PROVE  out'[d][i].n < out'[d][j].n
  <2>1. i \in Nat /\ j \in Nat
    BY <1>1, <1>2, <1>4, SendAppends DEF TypeOK
  <2>2. i \in DOMAIN out[d] /\ out'[d][i] = out[d][i]
    <3>1. ~(j <= i)
      BY <1>11, <2>1
    <3> QED BY <1>7, <3>1
  <2>3. CASE j \in DOMAIN out[d] /\ out'[d][j] = out[d][j]
    BY <1>11, <2>2, <2>3 DEF Relaying, PerSenderFifo
  <2>4. CASE out'[d][j] = Frame("content", m.from, m.n)
    BY <1>4, <1>11, <2>2, <2>4 DEF Relaying, ContentWasRead
  <2> QED BY <1>7, <2>3, <2>4
<1>12. PerSenderFifo'
  BY <1>11 DEF PerSenderFifo
<1> QED BY <1>8, <1>10, <1>12 DEF Relaying

LEMMA NextRelaying == IInv /\ IInv' /\ Relaying /\ [Next]_vars => Relaying'
<1> SUFFICES ASSUME IInv, IInv', Relaying, [Next]_vars PROVE Relaying'
  OBVIOUS
<1>1. TypeOK /\ TypeOK' /\ Shape
  BY DEF IInv, Shape
<1>2. ASSUME UNCHANGED <<inflight, out, got>>,
             \A c \in Conns : (Talks(c) => Talks(c)') /\ (Listens(c) => Listens(c)')
      PROVE  Relaying'
  <2>1. \A c \in Conns : got[c] <= got'[c]
    BY <1>1, <1>2 DEF TypeOK
  <2> QED BY <1>1, <1>2, <2>1, NoContentStep
<1>3. ASSUME NEW c \in Conns, Client(c) PROVE Relaying'
  <2>1. UNCHANGED <<inflight, out, got>>
    BY <1>3 DEF Client, Connect, ClientSend, ClientClose, relayVars
  <2>2. \A d \in Conns : (Talks(d) => Talks(d)') /\ (Listens(d) => Listens(d)')
    BY <1>1, <1>3 DEF Client, Connect, ClientSend, ClientClose, HsGoes, Talks,
       Listens, TypeOK
  <2> QED BY <1>2, <2>1, <2>2
<1>4. ASSUME NEW c \in Conns, Handshake(c) PROVE Relaying'
  BY <1>1, <1>4, HandshakeRelaying
<1>5. ASSUME NEW c \in Conns, ReadLoop(c) PROVE Relaying'
  <2>1. CASE OnMessage(c)
    BY <1>1, <2>1, OnMessageRelaying
  <2>2. CASE OnReadError(c) \/ Remove(c) \/ RemoveDone(c)
    <3>1. UNCHANGED <<hs, inflight, out, got>>
      BY <2>2 DEF OnReadError, Remove, RemoveDone, relayVars, commVars
    <3> QED BY <1>2, <3>1 DEF Talks, Listens
  <2>3. ASSUME NEW m \in inflight, Relay(m) PROVE Relaying'
    BY <1>1, <2>3, RelayRelaying
  <2> QED BY <1>5, <2>1, <2>2, <2>3 DEF ReadLoop
<1>6. ASSUME AcceptFails \/ UNCHANGED vars PROVE Relaying'
  BY <1>2, <1>6 DEF AcceptFails, vars, relayVars, commVars, Talks, Listens
<1>7. \/ \E c \in Conns : Client(c) \/ Handshake(c) \/ ReadLoop(c)
      \/ AcceptFails \/ UNCHANGED vars
  BY DEF Next, Idle
<1> QED BY <1>3, <1>4, <1>5, <1>6, <1>7

LEMMA AlwaysRelaying == Spec => [](IInv /\ Relaying)
<1>1. Init => Relaying
  BY DEF Init, Relaying, InflightIsLast, ContentWasRead, PerSenderFifo
<1> QED BY <1>1, NextRelaying, Invariance, PTL DEF Spec

\* What an agent sends another arrives in the order it was sent, for any number
\* of threads (AgentSession::read and process_message).
THEOREM SendersAreFifo == Spec => []PerSenderFifo
<1>1. Relaying => PerSenderFifo
  BY DEF Relaying
<1> QED BY <1>1, AlwaysRelaying, PTL

\* A connection that was refused, or whose handshake failed, is never heard by
\* an agent and hears none (CoreServer::secretHandshake, process_message).
THEOREM RefusedNeitherHearNorSpeak == Spec => []RefusedAreDeaf
<1>1. IInv /\ Relaying => RefusedAreDeaf
  BY DEF IInv, StagesAgree, Relaying, ContentWasRead, RefusedAreDeaf, Speaks,
     Talks, Listens
<1> QED BY <1>1, AlwaysRelaying, PTL

-------------------------------------------------------------------------------
(* The server implements the registry of names *)

Claimed == {c \in Conns : hs[c] \in {"start", "welcome", "served"}}
Verdict == [c \in Conns |-> CASE hs[c] = "served"  -> "connected"
                              [] hs[c] = "refused" -> "refused"
                              [] OTHER             -> "none"]

LEMMA VerdictOf ==
  ASSUME NEW c \in Conns
  PROVE  Verdict[c] = IF hs[c] = "served" THEN "connected"
                      ELSE IF hs[c] = "refused" THEN "refused" ELSE "none"
BY DEF Verdict

\* Steps of the server that do not move a handshake into a stage the registry
\* sees, and leave the directory alone, are stutters.
LEMMA Stutter ==
  ASSUME UNCHANGED sessions,
         \A c \in Conns : \A s \in {"start", "welcome", "served", "refused"} :
           hs'[c] = s <=> hs[c] = s
  PROVE  UNCHANGED <<sessions, Claimed, Verdict>>
<1>1. Claimed' = Claimed
  BY DEF Claimed
<1>2. Verdict' = Verdict
  BY DEF Verdict
<1> QED BY <1>1, <1>2

LEMMA HandshakeRefines ==
  ASSUME TypeOK, Shape, NEW c \in Conns, Handshake(c)
  PROVE  Registry!Next \/ UNCHANGED <<sessions, Claimed, Verdict>>
<1> USE DEF HsGoes, RdGoes, dirVars, relayVars, commVars
<1>r. ASSUME hs[c] \notin {"start", "welcome", "served", "refused"},
             hs' = [hs EXCEPT ![c] = "refused"], UNCHANGED sessions
      PROVE  Registry!Reject(c)
  <2>1. c \notin Claimed /\ Claimed' = Claimed
    BY <1>r DEF Claimed, TypeOK
  <2>2. Verdict[c] = "none"
    BY <1>r, VerdictOf
  <2>3. Verdict' = [Verdict EXCEPT ![c] = "refused"]
    BY <1>r DEF Verdict, TypeOK
  <2> QED BY <1>r, <2>1, <2>2, <2>3 DEF Registry!Reject, Claimed, Verdict
<1>1. CASE Accept(c)
  BY <1>1, Stutter DEF Accept, TypeOK
<1>2. CASE OnId(c)
  <2>1. UNCHANGED sessions
    BY <1>2 DEF OnId
  <2>2. CASE HsGoes(c, "rcvId", "refused")
    BY <1>r, <2>1, <2>2 DEF Registry!Next
  <2>3. CASE HsGoes(c, "rcvId", "rcvAnswer")
    BY <2>1, <2>3, Stutter DEF TypeOK
  <2> QED BY <1>2, <2>2, <2>3 DEF OnId
<1>3. CASE OnHandshakeError(c)
  BY <1>3, Stutter DEF OnHandshakeError, TypeOK
<1>4. CASE OnAnswer(c)
  BY <1>4, Stutter DEF OnAnswer, TypeOK
<1>5. CASE Add(c)
  BY <1>5, Stutter DEF Add, AddBegins, AddFails, TypeOK
<1>6. CASE AddDone(c)
  <2>1. /\ hs[c] = "adding" /\ hs' = [hs EXCEPT ![c] = "start"]
        /\ sessions' = [sessions EXCEPT ![KeyOf[c]] = c]
    BY <1>6 DEF AddDone, AddEnds
  <2>2. sessions[KeyOf[c]] = None
    BY <2>1 DEF Shape, AddingFindsRoom
  <2>3. c \notin Claimed /\ Claimed' = Claimed \union {c}
    BY <2>1 DEF Claimed, TypeOK
  <2>4. Verdict[c] = "none" /\ Verdict' = Verdict
    BY <2>1, VerdictOf DEF Verdict, TypeOK
  <2>5. Registry!Claim(c)
    BY <2>1, <2>2, <2>3, <2>4 DEF Registry!Claim, Claimed, Verdict
  <2> QED BY <2>5 DEF Registry!Next
<1>7. CASE Start(c)
  <2>1. /\ hs[c] = "start" /\ hs' = [hs EXCEPT ![c] = "welcome"]
        /\ UNCHANGED sessions
    BY <1>7 DEF Start
  <2>2. Claimed' = Claimed
    BY <2>1 DEF Claimed, TypeOK
  <2>3. Verdict' = Verdict
    BY <2>1 DEF Verdict, TypeOK
  <2> QED BY <2>1, <2>2, <2>3
<1>8. CASE Welcome(c)
  <2>1. /\ hs[c] = "welcome" /\ hs' = [hs EXCEPT ![c] = "served"]
        /\ UNCHANGED sessions
    BY <1>8 DEF Welcome
  <2>2. c \in Claimed /\ Claimed' = Claimed
    BY <2>1 DEF Claimed, TypeOK
  <2>3. Verdict[c] = "none"
    BY <2>1, VerdictOf
  <2>4. Verdict' = [Verdict EXCEPT ![c] = "connected"]
    BY <2>1 DEF Verdict, TypeOK
  <2>5. Registry!Confirm(c)
    BY <2>1, <2>2, <2>3, <2>4 DEF Registry!Confirm, Claimed, Verdict
  <2> QED BY <2>5 DEF Registry!Next
<1>9. CASE Refuse(c)
  BY <1>9, <1>r DEF Refuse, Registry!Next
<1> QED BY <1>1, <1>2, <1>3, <1>4, <1>5, <1>6, <1>7, <1>8, <1>9 DEF Handshake

LEMMA ReadLoopRefines ==
  ASSUME TypeOK, Shape, NEW c \in Conns, ReadLoop(c)
  PROVE  Registry!Next \/ UNCHANGED <<sessions, Claimed, Verdict>>
<1> USE DEF RdGoes, dirVars, relayVars, commVars
<1>1. CASE RemoveDone(c)
  <2>1. /\ rd[c] = "removing" /\ UNCHANGED hs
        /\ sessions' = [sessions EXCEPT ![KeyOf[c]] = None]
    BY <1>1 DEF RemoveDone, RemoveEnds
  <2>2. sessions[KeyOf[c]] = c
    BY <2>1 DEF Shape, DirectoryMatchesSessions, Holds
  <2>3. Claimed' = Claimed /\ Verdict' = Verdict
    BY <2>1 DEF Claimed, Verdict
  <2>4. Registry!Release(c)
    BY <2>1, <2>2, <2>3 DEF Registry!Release, Claimed, Verdict
  <2> QED BY <2>4 DEF Registry!Next
<1>2. CASE OnMessage(c) \/ OnReadError(c) \/ Remove(c)
  BY <1>2, Stutter DEF OnMessage, OnReadError, Remove
<1>3. ASSUME NEW m \in inflight, Relay(m)
      PROVE  UNCHANGED <<sessions, Claimed, Verdict>>
  BY <1>3, Stutter DEF Relay
<1> QED BY <1>1, <1>2, <1>3 DEF ReadLoop

\* Every behaviour of the server, for any number of threads, is a behaviour of
\* the registry: a key is given to one connection at a time, only its holder
\* gives it back, and nobody is told "connected" who never had it
\* (CoreServer::newSession, secretHandshake, AgentSession::read).
THEOREM ServerImplementsRegistry == Spec => RefinesRegistry
<1>1. Init => Registry!Init
  <2> SUFFICES ASSUME Init PROVE Registry!Init
    OBVIOUS
  <2>1. Claimed = {}
    BY DEF Init, Claimed
  <2>2. Verdict = [c \in Conns |-> "none"]
    BY DEF Init, Verdict
  <2> QED BY <2>1, <2>2 DEF Init, DirInit, Registry!Init, Claimed, Verdict
<1>2. IInv /\ [Next]_vars => [Registry!Next]_(Registry!regVars)
  <2> SUFFICES ASSUME IInv, [Next]_vars
               PROVE  Registry!Next \/ UNCHANGED <<sessions, Claimed, Verdict>>
    BY DEF Registry!regVars, Claimed, Verdict
  <2>1. TypeOK /\ Shape
    BY DEF IInv, Shape
  <2>2. ASSUME NEW c \in Conns, Handshake(c) \/ ReadLoop(c)
        PROVE  Registry!Next \/ UNCHANGED <<sessions, Claimed, Verdict>>
    BY <2>1, <2>2, HandshakeRefines, ReadLoopRefines
  <2>3. ASSUME NEW c \in Conns, Client(c)
        PROVE  UNCHANGED <<sessions, Claimed, Verdict>>
    BY <2>1, <2>3, Stutter DEF Client, Connect, ClientSend, ClientClose,
       HsGoes, TypeOK, dirVars
  <2>4. ASSUME AcceptFails \/ UNCHANGED vars
        PROVE  UNCHANGED <<sessions, Claimed, Verdict>>
    BY <2>4, Stutter DEF AcceptFails, vars, dirVars
  <2>5. \/ \E c \in Conns : Client(c) \/ Handshake(c) \/ ReadLoop(c)
        \/ AcceptFails \/ UNCHANGED vars
    BY DEF Next, Idle
  <2> QED BY <2>2, <2>3, <2>4, <2>5
<1> QED BY <1>1, <1>2, Invariance, PTL DEF Spec, RefinesRegistry, Registry!Spec
===============================================================================
