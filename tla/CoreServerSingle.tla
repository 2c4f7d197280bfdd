--------------------------- MODULE CoreServerSingle ---------------------------
(***************************************************************************)
(* What the core server promises when it is run on one thread, as          *)
(* run_in_thread does, for any finite number of connections, keys and      *)
(* frames: handlers exclude one another, and with them what is tested and  *)
(* what is done about it.                                                  *)
(***************************************************************************)
EXTENDS CoreServerProofs, FiniteSetTheorems

\* At most one handler is in the middle of its steps.
Exclusive ==
  /\ \A c, d \in Conns : hs[c] \in HsRunning /\ hs[d] \in HsRunning => c = d
  /\ \A c, d \in Conns : rd[c] \in RdRunning /\ rd[d] \in RdRunning => c = d
  /\ \A c, d \in Conns : hs[c] \in HsRunning => rd[d] \notin RdRunning

\* A client that is served and still there has been told so.
Confirmed ==
  \A c \in Conns : hs[c] = "served" /\ open[c] =>
    \E j \in DOMAIN out[c] : out[c][j] = Notice("connected")

\* While a client is being refused another session has its key.
RefusedInTime ==
  \A c \in Conns : hs[c] = "refuse" => sessions[KeyOf[c]] \notin {None, c}

Single == Exclusive /\ Confirmed /\ RefusedInTime /\ WelcomeFirst

-------------------------------------------------------------------------------
(* Threads *)

\* When the one thread is free no handler is in the middle of its steps.
LEMMA FreeMeansQuiet ==
  ASSUME Threads = 1, IsFiniteSet(Conns), FreeThread, NEW c \in Conns
  PROVE  hs[c] \notin HsRunning /\ rd[c] \notin RdRunning
<1> DEFINE H == {d \in Conns : hs[d] \in HsRunning}
           R == {d \in Conns : rd[d] \in RdRunning}
<1>1. IsFiniteSet(H) /\ IsFiniteSet(R)
  BY FS_Subset
<1>2. Cardinality(H) \in Nat /\ Cardinality(R) \in Nat
  BY <1>1, FS_CardinalityType
<1>3. Cardinality(H) + Cardinality(R) < 1
  BY DEF FreeThread, Busy
<1>4. Cardinality(H) = 0 /\ Cardinality(R) = 0
  BY <1>2, <1>3
<1>5. H = {} /\ R = {}
  BY <1>1, <1>4, FS_EmptySet
<1> QED BY <1>5

\* A step takes a free thread for one handler, or begins no handler.
LEMMA StepsTakeThreads ==
  ASSUME TypeOK, [Next]_vars
  PROVE  \/ \A c \in Conns : /\ hs'[c] \in HsRunning => hs[c] \in HsRunning
                             /\ rd'[c] \in RdRunning => rd[c] \in RdRunning
         \/ /\ FreeThread
            /\ \E c \in Conns : /\ hs' = hs \/ rd' = rd
                                /\ \A d \in Conns : d # c => hs'[d] = hs[d] /\ rd'[d] = rd[d]
<1> USE DEF HsGoes, RdGoes, dirVars, commVars, relayVars, HsRunning, RdRunning
<1> DEFINE Shrinks == \A c \in Conns : /\ hs'[c] \in HsRunning => hs[c] \in HsRunning
                                       /\ rd'[c] \in RdRunning => rd[c] \in RdRunning
           Takes(c) == /\ FreeThread /\ (hs' = hs \/ rd' = rd)
                       /\ \A d \in Conns : d # c => hs'[d] = hs[d] /\ rd'[d] = rd[d]
<1>1. ASSUME NEW c \in Conns, Client(c) PROVE Shrinks
  BY <1>1 DEF Client, Connect, ClientSend, ClientClose, TypeOK
<1>2. ASSUME NEW c \in Conns, Handshake(c) PROVE Shrinks \/ Takes(c)
  <2>1. CASE Accept(c) \/ OnId(c) \/ OnHandshakeError(c) \/ OnAnswer(c)
    BY <2>1 DEF Accept, OnId, OnHandshakeError, OnAnswer, Received, ReceiveFails, TypeOK
  <2>2. CASE Add(c) \/ AddDone(c) \/ Start(c) \/ Welcome(c) \/ Refuse(c)
    BY <2>2 DEF Add, AddDone, Start, Welcome, Refuse, TypeOK
  <2> QED BY <1>2, <2>1, <2>2 DEF Handshake
<1>3. ASSUME NEW c \in Conns, ReadLoop(c) PROVE Shrinks \/ Takes(c)
  <2>1. CASE OnMessage(c) \/ OnReadError(c)
    BY <2>1 DEF OnMessage, OnReadError, Received, ReceiveFails, TypeOK
  <2>2. CASE Remove(c) \/ RemoveDone(c)
    BY <2>2 DEF Remove, RemoveDone, TypeOK
  <2>3. ASSUME NEW m \in inflight, Relay(m) PROVE Shrinks
    BY <2>3 DEF Relay, TypeOK, Messages
  <2> QED BY <1>3, <2>1, <2>2, <2>3 DEF ReadLoop
<1>4. AcceptFails \/ UNCHANGED vars => Shrinks
  BY DEF AcceptFails, vars
<1> HIDE DEF Shrinks, Takes
<1>5. Shrinks \/ \E c \in Conns : Takes(c)
  BY <1>1, <1>2, <1>3, <1>4 DEF Next, Idle
<1> QED BY <1>5 DEF Shrinks, Takes

LEMMA StaysExclusive ==
  ASSUME Threads = 1, IsFiniteSet(Conns), TypeOK, Exclusive, [Next]_vars
  PROVE  Exclusive'
<1>1. CASE \A c \in Conns : /\ hs'[c] \in HsRunning => hs[c] \in HsRunning
                            /\ rd'[c] \in RdRunning => rd[c] \in RdRunning
  BY <1>1 DEF Exclusive
<1>2. ASSUME FreeThread, NEW c \in Conns, hs' = hs \/ rd' = rd,
             \A d \in Conns : d # c => hs'[d] = hs[d] /\ rd'[d] = rd[d]
      PROVE  Exclusive'
  <2>1. \A d \in Conns : hs[d] \notin HsRunning /\ rd[d] \notin RdRunning
    BY <1>2, FreeMeansQuiet
  <2> QED BY <1>2, <2>1 DEF Exclusive
<1> QED BY <1>1, <1>2, StepsTakeThreads

-------------------------------------------------------------------------------
(* The confirmation *)

\* Writing a frame keeps those that are there and adds it behind them, if the
\* client has not gone.
LEMMA SendAfter ==
  ASSUME out \in [Conns -> Seq(Frames)], NEW c \in Conns, NEW f \in Frames,
         Send(c, f), NEW d \in Conns
  PROVE  /\ \A i \in DOMAIN out[d] : i \in DOMAIN out'[d] /\ out'[d][i] = out[d][i]
         /\ \A i \in DOMAIN out'[d] :
              \/ i \in DOMAIN out[d]
              \/ /\ d = c /\ open[c] /\ out'[d][i] = f
                 /\ \A j \in DOMAIN out[d] : j \in 1..(i - 1)
         /\ d = c /\ open[c] => \E i \in DOMAIN out'[d] : out'[d][i] = f
<1>1. out[d] \in Seq(Frames)
  OBVIOUS
<1>2. CASE d = c /\ open[c]
  <2>1. out'[d] = Append(out[d], f)
    BY <1>2 DEF Send
  <2> QED BY <1>1, <1>2, <2>1
<1>3. CASE ~(d = c /\ open[c])
  <2>1. out'[d] = out[d]
    BY <1>3 DEF Send
  <2> QED BY <1>3, <2>1
<1> QED BY <1>2, <1>3

\* Only what is written to a client that is not confirmed can come too early.
LEMMA SendKeepsWelcome ==
  ASSUME TypeOK, NEW c \in Conns, NEW f \in Frames, Send(c, f), WelcomeFirst,
         open[c] /\ f.kind \in {"content", "dlgerr"} =>
           \E j \in DOMAIN out[c] : out[c][j] = Notice("connected")
  PROVE  WelcomeFirst'
<1> SUFFICES ASSUME NEW d \in Conns, NEW i \in DOMAIN out'[d],
                    out'[d][i].kind \in {"content", "dlgerr"}
             PROVE  \E j \in 1..(i - 1) : out'[d][j] = Notice("connected")
  BY DEF WelcomeFirst
<1>1. out \in [Conns -> Seq(Frames)]
  BY DEF TypeOK
<1>2. CASE i \in DOMAIN out[d]
  <2>1. out'[d][i] = out[d][i]
    BY <1>1, <1>2, SendAfter
  <2>2. PICK j \in 1..(i - 1) : out[d][j] = Notice("connected")
    BY <1>2, <2>1 DEF WelcomeFirst
  <2>3. j \in DOMAIN out[d]
    <3>1. out[d] \in Seq(Frames)
      BY <1>1
    <3> QED BY <1>2, <3>1
  <2>4. out'[d][j] = out[d][j]
    BY <1>1, <2>3, SendAfter
  <2> QED BY <2>2, <2>4
<1>3. CASE i \notin DOMAIN out[d]
  <2>1. /\ d = c /\ open[c] /\ out'[d][i] = f
        /\ \A j \in DOMAIN out[d] : j \in 1..(i - 1)
    BY <1>1, <1>3, SendAfter
  <2>2. PICK j \in DOMAIN out[d] : out[d][j] = Notice("connected")
    BY <2>1
  <2>3. out'[d][j] = out[d][j] /\ j \in 1..(i - 1)
    BY <1>1, <2>1, SendAfter
  <2> QED BY <2>2, <2>3
<1> QED BY <1>2, <1>3

\* A step of a handler that writes f to the client of c and confirms nobody, or
\* c with f.
LEMMA SendKeepsConfirmed ==
  ASSUME TypeOK, NEW c \in Conns, NEW f \in Frames, Send(c, f), Confirmed,
         open' = open,
         \A d \in Conns : hs'[d] = "served" =>
           hs[d] = "served" \/ (d = c /\ f = Notice("connected"))
  PROVE  Confirmed'
<1> SUFFICES ASSUME NEW d \in Conns, hs'[d] = "served", open[d]
             PROVE  \E j \in DOMAIN out'[d] : out'[d][j] = Notice("connected")
  BY DEF Confirmed
<1>1. out \in [Conns -> Seq(Frames)]
  BY DEF TypeOK
<1>2. CASE hs[d] = "served"
  <2>1. PICK j \in DOMAIN out[d] : out[d][j] = Notice("connected")
    BY <1>2 DEF Confirmed
  <2>2. j \in DOMAIN out'[d] /\ out'[d][j] = out[d][j]
    BY <1>1, SendAfter
  <2> QED BY <2>1, <2>2
<1>3. CASE d = c /\ f = Notice("connected")
  BY <1>1, <1>3, SendAfter
<1> QED BY <1>2, <1>3

\* A step that writes nothing.
LEMMA SilentStep ==
  ASSUME UNCHANGED out, Confirmed, WelcomeFirst,
         \A d \in Conns : /\ hs'[d] = "served" => hs[d] = "served"
                          /\ hs'[d] = "served" /\ open'[d] => open[d]
  PROVE  Confirmed' /\ WelcomeFirst'
BY DEF Confirmed, WelcomeFirst

LEMMA HandshakeConfirms ==
  ASSUME TypeOK, Confirmed, WelcomeFirst, NEW c \in Conns, Handshake(c)
  PROVE  Confirmed' /\ WelcomeFirst'
<1> USE DEF HsGoes, RdGoes, dirVars, commVars, relayVars
<1>1. CASE UNCHANGED out /\ ~Welcome(c)
  <2>1. \A d \in Conns : hs'[d] = "served" => hs[d] = "served"
    BY <1>1 DEF Handshake, Accept, OnId, OnHandshakeError, OnAnswer, Add,
       AddDone, Start, Refuse, TypeOK
  <2>2. open' = open
    BY <1>1 DEF Handshake, Accept, OnId, OnHandshakeError, OnAnswer, Add,
       AddDone, Start, Refuse, Received
  <2> QED BY <1>1, <2>1, <2>2, SilentStep
<1>2. ASSUME NEW kind \in {"phrase", "failure", "connected", "refused"},
             Send(c, Notice(kind)), open' = open,
             \A d \in Conns : hs'[d] = "served" =>
               hs[d] = "served" \/ (d = c /\ kind = "connected")
      PROVE  Confirmed' /\ WelcomeFirst'
  <2>1. Notice(kind) \in Frames /\ Notice(kind).kind \notin {"content", "dlgerr"}
    BY FrameTypes DEF Notice, Frame
  <2>2. Confirmed'
    BY <1>2, <2>1, SendKeepsConfirmed
  <2>3. WelcomeFirst'
    BY <1>2, <2>1, SendKeepsWelcome
  <2> QED BY <2>2, <2>3
<1>3. CASE OnId(c)
  <2>1. PICK kind \in {"phrase", "failure"} : Send(c, Notice(kind))
    BY <1>3 DEF OnId
  <2>2. open' = open /\ \A d \in Conns : hs'[d] = "served" => hs[d] = "served"
    BY <1>3 DEF OnId, Received, TypeOK
  <2> QED BY <1>2, <2>1, <2>2
<1>4. CASE Welcome(c)
  <2>1. open' = open /\ \A d \in Conns : hs'[d] = "served" => hs[d] = "served" \/ d = c
    BY <1>4 DEF Welcome, TypeOK
  <2> QED BY <1>2, <1>4, <2>1 DEF Welcome
<1>5. CASE Refuse(c)
  <2>1. open' = open /\ \A d \in Conns : hs'[d] = "served" => hs[d] = "served"
    BY <1>5 DEF Refuse, TypeOK
  <2> QED BY <1>2, <1>5, <2>1 DEF Refuse
<1> QED BY <1>1, <1>3, <1>4, <1>5 DEF Handshake, Accept, OnHandshakeError,
        OnAnswer, Add, AddDone, Start

\* A session that reads a message has a confirmed client, since the handler
\* that would confirm it is not running.
LEMMA OnMessageConfirms ==
  ASSUME Threads = 1, IsFiniteSet(Conns), TypeOK, TypeOK', StagesAgree,
         Confirmed, WelcomeFirst, NEW c \in Conns, OnMessage(c)
  PROVE  Confirmed' /\ WelcomeFirst'
<1>1. /\ FreeThread /\ rd[c] = "armed" /\ hs' = hs /\ open' = open
      /\ got'[c] = got[c] + 1
  BY ReceivedGrows DEF OnMessage, RdGoes, Received
<1>2. hs[c] = "served"
  BY <1>1, FreeMeansQuiet DEF StagesAgree, HsRunning
<1>3. got'[c] \in 1..MaxFrames
  <2>1. got[c] \in 0..MaxFrames /\ got'[c] \in 0..MaxFrames
    BY DEF TypeOK
  <2> QED BY <1>1, <2>1, BoundsAssumption
<1>4. CASE UNCHANGED out
  BY <1>1, <1>4, SilentStep
<1>5. CASE Send(c, Frame("dlgerr", c, got'[c]))
  <2>1. PICK f \in Frames : Send(c, f)
    BY <1>3, <1>5, FrameTypes
  <2>2. open[c] => \E j \in DOMAIN out[c] : out[c][j] = Notice("connected")
    BY <1>2 DEF Confirmed
  <2>3. WelcomeFirst'
    BY <2>1, <2>2, SendKeepsWelcome
  <2>4. Confirmed'
    BY <1>1, <2>1, SendKeepsConfirmed
  <2> QED BY <2>3, <2>4
<1> QED BY <1>4, <1>5 DEF OnMessage

\* Neither is the handler of a session a message is written to.
LEMMA RelayConfirms ==
  ASSUME TypeOK, InflightIsRelayed, InflightIsLast, Exclusive,
         Confirmed, WelcomeFirst, NEW m \in inflight, Relay(m)
  PROVE  Confirmed' /\ WelcomeFirst'
<1>1. m.from \in Conns /\ m.via \in Conns /\ m.n \in 1..MaxFrames
  BY DEF TypeOK, Messages
<1>2. hs' = hs /\ open' = open /\ Send(m.via, Frame("content", m.from, m.n))
  BY DEF Relay
<1>3. rd[m.from] \in RdRunning
  BY DEF InflightIsRelayed, RdRunning
<1>4. hs[m.via] = "served"
  BY <1>1, <1>3 DEF Exclusive, InflightIsLast, Listens, Talks, HsRunning
<1>5. PICK f \in Frames : Send(m.via, f)
  BY <1>1, <1>2, FrameTypes
<1>6. open[m.via] => \E j \in DOMAIN out[m.via] : out[m.via][j] = Notice("connected")
  BY <1>1, <1>4 DEF Confirmed
<1>7. WelcomeFirst'
  BY <1>1, <1>5, <1>6, SendKeepsWelcome
<1>8. Confirmed'
  BY <1>1, <1>2, <1>5, SendKeepsConfirmed
<1> QED BY <1>7, <1>8

-------------------------------------------------------------------------------
(* Refusals *)

\* The directory is changed by the handlers in the middle of add or remove, of
\* which there is none while another handler refuses.
LEMMA StaysRefused ==
  ASSUME TypeOK, Shape, Exclusive, RefusedInTime, [Next]_vars
  PROVE  RefusedInTime'
<1> USE DEF HsGoes, RdGoes, dirVars, commVars, relayVars
<1> SUFFICES ASSUME NEW c \in Conns, hs'[c] = "refuse"
             PROVE  sessions'[KeyOf[c]] \notin {None, c}
  BY DEF RefusedInTime
<1>1. CASE hs[c] = "refuse"
  <2>1. sessions[KeyOf[c]] \notin {None, c}
    BY <1>1 DEF RefusedInTime
  <2>2. \A d \in Conns : ~AddDone(d) /\ ~RemoveDone(d)
    BY <1>1 DEF Exclusive, HsRunning, RdRunning, AddDone, RemoveDone
  <2>3. sessions' = sessions
    BY <2>2 DEF Next, Client, Connect, ClientSend, ClientClose, Handshake,
       Accept, OnId, OnHandshakeError, OnAnswer, Add, Start, Welcome, Refuse,
       ReadLoop, OnMessage, OnReadError, Remove, Relay, AcceptFails, Idle, vars
  <2> QED BY <2>1, <2>3
<1>2. CASE hs[c] # "refuse"
  <2>1. Add(c) /\ AddFails(c, KeyOf[c]) /\ hs[c] = "add"
    BY <1>2 DEF Next, Client, Connect, ClientSend, ClientClose, Handshake,
       Accept, OnId, OnHandshakeError, OnAnswer, Add, AddDone, Start, Welcome,
       Refuse, ReadLoop, OnMessage, OnReadError, Remove, RemoveDone, Relay,
       AcceptFails, Idle, vars, TypeOK
  <2>2. sessions' = sessions /\ sessions[KeyOf[c]] # None
    BY <2>1 DEF Add, AddFails
  <2>3. sessions[KeyOf[c]] # c
    <3>1. ~Holds(c)
      BY <2>1 DEF Shape, StagesAgree, Holds
    <3> QED BY <2>2, <3>1, KeyOfAssumption DEF Shape, DirectoryMatchesSessions
  <2> QED BY <2>2, <2>3
<1> QED BY <1>1, <1>2

-------------------------------------------------------------------------------
LEMMA NextSingle ==
  ASSUME Threads = 1, IsFiniteSet(Conns), IInv, IInv', Relaying, Single,
         [Next]_vars
  PROVE  Single'
<1>1. /\ TypeOK /\ TypeOK' /\ Shape /\ StagesAgree /\ InflightIsRelayed
      /\ InflightIsLast /\ Exclusive /\ Confirmed /\ WelcomeFirst /\ RefusedInTime
  BY DEF IInv, Shape, Relaying, Single
<1>2. Exclusive' /\ RefusedInTime'
  BY <1>1, StaysExclusive, StaysRefused
<1>3. Confirmed' /\ WelcomeFirst'
  <2>1. ASSUME NEW c \in Conns, Client(c) PROVE Confirmed' /\ WelcomeFirst'
    <3>1. /\ out' = out
          /\ \A d \in Conns : /\ hs'[d] = "served" => hs[d] = "served"
                              /\ hs'[d] = "served" /\ open'[d] => open[d]
      BY <1>1, <2>1 DEF Client, Connect, ClientSend, ClientClose, HsGoes, TypeOK
    <3> QED BY <1>1, <3>1, SilentStep
  <2>2. ASSUME NEW c \in Conns, Handshake(c) PROVE Confirmed' /\ WelcomeFirst'
    BY <1>1, <2>2, HandshakeConfirms
  <2>3. ASSUME NEW c \in Conns, ReadLoop(c) PROVE Confirmed' /\ WelcomeFirst'
    <3>1. CASE OnMessage(c)
      BY <1>1, <3>1, OnMessageConfirms
    <3>2. CASE OnReadError(c) \/ Remove(c) \/ RemoveDone(c)
      <4>1. out' = out /\ hs' = hs /\ open' = open
        BY <3>2 DEF OnReadError, Remove, RemoveDone, commVars
      <4> QED BY <1>1, <4>1, SilentStep
    <3>3. ASSUME NEW m \in inflight, Relay(m) PROVE Confirmed' /\ WelcomeFirst'
      BY <1>1, <3>3, RelayConfirms
    <3> QED BY <2>3, <3>1, <3>2, <3>3 DEF ReadLoop
  <2>4. ASSUME AcceptFails \/ UNCHANGED vars PROVE Confirmed' /\ WelcomeFirst'
    <3>1. out' = out /\ hs' = hs /\ open' = open
      BY <2>4 DEF AcceptFails, vars, commVars
    <3> QED BY <1>1, <3>1, SilentStep
  <2>5. \/ \E c \in Conns : Client(c) \/ Handshake(c) \/ ReadLoop(c)
        \/ AcceptFails \/ UNCHANGED vars
    BY DEF Next, Idle
  <2> QED BY <2>1, <2>2, <2>3, <2>4, <2>5
<1> QED BY <1>2, <1>3 DEF Single

LEMMA AlwaysSingle ==
  ASSUME Threads = 1, IsFiniteSet(Conns)
  PROVE  Spec => [](IInv /\ Relaying /\ Single)
<1>1. Init => Single
  BY DEF Init, Single, Exclusive, Confirmed, RefusedInTime, WelcomeFirst,
     HsRunning, RdRunning
<1>2. IInv /\ IInv' /\ Relaying /\ Single /\ [Next]_vars => Single'
  BY NextSingle
<1> QED BY <1>1, <1>2, AlwaysRelaying, PTL DEF Spec

\* On one thread no agent hears of another, or of a dialogue, before it is told
\* that it is connected, although its session is registered and reads before
\* (CoreServer::secretHandshake, AgentSession::process_message).
THEOREM WelcomeComesFirst ==
  ASSUME Threads = 1, IsFiniteSet(Conns)
  PROVE  Spec => []WelcomeFirst
<1>1. Single => WelcomeFirst
  BY DEF Single
<1> QED BY <1>1, AlwaysSingle, PTL

\* On one thread a client is refused only while another session has its key
\* (CoreServer::newSession, secretHandshake, AgentDirectory::add).
THEOREM RefusalsAreCurrent ==
  ASSUME Threads = 1, IsFiniteSet(Conns)
  PROVE  Spec => RefusalIsCurrent
<1>1. ASSUME IInv, Single, [Next]_vars, NEW c \in Conns,
             hs[c] # "refused", hs'[c] = "refused"
      PROVE  sessions[KeyOf[c]] \notin {None, c}
  <2> USE DEF HsGoes, RdGoes, dirVars, commVars, relayVars
  <2>1. OnId(c) \/ Refuse(c)
    BY <1>1 DEF IInv, Next, Client, Connect, ClientSend, ClientClose, Handshake,
       Accept, OnId, OnHandshakeError, OnAnswer, Add, AddDone, Start, Welcome,
       Refuse, ReadLoop, OnMessage, OnReadError, Remove, RemoveDone, Relay,
       AcceptFails, Idle, vars, TypeOK
  <2>2. CASE OnId(c)
    <3>1. FreeThread /\ hs[c] = "rcvId" /\ TRUE \in Exist(KeyOf[c])
      BY <1>1, <2>2 DEF OnId, Received, IInv, TypeOK
    <3>2. writer = None
      BY <1>1, <3>1, FreeMeansQuiet DEF IInv, TypeOK, DirTypeOK, WriterIsInside,
         HsRunning, RdRunning
    <3>3. sessions[KeyOf[c]] # None
      BY <3>1, <3>2 DEF Exist
    <3>4. ~Holds(c)
      BY <1>1, <3>1 DEF IInv, StagesAgree, Holds
    <3> QED BY <1>1, <3>3, <3>4, KeyOfAssumption DEF IInv, DirectoryMatchesSessions
  <2>3. CASE Refuse(c)
    BY <1>1, <2>3 DEF Refuse, Single, RefusedInTime
  <2> QED BY <2>1, <2>2, <2>3
<1>2. IInv /\ Single /\ [Next]_vars =>
        [\A c \in Conns : hs[c] # "refused" /\ hs'[c] = "refused" =>
           sessions[KeyOf[c]] \notin {None, c}]_vars
  BY <1>1
<1> QED BY <1>2, AlwaysSingle, PTL DEF Spec, RefusalIsCurrent
===============================================================================
