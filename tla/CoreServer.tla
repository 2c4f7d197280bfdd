------------------------------ MODULE CoreServer ------------------------------
(***************************************************************************)
(* The core server and the sessions it creates: accepting connections, the *)
(* handshake (lib/src/core_server.cpp), and the read loop of a session     *)
(* that relays an agent's messages to other agents (lib/src/               *)
(* agent_session.cpp), run as handlers of one io_context by a pool of      *)
(* threads.                                                                *)
(*                                                                         *)
(* A connection stands for the socket, for the communicator around it and  *)
(* for the session made from it.  A handler occupies a thread from its     *)
(* first step to its last; only the steps other handlers can tell apart    *)
(* are separate actions.  A client is any peer that writes frames and      *)
(* closes: frame 1 is read as the ID, frame 2 as the answer, all others as *)
(* messages for a destination that is chosen when the frame is parsed.     *)
(***************************************************************************)
EXTENDS AgentDirectory, Naturals, FiniteSets, Sequences

CONSTANTS
  KeyOf,           \* the public key in each connection's ID message
  Threads,         \* threads running the io_context, each with an accept
  MaxFrames,       \* bound: frames any client sends, ID and answer included
  FramesOf,        \* bound: frames each client sends
  MaxAcceptErrors  \* bound: accepts that fail

ASSUME KeyOfAssumption   == KeyOf \in [Conns -> Keys]
ASSUME ThreadsAssumption == Threads \in Nat \ {0}
ASSUME BoundsAssumption  == MaxFrames \in Nat /\ MaxAcceptErrors \in Nat
ASSUME FramesAssumption  == FramesOf \in [Conns -> 0..MaxFrames]

VARIABLES
  hs,        \* how far the handshake of each connection has got
  rd,        \* the read loop of the session of each connection
  open,      \* whether the client's end of each connection is still up
  avail,     \* frames that have arrived on a connection and are not read
  got,       \* frames the server has read from a connection
  out,       \* frames the server has written to a connection
  inflight,  \* messages looked up and not yet sent: process_message's locals
  lost,      \* messages written to a socket whose client was gone
  acceptors  \* accept operations pending on the listening socket

commVars == <<open, avail, got, out>>
relayVars == <<inflight, lost>>
vars == <<dirVars, hs, rd, commVars, relayVars, acceptors>>

HsStates == {"none", "backlog", "rcvId", "rcvAnswer", "add", "adding",
             "start", "welcome", "refuse", "served", "refused", "dropped"}
RdStates == {"off", "armed", "relay", "remove", "removing", "ended"}

\* Stages in which a handler of the connection is on a thread.
HsRunning == {"add", "adding", "start", "welcome", "refuse"}
RdRunning == {"relay", "remove", "removing"}

Frame(kind, from, n) == [kind |-> kind, from |-> from, n |-> n]
Notice(kind) == Frame(kind, None, 0)

Frames == [kind : {"phrase", "failure", "connected", "refused"},
           from : {None}, n : {0}]
   \union [kind : {"content", "dlgerr"}, from : Conns, n : 1..MaxFrames]

\* via: the session found, kept alive by the shared pointer of the lookup.
Messages == [from : Conns, n : 1..MaxFrames, via : Conns]
\* err: whether the write reported an error.
Losses == [from : Conns, n : 1..MaxFrames, err : BOOLEAN]

TypeOK ==
  /\ DirTypeOK
  /\ hs \in [Conns -> HsStates]
  /\ rd \in [Conns -> RdStates]
  /\ open \in [Conns -> BOOLEAN]
  /\ avail \in [Conns -> 0..MaxFrames]
  /\ got \in [Conns -> 0..MaxFrames]
  /\ out \in [Conns -> Seq(Frames)]
  /\ inflight \subseteq Messages
  /\ lost \subseteq Losses
  /\ acceptors \in 0..Threads

Init ==
  /\ DirInit
  /\ hs = [c \in Conns |-> "none"]
  /\ rd = [c \in Conns |-> "off"]
  /\ open = [c \in Conns |-> FALSE]
  /\ avail = [c \in Conns |-> 0]
  /\ got = [c \in Conns |-> 0]
  /\ out = [c \in Conns |-> <<>>]
  /\ inflight = {}
  /\ lost = {}
  /\ acceptors = Threads

-------------------------------------------------------------------------------
(* Handlers and threads *)

Busy == Cardinality({c \in Conns : hs[c] \in HsRunning})
      + Cardinality({c \in Conns : rd[c] \in RdRunning})

\* Mutant: the io_context is run by one thread more than the server started.
SpareThread == Busy <= Threads

FreeThread == Busy < Threads

HsGoes(c, from, to) == hs[c] = from /\ hs' = [hs EXCEPT ![c] = to]
RdGoes(c, from, to) == rd[c] = from /\ rd' = [rd EXCEPT ![c] = to]

\* Mutant: the error code of a receive is not looked at.
ReceivedUnchecked(c) ==
  /\ FreeThread
  /\ avail' = [avail EXCEPT ![c] = @ - 1]
  /\ got' = [got EXCEPT ![c] = @ + 1]
  /\ UNCHANGED open

\* The completion of a receive_async on c, with a frame or with an error.
Received(c) ==
  /\ FreeThread
  /\ avail[c] > 0
  /\ avail' = [avail EXCEPT ![c] = @ - 1]
  /\ got' = [got EXCEPT ![c] = @ + 1]
  /\ UNCHANGED open

ReceiveFails(c) == FreeThread /\ avail[c] = 0 /\ ~open[c]

\* send_async without a continuation: what is written to a socket whose
\* client is gone disappears.
Send(c, frame) ==
  out' = IF open[c] THEN [out EXCEPT ![c] = Append(@, frame)] ELSE out

-------------------------------------------------------------------------------
(* Clients *)

Connect(c) ==
  /\ HsGoes(c, "none", "backlog")
  /\ open' = [open EXCEPT ![c] = TRUE]
  /\ UNCHANGED <<dirVars, rd, avail, got, out, relayVars, acceptors>>

\* Frames sent once the server has dropped its end are of no interest.
ClientSend(c) ==
  /\ open[c]
  /\ hs[c] \notin {"refused", "dropped"}
  /\ got[c] + avail[c] < FramesOf[c]
  /\ avail' = [avail EXCEPT ![c] = @ + 1]
  /\ UNCHANGED <<dirVars, hs, rd, open, got, out, relayVars, acceptors>>

\* The client closes, or its connection is reset and unread frames are lost.
ClientClose(c) ==
  /\ open[c]
  /\ open' = [open EXCEPT ![c] = FALSE]
  /\ \E left \in {0, avail[c]} : avail' = [avail EXCEPT ![c] = left]
  /\ UNCHANGED <<dirVars, hs, rd, got, out, relayVars, acceptors>>

-------------------------------------------------------------------------------
(* CoreServer: accept and handshake *)

\* Mutant: do_accept is not called again.
AcceptOnce(c) ==
  /\ FreeThread
  /\ acceptors > 0
  /\ HsGoes(c, "backlog", "rcvId")
  /\ acceptors' = acceptors - 1
  /\ UNCHANGED <<dirVars, rd, commVars, relayVars>>

\* newSession starts a receive and do_accept is called again.
Accept(c) ==
  /\ FreeThread
  /\ acceptors > 0
  /\ HsGoes(c, "backlog", "rcvId")
  /\ UNCHANGED <<dirVars, rd, commVars, relayVars, acceptors>>

\* The acceptor logs the error and drops the continuation: nothing accepts
\* again in its place.
AcceptFails ==
  /\ FreeThread
  /\ acceptors > 0
  /\ Threads - acceptors < MaxAcceptErrors
  /\ acceptors' = acceptors - 1
  /\ UNCHANGED <<dirVars, hs, rd, commVars, relayVars>>

\* newSession's handler: the key is looked up without the lock.
OnId(c) ==
  /\ Received(c)
  /\ \E present \in Exist(KeyOf[c]) :
       IF present
         THEN HsGoes(c, "rcvId", "refused") /\ Send(c, Notice("failure"))
         ELSE HsGoes(c, "rcvId", "rcvAnswer") /\ Send(c, Notice("phrase"))
  /\ UNCHANGED <<dirVars, rd, relayVars, acceptors>>

\* Nothing holds the communicator any more: the connection goes away.
OnHandshakeError(c) ==
  /\ ReceiveFails(c)
  /\ HsGoes(c, "rcvId", "dropped") \/ HsGoes(c, "rcvAnswer", "dropped")
  /\ UNCHANGED <<dirVars, rd, commVars, relayVars, acceptors>>

\* secretHandshake's handler: the answer is not compared with anything.
OnAnswer(c) ==
  /\ Received(c)
  /\ HsGoes(c, "rcvAnswer", "add")
  /\ UNCHANGED <<dirVars, rd, out, relayVars, acceptors>>

Add(c) ==
  /\ \/ AddBegins(c, KeyOf[c]) /\ HsGoes(c, "add", "adding")
     \/ AddFails(c, KeyOf[c]) /\ HsGoes(c, "add", "refuse")
  /\ UNCHANGED <<sessions, rd, commVars, relayVars, acceptors>>

AddDone(c) ==
  /\ AddEnds(c, KeyOf[c])
  /\ HsGoes(c, "adding", "start")
  /\ UNCHANGED <<rd, commVars, relayVars, acceptors>>

\* session->start() comes before the Connected message.
Start(c) ==
  /\ HsGoes(c, "start", "welcome")
  /\ RdGoes(c, "off", "armed")
  /\ UNCHANGED <<dirVars, commVars, relayVars, acceptors>>

Welcome(c) ==
  /\ HsGoes(c, "welcome", "served")
  /\ Send(c, Notice("connected"))
  /\ UNCHANGED <<dirVars, rd, open, avail, got, relayVars, acceptors>>

\* Mutant: the session is started whatever add says.
RefuseStarted(c) ==
  /\ HsGoes(c, "refuse", "refused")
  /\ RdGoes(c, "off", "armed")
  /\ Send(c, Notice("refused"))
  /\ UNCHANGED <<dirVars, open, avail, got, relayVars, acceptors>>

\* Mutant: a refused session cleans its key up, as a removed one does.
RefuseRemoves(c) ==
  /\ HsGoes(c, "refuse", "refused")
  /\ Send(c, Notice("refused"))
  /\ sessions' = [sessions EXCEPT ![KeyOf[c]] = None]
  /\ UNCHANGED <<writer, rd, open, avail, got, relayVars, acceptors>>

Refuse(c) ==
  /\ HsGoes(c, "refuse", "refused")
  /\ Send(c, Notice("refused"))
  /\ UNCHANGED <<dirVars, rd, open, avail, got, relayVars, acceptors>>

-------------------------------------------------------------------------------
(* AgentSession: the read loop *)

\* Mutant: no dialogue error for a destination that is not connected.
OnMessageSilent(c) ==
  /\ Received(c)
  /\ \E to \in Keys, found \in Conns \union {None} :
       /\ Session(to, found)
       /\ IF found = None
            THEN RdGoes(c, "armed", "armed") /\ UNCHANGED inflight
            ELSE /\ RdGoes(c, "armed", "relay")
                 /\ inflight' = inflight \union
                      {[from |-> c, n |-> got'[c], via |-> found]}
  /\ UNCHANGED <<dirVars, hs, out, lost, acceptors>>

\* Mutant: read is armed again before process is called.
OnMessageReadsOn(c) ==
  /\ Received(c)
  /\ rd[c] \in {"armed", "relay"}
  /\ \E to \in Keys, found \in Conns :
       /\ Session(to, found)
       /\ inflight' = inflight \union
            {[from |-> c, n |-> got'[c], via |-> found]}
  /\ rd' = [rd EXCEPT ![c] = "relay"]
  /\ UNCHANGED <<dirVars, hs, out, lost, acceptors>>

\* process_message up to the send: the destination is looked up under the
\* lock; without a session the sender gets a dialogue error and reads on.
OnMessage(c) ==
  /\ Received(c)
  /\ \E to \in Keys, found \in Conns \union {None} :
       /\ Session(to, found)
       /\ IF found = None
            THEN /\ RdGoes(c, "armed", "armed")
                 /\ Send(c, Frame("dlgerr", c, got'[c]))
                 /\ UNCHANGED inflight
            ELSE /\ RdGoes(c, "armed", "relay")
                 /\ inflight' = inflight \union
                      {[from |-> c, n |-> got'[c], via |-> found]}
                 /\ UNCHANGED out
  /\ UNCHANGED <<dirVars, hs, lost, acceptors>>

\* Mutant: read is armed by the send's continuation, which is not called when
\* the write fails.
RelayThenReads(m) ==
  /\ m \in inflight
  /\ inflight' = inflight \ {m}
  /\ Send(m.via, Frame("content", m.from, m.n))
  /\ IF open[m.via]
       THEN rd' = [rd EXCEPT ![m.from] = "armed"] /\ UNCHANGED lost
       ELSE \E ec \in BOOLEAN :
              /\ lost' = lost \union {[from |-> m.from, n |-> m.n, err |-> ec]}
              /\ rd' = IF ec THEN rd ELSE [rd EXCEPT ![m.from] = "armed"]
  /\ UNCHANGED <<dirVars, hs, open, avail, got, acceptors>>

\* The send of process_message, after which the sender's read is re-armed.
\* A write that fails is logged and its continuation is not called.
Relay(m) ==
  /\ m \in inflight
  /\ inflight' = inflight \ {m}
  /\ rd' = [rd EXCEPT ![m.from] = "armed"]
  /\ Send(m.via, Frame("content", m.from, m.n))
  /\ IF open[m.via]
       THEN UNCHANGED lost
       ELSE \E ec \in BOOLEAN :
              lost' = lost \union {[from |-> m.from, n |-> m.n, err |-> ec]}
  /\ UNCHANGED <<dirVars, hs, open, avail, got, acceptors>>

\* Mutant: the session ends without leaving the directory.
OnReadErrorForgets(c) ==
  /\ ReceiveFails(c)
  /\ RdGoes(c, "armed", "ended")
  /\ UNCHANGED <<dirVars, hs, commVars, relayVars, acceptors>>

OnReadError(c) ==
  /\ ReceiveFails(c)
  /\ RdGoes(c, "armed", "remove")
  /\ UNCHANGED <<dirVars, hs, commVars, relayVars, acceptors>>

Remove(c) ==
  /\ RemoveBegins(c, KeyOf[c])
  /\ RdGoes(c, "remove", "removing")
  /\ UNCHANGED <<sessions, hs, commVars, relayVars, acceptors>>

RemoveDone(c) ==
  /\ RemoveEnds(c, KeyOf[c])
  /\ RdGoes(c, "removing", "ended")
  /\ UNCHANGED <<hs, commVars, relayVars, acceptors>>

-------------------------------------------------------------------------------
\* The server may wait for clients, but never inside a handler.
Idle == Busy = 0 /\ writer = None /\ UNCHANGED vars

Client(c) == Connect(c) \/ ClientSend(c) \/ ClientClose(c)
Handshake(c) == \/ Accept(c) \/ OnId(c) \/ OnHandshakeError(c) \/ OnAnswer(c)
                \/ Add(c) \/ AddDone(c) \/ Start(c) \/ Welcome(c) \/ Refuse(c)
ReadLoop(c) == \/ OnMessage(c) \/ OnReadError(c) \/ Remove(c) \/ RemoveDone(c)
               \/ \E m \in inflight : m.from = c /\ Relay(m)

Next == \/ \E c \in Conns : Client(c) \/ Handshake(c) \/ ReadLoop(c)
        \/ AcceptFails
        \/ Idle

Spec == Init /\ [][Next]_vars

\* The io_context dispatches every handler that is ready, and a thread inside
\* a handler runs on; clients owe nothing.
Fairness == \A c \in Conns : WF_vars(Handshake(c)) /\ WF_vars(ReadLoop(c))

FairSpec == Spec /\ Fairness

-------------------------------------------------------------------------------
(* Directory and sessions *)

\* The session of c is registered, from the end of add to the end of remove.
Holds(c) == hs[c] = "start" \/ rd[c] \in {"armed", "relay", "remove", "removing"}

\* The directory lists exactly the sessions whose read loop is going to run,
\* runs or is removing them: an entry nobody will remove would lock its agent
\* out for good, a running session without an entry could be named twice
\* (agent_directory.hpp add and remove, agent_session.cpp read).
DirectoryMatchesSessions ==
  /\ \A k \in Keys : sessions[k] # None => /\ KeyOf[sessions[k]] = k
                                           /\ Holds(sessions[k])
  /\ \A c \in Conns : Holds(c) => sessions[KeyOf[c]] = c

\* "Each connected agent have one Agent Session" (agent_session_t.hpp): two
\* connections never serve the same key, although newSession's test of the
\* key and add are far apart and connections interleave between them.
OneSessionPerKey ==
  \A c, d \in Conns : Holds(c) /\ Holds(d) /\ KeyOf[c] = KeyOf[d] => c = d

\* A connection that is refused never becomes an agent: its read loop does not
\* run, nothing it sent is relayed and no agent's message reaches it
\* (core_server.cpp secretHandshake, the branch where add returns false).
Speaks(c, d) == \E i \in DOMAIN out[d] : /\ out[d][i].kind = "content"
                                         /\ out[d][i].from = c
RefusedAreDeaf ==
  \A c \in Conns : hs[c] \in {"refuse", "refused", "dropped"} =>
    /\ rd[c] = "off"
    /\ \A d \in Conns : ~Speaks(c, d) /\ ~Speaks(d, c)

-------------------------------------------------------------------------------
(* Messages *)

\* What has become of message n of c (process_message).
Delivered(c, n) == {d \in Conns :
  \E i \in DOMAIN out[d] : out[d][i] = Frame("content", c, n)}
Reported(c, n) == {i \in DOMAIN out[c] : out[c][i] = Frame("dlgerr", c, n)}
Pending(c, n) == {m \in inflight : m.from = c /\ m.n = n}
LostOf(c, n) == {l \in lost : l.from = c /\ l.n = n}

Outcomes(c, n) == Cardinality(Delivered(c, n)) + Cardinality(Reported(c, n))
                + Cardinality(Pending(c, n)) + Cardinality(LostOf(c, n))

\* Every message an agent's session has read has exactly one outcome, being
\* relayed, delivered, answered with a dialogue error or written to a dead
\* socket, and a frame that was not read has none; only a sender that has gone
\* may miss its dialogue error (process_message's two branches).
OneOutcomePerMessage ==
  \A c \in Conns, n \in 3..MaxFrames :
    /\ Outcomes(c, n) <= (IF n <= got[c] THEN 1 ELSE 0)
    /\ open[c] /\ n <= got[c] => Outcomes(c, n) = 1

\* What one agent sends another arrives in the order it was sent, whatever the
\* threads: read is armed again only after process has returned.
PerSenderFifo ==
  \A d \in Conns : \A i, j \in DOMAIN out[d] :
    i < j /\ out[d][i].kind = "content" /\ out[d][j].kind = "content"
          /\ out[d][i].from = out[d][j].from
      => out[d][i].n < out[d][j].n

-------------------------------------------------------------------------------
(* What holds of one thread (run_in_thread), and not of several *)

\* No agent hears of another agent, or of a dialogue, before it is told that
\* it is connected, although the session is registered and its read loop
\* started before that (secretHandshake, add, start and send in this order).
WelcomeFirst ==
  \A d \in Conns : \A i \in DOMAIN out[d] :
    out[d][i].kind \in {"content", "dlgerr"} =>
      \E j \in 1..(i - 1) : out[d][j] = Notice("connected")

\* A client is refused only while another session really has its key: no test
\* of the directory is out of date by the time the answer is sent.
RefusalIsCurrent ==
  [][\A c \in Conns : hs[c] # "refused" /\ hs'[c] = "refused" =>
       sessions[KeyOf[c]] \notin {None, c}]_vars

-------------------------------------------------------------------------------
(* Refinement and liveness *)

Registry == INSTANCE AgentRegistry WITH
  owner   <- sessions,
  claimed <- {c \in Conns : hs[c] \in {"start", "welcome", "served"}},
  verdict <- [c \in Conns |-> CASE hs[c] = "served"  -> "connected"
                                [] hs[c] = "refused" -> "refused"
                                [] OTHER             -> "none"]

\* The server implements the registry of names: no handler interleaving gives
\* a key to two connections, frees it for somebody else, confirms a connection
\* that never had its key or refuses one that did.
RefinesRegistry == Registry!Spec

\* An agent whose connection is gone gives its name back.
KeyIsFreed ==
  \A c \in Conns : sessions[KeyOf[c]] = c /\ ~open[c]
                     ~> sessions[KeyOf[c]] # c

\* A client that connects and sends its ID and its answer is told whether it
\* is connected, or has closed before: failing accepts cost no client its
\* handshake as long as one thread still accepts.
HandshakeEnds ==
  \A c \in Conns : hs[c] = "backlog" /\ avail[c] >= 2
                     ~> hs[c] \in {"served", "refused", "dropped"}

\* An agent's session reads everything the agent has sent.
EveryFrameIsRead == \A c \in Conns : Holds(c) /\ avail[c] > 0 ~> avail[c] = 0

-------------------------------------------------------------------------------
(* What the documentation says and the code does not do *)

\* "open a listening socket for agents and correctly handle their connections"
\* (core_server_t.hpp): a client in the backlog is accepted in the end.
BacklogIsAccepted == \A c \in Conns : hs[c] = "backlog" ~> hs[c] # "backlog"

\* send_async's continuation handles "successful transmission, or errors"
\* (communicator_t.hpp), and process_message's continuation answers an error
\* with a dialogue error: a write that reports an error is in the end reported
\* to the sender, if it is still there.
FailedSendIsReported ==
  \A c \in Conns, n \in 3..MaxFrames :
    [from |-> c, n |-> n, err |-> TRUE] \in lost
      ~> ~open[c] \/ Reported(c, n) # {}
===============================================================================
