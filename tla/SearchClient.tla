----------------------------- MODULE SearchClient -----------------------------
(***************************************************************************)
(* The client of the OEF Search (lib/src/oef_search_client.cpp and .hpp):  *)
(* requests made by agent sessions are written to one connection, a handle *)
(* with the session's continuation is saved when the write has completed,  *)
(* and a receive loop takes the Search's answers, finds the handle by the  *)
(* identifier in the answer's header and calls the continuation.           *)
(*                                                                         *)
(* Completed operations wait in the io_context's queue, in order, for one  *)
(* of a pool of threads.  A handler is more than one step where another    *)
(* thread's handler can come in between.                                   *)
(***************************************************************************)
EXTENDS Naturals, FiniteSets, Sequences

CONSTANTS
  Requests,  \* the requests sessions make
  OpOf,      \* the operation of each request
  SmsgId,    \* the identifier generate_smsg_id_ gives each request
  IdLimit,   \* identifiers are integers below this, 2^32 in the code
  Awaits,    \* the requests an agent has answered before it makes this one
  Threads,   \* threads running the io_context
  Faults,    \* what may go wrong: "garble", "break", "truncate"
  Receive,   \* the receive loop's completed read, in the io_context's queue
  None       \* no request

Ops == {"update", "remove", "search-local", "search-wide"}
Ids == 0..(IdLimit - 1)

ASSUME OpOfAssumption    == OpOf \in [Requests -> Ops]
ASSUME IdLimitAssumption == IdLimit \in Nat \ {0}
ASSUME SmsgIdAssumption  == SmsgId \in [Requests -> Ids]
ASSUME AwaitsAssumption  == Awaits \in [Requests -> SUBSET Requests]
ASSUME ThreadsAssumption == Threads \in Nat \ {0}
ASSUME FaultsAssumption  == Faults \subseteq {"garble", "break", "truncate"}
ASSUME NamesAssumption   == /\ None \notin Requests /\ Receive \notin Requests
                            /\ None # Receive

VARIABLES
  pc,        \* how far each request has got
  updated,   \* updated_address_: the Search has not been told the address
  carries,   \* the update of this request carries the address
  ready,     \* completed operations waiting for a thread
  writeQ,    \* writes started on the connection and not completed
  wire,      \* what the Search has received, in order
  up,        \* the connection is up
  verdicts,  \* what the Search has answered to each request, if anything
  resp,      \* answers on their way to the receive loop
  rcv,       \* where the receive loop is
  cur,       \* the answer process_message_ is working on
  handle,    \* the handle process_message_ has found for it
  handles,   \* handles_: the request whose continuation is saved under each id
  answers    \* the calls of each request's continuation

sendVars == <<pc, updated, carries, writeQ, ready>>
netVars == <<wire, up, verdicts>>
rcvVars == <<resp, rcv, cur, handle>>
vars == <<sendVars, netVars, rcvVars, handles, answers>>

\* gen, send: in the session's handler; save, fail: in the write's handler.
PcStates == {"idle", "gen", "send", "writing", "written", "refused",
             "save", "fail", "done"}
RcvStates == {"armed", "queued", "get", "erase", "call", "dead"}

NoReply == [id |-> 0, src |-> None, kind |-> "none"]
Replies == [id : Ids, src : Requests, kind : {"ok", "fail"}]
   \union [id : {0}, src : {None}, kind : {"none", "garbled", "truncated"}]

\* src: the request whose answer was given; the write that failed gives none.
Answers == [src : Requests \union {None}, ok : BOOLEAN]

TypeOK ==
  /\ pc \in [Requests -> PcStates]
  /\ updated \in BOOLEAN
  /\ carries \in [Requests -> BOOLEAN]
  /\ ready \in Seq(Requests \union {Receive})
  /\ writeQ \in Seq(Requests)
  /\ wire \in Seq([req : Requests, addr : BOOLEAN])
  /\ up \in BOOLEAN
  /\ verdicts \in [Requests -> {"none", "ok", "fail"}]
  /\ resp \in Seq(Replies)
  /\ rcv \in RcvStates
  /\ cur \in Replies
  /\ handle \in Requests \union {None}
  /\ handles \in [Ids -> Requests \union {None}]
  /\ answers \in [Requests -> Seq(Answers)]

Init ==
  /\ pc = [r \in Requests |-> "idle"]
  /\ updated = TRUE
  /\ carries = [r \in Requests |-> FALSE]
  /\ ready = <<>>
  /\ writeQ = <<>>
  /\ wire = <<>>
  /\ up = TRUE
  /\ verdicts = [r \in Requests |-> "none"]
  /\ resp = <<>>
  /\ rcv = "armed"
  /\ cur = NoReply
  /\ handle = None
  /\ handles = [i \in Ids |-> None]
  /\ answers = [r \in Requests |-> <<>>]

-------------------------------------------------------------------------------
(* Threads, identifiers and continuations *)

Busy == Cardinality({r \in Requests : pc[r] \in {"gen", "send", "save", "fail"}})
      + (IF rcv \in {"get", "erase", "call"} THEN 1 ELSE 0)

\* Mutant: one thread more.
SpareThread == Busy <= Threads

FreeThread == Busy < Threads

\* Mutant: the identifier does not wrap around.
HeaderIdWide(i) == i + 1

\* generate_header_ puts the identifier plus one on the wire, in 32 bits, and
\* process_message_ takes it off again.
HeaderId(i) == (i + 1) % IdLimit

\* Mutant: the question in process_message_, "Do we need -1 here?", is
\* answered with no.
SmsgIdKept(h) == h

SmsgIdOf(h) == (h + IdLimit - 1) % IdLimit

Goes(r, from, to) == pc[r] = from /\ pc' = [pc EXCEPT ![r] = to]

\* A completed operation is taken from the queue by a thread.
Dispatched(op) ==
  /\ FreeThread
  /\ ready # <<>>
  /\ Head(ready) = op
  /\ ready' = Tail(ready)

Answer(r, src, ok) ==
  answers' = [answers EXCEPT ![r] = Append(@, [src |-> src, ok |-> ok])]

-------------------------------------------------------------------------------
(* Requests: register_service, unregister_service, search_service and
   search_service_wide, with the operations that delegate to them *)

\* Mutant: the address is taken by whatever request comes first.
CallTakesAddress(r) ==
  /\ FreeThread
  /\ Goes(r, "idle", "gen")
  /\ \A s \in Awaits[r] : answers[s] # <<>>
  /\ carries' = [carries EXCEPT ![r] = updated]
  /\ UNCHANGED <<updated, writeQ, ready, netVars, rcvVars, handles, answers>>

\* The session's handler builds header and payload.  updated_address_ is read
\* here and cleared in a step of its own: no lock makes the two one.
Call(r) ==
  /\ FreeThread
  /\ Goes(r, "idle", "gen")
  /\ \A s \in Awaits[r] : answers[s] # <<>>
  /\ carries' = [carries EXCEPT ![r] = OpOf[r] = "update" /\ updated]
  /\ UNCHANGED <<updated, writeQ, ready, netVars, rcvVars, handles, answers>>

Generate(r) ==
  /\ Goes(r, "gen", "send")
  /\ updated' = (updated /\ ~carries[r])
  /\ UNCHANGED <<carries, writeQ, ready, netVars, rcvVars, handles, answers>>

\* send_ starts the write and the session's handler returns.
Send(r) ==
  /\ Goes(r, "send", "writing")
  /\ writeQ' = Append(writeQ, r)
  /\ UNCHANGED <<updated, carries, ready, netVars, rcvVars, handles, answers>>

\* Writes complete in the order they were started.
WriteCompletes(r) ==
  /\ writeQ # <<>>
  /\ Head(writeQ) = r
  /\ writeQ' = Tail(writeQ)
  /\ ready' = Append(ready, r)
  /\ IF up
       THEN /\ Goes(r, "writing", "written")
            /\ wire' = Append(wire, [req |-> r, addr |-> carries[r]])
       ELSE /\ Goes(r, "writing", "refused")
            /\ UNCHANGED wire
  /\ UNCHANGED <<updated, carries, up, verdicts, rcvVars, handles, answers>>

\* The write's completion handler is given a thread.
OnWritten(r) ==
  /\ Dispatched(r)
  /\ Goes(r, "written", "save") \/ Goes(r, "refused", "fail")
  /\ UNCHANGED <<updated, carries, writeQ, netVars, rcvVars, handles, answers>>

\* schedule_rcv_callback_: a handle that is already there is kept and the new
\* one is dropped.
SaveHandle(r) ==
  /\ Goes(r, "save", "done")
  /\ handles' = IF handles[SmsgId[r]] = None
                  THEN [handles EXCEPT ![SmsgId[r]] = r] ELSE handles
  /\ UNCHANGED <<updated, carries, writeQ, ready, netVars, rcvVars, answers>>

\* Mutant: the error is logged and goes no further.
FailSilently(r) ==
  /\ Goes(r, "fail", "done")
  /\ UNCHANGED <<updated, carries, writeQ, ready, netVars, rcvVars, handles,
                 answers>>

\* The continuation is called with the error.
FailRequest(r) ==
  /\ Goes(r, "fail", "done")
  /\ Answer(r, None, FALSE)
  /\ UNCHANGED <<updated, carries, writeQ, ready, netVars, rcvVars, handles>>

-------------------------------------------------------------------------------
(* The OEF Search and the connection, outside this repository *)

Received == {wire[i].req : i \in DOMAIN wire}
Replied == {r \in Requests : verdicts[r] # "none"}

\* The Search answers a request it has received once, in any order.
SearchReplies(r) ==
  /\ up
  /\ r \in Received \ Replied
  /\ \E kind \in {"ok", "fail"} :
       /\ verdicts' = [verdicts EXCEPT ![r] = kind]
       /\ resp' = Append(resp,
                    [id |-> HeaderId(SmsgId[r]), src |-> r, kind |-> kind])
  /\ UNCHANGED <<sendVars, wire, up, rcv, cur, handle, handles, answers>>

Fault(kind) == [id |-> 0, src |-> None, kind |-> kind]

\* A message whose header cannot be parsed; one is enough to see what follows.
SearchGarbles ==
  /\ "garble" \in Faults
  /\ up
  /\ \A i \in DOMAIN resp : resp[i].kind # "garbled"
  /\ rcv # "dead"
  /\ resp' = Append(resp, Fault("garbled"))
  /\ UNCHANGED <<sendVars, netVars, rcv, cur, handle, handles, answers>>

\* The connection breaks, between two messages or in the middle of one; a
\* reset loses the answers that have not been read.
SearchBreaks ==
  /\ "break" \in Faults
  /\ up
  /\ up' = FALSE
  /\ \/ resp' \in {resp, <<>>}
     \/ "truncate" \in Faults /\ resp' = Append(resp, Fault("truncated"))
  /\ UNCHANGED <<sendVars, wire, verdicts, rcv, cur, handle, handles, answers>>

-------------------------------------------------------------------------------
(* The receive loop: handle_messages, receive_ and process_message_ *)

ReadCompletes ==
  /\ rcv = "armed"
  /\ resp # <<>> \/ ~up
  /\ rcv' = "queued"
  /\ ready' = Append(ready, Receive)
  /\ UNCHANGED <<pc, updated, carries, writeQ, netVars, resp, cur, handle,
                 handles, answers>>

\* A read that fails, a message cut short and a header that cannot be parsed
\* all end the loop: handle_messages is not called again.
OnReceive ==
  /\ Dispatched(Receive)
  /\ rcv = "queued"
  /\ IF resp = <<>>
       THEN rcv' = "dead" /\ UNCHANGED <<resp, cur>>
       ELSE /\ resp' = Tail(resp)
            /\ IF Head(resp).kind \in {"ok", "fail"}
                 THEN rcv' = "get" /\ cur' = Head(resp)
                 ELSE rcv' = "dead" /\ UNCHANGED cur
  /\ UNCHANGED <<pc, updated, carries, writeQ, netVars, handle, handles, answers>>

\* msg_handle_get and msg_handle_erase each take the lock for themselves.
GetHandle ==
  /\ rcv = "get"
  /\ rcv' = "erase"
  /\ handle' = handles[SmsgIdOf(cur.id)]
  /\ UNCHANGED <<sendVars, netVars, resp, cur, handles, answers>>

\* Mutant: the handle stays.
EraseNothing ==
  /\ rcv = "erase"
  /\ rcv' = "call"
  /\ UNCHANGED <<sendVars, netVars, resp, cur, handle, handles, answers>>

EraseHandle ==
  /\ rcv = "erase"
  /\ rcv' = "call"
  /\ handles' = [handles EXCEPT ![SmsgIdOf(cur.id)] = None]
  /\ UNCHANGED <<sendVars, netVars, resp, cur, handle, answers>>

\* Mutant: handle_messages is not called again.
CallOnce ==
  /\ rcv = "call"
  /\ rcv' = "dead"
  /\ cur' = NoReply
  /\ handle' = None
  /\ IF handle = None THEN UNCHANGED answers
                      ELSE Answer(handle, cur.src, cur.kind = "ok")
  /\ UNCHANGED <<sendVars, netVars, resp, handles>>

\* Mutant: the status in the header is not looked at.
CallSuccessful ==
  /\ rcv = "call"
  /\ rcv' = "armed"
  /\ cur' = NoReply
  /\ handle' = None
  /\ IF handle = None THEN UNCHANGED answers
                      ELSE Answer(handle, cur.src, TRUE)
  /\ UNCHANGED <<sendVars, netVars, resp, handles>>

\* Without a handle the continuation is the default one, which does nothing.
CallContinuation ==
  /\ rcv = "call"
  /\ rcv' = "armed"
  /\ cur' = NoReply
  /\ handle' = None
  /\ IF handle = None THEN UNCHANGED answers
                      ELSE Answer(handle, cur.src, cur.kind = "ok")
  /\ UNCHANGED <<sendVars, netVars, resp, handles>>

-------------------------------------------------------------------------------
\* Nothing is left to do but wait for sessions and for the Search.
Idle == Busy = 0 /\ ready = <<>> /\ UNCHANGED vars

Request(r) == \/ Generate(r) \/ Send(r) \/ WriteCompletes(r) \/ OnWritten(r)
              \/ SaveHandle(r) \/ FailRequest(r)
Loop == \/ ReadCompletes \/ OnReceive \/ GetHandle \/ EraseHandle
        \/ CallContinuation
Search == \/ \E r \in Requests : SearchReplies(r)
          \/ SearchGarbles \/ SearchBreaks

Next == \/ \E r \in Requests : Call(r) \/ Request(r)
        \/ Loop \/ Search \/ Idle

Spec == Init /\ [][Next]_vars

\* The kernel completes what was started, the io_context runs what has
\* completed; sessions need not ask and the Search need not answer.
Fairness == WF_vars(Loop) /\ \A r \in Requests : WF_vars(Request(r))

FairSpec == Spec /\ Fairness

-------------------------------------------------------------------------------
(* Safety, for any number of threads *)

\* A request reuses an identifier only after the answer to the request that
\* had it: what AnswerIsOwn asks of agents and of the hash.
IdsAreDistinct ==
  \A r, s \in Requests : r # s /\ SmsgId[r] = SmsgId[s]
                           => r \in Awaits[s] \/ s \in Awaits[r]

\* A session's continuation runs at most once for a request, whether the write
\* fails, the Search answers, or both race (register_service and its like,
\* process_message_): an agent never gets two answers.
AtMostOneAnswer == \A r \in Requests : Len(answers[r]) <= 1

\* What a session is told is the Search's answer to this very request, although
\* identifiers wrap around and are used again, or the error of its own write,
\* and then the Search has not carried the request out
\* (generate_header_, process_message_, msg_handle_get).
AnswerIsOwn ==
  \A r \in Requests : \A i \in DOMAIN answers[r] :
    LET a == answers[r][i]
    IN  \/ a.src = r /\ verdicts[r] = (IF a.ok THEN "ok" ELSE "fail")
        \/ a.src = None /\ ~a.ok /\ verdicts[r] = "none"

\* A handle is kept for a request that was written and has had no answer: no
\* continuation is kept for a request that is over (msg_handle_save,
\* msg_handle_erase).
HandlesWait ==
  \A i \in Ids : handles[i] # None =>
    LET r == handles[i]
    IN  SmsgId[r] = i /\ pc[r] = "done" /\ answers[r] = <<>>

Service == INSTANCE SearchService WITH
  asked   <- {r \in Requests : pc[r] # "idle"},
  verdict <- verdicts,
  told    <- [r \in Requests |-> IF answers[r] = <<>> THEN "none"
                                ELSE IF answers[r][1].ok THEN "ok" ELSE "fail"]

\* To the sessions the client is the service they ask for: with its queues, its
\* table and its threads it tells each request its own outcome, once, or
\* nothing, and never calls failed what the Search has done or will do.
RefinesService == Service!Spec

-------------------------------------------------------------------------------
(* What holds of one thread, and not of several *)

\* The answer never overtakes the handle: by the time the Search's answer is
\* processed the handle of its request is there, although it is saved only
\* after the request was written (register_service and its like).
AnswerFindsHandle == rcv = "erase" => handle = cur.src

\* The first update the Search receives carries the core's address and no other
\* does (generate_update_add_naddr_), although the flag is cleared long before
\* the update is written.
IsUpdate(i) == OpOf[wire[i].req] = "update"
AddressOnFirstUpdate ==
  \A i \in DOMAIN wire :
    wire[i].addr <=> IsUpdate(i) /\ \A j \in 1..(i - 1) : ~IsUpdate(j)

\* Every answer of the Search reaches the continuation of its request unless
\* the connection breaks, or one message comes whose header cannot be parsed:
\* that ends the loop, so the formula is one for a Search that sends none.
AnswerArrives == \A r \in Requests : r \in Replied ~> answers[r] # <<>> \/ ~up

\* A request that could not be written is answered with an error.
FailureIsReported ==
  \A r \in Requests : pc[r] = "refused" ~> answers[r] # <<>>

-------------------------------------------------------------------------------
(* What the code says and does not do *)

\* "failed to deserialize header, message discarded" (receive_): one message
\* that cannot be parsed costs that message, and the answers after it arrive.
OnlyThatMessageIsDiscarded == AnswerArrives
===============================================================================
