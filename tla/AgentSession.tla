----------------------------- MODULE AgentSession -----------------------------
(***************************************************************************)
(* The requests an agent makes of the OEF through its session              *)
(* (lib/src/agent_session.cpp, lib/include/agent_session.hpp): the session *)
(* reads one envelope at a time, remembers the description the agent       *)
(* registers, passes the request to the OEF Search and, when the Search's  *)
(* client calls the continuation, answers the agent or says nothing.       *)
(*                                                                         *)
(* The client of the Search is SearchService, which SearchClient           *)
(* implements.  The messages agents send each other are in CoreServer.     *)
(***************************************************************************)
EXTENDS Naturals, FiniteSets, Sequences

CONSTANTS
  Sessions,     \* the sessions of the agents that are connected
  Models,       \* the data models agents describe themselves with
  Envelopes,    \* what each agent may send: kinds with data models
  Leaving,      \* the sessions whose agent may go
  MaxRequests,  \* envelopes read in all; a bound of the model
  Pools,        \* the sizes of the pool of threads the server may be run with
  None          \* no session, no data model, no description

Requests == 1..MaxRequests

Searches == {"search_agents", "search_services", "search_services_wide"}
Kinds == {"register_description", "unregister_description",
          "register_service", "unregister_service", "not_set"} \union Searches

ASSUME EnvelopesAssumption ==
         Envelopes \in
           [Sessions -> SUBSET [kind : Kinds, model : Models \union {None}]]
ASSUME LeavingAssumption == Leaving \subseteq Sessions
ASSUME BoundAssumption == MaxRequests \in Nat
ASSUME PoolsAssumption == Pools \subseteq Nat \ {0} /\ Pools # {}
ASSUME NoneAssumption  == None \notin Models /\ None \notin Sessions

VARIABLES
  pool,         \* the threads that run the io_context
  listening,    \* whether the Search's client still takes answers
  reading,      \* the sessions whose read loop goes on
  open,         \* the sessions whose agent has not gone
  made,         \* the envelopes read so far: whose, which kind, which model
  inHand,       \* the request each session's handler is in the middle of, or 0
  description,  \* description_ of each session, or None
  carries,      \* the data model each request to the Search carries
  answers,      \* what each request's agent has been sent in answer
  pipelined,    \* the sessions whose agent did not wait for the Search
  asked, verdict, told,  \* see SearchService
  listed        \* the registrations the Search has carried out and not removed

searchVars == <<asked, verdict, told, listed>>
vars == <<pool, listening, reading, open, made, inHand, description, carries,
          answers, pipelined, searchVars>>

Search == INSTANCE SearchService

\* The payloads of the answers to an agent's requests.
Answers == {"oef_error", "agents", "agents_wide"}

\* Each variable has its values, and a request that a handler is in the middle
\* of is the session's own and has not been passed on.
TypeOK ==
  /\ pool \in Pools
  /\ listening \in BOOLEAN
  /\ reading \subseteq Sessions
  /\ open \subseteq Sessions
  /\ made \in Seq([by : Sessions, kind : Kinds, model : Models \union {None}])
  /\ Len(made) <= MaxRequests
  /\ inHand \in [Sessions -> 0..MaxRequests]
  /\ description \in [Sessions -> Models \union {None}]
  /\ carries \in [Requests -> Models \union {None}]
  /\ answers \in [Requests -> Seq(Answers)]
  /\ pipelined \subseteq Sessions
  /\ asked \subseteq Requests
  /\ verdict \in [Requests -> {"none", "ok", "fail"}]
  /\ told \in [Requests -> {"none", "ok", "fail"}]
  /\ listed \subseteq asked
  /\ \A s \in Sessions : inHand[s] # 0 =>
       inHand[s] <= Len(made) /\ made[inHand[s]].by = s /\ inHand[s] \notin asked

Init ==
  /\ pool \in Pools
  /\ listening = TRUE
  /\ reading = Sessions
  /\ open = Sessions
  /\ made = <<>>
  /\ inHand = [s \in Sessions |-> 0]
  /\ description = [s \in Sessions |-> None]
  /\ carries = [r \in Requests |-> None]
  /\ answers = [r \in Requests |-> <<>>]
  /\ pipelined = {}
  /\ Search!Init
  /\ listed = {}

-------------------------------------------------------------------------------
(* Threads and the read loop *)

\* A handler that is in the middle of a request occupies a thread.
FreeThread == Cardinality({s \in Sessions : inHand[s] # 0}) < pool

\* The requests of a session that the Search has not been heard of about.
Outstanding(s) ==
  {r \in asked : made[r].by = s /\ told[r] = "none"}

\* read: the session takes the next envelope off the connection.
Reads(s, kind, model) ==
  /\ FreeThread
  /\ s \in reading
  /\ inHand[s] = 0
  /\ Len(made) < MaxRequests
  /\ [kind |-> kind, model |-> model] \in Envelopes[s]
  /\ made' = Append(made, [by |-> s, kind |-> kind, model |-> model])
  /\ pipelined' = IF Outstanding(s) = {} THEN pipelined
                                         ELSE pipelined \union {s}
  /\ UNCHANGED <<pool, listening, reading, open>>

Next1 == Len(made) + 1

\* The request is passed to the Search's client, with the model it carries.
Forward(r, model) ==
  /\ Search!Ask(r)
  /\ carries' = [carries EXCEPT ![r] = model]

InHand(s, r) == inHand' = [inHand EXCEPT ![s] = r]

\* Mutant: a description that is there is kept.
DescribesOnce(s, m) ==
  /\ Reads(s, "register_description", m)
  /\ description' = IF description[s] = None
                      THEN [description EXCEPT ![s] = m] ELSE description
  /\ InHand(s, Next1)
  /\ UNCHANGED <<carries, answers, searchVars>>

\* The description is set before the Search is asked.
RegisterDescription(s, m) ==
  /\ Reads(s, "register_description", m)
  /\ description' = [description EXCEPT ![s] = m]
  /\ InHand(s, Next1)
  /\ UNCHANGED <<carries, answers, searchVars>>

\* Mutant: the description is forgotten when the Search is asked.
ForgetsAtOnce(s) ==
  /\ Reads(s, "unregister_description", None)
  /\ description[s] # None
  /\ description' = [description EXCEPT ![s] = None]
  /\ Forward(Next1, description[s])
  /\ UNCHANGED <<inHand, answers, verdict, told, listed>>

\* Without a description there is nothing to do and nothing is said.
UnregisterDescription(s) ==
  /\ Reads(s, "unregister_description", None)
  /\ IF description[s] = None THEN UNCHANGED inHand ELSE InHand(s, Next1)
  /\ UNCHANGED <<description, carries, answers, searchVars>>

\* Mutant: the handler does not return.
PassesOnAndOn(s) ==
  /\ inHand[s] # 0
  /\ \E m \in IF description[s] # None THEN {description[s]}
                                       ELSE Models \union {None} :
       Forward(inHand[s], m)
  /\ UNCHANGED <<pool, listening, reading, open, made, inHand, description,
                 answers, pipelined, verdict, told, listed>>

\* The handler goes on and reads the description again.  A continuation on
\* another thread may have emptied it: what is read then is anything.
PassDescription(s) ==
  /\ inHand[s] # 0
  /\ \E m \in IF description[s] # None THEN {description[s]}
                                       ELSE Models \union {None} :
       Forward(inHand[s], m)
  /\ InHand(s, 0)
  /\ UNCHANGED <<pool, listening, reading, open, made, description, answers,
                 pipelined, verdict, told, listed>>

\* A service comes with the envelope and is not remembered.
PassService(s, kind, m) ==
  /\ kind \in {"register_service", "unregister_service"}
  /\ Reads(s, kind, m)
  /\ Forward(Next1, m)
  /\ UNCHANGED <<inHand, description, answers, verdict, told, listed>>

PassSearch(s, kind) ==
  /\ kind \in Searches
  /\ Reads(s, kind, None)
  /\ Forward(Next1, None)
  /\ UNCHANGED <<inHand, description, answers, verdict, told, listed>>

\* An envelope without a payload, or one that cannot be parsed, is logged.
Unprocessable(s) ==
  /\ Reads(s, "not_set", None)
  /\ UNCHANGED <<inHand, description, carries, answers, searchVars>>

\* The read fails once the agent has gone; the loop is not entered again.
ReadFails(s) ==
  /\ FreeThread
  /\ s \in reading \ open
  /\ inHand[s] = 0
  /\ reading' = reading \ {s}
  /\ UNCHANGED <<pool, listening, open, made, inHand, description, carries,
                 answers, pipelined, searchVars>>

-------------------------------------------------------------------------------
(* The continuations the session gives the Search's client *)

\* The client calls a continuation with an answer it has received, or with the
\* error of the request's own write.
ReportsBack(r) == (listening /\ Search!Tell(r)) \/ Search!GiveUp(r)

\* Mutant: an error is logged and nothing is sent.
ErrorIsLogged == <<>>

\* The error has the number of the request, and an operation.  agent.proto has
\* no operation for a search: its error names REGISTER_SERVICE.
SendError == <<"oef_error">>

\* Mutant: the wide search is left out.
SendNarrowResult(kind) ==
  IF kind \in Searches \ {"search_services_wide"} THEN <<"agents">> ELSE <<>>

\* Only a search is answered when all is well.
SendResult(kind) ==
  CASE kind = "search_services_wide" -> <<"agents_wide">>
    [] kind \in Searches -> <<"agents">>
    [] OTHER -> <<>>

\* Mutant: after the error the handler goes on to send the result.
ContinuationFallsThrough(r) ==
  /\ FreeThread
  /\ ReportsBack(r)
  /\ LET request == made[r]
         failed == told'[r] = "fail"
         sent == (IF failed THEN SendError ELSE <<>>)
                   \o SendResult(request.kind)
     IN  /\ answers' = IF request.by \in open
                         THEN [answers EXCEPT ![r] = @ \o sent] ELSE answers
         /\ description' =
              IF request.kind = "unregister_description" /\ ~failed
                THEN [description EXCEPT ![request.by] = None] ELSE description
  /\ UNCHANGED <<pool, listening, reading, open, made, inHand, carries,
                 pipelined, listed>>

\* Mutant: the description is kept.
ContinuationKeeps(r) ==
  /\ FreeThread
  /\ ReportsBack(r)
  /\ LET request == made[r]
         sent == IF told'[r] = "fail" THEN SendError
                                      ELSE SendResult(request.kind)
     IN  answers' = IF request.by \in open
                      THEN [answers EXCEPT ![r] = @ \o sent] ELSE answers
  /\ UNCHANGED <<pool, listening, reading, open, made, inHand, description,
                 carries, pipelined, listed>>

\* The client calls the continuation with what became of the request.  What is
\* sent to an agent that has gone is lost.
Continuation(r) ==
  /\ FreeThread
  /\ ReportsBack(r)
  /\ LET request == made[r]
         failed == told'[r] = "fail"
         sent == IF failed THEN SendError
                           ELSE SendResult(request.kind)
     IN  /\ answers' = IF request.by \in open
                         THEN [answers EXCEPT ![r] = @ \o sent] ELSE answers
         /\ description' =
              IF request.kind = "unregister_description" /\ ~failed
                THEN [description EXCEPT ![request.by] = None] ELSE description
  /\ UNCHANGED <<pool, listening, reading, open, made, inHand, carries,
                 pipelined, listed>>

-------------------------------------------------------------------------------
(* The agents and the OEF Search, outside this repository *)

AgentGoes(s) ==
  /\ s \in open \intersect Leaving
  /\ open' = open \ {s}
  /\ UNCHANGED <<pool, listening, reading, made, inHand, description, carries,
                 answers, pipelined, searchVars>>

\* A remove has the core's key and a data model, but not the agent's key: every
\* registration of that model through this core goes.
Lists(r) ==
  IF made[r].kind \in {"register_description", "register_service"}
    THEN listed \union {r}
  ELSE IF made[r].kind \in {"unregister_description", "unregister_service"}
    THEN {q \in listed : carries[q] # carries[r]}
  ELSE listed

SearchDecides(r) ==
  /\ Search!Decide(r)
  /\ listed' = IF verdict'[r] = "ok" THEN Lists(r) ELSE listed
  /\ UNCHANGED <<pool, listening, reading, open, made, inHand, description,
                 carries, answers, pipelined>>

\* The connection to the Search breaks, or a message on it cannot be parsed or
\* is cut short: handle_messages is not called again, and the answers that come
\* after it are never read (SearchClient, OnReceive).
LoopEnds ==
  /\ listening
  /\ listening' = FALSE
  /\ UNCHANGED <<pool, reading, open, made, inHand, description, carries, answers,
                 pipelined, searchVars>>

-------------------------------------------------------------------------------
\* No more envelopes and no answers: the server waits.
Idle ==
  /\ \A s \in Sessions : inHand[s] = 0
  /\ UNCHANGED vars

Process(s) ==
  \/ \E m \in Models : RegisterDescription(s, m)
  \/ UnregisterDescription(s)
  \/ \E m \in Models, kind \in Kinds : PassService(s, kind, m)
  \/ \E kind \in Kinds : PassSearch(s, kind)
  \/ Unprocessable(s)

Next ==
  \/ \E s \in Sessions : \/ Process(s) \/ PassDescription(s) \/ ReadFails(s)
                         \/ AgentGoes(s)
  \/ \E r \in Requests : Continuation(r) \/ SearchDecides(r)
  \/ LoopEnds
  \/ Idle

Spec == Init /\ [][Next]_vars

\* A handler that has begun comes to its end.  An answer of the Search reaches
\* the session when the server has one thread, for as long as the client's loop
\* goes on (SearchClient, AnswerArrives); nothing is promised once it has ended.
Fairness ==
  /\ \A s \in Sessions : WF_vars(PassDescription(s))
  /\ \A r \in Requests :
       WF_vars(/\ pool = 1 /\ listening /\ verdict[r] # "none"
               /\ Continuation(r))

FairSpec == Spec /\ Fairness

-------------------------------------------------------------------------------
(* Properties *)

KindOf(r) == made[r].kind
Own(s) == {r \in DOMAIN made : made[r].by = s}

\* What an agent hears is true and will stay true, whichever of the write and
\* the Search's answer came first: it has one answer at most, an error only of
\* what the Search has not carried out and does not list, and a result only of a
\* search that was carried out (agent_session.cpp:35-43, 108-127).  Silence says
\* nothing: the answer may be on its way, or lost with the client's loop.
AnswersAreTrue ==
  \A r \in asked :
    /\ Len(answers[r]) <= 1
    /\ answers[r] = <<"oef_error">> => verdict[r] # "ok" /\ r \notin listed
    /\ answers[r] \in {<<"agents">>, <<"agents_wide">>} =>
         verdict[r] = "ok" /\ KindOf(r) \in Searches

\* The requests with which session s was given a description.
Descriptions(s) == {r \in Own(s) : KindOf(r) = "register_description"}

LastDescription(s, r) ==
  LET before == {q \in Descriptions(s) : q <= r}
  IN  made[CHOOSE q \in before : \A p \in before : p <= q].model

\* What a session passes to the Search about its description is the description
\* its agent gave last, when the server has one thread, and with any number of
\* threads when the agent waits for the Search: description_ is tested and set
\* in one step of a handler and read in another (agent_session.cpp:48, 54).
PassesLastDescription ==
  \A s \in Sessions : \A r \in Own(s) \intersect asked :
    /\ KindOf(r) \in {"register_description", "unregister_description"}
    /\ pool = 1 \/ s \notin pipelined
    => carries[r] = LastDescription(s, r)

\* An agent that describes itself with one model and waits for the Search can
\* take its description back for as long as the Search lists it: the session
\* has not forgotten it, whatever failed before (agent_session.cpp:29, 61).
KeptWhileListed ==
  \A s \in Sessions : \A r \in listed \intersect Descriptions(s) :
    /\ s \notin pipelined
    /\ \A q \in Descriptions(s) : made[q].model = made[r].model
    => description[s] = made[r].model

\* The agent of request r is connected; its session holds a description.
Connected(r) == r \in DOMAIN made /\ made[r].by \in open
Describes(r) == r \in DOMAIN made /\ description[made[r].by] # None

\* A search the OEF Search has answered is answered to the agent, unless the
\* agent goes or the Search's client stops listening first.
SearchIsAnswered ==
  \A r \in Requests :
    (pool = 1 /\ verdict[r] # "none" /\ KindOf(r) \in Searches)
      ~> (answers[r] # <<>> \/ ~Connected(r) \/ ~listening)

\* A registration is answered only when it fails (agent_session.cpp:41), so an
\* agent can go by silence only if every refusal comes back to it: it does, unless
\* the agent goes or the Search's client stops listening first.
RefusalIsReported ==
  \A r \in Requests :
    (pool = 1 /\ verdict[r] = "fail")
      ~> (answers[r] = <<"oef_error">> \/ ~Connected(r) \/ ~listening)

\* A description the Search has removed at the session's request is forgotten,
\* unless the Search's client stops listening first: the session does not hold
\* on to it for ever.
RemovalIsNoticed ==
  \A r \in Requests :
    (/\ pool = 1 /\ verdict[r] = "ok" /\ told[r] = "none"
     /\ KindOf(r) = "unregister_description")
      ~> (~Describes(r) \/ ~listening)
===============================================================================
