# A TLA+ model of the OEF Core

This directory holds TLA+ modules that model the core node of the Open Economic
Framework (`src/lib`, `src/apps/node-pluto`), TLC configurations that check
them on small instances, and theorems about them that TLAPS proves for all
instances. Line numbers are those of the source beside it; `PROJECT.json` maps
every definition to the lines it models.

## The system

Agents connect to a *core server*, identify themselves with a public key, and
from then on send messages to each other through it, register descriptions and
services, and search for other agents. Registrations and searches are not
answered by the core: it forwards them over one connection to the *OEF Search*,
a server of its own that is not part of this repository.

Everything runs as completion handlers of one asio `io_context`. `run` starts a
pool of threads that all run it, `run_in_thread` runs it on the caller's thread
alone. There are no strands, so handlers of different connections, and even of
one connection, may run at the same time on different threads.

| component | state | operations | talks to |
|---|---|---|---|
| Core server (`core_server.cpp`, `asio_acceptor.cpp`) | one pending accept per thread; the handshake of each connection lives in the captures of its handlers | `do_accept`, `newSession`, `secretHandshake`, `run`, `run_in_thread`, `stop` | communicators, directory, sessions |
| Agent directory (`agent_directory.hpp`) | map from public key to session, one mutex | `add`, `exist` (takes no mutex), `remove`, `session`, `size`, `clear` | called by server and sessions |
| Agent session (`agent_session.cpp`) | public key, `description_`, a communicator | `start`, `read`, `process` and one `process_...` for each kind of message, `send` | directory, other sessions, search client |
| Search client (`oef_search_client.cpp`) | table of handles under a mutex, `updated_address_` | seven operations, `send_`, `receive_`, `process_message_`, `handle_messages` | OEF Search, continuations of sessions |
| Communicators (`asio_communicator.cpp`, `asio_basic_communicator.hpp`) | a socket | `send_async`, `receive_async` and their synchronous forms | asio |
| Schema (`schema.hpp`) | data models, instances, queries; `SchemaDirectory` | `check`, `valid`, `add`, `get` | sessions, tests |
| Serialization, client messages, logger, configuration, `main.cpp` | none that matters here | | |

What is hard here, and where a test hardly reaches (`PROJECT.json`, "hazards",
has each at its line):

* **Handlers interleave.** A key is looked up when the ID arrives and
  registered a round trip later; the lookup does not take the mutex; a
  destination is looked up and written to later; removal is by key.
* **Order of completion.** A handle is saved by the handler of a write, and
  looked up by the handler of the answer to what was written.
* **Errors end chains.** Accepting, receiving from the Search and reading from
  an agent each go on because the handler starts the next operation. An error
  path that does not, ends the chain for good.
* **Errors are lost.** A continuation that is not called, or is the default
  one, is a request nobody answers.
* **Identifiers** for the Search are hashes and wrap around.
* **State between handlers.** `description_` is tested and set in one step of a
  handler, read in another, and emptied by the continuation of an earlier
  request.
* **Buffers and partial writes.** asio writes a long frame in pieces, after the
  call that lent it its buffers has returned, and between the pieces of other
  calls.
* **Width and type.** An integer on the wire has 64 bits, an `int` fewer; a
  field of a message that is not set reads as zero; the check of a query does
  not compare types.

What makes each component correct:

* server and directory: a key never has two sessions, the directory lists
  exactly the sessions that run, a refused client stays out, handshakes end,
  names come back;
* relaying: one outcome for every message, the sender's order is kept, nothing
  is heard before the confirmation;
* search client: at most one answer per request, and the right one; an answer
  for every request as long as the connection is up;
* sessions: what an agent is told is true, every refusal and every result comes
  back while the Search's client listens, what is passed on is what the agent
  said last, and it is remembered for as long as it is listed;
* communicators: frames arrive whole and in order, and an outcome is reported
  only when it is true;
* schema: a query that was validated and an instance of its version never
  disagree about types, negation is negation, a version is found under its
  number for ever.

## The modules

### AgentRegistry

The abstract specification of the core as a registry of names: `Claim`,
`Confirm`, `Reject`, `Release`. It knows nothing of handlers, threads, locks
or sockets.

### AgentDirectory

The map and its mutex. An operation that changes the map is two steps, taking
and releasing the mutex (`AddBegins`/`AddEnds`, `RemoveBegins`/`RemoveEnds`).
`exist` takes no mutex: while a writer is inside, reading the map is a data
race, and the model lets it answer anything (`Exist`). That the race is
harmless to the invariants is one of the results below; that a real race could
also crash the process is outside the model.

### CoreServer

Extends AgentDirectory with the connections. `hs[c]` is how far the handshake
of connection `c` has got, `rd[c]` where the read loop of its session is;
together they stand for the program counters of the handlers.

| code | actions |
|---|---|
| `do_accept`, acceptor | `Accept`, `AcceptFails` |
| handler in `newSession` | `OnId`, `OnHandshakeError` |
| handler in `secretHandshake` | `OnAnswer`, then `Add`, `AddDone`, `Start`, `Welcome` or `Add`, `Refuse` |
| `read`, `process`, `process_message` | `OnMessage`, `Relay` |
| `read` with an error | `OnReadError`, `Remove`, `RemoveDone` |
| agents | `Connect`, `ClientSend`, `ClientClose` |

A handler occupies one of `Threads` threads from its first step to its last
(`Busy`, `FreeThread`), and it is cut into steps exactly where another thread
can see the difference: at the directory's mutex, at the start of the read
loop and at writes. Frames have no content: what frame 1 says is the constant
`KeyOf` (an ID that cannot be parsed is the empty key, which is a key as any
other), the answer in frame 2 is not looked at by the code, and the destination
of every later frame is any key. `out[c]` is what the client has been sent, and
serves the properties about order. A `send_async` is one step here: it arrives
whole if the client's end is up (`Send`). The pieces of a write, the overlap of
two and the length that is read from a dead frame of the stack are in `AsioComm`
alone. A write to a client that is gone disappears (`lost`); whether it also
reports an error is left open, as it is by TCP.

### SearchClient

One record per request of a session: `pc[r]` goes through building the message
(`Call`, `Generate`), starting the write (`Send`), its completion
(`WriteCompletes`), the handler of the completion (`OnWritten`) and saving the
handle (`SaveHandle`) or reporting the error (`FailRequest`). The receive loop
is `ReadCompletes`, `OnReceive`, `GetHandle`, `EraseHandle`,
`CallContinuation`. Completed operations wait in one queue, `ready`, in the
order in which they completed, and any free thread takes the first: this is
what asio does, and what decides whether an answer can overtake a handle. The
identifiers are integers below `IdLimit` (2^32 in the code) and go through
`HeaderId` and `SmsgIdOf` with their wrap-around. The seven operations differ
in the kind of request alone (`OpOf`); only an update reads and clears
`updated_address_`, in two steps, since no lock covers them.

The Search is external: it answers what it has received, once and in any order
(`SearchReplies`), and `Faults` says what else may happen: a message with a
header that cannot be parsed, a connection that breaks, a message cut short.

### SearchService

The abstract specification of the search client, as its sessions see it:
`Ask`, `Decide` (the Search carries the request out, or refuses), `Tell` (the
session is told which) and `GiveUp` (the request never reached the Search, and
its session is told so). No request need be decided and no session told, but
nothing is told twice and nothing wrongly. `SearchClient` defines the mapping
(`Service`) and states the refinement (`RefinesService`).

### AgentSession

The requests of the sessions, over `SearchService`: what `SearchClient` is
shown to implement is what the sessions here are given (`Search!Ask`,
`Search!Decide`, `Search!Tell`, `Search!GiveUp`).

| code | actions |
|---|---|
| `process_register_description`, `process_unregister_description` | `RegisterDescription`, `UnregisterDescription`: `description_` is set, or tested; then `PassDescription`: it is read again and the Search is asked |
| `process_register_service`, `process_unregister_service` | `PassService` |
| the three `process_search_...` | `PassSearch` |
| a payload that is not set, or cannot be parsed | `Unprocessable` |
| the continuations given to the client | `Continuation` |
| `read` with an error | `ReadFails` |
| agents and the Search | `AgentGoes`, `SearchDecides` |
| the end of the client's receive loop | `LoopEnds` |

The receive loop of the client ends for good when the connection breaks, a
header cannot be parsed or a message is cut short (`SearchClient`, `OnReceive`).
`LoopEnds` does this at any time: from then on no answer reaches a session
(`listening`), and only the error of a request's own write does
(`ReportsBack`).

A handler between its two steps occupies one of the `pool` threads; `Init`
chooses the size of the pool from `Pools`, so that one run compares a server
with one thread and one with several. `listed` is what the Search lists after
what it has decided; a remove carries the core's key and the data model, so it
takes every registration of that model with it (`Lists`). Requests are numbered
as they are read, which stands for the identifiers of the messages.

### FrameChannel and AsioComm

`FrameChannel` is what one direction of a connection promises: frames arrive
whole and in order, up to the first that the communicator did not hand over
undisturbed; after that, anything.

`AsioComm` is how `AsioComm` of `asio_communicator.cpp` does it, in units of
data: the length of a frame is one unit, its body `BodyOf` more.

| code | actions |
|---|---|
| `send_async`, and the completion of a piece inside `asio::async_write` | `SendAsync`, `OnPiece` |
| `send_sync`, of one buffer and of several | `SendSync`, `SyncWrites` |
| asio's reactor, when the socket is writable | `ReactorWrites` |
| `receive_async`, asked again by its continuation | `ReadLength`, `ReadBody`, `Deliver`, `ReceiveFails` |
| `disconnect`, at either end | `WriterDisconnects`, `ReaderDisconnects` |

A socket takes what it has room for. The first piece of an asynchronous write
is written in the call if no other waits and the socket is believed writable
(`speculative`, as in asio's reactor); the rest waits in the reactor's queue
`opq`. The length is a local variable of `send_async` and the data are not
captured by the handler, so what is written after the call has returned is
whatever their memory holds by then: `Written` chooses, piece by piece, whether
it is still what it was. A grouped send has kept a pointer to its first length,
which has moved. Calls overlap without restraint, since nothing in the code
orders the pieces of two calls.

### SchemaDirectory, Constraints, QueryModel

`SchemaDirectory` is `Schemas` and `SchemaDirectory`: versions in the order they
were added, `get` stopping at the first that is not below the one asked for.

`Constraints` has the operators: values with their narrowing from 64 bits to an
`int` (`Narrow`, `FromWire`), the four kinds of constraint with `check` and
`valid`, and the constructor and `instantiate` of instances. A value is a
number with a type; the order of strings, doubles with NaN and locations (which
are compared by latitude alone, and equal in both) is kept. `Carrier` is what a
type can hold, and `Relations`, `Sets`, `Ranges` and `Distances` are the
constraints there are of a type.

`QueryModel` builds expressions, makes queries of them, for a schema or for
none, and keeps adding versions. An expression is a sequence of nodes, each
over earlier ones, and `Check` and `Valid` are recursive functions over it.
What arrives from an agent may be what the constructors refuse (`Constructible`):
groups of one or none (`ReceiveGroup`), and constraints and values with no type
set (`WireTypes`). A query from a message (`ReceiveQuery`), the only kind the
sessions make, is taken as it is: with any model or none, with no constraints at
all, and never validated. `TypeOK` says that a query is valid of those the
program builds itself (`NewQuery`, `NewQueryFor`) and of no others.

### The other modules

`MCCoreServer`, `MCSearchClient`, `MCAgentSession`, `MCAsioComm` and
`MCQueryModel` give the constants their values. `CoreServerProofs`,
`CoreServerOutcomes`, `CoreServerSingle`, `SearchClientProofs`,
`SearchClientSingle`, `AgentSessionProofs`, `AsioCommProofs` and
`QueryModelProofs` hold the theorems.

Definitions commented `Mutant:` are plausible bugs of the code. Every property
of every passing run is violated when the mutant listed for it in
`PROJECT.json` replaces the definition it stands beside.

## The runs

| run | instance | what it shows |
|---|---|---|
| core_pool | 2 threads; `c1`, `c2` claim `ka`, `c3` claims `kb`; 3 frames each | types; the directory and the running sessions agree; one session per key; refused clients stay out; one outcome for each message; the server implements AgentRegistry |
| core_live | 2 threads, 2 agents of which one sends two messages, to the other or to itself, one accept may fail | names come back; handshakes end; sessions read all they are sent; the order of a sender's messages is kept |
| core_single | 1 thread, the three connections of core_pool | nothing is heard before the confirmation; a refusal is never out of date |
| accept_error | 1 thread, one accept fails | **violation**: the backlog is not accepted any more |
| send_error | 1 thread, two agents | **violation**: a failed write is not reported to the sender |
| search_pool | 2 threads, three requests, two of them with one identifier, all faults | types; at most one answer; the answer is that of the request; handles wait for somebody; the client implements SearchService |
| search_single | 1 thread, the connection may break or cut a message short | an answer finds its handle; the first update, and no other, has the address; answers arrive; failures are reported |
| agent_session | 2 sessions, 2 data models, 3 requests, 1 or 2 threads; the one that describes itself may leave; the client of the Search may stop listening | types; what agents are told is true; the description passed on is the last one given; it is kept while the Search lists it; searches are answered, refusals reported and removals noticed while the client listens |
| comm_frames | a socket of 3 units, pieces of 2; two asynchronous sends, one synchronous send of a frame or a group of two; either end may disconnect | types; outcomes are true; the communicator implements FrameChannel; what is handed over undisturbed arrives; calls end |
| schema | one key, at most 2 schemas, 3 data models, expressions of at most 3 nodes, ints of 2 bits; queries that are built or received; instances of at most 2 values | types; constraints that were validated and values of one version have one type; the constructor of an instance agrees with `instantiate`; negation is negation; three ways to ask one question have one answer; versions are found, and stay |
| search_race | 2 threads, no fault | **violation**: an answer is lost to the race with its handle |
| search_discard | 1 thread, one message with a bad header | **violation**: the answers after it are lost with it |

The four runs marked as violations show where the code does not do what its own
comments say; `PROJECT.json`, "findings", quotes the lines.

**Bounds.** Two connections for one key and one for another are the least
instance with both a contended key and an uninvolved agent who can send to,
and hear from, the one who holds it. Three frames are an ID, an answer and one
message; the property about order needs a second message, and gets it in
core_live. Two threads are the least number at which handlers overlap; a third
could only add a third handler in the middle of its steps, which the theorems
cover. With more threads than connections nothing changes, since a connection
is in one handler at a time (or in its handshake's last step and its read
loop's first). `FramesOf` says how many
frames each client sends: in core_live one agent sends two messages and the
other one, each to either of the two. The rivals may be exchanged, and core_pool and core_single,
which check no liveness, use that symmetry. `MaxAcceptErrors` bounds how many
accepts fail; in core_live it is one of two, so that one thread still accepts:
accept_error shows what happens at the last one.

Three requests are a first update, a second update and a search, the least
with two for the address and one that must not carry it. `IdLimit` is 4, so
that identifier 3 is the one that wraps around. In search_pool the second
update has the identifier of the first and waits for its answer (`Awaits`): the
reuse of an identifier the code allows. The Search garbles one message at a
time, and only as long as it is listened to.

In agent_session one agent describes itself, with either model, takes it back
and searches; the other takes back a service of the first one's model, which is
all that is needed for one agent's remove to take another's registration off
the list, or sends an envelope without a payload. Three requests are a registration, another or a removal, and a
third that meets what they left; the second may be refused, lost or late. Which
of the properties hold only if an agent waits for the Search before it goes on
(`pipelined`), or only on one thread, is said in them: with two threads a
continuation may empty `description_` between its test and its use.

A socket of three units, pieces of two and bodies of none, one and two units make frames
that fit in one piece, that need two, and that find the socket full in the
middle; a group of two is the frame of one unit and that of three. Three calls
are two that wait in the queue and one that does not.

Ints of two bits against wider integers on the wire reach every case of the
narrowing. The three data models are two versions with other types under one
name, and another name. Queries are received, and expressions that the
constructors refuse are made, only while the directory is empty: what is received
does not look at it. Three nodes are enough for a negation of a group and
for the group of a negation; deeper ones are made of the same steps.

**Fairness.** `FairSpec` asks that a handler that can be run is run, and that a
thread inside a handler goes on: the `io_context` and the scheduler do that.
It is one weak fairness condition per connection and loop (`Handshake(c)`,
`ReadLoop(c)`) or request (`Request(r)`, `Loop`), not for single actions.
In `AgentSession` a handler that has begun ends (`PassDescription`), and a
verdict of the Search reaches the session (`Continuation`) if there is one
thread, and only for as long as the receive loop of the client goes on
(`listening`): that is `AnswerArrives` of `SearchClient`, which search_race
shows to fail with two threads and search_discard after the loop has ended, and
which needs identifiers of outstanding requests to differ. The loop may end at
any time, so the liveness properties of `AgentSession` except its end. A request
that never reaches the Search is not promised anything. In `AsioComm` the
handlers that are ready run (`Proceed(c)`), the reactor watches the socket and
the reader goes on reading (`Receive`). The core's own sessions do; of an agent,
which reads what the core sends, it is assumed, and one that stops reading holds
up the writes to it for ever. Nothing is asked of callers, and either end may
disconnect. `QueryModel`
has no fairness: its operations are calls.

Agents need not send or close, accepts need not fail and the Search need not
answer; the liveness properties are stated so that they hold all the same.

**Stopping.** `Idle` is the state in which the server waits: no handler runs
and the mutex is free. A state that is stuck in any other way, such as a handler
that waits for the mutex for ever, would be reported as a deadlock.

## The proofs

`CoreServerProofs` proves, for any sets of keys and connections and any numbers
of threads, frames and failing accepts:

* `TypeCorrect`, `DirectoryIsExact`, `KeyHasOneSession`: the invariants
  `TypeOK`, `DirectoryMatchesSessions` and `OneSessionPerKey`;
* `SendersAreFifo`, `RefusedNeitherHearNorSpeak`: the invariants `PerSenderFifo`
  and `RefusedAreDeaf`;
* `ServerImplementsRegistry`: `RefinesRegistry`, the refinement.

`DirectoryMatchesSessions` is not inductive. Between taking and releasing the
mutex a handler relies on what it saw when it took it: that the key was free
(`add`) or that it is its own (`remove`). The inductive invariant `IInv` says who holds the
mutex and what for, that the read loop of a connection runs only after its
handshake has come that far, and that the key of a connection inside `add` is
free. The unlocked `exist` needs no assumption at all: it decides only whether a
handshake goes on, and `add` decides again under the mutex. The refinement
follows from the same invariant, one step of the server at a time: `AddDone` is
`Claim`, `Welcome` is `Confirm`, `Refuse` and a failed `OnId` are `Reject`,
`RemoveDone` is `Release`, and all else is a stutter.

The two theorems about messages need more than the order of frames at one
receiver: `Relaying` adds that a message in flight is the last its sender's
session has read (`InflightIsLast`, because the read is armed again only after
`process_message`) and newer than everything of that sender written anywhere
(`ContentWasRead`), and that both ends of a message were registered when it was
looked up. A session that was registered never goes back in its handshake, so
neither end can be a refused connection, even after its entry is gone.

`SearchClientProofs` proves, for any requests, threads, width of identifiers
and all faults:

* `TypeCorrect`, `OneAnswer`, `TableIsSound`: `TypeOK`, `AtMostOneAnswer`,
  `HandlesWait`, even if identifiers collide. The strengthening says that the
  handle the receive loop has in hand is in the table until it is erased and
  not after, and that no continuation is called before the request's own
  handlers are through; what the Search has seen was written, so a request
  never gets both an error and an answer.
* `AnswersAreOwn`: `AnswerIsOwn`, if outstanding requests do not share an
  identifier (`IdsAreDistinct`). Its invariant follows an answer on its way from
  the Search to the loop: it is the only one for its request, which is
  unanswered, and so the handle under its identifier can be of no other request
  that is still waiting. The round trip of the identifier through the header is
  a lemma (`HeaderRoundTrip`).
* `ClientImplementsService`: `RefinesService`, under the same condition and from
  the same invariant. `Call` is `Ask`, `SearchReplies` is `Decide`,
  `CallContinuation` is `Tell` of the request whose handle was found, and
  `FailRequest` is `GiveUp`; the rest are stutters.

The condition is needed: `generate_smsg_id_` is a hash of the agent's key and its
message number, and two agents, or one that uses a number twice, may have two
requests waiting under one identifier. The session of the one is then told what
became of the other.

`CoreServerOutcomes` proves, for any number of connections, threads and frames,
`MessagesHaveOneOutcome`: `OneOutcomePerMessage`. The property counts the places in which a message is
found. The invariant says it of each message without counting (`Fated`): the
frames, messages in flight and losses that bear its number are none before it
is read, and one from then on, or at most one when the sender has gone. That
the handshake reads exactly the first two frames (`HandshakeReadsTwo`) is what
makes the third the first message.

`CoreServerSingle` proves what run_in_thread adds, for any finite set of
connections: `WelcomeComesFirst` (`WelcomeFirst`) and `RefusalsAreCurrent`
(`RefusalIsCurrent`). With one thread at most one handler is in the middle of
its steps (`Exclusive`), which follows from the cardinality of the set of those
that are; so a session that is served has confirmed its agent before anybody
else's handler can look it up (`Confirmed`), and what `add` saw when it refused
is still so when the refusal is written (`RefusedInTime`).

`SearchClientSingle` proves, for any finite set of requests and all faults, on
one thread:

* `HandlesAreInTime`: `AnswerFindsHandle`, if outstanding requests do not share
  an identifier. The write of a request and the read of its answer wait in one
  queue, and the write comes first (`WriteComesFirst`): the Search answers what
  was written, and its write had completed by then (`WrittenAreQueued`). The
  handler at the head runs to its end before the next begins, so when the read
  is taken up the handle has been saved and not erased (`SavedUntilAnswered`).
* `AddressIsToldOnce`: `AddressOnFirstUpdate`. The flag is read when the message
  is built and cleared later in the same handler, and on one thread no other
  handler is in between. `Addressed` follows the one request that carries the
  address, until it is written ahead of all that do not.

`AgentSessionProofs` proves, for any sessions, data models, pools and number of
requests:

* `TypeCorrect` and `AnswersTellTheTruth` (`AnswersAreTrue`). The invariant
  (`Answered`) relates what an agent was sent to what its session was told, and
  that to what the Search decided. Silence says nothing, and no theorem is about
  it: an answer may be late, or lost with the client's loop.
* `LastDescriptionIsPassed` (`PassesLastDescription`) and `DescriptionIsKept`
  (`KeptWhileListed`). A handler tests `description_` in one step and passes it
  on in another, and continuations empty it in between, so neither property is
  inductive. `Memory` adds that a description that is there is the last one
  given (`Remembered`); that the request in a handler's hand is the last of its
  session, with its description still there if nothing may disturb it
  (`InHandIsLast`); that an agent that waits has one request at the Search and
  none in hand besides (`WaitsForOne`); and that such a session is without a
  description only while the Search lists none, which is said of the requests
  the Search has decided and the session has not heard of yet too
  (`GoneFromBoth`).

`AsioCommProofs` proves, for any calls, frames, capacity and size of pieces:

* `TypeCorrect` (the socket is never overfull, the receive loop never reads more than it asked for)
  and `OutcomesAreTrue` (`OutcomeIsTrue`). They rest on a call being in the
  reactor's queue at most once, and there exactly when its stage says so
  (`QueuedOnce`), and on a blocked caller having more to write (`Progress`): a
  piece is then never more than what is left of its call.
* `CommImplementsChannel`: `RefinesFrameChannel`, the refinement. Frames are cut
  into units on one side and put together on the other, and the step that
  matters is that what the reader has put together is the frame the channel is
  to deliver next. The invariant (`WireInv`) says that there are places `b` in
  all that was ever written such that frame `i` begins after the first
  `b[i - 1]` units: what is on the wire of the frames that were handed over
  undisturbed is in its place (`InPlace`) and all there until the connection
  goes (`AllThere`), behind it is nothing or a part of the next (`PartOfNext`)
  whose writer is alone (`OneWriter`), and the reader has the right length of
  what it is reading (`NeedFits`). One lemma per action finds the places of the
  next state. `SendAsync` and `SendSync` are `Send`, with or without handing
  over; the last piece of a blocked write is `HandOver`; a whole frame is
  `Deliver`, or `DeliverAnything` once a frame was disturbed; the rest are
  stutters.

`QueryModelProofs` proves, for any schemas, constraints, values and expressions
of any depth:

* `TypeCorrect`, with it that every query the program built is valid for its
  model, and stays so; `VersionsAreFound` and `GetsAreStable` (`VersionIsFound`,
  `GetIsStable`); and `ConstructorIsExact` (`InstancesAreComplete`): counting the
  attributes, as the constructor does, decides the same as looking for each.
* `OneAnswerForOneQuestion`: `SameQuestionSameAnswer`, from what each kind of
  constraint says of a value it is clear about (`RelationSays`, `SetSays`,
  `RangeSays`).
* `TypesAreRight`: `NeverMistyped`. What is valid is made of valid constraints,
  however it is nested (`ValidToTheLeaves`), and the schema a query was built for
  is still found under its version (`Known`). A received query is covered if it
  is valid for its own model, which nothing in the core asks
  (`agent_session.cpp:104`, 129, 154): of one that is not, nothing holds.
* `NegationsMeanOpposites`: `NegationIsComplement`, from the leaves, where the
  opposite constraint is met when the constraint is not (`DeniedIsNot`), to the
  roots (`NegationsGoInwards`).

The last two are inductions over expressions. The induction theorems of the
library take an operator as a parameter, which the provers cannot instantiate,
but two facts of first order take their place: a set of naturals that is not
empty has a least member (`LeastNat`, from the well-foundedness of `<`), so the
least node that is a counterexample has only good parts; and a step that looks
at earlier nodes only has a fixpoint (`Recursion`), so `Check`, `Valid`,
`Leaves` and `Meaning` are what they are defined to be (`CheckUnfolds` and its
like).

The assumptions are those named in the modules: the types of the constants, at
least one thread, a socket and pieces of at least one unit, finite data models
and values, that an int has at least two values (`HalfAssumption`), that
constraints and values hold what their types can hold (`Typing`), and that
`None` is none of the connections, requests or models. The
theorems for one thread also assume what their statements say: `Threads = 1`
and finitely many connections or requests.

Every invariant and every action property that a passing run checks, and every
refinement, is stated by one of these theorems. Only model-checked are the
liveness properties, since neither fairness nor ENABLED is within the prover's
reach: `KeyIsFreed`, `HandshakeEnds`, `EveryFrameIsRead`, `AnswerArrives`,
`FailureIsReported`, `SearchIsAnswered`, `RefusalIsReported`, `RemovalIsNoticed`,
`SafeArrives` and `CallsEnd`.

## What is not modelled

* The server's life beyond running: the destructor (`stop`, `clear`, `join`
  against handlers that still run) and a constructor that cannot reach the
  Search. The order in which the threads of the pool end while `stop` takes
  their work away is asio's, and no line of the code says what should hold of
  it.
* `AsioBasicComm`, the framing of the search client: `SearchClient` takes its
  messages whole or cut short. A Search that stalls in the middle of a body
  holds the thread that reads it (`oef_search_client.cpp:236`), and a grouped
  send does not keep its buffers (`asio_basic_communicator.hpp:118`), which is
  the mechanism `AsioComm` has for `send_async`. `receive_sync` of `AsioComm`
  has no caller in the core.
* In the schema: equality and hash of instances, `Data`, `to_string`, the check
  of a bare value, duplicate attributes, and a constructor of `Distance`.
* What becomes of an agent's registrations when it disconnects
  (`agent_session.cpp:266`): the code does nothing, `AgentSession` shows that
  they stay listed, and there is no promise to check.
* Serialization, client messages, logging, configuration, `main.cpp`, tests,
  benchmarks, images and scripts: see "components" in `PROJECT.json`.
* Third-party code. More than nine tenths of the lines under `src/` are
  vendored libraries (asio, spdlog, Catch and others), so the mapped share of
  the whole tree is small: the mapped lines are those of `src/lib`. asio is
  modelled from its use, in `SearchClient` (the queue of completed operations)
  and `AsioComm` (pieces and the reactor).

## How the project grew, and what is left

Names, handshakes and relaying (`AgentRegistry`, `AgentDirectory`, `CoreServer`)
came first, being what the core is for; then requests and answers
(`SearchService`, `SearchClient`), the sessions that make them
(`AgentSession`), the communicators under both (`FrameChannel`, `AsioComm`) and
the schema (`SchemaDirectory`, `Constraints`, `QueryModel`).

Left, in this order: the server's destructor against handlers that still run;
`AsioBasicComm` in the manner of `AsioComm`, composed with `SearchClient`.
