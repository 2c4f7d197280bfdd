-------------------------- MODULE SearchClientSingle --------------------------
(***************************************************************************)
(* What the client of the OEF Search promises on one thread, for any       *)
(* finite number of requests and with every fault.  The handle is saved by *)
(* the handler of a write, and the answer cannot be processed before: both *)
(* wait in one queue, in which the write comes first.  The address is read *)
(* and cleared in two steps, and no other request's handler is between     *)
(* them.                                                                   *)
(***************************************************************************)
EXTENDS SearchClientProofs, FiniteSetTheorems

Running == {"gen", "send", "save", "fail"}

\* When the one thread is free no handler is in the middle of its steps.
LEMMA FreeMeansQuiet ==
  ASSUME Threads = 1, IsFiniteSet(Requests), FreeThread
  PROVE  ~Processing /\ \A r \in Requests : pc[r] \notin Running
<1> DEFINE R == {r \in Requests : pc[r] \in Running}
<1>1. IsFiniteSet(R)
  BY FS_Subset
<1>2. Cardinality(R) \in Nat
  BY <1>1, FS_CardinalityType
<1>3. Cardinality(R) + (IF Processing THEN 1 ELSE 0) < 1
  BY DEF FreeThread, Busy, Processing, Running
<1>4. Cardinality(R) = 0 /\ ~Processing
  <2> HIDE DEF R, Processing
  <2> QED BY <1>2, <1>3
<1>5. R = {}
  BY <1>1, <1>4, FS_EmptySet
<1> QED BY <1>4, <1>5

LEMMA AppendPlaces ==
  ASSUME NEW S, NEW q \in Seq(S), NEW x \in S
  PROVE  /\ \A i \in DOMAIN q : i \in DOMAIN Append(q, x) /\ Append(q, x)[i] = q[i]
         /\ \A i \in DOMAIN Append(q, x) :
              \/ i \in DOMAIN q /\ Append(q, x)[i] = q[i]
              \/ Append(q, x)[i] = x /\ \A j \in DOMAIN q : j < i
         /\ \E i \in DOMAIN Append(q, x) : Append(q, x)[i] = x
<1> DEFINE p == Append(q, x)
<1>1. /\ DOMAIN q = 1..Len(q) /\ Len(q) \in Nat
      /\ DOMAIN p = 1..(Len(q) + 1)
      /\ \A i \in 1..Len(q) : p[i] = q[i]
      /\ p[Len(q) + 1] = x
  OBVIOUS
<1> HIDE DEF p
<1>2. \A i \in DOMAIN p : \/ i \in DOMAIN q /\ p[i] = q[i]
                          \/ p[i] = x /\ \A j \in DOMAIN q : j < i
  <2> TAKE i \in DOMAIN p
  <2>1. CASE i \in DOMAIN q
    BY <1>1, <2>1
  <2>2. CASE i = Len(q) + 1
    BY <1>1, <2>2
  <2> QED BY <1>1, <2>1, <2>2
<1>3. \A i \in DOMAIN q : i \in DOMAIN p /\ p[i] = q[i]
  BY <1>1
<1>4. \E i \in DOMAIN p : p[i] = x
  BY <1>1
<1> QED BY <1>2, <1>3, <1>4 DEF p

\* What is behind the first element is in the tail, one place further on.
LEMMA BehindHead ==
  ASSUME NEW S, NEW q \in Seq(S), q # <<>>
  PROVE  \A i \in DOMAIN q : i # 1 => /\ i - 1 \in DOMAIN Tail(q)
                                      /\ Tail(q)[i - 1] = q[i]
OBVIOUS

-------------------------------------------------------------------------------
(* The queue *)

\* A read is in the queue once, while the loop waits for it.
OneReceive ==
  \A i \in DOMAIN ready : ready[i] = Receive =>
    rcv = "queued" /\ \A j \in DOMAIN ready : ready[j] = Receive => i = j

\* A write that has completed waits in the queue for its handler.
WrittenAreQueued ==
  \A r \in Requests : pc[r] = "written" => \E i \in DOMAIN ready : ready[i] = r

\* A read completes for an answer or because the connection is down.
ReadHasCause == rcv = "queued" /\ up => resp # <<>>

\* The write of the request whose answer is read next is ahead of the read.
WriteComesFirst ==
  \A i \in DOMAIN ready :
    ready[i] = Receive /\ resp # <<>> /\ IsAnswer(resp[1])
      /\ pc[resp[1].src] = "written" =>
        \E j \in 1..(i - 1) : ready[j] = resp[1].src

Queue == OneReceive /\ WrittenAreQueued /\ ReadHasCause /\ WriteComesFirst

\* The first answer on its way is from the Search.
LEMMA FirstReply ==
  ASSUME TypeOK
  PROVE  /\ \A i \in DOMAIN resp : IsAnswer(resp[i]) => resp[i].src \in Requests
         /\ resp # <<>> => 1 \in DOMAIN resp
<1>1. resp \in Seq(Replies)
  BY DEF TypeOK
<1>2. \A i \in DOMAIN resp : resp[i] \in Replies
  BY <1>1
<1>3. resp # <<>> => 1 \in DOMAIN resp
  BY <1>1
<1> QED BY <1>2, <1>3 DEF Replies, IsAnswer

\* Steps that leave the queue and the answers alone.
LEMMA QueueQuiet ==
  ASSUME Queue, TypeOK, UNCHANGED <<ready, rcv, resp, up>>,
         \A r \in Requests : pc'[r] = "written" => pc[r] = "written"
  PROVE  Queue'
<1>1. OneReceive' /\ WrittenAreQueued' /\ ReadHasCause'
  BY DEF Queue, OneReceive, WrittenAreQueued, ReadHasCause
<1>2. WriteComesFirst'
  BY FirstReply DEF Queue, WriteComesFirst, IsAnswer
<1> QED BY <1>1, <1>2 DEF Queue

\* A handler is taken from the front of the queue.
LEMMA DispatchQueue ==
  ASSUME IInv, Queue, NEW op \in Requests \union {Receive}, Dispatched(op),
         op \in Requests => pc'[op] # "written",
         \A r \in Requests : r # op => pc'[r] = pc[r],
         op # Receive => UNCHANGED <<rcv, resp, up>>,
         op = Receive => rcv' # "queued"
  PROVE  Queue'
<1>1. /\ ready \in Seq(Requests \union {Receive}) /\ ready # <<>>
      /\ ready' = Tail(ready) /\ ready[1] = op /\ 1 \in DOMAIN ready
  <2>1. ready \in Seq(Requests \union {Receive}) /\ ready # <<>> /\ Head(ready) = op
    BY DEF IInv, TypeOK, Dispatched
  <2> QED BY <2>1, TailElements DEF Dispatched
<1>2. \A i \in DOMAIN ready' : /\ i \in Nat /\ i + 1 # 1
                               /\ i + 1 \in DOMAIN ready /\ ready'[i] = ready[i + 1]
  BY <1>1, TailElements
<1>3. \A i \in DOMAIN ready : i # 1 => /\ i - 1 \in DOMAIN ready'
                                       /\ ready'[i - 1] = ready[i]
  BY <1>1, BehindHead
<1>4. OneReceive'
  <2> SUFFICES ASSUME NEW i \in DOMAIN ready', ready'[i] = Receive
               PROVE  /\ rcv' = "queued"
                      /\ \A j \in DOMAIN ready' : ready'[j] = Receive => i = j
    BY DEF OneReceive
  <2>1. ready[i + 1] = Receive /\ i + 1 \in DOMAIN ready /\ i + 1 # 1 /\ i \in Nat
    BY <1>2
  <2>2. op # Receive /\ rcv = "queued"
    BY <1>1, <2>1 DEF Queue, OneReceive
  <2>3. ASSUME NEW j \in DOMAIN ready', ready'[j] = Receive PROVE i = j
    <3>1. i + 1 = j + 1 /\ j \in Nat
      BY <1>2, <2>1, <2>3 DEF Queue, OneReceive
    <3> QED BY <2>1, <3>1
  <2> QED BY <2>2, <2>3
<1>5. WrittenAreQueued'
  <2> SUFFICES ASSUME NEW r \in Requests, pc'[r] = "written"
               PROVE  \E i \in DOMAIN ready' : ready'[i] = r
    BY DEF WrittenAreQueued
  <2>1. r # op /\ pc[r] = "written"
    OBVIOUS
  <2>2. PICK i \in DOMAIN ready : ready[i] = r
    BY <2>1 DEF Queue, WrittenAreQueued
  <2> QED BY <1>1, <1>3, <2>1, <2>2
<1>6. ReadHasCause'
  BY DEF Queue, ReadHasCause
<1>7. WriteComesFirst'
  <2> SUFFICES ASSUME NEW i \in DOMAIN ready', ready'[i] = Receive, resp' # <<>>,
                      IsAnswer(resp'[1]), pc'[resp'[1].src] = "written"
               PROVE  \E j \in 1..(i - 1) : ready'[j] = resp'[1].src
    BY DEF WriteComesFirst, IsAnswer
  <2>1. /\ ready[i + 1] = Receive /\ i + 1 \in DOMAIN ready /\ i \in Nat
        /\ i + 1 # 1
    BY <1>2
  <2>2. op # Receive /\ resp' = resp
    BY <1>1, <2>1 DEF Queue, OneReceive
  <2>3. resp[1].src \in Requests
    <3>1. resp \in Seq(Replies) /\ resp # <<>>
      BY <2>2 DEF IInv, TypeOK
    <3>2. resp[1] \in Replies
      BY <3>1
    <3> QED BY <2>2, <3>2 DEF Replies, IsAnswer
  <2>4. resp[1].src # op /\ pc[resp[1].src] = "written"
    BY <2>2, <2>3
  <2>5. PICK j \in 1..i : ready[j] = resp[1].src
    BY <2>1, <2>2, <2>4 DEF Queue, WriteComesFirst
  <2>6. j # 1 /\ j \in DOMAIN ready
    <3>1. DOMAIN ready = 1..Len(ready) /\ Len(ready) \in Nat
      BY <1>1
    <3> QED BY <1>1, <2>1, <2>4, <2>5, <3>1
  <2>7. ready'[j - 1] = resp[1].src /\ j - 1 \in 1..(i - 1)
    BY <1>3, <2>1, <2>5, <2>6
  <2> QED BY <2>2, <2>7
<1> QED BY <1>4, <1>5, <1>6, <1>7 DEF Queue

LEMMA RequestQueue ==
  ASSUME IInv, Own, Queue, NEW r \in Requests, Call(r) \/ Request(r)
  PROVE  Queue'
<1> USE DEF Goes, sendVars, netVars, rcvVars
<1>t. TypeOK
  BY DEF IInv
<1>r. \A i \in DOMAIN resp : IsAnswer(resp[i]) => resp[i].src \in Requests
  BY <1>t, FirstReply
<1>f. resp # <<>> => 1 \in DOMAIN resp
  BY <1>t, FirstReply
<1>1. CASE Call(r) \/ Generate(r) \/ Send(r) \/ SaveHandle(r) \/ FailRequest(r)
  <2>1. /\ UNCHANGED <<ready, rcv, resp, up>>
        /\ \A s \in Requests : pc'[s] = "written" => pc[s] = "written"
    BY <1>1, <1>t DEF Call, Generate, Send, SaveHandle, FailRequest, TypeOK
  <2> QED BY <1>t, <2>1, QueueQuiet
<1>2. CASE OnWritten(r)
  <2>1. /\ Dispatched(r) /\ pc'[r] # "written"
        /\ \A s \in Requests : s # r => pc'[s] = pc[s]
        /\ UNCHANGED <<rcv, resp, up>>
    BY <1>2, <1>t DEF OnWritten, TypeOK
  <2> QED BY <2>1, DispatchQueue, NamesAssumption
<1>3. CASE WriteCompletes(r)
  <2>1. /\ ready \in Seq(Requests \union {Receive})
        /\ ready' = Append(ready, r) /\ r # Receive
        /\ pc[r] = "writing" /\ UNCHANGED <<rcv, resp, up>>
        /\ \A s \in Requests : s # r => pc'[s] = pc[s]
    BY <1>3, <1>t, NamesAssumption DEF WriteCompletes, TypeOK
  <2>2. /\ \A i \in DOMAIN ready : i \in DOMAIN ready' /\ ready'[i] = ready[i]
        /\ \A i \in DOMAIN ready' :
             (i \in DOMAIN ready /\ ready'[i] = ready[i]) \/ ready'[i] = r
        /\ \E i \in DOMAIN ready' : ready'[i] = r
    BY <2>1, AppendPlaces
  <2>3. OneReceive' /\ ReadHasCause'
    BY <2>1, <2>2 DEF Queue, OneReceive, ReadHasCause
  <2>4. WrittenAreQueued'
    BY <2>1, <2>2 DEF Queue, WrittenAreQueued
  <2>5. WriteComesFirst'
    <3> SUFFICES ASSUME NEW i \in DOMAIN ready', ready'[i] = Receive, resp # <<>>,
                        IsAnswer(resp[1]), pc'[resp[1].src] = "written"
                 PROVE  \E j \in 1..(i - 1) : ready'[j] = resp[1].src
      BY <2>1 DEF WriteComesFirst
    <3>1. i \in DOMAIN ready /\ ready[i] = Receive
      BY <2>1, <2>2
    <3>2. CASE resp[1].src = r
      <4>1. r \in Replied
        BY <1>f, <3>2 DEF Own, AnswersOnTheirWay, IsPending
      <4> QED BY <2>1, <4>1 DEF IInv, SeenWereWritten
    <3>3. CASE resp[1].src # r
      <4>1. PICK j \in 1..(i - 1) : ready[j] = resp[1].src
        BY <1>r, <1>f, <2>1, <3>1, <3>3 DEF Queue, WriteComesFirst
      <4>2. j \in DOMAIN ready
        <5>1. DOMAIN ready = 1..Len(ready) /\ Len(ready) \in Nat
          BY <2>1
        <5> QED BY <3>1, <4>1, <5>1
      <4> QED BY <2>2, <4>1, <4>2
    <3> QED BY <3>2, <3>3
  <2> QED BY <2>3, <2>4, <2>5 DEF Queue
<1> QED BY <1>1, <1>2, <1>3 DEF Request

LEMMA SearchQueue ==
  ASSUME IInv, Queue, Search
  PROVE  Queue'
<1>1. UNCHANGED <<ready, rcv, pc>> /\ (up' => up) /\ up
  BY DEF Search, SearchReplies, SearchGarbles, SearchBreaks, sendVars, netVars
<1>2. resp \in Seq(Replies)
  BY DEF IInv, TypeOK
<1>3. \/ resp' = <<>> /\ ~up'
      \/ resp' = resp
      \/ \E x \in Replies : resp' = Append(resp, x)
  <2>1. ASSUME NEW r \in Requests, SearchReplies(r)
        PROVE  \E x \in Replies : resp' = Append(resp, x)
    <3>1. PICK kind \in {"ok", "fail"} : resp' = Append(resp,
                  [id |-> HeaderId(SmsgId[r]), src |-> r, kind |-> kind])
      BY <2>1 DEF SearchReplies
    <3>2. HeaderId(SmsgId[r]) \in Ids
      BY IdTypes, SmsgIdAssumption
    <3> QED BY <3>1, <3>2 DEF Replies
  <2>2. Fault("garbled") \in Replies /\ Fault("truncated") \in Replies
    BY DEF Fault, Replies
  <2> QED BY <2>1, <2>2 DEF Search, SearchGarbles, SearchBreaks
<1>4. resp # <<>> => \/ resp' = <<>> /\ ~up'
                     \/ resp' # <<>> /\ resp'[1] = resp[1]
  <2>1. ASSUME resp # <<>>, NEW x \in Replies, resp' = Append(resp, x)
        PROVE  resp' # <<>> /\ resp'[1] = resp[1]
    BY <1>2, <2>1
  <2> QED BY <1>3, <2>1
<1>5. rcv = "queued" => resp # <<>>
  BY <1>1 DEF Queue, ReadHasCause
<1>6. OneReceive' /\ WrittenAreQueued' /\ ReadHasCause'
  BY <1>1, <1>4, <1>5 DEF Queue, OneReceive, WrittenAreQueued, ReadHasCause
<1>7. WriteComesFirst'
  BY <1>1, <1>4, <1>5 DEF Queue, OneReceive, WriteComesFirst
<1> QED BY <1>6, <1>7 DEF Queue

LEMMA LoopQueue ==
  ASSUME IInv, Queue, Loop
  PROVE  Queue'
<1> USE DEF sendVars, netVars, rcvVars
<1>t. TypeOK
  BY DEF IInv
<1>1. CASE ReadCompletes
  <2>1. /\ ready \in Seq(Requests \union {Receive})
        /\ ready' = Append(ready, Receive)
        /\ rcv = "armed" /\ rcv' = "queued" /\ (resp # <<>> \/ ~up)
        /\ UNCHANGED <<pc, resp, up>>
    BY <1>1, <1>t DEF ReadCompletes, TypeOK
  <2>2. /\ \A i \in DOMAIN ready : /\ i \in DOMAIN ready' /\ ready'[i] = ready[i]
                                   /\ ready[i] # Receive
        /\ \A i \in DOMAIN ready' :
             \/ i \in DOMAIN ready /\ ready'[i] = ready[i]
             \/ ready'[i] = Receive /\ \A j \in DOMAIN ready : j < i
    BY <2>1, AppendPlaces DEF Queue, OneReceive
  <2>3. DOMAIN ready' = 1..(Len(ready) + 1) /\ Len(ready) \in Nat
    BY <2>1
  <2>4. \A i \in DOMAIN ready' : ready'[i] = Receive => i = Len(ready) + 1
    <3>1. DOMAIN ready = 1..Len(ready)
      BY <2>1
    <3> QED BY <2>2, <2>3, <3>1
  <2>5. OneReceive' /\ WrittenAreQueued' /\ ReadHasCause'
    BY <2>1, <2>2, <2>4 DEF Queue, OneReceive, WrittenAreQueued, ReadHasCause
  <2>6. WriteComesFirst'
    <3> SUFFICES ASSUME NEW i \in DOMAIN ready', ready'[i] = Receive, resp # <<>>,
                        IsAnswer(resp[1]), pc[resp[1].src] = "written"
                 PROVE  \E j \in 1..(i - 1) : ready'[j] = resp[1].src
      BY <2>1 DEF WriteComesFirst
    <3>1. PICK j \in DOMAIN ready : ready[j] = resp[1].src
      BY <1>t, FirstReply DEF Queue, WrittenAreQueued
    <3>2. j \in 1..(i - 1)
      <4>1. DOMAIN ready = 1..Len(ready)
        BY <2>1
      <4> QED BY <2>3, <2>4, <4>1
    <3> QED BY <2>2, <3>1, <3>2
  <2> QED BY <2>5, <2>6 DEF Queue
<1>2. CASE OnReceive
  <2>1. Dispatched(Receive) /\ UNCHANGED pc /\ rcv' # "queued"
    BY <1>2 DEF OnReceive
  <2> QED BY <2>1, DispatchQueue, NamesAssumption
<1>3. CASE GetHandle \/ EraseHandle \/ CallContinuation
  <2>1. UNCHANGED <<ready, pc, up, resp>> /\ rcv # "queued" /\ rcv' # "queued"
    BY <1>3 DEF GetHandle, EraseHandle, CallContinuation
  <2> QED BY <2>1 DEF Queue, OneReceive, WrittenAreQueued, ReadHasCause,
          WriteComesFirst
<1> QED BY <1>1, <1>2, <1>3 DEF Loop

-------------------------------------------------------------------------------
(* The table *)

\* The handle of a request is in the table from the end of its write's handler
\* until its answer is processed.
SavedUntilAnswered ==
  \A r \in Requests :
    pc[r] = "done" /\ answers[r] = <<>> /\ ~(rcv = "call" /\ handle = r) =>
      handles[SmsgId[r]] = r

\* The answer being processed is that of a request whose handle was saved.
AnswerWasSaved == rcv = "get" => pc[cur.src] = "done"

Found == SavedUntilAnswered /\ AnswerWasSaved /\ AnswerFindsHandle

\* The place of a handle is free: another request under the same identifier is
\* either not made yet or over.
LEMMA PlaceIsFree ==
  ASSUME IdsAreDistinct, IInv, Own, NEW r \in Requests, pc[r] = "save"
  PROVE  handles[SmsgId[r]] = None
<1> SUFFICES ASSUME handles[SmsgId[r]] # None PROVE FALSE
  OBVIOUS
<1>1. PICK s \in Requests : s = handles[SmsgId[r]]
  BY SmsgIdAssumption DEF IInv, TypeOK
<1>2. SmsgId[s] = SmsgId[r] /\ pc[s] = "done" /\ answers[s] = <<>>
  BY <1>1, SmsgIdAssumption DEF IInv, HandlesWait
<1>3. answers[r] = <<>> /\ s # r
  BY <1>2 DEF IInv, AnswersComeLast
<1>4. s \notin Awaits[r] /\ r \notin Awaits[s]
  BY <1>2, <1>3 DEF Own, WaitsAreOver
<1> QED BY <1>2, <1>3, <1>4 DEF IdsAreDistinct

LEMMA RequestFound ==
  ASSUME IdsAreDistinct, IInv, Own, Found, NEW r \in Requests,
         Call(r) \/ Request(r)
  PROVE  Found'
<1> USE DEF Goes, sendVars, netVars, rcvVars
<1>t. TypeOK
  BY DEF IInv
<1>0. UNCHANGED <<rcv, cur, handle>>
  BY DEF Call, Request, Generate, Send, WriteCompletes, OnWritten, SaveHandle,
     FailRequest
<1>c. rcv = "get" => cur.src \in Requests
  BY DEF Own, AnswerInHand, Processing, IsPending, Replied
<1>1. CASE Call(r) \/ Generate(r) \/ Send(r) \/ WriteCompletes(r) \/ OnWritten(r)
  <2>1. /\ \A s \in Requests : pc'[s] = "done" <=> pc[s] = "done"
        /\ UNCHANGED <<handles, answers>>
    BY <1>1, <1>t DEF Call, Generate, Send, WriteCompletes, OnWritten, TypeOK
  <2> QED BY <1>0, <1>c, <2>1 DEF Found, SavedUntilAnswered, AnswerWasSaved,
          AnswerFindsHandle
<1>2. CASE SaveHandle(r)
  <2>1. /\ pc[r] = "save" /\ pc' = [pc EXCEPT ![r] = "done"]
        /\ handles' = [handles EXCEPT ![SmsgId[r]] = r] /\ UNCHANGED answers
    BY <1>2, PlaceIsFree DEF SaveHandle
  <2>2. \A s \in Requests : s # r /\ handles[SmsgId[s]] = s => handles'[SmsgId[s]] = s
    <3>1. handles[SmsgId[r]] = None
      BY <2>1, PlaceIsFree
    <3> QED BY <1>t, <2>1, <3>1, NamesAssumption, SmsgIdAssumption DEF TypeOK
  <2>3. SavedUntilAnswered'
    BY <1>0, <1>t, <2>1, <2>2, SmsgIdAssumption DEF Found, SavedUntilAnswered, TypeOK
  <2>4. AnswerWasSaved' /\ AnswerFindsHandle'
    BY <1>0, <1>c, <1>t, <2>1 DEF Found, AnswerWasSaved, AnswerFindsHandle, TypeOK
  <2> QED BY <2>3, <2>4 DEF Found
<1>3. CASE FailRequest(r)
  <2>1. /\ pc[r] = "fail" /\ pc' = [pc EXCEPT ![r] = "done"]
        /\ answers' = [answers EXCEPT ![r] =
                         Append(answers[r], [src |-> None, ok |-> FALSE])]
        /\ UNCHANGED handles
    BY <1>3 DEF FailRequest, Answer
  <2>2. answers'[r] # <<>>
    <3>1. answers[r] \in Seq(Answers)
      BY <1>t DEF TypeOK
    <3>2. answers'[r] = Append(answers[r], [src |-> None, ok |-> FALSE])
      BY <1>t, <2>1 DEF TypeOK
    <3> QED BY <3>1, <3>2
  <2> QED BY <1>0, <1>c, <1>t, <2>1, <2>2 DEF Found, SavedUntilAnswered,
          AnswerWasSaved, AnswerFindsHandle, TypeOK
<1> QED BY <1>1, <1>2, <1>3 DEF Request

LEMMA LoopFound ==
  ASSUME Threads = 1, IsFiniteSet(Requests), IdsAreDistinct, IInv, Own, Queue,
         Found, Loop
  PROVE  Found'
<1> USE DEF sendVars, netVars, rcvVars
<1>t. TypeOK
  BY DEF IInv
<1>1. CASE ReadCompletes
  BY <1>1 DEF ReadCompletes, Found, SavedUntilAnswered, AnswerWasSaved,
     AnswerFindsHandle
<1>2. CASE OnReceive
  <2>1. /\ UNCHANGED <<pc, handles, answers, handle>>
        /\ rcv = "queued" /\ rcv' \in {"get", "dead"} /\ FreeThread
        /\ ready # <<>> /\ Head(ready) = Receive
        /\ rcv' = "get" => resp # <<>> /\ cur' = Head(resp) /\ IsAnswer(Head(resp))
    BY <1>2 DEF OnReceive, Dispatched, IsAnswer
  <2>2. SavedUntilAnswered' /\ AnswerFindsHandle'
    BY <2>1 DEF Found, SavedUntilAnswered, AnswerFindsHandle
  <2>3. ASSUME rcv' = "get" PROVE pc[resp[1].src] = "done" /\ cur' = resp[1]
    <3>1. /\ ready \in Seq(Requests \union {Receive}) /\ resp \in Seq(Replies)
      BY <1>t DEF TypeOK
    <3>2. /\ 1 \in DOMAIN ready /\ ready[1] = Receive
          /\ 1 \in DOMAIN resp /\ Head(resp) = resp[1]
      BY <2>1, <2>3, <3>1, TailElements
    <3>3. resp[1].src \in Replied
      BY <2>1, <2>3, <3>2 DEF Own, AnswersOnTheirWay, IsPending
    <3>4. resp[1].src \in Requests /\ pc[resp[1].src] \in {"written", "save", "done"}
      BY <3>3 DEF IInv, SeenWereWritten, Replied
    <3>5. pc[resp[1].src] # "save"
      BY <2>1, <3>4, FreeMeansQuiet DEF Running
    <3>6. pc[resp[1].src] # "written"
      BY <2>1, <2>3, <3>2 DEF Queue, WriteComesFirst
    <3> QED BY <2>1, <2>3, <3>2, <3>4, <3>5, <3>6
  <2>4. AnswerWasSaved'
    BY <2>1, <2>3 DEF AnswerWasSaved
  <2> QED BY <2>2, <2>4 DEF Found
<1>3. CASE GetHandle
  <2>1. /\ rcv = "get" /\ rcv' = "erase" /\ handle' = handles[SmsgIdOf(cur.id)]
        /\ UNCHANGED <<pc, cur, handles, answers>>
    BY <1>3 DEF GetHandle
  <2>2. /\ cur.src \in Requests /\ cur.id = HeaderId(SmsgId[cur.src])
        /\ answers[cur.src] = <<>>
    BY <2>1 DEF Own, AnswerInHand, Processing, IsPending, Replied
  <2>3. handle' = cur.src
    BY <2>1, <2>2, HeaderRoundTrip, SmsgIdAssumption
       DEF Found, SavedUntilAnswered, AnswerWasSaved
  <2> QED BY <2>1, <2>3 DEF Found, SavedUntilAnswered, AnswerWasSaved,
          AnswerFindsHandle
<1>4. CASE EraseHandle
  <2>1. /\ rcv = "erase" /\ rcv' = "call"
        /\ handles' = [handles EXCEPT ![SmsgIdOf(cur.id)] = None]
        /\ UNCHANGED <<pc, cur, handle, answers>>
    BY <1>4 DEF EraseHandle
  <2>2. handle \in Requests
    BY <2>1 DEF Found, AnswerFindsHandle, Own, AnswerInHand, Processing,
       IsPending, Replied
  <2>3. SmsgId[handle] = SmsgIdOf(cur.id) /\ handles[SmsgIdOf(cur.id)] = handle
    BY <2>1, <2>2, NamesAssumption DEF IInv, HandleInHand
  <2>4. SavedUntilAnswered'
    BY <1>t, <2>1, <2>3, SmsgIdAssumption DEF Found, SavedUntilAnswered, TypeOK
  <2> QED BY <2>1, <2>4 DEF Found, AnswerWasSaved, AnswerFindsHandle
<1>5. CASE CallContinuation
  <2>1. rcv = "call" /\ rcv' = "armed" /\ UNCHANGED <<pc, handles>>
    BY <1>5 DEF CallContinuation
  <2>2. \A r \in Requests : answers'[r] = <<>> =>
          answers[r] = <<>> /\ (handle = r => FALSE)
    BY <1>5, <1>t, NamesAssumption DEF CallContinuation, Answer, TypeOK
  <2> QED BY <2>1, <2>2 DEF Found, SavedUntilAnswered, AnswerWasSaved,
          AnswerFindsHandle
<1> QED BY <1>1, <1>2, <1>3, <1>4, <1>5 DEF Loop

LEMMA NextFound ==
  ASSUME Threads = 1, IsFiniteSet(Requests), IdsAreDistinct, IInv, Own, Queue,
         Found, [Next]_vars
  PROVE  Queue' /\ Found'
<1>1. ASSUME NEW r \in Requests, Call(r) \/ Request(r) PROVE Queue' /\ Found'
  BY <1>1, RequestQueue, RequestFound
<1>2. ASSUME Loop PROVE Queue' /\ Found'
  BY <1>2, LoopQueue, LoopFound
<1>3. ASSUME Search PROVE Queue' /\ Found'
  <2>1. UNCHANGED <<pc, rcv, cur, handle, handles, answers>>
    BY <1>3 DEF Search, SearchReplies, SearchGarbles, SearchBreaks, sendVars
  <2>2. Found'
    BY <2>1 DEF Found, SavedUntilAnswered, AnswerWasSaved, AnswerFindsHandle
  <2> QED BY <1>3, <2>2, SearchQueue
<1>4. ASSUME UNCHANGED vars PROVE Queue' /\ Found'
  BY <1>4 DEF vars, sendVars, netVars, rcvVars, Queue, OneReceive,
     WrittenAreQueued, ReadHasCause, WriteComesFirst, Found,
     SavedUntilAnswered, AnswerWasSaved, AnswerFindsHandle
<1> QED BY <1>1, <1>2, <1>3, <1>4, NextCases

\* On one thread the answer never overtakes the handle that is saved after the
\* request was written, whatever the Search and the connection do, as long as
\* outstanding requests do not share an identifier (register_service and its
\* like, process_message_).
THEOREM HandlesAreInTime ==
  ASSUME Threads = 1, IsFiniteSet(Requests), IdsAreDistinct
  PROVE  Spec => []AnswerFindsHandle
<1>1. Init => Queue /\ Found
  BY DEF Init, Queue, OneReceive, WrittenAreQueued, ReadHasCause,
     WriteComesFirst, Found, SavedUntilAnswered, AnswerWasSaved,
     AnswerFindsHandle
<1>2. IInv /\ Own /\ Queue /\ Found /\ [Next]_vars => Queue' /\ Found'
  BY NextFound
<1>3. IInv /\ Own /\ [Next]_vars => Own'
  BY NextOwn
<1>4. Found => AnswerFindsHandle
  BY DEF Found
<1> QED BY <1>1, <1>2, <1>3, <1>4, InitOwn, Invariance, PTL DEF Spec

-------------------------------------------------------------------------------
(* The address *)

\* How far a request has got whose write is completed.
Written == {"written", "refused", "save", "fail", "done"}

AddressIsOut == \E i \in DOMAIN wire : wire[i].addr
AddressIsQueued == \E i \in DOMAIN writeQ : carries[writeQ[i]]

\* What carries the address is an update that was made.
CarriersAreUpdates ==
  \A r \in Requests : carries[r] => OpOf[r] = "update" /\ pc[r] # "idle"

OneCarrier == \A r, s \in Requests : carries[r] /\ carries[s] => r = s

\* As long as the flag is set no update is further than being generated, and
\* the one that is takes the address.
FlagIsClearedFirst ==
  updated => \A r \in Requests :
    OpOf[r] = "update" => pc[r] = "idle" \/ (pc[r] = "gen" /\ carries[r])

\* Afterwards the address is with an update that is being sent, is written or
\* was written.
AddressIsNotLost ==
  ~updated /\ up =>
    \/ AddressIsOut \/ AddressIsQueued
    \/ \E r \in Requests : pc[r] = "send" /\ carries[r]

\* An update without the address is sent and written behind that which has it.
AddressIsAhead ==
  up =>
    /\ \A r \in Requests :
         pc[r] \in {"gen", "send"} /\ OpOf[r] = "update" /\ ~carries[r] =>
           AddressIsOut \/ AddressIsQueued
    /\ \A i \in DOMAIN writeQ :
         OpOf[writeQ[i]] = "update" /\ ~carries[writeQ[i]] =>
           AddressIsOut \/ \E j \in 1..(i - 1) : carries[writeQ[j]]

\* What is written or being written was made, and is sent as it was made.
WiresAreMade ==
  /\ \A i \in DOMAIN writeQ : pc[writeQ[i]] # "idle"
  /\ \A i \in DOMAIN wire : /\ pc[wire[i].req] \in Written
                            /\ wire[i].addr = carries[wire[i].req]
                            /\ IsUpdate(i) => \E j \in 1..i : wire[j].addr

Addressed ==
  /\ CarriersAreUpdates /\ OneCarrier /\ FlagIsClearedFirst
  /\ AddressIsNotLost /\ AddressIsAhead /\ WiresAreMade
  /\ AddressOnFirstUpdate

LEMMA LineTypes ==
  ASSUME TypeOK
  PROVE  /\ \A i \in DOMAIN writeQ : writeQ[i] \in Requests
         /\ \A i \in DOMAIN wire : wire[i].req \in Requests /\ wire[i].addr \in BOOLEAN
<1>1. writeQ \in Seq(Requests) /\ wire \in Seq([req : Requests, addr : BOOLEAN])
  BY DEF TypeOK
<1>2. /\ \A i \in DOMAIN writeQ : writeQ[i] \in Requests
      /\ \A i \in DOMAIN wire : wire[i] \in [req : Requests, addr : BOOLEAN]
  BY <1>1, ElementType
<1> QED BY <1>2

\* Steps that make nothing and write nothing.
LEMMA AddressQuiet ==
  ASSUME TypeOK, Addressed, UNCHANGED <<updated, carries, writeQ, wire>>,
         up' => up,
         \A r \in Requests :
           \/ pc'[r] = pc[r]
           \/ /\ pc[r] \in {"written", "refused", "save", "fail"}
              /\ pc'[r] \in {"save", "fail", "done"}
  PROVE  Addressed'
<1>1. CarriersAreUpdates' /\ OneCarrier' /\ FlagIsClearedFirst'
  BY DEF Addressed, CarriersAreUpdates, OneCarrier, FlagIsClearedFirst
<1>2. AddressIsNotLost' /\ AddressIsAhead'
  BY DEF Addressed, AddressIsNotLost, AddressIsAhead, AddressIsOut, AddressIsQueued
<1>3. WiresAreMade'
  BY LineTypes DEF Addressed, WiresAreMade, Written, IsUpdate
<1>4. AddressOnFirstUpdate'
  BY DEF Addressed, AddressOnFirstUpdate, IsUpdate
<1> QED BY <1>1, <1>2, <1>3, <1>4 DEF Addressed

\* The update that finds the flag set is the only one that has the address: no
\* other is between its two steps.
LEMMA CallAddress ==
  ASSUME Threads = 1, IsFiniteSet(Requests), TypeOK, Addressed,
         NEW r \in Requests, Call(r)
  PROVE  Addressed'
<1>1. /\ FreeThread /\ pc[r] = "idle" /\ pc' = [pc EXCEPT ![r] = "gen"]
      /\ carries' = [carries EXCEPT ![r] = OpOf[r] = "update" /\ updated]
      /\ UNCHANGED <<updated, writeQ, wire, up>>
  BY DEF Call, Goes, netVars
<1>2. \A s \in Requests : pc[s] \notin {"gen", "send"}
  BY <1>1, FreeMeansQuiet DEF Running
<1>3. /\ pc'[r] = "gen" /\ (carries'[r] <=> OpOf[r] = "update" /\ updated)
      /\ \A s \in Requests : s # r => pc'[s] = pc[s] /\ carries'[s] = carries[s]
  BY <1>1 DEF TypeOK
<1>4. ~carries[r]
  BY <1>1 DEF Addressed, CarriersAreUpdates
<1>5. /\ \A i \in DOMAIN writeQ : writeQ[i] # r
      /\ \A i \in DOMAIN wire : wire[i].req # r
  BY <1>1 DEF Addressed, WiresAreMade, Written
<1>6. CarriersAreUpdates' /\ FlagIsClearedFirst'
  BY <1>1, <1>3 DEF Addressed, CarriersAreUpdates, FlagIsClearedFirst
<1>7. OneCarrier'
  <2>1. \A s \in Requests : updated /\ carries[s] => FALSE
    BY <1>2 DEF Addressed, CarriersAreUpdates, FlagIsClearedFirst
  <2> QED BY <1>3, <2>1 DEF Addressed, OneCarrier
<1>8. AddressIsOut' = AddressIsOut /\ (AddressIsQueued' <=> AddressIsQueued)
  BY <1>1, <1>3, <1>5, LineTypes DEF AddressIsOut, AddressIsQueued
<1>9. AddressIsNotLost'
  BY <1>1, <1>2, <1>8 DEF Addressed, AddressIsNotLost
<1>10. AddressIsAhead'
  <2>1. ASSUME up, NEW s \in Requests, pc'[s] \in {"gen", "send"},
               OpOf[s] = "update", ~carries'[s]
        PROVE  AddressIsOut \/ AddressIsQueued
    <3>1. s = r /\ ~updated
      BY <1>2, <1>3, <2>1
    <3> QED BY <1>2, <2>1, <3>1 DEF Addressed, AddressIsNotLost
  <2>2. ASSUME up, NEW i \in DOMAIN writeQ, OpOf[writeQ[i]] = "update",
               ~carries'[writeQ[i]]
        PROVE  AddressIsOut \/ \E j \in 1..(i - 1) : carries'[writeQ[j]]
    <3>1. ~carries[writeQ[i]]
      BY <1>3, <1>5, <2>2, LineTypes
    <3>2. CASE AddressIsOut
      BY <3>2
    <3>3. ASSUME NEW j \in 1..(i - 1), carries[writeQ[j]]
          PROVE  carries'[writeQ[j]]
      <4>1. j \in DOMAIN writeQ
        <5>1. DOMAIN writeQ = 1..Len(writeQ) /\ Len(writeQ) \in Nat
          BY DEF TypeOK
        <5> QED BY <2>2, <5>1
      <4> QED BY <1>3, <1>5, <3>3, <4>1, LineTypes
    <3> QED BY <2>2, <3>1, <3>2, <3>3 DEF Addressed, AddressIsAhead
  <2> QED BY <1>1, <1>8, <2>1, <2>2 DEF AddressIsAhead
<1>11. WiresAreMade'
  BY <1>1, <1>3, <1>5, LineTypes DEF Addressed, WiresAreMade, Written, IsUpdate
<1>12. AddressOnFirstUpdate'
  BY <1>1 DEF Addressed, AddressOnFirstUpdate, IsUpdate
<1> QED BY <1>6, <1>7, <1>9, <1>10, <1>11, <1>12 DEF Addressed

LEMMA GenerateAddress ==
  ASSUME TypeOK, Addressed, NEW r \in Requests, Generate(r)
  PROVE  Addressed'
<1>1. /\ pc[r] = "gen" /\ pc'[r] = "send"
      /\ \A s \in Requests : s # r => pc'[s] = pc[s]
      /\ (updated' <=> updated /\ ~carries[r])
      /\ UNCHANGED <<carries, writeQ, wire, up>>
  BY DEF Generate, Goes, netVars, TypeOK
<1>2. CarriersAreUpdates' /\ OneCarrier' /\ FlagIsClearedFirst'
  BY <1>1 DEF Addressed, CarriersAreUpdates, OneCarrier, FlagIsClearedFirst
<1>3. (AddressIsOut' <=> AddressIsOut) /\ (AddressIsQueued' <=> AddressIsQueued)
  BY <1>1 DEF AddressIsOut, AddressIsQueued
<1>4. AddressIsNotLost'
  <2>1. ASSUME ~updated, up
        PROVE  \/ AddressIsOut \/ AddressIsQueued
               \/ \E s \in Requests : pc'[s] = "send" /\ carries[s]
    BY <1>1, <2>1 DEF Addressed, AddressIsNotLost
  <2> QED BY <1>1, <1>3, <2>1 DEF AddressIsNotLost
<1>5. AddressIsAhead'
  BY <1>1, <1>3 DEF Addressed, AddressIsAhead
<1>6. WiresAreMade'
  BY <1>1, LineTypes DEF Addressed, WiresAreMade, Written, IsUpdate
<1>7. AddressOnFirstUpdate'
  BY <1>1 DEF Addressed, AddressOnFirstUpdate, IsUpdate
<1> QED BY <1>2, <1>4, <1>5, <1>6, <1>7 DEF Addressed

LEMMA SendAddress ==
  ASSUME TypeOK, Addressed, NEW r \in Requests, Send(r)
  PROVE  Addressed'
<1>1. /\ pc[r] = "send" /\ pc'[r] = "writing" /\ writeQ' = Append(writeQ, r)
      /\ \A s \in Requests : s # r => pc'[s] = pc[s]
      /\ UNCHANGED <<updated, carries, wire, up>>
  BY DEF Send, Goes, netVars, TypeOK
<1>2. /\ \A i \in DOMAIN writeQ : i \in DOMAIN writeQ' /\ writeQ'[i] = writeQ[i]
      /\ \A i \in DOMAIN writeQ' :
           \/ i \in DOMAIN writeQ /\ writeQ'[i] = writeQ[i]
           \/ writeQ'[i] = r /\ \A j \in DOMAIN writeQ : j < i
      /\ \E i \in DOMAIN writeQ' : writeQ'[i] = r
  <2>1. writeQ \in Seq(Requests)
    BY DEF TypeOK
  <2> QED BY <1>1, <2>1, AppendPlaces
<1>3. DOMAIN writeQ = 1..Len(writeQ) /\ Len(writeQ) \in Nat
  BY DEF TypeOK
<1>4. CarriersAreUpdates' /\ OneCarrier' /\ FlagIsClearedFirst'
  BY <1>1 DEF Addressed, CarriersAreUpdates, OneCarrier, FlagIsClearedFirst
<1>5. (AddressIsOut' <=> AddressIsOut)
      /\ (AddressIsQueued' <=> AddressIsQueued \/ carries[r])
  BY <1>1, <1>2 DEF AddressIsOut, AddressIsQueued
<1>6. AddressIsNotLost'
  BY <1>1, <1>5 DEF Addressed, AddressIsNotLost
<1>7. AddressIsAhead'
  <2>1. ASSUME up, NEW i \in DOMAIN writeQ', OpOf[writeQ'[i]] = "update",
               ~carries[writeQ'[i]], ~AddressIsOut
        PROVE  \E j \in 1..(i - 1) : carries[writeQ'[j]]
    <3>1. CASE i \in DOMAIN writeQ /\ writeQ'[i] = writeQ[i]
      <4>1. PICK j \in 1..(i - 1) : carries[writeQ[j]]
        BY <2>1, <3>1 DEF Addressed, AddressIsAhead
      <4>2. j \in DOMAIN writeQ
        BY <1>3, <3>1
      <4> QED BY <1>2, <4>1, <4>2
    <3>2. CASE writeQ'[i] = r /\ \A j \in DOMAIN writeQ : j < i
      <4>1. PICK j \in DOMAIN writeQ : carries[writeQ[j]]
        BY <1>1, <2>1, <3>2 DEF Addressed, AddressIsAhead, AddressIsQueued
      <4>2. i \in Nat /\ j \in 1..(i - 1)
        BY <1>1, <1>3, <3>2, <4>1 DEF TypeOK
      <4> QED BY <1>2, <4>1, <4>2
    <3> QED BY <1>2, <3>1, <3>2
  <2> QED BY <1>1, <1>5, <2>1 DEF Addressed, AddressIsAhead
<1>8. WiresAreMade'
  <2>1. \A i \in DOMAIN writeQ' : pc'[writeQ'[i]] # "idle"
    BY <1>1, <1>2, LineTypes DEF Addressed, WiresAreMade, Written
  <2>2. \A i \in DOMAIN wire : pc'[wire[i].req] \in Written
    <3> SUFFICES ASSUME NEW i \in DOMAIN wire
                 PROVE  pc'[wire[i].req] \in Written
      OBVIOUS
    <3>1. wire[i].req \in Requests /\ pc[wire[i].req] \in Written
      BY LineTypes DEF Addressed, WiresAreMade, Written
    <3> QED BY <1>1, <3>1 DEF Written
  <2> QED BY <1>1, <2>1, <2>2 DEF Addressed, WiresAreMade, Written, IsUpdate
<1>9. AddressOnFirstUpdate'
  BY <1>1 DEF Addressed, AddressOnFirstUpdate, IsUpdate
<1> QED BY <1>4, <1>6, <1>7, <1>8, <1>9 DEF Addressed

\* A write that completes goes from the front of the one line to the end of the
\* other.
LEMMA WriteAddress ==
  ASSUME TypeOK, Addressed, NEW r \in Requests, WriteCompletes(r), up
  PROVE  Addressed'
<1> DEFINE n == Len(wire) + 1
<1>1. /\ pc[r] = "writing" /\ pc'[r] = "written"
      /\ \A s \in Requests : s # r => pc'[s] = pc[s]
      /\ wire' = Append(wire, [req |-> r, addr |-> carries[r]])
      /\ writeQ # <<>> /\ Head(writeQ) = r /\ writeQ' = Tail(writeQ)
      /\ UNCHANGED <<updated, carries, up>>
  BY DEF WriteCompletes, Goes, TypeOK
<1>2. /\ writeQ \in Seq(Requests) /\ wire \in Seq([req : Requests, addr : BOOLEAN])
      /\ [req |-> r, addr |-> carries[r]] \in [req : Requests, addr : BOOLEAN]
  BY DEF TypeOK
<1>3. /\ writeQ[1] = r /\ 1 \in DOMAIN writeQ
      /\ \A i \in DOMAIN writeQ' : /\ i \in Nat /\ i + 1 # 1
                                   /\ i + 1 \in DOMAIN writeQ
                                   /\ writeQ'[i] = writeQ[i + 1]
  BY <1>1, <1>2, TailElements
<1>4. \A i \in DOMAIN writeQ : i # 1 => /\ i - 1 \in DOMAIN writeQ'
                                        /\ writeQ'[i - 1] = writeQ[i]
  BY <1>1, <1>2, BehindHead
<1>5. /\ n \in Nat \ {0} /\ DOMAIN wire = 1..(n - 1) /\ DOMAIN wire' = 1..n
      /\ \A i \in DOMAIN wire : wire'[i] = wire[i]
      /\ wire'[n].req = r /\ wire'[n].addr = carries[r]
  BY <1>1, <1>2
<1>b. carries[r] \in BOOLEAN
  BY DEF TypeOK
<1> HIDE DEF n
<1>6. CarriersAreUpdates' /\ OneCarrier' /\ FlagIsClearedFirst'
  BY <1>1 DEF Addressed, CarriersAreUpdates, OneCarrier, FlagIsClearedFirst
<1>7. /\ AddressIsOut \/ carries[r] => AddressIsOut'
      /\ AddressIsQueued => AddressIsQueued' \/ AddressIsOut'
  <2>1. carries[r] => AddressIsOut'
    <3>1. n \in DOMAIN wire'
      BY <1>5
    <3>2. carries[r] => wire'[n].addr
      BY <1>5, <1>b, Zenon
    <3> QED BY <3>1, <3>2 DEF AddressIsOut
  <2>2. AddressIsOut => AddressIsOut'
    <3> SUFFICES ASSUME NEW i \in DOMAIN wire, wire[i].addr PROVE AddressIsOut'
      BY DEF AddressIsOut
    <3>1. i \in DOMAIN wire' /\ wire'[i] = wire[i]
      BY <1>5
    <3> QED BY <3>1 DEF AddressIsOut
  <2>3. ASSUME NEW i \in DOMAIN writeQ, carries[writeQ[i]]
        PROVE  AddressIsQueued' \/ carries[r]
    <3>1. CASE i = 1
      BY <1>3, <2>3, <3>1
    <3>2. CASE i # 1
      <4>1. i - 1 \in DOMAIN writeQ' /\ writeQ'[i - 1] = writeQ[i]
        BY <1>4, <3>2
      <4>2. carries'[writeQ'[i - 1]]
        BY <1>1, <2>3, <4>1
      <4> QED BY <4>1, <4>2 DEF AddressIsQueued
    <3> QED BY <3>1, <3>2
  <2> QED BY <2>1, <2>2, <2>3 DEF AddressIsQueued
<1>8. AddressIsNotLost'
  BY <1>1, <1>7 DEF Addressed, AddressIsNotLost
<1>9. AddressIsAhead'
  <2>1. ASSUME NEW i \in DOMAIN writeQ', OpOf[writeQ'[i]] = "update",
               ~carries[writeQ'[i]], ~AddressIsOut'
        PROVE  \E j \in 1..(i - 1) : carries[writeQ'[j]]
    <3>1. /\ i \in Nat /\ i + 1 \in DOMAIN writeQ /\ writeQ'[i] = writeQ[i + 1]
      BY <1>3
    <3>2. PICK j \in 1..i : carries[writeQ[j]]
      BY <1>7, <2>1, <3>1 DEF Addressed, AddressIsAhead
    <3>3. j # 1
      BY <1>3, <1>7, <2>1, <3>2
    <3>4. j \in DOMAIN writeQ
      <4>1. DOMAIN writeQ = 1..Len(writeQ) /\ Len(writeQ) \in Nat
        BY <1>2
      <4> QED BY <3>1, <3>2, <4>1
    <3>5. writeQ'[j - 1] = writeQ[j] /\ j - 1 \in 1..(i - 1)
      BY <1>4, <3>1, <3>2, <3>3, <3>4
    <3> QED BY <3>2, <3>5
  <2>2. ASSUME NEW s \in Requests, pc'[s] \in {"gen", "send"},
               OpOf[s] = "update", ~carries[s]
        PROVE  AddressIsOut' \/ AddressIsQueued'
    <3>1. pc[s] \in {"gen", "send"}
      BY <1>1, <2>2
    <3> QED BY <1>7, <2>2, <3>1 DEF Addressed, AddressIsAhead
  <2> QED BY <1>1, <2>1, <2>2 DEF AddressIsAhead
<1>10. \A i \in DOMAIN wire : wire[i].req # r
  BY <1>1 DEF Addressed, WiresAreMade, Written
<1>11. OpOf[r] = "update" => carries[r] \/ AddressIsOut
  BY <1>3 DEF Addressed, AddressIsAhead
<1>12. WiresAreMade'
  <2>1. \A i \in DOMAIN writeQ' : pc'[writeQ'[i]] # "idle"
    BY <1>1, <1>3, LineTypes DEF Addressed, WiresAreMade, Written
  <2>2. ASSUME NEW i \in DOMAIN wire'
        PROVE  /\ pc'[wire'[i].req] \in Written
               /\ wire'[i].addr = carries[wire'[i].req]
               /\ OpOf[wire'[i].req] = "update" => \E j \in 1..i : wire'[j].addr
    <3>1. CASE i \in DOMAIN wire
      <4>1. wire'[i] = wire[i] /\ wire[i].req \in Requests
        BY <1>5, <3>1, LineTypes
      <4>2. /\ pc[wire[i].req] \in Written
            /\ wire[i].addr = carries[wire[i].req]
            /\ OpOf[wire[i].req] = "update" => \E j \in 1..i : wire[j].addr
        BY <3>1 DEF Addressed, WiresAreMade, Written, IsUpdate
      <4>3. \A j \in 1..i : wire'[j] = wire[j]
        BY <1>5, <3>1
      <4> QED BY <1>1, <1>10, <3>1, <4>1, <4>2, <4>3
    <3>2. CASE i = n
      <4>1. AddressIsOut => \E j \in 1..n : wire'[j].addr
        BY <1>5 DEF AddressIsOut
      <4>2. carries[r] => \E j \in 1..n : wire'[j].addr
        <5>1. n \in 1..n /\ (carries[r] => wire'[n].addr)
          BY <1>5
        <5> QED BY <5>1
      <4> QED BY <1>1, <1>5, <1>11, <3>2, <4>1, <4>2 DEF Written
    <3> QED BY <1>5, <3>1, <3>2
  <2> QED BY <1>1, <2>1, <2>2 DEF WiresAreMade, IsUpdate
<1>13. AddressOnFirstUpdate'
  <2> SUFFICES ASSUME NEW i \in DOMAIN wire'
               PROVE  wire'[i].addr <=>
                        /\ OpOf[wire'[i].req] = "update"
                        /\ \A j \in 1..(i - 1) : OpOf[wire'[j].req] # "update"
    BY DEF AddressOnFirstUpdate, IsUpdate
  <2>1. CASE i \in DOMAIN wire
    <3>1. \A j \in 1..i : wire'[j] = wire[j]
      BY <1>5, <2>1
    <3>2. wire'[i] = wire[i] /\ \A j \in 1..(i - 1) : wire'[j] = wire[j]
      BY <1>5, <2>1
    <3> QED BY <2>1, <3>2 DEF Addressed, AddressOnFirstUpdate, IsUpdate
  <2>2. CASE i = n /\ carries[r]
    <3>1. OpOf[r] = "update"
      BY <2>2 DEF Addressed, CarriersAreUpdates
    <3>2. ASSUME NEW j \in DOMAIN wire, OpOf[wire[j].req] = "update" PROVE FALSE
      <4>1. PICK k \in 1..j : wire[k].addr
        BY <3>2 DEF Addressed, WiresAreMade, Written, IsUpdate
      <4>2. k \in DOMAIN wire
        BY <1>5, <3>2, <4>1
      <4>3. carries[wire[k].req] /\ wire[k].req \in Requests
        BY <4>1, <4>2, LineTypes DEF Addressed, WiresAreMade, Written
      <4> QED BY <1>10, <2>2, <4>2, <4>3 DEF Addressed, OneCarrier
    <3>3. \A j \in 1..(i - 1) : j \in DOMAIN wire /\ wire'[j] = wire[j]
      BY <1>5, <2>2
    <3> QED BY <1>5, <2>2, <3>1, <3>2, <3>3
  <2>3. CASE i = n /\ ~carries[r]
    <3>1. ~wire'[i].addr /\ wire'[i].req = r
      BY <1>5, <2>3
    <3>2. ASSUME OpOf[r] = "update"
          PROVE  \E j \in 1..(i - 1) : OpOf[wire'[j].req] = "update"
      <4>1. PICK j \in DOMAIN wire : wire[j].addr
        BY <1>11, <2>3, <3>2 DEF AddressIsOut
      <4>2. OpOf[wire[j].req] = "update"
        BY <4>1 DEF Addressed, AddressOnFirstUpdate, IsUpdate
      <4> QED BY <1>5, <2>3, <4>1, <4>2
    <3> QED BY <3>1, <3>2
  <2> QED BY <1>5, <2>1, <2>2, <2>3
<1> QED BY <1>6, <1>8, <1>9, <1>12, <1>13 DEF Addressed

\* What is not written because the connection is down is written by nobody.
LEMMA RefusedAddress ==
  ASSUME TypeOK, Addressed, NEW r \in Requests, WriteCompletes(r), ~up
  PROVE  Addressed'
<1>1. /\ pc[r] = "writing" /\ pc'[r] = "refused"
      /\ \A s \in Requests : s # r => pc'[s] = pc[s]
      /\ writeQ # <<>> /\ writeQ' = Tail(writeQ)
      /\ UNCHANGED <<updated, carries, wire, up>>
  BY DEF WriteCompletes, Goes, TypeOK
<1>2. \A i \in DOMAIN writeQ' : /\ i + 1 \in DOMAIN writeQ
                                /\ writeQ'[i] = writeQ[i + 1]
  BY <1>1, TailElements DEF TypeOK
<1>3. CarriersAreUpdates' /\ OneCarrier' /\ FlagIsClearedFirst'
  BY <1>1 DEF Addressed, CarriersAreUpdates, OneCarrier, FlagIsClearedFirst
<1>4. AddressIsNotLost' /\ AddressIsAhead'
  BY <1>1 DEF AddressIsNotLost, AddressIsAhead
<1>5. WiresAreMade'
  BY <1>1, <1>2, LineTypes DEF Addressed, WiresAreMade, Written, IsUpdate
<1>6. AddressOnFirstUpdate'
  BY <1>1 DEF Addressed, AddressOnFirstUpdate, IsUpdate
<1> QED BY <1>3, <1>4, <1>5, <1>6 DEF Addressed

LEMMA NextAddressed ==
  ASSUME Threads = 1, IsFiniteSet(Requests), TypeOK, Addressed, [Next]_vars
  PROVE  Addressed'
<1> USE DEF sendVars, netVars, rcvVars
<1>1. ASSUME NEW r \in Requests, Call(r) \/ Request(r) PROVE Addressed'
  <2>1. CASE OnWritten(r) \/ SaveHandle(r) \/ FailRequest(r)
    <3>1. /\ UNCHANGED <<updated, carries, writeQ, wire, up>>
          /\ pc[r] \in {"written", "refused", "save", "fail"}
          /\ pc'[r] \in {"save", "fail", "done"}
          /\ \A s \in Requests : s # r => pc'[s] = pc[s]
      BY <2>1 DEF OnWritten, SaveHandle, FailRequest, Goes, TypeOK
    <3> QED BY <3>1, AddressQuiet
  <2> QED BY <1>1, <2>1, CallAddress, GenerateAddress, SendAddress,
          WriteAddress, RefusedAddress DEF Request
<1>2. ASSUME Loop \/ Search \/ UNCHANGED vars PROVE Addressed'
  <2>1. CASE Loop
    BY <2>1, AddressQuiet DEF Loop, ReadCompletes, OnReceive, GetHandle,
       EraseHandle, CallContinuation
  <2>2. CASE Search
    <3>1. UNCHANGED <<pc, updated, carries, writeQ, wire>> /\ up
      BY <2>2 DEF Search, SearchReplies, SearchGarbles, SearchBreaks
    <3> QED BY <3>1, AddressQuiet
  <2>3. CASE UNCHANGED vars
    BY <2>3, AddressQuiet DEF vars
  <2> QED BY <1>2, <2>1, <2>2, <2>3
<1> QED BY <1>1, <1>2, NextCases

\* On one thread the first update the Search receives carries the core's address
\* and no other does, whichever sessions register and in whatever order the
\* writes complete (register_service, generate_update_, generate_update_add_naddr_).
THEOREM AddressIsToldOnce ==
  ASSUME Threads = 1, IsFiniteSet(Requests)
  PROVE  Spec => []AddressOnFirstUpdate
<1>1. Init => Addressed
  BY DEF Init, Addressed, CarriersAreUpdates, OneCarrier, FlagIsClearedFirst,
     AddressIsNotLost, AddressIsAhead, WiresAreMade, AddressOnFirstUpdate
<1>2. TypeOK /\ Addressed /\ [Next]_vars => Addressed'
  BY NextAddressed
<1>3. Addressed => AddressOnFirstUpdate
  BY DEF Addressed
<1> QED BY <1>1, <1>2, <1>3, TypeCorrect, PTL DEF Spec
===============================================================================
