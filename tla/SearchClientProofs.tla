-------------------------- MODULE SearchClientProofs --------------------------
(***************************************************************************)
(* Theorems about SearchClient for every set of requests, every number of  *)
(* threads and every width of the identifiers, with all faults: whatever   *)
(* the interleaving, a continuation is called at most once, and with the   *)
(* answer to its own request if identifiers are not shared by outstanding  *)
(* requests.                                                               *)
(***************************************************************************)
EXTENDS SearchClient, TLAPS

IsAnswer(x) == x.kind \in {"ok", "fail"}
Processing == rcv \in {"get", "erase", "call"}

\* The Search has seen only requests that were written.
SeenWereWritten ==
  \A r \in Received \union Replied : pc[r] \in {"written", "save", "done"}

\* No continuation is called before the request's own handlers are through.
AnswersComeLast == \A r \in Requests : pc[r] # "done" => answers[r] = <<>>

\* The handle found for an answer is that of a request without an answer, and
\* is in the table until it is erased and not from then on.
HandleInHand ==
  rcv \in {"erase", "call"} /\ handle # None =>
    /\ pc[handle] = "done"
    /\ answers[handle] = <<>>
    /\ SmsgId[handle] = SmsgIdOf(cur.id)
    /\ rcv = "erase" => handles[SmsgId[handle]] = handle
    /\ rcv = "call" => \A i \in Ids : handles[i] # handle

IInv == /\ TypeOK
        /\ SeenWereWritten
        /\ AnswersComeLast
        /\ HandleInHand
        /\ HandlesWait
        /\ AtMostOneAnswer

-------------------------------------------------------------------------------
(* Lemmas about the operators *)

LEMMA AppendType ==
  ASSUME NEW S, NEW q \in Seq(S), NEW x \in S
  PROVE  Append(q, x) \in Seq(S)
OBVIOUS

LEMMA ElementType ==
  ASSUME NEW S, NEW q \in Seq(S), NEW i \in DOMAIN q
  PROVE  q[i] \in S
OBVIOUS

LEMMA OneElement ==
  ASSUME NEW x, NEW i \in DOMAIN <<x>>
  PROVE  <<x>>[i] = x
OBVIOUS

\* The header takes the identifier to and fro, at the top of the range too.
LEMMA HeaderRoundTrip == \A i \in Ids : SmsgIdOf(HeaderId(i)) = i
<1> USE IdLimitAssumption DEF Ids
<1> TAKE i \in Ids
<1>1. \A n \in Ids : n % IdLimit = n /\ (n + IdLimit) % IdLimit = n
  OBVIOUS
<1>2. CASE i + 1 < IdLimit
  <2>1. (i + 1) % IdLimit = i + 1 /\ (i + 1) + IdLimit - 1 = i + IdLimit
    BY <1>2
  <2> QED BY <1>1, <2>1 DEF HeaderId, SmsgIdOf
<1>3. CASE i + 1 = IdLimit
  <2>1. (i + 1) % IdLimit = 0 /\ 0 + IdLimit - 1 = i
    BY <1>3
  <2> QED BY <1>1, <2>1 DEF HeaderId, SmsgIdOf
<1> QED BY <1>2, <1>3

LEMMA IdTypes ==
  \A i \in Ids : HeaderId(i) \in Ids /\ SmsgIdOf(i) \in Ids
BY IdLimitAssumption DEF Ids, HeaderId, SmsgIdOf

\* The identifiers taken from headers are identifiers.
LEMMA CurIdType == TypeOK => SmsgIdOf(cur.id) \in Ids
<1>1. 0 \in Ids
  BY IdLimitAssumption DEF Ids
<1> QED BY <1>1, IdTypes DEF TypeOK, Replies

LEMMA AnswerType ==
  ASSUME answers \in [Requests -> Seq(Answers)], NEW r \in Requests,
         NEW src \in Requests \union {None}, NEW ok \in BOOLEAN,
         Answer(r, src, ok)
  PROVE  answers' \in [Requests -> Seq(Answers)]
<1> DEFINE a == [src |-> src, ok |-> ok]
<1>1. a \in Answers
  BY DEF Answers
<1>2. Append(answers[r], a) \in Seq(Answers)
  BY <1>1
<1>3. answers' = [answers EXCEPT ![r] = Append(answers[r], a)]
  BY DEF Answer
<1> QED BY <1>2, <1>3

\* What the Search's answer to a request changes.
LEMMA RepliedGrows ==
  ASSUME TypeOK, NEW r \in Requests, SearchReplies(r)
  PROVE  \E kind \in {"ok", "fail"} :
           /\ verdicts' = [verdicts EXCEPT ![r] = kind]
           /\ resp' = Append(resp,
                        [id |-> HeaderId(SmsgId[r]), src |-> r, kind |-> kind])
           /\ Replied' = Replied \union {r}
           /\ verdicts'[r] = kind
           /\ \A s \in Requests : s # r => verdicts'[s] = verdicts[s]
<1>1. PICK kind \in {"ok", "fail"} :
        /\ verdicts' = [verdicts EXCEPT ![r] = kind]
        /\ resp' = Append(resp,
                     [id |-> HeaderId(SmsgId[r]), src |-> r, kind |-> kind])
  BY DEF SearchReplies
<1>2. verdicts'[r] = kind /\ \A s \in Requests : s # r => verdicts'[s] = verdicts[s]
  BY <1>1 DEF TypeOK
<1> QED BY <1>1, <1>2 DEF Replied

-------------------------------------------------------------------------------
(* Types *)

LEMMA InitType == Init => TypeOK
<1>1. NoReply \in Replies
  BY DEF NoReply, Replies
<1> QED BY <1>1 DEF Init, TypeOK, PcStates, RcvStates

LEMMA RequestType ==
  ASSUME TypeOK, NEW r \in Requests, Call(r) \/ Request(r)
  PROVE  TypeOK'
<1> USE DEF Goes, PcStates, sendVars, netVars, rcvVars
<1>1. CASE Call(r)
  BY <1>1 DEF Call, TypeOK
<1>2. CASE Generate(r)
  BY <1>2 DEF Generate, TypeOK
<1>3. CASE Send(r)
  BY <1>3 DEF Send, TypeOK
<1>4. CASE WriteCompletes(r)
  <2>1. writeQ' \in Seq(Requests) /\ ready' \in Seq(Requests \union {Receive})
    BY <1>4 DEF WriteCompletes, TypeOK
  <2>2. [req |-> r, addr |-> carries[r]] \in [req : Requests, addr : BOOLEAN]
    BY DEF TypeOK
  <2>3. wire' \in Seq([req : Requests, addr : BOOLEAN])
    <3>1. wire' = wire \/ wire' = Append(wire, [req |-> r, addr |-> carries[r]])
      BY <1>4 DEF WriteCompletes
    <3>2. wire \in Seq([req : Requests, addr : BOOLEAN])
      BY DEF TypeOK
    <3> QED BY <2>2, <3>1, <3>2, AppendType
  <2>4. pc' \in [Requests -> PcStates]
    BY <1>4 DEF WriteCompletes, TypeOK
  <2> QED BY <1>4, <2>1, <2>3, <2>4 DEF WriteCompletes, TypeOK
<1>5. CASE OnWritten(r)
  <2>1. ready' \in Seq(Requests \union {Receive})
    BY <1>5 DEF OnWritten, Dispatched, TypeOK
  <2>2. pc' \in [Requests -> PcStates]
    BY <1>5 DEF OnWritten, TypeOK
  <2> QED BY <1>5, <2>1, <2>2 DEF OnWritten, TypeOK
<1>6. CASE SaveHandle(r)
  BY <1>6, SmsgIdAssumption DEF SaveHandle, TypeOK
<1>7. CASE FailRequest(r)
  <2>1. answers' \in [Requests -> Seq(Answers)]
    BY <1>7, AnswerType DEF FailRequest, TypeOK
  <2> QED BY <1>7, <2>1 DEF FailRequest, TypeOK
<1> QED BY <1>1, <1>2, <1>3, <1>4, <1>5, <1>6, <1>7 DEF Request

LEMMA SearchType ==
  ASSUME TypeOK, Search
  PROVE  TypeOK'
<1> USE DEF sendVars, netVars
<1>1. ASSUME NEW r \in Requests, SearchReplies(r)
      PROVE  TypeOK'
  <2>1. PICK kind \in {"ok", "fail"} :
          /\ verdicts' = [verdicts EXCEPT ![r] = kind]
          /\ resp' = Append(resp,
                       [id |-> HeaderId(SmsgId[r]), src |-> r, kind |-> kind])
    BY <1>1 DEF SearchReplies
  <2>2. HeaderId(SmsgId[r]) \in Ids
    BY IdTypes, SmsgIdAssumption
  <2>3. [id |-> HeaderId(SmsgId[r]), src |-> r, kind |-> kind] \in Replies
    BY <2>2 DEF Replies
  <2>4. resp' \in Seq(Replies)
    BY <2>1, <2>3 DEF TypeOK
  <2>5. verdicts' \in [Requests -> {"none", "ok", "fail"}]
    BY <2>1 DEF TypeOK
  <2> QED BY <1>1, <2>4, <2>5 DEF SearchReplies, TypeOK
<1>2. CASE SearchGarbles
  <2>1. Fault("garbled") \in Replies
    BY DEF Fault, Replies
  <2> QED BY <1>2, <2>1 DEF SearchGarbles, TypeOK
<1>3. CASE SearchBreaks
  <2>1. Fault("truncated") \in Replies
    BY DEF Fault, Replies
  <2>2. \/ resp' = resp
        \/ resp' = <<>>
        \/ resp' = Append(resp, Fault("truncated"))
    BY <1>3 DEF SearchBreaks
  <2>3. resp' \in Seq(Replies)
    <3>1. resp \in Seq(Replies)
      BY DEF TypeOK
    <3>2. Append(resp, Fault("truncated")) \in Seq(Replies)
      BY <2>1, <3>1, AppendType
    <3>3. <<>> \in Seq(Replies)
      OBVIOUS
    <3>4. CASE resp' = resp
      BY <3>1, <3>4
    <3>5. CASE resp' = <<>>
      BY <3>3, <3>5
    <3>6. CASE resp' = Append(resp, Fault("truncated"))
      BY <3>2, <3>6
    <3> QED BY <2>2, <3>4, <3>5, <3>6
  <2> QED BY <1>3, <2>3 DEF SearchBreaks, TypeOK
<1> QED BY <1>1, <1>2, <1>3 DEF Search

LEMMA LoopType ==
  ASSUME TypeOK, Loop
  PROVE  TypeOK'
<1> USE DEF sendVars, netVars, rcvVars, RcvStates
<1>1. CASE ReadCompletes
  BY <1>1 DEF ReadCompletes, TypeOK
<1>2. CASE OnReceive
  <2>1. ready' \in Seq(Requests \union {Receive})
    BY <1>2 DEF OnReceive, Dispatched, TypeOK
  <2>2. resp # <<>> => Head(resp) \in Replies /\ Tail(resp) \in Seq(Replies)
    BY DEF TypeOK
  <2>3. rcv' \in RcvStates /\ resp' \in Seq(Replies) /\ cur' \in Replies
    BY <1>2, <2>2 DEF OnReceive, TypeOK
  <2> QED BY <1>2, <2>1, <2>3 DEF OnReceive, TypeOK
<1>3. CASE GetHandle
  BY <1>3, CurIdType DEF GetHandle, TypeOK
<1>4. CASE EraseHandle
  BY <1>4 DEF EraseHandle, TypeOK
<1>5. CASE CallContinuation
  <2>1. NoReply \in Replies
    BY DEF NoReply, Replies
  <2>2. cur.src \in Requests \union {None}
    BY DEF TypeOK, Replies
  <2>3. answers' \in [Requests -> Seq(Answers)]
    <3>1. CASE handle = None
      BY <1>5, <3>1 DEF CallContinuation, TypeOK
    <3>2. CASE handle # None
      BY <1>5, <2>2, <3>2, AnswerType DEF CallContinuation, TypeOK
    <3> QED BY <3>1, <3>2
  <2> QED BY <1>5, <2>1, <2>3 DEF CallContinuation, TypeOK
<1> QED BY <1>1, <1>2, <1>3, <1>4, <1>5 DEF Loop

LEMMA NextCases ==
  ASSUME [Next]_vars
  PROVE  \/ \E r \in Requests : Call(r) \/ Request(r)
         \/ Loop \/ Search \/ UNCHANGED vars
BY DEF Next, Idle

LEMMA NextType == TypeOK /\ [Next]_vars => TypeOK'
<1> SUFFICES ASSUME TypeOK, [Next]_vars PROVE TypeOK'
  OBVIOUS
<1>1. ASSUME UNCHANGED vars PROVE TypeOK'
  BY <1>1 DEF vars, sendVars, netVars, rcvVars, TypeOK
<1> QED BY <1>1, NextCases, RequestType, SearchType, LoopType

-------------------------------------------------------------------------------
(* At most one answer: the invariant *)

LEMMA InitIInv == Init => IInv
<1> SUFFICES ASSUME Init PROVE IInv
  OBVIOUS
<1>1. TypeOK
  BY InitType
<1>2. Received = {}
  BY DEF Init, Received
<1> QED BY <1>1, <1>2 DEF Init, IInv, SeenWereWritten, AnswersComeLast,
       HandleInHand, HandlesWait, AtMostOneAnswer, Replied

\* What the Search has received grows by the request that is written.
LEMMA ReceivedGrows ==
  ASSUME TypeOK, NEW r \in Requests,
         wire' = Append(wire, [req |-> r, addr |-> carries[r]])
  PROVE  Received' = Received \union {r}
<1> DEFINE w == [req |-> r, addr |-> carries[r]]
<1>1. /\ wire' = Append(wire, w) /\ w.req = r
      /\ wire \in Seq([req : Requests, addr : BOOLEAN])
      /\ w \in [req : Requests, addr : BOOLEAN]
  BY DEF TypeOK
<1>2. /\ Len(wire') = Len(wire) + 1
      /\ \A i \in 1..Len(wire) : wire'[i] = wire[i]
      /\ wire'[Len(wire) + 1] = w
      /\ DOMAIN wire = 1..Len(wire) /\ DOMAIN wire' = 1..(Len(wire) + 1)
      /\ Len(wire) \in Nat
  BY <1>1
<1> QED BY <1>1, <1>2 DEF Received

LEMMA ReceivedType == TypeOK => Received \subseteq Requests
<1> SUFFICES ASSUME TypeOK, NEW i \in DOMAIN wire PROVE wire[i].req \in Requests
  BY DEF Received
<1>1. wire \in Seq([req : Requests, addr : BOOLEAN])
  BY DEF TypeOK
<1>2. wire[i] \in [req : Requests, addr : BOOLEAN]
  BY <1>1, ElementType
<1> QED BY <1>2

LEMMA RequestIInv ==
  ASSUME IInv, NEW r \in Requests, Call(r) \/ Request(r)
  PROVE  IInv'
<1> USE DEF Goes, sendVars, netVars, rcvVars
<1>t. TypeOK /\ TypeOK'
  BY RequestType DEF IInv
<1>1. CASE Call(r) \/ Generate(r) \/ Send(r) \/ OnWritten(r)
  <2>1. /\ pc[r] \in {"idle", "gen", "send", "written", "refused"}
        /\ \A s \in Requests : s # r => pc'[s] = pc[s]
        /\ pc'[r] \in {"gen", "send", "writing", "save", "fail"}
        /\ pc[r] = "written" => pc'[r] = "save"
        /\ pc'[r] = "save" => pc[r] = "written"
        /\ UNCHANGED <<wire, verdicts, rcv, cur, handle, handles, answers>>
    BY <1>1, <1>t DEF Call, Generate, Send, OnWritten, TypeOK
  <2>2. Received' = Received
    BY <2>1 DEF Received
  <2>3. SeenWereWritten'
    <3> SUFFICES ASSUME NEW s \in Received \union Replied
                 PROVE  pc'[s] \in {"written", "save", "done"}
      BY <2>1, <2>2 DEF SeenWereWritten, Replied
    <3>1. s \in Requests /\ pc[s] \in {"written", "save", "done"}
      BY <1>t, ReceivedType DEF IInv, SeenWereWritten, TypeOK, Replied
    <3> QED BY <2>1, <3>1
  <2>4. AnswersComeLast' /\ AtMostOneAnswer'
    BY <1>t, <2>1 DEF IInv, AnswersComeLast, AtMostOneAnswer, TypeOK
  <2>5. HandleInHand' /\ HandlesWait'
    BY <1>t, <2>1 DEF IInv, HandleInHand, HandlesWait, TypeOK
  <2> QED BY <1>t, <2>3, <2>4, <2>5 DEF IInv
<1>2. CASE WriteCompletes(r)
  <2>1. /\ pc[r] = "writing"
        /\ UNCHANGED <<verdicts, rcv, cur, handle, handles, answers>>
    BY <1>2 DEF WriteCompletes
  <2>2. SeenWereWritten'
    <3>1. CASE up
      <4>1. Received' = Received \union {r} /\ pc' = [pc EXCEPT ![r] = "written"]
        BY <1>2, <1>t, <3>1, ReceivedGrows DEF WriteCompletes
      <4> QED BY <1>t, <2>1, <4>1 DEF IInv, SeenWereWritten, TypeOK, Replied
    <3>2. CASE ~up
      <4>1. Received' = Received /\ pc' = [pc EXCEPT ![r] = "refused"]
        BY <1>2, <3>2 DEF WriteCompletes, Received
      <4>2. r \notin Received \union Replied
        BY <2>1 DEF IInv, SeenWereWritten
      <4> QED BY <1>t, <2>1, <4>1, <4>2 DEF IInv, SeenWereWritten, TypeOK, Replied
    <3> QED BY <3>1, <3>2
  <2>3. \A s \in Requests : pc'[s] = "done" <=> pc[s] = "done"
    BY <1>2, <1>t DEF WriteCompletes, TypeOK
  <2>4. AnswersComeLast' /\ AtMostOneAnswer' /\ HandleInHand' /\ HandlesWait'
    BY <1>t, <2>1, <2>3 DEF IInv, AnswersComeLast, AtMostOneAnswer,
       HandleInHand, HandlesWait, TypeOK
  <2> QED BY <1>t, <2>2, <2>4 DEF IInv
<1>3. CASE SaveHandle(r)
  <2>1. /\ pc[r] = "save" /\ pc' = [pc EXCEPT ![r] = "done"]
        /\ handles' = IF handles[SmsgId[r]] = None
                        THEN [handles EXCEPT ![SmsgId[r]] = r] ELSE handles
        /\ UNCHANGED <<wire, verdicts, rcv, cur, handle, answers>>
    BY <1>3 DEF SaveHandle
  <2>2. SmsgId[r] \in Ids /\ answers[r] = <<>>
    BY <2>1, SmsgIdAssumption DEF IInv, AnswersComeLast
  <2>3. SeenWereWritten' /\ AnswersComeLast' /\ AtMostOneAnswer'
    <3>1. Received' = Received
      BY <2>1 DEF Received
    <3> QED BY <1>t, <2>1, <3>1 DEF IInv, SeenWereWritten, AnswersComeLast,
            AtMostOneAnswer, TypeOK, Replied
  <2>4. HandlesWait'
    <3> SUFFICES ASSUME NEW i \in Ids, handles'[i] # None
                 PROVE  /\ SmsgId[handles'[i]] = i
                        /\ pc'[handles'[i]] = "done"
                        /\ answers'[handles'[i]] = <<>>
      BY DEF HandlesWait
    <3>1. CASE handles'[i] = handles[i]
      BY <1>t, <2>1, <3>1 DEF IInv, HandlesWait, TypeOK
    <3>2. CASE handles'[i] # handles[i]
      <4>1. i = SmsgId[r] /\ handles'[i] = r
        BY <1>t, <2>1, <2>2, <3>2 DEF TypeOK
      <4> QED BY <1>t, <2>1, <2>2, <4>1 DEF TypeOK
    <3> QED BY <3>1, <3>2
  <2>5. HandleInHand'
    <3> SUFFICES ASSUME rcv \in {"erase", "call"}, handle # None
                 PROVE  /\ pc'[handle] = "done"
                        /\ answers[handle] = <<>>
                        /\ SmsgId[handle] = SmsgIdOf(cur.id)
                        /\ rcv = "erase" => handles'[SmsgId[handle]] = handle
                        /\ rcv = "call" => \A i \in Ids : handles'[i] # handle
      BY <2>1 DEF HandleInHand
    <3>1. handle \in Requests /\ handle # r /\ pc[handle] = "done"
      BY <1>t, <2>1 DEF IInv, HandleInHand, TypeOK
    <3>2. pc'[handle] = "done"
      BY <1>t, <2>1, <3>1 DEF TypeOK
    <3>3. rcv = "erase" => handles'[SmsgId[handle]] = handle
      BY <1>t, <2>1, <2>2, <3>1, SmsgIdAssumption, NamesAssumption
         DEF IInv, HandleInHand, TypeOK
    <3>4. rcv = "call" => \A i \in Ids : handles'[i] # handle
      BY <1>t, <2>1, <2>2, <3>1 DEF IInv, HandleInHand, TypeOK
    <3> QED BY <3>2, <3>3, <3>4 DEF IInv, HandleInHand
  <2> QED BY <1>t, <2>3, <2>4, <2>5 DEF IInv
<1>4. CASE FailRequest(r)
  <2>1. /\ pc[r] = "fail" /\ pc' = [pc EXCEPT ![r] = "done"]
        /\ answers' = [answers EXCEPT ![r] =
                         Append(answers[r], [src |-> None, ok |-> FALSE])]
        /\ UNCHANGED <<wire, verdicts, rcv, cur, handle, handles>>
    BY <1>4 DEF FailRequest, Answer
  <2>2. answers[r] = <<>> /\ r \notin Received \union Replied
    BY <2>1 DEF IInv, AnswersComeLast, SeenWereWritten
  <2>3. Received' = Received
    BY <2>1 DEF Received
  <2>4. SeenWereWritten' /\ AnswersComeLast'
    BY <1>t, <2>1, <2>2, <2>3 DEF IInv, SeenWereWritten, AnswersComeLast, TypeOK, Replied
  <2>5. AtMostOneAnswer'
    <3>1. Len(answers'[r]) = 1
      BY <1>t, <2>1, <2>2 DEF TypeOK
    <3> QED BY <1>t, <2>1, <3>1 DEF IInv, AtMostOneAnswer, TypeOK
  <2>6. \A s \in Requests : pc[s] = "done" =>
          s # r /\ pc'[s] = "done" /\ answers'[s] = answers[s]
    BY <1>t, <2>1 DEF TypeOK
  <2>7. HandleInHand' /\ HandlesWait'
    BY <1>t, <2>1, <2>6 DEF IInv, HandleInHand, HandlesWait, TypeOK
  <2> QED BY <1>t, <2>4, <2>5, <2>7 DEF IInv
<1> QED BY <1>1, <1>2, <1>3, <1>4 DEF Request

LEMMA SearchIInv ==
  ASSUME IInv, Search
  PROVE  IInv'
<1>t. TypeOK /\ TypeOK'
  BY SearchType DEF IInv
<1>1. /\ UNCHANGED <<pc, wire, rcv, cur, handle, handles, answers>>
      /\ Replied' \subseteq Replied \union Received
  <2>1. CASE SearchGarbles \/ SearchBreaks
    BY <2>1 DEF SearchGarbles, SearchBreaks, sendVars, netVars, Replied
  <2>2. ASSUME NEW r \in Requests, SearchReplies(r)
        PROVE  Replied' \subseteq Replied \union Received
    BY <1>t, <2>2, RepliedGrows DEF SearchReplies
  <2>3. UNCHANGED <<pc, wire, rcv, cur, handle, handles, answers>>
    BY DEF Search, SearchReplies, SearchGarbles, SearchBreaks, sendVars, netVars
  <2> QED BY <2>1, <2>2, <2>3 DEF Search
<1>2. Received' = Received
  BY <1>1 DEF Received
<1> QED BY <1>t, <1>1, <1>2 DEF IInv, SeenWereWritten, AnswersComeLast,
       HandleInHand, HandlesWait, AtMostOneAnswer

LEMMA LoopIInv ==
  ASSUME IInv, Loop
  PROVE  IInv'
<1> USE DEF sendVars, netVars, rcvVars
<1>t. TypeOK /\ TypeOK'
  BY LoopType DEF IInv
<1>0. UNCHANGED <<pc, wire, verdicts>>
  BY DEF Loop, ReadCompletes, OnReceive, GetHandle, EraseHandle,
     CallContinuation
<1>s. SeenWereWritten'
  BY <1>0 DEF IInv, SeenWereWritten, Received, Replied
<1>1. CASE ReadCompletes \/ OnReceive
  <2>1. rcv' \notin {"erase", "call"} /\ UNCHANGED <<handles, answers>>
    BY <1>1 DEF ReadCompletes, OnReceive
  <2> QED BY <1>t, <1>0, <1>s, <2>1 DEF IInv, AnswersComeLast, HandleInHand,
          HandlesWait, AtMostOneAnswer
<1>2. CASE GetHandle
  <2>1. /\ rcv = "get" /\ rcv' = "erase" /\ handle' = handles[SmsgIdOf(cur.id)]
        /\ UNCHANGED <<cur, handles, answers>>
    BY <1>2 DEF GetHandle
  <2>2. HandleInHand'
    BY <1>0, <1>t, <2>1, CurIdType DEF IInv, HandleInHand, HandlesWait
  <2> QED BY <1>t, <1>0, <1>s, <2>1, <2>2 DEF IInv, AnswersComeLast,
          HandlesWait, AtMostOneAnswer
<1>3. CASE EraseHandle
  <2>1. /\ rcv = "erase" /\ rcv' = "call"
        /\ handles' = [handles EXCEPT ![SmsgIdOf(cur.id)] = None]
        /\ UNCHANGED <<cur, handle, answers>>
    BY <1>3 DEF EraseHandle
  <2>2. \A i \in Ids : handles'[i] = IF i = SmsgIdOf(cur.id) THEN None
                                     ELSE handles[i]
    BY <1>t, <2>1 DEF TypeOK
  <2>3. HandlesWait'
    BY <1>0, <2>1, <2>2 DEF IInv, HandlesWait
  <2>4. HandleInHand'
    BY <1>0, <2>1, <2>2 DEF IInv, HandlesWait, HandleInHand
  <2> QED BY <1>t, <1>0, <1>s, <2>1, <2>3, <2>4 DEF IInv, AnswersComeLast,
          AtMostOneAnswer
<1>4. CASE CallContinuation
  <2>1. rcv = "call" /\ rcv' = "armed" /\ UNCHANGED handles
    BY <1>4 DEF CallContinuation
  <2>2. CASE handle = None
    <3>1. UNCHANGED answers
      BY <1>4, <2>2 DEF CallContinuation
    <3> QED BY <1>t, <1>0, <1>s, <2>1, <3>1 DEF IInv, AnswersComeLast,
            HandlesWait, AtMostOneAnswer, HandleInHand
  <2>3. CASE handle # None
    <3>1. answers' = [answers EXCEPT ![handle] =
                        Append(answers[handle],
                               [src |-> cur.src, ok |-> cur.kind = "ok"])]
      BY <1>4, <2>3 DEF CallContinuation, Answer
    <3>2. /\ handle \in Requests /\ pc[handle] = "done"
          /\ answers[handle] = <<>> /\ \A i \in Ids : handles[i] # handle
      BY <1>t, <2>1, <2>3 DEF IInv, HandleInHand, TypeOK
    <3>3. AtMostOneAnswer'
      <4>1. Len(answers'[handle]) = 1
        BY <1>t, <3>1, <3>2 DEF TypeOK
      <4> QED BY <1>t, <3>1, <4>1 DEF IInv, AtMostOneAnswer, TypeOK
    <3>4. AnswersComeLast'
      BY <1>t, <1>0, <3>1, <3>2 DEF IInv, AnswersComeLast, TypeOK
    <3>5. HandlesWait'
      BY <1>t, <1>0, <2>1, <3>1, <3>2 DEF IInv, HandlesWait, TypeOK
    <3>6. HandleInHand'
      BY <2>1 DEF HandleInHand
    <3> QED BY <1>t, <1>s, <3>3, <3>4, <3>5, <3>6 DEF IInv
  <2> QED BY <2>2, <2>3
<1> QED BY <1>1, <1>2, <1>3, <1>4 DEF Loop

LEMMA NextIInv == IInv /\ [Next]_vars => IInv'
<1> SUFFICES ASSUME IInv, [Next]_vars PROVE IInv'
  OBVIOUS
<1>1. ASSUME UNCHANGED vars PROVE IInv'
  BY <1>1 DEF vars, sendVars, netVars, rcvVars, IInv, TypeOK, SeenWereWritten,
     AnswersComeLast, HandleInHand, HandlesWait, AtMostOneAnswer, Received, Replied
<1> QED BY <1>1, NextCases, RequestIInv, SearchIInv, LoopIInv

\* In every behaviour of the client the invariant holds.
THEOREM Invariance == Spec => []IInv
<1> QED BY InitIInv, NextIInv, PTL DEF Spec

\* The variables keep their types.
THEOREM TypeCorrect == Spec => []TypeOK
<1>1. IInv => TypeOK
  BY DEF IInv
<1> QED BY <1>1, Invariance, PTL

\* For any number of threads and any identifiers, colliding ones included, a
\* session's continuation is called at most once (process_message_,
\* register_service and its like).
THEOREM OneAnswer == Spec => []AtMostOneAnswer
<1>1. IInv => AtMostOneAnswer
  BY DEF IInv
<1> QED BY <1>1, Invariance, PTL

\* The table holds continuations of unanswered requests under their own
\* identifiers and no others (msg_handle_save, msg_handle_get,
\* msg_handle_erase).
THEOREM TableIsSound == Spec => []HandlesWait
<1>1. IInv => HandlesWait
  BY DEF IInv
<1> QED BY <1>1, Invariance, PTL

-------------------------------------------------------------------------------
(* The answer is that of the request, if identifiers are not shared *)

\* An answer that has not been given to a session yet.
IsPending(x) ==
  IsAnswer(x) => /\ x.src \in Replied
                 /\ x.id = HeaderId(SmsgId[x.src])
                 /\ x.kind = verdicts[x.src]
                 /\ answers[x.src] = <<>>

\* No two answers on their way are for the same request.
AnswersOnTheirWay ==
  \A i \in DOMAIN resp :
    /\ IsPending(resp[i])
    /\ \A j \in DOMAIN resp :
         IsAnswer(resp[i]) /\ IsAnswer(resp[j]) /\ resp[i].src = resp[j].src
           => i = j

\* Nor is one of them for the request whose answer is being processed.
AnswerInHand ==
  Processing =>
    /\ IsAnswer(cur)
    /\ IsPending(cur)
    /\ \A i \in DOMAIN resp : IsAnswer(resp[i]) => resp[i].src # cur.src

\* A request was made after the answers to those it follows.
WaitsAreOver ==
  \A r \in Requests : pc[r] # "idle" => \A s \in Awaits[r] : answers[s] # <<>>

\* The Search has been sent nothing that is answered already.
NewsToTheSearch == \A r \in Received \ Replied : answers[r] = <<>>

Own == /\ AnswersOnTheirWay
       /\ AnswerInHand
       /\ WaitsAreOver
       /\ NewsToTheSearch
       /\ AnswerIsOwn

LEMMA InitOwn == Init => Own
BY DEF Init, Own, AnswersOnTheirWay, AnswerInHand, Processing, WaitsAreOver,
   NewsToTheSearch, Received, Replied, AnswerIsOwn, NoReply

\* Steps that leave the answers and their way alone.
LEMMA OwnQuiet ==
  ASSUME Own, UNCHANGED <<resp, rcv, cur, verdicts, answers>>, WaitsAreOver',
         NewsToTheSearch'
  PROVE  Own'
BY DEF Own, AnswersOnTheirWay, AnswerInHand, Processing, AnswerIsOwn, IsPending, Replied

LEMMA RequestOwn ==
  ASSUME IInv, Own, NEW r \in Requests, Call(r) \/ Request(r)
  PROVE  Own'
<1> USE DEF Goes, sendVars, netVars, rcvVars
<1>t. TypeOK
  BY DEF IInv
<1>1. CASE Call(r)
  <2>1. \A s \in Awaits[r] : answers[s] # <<>>
    BY <1>1 DEF Call
  <2>2. WaitsAreOver'
    BY <1>1, <1>t, <2>1 DEF Call, Own, WaitsAreOver, TypeOK
  <2>3. NewsToTheSearch'
    BY <1>1 DEF Call, Own, NewsToTheSearch, Received, Replied
  <2> QED BY <1>1, <2>2, <2>3, OwnQuiet DEF Call
<1>2. CASE Generate(r) \/ Send(r) \/ WriteCompletes(r) \/ OnWritten(r)
             \/ SaveHandle(r)
  <2>1. /\ pc[r] # "idle" /\ \A s \in Requests : s # r => pc'[s] = pc[s]
        /\ UNCHANGED <<resp, rcv, cur, verdicts, answers>>
    BY <1>2, <1>t DEF Generate, Send, WriteCompletes, OnWritten, SaveHandle,
       TypeOK
  <2>2. WaitsAreOver'
    BY <2>1 DEF Own, WaitsAreOver
  <2>3. Received' = Received \/ (Received' = Received \union {r} /\ pc[r] # "done")
    <3>1. CASE UNCHANGED wire
      BY <3>1 DEF Received
    <3>2. CASE ~UNCHANGED wire
      <4>1. /\ wire' = Append(wire, [req |-> r, addr |-> carries[r]])
            /\ pc[r] = "writing"
        BY <1>2, <3>2 DEF Generate, Send, WriteCompletes, OnWritten, SaveHandle
      <4> QED BY <1>t, <4>1, ReceivedGrows
    <3> QED BY <3>1, <3>2
  <2>4. NewsToTheSearch'
    BY <2>1, <2>3 DEF IInv, AnswersComeLast, Own, NewsToTheSearch, Replied
  <2> QED BY <2>1, <2>2, <2>4, OwnQuiet
<1>3. CASE FailRequest(r)
  <2>1. /\ pc[r] = "fail" /\ pc' = [pc EXCEPT ![r] = "done"]
        /\ answers' = [answers EXCEPT ![r] =
                         Append(answers[r], [src |-> None, ok |-> FALSE])]
        /\ UNCHANGED <<wire, resp, rcv, cur, verdicts>>
    BY <1>3 DEF FailRequest, Answer
  <2>2. answers[r] = <<>> /\ r \notin Replied /\ r \notin Received
    BY <2>1 DEF IInv, AnswersComeLast, SeenWereWritten
  <2>3. answers'[r] = <<[src |-> None, ok |-> FALSE]>>
    <3>1. answers'[r] = Append(answers[r], [src |-> None, ok |-> FALSE])
      BY <1>t, <2>1 DEF TypeOK
    <3> QED BY <2>2, <3>1
  <2>4. \A s \in Requests : s # r => answers'[s] = answers[s] /\ pc'[s] = pc[s]
    BY <1>t, <2>1 DEF TypeOK
  <2>5. \A s \in Replied \union Received : answers'[s] = answers[s]
    BY <1>t, <2>2, <2>4, ReceivedType DEF TypeOK, Replied
  <2>6. AnswersOnTheirWay' /\ AnswerInHand'
    BY <2>1, <2>5 DEF Own, AnswersOnTheirWay, AnswerInHand, Processing, IsPending, Replied
  <2>7. WaitsAreOver'
    <3>1. pc[r] # "idle" /\ \A s \in Requests : answers[s] # <<>> => answers'[s] # <<>>
      BY <2>1, <2>3, <2>4
    <3> QED BY <2>4, <3>1, AwaitsAssumption DEF Own, WaitsAreOver
  <2>8. NewsToTheSearch'
    <3>1. Received' = Received /\ Replied' = Replied
      BY <2>1 DEF Received, Replied
    <3>2. NewsToTheSearch
      BY DEF Own
    <3> QED BY <2>5, <3>1, <3>2 DEF NewsToTheSearch
  <2>9. AnswerIsOwn'
    <3>1. verdicts'[r] = "none"
      BY <2>1, <2>2 DEF Replied
    <3>2. ASSUME NEW i \in DOMAIN answers'[r]
          PROVE  answers'[r][i] = [src |-> None, ok |-> FALSE]
      BY <2>3, OneElement
    <3>3. ASSUME NEW s \in Requests, s # r, NEW i \in DOMAIN answers'[s]
          PROVE  i \in DOMAIN answers[s] /\ answers'[s][i] = answers[s][i]
      BY <2>4, <3>3
    <3> QED BY <2>1, <3>1, <3>2, <3>3 DEF Own, AnswerIsOwn
  <2> QED BY <2>6, <2>7, <2>8, <2>9 DEF Own
<1> QED BY <1>1, <1>2, <1>3 DEF Request

\* What an appended answer or fault does to those on their way.
LEMMA AppendElements ==
  ASSUME NEW S, NEW q \in Seq(S), NEW x \in S
  PROVE  /\ DOMAIN Append(q, x) = DOMAIN q \union {Len(q) + 1}
         /\ Len(q) + 1 \notin DOMAIN q
         /\ \A i \in DOMAIN q : Append(q, x)[i] = q[i]
         /\ Append(q, x)[Len(q) + 1] = x
OBVIOUS

LEMMA AppendFault ==
  ASSUME TypeOK, Own, NEW x \in Replies, ~IsAnswer(x), resp' = Append(resp, x),
         UNCHANGED <<rcv, cur, verdicts, answers, pc, wire>>
  PROVE  Own'
<1>1. resp \in Seq(Replies)
  BY DEF TypeOK
<1>2. AnswersOnTheirWay'
  BY <1>1, AppendElements DEF Own, AnswersOnTheirWay, IsPending, Replied
<1>3. AnswerInHand'
  BY <1>1, AppendElements DEF Own, AnswerInHand, Processing, IsPending, Replied
<1> QED BY <1>2, <1>3 DEF Own, WaitsAreOver, AnswerIsOwn, NewsToTheSearch, Received, Replied

LEMMA SearchOwn ==
  ASSUME IInv, Own, Search
  PROVE  Own'
<1> USE DEF sendVars, netVars
<1>t. TypeOK
  BY DEF IInv
<1>1. ASSUME NEW r \in Requests, SearchReplies(r)
      PROVE  Own'
  <2>1. PICK kind \in {"ok", "fail"} :
          /\ resp' = Append(resp,
                       [id |-> HeaderId(SmsgId[r]), src |-> r, kind |-> kind])
          /\ Replied' = Replied \union {r}
          /\ verdicts'[r] = kind
          /\ \A s \in Requests : s # r => verdicts'[s] = verdicts[s]
    BY <1>1, <1>t, RepliedGrows
  <2> DEFINE x == [id |-> HeaderId(SmsgId[r]), src |-> r, kind |-> kind]
  <2>2. /\ UNCHANGED <<pc, wire, rcv, cur, answers>>
        /\ r \in Received /\ r \notin Replied
    BY <1>1 DEF SearchReplies
  <2>3. x \in Replies /\ x.src = r /\ IsAnswer(x) /\ x.id = HeaderId(SmsgId[r])
        /\ x.kind = kind
    BY IdTypes, SmsgIdAssumption DEF Replies, IsAnswer
  <2>4. /\ resp \in Seq(Replies) /\ resp' = Append(resp, x)
    BY <1>t, <2>1 DEF TypeOK
  <2> HIDE DEF x
  <2>5. DOMAIN resp' = DOMAIN resp \union {Len(resp) + 1}
        /\ resp'[Len(resp) + 1] = x /\ \A i \in DOMAIN resp : resp'[i] = resp[i]
        /\ Len(resp) + 1 \notin DOMAIN resp
    BY <2>3, <2>4, AppendElements
  <2>6. answers[r] = <<>>
    BY <2>2 DEF Own, NewsToTheSearch
  <2>7. \A s \in Replied : s # r /\ s \in Requests /\ verdicts'[s] = verdicts[s]
    BY <2>1, <2>2 DEF Replied
  <2>8. AnswersOnTheirWay'
    BY <2>1, <2>2, <2>3, <2>5, <2>6, <2>7 DEF Own, AnswersOnTheirWay, IsPending
  <2>9. AnswerInHand'
    BY <2>1, <2>2, <2>3, <2>5, <2>7 DEF Own, AnswerInHand, Processing, IsPending
  <2>10. AnswerIsOwn'
    <3>1. ASSUME NEW s \in Requests, NEW i \in DOMAIN answers[s]
          PROVE  s # r /\ verdicts'[s] = verdicts[s]
      BY <2>1, <2>6
    <3> QED BY <2>2, <3>1 DEF Own, AnswerIsOwn
  <2> QED BY <2>1, <2>2, <2>8, <2>9, <2>10 DEF Own, WaitsAreOver,
          NewsToTheSearch, Received, Replied
<1>2. CASE SearchGarbles
  <2>1. Fault("garbled") \in Replies /\ ~IsAnswer(Fault("garbled"))
    BY DEF Fault, Replies, IsAnswer
  <2> QED BY <1>2, <1>t, <2>1, AppendFault DEF SearchGarbles
<1>3. CASE SearchBreaks
  <2>1. Fault("truncated") \in Replies /\ ~IsAnswer(Fault("truncated"))
    BY DEF Fault, Replies, IsAnswer
  <2>2. UNCHANGED <<pc, wire, verdicts, rcv, cur, answers>>
    BY <1>3 DEF SearchBreaks
  <2>3. CASE resp' = Append(resp, Fault("truncated"))
    BY <1>t, <2>1, <2>2, <2>3, AppendFault
  <2>4. CASE resp' = resp
    BY <2>2, <2>4, OwnQuiet DEF Own, WaitsAreOver, NewsToTheSearch, Received, Replied
  <2>5. CASE resp' = <<>>
    BY <2>2, <2>5 DEF Own, AnswersOnTheirWay, AnswerInHand, Processing,
       IsPending, WaitsAreOver, NewsToTheSearch, Received, Replied, AnswerIsOwn
  <2> QED BY <1>3, <2>3, <2>4, <2>5 DEF SearchBreaks
<1> QED BY <1>1, <1>2, <1>3 DEF Search

\* What taking the first answer does to those on their way.
LEMMA TailElements ==
  ASSUME NEW S, NEW q \in Seq(S), q # <<>>
  PROVE  /\ Head(q) = q[1] /\ 1 \in DOMAIN q
         /\ \A i \in DOMAIN Tail(q) : /\ i \in Nat /\ i + 1 # 1
                                     /\ i + 1 \in DOMAIN q
                                     /\ Tail(q)[i] = q[i + 1]
OBVIOUS

LEMMA OnReceiveOwn ==
  ASSUME IInv, Own, OnReceive
  PROVE  Own'
<1>1. /\ UNCHANGED <<pc, wire, verdicts, answers>>
      /\ rcv = "queued" /\ rcv' \in {"get", "dead"}
  BY DEF OnReceive, netVars
<1>2. WaitsAreOver' /\ NewsToTheSearch' /\ AnswerIsOwn'
  BY <1>1 DEF Own, WaitsAreOver, NewsToTheSearch, Received, Replied, AnswerIsOwn
<1>3. CASE resp = <<>>
  BY <1>1, <1>2, <1>3 DEF OnReceive, Own, AnswersOnTheirWay, AnswerInHand,
     Processing, IsPending
<1>4. CASE resp # <<>>
  <2>1. resp' = Tail(resp) /\ resp \in Seq(Replies)
    BY <1>4 DEF OnReceive, IInv, TypeOK
  <2>2. /\ Head(resp) = resp[1] /\ 1 \in DOMAIN resp
        /\ \A i \in DOMAIN resp' : /\ i \in Nat /\ i + 1 # 1
                                  /\ i + 1 \in DOMAIN resp
                                  /\ resp'[i] = resp[i + 1]
    BY <1>4, <2>1, TailElements
  <2>3. AnswersOnTheirWay'
    <3> SUFFICES ASSUME NEW i \in DOMAIN resp'
                 PROVE  /\ IsPending(resp[i])'
                        /\ \A j \in DOMAIN resp' :
                             IsAnswer(resp'[i]) /\ IsAnswer(resp'[j])
                             /\ resp'[i].src = resp'[j].src => i = j
      BY DEF AnswersOnTheirWay, IsPending
    <3>1. i \in Nat /\ i + 1 \in DOMAIN resp /\ resp'[i] = resp[i + 1]
      BY <2>2
    <3>2. IsPending(resp[i + 1])
      BY <3>1 DEF Own, AnswersOnTheirWay
    <3>3. ASSUME NEW j \in DOMAIN resp', IsAnswer(resp'[i]), IsAnswer(resp'[j]),
                 resp'[i].src = resp'[j].src
          PROVE  i = j
      <4>1. j \in Nat /\ j + 1 \in DOMAIN resp /\ resp'[j] = resp[j + 1]
        BY <2>2
      <4>2. i + 1 = j + 1
        BY <3>1, <3>3, <4>1 DEF Own, AnswersOnTheirWay
      <4> QED BY <3>1, <4>1, <4>2
    <3> QED BY <1>1, <3>1, <3>2, <3>3 DEF IsPending, Replied
  <2>4. AnswerInHand'
    <3>1. CASE rcv' = "dead"
      BY <3>1 DEF AnswerInHand, Processing
    <3>2. CASE rcv' = "get"
      <4>1. cur' = resp[1] /\ IsAnswer(resp[1])
        BY <1>4, <2>2, <3>2 DEF OnReceive, IsAnswer
      <4>2. IsPending(resp[1])
        BY <2>2 DEF Own, AnswersOnTheirWay
      <4>3. \A i \in DOMAIN resp' : IsAnswer(resp'[i]) => resp'[i].src # resp[1].src
        BY <2>2, <4>1 DEF Own, AnswersOnTheirWay
      <4> QED BY <1>1, <4>1, <4>2, <4>3 DEF AnswerInHand, IsPending, Replied
    <3> QED BY <1>1, <3>1, <3>2
  <2> QED BY <1>2, <2>3, <2>4 DEF Own
<1> QED BY <1>3, <1>4

\* The handle found is that of the request answered: another one under the same
\* identifier is either not made yet or over.
LEMMA HandleIsOwn ==
  ASSUME IdsAreDistinct, IInv, Own, rcv = "call", handle # None
  PROVE  handle = cur.src
<1>1. /\ handle \in Requests /\ pc[handle] = "done" /\ answers[handle] = <<>>
      /\ SmsgId[handle] = SmsgIdOf(cur.id)
  BY DEF IInv, TypeOK, HandleInHand
<1>2. /\ cur.src \in Replied /\ cur.id = HeaderId(SmsgId[cur.src])
      /\ answers[cur.src] = <<>>
  BY DEF Own, AnswerInHand, Processing, IsPending
<1>3. cur.src \in Requests /\ pc[cur.src] # "idle"
  BY <1>2 DEF IInv, TypeOK, SeenWereWritten, Replied
<1>4. SmsgId[handle] = SmsgId[cur.src]
  BY <1>1, <1>2, <1>3, HeaderRoundTrip, SmsgIdAssumption
<1>5. handle \notin Awaits[cur.src] /\ cur.src \notin Awaits[handle]
  BY <1>1, <1>2, <1>3 DEF Own, WaitsAreOver
<1> QED BY <1>1, <1>3, <1>4, <1>5 DEF IdsAreDistinct

LEMMA LoopOwn ==
  ASSUME IdsAreDistinct, IInv, Own, Loop
  PROVE  Own'
<1> USE DEF sendVars, netVars, rcvVars
<1>t. TypeOK
  BY DEF IInv
<1>1. CASE ReadCompletes
  <2>1. /\ UNCHANGED <<pc, wire, verdicts, resp, cur, answers>>
        /\ rcv' = "queued"
    BY <1>1 DEF ReadCompletes
  <2> QED BY <2>1 DEF Own, AnswersOnTheirWay, AnswerInHand, Processing,
          IsPending, WaitsAreOver, NewsToTheSearch, Received, Replied, AnswerIsOwn
<1>2. CASE OnReceive
  BY <1>2, OnReceiveOwn
<1>3. CASE GetHandle \/ EraseHandle
  <2>1. /\ UNCHANGED <<pc, wire, verdicts, resp, cur, answers>>
        /\ Processing
    BY <1>3 DEF GetHandle, EraseHandle, Processing
  <2> QED BY <2>1 DEF Own, AnswersOnTheirWay, AnswerInHand,
          IsPending, WaitsAreOver, NewsToTheSearch, Received, Replied, AnswerIsOwn
<1>4. CASE CallContinuation
  <2>1. /\ UNCHANGED <<pc, wire, verdicts, resp>>
        /\ rcv = "call" /\ rcv' = "armed"
    BY <1>4 DEF CallContinuation
  <2>2. AnswerInHand'
    BY <2>1 DEF AnswerInHand, Processing
  <2>3. CASE handle = None
    <3>1. UNCHANGED answers
      BY <1>4, <2>3 DEF CallContinuation
    <3> QED BY <2>1, <2>2, <3>1 DEF Own, AnswersOnTheirWay, IsPending,
            WaitsAreOver, NewsToTheSearch, Received, Replied, AnswerIsOwn
  <2>4. CASE handle # None
    <3>1. handle = cur.src /\ handle \in Requests
      BY <1>t, <2>1, <2>4, HandleIsOwn DEF TypeOK
    <3>2. /\ handle \in Replied /\ answers[handle] = <<>>
          /\ \A i \in DOMAIN resp : IsAnswer(resp[i]) => resp[i].src # handle
      BY <2>1, <3>1 DEF Own, AnswerInHand, Processing, IsPending
    <3>3. answers' = [answers EXCEPT ![handle] =
                        Append(answers[handle],
                               [src |-> cur.src, ok |-> cur.kind = "ok"])]
      BY <1>4, <2>4 DEF CallContinuation, Answer
    <3>4. answers'[handle] = <<[src |-> handle, ok |-> cur.kind = "ok"]>>
      BY <1>t, <3>1, <3>2, <3>3 DEF TypeOK
    <3>5. \A s \in Requests : s # handle => answers'[s] = answers[s]
      BY <1>t, <3>3 DEF TypeOK
    <3>6. AnswersOnTheirWay'
      <4>1. \A i \in DOMAIN resp : IsPending(resp[i]) => IsPending(resp[i])'
        BY <1>t, <2>1, <3>2, <3>5 DEF IsPending, TypeOK, Replied
      <4> QED BY <2>1, <4>1 DEF Own, AnswersOnTheirWay, IsPending
    <3>7. WaitsAreOver'
      <4>1. \A s \in Requests : answers[s] # <<>> => answers'[s] # <<>>
        BY <3>4, <3>5
      <4> QED BY <2>1, <4>1, AwaitsAssumption DEF Own, WaitsAreOver
    <3>8. NewsToTheSearch'
      BY <1>t, <2>1, <3>2, <3>5, ReceivedType DEF Own, NewsToTheSearch, Received, Replied
    <3>9. AnswerIsOwn'
      <4>1. verdicts'[handle] = (IF cur.kind = "ok" THEN "ok" ELSE "fail")
        BY <2>1, <3>1 DEF Own, AnswerInHand, Processing, IsPending, IsAnswer
      <4>2. ASSUME NEW i \in DOMAIN answers'[handle]
            PROVE  /\ answers'[handle][i].src = handle
                   /\ answers'[handle][i].ok = (cur.kind = "ok")
        BY <3>4, OneElement
      <4>3. ASSUME NEW s \in Requests, s # handle, NEW i \in DOMAIN answers'[s]
            PROVE  i \in DOMAIN answers[s] /\ answers'[s][i] = answers[s][i]
        BY <3>5, <4>3
      <4>4. verdicts' = verdicts
        BY <1>4 DEF CallContinuation
      <4>5. ASSUME NEW i \in DOMAIN answers'[handle]
            PROVE  verdicts'[handle] = IF answers'[handle][i].ok THEN "ok" ELSE "fail"
        BY <4>1, <4>2
      <4> QED BY <4>2, <4>3, <4>4, <4>5 DEF Own, AnswerIsOwn
    <3> QED BY <2>2, <3>6, <3>7, <3>8, <3>9 DEF Own
  <2> QED BY <2>3, <2>4
<1> QED BY <1>1, <1>2, <1>3, <1>4 DEF Loop

LEMMA NextOwn ==
  ASSUME IdsAreDistinct
  PROVE  IInv /\ Own /\ [Next]_vars => Own'
<1> SUFFICES ASSUME IInv, Own, [Next]_vars PROVE Own'
  OBVIOUS
<1>1. ASSUME UNCHANGED vars PROVE Own'
  BY <1>1, OwnQuiet DEF vars, sendVars, netVars, rcvVars, Own, WaitsAreOver,
     NewsToTheSearch, Received, Replied
<1> QED BY <1>1, NextCases, RequestOwn, SearchOwn, LoopOwn

\* As long as outstanding requests do not share an identifier, a continuation is
\* called with the answer to its own request, or with the error of its own write
\* (generate_smsg_id_, generate_header_, process_message_).
THEOREM AnswersAreOwn ==
  ASSUME IdsAreDistinct
  PROVE  Spec => []AnswerIsOwn
<1>1. Own => AnswerIsOwn
  BY DEF Own
<1>2. IInv /\ Own /\ [Next]_vars => Own'
  BY NextOwn
<1> QED BY <1>1, <1>2, InitOwn, Invariance, PTL DEF Spec

-------------------------------------------------------------------------------
(* The client implements the service sessions expect *)

Asked == {r \in Requests : pc[r] # "idle"}
Told == [r \in Requests |-> IF answers[r] = <<>> THEN "none"
                           ELSE IF answers[r][1].ok THEN "ok" ELSE "fail"]

LEMMA ToldOf ==
  ASSUME NEW r \in Requests
  PROVE  Told[r] = IF answers[r] = <<>> THEN "none"
                   ELSE IF answers[r][1].ok THEN "ok" ELSE "fail"
BY DEF Told

\* What is told by the first answer to a request.
LEMMA FirstAnswer ==
  ASSUME answers \in [Requests -> Seq(Answers)], NEW r \in Requests,
         answers[r] = <<>>, NEW src, NEW ok \in BOOLEAN, Answer(r, src, ok)
  PROVE  Told' = [Told EXCEPT ![r] = IF ok THEN "ok" ELSE "fail"]
<1>1. answers' = [answers EXCEPT ![r] = Append(answers[r], [src |-> src, ok |-> ok])]
  BY DEF Answer
<1>2. answers'[r] = <<[src |-> src, ok |-> ok]>>
  <2>1. answers'[r] = Append(answers[r], [src |-> src, ok |-> ok])
    BY <1>1
  <2> QED BY <2>1
<1>3. answers'[r] # <<>> /\ answers'[r][1].ok = ok
  BY <1>2
<1>4. \A s \in Requests : s # r => answers'[s] = answers[s]
  BY <1>1
<1> QED BY <1>3, <1>4 DEF Told

\* Steps that neither start a request nor tell a session anything are stutters.
LEMMA Stutter ==
  ASSUME UNCHANGED <<verdicts, answers>>,
         \A r \in Requests : pc'[r] = "idle" <=> pc[r] = "idle"
  PROVE  UNCHANGED <<Asked, verdicts, Told>>
BY DEF Asked, Told

LEMMA RequestRefines ==
  ASSUME IInv, NEW r \in Requests, Call(r) \/ Request(r)
  PROVE  Service!Next \/ UNCHANGED <<Asked, verdicts, Told>>
<1> USE DEF Goes, sendVars, netVars, rcvVars
<1>t. TypeOK
  BY DEF IInv
<1>1. CASE Call(r)
  <2>1. r \notin Asked /\ Asked' = Asked \union {r}
    BY <1>1, <1>t DEF Call, Asked, TypeOK
  <2>2. UNCHANGED <<verdicts, Told>>
    BY <1>1 DEF Call, Told
  <2>3. Service!Ask(r)
    BY <2>1, <2>2 DEF Service!Ask, Asked, Told
  <2> QED BY <2>3 DEF Service!Next
<1>2. CASE Generate(r) \/ Send(r) \/ WriteCompletes(r) \/ OnWritten(r)
             \/ SaveHandle(r)
  <2>1. UNCHANGED <<verdicts, answers>>
    BY <1>2 DEF Generate, Send, WriteCompletes, OnWritten, SaveHandle
  <2>2. \A s \in Requests : pc'[s] = "idle" <=> pc[s] = "idle"
    BY <1>2, <1>t DEF Generate, Send, WriteCompletes, OnWritten, SaveHandle,
       TypeOK
  <2> QED BY <2>1, <2>2, Stutter
<1>3. CASE FailRequest(r)
  <2>1. /\ pc[r] = "fail" /\ pc' = [pc EXCEPT ![r] = "done"]
        /\ Answer(r, None, FALSE) /\ UNCHANGED verdicts
    BY <1>3 DEF FailRequest
  <2>2. answers[r] = <<>> /\ verdicts[r] = "none"
    BY <2>1 DEF IInv, AnswersComeLast, SeenWereWritten, Replied
  <2>3. r \in Asked /\ Asked' = Asked
    BY <1>t, <2>1 DEF Asked, TypeOK
  <2>4. Told[r] = "none" /\ Told' = [Told EXCEPT ![r] = "fail"]
    BY <1>t, <2>1, <2>2, FirstAnswer, ToldOf DEF TypeOK
  <2>5. Service!GiveUp(r)
    BY <2>1, <2>2, <2>3, <2>4 DEF Service!GiveUp, Asked, Told
  <2> QED BY <2>5 DEF Service!Next
<1> QED BY <1>1, <1>2, <1>3 DEF Request

LEMMA SearchRefines ==
  ASSUME IInv, Own, Search
  PROVE  Service!Next \/ UNCHANGED <<Asked, verdicts, Told>>
<1>t. TypeOK
  BY DEF IInv
<1>1. ASSUME NEW r \in Requests, SearchReplies(r)
      PROVE  Service!Next
  <2>1. PICK kind \in {"ok", "fail"} : verdicts' = [verdicts EXCEPT ![r] = kind]
    BY <1>1 DEF SearchReplies
  <2>2. r \in Received /\ r \notin Replied /\ UNCHANGED <<pc, answers>>
    BY <1>1 DEF SearchReplies, sendVars
  <2>3. verdicts[r] = "none" /\ Told[r] = "none"
    BY <2>2, ToldOf DEF Own, NewsToTheSearch, Replied
  <2>4. r \in Asked
    BY <2>2 DEF IInv, SeenWereWritten, Asked
  <2>5. UNCHANGED <<Asked, Told>>
    BY <2>2 DEF Asked, Told
  <2>6. Service!Decide(r)
    BY <2>1, <2>3, <2>4, <2>5 DEF Service!Decide, Service!Outcomes, Asked, Told
  <2> QED BY <2>6 DEF Service!Next
<1>2. CASE SearchGarbles \/ SearchBreaks
  BY <1>2, Stutter DEF SearchGarbles, SearchBreaks, sendVars, netVars
<1> QED BY <1>1, <1>2 DEF Search

LEMMA LoopRefines ==
  ASSUME IdsAreDistinct, IInv, Own, Loop
  PROVE  Service!Next \/ UNCHANGED <<Asked, verdicts, Told>>
<1> USE DEF sendVars, netVars, rcvVars
<1>t. TypeOK
  BY DEF IInv
<1>1. CASE ReadCompletes \/ OnReceive \/ GetHandle \/ EraseHandle
  BY <1>1, Stutter DEF ReadCompletes, OnReceive, GetHandle, EraseHandle
<1>2. CASE CallContinuation /\ handle = None
  BY <1>2, Stutter DEF CallContinuation
<1>3. CASE CallContinuation /\ handle # None
  <2>1. /\ rcv = "call" /\ UNCHANGED <<pc, verdicts>>
        /\ Answer(handle, cur.src, cur.kind = "ok")
    BY <1>3 DEF CallContinuation
  <2>2. handle = cur.src /\ handle \in Requests
    BY <1>3, <1>t, <2>1, HandleIsOwn DEF TypeOK
  <2>3. /\ handle \in Replied /\ answers[handle] = <<>>
        /\ cur.kind \in {"ok", "fail"} /\ cur.kind = verdicts[handle]
    BY <2>1, <2>2 DEF Own, AnswerInHand, Processing, IsPending, IsAnswer
  <2>4. Told[handle] = "none"
    BY <2>2, <2>3, ToldOf
  <2>5. Told' = [Told EXCEPT ![handle] = verdicts[handle]]
    <3>1. Told' = [Told EXCEPT ![handle] = IF cur.kind = "ok" THEN "ok" ELSE "fail"]
      BY <1>t, <2>1, <2>2, <2>3, FirstAnswer DEF TypeOK
    <3> QED BY <2>3, <3>1
  <2>6. PICK r \in Requests : r = handle
    BY <2>2
  <2>7. Service!Tell(r)
    BY <2>1, <2>3, <2>4, <2>5, <2>6 DEF Service!Tell, Asked, Told, Replied
  <2> QED BY <2>7 DEF Service!Next
<1> QED BY <1>1, <1>2, <1>3 DEF Loop

\* As long as outstanding requests do not share an identifier, every behaviour of
\* the client, for any number of threads and with every fault, is one of the
\* service: each session is told once what became of its request, or never, and
\* an error of the core's own only if the Search has not carried it out and will
\* not (send_, msg_handle_save, receive_, process_message_).
THEOREM ClientImplementsService ==
  ASSUME IdsAreDistinct
  PROVE  Spec => RefinesService
<1>1. Init => Service!Init
  <2> SUFFICES ASSUME Init PROVE Service!Init
    OBVIOUS
  <2>1. Asked = {} /\ Told = [r \in Requests |-> "none"]
    BY DEF Init, Asked, Told
  <2> QED BY <2>1 DEF Init, Service!Init, Asked, Told
<1>2. IInv /\ Own /\ [Next]_vars => [Service!Next]_(Service!serviceVars)
  <2> SUFFICES ASSUME IInv, Own, [Next]_vars
               PROVE  Service!Next \/ UNCHANGED <<Asked, verdicts, Told>>
    BY DEF Service!serviceVars, Asked, Told
  <2>1. ASSUME UNCHANGED vars
        PROVE  UNCHANGED <<Asked, verdicts, Told>>
    BY <2>1, Stutter DEF vars, sendVars, netVars
  <2> QED BY <2>1, NextCases, RequestRefines, SearchRefines, LoopRefines
<1>3. IInv /\ Own /\ [Next]_vars => Own'
  BY NextOwn
<1> QED BY <1>1, <1>2, <1>3, InitOwn, Invariance, PTL
        DEF Spec, RefinesService, Service!Spec
===============================================================================
