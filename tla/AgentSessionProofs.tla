-------------------------- MODULE AgentSessionProofs --------------------------
(***************************************************************************)
(* What an agent may conclude from what it hears of its requests, for any  *)
(* sessions, data models, pools of threads and number of requests.         *)
(***************************************************************************)
EXTENDS AgentSession, FiniteSetTheorems, TLAPS

\* A session is told once, what the Search decided or that it never will, and
\* the agent is answered then and not before.
Answered(r) ==
  /\ verdict[r] # "none" => r \in asked
  /\ told[r] # "none" => r \in asked
  /\ told[r] = "none" => answers[r] = <<>>
  /\ told[r] = "ok" => verdict[r] = "ok"
  /\ told[r] = "fail" => verdict[r] # "ok"
  /\ Len(answers[r]) <= 1
  /\ answers[r] = <<"oef_error">> => told[r] = "fail"
  /\ answers[r] \in {<<"agents">>, <<"agents_wide">>} =>
       told[r] = "ok" /\ KindOf(r) \in Searches
  /\ r \in listed => verdict[r] = "ok"

Shape ==
  /\ asked \subseteq 1..Len(made)
  /\ \A r \in Requests : Answered(r)

IInv == TypeOK /\ Shape

MadeType == [by : Sessions, kind : Kinds, model : Models \union {None}]

-------------------------------------------------------------------------------
\* Reading an envelope makes one request more and changes none.
LEMMA ReadsOne ==
  ASSUME IInv, NEW s \in Sessions, NEW kind, NEW model, Reads(s, kind, model)
  PROVE  /\ made' \in Seq(MadeType) /\ Len(made) \in Nat
         /\ Len(made') = Len(made) + 1 /\ Len(made') <= MaxRequests
         /\ \A r \in 1..Len(made) : made'[r] = made[r]
         /\ made'[Next1].by = s /\ made'[Next1].kind = kind
         /\ Next1 \in Requests /\ Next1 = Len(made')
         /\ Next1 \notin asked /\ told[Next1] = "none"
         /\ model \in Models \union {None}
         /\ pool' = pool /\ listening' = listening
         /\ reading' = reading /\ open' = open
         /\ pipelined' \subseteq Sessions
         /\ inHand[s] = 0
<1>1. made \in Seq(MadeType) /\ pipelined \subseteq Sessions
  BY DEF IInv, TypeOK, MadeType
<1> DEFINE e == [by |-> s, kind |-> kind, model |-> model]
<1>2. /\ made' = Append(made, e) /\ Len(made) < MaxRequests
      /\ pool' = pool /\ listening' = listening
      /\ reading' = reading /\ open' = open
      /\ inHand[s] = 0
      /\ [kind |-> kind, model |-> model] \in Envelopes[s]
      /\ pipelined' \subseteq Sessions
  BY <1>1 DEF Reads
<1>3. [kind |-> kind, model |-> model] \in [kind : Kinds, model : Models \union {None}]
  BY <1>2, EnvelopesAssumption
<1>4. kind \in Kinds /\ model \in Models \union {None}
  BY <1>3
<1>5. e \in MadeType
  BY <1>4 DEF MadeType
<1>6. e.by = s /\ e.kind = kind
  OBVIOUS
<1> HIDE DEF e
<1>7. /\ made' \in Seq(MadeType) /\ Len(made) \in Nat
      /\ Len(made') = Len(made) + 1
      /\ \A r \in 1..Len(made) : made'[r] = made[r]
      /\ made'[Len(made) + 1] = e
  BY <1>1, <1>2, <1>5
<1>8. /\ Next1 \in Requests /\ Next1 = Len(made') /\ Len(made') <= MaxRequests
      /\ Next1 \notin 1..Len(made)
  BY <1>2, <1>7, BoundAssumption DEF Next1, Requests
<1>9. Next1 \notin asked /\ told[Next1] = "none"
  BY <1>8 DEF IInv, Shape, Answered
<1> QED BY <1>2, <1>4, <1>6, <1>7, <1>8, <1>9 DEF Next1

\* Requests that are not told and have no answer stay as they are when one more
\* is read.
LEMMA ReadKeepsAnswers ==
  ASSUME IInv, NEW s \in Sessions, NEW kind, NEW model, Reads(s, kind, model),
         asked \subseteq asked',
         verdict' = verdict, told' = told, answers' = answers, listed' = listed
  PROVE  \A r \in Requests : Answered(r)'
<1> SUFFICES ASSUME NEW r \in Requests PROVE Answered(r)'
  OBVIOUS
<1>1. Answered(r) /\ open' = open
  BY ReadsOne DEF IInv, Shape
<1>2. told[r] # "none" => r \in 1..Len(made)
  BY <1>1 DEF Answered, IInv, Shape
<1>3. told[r] # "none" => made'[r] = made[r]
  BY <1>2, ReadsOne
<1> QED BY <1>1, <1>3 DEF Answered, KindOf

\* What all the actions that read have in common.
LEMMA ReadKeepsTypes ==
  ASSUME IInv, NEW s \in Sessions, NEW kind, NEW model, Reads(s, kind, model)
  PROVE  /\ pool' \in Pools /\ listening' \in BOOLEAN
         /\ reading' \subseteq Sessions
         /\ open' \subseteq Sessions /\ pipelined' \subseteq Sessions
         /\ made' \in Seq(MadeType) /\ Len(made') <= MaxRequests
         /\ \A q \in Sessions : inHand[q] # 0 =>
              /\ inHand[q] <= Len(made') /\ inHand[q] # Next1
              /\ made'[inHand[q]].by = q /\ inHand[q] \notin asked
<1>1. \A q \in Sessions : inHand[q] # 0 =>
        inHand[q] \in 1..Len(made) /\ made[inHand[q]].by = q /\ inHand[q] \notin asked
  BY ReadsOne DEF IInv, TypeOK, Requests
<1>2. \A q \in Sessions : inHand[q] # 0 =>
        /\ inHand[q] <= Len(made') /\ inHand[q] # Next1
        /\ made'[inHand[q]].by = q /\ inHand[q] \notin asked
  BY <1>1, ReadsOne DEF Next1
<1> QED BY <1>2, ReadsOne DEF IInv, TypeOK

\* A read that leaves a request in the handler's hand.
LEMMA ReadInHand ==
  ASSUME IInv, NEW s \in Sessions, NEW kind, NEW model, Reads(s, kind, model),
         InHand(s, Next1) \/ UNCHANGED inHand,
         description' \in [Sessions -> Models \union {None}],
         UNCHANGED <<carries, answers, searchVars>>
  PROVE  IInv'
<1>1. Len(made) \in Nat /\ Len(made') = Len(made) + 1
  BY ReadsOne
<1>2. /\ asked' = asked /\ verdict' = verdict /\ told' = told
      /\ listed' = listed /\ answers' = answers /\ carries' = carries
  BY DEF searchVars
<1>3. inHand' \in [Sessions -> 0..MaxRequests]
  BY ReadsOne, BoundAssumption DEF InHand, IInv, TypeOK, Requests
<1>4. \A q \in Sessions : inHand'[q] # 0 =>
        /\ inHand'[q] <= Len(made') /\ made'[inHand'[q]].by = q
        /\ inHand'[q] \notin asked'
  <2> SUFFICES ASSUME NEW q \in Sessions, inHand'[q] # 0
               PROVE  /\ inHand'[q] <= Len(made') /\ made'[inHand'[q]].by = q
                      /\ inHand'[q] \notin asked
    BY <1>2
  <2>1. CASE inHand'[q] = inHand[q]
    BY <2>1, ReadKeepsTypes
  <2>2. CASE inHand'[q] # inHand[q]
    <3>1. q = s /\ inHand'[q] = Next1
      BY <2>2 DEF InHand, IInv, TypeOK
    <3> QED BY <3>1, ReadsOne, <1>1
  <2> QED BY <2>1, <2>2
<1>5. TypeOK'
  BY <1>2, <1>3, <1>4, ReadKeepsTypes DEF IInv, TypeOK, MadeType
<1>6. asked' \subseteq 1..Len(made')
  BY <1>1, <1>2 DEF IInv, Shape
<1>7. \A r \in Requests : Answered(r)'
  BY <1>2, ReadKeepsAnswers
<1> QED BY <1>5, <1>6, <1>7 DEF IInv, Shape

\* A read whose request goes to the Search at once.
LEMMA ReadAndForward ==
  ASSUME IInv, NEW s \in Sessions, NEW kind, NEW model, Reads(s, kind, model),
         NEW m \in Models \union {None}, Forward(Next1, m),
         UNCHANGED <<inHand, description, answers, verdict, told, listed>>
  PROVE  IInv'
<1>1. Len(made) \in Nat /\ Len(made') = Len(made) + 1 /\ Next1 \in Requests
  BY ReadsOne
<1>2. /\ asked' = asked \union {Next1}
      /\ carries' \in [Requests -> Models \union {None}]
  BY <1>1 DEF Forward, Search!Ask, IInv, TypeOK
<1>3. \A q \in Sessions : inHand'[q] # 0 =>
        /\ inHand'[q] <= Len(made') /\ made'[inHand'[q]].by = q
        /\ inHand'[q] \notin asked'
  BY <1>2, ReadKeepsTypes
<1>4. asked' \subseteq Requests /\ listed' \subseteq asked'
  BY <1>1, <1>2 DEF IInv, TypeOK
<1>5. TypeOK'
  BY <1>2, <1>3, <1>4, ReadKeepsTypes DEF IInv, TypeOK, MadeType
<1>6. asked' \subseteq 1..Len(made')
  <2>1. asked \subseteq 1..Len(made) /\ Next1 = Len(made')
    BY ReadsOne DEF IInv, Shape
  <2>2. 1..Len(made) \subseteq 1..Len(made') /\ Len(made') \in 1..Len(made')
    BY <1>1
  <2> QED BY <1>2, <2>1, <2>2
<1>7. \A r \in Requests : Answered(r)'
  BY <1>2, ReadKeepsAnswers
<1> QED BY <1>5, <1>6, <1>7 DEF IInv, Shape

-------------------------------------------------------------------------------
LEMMA Initially == Init => IInv
<1> SUFFICES ASSUME Init PROVE IInv
  OBVIOUS
<1>1. TypeOK
  BY BoundAssumption DEF Init, TypeOK, Search!Init, Requests
<1>2. Shape
  BY DEF Init, Shape, Answered, Search!Init
<1> QED BY <1>1, <1>2 DEF IInv

LEMMA PassDescriptionKeeps ==
  ASSUME IInv, NEW s \in Sessions, PassDescription(s) PROVE IInv'
<1> DEFINE h == inHand[s]
<1>1. /\ h # 0 /\ h \in Requests /\ h <= Len(made) /\ made[h].by = s
      /\ h \notin asked /\ h \in 1..Len(made)
  BY BoundAssumption DEF IInv, TypeOK, PassDescription, Requests
<1>2. PICK m \in Models \union {None} : Forward(h, m)
  BY DEF PassDescription, IInv, TypeOK
<1>3. /\ asked' = asked \union {h}
      /\ carries' \in [Requests -> Models \union {None}]
  BY <1>1, <1>2 DEF Forward, Search!Ask, IInv, TypeOK
<1>4. /\ inHand' = [inHand EXCEPT ![s] = 0]
      /\ pool' = pool /\ listening' = listening /\ reading' = reading
      /\ open' = open /\ made' = made
      /\ description' = description /\ answers' = answers
      /\ pipelined' = pipelined /\ verdict' = verdict /\ told' = told
      /\ listed' = listed
  BY DEF PassDescription, InHand
<1>5. \A q \in Sessions : inHand'[q] # 0 =>
        inHand'[q] <= Len(made') /\ made'[inHand'[q]].by = q /\ inHand'[q] \notin asked'
  <2> SUFFICES ASSUME NEW q \in Sessions, inHand'[q] # 0
               PROVE  /\ inHand[q] = inHand'[q] /\ inHand[q] <= Len(made)
                      /\ made[inHand[q]].by = q /\ inHand[q] \notin asked \union {h}
    BY <1>3, <1>4
  <2>1. q # s /\ inHand'[q] = inHand[q]
    BY <1>4 DEF IInv, TypeOK
  <2>2. inHand[q] <= Len(made) /\ made[inHand[q]].by = q /\ inHand[q] \notin asked
    BY <2>1 DEF IInv, TypeOK
  <2> QED BY <1>1, <2>1, <2>2
<1>6. inHand' \in [Sessions -> 0..MaxRequests]
  BY <1>4, BoundAssumption DEF IInv, TypeOK
<1>7. asked' \subseteq Requests /\ listed' \subseteq asked'
  BY <1>1, <1>3, <1>4 DEF IInv, TypeOK
<1>8. TypeOK'
  BY <1>3, <1>4, <1>5, <1>6, <1>7 DEF IInv, TypeOK
<1>9. Shape'
  BY <1>1, <1>3, <1>4 DEF IInv, Shape, Answered, KindOf
<1> QED BY <1>8, <1>9 DEF IInv

\* The sequence of no element and that of one.
LEMMA NoneOrOne ==
  ASSUME NEW S, NEW e \in S
  PROVE  /\ <<>> \in Seq(S) /\ Len(<<>>) = 0
         /\ <<e>> \in Seq(S) /\ Len(<<e>>) = 1 /\ <<e>>[1] = e
         /\ <<>> # <<e>>
<1>1. <<>> \in Seq(S) /\ Len(<<>>) = 0
  OBVIOUS
<1>2. <<e>> \in Seq(S) /\ Len(<<e>>) = 1 /\ <<e>>[1] = e
  OBVIOUS
<1>3. <<>> # <<e>>
  OBVIOUS
<1> QED BY <1>1, <1>2, <1>3

\* A function changed at one argument.
LEMMA ChangedAt ==
  ASSUME NEW S, NEW T, NEW f \in [S -> T], NEW a \in S, NEW v \in T,
         NEW g, g = [f EXCEPT ![a] = v]
  PROVE  /\ g \in [S -> T] /\ g[a] = v
         /\ \A b \in S : b # a => g[b] = f[b]
OBVIOUS

\* What a continuation sends is nothing or one answer.
LEMMA OneAnswer ==
  ASSUME NEW sent,
         \/ sent = <<>>
         \/ \E a \in Answers : sent = <<a>>
  PROVE  sent \in Seq(Answers) /\ Len(sent) <= 1
<1>1. CASE sent = <<>>
  BY <1>1
<1>2. ASSUME NEW a \in Answers, sent = <<a>> PROVE sent \in Seq(Answers) /\ Len(sent) <= 1
  <2>1. <<a>> \in Seq(Answers) /\ Len(<<a>>) = 1
    BY NoneOrOne
  <2> QED BY <1>2, <2>1
<1> QED BY <1>1, <1>2

LEMMA ContinuationKeepsAll ==
  ASSUME IInv, NEW r \in Requests, Continuation(r) PROVE IInv'
<1> DEFINE failed == told'[r] = "fail"
           sent == IF failed THEN SendError ELSE SendResult(made[r].kind)
<1>1. /\ pool' = pool /\ listening' = listening /\ reading' = reading
      /\ open' = open /\ made' = made
      /\ inHand' = inHand /\ carries' = carries /\ pipelined' = pipelined
      /\ listed' = listed
      /\ answers' = IF made[r].by \in open
                      THEN [answers EXCEPT ![r] = @ \o sent] ELSE answers
      /\ description' =
           IF made[r].kind = "unregister_description" /\ ~failed
             THEN [description EXCEPT ![made[r].by] = None] ELSE description
  BY DEF Continuation
<1>2. /\ told[r] = "none" /\ r \in asked
      /\ asked' = asked /\ verdict' = verdict
      /\ \/ verdict[r] # "none" /\ told' = [told EXCEPT ![r] = verdict[r]]
         \/ verdict[r] = "none" /\ told' = [told EXCEPT ![r] = "fail"]
  BY DEF Continuation, ReportsBack, Search!Tell, Search!GiveUp, IInv, TypeOK,
         Shape, Answered
<1>3. /\ told'[r] \in {"ok", "fail"} /\ (told'[r] = "ok" <=> verdict[r] = "ok")
      /\ told' \in [Requests -> {"none", "ok", "fail"}]
      /\ \A q \in Requests : q # r => told'[q] = told[q]
  <2>1. /\ told \in [Requests -> {"none", "ok", "fail"}]
        /\ verdict[r] \in {"none", "ok", "fail"}
    BY DEF IInv, TypeOK
  <2>2. PICK o \in {"ok", "fail"} : /\ told' = [told EXCEPT ![r] = o]
                                    /\ o = "ok" <=> verdict[r] = "ok"
    <3>1. CASE verdict[r] = "none"
      BY <1>2, <3>1
    <3>2. CASE verdict[r] # "none"
      BY <1>2, <2>1, <3>2
    <3> QED BY <3>1, <3>2
  <2>3. o \in {"none", "ok", "fail"}
    OBVIOUS
  <2>4. /\ told' \in [Requests -> {"none", "ok", "fail"}] /\ told'[r] = o
        /\ \A q \in Requests : q # r => told'[q] = told[q]
    BY <2>1, <2>2, <2>3, ChangedAt
  <2> QED BY <2>2, <2>4
<1>4. answers[r] = <<>> /\ answers \in [Requests -> Seq(Answers)]
  BY <1>2 DEF IInv, TypeOK, Shape, Answered
<1>5. /\ sent \in Seq(Answers) /\ Len(sent) <= 1
      /\ sent = <<"oef_error">> => told'[r] = "fail"
      /\ sent \in {<<"agents">>, <<"agents_wide">>} =>
           told'[r] = "ok" /\ made[r].kind \in Searches
  <2> DEFINE kind == made[r].kind
             outcome == told'[r]
  <2>1. /\ outcome = "fail" => sent = <<"oef_error">>
        /\ outcome = "ok" /\ kind \notin Searches => sent = <<>>
        /\ outcome = "ok" /\ kind \in Searches =>
             sent = <<"agents">> \/ sent = <<"agents_wide">>
    BY DEF SendError, SendResult, Searches
  <2>2. "agents" \in Answers /\ "agents_wide" \in Answers /\ "oef_error" \in Answers
    BY DEF Answers
  <2>3. outcome \in {"ok", "fail"}
    BY <1>3
  <2> HIDE DEF sent, outcome, kind
  <2>4. sent \in Seq(Answers) /\ Len(sent) <= 1
    <3>1. sent = <<>> \/ \E a \in Answers : sent = <<a>>
      BY <2>1, <2>2, <2>3
    <3> QED BY <3>1, OneAnswer
  <2>5. /\ <<>> # <<"oef_error">> /\ <<>> # <<"agents">> /\ <<>> # <<"agents_wide">>
        /\ <<"agents">> # <<"oef_error">> /\ <<"agents_wide">> # <<"oef_error">>
    OBVIOUS
  <2>6. /\ sent = <<"oef_error">> => outcome = "fail"
        /\ sent \in {<<"agents">>, <<"agents_wide">>} =>
             outcome = "ok" /\ kind \in Searches
    BY <2>1, <2>3, <2>5
  <2> QED BY <2>4, <2>6 DEF outcome, kind
<1> HIDE DEF sent
<1>6. answers[r] \o sent = sent
  BY <1>4, <1>5
<1>7. /\ answers' \in [Requests -> Seq(Answers)]
      /\ answers'[r] = IF made[r].by \in open THEN sent ELSE <<>>
      /\ \A q \in Requests : q # r => answers'[q] = answers[q]
  BY <1>1, <1>4, <1>5, <1>6
<1>8. TypeOK'
  <2>2. description' \in [Sessions -> Models \union {None}]
    BY <1>1 DEF IInv, TypeOK
  <2> QED BY <1>1, <1>2, <1>3, <1>7, <2>2 DEF IInv, TypeOK
<1>9. ASSUME NEW q \in Requests PROVE Answered(q)'
  <2>1. CASE q # r
    <3>1. told'[q] = told[q] /\ answers'[q] = answers[q] /\ Answered(q)
      BY <1>3, <1>7, <2>1 DEF IInv, Shape
    <3> QED BY <3>1, <1>1, <1>2 DEF Answered, KindOf
  <2>2. CASE q = r
    <3>1. Len(answers'[r]) <= 1
      BY <1>5, <1>7
    <3>2. answers'[r] = <<"oef_error">> => told'[r] = "fail"
      <4>1. <<>> # <<"oef_error">>
        OBVIOUS
      <4> QED BY <1>5, <1>7, <4>1
    <3>3. answers'[r] \in {<<"agents">>, <<"agents_wide">>} =>
            told'[r] = "ok" /\ made[r].kind \in Searches
      <4>1. <<>> # <<"agents">> /\ <<>> # <<"agents_wide">>
        OBVIOUS
      <4> QED BY <1>5, <1>7, <4>1
    <3>4. r \in listed => verdict[r] = "ok"
      BY DEF IInv, Shape, Answered
    <3> QED BY <1>1, <1>2, <1>3, <2>2, <3>1, <3>2, <3>3, <3>4 DEF Answered, KindOf
  <2> QED BY <2>1, <2>2
<1>10. asked' \subseteq 1..Len(made')
  BY <1>1, <1>2 DEF IInv, Shape
<1> QED BY <1>8, <1>9, <1>10 DEF IInv, Shape

LEMMA DecideKeeps ==
  ASSUME IInv, NEW r \in Requests, SearchDecides(r) PROVE IInv'
<1>1. /\ pool' = pool /\ listening' = listening /\ reading' = reading
      /\ open' = open /\ made' = made
      /\ inHand' = inHand /\ carries' = carries /\ pipelined' = pipelined
      /\ description' = description /\ answers' = answers
      /\ listed' = IF verdict'[r] = "ok" THEN Lists(r) ELSE listed
  BY DEF SearchDecides
<1>2. /\ r \in asked /\ told[r] = "none" /\ verdict[r] = "none"
      /\ asked' = asked /\ told' = told
  BY DEF SearchDecides, Search!Decide
<1>3. PICK outcome \in {"ok", "fail"} : verdict' = [verdict EXCEPT ![r] = outcome]
  BY DEF SearchDecides, Search!Decide, Search!Outcomes
<1>4. listed' \subseteq asked'
  BY <1>1, <1>2 DEF Lists, IInv, TypeOK
<1>5. verdict' \in [Requests -> {"none", "ok", "fail"}]
  BY <1>3 DEF IInv, TypeOK
<1>6. TypeOK'
  BY <1>1, <1>2, <1>4, <1>5 DEF IInv, TypeOK
<1>7. ASSUME NEW q \in Requests PROVE Answered(q)'
  <2>1. Answered(q) /\ (q # r => verdict'[q] = verdict[q])
    BY <1>3 DEF IInv, Shape, TypeOK
  <2>2. q \in listed' => verdict'[q] = "ok"
    BY <1>1, <1>2, <2>1 DEF Lists, Answered
  <2> QED BY <1>1, <1>2, <2>1, <2>2 DEF Answered, KindOf
<1>8. asked' \subseteq 1..Len(made')
  BY <1>1, <1>2 DEF IInv, Shape
<1> QED BY <1>6, <1>7, <1>8 DEF IInv, Shape

LEMMA Inductive == IInv /\ [Next]_vars => IInv'
<1> SUFFICES ASSUME IInv, [Next]_vars PROVE IInv'
  OBVIOUS
<1>1. ASSUME NEW s \in Sessions, NEW m \in Models, RegisterDescription(s, m)
      PROVE  IInv'
  <2>1. description' \in [Sessions -> Models \union {None}]
    BY <1>1 DEF RegisterDescription, IInv, TypeOK
  <2> QED BY <1>1, <2>1, ReadInHand DEF RegisterDescription
<1>2. ASSUME NEW s \in Sessions, UnregisterDescription(s) PROVE IInv'
  <2>1. description' \in [Sessions -> Models \union {None}]
    BY <1>2 DEF UnregisterDescription, IInv, TypeOK
  <2>2. InHand(s, Next1) \/ UNCHANGED inHand
    BY <1>2 DEF UnregisterDescription
  <2> QED BY <1>2, <2>1, <2>2, ReadInHand DEF UnregisterDescription
<1>3. ASSUME NEW s \in Sessions, NEW m \in Models, NEW kind \in Kinds,
             PassService(s, kind, m)
      PROVE  IInv'
  BY <1>3, ReadAndForward DEF PassService
<1>4. ASSUME NEW s \in Sessions, NEW kind \in Kinds, PassSearch(s, kind)
      PROVE  IInv'
  BY <1>4, ReadAndForward DEF PassSearch
<1>5. ASSUME NEW s \in Sessions, Unprocessable(s) PROVE IInv'
  <2>1. description' \in [Sessions -> Models \union {None}] /\ UNCHANGED inHand
    BY <1>5 DEF Unprocessable, IInv, TypeOK
  <2> QED BY <1>5, <2>1, ReadInHand DEF Unprocessable
<1>6. ASSUME NEW s \in Sessions, ReadFails(s) PROVE IInv'
  BY <1>6 DEF ReadFails, searchVars, IInv, TypeOK, Shape, Answered, KindOf
<1>7. ASSUME NEW s \in Sessions, AgentGoes(s) PROVE IInv'
  BY <1>7 DEF AgentGoes, searchVars, IInv, TypeOK, Shape, Answered, KindOf
<1>8. ASSUME UNCHANGED vars PROVE IInv'
  BY <1>8 DEF vars, searchVars, IInv, TypeOK, Shape, Answered, KindOf
<1>9. CASE LoopEnds
  BY <1>9 DEF LoopEnds, searchVars, IInv, TypeOK, Shape, Answered, KindOf
<1>10. CASE Next
  <2>1. ASSUME NEW s \in Sessions,
               \/ Process(s) \/ PassDescription(s) \/ ReadFails(s) \/ AgentGoes(s)
        PROVE  IInv'
    BY <1>1, <1>2, <1>3, <1>4, <1>5, <1>6, <1>7, <2>1, PassDescriptionKeeps
       DEF Process
  <2>2. ASSUME NEW r \in Requests, Continuation(r) \/ SearchDecides(r)
        PROVE  IInv'
    BY <2>2, ContinuationKeepsAll, DecideKeeps
  <2>3. CASE Idle
    BY <1>8, <2>3 DEF Idle
  <2> QED BY <1>9, <1>10, <2>1, <2>2, <2>3 DEF Next
<1> QED BY <1>8, <1>10

LEMMA Always == Spec => []IInv
BY Initially, Inductive, PTL DEF Spec

\* Every variable keeps its type, and a request a handler is in the middle of is
\* its session's own and has not been passed on (agent_session.cpp:27-63).
THEOREM TypeCorrect == Spec => []TypeOK
BY Always, PTL DEF IInv

\* What an agent hears stays true: an error is of what is not carried out and
\* not listed, a result of a search that was, and neither comes twice, however
\* requests, failed writes and answers interleave (agent_session.cpp:35-43,
\* 108-127).
THEOREM AnswersTellTheTruth == Spec => []AnswersAreTrue
<1>1. IInv => AnswersAreTrue
  <2> SUFFICES ASSUME IInv, NEW r \in asked
               PROVE  /\ Len(answers[r]) <= 1
                      /\ answers[r] = <<"oef_error">> =>
                           verdict[r] # "ok" /\ r \notin listed
                      /\ answers[r] \in {<<"agents">>, <<"agents_wide">>} =>
                           verdict[r] = "ok" /\ KindOf(r) \in Searches
    BY DEF AnswersAreTrue
  <2>1. Answered(r)
    BY DEF IInv, Shape, TypeOK
  <2> QED BY <2>1 DEF Answered
<1> QED BY <1>1, Always, PTL
-------------------------------------------------------------------------------
(* What the session remembers of its agent's description *)

\* Request q is the last, up to r, with which session s was given a description.
IsLast(s, r, q) ==
  /\ q \in Descriptions(s)
  /\ q <= r
  /\ \A p \in Descriptions(s) : p <= r => p <= q

\* A description that is there is the last one given.
Remembered ==
  \A s \in Sessions : description[s] # None =>
    \E q \in Descriptions(s) :
      IsLast(s, Len(made), q) /\ description[s] = made[q].model

Describing == {"register_description", "unregister_description"}

\* The cases in which nothing empties the description between the two steps of
\* a handler.
Undisturbed(s) == pool = 1 \/ s \notin pipelined

\* The request in a handler's hand is the last of its session, and what it is to
\* pass on is there.
InHandIsLast ==
  \A s \in Sessions : inHand[s] # 0 =>
    /\ KindOf(inHand[s]) \in Describing
    /\ \A q \in Own(s) : q <= inHand[s]
    /\ Undisturbed(s) => description[s] # None

\* An agent that waits has one request at the Search, and none while another is
\* in its session's hand.
WaitsForOne ==
  \A s \in Sessions \ pipelined :
    /\ \A q, r \in Outstanding(s) : q = r
    /\ inHand[s] # 0 => Outstanding(s) = {}

\* What was passed on is the last description there was.
LastIsCarried ==
  \A s \in Sessions : \A r \in Own(s) \intersect asked :
    KindOf(r) \in Describing /\ Undisturbed(s) =>
      \E q \in Descriptions(s) : IsLast(s, r, q) /\ carries[r] = made[q].model

OneModel(s) ==
  \A p, q \in Descriptions(s) : made[p].model = made[q].model

\* If an agent waits and has one model, its session is without a description
\* only while the Search lists none: the registration the Search is asked for is
\* remembered, and what it has removed is not listed when the session hears it.
GoneFromBoth ==
  \A s \in Sessions \ pipelined : OneModel(s) =>
    /\ description[s] = None => listed \intersect Descriptions(s) = {}
    /\ \A r \in Outstanding(s) :
         /\ KindOf(r) = "register_description" => description[s] # None
         /\ KindOf(r) = "unregister_description" /\ verdict[r] = "ok" =>
              listed \intersect Descriptions(s) = {}

Memory == /\ Remembered /\ InHandIsLast /\ WaitsForOne /\ LastIsCarried
          /\ GoneFromBoth

-------------------------------------------------------------------------------
(* Reading and memory *)

\* A request more, of one session; the rest is as it was.
LEMMA ReadGrows ==
  ASSUME IInv, NEW s \in Sessions, NEW kind, NEW model, Reads(s, kind, model)
  PROVE  /\ Len(made') = Next1 /\ Next1 = Len(made) + 1 /\ Len(made) \in Nat
         /\ \A q \in 1..Len(made) : made'[q] = made[q]
         /\ \A t \in Sessions : \A q :
              /\ q \in Own(t) => q \in 1..Len(made) /\ q < Next1
              /\ q \in Own(t)' <=> q \in Own(t) \/ (t = s /\ q = Next1)
              /\ q \in Descriptions(t)' <=>
                   \/ q \in Descriptions(t)
                   \/ t = s /\ q = Next1 /\ kind = "register_description"
         /\ made'[Next1].kind = kind /\ made'[Next1].model = model
<1>1. /\ made \in Seq(MadeType) /\ made' \in Seq(MadeType) /\ Len(made) \in Nat
      /\ Len(made') = Len(made) + 1 /\ Next1 = Len(made')
      /\ \A q \in 1..Len(made) : made'[q] = made[q]
      /\ made'[Next1].by = s /\ made'[Next1].kind = kind
  BY ReadsOne DEF IInv, TypeOK, MadeType
<1>2. DOMAIN made = 1..Len(made) /\ DOMAIN made' = 1..Len(made')
  BY <1>1
<1>3. \A q : q \in DOMAIN made' <=> q \in DOMAIN made \/ q = Next1
  BY <1>1, <1>2
<1>4. \A q \in DOMAIN made : q < Next1 /\ made'[q] = made[q]
  BY <1>1, <1>2
<1>5. made' = Append(made, [by |-> s, kind |-> kind, model |-> model])
  BY DEF Reads
<1>6. made'[Next1].model = model
  BY <1>1, <1>5
<1>7. \A t \in Sessions : \A q : q \in Own(t)' <=> q \in Own(t) \/ (t = s /\ q = Next1)
  BY <1>1, <1>3, <1>4 DEF Own
<1>8. \A t \in Sessions : \A q :
        q \in Descriptions(t)' <=>
          \/ q \in Descriptions(t)
          \/ t = s /\ q = Next1 /\ kind = "register_description"
  <2> TAKE t \in Sessions
  <2> TAKE q
  <2>1. q \in Descriptions(t)' <=> q \in Own(t)' /\ made'[q].kind = "register_description"
    BY DEF Descriptions, KindOf
  <2>2. q \in Descriptions(t) <=> q \in Own(t) /\ made[q].kind = "register_description"
    BY DEF Descriptions, KindOf
  <2>3. q \in Own(t) => made'[q] = made[q]
    BY <1>4 DEF Own
  <2> QED BY <1>1, <1>7, <2>1, <2>2, <2>3
<1> QED BY <1>1, <1>2, <1>4, <1>6, <1>7, <1>8 DEF Own

\* Which request was last, up to one that has been read, does not change, and up
\* to the newest only with a description.
LEMMA LastStays ==
  ASSUME IInv, NEW s \in Sessions, NEW kind, NEW model, Reads(s, kind, model),
         NEW t \in Sessions, NEW r \in 1..Len(made), NEW q \in Descriptions(t),
         IsLast(t, r, q)
  PROVE  /\ q \in Descriptions(t)' /\ IsLast(t, r, q)' /\ made'[q] = made[q]
         /\ r = Len(made) /\ ~(t = s /\ kind = "register_description") =>
              IsLast(t, Len(made), q)'
<1>1. /\ Len(made) \in Nat /\ Next1 = Len(made) + 1 /\ Len(made') = Next1
      /\ \A p : p \in Descriptions(t)' <=>
                  \/ p \in Descriptions(t)
                  \/ t = s /\ p = Next1 /\ kind = "register_description"
  BY ReadGrows
<1>2. \A p \in Descriptions(t) : p \in 1..Len(made)
  BY ReadGrows DEF Descriptions
<1>3. q \in Own(t) /\ q \in 1..Len(made) /\ made'[q] = made[q]
  BY <1>2, ReadGrows DEF Descriptions
<1>4. IsLast(t, r, q)'
  BY <1>1 DEF IsLast
<1>5. ASSUME r = Len(made), ~(t = s /\ kind = "register_description")
      PROVE  IsLast(t, Len(made), q)'
  <2>1. \A p : p \in Descriptions(t)' <=> p \in Descriptions(t)
    BY <1>1, <1>5
  <2>2. \A p \in Descriptions(t) : p <= q
    BY <1>2, <1>5 DEF IsLast
  <2>3. q \in Descriptions(t)' /\ q <= Len(made')
    BY <1>1, <1>3, <2>1
  <2>4. \A p \in Descriptions(t)' : p <= q
    BY <2>1, <2>2
  <2> QED BY <2>3, <2>4 DEF IsLast
<1> QED BY <1>1, <1>3, <1>4, <1>5

LEMMA ReadRemembers ==
  ASSUME IInv, Memory, NEW s \in Sessions, NEW kind, NEW model,
         Reads(s, kind, model),
         kind = "register_description" => model # None,
         description' = IF kind = "register_description"
                          THEN [description EXCEPT ![s] = model] ELSE description
  PROVE  Remembered'
<1> SUFFICES ASSUME NEW t \in Sessions, description'[t] # None
             PROVE  \E q \in Descriptions(t)' :
                      IsLast(t, Len(made), q)' /\ description'[t] = made'[q].model
  BY DEF Remembered
<1>1. CASE t = s /\ kind = "register_description"
  <2>1. description'[s] = model
    BY <1>1 DEF IInv, TypeOK
  <2> PICK n : n = Next1
    OBVIOUS
  <2>2. /\ n \in Descriptions(s)' /\ made'[n].model = model
        /\ Len(made') = n /\ n \in Nat
    BY <1>1, ReadGrows
  <2>3. \A p \in Descriptions(s)' : p <= Len(made') => p <= n
    BY <2>2
  <2>4. IsLast(s, Len(made), n)'
    BY <2>2, <2>3 DEF IsLast
  <2> QED BY <1>1, <2>1, <2>2, <2>4
<1>2. CASE ~(t = s /\ kind = "register_description")
  <2>1. description'[t] = description[t]
    BY <1>2 DEF IInv, TypeOK
  <2>2. PICK q \in Descriptions(t) :
          IsLast(t, Len(made), q) /\ description[t] = made[q].model
    BY <2>1 DEF Memory, Remembered
  <2>3. Len(made) \in 1..Len(made)
    BY <2>2, ReadGrows DEF Descriptions
  <2> QED BY <1>2, <2>1, <2>2, <2>3, LastStays
<1> QED BY <1>1, <1>2

\* What was carried before a read still is.
LEMMA ReadCarries ==
  ASSUME IInv, Memory, NEW s \in Sessions, NEW kind, NEW model,
         Reads(s, kind, model),
         NEW t \in Sessions, NEW r \in Own(t) \intersect asked,
         carries'[r] = carries[r],
         KindOf(r)' \in Describing, Undisturbed(t)'
  PROVE  \E q \in Descriptions(t)' : IsLast(t, r, q)' /\ carries'[r] = made'[q].model
<1>1. r \in 1..Len(made) /\ made'[r] = made[r]
  BY ReadGrows
<1>2. Undisturbed(t)
  BY DEF Undisturbed, Reads
<1>3. KindOf(r) \in Describing
  BY <1>1 DEF KindOf
<1>4. PICK q \in Descriptions(t) : IsLast(t, r, q) /\ carries[r] = made[q].model
  BY <1>2, <1>3 DEF Memory, LastIsCarried
<1> QED BY <1>1, <1>4, LastStays

\* A session reads only between requests, and takes one in hand or none.
LEMMA ReadWaits ==
  ASSUME IInv, Memory, NEW s \in Sessions, NEW kind, NEW model,
         Reads(s, kind, model), told' = told, asked' \in {asked, asked \union {Next1}},
         UNCHANGED inHand \/ (InHand(s, Next1) /\ asked' = asked)
  PROVE  /\ WaitsForOne'
         /\ \A t \in Sessions : \A q : q \in Outstanding(t)' <=>
              q \in Outstanding(t) \/ (t = s /\ q = Next1 /\ asked' # asked)
         /\ \A t \in Sessions \ pipelined' : t \notin pipelined
         /\ s \notin pipelined' => Outstanding(s) = {}
<1>1. \A q \in asked : q \in 1..Len(made) /\ q # Next1 /\ made'[q] = made[q]
  BY ReadGrows DEF IInv, Shape
<1>2. Next1 \notin asked /\ told[Next1] = "none" /\ made'[Next1].by = s
  BY ReadsOne
<1>3. \A t \in Sessions : \A q : q \in Outstanding(t)' <=>
        q \in Outstanding(t) \/ (t = s /\ q = Next1 /\ asked' # asked)
  BY <1>1, <1>2 DEF Outstanding
<1>4. \A t \in Sessions \ pipelined' : t \notin pipelined
  BY DEF Reads
<1>5. s \notin pipelined' => Outstanding(s) = {}
  BY DEF Reads
<1>6. \A t \in Sessions : t # s => inHand'[t] = inHand[t]
  BY DEF InHand, IInv, TypeOK
<1>7. inHand[s] = 0 /\ (inHand'[s] # 0 => asked' = asked)
  BY DEF Reads
<1>8. WaitsForOne'
  <2> SUFFICES ASSUME NEW t \in Sessions, t \notin pipelined'
               PROVE  /\ \A q, r \in Outstanding(t)' : q = r
                      /\ inHand'[t] # 0 => Outstanding(t)' = {}
    BY DEF WaitsForOne
  <2>1. CASE t = s
    BY <1>3, <1>5, <1>7, <2>1
  <2>2. CASE t # s
    <3>1. /\ \A q, r \in Outstanding(t) : q = r
          /\ inHand[t] # 0 => Outstanding(t) = {}
      BY <1>4 DEF Memory, WaitsForOne
    <3> QED BY <1>3, <1>6, <2>2, <3>1
  <2> QED BY <2>1, <2>2
<1> QED BY <1>3, <1>4, <1>5, <1>8

\* A read does not change what is listed, and if it is of a description that is
\* remembered.
LEMMA ReadAgrees ==
  ASSUME IInv, Memory, NEW s \in Sessions, NEW kind, NEW model,
         Reads(s, kind, model), UNCHANGED <<told, verdict, listed>>,
         asked' \in {asked, asked \union {Next1}},
         UNCHANGED inHand \/ (InHand(s, Next1) /\ asked' = asked),
         kind \in Describing => asked' = asked,
         kind = "register_description" => model # None,
         description' = IF kind = "register_description"
                          THEN [description EXCEPT ![s] = model] ELSE description
  PROVE  GoneFromBoth'
<1> SUFFICES ASSUME NEW t \in Sessions, t \notin pipelined', OneModel(t)'
             PROVE  /\ description'[t] = None => listed \intersect Descriptions(t)' = {}
                    /\ \A r \in Outstanding(t)' :
                         /\ KindOf(r)' = "register_description" => description'[t] # None
                         /\ KindOf(r)' = "unregister_description" /\ verdict[r] = "ok" =>
                              listed \intersect Descriptions(t)' = {}
  BY DEF GoneFromBoth
<1>1. /\ \A q : q \in Outstanding(t)' <=>
              q \in Outstanding(t) \/ (t = s /\ q = Next1 /\ asked' # asked)
      /\ t \notin pipelined
      /\ t = s => Outstanding(t) = {}
  BY ReadWaits
<1>2. \A p \in Descriptions(t) : made'[p] = made[p] /\ p \in Descriptions(t)'
  BY ReadGrows DEF Descriptions
<1>3. OneModel(t)
  BY <1>2 DEF OneModel
<1>4. listed \intersect Descriptions(t)' = listed \intersect Descriptions(t)
  <2>1. Next1 \notin listed
    BY ReadsOne DEF IInv, TypeOK
  <2> QED BY <2>1, ReadGrows
<1>5. /\ description[t] = None => listed \intersect Descriptions(t) = {}
      /\ \A r \in Outstanding(t) :
           /\ KindOf(r) = "register_description" => description[t] # None
           /\ KindOf(r) = "unregister_description" /\ verdict[r] = "ok" =>
                listed \intersect Descriptions(t) = {}
  BY <1>1, <1>3 DEF Memory, GoneFromBoth
<1>6. description'[t] = None => description[t] = None
  BY DEF IInv, TypeOK
<1>7. CASE t = s
  <2>1. \A r \in Outstanding(t)' : r = Next1 /\ kind \notin Describing
    BY <1>1, <1>7
  <2>2. made'[Next1].kind = kind
    BY ReadGrows
  <2>3. \A r \in Outstanding(t)' : KindOf(r)' \notin Describing
    BY <2>1, <2>2 DEF KindOf
  <2> QED BY <1>4, <1>5, <1>6, <2>3 DEF Describing
<1>8. CASE t # s
  <2>1. description'[t] = description[t]
    BY <1>8 DEF IInv, TypeOK
  <2>2. \A r \in Outstanding(t) : KindOf(r)' = KindOf(r)
    <3>1. \A r \in Outstanding(t) : r \in Own(t)
      BY DEF Outstanding, Own, IInv, Shape, TypeOK
    <3> QED BY <3>1, ReadGrows DEF KindOf
  <2> QED BY <1>1, <1>4, <1>5, <1>8, <2>1, <2>2
<1> QED BY <1>7, <1>8

\* All the actions that read.
LEMMA ReadMemory ==
  ASSUME IInv, Memory, NEW s \in Sessions, NEW kind, NEW model,
         Reads(s, kind, model), UNCHANGED <<told, verdict, listed>>,
         kind = "register_description" => model # None,
         description' = IF kind = "register_description"
                          THEN [description EXCEPT ![s] = model] ELSE description,
         \/ /\ kind \in Describing
            /\ description'[s] # None
            /\ InHand(s, Next1)
            /\ UNCHANGED <<asked, carries>>
         \/ /\ kind # "register_description"
            /\ UNCHANGED <<inHand, asked, carries>>
         \/ /\ kind \notin Describing
            /\ \E m \in Models \union {None} : Forward(Next1, m)
            /\ UNCHANGED inHand
  PROVE  Memory'
<1>1. Next1 \in Requests /\ Next1 \notin asked
  BY ReadsOne
<1>2. /\ asked' \in {asked, asked \union {Next1}}
      /\ kind \in Describing => asked' = asked
      /\ \A r \in Requests : r # Next1 => carries'[r] = carries[r]
  BY <1>1 DEF Forward, Search!Ask, IInv, TypeOK
<1>3. UNCHANGED inHand \/ (InHand(s, Next1) /\ asked' = asked)
  OBVIOUS
<1>4. Remembered'
  BY ReadRemembers
<1>5. WaitsForOne'
  BY <1>2, <1>3, ReadWaits
<1>6. GoneFromBoth'
  BY <1>2, <1>3, ReadAgrees
<1>7. InHandIsLast'
  <2> SUFFICES ASSUME NEW t \in Sessions, inHand'[t] # 0
               PROVE  /\ made'[inHand'[t]].kind \in Describing
                      /\ \A q \in Own(t)' : q <= inHand'[t]
                      /\ Undisturbed(t)' => description'[t] # None
    BY DEF InHandIsLast, KindOf
  <2>1. CASE t = s
    <3>1. inHand[s] = 0
      BY DEF Reads
    <3>2. InHand(s, Next1) /\ kind \in Describing /\ description'[s] # None
      BY <2>1, <3>1
    <3>3. inHand'[s] = Next1
      BY <3>2 DEF InHand, IInv, TypeOK
    <3>4. Next1 \in Nat /\ made'[Next1].kind = kind
      BY ReadGrows
    <3>5. \A q \in Own(s)' : q <= Next1
      BY <3>4, ReadGrows
    <3> QED BY <2>1, <3>2, <3>3, <3>4, <3>5 DEF KindOf
  <2>2. CASE t # s
    <3>1. inHand'[t] = inHand[t] /\ description'[t] = description[t]
      BY <2>2 DEF InHand, IInv, TypeOK
    <3>2. /\ KindOf(inHand[t]) \in Describing
          /\ \A q \in Own(t) : q <= inHand[t]
          /\ Undisturbed(t) => description[t] # None
      BY <3>1 DEF Memory, InHandIsLast
    <3>3. Undisturbed(t)' => Undisturbed(t)
      BY DEF Undisturbed, Reads
    <3>4. inHand[t] \in 1..Len(made) /\ made'[inHand[t]] = made[inHand[t]]
      BY <3>1, ReadGrows DEF IInv, TypeOK, Requests
    <3>5. \A q \in Own(t)' : q \in Own(t)
      BY <2>2, ReadGrows
    <3> QED BY <3>1, <3>2, <3>3, <3>4, <3>5 DEF KindOf
  <2> QED BY <2>1, <2>2
<1>8. LastIsCarried'
  <2> SUFFICES ASSUME NEW t \in Sessions, NEW r \in Own(t)', r \in asked',
                      KindOf(r)' \in Describing, Undisturbed(t)'
               PROVE  \E q \in Descriptions(t)' :
                        IsLast(t, r, q)' /\ carries'[r] = made'[q].model
    BY DEF LastIsCarried
  <2>1. r # Next1
    <3>1. made'[Next1].kind = kind
      BY ReadGrows
    <3> QED BY <1>1, <1>2, <3>1 DEF KindOf
  <2>2. r \in Own(t) /\ r \in asked /\ r \in Requests
    BY <1>2, <2>1, ReadGrows DEF IInv, TypeOK
  <2> QED BY <1>2, <2>1, <2>2, ReadCarries
<1> QED BY <1>4, <1>5, <1>6, <1>7, <1>8 DEF Memory

-------------------------------------------------------------------------------
(* The steps that do not read *)

\* On one thread nothing runs beside a handler.
LEMMA FreeMeansNoneInHand ==
  ASSUME TypeOK, pool = 1, FreeThread
  PROVE  \A s \in Sessions : inHand[s] = 0
<1> DEFINE H == {s \in Sessions : inHand[s] # 0}
           Q == {q \in 1..Len(made) : made[q].by \in H}
           owner == [q \in Q |-> made[q].by]
<1>1. Len(made) \in Nat
  BY DEF TypeOK
<1>2. \A s \in H : inHand[s] \in Q /\ owner[inHand[s]] = s
  BY <1>1 DEF TypeOK
<1>3. IsFiniteSet(Q)
  <2>1. IsFiniteSet(1..Len(made))
    BY <1>1, FS_Interval
  <2> QED BY <2>1, FS_Subset
<1>4. owner \in Surjection(Q, H)
  <2>1. owner \in [Q -> H]
    OBVIOUS
  <2> QED BY <1>2, <2>1 DEF Surjection
<1>5. IsFiniteSet(H)
  BY <1>3, <1>4, FS_Surjection
<1>6. Cardinality(H) \in Nat /\ Cardinality(H) < 1
  BY <1>5, FS_CardinalityType DEF FreeThread
<1>7. Cardinality(H) = 0
  BY <1>6
<1>8. H = {}
  BY <1>5, <1>7, FS_EmptySet
<1> QED BY <1>8

\* What is made of the requests read so far stays as it is when none is read.
LEMMA SameRequests ==
  ASSUME made' = made, NEW s
  PROVE  /\ Own(s)' = Own(s) /\ Descriptions(s)' = Descriptions(s)
         /\ \A r, q : IsLast(s, r, q)' <=> IsLast(s, r, q)
         /\ \A r : KindOf(r)' = KindOf(r)
         /\ OneModel(s)' <=> OneModel(s)
BY DEF Own, Descriptions, IsLast, KindOf, OneModel

LEMMA PassDescriptionRemembers ==
  ASSUME IInv, Memory, NEW s \in Sessions, PassDescription(s) PROVE Memory'
<1> DEFINE h == inHand[s]
<1>1. /\ h # 0 /\ h \in Requests /\ h \in 1..Len(made) /\ made[h].by = s
      /\ h \notin asked /\ h \in Own(s) /\ told[h] = "none"
  <2>1. made \in Seq(MadeType)
    BY DEF IInv, TypeOK, MadeType
  <2>2. DOMAIN made = 1..Len(made) /\ Len(made) \in Nat /\ Len(made) <= MaxRequests
    BY <2>1 DEF IInv, TypeOK
  <2>3. h # 0 /\ h \in 0..MaxRequests /\ h <= Len(made) /\ made[h].by = s /\ h \notin asked
    BY DEF IInv, TypeOK, PassDescription
  <2>4. h \in Requests /\ h \in 1..Len(made) /\ h \in Own(s)
    BY <2>2, <2>3, BoundAssumption DEF Requests, Own
  <2>5. told[h] = "none"
    BY <2>3, <2>4 DEF IInv, Shape, Answered
  <2> QED BY <2>3, <2>4, <2>5
<1>2. PICK m : /\ m \in IF description[s] # None THEN {description[s]}
                                                 ELSE Models \union {None}
               /\ Forward(h, m)
  BY DEF PassDescription
<1>3. m \in Models \union {None} /\ (description[s] # None => m = description[s])
  BY <1>2 DEF IInv, TypeOK
<1>4. /\ asked' = asked \union {h} /\ carries'[h] = m
      /\ \A r \in Requests : r # h => carries'[r] = carries[r]
  BY <1>1, <1>2, <1>3 DEF Forward, Search!Ask, IInv, TypeOK
<1>5. /\ pool' = pool /\ made' = made /\ description' = description
      /\ pipelined' = pipelined /\ verdict' = verdict /\ told' = told
      /\ listed' = listed
      /\ inHand'[s] = 0 /\ \A t \in Sessions : t # s => inHand'[t] = inHand[t]
  BY DEF PassDescription, InHand, IInv, TypeOK
<1>6. /\ KindOf(h) \in Describing
      /\ \A q \in Own(s) : q <= h
      /\ Undisturbed(s) => description[s] # None
  BY <1>1 DEF Memory, InHandIsLast
<1>7. \A t \in Sessions : \A q : q \in Outstanding(t)' <=>
        q \in Outstanding(t) \/ (t = s /\ q = h)
  BY <1>1, <1>4, <1>5 DEF Outstanding
<1> HIDE DEF h
<1>8. Remembered'
  BY <1>5, SameRequests DEF Memory, Remembered
<1>9. InHandIsLast'
  <2> SUFFICES ASSUME NEW t \in Sessions, inHand'[t] # 0
               PROVE  /\ KindOf(inHand[t]) \in Describing
                      /\ \A q \in Own(t) : q <= inHand[t]
                      /\ Undisturbed(t) => description[t] # None
                      /\ inHand'[t] = inHand[t]
    BY <1>5 DEF InHandIsLast, Undisturbed, KindOf, Own
  <2>1. t # s /\ inHand'[t] = inHand[t]
    BY <1>5
  <2> QED BY <2>1 DEF Memory, InHandIsLast
<1>10. WaitsForOne'
  <2> SUFFICES ASSUME NEW t \in Sessions, t \notin pipelined
               PROVE  /\ \A q, r \in Outstanding(t)' : q = r
                      /\ inHand'[t] # 0 => Outstanding(t)' = {}
    BY <1>5 DEF WaitsForOne
  <2>1. /\ \A q, r \in Outstanding(t) : q = r
        /\ inHand[t] # 0 => Outstanding(t) = {}
    BY DEF Memory, WaitsForOne
  <2>2. CASE t = s
    <3>1. inHand[s] # 0
      BY <1>1 DEF h
    <3> QED BY <1>5, <1>7, <2>1, <2>2, <3>1
  <2>3. CASE t # s
    BY <1>5, <1>7, <2>1, <2>3
  <2> QED BY <2>2, <2>3
<1>11. LastIsCarried'
  <2> SUFFICES ASSUME NEW t \in Sessions, NEW r \in Own(t), r \in asked',
                      KindOf(r) \in Describing, Undisturbed(t)
               PROVE  \E q \in Descriptions(t) :
                        IsLast(t, r, q) /\ carries'[r] = made[q].model
    BY <1>5, SameRequests DEF LastIsCarried, Undisturbed
  <2>1. CASE r = h
    <3>1. t = s
      BY <1>1, <2>1 DEF Own
    <3>2. description[s] # None /\ carries'[r] = description[s]
      BY <1>3, <1>4, <1>6, <2>1, <3>1
    <3>3. PICK q \in Descriptions(s) :
            IsLast(s, Len(made), q) /\ description[s] = made[q].model
      BY <3>2 DEF Memory, Remembered
    <3>4. IsLast(s, h, q)
      <4>1. q \in Own(s) /\ q <= h
        BY <1>6 DEF Descriptions
      <4>2. \A p \in Descriptions(s) : p <= Len(made)
        <5>1. made \in Seq(MadeType)
          BY DEF IInv, TypeOK, MadeType
        <5> QED BY <5>1 DEF Descriptions, Own
      <4> QED BY <3>3, <4>1, <4>2 DEF IsLast
    <3> QED BY <2>1, <3>1, <3>2, <3>3, <3>4
  <2>2. CASE r # h
    <3>1. r \in asked /\ r \in Requests
      BY <1>4, <2>2 DEF IInv, TypeOK
    <3> QED BY <1>4, <2>2, <3>1 DEF Memory, LastIsCarried
  <2> QED BY <2>1, <2>2
<1>12. GoneFromBoth'
  <2> SUFFICES ASSUME NEW t \in Sessions, t \notin pipelined, OneModel(t)
               PROVE  /\ description[t] = None => listed \intersect Descriptions(t) = {}
                      /\ \A r \in Outstanding(t)' :
                           /\ KindOf(r) = "register_description" => description[t] # None
                           /\ KindOf(r) = "unregister_description" /\ verdict[r] = "ok" =>
                                listed \intersect Descriptions(t) = {}
    BY <1>5, SameRequests DEF GoneFromBoth
  <2>1. /\ description[t] = None => listed \intersect Descriptions(t) = {}
        /\ \A r \in Outstanding(t) :
             /\ KindOf(r) = "register_description" => description[t] # None
             /\ KindOf(r) = "unregister_description" /\ verdict[r] = "ok" =>
                  listed \intersect Descriptions(t) = {}
    BY DEF Memory, GoneFromBoth
  <2>2. ASSUME t = s PROVE description[t] # None /\ verdict[h] # "ok"
    <3>1. verdict[h] = "none"
      BY <1>1 DEF IInv, TypeOK, Shape, Answered
    <3> QED BY <1>6, <2>2, <3>1 DEF Undisturbed
  <2> QED BY <1>7, <2>1, <2>2
<1> QED BY <1>8, <1>9, <1>10, <1>11, <1>12 DEF Memory

LEMMA ContinuationRemembers ==
  ASSUME IInv, Memory, NEW r \in Requests, Continuation(r) PROVE Memory'
<1> DEFINE s == made[r].by
           Empties == made[r].kind = "unregister_description" /\ told'[r] # "fail"
<1>1. /\ pool' = pool /\ made' = made /\ inHand' = inHand /\ carries' = carries
      /\ pipelined' = pipelined /\ listed' = listed /\ FreeThread
      /\ description' = IF Empties THEN [description EXCEPT ![s] = None]
                                   ELSE description
  BY DEF Continuation
<1>2. /\ told[r] = "none" /\ r \in asked /\ asked' = asked /\ verdict' = verdict
      /\ \/ verdict[r] # "none" /\ told' = [told EXCEPT ![r] = verdict[r]]
         \/ verdict[r] = "none" /\ told' = [told EXCEPT ![r] = "fail"]
  BY DEF Continuation, ReportsBack, Search!Tell, Search!GiveUp, IInv, TypeOK,
         Shape, Answered
<1>3. /\ told'[r] # "none" /\ (told'[r] # "fail" => verdict[r] = "ok")
      /\ \A q \in Requests : q # r => told'[q] = told[q]
  BY <1>2 DEF IInv, TypeOK
<1>4. s \in Sessions /\ r \in Own(s)
  <2>1. r \in 1..Len(made) /\ made \in Seq(MadeType)
    BY <1>2 DEF IInv, Shape, TypeOK, MadeType
  <2>2. r \in DOMAIN made /\ made[r] \in MadeType
    BY <2>1
  <2> QED BY <2>2 DEF MadeType, Own
<1>5. \A t \in Sessions : \A q : q \in Outstanding(t)' <=> q \in Outstanding(t) /\ q # r
  BY <1>1, <1>2, <1>3 DEF Outstanding, IInv, TypeOK
<1>6. r \in Outstanding(s)
  BY <1>2 DEF Outstanding
<1>7. \A t \in Sessions : \/ description'[t] = description[t]
                          \/ t = s /\ Empties /\ description'[t] = None
  BY <1>1, <1>4 DEF IInv, TypeOK
<1>8. Empties => KindOf(r) = "unregister_description" /\ verdict[r] = "ok"
  BY <1>3 DEF KindOf
<1> HIDE DEF s, Empties
<1>9. Remembered'
  <2> SUFFICES ASSUME NEW t \in Sessions, description'[t] # None
               PROVE  \E q \in Descriptions(t) :
                        IsLast(t, Len(made), q) /\ description'[t] = made[q].model
    BY <1>1, SameRequests DEF Remembered
  <2> QED BY <1>7 DEF Memory, Remembered
<1>10. InHandIsLast'
  <2> SUFFICES ASSUME NEW t \in Sessions, inHand[t] # 0
               PROVE  /\ KindOf(inHand[t]) \in Describing
                      /\ \A q \in Own(t) : q <= inHand[t]
                      /\ Undisturbed(t) => description'[t] # None
    BY <1>1, SameRequests DEF InHandIsLast, Undisturbed, KindOf
  <2>1. /\ KindOf(inHand[t]) \in Describing
        /\ \A q \in Own(t) : q <= inHand[t]
        /\ Undisturbed(t) => description[t] # None
    BY DEF Memory, InHandIsLast
  <2>2. pool # 1
    BY <1>1, FreeMeansNoneInHand DEF IInv
  <2>3. t \notin pipelined => t # s
    BY <1>6 DEF Memory, WaitsForOne
  <2> QED BY <1>7, <2>1, <2>2, <2>3 DEF Undisturbed
<1>11. WaitsForOne'
  BY <1>1, <1>5 DEF Memory, WaitsForOne
<1>12. LastIsCarried'
  BY <1>1, <1>2, SameRequests DEF Memory, LastIsCarried, Undisturbed
<1>13. GoneFromBoth'
  <2> SUFFICES ASSUME NEW t \in Sessions, t \notin pipelined, OneModel(t)
               PROVE  /\ description'[t] = None => listed \intersect Descriptions(t) = {}
                      /\ \A q \in Outstanding(t)' :
                           /\ KindOf(q) = "register_description" => description'[t] # None
                           /\ KindOf(q) = "unregister_description" /\ verdict[q] = "ok" =>
                                listed \intersect Descriptions(t) = {}
    BY <1>1, <1>2, SameRequests DEF GoneFromBoth
  <2>1. /\ description[t] = None => listed \intersect Descriptions(t) = {}
        /\ \A q \in Outstanding(t) :
             /\ KindOf(q) = "register_description" => description[t] # None
             /\ KindOf(q) = "unregister_description" /\ verdict[q] = "ok" =>
                  listed \intersect Descriptions(t) = {}
    BY DEF Memory, GoneFromBoth
  <2>2. CASE t = s
    <3>1. Outstanding(t)' = {}
      BY <1>4, <1>5, <1>6, <2>2 DEF Memory, WaitsForOne
    <3>2. Empties => listed \intersect Descriptions(t) = {}
      BY <1>6, <1>8, <2>1, <2>2
    <3> QED BY <1>7, <2>1, <3>1, <3>2
  <2>3. CASE t # s
    BY <1>5, <1>7, <2>1, <2>3
  <2> QED BY <2>2, <2>3
<1> QED BY <1>9, <1>10, <1>11, <1>12, <1>13 DEF Memory

LEMMA DecideRemembers ==
  ASSUME IInv, Memory, NEW r \in Requests, SearchDecides(r) PROVE Memory'
<1>1. /\ pool' = pool /\ made' = made /\ inHand' = inHand /\ carries' = carries
      /\ pipelined' = pipelined /\ description' = description
      /\ listed' = IF verdict'[r] = "ok" THEN Lists(r) ELSE listed
  BY DEF SearchDecides
<1>2. r \in asked /\ told[r] = "none" /\ asked' = asked /\ told' = told
  BY DEF SearchDecides, Search!Decide
<1>3. \A q \in Requests : q # r => verdict'[q] = verdict[q]
  BY DEF SearchDecides, Search!Decide, IInv, TypeOK
<1>4. Remembered' /\ InHandIsLast' /\ WaitsForOne' /\ LastIsCarried'
  <2>1. \A t \in Sessions : Outstanding(t)' = Outstanding(t)
    BY <1>1, <1>2 DEF Outstanding
  <2>2. Remembered' /\ LastIsCarried'
    BY <1>1, <1>2, SameRequests DEF Memory, Remembered, LastIsCarried, Undisturbed
  <2>3. InHandIsLast'
    BY <1>1, SameRequests DEF Memory, InHandIsLast, Undisturbed, KindOf
  <2>4. WaitsForOne'
    BY <1>1, <2>1 DEF Memory, WaitsForOne
  <2> QED BY <2>2, <2>3, <2>4
<1>5. GoneFromBoth'
  <2> SUFFICES ASSUME NEW t \in Sessions, t \notin pipelined, OneModel(t)
               PROVE  /\ description[t] = None => listed' \intersect Descriptions(t) = {}
                      /\ \A q \in Outstanding(t) :
                           /\ KindOf(q) = "register_description" => description[t] # None
                           /\ KindOf(q) = "unregister_description" /\ verdict'[q] = "ok" =>
                                listed' \intersect Descriptions(t) = {}
    BY <1>1, <1>2, SameRequests DEF GoneFromBoth, Outstanding
  <2>1. /\ description[t] = None => listed \intersect Descriptions(t) = {}
        /\ \A q \in Outstanding(t) :
             /\ KindOf(q) = "register_description" => description[t] # None
             /\ KindOf(q) = "unregister_description" /\ verdict[q] = "ok" =>
                  listed \intersect Descriptions(t) = {}
    BY DEF Memory, GoneFromBoth
  <2>2. /\ \A q \in Outstanding(t) : q \in Requests
        /\ \A q, p \in Outstanding(t) : q = p
    BY DEF Memory, WaitsForOne, Outstanding, IInv, TypeOK
  <2>3. CASE KindOf(r) = "register_description" /\ r \in Own(t)
    <3>1. r \in Outstanding(t)
      BY <1>2, <2>3 DEF Outstanding, Own
    <3>2. description[t] # None
      BY <2>1, <2>3, <3>1
    <3>3. \A q \in Outstanding(t) : KindOf(q) = "register_description"
      BY <2>2, <2>3, <3>1
    <3> QED BY <2>1, <3>2, <3>3
  <2>4. CASE KindOf(r) = "unregister_description" /\ r \in Own(t) /\ verdict'[r] = "ok"
    <3>1. listed' = {q \in listed : carries[q] # carries[r]}
      BY <1>1, <2>4 DEF Lists, KindOf
    <3>2. PICK q \in Descriptions(t) : carries[r] = made[q].model
      BY <1>2, <2>4 DEF Memory, LastIsCarried, Undisturbed, Describing
    <3>3. \A p \in listed \intersect Descriptions(t) : carries[p] = carries[r]
      <4> TAKE p \in listed \intersect Descriptions(t)
      <4>1. /\ p \in Own(t) \intersect asked
            /\ KindOf(p) \in Describing
        BY DEF Descriptions, Describing, IInv, TypeOK
      <4>2. PICK l \in Descriptions(t) : carries[p] = made[l].model
        BY <4>1 DEF Memory, LastIsCarried, Undisturbed
      <4> QED BY <3>2, <4>2 DEF OneModel
    <3>4. listed' \intersect Descriptions(t) = {}
      BY <3>1, <3>3
    <3> QED BY <2>1, <3>4
  <2>5. CASE ~(KindOf(r) \in Describing /\ r \in Own(t)) \/ verdict'[r] # "ok"
    <3>1. listed' \intersect Descriptions(t) \subseteq listed
      <4>1. r \in Descriptions(t) => KindOf(r) \in Describing /\ r \in Own(t)
        BY DEF Descriptions, Describing
      <4> QED BY <1>1, <2>5, <4>1 DEF Lists
    <3>2. \A q \in Outstanding(t) :
            KindOf(q) = "unregister_description" /\ verdict'[q] = "ok" => verdict[q] = "ok"
      <4>1. r \in Outstanding(t) => r \in Own(t)
        BY DEF Outstanding, Own, IInv, Shape, TypeOK
      <4> QED BY <1>3, <2>2, <2>5, <4>1 DEF Describing
    <3> QED BY <2>1, <3>1, <3>2
  <2> QED BY <2>3, <2>4, <2>5 DEF Describing
<1> QED BY <1>4, <1>5 DEF Memory

-------------------------------------------------------------------------------
LEMMA StepRemembers == IInv /\ Memory /\ [Next]_vars => Memory'
<1> SUFFICES ASSUME IInv, Memory, [Next]_vars PROVE Memory'
  OBVIOUS
<1>1. ASSUME NEW s \in Sessions, NEW m \in Models, RegisterDescription(s, m)
      PROVE  Memory'
  <2>1. m # None /\ "register_description" \in Describing
    BY NoneAssumption DEF Describing
  <2>2. description'[s] = m
    BY <1>1 DEF RegisterDescription, IInv, TypeOK
  <2> QED BY <1>1, <2>1, <2>2, ReadMemory DEF RegisterDescription, searchVars
<1>2. ASSUME NEW s \in Sessions, UnregisterDescription(s) PROVE Memory'
  <2>1. "unregister_description" \in Describing
    BY DEF Describing
  <2> QED BY <1>2, <2>1, ReadMemory DEF UnregisterDescription, searchVars
<1>3. ASSUME NEW s \in Sessions, NEW m \in Models, NEW kind \in Kinds,
             PassService(s, kind, m)
      PROVE  Memory'
  <2>1. kind \notin Describing
    BY <1>3 DEF PassService, Describing
  <2> QED BY <1>3, <2>1, ReadMemory DEF PassService, Describing
<1>4. ASSUME NEW s \in Sessions, NEW kind \in Kinds, PassSearch(s, kind)
      PROVE  Memory'
  <2>1. kind \notin Describing
    BY <1>4 DEF PassSearch, Describing, Searches
  <2> QED BY <1>4, <2>1, ReadMemory DEF PassSearch, Describing
<1>5. ASSUME NEW s \in Sessions, Unprocessable(s) PROVE Memory'
  BY <1>5, ReadMemory DEF Unprocessable, searchVars
<1>6. ASSUME UNCHANGED <<pool, made, inHand, description, carries, pipelined, searchVars>>
      PROVE  Memory'
  <2>1. \A t \in Sessions : Outstanding(t)' = Outstanding(t)
    BY <1>6 DEF Outstanding, searchVars
  <2>2. Remembered' /\ LastIsCarried'
    BY <1>6, SameRequests
       DEF Memory, Remembered, LastIsCarried, Undisturbed, searchVars
  <2>3. InHandIsLast'
    BY <1>6, SameRequests DEF Memory, InHandIsLast, Undisturbed, KindOf
  <2>4. WaitsForOne'
    BY <1>6, <2>1 DEF Memory, WaitsForOne
  <2>5. GoneFromBoth'
    BY <1>6, <2>1, SameRequests DEF Memory, GoneFromBoth, searchVars
  <2> QED BY <2>2, <2>3, <2>4, <2>5 DEF Memory
<1>7. CASE Next
  <2>1. ASSUME NEW s \in Sessions, Process(s) PROVE Memory'
    BY <1>1, <1>2, <1>3, <1>4, <1>5, <2>1 DEF Process
  <2>2. ASSUME NEW s \in Sessions, ReadFails(s) \/ AgentGoes(s) PROVE Memory'
    BY <1>6, <2>2 DEF ReadFails, AgentGoes
  <2>3. ASSUME NEW s \in Sessions, PassDescription(s) PROVE Memory'
    BY <2>3, PassDescriptionRemembers
  <2>4. ASSUME NEW r \in Requests, Continuation(r) \/ SearchDecides(r)
        PROVE  Memory'
    BY <2>4, ContinuationRemembers, DecideRemembers
  <2>5. CASE Idle \/ LoopEnds
    BY <1>6, <2>5 DEF Idle, LoopEnds, vars
  <2> QED BY <1>7, <2>1, <2>2, <2>3, <2>4, <2>5 DEF Next
<1> QED BY <1>6, <1>7 DEF vars

LEMMA AlwaysMemory == Spec => [](IInv /\ Memory)
<1>1. Init => Memory
  <2> SUFFICES ASSUME Init PROVE Memory
    OBVIOUS
  <2>1. /\ made = <<>> /\ asked = {} /\ listed = {}
        /\ \A s \in Sessions : description[s] = None /\ inHand[s] = 0
    BY DEF Init, Search!Init
  <2> QED BY <2>1 DEF Memory, Remembered, InHandIsLast, WaitsForOne, LastIsCarried,
                      GoneFromBoth, Outstanding
<1> QED BY <1>1, Initially, Inductive, StepRemembers, PTL DEF Spec

\* What a session passes on is its agent's last description, if the server has
\* one thread or the agent waits for the Search: between the test of description_
\* and its use no continuation comes in that could empty it
\* (agent_session.cpp:48-61).
THEOREM LastDescriptionIsPassed == Spec => []PassesLastDescription
<1>1. IInv /\ Memory => PassesLastDescription
  <2> SUFFICES ASSUME IInv, Memory, NEW s \in Sessions,
                      NEW r \in Own(s) \intersect asked,
                      KindOf(r) \in Describing, Undisturbed(s)
               PROVE  carries[r] = LastDescription(s, r)
    BY DEF PassesLastDescription, Describing, Undisturbed
  <2>1. PICK q \in Descriptions(s) : IsLast(s, r, q) /\ carries[r] = made[q].model
    BY DEF Memory, LastIsCarried
  <2> DEFINE before == {p \in Descriptions(s) : p <= r}
  <2>2. q \in before /\ \A p \in before : p <= q
    BY <2>1 DEF IsLast
  <2>3. \A p \in before : p \in Nat
    <3>1. made \in Seq(MadeType)
      BY DEF IInv, TypeOK, MadeType
    <3> QED BY <3>1 DEF Descriptions, Own
  <2> HIDE DEF before
  <2>4. (CHOOSE p \in before : \A l \in before : l <= p) = q
    <3>1. \A p \in before : (\A l \in before : l <= p) => p = q
      BY <2>2, <2>3
    <3> QED BY <2>2, <3>1
  <2>5. LastDescription(s, r) = made[q].model
    BY <2>4 DEF LastDescription, before
  <2> QED BY <2>1, <2>5
<1> QED BY <1>1, AlwaysMemory, PTL

\* An agent with one model that waits for the Search can take its description
\* back for as long as the Search lists it, whatever is refused, lost or late
\* (agent_session.cpp:29, 61).
THEOREM DescriptionIsKept == Spec => []KeptWhileListed
<1>1. IInv /\ Memory => KeptWhileListed
  <2> SUFFICES ASSUME IInv, Memory, NEW s \in Sessions,
                      NEW r \in listed \intersect Descriptions(s),
                      s \notin pipelined,
                      \A q \in Descriptions(s) : made[q].model = made[r].model
               PROVE  description[s] = made[r].model
    BY DEF KeptWhileListed
  <2>1. OneModel(s)
    BY DEF OneModel
  <2>2. description[s] # None
    BY <2>1 DEF Memory, GoneFromBoth
  <2> QED BY <2>2 DEF Memory, Remembered
<1> QED BY <1>1, AlwaysMemory, PTL
===============================================================================
