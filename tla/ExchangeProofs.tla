---------------------------- MODULE ExchangeProofs ----------------------------
(***************************************************************************)
(* What holds between a session and its Realtime Plane: of the requests and *)
(* the answers under way, of the numbers the two ends count by, of the      *)
(* order of the actions, of the settings a person asked for and of the      *)
(* result regions; and that a session keeps the promise of SettingExchange. *)
(***************************************************************************)
EXTENDS ReadingProofs, FiniteSetTheorems, WellFoundedInduction

\* The requests the Realtime Plane has not taken, those with data among them.
Outgoing == {requests[n] : n \in DOMAIN requests}
Flight == {q \in Outgoing : q.kind = "data"}

\* A request is answered before the next is sent, but for the farewell.
OneAtATime ==
    /\ Len(requests) + (IF answer.arrived THEN 1 ELSE 0) <= (IF turn = "dropped" THEN 2 ELSE 1)
    /\ Len(requests) = 2 => requests[2] = CloseRequest
    /\ (state # "CLOSED" /\ turn # "dropped" /\ ~awaiting) => requests = <<>> /\ ~answer.arrived
    /\ turn = "send" => state = "OPEN" /\ ~awaiting

\* The request to open goes first, and nothing is counted before it is taken.
OpensFirst ==
    /\ OpenRequest \in Outgoing => state # "OPEN" /\ serving = "replaced"
    /\ state = "OPENING" => actionSequence = 0
    /\ OpenRequest \in Outgoing => actionSequence = 0
    /\ serving = "replaced" =>
         /\ accepted = 0 /\ waiting = <<>>
         /\ published = <<>> /\ stateThrough = 0
         /\ drawn = <<>> /\ resultThrough = 0 /\ held = {} /\ releases = <<>>

Wire == OneAtATime /\ OpensFirst
-----------------------------------------------------------------------------
\* The steps of the host that only move it on in its turn, the clock, and no step.
Turning ==
    \/ HostAdvance /\ (AwaitAnswer \/ StatesRead \/ ResultsRead \/ NothingToSend)
    \/ Clock
    \/ UNCHANGED allVars

\* They change nothing that the two ends know of each other.
LEMMA TurningKeeps ==
    ASSUME Turning
    PROVE  /\ UNCHANGED <<state, asking, reading, drawing, acknowledging, awaiting, staleRecords,
                          channels, planeVars, asked>>
           /\ Lost' = Lost /\ Attached' = Attached
           /\ (turn' = "dropped") = (turn = "dropped")
<1>1. CASE HostAdvance /\ (AwaitAnswer \/ StatesRead \/ ResultsRead \/ NothingToSend)
  BY <1>1 DEF HostAdvance, AwaitAnswer, Reading, StatesRead, ResultsRead, MaySend, NothingToSend,
     Lost, Attached
<1>2. CASE Clock \/ UNCHANGED allVars
  BY <1>2 DEF Clock, TimePasses, allVars, vars, hostVars, Lost, Attached
<1> QED BY <1>1, <1>2 DEF Turning

\* What a step of the exchange can be.
LEMMA StepsAre ==
    ASSUME [ExchangeNext]_allVars
    PROVE  \/ Turning
           \/ HostAdvance /\ (GiveUp \/ CollectAnswer \/ ReadState \/ ReadResult \/ SendNext)
           \/ HostFails \/ HostClose
           \/ \E k \in Settings, v \in Values : Ask(k, v)
           \/ TakeOpen \/ TakeData \/ TakeAndClose \/ Apply \/ PublishState
           \/ \E t \in Tiles, r \in Regions : PublishResult(t, r)
           \/ \E t \in Tiles, v \in Values : PublishLate(t, v)
           \/ AnswerWrongly \/ SpoilRecord
BY DEF ExchangeNext, HostAdvance, Advance, Turning, PlaneAnswers, PlaneWorks
-----------------------------------------------------------------------------
\* A request is taken from the front, and what is left is a farewell.
LEMMA Taking ==
    ASSUME TypeOK, requests # <<>>, requests' = Tail(requests)
    PROVE  /\ Head(requests) \in Outgoing /\ Head(requests) = requests[1]
           /\ Outgoing' \subseteq Outgoing /\ Flight' \subseteq Flight
           /\ Len(requests) \in Nat \ {0} /\ Len(requests') = Len(requests) - 1
           /\ OneAtATime => Outgoing' \subseteq {CloseRequest} /\ Flight' = {}
<1> DEFINE Request1 == {OpenRequest, CloseRequest} \cup Data
<1> HIDE DEF Request1
<1>1. requests \in Seq(Request1)
  BY DEF TypeOK, ChannelTypeOK, Request1
<1>2. /\ Len(requests) \in Nat \ {0} /\ DOMAIN requests = 1..Len(requests)
      /\ Head(requests) = requests[1]
  BY <1>1, EmptySeq, LenProperties
<1>3. /\ Tail(requests) \in Seq(Request1) /\ Len(requests') = Len(requests) - 1
      /\ \A i \in 1..Len(requests') : requests'[i] = requests[i + 1]
  BY <1>1, HeadTailProperties
<1>4. DOMAIN requests' = 1..Len(requests')
  BY <1>1, <1>3, LenProperties
<1>5. Outgoing' \subseteq Outgoing /\ Head(requests) \in Outgoing
  BY <1>2, <1>3, <1>4 DEF Outgoing
<1>6. ASSUME OneAtATime PROVE Outgoing' \subseteq {CloseRequest}
  <2>1. Len(requests) \in {1, 2}
    BY <1>2, <1>6 DEF OneAtATime
  <2>2. \A i \in 1..Len(requests') : i = 1 /\ requests'[i] = CloseRequest
    BY <1>2, <1>3, <1>6, <2>1 DEF OneAtATime
  <2> QED BY <1>4, <2>2 DEF Outgoing
<1> QED BY <1>2, <1>3, <1>5, <1>6 DEF Flight, CloseRequest

\* A request is sent to the end.
LEMMA Sending ==
    ASSUME TypeOK, NEW q, q \in {OpenRequest, CloseRequest} \cup Data, requests' = Append(requests, q)
    PROVE  /\ Outgoing' = Outgoing \cup {q}
           /\ Len(requests) \in Nat /\ Len(requests') = Len(requests) + 1
           /\ requests'[Len(requests) + 1] = q
<1> DEFINE Request1 == {OpenRequest, CloseRequest} \cup Data
<1> HIDE DEF Request1
<1>1. requests \in Seq(Request1) /\ q \in Request1
  BY DEF TypeOK, ChannelTypeOK, Request1
<1>2. Len(requests) \in Nat /\ DOMAIN requests = 1..Len(requests)
  BY <1>1, LenProperties
<1>3. /\ requests' \in Seq(Request1) /\ Len(requests') = Len(requests) + 1
      /\ \A i \in 1..Len(requests) : requests'[i] = requests[i]
      /\ requests'[Len(requests) + 1] = q
  BY <1>1, AppendProperties
<1>4. DOMAIN requests' = 1..(Len(requests) + 1)
  BY <1>3, LenProperties
<1> QED BY <1>2, <1>3, <1>4 DEF Outgoing

\* Without requests nothing is going out.
LEMMA NothingOut == Len(requests) = 0 /\ TypeOK => Outgoing = {} /\ Flight = {} /\ requests = <<>>
<1> SUFFICES ASSUME Len(requests) = 0, TypeOK PROVE Outgoing = {} /\ requests = <<>>
  BY DEF Flight
<1>1. requests \in Seq({OpenRequest, CloseRequest} \cup Data)
  BY DEF TypeOK, ChannelTypeOK
<1> QED BY <1>1, LenProperties, EmptySeq DEF Outgoing
-----------------------------------------------------------------------------
\* The constructor sends the request to open, and nothing else.
LEMMA InitWire == ASSUME ExchangeInit PROVE Wire
<1>1. requests \in {<<OpenRequest>>, <<>>} /\ answer = NoAnswer /\ turn = "idle" /\ awaiting
  BY DEF ExchangeInit, Init
<1>2. /\ Len(requests) <= 1 /\ Len(requests) # 2
      /\ OpenRequest \in Outgoing => requests = <<OpenRequest>>
  <2>1. CASE requests = <<OpenRequest>>
    BY <2>1
  <2>2. CASE requests = <<>>
    BY <2>2 DEF Outgoing
  <2> QED BY <1>1, <2>1, <2>2
<1>3. OneAtATime
  BY <1>1, <1>2 DEF OneAtATime, NoAnswer
<1>4. OpensFirst
  BY DEF ExchangeInit, Init, OpensFirst
<1> QED BY <1>3, <1>4 DEF Wire

\* Every step keeps what is under way in its order.
LEMMA NextWire ==
    ASSUME IInv, ReadInv, Wire, [ExchangeNext]_allVars
    PROVE  Wire'
<1>1. TypeOK /\ OneAtATime /\ OpensFirst /\ Len(requests) \in Nat
  BY LenProperties DEF IInv, Wire, TypeOK, ChannelTypeOK
<1>2. CASE Turning
  <2>1. /\ UNCHANGED <<state, actionSequence, releases, requests, answer, awaiting, serving, accepted,
                       waiting, published, stateThrough, drawn, resultThrough, held>>
        /\ (turn' = "dropped") = (turn = "dropped")
    BY <1>2, TurningKeeps DEF asking, drawing, channels, planeVars
  <2>2. turn' = "send" => state = "OPEN" /\ ~awaiting
    BY <1>1, <1>2 DEF Turning, HostAdvance, AwaitAnswer, Reading, StatesRead, ResultsRead, MaySend,
       NothingToSend, Clock, TimePasses, OneAtATime, allVars, vars, hostVars
  <2>3. OneAtATime'
    BY <1>1, <2>1, <2>2 DEF OneAtATime
  <2>4. OpensFirst'
    BY <1>1, <2>1 DEF OpensFirst, Outgoing
  <2> QED BY <2>3, <2>4 DEF Wire
<1>3. CASE HostAdvance /\ (GiveUp \/ ReadState \/ ReadResult)
  <2>1. UNCHANGED <<actionSequence, requests, answer, serving, accepted, waiting, published,
                    stateThrough, drawn, resultThrough, held>>
    <3>1. CASE GiveUp
      BY <1>3, <3>1 DEF HostAdvance, GiveUp, GiveUpStep, channels, planeVars
    <3>2. CASE ReadState
      BY <1>3, <3>2 DEF HostAdvance, ReadState, asking, planeVars
    <3>3. CASE ReadResult
      BY <1>3, <3>3 DEF HostAdvance, ReadResult, asking, planeVars
    <3> QED BY <1>3, <3>1, <3>2, <3>3
  <2>2. /\ turn # "dropped" /\ turn' # "dropped" /\ turn' # "send"
        /\ state' = "CLOSED" \/ UNCHANGED <<state, awaiting>>
    BY <1>3 DEF GiveUp, GiveUpStep, ReadState, ReadResult, End
  <2>3. OneAtATime'
    BY <1>1, <2>1, <2>2 DEF OneAtATime
  <2>4. serving = "replaced" => releases' = releases
    <3>1. CASE ReadResult
      <4>1. Head(results) \in Painted
        BY <3>1, FewerResults DEF ReadInv, ReadResult
      <4>2. serving = "replaced" => ~Head(results).own
        BY <1>1, <4>1 DEF Painted, OpensFirst
      <4> QED BY <3>1, <4>2 DEF ReadResult, Foreign, drawing
    <3>2. CASE GiveUp \/ ReadState
      BY <3>2 DEF GiveUp, GiveUpStep, ReadState, drawing
    <3> QED BY <1>3, <3>1, <3>2
  <2>5. OpensFirst'
    BY <1>1, <2>1, <2>2, <2>4 DEF OpensFirst, Outgoing
  <2> QED BY <2>3, <2>5 DEF Wire
<1>4. CASE HostAdvance /\ CollectAnswer
  <2>1. UNCHANGED <<actionSequence, requests, releases, serving, accepted, waiting, published,
                    stateThrough, drawn, resultThrough, held>>
    BY <1>4 DEF HostAdvance, CollectAnswer, drawing, planeVars
  <2>2. /\ turn # "dropped" /\ turn' \notin {"dropped", "send"}
        /\ answer.arrived /\ ~answer'.arrived
        /\ state' = "OPENING" => state = "OPENING"
    BY <1>4 DEF CollectAnswer, NoAnswer, Reading, StateAfter
  <2>3. Len(requests) = 0
    BY <1>1, <2>2 DEF OneAtATime
  <2>4. requests = <<>> /\ Outgoing = {} /\ Outgoing' = {}
    BY <1>1, <2>1, <2>3, NothingOut DEF Outgoing
  <2>5. OneAtATime'
    BY <2>1, <2>2, <2>3, <2>4 DEF OneAtATime
  <2>6. OpensFirst'
    BY <1>1, <2>1, <2>2, <2>4 DEF OpensFirst
  <2> QED BY <2>5, <2>6 DEF Wire
<1>5. CASE HostAdvance /\ SendNext
  <2>1. /\ UNCHANGED <<state, answer, serving, accepted, waiting, published, stateThrough, drawn,
                       resultThrough, held>>
        /\ turn = "send" /\ turn' = "idle" /\ awaiting' = TRUE /\ releases' = <<>>
    BY <1>5 DEF HostAdvance, SendNext, Assemble, Unreleased, planeVars
  <2>2. state = "OPEN" /\ requests = <<>> /\ ~answer.arrived
    BY <1>1, <2>1 DEF OneAtATime
  <2> DEFINE q == DataRequest(stateSequence, resultSequence, releases, Batch)
  <2>3. q \in Data /\ q.kind = "data"
    BY <1>1, BatchType DEF DataRequest, Data, TypeOK, HostTypeOK
  <2>4. requests' = Append(requests, q)
    BY <1>5 DEF SendNext
  <2> HIDE DEF q
  <2>5. Outgoing' = Outgoing \cup {q} /\ Len(requests') = 1
    BY <1>1, <2>2, <2>3, <2>4, Sending, EmptySeq
  <2>6. Outgoing = {} /\ q # OpenRequest
    BY <1>1, <2>2, <2>3, NothingOut, EmptySeq DEF OpenRequest
  <2>7. OneAtATime'
    BY <2>1, <2>2, <2>5 DEF OneAtATime
  <2>8. OpensFirst'
    BY <1>1, <2>1, <2>2, <2>5, <2>6 DEF OpensFirst
  <2> QED BY <2>7, <2>8 DEF Wire
<1>6. CASE HostFails
  <2>1. CASE SendRaises
    <3>1. /\ UNCHANGED <<state, requests, answer, awaiting, serving, accepted, waiting, published,
                         stateThrough, drawn, resultThrough, held>>
          /\ turn = "send" /\ turn' = "raised" /\ releases' = <<>>
      BY <1>6, <2>1 DEF HostFails, SendRaises, Assemble, Unreleased, planeVars
    <3>2. state = "OPEN"
      BY <1>1, <3>1 DEF OneAtATime
    <3>3. OneAtATime' /\ OpensFirst'
      BY <1>1, <3>1, <3>2 DEF OneAtATime, OpensFirst, Outgoing
    <3> QED BY <3>3 DEF Wire
  <2>2. CASE AnswerRaises
    <3>1. /\ UNCHANGED <<actionSequence, releases, requests, serving, accepted, waiting, published,
                         stateThrough, drawn, resultThrough, held>>
          /\ state # "CLOSED" /\ turn = "idle" /\ turn' = "raised" /\ awaiting
      BY <1>6, <2>2, RaisingLeaves DEF HostFails, planeVars, drawing
    <3>2. CASE UNCHANGED <<state, answer, awaiting>>
      <4>1. OneAtATime'
        BY <1>1, <3>1, <3>2 DEF OneAtATime
      <4>2. OpensFirst'
        BY <1>1, <3>1, <3>2 DEF OpensFirst, Outgoing
      <4> QED BY <4>1, <4>2 DEF Wire
    <3>3. CASE answer.arrived /\ answer' = NoAnswer /\ state' \in {state, "OPEN", "CLOSED"}
      <4>1. Len(requests) = 0
        <5>1. Len(requests) \in Nat
          BY <1>1, LenProperties DEF TypeOK, ChannelTypeOK
        <5> QED BY <1>1, <3>1, <3>3, <5>1 DEF OneAtATime
      <4>2. requests = <<>> /\ Outgoing = {} /\ Outgoing' = {} /\ ~answer'.arrived
        BY <1>1, <3>1, <3>3, <4>1, NothingOut DEF Outgoing, NoAnswer
      <4>3. OneAtATime'
        BY <1>1, <3>1, <3>3, <4>1, <4>2 DEF OneAtATime
      <4>4. OpensFirst'
        BY <1>1, <3>1, <3>3, <4>2 DEF OpensFirst
      <4> QED BY <4>3, <4>4 DEF Wire
    <3> QED BY <2>2, <3>2, <3>3, RaisingLeaves
  <2> QED BY <1>6, <2>1, <2>2 DEF HostFails
<1>7. CASE HostClose
  <2>1. /\ UNCHANGED <<actionSequence, answer, releases, serving, accepted, waiting, published,
                       stateThrough, drawn, resultThrough, held>>
        /\ turn # "dropped" /\ turn' = "dropped"
        /\ \/ state' = "CLOSED" /\ requests' = Append(requests, CloseRequest)
           \/ UNCHANGED <<state, awaiting, requests>>
    BY <1>7 DEF HostClose, Close, End, planeVars, drawing
  <2>2. CASE UNCHANGED <<state, awaiting, requests>>
    BY <1>1, <2>1, <2>2 DEF Wire, OneAtATime, OpensFirst, Outgoing
  <2>3. CASE state' = "CLOSED" /\ requests' = Append(requests, CloseRequest)
    <3>1. /\ Outgoing' = Outgoing \cup {CloseRequest} /\ Len(requests') = Len(requests) + 1
          /\ requests'[Len(requests) + 1] = CloseRequest
      BY <1>1, <2>3, Sending
    <3>2. OneAtATime'
      BY <1>1, <2>1, <2>3, <3>1 DEF OneAtATime
    <3>3. OpensFirst'
      BY <1>1, <2>1, <2>3, <3>1 DEF OpensFirst, OpenRequest, CloseRequest
    <3> QED BY <3>2, <3>3 DEF Wire
  <2> QED BY <2>1, <2>2, <2>3
<1>8. ASSUME NEW k \in Settings, NEW v \in Values, Ask(k, v) PROVE Wire'
  <2>1. UNCHANGED <<state, turn, actionSequence, releases, requests, answer, awaiting, serving, accepted,
                    waiting, published, stateThrough, drawn, resultThrough, held>>
    BY <1>8 DEF Ask, Request, RequestStep, drawing, channels, planeVars
  <2> QED BY <1>1, <2>1 DEF Wire, OneAtATime, OpensFirst, Outgoing
<1>9. CASE TakeOpen \/ TakeData \/ TakeAndClose \/ AnswerWrongly
  <2>1. /\ requests # <<>> /\ requests' = Tail(requests) /\ answer'.arrived
        /\ UNCHANGED <<state, turn, awaiting, actionSequence, releases>>
        /\ serving' = "replaced" => serving = "replaced" /\ UNCHANGED <<accepted, waiting, published,
                                       stateThrough, drawn, resultThrough, held>>
    <3>1. CASE TakeOpen
      <4>1. serving = "replaced"
        BY <1>1, <3>1, Taking DEF TakeOpen, OpensFirst
      <4> QED BY <3>1, <4>1 DEF TakeOpen, Answer, hostVars, drawing, asking
    <3>2. CASE TakeData
      BY <3>2 DEF TakeData, Answer, hostVars, drawing, asking
    <3>3. CASE TakeAndClose
      BY <3>3 DEF TakeAndClose, Answer, hostVars, drawing, asking
    <3>4. CASE AnswerWrongly
      BY <3>4 DEF AnswerWrongly, Answer, hostVars, drawing, asking, planeVars
    <3> QED BY <1>9, <3>1, <3>2, <3>3, <3>4
  <2>2. /\ Outgoing' \subseteq {CloseRequest}
        /\ Len(requests) \in Nat \ {0} /\ Len(requests') = Len(requests) - 1
    BY <1>1, <2>1, Taking
  <2>3. ~(state # "CLOSED" /\ turn # "dropped" /\ ~awaiting)
    BY <1>1, <2>1 DEF OneAtATime
  <2>4. OneAtATime'
    BY <1>1, <2>1, <2>2, <2>3 DEF OneAtATime
  <2>5. OpensFirst'
    BY <1>1, <2>1, <2>2 DEF OpensFirst, OpenRequest, CloseRequest
  <2> QED BY <2>4, <2>5 DEF Wire
<1>10. CASE Apply \/ PublishState \/ SpoilRecord
  <2>1. /\ UNCHANGED <<state, turn, actionSequence, releases, requests, answer, awaiting, serving, accepted,
                       stateThrough, drawn, resultThrough, held>>
        /\ serving = "replaced" => UNCHANGED <<waiting, published>>
    BY <1>10 DEF Apply, PublishState, SpoilRecord, vars, hostVars, asking, drawing, channels, planeVars
  <2> QED BY <1>1, <2>1 DEF Wire, OneAtATime, OpensFirst, Outgoing
<1>11. ASSUME NEW t \in Tiles, NEW r \in Regions, PublishResult(t, r) PROVE Wire'
  <2>1. /\ UNCHANGED <<state, turn, actionSequence, releases, requests, answer, awaiting, serving, accepted,
                       waiting, published, stateThrough, resultThrough>>
        /\ serving = "own"
    BY <1>11 DEF PublishResult, hostVars, asking, drawing
  <2> QED BY <1>1, <2>1 DEF Wire, OneAtATime, OpensFirst, Outgoing
<1>12. ASSUME NEW t \in Tiles, NEW v \in Values, PublishLate(t, v) PROVE Wire'
  <2>1. UNCHANGED <<state, turn, actionSequence, releases, requests, answer, awaiting, serving, accepted,
                    waiting, published, stateThrough, drawn, resultThrough, held>>
    BY <1>12 DEF PublishLate, hostVars, asking, drawing, planeVars
  <2> QED BY <1>1, <2>1 DEF Wire, OneAtATime, OpensFirst, Outgoing
<1> QED BY <1>2, <1>3, <1>4, <1>5, <1>6, <1>7, <1>8, <1>9, <1>10, <1>11, <1>12, StepsAre
-----------------------------------------------------------------------------
\* What each end acknowledged is behind what it was sent, by no more than the windows,
\* and a request carries no more than its limits.
Limited(q) ==
    /\ stateThrough <= q.stateThrough /\ q.stateThrough <= stateAcknowledged
    /\ resultThrough <= q.resultThrough /\ q.resultThrough <= resultAcknowledged
    /\ Len(q.regions) <= ResultWindow /\ Len(q.actions) <= ActionWindow
    /\ accepted + Len(q.actions) <= actionSequence
Counted ==
    /\ stateThrough <= stateAcknowledged /\ stateAcknowledged <= stateSequence
    /\ stateSequence <= Len(published) /\ Len(published) - stateThrough <= StateWindow
    /\ resultThrough <= resultAcknowledged /\ resultAcknowledged <= resultSequence
    /\ resultSequence <= Len(drawn) /\ Len(drawn) - resultThrough <= ResultWindow
    /\ Len(releases) <= resultSequence - resultAcknowledged
    /\ accepted <= actionSequence
    /\ \A q \in Flight : Limited(q)

numbers == <<stateThrough, stateAcknowledged, stateSequence, published,
             resultThrough, resultAcknowledged, resultSequence, drawn, releases,
             accepted, actionSequence>>

\* What is counted is counted in natural numbers.
LEMMA NumbersAre ==
    ASSUME TypeOK
    PROVE  /\ stateThrough \in Nat /\ stateAcknowledged \in Nat /\ stateSequence \in Nat
           /\ resultThrough \in Nat /\ resultAcknowledged \in Nat /\ resultSequence \in Nat
           /\ Len(published) \in Nat /\ Len(drawn) \in Nat /\ Len(releases) \in Nat
           /\ Len(waiting) \in Nat /\ accepted \in Nat /\ actionSequence \in Nat
           /\ StateWindow \in Nat /\ ResultWindow \in Nat /\ ActionWindow \in Nat
           /\ Flight \subseteq Data
           /\ \A q \in Flight : /\ q.stateThrough \in Nat /\ q.resultThrough \in Nat
                                /\ q.regions \in Seq(Regions) /\ Len(q.regions) \in Nat
                                /\ q.actions \in Seq(Action) /\ Len(q.actions) \in Nat
                                /\ DOMAIN q.actions = 1..Len(q.actions)
<1>1. Flight \subseteq Data
  <2> DEFINE Any == {OpenRequest, CloseRequest} \cup Data
  <2>1. requests \in Seq(Any)
    BY DEF TypeOK, ChannelTypeOK
  <2>2. Outgoing \subseteq Any
    <3> HIDE DEF Any
    <3> QED BY <2>1, LenProperties, ElementOfSeq DEF Outgoing
  <2> QED BY <2>2 DEF Flight, OpenRequest, CloseRequest
<1>2. \A q \in Data : /\ q.stateThrough \in Nat /\ q.resultThrough \in Nat
                      /\ q.regions \in Seq(Regions) /\ q.actions \in Seq(Action)
  BY DEF Data
<1>3. \A q \in Flight : /\ Len(q.regions) \in Nat /\ Len(q.actions) \in Nat
                        /\ DOMAIN q.actions = 1..Len(q.actions)
  BY <1>1, <1>2, LenProperties
<1> QED BY <1>1, <1>2, <1>3, LenProperties, SessionAssumption, ExchangeAssumption
     DEF TypeOK, HostTypeOK, PlaneTypeOK

\* The session starts with every number at zero.
LEMMA InitCounted == ASSUME ExchangeInit PROVE Counted
<1>1. /\ stateThrough = 0 /\ stateAcknowledged = 0 /\ stateSequence = 0 /\ Len(published) = 0
      /\ resultThrough = 0 /\ resultAcknowledged = 0 /\ resultSequence = 0 /\ Len(drawn) = 0
      /\ Len(releases) = 0 /\ accepted = 0 /\ actionSequence = 0
  BY DEF ExchangeInit, Init
<1>2. Flight = {}
  BY DEF ExchangeInit, Init, Flight, Outgoing, OpenRequest
<1> QED BY <1>1, <1>2, ExchangeAssumption DEF Counted

\* Reading a state counts one at most, and one that was published.
LEMMA ReadingCounts ==
    ASSUME TypeOK, ReadInv, Counted, ReadState
    PROVE  /\ stateSequence <= stateSequence' /\ stateSequence' <= Len(published)
           /\ stateSequence' # stateSequence => stateSequence' = stateSequence + 1
<1>1. Head(states) \in Told
  BY FewerStates DEF ReadInv, ReadState
<1>2. /\ stateSequence \in Nat /\ Len(published) \in Nat
  BY NumbersAre
<1>3. \/ stateSequence' = stateSequence
      \/ /\ Head(states).own /\ stateSequence' = Head(states).sequence
         /\ Head(states).sequence = stateSequence + 1
  BY DEF ReadState, Foreign, Follows, reading
<1> QED BY <1>1, <1>2, <1>3 DEF Counted, Told

\* Reading a result counts one at most, one that was drawn, and has its region released.
LEMMA DrawingCounts ==
    ASSUME TypeOK, ReadInv, Counted, ReadResult
    PROVE  /\ resultSequence <= resultSequence' /\ resultSequence' <= Len(drawn)
           /\ \/ releases' = releases
              \/ /\ resultSequence' = resultSequence + 1
                 /\ releases' = Append(releases, Head(results).region)
                 /\ Len(releases') = Len(releases) + 1
<1>1. Head(results) \in Painted
  BY FewerResults DEF ReadInv, ReadResult
<1>2. /\ resultSequence \in Nat /\ Len(drawn) \in Nat /\ releases \in Seq(Regions)
      /\ Head(results).region \in Regions
  BY <1>1, NumbersAre DEF TypeOK, HostTypeOK, Painted, ResultRecord
<1>3. Len(Append(releases, Head(results).region)) = Len(releases) + 1
  BY <1>2, AppendProperties
<1>4. \/ resultSequence' = resultSequence /\ releases' = releases
      \/ /\ Head(results).own /\ resultSequence' = Head(results).sequence
         /\ Head(results).sequence = resultSequence + 1
         /\ releases' \in {releases, Append(releases, Head(results).region)}
  BY DEF ReadResult, Foreign, Follows, drawing
<1> QED BY <1>1, <1>2, <1>3, <1>4 DEF Counted, Painted

\* Every step keeps what is counted within the windows.
LEMMA NextCounted ==
    ASSUME IInv, ReadInv, Wire, Counted, [ExchangeNext]_allVars
    PROVE  Counted'
<1>1. TypeOK /\ OneAtATime
  BY DEF IInv, Wire
<1>0. /\ stateThrough \in Nat /\ stateAcknowledged \in Nat /\ stateSequence \in Nat
      /\ resultThrough \in Nat /\ resultAcknowledged \in Nat /\ resultSequence \in Nat
      /\ Len(published) \in Nat /\ Len(drawn) \in Nat /\ Len(releases) \in Nat
      /\ accepted \in Nat /\ actionSequence \in Nat
      /\ StateWindow \in Nat /\ ResultWindow \in Nat /\ ActionWindow \in Nat
      /\ \A q \in Flight : /\ q.stateThrough \in Nat /\ q.resultThrough \in Nat
                           /\ Len(q.regions) \in Nat /\ Len(q.actions) \in Nat
  BY <1>1, NumbersAre
<1>2. ASSUME UNCHANGED numbers, Flight' \subseteq Flight PROVE Counted'
  BY <1>0, <1>2 DEF Counted, Limited, numbers
<1>3. ASSUME UNCHANGED requests PROVE Flight' = Flight
  BY <1>3 DEF Flight, Outgoing
<1>4. CASE Turning
  BY <1>2, <1>3, <1>4, TurningKeeps DEF asking, reading, drawing, acknowledging, channels, planeVars, numbers
<1>5. CASE HostAdvance /\ (GiveUp \/ CollectAnswer)
  BY <1>2, <1>3, <1>5 DEF HostAdvance, GiveUp, GiveUpStep, CollectAnswer, reading, drawing, acknowledging,
     channels, planeVars, numbers
<1>6. CASE HostAdvance /\ ReadState
  <2>1. UNCHANGED <<stateThrough, stateAcknowledged, published, resultThrough, resultAcknowledged,
                    resultSequence, drawn, releases, accepted, actionSequence, requests>>
    BY <1>6 DEF HostAdvance, ReadState, asking, drawing, acknowledging, planeVars
  <2>2. \A q \in Flight' : Limited(q)'
    BY <1>3, <2>1 DEF Counted, Limited
  <2> QED BY <1>0, <1>1, <1>6, <2>1, <2>2, ReadingCounts DEF Counted
<1>7. CASE HostAdvance /\ ReadResult
  <2>1. UNCHANGED <<stateThrough, stateAcknowledged, stateSequence, published, resultThrough,
                    resultAcknowledged, drawn, accepted, actionSequence, requests>>
    BY <1>7 DEF HostAdvance, ReadResult, asking, reading, acknowledging, planeVars
  <2>2. \A q \in Flight' : Limited(q)'
    BY <1>3, <2>1 DEF Counted, Limited
  <2>3. /\ resultSequence <= resultSequence' /\ resultSequence' <= Len(drawn)
        /\ \/ releases' = releases
           \/ resultSequence' = resultSequence + 1 /\ Len(releases') = Len(releases) + 1
    BY <1>1, <1>7, DrawingCounts
  <2>4. resultSequence' \in Nat
    BY <1>7, NextKeepsIInv DEF IInv, TypeOK, HostTypeOK
  <2> QED BY <1>0, <2>1, <2>2, <2>3, <2>4 DEF Counted
<1>8. CASE (HostAdvance /\ SendNext) \/ (HostFails /\ SendRaises)
  <2>1. /\ UNCHANGED <<stateThrough, stateSequence, published, resultThrough, resultSequence, drawn, accepted>>
        /\ stateAcknowledged' = stateSequence /\ resultAcknowledged' = resultSequence
        /\ releases' = <<>> /\ actionSequence' = actionSequence + BatchSize
        /\ turn = "send"
    BY <1>8 DEF HostAdvance, HostFails, SendNext, SendRaises, Assemble, Unreleased, NextAction, reading,
       planeVars
  <2>2. BatchSize \in Nat /\ BatchSize <= ActionWindow /\ Len(Batch) = BatchSize /\ Len(releases') = 0
    BY <1>1, <2>1, BatchIsAPrefix, BatchType
  <2>3. Len(requests) = 0
    BY <1>1, <2>1 DEF OneAtATime
  <2>4. \A q \in Flight' : q = DataRequest(stateSequence, resultSequence, releases, Batch)
    <3>1. CASE SendNext
      <4> DEFINE q == DataRequest(stateSequence, resultSequence, releases, Batch)
      <4>1. q \in Data
        BY <1>1, BatchType DEF DataRequest, Data, TypeOK, HostTypeOK
      <4>2. requests' = Append(requests, q)
        BY <3>1 DEF SendNext
      <4> HIDE DEF q
      <4>3. Outgoing' = Outgoing \cup {q} /\ Outgoing = {}
        BY <1>1, <2>3, <4>1, <4>2, Sending, NothingOut
      <4> QED BY <4>3 DEF q, Flight
    <3>2. CASE HostFails /\ SendRaises
      <4>1. Flight' = {}
        BY <1>1, <1>3, <2>3, <3>2, NothingOut DEF HostFails, SendRaises
      <4> QED BY <4>1
    <3> QED BY <1>8, <3>1, <3>2
  <2>5. ASSUME NEW q \in Flight' PROVE Limited(q)'
    <3>1. /\ q.stateThrough = stateSequence /\ q.resultThrough = resultSequence
          /\ q.regions = releases /\ q.actions = Batch
      BY <2>4 DEF DataRequest
    <3>2. /\ stateThrough <= stateSequence /\ resultThrough <= resultSequence
          /\ Len(releases) <= ResultWindow /\ accepted <= actionSequence
      BY <1>0 DEF Counted
    <3> QED BY <1>0, <2>1, <2>2, <3>1, <3>2 DEF Limited
  <2> QED BY <1>0, <2>1, <2>2, <2>5 DEF Counted
<1>9. CASE HostClose
  <2>1. UNCHANGED numbers
    BY <1>9 DEF HostClose, Close, reading, drawing, acknowledging, planeVars, numbers
  <2>2. Flight' = Flight
    <3>1. CASE requests' = Append(requests, CloseRequest)
      <4>1. Outgoing' = Outgoing \cup {CloseRequest}
        BY <1>1, <3>1, Sending
      <4> QED BY <4>1 DEF Flight, CloseRequest
    <3> QED BY <1>3, <1>9, <3>1 DEF HostClose, Close
  <2> QED BY <1>2, <2>1, <2>2
<1>10. ASSUME NEW k \in Settings, NEW v \in Values, Ask(k, v) PROVE Counted'
  BY <1>2, <1>3, <1>10 DEF Ask, Request, RequestStep, reading, drawing, acknowledging, channels, planeVars,
     numbers
<1>11. CASE TakeOpen \/ TakeAndClose \/ AnswerWrongly
  <2>1. UNCHANGED numbers /\ requests # <<>> /\ requests' = Tail(requests)
    <3>1. CASE TakeOpen
      BY <3>1 DEF TakeOpen, numbers, hostVars, asking, reading, drawing, acknowledging
    <3>2. CASE TakeAndClose
      BY <3>2 DEF TakeAndClose, numbers, hostVars, asking, reading, drawing, acknowledging
    <3>3. CASE AnswerWrongly
      BY <3>3 DEF AnswerWrongly, numbers, hostVars, asking, reading, drawing, acknowledging, planeVars
    <3> QED BY <1>11, <3>1, <3>2, <3>3
  <2> QED BY <1>1, <1>2, <2>1, Taking
<1>12. CASE TakeData
  <2> DEFINE q == Head(requests)
  <2>1. /\ q \in Flight /\ Flight' = {}
    BY <1>1, <1>12, Taking DEF TakeData, Flight
  <2>2. /\ UNCHANGED <<stateAcknowledged, stateSequence, published, resultAcknowledged, resultSequence,
                       drawn, releases, actionSequence>>
        /\ stateThrough' = q.stateThrough /\ resultThrough' = q.resultThrough
        /\ accepted' = accepted + Len(q.actions)
    BY <1>12 DEF TakeData, hostVars, asking, reading, drawing, acknowledging
  <2> HIDE DEF q
  <2>3. Limited(q) /\ q.stateThrough \in Nat /\ q.resultThrough \in Nat /\ Len(q.actions) \in Nat
    BY <1>0, <2>1 DEF Counted
  <2>4. /\ Len(published) - q.stateThrough <= StateWindow /\ Len(drawn) - q.resultThrough <= ResultWindow
    <3>1. /\ stateThrough <= q.stateThrough /\ Len(published) - stateThrough <= StateWindow
          /\ resultThrough <= q.resultThrough /\ Len(drawn) - resultThrough <= ResultWindow
      BY <2>3 DEF Counted, Limited
    <3>2. /\ stateThrough \in Nat /\ Len(published) \in Nat /\ StateWindow \in Nat
          /\ resultThrough \in Nat /\ Len(drawn) \in Nat /\ ResultWindow \in Nat
      BY <1>0
    <3> QED BY <2>3, <3>1, <3>2
  <2> QED BY <1>0, <2>1, <2>2, <2>3, <2>4 DEF Counted, Limited
<1>13. CASE Apply \/ SpoilRecord
  <2>1. UNCHANGED <<numbers, requests>>
    BY <1>13 DEF Apply, SpoilRecord, vars, hostVars, asking, reading, drawing, acknowledging, channels,
       planeVars, numbers
  <2> QED BY <1>2, <1>3, <2>1
<1>14. CASE PublishState
  <2>1. /\ UNCHANGED <<stateThrough, stateAcknowledged, stateSequence, resultThrough, resultAcknowledged,
                       resultSequence, drawn, releases, accepted, actionSequence, requests>>
        /\ Len(published) - stateThrough < StateWindow
    BY <1>14 DEF PublishState, hostVars, asking, reading, drawing, acknowledging
  <2>2. Len(published') = Len(published) + 1
    BY <1>14, PublishTells, NextKeepsIInv DEF IInv, ReadInv
  <2> QED BY <1>0, <1>3, <2>1, <2>2 DEF Counted, Limited
<1>15. ASSUME NEW t \in Tiles, NEW r \in Regions, PublishResult(t, r) PROVE Counted'
  <2>1. /\ UNCHANGED <<stateThrough, stateAcknowledged, stateSequence, published, resultThrough,
                       resultAcknowledged, resultSequence, releases, accepted, actionSequence, requests>>
        /\ Len(drawn) - resultThrough < ResultWindow
    BY <1>15 DEF PublishResult, hostVars, asking, reading, drawing, acknowledging
  <2>2. Len(drawn') = Len(drawn) + 1
    BY <1>15, PublishPaints, NextKeepsIInv DEF IInv, ReadInv
  <2> QED BY <1>0, <1>3, <2>1, <2>2 DEF Counted, Limited
<1>16. ASSUME NEW t \in Tiles, NEW v \in Values, PublishLate(t, v) PROVE Counted'
  <2>1. UNCHANGED <<numbers, requests>>
    BY <1>16 DEF PublishLate, hostVars, asking, reading, drawing, acknowledging, planeVars, numbers
  <2> QED BY <1>2, <1>3, <2>1
<1>17. CASE HostFails /\ AnswerRaises
  BY <1>2, <1>3, <1>17, RaisingLeaves DEF HostFails, reading, drawing, acknowledging, planeVars, numbers
<1> QED BY <1>4, <1>5, <1>6, <1>7, <1>8, <1>9, <1>10, <1>11, <1>12, <1>13, <1>14, <1>15, <1>16, <1>17,
           StepsAre DEF HostFails
-----------------------------------------------------------------------------
\* The records of this session on their way are in their order, and not read yet; those of
\* the replaced session lie before them, and none is left once one of this session was read.
Rising(records, last) ==
    \A i \in DOMAIN records :
        /\ records[i].own =>
             /\ records[i].sequence > last
             /\ \A j \in DOMAIN records : j > i /\ records[j].own =>
                  records[i].sequence < records[j].sequence
        /\ ~records[i].own => last = 0 /\ \A j \in DOMAIN records : records[j].own => i < j
InTheirOrder == Rising(states, stateSequence) /\ Rising(results, resultSequence)

\* Reading the first leaves those after it, and so does dropping it.
LEMMA RisingTail ==
    ASSUME NEW S, NEW s \in Seq(S), s # <<>>, NEW last, Rising(s, last)
    PROVE  /\ Rising(Tail(s), last)
           /\ Head(s).own => Rising(Tail(s), Head(s).sequence)
<1>1. /\ Len(s) \in Nat \ {0} /\ DOMAIN s = 1..Len(s) /\ Head(s) = s[1]
      /\ DOMAIN Tail(s) = 1..(Len(s) - 1)
      /\ \A i \in 1..(Len(s) - 1) : Tail(s)[i] = s[i + 1]
  BY EmptySeq, LenProperties, HeadTailProperties
<1> DEFINE t == Tail(s)
<1>2. /\ \A i \in DOMAIN t : i + 1 \in DOMAIN s /\ t[i] = s[i + 1] /\ i + 1 > 1
      /\ \A i, j \in DOMAIN t : j > i => j + 1 > i + 1
  BY <1>1
<1> HIDE DEF t
<1>3. Rising(t, last)
  <2>1. \A i, j \in DOMAIN t : i + 1 < j + 1 => i < j
    BY <1>1 DEF t
  <2> QED BY <1>2, <2>1 DEF Rising
<1>4. ASSUME Head(s).own PROVE Rising(t, Head(s).sequence)
  <2>1. 1 \in DOMAIN s /\ s[1].own
    BY <1>1, <1>4
  <2>2. \A i \in DOMAIN t : t[i].own => t[i].sequence > s[1].sequence
    <3> SUFFICES ASSUME NEW i \in DOMAIN t, t[i].own PROVE s[i + 1].sequence > s[1].sequence
      BY <1>2
    <3>1. s[1].sequence < s[i + 1].sequence
      BY <1>2, <2>1 DEF Rising
    <3> QED BY <3>1
  <2>3. \A i \in DOMAIN t : t[i].own
    <3> SUFFICES ASSUME NEW i \in DOMAIN t, ~s[i + 1].own PROVE FALSE
      BY <1>2
    <3>1. i + 1 < 1
      BY <1>2, <2>1 DEF Rising
    <3> QED BY <1>2, <3>1, <1>1 DEF t
  <2> QED BY <1>1, <1>3, <2>2, <2>3 DEF Rising
<1> QED BY <1>3, <1>4 DEF t

\* One more goes behind those of this session, when it is the next.
LEMMA RisingAppend ==
    ASSUME NEW S, NEW s \in Seq(S), NEW r \in S, NEW last, Rising(s, last),
           r.own => /\ r.sequence > last
                    /\ \A i \in DOMAIN s : s[i].own => s[i].sequence < r.sequence,
           ~r.own => last = 0 /\ \A i \in DOMAIN s : ~s[i].own
    PROVE  Rising(Append(s, r), last)
<1> DEFINE t == Append(s, r)
<1>1. /\ Len(s) \in Nat /\ DOMAIN s = 1..Len(s)
      /\ DOMAIN t = 1..(Len(s) + 1)
      /\ \A i \in 1..Len(s) : t[i] = s[i]
      /\ t[Len(s) + 1] = r
  BY LenProperties, AppendProperties
<1> HIDE DEF t
<1>2. \A i \in DOMAIN t : \/ i \in DOMAIN s /\ t[i] = s[i] /\ i < Len(s) + 1
                          \/ i = Len(s) + 1 /\ t[i] = r
  BY <1>1
<1>3. ASSUME NEW i \in DOMAIN t, t[i].own
      PROVE  /\ t[i].sequence > last
             /\ \A j \in DOMAIN t : j > i /\ t[j].own => t[i].sequence < t[j].sequence
  <2>1. CASE i \in DOMAIN s /\ t[i] = s[i] /\ i < Len(s) + 1
    BY <1>2, <1>3, <2>1 DEF Rising
  <2>2. CASE i = Len(s) + 1 /\ t[i] = r
    <3>1. \A j \in DOMAIN t : ~(j > i)
      BY <1>1, <2>2
    <3> QED BY <1>3, <2>2, <3>1
  <2> QED BY <1>2, <2>1, <2>2
<1>4. ASSUME NEW i \in DOMAIN t, ~t[i].own
      PROVE  last = 0 /\ \A j \in DOMAIN t : t[j].own => i < j
  <2>1. CASE i \in DOMAIN s /\ t[i] = s[i] /\ i < Len(s) + 1
    BY <1>2, <1>4, <2>1 DEF Rising
  <2>2. CASE i = Len(s) + 1 /\ t[i] = r
    BY <1>2, <1>4, <2>2
  <2> QED BY <1>2, <2>1, <2>2
<1> QED BY <1>3, <1>4 DEF Rising, t

\* What a record is spoiled in does not matter for that.
LEMMA RisingSpoiled ==
    ASSUME NEW s, NEW t, NEW last, Rising(s, last), DOMAIN t = DOMAIN s,
           \A i \in DOMAIN s : t[i].own = s[i].own /\ t[i].sequence = s[i].sequence
    PROVE  Rising(t, last)
BY DEF Rising

\* There are as many records on their way as numbers they can have, at most.
LEMMA RisingFew ==
    ASSUME NEW S, NEW s \in Seq(S), NEW last \in Nat, NEW most \in Nat, last <= most, Rising(s, last),
           \A i \in DOMAIN s : s[i].own => s[i].sequence \in 1..most
    PROVE  Cardinality({i \in DOMAIN s : s[i].own}) <= most - last
<1> DEFINE I == {i \in DOMAIN s : s[i].own}
           T == (last + 1)..most
           f == [i \in I |-> s[i].sequence]
<1>1. I \subseteq Nat
  BY LenProperties
<1>2. f \in [I -> T]
  <2>1. \A i \in I : s[i].sequence \in T
    BY DEF Rising
  <2> QED BY <2>1
<1>3. \A i, j \in I : i # j => f[i] # f[j]
  <2> SUFFICES ASSUME NEW i \in I, NEW j \in I, i # j PROVE s[i].sequence # s[j].sequence
    OBVIOUS
  <2>1. i > j \/ j > i
    BY <1>1
  <2>2. s[i].sequence \in Nat /\ s[j].sequence \in Nat
    OBVIOUS
  <2> QED BY <2>1, <2>2 DEF Rising
<1>4. f \in Injection(I, T)
  BY <1>2, <1>3 DEF Injection, IsInjective
<1>5. IsFiniteSet(T) /\ Cardinality(T) = most - last
  <2>1. /\ last + 1 \in Int /\ most \in Int
        /\ (IF last + 1 > most THEN 0 ELSE most - (last + 1) + 1) = most - last
    OBVIOUS
  <2> HIDE DEF I, f
  <2> QED BY <2>1, FS_Interval
<1> HIDE DEF I, T, f
<1>6. Cardinality(I) <= Cardinality(T)
  BY <1>4, <1>5, FS_Injection
<1> QED BY <1>5, <1>6 DEF I

\* Once one of this session was read, all on their way are of this session.
LEMMA OwnLeft ==
    ASSUME NEW S, NEW s \in Seq(S), NEW last \in Nat, last > 0, Rising(s, last)
    PROVE  Cardinality({i \in DOMAIN s : s[i].own}) = Len(s)
<1>1. \A i \in DOMAIN s : s[i].own
  BY DEF Rising
<1>2. DOMAIN s = 1..Len(s) /\ Len(s) \in Nat
  BY LenProperties
<1>3. {i \in DOMAIN s : s[i].own} = 1..Len(s)
  BY <1>1, <1>2
<1>4. Cardinality(1..Len(s)) = Len(s)
  <2>1. /\ 1 \in Int /\ Len(s) \in Int
        /\ (IF 1 > Len(s) THEN 0 ELSE Len(s) - 1 + 1) = Len(s)
    BY <1>2
  <2> QED BY <2>1, FS_Interval
<1> QED BY <1>3, <1>4

\* No record is on its way when the session starts.
LEMMA InitInTheirOrder == ASSUME ExchangeInit PROVE InTheirOrder
BY DEF ExchangeInit, Init, InTheirOrder, Rising

\* Every step keeps the records in their order.
LEMMA NextInTheirOrder ==
    ASSUME IInv, ReadInv, Wire, Counted, InTheirOrder, [ExchangeNext]_allVars
    PROVE  InTheirOrder'
<1>1. /\ TypeOK /\ TypeOK' /\ Rising(states, stateSequence) /\ Rising(results, resultSequence)
      /\ states \in Seq(StateRecord) /\ results \in Seq(ResultRecord)
  BY NextKeepsIInv DEF IInv, TypeOK, ChannelTypeOK, InTheirOrder
<1>2. CASE UNCHANGED <<states, results, stateSequence, resultSequence>>
  BY <1>1, <1>2 DEF InTheirOrder, Rising
<1>3. CASE Turning
  BY <1>2, <1>3, TurningKeeps DEF reading, drawing, channels
<1>4. CASE HostAdvance /\ (GiveUp \/ CollectAnswer \/ SendNext)
  BY <1>2, <1>4 DEF GiveUp, GiveUpStep, CollectAnswer, SendNext, Assemble, reading, drawing, channels
<1>5. CASE HostFails \/ HostClose
  BY <1>2, <1>5, RaisingLeaves DEF HostFails, SendRaises, Assemble, HostClose, Close, reading, drawing
<1>6. ASSUME NEW k \in Settings, NEW v \in Values, Ask(k, v) PROVE InTheirOrder'
  BY <1>2, <1>6 DEF Ask, Request, RequestStep, reading, drawing, channels
<1>7. CASE TakeOpen \/ TakeData \/ TakeAndClose \/ Apply \/ AnswerWrongly
  <2>1. CASE TakeOpen
    BY <1>2, <2>1 DEF TakeOpen, hostVars, reading, drawing
  <2>2. CASE TakeData
    BY <1>2, <2>2 DEF TakeData, hostVars, reading, drawing
  <2>3. CASE TakeAndClose
    BY <1>2, <2>3 DEF TakeAndClose, hostVars, reading, drawing
  <2>4. CASE Apply
    BY <1>2, <2>4 DEF Apply, vars, hostVars, reading, drawing, channels
  <2>5. CASE AnswerWrongly
    BY <1>2, <2>5 DEF AnswerWrongly, hostVars, reading, drawing
  <2> QED BY <1>7, <2>1, <2>2, <2>3, <2>4, <2>5
<1>8. CASE HostAdvance /\ ReadState
  <2>1. states # <<>> /\ states' = Tail(states) /\ UNCHANGED <<results, resultSequence>>
    BY <1>8 DEF ReadState, drawing
  <2>2. \/ stateSequence' = stateSequence
        \/ Head(states).own /\ stateSequence' = Head(states).sequence
    BY <1>8 DEF ReadState, Foreign, reading
  <2>3. Rising(states', stateSequence')
    BY <1>1, <2>1, <2>2, RisingTail
  <2> QED BY <1>1, <2>1, <2>3 DEF InTheirOrder, Rising
<1>9. CASE HostAdvance /\ ReadResult
  <2>1. results # <<>> /\ results' = Tail(results) /\ UNCHANGED <<states, stateSequence>>
    BY <1>9 DEF ReadResult, reading
  <2>2. \/ resultSequence' = resultSequence
        \/ Head(results).own /\ resultSequence' = Head(results).sequence
    BY <1>9 DEF ReadResult, Foreign, drawing
  <2>3. Rising(results', resultSequence')
    BY <1>1, <2>1, <2>2, RisingTail
  <2> QED BY <1>1, <2>1, <2>3 DEF InTheirOrder, Rising
<1>10. CASE PublishState
  <2> DEFINE r == [own |-> TRUE, readable |-> TRUE, sequence |-> Len(published) + 1,
                   revision |-> Len(published) + 1, applied |-> Applied, shows |-> inEffect]
  <2>1. /\ states' = Append(states, r)
        /\ UNCHANGED <<stateSequence, results, resultSequence>>
    BY <1>10 DEF PublishState, hostVars, reading, drawing
  <2>2. r.own /\ r.sequence > stateSequence /\ r \in StateRecord
    <3>1. Len(published) \in Nat /\ stateSequence \in Nat /\ stateSequence <= Len(published)
      BY <1>1, NumbersAre DEF Counted
    <3>2. Applied \in Nat /\ inEffect \in [Settings -> Values]
      BY <1>1, NumbersAre DEF IInv, Applied, TypeOK, PlaneTypeOK
    <3> QED BY <3>1, <3>2 DEF StateRecord
  <2>3. \A i \in DOMAIN states : states[i].own => states[i].sequence < r.sequence
    <3>1. Len(published) \in Nat
      BY <1>1, NumbersAre
    <3>2. \A i \in DOMAIN states : states[i] \in Told
      BY LenProperties, ElementOfSeq DEF ReadInv, StatesAreTold
    <3> QED BY <3>1, <3>2 DEF Told
  <2> HIDE DEF r
  <2>4. Rising(states', stateSequence)
    BY <1>1, <2>1, <2>2, <2>3, RisingAppend
  <2> QED BY <1>1, <2>1, <2>4 DEF InTheirOrder, Rising
<1>11. ASSUME NEW t \in Tiles, NEW g \in Regions, PublishResult(t, g) PROVE InTheirOrder'
  <2> DEFINE r == [own |-> TRUE, readable |-> TRUE, whole |-> TRUE, sequence |-> Len(drawn) + 1,
                   revision |-> Len(drawn) + 1, tile |-> t, region |-> g]
  <2>1. /\ results' = Append(results, r)
        /\ UNCHANGED <<resultSequence, states, stateSequence>>
    BY <1>11 DEF PublishResult, hostVars, reading, drawing
  <2>2. r.own /\ r.sequence > resultSequence /\ r \in ResultRecord
    <3>1. Len(drawn) \in Nat /\ resultSequence \in Nat /\ resultSequence <= Len(drawn)
      BY <1>1, NumbersAre DEF Counted
    <3> QED BY <3>1 DEF ResultRecord
  <2>3. \A i \in DOMAIN results : results[i].own => results[i].sequence < r.sequence
    <3>1. Len(drawn) \in Nat
      BY <1>1, NumbersAre
    <3>2. \A i \in DOMAIN results : results[i] \in Painted
      BY LenProperties, ElementOfSeq DEF ReadInv, ResultsArePainted
    <3> QED BY <3>1, <3>2 DEF Painted
  <2> HIDE DEF r
  <2>4. Rising(results', resultSequence)
    BY <1>1, <2>1, <2>2, <2>3, RisingAppend
  <2> QED BY <1>1, <2>1, <2>4 DEF InTheirOrder, Rising
<1>12. ASSUME NEW t \in Tiles, NEW v \in Values, PublishLate(t, v) PROVE InTheirOrder'
  <2> DEFINE late == [own |-> FALSE, readable |-> TRUE, sequence |-> 1, revision |-> 9,
                      applied |-> 9, shows |-> [k \in Settings |-> v]]
             painted == [own |-> FALSE, readable |-> TRUE, whole |-> TRUE, sequence |-> 1,
                         revision |-> 9, tile |-> t, region |-> 1]
  <2>1. /\ states' \in {states, Append(states, late)}
        /\ results' \in {results, Append(results, painted)}
        /\ UNCHANGED <<stateSequence, resultSequence>>
    BY <1>12 DEF PublishLate, hostVars, reading, drawing
  <2>2. late \in StateRecord /\ ~late.own /\ painted \in ResultRecord /\ ~painted.own
    BY ExchangeAssumption DEF StateRecord, ResultRecord, Regions
  <2> HIDE DEF late, painted
  <2>3. Len(published) = 0 /\ stateSequence = 0 /\ Len(drawn) = 0 /\ resultSequence = 0
    <3>1. published = <<>> /\ drawn = <<>>
      BY <1>12 DEF PublishLate, Wire, OpensFirst
    <3> QED BY <1>1, <3>1, NumbersAre DEF Counted
  <2>4. \A i \in DOMAIN states : ~states[i].own
    <3>1. \A i \in DOMAIN states : states[i] \in Told
      BY LenProperties, ElementOfSeq DEF ReadInv, StatesAreTold
    <3> QED BY <2>3, <3>1 DEF Told
  <2>5. \A i \in DOMAIN results : ~results[i].own
    <3>1. \A i \in DOMAIN results : results[i] \in Painted
      BY LenProperties, ElementOfSeq DEF ReadInv, ResultsArePainted
    <3> QED BY <2>3, <3>1 DEF Painted
  <2>6. Rising(states', stateSequence)
    BY <1>1, <2>1, <2>2, <2>3, <2>4, RisingAppend
  <2>7. Rising(results', resultSequence)
    BY <1>1, <2>1, <2>2, <2>3, <2>5, RisingAppend
  <2> QED BY <2>1, <2>6, <2>7 DEF InTheirOrder
<1>13. CASE SpoilRecord
  <2>1. UNCHANGED <<stateSequence, resultSequence>>
    BY <1>13 DEF SpoilRecord, hostVars, reading, drawing
  <2>2. Rising(states', stateSequence)
    <3>1. CASE states' = states \/ (states # <<>> /\ states' = Tail(states))
      BY <1>1, <3>1, RisingTail
    <3>2. CASE states # <<>> /\ states' = [states EXCEPT ![1].readable = FALSE]
      <4>1. /\ DOMAIN states' = DOMAIN states
            /\ \A i \in DOMAIN states : /\ states'[i].own = states[i].own
                                        /\ states'[i].sequence = states[i].sequence
        <5>1. \A i \in DOMAIN states : states[i] \in StateRecord
          BY <1>1, LenProperties, ElementOfSeq
        <5> QED BY <3>2, <5>1 DEF StateRecord
      <4> HIDE <3>2
      <4> QED BY <1>1, <4>1, RisingSpoiled
    <3> QED BY <1>13, <3>1, <3>2 DEF SpoilRecord
  <2>3. Rising(results', resultSequence)
    <3>1. CASE results' = results \/ (results # <<>> /\ results' = Tail(results))
      BY <1>1, <3>1, RisingTail
    <3>2. CASE /\ results # <<>>
               /\ \/ results' = [results EXCEPT ![1].readable = FALSE]
                  \/ results' = [results EXCEPT ![1].whole = FALSE]
      <4>1. /\ DOMAIN results' = DOMAIN results
            /\ \A i \in DOMAIN results : /\ results'[i].own = results[i].own
                                         /\ results'[i].sequence = results[i].sequence
        <5>1. \A i \in DOMAIN results : results[i] \in ResultRecord
          BY <1>1, LenProperties, ElementOfSeq
        <5> QED BY <3>2, <5>1 DEF ResultRecord
      <4> QED BY <1>1, <4>1, RisingSpoiled
    <3> QED BY <1>13, <3>1, <3>2 DEF SpoilRecord
  <2> QED BY <2>1, <2>2, <2>3 DEF InTheirOrder
<1> QED BY <1>3, <1>4, <1>5, <1>6, <1>7, <1>8, <1>9, <1>10, <1>11, <1>12, <1>13, StepsAre
-----------------------------------------------------------------------------
\* What holds of every exchange, whatever the Realtime Plane answers.
Exchanged == IInv /\ ReadInv /\ Wire /\ Counted /\ InTheirOrder

\* The requests, the numbers and the records under way stay in their order (session.py:137-270),
\* whatever the Realtime Plane answers, skips or spoils.
THEOREM ExchangeInductive == ExchangeSpec => []Exchanged
<1>1. ExchangeInit => Exchanged
  BY InitIInv, InitReads, InitWire, InitCounted, InitInTheirOrder DEF Exchanged
<1>2. Exchanged /\ [ExchangeNext]_allVars => Exchanged'
  <2> SUFFICES ASSUME Exchanged, [ExchangeNext]_allVars PROVE Exchanged'
    OBVIOUS
  <2>1. IInv /\ ReadInv /\ Wire /\ Counted /\ InTheirOrder
    BY DEF Exchanged
  <2>2. IInv' /\ Wire' /\ Counted' /\ InTheirOrder'
    BY <2>1, NextKeepsIInv, NextWire, NextCounted, NextInTheirOrder
  <2>3. ReadInv'
    BY <2>1, <2>2, NextReads DEF IInv
  <2> QED BY <2>2, <2>3 DEF Exchanged
<1> QED BY <1>1, <1>2, PTL DEF ExchangeSpec

\* The limits the ports are opened with hold (channels.py:57-66, 75-82), with room for a
\* farewell beside the request under way, whatever the Realtime Plane answers, skips or
\* spoils: for the records of this session always, and for all the records of a stream once
\* the host has read the first one of this session.
THEOREM PortsStayWithinLimits ==
    ASSUME ActionWindow > 1
    PROVE  ExchangeSpec => []PortsAreWithinLimits
<1>1. ASSUME Exchanged PROVE PortsAreWithinLimits
  <2>1. TypeOK /\ OneAtATime /\ Counted /\ InTheirOrder /\ ReadInv
    BY <1>1 DEF Exchanged, IInv, Wire
  <2>2. Len(requests) + (IF answer.arrived THEN 1 ELSE 0) <= ActionWindow
    <3>1. Len(requests) \in Nat
      BY <2>1, LenProperties DEF TypeOK, ChannelTypeOK
    <3> QED BY <2>1, <3>1, SessionAssumption DEF OneAtATime
  <2>3. \A n \in DOMAIN requests : requests[n].kind = "data" =>
          Len(requests[n].regions) <= ResultWindow /\ Len(requests[n].actions) <= ActionWindow
    <3>1. \A q \in Flight : Len(q.regions) <= ResultWindow /\ Len(q.actions) <= ActionWindow
      BY <2>1 DEF Counted, Limited
    <3> QED BY <3>1 DEF Flight, Outgoing
  <2>4. Cardinality({i \in DOMAIN states : states[i].own}) <= StateWindow
    <3>1. \A i \in DOMAIN states : states[i].own => states[i].sequence \in 1..Len(published)
      BY <2>1, LenProperties, ElementOfSeq DEF ReadInv, StatesAreTold, Told
    <3>2. /\ stateSequence \in Nat /\ Len(published) \in Nat /\ stateSequence <= Len(published)
          /\ states \in Seq(StateRecord) /\ Rising(states, stateSequence)
      BY <2>1, NumbersAre DEF Counted, InTheirOrder, TypeOK, ChannelTypeOK
    <3>3. Cardinality({i \in DOMAIN states : states[i].own}) <= Len(published) - stateSequence
      BY <3>1, <3>2, RisingFew
    <3>4. Len(published) - stateSequence <= StateWindow
      BY <2>1, <3>2, NumbersAre DEF Counted
    <3>5. Cardinality({i \in DOMAIN states : states[i].own}) \in Int
      <4>1. {i \in DOMAIN states : states[i].own} \in SUBSET (1..Len(states)) /\ Len(states) \in Nat
        BY <3>2, LenProperties
      <4> QED BY <4>1, FS_Interval, FS_Subset, FS_CardinalityType
    <3> QED BY <3>2, <3>3, <3>4, <3>5, ExchangeAssumption
  <2>5. Cardinality({i \in DOMAIN results : results[i].own}) <= ResultWindow
    <3>1. \A i \in DOMAIN results : results[i].own => results[i].sequence \in 1..Len(drawn)
      BY <2>1, LenProperties, ElementOfSeq DEF ReadInv, ResultsArePainted, Painted
    <3>2. /\ resultSequence \in Nat /\ Len(drawn) \in Nat /\ resultSequence <= Len(drawn)
          /\ results \in Seq(ResultRecord) /\ Rising(results, resultSequence)
      BY <2>1, NumbersAre DEF Counted, InTheirOrder, TypeOK, ChannelTypeOK
    <3>3. Cardinality({i \in DOMAIN results : results[i].own}) <= Len(drawn) - resultSequence
      BY <3>1, <3>2, RisingFew
    <3>4. Len(drawn) - resultSequence <= ResultWindow
      BY <2>1, <3>2, NumbersAre DEF Counted
    <3>5. Cardinality({i \in DOMAIN results : results[i].own}) \in Int
      <4>1. {i \in DOMAIN results : results[i].own} \in SUBSET (1..Len(results)) /\ Len(results) \in Nat
        BY <3>2, LenProperties
      <4> QED BY <4>1, FS_Interval, FS_Subset, FS_CardinalityType
    <3> QED BY <3>2, <3>3, <3>4, <3>5, ExchangeAssumption
  <2>6. ASSUME stateSequence > 0 PROVE Len(states) <= StateWindow
    <3>1. states \in Seq(StateRecord) /\ Rising(states, stateSequence)
      BY <2>1 DEF InTheirOrder, TypeOK, ChannelTypeOK
    <3>2. Cardinality({i \in DOMAIN states : states[i].own}) = Len(states)
      BY <2>1, <2>6, <3>1, NumbersAre, OwnLeft
    <3> QED BY <2>4, <3>2
  <2>7. ASSUME resultSequence > 0 PROVE Len(results) <= ResultWindow
    <3>1. results \in Seq(ResultRecord) /\ Rising(results, resultSequence)
      BY <2>1 DEF InTheirOrder, TypeOK, ChannelTypeOK
    <3>2. Cardinality({i \in DOMAIN results : results[i].own}) = Len(results)
      BY <2>1, <2>7, <3>1, NumbersAre, OwnLeft
    <3> QED BY <2>5, <3>2
  <2> QED BY <2>2, <2>3, <2>4, <2>5, <2>6, <2>7 DEF PortsAreWithinLimits
<1> QED BY <1>1, ExchangeInductive, PTL
-----------------------------------------------------------------------------
\* A Realtime Plane that breaks the protocol may answer anything but an acknowledgement
\* of what it drops, and the acceptance of a session it ends in the same answer.
HonestAnswers ==
    \A frames \in WrongAnswers : \A i \in DOMAIN frames :
        /\ frames[i].kind # "ACK"
        /\ frames[i].kind = "ACCEPT" => ~Ends(frames)

\* The actions of a request under way are the last ones sent.
Newest(q) ==
    /\ Len(q.actions) <= actionSequence
    /\ \A i \in DOMAIN q.actions : q.actions[i].sequence = actionSequence - Len(q.actions) + i
    /\ awaiting => requestThrough = (IF Len(q.actions) = 0 THEN 0 ELSE actionSequence)
    /\ serving = "own" => accepted + Len(q.actions) = actionSequence

\* Without a request under way the Realtime Plane has accepted everything, or the host
\* will learn that it has not.
AllAccepted ==
    (/\ serving = "own" /\ Attached /\ Flight = {}
     /\ answer.arrived => Accepts(answer.frames, requestThrough))
    => accepted = actionSequence
AcceptsFirst == \A i \in DOMAIN answer.frames : answer.frames[i].kind = "ACCEPT" => ~Ends(answer.frames)
Waiting == serving = "own" => \A i \in DOMAIN waiting : waiting[i].sequence = Applied + i

Ordered == (\A q \in Flight : Newest(q)) /\ AllAccepted /\ AcceptsFirst /\ Waiting

\* The farewell carries nothing.
LEMMA ClosingCarries == ASSUME TypeOK, HostClose PROVE Flight' = Flight
<1>1. CASE requests' = Append(requests, CloseRequest)
  <2>1. Outgoing' = Outgoing \cup {CloseRequest}
    BY <1>1, Sending
  <2> QED BY <2>1 DEF Flight, CloseRequest
<1>2. CASE requests' = requests
  BY <1>2 DEF Flight, Outgoing
<1> QED BY <1>1, <1>2 DEF HostClose, Close

\* A request is sent when no other is under way, and carries what the host has to tell.
LEMMA SendingCarries ==
    ASSUME TypeOK, OneAtATime, SendNext \/ SendRaises
    PROVE  /\ Flight = {}
           /\ SendNext => Flight' = {DataRequest(stateSequence, resultSequence, releases, Batch)}
           /\ SendRaises => Flight' = {}
<1> DEFINE q == DataRequest(stateSequence, resultSequence, releases, Batch)
<1>1. Len(requests) = 0
  <2>1. turn = "send" /\ Len(requests) \in Nat
    BY LenProperties DEF SendNext, SendRaises, TypeOK, ChannelTypeOK
  <2> QED BY <2>1 DEF OneAtATime
<1>2. Outgoing = {} /\ Flight = {}
  BY <1>1, NothingOut
<1>3. ASSUME SendNext PROVE Flight' = {q}
  <2>1. q \in Data /\ q.kind = "data"
    BY BatchType DEF DataRequest, Data, TypeOK, HostTypeOK
  <2>2. requests' = Append(requests, q)
    BY <1>3 DEF SendNext
  <2> HIDE DEF q
  <2>3. Outgoing' = {q}
    BY <1>2, <2>1, <2>2, Sending
  <2> QED BY <2>1, <2>3 DEF Flight
<1>4. ASSUME SendRaises PROVE Flight' = {}
  BY <1>2, <1>4 DEF SendRaises, Flight, Outgoing
<1> QED BY <1>2, <1>3, <1>4

\* A request with data is at the front, unless the farewell overtook nothing.
LEMMA DataIsFirst ==
    ASSUME TypeOK, OneAtATime, turn # "dropped", Flight # {}, requests # <<>>
    PROVE  Flight = {Head(requests)} /\ ~answer.arrived /\ (state # "CLOSED" => awaiting)
<1>1. Len(requests) = 1 /\ ~answer.arrived /\ (state # "CLOSED" => awaiting)
  <2>1. Len(requests) \in Nat \ {0}
    BY Taking, EmptySeq DEF TypeOK, ChannelTypeOK
  <2> QED BY <2>1 DEF OneAtATime
<1>2. Outgoing = {Head(requests)}
  <2>1. DOMAIN requests = 1..1 /\ Head(requests) = requests[1]
    <3>1. requests \in Seq({OpenRequest, CloseRequest} \cup Data)
      BY DEF TypeOK, ChannelTypeOK
    <3> QED BY <1>1, <3>1, LenProperties, HeadTailProperties
  <2> QED BY <2>1 DEF Outgoing
<1> QED BY <1>1, <1>2 DEF Flight

\* Nothing is ordered before the session opens.
LEMMA InitOrdered == ASSUME ExchangeInit PROVE Ordered
<1>1. Flight = {}
  BY DEF ExchangeInit, Init, Flight, Outgoing, OpenRequest
<1>2. AllAccepted /\ AcceptsFirst /\ Waiting
  BY DEF ExchangeInit, Init, NoAnswer, AllAccepted, AcceptsFirst, Waiting
<1> QED BY <1>1, <1>2 DEF Ordered

\* What waits is in order when more that is in order comes behind it.
LEMMA WaitingAppend ==
    ASSUME TypeOK, NEW actions \in Seq(Action), NEW last \in Nat,
           \A i \in DOMAIN waiting : waiting[i].sequence = last - Len(waiting) + i,
           \A i \in DOMAIN actions : actions[i].sequence = last + i
    PROVE  /\ Len(waiting \o actions) = Len(waiting) + Len(actions)
           /\ \A i \in DOMAIN (waiting \o actions) :
                (waiting \o actions)[i].sequence = last - Len(waiting) + i
<1> DEFINE all == waiting \o actions
<1>1. /\ Len(waiting) \in Nat /\ DOMAIN waiting = 1..Len(waiting)
      /\ Len(actions) \in Nat /\ DOMAIN actions = 1..Len(actions)
  BY LenProperties DEF TypeOK
<1>0. waiting \in Seq(Action)
  BY DEF TypeOK, PlaneTypeOK
<1>2. /\ Len(all) = Len(waiting) + Len(actions) /\ all \in Seq(Action)
      /\ \A i \in 1..(Len(waiting) + Len(actions)) :
           all[i] = IF i <= Len(waiting) THEN waiting[i] ELSE actions[i - Len(waiting)]
  <2> HIDE DEF all
  <2> DEFINE A == Action
  <2> HIDE DEF A
  <2>1. waiting \in Seq(A) /\ actions \in Seq(A)
    BY <1>0 DEF A
  <2>2. /\ Len(all) = Len(waiting) + Len(actions) /\ all \in Seq(A)
        /\ \A i \in 1..(Len(waiting) + Len(actions)) :
             all[i] = IF i <= Len(waiting) THEN waiting[i] ELSE actions[i - Len(waiting)]
    BY <2>1, ConcatProperties DEF all
  <2> QED BY <2>2 DEF A
<1> HIDE DEF all
<1>3. DOMAIN all = 1..(Len(waiting) + Len(actions))
  BY <1>2, LenProperties
<1>4. ASSUME NEW i \in DOMAIN all PROVE all[i].sequence = last - Len(waiting) + i
  <2>1. CASE i <= Len(waiting)
    <3>1. i \in DOMAIN waiting /\ all[i] = waiting[i]
      BY <1>1, <1>2, <1>3, <1>4, <2>1
    <3> QED BY <3>1
  <2>2. CASE ~(i <= Len(waiting))
    <3>1. i - Len(waiting) \in DOMAIN actions /\ all[i] = actions[i - Len(waiting)]
      BY <1>1, <1>2, <1>3, <1>4, <2>2
    <3>2. actions[i - Len(waiting)].sequence = last + (i - Len(waiting))
      BY <3>1
    <3> QED BY <1>1, <1>3, <1>4, <3>1, <3>2
  <2> QED BY <2>1, <2>2
<1> QED BY <1>2, <1>4 DEF all

\* The order is kept by every step that leaves the actions alone and calls on nothing new.
LEMMA OrderedStays ==
    ASSUME Ordered, UNCHANGED <<actionSequence, serving, accepted, waiting, answer>>,
           Flight' = Flight, Attached' => Attached,
           awaiting' => awaiting,
           awaiting' \/ Attached' => requestThrough' = requestThrough
    PROVE  Ordered'
BY DEF Ordered, Newest, AllAccepted, AcceptsFirst, Waiting, Applied, Accepts

\* Every step keeps the actions in their order.
LEMMA NextOrdered ==
    ASSUME HonestAnswers, IInv, Wire, Counted, Ordered, [ExchangeNext]_allVars
    PROVE  Ordered'
<1>1. TypeOK /\ TypeOK' /\ OneAtATime /\ OpensFirst
  BY NextKeepsIInv DEF IInv, Wire
<1>2. /\ accepted \in Nat /\ actionSequence \in Nat /\ Len(waiting) \in Nat
      /\ \A q \in Flight : Len(q.actions) \in Nat /\ q.actions \in Seq(Action)
  BY <1>1, NumbersAre
<1>3. ASSUME UNCHANGED requests PROVE Flight' = Flight
  BY <1>3 DEF Flight, Outgoing
<1>4. CASE Turning
  <2>1. UNCHANGED <<actionSequence, requestThrough, serving, accepted, waiting, answer, requests, awaiting>>
        /\ Attached' = Attached
    BY <1>4, TurningKeeps DEF asking, channels, planeVars
  <2> QED BY <1>3, <2>1, OrderedStays
<1>5. CASE HostAdvance /\ (GiveUp \/ ReadState \/ ReadResult)
  <2>1. UNCHANGED <<actionSequence, requestThrough, serving, accepted, waiting, answer, requests>>
    <3>1. CASE GiveUp
      BY <1>5, <3>1 DEF HostAdvance, GiveUp, GiveUpStep, channels, planeVars
    <3>2. CASE ReadState
      BY <1>5, <3>2 DEF HostAdvance, ReadState, asking, planeVars
    <3>3. CASE ReadResult
      BY <1>5, <3>3 DEF HostAdvance, ReadResult, asking, planeVars
    <3> QED BY <1>5, <3>1, <3>2, <3>3
  <2>2. (Attached' => Attached) /\ (awaiting' => awaiting)
    BY <1>5 DEF GiveUp, GiveUpStep, ReadState, ReadResult, End, Attached
  <2> QED BY <1>3, <2>1, <2>2, OrderedStays
<1>6. CASE HostAdvance /\ CollectAnswer
  <2>1. /\ UNCHANGED <<actionSequence, serving, accepted, waiting, requests>>
        /\ turn = "idle" /\ state # "CLOSED" /\ answer.arrived
        /\ awaiting' = FALSE /\ answer' = NoAnswer
    BY <1>6 DEF HostAdvance, CollectAnswer, planeVars
  <2>2. Flight' = {} /\ Flight = {}
    <3>1. Len(requests) \in Nat
      BY <1>1, LenProperties DEF TypeOK, ChannelTypeOK
    <3>2. Len(requests) = 0
      BY <1>1, <2>1, <3>1 DEF OneAtATime
    <3> QED BY <1>1, <1>3, <2>1, <3>2, NothingOut
  <2>3. AllAccepted'
    <3> SUFFICES ASSUME serving = "own", state' # "CLOSED" PROVE accepted = actionSequence
      BY <2>1 DEF AllAccepted, Attached
    <3>1. CASE state = "OPENING"
      BY <1>1, <1>2, <3>1 DEF OpensFirst, Counted
    <3>2. CASE state # "OPENING"
      <4>1. Accepts(answer.frames, requestThrough)
        BY <1>1, <1>6, <2>1, <3>2 DEF CollectAnswer, StateAfter, TypeOK, HostTypeOK
      <4> QED BY <2>1, <2>2, <4>1 DEF Ordered, AllAccepted, Attached
    <3> QED BY <3>1, <3>2
  <2>4. AcceptsFirst' /\ Waiting'
    BY <2>1 DEF NoAnswer, AcceptsFirst, Ordered, Waiting, Applied
  <2> QED BY <2>2, <2>3, <2>4 DEF Ordered
<1>7. CASE (HostAdvance /\ SendNext) \/ (HostFails /\ SendRaises)
  <2>1. /\ UNCHANGED <<state, answer, serving, accepted, waiting>>
        /\ actionSequence' = actionSequence + BatchSize /\ turn = "send"
        /\ turn' = "raised" \/ SendNext
    BY <1>7 DEF HostAdvance, HostFails, SendNext, SendRaises, Assemble, NextAction, planeVars
  <2>2. BatchSize \in Nat /\ Len(Batch) = BatchSize /\ DOMAIN Batch = 1..BatchSize
    BY <1>1, BatchIsAPrefix, BatchType DEF Batch
  <2>3. /\ Flight = {}
        /\ \A q \in Flight' : SendNext /\ q = DataRequest(stateSequence, resultSequence, releases, Batch)
        /\ SendNext => Flight' # {}
    BY <1>1, <1>7, SendingCarries DEF HostFails
  <2>4. serving = "own" => accepted = actionSequence
    <3>1. Attached /\ ~answer.arrived
      BY <1>1, <2>1 DEF OneAtATime, Attached
    <3> QED BY <2>3, <3>1 DEF Ordered, AllAccepted
  <2>5. ASSUME NEW q \in Flight' PROVE Newest(q)'
    <3>1. /\ q.actions = Batch
          /\ requestThrough' = IF BatchSize > 0 THEN actionSequence + BatchSize ELSE 0
      BY <2>3 DEF DataRequest, SendNext
    <3>2. \A i \in 1..BatchSize : Batch[i].sequence = actionSequence + i
      BY DEF Batch
    <3>3. actionSequence' - BatchSize = actionSequence /\ Len(q.actions) = BatchSize
          /\ BatchSize <= actionSequence' /\ (BatchSize > 0 <=> BatchSize # 0)
      BY <1>2, <2>1, <2>2, <3>1
    <3>4. \A i \in DOMAIN q.actions : q.actions[i].sequence = actionSequence' - Len(q.actions) + i
      BY <2>2, <3>1, <3>2, <3>3
    <3>5. serving' = "own" => accepted' + Len(q.actions) = actionSequence'
      BY <2>1, <2>4, <3>3
    <3> QED BY <2>1, <3>1, <3>3, <3>4, <3>5 DEF Newest
  <2>6. AllAccepted'
    BY <2>1, <2>3 DEF AllAccepted, Attached
  <2>7. AcceptsFirst' /\ Waiting'
    BY <2>1 DEF Ordered, AcceptsFirst, Waiting, Applied
  <2> QED BY <2>5, <2>6, <2>7 DEF Ordered
<1>18. CASE HostFails /\ AnswerRaises
  <2>1. /\ UNCHANGED <<actionSequence, serving, accepted, waiting, requests>>
        /\ state # "CLOSED" /\ turn = "idle" /\ ~Attached'
    BY <1>18, RaisingLeaves DEF HostFails, planeVars, Attached
  <2>2. CASE UNCHANGED <<state, queued, sent, requestThrough, awaiting, answer>>
    BY <1>3, <2>1, <2>2, OrderedStays
  <2>3. CASE answer.arrived /\ awaiting' = FALSE /\ answer' = NoAnswer
    <3>1. Flight' = {}
      <4>1. Len(requests) \in Nat
        BY <1>1, LenProperties DEF TypeOK, ChannelTypeOK
      <4>2. Len(requests) = 0
        BY <1>1, <2>1, <2>3, <4>1 DEF OneAtATime
      <4> QED BY <1>1, <1>3, <2>1, <4>2, NothingOut
    <3>2. AllAccepted'
      BY <2>1 DEF AllAccepted
    <3>3. AcceptsFirst' /\ Waiting'
      BY <2>1, <2>3 DEF NoAnswer, AcceptsFirst, Ordered, Waiting, Applied
    <3> QED BY <3>1, <3>2, <3>3 DEF Ordered
  <2> QED BY <1>18, <2>2, <2>3, RaisingLeaves
<1>8. CASE HostClose
  <2>1. /\ UNCHANGED <<actionSequence, requestThrough, serving, accepted, waiting, answer>>
        /\ ~Attached' /\ (awaiting' => awaiting)
    BY <1>8 DEF HostClose, Close, End, Attached, planeVars
  <2> QED BY <1>1, <1>8, <2>1, ClosingCarries, OrderedStays
<1>9. ASSUME NEW k \in Settings, NEW v \in Values, Ask(k, v) PROVE Ordered'
  <2>1. UNCHANGED <<state, turn, actionSequence, requestThrough, serving, accepted, waiting, answer,
                    requests, awaiting>>
    BY <1>9 DEF Ask, Request, RequestStep, channels, planeVars
  <2> QED BY <1>3, <2>1, OrderedStays DEF Attached
<1>10. CASE TakeOpen
  <2>1. /\ serving = "replaced" /\ OpenRequest \in Outgoing /\ Flight' = {}
    BY <1>1, <1>10, Taking DEF TakeOpen, OpensFirst
  <2>2. /\ UNCHANGED <<actionSequence, accepted, waiting>>
        /\ accepted = 0 /\ waiting = <<>> /\ actionSequence = 0
    BY <1>1, <1>10, <2>1 DEF TakeOpen, OpensFirst, hostVars, asking
  <2>3. AcceptsFirst'
    BY <1>10 DEF TakeOpen, Answer, AcceptsFirst, Ends
  <2> QED BY <2>1, <2>2, <2>3 DEF Ordered, AllAccepted, Waiting
<1>11. CASE TakeData
  <2> DEFINE q == Head(requests)
  <2>1. q \in Flight /\ Flight' = {}
    BY <1>1, <1>11, Taking DEF TakeData, Flight
  <2>2. /\ serving = "own" /\ UNCHANGED actionSequence
        /\ accepted' = accepted + Len(q.actions) /\ waiting' = waiting \o q.actions
    BY <1>11 DEF TakeData, hostVars, asking
  <2>3. AcceptsFirst'
    BY <1>11 DEF TakeData, Answer, AcceptsFirst
  <2> HIDE DEF q
  <2>4. /\ accepted + Len(q.actions) = actionSequence /\ Len(q.actions) \in Nat
        /\ q.actions \in Seq(Action)
        /\ \A i \in DOMAIN q.actions : q.actions[i].sequence = actionSequence - Len(q.actions) + i
    BY <1>2, <2>1, <2>2 DEF Ordered, Newest
  <2>5. /\ \A i \in DOMAIN waiting : waiting[i].sequence = accepted - Len(waiting) + i
        /\ \A i \in DOMAIN q.actions : q.actions[i].sequence = accepted + i
    <3>1. actionSequence - Len(q.actions) = accepted
      BY <1>2, <2>4
    <3> QED BY <2>2, <2>4, <3>1 DEF Ordered, Waiting, Applied
  <2>6. /\ Len(waiting') = Len(waiting) + Len(q.actions)
        /\ \A i \in DOMAIN waiting' : waiting'[i].sequence = accepted - Len(waiting) + i
    BY <1>1, <1>2, <2>2, <2>4, <2>5, WaitingAppend
  <2>7. Applied' = accepted - Len(waiting)
    BY <1>2, <2>2, <2>4, <2>6 DEF Applied
  <2>8. Waiting'
    BY <2>6, <2>7 DEF Waiting
  <2> QED BY <2>1, <2>2, <2>3, <2>4, <2>8 DEF Ordered, AllAccepted
<1>12. CASE TakeAndClose
  <2>1. Flight' = {} /\ serving' # "own"
    <3>1. requests # <<>> /\ requests' = Tail(requests)
      BY <1>12 DEF TakeAndClose
    <3> QED BY <1>1, <1>12, <3>1, Taking DEF TakeAndClose
  <2>2. AcceptsFirst'
    BY <1>12 DEF TakeAndClose, Answer, AcceptsFirst
  <2> QED BY <2>1, <2>2 DEF Ordered, AllAccepted, Waiting
<1>13. CASE AnswerWrongly
  <2>1. /\ UNCHANGED <<state, turn, actionSequence, requestThrough, serving, accepted, waiting, awaiting>>
        /\ requests # <<>> /\ requests' = Tail(requests)
        /\ answer'.arrived /\ answer'.frames \in WrongAnswers
    BY <1>13 DEF AnswerWrongly, Answer, hostVars, asking, planeVars
  <2>2. Flight' = {}
    BY <1>1, <2>1, Taking
  <2>3. AcceptsFirst'
    BY <2>1 DEF AcceptsFirst, HonestAnswers
  <2>4. AllAccepted'
    <3> SUFFICES ASSUME serving = "own", Attached, Accepts(answer'.frames, requestThrough)
                 PROVE  accepted = actionSequence
      BY <2>1 DEF AllAccepted, Attached
    <3>1. requestThrough = 0
      BY <2>1 DEF Accepts, HonestAnswers
    <3>2. CASE Flight = {}
      <4>1. ~answer.arrived
        <5>1. Len(requests) \in Nat \ {0}
          BY <1>1, <2>1, Taking
        <5> QED BY <1>1, <5>1 DEF OneAtATime, Attached
      <4> QED BY <3>2, <4>1 DEF Ordered, AllAccepted
    <3>3. CASE Flight # {}
      <4>1. Head(requests) \in Flight /\ awaiting
        BY <1>1, <2>1, <3>3, DataIsFirst DEF Attached
      <4> DEFINE q == Head(requests)
      <4> HIDE DEF q
      <4>2. Newest(q) /\ Len(q.actions) \in Nat
        BY <1>2, <4>1 DEF q, Ordered
      <4> QED BY <1>2, <3>1, <4>1, <4>2 DEF Newest
    <3> QED BY <3>2, <3>3
  <2>5. Waiting'
    BY <2>1 DEF Ordered, Waiting, Applied
  <2> QED BY <2>2, <2>3, <2>4, <2>5 DEF Ordered
<1>14. CASE Apply
  <2>1. /\ UNCHANGED <<state, turn, actionSequence, requestThrough, serving, accepted, answer, requests,
                       awaiting>>
        /\ waiting # <<>> /\ waiting' = Tail(waiting) /\ serving = "own"
    BY <1>14 DEF Apply, vars, hostVars, asking, channels
  <2>2. /\ DOMAIN waiting = 1..Len(waiting) /\ Len(waiting) \in Nat \ {0}
        /\ DOMAIN waiting' = 1..(Len(waiting) - 1) /\ Len(waiting') = Len(waiting) - 1
        /\ \A i \in 1..(Len(waiting) - 1) : waiting'[i] = waiting[i + 1]
    BY <1>1, <2>1, LenProperties, EmptySeq, HeadTailProperties DEF TypeOK
  <2>3. Applied' = Applied + 1 /\ Applied \in Int
    BY <1>2, <2>1, <2>2 DEF Applied
  <2>4. \A i \in DOMAIN waiting' : waiting'[i].sequence = Applied' + i
    <3> SUFFICES ASSUME NEW i \in DOMAIN waiting' PROVE waiting'[i].sequence = Applied' + i
      OBVIOUS
    <3>1. i + 1 \in DOMAIN waiting /\ waiting'[i] = waiting[i + 1]
      BY <2>2
    <3>2. waiting[i + 1].sequence = Applied + (i + 1)
      BY <2>1, <3>1 DEF Ordered, Waiting
    <3> QED BY <2>2, <2>3, <3>1, <3>2
  <2>5. (\A q \in Flight' : Newest(q)') /\ AllAccepted' /\ AcceptsFirst'
    BY <1>3, <2>1 DEF Ordered, Newest, AllAccepted, AcceptsFirst, Attached, Accepts
  <2> QED BY <2>4, <2>5 DEF Ordered, Waiting
<1>15. CASE PublishState \/ SpoilRecord
  <2>1. UNCHANGED <<state, turn, actionSequence, requestThrough, serving, accepted, waiting, answer,
                    requests, awaiting>>
    BY <1>15 DEF PublishState, SpoilRecord, hostVars, asking, channels, planeVars
  <2> QED BY <1>3, <2>1, OrderedStays DEF Attached
<1>16. ASSUME NEW t \in Tiles, NEW r \in Regions, PublishResult(t, r) PROVE Ordered'
  <2>1. UNCHANGED <<state, turn, actionSequence, requestThrough, serving, accepted, waiting, answer,
                    requests, awaiting>>
    BY <1>16 DEF PublishResult, hostVars, asking
  <2> QED BY <1>3, <2>1, OrderedStays DEF Attached
<1>17. ASSUME NEW t \in Tiles, NEW v \in Values, PublishLate(t, v) PROVE Ordered'
  <2>1. UNCHANGED <<state, turn, actionSequence, requestThrough, serving, accepted, waiting, answer,
                    requests, awaiting>>
    BY <1>17 DEF PublishLate, hostVars, asking, planeVars
  <2> QED BY <1>3, <2>1, OrderedStays DEF Attached
<1> QED BY <1>4, <1>5, <1>6, <1>7, <1>8, <1>9, <1>10, <1>11, <1>12, <1>13, <1>14, <1>15, <1>16, <1>17,
        <1>18, StepsAre DEF HostFails

\* The actions of both ends stay in their order.
LEMMA OrderedInductive == HonestAnswers /\ ExchangeSpec => [](Exchanged /\ Ordered)
<1> SUFFICES ASSUME HonestAnswers PROVE ExchangeSpec => [](Exchanged /\ Ordered)
  OBVIOUS
<1>1. ExchangeInit => Ordered
  BY InitOrdered
<1>2. Exchanged /\ Ordered /\ [ExchangeNext]_allVars => Ordered'
  BY NextOrdered DEF Exchanged
<1> QED BY <1>1, <1>2, ExchangeInductive, PTL DEF ExchangeSpec

\* Actions reach the Realtime Plane each once and in the order of their sequence, which is
\* what it acknowledges them by (session.py:253-269), unless it acknowledges what it drops.
THEOREM ActionsAlwaysArriveInOrder ==
    ASSUME HonestAnswers
    PROVE  ExchangeSpec => []ActionsArriveInOrder
<1>1. ASSUME Exchanged, Ordered PROVE ActionsArriveInOrder
  <2> SUFFICES ASSUME serving = "own", NEW n \in DOMAIN requests, requests[n].kind = "data",
                      NEW i \in DOMAIN requests[n].actions
               PROVE  requests[n].actions[i].sequence = accepted + i
    BY <1>1 DEF ActionsArriveInOrder, Ordered, Waiting
  <2> DEFINE q == requests[n]
  <2>1. q \in Flight
    BY DEF Flight, Outgoing
  <2> HIDE DEF q
  <2>2. /\ accepted \in Nat /\ actionSequence \in Nat /\ Len(q.actions) \in Nat
    BY <1>1, <2>1, NumbersAre DEF Exchanged, IInv
  <2>3. /\ q.actions[i].sequence = actionSequence - Len(q.actions) + i
        /\ accepted + Len(q.actions) = actionSequence
    BY <1>1, <2>1 DEF Ordered, Newest, q
  <2>4. actionSequence - Len(q.actions) = accepted
    BY <2>2, <2>3
  <2> QED BY <2>3, <2>4 DEF q
<1> QED BY <1>1, OrderedInductive, PTL
-----------------------------------------------------------------------------
\* No setting is queued twice.
Distinct(entries) == \A i, j \in DOMAIN entries : entries[i].setting = entries[j].setting => i = j
ValueIn(entries, k) == LET i == CHOOSE i \in DOMAIN entries : entries[i].setting = k IN entries[i].value
SettingsIn(entries) == {entries[i].setting : i \in DOMAIN entries}

\* What the host keeps of a setting that is queued or sent.
Kept ==
    /\ \A k \in Settings : /\ sent[k].sequence <= actionSequence
                           /\ sent[k].sequence = 0 <=> sent[k].value = None
    /\ Distinct(queued)

\* The value that is queued for a setting is that of its only entry.
LEMMA ValueOf ==
    ASSUME NEW entries, Distinct(entries), NEW i \in DOMAIN entries
    PROVE  ValueIn(entries, entries[i].setting) = entries[i].value
<1> DEFINE j == CHOOSE j \in DOMAIN entries : entries[j].setting = entries[i].setting
<1>1. j \in DOMAIN entries /\ entries[j].setting = entries[i].setting
  OBVIOUS
<1>2. j = i
  BY <1>1 DEF Distinct
<1> QED BY <1>2 DEF ValueIn

\* Queueing a value replaces the one queued for the same setting, and no other.
LEMMA AskingQueues ==
    ASSUME TypeOK, Distinct(queued), NEW k \in Settings, NEW v \in Values, RequestStep(k, v)
    PROVE  /\ Distinct(queued')
           /\ SettingsIn(queued') = SettingsIn(queued) \cup {k}
           /\ ValueIn(queued', k) = v
           /\ \A j \in SettingsIn(queued) \ {k} : ValueIn(queued', j) = ValueIn(queued, j)
<1> DEFINE Entry == [setting : Settings, value : Values]
<1>0. queued \in Seq(Entry)
  BY DEF TypeOK, HostTypeOK
<1>1. Len(queued) \in Nat /\ DOMAIN queued = 1..Len(queued) /\ queued \in Seq(Entry)
  <2> HIDE DEF Entry
  <2> QED BY <1>0, LenProperties
<1>2. CASE k \in QueuedSettings
  <2>1. queued' = [i \in DOMAIN queued |->
                     IF queued[i].setting = k THEN [setting |-> k, value |-> v] ELSE queued[i]]
    BY <1>2 DEF RequestStep
  <2>2. /\ DOMAIN queued' = DOMAIN queued
        /\ \A i \in DOMAIN queued : /\ queued'[i].setting = queued[i].setting
                                    /\ queued[i].setting = k => queued'[i].value = v
                                    /\ queued[i].setting # k => queued'[i].value = queued[i].value
    BY <2>1
  <2> HIDE <2>1
  <2>3. Distinct(queued')
    BY <2>2 DEF Distinct
  <2>4. SettingsIn(queued') = SettingsIn(queued) /\ k \in SettingsIn(queued)
    BY <1>2, <2>2 DEF SettingsIn, QueuedSettings
  <2>5. PICK i \in DOMAIN queued : queued[i].setting = k
    BY <1>2 DEF QueuedSettings
  <2>6. ValueIn(queued', k) = v
    BY <2>2, <2>3, <2>5, ValueOf
  <2>7. ASSUME NEW j \in DOMAIN queued, queued[j].setting # k
        PROVE  ValueIn(queued', queued[j].setting) = ValueIn(queued, queued[j].setting)
    <3>1. ValueIn(queued, queued[j].setting) = queued[j].value
      BY ValueOf
    <3>2. ValueIn(queued', queued'[j].setting) = queued'[j].value
      BY <2>2, <2>3, ValueOf
    <3> QED BY <2>2, <2>7, <3>1, <3>2
  <2> QED BY <2>3, <2>4, <2>6, <2>7 DEF SettingsIn
<1>3. CASE k \notin QueuedSettings
  <2> DEFINE e == [setting |-> k, value |-> v]
  <2>1. queued' = Append(queued, e) /\ e \in Entry
    BY <1>3 DEF RequestStep
  <2>2. e.setting = k /\ e.value = v
    OBVIOUS
  <2> HIDE DEF e, Entry
  <2>3. /\ DOMAIN queued' = 1..(Len(queued) + 1)
        /\ \A i \in 1..Len(queued) : queued'[i] = queued[i]
        /\ queued'[Len(queued) + 1] = e
    BY <1>1, <2>1, AppendProperties, LenProperties
  <2>4. \A i \in DOMAIN queued : i \in DOMAIN queued' /\ queued'[i] = queued[i] /\ queued[i].setting # k
    BY <1>1, <1>3, <2>3 DEF QueuedSettings
  <2>5. \A i \in DOMAIN queued' : i \in DOMAIN queued \/ (i = Len(queued) + 1 /\ queued'[i] = e)
    BY <1>1, <2>3
  <2>6. Distinct(queued')
    <3> SUFFICES ASSUME NEW i \in DOMAIN queued', NEW j \in DOMAIN queued',
                        queued'[i].setting = queued'[j].setting
                 PROVE  i = j
      BY DEF Distinct
    <3> QED BY <2>2, <2>4, <2>5 DEF Distinct
  <2>7. SettingsIn(queued') = SettingsIn(queued) \cup {k}
    BY <1>1, <2>2, <2>3, <2>4, <2>5 DEF SettingsIn
  <2>8. ValueIn(queued', k) = v
    BY <1>1, <2>2, <2>3, <2>6, ValueOf
  <2>9. ASSUME NEW j \in DOMAIN queued
        PROVE  ValueIn(queued', queued[j].setting) = ValueIn(queued, queued[j].setting)
    <3>1. ValueIn(queued, queued[j].setting) = queued[j].value
      BY ValueOf
    <3>2. ValueIn(queued', queued'[j].setting) = queued'[j].value
      BY <2>4, <2>6, ValueOf
    <3> QED BY <2>4, <3>1, <3>2
  <2> QED BY <2>6, <2>7, <2>8, <2>9 DEF SettingsIn
<1> QED BY <1>2, <1>3

\* What goes with a request leaves the queue and is sent, under the sequences that follow
\* the last; nothing else that is pending changes.
LEMMA SendingQueues ==
    ASSUME TypeOK, Kept, Assemble
    PROVE  /\ Kept'
           /\ \A k \in Settings :
                \/ \E i \in 1..BatchSize :
                     /\ queued[i].setting = k /\ k \in SettingsIn(queued) /\ k \notin SettingsIn(queued')
                     /\ sent'[k] = [sequence |-> actionSequence + i, value |-> queued[i].value]
                     /\ ValueIn(queued, k) = queued[i].value
                \/ /\ \A i \in 1..BatchSize : queued[i].setting # k
                   /\ sent'[k] = sent[k]
                   /\ (k \in SettingsIn(queued')) = (k \in SettingsIn(queued))
                   /\ k \in SettingsIn(queued) => ValueIn(queued', k) = ValueIn(queued, k)
<1> DEFINE Entry == [setting : Settings, value : Values]
           n == BatchSize
           rest == SubSeq(queued, n + 1, Len(queued))
<1>0. queued \in Seq(Entry)
  BY DEF TypeOK, HostTypeOK
<1>1. /\ Len(queued) \in Nat /\ DOMAIN queued = 1..Len(queued)
      /\ \A i \in DOMAIN queued : queued[i] \in Entry
  <2> HIDE DEF Entry
  <2> QED BY <1>0, LenProperties, ElementOfSeq
<1>2. n \in Nat /\ n <= Len(queued) /\ actionSequence \in Nat
  BY BatchIsAPrefix DEF TypeOK, HostTypeOK
<1>3. /\ queued' = rest /\ actionSequence' = actionSequence + n
      /\ sent' = [k \in Settings |->
                    IF \E i \in 1..n : queued[i].setting = k
                    THEN LET i == CHOOSE i \in 1..n : queued[i].setting = k
                         IN  [sequence |-> actionSequence + i, value |-> queued[i].value]
                    ELSE sent[k]]
  BY DEF Assemble, NextAction
<1> HIDE DEF n, rest, Entry
<1>4. /\ DOMAIN rest = 1..(Len(queued) - n)
      /\ \A i \in 1..(Len(queued) - n) : rest[i] = queued[n + i]
  <2>1. n + 1 \in Int /\ Len(queued) \in Int /\ \A i \in (n + 1)..Len(queued) : queued[i] \in Entry
    BY <1>1, <1>2
  <2>2. /\ rest \in Seq(Entry)
        /\ Len(rest) = (IF n + 1 <= Len(queued) THEN Len(queued) - (n + 1) + 1 ELSE 0)
        /\ \A i \in 1..(Len(queued) - (n + 1) + 1) : rest[i] = queued[(n + 1) + i - 1]
    BY <2>1, SubSeqProperties DEF rest
  <2>3. ASSUME NEW a \in Nat, NEW b \in Nat, a <= b
        PROVE  (IF a + 1 <= b THEN b - (a + 1) + 1 ELSE 0) = b - a /\ b - (a + 1) + 1 = b - a
    <3>1. CASE a + 1 <= b
      BY <3>1
    <3>2. CASE a = b
      BY <3>2
    <3> QED BY <2>3, <3>1, <3>2
  <2>4. Len(rest) = Len(queued) - n /\ Len(queued) - (n + 1) + 1 = Len(queued) - n
    BY <1>1, <1>2, <2>2, <2>3
  <2>5. \A i \in 1..(Len(queued) - n) : (n + 1) + i - 1 = n + i
    BY <1>1, <1>2
  <2> QED BY <2>2, <2>4, <2>5, LenProperties
<1>5. \A i \in DOMAIN rest : n + i \in DOMAIN queued /\ rest[i] = queued[n + i] /\ n + i \notin 1..n
  BY <1>1, <1>2, <1>4
<1>6. \A i \in DOMAIN queued : i \in 1..n \/ \E j \in DOMAIN rest : i = n + j /\ rest[j] = queued[i]
  <2> SUFFICES ASSUME NEW i \in DOMAIN queued, i \notin 1..n
               PROVE  \E j \in DOMAIN rest : i = n + j /\ rest[j] = queued[i]
    OBVIOUS
  <2>1. i - n \in DOMAIN rest /\ i = n + (i - n)
    BY <1>1, <1>2, <1>4
  <2> QED BY <1>5, <2>1
<1>7. \A i, j \in DOMAIN queued : queued[i].setting = queued[j].setting => i = j
  BY DEF Kept, Distinct
<1>8. Distinct(rest)
  <2> SUFFICES ASSUME NEW i \in DOMAIN rest, NEW j \in DOMAIN rest, rest[i].setting = rest[j].setting
               PROVE  i = j
    BY DEF Distinct
  <2>1. n + i = n + j
    BY <1>5, <1>7
  <2> QED BY <1>2, <1>4, <2>1
<1>9. 1..n \subseteq DOMAIN queued
  BY <1>1, <1>2
<1>10. ASSUME NEW k \in Settings, NEW i \in 1..n, queued[i].setting = k
       PROVE  /\ k \in SettingsIn(queued) /\ k \notin SettingsIn(rest)
              /\ sent'[k] = [sequence |-> actionSequence + i, value |-> queued[i].value]
              /\ ValueIn(queued, k) = queued[i].value
  <2>1. i \in DOMAIN queued
    BY <1>9
  <2>2. ValueIn(queued, k) = queued[i].value
    BY <1>7, <1>10, <2>1, ValueOf DEF Distinct
  <2>3. k \notin SettingsIn(rest)
    <3> SUFFICES ASSUME NEW j \in DOMAIN rest, rest[j].setting = k PROVE FALSE
      BY DEF SettingsIn
    <3>1. n + j = i
      BY <1>5, <1>7, <1>10, <2>1
    <3> QED BY <1>5, <3>1
  <2>4. (CHOOSE j \in 1..n : queued[j].setting = k) = i
    <3> DEFINE c == CHOOSE j \in 1..n : queued[j].setting = k
    <3>1. c \in 1..n /\ queued[c].setting = k
      BY <1>10
    <3> HIDE DEF c
    <3>2. c = i
      BY <1>7, <1>9, <1>10, <2>1, <3>1
    <3> QED BY <3>2 DEF c
  <2>5. sent'[k] = [sequence |-> actionSequence + i, value |-> queued[i].value]
    BY <1>3, <1>10, <2>4
  <2> QED BY <1>10, <2>1, <2>2, <2>3, <2>5 DEF SettingsIn
<1>11. ASSUME NEW k \in Settings, \A i \in 1..n : queued[i].setting # k
       PROVE  /\ sent'[k] = sent[k]
              /\ (k \in SettingsIn(rest)) = (k \in SettingsIn(queued))
              /\ k \in SettingsIn(queued) => ValueIn(rest, k) = ValueIn(queued, k)
  <2>1. sent'[k] = sent[k]
    BY <1>3, <1>11
  <2>2. ASSUME k \in SettingsIn(rest) PROVE k \in SettingsIn(queued)
    BY <1>5, <2>2 DEF SettingsIn
  <2>3. ASSUME k \in SettingsIn(queued)
        PROVE  k \in SettingsIn(rest) /\ ValueIn(rest, k) = ValueIn(queued, k)
    <3>1. PICK i \in DOMAIN queued : queued[i].setting = k
      BY <2>3 DEF SettingsIn
    <3>2. PICK j \in DOMAIN rest : rest[j] = queued[i]
      BY <1>6, <1>11, <3>1
    <3>3. ValueIn(queued, k) = queued[i].value
      BY <3>1, ValueOf DEF Kept
    <3>4. ValueIn(rest, k) = rest[j].value
      BY <1>8, <3>1, <3>2, ValueOf
    <3> QED BY <3>1, <3>2, <3>3, <3>4 DEF SettingsIn
  <2> QED BY <2>1, <2>2, <2>3
<1>12. Kept'
  <2> SUFFICES ASSUME NEW k \in Settings
               PROVE  /\ sent'[k].sequence <= actionSequence'
                      /\ sent'[k].sequence = 0 <=> sent'[k].value = None
    BY <1>3, <1>8 DEF Kept
  <2>0. sent[k].sequence \in Nat
    BY DEF TypeOK, HostTypeOK
  <2>1. CASE \E i \in 1..n : queued[i].setting = k
    <3>1. PICK i \in 1..n : queued[i].setting = k
      BY <2>1
    <3>2. sent'[k] = [sequence |-> actionSequence + i, value |-> queued[i].value]
      BY <1>10, <3>1
    <3>3. queued[i].value \in Values /\ queued[i].value # None
      BY <1>1, <1>9, SessionAssumption DEF Entry
    <3> QED BY <1>2, <1>3, <3>2, <3>3
  <2>2. CASE ~\E i \in 1..n : queued[i].setting = k
    BY <1>2, <1>3, <1>11, <2>0, <2>2 DEF Kept
  <2> QED BY <2>1, <2>2
<1> QED BY <1>3, <1>10, <1>11, <1>12 DEF n
-----------------------------------------------------------------------------
\* The reports on their way are some of those that were, in their order.
Remain ==
    \E d \in {0, 1} : \A i \in DOMAIN states' : states'[i].own =>
        /\ i + d \in DOMAIN states
        /\ states[i + d].own
        /\ states[i + d].applied = states'[i].applied
        /\ states[i + d].shows = states'[i].shows

\* Only publishing adds a report of this session.
LEMMA OnlyPublishingReports ==
    ASSUME TypeOK, [ExchangeNext]_allVars, ~PublishState
    PROVE  Remain
<1>1. /\ states \in Seq(StateRecord) /\ Len(states) \in Nat /\ DOMAIN states = 1..Len(states)
      /\ \A i \in DOMAIN states : states[i] \in StateRecord /\ i + 0 = i
  <2>1. states \in Seq(StateRecord)
    BY DEF TypeOK, ChannelTypeOK
  <2> QED BY <2>1, LenProperties, ElementOfSeq
<1>2. CASE states' = states
  BY <1>1, <1>2 DEF Remain
<1>3. CASE states # <<>> /\ states' = Tail(states)
  <2>1. /\ DOMAIN states' = 1..(Len(states) - 1)
        /\ \A i \in 1..(Len(states) - 1) : i + 1 \in DOMAIN states /\ states'[i] = states[i + 1]
    BY <1>1, <1>3, EmptySeq, HeadTailProperties, LenProperties
  <2> QED BY <2>1 DEF Remain
<1>4. CASE states' = [states EXCEPT ![1].readable = FALSE]
  <2>1. /\ DOMAIN states' = DOMAIN states
        /\ \A i \in DOMAIN states : /\ states'[i].own = states[i].own
                                    /\ states'[i].applied = states[i].applied
                                    /\ states'[i].shows = states[i].shows
    BY <1>1, <1>4 DEF StateRecord
  <2> HIDE <1>4
  <2> QED BY <1>1, <2>1 DEF Remain
<1>5. ASSUME NEW r \in StateRecord, ~r.own, states' = Append(states, r) PROVE Remain
  <2>1. /\ DOMAIN states' = 1..(Len(states) + 1)
        /\ \A i \in 1..Len(states) : states'[i] = states[i]
        /\ states'[Len(states) + 1] = r
    BY <1>1, <1>5, AppendProperties, LenProperties
  <2>2. \A i \in DOMAIN states' : states'[i].own => i \in DOMAIN states /\ states'[i] = states[i]
    BY <1>1, <1>5, <2>1
  <2> QED BY <1>1, <2>2 DEF Remain
<1>6. CASE Turning
  BY <1>2, <1>6, TurningKeeps DEF channels
<1>7. CASE HostAdvance /\ (GiveUp \/ CollectAnswer \/ ReadState \/ ReadResult \/ SendNext)
  BY <1>2, <1>3, <1>7 DEF GiveUp, GiveUpStep, CollectAnswer, ReadState, ReadResult, SendNext, Assemble, channels
<1>8. CASE HostFails \/ HostClose
  BY <1>2, <1>8, RaisingLeaves DEF HostFails, SendRaises, Assemble, HostClose, Close
<1>9. ASSUME NEW k \in Settings, NEW v \in Values, Ask(k, v) PROVE Remain
  BY <1>2, <1>9 DEF Ask, Request, RequestStep, channels
<1>10. CASE TakeOpen \/ TakeData \/ TakeAndClose \/ Apply \/ AnswerWrongly
  BY <1>2, <1>10 DEF TakeOpen, TakeData, TakeAndClose, Apply, AnswerWrongly, vars, channels
<1>11. ASSUME NEW t \in Tiles, NEW r \in Regions, PublishResult(t, r) PROVE Remain
  BY <1>2, <1>11 DEF PublishResult
<1>12. ASSUME NEW t \in Tiles, NEW v \in Values, PublishLate(t, v) PROVE Remain
  <2> DEFINE late == [own |-> FALSE, readable |-> TRUE, sequence |-> 1, revision |-> 9,
                      applied |-> 9, shows |-> [k \in Settings |-> v]]
  <2>1. states' \in {states, Append(states, late)}
    BY <1>12 DEF PublishLate
  <2>2. late \in StateRecord /\ ~late.own
    BY DEF StateRecord
  <2> HIDE DEF late
  <2> QED BY <1>2, <1>5, <2>1, <2>2
<1>13. CASE SpoilRecord
  BY <1>2, <1>3, <1>4, <1>13 DEF SpoilRecord
<1> QED BY <1>6, <1>7, <1>8, <1>9, <1>10, <1>11, <1>12, <1>13, StepsAre

\* What is published goes behind the reports on their way.
LEMMA PublishingReports ==
    ASSUME TypeOK, PublishState
    PROVE  \A i \in DOMAIN states' :
             \/ i \in DOMAIN states /\ states'[i] = states[i] /\ i < Len(states) + 1
             \/ i = Len(states) + 1 /\ states'[i].applied = Applied /\ states'[i].shows = inEffect
<1> DEFINE r == [own |-> TRUE, readable |-> TRUE, sequence |-> Len(published) + 1,
                 revision |-> Len(published) + 1, applied |-> Applied, shows |-> inEffect]
<1>1. states' = Append(states, r)
  BY DEF PublishState
<1>2. r.applied = Applied /\ r.shows = inEffect
  OBVIOUS
<1> HIDE DEF r
<1>3. Len(states) \in Nat /\ DOMAIN states = 1..Len(states)
  BY LenProperties DEF TypeOK, ChannelTypeOK
<1>4. /\ DOMAIN states' = 1..(Len(states) + 1)
      /\ \A i \in 1..Len(states) : states'[i] = states[i]
      /\ states'[Len(states) + 1] = r
  BY <1>1, <1>3
<1> QED BY <1>2, <1>3, <1>4

\* Reports are in the order of what they report.
Reported ==
    \A i \in DOMAIN states : states[i].own =>
        /\ states[i].applied <= Applied
        /\ \A j \in DOMAIN states : j > i /\ states[j].own => states[i].applied <= states[j].applied

\* The Realtime Plane takes nothing back that it applied.
LEMMA AppliedGrows ==
    ASSUME TypeOK, [ExchangeNext]_allVars
    PROVE  /\ Applied \in Int /\ Applied <= Applied'
           /\ Applied' # Applied => Apply /\ Applied' = Applied + 1
<1>0. accepted \in Nat /\ Len(waiting) \in Nat /\ waiting \in Seq(Action)
  BY LenProperties DEF TypeOK, PlaneTypeOK
<1>1. ASSUME UNCHANGED <<accepted, waiting>> PROVE Applied' = Applied
  BY <1>1 DEF Applied
<1>2. CASE Turning
  BY <1>0, <1>1, <1>2, TurningKeeps DEF planeVars, Applied
<1>3. CASE HostAdvance \/ HostFails \/ HostClose
  BY <1>0, <1>1, <1>3 DEF HostAdvance, HostFails, HostClose, planeVars, Applied
<1>4. ASSUME NEW k \in Settings, NEW v \in Values, Ask(k, v) PROVE Applied' = Applied
  BY <1>1, <1>4 DEF Ask, planeVars
<1>5. CASE TakeOpen \/ TakeAndClose \/ PublishState \/ AnswerWrongly \/ SpoilRecord
  BY <1>0, <1>1, <1>5 DEF TakeOpen, TakeAndClose, PublishState, AnswerWrongly, SpoilRecord, planeVars, Applied
<1>6. CASE TakeData
  <2> DEFINE actions == Head(requests).actions
  <2>1. /\ waiting' = waiting \o actions /\ accepted' = accepted + Len(actions)
        /\ requests # <<>> /\ Head(requests).kind = "data"
    BY <1>6 DEF TakeData
  <2>2. Head(requests) \in Flight
    BY <1>6, <2>1, Taking DEF TakeData, Flight
  <2>3. actions \in Seq(Action) /\ Len(actions) \in Nat
    BY <2>2, NumbersAre
  <2> HIDE DEF actions
  <2>4. Len(waiting') = Len(waiting) + Len(actions)
    BY <1>0, <2>1, <2>3, ConcatProperties
  <2> QED BY <1>0, <2>1, <2>3, <2>4 DEF Applied
<1>7. CASE Apply
  <2>1. Len(waiting') = Len(waiting) - 1 /\ accepted' = accepted
    BY <1>0, <1>7, EmptySeq, HeadTailProperties DEF Apply
  <2> QED BY <1>0, <1>7, <2>1 DEF Applied
<1>8. ASSUME NEW t \in Tiles, NEW r \in Regions, PublishResult(t, r) PROVE Applied' = Applied
  BY <1>1, <1>8 DEF PublishResult
<1>9. ASSUME NEW t \in Tiles, NEW v \in Values, PublishLate(t, v) PROVE Applied' = Applied
  BY <1>1, <1>9 DEF PublishLate, planeVars
<1>10. Applied \in Int
  BY <1>0 DEF Applied
<1> QED BY <1>2, <1>3, <1>4, <1>5, <1>6, <1>7, <1>8, <1>9, <1>10, StepsAre

\* Every step keeps the reports in order.
LEMMA NextReported ==
    ASSUME IInv, Reported, [ExchangeNext]_allVars
    PROVE  Reported'
<1>1. /\ TypeOK /\ TypeOK' /\ Applied \in Int /\ Applied' \in Int /\ Applied <= Applied'
      /\ \A i \in DOMAIN states : states[i].applied \in Nat /\ i \in Int
      /\ \A i \in DOMAIN states' : states'[i].applied \in Nat /\ i \in Int
  <2>1. TypeOK /\ TypeOK'
    BY NextKeepsIInv DEF IInv
  <2>2. Applied' \in Int
    BY <2>1, LenProperties DEF TypeOK, PlaneTypeOK, Applied
  <2>3. \A r \in StateRecord : r.applied \in Nat
    BY DEF StateRecord
  <2>4. states \in Seq(StateRecord) /\ states' \in Seq(StateRecord)
    BY <2>1 DEF TypeOK, ChannelTypeOK
  <2>5. /\ \A i \in DOMAIN states : states[i] \in StateRecord /\ i \in Int
        /\ \A i \in DOMAIN states' : states'[i] \in StateRecord /\ i \in Int
    BY <2>4, LenProperties, ElementOfSeq
  <2> QED BY <2>1, <2>2, <2>3, <2>5, AppliedGrows
<1>2. CASE PublishState
  <2>1. Applied' = Applied
    BY <1>2 DEF PublishState, Applied
  <2>2. \A i \in DOMAIN states' :
             \/ i \in DOMAIN states /\ states'[i] = states[i] /\ i < Len(states) + 1
             \/ i = Len(states) + 1 /\ states'[i].applied = Applied
    BY <1>1, <1>2, PublishingReports
  <2>3. Len(states) \in Nat
    BY <1>1, LenProperties DEF TypeOK, ChannelTypeOK
  <2> SUFFICES ASSUME NEW i \in DOMAIN states', states'[i].own
               PROVE  /\ states'[i].applied <= Applied'
                      /\ \A j \in DOMAIN states' : j > i /\ states'[j].own =>
                           states'[i].applied <= states'[j].applied
    BY DEF Reported
  <2>4. CASE i \in DOMAIN states /\ states'[i] = states[i] /\ i < Len(states) + 1
    BY <1>1, <2>1, <2>2, <2>4 DEF Reported
  <2>5. CASE i = Len(states) + 1 /\ states'[i].applied = Applied
    <3>1. \A j \in DOMAIN states' : ~(j > i)
      BY <1>1, <2>2, <2>3, <2>5
    <3> QED BY <1>1, <2>1, <2>5, <3>1
  <2> QED BY <2>2, <2>4, <2>5
<1>3. CASE ~PublishState
  <2>1. PICK d \in {0, 1} : \A i \in DOMAIN states' : states'[i].own =>
          i + d \in DOMAIN states /\ states[i + d].own /\ states[i + d].applied = states'[i].applied
    BY <1>1, <1>3, OnlyPublishingReports DEF Remain
  <2> SUFFICES ASSUME NEW i \in DOMAIN states', states'[i].own
               PROVE  /\ states'[i].applied <= Applied'
                      /\ \A j \in DOMAIN states' : j > i /\ states'[j].own =>
                           states'[i].applied <= states'[j].applied
    BY DEF Reported
  <2>2. states'[i].applied <= Applied'
    <3>1. states[i + d].applied <= Applied
      BY <2>1 DEF Reported
    <3> QED BY <1>1, <2>1, <3>1
  <2>3. ASSUME NEW j \in DOMAIN states', j > i, states'[j].own
        PROVE  states'[i].applied <= states'[j].applied
    <3>1. j + d > i + d
      BY <1>1, <2>3
    <3> QED BY <2>1, <2>3, <3>1 DEF Reported
  <2> QED BY <2>2, <2>3
<1> QED BY <1>2, <1>3
-----------------------------------------------------------------------------
\* Of the actions for k, none comes after the one that was sent last, and that one
\* carries the value that is pending.
LastOf(k, actions) ==
    \A i \in DOMAIN actions :
        /\ actions[i].setting = k => actions[i].sequence <= sent[k].sequence
        /\ actions[i].sequence = sent[k].sequence =>
             actions[i].setting = k /\ actions[i].value = sent[k].value

\* A value that was sent is in effect once its action was applied, and reported so.
TakesEffect(k) ==
    /\ serving = "own" =>
         /\ LastOf(k, waiting)
         /\ \A q \in Flight : LastOf(k, q.actions)
         /\ 0 < sent[k].sequence /\ sent[k].sequence <= Applied => inEffect[k] = sent[k].value
    /\ \A i \in DOMAIN states :
         states[i].own /\ 0 < sent[k].sequence /\ sent[k].sequence <= states[i].applied
             => states[i].shows[k] = sent[k].value

\* A value that was settled stays in effect until another is asked for.
StaysInEffect(k) ==
    (sent[k].sequence = 0 /\ k \notin SettingsIn(queued) /\ asked[k] # None) =>
        /\ serving # "replaced"
        /\ serving = "own" => inEffect[k] = asked[k]
        /\ \A i \in DOMAIN states : states[i].own => states[i].shows[k] = asked[k]

\* The latest value asked for is pending or in effect.
Shown(k) ==
    asked[k] # None =>
        IF Pending(k) # None THEN Pending(k) = asked[k] ELSE effective[k] = asked[k]

Settles(k) == TakesEffect(k) /\ StaysInEffect(k) /\ Shown(k)
Settling == Attached => \A k \in Settings : Settles(k)

\* What is pending, by the names of these proofs.
LEMMA PendingIs ==
    ASSUME NEW k
    PROVE  /\ Pending(k) = IF k \in SettingsIn(queued) THEN ValueIn(queued, k) ELSE sent[k].value
           /\ Pending(k)' = IF k \in SettingsIn(queued') THEN ValueIn(queued', k) ELSE sent'[k].value
BY DEF Pending, QueuedSettings, QueuedValue, SettingsIn, ValueIn

\* A value that waits in the queue is one that was asked for.
LEMMA QueuedIsAValue ==
    ASSUME TypeOK, NEW k \in SettingsIn(queued)
    PROVE  ValueIn(queued, k) \in Values /\ ValueIn(queued, k) # None
<1> DEFINE Entry == [setting : Settings, value : Values]
           c == CHOOSE i \in DOMAIN queued : queued[i].setting = k
<1>1. queued \in Seq(Entry)
  BY DEF TypeOK, HostTypeOK
<1>2. c \in DOMAIN queued
  BY DEF SettingsIn
<1> HIDE DEF Entry, c
<1>3. queued[c] \in Entry
  BY <1>1, <1>2, LenProperties, ElementOfSeq
<1>4. queued[c].value \in Values
  BY <1>3 DEF Entry
<1> QED BY <1>4, SessionAssumption DEF ValueIn, c

\* The actions the Realtime Plane has yet to apply come after those it applied.
LEMMA ActionsAhead ==
    ASSUME IInv, Ordered, serving = "own"
    PROVE  /\ Applied \in Nat /\ accepted \in Nat /\ Applied <= accepted
           /\ \A i \in DOMAIN waiting :
                /\ waiting[i].sequence \in Nat
                /\ waiting[i].sequence > Applied /\ waiting[i].sequence <= accepted
           /\ \A q \in Flight : \A i \in DOMAIN q.actions :
                q.actions[i].sequence \in Nat /\ q.actions[i].sequence > accepted
<1>1. /\ accepted \in Nat /\ actionSequence \in Nat /\ Len(waiting) \in Nat /\ Len(waiting) <= accepted
      /\ \A q \in Flight : Len(q.actions) \in Nat /\ DOMAIN q.actions = 1..Len(q.actions)
  BY NumbersAre DEF IInv
<1>2. DOMAIN waiting = 1..Len(waiting)
  BY LenProperties DEF IInv, TypeOK, PlaneTypeOK
<1>3. Applied = accepted - Len(waiting) /\ Applied \in Nat /\ Applied <= accepted
  BY <1>1 DEF Applied
<1>4. ASSUME NEW i \in DOMAIN waiting
      PROVE  /\ waiting[i].sequence \in Nat
             /\ waiting[i].sequence > Applied /\ waiting[i].sequence <= accepted
  <2>1. waiting[i].sequence = Applied + i
    BY DEF Ordered, Waiting
  <2> QED BY <1>1, <1>2, <1>3, <2>1
<1>5. ASSUME NEW q \in Flight, NEW i \in DOMAIN q.actions
      PROVE  q.actions[i].sequence \in Nat /\ q.actions[i].sequence > accepted
  <2>1. /\ q.actions[i].sequence = actionSequence - Len(q.actions) + i
        /\ accepted + Len(q.actions) = actionSequence
    BY DEF Ordered, Newest
  <2> QED BY <1>1, <2>1
<1> QED BY <1>1, <1>3, <1>4, <1>5

\* What a step leaves of the asking, the applying and the reporting of k settles as before.
LEMMA SettlesStill ==
    ASSUME NEW k \in Settings, Settles(k), sent'[k] = sent[k],
           (k \in SettingsIn(queued')) = (k \in SettingsIn(queued)),
           k \in SettingsIn(queued) => ValueIn(queued', k) = ValueIn(queued, k),
           asked'[k] = asked[k], effective'[k] = effective[k],
           serving' = "own" => serving = "own" /\ UNCHANGED <<waiting, inEffect, Applied>>,
           serving' = "replaced" => serving = "replaced",
           Flight' \subseteq Flight, Remain
    PROVE  Settles(k)'
<1>1. PICK d \in {0, 1} : \A i \in DOMAIN states' : states'[i].own =>
        /\ i + d \in DOMAIN states /\ states[i + d].own
        /\ states[i + d].applied = states'[i].applied /\ states[i + d].shows = states'[i].shows
  BY DEF Remain
<1>2. TakesEffect(k)'
  <2>1. ASSUME serving' = "own"
        PROVE  /\ LastOf(k, waiting)' /\ \A q \in Flight' : LastOf(k, q.actions)'
               /\ 0 < sent'[k].sequence /\ sent'[k].sequence <= Applied' => inEffect'[k] = sent'[k].value
    BY <2>1 DEF Settles, TakesEffect, LastOf
  <2>2. ASSUME NEW i \in DOMAIN states', states'[i].own,
               0 < sent'[k].sequence, sent'[k].sequence <= states'[i].applied
        PROVE  states'[i].shows[k] = sent'[k].value
    BY <1>1, <2>2 DEF Settles, TakesEffect
  <2> QED BY <2>1, <2>2 DEF TakesEffect
<1>3. StaysInEffect(k)'
  BY <1>1 DEF Settles, StaysInEffect
<1>4. Shown(k)'
  <2>1. Pending(k)' = Pending(k)
    BY PendingIs
  <2> QED BY <2>1 DEF Settles, Shown
<1> QED BY <1>2, <1>3, <1>4 DEF Settles

\* A report settles what it covers with the value it shows.
LEMMA ReadingSettles ==
    ASSUME IInv, ReadInv, OpensFirst, Ordered, Kept, Reported, NEW k \in Settings, Settles(k),
           states # <<>>, Head(states).own, states' = Tail(states),
           sent' = Unsettled(Head(states)), effective' = Head(states).shows,
           UNCHANGED <<queued, asked, requests, planeVars>>
    PROVE  Settles(k)'
<1> DEFINE r == Head(states)
<1>1. /\ DOMAIN states' = 1..(Len(states) - 1) /\ Len(states) \in Nat \ {0}
      /\ DOMAIN states = 1..Len(states) /\ r = states[1]
      /\ \A i \in 1..(Len(states) - 1) : states'[i] = states[i + 1]
  <2>1. states \in Seq(StateRecord)
    BY DEF IInv, TypeOK, ChannelTypeOK
  <2> QED BY <2>1, EmptySeq, HeadTailProperties, LenProperties
<1>2. \A i \in DOMAIN states' : i + 1 \in DOMAIN states /\ states'[i] = states[i + 1] /\ i + 1 > 1
  BY <1>1
<1>3. r \in Told /\ 1 \in DOMAIN states
  BY <1>1, FewerStates DEF ReadInv
<1>4. /\ r.own /\ r.applied \in Nat /\ r.applied <= Applied
      /\ \A i \in DOMAIN states : states[i].own /\ i > 1 => r.applied <= states[i].applied
  BY <1>1, <1>3 DEF Told, StateRecord, Reported
<1>5. serving # "replaced"
  BY <1>3, <1>4 DEF OpensFirst, Told
<1>6. Remain
  BY <1>2 DEF Remain
<1>7. /\ sent'[k] = IF sent[k].sequence > r.applied THEN sent[k] ELSE NotSent
      /\ effective'[k] = r.shows[k]
  BY DEF Unsettled
<1>8. /\ sent[k].sequence \in Nat /\ Applied \in Int
      /\ \A i \in DOMAIN states : states[i].applied \in Nat
      /\ sent[k].sequence = 0 <=> sent[k].value = None
  <2>1. \A x \in StateRecord : x.applied \in Nat
    BY DEF StateRecord
  <2>2. \A i \in DOMAIN states : states[i] \in StateRecord
    <3>1. states \in Seq(StateRecord)
      BY DEF IInv, TypeOK, ChannelTypeOK
    <3> QED BY <3>1, LenProperties, ElementOfSeq
  <2>3. Applied \in Int
    BY NumbersAre DEF IInv, Applied
  <2>4. sent[k].sequence \in Nat
    BY DEF IInv, TypeOK, HostTypeOK
  <2> QED BY <2>1, <2>2, <2>3, <2>4 DEF Kept
<1>9. Flight' = Flight /\ UNCHANGED <<serving, accepted, waiting, inEffect, Applied>>
  BY DEF Flight, Outgoing, planeVars, Applied
<1>10. k \in SettingsIn(queued) => ValueIn(queued, k) # None
  BY QueuedIsAValue DEF IInv
<1> HIDE DEF r
\* A value the report does not cover is pending as before.
<1>11. CASE sent[k].sequence > r.applied
  <2>1. sent'[k] = sent[k] /\ sent[k].sequence # 0
    BY <1>4, <1>7, <1>8, <1>11
  <2>2. TakesEffect(k)'
    <3>1. PICK d \in {0, 1} : \A i \in DOMAIN states' : states'[i].own =>
            /\ i + d \in DOMAIN states /\ states[i + d].own
            /\ states[i + d].applied = states'[i].applied /\ states[i + d].shows = states'[i].shows
      BY <1>6 DEF Remain
    <3> QED BY <1>9, <2>1, <3>1 DEF Settles, TakesEffect, LastOf
  <2>3. StaysInEffect(k)'
    BY <2>1 DEF StaysInEffect
  <2>4. Pending(k)' = Pending(k) /\ Pending(k) # None
    BY <1>8, <1>10, <2>1, PendingIs
  <2>5. Shown(k)'
    BY <2>4 DEF Settles, Shown
  <2> QED BY <2>2, <2>3, <2>5 DEF Settles
\* A value it covers is the one it shows, and so is one that was settled before.
<1>12. CASE ~(sent[k].sequence > r.applied)
  <2>1. sent'[k].sequence = 0 /\ sent'[k].value = None /\ sent[k].sequence <= r.applied
    BY <1>4, <1>7, <1>8, <1>12 DEF NotSent
  <2>2. TakesEffect(k)'
    <3> SUFFICES ASSUME serving = "own"
                 PROVE  LastOf(k, waiting)' /\ \A q \in Flight : LastOf(k, q.actions)'
      BY <1>9, <2>1 DEF TakesEffect
    <3>1. /\ \A i \in DOMAIN waiting : waiting[i].sequence \in Nat /\ waiting[i].sequence > Applied
          /\ \A q \in Flight : \A i \in DOMAIN q.actions :
               q.actions[i].sequence \in Nat /\ q.actions[i].sequence > Applied
          /\ Applied \in Nat
      BY ActionsAhead
    <3>2. sent[k].sequence <= Applied
      BY <1>4, <1>8, <2>1
    <3>3. LastOf(k, waiting) /\ \A q \in Flight : LastOf(k, q.actions)
      BY DEF Settles, TakesEffect
    <3>4. /\ \A i \in DOMAIN waiting : waiting[i].setting # k /\ waiting[i].sequence # 0
          /\ \A q \in Flight : \A i \in DOMAIN q.actions :
               q.actions[i].setting # k /\ q.actions[i].sequence # 0
      BY <1>8, <3>1, <3>2, <3>3 DEF LastOf
    <3> QED BY <1>9, <2>1, <3>4 DEF LastOf
  <2> DEFINE value == asked[k]
  <2>3. ASSUME k \notin SettingsIn(queued), asked[k] # None
        PROVE  /\ serving = "own" => inEffect[k] = asked[k]
               /\ r.shows[k] = asked[k]
               /\ \A i \in DOMAIN states : states[i].own /\ i > 1 => states[i].shows[k] = asked[k]
    <3>1. CASE sent[k].sequence = 0
      BY <1>1, <1>3, <1>4, <2>3, <3>1 DEF Settles, StaysInEffect, r
    <3>2. CASE sent[k].sequence # 0
      <4>1. Pending(k) = sent[k].value /\ sent[k].value = asked[k] /\ 0 < sent[k].sequence
        BY <1>8, <2>3, <3>2, PendingIs DEF Settles, Shown
      <4>2. sent[k].sequence <= Applied
        BY <1>4, <1>8, <2>1
      <4>3. r.shows[k] = sent[k].value
        BY <1>1, <1>3, <1>4, <2>1, <4>1 DEF Settles, TakesEffect, r
      <4>4. ASSUME NEW i \in DOMAIN states, states[i].own, i > 1
            PROVE  states[i].shows[k] = sent[k].value
        <5>1. sent[k].sequence <= states[i].applied
          BY <1>4, <1>8, <2>1, <4>4
        <5> QED BY <4>1, <4>4, <5>1 DEF Settles, TakesEffect
      <4> QED BY <4>1, <4>2, <4>3, <4>4 DEF Settles, TakesEffect
    <3> QED BY <3>1, <3>2
  <2>4. StaysInEffect(k)'
    BY <1>2, <1>5, <1>9, <2>3 DEF StaysInEffect
  <2>5. Shown(k)'
    <3>1. CASE k \in SettingsIn(queued)
      <4>1. Pending(k)' = Pending(k) /\ Pending(k) # None
        BY <1>10, <3>1, PendingIs
      <4> QED BY <4>1 DEF Settles, Shown
    <3>2. CASE k \notin SettingsIn(queued)
      <4>1. Pending(k)' = None
        BY <2>1, <3>2, PendingIs
      <4> QED BY <1>7, <2>3, <3>2, <4>1 DEF Shown
    <3> QED BY <3>1, <3>2
  <2> QED BY <2>2, <2>4, <2>5 DEF Settles
<1> QED BY <1>11, <1>12

\* A value that is sent is pending as before, and its action is the last one for k.
LEMMA SendingSettles ==
    ASSUME IInv, Wire, Counted, Ordered, Kept, Reported, NEW k \in Settings, Settles(k), Attached,
           SendNext, UNCHANGED <<asked, planeVars>>
    PROVE  Settles(k)'
<1>1. /\ TypeOK /\ Assemble /\ UNCHANGED <<effective, states, serving, accepted, waiting, inEffect, Applied>>
  BY DEF IInv, SendNext, Assemble, reading, planeVars, Applied
<1>2. /\ BatchSize \in Nat /\ actionSequence \in Nat /\ DOMAIN Batch = 1..BatchSize
      /\ sent[k].sequence \in Nat /\ sent[k].sequence <= actionSequence
      /\ accepted <= actionSequence /\ Applied \in Int /\ accepted \in Nat /\ Applied <= accepted
  <2>1. BatchSize \in Nat /\ DOMAIN Batch = 1..BatchSize /\ sent[k].sequence \in Nat
    BY <1>1, BatchIsAPrefix DEF Batch, TypeOK, HostTypeOK
  <2>2. actionSequence \in Nat /\ accepted \in Nat /\ Len(waiting) \in Nat
    BY <1>1, NumbersAre
  <2> QED BY <2>1, <2>2 DEF Kept, Counted, Applied
<1>3. Flight' = {DataRequest(stateSequence, resultSequence, releases, Batch)} /\ Flight = {}
  BY <1>1, SendingCarries DEF Wire
<1>4. \A q \in Flight' : q.actions = Batch
  BY <1>3 DEF DataRequest
<1>5. \A i \in 1..BatchSize : /\ Batch[i].sequence = actionSequence + i
                              /\ Batch[i].setting = queued[i].setting
                              /\ Batch[i].value = queued[i].value
  BY DEF Batch
<1>6. serving = "own" => /\ LastOf(k, waiting)
                         /\ \A i \in DOMAIN waiting : /\ waiting[i].sequence \in Nat
                                                      /\ waiting[i].sequence <= actionSequence
  BY <1>2, ActionsAhead DEF Settles, TakesEffect
<1>7. \A i \in DOMAIN states : states[i].own => states[i].applied \in Nat /\ states[i].applied <= actionSequence
  <2>1. \A x \in StateRecord : x.applied \in Nat
    BY DEF StateRecord
  <2>2. \A i \in DOMAIN states : states[i] \in StateRecord
    <3>1. states \in Seq(StateRecord)
      BY DEF IInv, TypeOK, ChannelTypeOK
    <3> QED BY <3>1, LenProperties, ElementOfSeq
  <2>3. \A i \in DOMAIN states : states[i].own => states[i].applied <= Applied
    BY DEF Reported
  <2> QED BY <1>2, <2>1, <2>2, <2>3
<1>8. CASE \E i \in 1..BatchSize :
             /\ queued[i].setting = k /\ k \in SettingsIn(queued) /\ k \notin SettingsIn(queued')
             /\ sent'[k] = [sequence |-> actionSequence + i, value |-> queued[i].value]
             /\ ValueIn(queued, k) = queued[i].value
  <2>1. PICK n \in 1..BatchSize :
             /\ queued[n].setting = k /\ k \in SettingsIn(queued) /\ k \notin SettingsIn(queued')
             /\ sent'[k] = [sequence |-> actionSequence + n, value |-> queued[n].value]
             /\ ValueIn(queued, k) = queued[n].value
    BY <1>8
  <2>2. /\ sent'[k].sequence = actionSequence + n /\ sent'[k].value = queued[n].value
        /\ sent'[k].sequence > actionSequence /\ sent'[k].sequence # 0
    BY <1>2, <2>1
  <2>3. Pending(k)' = Pending(k)
    BY <2>1, <2>2, PendingIs
  <2>4. Shown(k)'
    BY <1>1, <2>3 DEF Settles, Shown
  <2>5. StaysInEffect(k)'
    BY <2>2 DEF StaysInEffect
  <2>6. ASSUME NEW i \in 1..BatchSize
        PROVE  /\ queued[i].setting = k => i = n
               /\ actionSequence + i = actionSequence + n => i = n
    <3>1. 1..BatchSize \subseteq DOMAIN queued
      <4>1. BatchSize <= Len(queued) /\ Len(queued) \in Nat /\ DOMAIN queued = 1..Len(queued)
        BY <1>1, BatchIsAPrefix, LenProperties DEF TypeOK, HostTypeOK
      <4> QED BY <1>2, <4>1
    <3>2. queued[i].setting = k => i = n
      BY <2>1, <3>1 DEF Kept, Distinct
    <3> QED BY <1>2, <3>2
  <2>7. \A q \in Flight' : LastOf(k, q.actions)'
    <3> SUFFICES ASSUME NEW i \in 1..BatchSize
                 PROVE  /\ Batch[i].setting = k => Batch[i].sequence <= sent'[k].sequence
                        /\ Batch[i].sequence = sent'[k].sequence =>
                             Batch[i].setting = k /\ Batch[i].value = sent'[k].value
      BY <1>2, <1>4 DEF LastOf
    <3> QED BY <1>2, <1>5, <2>1, <2>2, <2>6
  <2>8. serving = "own" => LastOf(k, waiting)'
    <3> SUFFICES ASSUME serving = "own", NEW i \in DOMAIN waiting
                 PROVE  waiting[i].sequence <= sent'[k].sequence /\ waiting[i].sequence # sent'[k].sequence
      BY <1>1 DEF LastOf
    <3> QED BY <1>2, <1>6, <2>2
  <2>9. TakesEffect(k)'
    <3>1. ~(sent'[k].sequence <= Applied)
      BY <1>2, <2>2
    <3>2. \A i \in DOMAIN states : states[i].own => ~(sent'[k].sequence <= states[i].applied)
      BY <1>2, <1>7, <2>2
    <3> QED BY <1>1, <2>7, <2>8, <3>1, <3>2 DEF TakesEffect
  <2> QED BY <2>4, <2>5, <2>9 DEF Settles
<1>9. CASE /\ \A i \in 1..BatchSize : queued[i].setting # k
           /\ sent'[k] = sent[k]
           /\ (k \in SettingsIn(queued')) = (k \in SettingsIn(queued))
           /\ k \in SettingsIn(queued) => ValueIn(queued', k) = ValueIn(queued, k)
  <2>1. Pending(k)' = Pending(k)
    BY <1>9, PendingIs
  <2>2. Shown(k)' /\ StaysInEffect(k)'
    BY <1>1, <1>9, <2>1 DEF Settles, Shown, StaysInEffect
  <2>3. \A q \in Flight' : LastOf(k, q.actions)'
    <3> SUFFICES ASSUME NEW i \in 1..BatchSize
                 PROVE  Batch[i].setting # k /\ Batch[i].sequence # sent'[k].sequence
      BY <1>2, <1>4 DEF LastOf
    <3> QED BY <1>2, <1>5, <1>9
  <2>4. TakesEffect(k)'
    BY <1>1, <1>9, <2>3 DEF Settles, TakesEffect, LastOf
  <2> QED BY <2>2, <2>4 DEF Settles
<1> QED BY <1>1, <1>8, <1>9, SendingQueues

\* A value that is asked for is pending.
LEMMA AskingSettles ==
    ASSUME TypeOK, Kept, NEW k \in Settings, NEW v \in Values, Ask(k, v), Remain,
           NEW j \in Settings, Settles(j)
    PROVE  Settles(j)'
<1>1. /\ RequestStep(k, v) /\ asked' = [asked EXCEPT ![k] = v]
      /\ UNCHANGED <<sent, effective, requests, states, planeVars>>
  BY DEF Ask, Request, RequestStep, reading, channels
<1>2. /\ UNCHANGED <<serving, accepted, waiting, inEffect, Applied>> /\ Flight' = Flight
      /\ asked \in [Settings -> Values \cup {None}]
  BY <1>1 DEF planeVars, Applied, Flight, Outgoing, TypeOK
<1>3. /\ SettingsIn(queued') = SettingsIn(queued) \cup {k}
      /\ ValueIn(queued', k) = v
      /\ \A i \in SettingsIn(queued) \ {k} : ValueIn(queued', i) = ValueIn(queued, i)
  BY <1>1, AskingQueues DEF Kept
<1>4. CASE j = k
  <2>1. TakesEffect(j)'
    BY <1>1, <1>2 DEF Settles, TakesEffect, LastOf
  <2>2. StaysInEffect(j)'
    BY <1>3, <1>4 DEF StaysInEffect
  <2>3. Pending(j)' = v /\ asked'[j] = v /\ v # None
    BY <1>1, <1>2, <1>3, <1>4, PendingIs, SessionAssumption
  <2>4. Shown(j)'
    BY <2>3 DEF Shown
  <2> QED BY <2>1, <2>2, <2>4 DEF Settles
<1>5. CASE j # k
  <2>1. /\ (j \in SettingsIn(queued')) = (j \in SettingsIn(queued))
        /\ j \in SettingsIn(queued) => ValueIn(queued', j) = ValueIn(queued, j)
    BY <1>3, <1>5
  <2>2. asked'[j] = asked[j]
    BY <1>1, <1>2, <1>5
  <2> QED BY <1>1, <1>2, <2>1, <2>2, SettlesStill
<1> QED BY <1>4, <1>5

\* When the session opens, nothing was asked of the Realtime Plane before.
LEMMA OpeningSettles ==
    ASSUME TypeOK, Wire, Kept, TakeOpen, Remain, NEW k \in Settings, Settles(k)
    PROVE  Settles(k)'
<1>1. /\ serving = "replaced" /\ waiting = <<>> /\ actionSequence = 0 /\ Flight' = {}
      /\ UNCHANGED <<sent, queued, asked, effective, waiting>>
  <2>1. OpenRequest \in Outgoing /\ Flight' = {}
    BY Taking DEF TakeOpen, Wire
  <2> QED BY <2>1 DEF Wire, OpensFirst, TakeOpen, hostVars, asking, reading
<1>2. sent[k].sequence = 0
  <2>1. sent[k].sequence \in Nat
    BY DEF TypeOK, HostTypeOK
  <2> QED BY <1>1, <2>1 DEF Kept
<1>3. TakesEffect(k)'
  BY <1>1, <1>2 DEF TakesEffect, LastOf
<1>4. StaysInEffect(k)'
  BY <1>1, <1>2 DEF Settles, StaysInEffect
<1>5. Shown(k)'
  <2>1. Pending(k)' = Pending(k)
    BY <1>1, PendingIs
  <2> QED BY <1>1, <2>1 DEF Settles, Shown
<1> QED BY <1>3, <1>4, <1>5 DEF Settles

\* What the Realtime Plane accepts goes behind what it has yet to apply.
LEMMA AcceptingSettles ==
    ASSUME IInv, Wire, TakeData, Remain, Applied' = Applied, NEW k \in Settings, Settles(k)
    PROVE  Settles(k)'
<1> DEFINE q == Head(requests)
<1>1. q \in Flight /\ Flight' = {} /\ TypeOK
  BY Taking DEF TakeData, Flight, IInv, Wire
<1>2. /\ waiting' = waiting \o q.actions /\ serving = "own"
      /\ UNCHANGED <<serving, sent, queued, asked, effective, inEffect>>
  BY DEF TakeData, hostVars, asking, reading
<1>3. LastOf(k, waiting) /\ LastOf(k, q.actions)
  BY <1>1, <1>2 DEF Settles, TakesEffect
<1> HIDE DEF q
<1>4. waiting \in Seq(Action) /\ q.actions \in Seq(Action)
  BY <1>1, NumbersAre DEF TypeOK, PlaneTypeOK
<1>5. \A i \in DOMAIN waiting' : \/ i \in DOMAIN waiting /\ waiting'[i] = waiting[i]
                                 \/ \E j \in DOMAIN q.actions : waiting'[i] = q.actions[j]
  <2>1. /\ Len(waiting) \in Nat /\ DOMAIN waiting = 1..Len(waiting)
        /\ Len(q.actions) \in Nat /\ DOMAIN q.actions = 1..Len(q.actions)
    BY <1>4, LenProperties
  <2>2. /\ DOMAIN waiting' = 1..(Len(waiting) + Len(q.actions))
        /\ \A i \in 1..(Len(waiting) + Len(q.actions)) :
             waiting'[i] = IF i <= Len(waiting) THEN waiting[i] ELSE q.actions[i - Len(waiting)]
    BY <1>2, <1>4, ConcatProperties, LenProperties
  <2> SUFFICES ASSUME NEW i \in DOMAIN waiting'
               PROVE  \/ i \in DOMAIN waiting /\ waiting'[i] = waiting[i]
                      \/ \E j \in DOMAIN q.actions : waiting'[i] = q.actions[j]
    OBVIOUS
  <2>3. CASE i <= Len(waiting)
    BY <2>1, <2>2, <2>3
  <2>4. CASE ~(i <= Len(waiting))
    <3>1. i - Len(waiting) \in DOMAIN q.actions
      BY <2>1, <2>2, <2>4
    <3>2. waiting'[i] = q.actions[i - Len(waiting)]
      BY <2>2, <2>4
    <3> QED BY <3>1, <3>2
  <2> QED BY <2>3, <2>4
<1>6. LastOf(k, waiting)'
  BY <1>2, <1>3, <1>5 DEF LastOf
<1>7. TakesEffect(k)'
  <2>1. PICK d \in {0, 1} : \A i \in DOMAIN states' : states'[i].own =>
          /\ i + d \in DOMAIN states /\ states[i + d].own
          /\ states[i + d].applied = states'[i].applied /\ states[i + d].shows = states'[i].shows
    BY DEF Remain
  <2> QED BY <1>1, <1>2, <1>6, <2>1 DEF Settles, TakesEffect
<1>8. StaysInEffect(k)' /\ Shown(k)'
  <2>1. Pending(k)' = Pending(k)
    BY <1>2, PendingIs
  <2> QED BY <1>2, <2>1 DEF Settles, Shown, StaysInEffect, Remain
<1> QED BY <1>7, <1>8 DEF Settles

\* What the Realtime Plane applies is in effect, and no other setting changes.
LEMMA ApplyingSettles ==
    ASSUME IInv, Ordered, Apply, Applied' = Applied + 1, NEW k \in Settings, Settles(k)
    PROVE  Settles(k)'
<1> DEFINE a == waiting[1]
<1>1. /\ serving = "own" /\ waiting # <<>> /\ waiting' = Tail(waiting)
      /\ UNCHANGED <<serving, sent, queued, asked, effective, requests, states>>
  BY DEF Apply, vars, hostVars, asking, reading, channels
<1>2. /\ DOMAIN waiting = 1..Len(waiting) /\ Len(waiting) \in Nat \ {0} /\ a = Head(waiting)
      /\ DOMAIN waiting' = 1..(Len(waiting) - 1)
      /\ \A i \in 1..(Len(waiting) - 1) : waiting'[i] = waiting[i + 1]
  <2>1. waiting \in Seq(Action)
    BY DEF IInv, TypeOK, PlaneTypeOK
  <2> QED BY <1>1, <2>1, LenProperties, EmptySeq, HeadTailProperties
<1>3. inEffect' = [inEffect EXCEPT ![a.setting] = a.value] /\ inEffect \in [Settings -> Values]
  BY <1>2 DEF Apply, IInv, TypeOK, PlaneTypeOK
<1>4. 1 \in DOMAIN waiting /\ a.sequence = Applied + 1
  BY <1>1, <1>2 DEF Ordered, Waiting
<1>5. LastOf(k, waiting) /\ \A q \in Flight : LastOf(k, q.actions)
  BY <1>1 DEF Settles, TakesEffect
<1> HIDE DEF a
<1>6. /\ a.setting = k => a.sequence <= sent[k].sequence
      /\ a.sequence = sent[k].sequence => a.setting = k /\ a.value = sent[k].value
  BY <1>4, <1>5 DEF LastOf, a
<1>7. sent[k].sequence \in Nat /\ Applied \in Nat
  BY <1>1, ActionsAhead DEF IInv, TypeOK, HostTypeOK
<1>8. LastOf(k, waiting)'
  <2>1. \A i \in DOMAIN waiting' : i + 1 \in DOMAIN waiting /\ waiting'[i] = waiting[i + 1]
    BY <1>2
  <2> QED BY <1>1, <1>5, <2>1 DEF LastOf
<1>9. ASSUME 0 < sent[k].sequence, sent[k].sequence <= Applied + 1 PROVE inEffect'[k] = sent[k].value
  <2>1. CASE sent[k].sequence = Applied + 1
    BY <1>3, <1>4, <1>6, <2>1
  <2>2. CASE sent[k].sequence <= Applied
    <3>1. a.setting # k
      BY <1>4, <1>6, <1>7, <2>2
    <3>2. inEffect[k] = sent[k].value
      BY <1>1, <1>9, <2>2 DEF Settles, TakesEffect
    <3> QED BY <1>3, <3>1, <3>2
  <2> QED BY <1>7, <1>9, <2>1, <2>2
<1>10. TakesEffect(k)'
  <2>1. Flight' = Flight
    BY <1>1 DEF Flight, Outgoing
  <2>2. \A q \in Flight' : LastOf(k, q.actions)'
    BY <1>1, <1>5, <2>1 DEF LastOf
  <2> QED BY <1>1, <1>8, <1>9, <2>2 DEF Settles, TakesEffect
<1>11. StaysInEffect(k)'
  <2> SUFFICES ASSUME sent[k].sequence = 0, k \notin SettingsIn(queued), asked[k] # None
               PROVE  inEffect'[k] = asked[k]
    BY <1>1 DEF Settles, StaysInEffect
  <2>1. a.setting # k
    BY <1>4, <1>6, <1>7
  <2> QED BY <1>1, <1>3, <2>1 DEF Settles, StaysInEffect
<1>12. Shown(k)'
  <2>1. Pending(k)' = Pending(k)
    BY <1>1, PendingIs
  <2> QED BY <1>1, <2>1 DEF Settles, Shown
<1> QED BY <1>10, <1>11, <1>12 DEF Settles

\* What is published shows what is in effect.
LEMMA PublishingSettles ==
    ASSUME TypeOK, PublishState, NEW k \in Settings, Settles(k)
    PROVE  Settles(k)'
<1>1. /\ serving = "own"
      /\ UNCHANGED <<serving, sent, queued, asked, effective, requests, waiting, inEffect, accepted>>
  BY DEF PublishState, hostVars, asking, reading
<1>2. Flight' = Flight /\ Applied' = Applied
  BY <1>1 DEF Flight, Outgoing, Applied
<1>3. \A i \in DOMAIN states' :
             \/ i \in DOMAIN states /\ states'[i] = states[i]
             \/ states'[i].applied = Applied /\ states'[i].shows = inEffect
  BY PublishingReports
<1>4. TakesEffect(k)'
  <2>1. ASSUME NEW i \in DOMAIN states', states'[i].own,
               0 < sent[k].sequence, sent[k].sequence <= states'[i].applied
        PROVE  states'[i].shows[k] = sent[k].value
    BY <1>1, <1>3, <2>1 DEF Settles, TakesEffect
  <2> QED BY <1>1, <1>2, <2>1 DEF Settles, TakesEffect, LastOf
<1>5. StaysInEffect(k)'
  BY <1>1, <1>3 DEF Settles, StaysInEffect
<1>6. Shown(k)'
  <2>1. Pending(k)' = Pending(k)
    BY <1>1, PendingIs
  <2> QED BY <1>1, <2>1 DEF Settles, Shown
<1> QED BY <1>4, <1>5, <1>6 DEF Settles
-----------------------------------------------------------------------------
\* Every step keeps what the host holds of a setting in order.
LEMMA NextKept ==
    ASSUME IInv, Kept, [ExchangeNext]_allVars
    PROVE  Kept'
<1>1. /\ TypeOK /\ actionSequence \in Nat /\ \A k \in Settings : sent[k].sequence \in Nat
  BY DEF IInv, TypeOK, HostTypeOK
<1>2. CASE UNCHANGED <<actionSequence, sent, queued>>
  BY <1>2 DEF Kept
<1>3. ASSUME actionSequence' = actionSequence, queued' \in {queued, <<>>},
             \A k \in Settings : sent'[k] \in {sent[k], NotSent}
      PROVE  Kept'
  <2>1. Distinct(queued')
    BY <1>3 DEF Kept, Distinct
  <2>2. ASSUME NEW k \in Settings
        PROVE  sent'[k].sequence <= actionSequence /\ (sent'[k].sequence = 0 <=> sent'[k].value = None)
    <3>1. NotSent.sequence = 0 /\ NotSent.value = None /\ 0 <= actionSequence
      BY <1>1 DEF NotSent
    <3> QED BY <1>3, <3>1 DEF Kept
  <2> QED BY <1>3, <2>1, <2>2 DEF Kept
<1>4. CASE Turning
  BY <1>2, <1>4, TurningKeeps DEF asking
<1>5. CASE HostAdvance /\ (GiveUp \/ CollectAnswer \/ ReadState \/ ReadResult)
  <2>1. actionSequence' = actionSequence /\ queued' \in {queued, <<>>}
    BY <1>5 DEF GiveUp, GiveUpStep, CollectAnswer, ReadState, ReadResult, End, asking
  <2>2. ASSUME NEW k \in Settings PROVE sent'[k] \in {sent[k], NotSent}
    BY <1>5 DEF GiveUp, GiveUpStep, CollectAnswer, ReadState, ReadResult, End, asking, Unsettled
  <2> QED BY <1>3, <2>1, <2>2
<1>6. CASE (HostAdvance /\ SendNext) \/ (HostFails /\ SendRaises)
  BY <1>1, <1>6, SendingQueues DEF SendNext, HostFails, SendRaises
<1>12. CASE HostFails /\ AnswerRaises
  <2>1. actionSequence' = actionSequence /\ queued' \in {queued, <<>>}
    BY <1>12, RaisingLeaves
  <2>2. ASSUME NEW k \in Settings PROVE sent'[k] \in {sent[k], NotSent}
    BY <1>12, RaisingLeaves
  <2> QED BY <1>3, <2>1, <2>2
<1>7. CASE HostClose
  <2>1. actionSequence' = actionSequence /\ queued' \in {queued, <<>>}
    BY <1>7 DEF HostClose, Close, End
  <2>2. ASSUME NEW k \in Settings PROVE sent'[k] \in {sent[k], NotSent}
    BY <1>7 DEF HostClose, Close, End
  <2> QED BY <1>3, <2>1, <2>2
<1>8. ASSUME NEW k \in Settings, NEW v \in Values, Ask(k, v) PROVE Kept'
  <2>1. RequestStep(k, v) /\ UNCHANGED <<sent, actionSequence>>
    BY <1>8 DEF Ask, Request, RequestStep
  <2> QED BY <1>1, <2>1, AskingQueues DEF Kept
<1>9. CASE TakeOpen \/ TakeData \/ TakeAndClose \/ Apply \/ PublishState \/ AnswerWrongly \/ SpoilRecord
  <2>1. UNCHANGED hostVars
    BY <1>9 DEF TakeOpen, TakeData, TakeAndClose, Apply, PublishState, AnswerWrongly, SpoilRecord, vars
  <2> QED BY <1>2, <2>1 DEF hostVars, asking
<1>10. ASSUME NEW t \in Tiles, NEW r \in Regions, PublishResult(t, r) PROVE Kept'
  BY <1>2, <1>10 DEF PublishResult, hostVars, asking
<1>11. ASSUME NEW t \in Tiles, NEW v \in Values, PublishLate(t, v) PROVE Kept'
  BY <1>2, <1>11 DEF PublishLate, hostVars, asking
<1> QED BY <1>4, <1>5, <1>6, <1>7, <1>8, <1>9, <1>10, <1>11, <1>12, StepsAre DEF HostFails

\* Of some numbers below a bound one is the greatest.
LEMMA Greatest ==
    ASSUME NEW n \in Nat, NEW S, S \subseteq 1..n, S # {}
    PROVE  \E i \in S : \A j \in S : j <= i
<1> DEFINE R == OpToRel(<, Nat)
           T == {n - i : i \in S}
<1>1. T \subseteq Nat /\ T # {}
  <2>1. \A i \in S : n - i \in Nat
    OBVIOUS
  <2>2. T # {}
    OBVIOUS
  <2> QED BY <2>1, <2>2
<1>2. IsWellFoundedOn(R, Nat)
  BY NatLessThanWellFounded
<1>3. \A x, y \in Nat : y < x => <<y, x>> \in R
  BY DEF OpToRel
<1> HIDE DEF R, T
<1>4. PICK x \in T : \A y \in T : ~(<<y, x>> \in R)
  BY <1>1, <1>2, WFMin
<1>5. PICK i \in S : x = n - i
  BY <1>4 DEF T
<1>6. ASSUME NEW j \in S PROVE j <= i
  <2>1. n - j \in T
    BY DEF T
  <2>2. n - j \in Nat /\ n - i \in Nat /\ ~(n - j < n - i)
    BY <1>1, <1>3, <1>4, <1>5, <2>1
  <2> QED BY <2>2
<1> QED BY <1>6

\* Frames that leave a session open do not end it, when one that is accepted is not ended.
LEMMA OpenAfter ==
    ASSUME NEW frames \in Seq(Frame), state # "CLOSED", StateAfter(frames) # "CLOSED",
           \A i \in DOMAIN frames : frames[i].kind = "ACCEPT" => ~Ends(frames)
    PROVE  ~Ends(frames)
<1> DEFINE last == CHOOSE i \in Verdicts(frames) : \A j \in Verdicts(frames) : j <= i
<1>1. CASE Verdicts(frames) = {}
  BY <1>1 DEF Verdicts, Ends
<1>2. CASE Verdicts(frames) # {}
  <2>1. frames[last].kind = "ACCEPT"
    BY <1>2 DEF StateAfter
  <2>2. \E i \in Verdicts(frames) : \A j \in Verdicts(frames) : j <= i
    <3>1. Verdicts(frames) \subseteq 1..Len(frames) /\ Len(frames) \in Nat
      BY LenProperties DEF Verdicts
    <3> QED BY <1>2, <3>1, Greatest
  <2>3. last \in DOMAIN frames
    BY <2>2 DEF Verdicts
  <2> QED BY <2>1, <2>3
<1> QED BY <1>1, <1>2

\* An answer that leaves the session open takes nothing from what was asked for.
LEMMA CollectingLeaves ==
    ASSUME TypeOK, AcceptsFirst, CollectAnswer, state' # "CLOSED"
    PROVE  UNCHANGED <<queued, sent>>
<1>1. StateAfter(answer.frames) # "CLOSED" /\ state # "CLOSED"
  BY DEF CollectAnswer
<1>2. ~Ends(answer.frames)
  <2>1. answer.frames \in Seq(Frame)
    BY DEF TypeOK, ChannelTypeOK
  <2>2. \A i \in DOMAIN answer.frames : answer.frames[i].kind = "ACCEPT" => ~Ends(answer.frames)
    BY DEF AcceptsFirst
  <2> QED BY <1>1, <2>1, <2>2, OpenAfter
<1> QED BY <1>2 DEF CollectAnswer

\* Nor does one that cannot be read to its end.
LEMMA RaisingKeepsAsks ==
    ASSUME TypeOK, AcceptsFirst, AnswerRaises, state' # "CLOSED"
    PROVE  UNCHANGED <<queued, sent>>
<1>1. CASE UNCHANGED <<state, queued, sent, requestThrough, awaiting, answer>>
  BY <1>1
<1>2. CASE ~UNCHANGED <<state, queued, sent, requestThrough, awaiting, answer>>
  <2>1. PICK n \in 0..Len(answer.frames) :
           LET frames == [i \in 1..n |-> answer.frames[i]]
               ended == Ends(frames) \/ StateAfter(frames) = "CLOSED" IN
           /\ state' = StateAfter(frames)
           /\ queued' = IF ended THEN <<>> ELSE queued
           /\ sent' = IF ended THEN [k \in Settings |-> NotSent] ELSE sent
    BY <1>2 DEF AnswerRaises
  <2> DEFINE frames == [i \in 1..n |-> answer.frames[i]]
  <2>2. /\ n \in Nat /\ DOMAIN frames = 1..n
        /\ \A i \in 1..n : i \in DOMAIN answer.frames /\ frames[i] = answer.frames[i]
        /\ \A i \in 1..n : answer.frames[i] \in Frame
    <3>1. answer.frames \in Seq(Frame)
      BY DEF TypeOK, ChannelTypeOK
    <3>2. Len(answer.frames) \in Nat /\ DOMAIN answer.frames = 1..Len(answer.frames)
      BY <3>1, LenProperties
    <3>3. \A i \in 1..n : i \in DOMAIN answer.frames
      BY <3>2
    <3> QED BY <3>1, <3>2, <3>3, ElementOfSeq
  <2>3. frames \in Seq(Frame)
    BY <2>2, IsASeq
  <2>4. state' = StateAfter(frames) /\ state # "CLOSED"
    BY <2>1 DEF AnswerRaises
  <2> HIDE DEF frames
  <2>5. \A i \in DOMAIN frames : frames[i].kind = "ACCEPT" => ~Ends(frames)
    BY <2>2 DEF AcceptsFirst, Ends
  <2>6. ~Ends(frames)
    BY <2>3, <2>4, <2>5, OpenAfter
  <2> QED BY <2>1, <2>4, <2>6 DEF frames
<1> QED BY <1>1, <1>2

\* Nothing is asked for when the session starts.
LEMMA InitSettling == ASSUME ExchangeInit PROVE Kept /\ Reported /\ Settling
<1>1. /\ queued = <<>> /\ sent = [k \in Settings |-> NotSent] /\ actionSequence = 0
      /\ asked = [k \in Settings |-> None] /\ states = <<>> /\ serving = "replaced"
  BY DEF ExchangeInit, Init
<1>2. \A k \in Settings : sent[k].sequence = 0 /\ sent[k].value = None /\ asked[k] = None
  BY <1>1 DEF NotSent
<1>3. Kept /\ Reported
  BY <1>1, <1>2 DEF Kept, Distinct, Reported
<1>4. \A k \in Settings : Settles(k)
  BY <1>1, <1>2 DEF Settles, TakesEffect, StaysInEffect, Shown
<1> QED BY <1>3, <1>4 DEF Settling

\* Every step of the two ends leaves what was asked for pending or in effect.
LEMMA NextSettling ==
    ASSUME IInv, ReadInv, Wire, Counted, Ordered, Kept, Reported, Settling, [ExchangeNext]_allVars
    PROVE  Settling'
<1> SUFFICES ASSUME Attached', NEW k \in Settings PROVE Settles(k)'
  BY DEF Settling
<1>1. /\ TypeOK /\ Applied \in Int
      /\ ~PublishState => Remain
      /\ Applied' # Applied => Apply /\ Applied' = Applied + 1
  BY OnlyPublishingReports, AppliedGrows DEF IInv
<1>2. Attached => Settles(k)
  BY DEF Settling
<1>3. ASSUME Attached, ~PublishState, UNCHANGED <<sent, queued, asked, effective>>,
             serving' = "own" => serving = "own" /\ UNCHANGED <<waiting, inEffect, accepted>>,
             serving' = "replaced" => serving = "replaced", Flight' \subseteq Flight
      PROVE  Settles(k)'
  BY <1>1, <1>2, <1>3, SettlesStill DEF Applied
<1>4. ASSUME Attached, ~PublishState, UNCHANGED <<sent, queued, asked, effective, requests, planeVars>>
      PROVE  Settles(k)'
  BY <1>3, <1>4 DEF planeVars, Flight, Outgoing
<1>5. CASE PublishState
  <2>1. Attached
    BY <1>5 DEF PublishState, hostVars, Attached
  <2> QED BY <1>1, <1>2, <1>5, <2>1, PublishingSettles
<1> SUFFICES ASSUME ~PublishState PROVE Settles(k)'
  BY <1>5
<1>6. CASE Turning
  <2>1. /\ UNCHANGED <<sent, queued, asked, effective, requests, planeVars>>
        /\ Attached
    BY <1>6, TurningKeeps DEF asking, reading, channels
  <2> QED BY <1>4, <2>1
<1>7. CASE HostAdvance /\ CollectAnswer
  <2>1. state' # "CLOSED" /\ AcceptsFirst
    BY DEF Attached, Ordered
  <2>2. UNCHANGED <<sent, queued>>
    BY <1>1, <1>7, <2>1, CollectingLeaves
  <2>3. Attached /\ UNCHANGED <<asked, effective, requests, planeVars>>
    BY <1>7 DEF HostAdvance, CollectAnswer, reading, Attached
  <2> QED BY <1>4, <2>2, <2>3
<1>8. CASE HostAdvance /\ ReadState
  <2> DEFINE record == Head(states)
  <2>1. /\ state' # "CLOSED" /\ turn' # "raised" /\ turn = "states"
        /\ states # <<>> /\ states' = Tail(states)
        /\ UNCHANGED <<asked, requests, planeVars>>
    BY <1>8 DEF HostAdvance, ReadState, Attached
  <2>2. \/ /\ Foreign(record) /\ UNCHANGED <<state, turn, asking, reading>>
        \/ /\ ~Foreign(record) /\ UNCHANGED <<state, turn, queued>>
           /\ effective' = record.shows /\ sent' = Unsettled(record)
    BY <1>8, <2>1 DEF ReadState, End
  <2>3. Attached
    BY <2>2 DEF Attached
  <2>4. CASE Foreign(record) /\ UNCHANGED <<state, turn, asking, reading>>
    BY <1>4, <2>1, <2>3, <2>4 DEF asking, reading
  <2>5. CASE /\ ~Foreign(record) /\ UNCHANGED queued
             /\ effective' = record.shows /\ sent' = Unsettled(record)
    <3>1. Head(states).own /\ OpensFirst /\ Settles(k)
      BY <1>2, <2>3, <2>5 DEF Foreign, Wire
    <3> QED BY <2>1, <2>5, <3>1, ReadingSettles
  <2> QED BY <2>2, <2>4, <2>5
<1>9. CASE HostAdvance /\ ReadResult
  <2>1. state' # "CLOSED" /\ turn' # "raised"
    BY DEF Attached
  <2>2. /\ UNCHANGED <<state, sent, queued, asked, effective, requests, planeVars>>
        /\ turn = "results" /\ state' = state
    BY <1>9, <2>1 DEF HostAdvance, ReadResult, End, asking, reading
  <2>3. Attached
    BY <2>1, <2>2 DEF Attached
  <2> QED BY <1>4, <2>2, <2>3
<1>10. CASE HostAdvance /\ SendNext
  <2>1. Attached /\ UNCHANGED <<asked, planeVars>>
    BY <1>10 DEF HostAdvance, SendNext, Assemble, Attached
  <2> QED BY <1>2, <1>10, <2>1, SendingSettles
<1>11. CASE (HostAdvance /\ GiveUp) \/ HostFails \/ HostClose
  BY <1>11, RaisingLeaves DEF GiveUp, GiveUpStep, End, HostFails, SendRaises, HostClose, Close, Attached
<1>12. ASSUME NEW j \in Settings, NEW v \in Values, Ask(j, v) PROVE Settles(k)'
  <2>1. Attached
    BY <1>12 DEF Ask, Request, RequestStep, Attached
  <2> QED BY <1>1, <1>2, <1>12, <2>1, AskingSettles
<1>13. CASE TakeOpen
  <2>1. Attached
    BY <1>13 DEF TakeOpen, hostVars, Attached
  <2> QED BY <1>1, <1>2, <1>13, <2>1, OpeningSettles
<1>14. CASE TakeData
  <2>1. Attached
    BY <1>14 DEF TakeData, hostVars, Attached
  <2>2. Applied' = Applied
    <3>1. ~Apply
      <4>1. TypeOK /\ requests # <<>>
        BY <1>1, <1>14 DEF TakeData
      <4>2. requests' = Tail(requests)
        BY <1>14 DEF TakeData
      <4>3. Len(requests) \in Nat /\ Len(requests') = Len(requests) - 1
        BY <4>1, <4>2, Taking
      <4>4. requests' # requests
        BY <4>3
      <4> QED BY <4>4 DEF Apply, vars, channels
    <3> QED BY <1>1, <3>1
  <2> QED BY <1>1, <1>2, <1>14, <2>1, <2>2, AcceptingSettles
<1>15. CASE TakeAndClose \/ AnswerWrongly
  <2>1. /\ requests # <<>> /\ requests' = Tail(requests) /\ UNCHANGED hostVars
        /\ serving' = "own" => serving = "own" /\ UNCHANGED <<waiting, inEffect, accepted>>
        /\ serving' = "replaced" => serving = "replaced"
        /\ UNCHANGED asked
    BY <1>15 DEF TakeAndClose, AnswerWrongly, planeVars
  <2>2. Flight' \subseteq Flight
    BY <1>1, <2>1, Taking
  <2>3. Attached /\ UNCHANGED <<sent, queued, asked, effective>>
    BY <2>1 DEF hostVars, asking, reading, Attached
  <2> QED BY <1>3, <2>1, <2>2, <2>3
<1>16. CASE Apply
  <2>1. Attached /\ waiting # <<>>
    BY <1>16 DEF Apply, vars, hostVars, Attached
  <2>2. Applied' = Applied + 1
    <3>1. waiting \in Seq(Action) /\ accepted \in Nat
      BY <1>1 DEF TypeOK, PlaneTypeOK
    <3>2. Len(waiting') = Len(waiting) - 1 /\ accepted' = accepted /\ Len(waiting) \in Nat
      BY <1>16, <2>1, <3>1, EmptySeq, HeadTailProperties DEF Apply
    <3> QED BY <3>1, <3>2 DEF Applied
  <2> QED BY <1>1, <1>2, <1>16, <2>1, <2>2, ApplyingSettles
<1>17. CASE SpoilRecord
  BY <1>4, <1>17 DEF SpoilRecord, hostVars, asking, reading, Attached
<1>18. ASSUME NEW t \in Tiles, NEW r \in Regions, PublishResult(t, r) PROVE Settles(k)'
  <2>1. /\ UNCHANGED <<sent, queued, asked, effective, requests, serving, waiting, inEffect, accepted>>
        /\ Attached
    BY <1>18 DEF PublishResult, hostVars, asking, reading, Attached
  <2> QED BY <1>3, <2>1 DEF Flight, Outgoing
<1>19. ASSUME NEW t \in Tiles, NEW v \in Values, PublishLate(t, v) PROVE Settles(k)'
  BY <1>4, <1>19 DEF PublishLate, hostVars, asking, reading, Attached
<1> QED BY <1>6, <1>7, <1>8, <1>9, <1>10, <1>11, <1>12, <1>13, <1>14, <1>15, <1>16, <1>17, <1>18, <1>19,
        StepsAre

\* What was asked for stays pending or in effect in every state.
LEMMA SettlingInductive == HonestAnswers /\ ExchangeSpec => [](Kept /\ Settling)
<1> SUFFICES ASSUME HonestAnswers PROVE ExchangeSpec => [](Kept /\ Settling)
  OBVIOUS
<1>1. ExchangeInit => Kept /\ Reported /\ Settling
  BY InitSettling
<1>2. Exchanged /\ Ordered /\ (Kept /\ Reported /\ Settling) /\ [ExchangeNext]_allVars
        => (Kept /\ Reported /\ Settling)'
  BY NextKept, NextReported, NextSettling DEF Exchanged
<1>3. Kept /\ Reported /\ Settling => Kept /\ Settling
  OBVIOUS
<1> QED BY <1>1, <1>2, <1>3, OrderedInductive, PTL DEF ExchangeSpec

\* While the session lasts, nothing a person asked for is forgotten or shown wrongly
\* (session.py:8-11, 111-117), unless the Realtime Plane acknowledges what it drops.
THEOREM LatestAskIsAlwaysShown ==
    ASSUME HonestAnswers
    PROVE  ExchangeSpec => []LatestAskIsShown
<1>1. Settling => LatestAskIsShown
  BY DEF Settling, Settles, Shown, LatestAskIsShown
<1>2. Kept /\ Settling => LatestAskIsShown
  BY <1>1
<1> QED BY <1>2, SettlingInductive, PTL
-----------------------------------------------------------------------------
\* A report settles what it covers, in the promise as in the session.
LEMMA ReportIsPromised ==
    ASSUME TypeOK, TypeOK', ReadInv, Kept, \A k \in Settings : Settles(k),
           states # <<>>, Head(states).own, Head(states).readable,
           SessionOpen, SessionOpen', UNCHANGED queued,
           sent' = Unsettled(Head(states)), effective' = Head(states).shows
    PROVE  Promise!Report
<1> DEFINE r == Head(states)
           pending == [k \in Settings |-> IF SessionOpen THEN Pending(k) ELSE None]
           settled == {k \in Settings : /\ k \notin SettingsIn(queued)
                                        /\ sent[k].sequence # 0 /\ sent[k].sequence <= r.applied}
<1>1. /\ r \in StateRecord /\ 1 \in DOMAIN states /\ r = states[1]
  <2>1. states \in Seq(StateRecord)
    BY DEF TypeOK, ChannelTypeOK
  <2>2. Len(states) \in Nat \ {0} /\ DOMAIN states = 1..Len(states) /\ r = states[1]
    BY <2>1, EmptySeq, HeadTailProperties, LenProperties
  <2> QED BY <2>1, <2>2, ElementOfSeq
<1>2. effective' \in [Settings -> Values] /\ r.applied \in Nat /\ effective' = r.shows
  BY <1>1 DEF StateRecord
<1>3. ASSUME NEW k \in Settings
      PROVE  /\ sent[k].sequence \in Nat /\ (sent[k].sequence = 0 <=> sent[k].value = None)
             /\ pending[k] = Pending(k)
             /\ sent'[k] = IF sent[k].sequence > r.applied THEN sent[k] ELSE NotSent
  BY DEF TypeOK, HostTypeOK, Kept, Unsettled
<1>4. ASSUME NEW k \in settled
      PROVE  /\ pending[k] # None /\ effective'[k] = pending[k] /\ Pending(k)' = None
  <2>1. Pending(k) = sent[k].value /\ sent[k].value # None /\ 0 < sent[k].sequence
    BY <1>3, PendingIs
  <2>2. r.shows[k] = sent[k].value
    BY <1>1, <2>1 DEF Settles, TakesEffect
  <2>3. Pending(k)' = None
    <3>1. sent'[k] = NotSent
      BY <1>2, <1>3
    <3> QED BY <3>1, PendingIs DEF NotSent
  <2> QED BY <1>2, <1>3, <2>1, <2>2, <2>3
<1>5. ASSUME NEW k \in Settings, k \notin settled PROVE Pending(k)' = Pending(k)
  <2>1. CASE k \in SettingsIn(queued)
    BY <2>1, PendingIs
  <2>2. CASE k \notin SettingsIn(queued)
    <3>1. sent'[k].value = sent[k].value
      BY <1>2, <1>3, <1>5, <2>2 DEF NotSent
    <3> QED BY <2>2, <3>1, PendingIs
  <2> QED BY <2>1, <2>2
<1> DEFINE after == [k \in Settings |-> IF SessionOpen' THEN Pending(k)' ELSE None]
<1>6. /\ settled \in SUBSET {k \in Settings : pending[k] # None}
      /\ after = [k \in Settings |-> IF k \in settled THEN None ELSE pending[k]]
      /\ \A k \in settled : effective'[k] = pending[k]
  <2>1. \A k \in Settings : after[k] = IF k \in settled THEN None ELSE pending[k]
    BY <1>3, <1>4, <1>5
  <2> HIDE DEF pending, settled
  <2>2. after = [k \in Settings |-> IF k \in settled THEN None ELSE pending[k]]
    BY <2>1
  <2>3. settled \subseteq Settings
    BY DEF settled
  <2> QED BY <1>4, <2>2, <2>3
<1> HIDE DEF settled
<1> QED BY <1>2, <1>6 DEF Promise!Report

\* Every step of the two ends is one of the promise, or none.
LEMMA NextPromised ==
    ASSUME IInv, IInv', ReadInv, Wire, Ordered, Kept, Settling, [ExchangeNext]_allVars
    PROVE  [Promise!Next]_(Promise!exchangeVars)
<1>1. TypeOK /\ TypeOK'
  BY DEF IInv
<1>2. ASSUME SessionOpen' = SessionOpen, effective' = effective,
             SessionOpen => \A k \in Settings : Pending(k)' = Pending(k)
      PROVE  UNCHANGED Promise!exchangeVars
  BY <1>2 DEF Promise!exchangeVars
<1>3. ASSUME SessionOpen' = SessionOpen, UNCHANGED <<effective, queued, sent>>
      PROVE  UNCHANGED Promise!exchangeVars
  BY <1>2, <1>3, PendingIs
<1>4. ASSUME SessionOpen, ~SessionOpen', effective' = effective
      PROVE  Promise!Finish
  BY <1>4 DEF Promise!Finish
<1>5. CASE Turning
  BY <1>3, <1>5, TurningKeeps DEF asking, reading, SessionOpen
<1>6. CASE HostAdvance /\ GiveUp
  <2>1. SessionOpen /\ ~SessionOpen' /\ effective' = effective
    BY <1>6 DEF GiveUp, GiveUpStep, End, SessionOpen, reading
  <2> QED BY <1>4, <2>1 DEF Promise!Next
<1>7. CASE HostAdvance /\ CollectAnswer
  <2>1. SessionOpen /\ turn' # "dropped" /\ effective' = effective
    BY <1>7 DEF CollectAnswer, Reading, SessionOpen, reading
  <2>2. CASE state' = "CLOSED"
    BY <1>4, <2>1, <2>2 DEF Promise!Next, SessionOpen
  <2>3. CASE state' # "CLOSED"
    BY <1>1, <1>3, <1>7, <2>1, <2>3, CollectingLeaves DEF Ordered, SessionOpen
  <2> QED BY <2>2, <2>3
<1>8. CASE HostAdvance /\ ReadState
  <2> DEFINE record == Head(states)
  <2>1. /\ SessionOpen /\ Attached /\ states # <<>> /\ turn' # "dropped"
    BY <1>8 DEF ReadState, SessionOpen, Attached, IInv, ClosedIsEmpty
  <2>2. \/ UNCHANGED <<state, queued, sent, effective>>
        \/ state' = "CLOSED" /\ effective' = effective
        \/ /\ record.readable /\ ~Foreign(record) /\ UNCHANGED <<state, queued>>
           /\ effective' = record.shows /\ sent' = Unsettled(record)
    BY <1>8 DEF ReadState, End, asking, reading
  <2>3. CASE UNCHANGED <<state, queued, sent, effective>>
    BY <1>3, <2>1, <2>3 DEF SessionOpen
  <2>4. CASE state' = "CLOSED" /\ effective' = effective
    BY <1>4, <2>1, <2>4 DEF Promise!Next, SessionOpen
  <2>5. CASE /\ record.readable /\ ~Foreign(record) /\ UNCHANGED <<state, queued>>
             /\ effective' = record.shows /\ sent' = Unsettled(record)
    <3>1. SessionOpen' /\ Head(states).own /\ \A k \in Settings : Settles(k)
      BY <2>1, <2>5 DEF SessionOpen, Foreign, Settling
    <3>2. Promise!Report
      BY <1>1, <2>1, <2>5, <3>1, ReportIsPromised
    <3> QED BY <3>2 DEF Promise!Next
  <2> QED BY <2>2, <2>3, <2>4, <2>5
<1>9. CASE HostAdvance /\ ReadResult
  <2>1. /\ turn = "results" /\ turn' # "dropped" /\ effective' = effective
        /\ UNCHANGED <<state, queued, sent>> \/ state' = "CLOSED"
    BY <1>9 DEF ReadResult, End, asking, reading
  <2>2. CASE UNCHANGED <<state, queued, sent>>
    BY <1>3, <2>1, <2>2 DEF SessionOpen
  <2>3. CASE state' = "CLOSED" /\ state # "CLOSED"
    BY <1>4, <2>1, <2>3 DEF Promise!Next, SessionOpen
  <2>4. CASE state' = "CLOSED" /\ state = "CLOSED"
    BY <1>2, <2>1, <2>4 DEF SessionOpen
  <2> QED BY <2>1, <2>2, <2>3, <2>4
<1>18. CASE HostFails /\ AnswerRaises
  <2>1. SessionOpen /\ turn' # "dropped" /\ effective' = effective
    BY <1>18, RaisingLeaves DEF SessionOpen, reading
  <2>2. CASE state' = "CLOSED"
    BY <1>4, <2>1, <2>2 DEF Promise!Next, SessionOpen
  <2>3. CASE state' # "CLOSED"
    BY <1>1, <1>3, <1>18, <2>1, <2>3, RaisingKeepsAsks DEF Ordered, SessionOpen
  <2> QED BY <2>2, <2>3
<1>10. CASE (HostAdvance /\ SendNext) \/ (HostFails /\ SendRaises)
  <2>1. Assemble /\ turn = "send" /\ turn' # "dropped" /\ UNCHANGED <<state, effective>>
    BY <1>10 DEF SendNext, HostFails, SendRaises, Assemble, reading
  <2>2. ASSUME NEW k \in Settings PROVE Pending(k)' = Pending(k)
    <3>1. CASE \E i \in 1..BatchSize :
                  /\ k \in SettingsIn(queued) /\ k \notin SettingsIn(queued')
                  /\ sent'[k] = [sequence |-> actionSequence + i, value |-> queued[i].value]
                  /\ ValueIn(queued, k) = queued[i].value
      <4>1. sent'[k].value = ValueIn(queued, k)
        BY <3>1
      <4> QED BY <3>1, <4>1, PendingIs
    <3>2. CASE /\ sent'[k] = sent[k]
               /\ (k \in SettingsIn(queued')) = (k \in SettingsIn(queued))
               /\ k \in SettingsIn(queued) => ValueIn(queued', k) = ValueIn(queued, k)
      BY <3>2, PendingIs
    <3> QED BY <1>1, <2>1, <3>1, <3>2, SendingQueues
  <2> QED BY <1>2, <2>1, <2>2 DEF SessionOpen
<1>11. CASE HostClose
  <2>1. turn # "dropped" /\ turn' = "dropped" /\ effective' = effective
    BY <1>11 DEF HostClose, Close, reading
  <2>2. CASE state = "CLOSED"
    BY <1>2, <2>1, <2>2 DEF SessionOpen
  <2>3. CASE state # "CLOSED"
    BY <1>4, <2>1, <2>3 DEF SessionOpen, Promise!Next
  <2> QED BY <2>2, <2>3
<1>12. ASSUME NEW k \in Settings, NEW v \in Values, Ask(k, v) PROVE Promise!Ask(k, v)
  <2>1. /\ RequestStep(k, v) /\ SessionOpen /\ SessionOpen' /\ UNCHANGED <<sent, effective>>
    BY <1>12 DEF Ask, Request, RequestStep, SessionOpen, reading
  <2>2. /\ SettingsIn(queued') = SettingsIn(queued) \cup {k}
        /\ ValueIn(queued', k) = v
        /\ \A i \in SettingsIn(queued) \ {k} : ValueIn(queued', i) = ValueIn(queued, i)
    BY <1>1, <2>1, AskingQueues DEF Kept
  <2>3. ASSUME NEW j \in Settings PROVE Pending(j)' = IF j = k THEN v ELSE Pending(j)
    BY <2>1, <2>2, PendingIs
  <2>4. [j \in Settings |-> IF SessionOpen' THEN Pending(j)' ELSE None]
          = [[j \in Settings |-> IF SessionOpen THEN Pending(j) ELSE None] EXCEPT ![k] = v]
    BY <2>1, <2>3
  <2> QED BY <2>1, <2>4 DEF Promise!Ask
<1>13. ASSUME UNCHANGED hostVars PROVE UNCHANGED Promise!exchangeVars
  <2>1. UNCHANGED <<state, turn, queued, sent, effective>>
    BY <1>13 DEF hostVars, asking, reading
  <2> QED BY <1>3, <2>1 DEF SessionOpen
<1>14. CASE TakeOpen \/ TakeData \/ TakeAndClose \/ Apply \/ PublishState \/ AnswerWrongly \/ SpoilRecord
  <2>1. UNCHANGED hostVars
    BY <1>14 DEF TakeOpen, TakeData, TakeAndClose, Apply, PublishState, AnswerWrongly, SpoilRecord, vars
  <2> QED BY <1>13, <2>1
<1>15. ASSUME NEW t \in Tiles, NEW r \in Regions, PublishResult(t, r) PROVE UNCHANGED Promise!exchangeVars
  BY <1>13, <1>15 DEF PublishResult
<1>16. ASSUME NEW t \in Tiles, NEW v \in Values, PublishLate(t, v) PROVE UNCHANGED Promise!exchangeVars
  BY <1>13, <1>16 DEF PublishLate
<1>17. (\E k \in Settings, v \in Values : Ask(k, v)) => Promise!Next
  BY <1>12 DEF Promise!Next
<1> QED BY <1>5, <1>6, <1>7, <1>8, <1>9, <1>10, <1>11, <1>14, <1>15, <1>16, <1>17, <1>18,
           StepsAre DEF HostFails

\* The session keeps the promise it makes about settings: a value asked for stays pending
\* until a report shows that very value in effect, or the session ends (session.py:8-18),
\* unless the Realtime Plane acknowledges what it drops.
THEOREM SessionKeepsPromise ==
    ASSUME HonestAnswers
    PROVE  ExchangeSpec => KeepsPromise
<1>1. ExchangeInit => Promise!Init
  <2> SUFFICES ASSUME ExchangeInit PROVE Promise!Init
    OBVIOUS
  <2>1. /\ SessionOpen /\ queued = <<>> /\ effective = [k \in Settings |-> None]
        /\ sent = [k \in Settings |-> NotSent]
    BY DEF ExchangeInit, Init, SessionOpen
  <2>2. \A k \in Settings : Pending(k) = None
    BY <2>1 DEF Pending, QueuedSettings, NotSent
  <2> QED BY <2>1, <2>2 DEF Promise!Init
<1>2. /\ Exchanged /\ Exchanged' /\ Ordered /\ Kept /\ Settling
      /\ [ExchangeNext]_allVars
      => [Promise!Next]_(Promise!exchangeVars)
  BY NextPromised DEF Exchanged
<1>3. HonestAnswers
  OBVIOUS
<1> QED BY <1>1, <1>2, <1>3, OrderedInductive, SettlingInductive, PTL DEF ExchangeSpec, KeepsPromise, Promise!Spec
-----------------------------------------------------------------------------
\* A Realtime Plane that keeps to the protocol: one that drops a request loses the releases
\* in it, and one that drops a record loses its region.
Obedient == WrongAnswers = {} /\ ~SpoilsRecords

\* The regions of results of this session, each in one of them.
RegionsOf(records) == {records[i].region : i \in {j \in DOMAIN records : records[j].own}}
Apart(records) ==
    \A i, j \in DOMAIN records :
        records[i].own /\ records[j].own /\ records[i].region = records[j].region => i = j

\* The regions of a list, each of them once.
Listed(regions) == {regions[i] : i \in DOMAIN regions}
Once(regions) == \A i, j \in DOMAIN regions : regions[i] = regions[j] => i = j

Going == UNION {Listed(q.regions) : q \in Flight}

\* Every region the host holds is in a result on its way, among the releases, or in a
\* request, and in one of them only.
Pooled ==
    (serving = "own" /\ Attached) =>
        /\ held = RegionsOf(results) \cup Listed(releases) \cup Going
        /\ RegionsOf(results) \cap Listed(releases) = {}
        /\ RegionsOf(results) \cap Going = {} /\ Listed(releases) \cap Going = {}
        /\ Apart(results) /\ Once(releases)

\* Reading a result takes its region out of those on their way, and only that.
LEMMA ReadingTakesRegion ==
    ASSUME NEW S, NEW s \in Seq(S), s # <<>>, Apart(s)
    PROVE  /\ Apart(Tail(s))
           /\ Head(s).own => /\ Head(s).region \in RegionsOf(s)
                             /\ RegionsOf(Tail(s)) = RegionsOf(s) \ {Head(s).region}
           /\ ~Head(s).own => RegionsOf(Tail(s)) = RegionsOf(s)
<1> DEFINE t == Tail(s)
<1>1. /\ Len(s) \in Nat \ {0} /\ DOMAIN s = 1..Len(s) /\ Head(s) = s[1]
      /\ DOMAIN t = 1..(Len(s) - 1)
      /\ \A i \in 1..(Len(s) - 1) : t[i] = s[i + 1]
  BY EmptySeq, LenProperties, HeadTailProperties
<1> HIDE DEF t
<1>2. /\ \A i \in DOMAIN t : i + 1 \in DOMAIN s /\ t[i] = s[i + 1] /\ i + 1 # 1
      /\ \A i, j \in DOMAIN t : i + 1 = j + 1 => i = j
      /\ 1 \in DOMAIN s
  BY <1>1
<1>3. \A i \in DOMAIN s : i = 1 \/ \E j \in DOMAIN t : i = j + 1 /\ t[j] = s[i]
  <2> SUFFICES ASSUME NEW i \in DOMAIN s, i # 1 PROVE \E j \in DOMAIN t : i = j + 1 /\ t[j] = s[i]
    OBVIOUS
  <2>1. i - 1 \in DOMAIN t /\ i = (i - 1) + 1
    BY <1>1
  <2> QED BY <1>2, <2>1
<1>4. Apart(t)
  <2> SUFFICES ASSUME NEW i \in DOMAIN t, NEW j \in DOMAIN t,
                      t[i].own, t[j].own, t[i].region = t[j].region
               PROVE  i = j
    BY DEF Apart
  <2>1. i + 1 = j + 1
    BY <1>2 DEF Apart
  <2> QED BY <1>2, <2>1
<1>5. RegionsOf(t) \subseteq RegionsOf(s)
  BY <1>2 DEF RegionsOf
<1>6. \A g \in RegionsOf(s) : g \in RegionsOf(t) \/ (s[1].own /\ g = s[1].region)
  BY <1>3 DEF RegionsOf
<1>7. s[1].own => s[1].region \in RegionsOf(s) /\ s[1].region \notin RegionsOf(t)
  <2> SUFFICES ASSUME s[1].own PROVE s[1].region \in RegionsOf(s) /\ s[1].region \notin RegionsOf(t)
    OBVIOUS
  <2>1. s[1].region \in RegionsOf(s)
    BY <1>2 DEF RegionsOf
  <2>2. ASSUME NEW i \in DOMAIN t, t[i].own, t[i].region = s[1].region PROVE FALSE
    <3>1. i + 1 = 1
      BY <1>2, <2>2 DEF Apart
    <3> QED BY <1>2, <3>1
  <2> QED BY <2>1, <2>2 DEF RegionsOf
<1> QED BY <1>1, <1>4, <1>5, <1>6, <1>7 DEF t

\* A result that is painted into another region adds that region.
LEMMA PaintingAddsRegion ==
    ASSUME NEW S, NEW s \in Seq(S), NEW r \in S, Apart(s), r.own, r.region \notin RegionsOf(s)
    PROVE  Apart(Append(s, r)) /\ RegionsOf(Append(s, r)) = RegionsOf(s) \cup {r.region}
<1> DEFINE t == Append(s, r)
<1>1. /\ Len(s) \in Nat /\ DOMAIN s = 1..Len(s)
      /\ DOMAIN t = 1..(Len(s) + 1)
      /\ \A i \in 1..Len(s) : t[i] = s[i]
      /\ t[Len(s) + 1] = r
  BY LenProperties, AppendProperties
<1> HIDE DEF t
<1>2. /\ \A i \in DOMAIN t : (i \in DOMAIN s /\ t[i] = s[i]) \/ (i = Len(s) + 1 /\ t[i] = r)
      /\ \A i \in DOMAIN s : i \in DOMAIN t /\ t[i] = s[i]
      /\ Len(s) + 1 \in DOMAIN t
  <2>1. ASSUME NEW i \in 1..(Len(s) + 1) PROVE i \in 1..Len(s) \/ i = Len(s) + 1
    BY <1>1
  <2>2. ASSUME NEW i \in 1..Len(s) PROVE i \in 1..(Len(s) + 1)
    BY <1>1
  <2>3. Len(s) + 1 \in 1..(Len(s) + 1)
    BY <1>1
  <2> QED BY <1>1, <2>1, <2>2, <2>3
<1>3. \A i \in DOMAIN s : s[i].own => s[i].region # r.region
  BY DEF RegionsOf
<1>4. Apart(t)
  BY <1>2, <1>3 DEF Apart
<1>5. RegionsOf(t) \subseteq RegionsOf(s) \cup {r.region}
  BY <1>2 DEF RegionsOf
<1>6. RegionsOf(s) \subseteq RegionsOf(t)
  BY <1>2 DEF RegionsOf
<1>7. r.region \in RegionsOf(t)
  BY <1>1, <1>2 DEF RegionsOf
<1> QED BY <1>4, <1>5, <1>6, <1>7 DEF t

\* So does a region that is to be released.
LEMMA ReleasingLists ==
    ASSUME NEW S, NEW s \in Seq(S), NEW g \in S, Once(s), g \notin Listed(s)
    PROVE  Once(Append(s, g)) /\ Listed(Append(s, g)) = Listed(s) \cup {g}
<1> DEFINE t == Append(s, g)
<1>1. /\ Len(s) \in Nat /\ DOMAIN s = 1..Len(s)
      /\ DOMAIN t = 1..(Len(s) + 1)
      /\ \A i \in 1..Len(s) : t[i] = s[i]
      /\ t[Len(s) + 1] = g
  BY LenProperties, AppendProperties
<1> HIDE DEF t
<1>2. /\ \A i \in DOMAIN t : (i \in DOMAIN s /\ t[i] = s[i]) \/ (i = Len(s) + 1 /\ t[i] = g)
      /\ \A i \in DOMAIN s : i \in DOMAIN t /\ t[i] = s[i]
      /\ Len(s) + 1 \in DOMAIN t
  <2>1. ASSUME NEW i \in 1..(Len(s) + 1) PROVE i \in 1..Len(s) \/ i = Len(s) + 1
    BY <1>1
  <2>2. ASSUME NEW i \in 1..Len(s) PROVE i \in 1..(Len(s) + 1)
    BY <1>1
  <2>3. Len(s) + 1 \in 1..(Len(s) + 1)
    BY <1>1
  <2> QED BY <1>1, <2>1, <2>2, <2>3
<1>3. Once(t)
  BY <1>2 DEF Once, Listed
<1>4. Listed(t) \subseteq Listed(s) \cup {g} /\ Listed(s) \subseteq Listed(t)
  BY <1>2 DEF Listed
<1>5. g \in Listed(t)
  BY <1>1, <1>2 DEF Listed
<1> QED BY <1>3, <1>4, <1>5 DEF t

\* There are as many of them as the list is long.
LEMMA OnceCounts ==
    ASSUME NEW S, NEW s \in Seq(S), Once(s)
    PROVE  Cardinality(Listed(s)) = Len(s)
<1> DEFINE f == [i \in 1..Len(s) |-> s[i]]
<1>1. Len(s) \in Nat /\ DOMAIN s = 1..Len(s)
  BY LenProperties
<1>2. f \in Bijection(1..Len(s), Listed(s))
  <2>1. f \in [1..Len(s) -> Listed(s)]
    BY <1>1 DEF Listed
  <2>2. \A i, j \in 1..Len(s) : f[i] = f[j] => i = j
    BY <1>1 DEF Once
  <2>3. \A g \in Listed(s) : \E i \in 1..Len(s) : f[i] = g
    BY <1>1 DEF Listed
  <2> HIDE DEF f
  <2> QED BY <2>1, <2>2, <2>3 DEF Bijection, Injection, IsInjective, Surjection
<1> HIDE DEF f
<1>3. ExistsBijection(1..Len(s), Listed(s))
  BY <1>2 DEF ExistsBijection
<1> QED BY <1>1, <1>3, FS_CountingElements

\* The constructor holds no region.
LEMMA InitPooled == ASSUME ExchangeInit PROVE Pooled
BY DEF ExchangeInit, Pooled

\* A step that touches no region leaves them where they are.
LEMMA PooledStill ==
    ASSUME Pooled, Attached, serving' = "own" => serving = "own",
           UNCHANGED <<results, releases, held>>, Flight' = Flight
    PROVE  Pooled'
BY DEF Pooled, RegionsOf, Listed, Going, Apart, Once

\* Before the open request is taken no region is given out.
LEMMA OpeningPools == ASSUME IInv, ReadInv, Wire, TakeOpen PROVE Pooled'
<1>1. TypeOK /\ ResultsArePainted /\ OneAtATime /\ OpensFirst
  BY DEF IInv, ReadInv, Wire
<1>2. requests # <<>> /\ Head(requests) = OpenRequest /\ requests' = Tail(requests)
  BY DEF TakeOpen
<1>3. OpenRequest \in Outgoing /\ Flight' = {}
  BY <1>1, <1>2, Taking
<1>4. drawn = <<>> /\ held = {} /\ releases = <<>>
  BY <1>1, <1>3 DEF OpensFirst
<1>5. \A i \in DOMAIN results : ~results[i].own
  <2>1. Len(drawn) = 0
    BY <1>4
  <2>2. \A r \in Painted : ~r.own
    BY <2>1 DEF Painted
  <2>3. \A i \in DOMAIN results : results[i] \in Painted
    BY <1>1, ElementOfSeq, LenProperties DEF ResultsArePainted
  <2> QED BY <2>2, <2>3
<1>6. UNCHANGED <<results, releases, held>>
  BY DEF TakeOpen, planeVars, hostVars, drawing
<1>7. RegionsOf(results) = {} /\ Listed(releases) = {} /\ Apart(results) /\ Once(releases)
  BY <1>4, <1>5 DEF RegionsOf, Listed, Apart, Once
<1>8. RegionsOf(results)' = {} /\ Listed(releases)' = {} /\ Apart(results)' /\ Once(releases)'
  BY <1>6, <1>7
<1>9. Going' = {}
  BY <1>3 DEF Going
<1> QED BY <1>4, <1>6, <1>8, <1>9 DEF Pooled

\* A result that is read takes its region to the releases.
LEMMA ReadingPools ==
    ASSUME TypeOK, Pooled, HostAdvance, ReadResult, Attached'
    PROVE  Pooled'
<1> DEFINE record == Head(results)
<1>1. /\ results # <<>> /\ results' = Tail(results) /\ turn = "results"
      /\ UNCHANGED <<requests, held, serving>>
  BY DEF HostAdvance, ReadResult, planeVars
<1>2. \/ ~record.own /\ UNCHANGED <<state, turn, releases>>
      \/ record.own /\ UNCHANGED <<state, turn>> /\ releases' = Append(releases, record.region)
  BY DEF ReadResult, End, Foreign, drawing, Attached
<1> HIDE DEF record
<1>3. Attached
  BY <1>2 DEF Attached
<1>4. Flight' = Flight /\ Going' = Going
  BY <1>1 DEF Flight, Outgoing, Going
<1> SUFFICES ASSUME serving = "own"
             PROVE  /\ held' = RegionsOf(results') \cup Listed(releases') \cup Going'
                    /\ RegionsOf(results') \cap Listed(releases') = {}
                    /\ RegionsOf(results') \cap Going' = {} /\ Listed(releases') \cap Going' = {}
                    /\ Apart(results') /\ Once(releases')
  BY <1>1 DEF Pooled, RegionsOf, Apart, Listed, Once
<1>5. /\ held = RegionsOf(results) \cup Listed(releases) \cup Going
      /\ RegionsOf(results) \cap Listed(releases) = {}
      /\ RegionsOf(results) \cap Going = {} /\ Listed(releases) \cap Going = {}
      /\ Apart(results) /\ Once(releases)
  BY <1>3 DEF Pooled
<1>6. results \in Seq(ResultRecord) /\ releases \in Seq(Regions)
  BY DEF TypeOK, ChannelTypeOK, HostTypeOK
<1>7. /\ Apart(results')
      /\ record.own => /\ record.region \in RegionsOf(results)
                       /\ RegionsOf(results') = RegionsOf(results) \ {record.region}
      /\ ~record.own => RegionsOf(results') = RegionsOf(results)
  BY <1>1, <1>5, <1>6, ReadingTakesRegion DEF record
<1>8. CASE ~record.own /\ UNCHANGED releases
  BY <1>1, <1>4, <1>5, <1>7, <1>8
<1>9. CASE record.own /\ releases' = Append(releases, record.region)
  <2>1. record.region \in Regions
    <3> HIDE DEF Regions
    <3>1. record \in ResultRecord
      <4> HIDE DEF ResultRecord
      <4> QED BY <1>1, <1>6, HeadTailProperties DEF record
    <3> QED BY <3>1 DEF ResultRecord
  <2>2. record.region \notin Listed(releases)
    BY <1>5, <1>7, <1>9
  <2>3. Once(releases') /\ Listed(releases') = Listed(releases) \cup {record.region}
    BY <1>5, <1>6, <1>9, <2>1, <2>2, ReleasingLists
  <2> QED BY <1>1, <1>4, <1>5, <1>7, <1>9, <2>3
<1> QED BY <1>2, <1>8, <1>9

\* A request takes all releases with it, and another is not under way.
LEMMA SendingPools ==
    ASSUME TypeOK, OneAtATime, Pooled, HostAdvance, SendNext
    PROVE  Pooled'
<1> DEFINE q == DataRequest(stateSequence, resultSequence, releases, Batch)
<1>1. Flight = {} /\ Flight' = {q} /\ q.regions = releases
  BY SendingCarries DEF DataRequest
<1> HIDE DEF q
<1>2. Going = {} /\ Going' = Listed(releases)
  BY <1>1 DEF Going
<1>3. UNCHANGED <<results, held, serving>> /\ releases' = <<>>
  BY DEF HostAdvance, SendNext, Assemble, Unreleased, planeVars
<1>4. Attached
  BY DEF SendNext, Assemble, Attached, OneAtATime
<1>5. Listed(releases') = {} /\ Once(releases')
  BY <1>3 DEF Listed, Once
<1>6. RegionsOf(results)' = RegionsOf(results) /\ Apart(results)' = Apart(results)
      /\ Listed(releases)' = {} /\ Once(releases)'
  BY <1>3, <1>5
<1> QED BY <1>2, <1>3, <1>4, <1>6 DEF Pooled

\* The Realtime Plane takes back the regions a request releases.
LEMMA TakingPools ==
    ASSUME TypeOK, OneAtATime, Pooled, TakeData, Attached'
    PROVE  Pooled'
<1> DEFINE q == Head(requests)
<1>1. /\ requests # <<>> /\ q.kind = "data" /\ serving = "own" /\ requests' = Tail(requests)
      /\ held' = held \ Listed(q.regions) /\ UNCHANGED hostVars /\ UNCHANGED results
  BY DEF TakeData, Listed
<1>2. Attached /\ UNCHANGED releases
  BY <1>1 DEF Attached, hostVars, drawing
<1>3. q \in Flight /\ Flight' = {}
  BY <1>1, Taking DEF Flight
<1>4. Flight = {q}
  BY <1>1, <1>2, <1>3, DataIsFirst DEF Attached
<1> HIDE DEF q
<1>5. Going = Listed(q.regions) /\ Going' = {}
  BY <1>3, <1>4 DEF Going
<1>6. /\ RegionsOf(results)' = RegionsOf(results) /\ Apart(results)' = Apart(results)
      /\ Listed(releases)' = Listed(releases) /\ Once(releases)' = Once(releases)
  BY <1>1, <1>2
<1> QED BY <1>1, <1>2, <1>5, <1>6 DEF Pooled

\* A tile is painted into a region the host does not hold.
LEMMA PaintingPools ==
    ASSUME TypeOK, Pooled, NEW t \in Tiles, NEW r \in Regions, PublishResult(t, r), Attached'
    PROVE  Pooled'
<1> DEFINE record == [own |-> TRUE, readable |-> TRUE, whole |-> TRUE, sequence |-> Len(drawn) + 1,
                      revision |-> Len(drawn) + 1, tile |-> t, region |-> r]
<1>1. /\ serving = "own" /\ r \notin held /\ held' = held \cup {r}
      /\ results' = Append(results, record) /\ UNCHANGED hostVars /\ UNCHANGED requests
  BY DEF PublishResult
<1>2. Attached /\ UNCHANGED releases
  BY <1>1 DEF Attached, hostVars, drawing
<1>3. record \in ResultRecord /\ record.own /\ record.region = r
  <2>1. Len(drawn) \in Nat
    BY LenProperties DEF TypeOK, PlaneTypeOK
  <2> QED BY <2>1 DEF ResultRecord
<1> HIDE DEF record
<1>4. /\ held = RegionsOf(results) \cup Listed(releases) \cup Going
      /\ RegionsOf(results) \cap Listed(releases) = {}
      /\ RegionsOf(results) \cap Going = {} /\ Listed(releases) \cap Going = {}
      /\ Apart(results) /\ Once(releases)
  BY <1>1, <1>2 DEF Pooled
<1>5. results \in Seq(ResultRecord)
  BY DEF TypeOK, ChannelTypeOK
<1>6. Apart(Append(results, record)) /\ RegionsOf(Append(results, record)) = RegionsOf(results) \cup {r}
  BY <1>1, <1>3, <1>4, <1>5, PaintingAddsRegion
<1>7. Going' = Going /\ Listed(releases)' = Listed(releases) /\ Once(releases)' = Once(releases)
  BY <1>1, <1>2 DEF Going, Flight, Outgoing
<1>8. Apart(results)' /\ RegionsOf(results)' = RegionsOf(results) \cup {r}
  BY <1>1, <1>6
<1> QED BY <1>1, <1>4, <1>7, <1>8 DEF Pooled

\* Every step leaves every region in one place.
LEMMA NextPooled ==
    ASSUME Obedient, IInv, ReadInv, Wire, Pooled, [ExchangeNext]_allVars
    PROVE  Pooled'
<1> SUFFICES ASSUME Attached' PROVE Pooled'
  BY DEF Pooled
<1>1. TypeOK /\ OneAtATime
  BY DEF IInv, Wire
<1>2. ASSUME Attached, UNCHANGED <<results, releases, held, requests, serving>> PROVE Pooled'
  BY <1>2, PooledStill DEF Flight, Outgoing
<1>3. CASE Turning
  <2>1. Attached /\ UNCHANGED <<drawing, channels, planeVars>>
    BY <1>3, TurningKeeps
  <2> QED BY <1>2, <2>1 DEF drawing, channels, planeVars
<1>4. CASE HostAdvance /\ (CollectAnswer \/ ReadState)
  <2>1. UNCHANGED <<drawing, requests, results, planeVars>> /\ Attached
    BY <1>4 DEF HostAdvance, CollectAnswer, ReadState, End, Attached
  <2> QED BY <1>2, <2>1 DEF drawing, planeVars
<1>5. CASE HostAdvance /\ ReadResult
  BY <1>1, <1>5, ReadingPools
<1>6. CASE HostAdvance /\ SendNext
  BY <1>1, <1>6, SendingPools
<1>7. CASE (HostAdvance /\ GiveUp) \/ HostFails \/ HostClose
  BY <1>7, RaisingLeaves DEF GiveUp, GiveUpStep, End, HostFails, SendRaises, HostClose, Close, Attached
<1>8. ASSUME NEW k \in Settings, NEW v \in Values, Ask(k, v) PROVE Pooled'
  <2>1. UNCHANGED <<drawing, channels, planeVars>> /\ Attached
    BY <1>8 DEF Ask, Request, RequestStep, Attached
  <2> QED BY <1>2, <2>1 DEF drawing, channels, planeVars
<1>9. CASE TakeOpen
  BY <1>9, OpeningPools
<1>10. CASE TakeData
  BY <1>1, <1>10, TakingPools
<1>11. CASE TakeAndClose
  BY <1>11 DEF TakeAndClose, Pooled
<1>12. CASE Apply \/ PublishState
  <2>1. UNCHANGED <<hostVars, requests, results, serving, held>>
    BY <1>12 DEF Apply, PublishState, vars, channels
  <2> QED BY <1>2, <2>1 DEF hostVars, drawing, Attached
<1>13. ASSUME NEW t \in Tiles, NEW r \in Regions, PublishResult(t, r) PROVE Pooled'
  BY <1>1, <1>13, PaintingPools
<1>14. ASSUME NEW t \in Tiles, NEW v \in Values, PublishLate(t, v) PROVE Pooled'
  BY <1>14 DEF PublishLate, planeVars, Pooled
<1>15. CASE AnswerWrongly \/ SpoilRecord
  BY <1>15 DEF Obedient, AnswerWrongly, SpoilRecord
<1> QED BY <1>3, <1>4, <1>5, <1>6, <1>7, <1>8, <1>9, <1>10, <1>11, <1>12, <1>13, <1>14, <1>15, StepsAre

\* Every result region the Realtime Plane gave out is accounted for exactly once
\* (session.py:236, 250-252): it is in a result on its way, read and to be released, or
\* released in a request, as long as the Realtime Plane keeps to the protocol.
THEOREM RegionsStayAccountedFor ==
    ASSUME Obedient
    PROVE  ExchangeSpec => []RegionsAreAccountedFor
<1>1. Exchanged /\ Pooled /\ [ExchangeNext]_allVars => Pooled'
  BY NextPooled DEF Exchanged
<1>2. Exchanged /\ Pooled => RegionsAreAccountedFor
  <2> SUFFICES ASSUME Exchanged, Pooled, serving = "own", Attached PROVE RegionsAreAccountedFor
    BY DEF RegionsAreAccountedFor
  <2> DEFINE data == {n \in DOMAIN requests : requests[n].kind = "data"}
             going == UNION {{requests[n].regions[i] : i \in DOMAIN requests[n].regions} : n \in data}
  <2>1. going = Going
    BY DEF Going, Flight, Outgoing, Listed
  <2>2. Cardinality(Listed(releases)) = Len(releases)
    <3>1. releases \in Seq(Regions) /\ Once(releases)
      BY DEF Exchanged, IInv, TypeOK, HostTypeOK, Pooled
    <3> QED BY <3>1, OnceCounts
  <2>3. /\ held = RegionsOf(results) \cup Listed(releases) \cup Going
        /\ RegionsOf(results) \cap Listed(releases) = {}
        /\ RegionsOf(results) \cap Going = {} /\ Listed(releases) \cap Going = {}
    BY DEF Pooled
  <2> HIDE DEF going
  <2>4. /\ held = RegionsOf(results) \cup Listed(releases) \cup going
        /\ RegionsOf(results) \cap Listed(releases) = {}
        /\ RegionsOf(results) \cap going = {} /\ Listed(releases) \cap going = {}
    BY <2>1, <2>3
  <2> QED BY <2>2, <2>4 DEF RegionsAreAccountedFor, RegionsOf, Listed, going
<1> QED BY <1>1, <1>2, InitPooled, ExchangeInductive, PTL DEF ExchangeSpec
=============================================================================
