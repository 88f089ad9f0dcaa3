---------------------------- MODULE SessionProofs ----------------------------
(***************************************************************************)
(* What holds of a session for every set of settings, values and tiles,     *)
(* every window and patience, and every Realtime Plane, those that answer   *)
(* wrongly or spoil records included.                                       *)
(***************************************************************************)
EXTENDS SessionExchange, SequenceTheorems, TLAPS

\* A session that ended holds nothing back and is on no way to send.
ClosedIsEmpty ==
    state = "CLOSED" =>
        /\ turn \notin {"states", "send"}
        /\ queued = <<>>
        /\ sent = [k \in Settings |-> NotSent]

\* The inductive invariant: the types, that no more actions wait than were
\* accepted, and that an ended session is empty.
IInv ==
    /\ TypeOK
    /\ Len(waiting) <= accepted
    /\ ClosedIsEmpty

USE DEF HostTypeOK, ChannelTypeOK, PlaneTypeOK
-----------------------------------------------------------------------------
\* The batch of actions in a request is a prefix of the queue.
LEMMA LeastOfThree ==
    ASSUME NEW a \in Nat, NEW b \in Nat, NEW c \in Nat
    PROVE  /\ Least({a, b, c}) \in Nat
           /\ Least({a, b, c}) <= a /\ Least({a, b, c}) <= b /\ Least({a, b, c}) <= c
<1>1. \E n \in {a, b, c} : \A m \in {a, b, c} : n <= m
  <2>1. CASE a <= b /\ a <= c
    BY <2>1
  <2>2. CASE b <= a /\ b <= c
    BY <2>2
  <2>3. CASE c <= a /\ c <= b
    BY <2>3
  <2> QED BY <2>1, <2>2, <2>3
<1>2. /\ Least({a, b, c}) \in {a, b, c}
      /\ \A m \in {a, b, c} : Least({a, b, c}) <= m
  BY <1>1 DEF Least
<1> QED BY <1>2

\* A batch is no longer than the queue of actions and their window (session.py:253-262).
LEMMA BatchIsAPrefix ==
    ASSUME TypeOK
    PROVE  BatchSize \in Nat /\ BatchSize <= Len(queued) /\ BatchSize <= ActionWindow
<1>1. Len(queued) \in Nat /\ Len(releases) \in Nat
  BY LenProperties DEF TypeOK
<1>2. Earned \in Nat
  BY <1>1 DEF Earned, TypeOK
<1>3. (IF Earned < FrameSlots THEN FrameSlots - Earned ELSE 0) \in Nat
  BY <1>2, SessionAssumption
<1> QED BY <1>1, <1>3, LeastOfThree, SessionAssumption DEF BatchSize

\* The batch of actions is a sequence of actions.
LEMMA BatchType ==
    ASSUME TypeOK
    PROVE  Batch \in Seq(Action) /\ Len(Batch) = BatchSize
<1> DEFINE n == BatchSize
<1>1. n \in Nat /\ n <= Len(queued)
  BY BatchIsAPrefix
<1>2. \A i \in 1..n : queued[i] \in [setting : Settings, value : Values]
  <2> TAKE i \in 1..n
  <2>1. i \in 1..Len(queued)
    BY <1>1, LenProperties DEF TypeOK
  <2> QED BY <2>1, ElementOfSeq DEF TypeOK
<1>3. \A i \in 1..n :
        [sequence |-> actionSequence + i, setting |-> queued[i].setting,
         value |-> queued[i].value, revision |-> toolRevision] \in Action
  BY <1>1, <1>2 DEF TypeOK, Action
<1> HIDE DEF n
<1>4. [i \in 1..n |-> [sequence |-> actionSequence + i, setting |-> queued[i].setting,
         value |-> queued[i].value, revision |-> toolRevision]] \in Seq(Action)
  BY <1>1, <1>3, IsASeq
<1> QED BY <1>1, <1>4, LenProperties DEF Batch, n
-----------------------------------------------------------------------------
\* The two ends start with nothing sent, which satisfies the invariant.
LEMMA InitIInv == ASSUME ExchangeInit PROVE IInv
<1> USE SessionAssumption, ExchangeAssumption
<1>1. HostTypeOK
  BY DEF ExchangeInit, Init, NotSent
<1>2. ChannelTypeOK
  <2>1. <<OpenRequest>> \in Seq({OpenRequest, CloseRequest} \cup Data)
    OBVIOUS
  <2>2. requests \in Seq({OpenRequest, CloseRequest} \cup Data)
    BY <2>1, EmptySeq DEF ExchangeInit, Init
  <2> QED BY <2>2, EmptySeq DEF ExchangeInit, Init, NoAnswer
<1>3. PlaneTypeOK
  BY DEF ExchangeInit
<1>4. Len(waiting) <= accepted /\ ClosedIsEmpty
  BY DEF ExchangeInit, Init, ClosedIsEmpty
<1> QED BY <1>1, <1>2, <1>3, <1>4 DEF IInv, TypeOK, ExchangeInit
-----------------------------------------------------------------------------
\* What the end of a session leaves.
LEMMA EndLeaves ==
    ASSUME End
    PROVE  /\ state' = "CLOSED" /\ awaiting' = FALSE
           /\ queued' = <<>> /\ queued' \in Seq([setting : Settings, value : Values])
           /\ sent' = [k \in Settings |-> NotSent]
           /\ sent' \in [Settings -> [sequence : Nat, value : Values \cup {None}]]
BY EmptySeq DEF End, NotSent

\* What the steps of Advance keep, one lemma for each.
LEMMA RequestKeeps ==
    ASSUME IInv, NEW k \in Settings, NEW v \in Values, Request(k, v)
    PROVE  HostTypeOK' /\ ChannelTypeOK' /\ ClosedIsEmpty'
<1> USE DEF Request, RequestStep, IInv, TypeOK
<1>1. queued' \in Seq([setting : Settings, value : Values])
  <2>1. CASE k \in QueuedSettings
    <3> DEFINE new == [setting |-> k, value |-> v]
    <3>1. /\ queued' = [i \in 1..Len(queued) |-> IF queued[i].setting = k THEN new ELSE queued[i]]
          /\ Len(queued) \in Nat
      BY <2>1, LenProperties
    <3>2. \A i \in 1..Len(queued) : queued[i] \in [setting : Settings, value : Values]
      BY ElementOfSeq
    <3>3. \A i \in 1..Len(queued) :
            (IF queued[i].setting = k THEN new ELSE queued[i]) \in [setting : Settings, value : Values]
      BY <3>2
    <3>4. [i \in 1..Len(queued) |-> IF queued[i].setting = k THEN new ELSE queued[i]]
            \in Seq([setting : Settings, value : Values])
      <4> HIDE DEF new, IInv, TypeOK
      <4> QED BY <3>1, <3>3, IsASeq
    <3> QED BY <3>1, <3>4
  <2>2. CASE k \notin QueuedSettings
    BY <2>2, AppendProperties
  <2> QED BY <2>1, <2>2
<1>2. HostTypeOK'
  BY <1>1 DEF reading, drawing, acknowledging
<1>3. ChannelTypeOK'
  BY DEF channels
<1>4. ClosedIsEmpty'
  BY DEF ClosedIsEmpty
<1> QED BY <1>2, <1>3, <1>4

\* An answer that cannot be read to its end is taken all the same, and may end the session.
LEMMA RaisingLeaves ==
    ASSUME AnswerRaises
    PROVE  /\ turn = "idle" /\ state # "CLOSED" /\ awaiting /\ turn' = "raised"
           /\ UNCHANGED <<actionSequence, reading, drawing, acknowledging, waited, staleRecords,
                          requests, states, results>>
           /\ \/ UNCHANGED <<state, queued, sent, requestThrough, awaiting, answer>>
              \/ /\ answer.arrived /\ awaiting' = FALSE /\ requestThrough' = 0 /\ answer' = NoAnswer
                 /\ state' \in {state, "OPEN", "CLOSED"}
                 /\ \/ queued' = <<>> /\ sent' = [k \in Settings |-> NotSent]
                    \/ state' # "CLOSED" /\ UNCHANGED <<queued, sent>>
<1>1. CASE UNCHANGED <<state, queued, sent, requestThrough, awaiting, answer>>
  BY <1>1 DEF AnswerRaises
<1>2. CASE ~UNCHANGED <<state, queued, sent, requestThrough, awaiting, answer>>
  <2>1. PICK frames : LET ended == Ends(frames) \/ StateAfter(frames) = "CLOSED" IN
           /\ state' = StateAfter(frames)
           /\ queued' = IF ended THEN <<>> ELSE queued
           /\ sent' = IF ended THEN [k \in Settings |-> NotSent] ELSE sent
    BY <1>2 DEF AnswerRaises
  <2>2. StateAfter(frames) \in {state, "OPEN", "CLOSED"}
    BY DEF StateAfter
  <2> QED  BY <1>2, <2>1, <2>2 DEF AnswerRaises
<1> QED  BY <1>1, <1>2

\* Waiting for an answer, giving up on it and collecting it keep the session's end.
LEMMA CollectKeeps ==
    ASSUME IInv, AwaitAnswer \/ GiveUp \/ CollectAnswer \/ AnswerRaises
    PROVE  HostTypeOK' /\ ChannelTypeOK' /\ ClosedIsEmpty'
<1> USE DEF IInv, TypeOK, ClosedIsEmpty, reading, drawing, acknowledging, asking, channels
<1>1. CASE AwaitAnswer
  BY <1>1 DEF AwaitAnswer, Reading
<1>2. CASE GiveUp
  BY <1>2, EmptySeq DEF GiveUp, GiveUpStep, End, NotSent
<1>3. CASE CollectAnswer
  <2>1. HostTypeOK'
    <3>1. StateAfter(answer.frames) \in {"OPENING", "OPEN", "CLOSED"}
      BY <1>3 DEF StateAfter
    <3> QED BY <1>3, <3>1, EmptySeq DEF CollectAnswer, Reading, NotSent
  <2>2. ChannelTypeOK'
    BY <1>3, EmptySeq DEF CollectAnswer, NoAnswer
  <2>3. ClosedIsEmpty'
    BY <1>3 DEF CollectAnswer, Reading
  <2> QED BY <2>1, <2>2, <2>3
<1>4. CASE AnswerRaises
  <2>1. /\ state' \in {state, "OPEN", "CLOSED"} /\ turn' = "raised"
        /\ awaiting' \in {awaiting, FALSE} /\ requestThrough' \in {requestThrough, 0}
        /\ queued' \in {queued, <<>>} /\ sent' \in {sent, [k \in Settings |-> NotSent]}
        /\ answer' \in {answer, NoAnswer}
        /\ state' = "CLOSED" => queued' = <<>> /\ sent' = [k \in Settings |-> NotSent]
    <3> HIDE DEF IInv, TypeOK, ClosedIsEmpty
    <3> QED BY <1>4, RaisingLeaves
  <2>2. UNCHANGED <<actionSequence, reading, drawing, acknowledging, waited, staleRecords,
                    requests, states, results>>
    <3> HIDE DEF IInv, TypeOK, ClosedIsEmpty, reading, drawing, acknowledging
    <3> QED BY <1>4, RaisingLeaves
  <2>3. HostTypeOK'
    <3>1. /\ [k \in Settings |-> NotSent] \in [Settings -> [sequence : Nat, value : Values \cup {None}]]
          /\ <<>> \in Seq([setting : Settings, value : Values])
      <4> HIDE DEF IInv, TypeOK, ClosedIsEmpty
      <4> QED BY EmptySeq DEF NotSent
    <3>2. /\ state \in {"OPENING", "OPEN", "CLOSED"} /\ awaiting \in BOOLEAN /\ requestThrough \in Nat
          /\ queued \in Seq([setting : Settings, value : Values])
          /\ sent \in [Settings -> [sequence : Nat, value : Values \cup {None}]]
      OBVIOUS
    <3>3. /\ state' \in {"OPENING", "OPEN", "CLOSED"} /\ awaiting' \in BOOLEAN /\ requestThrough' \in Nat
          /\ turn' \in {"idle", "states", "results", "send", "raised", "dropped"}
          /\ queued' \in Seq([setting : Settings, value : Values])
          /\ sent' \in [Settings -> [sequence : Nat, value : Values \cup {None}]]
      <4> HIDE DEF IInv, TypeOK, ClosedIsEmpty
      <4>1. sent' \in [Settings -> [sequence : Nat, value : Values \cup {None}]]
        <5>1. CASE sent' = sent
          BY <5>1, <3>2
        <5>2. CASE sent' = [k \in Settings |-> NotSent]
          BY <5>2, <3>1
        <5> QED BY <2>1, <5>1, <5>2
      <4>2. queued' \in Seq([setting : Settings, value : Values])
        <5>1. CASE queued' = queued
          BY <5>1, <3>2
        <5>2. CASE queued' = <<>>
          BY <5>2, <3>1
        <5> QED BY <2>1, <5>1, <5>2
      <4>3. awaiting' \in BOOLEAN
        BY <2>1, <3>2, Zenon
      <4>4. state' \in {"OPENING", "OPEN", "CLOSED"}
        BY <2>1, <3>2
      <4>5. requestThrough' \in Nat
        BY <2>1, <3>2
      <4>6. turn' \in {"idle", "states", "results", "send", "raised", "dropped"}
        BY <2>1
      <4> QED BY <4>1, <4>2, <4>3, <4>4, <4>5, <4>6
    <3> QED BY <2>2, <3>3
  <2>4. ChannelTypeOK'
    <3>1. NoAnswer \in [arrived : BOOLEAN, frames : Seq(Frame)]
      <4> HIDE DEF IInv, TypeOK, ClosedIsEmpty
      <4> QED BY EmptySeq DEF NoAnswer
    <3>2. answer \in [arrived : BOOLEAN, frames : Seq(Frame)]
      OBVIOUS
    <3>3. answer' \in [arrived : BOOLEAN, frames : Seq(Frame)]
      <4> HIDE DEF IInv, TypeOK, ClosedIsEmpty
      <4> QED BY <2>1, <3>1, <3>2
    <3> QED BY <2>2, <3>3
  <2>5. ClosedIsEmpty'
    BY <2>1
  <2> QED BY <2>3, <2>4, <2>5
<1> QED BY <1>1, <1>2, <1>3, <1>4

\* Reading one state, or having read all, keeps the session's end.
LEMMA ReadStateKeeps ==
    ASSUME IInv, ReadState \/ StatesRead
    PROVE  HostTypeOK' /\ ChannelTypeOK' /\ ClosedIsEmpty'
<1> USE DEF IInv, TypeOK, ClosedIsEmpty, reading, drawing, acknowledging, asking, channels
<1>1. CASE ReadState
  <2>1. Head(states) \in StateRecord /\ Tail(states) \in Seq(StateRecord)
    BY <1>1, HeadTailProperties DEF ReadState
  <2>2. ChannelTypeOK'
    BY <1>1, <2>1 DEF ReadState
  <2>3. ClosedIsEmpty'
    BY <1>1 DEF ReadState, End
  <2>4. Unsettled(Head(states)) \in [Settings -> [sequence : Nat, value : Values \cup {None}]]
    BY DEF Unsettled, NotSent
  <2>5. /\ Head(states).sequence \in Nat /\ Head(states).revision \in Nat
        /\ Head(states).shows \in [Settings -> Values \cup {None}]
    BY <2>1 DEF StateRecord
  <2>6. HostTypeOK'
    <3>1. CASE End
      BY <1>1, <3>1, EndLeaves DEF ReadState
    <3>2. CASE ~End
      <4>1. /\ state' = state /\ queued' = queued /\ awaiting' = awaiting
            /\ turn' \in {turn, "raised"}
            /\ sent' \in {sent, Unsettled(Head(states))}
            /\ stateSequence' \in {stateSequence, Head(states).sequence}
            /\ toolRevision' \in {toolRevision, Head(states).revision}
            /\ effective' \in {effective, Head(states).shows}
            /\ staleRecords' \in {staleRecords, staleRecords + 1}
        <5> HIDE DEF IInv, TypeOK, ClosedIsEmpty
        <5> QED BY <1>1, <3>2 DEF ReadState
      <4>2. /\ UNCHANGED <<actionSequence, requestThrough, resultSequence, mirror, changedTiles,
                           releases, stateAcknowledged, resultAcknowledged, waited>>
        <5> HIDE DEF IInv, TypeOK, ClosedIsEmpty
        <5> QED BY <1>1, <3>2 DEF ReadState
      <4>3. /\ stateSequence' \in Nat /\ toolRevision' \in Nat /\ staleRecords' \in Nat
            /\ turn' \in {"idle", "states", "results", "send", "raised", "dropped"}
        <5>1. /\ stateSequence \in Nat /\ toolRevision \in Nat /\ staleRecords \in Nat
              /\ turn \in {"idle", "states", "results", "send", "raised", "dropped"}
          OBVIOUS
        <5> HIDE DEF IInv, TypeOK, ClosedIsEmpty
        <5> QED BY <5>1, <4>1, <2>5
      <4>4. /\ sent' \in [Settings -> [sequence : Nat, value : Values \cup {None}]]
            /\ effective' \in [Settings -> Values \cup {None}]
        BY <4>1, <2>4, <2>5
      <4> QED BY <4>1, <4>2, <4>3, <4>4
    <3> QED BY <3>1, <3>2
  <2> QED BY <2>2, <2>3, <2>6
<1>2. CASE StatesRead
  BY <1>2 DEF StatesRead
<1> QED BY <1>1, <1>2

\* Reading one result, or having read all, keeps the session's end.
LEMMA ReadResultKeeps ==
    ASSUME IInv, ReadResult \/ ResultsRead
    PROVE  HostTypeOK' /\ ChannelTypeOK' /\ ClosedIsEmpty'
<1> USE DEF IInv, TypeOK, ClosedIsEmpty, reading, drawing, acknowledging, asking, channels
<1>1. CASE ReadResult
  <2>1. Head(results) \in ResultRecord /\ Tail(results) \in Seq(ResultRecord)
    BY <1>1, HeadTailProperties DEF ReadResult
  <2>2. ChannelTypeOK'
    BY <1>1, <2>1 DEF ReadResult
  <2>3. ClosedIsEmpty'
    BY <1>1 DEF ReadResult, End
  <2>4. Append(releases, Head(results).region) \in Seq(Regions)
    BY <2>1, AppendProperties DEF ResultRecord
  <2>5. /\ Head(results).sequence \in Nat /\ Head(results).revision \in Nat
        /\ Head(results).tile \in Tiles
    BY <2>1 DEF ResultRecord
  <2>6. [mirror EXCEPT ![Head(results).tile] = Head(results).revision] \in [Tiles -> Nat]
    BY <2>5
  <2>7. HostTypeOK'
    <3>1. CASE End
      <4>1. /\ turn' \in {turn, "raised", "idle"}
            /\ resultSequence' \in {resultSequence, Head(results).sequence}
            /\ mirror' \in {mirror, [mirror EXCEPT ![Head(results).tile] = Head(results).revision]}
            /\ changedTiles' \in {changedTiles, changedTiles \cup {Head(results).tile}}
            /\ releases' \in {releases, Append(releases, Head(results).region)}
            /\ staleRecords' \in {staleRecords, staleRecords + 1}
        <5> HIDE DEF IInv, TypeOK, ClosedIsEmpty
        <5> QED BY <1>1 DEF ReadResult
      <4>2. /\ UNCHANGED <<actionSequence, requestThrough, stateSequence, effective, toolRevision,
                           stateAcknowledged, resultAcknowledged, waited>>
        <5> HIDE DEF IInv, TypeOK, ClosedIsEmpty
        <5> QED BY <1>1 DEF ReadResult, End
      <4>3. /\ resultSequence' \in Nat /\ staleRecords' \in Nat
            /\ turn' \in {"idle", "states", "results", "send", "raised", "dropped"}
        <5>1. /\ resultSequence \in Nat /\ staleRecords \in Nat
              /\ turn \in {"idle", "states", "results", "send", "raised", "dropped"}
          OBVIOUS
        <5> HIDE DEF IInv, TypeOK, ClosedIsEmpty
        <5> QED BY <5>1, <4>1, <2>5
      <4>4. mirror' \in [Tiles -> Nat] /\ changedTiles' \in SUBSET Tiles
        BY <4>1, <2>5, <2>6
      <4>5. releases' \in Seq(Regions)
        BY <4>1, <2>4
      <4>6. /\ state' = "CLOSED" /\ awaiting' = FALSE
            /\ queued' \in Seq([setting : Settings, value : Values])
            /\ sent' \in [Settings -> [sequence : Nat, value : Values \cup {None}]]
        BY <3>1, EndLeaves
      <4> QED BY <4>2, <4>3, <4>4, <4>5, <4>6
    <3>2. CASE ~End
      <4>1. /\ state' = state /\ queued' = queued /\ sent' = sent /\ awaiting' = awaiting
            /\ turn' \in {turn, "raised"}
            /\ resultSequence' \in {resultSequence, Head(results).sequence}
            /\ mirror' \in {mirror, [mirror EXCEPT ![Head(results).tile] = Head(results).revision]}
            /\ changedTiles' \in {changedTiles, changedTiles \cup {Head(results).tile}}
            /\ releases' \in {releases, Append(releases, Head(results).region)}
            /\ staleRecords' \in {staleRecords, staleRecords + 1}
        <5> HIDE DEF IInv, TypeOK, ClosedIsEmpty
        <5> QED BY <1>1, <3>2 DEF ReadResult
      <4>2. /\ UNCHANGED <<actionSequence, requestThrough, stateSequence, effective, toolRevision,
                           stateAcknowledged, resultAcknowledged, waited>>
        <5> HIDE DEF IInv, TypeOK, ClosedIsEmpty
        <5> QED BY <1>1 DEF ReadResult, End
      <4>3. /\ resultSequence' \in Nat /\ staleRecords' \in Nat
            /\ turn' \in {"idle", "states", "results", "send", "raised", "dropped"}
        <5>1. /\ resultSequence \in Nat /\ staleRecords \in Nat
              /\ turn \in {"idle", "states", "results", "send", "raised", "dropped"}
          OBVIOUS
        <5> HIDE DEF IInv, TypeOK, ClosedIsEmpty
        <5> QED BY <5>1, <4>1, <2>5
      <4>4. mirror' \in [Tiles -> Nat] /\ changedTiles' \in SUBSET Tiles
        BY <4>1, <2>5, <2>6
      <4>5. releases' \in Seq(Regions)
        BY <4>1, <2>4
      <4> QED BY <4>1, <4>2, <4>3, <4>4, <4>5
    <3> QED BY <3>1, <3>2
  <2> QED BY <2>2, <2>3, <2>7
<1>2. CASE ResultsRead
  BY <1>2 DEF ResultsRead, MaySend
<1> QED BY <1>1, <1>2

\* Sending, failing to send and having nothing to send keep the session's end.
LEMMA SendKeeps ==
    ASSUME IInv, SendNext \/ SendRaises \/ NothingToSend
    PROVE  HostTypeOK' /\ ChannelTypeOK' /\ ClosedIsEmpty'
<1> USE DEF IInv, TypeOK, ClosedIsEmpty, reading, drawing, acknowledging, asking, channels
<1>1. CASE Assemble /\ turn = "send" /\ turn' \in {"idle", "raised"}
  <2>1. BatchSize \in Nat /\ BatchSize <= Len(queued)
    BY BatchIsAPrefix
  <2>2. queued' \in Seq([setting : Settings, value : Values])
    <3> DEFINE n == BatchSize  S == [setting : Settings, value : Values]
    <3> HIDE DEF n, S
    <3>1. n \in Nat /\ queued \in Seq(S)
      BY <2>1 DEF n, S
    <3>2. SubSeq(queued, n + 1, Len(queued)) \in Seq(S)
      <4>1. Len(queued) \in Nat /\ \A i \in n + 1..Len(queued) : i \in 1..Len(queued)
        BY <3>1, LenProperties
      <4>2. \A i \in n + 1..Len(queued) : queued[i] \in S
        BY <3>1, <4>1, ElementOfSeq
      <4> HIDE DEF IInv, TypeOK
      <4> QED BY <3>1, <4>1, <4>2, SubSeqProperties
    <3> QED BY <1>1, <3>2 DEF Assemble, n, S
  <2>3. sent' \in [Settings -> [sequence : Nat, value : Values \cup {None}]]
    <3>1. \A i \in 1..BatchSize : queued[i] \in [setting : Settings, value : Values]
      <4> TAKE i \in 1..BatchSize
      <4>1. i \in 1..Len(queued)
        BY <2>1, LenProperties
      <4> QED BY <4>1, ElementOfSeq
    <3>2. ASSUME NEW k \in Settings, \E i \in 1..BatchSize : queued[i].setting = k
          PROVE  LET i == CHOOSE i \in 1..BatchSize : queued[i].setting = k
                 IN  [sequence |-> actionSequence + i, value |-> queued[i].value]
                       \in [sequence : Nat, value : Values \cup {None}]
      <4> DEFINE i == CHOOSE i \in 1..BatchSize : queued[i].setting = k
      <4>1. i \in 1..BatchSize
        BY <3>2
      <4> HIDE DEF i
      <4>2. queued[i].value \in Values /\ actionSequence + i \in Nat
        BY <4>1, <3>1, <2>1
      <4> QED BY <4>2 DEF i
    <3> QED BY <1>1, <3>2 DEF Assemble
  <2>4. actionSequence' \in Nat /\ releases' = <<>> /\ state' = state
    BY <1>1, <2>1 DEF Assemble, NextAction, Unreleased
  <2>5. /\ stateSequence' \in Nat /\ stateAcknowledged' \in Nat
        /\ resultSequence' \in Nat /\ resultAcknowledged' \in Nat
        /\ effective' = effective /\ toolRevision' = toolRevision
        /\ mirror' = mirror /\ changedTiles' = changedTiles /\ staleRecords' = staleRecords
    BY <1>1 DEF Assemble
  <2>6. ClosedIsEmpty'
    BY <1>1, <2>4
  <2>7. answer' = answer /\ states' = states /\ results' = results
    BY <1>1 DEF Assemble
  <2> HIDE DEF IInv, TypeOK, ClosedIsEmpty
  <2>8. CASE SendNext
    <3>1. DataRequest(stateSequence, resultSequence, releases, Batch) \in Data
      BY BatchType DEF DataRequest, Data, IInv, TypeOK
    <3>2. ChannelTypeOK'
      BY <2>7, <2>8, <3>1, AppendProperties DEF SendNext, IInv, TypeOK
    <3>3. awaiting' \in BOOLEAN /\ waited' \in Nat /\ requestThrough' \in Nat
      BY <2>8, <2>1 DEF SendNext, IInv, TypeOK
    <3>4. HostTypeOK'
      BY <1>1, <2>2, <2>3, <2>4, <2>5, <3>3, EmptySeq DEF IInv, TypeOK
    <3> QED BY <2>6, <3>2, <3>4
  <2>9. CASE SendRaises
    <3>1. /\ requests' = requests /\ awaiting' = awaiting /\ waited' = waited
          /\ requestThrough' = requestThrough
      BY <2>9 DEF SendRaises
    <3>2. HostTypeOK'
      BY <1>1, <2>2, <2>3, <2>4, <2>5, <3>1, EmptySeq DEF IInv, TypeOK
    <3> QED BY <2>6, <2>7, <3>1, <3>2 DEF IInv, TypeOK
  <2>10. CASE NothingToSend
    BY <2>10, <1>1, <2>6 DEF NothingToSend, IInv, TypeOK
  <2> QED BY <2>8, <2>9, <2>10
<1>2. CASE NothingToSend
  BY <1>2 DEF NothingToSend
<1> QED BY <1>1, <1>2 DEF SendNext, SendRaises

\* Closing a session, and time that passes, keep the session's end.
LEMMA CloseKeeps ==
    ASSUME IInv, Close \/ TimePasses
    PROVE  HostTypeOK' /\ ChannelTypeOK' /\ ClosedIsEmpty'
<1> USE DEF IInv, TypeOK, ClosedIsEmpty, reading, drawing, acknowledging, asking, channels
<1>1. CASE Close
  <2>1. Append(requests, CloseRequest) \in Seq({OpenRequest, CloseRequest} \cup Data)
    BY AppendProperties
  <2>2. ChannelTypeOK'
    BY <1>1, <2>1 DEF Close
  <2>3. ClosedIsEmpty'
    BY <1>1 DEF Close, End
  <2>4. HostTypeOK'
    <3>1. CASE End
      BY <1>1, <3>1, EndLeaves DEF Close
    <3>2. CASE ~End
      BY <1>1, <3>2 DEF Close
    <3> QED BY <3>1, <3>2
  <2> QED BY <2>2, <2>3, <2>4
<1>2. CASE TimePasses
  BY <1>2 DEF TimePasses
<1> QED BY <1>1, <1>2
-----------------------------------------------------------------------------
\* What the steps of the Realtime Plane keep.
PlaneOK == PlaneTypeOK /\ Len(waiting) <= accepted

\* Taking the requests to open and to close keeps the Realtime Plane's end.
LEMMA TakeOpenKeeps ==
    ASSUME IInv, TakeOpen \/ TakeAndClose
    PROVE  ChannelTypeOK' /\ PlaneOK'
<1> USE DEF IInv, TypeOK, PlaneOK
<1>1. requests' \in Seq({OpenRequest, CloseRequest} \cup Data)
  <2>1. requests # <<>> /\ requests' = Tail(requests)
    BY DEF TakeOpen, TakeAndClose
  <2> QED BY <2>1, HeadTailProperties
<1>2. \A kind \in {"ACCEPT", "REJECT", "CLOSE"} :
        Answer(<<[kind |-> kind, through |-> 0]>>) \in [arrived : BOOLEAN, frames : Seq(Frame)]
  BY DEF Answer, Frame
<1>3. answer' \in [arrived : BOOLEAN, frames : Seq(Frame)]
  <2> HIDE DEF IInv, TypeOK
  <2> QED BY <1>2 DEF TakeOpen, TakeAndClose
<1>4. serving' \in {"replaced", "own", "over"}
  BY DEF TakeOpen, TakeAndClose
<1> QED BY <1>1, <1>3, <1>4 DEF TakeOpen, TakeAndClose

\* Taking a request for data keeps the Realtime Plane's end.
LEMMA TakeDataKeeps ==
    ASSUME IInv, TakeData
    PROVE  ChannelTypeOK' /\ PlaneOK'
<1> USE DEF IInv, TypeOK, PlaneOK
<1> DEFINE request == Head(requests)
<1>1. /\ request \in {OpenRequest, CloseRequest} \cup Data
      /\ Tail(requests) \in Seq({OpenRequest, CloseRequest} \cup Data)
  BY HeadTailProperties DEF TakeData
<1>2. request \in Data
  BY <1>1 DEF TakeData, OpenRequest, CloseRequest
<1>3. /\ request.actions \in Seq(Action) /\ Len(request.actions) \in Nat
      /\ request.stateThrough \in Nat /\ request.resultThrough \in Nat
  BY <1>2, LenProperties DEF Data
<1> HIDE DEF request
<1>4. waiting' \in Seq(Action) /\ Len(waiting') = Len(waiting) + Len(request.actions)
  BY <1>3, ConcatProperties DEF TakeData, request
<1>5. accepted' = accepted + Len(request.actions) /\ Len(waiting) \in Nat
  BY LenProperties DEF TakeData, request
<1>6. accepted' \in Nat /\ Len(waiting') <= accepted'
  BY <1>3, <1>4, <1>5
<1>7. answer' \in [arrived : BOOLEAN, frames : Seq(Frame)]
  <2>1. CASE Len(request.actions) = 0
    BY <2>1, EmptySeq DEF TakeData, Answer, request
  <2>2. CASE Len(request.actions) # 0
    <3> DEFINE n == Len(request.actions)
    <3>1. request.actions[n] \in Action
      BY <1>3, <2>2, ElementOfSeq
    <3>2. [kind |-> "ACK", through |-> request.actions[n].sequence] \in Frame
      BY <3>1 DEF Action, Frame
    <3>3. answer' = Answer(<<[kind |-> "ACK", through |-> request.actions[n].sequence]>>)
      BY <2>2 DEF TakeData, request
    <3> HIDE DEF n
    <3> QED BY <3>2, <3>3 DEF Answer
  <2> QED BY <2>1, <2>2
<1>8. /\ stateThrough' \in Nat /\ resultThrough' \in Nat /\ held' \in SUBSET Regions
      /\ requests' = Tail(requests) /\ states' = states /\ results' = results
      /\ UNCHANGED <<serving, inEffect, published, drawn>>
  BY <1>3 DEF TakeData, request
<1> QED BY <1>1, <1>4, <1>6, <1>7, <1>8

\* Applying an action keeps the Realtime Plane's end.
LEMMA ApplyKeeps ==
    ASSUME IInv, Apply
    PROVE  PlaneOK'
<1> USE DEF IInv, TypeOK, PlaneOK
<1>1. /\ Head(waiting) \in Action /\ Tail(waiting) \in Seq(Action)
      /\ Len(Tail(waiting)) = Len(waiting) - 1 /\ Len(waiting) \in Nat
  BY HeadTailProperties, LenProperties DEF Apply
<1>2. inEffect' \in [Settings -> Values]
  BY <1>1 DEF Apply, Action
<1>3. waiting' = Tail(waiting) /\ accepted' = accepted
      /\ UNCHANGED <<serving, published, stateThrough, resultThrough, drawn, held>>
  BY DEF Apply
<1>4. Len(waiting') <= accepted'
  BY <1>1, <1>3
<1> QED BY <1>1, <1>2, <1>3, <1>4

\* Publishing a state keeps the Realtime Plane's end.
LEMMA PublishStateKeeps ==
    ASSUME IInv, PublishState
    PROVE  ChannelTypeOK' /\ PlaneOK'
<1> USE DEF IInv, TypeOK, PlaneOK
<1>1. Applied \in Nat /\ Len(published) + 1 \in Nat
  BY LenProperties DEF Applied
<1>2. published' \in Seq([applied : Nat, shows : [Settings -> Values]])
  BY <1>1, AppendProperties DEF PublishState
<1>3. states' \in Seq(StateRecord)
  <2>1. [own |-> TRUE, readable |-> TRUE, sequence |-> Len(published) + 1,
         revision |-> Len(published) + 1, applied |-> Applied, shows |-> inEffect] \in StateRecord
    BY <1>1 DEF StateRecord
  <2> QED BY <2>1, AppendProperties DEF PublishState
<1>4. UNCHANGED <<requests, answer, results, serving, accepted, waiting, inEffect, stateThrough,
                  resultThrough, drawn, held>>
  BY DEF PublishState
<1> QED BY <1>2, <1>3, <1>4

\* Publishing a result keeps the Realtime Plane's end.
LEMMA PublishResultKeeps ==
    ASSUME IInv, NEW t \in Tiles, NEW r \in Regions, PublishResult(t, r)
    PROVE  ChannelTypeOK' /\ PlaneOK'
<1> USE DEF IInv, TypeOK, PlaneOK
<1>1. Len(drawn) + 1 \in Nat
  BY LenProperties
<1>2. drawn' \in Seq(Tiles)
  BY AppendProperties DEF PublishResult
<1>3. results' \in Seq(ResultRecord)
  <2>1. [own |-> TRUE, readable |-> TRUE, whole |-> TRUE, sequence |-> Len(drawn) + 1,
         revision |-> Len(drawn) + 1, tile |-> t, region |-> r] \in ResultRecord
    BY <1>1 DEF ResultRecord
  <2> QED BY <2>1, AppendProperties DEF PublishResult
<1>4. /\ UNCHANGED <<requests, answer, states, serving, accepted, waiting, inEffect, published,
                     stateThrough, resultThrough>>
      /\ held' \in SUBSET Regions
  BY DEF PublishResult
<1> QED BY <1>2, <1>3, <1>4

\* What is published for another session keeps the type of the channels.
LEMMA PublishLateKeeps ==
    ASSUME IInv, NEW t \in Tiles, NEW v \in Values, PublishLate(t, v)
    PROVE  ChannelTypeOK'
<1> USE DEF IInv, TypeOK
<1>1. [own |-> FALSE, readable |-> TRUE, sequence |-> 1, revision |-> 9, applied |-> 9,
       shows |-> [k \in Settings |-> v]] \in StateRecord
  BY DEF StateRecord
<1>2. 1 \in Regions
  BY ExchangeAssumption DEF Regions
<1>3. [own |-> FALSE, readable |-> TRUE, whole |-> TRUE, sequence |-> 1, revision |-> 9,
       tile |-> t, region |-> 1] \in ResultRecord
  BY <1>2 DEF ResultRecord
<1> DEFINE late == [own |-> FALSE, readable |-> TRUE, sequence |-> 1, revision |-> 9,
                    applied |-> 9, shows |-> [k \in Settings |-> v]]
           painted == [own |-> FALSE, readable |-> TRUE, whole |-> TRUE, sequence |-> 1,
                        revision |-> 9, tile |-> t, region |-> 1]
<1>4. states' \in Seq(StateRecord)
  <2>1. states' \in {states, Append(states, late)}
    <3> HIDE DEF IInv, TypeOK
    <3> QED BY DEF PublishLate
  <2>2. late \in StateRecord /\ states \in Seq(StateRecord)
    BY <1>1
  <2> HIDE DEF late, IInv, TypeOK
  <2> QED BY <2>1, <2>2, AppendProperties
<1>5. results' \in Seq(ResultRecord)
  <2>1. results' \in {results, Append(results, painted)}
    <3> HIDE DEF IInv, TypeOK
    <3> QED BY DEF PublishLate
  <2>2. painted \in ResultRecord /\ results \in Seq(ResultRecord)
    BY <1>3
  <2> HIDE DEF painted, IInv, TypeOK
  <2> QED BY <2>1, <2>2, AppendProperties
<1> QED BY <1>4, <1>5 DEF PublishLate

\* A record that is spoiled keeps the shape of a record.
LEMMA SpoiledRecord ==
    /\ \A record \in StateRecord : [record EXCEPT !.readable = FALSE] \in StateRecord
    /\ \A record \in ResultRecord : /\ [record EXCEPT !.readable = FALSE] \in ResultRecord
                                   /\ [record EXCEPT !.whole = FALSE] \in ResultRecord
BY DEF StateRecord, ResultRecord

\* A wrong answer and a spoiled record keep the type of the channels.
LEMMA WrongKeeps ==
    ASSUME IInv, AnswerWrongly \/ SpoilRecord
    PROVE  ChannelTypeOK'
<1> USE DEF IInv, TypeOK
<1>1. CASE AnswerWrongly
  <2>1. requests' \in Seq({OpenRequest, CloseRequest} \cup Data)
    BY <1>1, HeadTailProperties DEF AnswerWrongly
  <2>2. answer' \in [arrived : BOOLEAN, frames : Seq(Frame)]
    <3> HIDE DEF IInv, TypeOK
    <3> QED BY <1>1, ExchangeAssumption DEF AnswerWrongly, Answer
  <2> QED BY <1>1, <2>1, <2>2 DEF AnswerWrongly
<1>2. CASE SpoilRecord
  <2>1. states # <<>> => /\ Tail(states) \in Seq(StateRecord)
                         /\ [states EXCEPT ![1].readable = FALSE] \in Seq(StateRecord)
    <3>1. ASSUME states # <<>>
          PROVE  [states[1] EXCEPT !.readable = FALSE] \in StateRecord /\ 1 \in 1..Len(states)
      <4>1. Len(states) \in Nat \ {0}
        BY <3>1, EmptySeq
      <4>2. states[1] \in StateRecord
        BY <4>1, ElementOfSeq
      <4> HIDE DEF IInv, TypeOK
      <4> QED BY <4>1, <4>2, SpoiledRecord
    <3> QED BY <3>1, ExceptSeq, HeadTailProperties
  <2>2. results # <<>> => /\ Tail(results) \in Seq(ResultRecord)
                          /\ [results EXCEPT ![1].readable = FALSE] \in Seq(ResultRecord)
                          /\ [results EXCEPT ![1].whole = FALSE] \in Seq(ResultRecord)
    <3>1. ASSUME results # <<>>
          PROVE  /\ [results[1] EXCEPT !.readable = FALSE] \in ResultRecord
                 /\ [results[1] EXCEPT !.whole = FALSE] \in ResultRecord
                 /\ 1 \in 1..Len(results)
      <4>1. Len(results) \in Nat \ {0}
        BY <3>1, EmptySeq
      <4>2. results[1] \in ResultRecord
        BY <4>1, ElementOfSeq
      <4> HIDE DEF IInv, TypeOK
      <4> QED BY <4>1, <4>2, SpoiledRecord
    <3> QED BY <3>1, ExceptSeq, HeadTailProperties
  <2>3. requests' = requests /\ answer' = answer
    BY <1>2 DEF SpoilRecord
  <2>4. states' \in Seq(StateRecord)
    BY <1>2, <2>1 DEF SpoilRecord
  <2>5. results' \in Seq(ResultRecord)
    BY <1>2, <2>2 DEF SpoilRecord
  <2> QED BY <2>3, <2>4, <2>5
<1> QED BY <1>1, <1>2
-----------------------------------------------------------------------------
\* Every step of the exchange keeps the invariant.
LEMMA NextKeepsIInv == ASSUME IInv, [ExchangeNext]_allVars PROVE IInv'
<1> USE DEF PlaneOK
<1>1. TypeOK
  BY DEF IInv
<1>2. UNCHANGED hostVars => HostTypeOK' /\ ClosedIsEmpty'
  BY DEF hostVars, asking, reading, drawing, acknowledging, IInv, TypeOK, ClosedIsEmpty
<1>3. UNCHANGED planeVars => PlaneOK'
  BY DEF planeVars, IInv, TypeOK
<1>4. UNCHANGED <<asked, counts>> =>
        asked' \in [Settings -> Values \cup {None}] /\ counts' \in [asked : Nat, late : Nat]
  BY DEF IInv, TypeOK
<1> SUFFICES /\ HostTypeOK' /\ ChannelTypeOK' /\ PlaneOK' /\ ClosedIsEmpty'
             /\ asked' \in [Settings -> Values \cup {None}]
             /\ counts' \in [asked : Nat, late : Nat]
  BY DEF IInv, TypeOK
<1> HIDE DEF PlaneOK, HostTypeOK, ChannelTypeOK, PlaneTypeOK
<1>5. ASSUME NEW k \in Settings, NEW v \in Values, Ask(k, v)
      PROVE  /\ HostTypeOK' /\ ChannelTypeOK' /\ PlaneOK' /\ ClosedIsEmpty'
             /\ asked' \in [Settings -> Values \cup {None}]
             /\ counts' \in [asked : Nat, late : Nat]
  <2>1. HostTypeOK' /\ ChannelTypeOK' /\ PlaneOK' /\ ClosedIsEmpty'
    BY <1>3, <1>5, RequestKeeps DEF Ask
  <2>2. /\ asked' \in [Settings -> Values \cup {None}]
        /\ counts' \in [asked : Nat, late : Nat]
    BY <1>1, <1>5 DEF Ask, TypeOK
  <2> QED BY <2>1, <2>2
<1>6. CASE HostAdvance \/ HostFails \/ HostClose \/ Clock
  <2>1. HostTypeOK' /\ ChannelTypeOK' /\ ClosedIsEmpty'
    BY <1>6, CollectKeeps, ReadStateKeeps, ReadResultKeeps, SendKeeps, CloseKeeps
       DEF HostAdvance, HostFails, HostClose, Clock, Advance
  <2>2. UNCHANGED <<planeVars, asked, counts>>
    BY <1>6 DEF HostAdvance, HostFails, HostClose, Clock
  <2> QED BY <1>3, <1>4, <2>1, <2>2
<1>7. CASE PlaneAnswers
  BY <1>2, <1>4, <1>7, TakeOpenKeeps, TakeDataKeeps
     DEF PlaneAnswers, TakeOpen, TakeData, TakeAndClose
<1>8. CASE Apply
  <2>1. UNCHANGED <<hostVars, channels, asked, counts>>
    BY <1>8 DEF Apply, vars
  <2>2. ChannelTypeOK'
    BY <1>1, <2>1 DEF channels, TypeOK, ChannelTypeOK
  <2> QED BY <1>2, <1>4, <1>8, <2>1, <2>2, ApplyKeeps
<1>9. CASE PublishState
  BY <1>2, <1>4, <1>9, PublishStateKeeps DEF PublishState
<1>10. ASSUME NEW t \in Tiles, NEW r \in Regions, PublishResult(t, r)
       PROVE  /\ HostTypeOK' /\ ChannelTypeOK' /\ PlaneOK' /\ ClosedIsEmpty'
              /\ asked' \in [Settings -> Values \cup {None}]
              /\ counts' \in [asked : Nat, late : Nat]
  BY <1>2, <1>4, <1>10, PublishResultKeeps DEF PublishResult
<1>11. ASSUME NEW t \in Tiles, NEW v \in Values, PublishLate(t, v)
       PROVE  /\ HostTypeOK' /\ ChannelTypeOK' /\ PlaneOK' /\ ClosedIsEmpty'
              /\ asked' \in [Settings -> Values \cup {None}]
              /\ counts' \in [asked : Nat, late : Nat]
  <2>1. UNCHANGED <<hostVars, planeVars>>
    BY <1>11 DEF PublishLate
  <2>2. /\ asked' \in [Settings -> Values \cup {None}]
        /\ counts' \in [asked : Nat, late : Nat]
    BY <1>1, <1>11 DEF PublishLate, TypeOK
  <2> QED BY <1>2, <1>3, <1>11, <2>1, <2>2, PublishLateKeeps
<1>12. CASE AnswerWrongly \/ SpoilRecord
  <2>1. UNCHANGED <<hostVars, planeVars, asked, counts>>
    BY <1>12 DEF AnswerWrongly, SpoilRecord
  <2> QED BY <1>2, <1>3, <1>4, <1>12, <2>1, WrongKeeps
<1>13. CASE UNCHANGED allVars
  <2>1. UNCHANGED <<hostVars, channels, planeVars, asked, counts>>
    BY <1>13 DEF allVars, vars
  <2>2. ChannelTypeOK'
    BY <1>1, <2>1 DEF channels, TypeOK, ChannelTypeOK
  <2> QED BY <1>2, <1>3, <1>4, <2>1, <2>2
<1> QED BY <1>5, <1>6, <1>7, <1>8, <1>9, <1>10, <1>11, <1>12, <1>13
     DEF ExchangeNext, PlaneWorks

\* The strengthened invariant holds in every session, whatever the Realtime Plane
\* answers and whatever becomes of a record on its way.
THEOREM Inductive == ExchangeSpec => []IInv
<1> USE DEF IInv
<1>1. ExchangeInit => IInv
  BY InitIInv
<1>2. IInv /\ [ExchangeNext]_allVars => IInv'
  BY NextKeepsIInv
<1> HIDE DEF IInv
<1> QED BY <1>1, <1>2, PTL DEF ExchangeSpec

\* Every variable of the session, of the ports and of the Realtime Plane keeps its
\* type (session.py:62-95).
THEOREM TypeCorrect == ExchangeSpec => []TypeOK
<1>1. IInv => TypeOK
  BY DEF IInv
<1> QED BY <1>1, Inductive, PTL

\* A session that ended stays ended (session.py:16-18): it never opens again, nothing
\* is pending in it and it sends nothing more.
THEOREM EndedStaysEnded == ExchangeSpec => ClosedForGood
<1> DEFINE Stays == state = "CLOSED" =>
                       /\ state' = "CLOSED"
                       /\ Len(requests') <= Len(requests)
                       /\ \A k \in Settings : Pending(k)' = None
<1>1. ASSUME IInv, IInv', [ExchangeNext]_allVars PROVE [Stays]_allVars
  <2> SUFFICES ASSUME state = "CLOSED", ExchangeNext PROVE Stays
    BY <1>1
  <2>1. turn \notin {"states", "send"} /\ Len(requests) \in Nat
    BY <1>1, LenProperties DEF IInv, ClosedIsEmpty, TypeOK, ChannelTypeOK
  <2>2. state' = "CLOSED" /\ (requests' = requests \/ (requests # <<>> /\ requests' = Tail(requests)))
    <3>1. ASSUME NEW k \in Settings, NEW v \in Values PROVE ~Ask(k, v)
      BY DEF Ask, Request
    <3>2. CASE HostAdvance
      BY <2>1, <3>2 DEF HostAdvance, Advance, AwaitAnswer, GiveUp, CollectAnswer, ReadState, StatesRead,
            ReadResult, ResultsRead, SendNext, NothingToSend, End, channels
    <3>3. CASE HostFails \/ HostClose \/ Clock
      BY <2>1, <3>3, RaisingLeaves DEF HostFails, SendRaises, HostClose, Close, Clock, TimePasses, channels
    <3>4. CASE PlaneAnswers \/ AnswerWrongly
      BY <3>4 DEF PlaneAnswers, TakeOpen, TakeData, TakeAndClose, AnswerWrongly, hostVars
    <3>5. CASE PlaneWorks \/ SpoilRecord
      BY <3>5 DEF PlaneWorks, Apply, PublishState, SpoilRecord, vars, hostVars, channels
    <3>6. ASSUME NEW t \in Tiles, NEW r \in Regions, PublishResult(t, r)
          PROVE  state' = "CLOSED" /\ requests' = requests
      BY <3>6 DEF PublishResult, hostVars
    <3>7. ASSUME NEW t \in Tiles, NEW v \in Values, PublishLate(t, v)
          PROVE  state' = "CLOSED" /\ requests' = requests
      BY <3>7 DEF PublishLate, hostVars
    <3> QED BY <3>1, <3>2, <3>3, <3>4, <3>5, <3>6, <3>7 DEF ExchangeNext
  <2>3. Len(requests') <= Len(requests)
    <3>1. requests \in Seq({OpenRequest, CloseRequest} \cup Data)
      BY <1>1 DEF IInv, TypeOK, ChannelTypeOK
    <3>2. requests # <<>> => Len(Tail(requests)) = Len(requests) - 1
      BY <3>1, HeadTailProperties
    <3> QED BY <2>1, <2>2, <3>2
  <2>4. ASSUME NEW k \in Settings PROVE Pending(k)' = None
    <3>1. queued' = <<>> /\ sent' = [j \in Settings |-> NotSent]
      BY <1>1, <2>2 DEF IInv, ClosedIsEmpty
    <3>2. QueuedSettings' = {}
      BY <3>1 DEF QueuedSettings
    <3> QED BY <3>1, <3>2 DEF Pending, NotSent
  <2> QED BY <2>2, <2>3, <2>4
<1> QED BY <1>1, Inductive, PTL DEF ExchangeSpec, ClosedForGood
=============================================================================
