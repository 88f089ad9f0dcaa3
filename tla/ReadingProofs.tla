---------------------------- MODULE ReadingProofs ----------------------------
(***************************************************************************)
(* What a host reads from the streams of the Realtime Plane, for every set  *)
(* of settings, values and tiles, every window, and any answers: the        *)
(* records that break off, are skipped or are of a replaced session         *)
(* included.                                                                *)
(***************************************************************************)
EXTENDS SessionProofs

\* The records of this session that tell of a published tool state, or of a drawn tile.
Told == {r \in StateRecord : r.own =>
            /\ r.sequence \in 1..Len(published)
            /\ r.revision = r.sequence
            /\ r.shows = published[r.sequence].shows}
Painted == {r \in ResultRecord : r.own =>
            /\ r.sequence \in 1..Len(drawn)
            /\ r.revision = r.sequence
            /\ r.tile = drawn[r.sequence]}

\* What is on its way to the host tells the truth, for as long as it may take.
StatesAreTold == states \in Seq(Told)
ResultsArePainted == results \in Seq(Painted)

\* An exception left Advance, or the link let go of the session.
Lost == turn \in {"raised", "dropped"}
-----------------------------------------------------------------------------
\* A sequence of members of a set is one of members of a larger set.
LEMMA SeqGrows ==
    ASSUME NEW S, NEW T, S \subseteq T, NEW s \in Seq(S)
    PROVE  s \in Seq(T)
<1>1. Len(s) \in Nat /\ s \in [1..Len(s) -> S]
  BY LenProperties
<1>2. s = [i \in 1..Len(s) |-> s[i]] /\ \A i \in 1..Len(s) : s[i] \in T
  BY <1>1
<1>3. [i \in 1..Len(s) |-> s[i]] \in Seq(T)
  BY <1>1, <1>2, IsASeq
<1> QED BY <1>2, <1>3

\* Neither an exception nor letting go is undone.
LEMMA LostForGood ==
    ASSUME Lost, [ExchangeNext]_allVars
    PROVE  Lost'
<1> USE DEF Lost
<1>1. CASE HostAdvance \/ HostFails \/ HostClose \/ Clock
  BY <1>1, RaisingLeaves DEF HostAdvance, HostFails, HostClose, Clock, Advance, AwaitAnswer, GiveUp,
     GiveUpStep, CollectAnswer, ReadState, StatesRead, ReadResult, ResultsRead, SendNext, NothingToSend,
     SendRaises, Close, TimePasses
<1>2. ASSUME NEW k \in Settings, NEW v \in Values, Ask(k, v) PROVE turn' = turn
  BY <1>2 DEF Ask, Request, RequestStep
<1>3. CASE PlaneAnswers \/ PlaneWorks \/ AnswerWrongly \/ SpoilRecord \/ UNCHANGED allVars
  BY <1>3 DEF PlaneAnswers, TakeOpen, TakeData, TakeAndClose, PlaneWorks, Apply, PublishState,
     AnswerWrongly, SpoilRecord, allVars, vars, hostVars
<1>4. ASSUME NEW t \in Tiles, NEW r \in Regions, PublishResult(t, r) PROVE turn' = turn
  BY <1>4 DEF PublishResult, hostVars
<1>5. ASSUME NEW t \in Tiles, NEW v \in Values, PublishLate(t, v) PROVE turn' = turn
  BY <1>5 DEF PublishLate, hostVars
<1> QED BY <1>1, <1>2, <1>3, <1>4, <1>5 DEF ExchangeNext
-----------------------------------------------------------------------------
\* The records on their way still tell the truth when one was taken or spoiled.
LEMMA FewerStates ==
    ASSUME StatesAreTold, states # <<>>
    PROVE  /\ Head(states) \in Told /\ Tail(states) \in Seq(Told)
           /\ [states EXCEPT ![1].readable = FALSE] \in Seq(Told)
<1>1. Len(states) \in Nat \ {0}
  BY EmptySeq DEF StatesAreTold
<1>2. states[1] \in Told
  BY <1>1, ElementOfSeq DEF StatesAreTold
<1>3. [states[1] EXCEPT !.readable = FALSE] \in Told
  BY <1>2 DEF Told, StateRecord
<1>4. [states EXCEPT ![1] = [states[1] EXCEPT !.readable = FALSE]] \in Seq(Told)
  BY <1>1, <1>3, ExceptSeq DEF StatesAreTold
<1> QED BY <1>4, HeadTailProperties DEF StatesAreTold

LEMMA FewerResults ==
    ASSUME ResultsArePainted, results # <<>>
    PROVE  /\ Head(results) \in Painted /\ Tail(results) \in Seq(Painted)
           /\ [results EXCEPT ![1].readable = FALSE] \in Seq(Painted)
           /\ [results EXCEPT ![1].whole = FALSE] \in Seq(Painted)
<1>1. Len(results) \in Nat \ {0}
  BY EmptySeq DEF ResultsArePainted
<1>2. results[1] \in Painted
  BY <1>1, ElementOfSeq DEF ResultsArePainted
<1>3. /\ [results[1] EXCEPT !.readable = FALSE] \in Painted
      /\ [results[1] EXCEPT !.whole = FALSE] \in Painted
  BY <1>2 DEF Painted, ResultRecord
<1>4. /\ [results EXCEPT ![1] = [results[1] EXCEPT !.readable = FALSE]] \in Seq(Painted)
      /\ [results EXCEPT ![1] = [results[1] EXCEPT !.whole = FALSE]] \in Seq(Painted)
  BY <1>1, <1>3, ExceptSeq DEF ResultsArePainted
<1> QED BY <1>4, HeadTailProperties DEF ResultsArePainted

\* The Realtime Plane tells of a tool state it publishes in the step it publishes it.
LEMMA PublishTells ==
    ASSUME TypeOK, TypeOK', StatesAreTold, PublishState
    PROVE  /\ StatesAreTold'
           /\ \A n \in 1..Len(published) : published'[n] = published[n]
           /\ Len(published') = Len(published) + 1
<1> DEFINE entry == [applied |-> Applied, shows |-> inEffect]
           record == [own |-> TRUE, readable |-> TRUE, sequence |-> Len(published) + 1,
                      revision |-> Len(published) + 1, applied |-> Applied, shows |-> inEffect]
<1>1. published' = Append(published, entry) /\ states' = Append(states, record)
  BY DEF PublishState
<1>2. /\ published' \in Seq([applied : Nat, shows : [Settings -> Values]])
      /\ published \in Seq([applied : Nat, shows : [Settings -> Values]])
      /\ states' \in Seq(StateRecord) /\ states \in Seq(Told)
  BY DEF TypeOK, PlaneTypeOK, ChannelTypeOK, StatesAreTold
<1>3. /\ Len(published) \in Nat /\ Len(published') = Len(published) + 1
      /\ \A n \in 1..Len(published) : published'[n] = published[n]
      /\ published'[Len(published) + 1] = entry
  <2> HIDE DEF entry
  <2> QED BY <1>1, <1>2
<1>4. record \in StateRecord
  <2> HIDE DEF record
  <2>1. Len(states) \in Nat
    BY <1>2, LenProperties
  <2>2. Len(states') = Len(states) + 1 /\ states'[Len(states) + 1] = record
    BY <1>1, <1>2
  <2> QED BY <1>2, <2>1, <2>2, ElementOfSeq
<1>5. record \in Told'
  BY <1>3, <1>4 DEF Told
<1>6. Told \subseteq Told'
  BY <1>3 DEF Told
<1>7. states \in Seq(Told')
  BY <1>2, <1>6, SeqGrows
<1>8. states' \in Seq(Told')
  <2> HIDE DEF record, Told
  <2> QED BY <1>1, <1>5, <1>7, AppendProperties
<1> QED BY <1>3, <1>8 DEF StatesAreTold

\* So it does of a tile it draws.
LEMMA PublishPaints ==
    ASSUME TypeOK, TypeOK', ResultsArePainted,
           NEW t \in Tiles, NEW r \in Regions, PublishResult(t, r)
    PROVE  /\ ResultsArePainted'
           /\ \A n \in 1..Len(drawn) : drawn'[n] = drawn[n]
           /\ Len(drawn') = Len(drawn) + 1
<1> DEFINE record == [own |-> TRUE, readable |-> TRUE, whole |-> TRUE,
                      sequence |-> Len(drawn) + 1, revision |-> Len(drawn) + 1,
                      tile |-> t, region |-> r]
<1>1. drawn' = Append(drawn, t) /\ results' = Append(results, record)
  BY DEF PublishResult
<1>2. drawn \in Seq(Tiles) /\ results \in Seq(Painted)
  BY DEF TypeOK, PlaneTypeOK, ResultsArePainted
<1>3. /\ Len(drawn) \in Nat /\ Len(drawn') = Len(drawn) + 1
      /\ \A n \in 1..Len(drawn) : drawn'[n] = drawn[n]
      /\ drawn'[Len(drawn) + 1] = t
  BY <1>1, <1>2, LenProperties, AppendProperties
<1>4. record \in ResultRecord
  BY <1>3 DEF ResultRecord
<1>5. record \in Painted'
  BY <1>3, <1>4 DEF Painted
<1>6. Painted \subseteq Painted'
  BY <1>3 DEF Painted
<1>7. results \in Seq(Painted')
  BY <1>2, <1>6, SeqGrows
<1>8. results' \in Seq(Painted')
  <2> HIDE DEF record, Painted
  <2> QED BY <1>1, <1>5, <1>7, AppendProperties
<1> QED BY <1>3, <1>8 DEF ResultsArePainted

\* A record of the replaced session is not this session's.
LEMMA LateIsForeign ==
    ASSUME TypeOK', StatesAreTold, ResultsArePainted,
           NEW t \in Tiles, NEW v \in Values, PublishLate(t, v)
    PROVE  StatesAreTold' /\ ResultsArePainted'
<1> DEFINE late == [own |-> FALSE, readable |-> TRUE, sequence |-> 1, revision |-> 9,
                    applied |-> 9, shows |-> [k \in Settings |-> v]]
           painted == [own |-> FALSE, readable |-> TRUE, whole |-> TRUE, sequence |-> 1,
                       revision |-> 9, tile |-> t, region |-> 1]
<1>1. /\ states' \in {states, Append(states, late)}
      /\ results' \in {results, Append(results, painted)}
      /\ published' = published /\ drawn' = drawn
  BY DEF PublishLate, planeVars
<1>2. late \in Told
  BY DEF Told, StateRecord
<1>3. painted \in Painted
  BY ExchangeAssumption DEF Painted, ResultRecord, Regions
<1>4. states' \in Seq(Told) /\ results' \in Seq(Painted)
  <2>1. states \in Seq(Told) /\ results \in Seq(Painted)
    BY DEF StatesAreTold, ResultsArePainted
  <2> HIDE DEF late, painted, Told, Painted
  <2>2. Append(states, late) \in Seq(Told)
    BY <1>2, <2>1, AppendProperties
  <2>3. Append(results, painted) \in Seq(Painted)
    BY <1>3, <2>1, AppendProperties
  <2> QED BY <1>1, <2>1, <2>2, <2>3
<1>5. Told' = Told /\ Painted' = Painted
  BY <1>1 DEF Told, Painted
<1> QED BY <1>4, <1>5 DEF StatesAreTold, ResultsArePainted
-----------------------------------------------------------------------------
\* What the host shows stays what was published, through reading a record.
LEMMA ReadingShows ==
    ASSUME TypeOK, EffectiveIsReported, StatesAreTold, ReadState
    PROVE  EffectiveIsReported' \/ published' # published
<1> SUFFICES ASSUME published' = published, stateSequence' > 0, ~Lost'
             PROVE  /\ stateSequence' <= Len(published)
                    /\ effective' = published[stateSequence'].shows
                    /\ toolRevision' = stateSequence'
  BY DEF EffectiveIsReported, Lost
<1> DEFINE record == Head(states)
<1>1. record \in Told /\ Len(published) \in Nat
  BY FewerStates, LenProperties DEF ReadState, TypeOK, PlaneTypeOK
<1>2. ~Lost
  BY DEF Lost, ReadState
<1>3. CASE UNCHANGED reading
  BY <1>2, <1>3 DEF reading, EffectiveIsReported, Lost
<1>4. CASE /\ record.readable /\ record.own
           /\ stateSequence' = record.sequence
           /\ toolRevision' = record.revision
           /\ effective' = record.shows
  BY <1>1, <1>4 DEF Told
<1> HIDE DEF record
<1>5. turn' # "raised"
  BY DEF Lost
<1> QED BY <1>3, <1>4, <1>5 DEF ReadState, record, Foreign

\* The mirror stays the newest of what was drawn, through reading a record.
LEMMA ReadingMirrors ==
    ASSUME TypeOK, MirrorIsDrawn, ResultsArePainted, ReadResult, drawn' = drawn
    PROVE  MirrorIsDrawn'
<1> DEFINE record == Head(results)
           Seen(t, last) == {n \in 1..last : drawn[n] = t}
           Newest(t, last, shown) ==
              /\ last <= Len(drawn)
              /\ IF Seen(t, last) = {} THEN shown = 0
                 ELSE shown \in Seen(t, last) /\ \A n \in Seen(t, last) : n <= shown
<1>1. /\ record \in Painted /\ Len(drawn) \in Nat /\ resultSequence \in Nat
      /\ mirror \in [Tiles -> Nat]
  BY FewerResults, LenProperties DEF ReadResult, TypeOK, PlaneTypeOK, HostTypeOK
<1>2. ~Lost
  BY DEF Lost, ReadResult
<1>3. \A t \in Tiles : Newest(t, resultSequence, mirror[t])
  BY <1>2 DEF MirrorIsDrawn, Lost
<1> SUFFICES ASSUME ~Lost', NEW t \in Tiles PROVE Newest(t, resultSequence', mirror'[t])
  BY DEF MirrorIsDrawn, Lost
<1>4. CASE UNCHANGED <<resultSequence, mirror>>
  BY <1>3, <1>4
<1>5. CASE /\ record.own /\ record.sequence = resultSequence + 1
           /\ resultSequence' = record.sequence
           /\ mirror' = [mirror EXCEPT ![record.tile] = record.revision]
  <2>1. /\ resultSequence + 1 \in 1..Len(drawn) /\ resultSequence' = resultSequence + 1
        /\ record.tile = drawn[resultSequence + 1] /\ record.tile \in Tiles
        /\ record.revision = resultSequence + 1
    BY <1>1, <1>5 DEF Painted, ResultRecord
  <2>2. 1..(resultSequence + 1) = (1..resultSequence) \cup {resultSequence + 1}
    BY <1>1
  <2>3. CASE t = record.tile
    <3>1. mirror'[t] = resultSequence + 1 /\ drawn[resultSequence + 1] = t
      BY <1>1, <1>5, <2>1, <2>3
    <3>2. resultSequence + 1 \in Seen(t, resultSequence + 1)
      BY <2>2, <3>1
    <3>3. \A n \in Seen(t, resultSequence + 1) : n <= resultSequence + 1
      BY <1>1
    <3> QED BY <2>1, <3>1, <3>2, <3>3
  <2>4. CASE t # record.tile
    <3>1. Seen(t, resultSequence + 1) = Seen(t, resultSequence)
      BY <2>1, <2>2, <2>4
    <3>2. mirror'[t] = mirror[t]
      BY <1>1, <1>5, <2>4
    <3> HIDE DEF Seen
    <3> QED BY <1>3, <2>1, <3>1, <3>2
  <2> QED BY <2>3, <2>4
<1>6. turn' # "raised"
  BY DEF Lost
<1> HIDE DEF Newest
<1> QED BY <1>4, <1>5, <1>6 DEF ReadResult, Foreign, Follows, drawing
-----------------------------------------------------------------------------
\* The inductive invariant of what is read: what the host shows is what was published
\* and drawn, and so is what is still on its way.
ReadInv ==
    /\ EffectiveIsReported /\ StatesAreTold
    /\ MirrorIsDrawn /\ ResultsArePainted

\* What no record, no publishing and no reading touches.
LEMMA OthersKeep ==
    ASSUME ReadInv, Lost => Lost', UNCHANGED <<reading, published, resultSequence, mirror, drawn>>
    PROVE  /\ EffectiveIsReported' /\ MirrorIsDrawn'
           /\ states' \in Seq(Told) => StatesAreTold'
           /\ results' \in Seq(Painted) => ResultsArePainted'
<1>1. Told' = Told /\ Painted' = Painted
  BY DEF Told, Painted
<1>2. EffectiveIsReported'
  BY DEF ReadInv, EffectiveIsReported, Lost, reading
<1>3. MirrorIsDrawn'
  BY DEF ReadInv, MirrorIsDrawn, Lost
<1> QED BY <1>1, <1>2, <1>3 DEF StatesAreTold, ResultsArePainted

\* Nothing was read or published when the session starts.
LEMMA InitReads == ASSUME ExchangeInit PROVE ReadInv
<1>1. EffectiveIsReported
  BY DEF ExchangeInit, Init, EffectiveIsReported
<1>2. MirrorIsDrawn
  BY DEF ExchangeInit, Init, MirrorIsDrawn
<1>3. StatesAreTold /\ ResultsArePainted
  BY EmptySeq DEF ExchangeInit, Init, StatesAreTold, ResultsArePainted
<1> QED BY <1>1, <1>2, <1>3 DEF ReadInv

\* Every step of the exchange keeps what is read true.
LEMMA NextReads ==
    ASSUME TypeOK, TypeOK', ReadInv, [ExchangeNext]_allVars
    PROVE  ReadInv'
<1>1. Lost => Lost'
  BY LostForGood
<1>2. /\ states \in Seq(Told) /\ results \in Seq(Painted)
      /\ StatesAreTold /\ ResultsArePainted /\ EffectiveIsReported /\ MirrorIsDrawn
  BY DEF ReadInv, StatesAreTold, ResultsArePainted
<1> DEFINE Quiet == UNCHANGED <<reading, published, resultSequence, mirror, drawn>>
<1>3. CASE Quiet /\ states' \in Seq(Told) /\ results' \in Seq(Painted)
  BY <1>1, <1>3, OthersKeep DEF ReadInv
<1>4. CASE HostAdvance
  <2>1. CASE ReadState
    <3>1. UNCHANGED <<published, resultSequence, mirror, drawn, results>>
      BY <1>4, <2>1 DEF HostAdvance, planeVars, ReadState, drawing
    <3>2. states' = Tail(states) /\ states # <<>>
      BY <2>1 DEF ReadState
    <3>3. Told' = Told /\ Painted' = Painted
      BY <3>1 DEF Told, Painted
    <3>4. StatesAreTold' /\ ResultsArePainted'
      BY <1>2, <3>1, <3>2, <3>3, FewerStates DEF StatesAreTold, ResultsArePainted
    <3>5. EffectiveIsReported'
      BY <1>2, <2>1, <3>1, ReadingShows
    <3>6. MirrorIsDrawn'
      BY <1>1, <1>2, <3>1 DEF MirrorIsDrawn, Lost
    <3> QED BY <3>4, <3>5, <3>6 DEF ReadInv
  <2>2. CASE ReadResult
    <3>1. UNCHANGED <<published, reading, drawn, states>>
      BY <1>4, <2>2 DEF HostAdvance, planeVars, ReadResult
    <3>2. results' = Tail(results) /\ results # <<>>
      BY <2>2 DEF ReadResult
    <3>3. Told' = Told /\ Painted' = Painted
      BY <3>1 DEF Told, Painted
    <3>4. StatesAreTold' /\ ResultsArePainted'
      BY <1>2, <3>1, <3>2, <3>3, FewerResults DEF StatesAreTold, ResultsArePainted
    <3>5. EffectiveIsReported'
      BY <1>1, <1>2, <3>1 DEF EffectiveIsReported, Lost, reading
    <3>6. MirrorIsDrawn'
      BY <1>2, <2>2, <3>1, ReadingMirrors
    <3> QED BY <3>4, <3>5, <3>6 DEF ReadInv
  <2>3. CASE AwaitAnswer \/ GiveUp \/ CollectAnswer \/ StatesRead \/ ResultsRead
             \/ SendNext \/ NothingToSend
    <3>1. Quiet /\ UNCHANGED <<states, results>>
      BY <1>4, <2>3 DEF HostAdvance, planeVars, AwaitAnswer, GiveUp, GiveUpStep, CollectAnswer,
         StatesRead, ResultsRead, SendNext, NothingToSend, Assemble, channels, drawing
    <3> QED BY <1>2, <1>3, <3>1
  <2> QED BY <1>4, <2>1, <2>2, <2>3 DEF HostAdvance, Advance
<1>5. CASE HostFails \/ HostClose \/ Clock
  <2>1. Quiet /\ UNCHANGED <<states, results>>
    BY <1>5, RaisingLeaves DEF HostFails, SendRaises, Assemble, HostClose, Close, Clock, TimePasses, planeVars,
       channels, drawing
  <2> QED BY <1>2, <1>3, <2>1
<1>6. ASSUME NEW k \in Settings, NEW v \in Values, Ask(k, v) PROVE ReadInv'
  <2>1. Quiet /\ UNCHANGED <<states, results>>
    BY <1>6 DEF Ask, Request, RequestStep, planeVars, channels, drawing
  <2> QED BY <1>2, <1>3, <2>1
<1>7. CASE PlaneAnswers \/ Apply \/ UNCHANGED allVars
  <2>1. Quiet /\ UNCHANGED <<states, results>>
    BY <1>7 DEF PlaneAnswers, TakeOpen, TakeData, TakeAndClose, Apply, allVars, vars, hostVars,
       planeVars, channels, drawing
  <2> QED BY <1>2, <1>3, <2>1
<1>8. CASE PublishState
  <2>1. UNCHANGED <<turn, reading, resultSequence, mirror, drawn, results>>
    BY <1>8 DEF PublishState, hostVars, drawing
  <2>2. /\ StatesAreTold'
        /\ \A n \in 1..Len(published) : published'[n] = published[n]
        /\ Len(published') = Len(published) + 1
    BY <1>2, <1>8, PublishTells
  <2>3. ResultsArePainted' /\ MirrorIsDrawn'
    BY <1>2, <2>1 DEF ResultsArePainted, Painted, MirrorIsDrawn
  <2>4. EffectiveIsReported'
    <3>1. Len(published) \in Nat /\ stateSequence \in Nat
      BY LenProperties DEF TypeOK, PlaneTypeOK, HostTypeOK
    <3> QED BY <1>2, <2>1, <2>2, <3>1 DEF EffectiveIsReported, reading
  <2> QED BY <2>2, <2>3, <2>4 DEF ReadInv
<1>9. ASSUME NEW t \in Tiles, NEW r \in Regions, PublishResult(t, r) PROVE ReadInv'
  <2>1. UNCHANGED <<turn, reading, resultSequence, mirror, published, states>>
    BY <1>9 DEF PublishResult, hostVars, drawing
  <2>2. /\ ResultsArePainted'
        /\ \A n \in 1..Len(drawn) : drawn'[n] = drawn[n]
        /\ Len(drawn') = Len(drawn) + 1
    BY <1>2, <1>9, PublishPaints
  <2>3. StatesAreTold' /\ EffectiveIsReported'
    BY <1>2, <2>1 DEF StatesAreTold, Told, EffectiveIsReported, reading
  <2>4. MirrorIsDrawn'
    <3>1. Len(drawn) \in Nat /\ resultSequence \in Nat
      BY LenProperties DEF TypeOK, PlaneTypeOK, HostTypeOK
    <3> SUFFICES ASSUME ~Lost, NEW s \in Tiles
                 PROVE  LET seen == {n \in 1..resultSequence : drawn'[n] = s} IN
                        /\ resultSequence <= Len(drawn')
                        /\ IF seen = {} THEN mirror[s] = 0
                           ELSE mirror[s] \in seen /\ \A n \in seen : n <= mirror[s]
      BY <2>1 DEF MirrorIsDrawn, Lost
    <3>2. resultSequence <= Len(drawn)
      BY <1>2 DEF MirrorIsDrawn, Lost
    <3>3. {n \in 1..resultSequence : drawn'[n] = s} = {n \in 1..resultSequence : drawn[n] = s}
      BY <2>2, <3>1, <3>2
    <3> QED BY <1>2, <2>2, <3>1, <3>2, <3>3 DEF MirrorIsDrawn, Lost
  <2> QED BY <2>2, <2>3, <2>4 DEF ReadInv
<1>10. ASSUME NEW t \in Tiles, NEW v \in Values, PublishLate(t, v) PROVE ReadInv'
  <2>1. Quiet
    BY <1>10 DEF PublishLate, hostVars, planeVars, drawing
  <2>2. StatesAreTold' /\ ResultsArePainted'
    BY <1>2, <1>10, LateIsForeign
  <2> QED BY <1>1, <2>1, <2>2, OthersKeep DEF ReadInv
<1>11. CASE AnswerWrongly \/ SpoilRecord
  <2>1. Quiet
    BY <1>11 DEF AnswerWrongly, SpoilRecord, hostVars, planeVars, drawing
  <2>2. states' \in Seq(Told) /\ results' \in Seq(Painted)
    BY <1>2, <1>11, FewerStates, FewerResults DEF AnswerWrongly, SpoilRecord
  <2> QED BY <1>3, <2>1, <2>2
<1> QED BY <1>4, <1>5, <1>6, <1>7, <1>8, <1>9, <1>10, <1>11 DEF ExchangeNext, PlaneWorks

\* What the host shows and what it has still to read is true in every session.
THEOREM ReadingInductive == ExchangeSpec => []ReadInv
<1>1. ExchangeInit => ReadInv
  BY InitReads
<1>2. TypeOK /\ TypeOK' /\ ReadInv /\ [ExchangeNext]_allVars => ReadInv'
  BY NextReads
<1> QED BY <1>1, <1>2, TypeCorrect, PTL DEF ExchangeSpec

\* What the host shows as effective is exactly a tool state that was published to this
\* session (session.py:199-214), whatever is skipped, spoiled or late.
THEOREM EffectiveIsAlwaysReported == ExchangeSpec => []EffectiveIsReported
<1>1. ReadInv => EffectiveIsReported
  BY DEF ReadInv
<1> QED BY <1>1, ReadingInductive, PTL

\* The mirror holds tile by tile the newest drawing among the results read
\* (session.py:219-237), whatever is skipped, spoiled or late.
THEOREM MirrorIsAlwaysDrawn == ExchangeSpec => []MirrorIsDrawn
<1>1. ReadInv => MirrorIsDrawn
  BY DEF ReadInv
<1> QED BY <1>1, ReadingInductive, PTL
=============================================================================
