------------------------------- MODULE Session -------------------------------
(***************************************************************************)
(* RealtimePlaneSession (extension/realtime_plane/session.py): the host's   *)
(* end of one session with the Realtime Plane.                              *)
(*                                                                          *)
(* The host is one thread.  Its timer calls Advance, which collects the     *)
(* answer to the request under way, reads every tool-state record, then     *)
(* every tile-results record, then sends the next request.  The Realtime    *)
(* Plane is another process and may act between any two of those calls on   *)
(* the ports, so Advance is a sequence of steps here and `turn' says where  *)
(* the host is in it.  Everything between two port calls is one step.       *)
(*                                                                          *)
(* An operator whose name starts with Slip is not part of the model: it is  *)
(* a mistake the code could have made in the definition that follows it,    *)
(* which some run must notice.                                              *)
(*                                                                          *)
(* The ports (realtime_plane/channels.py) are the variables of `channels':  *)
(* requests out, the answer to the one under way, and the two streams in.   *)
(***************************************************************************)
EXTENDS Integers, Sequences, FiniteSets

CONSTANTS
    Settings,       \* action bindings; a state binding has the name of its action
    Values,         \* values a payload carries; Request refuses all others
    None,           \* no value
    Tiles,          \* tiles of the canvas
    ActionWindow,   \* settings.Actions.WindowRecords
    FrameSlots,     \* settings.ControlFrameBytes, every frame costing one
    OpenPatience,   \* openSeconds, in steps of the clock
    ReplyPatience   \* replySeconds

ASSUME SessionAssumption ==
    /\ None \notin Values
    /\ ActionWindow \in Nat \ {0}
    /\ FrameSlots \in Nat \ {0}
    /\ OpenPatience \in Nat
    /\ ReplyPatience \in Nat

VARIABLES
    state,          \* State
    turn,           \* where Advance is; "raised": an exception left it; "dropped": the link let go
    queued,         \* _queued, in the order of first asking
    sent,           \* _sent; sequence 0 where there is no entry
    actionSequence, stateSequence, stateAcknowledged,
    resultSequence, resultAcknowledged,
    releases,       \* _releases
    requestThrough, \* _requestThrough
    awaiting,       \* _reply is not None
    waited,         \* the clock since _sentAt
    effective,      \* _effective
    toolRevision,   \* ToolRevision
    mirror,         \* Mirror: the revision of each tile, 0 before its first
    changedTiles,   \* ChangedTiles
    staleRecords    \* StaleRecords

asking == <<queued, sent, actionSequence, requestThrough>>
reading == <<stateSequence, effective, toolRevision>>
drawing == <<resultSequence, mirror, changedTiles, releases>>
acknowledging == <<stateAcknowledged, resultAcknowledged>>
hostVars == <<state, turn, asking, reading, drawing, acknowledging, awaiting, waited, staleRecords>>

VARIABLES
    requests,       \* requests sent that the Realtime Plane has not taken
    answer,         \* the answer not yet taken by the host: NoAnswer or its frames
    states,         \* tool-state records on their way
    results         \* tile-results records on their way
channels == <<requests, answer, states, results>>

vars == <<hostVars, channels>>
-----------------------------------------------------------------------------
NoAnswer == [arrived |-> FALSE, frames |-> <<>>]
Answer(frames) == [arrived |-> TRUE, frames |-> frames]

OpenRequest == [kind |-> "open"]
CloseRequest == [kind |-> "close"]
DataRequest(stateThrough, resultThrough, regions, actions) ==
    [kind |-> "data", stateThrough |-> stateThrough, resultThrough |-> resultThrough,
     regions |-> regions, actions |-> actions]

NotSent == [sequence |-> 0, value |-> None]
QueuedSettings == {queued[i].setting : i \in DOMAIN queued}
QueuedValue(k) == LET i == CHOOSE i \in DOMAIN queued : queued[i].setting = k
                  IN  queued[i].value

\* The sent value shadows a newer one that still waits.
SlipPending(k) == IF sent[k].sequence > 0 \/ k \notin QueuedSettings
                  THEN sent[k].value ELSE QueuedValue(k)

\* What the host shows as asked for and not in effect yet.
Pending(k) == IF k \in QueuedSettings THEN QueuedValue(k) ELSE sent[k].value

\* The least of a nonempty set of numbers.
Least(S) == CHOOSE n \in S : \A m \in S : n <= m
-----------------------------------------------------------------------------
\* The open request is sent by the constructor.  It reaches nobody when the
\* Realtime Plane has not created its server yet.
Init ==
    /\ state = "OPENING" /\ turn = "idle"
    /\ queued = <<>> /\ sent = [k \in Settings |-> NotSent]
    /\ actionSequence = 0 /\ requestThrough = 0
    /\ stateSequence = 0 /\ stateAcknowledged = 0
    /\ resultSequence = 0 /\ resultAcknowledged = 0
    /\ releases = <<>>
    /\ awaiting = TRUE /\ waited = 0
    /\ effective = [k \in Settings |-> None] /\ toolRevision = 0
    /\ mirror = [t \in Tiles |-> 0] /\ changedTiles = {} /\ staleRecords = 0
    /\ requests \in {<<OpenRequest>>, <<>>}
    /\ answer = NoAnswer
    /\ states = <<>> /\ results = <<>>

\* _end.
End ==
    /\ state' = "CLOSED"
    /\ awaiting' = FALSE
    /\ queued' = <<>>
    /\ sent' = [k \in Settings |-> NotSent]

RequestStep(k, v) ==
    /\ queued' = IF k \in QueuedSettings
                 THEN [i \in DOMAIN queued |->
                         IF queued[i].setting = k THEN [setting |-> k, value |-> v] ELSE queued[i]]
                 ELSE Append(queued, [setting |-> k, value |-> v])
    /\ UNCHANGED <<state, turn, sent, actionSequence, requestThrough, reading, drawing,
                   acknowledging, awaiting, waited, staleRecords, channels>>

\* A request is queued in an ended session.
SlipRequestWhenClosed(k, v) == turn = "idle" /\ RequestStep(k, v)

\* Request, called by the host's user interface between two turns of the timer.
Request(k, v) == turn = "idle" /\ state # "CLOSED" /\ RequestStep(k, v)

-----------------------------------------------------------------------------
\* Advance: collect the answer to the request under way.

\* Records are read only in an open session.
Reading(s) == IF s = "OPEN" THEN "states" ELSE "idle"

Patience == IF state = "OPENING" THEN OpenPatience ELSE ReplyPatience

\* Nothing to collect: no request under way, or no answer yet and still time.
AwaitAnswer ==
    /\ turn = "idle" /\ state # "CLOSED"
    /\ ~awaiting \/ (~answer.arrived /\ waited <= Patience)
    /\ turn' = Reading(state)
    /\ UNCHANGED <<state, asking, reading, drawing, acknowledging, awaiting, waited,
                   staleRecords, channels>>

GiveUpStep ==
    /\ turn = "idle" /\ awaiting /\ ~answer.arrived /\ waited > Patience
    /\ End
    /\ UNCHANGED <<turn, actionSequence, requestThrough, reading, drawing, acknowledging,
                   waited, staleRecords, channels>>

\* Only an open session loses patience.
SlipGiveUp == state = "OPEN" /\ GiveUpStep

GiveUp == state # "CLOSED" /\ GiveUpStep

\* The frames of an answer take effect in their order.  Those of another session
\* or another stream are skipped; the last that opens or ends the session stands.
Verdicts(frames) == {i \in DOMAIN frames : frames[i].kind \in {"ACCEPT", "REJECT", "CLOSE"}}
StateAfter(frames) ==
    LET last == CHOOSE i \in Verdicts(frames) : \A j \in Verdicts(frames) : j <= i
    IN  IF Verdicts(frames) = {} THEN state
        ELSE IF frames[last].kind = "ACCEPT" THEN "OPEN" ELSE "CLOSED"
Ends(frames) == \E i \in DOMAIN frames : frames[i].kind \in {"REJECT", "CLOSE"}
Accepts(frames, through) ==
    through = 0 \/ \E i \in DOMAIN frames : frames[i].kind = "ACK" /\ frames[i].through >= through

CollectAnswer ==
    LET frames == answer.frames
        after == IF StateAfter(frames) = "OPEN" /\ ~Accepts(frames, requestThrough)
                 THEN "CLOSED" ELSE StateAfter(frames)
        ended == Ends(frames) \/ after = "CLOSED"
    IN  /\ turn = "idle" /\ state # "CLOSED"
        /\ awaiting /\ answer.arrived
        /\ awaiting' = FALSE /\ requestThrough' = 0 /\ answer' = NoAnswer
        /\ state' = after /\ turn' = Reading(after)
        /\ queued' = IF ended THEN <<>> ELSE queued
        /\ sent' = IF ended THEN [k \in Settings |-> NotSent] ELSE sent
        /\ UNCHANGED <<actionSequence, reading, drawing, acknowledging, waited, staleRecords,
                       requests, states, results>>

\* The answer cannot be taken, or cannot be read to its end; the exception leaves Advance,
\* and the first n of its frames have taken effect.
AnswerRaises ==
    /\ turn = "idle" /\ state # "CLOSED" /\ awaiting
    /\ turn' = "raised"
    /\ \/ UNCHANGED <<state, queued, sent, requestThrough, awaiting, answer>>
       \/ /\ answer.arrived
          /\ awaiting' = FALSE /\ requestThrough' = 0 /\ answer' = NoAnswer
          /\ \E n \in 0..Len(answer.frames) :
               LET frames == [i \in 1..n |-> answer.frames[i]]
                   ended == Ends(frames) \/ StateAfter(frames) = "CLOSED" IN
               /\ state' = StateAfter(frames)
               /\ queued' = IF ended THEN <<>> ELSE queued
               /\ sent' = IF ended THEN [k \in Settings |-> NotSent] ELSE sent
    /\ UNCHANGED <<actionSequence, reading, drawing, acknowledging, waited, staleRecords,
                   requests, states, results>>
-----------------------------------------------------------------------------
\* Advance: read the tool-state records that have arrived.  A record that breaks
\* the order ends the session, and the results are still read after it.

\* Records of a replaced session are taken for this one's.
SlipForeign(record) == FALSE
Foreign(record) == ~record.own

Follows(record, last) == record.sequence = last + 1

\* Every report settles every action, or the one it names last is left unsettled.
SlipUnsettledNone(record) == [k \in Settings |-> NotSent]
SlipUnsettledLast(record) ==
    [k \in Settings |-> IF sent[k].sequence >= record.applied THEN sent[k] ELSE NotSent]
\* The actions a report does not cover.
Unsettled(record) ==
    [k \in Settings |-> IF sent[k].sequence > record.applied THEN sent[k] ELSE NotSent]

ReadState ==
    /\ turn = "states" /\ states # <<>>
    /\ states' = Tail(states)
    /\ LET record == Head(states) IN
       \/ /\ ~record.readable     \* the record, or the tool state it carries
          /\ turn' = "raised"
          /\ \/ UNCHANGED stateSequence
             \/ ~Foreign(record) /\ Follows(record, stateSequence) /\ stateSequence' = record.sequence
          /\ UNCHANGED <<state, asking, awaiting, effective, toolRevision, staleRecords>>
       \/ /\ record.readable /\ Foreign(record)
          /\ staleRecords' = staleRecords + 1
          /\ UNCHANGED <<state, turn, asking, awaiting, reading>>
       \/ /\ record.readable /\ ~Foreign(record) /\ ~Follows(record, stateSequence)
          /\ End /\ turn' = "results"
          /\ UNCHANGED <<actionSequence, requestThrough, reading, staleRecords>>
       \/ /\ record.readable /\ ~Foreign(record) /\ Follows(record, stateSequence)
          /\ stateSequence' = record.sequence
          /\ toolRevision' = record.revision
          /\ effective' = record.shows
          /\ sent' = Unsettled(record)
          /\ UNCHANGED <<state, turn, queued, actionSequence, requestThrough, awaiting,
                         staleRecords>>
    /\ UNCHANGED <<drawing, acknowledging, waited, requests, answer, results>>

StatesRead ==
    /\ turn = "states" /\ states = <<>>
    /\ turn' = "results"
    /\ UNCHANGED <<state, asking, reading, drawing, acknowledging, awaiting, waited,
                   staleRecords, channels>>
-----------------------------------------------------------------------------
\* Advance: read the tile-results records that have arrived.  `whole' says the
\* region lies inside its message.

ReadResult ==
    /\ turn = "results" /\ results # <<>>
    /\ results' = Tail(results)
    /\ LET record == Head(results) IN
       \/ /\ ~record.readable     \* the record, or the tile results it carries
          /\ turn' = "raised"
          /\ \/ UNCHANGED resultSequence
             \/ ~Foreign(record) /\ Follows(record, resultSequence) /\ resultSequence' = record.sequence
          /\ UNCHANGED <<state, asking, awaiting, mirror, changedTiles, releases, staleRecords>>
       \/ /\ record.readable /\ Foreign(record)
          /\ staleRecords' = staleRecords + 1
          /\ UNCHANGED <<state, turn, asking, awaiting, drawing>>
       \/ /\ record.readable /\ ~Foreign(record)
          /\ ~Follows(record, resultSequence) \/ ~record.whole
          /\ End /\ turn' = "idle"
          /\ UNCHANGED <<actionSequence, requestThrough, drawing, staleRecords>>
       \/ /\ record.readable /\ ~Foreign(record)
          /\ Follows(record, resultSequence) /\ record.whole
          /\ resultSequence' = record.sequence
          /\ mirror' = [mirror EXCEPT ![record.tile] = record.revision]
          /\ changedTiles' = changedTiles \cup {record.tile}
          /\ releases' = Append(releases, record.region)
          /\ UNCHANGED <<state, turn, asking, awaiting, staleRecords>>
    /\ UNCHANGED <<reading, acknowledging, waited, requests, answer, states>>

\* A request is sent while another is under way.
SlipMaySend == state = "OPEN"
MaySend == state = "OPEN" /\ ~awaiting

ResultsRead ==
    /\ turn = "results" /\ results = <<>>
    /\ turn' = IF MaySend THEN "send" ELSE "idle"
    /\ UNCHANGED <<state, asking, reading, drawing, acknowledging, awaiting, waited,
                   staleRecords, channels>>
-----------------------------------------------------------------------------
\* Advance: send what reading earned and what the host asked for, as one request.

\* Acknowledgements alone are not worth a request.
SlipEarned == Len(releases)
\* The frames ahead of the actions.
Earned == (IF stateSequence > stateAcknowledged THEN 1 ELSE 0)
          + (IF resultSequence > resultAcknowledged THEN 1 ELSE 0)
          + Len(releases)

\* How many queued actions go with this request; the rest go with the next.
BatchSize == Least({Len(queued), ActionWindow,
                    IF Earned < FrameSlots THEN FrameSlots - Earned ELSE 0})
Batch == [i \in 1..BatchSize |->
            [sequence |-> actionSequence + i, setting |-> queued[i].setting,
             value |-> queued[i].value, revision |-> toolRevision]]

\* The action sequence stays behind, or the releases are sent again.
SlipNextAction == actionSequence
NextAction == actionSequence + BatchSize
SlipUnreleased == releases
Unreleased == <<>>

\* What _sendNext has done by the time it calls _send.
Assemble ==
    /\ stateAcknowledged' = stateSequence
    /\ resultAcknowledged' = resultSequence
    /\ releases' = Unreleased
    /\ actionSequence' = NextAction
    /\ queued' = SubSeq(queued, BatchSize + 1, Len(queued))
    /\ sent' = [k \in Settings |->
                  IF \E i \in 1..BatchSize : queued[i].setting = k
                  THEN LET i == CHOOSE i \in 1..BatchSize : queued[i].setting = k
                       IN  [sequence |-> actionSequence + i, value |-> queued[i].value]
                  ELSE sent[k]]
    /\ UNCHANGED <<state, resultSequence, mirror, changedTiles, reading, staleRecords,
                   answer, states, results>>

SendNext ==
    /\ turn = "send" /\ Earned + BatchSize > 0
    /\ Assemble
    /\ requests' = Append(requests,
            DataRequest(stateSequence, resultSequence, releases, Batch))
    /\ awaiting' = TRUE /\ waited' = 0
    /\ requestThrough' = IF BatchSize > 0 THEN actionSequence + BatchSize ELSE 0
    /\ turn' = "idle"

\* The transport refuses the request and the exception leaves Advance.
SendRaises ==
    /\ turn = "send" /\ Earned + BatchSize > 0
    /\ Assemble
    /\ turn' = "raised"
    /\ UNCHANGED <<requests, awaiting, waited, requestThrough>>

NothingToSend ==
    /\ turn = "send" /\ Earned + BatchSize = 0
    /\ turn' = "idle"
    /\ UNCHANGED <<state, asking, reading, drawing, acknowledging, awaiting, waited,
                   staleRecords, channels>>
-----------------------------------------------------------------------------
\* Close, called by the link when it lets go of the session: the host detaches,
\* an exception left Advance, or the session ended.  The link drops the session
\* whether or not the farewell can be sent.

Close ==
    /\ turn \in {"idle", "raised"}
    /\ turn' = "dropped"
    /\ \/ /\ state = "CLOSED"
          /\ UNCHANGED <<state, queued, sent, awaiting, requests>>
       \/ /\ state # "CLOSED"
          /\ requests' = Append(requests, CloseRequest)
          /\ End
       \/ /\ state # "CLOSED"     \* the transport refuses; the link swallows it
          /\ UNCHANGED <<state, queued, sent, awaiting, requests>>
    /\ UNCHANGED <<actionSequence, requestThrough, reading, drawing, acknowledging, waited,
                   staleRecords, answer, states, results>>

\* The clock, as far as the host looks at it: it stops one step past both patiences.
TimePasses ==
    /\ awaiting
    /\ waited <= OpenPatience \/ waited <= ReplyPatience
    /\ waited' = waited + 1
    /\ UNCHANGED <<state, turn, asking, reading, drawing, acknowledging, awaiting,
                   staleRecords, channels>>

Advance ==
    \/ AwaitAnswer \/ GiveUp \/ CollectAnswer
    \/ ReadState \/ StatesRead \/ ReadResult \/ ResultsRead
    \/ SendNext \/ NothingToSend
=============================================================================
