--------------------------- MODULE SessionExchange ---------------------------
(***************************************************************************)
(* A session and the Realtime Plane it talks to.  The Realtime Plane is     *)
(* another program; it is modelled from what the host's code, comments and  *)
(* tests rely on: it serves one session at a time, acknowledges the actions *)
(* it accepts, applies them in their order and possibly much later (a       *)
(* stroke keeps the tool it started with), publishes its tool state and its *)
(* tiles within the windows of their streams, and paints only into result   *)
(* regions the host does not hold.                                          *)
(***************************************************************************)
EXTENDS Session

CONSTANTS
    StateWindow,    \* settings.ToolStates.WindowRecords
    ResultWindow,   \* settings.TileResults.WindowRecords, and the result regions
    WrongAnswers,   \* answers, as frames, that break the protocol
    SpoilsRecords,  \* records may be skipped, unreadable or past their message
    MaxAsked,       \* bound: calls of Request
    MaxDrawn,       \* bound: tile results of this session
    MaxLate         \* bound: records of the replaced session

Frame == [kind : {"ACCEPT", "REJECT", "CLOSE", "ACK", "OTHER"}, through : Nat]

ASSUME ExchangeAssumption ==
    /\ WrongAnswers \subseteq Seq(Frame)
    /\ StateWindow \in Nat \ {0} /\ ResultWindow \in Nat \ {0}
    /\ SpoilsRecords \in BOOLEAN
    /\ MaxAsked \in Nat /\ MaxDrawn \in Nat /\ MaxLate \in Nat

VARIABLES
    serving,        \* the session the Realtime Plane serves: the "replaced" one, this "own" one, or it is "over"
    accepted,       \* the last action accepted
    waiting,        \* actions accepted and not applied yet
    inEffect,       \* the tool state
    published,      \* the tool states published to this session
    stateThrough, resultThrough,  \* the last records the host acknowledged
    drawn,          \* the tile of each result published to this session
    held,           \* the result regions the host was given and has not released
    asked,          \* history: the latest value asked of each setting
    counts          \* how often the bounded things happened

planeVars == <<serving, accepted, waiting, inEffect, published, stateThrough, resultThrough, drawn, held>>
allVars == <<vars, planeVars, asked, counts>>

Regions == 1..ResultWindow
Applied == accepted - Len(waiting)
LastApplied == IF published = <<>> THEN 0 ELSE published[Len(published)].applied

ExchangeInit ==
    /\ Init
    /\ serving = "replaced" /\ accepted = 0 /\ waiting = <<>>
    /\ inEffect \in [Settings -> Values]
    /\ published = <<>> /\ stateThrough = 0
    /\ drawn = <<>> /\ resultThrough = 0 /\ held = {}
    /\ asked = [k \in Settings |-> None]
    /\ counts = [asked |-> 0, late |-> 0]
-----------------------------------------------------------------------------
\* The host, with what the history remembers of it.
Ask(k, v) ==
    /\ counts.asked < MaxAsked
    /\ Request(k, v)
    /\ asked' = [asked EXCEPT ![k] = v]
    /\ counts' = [counts EXCEPT !.asked = @ + 1]
    /\ UNCHANGED planeVars

HostAdvance == Advance /\ UNCHANGED <<planeVars, asked, counts>>
HostFails == (AnswerRaises \/ SendRaises) /\ UNCHANGED <<planeVars, asked, counts>>
HostClose == Close /\ UNCHANGED <<planeVars, asked, counts>>
Clock == TimePasses /\ UNCHANGED <<planeVars, asked, counts>>
-----------------------------------------------------------------------------
\* The Realtime Plane takes a request and answers it.

TakeOpen ==
    /\ requests # <<>> /\ Head(requests) = OpenRequest
    /\ requests' = Tail(requests)
    /\ \/ serving' = "own" /\ answer' = Answer(<<[kind |-> "ACCEPT", through |-> 0]>>)
       \/ serving' = "replaced" /\ answer' = Answer(<<[kind |-> "REJECT", through |-> 0]>>)
    /\ UNCHANGED <<hostVars, states, results, accepted, waiting, inEffect, published,
                   stateThrough, resultThrough, drawn, held, asked, counts>>

TakeData ==
    /\ requests # <<>> /\ Head(requests).kind = "data" /\ serving = "own"
    /\ LET request == Head(requests)
           n == Len(request.actions) IN
       /\ stateThrough' = request.stateThrough
       /\ resultThrough' = request.resultThrough
       /\ held' = held \ {request.regions[i] : i \in DOMAIN request.regions}
       /\ waiting' = waiting \o request.actions
       /\ accepted' = accepted + n
       /\ answer' = Answer(IF n = 0 THEN <<>>
                           ELSE <<[kind |-> "ACK", through |-> request.actions[n].sequence]>>)
    /\ requests' = Tail(requests)
    /\ UNCHANGED <<hostVars, states, results, serving, inEffect, published, drawn, asked, counts>>

\* It closes the session instead, or hears the host's farewell, or answers a
\* request that came after either.
TakeAndClose ==
    /\ requests # <<>> /\ Head(requests).kind \in {"data", "close"}
    /\ requests' = Tail(requests)
    /\ serving' = IF serving = "own" THEN "over" ELSE serving
    /\ answer' = Answer(<<[kind |-> "CLOSE", through |-> 0]>>)
    /\ UNCHANGED <<hostVars, states, results, accepted, waiting, inEffect, published,
                   stateThrough, resultThrough, drawn, held, asked, counts>>

\* It applies the oldest action it accepted, between two strokes.
Apply ==
    /\ serving = "own" /\ waiting # <<>>
    /\ inEffect' = [inEffect EXCEPT ![Head(waiting).setting] = Head(waiting).value]
    /\ waiting' = Tail(waiting)
    /\ UNCHANGED <<vars, serving, accepted, published, stateThrough, resultThrough, drawn, held,
                   asked, counts>>

\* It publishes its tool state: the first, and one after it applied actions.
PublishState ==
    /\ serving = "own"
    /\ published = <<>> \/ Applied > LastApplied
    /\ Len(published) - stateThrough < StateWindow
    /\ published' = Append(published, [applied |-> Applied, shows |-> inEffect])
    /\ states' = Append(states,
            [own |-> TRUE, readable |-> TRUE, sequence |-> Len(published) + 1,
             revision |-> Len(published) + 1, applied |-> Applied, shows |-> inEffect])
    /\ UNCHANGED <<hostVars, requests, answer, results, serving, accepted, waiting, inEffect,
                   stateThrough, resultThrough, drawn, held, asked, counts>>

\* It draws a tile into a region the host does not hold.
PublishResult(t, r) ==
    /\ serving = "own" /\ Len(drawn) < MaxDrawn
    /\ Len(drawn) - resultThrough < ResultWindow /\ r \notin held
    /\ drawn' = Append(drawn, t)
    /\ held' = held \cup {r}
    /\ results' = Append(results,
            [own |-> TRUE, readable |-> TRUE, whole |-> TRUE, sequence |-> Len(drawn) + 1,
             revision |-> Len(drawn) + 1, tile |-> t, region |-> r])
    /\ UNCHANGED <<hostVars, requests, answer, states, serving, accepted, waiting, inEffect,
                   published, stateThrough, resultThrough, asked, counts>>

\* Until it takes the open request it still serves the session this one replaces.
PublishLate(t, v) ==
    /\ serving = "replaced" /\ counts.late < MaxLate
    /\ \/ /\ states' = Append(states,
                [own |-> FALSE, readable |-> TRUE, sequence |-> 1, revision |-> 9,
                 applied |-> 9, shows |-> [k \in Settings |-> v]])
          /\ UNCHANGED results
       \/ /\ results' = Append(results,
                [own |-> FALSE, readable |-> TRUE, whole |-> TRUE, sequence |-> 1,
                 revision |-> 9, tile |-> t, region |-> 1])
          /\ UNCHANGED states
    /\ counts' = [counts EXCEPT !.late = @ + 1]
    /\ UNCHANGED <<hostVars, requests, answer, planeVars, asked>>
-----------------------------------------------------------------------------
\* A Realtime Plane that breaks the protocol.

AnswerWrongly ==
    /\ requests # <<>>
    /\ requests' = Tail(requests)
    /\ \E frames \in WrongAnswers : answer' = Answer(frames)
    /\ UNCHANGED <<hostVars, states, results, planeVars, asked, counts>>

SpoilRecord ==
    /\ SpoilsRecords
    /\ \/ /\ states # <<>> /\ states' = Tail(states) /\ UNCHANGED results
       \/ /\ states # <<>> /\ states[1].readable
          /\ states' = [states EXCEPT ![1].readable = FALSE] /\ UNCHANGED results
       \/ /\ results # <<>> /\ results' = Tail(results) /\ UNCHANGED states
       \/ /\ results # <<>> /\ results[1].readable
          /\ results' = [results EXCEPT ![1].readable = FALSE] /\ UNCHANGED states
       \/ /\ results # <<>> /\ results[1].whole
          /\ results' = [results EXCEPT ![1].whole = FALSE] /\ UNCHANGED states
    /\ UNCHANGED <<hostVars, requests, answer, planeVars, asked, counts>>
-----------------------------------------------------------------------------
PlaneAnswers == TakeOpen \/ TakeData \/ TakeAndClose
PlaneWorks == Apply \/ PublishState

ExchangeNext ==
    \/ \E k \in Settings, v \in Values : Ask(k, v)
    \/ HostAdvance \/ HostFails \/ HostClose \/ Clock
    \/ PlaneAnswers \/ PlaneWorks
    \/ \E t \in Tiles, r \in Regions : PublishResult(t, r)
    \/ \E t \in Tiles, v \in Values : PublishLate(t, v)
    \/ AnswerWrongly \/ SpoilRecord

ExchangeSpec == ExchangeInit /\ [][ExchangeNext]_allVars

\* The host's timer runs, time passes, and the link drops a session an exception left
\* before the timer runs again.
LinkDrops == turn = "raised" /\ HostClose
HostFairness == WF_allVars(HostAdvance) /\ WF_allVars(Clock) /\ WF_allVars(LinkDrops)
\* A Realtime Plane that keeps running works through what it was given.
PlaneFairness == WF_allVars(PlaneAnswers) /\ WF_allVars(Apply) /\ WF_allVars(PublishState)

HostFairSpec == ExchangeSpec /\ HostFairness
FairSpec == ExchangeSpec /\ HostFairness /\ PlaneFairness
-----------------------------------------------------------------------------
Attached == state # "CLOSED" /\ turn \notin {"raised", "dropped"}

Action == [sequence : Nat, setting : Settings, value : Values, revision : Nat]
Data == [kind : {"data"}, stateThrough : Nat, resultThrough : Nat,
         regions : Seq(Regions), actions : Seq(Action)]
StateRecord == [own : BOOLEAN, readable : BOOLEAN, sequence : Nat, revision : Nat,
                applied : Nat, shows : [Settings -> Values]]
ResultRecord == [own : BOOLEAN, readable : BOOLEAN, whole : BOOLEAN, sequence : Nat,
                 revision : Nat, tile : Tiles, region : Regions]

HostTypeOK ==
    /\ state \in {"OPENING", "OPEN", "CLOSED"}
    /\ turn \in {"idle", "states", "results", "send", "raised", "dropped"}
    /\ queued \in Seq([setting : Settings, value : Values])
    /\ sent \in [Settings -> [sequence : Nat, value : Values \cup {None}]]
    /\ actionSequence \in Nat /\ requestThrough \in Nat
    /\ stateSequence \in Nat /\ stateAcknowledged \in Nat
    /\ resultSequence \in Nat /\ resultAcknowledged \in Nat
    /\ releases \in Seq(Regions)
    /\ awaiting \in BOOLEAN /\ waited \in Nat
    /\ effective \in [Settings -> Values \cup {None}] /\ toolRevision \in Nat
    /\ mirror \in [Tiles -> Nat] /\ changedTiles \in SUBSET Tiles
    /\ staleRecords \in Nat

ChannelTypeOK ==
    /\ requests \in Seq({OpenRequest, CloseRequest} \cup Data)
    /\ answer \in [arrived : BOOLEAN, frames : Seq(Frame)]
    /\ states \in Seq(StateRecord) /\ results \in Seq(ResultRecord)

PlaneTypeOK ==
    /\ serving \in {"replaced", "own", "over"}
    /\ accepted \in Nat /\ waiting \in Seq(Action)
    /\ inEffect \in [Settings -> Values]
    /\ published \in Seq([applied : Nat, shows : [Settings -> Values]])
    /\ stateThrough \in Nat /\ resultThrough \in Nat
    /\ drawn \in Seq(Tiles) /\ held \in SUBSET Regions

\* Every variable has the shape its code gives it: sequences count up from zero, an
\* entry that waits or travels names a setting and a value a payload carries.
TypeOK ==
    /\ HostTypeOK /\ ChannelTypeOK /\ PlaneTypeOK
    /\ asked \in [Settings -> Values \cup {None}]
    /\ counts \in [asked : Nat, late : Nat]

\* While the session lasts, nothing a person asked for is forgotten or shown wrongly
\* (session.py:8-11, 111-117): the value asked last is either the pending one or the
\* effective one, through replacing, batching, late reports and records of a
\* replaced session.
LatestAskIsShown ==
    Attached => \A k \in Settings : asked[k] # None =>
        IF Pending(k) # None THEN Pending(k) = asked[k] ELSE effective[k] = asked[k]

\* What the host shows as effective is exactly a tool state the Realtime Plane
\* published to this session, the one it acknowledges (session.py:199-214); a record
\* of a replaced session never gets in.  An exception in the middle of a record ends
\* the session.
EffectiveIsReported ==
    (stateSequence > 0 /\ turn \notin {"raised", "dropped"}) =>
        /\ stateSequence <= Len(published)
        /\ effective = published[stateSequence].shows
        /\ toolRevision = stateSequence

\* The mirror holds, tile by tile, the newest drawing among the results read, and
\* nothing of a replaced session (session.py:219-237).
MirrorIsDrawn ==
    turn \notin {"raised", "dropped"} => \A t \in Tiles :
        LET seen == {n \in 1..resultSequence : drawn[n] = t} IN
        /\ resultSequence <= Len(drawn)
        /\ IF seen = {} THEN mirror[t] = 0
           ELSE mirror[t] \in seen /\ \A n \in seen : n <= mirror[t]

\* Actions reach the Realtime Plane each once and in the order of their sequence,
\* which is what it acknowledges them by (session.py:253-269).
ActionsArriveInOrder ==
    serving = "own" =>
        /\ \A i \in DOMAIN waiting : waiting[i].sequence = Applied + i
        /\ \A n \in DOMAIN requests : requests[n].kind = "data" =>
             \A i \in DOMAIN requests[n].actions : requests[n].actions[i].sequence = accepted + i

\* Every result region the Realtime Plane gave out is accounted for exactly once: in
\* a result on its way, read and to be released, or released in a request
\* (session.py:236, 250-252).  A region released twice could be drawn over while the
\* host still copies it; one never released is lost to the Realtime Plane.
RegionsAreAccountedFor ==
    (serving = "own" /\ Attached) =>
        LET coming == {results[i].region : i \in {j \in DOMAIN results : results[j].own}}
            read == {releases[i] : i \in DOMAIN releases}
            data == {n \in DOMAIN requests : requests[n].kind = "data"}
            going == UNION {{requests[n].regions[i] : i \in DOMAIN requests[n].regions} : n \in data}
        IN  /\ held = coming \cup read \cup going
            /\ coming \cap read = {} /\ coming \cap going = {} /\ read \cap going = {}
            /\ Cardinality(read) = Len(releases)

\* The limits the ports are opened with hold (channels.py:57-60, 75-82): no more active
\* requests than the actions window, no more releases or actions in a request than
\* their windows, which is what a control frame is long enough for, and no more
\* records of this session on their way to the host than their stream's window.  The buffer
\* of a stream holds what the replaced session left there as well: nothing keeps the two
\* together within it, until the host has read the first record of this session.
PortsAreWithinLimits ==
    /\ Len(requests) + (IF answer.arrived THEN 1 ELSE 0) <= ActionWindow
    /\ \A n \in DOMAIN requests : requests[n].kind = "data" =>
         /\ Len(requests[n].regions) <= ResultWindow
         /\ Len(requests[n].actions) <= ActionWindow
    /\ Cardinality({i \in DOMAIN states : states[i].own}) <= StateWindow
    /\ Cardinality({i \in DOMAIN results : results[i].own}) <= ResultWindow
    /\ stateSequence > 0 => Len(states) <= StateWindow
    /\ resultSequence > 0 => Len(results) <= ResultWindow

\* A session that ended stays ended (session.py:16-18): nothing is asked or sent in it
\* any more and nothing is pending.
ClosedForGood ==
    [][state = "CLOSED" =>
          /\ state' = "CLOSED"
          /\ Len(requests') <= Len(requests)
          /\ \A k \in Settings : Pending(k)' = None]_allVars

\* A setting asked for is settled at last (session.py:22-25): it takes effect, or the
\* session is over and the link opens another.
AskedIsSettled ==
    \A k \in Settings : (Pending(k) # None) ~> (Pending(k) = None \/ turn = "dropped")

\* The host never starves the Realtime Plane (session.py:4-6): a full window of tool
\* states, or of results, opens again.
Over == state = "CLOSED" \/ turn \in {"raised", "dropped"} \/ serving # "own"
WindowsReopen ==
    /\ (Len(published) - stateThrough >= StateWindow)
         ~> (Len(published) - stateThrough < StateWindow \/ Over)
    /\ (Len(drawn) - resultThrough >= ResultWindow)
         ~> (Len(drawn) - resultThrough < ResultWindow \/ Over)

\* An open is decided (session.py:42-44): the session opens, or ends so that the link
\* tries again with another.
OpeningIsDecided == (state = "OPENING") ~> (state # "OPENING" \/ turn = "dropped")

\* The session keeps the promise it makes about settings.
SessionOpen == state # "CLOSED" /\ turn # "dropped"
Promise == INSTANCE SettingExchange WITH
    open <- SessionOpen,
    pending <- [k \in Settings |-> IF SessionOpen THEN Pending(k) ELSE None]
KeepsPromise == Promise!Spec
=============================================================================
