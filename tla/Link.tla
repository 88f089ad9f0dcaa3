-------------------------------- MODULE Link --------------------------------
(***************************************************************************)
(* RealtimePlaneLink (extension/realtime_plane/link.py): what a host holds  *)
(* of the Realtime Plane, a process and a session with it that keeps coming *)
(* back, and the buttons and the timer that use it                          *)
(* (extension/presentation/realtime_plane.py).                              *)
(*                                                                          *)
(* Hosts follow each other here; hosts at work at the same time, and every  *)
(* system call of starting and stopping, are in Process.tla, and a session  *)
(* in detail is in Session.tla: here one is opening or open, and a turn of  *)
(* its Advance may leave it so, open it, end it or raise.  CanvasImage      *)
(* composes the link with what the same timer shows of the canvas; `turn'   *)
(* says whether the timer is in the middle of that.                         *)
(***************************************************************************)
EXTENDS Integers

CONSTANTS
    None,
    Reconnect,      \* RECONNECT_SECONDS, in steps of the clock
    MaxSessions,    \* bound: the greatest identity of a session
    MaxStarts,      \* bound: Realtime Planes started
    MaxDowns        \* bound: how often the host ends

ASSUME LinkAssumption ==
    /\ Reconnect \in Nat \ {0}
    /\ MaxSessions \in Nat /\ MaxStarts \in Nat /\ MaxDowns \in Nat
    /\ None \notin [id : Nat, open : BOOLEAN, with : Nat]

VARIABLES
    up,             \* the add-on is enabled in a running host
    turn,           \* "between" turns of the timer, or "showing" what a turn of the link received
    process,        \* Process: which of the Realtime Planes started it is, 0 for None
    session,        \* Session
    retryIn,        \* how far off _retryAt is
    lastSessionId,  \* _lastSessionId
    wall,           \* the system's wall clock, as far as sessions were opened at different times
    running,        \* the Realtime Plane that runs, or 0
    starts, downs,
    greatest        \* history: the greatest identity that was given

linkVars == <<process, session, retryIn, lastSessionId>>
worldVars == <<wall, running, starts, downs>>
allLinkVars == <<up, turn, linkVars, worldVars, greatest>>

LinkInit ==
    /\ up = FALSE /\ turn = "between"
    /\ process = 0 /\ session = None /\ retryIn = 0 /\ lastSessionId = 0
    /\ wall = 0 /\ running = 0 /\ starts = 0 /\ downs = 0
    /\ greatest = 0

Connected == process # 0 /\ session # None /\ session.open
-----------------------------------------------------------------------------
\* Reattach: the Realtime Plane that runs, found through its state file.
Attached == process' = running /\ retryIn' = 0

\* The add-on is enabled: a new link, which attaches but never starts.
HostStarts ==
    /\ ~up /\ up' = TRUE
    /\ IF running # 0 THEN Attached ELSE UNCHANGED <<process, retryIn>>
    /\ UNCHANGED <<turn, session, lastSessionId, worldVars, greatest>>

\* "Open Canvas", offered only while the link is stopped.
MayOpen == up /\ turn = "between" /\ process = 0
OpenCanvas ==
    /\ MayOpen
    /\ \/ /\ running # 0 /\ Attached
          /\ UNCHANGED <<running, starts>>
       \/ /\ running = 0 /\ starts < MaxStarts
          /\ starts' = starts + 1 /\ running' = starts + 1 /\ process' = starts + 1
          /\ retryIn' = 0
    /\ UNCHANGED <<up, turn, session, lastSessionId, wall, downs, greatest>>

\* _closeSession with a reason: the session is dropped and another is opened later.
Retry == Reconnect
EndSession ==
    /\ session' = None /\ retryIn' = Retry
-----------------------------------------------------------------------------
\* Advance, on a turn of the timer.

\* A fresh identity, larger than any before it even across host restarts.  The clock may
\* stand still between two sessions of a host; starting a host takes longer than the
\* nanoseconds by which _lastSessionId runs ahead of it.
Times == IF lastSessionId = 0 THEN {greatest + 1} ELSE {wall, wall + 1}
SlipIdentity(now) == lastSessionId + 1
Identity(now) == IF now > lastSessionId + 1 THEN now ELSE lastSessionId + 1

Advances ==
    /\ up /\ turn = "between" /\ turn' = "showing"
    /\ UNCHANGED <<up, running, starts, downs>>

NotRunning ==
    /\ Advances /\ process = 0
    /\ UNCHANGED <<linkVars, wall, greatest>>

\* The session of a process that exited is kept for the next process.
SlipAfterExit == session
AfterExit == None
\* An open session is taken as a sign of life.
SlipAlive == process # 0 /\ (process = running \/ Connected)
Alive == process # 0 /\ process = running
SeesExit ==
    /\ Advances /\ process # 0 /\ ~Alive
    /\ process' = 0 /\ session' = AfterExit
    /\ UNCHANGED <<retryIn, lastSessionId, wall, greatest>>

\* The time to retry is on another clock than the one it is compared with.
SlipDue == retryIn < 0
Due == retryIn = 0
WaitsToRetry ==
    /\ Advances /\ Alive /\ session = None /\ ~Due
    /\ UNCHANGED <<linkVars, wall, greatest>>

\* _connect; the transport may refuse.
Connect ==
    /\ Advances /\ Alive /\ session = None /\ Due
    /\ \E now \in Times : wall' = now /\ lastSessionId' = Identity(now)
    /\ lastSessionId' <= MaxSessions
    /\ \/ /\ session' = [id |-> lastSessionId', open |-> FALSE, with |-> running]
          /\ UNCHANGED retryIn
       \/ EndSession
    /\ greatest' = IF lastSessionId' > greatest THEN lastSessionId' ELSE greatest
    /\ UNCHANGED process

\* Session.Advance: nothing that shows here, or the session opens.
SessionGoesOn ==
    /\ Advances /\ Alive /\ session # None
    /\ UNCHANGED <<linkVars, wall, greatest>>
SessionOpens ==
    /\ Advances /\ Alive /\ session # None /\ ~session.open
    /\ session' = [session EXCEPT !.open = TRUE]
    /\ UNCHANGED <<process, retryIn, lastSessionId, wall, greatest>>
\* It raised, or the session is closed now.
SessionEnds ==
    /\ Advances /\ Alive /\ session # None
    /\ EndSession
    /\ UNCHANGED <<process, lastSessionId, wall, greatest>>

LinkAdvance ==
    NotRunning \/ SeesExit \/ WaitsToRetry \/ Connect \/ SessionGoesOn \/ SessionOpens \/ SessionEnds
-----------------------------------------------------------------------------
\* "Stop Canvas": close the session, let go, and end the process; or Stop raises when the link has
\* let go already, and the process goes on.
StopCanvas ==
    /\ up /\ turn = "between" /\ process # 0
    /\ process' = 0 /\ session' = None
    /\ running' \in {running, IF running = process THEN 0 ELSE running}
    /\ UNCHANGED <<up, turn, retryIn, lastSessionId, wall, starts, downs, greatest>>

\* The add-on is disabled, or the host quits or crashes: the link is gone with it, and
\* the Realtime Plane goes on.
HostEnds ==
    /\ up /\ turn = "between" /\ downs < MaxDowns
    /\ up' = FALSE /\ downs' = downs + 1
    /\ process' = 0 /\ session' = None /\ retryIn' = 0 /\ lastSessionId' = 0
    /\ UNCHANGED <<turn, wall, running, starts, greatest>>

PlaneExits ==
    /\ running # 0 /\ running' = 0
    /\ UNCHANGED <<up, turn, linkVars, wall, starts, downs, greatest>>

ClockAdvances ==
    /\ retryIn > 0 /\ retryIn' = retryIn - 1
    /\ UNCHANGED <<up, turn, process, session, lastSessionId, worldVars, greatest>>

Buttons == OpenCanvas \/ StopCanvas
Surroundings == HostStarts \/ HostEnds \/ PlaneExits \/ ClockAdvances
-----------------------------------------------------------------------------
LinkTypeOK ==
    /\ up \in BOOLEAN /\ turn \in {"between", "showing"}
    /\ process \in 0..MaxStarts /\ running \in 0..MaxStarts /\ starts \in 0..MaxStarts
    /\ session \in [id : 1..MaxSessions, open : BOOLEAN, with : 1..MaxStarts] \cup {None}
    /\ retryIn \in 0..Reconnect
    /\ lastSessionId \in 0..MaxSessions /\ wall \in 0..MaxSessions
    /\ greatest \in 0..MaxSessions /\ downs \in 0..MaxDowns

\* A session is one with the process the link holds (link.py:120-128): never kept over
\* that process's exit for the next one, so what a person is told is connected is.
SessionIsWithTheProcess == session # None => session.with = process

\* "A fresh identity each time, larger than any before it even across host restarts"
\* (link.py:172-173), as long as the wall clock is never set back.
IdentitiesGrow == [][session' # None /\ (session = None \/ session.id # session'.id)
                        => session'.id > greatest]_allLinkVars

\* The link recovers on its own (link.py:8-9): one whose process runs is connected at last,
\* unless the bound on identities is used up.
ComesBack ==
    (up /\ process # 0) ~> (Connected \/ ~up \/ process = 0 \/ greatest = MaxSessions)

\* "When the process exits, the link says so" (link.py:10), whatever it was doing.
ExitIsShown == (up /\ process # running) ~> (process = 0 \/ process = running)
=============================================================================
