----------------------------- MODULE CanvasProofs -----------------------------
(***************************************************************************)
(* What holds of the link and of the canvas image for every number of        *)
(* sessions, processes and losses, and every set of tiles and sizes.         *)
(*                                                                          *)
(* The link's part is proved first, of its own actions; a step of            *)
(* CanvasImage is one of those or leaves the link alone.                     *)
(***************************************************************************)
EXTENDS CanvasImage, TLAPS

\* A link without a process has no session, one that is gone has no process, and the last
\* identity of a link is the greatest there ever was.
LinkInv ==
    /\ LinkTypeOK
    /\ SessionIsWithTheProcess
    /\ process = 0 => session = None
    /\ ~up => process = 0
    /\ lastSessionId \in {0, greatest}

\* A step of the link, whatever is shown of it.
LinkStep ==
    \/ LinkAdvance \/ Buttons \/ Surroundings
    \/ turn' = "between" /\ UNCHANGED <<up, linkVars, worldVars, greatest>>

Grows == session' # None /\ (session = None \/ session.id # session'.id) => session'.id > greatest

USE LinkAssumption, CanvasAssumption
-----------------------------------------------------------------------------
\* A session's identity is beyond every identity given before.
LEMMA ConnectKeeps ==
    ASSUME LinkInv, Connect
    PROVE  LinkInv' /\ Grows
<1> USE DEF LinkInv, LinkTypeOK
<1>1. PICK now \in Times : wall' = now /\ lastSessionId' = Identity(now)
  BY DEF Connect
<1>2. now \in Nat /\ now <= lastSessionId' /\ lastSessionId' > greatest /\ lastSessionId' \in Nat
  BY <1>1 DEF Times, Identity
<1>3. lastSessionId' <= MaxSessions /\ greatest' = lastSessionId'
  BY <1>2 DEF Connect
<1>4. running \in 1..MaxStarts /\ process = running /\ process' = running
  BY DEF Connect, Alive
<1>5. UNCHANGED <<up, running, starts, downs>> /\ turn' = "showing" /\ up
  BY DEF Connect, Advances
<1>6. CASE session' = [id |-> lastSessionId', open |-> FALSE, with |-> running] /\ UNCHANGED retryIn
  <2>1. session' \in [id : 1..MaxSessions, open : BOOLEAN, with : 1..MaxStarts]
    BY <1>2, <1>3, <1>4, <1>6
  <2> QED BY <1>1, <1>2, <1>3, <1>4, <1>5, <1>6, <2>1 DEF SessionIsWithTheProcess, Grows
<1>7. CASE EndSession
  BY <1>1, <1>2, <1>3, <1>4, <1>5, <1>7 DEF EndSession, Retry, SessionIsWithTheProcess, Grows
<1> QED BY <1>6, <1>7 DEF Connect

\* The rest of a turn of the link.
LEMMA AdvanceKeeps ==
    ASSUME LinkInv, LinkAdvance
    PROVE  LinkInv' /\ Grows
<1> USE DEF LinkInv, LinkTypeOK, SessionIsWithTheProcess, Grows, Advances, linkVars
<1>1. CASE NotRunning
  BY <1>1 DEF NotRunning
<1>2. CASE SeesExit
  BY <1>2 DEF SeesExit, AfterExit
<1>3. CASE WaitsToRetry
  BY <1>3 DEF WaitsToRetry
<1>4. CASE SessionGoesOn
  BY <1>4 DEF SessionGoesOn
<1>5. CASE SessionOpens
  BY <1>5 DEF SessionOpens
<1>6. CASE SessionEnds
  BY <1>6 DEF SessionEnds, EndSession, Retry, Alive
<1> QED BY <1>1, <1>2, <1>3, <1>4, <1>5, <1>6, ConnectKeeps DEF LinkAdvance

\* The buttons, and what happens around the link.
LEMMA SurroundingsKeep ==
    ASSUME LinkInv, Buttons \/ Surroundings
    PROVE  LinkInv' /\ Grows
<1> USE DEF LinkInv, LinkTypeOK, SessionIsWithTheProcess, Grows, linkVars, worldVars
<1>1. CASE OpenCanvas
  BY <1>1 DEF OpenCanvas, MayOpen, Attached
<1>2. CASE StopCanvas
  BY <1>2 DEF StopCanvas
<1>3. CASE HostStarts
  BY <1>3 DEF HostStarts, Attached
<1>4. CASE HostEnds
  <2>1. downs' \in 0..MaxDowns
    BY <1>4 DEF HostEnds
  <2>2. /\ up' \in BOOLEAN /\ process' = 0 /\ session' = None /\ retryIn' = 0 /\ lastSessionId' = 0
        /\ UNCHANGED <<turn, wall, running, starts, greatest>>
    BY <1>4, Zenon DEF HostEnds
  <2> QED BY <2>1, <2>2
<1>5. CASE PlaneExits
  BY <1>5 DEF PlaneExits
<1>6. CASE ClockAdvances
  BY <1>6 DEF ClockAdvances
<1> QED BY <1>1, <1>2, <1>3, <1>4, <1>5, <1>6 DEF Buttons, Surroundings

\* Every step of the link keeps its invariant and gives out only new identities.
LEMMA LinkStepKeeps ==
    ASSUME LinkInv, LinkStep
    PROVE  LinkInv' /\ Grows
<1>1. CASE turn' = "between" /\ UNCHANGED <<up, linkVars, worldVars, greatest>>
  BY <1>1 DEF LinkInv, LinkTypeOK, SessionIsWithTheProcess, Grows, linkVars, worldVars
<1> QED BY <1>1, AdvanceKeeps, SurroundingsKeep DEF LinkStep

\* Every step of the image's timer and of its surroundings is a step of the link.
LEMMA NextIsALinkStep ==
    ASSUME Next
    PROVE  LinkStep \/ UNCHANGED allLinkVars
<1>1. CASE Turn
  BY <1>1 DEF Turn, LinkStep
<1>2. CASE Project
  BY <1>2 DEF Project, ProjectsNothing, ProjectsUnchanged, Shows, Fails, Takes, Projects, LinkStep
<1>3. CASE Elsewhere /\ UNCHANGED canvasVars
  BY <1>3 DEF Elsewhere, LinkStep, Buttons, Surroundings
<1>4. CASE HostGoes \/ Stops
  BY <1>4 DEF HostGoes, Stops, LinkStep, Buttons, Surroundings
<1>5. CASE UseCanvas \/ ImageDeleted \/ FileOpened
  BY <1>5 DEF UseCanvas, ImageDeleted, FileOpened
<1> QED BY <1>1, <1>2, <1>3, <1>4, <1>5 DEF Next
-----------------------------------------------------------------------------
\* The invariant of the whole.
IInv ==
    /\ LinkInv
    /\ TypeOK
    /\ NodesShowTheImage
    /\ ShownIsInThePixels

\* The addon registers with nothing followed and nothing shown.
LEMMA InitIInv == Init => IInv
<1> SUFFICES ASSUME Init PROVE IInv
  OBVIOUS
<1>1. LinkInv
  <2>1. /\ up \in BOOLEAN /\ turn = "between" /\ session = None
        /\ process = 0 /\ retryIn = 0 /\ lastSessionId = 0 /\ wall = 0 /\ running = 0
        /\ starts = 0 /\ downs = 0 /\ greatest = 0
    BY Zenon DEF Init, LinkInit
  <2> QED BY <2>1 DEF LinkInv, LinkTypeOK, SessionIsWithTheProcess
<1>2. /\ NoMirror \in [size : Sizes \cup {Nothing}, tiles : [Tiles -> 0..MaxRevision]]
      /\ NoProjection \in Projections
      /\ \A tile \in Tiles : NoProjection.shown[tile] = 0
  BY DEF NoMirror, NoProjection, NoTiles, Blank, Nothing, Projections, Pixels, LinkTypeOK
<1>3. TypeOK /\ NodesShowTheImage /\ ShownIsInThePixels
  <2>1. /\ mirror = NoMirror /\ changed = {} /\ followed = 0 /\ projection = NoProjection
        /\ image = None /\ node = "none" /\ error \in BOOLEAN /\ losses = 0 /\ failures = 0
    BY Zenon DEF Init, Nothing
  <2> QED BY <1>1, <1>2, <2>1 DEF LinkInv, TypeOK, NodesShowTheImage, ShownIsInThePixels
<1> QED BY <1>1, <1>3 DEF IInv

\* The copy of the canvas keeps its type.
LEMMA ReceivesType ==
    ASSUME TypeOK, ReceivesSome
    PROVE  /\ mirror' \in [size : Sizes \cup {Nothing}, tiles : [Tiles -> 0..MaxRevision]]
           /\ changed' \subseteq Tiles
<1>1. PICK tiles \in SUBSET Tiles, size \in Sizes :
        (\A tile \in tiles : mirror.tiles[tile] < MaxRevision) /\ Receives(size, tiles)
  BY DEF ReceivesSome
<1>2. \A tile \in Tiles : mirror.tiles[tile] \in 0..MaxRevision
  BY DEF TypeOK
<1>3. \A tile \in tiles : mirror.tiles[tile] + 1 \in 0..MaxRevision
  BY <1>1, <1>2
<1>4. [tile \in Tiles |-> IF tile \in tiles THEN mirror.tiles[tile] + 1
         ELSE IF size = mirror.size THEN mirror.tiles[tile] ELSE Nothing] \in [Tiles -> 0..MaxRevision]
  BY <1>2, <1>3 DEF Nothing
<1> QED BY <1>1, <1>4 DEF Receives, TypeOK

\* What the projection shows of each tile is among its pixels, with session the one it is of.
Consistent(shown, of) ==
    \A tile \in Tiles : shown.shown[tile] # 0 => shown.pixels[tile] = <<of, shown.shown[tile]>>

\* The projection that follows the session is one of that session.
LEMMA FollowingIsOfTheSession ==
    ASSUME TypeOK, ShownIsInThePixels
    PROVE  Following \in Projections /\ Consistent(Following, session.id)
<1>1. NoProjection \in Projections /\ Consistent(NoProjection, session.id)
  BY DEF NoProjection, Projections, Pixels, NoTiles, Blank, Nothing, Consistent
<1>2. projection \in Projections /\ Consistent(projection, followed)
  BY DEF TypeOK, ShownIsInThePixels, Consistent
<1> QED BY <1>1, <1>2 DEF Following

\* Starting again, and writing the tiles, keep it so, at the size of the canvas.
LEMMA BegunIsOfTheSession ==
    ASSUME TypeOK, NEW shown \in Projections, Consistent(shown, session.id)
    PROVE  /\ Begun(shown) \in Projections /\ Consistent(Begun(shown), session.id)
           /\ Begun(shown).size = mirror.size
<1>1. NoProjection \in Projections
  BY DEF NoProjection, Projections, Pixels, NoTiles, Blank, Nothing
<1>2. CASE Recreated(shown)
  <2>1. Begun(shown) = [size |-> mirror.size, pixels |-> Blank, shown |-> NoTiles]
    BY <1>2 DEF Begun, NoProjection
  <2> QED BY <2>1 DEF TypeOK, Projections, Pixels, NoTiles, Blank, Nothing, Consistent
<1>3. CASE ~Recreated(shown)
  BY <1>3 DEF Begun, Recreated
<1> QED BY <1>2, <1>3

\* Writing the stale tiles makes them shown and theirs, and leaves the others of the session.
LEMMA UpdatedIsOfTheSession ==
    ASSUME TypeOK, NEW shown \in Projections, Consistent(shown, session.id),
           session.id \in 1..MaxSessions
    PROVE  /\ Updated(shown) \in Projections /\ Consistent(Updated(shown), session.id)
           /\ Updated(shown).size = mirror.size
<1> DEFINE begun == Begun(shown)
           pixels == [tile \in Tiles |->
               IF tile \in Written(shown) THEN <<session.id, mirror.tiles[tile]>> ELSE begun.pixels[tile]]
           revisions == [tile \in Tiles |->
               IF tile \in Written(shown) THEN mirror.tiles[tile] ELSE begun.shown[tile]]
<1>1. begun \in Projections /\ Consistent(begun, session.id) /\ begun.size = mirror.size
  BY BegunIsOfTheSession
<1>2. Updated(shown) = [begun EXCEPT !.pixels = pixels, !.shown = revisions]
  BY <1>1 DEF Updated, Projections
<1>3. \A tile \in Tiles : mirror.tiles[tile] \in 0..MaxRevision
  BY DEF TypeOK
<1> HIDE DEF begun
<1>4. pixels \in Pixels
  BY <1>1, <1>3 DEF Projections, Pixels
<1>5. revisions \in [Tiles -> 0..MaxRevision]
  BY <1>1, <1>3 DEF Projections
<1>6. \A tile \in Tiles : revisions[tile] # 0 => pixels[tile] = <<session.id, revisions[tile]>>
  BY <1>1 DEF Consistent
<1> HIDE DEF pixels, revisions
<1>7. /\ Updated(shown).size = begun.size /\ Updated(shown).pixels = pixels
      /\ Updated(shown).shown = revisions /\ Updated(shown) \in Projections
  BY <1>1, <1>2, <1>4, <1>5 DEF Projections
<1> QED BY <1>1, <1>6, <1>7 DEF Consistent

\* What the timer projects is of the session it follows, and of the canvas' size.
LEMMA ProjectedIsOfTheSession ==
    ASSUME TypeOK, ShownIsInThePixels, session.id \in 1..MaxSessions, mirror.size # Nothing
    PROVE  /\ Projected \in Projections /\ Consistent(Projected, session.id)
           /\ Projected.size \in Sizes /\ Shown \in Images
<1>1. Following \in Projections /\ Consistent(Following, session.id)
  BY FollowingIsOfTheSession
<1>2. /\ Updated(Following) \in Projections /\ Consistent(Updated(Following), session.id)
      /\ Updated(Following).size = mirror.size
  BY <1>1, UpdatedIsOfTheSession
<1>3. Projected \in Projections /\ Consistent(Projected, session.id) /\ Projected.size = mirror.size
  BY <1>1, <1>2 DEF Projected, NeedsUpdate
<1>4. mirror.size \in Sizes
  BY DEF TypeOK
<1> QED BY <1>3, <1>4 DEF Shown, Images, Projections
-----------------------------------------------------------------------------
\* A session that receives or is projected has an identity.
LEMMA SessionHasIdentity ==
    ASSUME LinkInv, Connected
    PROVE  session.id \in 1..MaxSessions
  BY DEF Connected, LinkInv, LinkTypeOK

CanvasInv == TypeOK /\ NodesShowTheImage /\ ShownIsInThePixels

\* The timer's turn of the link leaves the image alone.
LEMMA TurnKeeps ==
    ASSUME IInv, LinkInv', Turn
    PROVE  CanvasInv'
<1> USE DEF IInv
<1>1. /\ mirror' \in [size : Sizes \cup {Nothing}, tiles : [Tiles -> 0..MaxRevision]]
      /\ changed' \subseteq Tiles
  <2>1. NoMirror \in [size : Sizes \cup {Nothing}, tiles : [Tiles -> 0..MaxRevision]]
    BY DEF NoMirror, NoTiles, Nothing
  <2> QED BY <2>1, ReceivesType DEF Turn, copyVars, TypeOK
<1> QED BY <1>1 DEF Turn, shownVars, TypeOK, CanvasInv, LinkInv, NodesShowTheImage, ShownIsInThePixels

\* The timer's turn of the image, whether it is shown, left or refused.
LEMMA ProjectKeeps ==
    ASSUME IInv, LinkInv', Project
    PROVE  CanvasInv'
<1> USE DEF IInv, CanvasInv
<1>0. TypeOK /\ ShownIsInThePixels /\ NodesShowTheImage /\ UNCHANGED <<mirror, losses>> /\ LinkTypeOK'
  BY DEF Project, ProjectsNothing, ProjectsUnchanged, Shows, Fails, Takes, Projects, LinkInv
<1>1. CASE ProjectsNothing
  <2>1. UNCHANGED <<changed, image, node, failures>>
    BY <1>1 DEF ProjectsNothing
  <2>2. CASE Connected
    <3>1. followed' = session.id /\ projection' = Following /\ error' = ErrorBefore
      BY <1>1, <2>2 DEF ProjectsNothing
    <3>2. Following \in Projections /\ Consistent(Following, session.id)
      BY <1>0, FollowingIsOfTheSession
    <3>3. error' \in BOOLEAN
      BY <1>0, <3>1 DEF ErrorBefore, TypeOK
    <3> QED BY <1>0, <2>1, <2>2, <3>1, <3>2, <3>3, SessionHasIdentity
         DEF TypeOK, NodesShowTheImage, ShownIsInThePixels, Consistent
  <2>3. CASE ~Connected
    BY <1>0, <1>1, <2>1, <2>3 DEF ProjectsNothing, TypeOK, NodesShowTheImage, ShownIsInThePixels
  <2> QED BY <2>2, <2>3
<1>2. ASSUME Takes
      PROVE  /\ followed' \in 0..MaxSessions /\ projection' \in Projections /\ changed' \subseteq Tiles
             /\ ShownIsInThePixels' /\ Shown \in Images /\ Projected.size \in Sizes
             /\ Projected.pixels \in Pixels
  <2>1. session.id \in 1..MaxSessions /\ mirror.size # Nothing
    BY <1>2, SessionHasIdentity DEF Takes
  <2>2. /\ Projected \in Projections /\ Consistent(Projected, session.id)
        /\ Projected.size \in Sizes /\ Shown \in Images
    BY <1>0, <2>1, ProjectedIsOfTheSession
  <2>3. followed' = session.id /\ projection' = Projected /\ changed' \subseteq Tiles
    BY <1>0, <1>2 DEF Takes, TypeOK
  <2> QED BY <2>1, <2>2, <2>3 DEF ShownIsInThePixels, Consistent, Projections
<1>3. NodeAfter \in {"none", "shows"} \/ (NodeAfter = node /\ image # None)
  BY <1>0 DEF NodeAfter, Restored, Kept, TypeOK
<1>4. NodeAfter \in {"none", "shows"}
  BY <1>0, <1>3 DEF NodesShowTheImage, TypeOK
<1>5. CASE ProjectsUnchanged
  <2>1. error' \in BOOLEAN /\ UNCHANGED <<image, node, failures>> /\ Takes
    BY <1>0, <1>5 DEF ProjectsUnchanged, ErrorBefore, TypeOK
  <2> QED BY <1>0, <1>2, <2>1 DEF TypeOK, NodesShowTheImage
<1>6. CASE Shows
  BY <1>0, <1>2, <1>4, <1>6 DEF Shows, TypeOK, NodesShowTheImage
<1>7. CASE Fails
  <2>1. Takes /\ error' = TRUE /\ failures' \in 0..MaxFailures
    BY <1>0, <1>7 DEF Fails, TypeOK
  <2>2. image' \in Images \cup {None} /\ node' \in {"none", "shows", "lost"} /\ NodesShowTheImage'
    <3>1. CASE /\ image' = IF Kept THEN image ELSE None
               /\ node' = IF Kept \/ node = "none" THEN node ELSE "lost"
      BY <1>0, <3>1 DEF TypeOK, NodesShowTheImage
    <3>2. CASE /\ image' = [size |-> Projected.size, float |-> TRUE,
                            pixels |-> IF Kept /\ image.size = Projected.size THEN image.pixels ELSE Blank]
               /\ node' = NodeAfter
      <4>1. Blank \in Pixels
        BY DEF Blank, Pixels, Nothing
      <4>2. Kept => image.pixels \in Pixels
        BY <1>0 DEF Kept, TypeOK, Images
      <4>3. image' \in Images
        BY <1>2, <2>1, <3>2, <4>1, <4>2 DEF Images
      <4> QED BY <1>4, <3>2, <4>3 DEF NodesShowTheImage
    <3>3. CASE image' = Shown /\ node' = NodeAfter
      BY <1>2, <1>4, <2>1, <3>3 DEF NodesShowTheImage
    <3> QED BY <1>7, <3>1, <3>2, <3>3 DEF Fails
  <2> QED BY <1>0, <1>2, <2>1, <2>2 DEF TypeOK
<1> QED BY <1>1, <1>5, <1>6, <1>7 DEF Project

\* A projection that was reset shows no tile.
LEMMA NothingIsShown ==
    NoProjection \in Projections /\ \A tile \in Tiles : NoProjection.shown[tile] = 0
  BY DEF NoProjection, Projections, Pixels, NoTiles, Blank, Nothing

\* What persons and files do to the image.
LEMMA ElsewhereKeeps ==
    ASSUME IInv, LinkInv',
           (Elsewhere /\ UNCHANGED canvasVars) \/ HostGoes \/ Stops \/ UseCanvas \/ ImageDeleted \/ FileOpened
    PROVE  CanvasInv'
<1> USE DEF IInv, CanvasInv, LinkInv, TypeOK, NodesShowTheImage
<1>1. CASE Elsewhere /\ UNCHANGED canvasVars
  BY <1>1 DEF canvasVars, copyVars, shownVars, ShownIsInThePixels
<1>2. NoMirror \in [size : Sizes \cup {Nothing}, tiles : [Tiles -> 0..MaxRevision]]
  BY DEF NoMirror, NoTiles, Nothing
<1>3. NoProjection \in Projections
  BY NothingIsShown
<1>4. CASE HostGoes
  <2>1. /\ mirror' = NoMirror /\ changed' = {} /\ projection' = NoProjection
        /\ followed' = 0 /\ error' \in BOOLEAN /\ UNCHANGED <<image, node, losses, failures>>
    BY <1>4, Zenon DEF HostGoes, Nothing
  <2>2. ShownIsInThePixels'
    BY <1>4, NothingIsShown DEF HostGoes, ShownIsInThePixels
  <2> QED BY <1>2, <1>3, <2>1, <2>2
<1>5. CASE Stops
  BY <1>2, <1>5 DEF Stops, shownVars, ShownIsInThePixels
<1>6. CASE UseCanvas \/ ImageDeleted
  BY <1>6 DEF UseCanvas, ImageDeleted, Loses, copyVars, ShownIsInThePixels
<1>7. CASE FileOpened
  <2>1. losses' \in 0..MaxLosses /\ UNCHANGED <<mirror, changed, failures>>
    BY <1>7 DEF FileOpened, Loses, copyVars
  <2>2. image' \in Images \cup {None} /\ node' \in {"none", "shows", "lost"} /\ NodesShowTheImage'
    <3>1. CASE image' = None /\ node' \in {"none", "lost"}
      BY <3>1
    <3>2. ASSUME NEW size \in Sizes, NEW float \in BOOLEAN,
                 image' = [size |-> size, pixels |-> Blank, float |-> float], node' \in {"none", "shows"}
          PROVE  image' \in Images /\ node' \in {"none", "shows"}
      BY <3>2 DEF Images, Pixels, Blank, Nothing
    <3> QED BY <1>7, <3>1, <3>2 DEF FileOpened
  <2>3. /\ followed' \in 0..MaxSessions /\ projection' \in Projections /\ error' \in BOOLEAN
        /\ ShownIsInThePixels'
    <3>1. CASE up
      <4>1. followed' = 0 /\ projection' = NoProjection /\ error' \in BOOLEAN
        BY <1>7, <3>1, Zenon DEF FileOpened, Nothing
      <4> QED BY <1>3, <4>1, NothingIsShown DEF ShownIsInThePixels
    <3>2. CASE ~up
      BY <1>7, <3>2 DEF FileOpened, ShownIsInThePixels
    <3> QED BY <3>1, <3>2
  <2> QED BY <2>1, <2>2, <2>3
<1> QED BY <1>1, <1>4, <1>5, <1>6, <1>7

\* Every step of the link and of the image keeps the whole invariant.
LEMMA NextKeeps == IInv /\ [Next]_vars => IInv'
<1> SUFFICES ASSUME IInv, [Next]_vars PROVE IInv'
  OBVIOUS
<1>1. CASE Next
  <2>1. LinkInv'
    <3>1. CASE UNCHANGED allLinkVars
      BY <3>1 DEF IInv, LinkInv, LinkTypeOK, SessionIsWithTheProcess, allLinkVars, linkVars, worldVars
    <3> QED BY <1>1, <3>1, NextIsALinkStep, LinkStepKeeps DEF IInv
  <2>2. CanvasInv'
    BY <1>1, <2>1, TurnKeeps, ProjectKeeps, ElsewhereKeeps DEF Next
  <2> QED BY <2>1, <2>2 DEF IInv, CanvasInv
<1>2. CASE UNCHANGED vars
  BY <1>2 DEF vars, IInv, LinkInv, LinkTypeOK, SessionIsWithTheProcess, allLinkVars, linkVars, worldVars,
         canvasVars, copyVars, shownVars, TypeOK, NodesShowTheImage, ShownIsInThePixels
<1> QED BY <1>1, <1>2

\* The invariant holds of every behaviour of the link and the image (link.py, canvas_image.py).
THEOREM CanvasInvariant == Spec => []IInv
<1> QED BY InitIInv, NextKeeps, PTL DEF Spec

\* A session is never kept over the exit of its process (link.py:120-128).
THEOREM SessionStaysWithItsProcess == Spec => []SessionIsWithTheProcess
<1>1. IInv => SessionIsWithTheProcess
  BY DEF IInv, LinkInv
<1> QED BY <1>1, CanvasInvariant, PTL

\* A new session's identity is beyond all before it, those of earlier hosts included
\* (link.py:172-174).
THEOREM IdentitiesAlwaysGrow == Spec => IdentitiesGrow
<1>1. ASSUME IInv, [Next]_vars PROVE [Grows]_allLinkVars
  <2>1. CASE Next
    BY <1>1, <2>1, NextIsALinkStep, LinkStepKeeps DEF IInv
  <2>2. CASE UNCHANGED vars
    BY <2>2 DEF vars
  <2> QED BY <1>1, <2>1, <2>2
<1> QED BY <1>1, CanvasInvariant, PTL DEF Spec, IdentitiesGrow, Grows

\* No bound node is left without an image while there is one (canvas_binding.py:65-73).
THEOREM NodesAlwaysShow == Spec => []NodesShowTheImage
<1>1. IInv => NodesShowTheImage
  BY DEF IInv
<1> QED BY <1>1, CanvasInvariant, PTL

\* A tile taken for stale is one whose pixels are there (image_projection.py:57-76).
THEOREM ShownTilesAreThere == Spec => []ShownIsInThePixels
<1>1. IInv => ShownIsInThePixels
  BY DEF IInv
<1> QED BY <1>1, CanvasInvariant, PTL
-----------------------------------------------------------------------------
(* The image against the canvas.                                             *)

\* The session is the one the projection is of.
Followed == session # None /\ session.id = followed

\* Identities given and followed are among those counted.
Known == followed <= greatest /\ (session # None => session.id <= greatest)

\* A tile without a revision has no pixels.
BlankUnlessShown(shown) ==
    \A tile \in Tiles : shown.shown[tile] = 0 => shown.pixels[tile] = <<Nothing, Nothing>>

\* The projection is the copy, but for the tiles that changed since.
LagsOnlyChanged(shown) ==
    shown.size = mirror.size => \A tile \in Tiles :
        /\ shown.shown[tile] <= mirror.tiles[tile]
        /\ tile \notin changed => shown.shown[tile] = mirror.tiles[tile]

\* The image is the projection, unless a person is told that it is not.
ImageIsTheProjection ==
    (~error /\ image # None /\ projection.size # Nothing) =>
        image.size = projection.size /\ image.pixels = projection.pixels

\* What holds of the projection while its session lasts.
CopyInv ==
    /\ Known
    /\ BlankUnlessShown(projection)
    /\ Followed => /\ projection.size <= mirror.size
                   /\ mirror.size # Nothing => LagsOnlyChanged(projection)
                   /\ ImageIsTheProjection

\* Sizes and revisions are numbers, and an image has a size.
LEMMA SizesAreNumbers ==
    ASSUME TypeOK
    PROVE  /\ mirror.size \in Nat /\ projection.size \in Nat /\ Sizes \subseteq Nat \ {0}
           /\ \A tile \in Tiles : mirror.tiles[tile] \in Nat /\ projection.shown[tile] \in Nat
<1>1. Sizes \cup {Nothing} \subseteq Nat /\ Sizes \subseteq Nat \ {0} /\ 0..MaxRevision \subseteq Nat
  BY DEF Nothing
<1>2. mirror.size \in Sizes \cup {Nothing} /\ projection.size \in Sizes \cup {Nothing}
  BY DEF TypeOK, Projections
<1>3. mirror.tiles \in [Tiles -> 0..MaxRevision] /\ projection.shown \in [Tiles -> 0..MaxRevision]
  BY DEF TypeOK, Projections
<1> QED BY <1>1, <1>2, <1>3

\* The identities that are counted only grow.
LEMMA LinkStepKnows ==
    ASSUME LinkInv, LinkStep \/ UNCHANGED allLinkVars, session # None => session.id <= greatest
    PROVE  greatest <= greatest' /\ (session' # None => session'.id <= greatest')
<1> USE DEF LinkInv, LinkTypeOK
<1>1. CASE Connect
  <2>1. LinkInv' /\ session = None
    BY <1>1, ConnectKeeps DEF Connect
  <2>2. greatest \in Int /\ greatest' \in Int /\ lastSessionId' \in Int
    BY <2>1
  <2>3. greatest' = IF lastSessionId' > greatest THEN lastSessionId' ELSE greatest
    BY <1>1 DEF Connect
  <2>4. session' = [id |-> lastSessionId', open |-> FALSE, with |-> running] \/ session' = None
    BY <1>1 DEF Connect, EndSession
  <2>5. greatest <= greatest' /\ lastSessionId' <= greatest'
    BY <2>2, <2>3
  <2> QED BY <2>4, <2>5
<1>2. CASE LinkAdvance /\ ~Connect
  <2>1. greatest' = greatest
    BY <1>2 DEF LinkAdvance, NotRunning, SeesExit, WaitsToRetry, SessionGoesOn, SessionOpens, SessionEnds
  <2>2. session' # None => session # None /\ session'.id = session.id
    BY <1>2 DEF LinkAdvance, NotRunning, SeesExit, AfterExit, WaitsToRetry, SessionGoesOn, SessionOpens,
         SessionEnds, EndSession, linkVars
  <2> QED BY <2>1, <2>2
<1>3. CASE ~LinkAdvance
  <2>1. greatest' = greatest /\ (session' = None \/ session' = session)
    BY <1>3 DEF LinkStep, Buttons, Surroundings, OpenCanvas, StopCanvas, HostStarts, HostEnds, PlaneExits,
         ClockAdvances, linkVars, allLinkVars
  <2> QED BY <2>1
<1> QED BY <1>1, <1>2, <1>3

\* A new session is never taken for the one followed.
LEMMA StaysFollowed ==
    ASSUME LinkInv, TypeOK, Known, LinkStep \/ UNCHANGED allLinkVars, session' # None,
           session'.id = followed
    PROVE  Followed
<1>1. LinkInv' /\ Grows
  <2>1. CASE UNCHANGED allLinkVars
    BY <2>1 DEF allLinkVars, linkVars, worldVars, LinkInv, LinkTypeOK, SessionIsWithTheProcess, Grows
  <2> QED BY <2>1, LinkStepKeeps
<1>2. ASSUME session = None \/ session.id # session'.id PROVE FALSE
  BY <1>1, <1>2 DEF Grows, Known, TypeOK, LinkInv, LinkTypeOK
<1> QED BY <1>2 DEF Followed

\* What the projection of the session is like before it is brought up to date.
LEMMA FollowingLags ==
    ASSUME TypeOK, CopyInv, Connected, mirror.size # Nothing
    PROVE  /\ BlankUnlessShown(Following) /\ LagsOnlyChanged(Following)
           /\ Following.size = mirror.size => session.id = followed /\ Following = projection
<1>1. CASE session.id = followed
  BY <1>1 DEF CopyInv, Followed, Connected, Following
<1>2. CASE session.id # followed
  <2>1. Following = [size |-> Nothing, pixels |-> Blank, shown |-> NoTiles]
    BY <1>2 DEF Following, NoProjection
  <2> QED BY <2>1 DEF BlankUnlessShown, LagsOnlyChanged, Blank
<1> QED BY <1>1, <1>2

\* Bringing it up to date makes it the canvas.
LEMMA ProjectedIsTheCanvas ==
    ASSUME TypeOK, LinkInv, ShownIsInThePixels, CopyInv, Connected, mirror.size # Nothing
    PROVE  /\ Projected.size = mirror.size /\ Projected.pixels = MirrorPixels
           /\ \A tile \in Tiles : Projected.shown[tile] = mirror.tiles[tile]
<1> DEFINE begun == Begun(Following)
           written == Written(Following)
<1>1. /\ Following \in Projections /\ Consistent(Following, session.id)
      /\ BlankUnlessShown(Following) /\ LagsOnlyChanged(Following)
  BY FollowingIsOfTheSession, FollowingLags
<1>2. \A tile \in Tiles : mirror.tiles[tile] \in Nat /\ Following.shown[tile] \in Nat
  BY <1>1 DEF TypeOK, Projections
<1>3. /\ begun \in Projections /\ Consistent(begun, session.id) /\ begun.size = mirror.size
      /\ BlankUnlessShown(begun)
      /\ \A tile \in Tiles : tile \in written <=> mirror.tiles[tile] > begun.shown[tile]
      /\ \A tile \in Tiles : tile \notin written => begun.shown[tile] = mirror.tiles[tile]
  <2>1. begun \in Projections /\ Consistent(begun, session.id) /\ begun.size = mirror.size
    BY <1>1, BegunIsOfTheSession
  <2>2. CASE Recreated(Following)
    <3>1. begun = [size |-> mirror.size, pixels |-> Blank, shown |-> NoTiles]
      BY <2>2 DEF Begun, NoProjection
    <3>2. written = {tile \in Tiles : mirror.tiles[tile] > begun.shown[tile]}
      BY <2>2 DEF Written
    <3>3. \A tile \in Tiles : begun.shown[tile] = 0 /\ begun.pixels[tile] = <<Nothing, Nothing>>
      BY <3>1 DEF NoTiles, Nothing, Blank
    <3> QED BY <1>2, <2>1, <3>2, <3>3 DEF BlankUnlessShown
  <2>3. CASE ~Recreated(Following)
    <3>1. begun = Following /\ Following.size = mirror.size
      BY <2>3 DEF Begun, Recreated
    <3>2. written = {tile \in changed : mirror.tiles[tile] > begun.shown[tile]}
      BY <2>3 DEF Written
    <3>3. \A tile \in Tiles : /\ begun.shown[tile] <= mirror.tiles[tile]
                              /\ tile \notin changed => begun.shown[tile] = mirror.tiles[tile]
      BY <1>1, <3>1 DEF LagsOnlyChanged
    <3> QED BY <1>1, <1>2, <2>1, <3>1, <3>2, <3>3 DEF TypeOK
  <2> QED BY <2>2, <2>3
<1>4. CASE NeedsUpdate
  <2> DEFINE pixels == [tile \in Tiles |->
                 IF tile \in written THEN <<session.id, mirror.tiles[tile]>> ELSE begun.pixels[tile]]
             revisions == [tile \in Tiles |->
                 IF tile \in written THEN mirror.tiles[tile] ELSE begun.shown[tile]]
  <2>1. Projected = [begun EXCEPT !.pixels = pixels, !.shown = revisions]
    BY <1>3, <1>4 DEF Projected, Updated, Projections
  <2> HIDE DEF begun, written
  <2>2. Projected.size = mirror.size /\ Projected.pixels = pixels /\ Projected.shown = revisions
    BY <1>3, <2>1 DEF Projections
  <2>3. \A tile \in Tiles : revisions[tile] = mirror.tiles[tile]
    BY <1>3
  <2>4. ASSUME NEW tile \in Tiles
        PROVE  pixels[tile] = IF mirror.tiles[tile] = 0 THEN <<0, 0>> ELSE <<session.id, mirror.tiles[tile]>>
    <3>1. CASE tile \in written
      <4>1. mirror.tiles[tile] # 0
        <5>1. mirror.tiles[tile] > begun.shown[tile] /\ begun.shown[tile] \in Nat /\ mirror.tiles[tile] \in Nat
          BY <1>2, <1>3, <3>1 DEF Projections
        <5> QED BY <5>1
      <4> QED BY <3>1, <4>1
    <3>2. CASE tile \notin written
      BY <1>3, <3>2 DEF Consistent, BlankUnlessShown, Nothing
    <3> QED BY <3>1, <3>2
  <2>5. pixels = MirrorPixels
    BY <2>4 DEF MirrorPixels
  <2> QED BY <2>2, <2>3, <2>5
<1>5. CASE ~NeedsUpdate
  <2>1. Projected = Following /\ changed = {} /\ Following.size = mirror.size
    BY <1>5 DEF Projected, NeedsUpdate
  <2>2. \A tile \in Tiles : Following.shown[tile] = mirror.tiles[tile]
    BY <1>1, <2>1 DEF LagsOnlyChanged
  <2>3. \A tile \in Tiles : Following.pixels[tile] =
          IF mirror.tiles[tile] = 0 THEN <<0, 0>> ELSE <<session.id, mirror.tiles[tile]>>
    BY <1>1, <2>2 DEF Consistent, BlankUnlessShown, Nothing
  <2>4. Following.pixels = MirrorPixels
    BY <1>1, <2>3 DEF MirrorPixels, Projections, Pixels
  <2> QED BY <2>1, <2>2, <2>4
<1> QED BY <1>4, <1>5

\* An image that is not made anew is one of the session's canvas already.
LEMMA UnchangedShows ==
    ASSUME TypeOK, LinkInv, ShownIsInThePixels, CopyInv, Connected, mirror.size # Nothing, ~ToShow
    PROVE  /\ image # None /\ session.id = followed
           /\ projection.size = mirror.size /\ projection.pixels = MirrorPixels
<1>1. Following.size = mirror.size
  BY DEF ToShow, NeedsUpdate, Recreated
<1>2. image # None
  BY <1>1 DEF ToShow, Missing
<1>3. session.id = followed /\ Following = projection
  BY <1>1, FollowingLags
<1>4. Projected.pixels = MirrorPixels
  BY ProjectedIsTheCanvas
<1>5. Projected.pixels = projection.pixels
  <2>1. CASE NeedsUpdate
    <3>1. Written(Following) = {} /\ ~Recreated(Following)
      BY <2>1 DEF ToShow
    <3>2. Begun(Following) = projection /\ projection \in Projections
      BY <1>3, <3>1 DEF Begun, TypeOK
    <3>3. Projected = [projection EXCEPT
              !.pixels = [tile \in Tiles |-> projection.pixels[tile]],
              !.shown = [tile \in Tiles |-> projection.shown[tile]]]
      <4>1. Projected = Updated(Following)
        BY <2>1 DEF Projected
      <4>2. \A tile \in Tiles : tile \notin Written(Following)
        BY <3>1
      <4> QED BY <3>2, <4>1, <4>2 DEF Updated, Projections
    <3>4. Projected.pixels = [tile \in Tiles |-> projection.pixels[tile]]
      BY <3>2, <3>3 DEF Projections
    <3> QED BY <3>2, <3>4 DEF Projections, Pixels
  <2>2. CASE ~NeedsUpdate
    BY <1>3, <2>2 DEF Projected
  <2> QED BY <2>1, <2>2
<1> QED BY <1>1, <1>2, <1>3, <1>4, <1>5

ShowsTheCanvas ==
    error' \/ (image' # None /\ image'.size = mirror.size /\ image'.pixels = MirrorPixels)

\* The timer's turn of the image shows the canvas, or says why not.
LEMMA ProjectShows ==
    ASSUME IInv, CopyInv, Project
    PROVE  CopyInv' /\ (Connected /\ mirror.size # Nothing => ShowsTheCanvas)
<1>1. /\ TypeOK /\ LinkInv /\ ShownIsInThePixels /\ Known
      /\ BlankUnlessShown(projection) /\ UNCHANGED <<session, greatest, mirror>>
  BY DEF IInv, CopyInv, Project, ProjectsNothing, ProjectsUnchanged, Shows, Fails, Takes, Projects, linkVars
<1>2. CASE ProjectsNothing
  <2>1. ~(Connected /\ mirror.size # Nothing) /\ UNCHANGED <<changed, image>>
    BY <1>2 DEF ProjectsNothing
  <2>2. CASE ~Connected
    <3>1. UNCHANGED <<followed, projection, error>>
      BY <1>2, <2>2 DEF ProjectsNothing
    <3>2. CopyInv'
      BY <1>1, <2>1, <3>1 DEF CopyInv, Known, Followed, BlankUnlessShown, LagsOnlyChanged,
           ImageIsTheProjection
    <3> QED BY <2>2, <3>2
  <2>3. CASE Connected /\ mirror.size = Nothing
    <3>1. followed' = session.id /\ projection' = Following /\ error' = ErrorBefore
      BY <1>2, <2>3 DEF ProjectsNothing
    <3>2. session # None /\ Known'
      BY <1>1, <2>3, <3>1 DEF Connected, Known
    <3>3. CASE session.id = followed
      <4>1. UNCHANGED <<followed, projection, error>>
        BY <1>1, <3>1, <3>3 DEF Following, ErrorBefore, TypeOK
      <4> QED BY <1>1, <2>1, <2>3, <4>1 DEF CopyInv, Known, Followed, BlankUnlessShown, LagsOnlyChanged,
              ImageIsTheProjection
    <3>4. CASE session.id # followed
      <4>1. projection' = [size |-> Nothing, pixels |-> Blank, shown |-> NoTiles]
        BY <3>1, <3>4 DEF Following, NoProjection
      <4>2. projection'.size = 0 /\ mirror'.size = 0
        BY <1>1, <2>3, <4>1 DEF Nothing
      <4>3. BlankUnlessShown(projection')
        BY <4>1 DEF BlankUnlessShown, Blank
      <4> QED BY <2>1, <2>3, <3>2, <4>2, <4>3 DEF CopyInv, BlankUnlessShown, ImageIsTheProjection, Nothing
    <3> QED BY <3>3, <3>4
  <2> QED BY <2>1, <2>2, <2>3
<1>3. ASSUME Takes, error' \/ (image' # None /\ image'.size = mirror.size /\ image'.pixels = MirrorPixels)
      PROVE  CopyInv' /\ ShowsTheCanvas
  <2>1. /\ Connected /\ mirror.size # Nothing /\ followed' = session.id /\ projection' = Projected
        /\ changed' = IF NeedsUpdate THEN {} ELSE changed
    BY <1>3 DEF Takes
  <2>2. /\ Projected.size = mirror.size /\ Projected.pixels = MirrorPixels
        /\ \A tile \in Tiles : Projected.shown[tile] = mirror.tiles[tile]
    BY <1>1, <2>1, ProjectedIsTheCanvas
  <2>3. Known'
    BY <1>1, <2>1 DEF Known, Connected
  <2>4. BlankUnlessShown(projection)'
    BY <2>1, <2>2 DEF BlankUnlessShown, MirrorPixels, Nothing
  <2>5. LagsOnlyChanged(projection)'
    BY <1>1, <2>1, <2>2 DEF LagsOnlyChanged, TypeOK
  <2>6. ImageIsTheProjection'
    BY <1>1, <1>3, <2>1, <2>2 DEF ImageIsTheProjection
  <2>7. projection'.size <= mirror'.size
    <3> QED BY <1>1, <2>1, <2>2, SizesAreNumbers
  <2>8. CopyInv'
    BY <2>3, <2>4, <2>5, <2>6, <2>7 DEF CopyInv
  <2> QED BY <1>3, <2>8 DEF ShowsTheCanvas
<1>4. CASE ProjectsUnchanged
  <2>1. Takes /\ ~ToShow /\ error' = ErrorBefore /\ UNCHANGED image
    BY <1>4 DEF ProjectsUnchanged
  <2>2. Connected /\ mirror.size # Nothing
    BY <2>1 DEF Takes
  <2>3. /\ image # None /\ session.id = followed
        /\ projection.size = mirror.size /\ projection.pixels = MirrorPixels
    BY <1>1, <2>1, <2>2, UnchangedShows
  <2>4. error' = error
    BY <1>1, <2>1, <2>3 DEF ErrorBefore, TypeOK
  <2>5. ImageIsTheProjection
    BY <2>2, <2>3 DEF CopyInv, Followed, Connected
  <2> QED BY <1>3, <2>1, <2>2, <2>3, <2>4, <2>5 DEF ImageIsTheProjection
<1>5. CASE Shows
  <2>1. Takes /\ image' = [size |-> Projected.size, pixels |-> Projected.pixels, float |-> TRUE]
    BY <1>5 DEF Shows, Shown
  <2>2. Projected.size = mirror.size /\ Projected.pixels = MirrorPixels /\ Projected.size \in Sizes
    <3>1. Connected /\ mirror.size # Nothing
      BY <2>1 DEF Takes
    <3> QED BY <1>1, <3>1, ProjectedIsTheCanvas DEF TypeOK
  <2>3. image' # None
    <3>1. session.id \in 1..MaxSessions /\ mirror.size # Nothing
      BY <1>1, <2>1, SessionHasIdentity DEF Takes
    <3>2. image' \in Images
      BY <1>1, <1>5, <3>1, ProjectedIsOfTheSession DEF Shows
    <3> QED BY <3>2
  <2> QED BY <1>3, <2>1, <2>2, <2>3
<1>6. CASE Fails
  BY <1>3, <1>6 DEF Fails
<1> QED BY <1>2, <1>3, <1>4, <1>5, <1>6 DEF Project

\* Tiles that a session receives are among those that changed, and a canvas only grows.
LEMMA ReceivingLags ==
    ASSUME TypeOK, LinkInv, CopyInv, Followed, Followed', ReceivesSome, UNCHANGED shownVars
    PROVE  /\ projection'.size <= mirror'.size
           /\ mirror'.size # Nothing => LagsOnlyChanged(projection)'
<1>1. PICK tiles \in SUBSET Tiles, size \in Sizes : size >= mirror.size /\ Receives(size, tiles)
  BY DEF ReceivesSome
<1>2. /\ projection' = projection /\ mirror'.size = size /\ changed' = changed \cup tiles
      /\ \A tile \in Tiles : mirror'.tiles[tile] =
           (IF tile \in tiles THEN mirror.tiles[tile] + 1
            ELSE IF size = mirror.size THEN mirror.tiles[tile] ELSE Nothing)
  BY <1>1 DEF Receives, shownVars
<1>3. /\ projection.size \in Nat /\ mirror.size \in Nat /\ size \in Nat \ {0}
      /\ \A tile \in Tiles : projection.shown[tile] \in Nat /\ mirror.tiles[tile] \in Nat
  BY SizesAreNumbers
<1>4. projection.size <= mirror.size /\ (mirror.size # Nothing => LagsOnlyChanged(projection))
  BY DEF CopyInv
<1>5. ASSUME projection.size = size
      PROVE  \A tile \in Tiles :
                /\ projection.shown[tile] <= mirror'.tiles[tile]
                /\ tile \notin changed' => projection.shown[tile] = mirror'.tiles[tile]
  <2>1. mirror.size = size /\ projection.size = mirror.size /\ mirror.size # Nothing
    BY <1>1, <1>3, <1>4, <1>5 DEF Nothing
  <2>2. \A tile \in Tiles :
          /\ projection.shown[tile] <= mirror.tiles[tile]
          /\ tile \notin changed => projection.shown[tile] = mirror.tiles[tile]
    BY <1>4, <2>1 DEF LagsOnlyChanged
  <2> QED BY <1>2, <1>3, <2>1, <2>2
<1> QED BY <1>1, <1>2, <1>3, <1>4, <1>5 DEF LagsOnlyChanged

\* Identities stay counted.
LEMMA StillKnown ==
    ASSUME IInv, Known, LinkStep \/ UNCHANGED allLinkVars, followed' = followed
    PROVE  Known'
<1>0. TypeOK /\ LinkInv /\ Known
  BY DEF IInv
<1>1. greatest <= greatest' /\ (session' # None => session'.id <= greatest')
  BY <1>0, LinkStepKnows DEF Known
<1>2. LinkInv'
  <2>1. CASE UNCHANGED allLinkVars
    BY <1>0, <2>1 DEF allLinkVars, linkVars, worldVars, LinkInv, LinkTypeOK, SessionIsWithTheProcess
  <2> QED BY <1>0, <2>1, LinkStepKeeps
<1>3. followed \in Int /\ greatest \in Int /\ greatest' \in Int
  BY <1>0, <1>2 DEF TypeOK, LinkInv, LinkTypeOK
<1> QED BY <1>0, <1>1, <1>3 DEF Known

\* A projection that is of another session, or of none.
LEMMA CopyOfAnother ==
    ASSUME CopyInv, Known', ~Followed', projection' = projection
    PROVE  CopyInv'
BY DEF CopyInv, BlankUnlessShown

\* A step that leaves the copy and the projection alone, or empties the image.
LEMMA CopyStill ==
    ASSUME IInv, CopyInv, LinkStep \/ UNCHANGED allLinkVars, UNCHANGED <<followed, projection, error>>,
           session' # None => UNCHANGED copyVars, image' = image \/ image' = None
    PROVE  CopyInv'
<1>1. TypeOK /\ LinkInv /\ Known
  BY DEF IInv, CopyInv
<1>2. Known'
  BY <1>1, StillKnown
<1>3. BlankUnlessShown(projection)'
  BY DEF CopyInv, BlankUnlessShown
<1>4. ASSUME Followed'
      PROVE  /\ projection'.size <= mirror'.size
             /\ mirror'.size # Nothing => LagsOnlyChanged(projection)'
             /\ ImageIsTheProjection'
  <2>1. Followed /\ UNCHANGED copyVars
    BY <1>1, <1>4, StaysFollowed DEF Followed
  <2> QED BY <2>1 DEF CopyInv, copyVars, LagsOnlyChanged, ImageIsTheProjection
<1> QED BY <1>2, <1>3, <1>4 DEF CopyInv

\* A projection that is of no session.
LEMMA CopyReset ==
    ASSUME IInv, CopyInv, UNCHANGED greatest, followed' = Nothing, projection' = NoProjection,
           LinkInv', session' = None \/ session' = session
    PROVE  CopyInv'
<1>1. greatest \in Nat /\ (session' # None => session'.id # followed' /\ session'.id <= greatest')
  BY DEF IInv, CopyInv, Known, LinkInv, LinkTypeOK, Nothing
<1>2. Known' /\ ~Followed'
  BY <1>1 DEF Known, Followed, Nothing
<1>3. BlankUnlessShown(projection)'
  BY DEF BlankUnlessShown, NoProjection, Blank
<1> QED BY <1>2, <1>3 DEF CopyInv

\* Every step keeps the projection of the session one of its canvas.
LEMMA NextCopies == ASSUME IInv, CopyInv, [Next]_vars PROVE CopyInv'
<1>1. TypeOK /\ LinkInv /\ IInv' /\ LinkInv'
  BY NextKeeps DEF IInv
<1>2. Next => LinkStep \/ UNCHANGED allLinkVars
  BY NextIsALinkStep
<1>3. CASE UNCHANGED vars
  <2>1. UNCHANGED <<allLinkVars, copyVars, followed, projection, error, image>>
    BY <1>3 DEF vars, canvasVars, shownVars
  <2> QED BY <2>1, CopyStill
<1>4. CASE Turn
  <2>1. UNCHANGED <<followed, projection, error, image>> /\ UNCHANGED shownVars /\ LinkStep
    BY <1>4 DEF Turn, shownVars, LinkStep
  <2>2. CASE session' = None \/ UNCHANGED copyVars
    BY <2>1, <2>2, CopyStill
  <2>3. CASE session' # None /\ session = None
    <3>1. ~Followed'
      <4> SUFFICES ASSUME Followed' PROVE FALSE
        OBVIOUS
      <4>1. Followed
        BY <1>1, <2>1, StaysFollowed DEF Followed, CopyInv
      <4> QED BY <2>3, <4>1 DEF Followed
    <3> QED BY <1>2, <1>4, <2>1, <3>1, StillKnown, CopyOfAnother DEF CopyInv
  <2>4. CASE session' # None /\ ReceivesSome
    <3>1. CASE ~Followed'
      BY <1>2, <1>4, <2>1, <3>1, StillKnown, CopyOfAnother DEF CopyInv
    <3>2. CASE Followed'
      <4>1. Followed
        BY <1>1, <2>1, <2>4, <3>2, StaysFollowed DEF Followed, CopyInv
      <4>2. /\ projection'.size <= mirror'.size
            /\ mirror'.size # Nothing => LagsOnlyChanged(projection)'
        BY <1>1, <2>1, <2>4, <3>2, <4>1, ReceivingLags
      <4>3. ImageIsTheProjection'
        BY <2>1, <4>1 DEF CopyInv, ImageIsTheProjection
      <4> QED BY <2>1, <4>2, <4>3, StillKnown DEF CopyInv, BlankUnlessShown
    <3> QED BY <3>1, <3>2
  <2> QED BY <1>4, <2>2, <2>3, <2>4 DEF Turn
<1>5. CASE Project
  BY <1>5, ProjectShows
<1>6. CASE Elsewhere /\ UNCHANGED canvasVars
  <2>1. UNCHANGED <<copyVars, followed, projection, error, image>> /\ LinkStep
    BY <1>6 DEF canvasVars, shownVars, Elsewhere, LinkStep, Buttons, Surroundings
  <2> QED BY <2>1, CopyStill
<1>7. CASE HostGoes
  <2>1. session' = None /\ greatest' = greatest /\ followed' = Nothing /\ projection' = NoProjection
    BY <1>7 DEF HostGoes, HostEnds
  <2> QED BY <1>1, <2>1, CopyReset
<1>8. CASE Stops
  <2>1. session' = None /\ LinkStep /\ UNCHANGED <<followed, projection, error, image>>
    BY <1>8 DEF Stops, StopCanvas, LinkStep, Buttons, shownVars
  <2> QED BY <2>1, CopyStill
<1>9. CASE UseCanvas \/ ImageDeleted
  <2>1. UNCHANGED allLinkVars /\ UNCHANGED <<copyVars, followed, projection, error>>
        /\ (image' = image \/ image' = None)
    BY <1>9 DEF UseCanvas, ImageDeleted
  <2> QED BY <2>1, CopyStill
<1>10. CASE FileOpened
  <2>1. UNCHANGED <<session, greatest, up, copyVars>>
    BY <1>10 DEF FileOpened, allLinkVars, linkVars
  <2>2. CASE up
    BY <1>1, <1>10, <2>1, <2>2, CopyReset DEF FileOpened
  <2>3. CASE ~up
    <3>1. session' = None /\ UNCHANGED <<followed, projection>>
      BY <1>1, <1>10, <2>1, <2>3 DEF FileOpened, LinkInv
    <3>2. ~Followed' /\ Known'
      BY <2>1, <3>1 DEF Followed, Known, CopyInv
    <3> QED BY <3>1, <3>2 DEF CopyInv, BlankUnlessShown
  <2> QED BY <2>2, <2>3
<1> QED BY <1>3, <1>4, <1>5, <1>6, <1>7, <1>8, <1>9, <1>10 DEF Next

\* The projection of the session is one of its canvas in every state.
LEMMA CopyInductive == Spec => [](IInv /\ CopyInv)
<1>1. Init => CopyInv
  <2> SUFFICES ASSUME Init PROVE CopyInv
    OBVIOUS
  <2>1. /\ session = None /\ followed = 0 /\ greatest = 0
        /\ projection = [size |-> Nothing, pixels |-> Blank, shown |-> NoTiles]
    BY DEF Init, LinkInit, Nothing, NoProjection
  <2> QED BY <2>1 DEF CopyInv, Known, Followed, BlankUnlessShown, Blank
<1>2. IInv /\ CopyInv /\ [Next]_vars => CopyInv'
  BY NextCopies
<1> QED BY <1>1, <1>2, CanvasInvariant, PTL DEF Spec

\* "The image is rebuilt from the whole canvas whenever a session opens" and "filled again"
\* when it was lost (canvas_image.py:3-5, 8-11): after every turn of the timer the image shows
\* exactly what the session has of the canvas, or the person is told why not.
THEOREM ImageAlwaysShowsTheCanvas == Spec => ImageShowsTheCanvas
<1> DEFINE Turned == turn = "showing" /\ turn' = "between" /\ Connected /\ mirror.size # Nothing
<1>1. ASSUME IInv /\ CopyInv, [Next]_vars PROVE [Turned => ShowsTheCanvas]_vars
  <2> SUFFICES ASSUME Next, Turned PROVE ShowsTheCanvas
    BY <1>1
  <2>1. Project
    <3>1. turn' # turn /\ turn' = "between"
      OBVIOUS
    <3> QED BY <3>1 DEF Next, Turn, LinkAdvance, NotRunning, SeesExit, WaitsToRetry, Connect, SessionGoesOn,
            SessionOpens, SessionEnds, Advances, Elsewhere, HostStarts, OpenCanvas, PlaneExits, ClockAdvances,
            HostGoes, HostEnds, Stops, StopCanvas, UseCanvas, ImageDeleted, FileOpened, allLinkVars
  <2> QED BY <1>1, <2>1, ProjectShows
<1> QED BY <1>1, CopyInductive, PTL DEF Spec, ImageShowsTheCanvas, ShowsTheCanvas
=============================================================================
