----------------------------- MODULE CanvasImage -----------------------------
(***************************************************************************)
(* The canvas as a Blender image (extension/presentation/canvas_image.py),   *)
(* kept from the copy the session has of it, through an ImageProjection      *)
(* (extension/realtime_plane/image_projection.py), by the timer that moves   *)
(* the link (extension/presentation/realtime_plane.py).                      *)
(*                                                                          *)
(* There is one canvas surface.  Pixels are the revision of the tile they    *)
(* show and the session that sent it, since the revisions of another         *)
(* session's canvas may be another process's; how rows are turned over and   *)
(* tiles cut at the edge is left out.  Blender may lose the image and its     *)
(* pixels at any moment between two turns of the timer: a person deletes it  *)
(* or opens a file.                                                          *)
(***************************************************************************)
EXTENDS Link

CONSTANTS
    Tiles,
    Sizes,          \* the sizes an image may have
    MaxRevision,    \* bound: the greatest revision of a tile
    MaxLosses,      \* bound: images deleted and files opened
    MaxFailures     \* bound: times Blender refuses to update the image

Pixels == [Tiles -> (0..MaxSessions) \X (0..MaxRevision)]
Images == [size : Sizes, pixels : Pixels, float : BOOLEAN]

ASSUME CanvasAssumption ==
    /\ Sizes \in SUBSET Nat /\ 0 \notin Sizes /\ None \notin Images
    /\ MaxRevision \in Nat /\ MaxLosses \in Nat /\ MaxFailures \in Nat

VARIABLES
    mirror,         \* session.Mirror: the size of the canvas and the revision of each tile, 0 for none
    changed,        \* session.ChangedTiles
    followed,       \* _session
    projection,     \* _projection: its Image's size, the pixels and the revisions they show
    image,          \* the image in bpy.data.images that carries the surface, or None
    node,           \* the bound material node: "none", "shows" the image, or "lost" it
    error,          \* _error is not empty
    losses, failures

copyVars == <<mirror, changed>>
shownVars == <<followed, projection, image, node, error>>
canvasVars == <<copyVars, shownVars, losses, failures>>
vars == <<allLinkVars, canvasVars>>

Nothing == 0
NoTiles == [tile \in Tiles |-> Nothing]
Blank == [tile \in Tiles |-> <<Nothing, Nothing>>]
NoMirror == [size |-> Nothing, tiles |-> NoTiles]
NoProjection == [size |-> Nothing, pixels |-> Blank, shown |-> NoTiles]
Projections == [size : Sizes \cup {Nothing}, pixels : Pixels, shown : [Tiles -> 0..MaxRevision]]

Init ==
    /\ LinkInit
    /\ mirror = NoMirror /\ changed = {}
    /\ followed = Nothing /\ projection = NoProjection /\ image = None /\ node = "none"
    /\ error = FALSE /\ losses = 0 /\ failures = 0
-----------------------------------------------------------------------------
(* The session's copy of the canvas, which a turn of the link keeps.         *)

\* Tile results: some tiles, each newer than the copy has it, of the canvas as large as it
\* is or, larger, all anew.
Receives(size, tiles) ==
    /\ mirror' = [size |-> size,
                  tiles |-> [tile \in Tiles |->
                      IF tile \in tiles THEN mirror.tiles[tile] + 1
                      ELSE IF size = mirror.size THEN mirror.tiles[tile] ELSE Nothing]]
    /\ changed' = changed \cup tiles

ReceivesSome ==
    \E tiles \in SUBSET Tiles \ {{}}, size \in Sizes :
        /\ size >= mirror.size
        /\ \A tile \in tiles : mirror.tiles[tile] < MaxRevision
        /\ Receives(size, tiles)

\* A turn of the link: an open session may receive tiles, a new one starts without any.
Turn ==
    /\ LinkAdvance
    /\ IF session' = None \/ session = None THEN mirror' = NoMirror /\ changed' = {}
       ELSE (session'.open /\ ReceivesSome) \/ UNCHANGED copyVars
    /\ UNCHANGED <<shownVars, losses, failures>>
-----------------------------------------------------------------------------
(* Project, in the same turn of the timer.                                   *)

\* ImageProjection.Update: the tiles to write, and the projection with them written.
Recreated(shown) == shown.size # mirror.size
\* The revisions shown are kept with the pixels emptied.
SlipBegunShown(shown) ==
    IF Recreated(shown) THEN [shown EXCEPT !.size = mirror.size, !.pixels = Blank] ELSE shown
Begun(shown) ==
    IF Recreated(shown) THEN [NoProjection EXCEPT !.size = mirror.size] ELSE shown
Written(shown) ==
    {tile \in IF Recreated(shown) THEN Tiles ELSE changed :
        mirror.tiles[tile] > Begun(shown).shown[tile]}
Updated(shown) ==
    [Begun(shown) EXCEPT
        !.pixels = [tile \in Tiles |->
            IF tile \in Written(shown) THEN <<session.id, mirror.tiles[tile]>> ELSE @[tile]],
        !.shown = [tile \in Tiles |->
            IF tile \in Written(shown) THEN mirror.tiles[tile] ELSE @[tile]]]

\* The projection goes on with the next session.
SlipFollowing == projection
\* What the projection is of: a session that is not the one followed starts it again.
Following == IF session.id = followed THEN projection ELSE NoProjection
ErrorBefore == session.id = followed /\ error

NeedsUpdate == changed # {} \/ mirror.size # Following.size
Missing == Following.size # Nothing /\ image = None
Projected == IF NeedsUpdate THEN Updated(Following) ELSE Following
ToShow ==
    IF NeedsUpdate THEN Written(Following) # {} \/ Recreated(Following) \/ Missing ELSE Missing

Projects ==
    /\ turn = "showing" /\ turn' = "between"
    /\ UNCHANGED <<up, linkVars, worldVars, greatest, mirror, losses>>

\* Not connected, or the canvas is not known yet.
ProjectsNothing ==
    /\ Projects /\ ~(Connected /\ mirror.size # Nothing)
    /\ IF Connected
       THEN followed' = session.id /\ projection' = Following /\ error' = ErrorBefore
       ELSE UNCHANGED <<followed, projection, error>>
    /\ UNCHANGED <<changed, image, node, failures>>

\* The copy is taken into the projection; the image is to be shown or not.
Takes ==
    /\ Projects /\ Connected /\ mirror.size # Nothing
    /\ followed' = session.id /\ projection' = Projected
    /\ changed' = IF NeedsUpdate THEN {} ELSE changed

ProjectsUnchanged ==
    /\ Takes /\ ~ToShow /\ error' = ErrorBefore
    /\ UNCHANGED <<image, node, failures>>

\* _imageFor: the image there is, unless its precision is another, or a new one.
Kept == image # None /\ image.float
\* The nodes are left as they are.
SlipRestored == node
\* canvas_binding.Restore: every bound node gets the new image.
Restored == IF node = "none" THEN "none" ELSE "shows"
NodeAfter == IF Kept THEN node ELSE Restored
Shown == [size |-> Projected.size, pixels |-> Projected.pixels, float |-> TRUE]
Shows ==
    /\ Takes /\ ToShow
    /\ image' = Shown /\ node' = NodeAfter /\ error' = FALSE
    /\ UNCHANGED failures

\* Blender raises: before the image is made or scaled, before its pixels are set, or after.
Fails ==
    /\ Takes /\ ToShow /\ failures < MaxFailures
    /\ \/ /\ image' = IF Kept THEN image ELSE None
          /\ node' = IF Kept \/ node = "none" THEN node ELSE "lost"
       \/ /\ image' = [size |-> Projected.size, float |-> TRUE,
                       pixels |-> IF Kept /\ image.size = Projected.size THEN image.pixels ELSE Blank]
          /\ node' = NodeAfter
       \/ image' = Shown /\ node' = NodeAfter
    /\ error' = TRUE /\ failures' = failures + 1

Project == ProjectsNothing \/ ProjectsUnchanged \/ Shows \/ Fails
-----------------------------------------------------------------------------
(* What else happens to the image.                                           *)

\* StopWatching resets the projection with the link's end; the image stays in the file.
HostGoes ==
    /\ HostEnds
    /\ followed' = Nothing /\ projection' = NoProjection /\ error' = FALSE
    /\ mirror' = NoMirror /\ changed' = {}
    /\ UNCHANGED <<image, node, losses, failures>>

Stops ==
    /\ StopCanvas
    /\ mirror' = NoMirror /\ changed' = {}
    /\ UNCHANGED <<shownVars, losses, failures>>

\* "Use Canvas in Material", offered while there is an image; a bound material is reused.
UseCanvas ==
    /\ up /\ turn = "between" /\ image # None /\ node' = "shows"
    /\ UNCHANGED <<allLinkVars, copyVars, followed, projection, image, error, losses, failures>>

Loses == turn = "between" /\ losses < MaxLosses /\ losses' = losses + 1

ImageDeleted ==
    /\ Loses /\ image # None /\ image' = None
    /\ node' = IF node = "none" THEN "none" ELSE "lost"
    /\ UNCHANGED <<allLinkVars, copyVars, followed, projection, error, failures>>

\* A file is opened: without an image, or with one that has no pixels, whose node is bound or
\* not; an image may have been saved with another precision.  While the add-on is enabled
\* FileLoaded starts the projection again.
FileOpened ==
    /\ Loses
    /\ \/ image' = None /\ node' \in {"none", "lost"}
       \/ \E size \in Sizes, float \in BOOLEAN :
            /\ image' = [size |-> size, pixels |-> Blank, float |-> float]
            /\ node' \in {"none", "shows"}
    /\ IF up THEN followed' = Nothing /\ projection' = NoProjection /\ error' = FALSE
       ELSE UNCHANGED <<followed, projection, error>>
    /\ UNCHANGED <<allLinkVars, copyVars, failures>>

Elsewhere == HostStarts \/ OpenCanvas \/ PlaneExits \/ ClockAdvances
Next ==
    \/ Turn \/ Project
    \/ Elsewhere /\ UNCHANGED canvasVars
    \/ HostGoes \/ Stops \/ UseCanvas \/ ImageDeleted \/ FileOpened

Spec == Init /\ [][Next]_vars
\* The open that is asked for is accepted, or it ends.
Decided == session # None /\ ~session.open /\ (SessionOpens \/ SessionEnds)
\* Blender runs the timer while the add-on is enabled, the clock goes on, and an open that is
\* asked for is decided (Session.tla says when).
FairSpec ==
    /\ Spec
    /\ WF_vars(Turn) /\ WF_vars(Project)
    /\ WF_vars(ClockAdvances /\ UNCHANGED canvasVars)
    /\ SF_vars(Turn /\ Decided)
-----------------------------------------------------------------------------
TypeOK ==
    /\ LinkTypeOK
    /\ mirror \in [size : Sizes \cup {Nothing}, tiles : [Tiles -> 0..MaxRevision]]
    /\ changed \subseteq Tiles
    /\ followed \in 0..MaxSessions
    /\ projection \in Projections
    /\ image \in Images \cup {None}
    /\ node \in {"none", "shows", "lost"} /\ error \in BOOLEAN
    /\ losses \in 0..MaxLosses /\ failures \in 0..MaxFailures

MirrorPixels ==
    [tile \in Tiles |-> IF mirror.tiles[tile] = 0 THEN <<0, 0>> ELSE <<session.id, mirror.tiles[tile]>>]

\* "The image is rebuilt from the whole canvas whenever a session opens" and "filled again"
\* when it was lost (canvas_image.py:3-5, 8-11): after every turn of the timer the image shows
\* exactly what the session has of the canvas, nothing of another session's and no tile less,
\* or the person is told why not (117-119, 167-168).
ImageShowsTheCanvas ==
    [][turn = "showing" /\ turn' = "between" /\ Connected /\ mirror.size # Nothing
        => error' \/ (image' # None /\ image'.size = mirror.size /\ image'.pixels = MirrorPixels)]_vars

\* "Every material node bound to the surface gets it back" (canvas_image.py:8-10): when there
\* is an image, no bound node is left without one.
NodesShowTheImage == image # None => node # "lost"

\* The projection never says that it shows a tile of which it has other pixels: a tile that
\* is taken for stale (image_projection.py:71-73) is one whose pixels are there.
ShownIsInThePixels ==
    \A tile \in Tiles :
        projection.shown[tile] # 0 => projection.pixels[tile] = <<followed, projection.shown[tile]>>
=============================================================================
