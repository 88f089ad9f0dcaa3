---------------------------- MODULE GeometrySync ----------------------------
(***************************************************************************)
(* The tracker of changed geometry (extension/host/geometry_sync.py) with    *)
(* the host its documentation describes (geometry_sync.py:21-32): Blender    *)
(* reports what changed, a handler marks the region, and a loop captures and *)
(* commits each region that is marked.                                       *)
(*                                                                          *)
(* Blender's signal may be too broad or miss a change, an object may be one  *)
(* that cannot be captured, and it may change between its capture and its    *)
(* commit.                                                                   *)
(***************************************************************************)
EXTENDS Geometry, FiniteSets

CONSTANTS
    Regions,        \* the region keys; numbers, in the order of the strings
    None,
    MaxSignals,     \* bound: changes, marks and captures without a mark
    Moved           \* the position the engine moves a vertex to

ASSUME GeometryAssumption ==
    /\ Regions \subseteq Nat /\ MaxSignals \in Nat
    /\ None \notin Regions /\ None # Refused
    /\ \A o \in Objects : WellFormed(o)
    /\ None \notin Buffers /\ Refused \notin Buffers

VARIABLES
    regions,        \* _regions: the state of each region committed
    changed,        \* _changed
    nextId,         \* _nextId
    verify,         \* _verify
    warned,         \* what Commit has warned of: "nothing", "broad", "missed"
    object,         \* the Blender object behind each region
    todo,           \* the regions the host's loop has still to commit, which it takes in order
    reading,        \* the region it has captured and not committed, or None
    held,           \* the snapshot captured of it, or None
    kept,           \* history: the snapshot committed last of each region, or None
    quiet,          \* history: regions that changed without a mark since what was committed was captured
    overtaken,      \* history: regions whose change was marked between the capture and the commit of that
    late,           \* history: how the region captured has changed since: "marked", "unmarked"
    signals

trackerVars == <<regions, changed, nextId, verify>>
hostVars == <<todo, reading, held>>
histories == <<kept, quiet, overtaken, late, signals>>
vars == <<trackerVars, warned, object, hostVars, histories>>

Init ==
    /\ regions = [r \in {} |-> 0] /\ changed = {} /\ nextId = 1 /\ verify \in BOOLEAN
    /\ warned = "nothing" /\ object \in [Regions -> Objects]
    /\ todo = {} /\ reading = None /\ held = None
    /\ kept = [r \in Regions |-> None] /\ quiet = {} /\ overtaken = {} /\ late = {} /\ signals = 0

Committed(r) == r \in DOMAIN regions
MarkChanged(r) == changed' = changed \cup {r}
Changed(r) == r \in changed \/ ~Committed(r)
ChangedRegions == changed
\* In the order of the tuple ChangedRegions returns, which is sorted.
SlipFirst(r) == \A q \in todo : r >= q
First(r) == \A q \in todo : r <= q
-----------------------------------------------------------------------------
(* Blender.                                                                  *)

Signals == signals < MaxSignals /\ signals' = signals + 1

\* A person, or the host with ApplyMeshVertex, changes an object; Blender reports that or not.
Later(r, how) == late' = IF reading = r THEN late \cup {how} ELSE late
Becomes(r, o) ==
    /\ object' = [object EXCEPT ![r] = o] /\ UNCHANGED overtaken
    /\ \/ MarkChanged(r) /\ Later(r, "marked") /\ UNCHANGED quiet
       \/ quiet' = quiet \cup {r} /\ Later(r, "unmarked") /\ UNCHANGED changed
Edit(r) ==
    /\ Signals
    /\ \E o \in Objects \ {object[r]} : Becomes(r, o)
    /\ UNCHANGED <<regions, nextId, verify, warned, hostVars, kept>>
ApplyMeshVertex(r) ==
    /\ Signals
    /\ \E index \in VerticesOf(object[r]) :
         /\ WithVertex(object[r], index, Moved) \in Objects
         /\ Becomes(r, WithVertex(object[r], index, Moved))
    /\ UNCHANGED <<regions, nextId, verify, warned, hostVars, kept>>

\* A report of a geometry that did not change.
ReportTooBroad(r) ==
    /\ Signals /\ MarkChanged(r)
    /\ UNCHANGED <<regions, nextId, verify, warned, object, hostVars, kept, quiet, overtaken, late>>
-----------------------------------------------------------------------------
(* The host.                                                                 *)

RunLoop ==
    /\ todo = {} /\ changed # {} /\ todo' = ChangedRegions
    /\ UNCHANGED <<trackerVars, warned, object, reading, held, histories>>

\* It reads a region never read, or one again whatever the marks say.
ReadUnmarked(r) ==
    /\ todo = {} /\ Signals /\ todo' = {r}
    /\ UNCHANGED <<trackerVars, warned, object, reading, held, kept, quiet, overtaken, late>>

\* A capture that raises ends the loop.
Capture ==
    /\ reading = None /\ late' = {}
    /\ \E r \in todo : First(r) /\
         IF Readable(object[r])
         THEN reading' = r /\ held' = SnapshotObject(object[r]) /\ UNCHANGED todo
         ELSE todo' = {} /\ UNCHANGED <<reading, held>>
    /\ UNCHANGED <<trackerVars, warned, object, kept, quiet, overtaken, signals>>

\* The first Id is given again.
SlipIdOf(r) == IF Committed(r) THEN regions[r].Id ELSE 1
IdOf(r) == IF Committed(r) THEN regions[r].Id ELSE nextId

\* Every mark is cleared with the one of the region.
SlipCleared(r) == {}
Cleared(r) == changed \ {r}

\* _reportTracking.
SlipWarning(r, digest) ==
    IF Committed(r) /\ regions[r].ContentHash # digest THEN "missed" ELSE "nothing"
Warning(r, digest) ==
    IF ~Committed(r) THEN "nothing"
    ELSE CASE regions[r].ContentHash = digest /\ r \in changed -> "broad"
           [] regions[r].ContentHash # digest /\ r \notin changed -> "missed"
           [] OTHER -> "nothing"

Hash(s) == IF verify THEN Digest(s) ELSE <<>>
StateOf(r, s) ==
    [Id |-> IdOf(r), Revision |-> IF Committed(r) THEN regions[r].Revision + 1 ELSE 1, ContentHash |-> Hash(s)]
Commit ==
    /\ reading # None
    /\ warned' = IF verify THEN Warning(reading, Hash(held)) ELSE "nothing"
    /\ regions' = [q \in DOMAIN regions \cup {reading} |->
                    IF q = reading THEN StateOf(q, held) ELSE regions[q]]
    /\ nextId' = IF Committed(reading) THEN nextId ELSE nextId + 1
    /\ changed' = Cleared(reading)
    /\ kept' = [kept EXCEPT ![reading] = held]
    /\ quiet' = IF "unmarked" \in late THEN quiet \cup {reading} ELSE quiet \ {reading}
    /\ overtaken' = IF "marked" \in late THEN overtaken \cup {reading} ELSE overtaken \ {reading}
    /\ todo' = todo \ {reading} /\ reading' = None /\ held' = None
    /\ UNCHANGED <<verify, object, late, signals>>
-----------------------------------------------------------------------------
Blender == \E r \in Regions : Edit(r) \/ ReportTooBroad(r) \/ ApplyMeshVertex(r)
Host == RunLoop \/ Capture \/ Commit
Next == Blender \/ Host \/ \E r \in Regions : ReadUnmarked(r)

Spec == Init /\ [][Next]_vars

\* The host runs its loop again and again.
FairSpec == Spec /\ WF_vars(Host)
-----------------------------------------------------------------------------
Snapshots == {SnapshotObject(o) : o \in Objects} \ {Refused}

\* The state is of these shapes; what is committed is known to every part of it.
TypeOK ==
    /\ DOMAIN regions \subseteq Regions /\ changed \subseteq Regions
    /\ nextId \in Nat \ {0} /\ verify \in BOOLEAN /\ warned \in {"nothing", "broad", "missed"}
    /\ object \in [Regions -> Objects]
    /\ todo \subseteq Regions /\ reading \in todo \cup {None}
    /\ held \in Snapshots \cup {None} /\ (held = None <=> reading = None)
    /\ kept \in [Regions -> Snapshots \cup {None}] /\ quiet \subseteq Regions /\ overtaken \subseteq Regions
    /\ late \subseteq {"marked", "unmarked"} /\ signals \in 0..MaxSignals
    /\ \A r \in Regions : kept[r] # None <=> Committed(r)
    /\ \A r \in DOMAIN regions :
         /\ regions[r].Id \in 1..(nextId - 1) /\ regions[r].Revision \in Nat \ {0}
         /\ regions[r].ContentHash = Hash(kept[r])

\* What the host committed of a region is what its object is, or Changed says so, through
\* loops that were ended by an exception and marks made while the loop runs.  A change Blender
\* did not report is the exception, and one made between the capture and the commit, whose mark
\* the commit takes for its own (geometry_sync.py:4-5, 135).
StaleIsMarked ==
    \A r \in Regions :
        r \notin quiet \cup overtaken /\ kept[r] # SnapshotObject(object[r]) => Changed(r)

\* What verification warns of is so, of the object and not only of the snapshots, for a region that
\* does not change between a capture and its commit.  Where it says the signal missed a change,
\* Blender did not report one since what was committed before was captured, and that is not what
\* the object is; where it says the read was not needed, that is what the object is, or the digest
\* takes the one for the other, as it has no lengths (geometry_sync.py:35-37, 145-160).  In that window
\* both warnings can be wrong: the mark of a real change is called too broad, and once the commit
\* has taken it the change is called missed.
Commits(r) == reading = r /\ reading' = None
Alike(s, t) == s = t \/ VertexCount(s) # VertexCount(t)
WarningsAreTrue ==
    [][\A r \in Regions : Commits(r) =>
        /\ warned' = "missed" /\ r \notin overtaken => r \in quiet
        /\ warned' = "missed" /\ late = {} => kept[r] # SnapshotObject(object[r])
        /\ warned' = "broad" /\ late = {} => Alike(SnapshotObject(object[r]), kept[r])]_vars

\* An identity is never given to two regions, and a region keeps its own while its revision
\* counts its commits (geometry_sync.py:73-75).
IdentitiesAreKept ==
    [][/\ \A r, q \in DOMAIN regions' : regions'[r].Id = regions'[q].Id => r = q
       /\ \A r \in DOMAIN regions :
            /\ r \in DOMAIN regions' /\ regions'[r].Id = regions[r].Id
            /\ regions'[r].Revision = regions[r].Revision + (IF Commits(r) THEN 1 ELSE 0)]_vars

\* A snapshot holds the position of every point of its object, in order, and the triangles of
\* those that have them name vertices it has; a mesh captured as groups of numbers gives the
\* same (geometry.py:95-150).
ReadsEveryPoint ==
    \A r \in Regions : Readable(object[r]) =>
        LET s == SnapshotObject(object[r]) IN
        /\ Grouped(s.Vertices) = Positions(object[r])
        /\ Grouped(s.Triangles) = object[r].triangles
        /\ \A k \in 1..TriangleCount(s), i \in 1..3 :
             Triple(s.Triangles, k)[i] + 1 \in DOMAIN Positions(object[r])
        /\ object[r].type = "MESH" =>
             FromCapturedMesh(object[r].parts[1].points, object[r].triangles) = s

\* A region that is marked is committed, if no region before it, nor it itself, is one that
\* cannot be captured: such a one ends the loop each time (geometry_sync.py:29-31, geometry.py:130).
MarkedIsCommitted ==
    \A r \in Regions :
        r \in changed ~> (r \notin changed \/ \E q \in Regions : q <= r /\ ~Readable(object[q]))
=============================================================================
