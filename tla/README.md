# Flexible Drawing for Blender: specifications

TLA+ specifications of the Blender add-on in `extension/`, the configurations that check them
with TLC, and proofs checked with TLAPS. Line numbers name the files under `extension/`.

## The system

The add-on connects Blender to two other programs: a **native engine** (a library loaded through
a versioned C ABI, which owns documents) and the **Realtime Plane** (a process of its own with a
window and pen input, which owns the canvas and paints). Most of what is hard is in the second:
the Realtime Plane outlives Blender, is shared by every host of one user, runs on its own while
Blender's single thread looks at it from a timer, and may exit, fall silent or be replaced at any
moment.

| Component (source) | State it keeps | Operations | Interacts with |
|---|---|---|---|
| Session (`realtime_plane/session.py`, `channels.py`) | state, queue of settings, sent and unacknowledged actions, sequences read and acknowledged, regions to release, mirror of the canvas | open, `Request`, `Advance`, `Close` | the Realtime Plane over one request/response port and two streams |
| Process (`process.py`) | PID and start time, a Popen or none, the state file | `Attach`, `Start`, `Alive`, `Stop`, `_forget` | the system's process table, other hosts through the state file |
| Link (`link.py`) | process, session, time to retry, last session identity | `Reattach`, `Open`, `Advance`, `Detach`, `Stop`, `Request` | owns one process and one session at a time |
| Timer and buttons (`presentation/realtime_plane.py`) | whether it is watching | a turn of the timer, Open Canvas, Stop Canvas | moves the link, then the image, then the widgets |
| Canvas image (`presentation/canvas_image.py`, `realtime_plane/image_projection.py`, `host/canvas_binding.py`) | session followed, pixels and the revisions they show, last error; Blender's image and material nodes | `Project`, `Update`, `Restore`, `FileLoaded`, `Reset` | reads the session's mirror; Blender may drop the image |
| UI projection (`presentation/ui_projection.py`) | one property per control | update callback, `Refresh` | asks through the link, shows what the session reports |
| Documents (`host/document_binding.py`, `presentation/document.py`, `abi/interfaces/document.py`) | identity and revision on the scene | `Synchronize`, Create, Inspect, Close | the native engine's documents |
| Enabling and disabling (`__init__.py`, `presentation/__init__.py`, `host/hydra.py`, `host/usd.py`) | the engine, the link, the registered classes, the timer, the log handler | `register`, `unregister` | everything above and the next two |
| Engine bridge (`abi/engine.py`, `abi/library.py`, `abi/registry.py`, `abi/interfaces/`) | the native engine's handle, the interface wrappers with the entry points each read | `Open`, `Shutdown`, an interface's lookup | the native library; lent to the UI |
| UI description (`abi/reflected.py`, `abi/interfaces/ui_schema.py`, `presentation/ui_projection.py`) | the schema being shown, the classes made of it | `Describe`, `Project`, drawing a panel | reads the engine's bytes, gives Blender its classes |
| Geometry (`host/geometry.py`, `host/geometry_sync.py`) | the regions committed, their marks, identities and revisions | `SnapshotObject`, `MarkChanged`, `Commit`, `ApplyMeshVertex` | Blender's change signal; a host's loop of captures |
| Not modelled | `abi/generated/`, `realtime_plane/profile.py` (its loading), packaging, tests | | see the end |

What makes each of them correct:

- *Session.* A value a person asked for is pending until that very value is in effect; late reports,
  batches and records of a replaced session change nothing about it. Regions are released once.
  A window that is full opens again. A session that ended stays ended, and an open is decided.
- *Process.* One Realtime Plane per user, found again by the next host; nothing else is ever
  attached to or signalled; `Stop` ends it and returns.
- *Link.* A session belongs to the process the link holds; identities grow; the link comes back.
- *Image.* After a turn of the timer the image shows exactly what the session has, or says why not;
  bound nodes never point at an image that is gone.
- *UI.* Only a person asks; pending values stay; everything else shows what is in effect.
- *Documents and enabling.* The UI never has a destroyed engine; a failed or undone registration
  leaves nothing; a reconciled scene names a document the engine knows.
- *Engine bridge.* Every entry point that can be reached lies in the part of its table that a live
  engine populated.
- *UI description.* What the engine describes is what is shown, each control once, in classes Blender
  accepts in the order they come.
- *Geometry.* What was committed of a region is what its object is, or the region is marked; every
  point is read; warnings are true; a marked region is committed.

## Modules

| Module | Models | Run by |
|---|---|---|
| `Session` | `RealtimePlaneSession`, one action per stretch between two calls on the ports | (through `SessionExchange`) |
| `SessionExchange` | `Session` composed with its ports and the Realtime Plane at the other end, and the session's properties | `MCSession` |
| `SettingExchange` | abstract specification of what a session promises about settings | property `KeepsPromise` of `SessionExchange` |
| `SessionProofs`, `ReadingProofs`, `ExchangeProofs` | theorems about `SessionExchange` | TLAPS |
| `Process` | several hosts' operations on the process and the state file, one action per system call | `MCProcess` |
| `ProcessProofs` | theorems about `Process` | TLAPS |
| `Link` | `RealtimePlaneLink` and the buttons | (through `CanvasImage`) |
| `CanvasImage` | `Link` composed with the projection, the image and the nodes | `MCCanvasImage` |
| `CanvasProofs` | theorems about `CanvasImage` | TLAPS |
| `UiProjection` | the widgets, their requests and `Refresh` | `MCUiProjection` |
| `UiProofs` | theorems about `UiProjection` | TLAPS |
| `Documents` | the scene's binding and the engine's documents | (through `Extension`) |
| `EngineBridge` | finding and loading the library, creating the engine, binding and dropping its interfaces | (through `Extension`) |
| `Reflected` | the decoder of the engine's self-describing values, and the encoder it is checked against | (through `UiDescription`) |
| `UiDescription` | the classes, panels and drawing that a described UI becomes | (through `Extension`) |
| `Extension` | `register`, `unregister` and the exceptions between their steps, composed of the four above | `MCExtension` |
| `ExtensionProofs` | theorems about `Extension` | TLAPS |
| `Geometry` | what is captured of a Blender object, as functions | (through `GeometrySync`) |
| `GeometrySync` | the tracker, Blender's signal and the host's loop | `MCGeometry` |
| `GeometryProofs` | theorems about `GeometrySync` | TLAPS |

An operator whose name starts with `Slip` is not part of a model. It is a mistake the code could
have made in the definition after it, kept to show that a property notices it: putting
`SlipMaySend` in the place of `MaySend`, for instance, violates `PortsAreWithinLimits`.

### Session

The host has one thread, so `Request`, a turn of `Advance` and `Close` exclude each other; but the
Realtime Plane runs between any two port calls of `Advance`. `turn` says where `Advance` is:
`"idle"` (collect the answer, or give up), `"states"`, `"results"`, `"send"`; `"raised"` when an
exception left it and `"dropped"` once the link let go. `_queued` is a sequence without two entries
for one setting, `_sent` a function to a sequence number and a value, the ports are sequences of
records. A frame costs one slot of `FrameSlots`, standing for `ControlFrameBytes`. The clock is
`waited`, which stops one step past both patiences.

The Realtime Plane (external) is what the code and its tests rely on: it takes a request and
accepts, rejects, closes or acknowledges; applies actions in order and as late as it likes;
publishes states and results within their windows, painting only into regions the host does not
hold; still serves the session this one replaces until it takes the open request. It may also
break the protocol: an answer without the frame that was due (`WrongAnswers`), records that are
missing, unreadable or past their message (`SpoilsRecords`). An answer whose bytes cannot be taken or
read to their end raises when some of its frames have taken effect (`AnswerRaises`).

### Process

Every operation of a host is a row of steps (`at[h]`) with everything else between them. A process
has a PID and a start time; PIDs are few and are reused as soon as they are free. A child that ends
stays a zombie until its parent reaps it, which `Alive`, letting go of the Popen that holds it
(`LetGo`) and starting any other subprocess (`Tidied`) do. A host may go down at every step, and its
children get the system as parent.

`ps` does not always tell the truth. It may take longer than its five seconds (136): the
`TimeoutExpired` ends whatever operation asked (`PsHangs`), which leaves `Stop` before any signal, and
`Start` with a child that nothing records. And it may fail, or print nothing, for a process that runs
(140): `StartTime` is then 0. `Attach` takes that for the end of the process and forgets it; `Stop` signals
nothing and forgets the process, or waits for its own child for as long as that runs (`"unasked"`);
`Start` records an empty start time (228), by which nobody attaches. SIGKILL does not end a process at
once: it is `"killed"`, ends by the fairness of `Dies`, and `Stop` polls it for a second grace, after which
it goes on whether it ended or not.

`wronged`, `together` and each process's `fate` are histories. `together` is set once two hosts were at
work at the same time. A Realtime Plane is `"astray"` when a step lost it while it ran: its start was cut
short by a crash, an exception or a `ps` that hung; `ps` told nothing of it; or its record was removed for
an older process that had its PID. `OnePlane` and `RunningIsRecorded` are about hosts that take turns and
about the other processes (`InSight`). Without these conditions they do not hold, of the code either: it has
no lock over the state file, and a host that crashes between `Popen` (220) and the rename (232) leaves a
process no host finds.

### Link and canvas image

One turn of the timer is two steps: the link moves and the session may receive tiles (`Turn`); the
image follows (`Project`). The Realtime Plane may exit between them; persons and files only change
things between turns, because Blender's main thread runs both. The session is the one of
`Session.tla`, told as opening or open, with a mirror whose tiles have a revision each. A pixel is a
tile's revision *and the identity of the session it came from*, so pixels of another process's
canvas are told apart even with equal revisions. `StopCanvas` may raise after the link let go, with the
process left running; that `ps` tells nothing of a process that runs, and what is then lost, is in `Process`
only.

`Fails` is Blender refusing at any call between 110 and 113: before the image is made or scaled,
before its pixels are set, or after. `FileOpened` brings no image, or one without pixels, of any
size and precision, with the node bound or not.

### UI

Three kinds of widget are told apart by what they hold and what an action carries of it. A number field
holds 32 bits: `Single` rounds a number to them, `Shortest` is the decimal a person meant by it (118-132);
both are constants with assumptions, so the proofs hold for every rounding. A text field or drop-down holds
texts, of which the profile may refuse to encode some (`Refused`). A checkbox holds what neither an action
carries (`session.py:272-280`) nor a report (39, 210-211). An integer field of the code is told like a text:
what it holds is sent and shown as it is. `Refresh` runs inside each turn in which something changed. Writing
a property calls its update callback; `Refreshing` is why that asks for nothing.

### Documents, the engine bridge and enabling

`register` and `unregister` are sequential, but every step of theirs may raise, and what is then
undone, skipped or left behind is the question. `step` is the step to come, `undoing` says which of
the two is undoing: both take the same steps, and differ in what an exception on the way skips
(`Abandons`). `spoiled` is set when a step that undoes raised, or when one left what no list names:
an engine without a bridge, Hydra classes in no tuple, or everything register has started, when the
engine's version raises behind its `try` (156). The documents are those of the engine opened last.

`Extension` extends `EngineBridge`, so opening the engine is the whole of `EngineBridge.Open`: which
library is taken (`Discovers`), whether it exports the bootstrap (`Loads`), has the host's ABI and
creates an engine (`Creates`), and whether each table it serves reaches as far as the last entry point
of its wrapper (`Fetches`, in bytes: `struct_size` takes eight and each entry point the next eight).
The libraries of `MCLibraries` differ in exactly these, with tables that are missing, longer, as long
as needed, and that end before, within and after the last entry point. `OpenRefused` and
`WrapperRaises` are the two ways it can fail, before and after there is an engine.

### UI description

A described UI is a sequence of elements with the place of their parent. `Describe` decodes what the
engine answers; the answer may be a failure, whole, cut short at any place, or changed. Bytes are
units in the model, one for each fixed-width read; the decoder is a function from positions, of which
each asks only for those after it (`Value`, `Taken`, `Reading`, `Values`), and what is read past the end
makes `Decode` refuse. What an engine describes is `WellFormed`: elements in depth-first order, every
parent before its children and no control. `DrawnIn` is `_drawChildren` for one element, given what is
drawn below those after it. `MakeClasses` is what follows: no projected UI
after a failure, `ValueError` out of `register` for bytes that do not decode, or the classes of
`Project`. Blender refuses a class of a name it has and a panel in a panel it has not (`Takes`).

Two statements about pure functions are `ASSUME`s of `MCExtension`, evaluated over every well-formed
schema of at most four elements: `AnswersAreRead` (decoding undoes encoding, and refuses more or less
than that) and `PanelsShareTheControls` (each control is drawn in exactly the panel it belongs to, and
a panel's parent is made before it). For schemas of any length and depth, that what was encoded is decoded
and the whole of the second are proved (`EncodedIsDecoded`, `DrawnInItsPanel`, `ProjectInOrder`); the
refusal of what was cut short or changed is checked only.

### Geometry

A snapshot is two flat buffers, as `foreach_get` fills them: `Read` joins the elements, `DropWeights`
takes three of every four components, `Checked` refuses what is not triples or points past the
vertices. A component stands for its 32-bit word. `MCObjects` holds a mesh, one whose triangle names a
vertex it lacks, two with the same bytes in another split, a curve with a bezier and a weighted
spline, a drawing with a frame without points, and an object that is none of these.

`GeometrySync` adds to the tracker the handler and the loop its documentation gives (21-32); the
add-on does not call it yet. Blender changes an object with or without a mark, or marks one that did
not change; the loop takes the marked regions in sorted order, captures one (an exception ends the
loop), and commits it. `late` says how the object changed between its capture and its commit. The commit clears
that mark too, so the change is never read again: the region is then `overtaken`, and `StaleIsMarked` leaves
it out, like one whose change Blender did not report (`quiet`). In the same window verification is wrong: the
mark makes the commit warn of a signal that is too broad, though the object did change, and the next commit
warns of a change that nobody marked. `WarningsAreTrue` leaves that window out, and says of every other commit
that its warning is true of the object and of what Blender reported.

## Runs

| Run | Specification, bounds | Shows |
|---|---|---|
| `session_asking` | 2 settings, 2 values, 3 asks, 1 late record, wrong answers, spoiled records, no tiles | `LatestAskIsShown`, `EffectiveIsReported`, `ActionsArriveInOrder`, `ClosedForGood`, and that the session implements `SettingExchange` (`KeepsPromise`) |
| `session_drawing` | 2 tiles, 2 regions and windows of 2, 4 results, 1 late record | `MirrorIsDrawn`, `RegionsAreAccountedFor`, `PortsAreWithinLimits` |
| `session_live` | fair host and Realtime Plane; windows of 1, 2 asks, 2 results | `AskedIsSettled`, `WindowsReopen`, `OpeningIsDecided` |
| `session_stuck_opening` | fair host, wrong answers | **violation** of `OpeningIsDecided` |
| `process_hosts` | 2 hosts, 2 PIDs, 4 processes started, 1 crash or quit | `OwnChildIsTheTarget`, `StopEndsIt`, `OnePlane`, `RunningIsRecorded`, `AttachesToAPlane` |
| `process_live` | fair hosts; 2 PIDs, 2 processes started, no host goes down | `OwnExitIsNoticed`, `StopReturns` |
| `canvas_image` | fair timer; 2 tiles of revisions to 1, 2 sizes, 3 sessions, 2 processes, 1 end of the host, 1 loss, 1 failure | `SessionIsWithTheProcess`, `IdentitiesGrow`, `ComesBack`, `ExitIsShown`, `ImageShowsTheCanvas`, `NodesShowTheImage`, `ShownIsInThePixels` |
| `ui_projection` | a number field, a text field and a checkbox; 4 numbers of which 2 fit 32 bits exactly; 3 texts, one of which no action carries | `AskedIsMeant`, `PendingIsShown`, `ShowsWhatIsInEffect` |
| `ui_refused` | the same without the checkbox, fair sessions and reports | **violation** of `RefusedIsTakenBack` |
| `extension` | 3 engines, 2 exceptions at any steps, 13 libraries, 4 USD runtimes, 3 schemas and every damaged answer, 2 documents | `UiHasItsEngine`, `LeavesNothing`, `BindingIsKnown`, `EntryPointsAreServed`, `UiIsAsDescribed`, `ClassesAreAccepted` |
| `extension_unwinding` | one exception, in an interface's constructor | **violation** of `NoEngineIsLeft` |
| `geometry` | fair host loop; 2 regions, 8 objects, 3 signals | `StaleIsMarked`, `ReadsEveryPoint`, `WarningsAreTrue`, `IdentitiesAreKept`, `MarkedIsCommitted` |

Type invariants are proved, for every value of the constants, of the session, the process, the canvas,
the UI, the geometry and the extension; TLC checks `Process`'s as well.

Why the bounds are enough. *Asking:* three asks of two settings fill a queue of two, replace a value
while it waits, while it is under way and after it was accepted, and make more than one batch of
`FrameSlots = 2`. *Drawing:* four results over two regions use each region twice, which is when a double
or a lost release shows; windows of two fill. *Process:* two PIDs and four births make a PID pass from a
Realtime Plane to a stranger and back while a record of the first is still around; a host that goes down
once does so at every step, with another host, or the same again, after it. In `process_live` one host
lets go of its child and finds it again, which needs no host to go down. *Image:* two sizes and two
tiles make a resize with one tile newer and one not; three sessions with two processes make a session
follow one of the same and one of another process. *UI:* two decimals that round to one number tell what
is sent from what is shown. *Extension:* the third enabling is the first with an engine after one that
failed and one that was stopped. `MCNested` has a section in a box in a section, the nesting in which a
panel's parent is not its element's. *Geometry:* three signals are one change before a capture, one
between capture and commit, and one after it; two regions are what it takes for an identity to be given
twice and for a region that cannot be captured to hold up another. The bounds on counters are `Max...`
constants in guards; everything else is unbounded and finite by itself. Deadlock is not checked where a
bound or a host that went down for good ends the behaviours; `ui_projection` has no such end and checks
it.

### Fairness

- *The timer.* Blender runs a registered timer again and again while the add-on is enabled:
  `WF(HostAdvance)`, `WF(Turn)`, `WF(Project)`, `WF(NoticeExit)`. A host that began an operation goes
  on with it unless it goes down: `WF(Continues(h))`.
- *What is killed* ends: `WF(Dies(p))`. SIGKILL cannot be ignored; only the time it takes is open.
- *The clock* goes on: `WF(Clock)`, `WF(ClockAdvances)`.
- *The Realtime Plane* is fair only in `session_live`, where it is assumed to keep running
  (`PlaneFairness`); `session_stuck_opening` assumes nothing of it.
- *An open is decided* is assumed of the abstract session in `CanvasImage` by `SF(Turn /\ Decided)`
  (strong, because turns that leave it opening are between). It is what `session_live` shows with
  well-formed answers, and what `session_stuck_opening` shows to fail otherwise: `ComesBack` holds
  only where the open is decided.
- *The geometry's host* runs its loop again and again, as the documentation of `geometry_sync.py` has
  it (21-32): `WF(Host)`. A capture that raises ends the loop, not the host.
- No fairness is assumed of persons, of exits, of files or of failures.

## Findings

1. **A session can stay opening for ever** (`session_stuck_opening`; `session.py:168`). An answer to
   the open request that neither accepts, rejects nor closes this session clears the request under
   way and leaves the state `OPENING`. Patience is only looked at while a request is under way, so
   nothing ends the session, and the link retries only closed ones. `session.py:43` says an unanswered
   open "is given up quickly and tried again".
2. **A refused change is never taken back** (`ui_refused`; `ui_projection.py:146`). `Request` returns
   False for a text that the profile refuses to encode (`PayloadError`, `session.py:126-128`), which the
   callback only logs. The field keeps what the person put in although it is neither pending nor in
   effect, until a turn in which something else changed causes a `Refresh`; `ui_projection.py:18` says that
   a control "shows the state binding's effective value".
3. **An engine is left when one of its interfaces is refused** (`extension_unwinding`;
   `abi/engine.py:131`). `_start` raises after `fd_engine_create`, and nobody holds the bridge that
   could shut it down, although `__init__.py:111` promises to unwind everything.

Other weaknesses are in the model as conditions of its properties rather than as runs:

- *`process.py`:* a second Realtime Plane is started after a crash, or a `ps` that hangs or tells nothing,
  between 220 and 232, and after two hosts start at once. `Attach` and `Stop` forget a process that runs
  when `ps` fails or prints nothing (140, 174, 206); `Stop` then waits for its own child, which nobody asked
  to end, without a limit (185). What was only found and outlives the second grace is forgotten while
  it ends (181-186). `_forget` removes a newer process's record if that has the same PID, or came between
  the read and the unlink (193-194), though its docstring says that it stays. A process found through the
  state file is signalled after its PID may have been given away (174-180).
- *`channels.py`:* the buffer of a stream is shared with the records of the session that was replaced. Until
  the first record of the new one is read, both together may be more than it holds (safe overflow is off,
  75-76); `PortsAreWithinLimits` counts all of them only from then on.
- *`__init__.py`:* a scene of a file opened after `register` is never reconciled with the engine
  (`reconciled`; 133-135). An exception in `unregister`'s removal of the Hydra engines leaves the engine
  lent and alive (184), though 165 says that every step runs; an exception of the engine's version, or of
  Blender's namespace, behind the `try` of `register` (156) leaves everything registered and `_engine` None,
  though 111 says that any failure is unwound (`spoiled`, both). An answer to `Describe` that does not decode
  ends `register` with a `ValueError`, where a call that fails is caught (`ui_projection.py:368`).
- *`geometry_sync.py`:* a mark made between capture and commit is lost with the commit (135), and around
  that window both warnings can be wrong (149-159; `late`, `overtaken`); a region that cannot be captured
  starves those sorted after it.
- *`ui_projection.py`:* a checkbox asks for nothing, since no payload carries a truth value
  (`session.py:272-280`), and is never shown one, since no report does (39, 210-211).

## Proofs

TLAPS proves the following for every value of the constants that meets the named assumptions of the
modules (`SessionAssumption`, `ExchangeAssumption`, `ProcessAssumption`, `LinkAssumption`,
`CanvasAssumption`, `NumbersAssumption`, `GeometryAssumption`, `DocumentsAssumption`,
`EngineBridgeAssumption`, `ExtensionAssumption`, `WrittenAssumption`), which TLC evaluates on every run that
has them. Most of them only
give the constants their types and keep `None` apart from data.

- `SessionProofs`: `TypeCorrect` and `EndedStaysEnded`. `ClosedForGood` is not inductive by itself:
  that nothing is pending in an ended session needs `ClosedIsEmpty`, and that it sends nothing needs
  that it is not between reading and sending. `IInv` joins these with the types and with
  `Len(waiting) <= accepted`, without which `Applied` leaves the naturals. One lemma per action.
- `ReadingProofs`: `EffectiveIsAlwaysReported` and `MirrorIsAlwaysDrawn`. Neither is inductive by
  itself: what is still on its way must be true as well (`StatesAreTold`, `ResultsArePainted`), and an
  exception in the middle of a record must never be undone (`LostForGood`). Nothing is assumed of the
  answers, of what is skipped or spoiled, or of when anything arrives.
- `ExchangeProofs`: what holds between the two ends, in layers. *The wire* (`ExchangeInductive`): one
  request is under way and is answered before the next, but for a farewell (`Wire`); what each end has
  read is at most what the other has sent, and records arrive in the order of their numbers (`Counted`,
  `InTheirOrder`). Nothing is assumed of the answers. `PortsStayWithinLimits` follows, for the records
  of this session always, and for all records of a stream once one of this session was read (`Rising`:
  what is behind an own record is own, `OwnLeft`); and for `ActionWindow > 1`: with a window of one the
  farewell of `Close` beside a request under way would be one too many (the transport would refuse it,
  and the link swallows that; the window's size is in the profile, which is not in this repository).
  *The order* (`ActionsAlwaysArriveInOrder`): the actions under way are the newest sent, and all before
  them were accepted. *The settings* (`LatestAskIsAlwaysShown`): a value asked for is followed from the
  queue to the request, to what waits, into effect and into the newest record, by what the actions ahead
  will still do to it (`Settling`); `SessionKeepsPromise` is the refinement of `SettingExchange`, step
  by step. *The regions* (`RegionsStayAccountedFor`): each is in one result, release or request
  (`Pooled`). The last three restrict the Realtime Plane, and say how. `HonestAnswers`: no answer
  acknowledges actions that were dropped, and none that ends the session accepts it afterwards
  (`session.py:183`: that clears the queue of a session which goes on); with either the statements are
  false, of the code as well. `Obedient`: no request and no record is dropped, which loses the regions
  in it. The runs that check these properties keep to the same restrictions.
- `ProcessProofs`: all six properties of `process_hosts`, for any number of hosts, PIDs, starts and
  crashes, and whatever `ps` tells or does not. The argument has three parts. *Identities:* a start time is
  given once (`Aged`), so what is written down of a Realtime Plane is never true of a stranger (`Named`,
  `FilesNamed`), an empty start time is true of nothing, and what was killed, went astray or ended is never
  in sight again (`Past`, `IdentitiesStay`). *Children:* a host's own child keeps its PID until that host
  reaps it (`Own`), so what it signals is its child. *Turns:* while hosts take turns, the one at work knows
  what the file says and that nothing else is in sight (`Knows`, `InTurns`). `StopEndsIt` is then what
  `Past` says of the steps after the last signal. `OneHost` reduces a step to the host that takes it, and
  one lemma per step does the rest.
- `UiProofs`: `OnlyAPersonAsks`, `PendingStays`, `EffectiveIsShown`. The three rest on each other and
  on `CheckboxesNeverPend`: a pending value is what is meant, so it is what the widget holds when it is
  settled or lost; a text that is refused leaves what is pending as it was, and `EffectiveIsShown` says
  nothing of the widget that holds it.
- `CanvasProofs`: `SessionStaysWithItsProcess`, `IdentitiesAlwaysGrow`, `NodesAlwaysShow`,
  `ShownTilesAreThere` and `ImageAlwaysShowsTheCanvas`, for every number of sessions, processes, tiles
  and sizes. A node that lost its image needs that `image # None` is never reached without `Restored`;
  `ShownIsInThePixels` needs that a projection belongs to the session followed. `ImageShowsTheCanvas`
  needs more (`CopyInv`): as long as its session lasts the projection lags behind the copy in changed
  tiles only, is never larger, and is what the image shows unless there is an error; and a new session
  is never taken for the one followed, because identities grow.
- `ExtensionProofs`: `UiAlwaysHasItsEngine`, `AlwaysLeavesNothing`, `EntryPointsAreAlwaysServed`,
  `BindingIsAlwaysKnown`, `ClassesAreAlwaysAccepted`, `EncodedIsDecoded`, `UiIsAlwaysAsDescribed` and
  `ExtensionTypes`, for any libraries, descriptions, runtimes and places of exceptions. `IInv` says for
  each step what is there at it and what not yet or no more: `Bound` (the bridge's entry points),
  `Alive` (which engine is alive, and that the lent one is), `Tidy` (the list of classes and Blender's),
  `Clean` (everything else, while no undoing step raised). `BindingIsKnown` stands on its own invariant,
  which follows the scene and the documents. `ClassesAreAlwaysAccepted` is for schemas of any length and
  depth: a panel's parent is a panel before it (`PanelsArePanels`, `ParentIsBefore`), so the classes
  come in an order Blender takes (`ProjectInOrder`), and what is still to be given stays so
  (`Accepting`). `Panels` and `Project` are recursive functions; that they exist is proved with
  `CountingUp` (see `GeometryProofs`). Of the written classes it is assumed what the comment at
  `presentation/__init__.py:95-101` asks for (`WrittenAssumption`): parents first, names of their own.
  `UiIsAlwaysAsDescribed` follows the UI from the engine's bytes to what is on the screen. *Decoding:*
  `EncodedIsDecoded` reads back every well-formed schema. What stands in the data from a position on
  (`Holds`) is read as its value, and reading goes on behind it (`IsRead`); a list or a record is so if
  its parts are (`ListIsRead`, `RecordIsRead`), by counting them; the levels of a schema are four and
  need no induction of their own (`ChoicesAreRead` and `BindingsAreRead`, `ElementIsRead`,
  `SchemaIsRead`). *Drawing:* `DrawnInItsPanel`. The elements above a control up to the first section or
  surface are a chain (`Chained`) with one panel in it, the one of `Panels`; the control is drawn once
  below each of the chain and below nothing else, by counting from the last element to the first
  (`DrawnAbove`). *Showing:* while nothing was spoiled, what is listed and what is still to come are
  together the written classes and those of the schema (`Showing`), and what is listed has every parent
  before its child, from whichever end it is built or taken down (`RemoveLastInOrder`). `Answering` says
  that the engine can be asked. Of the descriptions `ExtensionAssumption` assumes that a call that
  succeeds hands out a well-formed schema, encoded, or bytes that do not decode (there are no other
  bytes in the runs, either), that the host's UI interface has its entry point, and that `Absent` and
  `ValueError` are no data.
- `GeometryProofs`: `StaleIsAlwaysMarked`, `WarningsAreAlwaysTrue`, `IdentitiesAreAlwaysKept`, for any
  objects and regions. What is held is the object's snapshot as long as it is not late (`HeldIsFresh`),
  what came late is marked or known to be unmarked (`LateIsKnown`), and identities differ (`IdsDiffer`).
  Of the warnings it says that outside the late window a change warned of as missed is a change of the
  snapshot that Blender did not report, and one of a signal too broad leaves the object what was
  committed, up to what the digest cannot tell apart: two snapshots with as many vertices it can
  (`DigestTells`). `EveryPointIsAlwaysRead` is about the buffers alone, of objects of any size: a buffer
  holds the components of points, one behind the other (`Holds`), reading makes such buffers
  (`ReadHolds`), leaving out the weights and joining parts keep them so (`WeightsGo`, `HoldsAll`), and
  grouping one by three gives the points (`GroupedIs`). Of the objects it is assumed what Blender gives
  (`WellFormed`): points of three components, with a weight in a spline that is not a bezier one, and
  triangles of three. `FlattenSeq` is a recursive function: that it exists and what it does step by step
  is proved with `CountingUp`, which is induction over a *set* of numbers, by way of the least number
  outside it.

Every safety property of the passing runs is proved. Model-checked only: all liveness (fairness and
`ENABLED` are out of the prover's reach), and of the decoder that it refuses what is cut short, changed or
too long (`AnswersAreRead`). That it reads back values nested to *any* depth would be an induction over
nested data: the library's induction theorems take an operator as a parameter, which none of the provers
can instantiate, and `CountingUp` counts positions but not levels; a UI description has a fixed number of
levels.

## Assumptions and what is left out

- One canvas surface, one surface identity; a canvas only grows within one session. A canvas that
  changes to another size and back between two turns would keep the shape `ImageProjection` compares.
- The wall clock is never set back, and starting a host takes longer than the nanoseconds by which
  `_lastSessionId` runs ahead of it.
- Every number fits 32 bits. A larger one makes `struct.pack` raise, at `ui_projection.py:191` out of
  the timer's callback.
- Start times differ in the model, where `ps` tells them to the second: a process of the same PID and the
  same second would be taken for the recorded one.
- `ps` answers the link truly when it attaches and opens (in `Link`; in `Process` it need not).
- The check of Blender's version (`__init__.py:120-124`) refuses before anything is started.
- The Realtime Plane does not close and accept one session in one answer (`session.py:183`).
- One binding per control; the payload of an action is its value.
- The image's colour settings, row order and the cropping of tiles at the edge, views' redraws, the
  plane's geometry and the shader's links are layout. `CreateTileMesh` and
  `TopologyProvenanceSummary` only make output.
- That curves of Blender's `CURVES` type have the attributes `geometry.py` reads of splines is taken
  from that code: Blender's own data is external.
- The paths in `library.py`, the versions and the digest in `usd.py` are only reported; that a path is
  inside a directory is a prefix of its parts. `profile.py` loads modules and keeps no state;
  `abi/generated` is generated; `fd_plugin/` holds placeholders.

## Plan

Done, in this order: the session and its exchange; the process; link and image; UI; documents and
enabling; geometry; the engine bridge with library discovery; the decoder and the UI description; proofs
about the process, the extension, the geometry, what a session reads, the exchange, the image, and the UI
from its description to what is shown. What is left:

1. `ImageProjection._write` (which pixels a tile covers, row order and cropping) as a function against a
   reference definition.
