------------------------------ MODULE Extension ------------------------------
(***************************************************************************)
(* How the add-on starts and stops (extension/__init__.py): register opens   *)
(* the native engine (EngineBridge), reconciles the scene's document         *)
(* (Documents), registers the Hydra engines (extension/host/hydra.py), lends *)
(* the engine and the link to the UI, makes the classes of the UI the engine *)
(* describes (UiDescription), registers them with the written ones           *)
(* (extension/presentation/__init__.py) and starts the timer                 *)
(* (extension/presentation/realtime_plane.py).  Every one of these may       *)
(* raise, and what was started is undone; so does unregister undo it.        *)
(*                                                                          *)
(* All of it runs on Blender's main thread: the steps are told apart here    *)
(* for the exceptions between them.                                          *)
(***************************************************************************)
EXTENDS Documents, EngineBridge, UiDescription

CONSTANTS
    Descriptions,   \* what an engine may answer to Describe: [succeeds, data, meant]
    Runtimes,       \* what Blender's USD runtime may be: [hydra, imports, root, delegates]
    ResourceRoots,  \* the directories of what Blender ships; a path is the sequence of its parts
    MayRaise,       \* the steps that may raise
    MaxRaises       \* bound: exceptions

ASSUME ExtensionAssumption ==
    /\ MaxRaises \in Nat
    /\ \A runtime \in Runtimes : {runtime.hydra, runtime.imports} \subseteq BOOLEAN /\ runtime.delegates \in Nat
    /\ "UiSchema" \in DOMAIN Tables /\ "describe" \in EntryPoints("UiSchema")
    /\ Absent \notin Nat
    \* A call that succeeds hands out a description, encoded, or bytes that are none.
    /\ \A description \in Descriptions :
         description.succeeds =>
            \/ description.meant = Absent /\ Describe(description.data) = ValueError
            \/ /\ WellFormed(description.meant) /\ description.data = EncodedSchema(description.meant)
               /\ description.meant \notin {Absent, ValueError} /\ [Elements |-> description.meant] # ValueError

VARIABLES
    step,           \* the step of register or unregister to come, or "idle"
    undoing,        \* what the steps that undo belong to: "register", "unregister", or "nothing"
    engine,         \* the engine register has opened or _engine holds: a number, 0 for None
    enabled,        \* _engine is set
    lent,           \* the engine presentation was lent, 0 for None
    link,           \* presentation was lent a link
    projection,     \* _projection: the schema being shown, or Absent
    coming,         \* the classes register still has to register, in order
    classes,        \* the presentation classes Blender has registered
    listed,         \* _registered, in order
    hydra,          \* Hydra classes Blender has registered
    hydraKnown,     \* those in _hydraClasses
    watching,       \* the timer runs
    logging,        \* the log handler is installed
    published,      \* the engine's version is in the driver namespace
    raises,
    meant,          \* history: what the engine meant by its last answer to Describe, or Absent
    reconciled,     \* history: the scene is one that was reconciled with this engine or bound by it
    spoiled         \* history: a step that undoes raised, or one left what nothing undoes

lifeVars == <<step, undoing, engine, enabled>>
loanVars == <<lent, link>>
shownVars == <<projection, meant>>
classVars == <<coming, classes, listed>>
hydraVars == <<hydra, hydraKnown>>
uiVars == <<loanVars, shownVars, classVars, hydraVars, watching>>
shellVars == <<logging, published>>
histories == <<reconciled, spoiled>>
vars == <<documentVars, bridgeVars, lifeVars, uiVars, shellVars, raises, histories>>

Init ==
    /\ documents = NoDocuments /\ scene \in Bindings \cup {None}
    /\ BridgeInit
    /\ step = "idle" /\ undoing = "nothing" /\ engine = 0 /\ enabled = FALSE
    /\ lent = 0 /\ link = FALSE /\ projection = Absent /\ meant = Absent
    /\ coming = <<>> /\ classes = {} /\ listed = <<>> /\ hydra = 0 /\ hydraKnown = 0
    /\ watching = FALSE /\ logging = FALSE /\ published = FALSE
    /\ raises = 0 /\ reconciled = FALSE /\ spoiled = FALSE

Raises(what) == what \in MayRaise /\ raises < MaxRaises /\ raises' = raises + 1
-----------------------------------------------------------------------------
(* register                                                                  *)

Register ==
    /\ step = "idle" /\ ~enabled /\ engines < MaxEngines
    /\ step' = "open" /\ logging' = TRUE
    /\ UNCHANGED <<documentVars, bridgeVars, undoing, engine, enabled, uiVars, published, raises, histories>>

\* A register that failed before it had an engine.
Refused == step' = "idle" /\ logging' = FALSE /\ UNCHANGED <<documents, engine, undoing>>

\* EngineBridge.Open: the library, the ABI or the engine refuses, or the engine is created and
\* one of its interfaces is then missing or too old, or the bridge is open.
OpenEngine ==
    /\ step = "open"
    /\ \E library \in Libraries :
         \/ /\ OpenRefused(library) /\ Raises("create") /\ Refused
            /\ UNCHANGED spoiled
         \/ /\ WrapperRaises(library) /\ Raises("interface") /\ Refused
            /\ spoiled' = TRUE
         \/ /\ Opened(library) /\ step' = "synchronize"
            /\ engine' = engines' /\ documents' = NoDocuments
            /\ UNCHANGED <<undoing, logging, raises, spoiled>>
    /\ UNCHANGED <<scene, enabled, uiVars, published, reconciled>>

\* What register does on an exception: undo everything, and raise it again.
Unwinds == step' = "stop watching" /\ undoing' = "register"

\* The scene, when Blender lets the add-on see one.
SynchronizeScene ==
    /\ step = "synchronize"
    /\ \/ /\ Raises("synchronize") /\ Unwinds
          /\ UNCHANGED <<documentVars, reconciled>>
       \/ /\ step' = "hydra"
          /\ \/ Synchronize /\ reconciled' = TRUE
             \/ UNCHANGED documentVars /\ reconciled' = FALSE
          /\ UNCHANGED <<undoing, raises>>
    /\ UNCHANGED <<bridgeVars, engine, enabled, uiVars, shellVars, spoiled>>

\* ProbeBundledRuntime: a USD runtime that Blender did not ship is refused, as is a missing one.
IsBundled(runtime) == runtime.imports /\ \E root \in ResourceRoots : IsPrefix(root, runtime.root)

\* RegisterAvailableEngines: none if this Blender has no Hydra; what it registered before it
\* raised is in no list.
RegisterHydra ==
    /\ step = "hydra"
    /\ \E runtime \in Runtimes :
         \/ /\ ~runtime.hydra
            /\ step' = "lend" /\ hydraKnown' = 0 /\ UNCHANGED <<undoing, hydra, raises, spoiled>>
         \/ /\ runtime.hydra /\ ~IsBundled(runtime) /\ Unwinds
            /\ UNCHANGED <<hydraVars, raises, spoiled>>
         \/ /\ runtime.hydra /\ IsBundled(runtime) /\ Raises("hydra") /\ Unwinds
            /\ hydra' \in hydra..Max({hydra, runtime.delegates}) /\ spoiled' = (spoiled \/ hydra' # hydra)
            /\ UNCHANGED hydraKnown
         \/ /\ runtime.hydra /\ IsBundled(runtime)
            /\ step' = "lend" /\ hydra' = Max({hydra, runtime.delegates}) /\ hydraKnown' = runtime.delegates
            /\ UNCHANGED <<undoing, raises, spoiled>>
    /\ UNCHANGED <<documentVars, bridgeVars, engine, enabled, loanVars, shownVars, classVars, watching,
                   shellVars, reconciled>>

\* A new link, which may find a Realtime Plane, and the loans.
Lend ==
    /\ step = "lend"
    /\ \/ Raises("reattach") /\ Unwinds /\ UNCHANGED loanVars
       \/ /\ step' = "describe" /\ lent' = engine /\ link' = TRUE
          /\ UNCHANGED <<undoing, raises>>
    /\ UNCHANGED <<documentVars, bridgeVars, engine, enabled, shownVars, classVars, hydraVars, watching,
                   shellVars, histories>>

\* presentation.register first makes its list: the written classes, and what GeneratedClasses
\* makes of the engine's description.  A call that fails is caught and leaves no projected UI;
\* bytes that do not decode raise, and no class is registered.
MakeClasses ==
    /\ step = "describe"
    /\ \E description \in Descriptions :
         LET schema == Describe(description.data) IN
         /\ meant' = IF description.succeeds THEN description.meant ELSE Absent
         /\ \/ /\ ~description.succeeds \/ ~Serves("UiSchema", "describe")
               /\ projection' = Absent /\ coming' = Ordered(<<>>) /\ step' = "classes"
               /\ UNCHANGED undoing
            \/ /\ description.succeeds /\ Serves("UiSchema", "describe") /\ schema = ValueError
               /\ projection' = Absent /\ Unwinds
               /\ UNCHANGED coming
            \/ /\ description.succeeds /\ Serves("UiSchema", "describe") /\ schema # ValueError
               /\ projection' = Projection(schema) /\ coming' = Ordered(Project(schema))
               /\ step' = "classes"
               /\ UNCHANGED undoing
    /\ UNCHANGED <<documentVars, bridgeVars, engine, enabled, loanVars, classes, listed, hydraVars,
                   watching, shellVars, raises, histories>>

\* Blender takes no second class of a name, and no panel in one it does not have.
Names == {class.name : class \in classes}
Takes(class) == class.name \notin Names /\ class.parent \in Names \cup {Absent}

\* The rest of presentation.register: one class after the other.
RegisterClass ==
    /\ step = "classes"
    /\ \/ /\ coming # <<>> /\ ~Takes(Head(coming)) /\ Unwinds
          /\ coming' = <<>> /\ UNCHANGED <<classes, listed, raises>>
       \/ /\ coming # <<>> /\ Raises("class") /\ Unwinds
          /\ coming' = <<>> /\ UNCHANGED <<classes, listed>>
       \/ /\ coming # <<>> /\ Takes(Head(coming))
          /\ classes' = classes \cup {Head(coming)} /\ listed' = Append(listed, Head(coming))
          /\ coming' = Tail(coming) /\ UNCHANGED <<step, undoing, raises>>
       \/ /\ coming = <<>> /\ step' = "watch"
          /\ UNCHANGED <<classVars, undoing, raises>>
    /\ UNCHANGED <<documentVars, bridgeVars, engine, enabled, loanVars, shownVars, hydraVars, watching,
                   shellVars, histories>>

\* Watch, and the end of register, which is after what it would undo: an exception there, of the
\* engine's version or the driver namespace, leaves everything as it is and the add-on not enabled.
StartWatching ==
    /\ step = "watch" /\ watching' = TRUE
    /\ \/ /\ Raises("watch") /\ Unwinds
          /\ UNCHANGED <<engine, enabled, published, spoiled>>
       \/ /\ Raises("publish") /\ step' = "idle" /\ engine' = 0 /\ spoiled' = TRUE
          /\ UNCHANGED <<undoing, enabled, published>>
       \/ /\ step' = "idle" /\ enabled' = TRUE /\ published' = TRUE
          /\ UNCHANGED <<undoing, engine, raises, spoiled>>
    /\ UNCHANGED <<documentVars, bridgeVars, loanVars, shownVars, classVars, hydraVars, logging,
                   reconciled>>
-----------------------------------------------------------------------------
(* unregister, and what register undoes, which take the same steps; they     *)
(* differ in what an exception on the way leaves out.                        *)

Unregister ==
    /\ step = "idle"
    /\ IF enabled
       THEN /\ step' = "stop watching" /\ undoing' = "unregister"
            /\ UNCHANGED <<loanVars, shellVars>>
       ELSE /\ lent' = 0 /\ link' = FALSE /\ published' = FALSE /\ logging' = FALSE
            /\ lent # 0 \/ link \/ logging
            /\ UNCHANGED <<step, undoing>>
    /\ UNCHANGED <<documentVars, bridgeVars, engine, enabled, shownVars, classVars, hydraVars, watching,
                   raises, histories>>

StopWatching ==
    /\ step = "stop watching" /\ step' = "drop classes" /\ watching' = FALSE
    /\ UNCHANGED <<documentVars, bridgeVars, undoing, engine, enabled, loanVars, shownVars, classVars,
                   hydraVars, shellVars, raises, histories>>

\* An exception while undoing: unregister goes on with what its finally clauses hold, and
\* register leaves it there.
Abandons(next) ==
    /\ spoiled' = TRUE
    /\ IF undoing = "unregister" THEN step' = next /\ UNCHANGED <<undoing, engine>>
       ELSE step' = "idle" /\ undoing' = "nothing" /\ engine' = 0

\* presentation.unregister, in reverse; a class is taken off the list before Blender drops it.
SlipPopped == 1
Popped == Len(listed)
DropClass ==
    /\ step = "drop classes"
    /\ \/ /\ listed = <<>> /\ step' = "let go"
          /\ UNCHANGED <<classes, listed, undoing, engine, raises, spoiled>>
       \/ /\ listed # <<>> /\ listed' = RemoveAt(listed, Popped) /\ classes' = classes \ {listed[Popped]}
          /\ UNCHANGED <<step, undoing, engine, raises, spoiled>>
       \/ /\ listed # <<>> /\ Raises("drop class") /\ listed' = RemoveAt(listed, Popped)
          /\ UNCHANGED classes /\ Abandons("let go")
    /\ UNCHANGED <<documentVars, bridgeVars, enabled, loanVars, shownVars, coming, hydraVars, watching,
                   shellVars, reconciled>>

\* The link is let go of (unregister only; a link of register has no session yet) and taken
\* back, and the Hydra engines go; one that raises leaves out what comes after.
SlipLetGo == "take back"        \* without the Hydra engines
LetGo == "drop hydra"
LetGoOfLink ==
    /\ step = "let go" /\ step' = LetGo
    /\ link' = IF undoing = "unregister" THEN FALSE ELSE link
    /\ UNCHANGED <<documentVars, bridgeVars, undoing, engine, enabled, lent, shownVars, classVars,
                   hydraVars, watching, shellVars, raises, histories>>
DropHydra ==
    /\ step = "drop hydra"
    /\ \/ /\ hydra >= hydraKnown
          /\ step' = "take back" /\ hydra' = hydra - hydraKnown /\ hydraKnown' = 0
          /\ UNCHANGED <<undoing, engine, raises, spoiled>>
       \/ /\ Raises("drop hydra") /\ hydraKnown > 0
          /\ hydra' \in Max({0, hydra - hydraKnown})..hydra /\ UNCHANGED hydraKnown
          /\ Abandons("end")
       \/ /\ hydra < hydraKnown     \* classes of an earlier time that Blender no longer has
          /\ UNCHANGED <<hydraVars, raises>> /\ Abandons("end")
    /\ UNCHANGED <<documentVars, bridgeVars, enabled, loanVars, shownVars, classVars, watching, shellVars,
                   reconciled>>

\* The loans end before the engine does.
SlipTakenBack == lent
TakenBack == 0
TakeBack ==
    /\ step = "take back" /\ step' = "shut down"
    /\ lent' = TakenBack /\ link' = FALSE
    /\ UNCHANGED <<documentVars, bridgeVars, undoing, engine, enabled, shownVars, classVars, hydraVars,
                   watching, shellVars, raises, histories>>
ShutDown ==
    /\ step = "shut down" /\ step' = "end"
    /\ Shutdown /\ documents' = NoDocuments
    /\ UNCHANGED <<scene, undoing, engine, enabled, uiVars, shellVars, raises, histories>>
End ==
    /\ step = "end" /\ step' = "idle" /\ undoing' = "nothing"
    /\ engine' = 0 /\ enabled' = FALSE /\ published' = FALSE /\ logging' = FALSE
    /\ UNCHANGED <<documentVars, bridgeVars, uiVars, raises, histories>>
-----------------------------------------------------------------------------
(* The add-on is enabled or not, and Blender goes on.                        *)

Press ==
    /\ step = "idle" /\ lent # 0 /\ classes # {} /\ Buttons
    /\ Serves("Documents", "create") /\ Serves("Documents", "query") /\ Serves("Documents", "close")
    /\ reconciled' = (reconciled \/ scene = None)
    /\ UNCHANGED <<bridgeVars, lifeVars, uiVars, shellVars, raises, spoiled>>
EngineRevises ==
    /\ step = "idle" /\ enabled /\ Revised
    /\ UNCHANGED <<bridgeVars, lifeVars, uiVars, shellVars, raises, histories>>
OpensFile ==
    /\ step = "idle" /\ SceneChanges /\ reconciled' = FALSE
    /\ UNCHANGED <<bridgeVars, lifeVars, uiVars, shellVars, raises, spoiled>>

Enabling ==
    \/ Register \/ OpenEngine \/ SynchronizeScene \/ RegisterHydra \/ Lend
    \/ MakeClasses \/ RegisterClass \/ StartWatching
Undoing == StopWatching \/ DropClass \/ LetGoOfLink \/ DropHydra \/ TakeBack \/ ShutDown \/ End
Next == Enabling \/ Unregister \/ Undoing \/ Press \/ EngineRevises \/ OpensFile

Spec == Init /\ [][Next]_vars
-----------------------------------------------------------------------------
Steps == {"idle", "open", "synchronize", "hydra", "lend", "describe", "classes", "watch",
          "stop watching", "drop classes", "let go", "drop hydra", "take back", "shut down", "end"}

\* The state is of these shapes; _registered never names a class Blender does not have.
TypeOK ==
    /\ documents \in [DOMAIN documents -> 1..MaxRevision] /\ DOMAIN documents \subseteq Ids
    /\ scene \in Bindings \cup {None}
    /\ engines \in 0..MaxEngines /\ live \subseteq 1..engines /\ handle \in 0..engines
    /\ step \in Steps /\ undoing \in {"nothing", "register", "unregister"}
    /\ engine \in 0..engines /\ lent \in 0..engines
    /\ \A i \in DOMAIN listed : listed[i] \in classes
    /\ hydra \in Nat /\ hydraKnown \in Nat
    /\ {enabled, link, watching, logging, published, reconciled, spoiled} \subseteq BOOLEAN
    /\ raises \in 0..MaxRaises

\* The engine that presentation was lent is never one that was destroyed, and while an operator
\* can be pressed there is one, whatever raised on the way up or down; only an exception while
\* undoing, or after the last step of register that is undone, leaves an operator with none
\* (__init__.py:105-109, "no operator can become clickable before the engine behind it exists";
\* engine.py:144-145).
UiHasItsEngine ==
    /\ lent # 0 => lent \in live
    /\ classes # {} /\ ~spoiled => lent # 0

\* When the add-on is not enabled, or register has failed at any step that it undoes, nothing of
\* it is left: no engine, class, timer, log handler or version.  That is so as long as no step
\* that undoes raised and no step raised halfway (__init__.py:111-113, 162-167).
NothingIsLeft ==
    /\ engine = 0 /\ live = {} /\ lent = 0 /\ ~link
    /\ classes = {} /\ listed = <<>> /\ hydra = 0 /\ hydraKnown = 0
    /\ ~watching /\ ~logging /\ ~published
LeavesNothing == step = "idle" /\ ~enabled /\ ~spoiled => NothingIsLeft

\* A scene that was reconciled when the add-on started, or bound by its buttons since, carries a
\* document the engine knows, at a revision it has reached, through every disabling, enabling
\* and closing (document_binding.py:66-83).
BindingIsKnown ==
    step = "idle" /\ enabled /\ reconciled /\ scene # None =>
        Known(scene.id) /\ scene.revision <= documents[scene.id]

\* Blender refuses none of the classes register comes with: written classes come before what is
\* made, and a panel after the panel it is in, whatever the engine describes; only a class that
\* an earlier undoing left stands in the way (presentation/__init__.py:96-101, 133-137).
ClassesAreAccepted ==
    [][step = "classes" /\ Unwinds => spoiled \/ raises' > raises]_vars

\* While a panel is registered so is the panel it is in, on the way up and down.  When the add-on
\* is enabled it shows the UI the engine described and nothing else: the values group and every
\* surface and section as a panel, and each control at one place of one panel, the one its element
\* belongs to, from the projected controls; and no UI at all if the engine described none
\* (ui_projection.py:228-238, 308-371).
UiIsAsDescribed ==
    LET panels == {i \in DOMAIN projection.Schema : IsPanel(projection.Schema[i])}
        controls == {i \in DOMAIN projection.Schema : projection.Schema[i].Kind = "Control"}
        drawn == Drawn(projection.Schema)
    IN ~spoiled =>
        /\ \A class \in classes : class.parent \in Names \cup {Absent}
        /\ enabled /\ step = "idle" =>
             /\ meant = Absent => projection = Absent /\ classes = ToSet(RegisteredClasses)
             /\ meant # Absent =>
                  /\ projection.Schema = meant /\ DOMAIN projection.Controls = controls
                  /\ Names = {RegisteredClasses[i].name : i \in DOMAIN RegisteredClasses}
                               \cup {ValuesClass.name} \cup {PanelName(i) : i \in panels}
                  /\ \A i \in panels : ToSet(drawn[i]) \subseteq controls
                  /\ \A control \in controls :
                       \E panel \in panels : \E k \in DOMAIN drawn[panel] :
                         /\ Panels(meant)[control] = panel
                         /\ \A i \in panels : \A l \in DOMAIN drawn[i] :
                              drawn[i][l] = control <=> (i = panel /\ l = k)

\* What __init__.py:111-113 says of a register that fails: everything already started is unwound,
\* so no native engine is left.
NoEngineIsLeft == step = "idle" /\ ~enabled /\ undoing = "nothing" => live = {}
=============================================================================
