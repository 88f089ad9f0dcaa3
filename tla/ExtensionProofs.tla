-------------------------- MODULE ExtensionProofs --------------------------
(***************************************************************************)
(* Proofs about Extension, for every library, description, number of         *)
(* engines and place of exceptions: what can be called belongs to a live     *)
(* engine that populated it, the UI never outlives the engine it was lent,   *)
(* an add-on that is off has left nothing, Blender can take the classes of   *)
(* whatever UI the engine describes, and that UI is what it shows.           *)
(*                                                                          *)
(* The inductive invariant has four parts: Bound (the bridge), Alive (which  *)
(* engine the steps and the UI hold), and, as long as no undoing has raised, *)
(* Tidy (what Blender has registered is what is listed, and nothing of it    *)
(* without a lent engine) and Clean (what each step finds not there).        *)
(*                                                                          *)
(* The UI takes three more.  What the engine encodes is decoded to what it   *)
(* meant (EncodedIsDecoded); of a well-formed schema every class that is     *)
(* made has its parent before it (ProjectInOrder), and every control is      *)
(* drawn in one panel, its own, and there once (DrawnInItsPanel).  On these  *)
(* rest Accepting (what is to come can be taken), Answering (the engine can  *)
(* be asked) and Showing (what is listed is a part of what was described,    *)
(* and all of it once register has come through).                            *)
(***************************************************************************)
EXTENDS Extension, SequenceTheorems, WellFoundedInduction, TLAPS

Bound == engines \in Nat /\ live \subseteq 1..engines /\ EntryPointsAreServed

\* The steps at which there is an engine to shut down, and those of register, of which the
\* last come after it was lent.
Held == {"synchronize", "hydra", "lend", "describe", "classes", "watch", "stop watching",
         "drop classes", "let go", "drop hydra", "take back", "shut down"}
Rising == {"open", "synchronize", "hydra", "lend", "describe", "classes", "watch"}
Lent == {"describe", "classes", "watch"}
Alive ==
    /\ step \in Held \/ (step = "idle" /\ enabled) => engine \in live
    /\ step \in Rising \cup {"idle"} => undoing = "nothing"
    /\ step # "idle" /\ undoing # "unregister" => enabled = FALSE
    /\ step = "shut down" => lent = 0
    /\ step \in Lent => lent = engine
    /\ lent # 0 => lent \in live

\* The steps at which no class is registered.
Bare == {"open", "let go", "drop hydra", "take back", "shut down", "end"}
Lists(list, set) ==     \* each of the set once
    /\ list \in Seq(set)
    /\ set = {list[i] : i \in 1..Len(list)}
    /\ \A i, j \in 1..Len(list) : list[i] = list[j] => i = j
Tidy ==
    ~spoiled =>
        /\ Lists(listed, classes)
        /\ step \in Bare \/ (step = "idle" /\ ~enabled) => classes = {}
        /\ classes # {} => lent # 0

\* What is not there before its step and after it was undone.
Off == step = "idle" /\ ~enabled
Clean ==
    ~spoiled =>
        /\ step \in Held \/ (step = "idle" /\ enabled) => live = {engine} /\ handle = engine
        /\ step \in {"open", "end"} \/ Off => live = {}
        /\ step = "open" \/ Off => engine = 0 /\ published = FALSE /\ enabled = FALSE
        /\ hydra \in Nat /\ hydra = hydraKnown
        /\ step \in {"open", "synchronize", "hydra", "take back", "shut down", "end"} \/ Off => hydra = 0
        /\ step \in {"open", "synchronize", "hydra", "lend", "shut down", "end"} \/ Off => lent = 0 /\ link = FALSE
        /\ step \in Bare \cup {"synchronize", "hydra", "lend", "describe", "classes", "watch",
                              "drop classes"} \/ Off
             => watching = FALSE
        /\ Off => logging = FALSE

IInv == Bound /\ Alive /\ Tidy /\ Clean
-----------------------------------------------------------------------------
(* The bridge.                                                               *)

\* Only opening and shutting down touch the bridge.
LEMMA OthersKeepTheBridge ==
    ASSUME [Next]_vars, ~OpenEngine, ~ShutDown
    PROVE  UNCHANGED bridgeVars
  <1>1. CASE UNCHANGED vars
    BY <1>1 DEF vars
  <1>2. CASE Register \/ SynchronizeScene \/ RegisterHydra \/ Lend
    BY <1>2 DEF Register, SynchronizeScene, RegisterHydra, Lend
  <1>3. CASE MakeClasses \/ RegisterClass \/ StartWatching
    BY <1>3 DEF MakeClasses, RegisterClass, StartWatching
  <1>4. CASE Unregister \/ StopWatching \/ DropClass \/ LetGoOfLink
    BY <1>4 DEF Unregister, StopWatching, DropClass, LetGoOfLink
  <1>5. CASE DropHydra \/ TakeBack \/ End
    BY <1>5 DEF DropHydra, TakeBack, End
  <1>6. CASE Press \/ EngineRevises \/ OpensFile
    BY <1>6 DEF Press, EngineRevises, OpensFile
  <1> QED BY <1>1, <1>2, <1>3, <1>4, <1>5, <1>6 DEF Next, Enabling, Undoing

\* A bridge that opens has bound nothing but what its engine populated.
LEMMA OpenedIsServed ==
    ASSUME NEW library \in Libraries, Opened(library), engines \in Nat, live \subseteq 1..engines
    PROVE  EntryPointsAreServed'
  <1>1. handle' \in live'
    BY DEF Opened, Created
  <1>2. DOMAIN interfaces' = DOMAIN Tables
    BY DEF Opened
  <1>3. ASSUME NEW attribute \in DOMAIN Tables, NEW position \in DOMAIN Tables[attribute]
        PROVE  populated'[attribute] >= Offset(position) + 8
    BY <1>3 DEF Opened, Fetches, MemberEnd
  <1> QED BY <1>1, <1>2, <1>3 DEF EntryPointsAreServed

\* No step leaves an entry point of the bridge bound to an engine that did not populate it.
LEMMA BoundHolds == Bound /\ [Next]_vars => Bound'
  <1> SUFFICES ASSUME Bound, [Next]_vars PROVE Bound'
    OBVIOUS
  <1>1. CASE OpenEngine
    <2> PICK library \in Libraries :
          \/ OpenRefused(library) \/ WrapperRaises(library) \/ Opened(library)
      BY <1>1 DEF OpenEngine
    <2>1. CASE OpenRefused(library)
      BY <2>1 DEF OpenRefused, bridgeVars, Bound, EntryPointsAreServed
    <2>2. CASE WrapperRaises(library)
      <3>1. engines' \in Nat /\ live' \subseteq 1..engines' /\ live \subseteq live'
        BY <2>2 DEF WrapperRaises, Created, Bound
      <3>2. UNCHANGED <<handle, interfaces, populated>>
        BY <2>2 DEF WrapperRaises
      <3> QED BY <3>1, <3>2 DEF Bound, EntryPointsAreServed
    <2>3. CASE Opened(library)
      <3>1. engines' \in Nat /\ live' \subseteq 1..engines'
        BY <2>3 DEF Opened, Created, Bound
      <3> QED BY <3>1, <2>3, OpenedIsServed DEF Bound
    <2> QED BY <2>1, <2>2, <2>3
  <1>2. CASE ShutDown
    <2>1. interfaces' = NoInterfaces /\ engines' = engines /\ live' \subseteq live
      BY <1>2 DEF ShutDown, Shutdown
    <2> QED BY <2>1 DEF Bound, EntryPointsAreServed, NoInterfaces
  <1>3. CASE ~OpenEngine /\ ~ShutDown
    BY <1>3, OthersKeepTheBridge DEF Bound, EntryPointsAreServed, bridgeVars
  <1> QED BY <1>1, <1>2, <1>3
-----------------------------------------------------------------------------
(* The engine the steps and the UI hold.                                     *)

\* An engine that opens is new and alive.
LEMMA OpeningHolds ==
    ASSUME Bound, Alive, OpenEngine
    PROVE  Alive'
  <1> PICK library \in Libraries :
        \/ OpenRefused(library) /\ Refused
        \/ WrapperRaises(library) /\ Refused
        \/ /\ Opened(library) /\ step' = "synchronize" /\ engine' = engines' /\ undoing' = undoing
    BY DEF OpenEngine
  <1>0. step = "open" /\ UNCHANGED <<enabled, lent>>
    BY DEF OpenEngine, uiVars, loanVars
  <1>1. CASE OpenRefused(library) /\ Refused
    BY <1>0, <1>1 DEF OpenRefused, bridgeVars, Refused, Alive, Held, Lent, Rising
  <1>2. CASE WrapperRaises(library) /\ Refused
    BY <1>0, <1>2 DEF WrapperRaises, Created, Refused, Alive, Held, Lent, Rising
  <1>3. CASE Opened(library) /\ step' = "synchronize" /\ engine' = engines' /\ undoing' = undoing
    BY <1>0, <1>3 DEF Opened, Created, Alive, Held, Lent, Rising
  <1> QED BY <1>1, <1>2, <1>3

\* No step keeps hold of an engine that is gone.
LEMMA AliveHolds == Bound /\ Alive /\ [Next]_vars => Alive'
  <1> SUFFICES ASSUME Bound, Alive, [Next]_vars PROVE Alive'
    OBVIOUS
  <1> USE DEF Alive, Held, Lent, Rising
  <1>1. CASE UNCHANGED vars
    BY <1>1 DEF vars, lifeVars, bridgeVars, uiVars, loanVars
  <1>2. CASE Register
    BY <1>2 DEF Register, bridgeVars, uiVars, loanVars
  <1>3. CASE OpenEngine
    BY <1>3, OpeningHolds
  <1>4. CASE SynchronizeScene
    BY <1>4 DEF SynchronizeScene, Unwinds, bridgeVars, uiVars, loanVars
  <1>5. CASE RegisterHydra
    BY <1>5 DEF RegisterHydra, Unwinds, bridgeVars, loanVars
  <1>6. CASE Lend
    BY <1>6 DEF Lend, Unwinds, bridgeVars, loanVars
  <1>7. CASE MakeClasses
    BY <1>7 DEF MakeClasses, Unwinds, bridgeVars, loanVars
  <1>8. CASE RegisterClass
    BY <1>8 DEF RegisterClass, Unwinds, bridgeVars, loanVars
  <1>9. CASE StartWatching
    <2>0. step = "watch" /\ undoing = "nothing" /\ enabled = FALSE /\ UNCHANGED <<live, lent>>
      BY <1>9 DEF StartWatching, bridgeVars, loanVars
    <2>1. CASE Unwinds /\ UNCHANGED <<engine, enabled>>
      BY <2>0, <2>1 DEF Unwinds
    <2>2. CASE step' = "idle" /\ UNCHANGED <<undoing, enabled>>
      BY <2>0, <2>2
    <2>3. CASE step' = "idle" /\ UNCHANGED <<undoing, engine>>
      BY <2>0, <2>3
    <2> QED BY <1>9, <2>1, <2>2, <2>3 DEF StartWatching
  <1>10. CASE Unregister
    BY <1>10 DEF Unregister, bridgeVars, loanVars
  <1>11. CASE StopWatching
    BY <1>11 DEF StopWatching, bridgeVars, loanVars
  <1>12. CASE DropClass
    BY <1>12 DEF DropClass, Abandons, bridgeVars, loanVars
  <1>13. CASE LetGoOfLink
    BY <1>13 DEF LetGoOfLink, LetGo, bridgeVars
  <1>14. CASE DropHydra
    BY <1>14 DEF DropHydra, Abandons, bridgeVars, loanVars
  <1>15. CASE TakeBack
    BY <1>15 DEF TakeBack, TakenBack, bridgeVars
  <1>16. CASE ShutDown
    BY <1>16 DEF ShutDown, Shutdown, uiVars, loanVars
  <1>17. CASE End
    BY <1>17 DEF End, bridgeVars, uiVars, loanVars
  <1>18. CASE Press \/ EngineRevises \/ OpensFile
    <2>1. UNCHANGED <<lifeVars, bridgeVars, uiVars>>
      BY <1>18 DEF Press, EngineRevises, OpensFile
    <2> QED BY <2>1 DEF lifeVars, bridgeVars, uiVars, loanVars
  <1> QED BY <1>1, <1>2, <1>3, <1>4, <1>5, <1>6, <1>7, <1>8, <1>9, <1>10, <1>11, <1>12, <1>13,
             <1>14, <1>15, <1>16, <1>17, <1>18 DEF Next, Enabling, Undoing
-----------------------------------------------------------------------------
(* What is registered is what is listed.                                     *)

LEMMA AppendLists ==
    ASSUME NEW list, NEW set, Lists(list, set), NEW class, class \notin set
    PROVE  Lists(Append(list, class), set \cup {class})
  <1> DEFINE longer == Append(list, class)
  <1>1. /\ list \in Seq(set \cup {class}) /\ Len(list) \in Nat
        /\ \A i \in 1..Len(list) : list[i] \in set
    BY DEF Lists
  <1>0. \A i, j \in 1..Len(list) : list[i] = list[j] => i = j
    BY Zenon DEF Lists
  <1>2. /\ longer \in Seq(set \cup {class}) /\ Len(longer) = Len(list) + 1
        /\ \A i \in 1..Len(list) : longer[i] = list[i]
        /\ longer[Len(list) + 1] = class
    BY <1>1
  <1> HIDE DEF longer
  <1>3. ASSUME NEW i \in 1..Len(longer), NEW j \in 1..Len(longer), longer[i] = longer[j]
        PROVE  i = j
    BY <1>0, <1>1, <1>2, <1>3
  <1>4. set \cup {class} = {longer[i] : i \in 1..Len(longer)}
    <2>1. ASSUME NEW c \in set PROVE \E i \in 1..Len(longer) : c = longer[i]
      <3> PICK i \in 1..Len(list) : c = list[i]
        BY <2>1 DEF Lists
      <3> QED BY <1>1, <1>2
    <2>2. class = longer[Len(longer)] /\ Len(longer) \in 1..Len(longer)
      BY <1>1, <1>2
    <2>3. ASSUME NEW i \in 1..Len(longer) PROVE longer[i] \in set \cup {class}
      BY <1>1, <1>2, <2>3
    <2> QED BY <2>1, <2>2, <2>3
  <1> QED BY <1>2, <1>3, <1>4 DEF Lists, longer

\* Taking the last off the list and out of the set leaves one the list of the other.
LEMMA RemoveLastLists ==
    ASSUME NEW list, NEW set, Lists(list, set), list # <<>>
    PROVE  Lists(RemoveAt(list, Len(list)), set \ {list[Len(list)]})
  <1> DEFINE shorter == RemoveAt(list, Len(list))
             last == list[Len(list)]
  <1>1. /\ list \in Seq(set) /\ Len(list) \in Nat \ {0}
        /\ \A i \in 1..Len(list) : list[i] \in set
    BY DEF Lists
  <1>0. \A i, j \in 1..Len(list) : list[i] = list[j] => i = j
    BY Zenon DEF Lists
  <1>2. shorter = [i \in 1..(Len(list) - 1) |-> list[i]]
    BY <1>1 DEF RemoveAt
  <1>3. \A i \in 1..(Len(list) - 1) : list[i] \in set \ {last}
    BY <1>0, <1>1
  <1>4. /\ shorter \in Seq(set \ {last}) /\ Len(shorter) = Len(list) - 1
        /\ \A i \in 1..Len(shorter) : shorter[i] = list[i]
    BY <1>1, <1>2, <1>3
  <1> HIDE DEF shorter
  <1>5. ASSUME NEW i \in 1..Len(shorter), NEW j \in 1..Len(shorter), shorter[i] = shorter[j]
        PROVE  i = j
    BY <1>0, <1>1, <1>4, <1>5
  <1>6. set \ {last} = {shorter[i] : i \in 1..Len(shorter)}
    <2>1. ASSUME NEW c \in set \ {last} PROVE \E i \in 1..Len(shorter) : c = shorter[i]
      <3> PICK i \in 1..Len(list) : c = list[i]
        BY <2>1 DEF Lists
      <3> QED BY <1>1, <1>4, <2>1
    <2>2. ASSUME NEW i \in 1..Len(shorter) PROVE shorter[i] \in set \ {last}
      BY <1>1, <1>3, <1>4
    <2> QED BY <2>1, <2>2
  <1> QED BY <1>4, <1>5, <1>6 DEF Lists, shorter

\* A list of no class is empty.
LEMMA EmptyLists ==
    ASSUME NEW list, NEW set, Lists(list, set)
    PROVE  list = <<>> <=> set = {}
  BY DEF Lists

\* Engines are numbered from 1.
LEMMA LentIsAnEngine ==
    ASSUME Bound, Alive, step \in Held
    PROVE  engine # 0
  <1>1. engine \in 1..engines /\ engines \in Nat
    BY DEF Bound, Alive
  <1> QED BY <1>1

\* A class is registered and listed in one step.
LEMMA RegisteringHolds == Bound /\ Alive /\ Tidy /\ RegisterClass => Tidy'
  <1> SUFFICES ASSUME Bound, Alive, Tidy, RegisterClass, ~spoiled PROVE Tidy'
    BY DEF RegisterClass, histories, Tidy
  <1>1. /\ step = "classes" /\ UNCHANGED <<enabled, spoiled, lent>>
        /\ step' \in {"stop watching", "classes", "watch"}
    BY DEF RegisterClass, Unwinds, histories, loanVars
  <1>2. lent # 0
    BY <1>1, LentIsAnEngine DEF Alive, Held, Lent
  <1>3. CASE UNCHANGED <<classes, listed>>
    BY <1>1, <1>3 DEF Tidy, Bare
  <1>4. CASE /\ Takes(Head(coming))
             /\ classes' = classes \cup {Head(coming)} /\ listed' = Append(listed, Head(coming))
    <2>1. Head(coming) \notin classes
      BY <1>4 DEF Takes, Names
    <2>2. Lists(listed', classes')
      BY <1>4, <2>1, AppendLists DEF Tidy
    <2> QED BY <1>1, <1>2, <2>2 DEF Tidy, Bare
  <1> QED BY <1>3, <1>4 DEF RegisterClass, classVars

\* A class is dropped and taken off the list in one step.
LEMMA DroppingHolds == Tidy /\ DropClass => Tidy'
  <1> SUFFICES ASSUME Tidy, DropClass, ~spoiled' PROVE Tidy'
    BY DEF Tidy
  <1>0. ~spoiled
    BY DEF DropClass, Abandons
  <1>1. step = "drop classes" /\ UNCHANGED <<enabled, lent>>
    BY DEF DropClass, loanVars
  <1>2. Lists(listed, classes)
    BY <1>0 DEF Tidy
  <1>3. CASE listed = <<>> /\ step' = "let go" /\ UNCHANGED <<classes, listed>>
    BY <1>0, <1>1, <1>2, <1>3, EmptyLists DEF Tidy
  <1>4. CASE /\ listed # <<>> /\ step' = step
             /\ listed' = RemoveAt(listed, Popped) /\ classes' = classes \ {listed[Popped]}
    <2>1. Lists(listed', classes')
      BY <1>2, <1>4, RemoveLastLists DEF Popped
    <2>2. classes' # {} => classes # {}
      BY <1>4
    <2> QED BY <1>0, <1>1, <1>4, <2>1, <2>2 DEF Tidy, Bare
  <1> QED BY <1>3, <1>4 DEF DropClass, Abandons

\* So no step leaves Blender with a class that is not listed.
LEMMA TidyHolds == Bound /\ Alive /\ Tidy /\ [Next]_vars => Tidy'
  <1> SUFFICES ASSUME Bound, Alive, Tidy, [Next]_vars PROVE Tidy'
    OBVIOUS
  <1> USE DEF Tidy, Bare
  <1>1. CASE UNCHANGED vars
    BY <1>1 DEF vars, lifeVars, uiVars, loanVars, classVars, histories
  <1>2. CASE Register
    BY <1>2 DEF Register, uiVars, loanVars, classVars, histories
  <1>3. CASE OpenEngine
    <2>1. step = "open" /\ UNCHANGED <<lent, classes, listed>>
      BY <1>3 DEF OpenEngine, uiVars, loanVars, classVars
    <2>2. spoiled' = spoiled \/ spoiled'
      BY <1>3 DEF OpenEngine
    <2> QED BY <2>1, <2>2
  <1>4. CASE SynchronizeScene
    BY <1>4 DEF SynchronizeScene, Unwinds, uiVars, loanVars, classVars
  <1>5. CASE RegisterHydra
    <2>1. /\ step = "hydra" /\ step' \in {"lend", "stop watching"}
          /\ UNCHANGED <<lent, classes, listed, enabled>>
      BY <1>5 DEF RegisterHydra, Unwinds, loanVars, classVars
    <2>2. spoiled => spoiled'
      BY <1>5, Zenon DEF RegisterHydra
    <2> QED BY <2>1, <2>2
  <1>6. CASE Lend
    <2>1. /\ step = "lend" /\ step' \in {"describe", "stop watching"} /\ lent' \in {lent, engine}
          /\ UNCHANGED <<classes, listed, enabled, spoiled>>
      BY <1>6 DEF Lend, Unwinds, loanVars, classVars, histories
    <2>2. engine # 0
      BY <2>1, LentIsAnEngine DEF Held
    <2> QED BY <2>1, <2>2
  <1>7. CASE MakeClasses
    BY <1>7 DEF MakeClasses, Unwinds, loanVars, histories
  <1>8. CASE RegisterClass
    BY <1>8, RegisteringHolds
  <1>9. CASE StartWatching
    BY <1>9 DEF StartWatching, Unwinds, loanVars, classVars, histories
  <1>10. CASE Unregister
    BY <1>10 DEF Unregister, loanVars, classVars, histories
  <1>11. CASE StopWatching
    BY <1>11 DEF StopWatching, loanVars, classVars, histories
  <1>12. CASE DropClass
    BY <1>12, DroppingHolds
  <1>13. CASE LetGoOfLink
    BY <1>13 DEF LetGoOfLink, LetGo, classVars, histories
  <1>14. CASE DropHydra
    BY <1>14 DEF DropHydra, Abandons, loanVars, classVars
  <1>15. CASE TakeBack
    BY <1>15 DEF TakeBack, TakenBack, classVars, histories
  <1>16. CASE ShutDown
    BY <1>16 DEF ShutDown, uiVars, loanVars, classVars, histories
  <1>17. CASE End
    BY <1>17 DEF End, uiVars, loanVars, classVars, histories
  <1>18. CASE Press \/ EngineRevises \/ OpensFile
    <2>1. UNCHANGED <<lifeVars, uiVars, spoiled>>
      BY <1>18 DEF Press, EngineRevises, OpensFile, histories
    <2> QED BY <2>1 DEF lifeVars, uiVars, loanVars, classVars
  <1> QED BY <1>1, <1>2, <1>3, <1>4, <1>5, <1>6, <1>7, <1>8, <1>9, <1>10, <1>11, <1>12, <1>13,
             <1>14, <1>15, <1>16, <1>17, <1>18 DEF Next, Enabling, Undoing
-----------------------------------------------------------------------------
(* What each step finds not there.                                           *)

LEMMA MaxOfZero ==
    ASSUME NEW n \in Nat
    PROVE  Max({0, n}) = n
  <1>1. \E x \in {0, n} : \A y \in {0, n} : x >= y
    BY SMT
  <1>2. \A x \in {0, n} : (\A y \in {0, n} : x >= y) => x = n
    BY SMT
  <1> QED BY <1>1, <1>2 DEF Max

\* What Blender has and what is known are the same, or it raised halfway.
LEMMA RegisteringHydraHolds ==
    ASSUME Clean, RegisterHydra
    PROVE  Clean'
  <1> SUFFICES ASSUME ~spoiled' PROVE Clean'
    BY DEF Clean
  <1>1. PICK runtime \in Runtimes :
          \/ /\ step' = "lend" /\ hydraKnown' = 0 /\ UNCHANGED <<undoing, hydra, raises, spoiled>>
          \/ Unwinds /\ UNCHANGED <<hydraVars, spoiled>>
          \/ Unwinds /\ spoiled' = (spoiled \/ hydra' # hydra) /\ UNCHANGED hydraKnown
          \/ /\ step' = "lend" /\ hydra' = Max({hydra, runtime.delegates})
             /\ hydraKnown' = runtime.delegates /\ UNCHANGED spoiled
    BY Zenon DEF RegisterHydra
  <1>2. ~spoiled
    BY <1>1, Zenon
  <1>3. /\ step = "hydra" /\ step' \in {"lend", "stop watching"}
        /\ UNCHANGED <<live, handle, engine, enabled, lent, link, watching, published>>
    BY DEF RegisterHydra, Unwinds, bridgeVars, loanVars, shellVars
  <1>4. hydra = 0 /\ hydraKnown = 0
    BY <1>2, <1>3 DEF Clean
  <1>5. hydra' \in Nat /\ hydra' = hydraKnown'
    <2>1. runtime.delegates \in Nat
      BY ExtensionAssumption
    <2>2. CASE hydraKnown' = 0 /\ UNCHANGED hydra
      BY <1>4, <2>2
    <2>3. CASE UNCHANGED hydraVars
      BY <1>4, <2>3 DEF hydraVars
    <2>4. CASE spoiled' = (spoiled \/ hydra' # hydra) /\ UNCHANGED hydraKnown
      <3>1. hydra' = hydra
        BY <2>4, Zenon
      <3> QED BY <1>4, <2>4, <3>1
    <2>5. CASE hydra' = Max({hydra, runtime.delegates}) /\ hydraKnown' = runtime.delegates
      BY <1>4, <2>1, <2>5, MaxOfZero
    <2> QED BY <1>1, <2>2, <2>3, <2>4, <2>5
  <1> QED BY <1>2, <1>3, <1>5 DEF Clean, Off, Bare, Held

\* As many go as are known.
LEMMA DroppingHydraHolds ==
    ASSUME Clean, DropHydra
    PROVE  Clean'
  <1> SUFFICES ASSUME ~spoiled' PROVE Clean'
    BY DEF Clean
  <1>1. /\ step' = "take back" /\ hydra' = hydra - hydraKnown /\ hydraKnown' = 0
        /\ engine' = engine /\ spoiled' = spoiled
    BY DEF DropHydra, Abandons
  <1>2. /\ step = "drop hydra"
        /\ UNCHANGED <<live, handle, enabled, lent, link, watching, published>>
    BY DEF DropHydra, bridgeVars, loanVars, shellVars
  <1>3. ~spoiled
    BY <1>1
  <1>4. hydra' = 0
    <2>1. hydra \in Nat /\ hydra = hydraKnown
      BY <1>3 DEF Clean
    <2>2. \A n \in Nat : n - n = 0
      OBVIOUS
    <2> QED BY <1>1, <2>1, <2>2
  <1>5. live' = {engine'} /\ handle' = engine' /\ watching' = FALSE
    BY <1>1, <1>2, <1>3 DEF Clean, Bare, Held
  <1>6. hydra' \in Nat /\ hydra' = hydraKnown'
    <2>1. hydraKnown' = 0
      BY <1>1, Zenon
    <2> QED BY <1>4, <2>1
  <1> QED BY <1>1, <1>4, <1>5, <1>6 DEF Clean, Off

\* What was undone stays undone until its step of register comes again.
LEMMA CleanHolds == Bound /\ Alive /\ Clean /\ [Next]_vars => Clean'
  <1> SUFFICES ASSUME Bound, Alive, Clean, [Next]_vars PROVE Clean'
    OBVIOUS
  <1> USE DEF Clean, Off, Bare, Held
  <1>1. CASE UNCHANGED vars
    BY <1>1 DEF vars, lifeVars, bridgeVars, uiVars, loanVars, hydraVars, shellVars, histories
  <1>2. CASE Register
    BY <1>2 DEF Register, bridgeVars, uiVars, loanVars, hydraVars, histories
  <1>3. CASE OpenEngine
    <2> PICK library \in Libraries :
          \/ OpenRefused(library) /\ Refused
          \/ spoiled'
          \/ Opened(library) /\ step' = "synchronize" /\ engine' = engines'
      BY <1>3 DEF OpenEngine
    <2>0. step = "open" /\ UNCHANGED <<enabled, uiVars, published>> /\ (spoiled' = spoiled \/ spoiled')
      BY <1>3 DEF OpenEngine
    <2>1. CASE OpenRefused(library) /\ Refused
      BY <2>0, <2>1 DEF OpenRefused, Refused, bridgeVars, uiVars, loanVars, hydraVars
    <2>2. CASE Opened(library) /\ step' = "synchronize" /\ engine' = engines'
      BY <2>0, <2>2 DEF Opened, Created, uiVars, loanVars, hydraVars
    <2> QED BY <2>1, <2>2
  <1>4. CASE SynchronizeScene
    BY <1>4 DEF SynchronizeScene, Unwinds, bridgeVars, uiVars, loanVars, hydraVars, shellVars
  <1>5. CASE RegisterHydra
    BY <1>5, RegisteringHydraHolds
  <1>6. CASE Lend
    BY <1>6 DEF Lend, Unwinds, bridgeVars, loanVars, hydraVars, shellVars, histories
  <1>7. CASE MakeClasses
    BY <1>7 DEF MakeClasses, Unwinds, bridgeVars, loanVars, hydraVars, shellVars, histories
  <1>8. CASE RegisterClass
    BY <1>8 DEF RegisterClass, Unwinds, bridgeVars, loanVars, hydraVars, shellVars, histories
  <1>9. CASE StartWatching
    BY <1>9 DEF StartWatching, Unwinds, bridgeVars, loanVars, hydraVars, histories
  <1>10. CASE Unregister
    BY <1>10 DEF Unregister, bridgeVars, loanVars, hydraVars, shellVars, histories
  <1>11. CASE StopWatching
    BY <1>11 DEF StopWatching, bridgeVars, loanVars, hydraVars, shellVars, histories
  <1>12. CASE DropClass
    BY <1>12 DEF DropClass, Abandons, bridgeVars, loanVars, hydraVars, shellVars
  <1>13. CASE LetGoOfLink
    BY <1>13 DEF LetGoOfLink, LetGo, bridgeVars, hydraVars, shellVars, histories
  <1>14. CASE DropHydra
    BY <1>14, DroppingHydraHolds
  <1>15. CASE TakeBack
    BY <1>15 DEF TakeBack, TakenBack, bridgeVars, hydraVars, shellVars, histories
  <1>16. CASE ShutDown
    BY <1>16 DEF ShutDown, Shutdown, uiVars, loanVars, hydraVars, shellVars, histories
  <1>17. CASE End
    BY <1>17 DEF End, bridgeVars, uiVars, loanVars, hydraVars, histories
  <1>18. CASE Press \/ EngineRevises \/ OpensFile
    <2>1. UNCHANGED <<lifeVars, bridgeVars, uiVars, shellVars, spoiled>>
      BY <1>18 DEF Press, EngineRevises, OpensFile, histories
    <2> QED BY <2>1 DEF lifeVars, bridgeVars, uiVars, loanVars, hydraVars, shellVars
  <1> QED BY <1>1, <1>2, <1>3, <1>4, <1>5, <1>6, <1>7, <1>8, <1>9, <1>10, <1>11, <1>12, <1>13,
             <1>14, <1>15, <1>16, <1>17, <1>18 DEF Next, Enabling, Undoing
-----------------------------------------------------------------------------
(* The documents, and the one the scene carries.                             *)

Shaped ==
    /\ documents \in [DOMAIN documents -> 1..MaxRevision] /\ DOMAIN documents \subseteq Ids
    /\ scene \in Bindings \cup {None}
Carried == scene # None => Known(scene.id) /\ scene.revision <= documents[scene.id]
Reconciling == {"hydra", "lend", "describe", "classes", "watch"}
Follows == (step \in Reconciling \/ (step = "idle" /\ enabled)) /\ reconciled => Carried

\* A scene without a document is told from one with one.
LEMMA NoneIsNoBinding == None \notin Bindings /\ MaxRevision \in Nat /\ 1 \in 1..MaxRevision
  BY DocumentsAssumption DEF Bindings

\* A document that is added is one the engine knows, at its revision.
LEMMA WithDocumentIsShaped ==
    ASSUME Shaped, NEW id \in Ids, NEW revision \in 1..MaxRevision,
           documents' = WithDocument(documents, id, revision)
    PROVE  /\ documents' \in [DOMAIN documents' -> 1..MaxRevision] /\ DOMAIN documents' \subseteq Ids
           /\ id \in DOMAIN documents' /\ documents'[id] = revision
  BY DEF Shaped, WithDocument

\* A scene that is bound to a known document carries it.
LEMMA BindingHolds ==
    ASSUME documents' \in [DOMAIN documents' -> 1..MaxRevision], DOMAIN documents' \subseteq Ids,
           NEW id \in DOMAIN documents', Bind(id)
    PROVE  Shaped' /\ Carried'
  <1>1. documents'[id] \in 1..MaxRevision /\ documents'[id] \in Nat
    BY NoneIsNoBinding
  <1>2. scene' \in Bindings /\ scene'.id = id /\ scene'.revision = documents'[id]
    BY <1>1 DEF Bind, Bindings
  <1> QED BY <1>1, <1>2 DEF Shaped, Carried, Known

\* Reconciling leaves the scene with a document the engine knows.
LEMMA SynchronizeHolds ==
    ASSUME Shaped, Synchronize
    PROVE  Shaped' /\ Carried'
  <1>1. CASE scene = None
    BY <1>1 DEF Synchronize, documentVars, Shaped, Carried
  <1>2. CASE scene # None
    <2>1. scene.id \in Ids /\ scene.revision \in 1..MaxRevision
      BY <1>2 DEF Shaped, Bindings
    <2>2. /\ documents' \in [DOMAIN documents' -> 1..MaxRevision] /\ DOMAIN documents' \subseteq Ids
          /\ scene.id \in DOMAIN documents'
      <3>1. CASE Known(scene.id)
        BY <1>2, <3>1 DEF Synchronize, Shaped, Known
      <3>2. CASE ~Known(scene.id)
        BY <1>2, <2>1, <3>2, WithDocumentIsShaped DEF Synchronize, Restored
      <3> QED BY <3>1, <3>2
    <2>3. Bind(scene.id)
      BY <1>2, <2>2 DEF Synchronize
    <2> QED BY <2>2, <2>3, BindingHolds
  <1> QED BY <1>1, <1>2

\* So does each of the buttons.
LEMMA ButtonsHold ==
    ASSUME Shaped, Buttons
    PROVE  Shaped' /\ Carried'
  <1>1. CASE Create
    <2> PICK id \in Ids \ DOMAIN documents : documents' = WithDocument(documents, id, 1) /\ Bind(id)
      BY <1>1 DEF Create
    <2> QED BY NoneIsNoBinding, WithDocumentIsShaped, BindingHolds
  <1>2. CASE Inspect
    BY <1>2, BindingHolds DEF Inspect, Known, Shaped
  <1>3. CASE Close
    <2>1. documents' = [id \in DOMAIN documents \ {scene.id} |-> documents[id]]
      BY <1>3 DEF Close, WithoutDocument, Restrict
    <2> QED BY <1>3, <2>1 DEF Close, Cleared, Shaped, Carried
  <1> QED BY <1>1, <1>2, <1>3 DEF Buttons

\* An engine that goes on does not forget a revision.
LEMMA RevisedHolds ==
    ASSUME Shaped, Revised
    PROVE  Shaped' /\ (Carried => Carried')
  <1> PICK id \in DOMAIN documents :
        /\ documents[id] < MaxRevision
        /\ documents' = [documents EXCEPT ![id] = @ + 1]
        /\ UNCHANGED scene
    BY DEF Revised
  <1>1. \A other \in DOMAIN documents : documents[other] \in 1..MaxRevision /\ documents[other] \in Nat
    BY NoneIsNoBinding DEF Shaped
  <1>2. /\ DOMAIN documents' = DOMAIN documents
        /\ \A other \in DOMAIN documents :
             documents'[other] \in 1..MaxRevision /\ documents'[other] >= documents[other]
    BY <1>1, NoneIsNoBinding DEF Shaped
  <1>3. Shaped'
    BY <1>2 DEF Shaped
  <1>4. ASSUME scene # None, Known(scene.id), scene.revision <= documents[scene.id]
        PROVE  scene.revision <= documents'[scene.id]
    <2>1. scene.revision \in Nat
      BY <1>4, NoneIsNoBinding DEF Shaped, Bindings
    <2> QED BY <1>1, <1>2, <1>4, <2>1, NoneIsNoBinding DEF Known
  <1> QED BY <1>2, <1>3, <1>4 DEF Carried, Known

\* What a step does to the documents: it keeps them, or it is one of a few.
LEMMA OthersKeepTheDocuments ==
    ASSUME Alive, [Next]_vars, ~SynchronizeScene, ~Press, ~EngineRevises, ~OpensFile
    PROVE  /\ scene' = scene /\ reconciled' = reconciled
           /\ documents' = documents \/ (step \in {"open", "shut down"} /\ documents' = NoDocuments)
           /\ step' \in Reconciling \/ (step' = "idle" /\ enabled') =>
                \/ step \in Reconciling /\ documents' = documents
                \/ step = "idle" /\ enabled /\ documents' = documents
  <1>0. step # "idle" /\ undoing # "unregister" => enabled = FALSE
    BY DEF Alive
  <1>1. CASE UNCHANGED vars
    BY <1>1 DEF vars, documentVars, lifeVars, histories
  <1>2. CASE Register
    BY <1>2 DEF Register, documentVars, histories, Reconciling
  <1>7. CASE OpenEngine
    <2>1. /\ step = "open" /\ step' \in {"idle", "synchronize"}
          /\ UNCHANGED <<scene, reconciled, enabled>>
          /\ documents' \in {documents, NoDocuments}
      BY <1>7 DEF OpenEngine, Refused
    <2>2. enabled = FALSE
      BY <2>1 DEF Alive, Rising
    <2> QED BY <2>1, <2>2 DEF Reconciling
  <1>3. CASE RegisterHydra \/ Lend
    BY <1>0, <1>3 DEF RegisterHydra, Lend, Unwinds, documentVars, histories, Reconciling
  <1>4. CASE MakeClasses \/ RegisterClass \/ StartWatching
    BY <1>4 DEF MakeClasses, RegisterClass, StartWatching, Unwinds, documentVars, histories, Reconciling
  <1>9. CASE Unregister
    <2>1. /\ UNCHANGED <<documents, scene, reconciled, enabled>>
          /\ step' = "stop watching" \/ (step' = step /\ ~enabled)
          /\ step = "idle"
      BY <1>9 DEF Unregister, documentVars, histories
    <2> QED BY <2>1 DEF Reconciling
  <1>5. CASE StopWatching \/ LetGoOfLink \/ TakeBack
    BY <1>5 DEF StopWatching, LetGoOfLink, LetGo, TakeBack, documentVars, histories, Reconciling
  <1>8. CASE DropClass \/ DropHydra
    <2>1. /\ step # "idle" /\ UNCHANGED <<documents, scene, reconciled, enabled>>
          /\ step' \notin Reconciling
          /\ step' = "idle" => undoing # "unregister"
      BY <1>8 DEF DropClass, DropHydra, Abandons, documentVars, Reconciling
    <2> QED BY <1>0, <2>1
  <1>6. CASE ShutDown \/ End
    BY <1>6 DEF ShutDown, End, documentVars, histories, Reconciling
  <1> QED BY <1>1, <1>2, <1>3, <1>4, <1>5, <1>6, <1>7, <1>8, <1>9 DEF Next, Enabling, Undoing

\* Through all of the add-on, what the scene carries is followed.
LEMMA FollowsHolds ==
    ASSUME Alive, Shaped, Follows, [Next]_vars
    PROVE  Shaped' /\ Follows'
  <1>1. CASE SynchronizeScene
    BY <1>1, SynchronizeHolds DEF SynchronizeScene, Unwinds, documentVars, Shaped, Follows, Reconciling
  <1>2. CASE Press
    <2>1. Buttons
      BY <1>2 DEF Press
    <2> QED BY <2>1, ButtonsHold DEF Follows
  <1>3. CASE EngineRevises
    <2>1. Revised /\ UNCHANGED <<step, enabled, reconciled>>
      BY <1>3 DEF EngineRevises, lifeVars, histories
    <2> QED BY <2>1, RevisedHolds DEF Follows
  <1>4. CASE OpensFile
    BY <1>4 DEF OpensFile, SceneChanges, Shaped, Follows
  <1>5. CASE ~SynchronizeScene /\ ~Press /\ ~EngineRevises /\ ~OpensFile
    <2>1. Shaped'
      BY <1>5, OthersKeepTheDocuments DEF Shaped, NoDocuments
    <2> SUFFICES ASSUME step' \in Reconciling \/ (step' = "idle" /\ enabled'), reconciled'
                 PROVE  Carried'
      BY <2>1 DEF Follows
    <2>2. scene' = scene /\ documents' = documents /\ (step \in Reconciling \/ (step = "idle" /\ enabled))
      BY <1>5, OthersKeepTheDocuments
    <2>3. reconciled' = reconciled
      BY <1>5, OthersKeepTheDocuments
    <2>4. Carried
      BY <2>2, <2>3 DEF Follows
    <2> QED BY <2>2, <2>4 DEF Carried, Known
  <1> QED BY <1>1, <1>2, <1>3, <1>4, <1>5
-----------------------------------------------------------------------------
(* The shapes of the state.                                                  *)

EnginesCounted ==
    /\ engines \in 0..MaxEngines /\ live \subseteq 1..engines /\ handle \in 0..engines
    /\ engine \in 0..engines /\ lent \in 0..engines
RaisesCounted == raises \in 0..MaxRaises
HydraCounted == hydra \in Nat /\ hydraKnown \in Nat
Flagged ==
    /\ step \in Steps /\ undoing \in {"nothing", "register", "unregister"}
    /\ enabled \in BOOLEAN /\ link \in BOOLEAN /\ watching \in BOOLEAN /\ logging \in BOOLEAN
    /\ published \in BOOLEAN /\ reconciled \in BOOLEAN /\ spoiled \in BOOLEAN
\* A class is listed once, and Blender has it.
Registered ==
    /\ listed \in Seq(classes)
    /\ \A i, j \in 1..Len(listed) : listed[i] = listed[j] => i = j

\* Only register and unregister change what Blender has registered.
LEMMA OthersKeepTheClasses ==
    ASSUME [Next]_vars, ~RegisterClass, ~DropClass
    PROVE  UNCHANGED <<classes, listed>>
  <1> USE DEF uiVars, classVars
  <1>1. CASE UNCHANGED vars
    BY <1>1 DEF vars
  <1>2. CASE Register \/ OpenEngine \/ SynchronizeScene \/ RegisterHydra \/ Lend
    BY <1>2 DEF Register, OpenEngine, SynchronizeScene, RegisterHydra, Lend
  <1>3. CASE MakeClasses \/ StartWatching
    BY <1>3 DEF MakeClasses, StartWatching
  <1>4. CASE Unregister \/ StopWatching \/ LetGoOfLink \/ DropHydra
    BY <1>4 DEF Unregister, StopWatching, LetGoOfLink, DropHydra
  <1>5. CASE TakeBack \/ ShutDown \/ End
    BY <1>5 DEF TakeBack, ShutDown, End
  <1>6. CASE Press \/ EngineRevises \/ OpensFile
    BY <1>6 DEF Press, EngineRevises, OpensFile
  <1> QED BY <1>1, <1>2, <1>3, <1>4, <1>5, <1>6 DEF Next, Enabling, Undoing

\* A class is in Blender for as long as it is listed, whatever raises.
LEMMA RegisteredHolds == Registered /\ [Next]_vars => Registered'
  <1> SUFFICES ASSUME Registered, [Next]_vars PROVE Registered'
    OBVIOUS
  <1>0. /\ Len(listed) \in Nat /\ listed \in Seq(classes)
        /\ \A i \in 1..Len(listed) : listed[i] \in classes
    BY DEF Registered
  <1>1. CASE RegisterClass
    <2>1. CASE UNCHANGED <<classes, listed>>
      BY <2>1 DEF Registered
    <2>2. CASE /\ Takes(Head(coming))
               /\ classes' = classes \cup {Head(coming)} /\ listed' = Append(listed, Head(coming))
      <3>1. Head(coming) \notin classes
        BY <2>2 DEF Takes, Names
      <3>2. listed \in Seq(classes')
        BY <1>0, <2>2
      <3>3. /\ listed' \in Seq(classes') /\ Len(listed') = Len(listed) + 1
            /\ \A i \in 1..Len(listed) : listed'[i] = listed[i]
            /\ listed'[Len(listed) + 1] = Head(coming)
        BY <1>0, <2>2, <3>2
      <3>4. ASSUME NEW i \in 1..Len(listed'), NEW j \in 1..Len(listed'), listed'[i] = listed'[j]
            PROVE  i = j
        <4>1. \A k, l \in 1..Len(listed) : listed[k] = listed[l] => k = l
          BY Zenon DEF Registered
        <4> QED BY <1>0, <3>1, <3>3, <3>4, <4>1
      <3> QED BY <3>3, <3>4 DEF Registered
    <2> QED BY <1>1, <2>1, <2>2 DEF RegisterClass, classVars
  <1>2. CASE DropClass
    <2>1. CASE UNCHANGED <<classes, listed>>
      BY <2>1 DEF Registered
    <2>2. CASE /\ listed # <<>> /\ listed' = RemoveAt(listed, Len(listed))
               /\ classes' \in {classes, classes \ {listed[Len(listed)]}}
      <3>1. Len(listed) \in Nat \ {0}
        BY <1>0, <2>2
      <3>2. listed' = [i \in 1..(Len(listed) - 1) |-> listed[i]]
        BY <2>2, <3>1 DEF RemoveAt
      <3>3. \A k, l \in 1..Len(listed) : listed[k] = listed[l] => k = l
        BY Zenon DEF Registered
      <3>4. \A i \in 1..(Len(listed) - 1) : listed[i] \in classes'
        BY <1>0, <2>2, <3>1, <3>3
      <3>5. /\ listed' \in Seq(classes') /\ Len(listed') = Len(listed) - 1
            /\ \A i \in 1..Len(listed') : listed'[i] = listed[i]
        BY <3>1, <3>2, <3>4
      <3> QED BY <3>1, <3>3, <3>5 DEF Registered
    <2> QED BY <1>2, <2>1, <2>2 DEF DropClass, Popped
  <1>3. CASE ~RegisterClass /\ ~DropClass
    <2>1. UNCHANGED <<classes, listed>>
      BY <1>3, OthersKeepTheClasses
    <2> QED BY <2>1 DEF Registered
  <1> QED BY <1>1, <1>2, <1>3

\* The flags stay flags and the steps those of register and unregister.
LEMMA FlaggedHolds == Flagged /\ [Next]_vars => Flagged'
  <1> SUFFICES ASSUME Flagged, [Next]_vars PROVE Flagged'
    OBVIOUS
  <1> USE DEF Flagged, Steps, lifeVars, uiVars, loanVars, shellVars, histories
  <1>0. CASE UNCHANGED vars
    BY <1>0, Zenon DEF vars
  <1>1. CASE Register
    BY <1>1, Zenon DEF Register
  <1>2. CASE OpenEngine
    BY <1>2, Zenon DEF OpenEngine, Refused
  <1>3. CASE SynchronizeScene
    BY <1>3, Zenon DEF SynchronizeScene, Unwinds
  <1>4. CASE RegisterHydra
    BY <1>4, Zenon DEF RegisterHydra, Unwinds
  <1>5. CASE Lend
    BY <1>5, Zenon DEF Lend, Unwinds
  <1>6. CASE MakeClasses
    BY <1>6, Zenon DEF MakeClasses, Unwinds
  <1>7. CASE RegisterClass
    BY <1>7, Zenon DEF RegisterClass, Unwinds
  <1>8. CASE StartWatching
    BY <1>8, Zenon DEF StartWatching, Unwinds
  <1>9. CASE Unregister
    BY <1>9, Zenon DEF Unregister
  <1>10. CASE StopWatching
    BY <1>10, Zenon DEF StopWatching
  <1>11. CASE DropClass
    BY <1>11, Zenon DEF DropClass, Abandons
  <1>12. CASE LetGoOfLink
    BY <1>12, Zenon DEF LetGoOfLink, LetGo
  <1>13. CASE DropHydra
    BY <1>13, Zenon DEF DropHydra, Abandons
  <1>14. CASE TakeBack
    BY <1>14, Zenon DEF TakeBack, TakenBack
  <1>15. CASE ShutDown
    BY <1>15, Zenon DEF ShutDown
  <1>16. CASE End
    BY <1>16, Zenon DEF End
  <1>17. CASE Press
    BY <1>17, Zenon DEF Press
  <1>18. CASE EngineRevises
    BY <1>18, Zenon DEF EngineRevises
  <1>19. CASE OpensFile
    BY <1>19, Zenon DEF OpensFile
  <1> QED BY <1>0, <1>1, <1>2, <1>3, <1>4, <1>5, <1>6, <1>7, <1>8, <1>9, <1>10,
             <1>11, <1>12, <1>13, <1>14, <1>15, <1>16, <1>17, <1>18, <1>19 DEF Next, Enabling, Undoing

\* Exceptions are counted.
LEMMA RaisesHold == RaisesCounted /\ [Next]_vars => RaisesCounted'
  <1> SUFFICES ASSUME RaisesCounted, [Next]_vars PROVE RaisesCounted'
    OBVIOUS
  <1> DEFINE counts == raises' = raises \/ (raises < MaxRaises /\ raises' = raises + 1)
  <1> USE DEF Raises
  <1>1. counts
    <2>1. CASE UNCHANGED vars
      BY <2>1, Zenon DEF vars
    <2>2. CASE Register \/ OpenEngine \/ SynchronizeScene \/ RegisterHydra
      BY <2>2, Zenon DEF Register, OpenEngine, SynchronizeScene, RegisterHydra
    <2>3. CASE Lend \/ MakeClasses \/ RegisterClass \/ StartWatching
      BY <2>3, Zenon DEF Lend, MakeClasses, RegisterClass, StartWatching
    <2>4. CASE Unregister \/ StopWatching \/ DropClass \/ LetGoOfLink
      BY <2>4, Zenon DEF Unregister, StopWatching, DropClass, LetGoOfLink
    <2>5. CASE DropHydra \/ TakeBack \/ ShutDown \/ End
      BY <2>5, Zenon DEF DropHydra, TakeBack, ShutDown, End
    <2>6. CASE Press \/ EngineRevises \/ OpensFile
      BY <2>6, Zenon DEF Press, EngineRevises, OpensFile
    <2> QED BY <2>1, <2>2, <2>3, <2>4, <2>5, <2>6 DEF Next, Enabling, Undoing
  <1> QED BY <1>1, ExtensionAssumption DEF RaisesCounted

\* The greater of two numbers is a number.
LEMMA MaxIsNat ==
    ASSUME NEW m \in Nat, NEW n \in Nat
    PROVE  Max({m, n}) \in Nat /\ Max({m, n}) >= m
  <1>1. \E x \in {m, n} : \A y \in {m, n} : x >= y
    BY SMT
  <1>2. Max({m, n}) \in {m, n} /\ \A y \in {m, n} : Max({m, n}) >= y
    BY <1>1 DEF Max
  <1> QED BY <1>2

\* The Hydra classes are counted.
LEMMA HydraHolds == HydraCounted /\ [Next]_vars => HydraCounted'
  <1> SUFFICES ASSUME HydraCounted, [Next]_vars PROVE HydraCounted'
    OBVIOUS
  <1> USE DEF uiVars, hydraVars
  <1>1. CASE UNCHANGED hydraVars
    BY <1>1 DEF HydraCounted
  <1>2. CASE RegisterHydra
    <2> PICK runtime \in Runtimes :
          /\ \/ hydra' = hydra
             \/ hydra' \in hydra..Max({hydra, runtime.delegates})
             \/ hydra' = Max({hydra, runtime.delegates})
          /\ hydraKnown' \in {hydraKnown, 0, runtime.delegates}
      BY <1>2 DEF RegisterHydra
    <2>1. runtime.delegates \in Nat
      BY ExtensionAssumption
    <2>2. Max({hydra, runtime.delegates}) \in Nat
      BY <2>1, MaxIsNat DEF HydraCounted
    <2> QED BY <2>1, <2>2 DEF HydraCounted
  <1>3. CASE DropHydra
    <2>1. \/ hydra >= hydraKnown /\ hydra' = hydra - hydraKnown /\ hydraKnown' = 0
          \/ hydra' \in Max({0, hydra - hydraKnown})..hydra /\ hydraKnown' = hydraKnown
          \/ hydra' = hydra /\ hydraKnown' = hydraKnown
      BY <1>3 DEF DropHydra
    <2>2. CASE hydra >= hydraKnown /\ hydra' = hydra - hydraKnown /\ hydraKnown' = 0
      BY <2>2 DEF HydraCounted
    <2>3. CASE hydra' \in Max({0, hydra - hydraKnown})..hydra /\ hydraKnown' = hydraKnown
      <3>1. \E x \in {0, hydra - hydraKnown} : \A y \in {0, hydra - hydraKnown} : x >= y
        BY DEF HydraCounted
      <3>2. /\ Max({0, hydra - hydraKnown}) \in {0, hydra - hydraKnown}
            /\ \A y \in {0, hydra - hydraKnown} : Max({0, hydra - hydraKnown}) >= y
        BY <3>1 DEF Max
      <3>3. Max({0, hydra - hydraKnown}) \in Nat
        BY <3>2 DEF HydraCounted
      <3> QED BY <2>3, <3>3 DEF HydraCounted
    <2> QED BY <2>1, <2>2, <2>3 DEF HydraCounted
  <1>4. CASE UNCHANGED vars
    BY <1>1, <1>4 DEF vars
  <1>5. CASE Register \/ OpenEngine \/ SynchronizeScene \/ Lend
    BY <1>1, <1>5 DEF Register, OpenEngine, SynchronizeScene, Lend
  <1>6. CASE MakeClasses \/ RegisterClass \/ StartWatching
    BY <1>1, <1>6 DEF MakeClasses, RegisterClass, StartWatching
  <1>7. CASE Unregister \/ StopWatching \/ DropClass \/ LetGoOfLink
    BY <1>1, <1>7 DEF Unregister, StopWatching, DropClass, LetGoOfLink
  <1>8. CASE TakeBack \/ ShutDown \/ End
    BY <1>1, <1>8 DEF TakeBack, ShutDown, End
  <1>9. CASE Press \/ EngineRevises \/ OpensFile
    BY <1>1, <1>9 DEF Press, EngineRevises, OpensFile
  <1> QED BY <1>2, <1>3, <1>4, <1>5, <1>6, <1>7, <1>8, <1>9 DEF Next, Enabling, Undoing

\* The engines are counted, and those held are among them.
LEMMA EnginesHold == EnginesCounted /\ [Next]_vars => EnginesCounted'
  <1> SUFFICES ASSUME EnginesCounted, [Next]_vars PROVE EnginesCounted'
    OBVIOUS
  <1> USE DEF uiVars, loanVars, lifeVars, bridgeVars
  <1>0. engines \in Nat /\ MaxEngines \in Nat /\ engines <= MaxEngines
    BY EngineBridgeAssumption DEF EnginesCounted
  <1>1. CASE OpenEngine
    <2>1. \/ engines' = engines /\ live' = live /\ handle' = handle
          \/ engines < MaxEngines /\ engines' = engines + 1 /\ live' = live \cup {engines'}
              /\ handle' \in {handle, engines'}
      BY <1>1 DEF OpenEngine, OpenRefused, WrapperRaises, Opened, Created
    <2>2. engine' \in {engine, engines'} /\ lent' = lent
      BY <1>1 DEF OpenEngine, Refused
    <2>3. CASE engines' = engines /\ live' = live /\ handle' = handle
      BY <2>2, <2>3, <1>0 DEF EnginesCounted
    <2>4. CASE engines < MaxEngines /\ engines' = engines + 1 /\ live' = live \cup {engines'}
               /\ handle' \in {handle, engines'}
      <3>1. engines' \in 0..MaxEngines /\ \A n \in 0..engines : n \in 0..engines'
        BY <1>0, <2>4
      <3>2. engines' \in 1..engines' /\ engines' \in 0..engines' /\ \A n \in 1..engines : n \in 1..engines'
        BY <1>0, <2>4
      <3> QED BY <2>2, <2>4, <3>1, <3>2 DEF EnginesCounted
    <2> QED BY <2>1, <2>3, <2>4
  <1>2. CASE ShutDown
    <2>1. /\ engines' = engines /\ live' \subseteq live /\ handle' = 0
          /\ engine' = engine /\ lent' = lent
      BY <1>2 DEF ShutDown, Shutdown
    <2> QED BY <1>0, <2>1 DEF EnginesCounted
  <1>3. CASE ~OpenEngine /\ ~ShutDown
    <2>1. engines' = engines /\ live' = live /\ handle' = handle
      BY <1>3, OthersKeepTheBridge
    <2>2. engine' \in {engine, 0} /\ lent' \in {lent, 0, engine}
      <3>1. CASE UNCHANGED vars
        BY <3>1 DEF vars
      <3>2. CASE Register \/ SynchronizeScene \/ RegisterHydra \/ Lend
        BY <3>2 DEF Register, SynchronizeScene, RegisterHydra, Lend
      <3>3. CASE MakeClasses \/ RegisterClass \/ StartWatching
        BY <3>3 DEF MakeClasses, RegisterClass, StartWatching
      <3>4. CASE Unregister \/ StopWatching \/ DropClass \/ LetGoOfLink
        BY <3>4 DEF Unregister, StopWatching, DropClass, LetGoOfLink, Abandons
      <3>5. CASE DropHydra \/ TakeBack \/ End
        BY <3>5 DEF DropHydra, TakeBack, TakenBack, End, Abandons
      <3>6. CASE Press \/ EngineRevises \/ OpensFile
        BY <3>6 DEF Press, EngineRevises, OpensFile
      <3> QED BY <1>3, <3>1, <3>2, <3>3, <3>4, <3>5, <3>6 DEF Next, Enabling, Undoing
    <2> QED BY <2>1, <2>2, EngineBridgeAssumption DEF EnginesCounted
  <1> QED BY <1>1, <1>2, <1>3
-----------------------------------------------------------------------------
\* A set of numbers that has zero and with each the next has them all.
LEMMA CountingUp ==
    ASSUME NEW T, 0 \in T, \A m \in Nat : m \in T => m + 1 \in T
    PROVE  Nat \subseteq T
<1> DEFINE R == OpToRel(<, Nat)
           U == Nat \ T
<1> SUFFICES ASSUME U # {} PROVE FALSE
  OBVIOUS
<1>1. IsWellFoundedOn(R, Nat)
  BY NatLessThanWellFounded
<1>2. \A x, y \in Nat : y < x => <<y, x>> \in R
  BY DEF OpToRel
<1> HIDE DEF R
<1>3. PICK x \in U : \A y \in U : ~(<<y, x>> \in R)
  BY <1>1, WFMin
<1>4. x \in Nat \ {0} /\ x - 1 \in Nat /\ x - 1 < x /\ (x - 1) + 1 = x
  BY <1>3
<1>5. x - 1 \notin U
  BY <1>2, <1>3, <1>4
<1> QED BY <1>3, <1>4, <1>5

-----------------------------------------------------------------------------
(* Decoding: the reader is there, and goes on.                               *)

GoesOn(read, from) ==
    \A named \in BOOLEAN, count \in Nat :
        read[from][named][count].next \in Nat /\ read[from][named][count].next >= from

\* Whatever the units are, one value takes at least one of them.
LEMMA ValueGoesOn ==
    ASSUME NEW D, NEW data \in Seq(D), NEW read, NEW at \in Nat, GoesOn(read, at + 2)
    PROVE  Value(data, read, at).next \in Nat /\ Value(data, read, at).next > at
<1> DEFINE inner == read[at + 2][Unit(data, at) = 8][Count(data, at + 1)]
           tag == Unit(data, at)
<1>1. Count(data, at + 1) \in Nat /\ (tag = 8) \in BOOLEAN
  BY DEF Count
<1>2. inner.next \in Nat /\ inner.next >= at + 2
  BY <1>1 DEF GoesOn
<1>3. Len(data) \in Nat /\ DOMAIN data = 1..Len(data)
  BY LenProperties
<1>4. tag # 0 => at <= Len(data)
  BY <1>3 DEF Unit
<1>5. Value(data, read, at).next \in {at + 1, at + 2, at + 3, inner.next}
        \/ (tag # 0 /\ Value(data, read, at).next = Len(data) + 2)
  <2> HIDE DEF tag, inner
  <2>1. Value(data, read, at) =
    CASE tag = 0 -> [value |-> Absent, next |-> at + 1]
      [] tag = 1 -> [value |-> Unit(data, at + 1) # 0, next |-> at + 2]
      [] tag \in 2..4 -> [value |-> Unit(data, at + 1), next |-> at + 2]
      [] tag \in {5, 6} -> [value |-> Characters(data, at + 2), next |-> at + 3]
      [] tag = 7 -> [value |-> inner.taken, next |-> inner.next]
      [] tag = 8 -> [value |-> Dictionary(inner.taken), next |-> inner.next]
      [] OTHER -> [value |-> Absent, next |-> Len(data) + 2]
    BY DEF Value, tag, inner
  <2> QED BY <2>1
<1> HIDE DEF inner, tag
<1> QED BY <1>2, <1>3, <1>4, <1>5

\* Readers that agree after a position read the same from there.
AgreeAfter(f, g, from) == \A x \in Nat : x > from => f[x] = g[x] /\ GoesOn(f, x)
LEMMA TakenAgree ==
    ASSUME NEW D, NEW data \in Seq(D), NEW f, NEW g, NEW from \in Nat, AgreeAfter(f, g, from),
           NEW named \in BOOLEAN, NEW count \in Nat
    PROVE  /\ Taken(data, f, from, named, count) = Taken(data, g, from, named, count)
           /\ Taken(data, f, from, named, count).next \in Nat
           /\ Taken(data, f, from, named, count).next >= from
<1>1. CASE count = 0
  BY <1>1 DEF Taken
<1>2. CASE count # 0 /\ from > Len(data)
  BY <1>2 DEF Taken
<1>3. CASE count # 0 /\ ~(from > Len(data))
  <2> DEFINE at == IF named THEN from + 2 ELSE from
             first == Value(data, f, at)
             taken == IF named THEN <<Characters(data, from + 1), first.value>> ELSE first.value
             rest == f[first.next][named][count - 1]
  <2>1. at \in Nat /\ at >= from /\ at + 2 > from /\ at + 2 \in Nat
    OBVIOUS
  <2> HIDE DEF at
  <2>2. f[at + 2] = g[at + 2] /\ GoesOn(f, at + 2)
    BY <2>1 DEF AgreeAfter
  <2>3. Value(data, f, at) = Value(data, g, at)
    BY <2>2 DEF Value
  <2>4. first.next \in Nat /\ first.next > at
    BY <2>1, <2>2, ValueGoesOn
  <2>5. first.next > from /\ f[first.next] = g[first.next] /\ GoesOn(f, first.next)
    BY <2>1, <2>4 DEF AgreeAfter
  <2>6. count - 1 \in Nat
    BY <1>3
  <2>7. rest.next \in Nat /\ rest.next >= from
    <3>1. rest.next \in Nat /\ rest.next >= first.next
      BY <2>5, <2>6 DEF GoesOn
    <3> HIDE DEF rest, first
    <3> QED BY <2>4, <2>5, <3>1
  <2>8. Taken(data, f, from, named, count) = [taken |-> <<taken>> \o rest.taken, next |-> rest.next]
    BY <1>3 DEF Taken, at
  <2>9. Taken(data, g, from, named, count) = [taken |-> <<taken>> \o rest.taken, next |-> rest.next]
    <3>1. first = Value(data, g, at) /\ rest = g[first.next][named][count - 1]
      BY <2>3, <2>5
    <3> HIDE DEF first, rest
    <3> QED BY <1>3, <3>1 DEF Taken, at
  <2> HIDE DEF taken, rest
  <2> QED BY <2>7, <2>8, <2>9
<1> QED BY <1>1, <1>2, <1>3

\* So they read all of it the same.
LEMMA ReadersAgree ==
    ASSUME NEW D, NEW data \in Seq(D), NEW f, NEW g, NEW from \in Nat, AgreeAfter(f, g, from)
    PROVE  /\ Reading(data, f, from) = Reading(data, g, from)
           /\ \A h : h[from] = Reading(data, f, from) => GoesOn(h, from)
<1>1. \A named \in BOOLEAN : \A count \in Nat :
        /\ Taken(data, f, from, named, count) = Taken(data, g, from, named, count)
        /\ Taken(data, f, from, named, count).next \in Nat
        /\ Taken(data, f, from, named, count).next >= from
  BY TakenAgree
<1>2. Reading(data, f, from) = Reading(data, g, from)
  <2>1. \A named \in BOOLEAN : [count \in Nat |-> Taken(data, f, from, named, count)]
                               = [count \in Nat |-> Taken(data, g, from, named, count)]
    BY <1>1
  <2> QED BY <2>1 DEF Reading
<1>3. ASSUME NEW h, h[from] = Reading(data, f, from), NEW named \in BOOLEAN, NEW count \in Nat
      PROVE  h[from][named][count].next \in Nat /\ h[from][named][count].next >= from
  <2>1. h[from][named][count] = Taken(data, f, from, named, count)
    BY <1>3 DEF Reading
  <2> QED BY <1>1, <2>1
<1>4. ASSUME NEW h, h[from] = Reading(data, f, from) PROVE GoesOn(h, from)
  BY <1>3, <1>4 DEF GoesOn
<1> QED BY <1>2, <1>4

\* Past the end there is nothing more to agree on.
LEMMA ReadPastTheEnd ==
    ASSUME NEW D, NEW data \in Seq(D), NEW f, NEW g, NEW from \in Nat, from > Len(data)
    PROVE  /\ Reading(data, f, from) = Reading(data, g, from)
           /\ \A h : h[from] = Reading(data, f, from) => GoesOn(h, from)
<1>1. ASSUME NEW named \in BOOLEAN, NEW count \in Nat
      PROVE  /\ Taken(data, f, from, named, count) = Taken(data, g, from, named, count)
             /\ Taken(data, f, from, named, count).next \in Nat
             /\ Taken(data, f, from, named, count).next >= from
  BY DEF Taken
<1>2. Reading(data, f, from) = Reading(data, g, from)
  <2>1. \A named \in BOOLEAN : [count \in Nat |-> Taken(data, f, from, named, count)]
                               = [count \in Nat |-> Taken(data, g, from, named, count)]
    BY <1>1
  <2> QED BY <2>1 DEF Reading
<1>3. ASSUME NEW h, h[from] = Reading(data, f, from), NEW named \in BOOLEAN, NEW count \in Nat
      PROVE  h[from][named][count].next \in Nat /\ h[from][named][count].next >= from
  <2>1. h[from][named][count] = Taken(data, f, from, named, count)
    BY <1>3 DEF Reading
  <2> QED BY <1>1, <2>1
<1>4. ASSUME NEW h, h[from] = Reading(data, f, from) PROVE GoesOn(h, from)
  BY <1>3, <1>4 DEF GoesOn
<1> QED BY <1>2, <1>4

Reads(data, read) == read = [from \in Nat |-> Reading(data, read, from)]

\* There is a reader of any data: each position asks only for those after it.
LEMMA ReaderExists ==
    ASSUME NEW D, NEW data \in Seq(D)
    PROVE  \E read : Reads(data, read)
<1> DEFINE After(f) == [from \in Nat |-> Reading(data, f, from)]
           Is(f, k) == \A from \in Nat :
             from + k > Len(data) => f[from] = Reading(data, f, from) /\ GoesOn(f, from)
           T == {k \in Nat : \E f : Is(f, k) /\ f = [from \in Nat |-> f[from]]}
<1>1. Len(data) \in Nat
  BY LenProperties
<1>2. ASSUME NEW f PROVE After(f) = [from \in Nat |-> After(f)[from]]
  OBVIOUS
<1>3. ASSUME NEW f, NEW from \in Nat PROVE After(f)[from] = Reading(data, f, from)
  OBVIOUS
<1> HIDE DEF After
<1>4. 0 \in T
  <2> DEFINE f == After(0)
  <2>1. ASSUME NEW from \in Nat, from + 0 > Len(data)
        PROVE  f[from] = Reading(data, f, from) /\ GoesOn(f, from)
    <3>1. f[from] = Reading(data, 0, from) /\ from > Len(data)
      BY <1>1, <1>3, <2>1
    <3> HIDE DEF f
    <3> QED BY <3>1, ReadPastTheEnd
  <2>2. Is(f, 0)
    BY <2>1
  <2>3. f = [from \in Nat |-> f[from]]
    BY <1>2
  <2> HIDE DEF f, Is
  <2> QED BY <2>2, <2>3
<1>5. ASSUME NEW k \in Nat, k \in T PROVE k + 1 \in T
  <2>1. PICK f : Is(f, k) /\ f = [from \in Nat |-> f[from]]
    BY <1>5
  <2> DEFINE g == After(f)
  <2>2. ASSUME NEW from \in Nat, from + (k + 1) > Len(data)
        PROVE  g[from] = Reading(data, g, from) /\ GoesOn(g, from)
    <3>1. ASSUME NEW x \in Nat, x > from PROVE f[x] = g[x] /\ GoesOn(f, x)
      <4>1. x + k > Len(data)
        BY <1>1, <2>2, <3>1
      <4> QED BY <1>3, <2>1, <4>1
    <3>2. g[from] = Reading(data, f, from)
      BY <1>3
    <3> HIDE DEF g
    <3>3. AgreeAfter(f, g, from)
      BY <3>1 DEF AgreeAfter
    <3> QED BY <3>2, <3>3, ReadersAgree
  <2>3. Is(g, k + 1)
    BY <2>2
  <2>4. g = [from \in Nat |-> g[from]]
    BY <1>2
  <2> HIDE DEF g, Is
  <2> QED BY <2>3, <2>4
<1> HIDE DEF T
<1>6. Len(data) + 1 \in T
  BY <1>1, <1>4, <1>5, CountingUp
<1>7. PICK f : Is(f, Len(data) + 1) /\ f = [from \in Nat |-> f[from]]
  BY <1>6 DEF T
<1>8. \A from \in Nat : f[from] = Reading(data, f, from)
  BY <1>1, <1>7
<1>9. f = [from \in Nat |-> Reading(data, f, from)]
  BY <1>7, <1>8
<1> QED BY <1>9 DEF Reads

\* Values is that reader.
LEMMA ValuesAreRead ==
    ASSUME NEW D, NEW data \in Seq(D), NEW from \in Nat, NEW named \in BOOLEAN, NEW count \in Nat
    PROVE  Values(data)[from][named][count] = Taken(data, Values(data), from, named, count)
<1> DEFINE read == CHOOSE f : Reads(data, f)
<1>1. Values(data) = read
  BY DEF Values, Reads
<1>2. Reads(data, read)
  BY ReaderExists
<1> HIDE DEF read
<1>3. read[from] = Reading(data, read, from)
  BY <1>2 DEF Reads
<1>4. read[from][named][count] = Taken(data, read, from, named, count)
  BY <1>3 DEF Reading
<1> QED BY <1>1, <1>4


\* The function FlattenSeq is made of is there.
LEMMA FlattenExists ==
    ASSUME NEW s, NEW n \in Nat
    PROVE  \E f : f = [i \in 1..n |-> IF i = 1 THEN s[i] ELSE f[i - 1] \o s[i]]
<1> DEFINE Is(f, m) == f = [i \in 1..m |-> IF i = 1 THEN s[i] ELSE f[i - 1] \o s[i]]
           T == {m \in Nat : \E f : Is(f, m)}
<1>1. 0 \in T
  <2>1. Is([i \in 1..0 |-> s[i]], 0)
    OBVIOUS
  <2> QED BY <2>1
<1>2. ASSUME NEW m \in Nat, m \in T PROVE m + 1 \in T
  <2>1. PICK f : Is(f, m)
    BY <1>2
  <2> DEFINE g == [i \in 1..(m + 1) |-> IF i = 1 THEN s[i] ELSE f[i - 1] \o s[i]]
  <2>2. ASSUME NEW i \in 1..(m + 1), i # 1 PROVE g[i - 1] = f[i - 1]
    <3>1. i - 1 \in 1..m /\ i - 1 \in 1..(m + 1)
      BY <2>2
    <3>2. f[i - 1] = IF i - 1 = 1 THEN s[i - 1] ELSE f[(i - 1) - 1] \o s[i - 1]
      BY <2>1, <3>1
    <3> QED BY <3>1, <3>2
  <2>3. Is(g, m + 1)
    <3>1. [i \in 1..(m + 1) |-> IF i = 1 THEN s[i] ELSE f[i - 1] \o s[i]]
          = [i \in 1..(m + 1) |-> IF i = 1 THEN s[i] ELSE g[i - 1] \o s[i]]
      <4> HIDE DEF g
      <4> QED BY <2>2
    <3> QED BY <3>1
  <2> HIDE DEF Is, g
  <2> QED BY <2>3
<1> HIDE DEF T
<1>3. n \in T
  BY <1>1, <1>2, CountingUp
<1> QED BY <1>3 DEF T

\* FlattenSeq puts the sequences one behind the other.
LEMMA FlattenSteps ==
    ASSUME NEW S, NEW s \in Seq(Seq(S))
    PROVE  \E f : /\ f[0] = <<>> /\ f[Len(s)] = FlattenSeq(s)
                  /\ \A i \in 0..Len(s) : f[i] \in Seq(S)
                  /\ \A i \in 1..Len(s) : f[i] = f[i - 1] \o s[i]
<1>1. Len(s) \in Nat /\ \A i \in 1..Len(s) : s[i] \in Seq(S)
  BY LenProperties, ElementOfSeq
<1> DEFINE Is(g) == g = [i \in 1..Len(s) |-> IF i = 1 THEN s[i] ELSE g[i - 1] \o s[i]]
           flatten == CHOOSE g : Is(g)
           f == [i \in 0..Len(s) |-> IF i = 0 THEN <<>> ELSE flatten[i]]
<1>2. flatten = [i \in 1..Len(s) |-> IF i = 1 THEN s[i] ELSE flatten[i - 1] \o s[i]]
  <2>1. \E g : Is(g)
    BY <1>1, FlattenExists
  <2> HIDE DEF Is
  <2>2. Is(flatten)
    BY <2>1
  <2> QED BY <2>2 DEF Is
<1>3. FlattenSeq(s) = IF Len(s) = 0 THEN s ELSE flatten[Len(s)]
  BY DEF FlattenSeq
<1> HIDE DEF flatten
<1>4. ASSUME NEW i \in 1..Len(s) PROVE f[i] = f[i - 1] \o s[i]
  <2>1. CASE i = 1
    <3>1. f[i] = s[i] /\ f[i - 1] = <<>>
      BY <1>1, <1>2, <2>1
    <3> QED BY <1>1, <3>1, ConcatEmptySeq
  <2>2. CASE i # 1
    <3>1. i - 1 \in 0..Len(s) /\ i - 1 # 0 /\ i \in 0..Len(s) /\ i # 0
      BY <1>1, <2>2
    <3>2. flatten[i] = flatten[i - 1] \o s[i]
      BY <1>2, <2>2
    <3> QED BY <3>1, <3>2
  <2> QED BY <2>1, <2>2
<1>5. f[0] = <<>> /\ f[Len(s)] = FlattenSeq(s)
  <2>1. 0 \in 0..Len(s) /\ Len(s) \in 0..Len(s)
    BY <1>1
  <2>2. Len(s) = 0 => s = <<>>
    BY EmptySeq
  <2> QED BY <1>3, <2>1, <2>2
<1> HIDE DEF f
<1>6. \A i \in 0..Len(s) : f[i] \in Seq(S)
  <2> DEFINE T == {m \in Nat : m <= Len(s) => f[m] \in Seq(S)}
  <2>1. 0 \in T
    <3>1. <<>> \in Seq(S)
      OBVIOUS
    <3> QED BY <1>5, <3>1
  <2>2. ASSUME NEW m \in Nat, m \in T PROVE m + 1 \in T
    <3> SUFFICES ASSUME m + 1 <= Len(s) PROVE f[m + 1] \in Seq(S)
      OBVIOUS
    <3>1. m + 1 \in 1..Len(s) /\ (m + 1) - 1 = m /\ m <= Len(s)
      BY <1>1
    <3>2. f[m + 1] = f[m] \o s[m + 1] /\ f[m] \in Seq(S) /\ s[m + 1] \in Seq(S)
      BY <1>1, <1>4, <2>2, <3>1
    <3> QED BY <3>2, ConcatProperties
  <2> HIDE DEF T
  <2>3. Nat \subseteq T
    BY <2>1, <2>2, CountingUp
  <2> QED BY <1>1, <2>3 DEF T
<1> WITNESS f
<1> QED BY <1>4, <1>5, <1>6


-----------------------------------------------------------------------------
(* Decoding: what was encoded.                                               *)

\* Units that stand in the data from a position on.
Holds(data, from, units) ==
    /\ from + Len(units) <= Len(data) + 1
    /\ \A j \in 1..Len(units) : data[from + j - 1] = units[j]

\* Where two sequences stand one behind the other, each of them stands.
LEMMA HoldsBoth ==
    ASSUME NEW S, NEW data \in Seq(S), NEW from \in Nat \ {0}, NEW a \in Seq(S), NEW b \in Seq(S),
           Holds(data, from, a \o b)
    PROVE  /\ Holds(data, from, a) /\ Holds(data, from + Len(a), b)
           /\ from + Len(a) \in Nat \ {0} /\ Len(a \o b) = Len(a) + Len(b)
<1> DEFINE c == a \o b
<1>1. /\ Len(a) \in Nat /\ Len(b) \in Nat /\ Len(data) \in Nat
      /\ Len(c) = Len(a) + Len(b)
      /\ \A i \in 1..Len(a) + Len(b) : c[i] = IF i <= Len(a) THEN a[i] ELSE b[i - Len(a)]
  BY LenProperties, ConcatProperties
<1>2. Holds(data, from, c)
  OBVIOUS
<1> HIDE DEF c
<1>3. Holds(data, from, a)
  <2>1. from + Len(a) <= Len(data) + 1
    BY <1>1, <1>2 DEF Holds
  <2>2. ASSUME NEW j \in 1..Len(a) PROVE data[from + j - 1] = a[j]
    <3>1. j \in 1..Len(a) + Len(b) /\ j \in 1..Len(c) /\ j <= Len(a)
      BY <1>1
    <3> QED BY <1>1, <1>2, <3>1 DEF Holds
  <2> QED BY <2>1, <2>2 DEF Holds
<1>4. Holds(data, from + Len(a), b)
  <2>1. (from + Len(a)) + Len(b) <= Len(data) + 1
    BY <1>1, <1>2 DEF Holds
  <2>2. ASSUME NEW j \in 1..Len(b) PROVE data[(from + Len(a)) + j - 1] = b[j]
    <3> DEFINE i == Len(a) + j
    <3>1. /\ i \in 1..Len(a) + Len(b) /\ i \in 1..Len(c) /\ ~(i <= Len(a)) /\ i - Len(a) = j
          /\ (from + Len(a)) + j - 1 = from + i - 1
      BY <1>1
    <3> HIDE DEF i
    <3>2. data[from + i - 1] = c[i]
      BY <1>2, <3>1 DEF Holds
    <3> QED BY <1>1, <3>1, <3>2
  <2> QED BY <2>1, <2>2 DEF Holds
<1> QED BY <1>1, <1>3, <1>4 DEF c

\* Each of the sequences put one behind the other stands at a place of its own.
Places(data, from, s, p) ==
    /\ p[0] = from /\ p[Len(s)] = from + Len(FlattenSeq(s))
    /\ \A i \in 1..Len(s) : /\ p[i - 1] \in Nat \ {0} /\ Holds(data, p[i - 1], s[i])
                            /\ p[i] = p[i - 1] + Len(s[i])
LEMMA HoldsEach ==
    ASSUME NEW S, NEW data \in Seq(S), NEW from \in Nat \ {0}, NEW s \in Seq(Seq(S)),
           Holds(data, from, FlattenSeq(s))
    PROVE  \E p : Places(data, from, s, p)
<1>1. Len(s) \in Nat /\ \A i \in 1..Len(s) : s[i] \in Seq(S)
  BY LenProperties, ElementOfSeq
<1>2. PICK f : /\ f[0] = <<>> /\ f[Len(s)] = FlattenSeq(s)
               /\ \A i \in 0..Len(s) : f[i] \in Seq(S)
               /\ \A i \in 1..Len(s) : f[i] = f[i - 1] \o s[i]
  BY FlattenSteps
<1> DEFINE n == Len(s)
           p == [i \in 0..n |-> from + Len(f[i])]
           T == {m \in Nat : m <= n => Holds(data, from, f[n - m])}
<1>3. 0 \in T
  BY <1>1, <1>2
<1>4. ASSUME NEW m \in Nat, m \in T PROVE m + 1 \in T
  <2> SUFFICES ASSUME m + 1 <= n PROVE Holds(data, from, f[n - (m + 1)])
    OBVIOUS
  <2> DEFINE i == n - m
  <2>1. i \in 1..n /\ i - 1 = n - (m + 1) /\ i - 1 \in 0..n /\ m <= n
    BY <1>1
  <2>2. Holds(data, from, f[i])
    BY <1>4, <2>1
  <2> HIDE DEF i
  <2>3. f[i] = f[i - 1] \o s[i] /\ f[i - 1] \in Seq(S) /\ s[i] \in Seq(S)
    BY <1>1, <1>2, <2>1
  <2>4. Holds(data, from, f[i - 1])
    BY <2>2, <2>3, HoldsBoth
  <2> QED BY <2>1, <2>4
<1> HIDE DEF T
<1>5. Nat \subseteq T
  BY <1>3, <1>4, CountingUp
<1>6. ASSUME NEW i \in 0..n PROVE Holds(data, from, f[i])
  <2>1. n - i \in Nat /\ n - i <= n /\ n - (n - i) = i
    BY <1>1
  <2>2. n - i \in T
    BY <1>5, <2>1
  <2> QED BY <2>1, <2>2 DEF T
<1>7. /\ \A i \in 0..n : p[i] = from + Len(f[i])
      /\ p[0] = from /\ p[n] = from + Len(FlattenSeq(s))
  <2>1. 0 \in 0..n /\ n \in 0..n /\ Len(<<>>) = 0
    BY <1>1
  <2>2. \A i \in 0..n : p[i] = from + Len(f[i])
    OBVIOUS
  <2> HIDE DEF p
  <2>3. p[0] = from + 0 /\ p[n] = from + Len(FlattenSeq(s))
    BY <1>2, <2>1, <2>2
  <2>4. from + 0 = from
    OBVIOUS
  <2> QED BY <2>2, <2>3, <2>4
<1> HIDE DEF p
<1>8. ASSUME NEW i \in 1..n
      PROVE  /\ p[i - 1] \in Nat \ {0} /\ Holds(data, p[i - 1], s[i])
             /\ p[i] = p[i - 1] + Len(s[i])
  <2>1. i \in 0..n /\ i - 1 \in 0..n
    BY <1>1
  <2> DEFINE a == f[i - 1]
             c == s[i]
  <2>2. f[i] = a \o c /\ a \in Seq(S) /\ c \in Seq(S)
    BY <1>1, <1>2, <2>1
  <2>3. Holds(data, from, a \o c)
    BY <1>6, <2>1, <2>2
  <2>4. p[i - 1] = from + Len(a) /\ p[i] = from + Len(f[i])
    BY <1>7, <2>1
  <2> HIDE DEF a, c
  <2>5. /\ Holds(data, from + Len(a), c) /\ from + Len(a) \in Nat \ {0}
        /\ Len(a \o c) = Len(a) + Len(c)
    BY <2>2, <2>3, HoldsBoth
  <2>6. Len(a) \in Nat /\ Len(c) \in Nat
    BY <2>2, LenProperties
  <2>7. p[i] = p[i - 1] + Len(c)
    <3>1. p[i] = from + (Len(a) + Len(c))
      BY <2>2, <2>4, <2>5
    <3>2. from + (Len(a) + Len(c)) = (from + Len(a)) + Len(c)
      BY <2>6
    <3> QED BY <2>4, <3>1, <3>2
  <2> QED BY <2>4, <2>5, <2>7 DEF c
<1> QED BY <1>7, <1>8 DEF Places

\* A value taken before the rest of them, and one that is taken so, from one position to the next.
Led(value, rest) == [taken |-> <<value>> \o rest.taken, next |-> rest.next]
TakenNext(data, value, from, next, named) ==
    \A count \in Nat \ {0} :
        Taken(data, Values(data), from, named, count) = Led(value, Values(data)[next][named][count - 1])

\* As many values as were counted, when each is taken from where the one before it ended.
LEMMA EachIsTaken ==
    ASSUME NEW D, NEW data \in Seq(D), NEW V, NEW t \in Seq(V), NEW p, NEW named \in BOOLEAN,
           \A i \in 0..Len(t) : p[i] \in Nat,
           \A i \in 1..Len(t) : TakenNext(data, t[i], p[i - 1], p[i], named)
    PROVE  Values(data)[p[0]][named][Len(t)] = [taken |-> t, next |-> p[Len(t)]]
<1> DEFINE n == Len(t)
           Good(m) == Values(data)[p[n - m]][named][m] = [taken |-> SubSeq(t, n - m + 1, n), next |-> p[n]]
           T == {m \in Nat : m <= n => Good(m)}
<1>1. n \in Nat
  BY LenProperties
<1>2. 0 \in T
  <2>1. n - 0 = n /\ p[n] \in Nat
    BY <1>1
  <2>2. Values(data)[p[n]][named][0] = Taken(data, Values(data), p[n], named, 0)
    BY <2>1, ValuesAreRead
  <2>3. Taken(data, Values(data), p[n], named, 0) = [taken |-> <<>>, next |-> p[n]]
    BY DEF Taken
  <2>4. SubSeq(t, n + 1, n) = <<>>
    BY <1>1
  <2> QED BY <2>1, <2>2, <2>3, <2>4
<1>3. ASSUME NEW m \in Nat, m \in T PROVE m + 1 \in T
  <2> SUFFICES ASSUME m + 1 <= n PROVE Good(m + 1)
    <3> HIDE DEF Good
    <3> QED OBVIOUS
  <2> DEFINE i == n - m
  <2>1. i \in 1..n /\ i - 1 = n - (m + 1) /\ i - 1 \in 0..n /\ m <= n
        /\ (m + 1) - 1 = m /\ m + 1 \in Nat \ {0}
    BY <1>1
  <2>2. Values(data)[p[i]][named][m] = [taken |-> SubSeq(t, i + 1, n), next |-> p[n]]
    BY <1>3, <2>1
  <2> HIDE DEF i
  <2>3. Taken(data, Values(data), p[i - 1], named, m + 1)
          = [taken |-> <<t[i]>> \o SubSeq(t, i + 1, n), next |-> p[n]]
    <3> DEFINE rest == Values(data)[p[i]][named][m]
    <3>1. Taken(data, Values(data), p[i - 1], named, m + 1)
            = [taken |-> <<t[i]>> \o rest.taken, next |-> rest.next]
      BY <2>1 DEF TakenNext, Led
    <3> HIDE DEF rest
    <3>2. rest = [taken |-> SubSeq(t, i + 1, n), next |-> p[n]]
      BY <2>2 DEF rest
    <3> QED BY <3>1, <3>2
  <2>4. Values(data)[p[i - 1]][named][m + 1] = Taken(data, Values(data), p[i - 1], named, m + 1)
    <3>1. p[i - 1] \in Nat /\ m + 1 \in Nat
      BY <2>1
    <3> QED BY <3>1, ValuesAreRead
  <2>5. <<t[i]>> \o SubSeq(t, i + 1, n) = SubSeq(t, i, n)
    <3>1. i \in 1..Len(t) /\ n \in i..Len(t)
      BY <1>1, <2>1
    <3> QED BY <3>1, SubSeqRecursiveFirst
  <2>6. n - (m + 1) + 1 = i /\ n - (m + 1) = i - 1
    BY <1>1, <2>1 DEF i
  <2> QED BY <2>3, <2>4, <2>5, <2>6
<1> HIDE DEF T
<1>4. n \in T
  BY <1>1, <1>2, <1>3, CountingUp
<1>5. Values(data)[p[n - n]][named][n] = [taken |-> SubSeq(t, n - n + 1, n), next |-> p[n]]
  BY <1>1, <1>4 DEF T
<1>6. n - n = 0 /\ n - n + 1 = 1 /\ SubSeq(t, 1, n) = t
  BY <1>1, SubSeqFull
<1> QED BY <1>5, <1>6


\* Units that read as a value wherever they stand in the data.
IsRead(S, data, units, value) ==
    /\ units \in Seq(S) /\ Len(units) \in Nat \ {0}
    /\ \A at \in Nat \ {0} :
         Holds(data, at, units) =>
            Value(data, Values(data), at) = [value |-> value, next |-> at + Len(units)]

\* What stands at a position.
LEMMA UnitsHeld ==
    ASSUME NEW S, NEW data \in Seq(S), NEW at \in Nat \ {0}, NEW units \in Seq(S), Holds(data, at, units),
           NEW position \in Nat, NEW j \in 1..Len(units), position + 1 = at + j
    PROVE  /\ Unit(data, position) = units[j] /\ Characters(data, position) = units[j]
           /\ at <= Len(data)
<1>1. Len(units) \in Nat /\ Len(data) \in Nat /\ DOMAIN data = 1..Len(data)
  BY LenProperties
<1>2. position = at + j - 1
  BY <1>1
<1>3. at + j - 1 \in 1..Len(data) /\ data[at + j - 1] = units[j] /\ at <= Len(data)
  BY <1>1 DEF Holds
<1> QED BY <1>1, <1>2, <1>3 DEF Unit, Characters

\* None is decoded to Absent.
LEMMA NothingIsRead ==
    ASSUME NEW S, Nat \subseteq S, NEW data \in Seq(S)
    PROVE  IsRead(S, data, Nothing, Absent)
<1> DEFINE units == <<0>>
<1>1. units \in Seq(S) /\ Len(units) = 1 /\ units[1] = 0
  OBVIOUS
<1> HIDE DEF units
<1>2. ASSUME NEW at \in Nat \ {0}, Holds(data, at, units)
      PROVE  Value(data, Values(data), at) = [value |-> Absent, next |-> at + Len(units)]
  <2>1. at \in Nat /\ at + 1 = at + 1 /\ 1 \in 1..Len(units)
    BY <1>1
  <2>2. Unit(data, at) = 0
    BY <1>1, <1>2, <2>1, UnitsHeld
  <2>3. Value(data, Values(data), at) = [value |-> Absent, next |-> at + 1]
    BY <2>2 DEF Value
  <2> QED BY <1>1, <2>3
<1>3. IsRead(S, data, units, Absent)
  BY <1>1, <1>2 DEF IsRead
<1> QED BY <1>3 DEF units, Nothing

\* A number is decoded to itself.
LEMMA IntegerIsRead ==
    ASSUME NEW S, Nat \subseteq S, NEW data \in Seq(S), NEW number \in Nat
    PROVE  IsRead(S, data, Integer(number), number)
<1> DEFINE units == <<2, number>>
<1>1. units \in Seq(S) /\ Len(units) = 2 /\ units[1] = 2 /\ units[2] = number
  OBVIOUS
<1> HIDE DEF units
<1>2. ASSUME NEW at \in Nat \ {0}, Holds(data, at, units)
      PROVE  Value(data, Values(data), at) = [value |-> number, next |-> at + Len(units)]
  <2>1. at \in Nat /\ at + 1 = at + 1 /\ 1 \in 1..Len(units)
    BY <1>1
  <2>2. Unit(data, at) = 2
    BY <1>1, <1>2, <2>1, UnitsHeld
  <2>3. at + 1 \in Nat /\ (at + 1) + 1 = at + 2 /\ 2 \in 1..Len(units)
    BY <1>1
  <2>4. Unit(data, at + 1) = number
    BY <1>1, <1>2, <2>3, UnitsHeld
  <2>5. Value(data, Values(data), at) = [value |-> number, next |-> at + 2]
    BY <2>2, <2>4 DEF Value
  <2> QED BY <1>1, <2>5
<1>3. IsRead(S, data, units, number)
  BY <1>1, <1>2 DEF IsRead
<1> QED BY <1>3 DEF units, Integer

\* Sequences of one and of two, put together.
LEMMA OneBeforeTwo ==
    ASSUME NEW x, NEW y, NEW z
    PROVE  <<x>> \o <<y, z>> = <<x, y, z>>
<1> DEFINE S == {x, y, z}
           a == <<x>>
           b == <<y, z>>
           c == <<x, y, z>>
<1>1. /\ a \in Seq(S) /\ Len(a) = 1 /\ a[1] = x
      /\ b \in Seq(S) /\ Len(b) = 2 /\ b[1] = y /\ b[2] = z
      /\ c \in Seq(S) /\ Len(c) = 3 /\ c[1] = x /\ c[2] = y /\ c[3] = z
  OBVIOUS
<1> HIDE DEF S, a, b, c
<1>2. /\ a \o b \in Seq(S) /\ Len(a \o b) = 3
      /\ \A i \in 1..3 : (a \o b)[i] = IF i <= 1 THEN a[i] ELSE b[i - 1]
  <2>1. /\ a \o b \in Seq(S) /\ Len(a \o b) = Len(a) + Len(b)
        /\ \A i \in 1..Len(a) + Len(b) : (a \o b)[i] = IF i <= Len(a) THEN a[i] ELSE b[i - Len(a)]
    BY <1>1, ConcatProperties
  <2>2. Len(a) = 1 /\ Len(a) + Len(b) = 3
    BY <1>1
  <2> QED BY <2>1, <2>2
<1>3. \A i \in 1..3 : (a \o b)[i] = c[i]
  <2>1. \A i \in 1..3 : i = 1 \/ i = 2 \/ i = 3
    OBVIOUS
  <2>2. (a \o b)[1] = c[1] /\ (a \o b)[2] = c[2] /\ (a \o b)[3] = c[3]
    <3>1. 1 \in 1..3 /\ 2 \in 1..3 /\ 3 \in 1..3 /\ 1 <= 1 /\ ~(2 <= 1) /\ ~(3 <= 1) /\ 2 - 1 = 1 /\ 3 - 1 = 2
      OBVIOUS
    <3> QED BY <1>1, <1>2, <3>1
  <2> QED BY <2>1, <2>2
<1>4. a \o b = c
  BY <1>1, <1>2, <1>3, SeqEqual
<1> QED BY <1>4 DEF a, b, c

\* A text is decoded to itself, as is the name of an enumerator.
LEMMA TextIsRead ==
    ASSUME NEW S, Nat \subseteq S, NEW data \in Seq(S), NEW characters \in S, NEW tag \in {5, 6}
    PROVE  IsRead(S, data, <<tag>> \o Text(characters), characters)
<1> DEFINE units == <<tag, 1, characters>>
<1>1. units \in Seq(S) /\ Len(units) = 3 /\ units[1] = tag /\ units[3] = characters
  OBVIOUS
<1>2. <<tag>> \o Text(characters) = units
  BY OneBeforeTwo DEF Text
<1> HIDE DEF units
<1>3. ASSUME NEW at \in Nat \ {0}, Holds(data, at, units)
      PROVE  Value(data, Values(data), at) = [value |-> characters, next |-> at + Len(units)]
  <2>1. at \in Nat /\ at + 1 = at + 1 /\ 1 \in 1..Len(units)
    BY <1>1
  <2>2. Unit(data, at) = tag
    BY <1>1, <1>3, <2>1, UnitsHeld
  <2>3. at + 2 \in Nat /\ (at + 2) + 1 = at + 3 /\ 3 \in 1..Len(units)
    BY <1>1
  <2>4. Characters(data, at + 2) = characters
    BY <1>1, <1>3, <2>3, UnitsHeld
  <2>5. Value(data, Values(data), at) = [value |-> characters, next |-> at + 3]
    BY <2>2, <2>4 DEF Value
  <2> QED BY <1>1, <2>5
<1>4. IsRead(S, data, units, characters)
  BY <1>1, <1>3 DEF IsRead
<1> QED BY <1>2, <1>4

\* A tag and a count, and what they count.
CountedUnits(data, units, tag, n, s) ==
    \A at \in Nat \ {0} : Holds(data, at, units) =>
        /\ Unit(data, at) = tag /\ Count(data, at + 1) = n
        /\ at + 2 \in Nat \ {0} /\ Holds(data, at + 2, FlattenSeq(s))
        /\ at + Len(units) = (at + 2) + Len(FlattenSeq(s))

\* A tag and a count are found where they stand, and what they are of behind them.
LEMMA HeadAndTail ==
    ASSUME NEW S, NEW data \in Seq(S), NEW head \in Seq(S), NEW tail \in Seq(S), NEW tag, NEW n \in Nat,
           Len(head) = 2, head[1] = tag, head[2] = n
    PROVE  /\ head \o tail \in Seq(S) /\ Len(head \o tail) = 2 + Len(tail) /\ Len(tail) \in Nat
           /\ \A at \in Nat \ {0} : Holds(data, at, head \o tail) =>
                /\ Unit(data, at) = tag /\ Count(data, at + 1) = n
                /\ at + 2 \in Nat \ {0} /\ Holds(data, at + 2, tail)
<1>1. Len(tail) \in Nat
  BY LenProperties
<1>2. head \o tail \in Seq(S) /\ Len(head \o tail) = 2 + Len(tail)
  <2>1. head \o tail \in Seq(S) /\ Len(head \o tail) = Len(head) + Len(tail)
    BY ConcatProperties
  <2> QED BY <2>1
<1>3. ASSUME NEW at \in Nat \ {0}, Holds(data, at, head \o tail)
      PROVE  /\ Unit(data, at) = tag /\ Count(data, at + 1) = n
             /\ at + 2 \in Nat \ {0} /\ Holds(data, at + 2, tail)
  <2>1. Holds(data, at, head) /\ Holds(data, at + 2, tail)
    <3>1. Holds(data, at, head) /\ Holds(data, at + Len(head), tail)
      BY <1>3, HoldsBoth
    <3> QED BY <3>1
  <2>2. at \in Nat /\ at + 1 = at + 1 /\ 1 \in 1..Len(head)
    OBVIOUS
  <2>3. Unit(data, at) = tag
    <3>1. Holds(data, at, head)
      BY <2>1
    <3>2. Unit(data, at) = head[1]
      BY <2>2, <3>1, UnitsHeld
    <3> QED BY <3>2
  <2>4. at + 1 \in Nat /\ (at + 1) + 1 = at + 2 /\ 2 \in 1..Len(head)
    OBVIOUS
  <2>5. Unit(data, at + 1) = n
    BY <2>1, <2>4, UnitsHeld
  <2>6. Count(data, at + 1) = n
    BY <2>5 DEF Count
  <2>7. at + 2 \in Nat \ {0}
    OBVIOUS
  <2> QED BY <2>1, <2>3, <2>6, <2>7
<1> QED BY <1>1, <1>2, <1>3

\* They are found before the items of a list and the fields of a record.
LEMMA CountIsRead ==
    ASSUME NEW S, Nat \subseteq S, NEW data \in Seq(S), NEW s \in Seq(Seq(S)),
           NEW tag \in {7, 8}, NEW n \in Nat
    PROVE  /\ <<tag, n>> \o FlattenSeq(s) \in Seq(S) /\ Len(<<tag, n>> \o FlattenSeq(s)) \in Nat \ {0}
           /\ CountedUnits(data, <<tag, n>> \o FlattenSeq(s), tag, n, s)
<1> DEFINE head == <<tag, n>>
           tail == FlattenSeq(s)
<1>1. head \in Seq(S) /\ Len(head) = 2 /\ head[1] = tag /\ head[2] = n
  OBVIOUS
<1>2. tail \in Seq(S)
  <2>1. PICK f : f[Len(s)] = FlattenSeq(s) /\ \A i \in 0..Len(s) : f[i] \in Seq(S)
    BY FlattenSteps
  <2>2. Len(s) \in 0..Len(s)
    <3>1. Len(s) \in Nat
      BY LenProperties
    <3> QED BY <3>1
  <2> QED BY <2>1, <2>2
<1> HIDE DEF head, tail
<1>3. /\ head \o tail \in Seq(S) /\ Len(head \o tail) = 2 + Len(tail) /\ Len(tail) \in Nat
      /\ \A at \in Nat \ {0} : Holds(data, at, head \o tail) =>
           /\ Unit(data, at) = tag /\ Count(data, at + 1) = n
           /\ at + 2 \in Nat \ {0} /\ Holds(data, at + 2, tail)
  BY <1>1, <1>2, HeadAndTail
<1> DEFINE units == head \o tail
<1>4. units \in Seq(S) /\ Len(units) = 2 + Len(tail) /\ Len(tail) \in Nat
  BY <1>3
<1>5. \A at \in Nat \ {0} : Holds(data, at, units) =>
           /\ Unit(data, at) = tag /\ Count(data, at + 1) = n
           /\ at + 2 \in Nat \ {0} /\ Holds(data, at + 2, tail)
  BY <1>3
<1> HIDE DEF units
<1>6. Len(units) \in Nat \ {0} /\ \A at \in Nat \ {0} : at + Len(units) = (at + 2) + Len(tail)
  BY <1>4
<1>7. CountedUnits(data, units, tag, n, s)
  BY <1>5, <1>6 DEF CountedUnits, tail
<1> QED BY <1>4, <1>6, <1>7 DEF units, head, tail

\* A value is what was counted of those behind it, where its tag says so.
Inner(data, read, at) == read[at + 2][Unit(data, at) = 8][Count(data, at + 1)]
LEMMA ValueIsInner ==
    ASSUME NEW data, NEW read, NEW at, Unit(data, at) \in {7, 8}
    PROVE  Value(data, read, at) = [value |-> IF Unit(data, at) = 8 THEN Dictionary(Inner(data, read, at).taken)
                                              ELSE Inner(data, read, at).taken,
                                    next |-> Inner(data, read, at).next]
<1> DEFINE tag == Unit(data, at)
           inner == Inner(data, read, at)
<1>1. Value(data, read, at) =
    CASE tag = 0 -> [value |-> Absent, next |-> at + 1]
      [] tag = 1 -> [value |-> Unit(data, at + 1) # 0, next |-> at + 2]
      [] tag \in 2..4 -> [value |-> Unit(data, at + 1), next |-> at + 2]
      [] tag \in {5, 6} -> [value |-> Characters(data, at + 2), next |-> at + 3]
      [] tag = 7 -> [value |-> inner.taken, next |-> inner.next]
      [] tag = 8 -> [value |-> Dictionary(inner.taken), next |-> inner.next]
      [] OTHER -> [value |-> Absent, next |-> Len(data) + 2]
  BY DEF Value, Inner
<1> HIDE DEF tag, inner
<1>2. tag \in {7, 8}
  BY DEF tag
<1>3. Value(data, read, at) = [value |-> IF tag = 8 THEN Dictionary(inner.taken) ELSE inner.taken,
                               next |-> inner.next]
  <2>1. CASE tag = 7
    BY <1>1, <2>1
  <2>2. CASE tag = 8
    BY <1>1, <2>2
  <2> QED BY <1>2, <2>1, <2>2
<1> QED BY <1>3 DEF tag, inner

\* A value that stands in the data is the first of those taken.
LEMMA OneFollows ==
    ASSUME NEW data, NEW from \in Nat, from <= Len(data), Len(data) \in Nat, NEW value, NEW next,
           Value(data, Values(data), from) = [value |-> value, next |-> next]
    PROVE  TakenNext(data, value, from, next, FALSE)
<1> SUFFICES ASSUME NEW count \in Nat \ {0}
             PROVE  Taken(data, Values(data), from, FALSE, count)
                      = Led(value, Values(data)[next][FALSE][count - 1])
  BY DEF TakenNext
<1> DEFINE first == Value(data, Values(data), from)
<1>1. count # 0 /\ ~(from > Len(data))
  OBVIOUS
<1>2. Taken(data, Values(data), from, FALSE, count)
        = Led(first.value, Values(data)[first.next][FALSE][count - 1])
  BY <1>1 DEF Taken, Led
<1>3. first.value = value /\ first.next = next
  OBVIOUS
<1> HIDE DEF first
<1> QED BY <1>2, <1>3

\* In a record the name comes with the value behind it.
LEMMA NamedFollows ==
    ASSUME NEW data, NEW from \in Nat, from <= Len(data), Len(data) \in Nat, NEW value, NEW next,
           Value(data, Values(data), from + 2) = [value |-> value, next |-> next]
    PROVE  TakenNext(data, <<Characters(data, from + 1), value>>, from, next, TRUE)
<1> SUFFICES ASSUME NEW count \in Nat \ {0}
             PROVE  Taken(data, Values(data), from, TRUE, count)
                      = Led(<<Characters(data, from + 1), value>>, Values(data)[next][TRUE][count - 1])
  BY DEF TakenNext
<1> DEFINE first == Value(data, Values(data), from + 2)
<1>1. count # 0 /\ ~(from > Len(data))
  OBVIOUS
<1>2. Taken(data, Values(data), from, TRUE, count)
        = Led(<<Characters(data, from + 1), first.value>>, Values(data)[first.next][TRUE][count - 1])
  BY <1>1 DEF Taken, Led
<1>3. first.value = value /\ first.next = next
  OBVIOUS
<1> HIDE DEF first
<1> QED BY <1>2, <1>3

\* A list is read as its values.
LEMMA ListIsRead ==
    ASSUME NEW S, Nat \subseteq S, NEW data \in Seq(S), NEW items \in Seq(Seq(S)),
           NEW V, NEW values \in Seq(V), Len(values) = Len(items),
           \A i \in 1..Len(items) : IsRead(S, data, items[i], values[i])
    PROVE  IsRead(S, data, ListOf(items), values)
<1>0. PICK n \in Nat : n = Len(items)
  BY LenProperties
<1>1. PICK units : units = <<7, n>> \o FlattenSeq(items)
  OBVIOUS
<1>2. units \in Seq(S) /\ Len(units) \in Nat \ {0} /\ CountedUnits(data, units, 7, n, items)
  BY <1>1, CountIsRead
<1>3. ASSUME NEW at \in Nat \ {0}, Holds(data, at, units)
      PROVE  Value(data, Values(data), at) = [value |-> values, next |-> at + Len(units)]
  <2>0. /\ Unit(data, at) = 7 /\ Count(data, at + 1) = n
        /\ at + 2 \in Nat \ {0} /\ Holds(data, at + 2, FlattenSeq(items))
        /\ at + Len(units) = (at + 2) + Len(FlattenSeq(items))
    BY <1>2, <1>3 DEF CountedUnits
  <2>1. PICK p : /\ p[0] = at + 2 /\ p[n] = (at + 2) + Len(FlattenSeq(items))
                 /\ \A i \in 1..n : /\ p[i - 1] \in Nat \ {0} /\ Holds(data, p[i - 1], items[i])
                                    /\ p[i] = p[i - 1] + Len(items[i])
    <3>1. PICK p : Places(data, at + 2, items, p)
      BY <2>0, HoldsEach
    <3> QED BY <1>0, <3>1 DEF Places
  <2>2. ASSUME NEW i \in 1..n
        PROVE  TakenNext(data, values[i], p[i - 1], p[i], FALSE) /\ p[i] \in Nat
    <3>1. /\ p[i - 1] \in Nat \ {0} /\ Holds(data, p[i - 1], items[i]) /\ p[i] = p[i - 1] + Len(items[i])
          /\ IsRead(S, data, items[i], values[i])
      BY <1>0, <2>1
    <3>2. /\ items[i] \in Seq(S) /\ Len(items[i]) \in Nat \ {0}
          /\ Value(data, Values(data), p[i - 1]) = [value |-> values[i], next |-> p[i]]
      BY <3>1 DEF IsRead
    <3> HIDE <3>1
    <3>3. p[i - 1] \in Nat /\ p[i - 1] <= Len(data) /\ Len(data) \in Nat /\ p[i] \in Nat
      <4>1. Len(data) \in Nat
        BY LenProperties
      <4>2. p[i - 1] \in Nat \ {0} /\ p[i] = p[i - 1] + Len(items[i])
            /\ p[i - 1] + Len(items[i]) <= Len(data) + 1
        BY <3>1 DEF Holds
      <4> QED BY <3>2, <4>1, <4>2
    <3>4. Value(data, Values(data), IF FALSE THEN p[i - 1] + 2 ELSE p[i - 1])
            = [value |-> values[i], next |-> p[i]]
      BY <3>2
    <3> QED BY <3>3, <3>4, OneFollows
  <2>3. Values(data)[p[0]][FALSE][n] = [taken |-> values, next |-> p[n]]
    <3>1. \A i \in 1..n : (i - 1 \in 0..n)
      OBVIOUS
    <3>2. \A i \in 0..n : i = 0 \/ i \in 1..n
      OBVIOUS
    <3>3. \A i \in 0..Len(values) : p[i] \in Nat
      BY <1>0, <2>0, <2>1, <2>2, <3>2
    <3>4. \A i \in 1..Len(values) : TakenNext(data, values[i], p[i - 1], p[i], FALSE)
      BY <1>0, <2>2
    <3>5. Values(data)[p[0]][FALSE][Len(values)] = [taken |-> values, next |-> p[Len(values)]]
      BY <3>3, <3>4, EachIsTaken
    <3> QED BY <1>0, <3>5
  <2>4. PICK inner : inner = Values(data)[at + 2][FALSE][n]
    OBVIOUS
  <2>5. inner.taken = values /\ inner.next = at + Len(units)
    <3>1. p[0] = at + 2 /\ p[n] = at + Len(units)
      BY <2>0, <2>1
    <3>2. inner = [taken |-> values, next |-> p[n]]
      BY <2>3, <2>4, <3>1
    <3> QED BY <3>1, <3>2
  <2>6. inner = Values(data)[at + 2][Unit(data, at) = 8][n]
    <3>1. (Unit(data, at) = 8) = FALSE
      BY <2>0
    <3> QED BY <2>4, <3>1
  <2>7. Value(data, Values(data), at) = [value |-> inner.taken, next |-> inner.next]
    <3>1. at \in Nat /\ Unit(data, at) \in {7, 8} /\ ~(Unit(data, at) = 8)
      BY <2>0
    <3>2. Value(data, Values(data), at)
            = [value |-> IF Unit(data, at) = 8 THEN Dictionary(Inner(data, Values(data), at).taken)
                         ELSE Inner(data, Values(data), at).taken,
               next |-> Inner(data, Values(data), at).next]
      BY <3>1, ValueIsInner
    <3>3. Inner(data, Values(data), at) = inner
      BY <2>0, <2>6 DEF Inner
    <3> QED BY <3>1, <3>2, <3>3
  <2> QED BY <2>5, <2>7
<1>4. IsRead(S, data, units, values)
  BY <1>2, <1>3 DEF IsRead
<1> QED BY <1>0, <1>1, <1>4 DEF ListOf

\* A record is read as the dictionary of its values.
LEMMA RecordIsRead ==
    ASSUME NEW S, Nat \subseteq S, NEW data \in Seq(S), NEW X, NEW fields \in Seq(X), NEW V, NEW t \in Seq(V),
           Len(t) = Len(fields),
           \A i \in 1..Len(fields) : /\ fields[i][1] \in S /\ t[i] = <<fields[i][1], t[i][2]>>
                                     /\ IsRead(S, data, fields[i][2], t[i][2])
    PROVE  IsRead(S, data, RecordOf(fields), Dictionary(t))
<1>0. PICK n \in Nat : n = Len(fields) /\ DOMAIN fields = 1..n
  BY LenProperties
<1> DEFINE s == [i \in 1..n |-> Text(fields[i][1]) \o fields[i][2]]
<1>1. ASSUME NEW i \in 1..n
      PROVE  \E text \in Seq(S), part \in Seq(S) :
                /\ Len(text) = 2 /\ text[2] = fields[i][1] /\ part = fields[i][2]
                /\ s[i] = text \o part /\ s[i] \in Seq(S)
  <2>1. PICK text : text = Text(fields[i][1])
    OBVIOUS
  <2>2. PICK part : part = fields[i][2]
    OBVIOUS
  <2>3. text \in Seq(S) /\ Len(text) = 2 /\ text[2] = fields[i][1]
    <3>1. fields[i][1] \in S
      BY <1>0
    <3> QED BY <2>1, <3>1 DEF Text
  <2>4. part \in Seq(S)
    <3>1. IsRead(S, data, fields[i][2], t[i][2])
      BY <1>0
    <3> QED BY <2>2, <3>1 DEF IsRead
  <2>5. text \o part \in Seq(S)
    BY <2>3, <2>4, ConcatProperties
  <2>6. s[i] = text \o part
    BY <2>1, <2>2
  <2> HIDE DEF s
  <2> QED BY <2>2, <2>3, <2>4, <2>5, <2>6
<1>2. s \in Seq(Seq(S)) /\ Len(s) = n
  <2>1. \A i \in 1..n : s[i] \in Seq(S)
    BY <1>1
  <2>2. s \in [1..n -> Seq(S)]
    BY <2>1
  <2> HIDE DEF s
  <2> QED BY <2>2
<1>3. RecordOf(fields) = <<8, n>> \o FlattenSeq(s)
  BY <1>0 DEF RecordOf
<1> HIDE DEF s
<1>4. PICK units : units = <<8, n>> \o FlattenSeq(s)
  OBVIOUS
<1>5. units \in Seq(S) /\ Len(units) \in Nat \ {0} /\ CountedUnits(data, units, 8, n, s)
  BY <1>2, <1>4, CountIsRead
<1>6. ASSUME NEW at \in Nat \ {0}, Holds(data, at, units)
      PROVE  Value(data, Values(data), at) = [value |-> Dictionary(t), next |-> at + Len(units)]
  <2>0. /\ Unit(data, at) = 8 /\ Count(data, at + 1) = n
        /\ at + 2 \in Nat \ {0} /\ Holds(data, at + 2, FlattenSeq(s))
        /\ at + Len(units) = (at + 2) + Len(FlattenSeq(s))
    BY <1>5, <1>6 DEF CountedUnits
  <2>1. PICK p : /\ p[0] = at + 2 /\ p[n] = (at + 2) + Len(FlattenSeq(s))
                 /\ \A i \in 1..n : /\ p[i - 1] \in Nat \ {0} /\ Holds(data, p[i - 1], s[i])
                                    /\ p[i] = p[i - 1] + Len(s[i])
    <3>1. PICK p : Places(data, at + 2, s, p)
      BY <1>2, <2>0, HoldsEach
    <3> QED BY <1>2, <3>1 DEF Places
  <2>2. ASSUME NEW i \in 1..n
        PROVE  TakenNext(data, t[i], p[i - 1], p[i], TRUE) /\ p[i] \in Nat
    <3>1. PICK text \in Seq(S), part \in Seq(S) :
                /\ Len(text) = 2 /\ text[2] = fields[i][1] /\ part = fields[i][2]
                /\ s[i] = text \o part /\ s[i] \in Seq(S)
      BY <1>1
    <3>2. PICK from \in Nat \ {0} : from = p[i - 1]
      BY <2>1
    <3>3. Holds(data, from, text \o part) /\ p[i] = from + Len(text \o part)
      BY <2>1, <3>1, <3>2
    <3>4. /\ Holds(data, from, text) /\ Holds(data, from + 2, part) /\ from + 2 \in Nat \ {0}
          /\ Len(text \o part) = 2 + Len(part)
      <4>1. /\ Holds(data, from, text) /\ Holds(data, from + Len(text), part)
            /\ from + Len(text) \in Nat \ {0} /\ Len(text \o part) = Len(text) + Len(part)
        BY <3>3, HoldsBoth
      <4>2. Len(text) = 2
        BY <3>1
      <4> QED BY <4>1, <4>2
    <3>5. PICK value : value = t[i][2]
      OBVIOUS
    <3>6. IsRead(S, data, part, value) /\ t[i] = <<fields[i][1], value>>
      BY <1>0, <3>1, <3>5
    <3>7. p[i] = (from + 2) + Len(part) /\ p[i] \in Nat
      <4>1. Len(part) \in Nat
        BY LenProperties
      <4> QED BY <3>3, <3>4, <4>1
    <3>8. Value(data, Values(data), from + 2) = [value |-> value, next |-> p[i]]
      BY <3>4, <3>6, <3>7 DEF IsRead
    <3>9. Characters(data, from + 1) = fields[i][1] /\ from <= Len(data)
      <4>1. 2 \in 1..Len(text) /\ from + 1 \in Nat /\ (from + 1) + 1 = from + 2
        BY <3>1
      <4>2. Characters(data, from + 1) = text[2] /\ from <= Len(data)
        BY <3>4, <4>1, UnitsHeld
      <4> QED BY <3>1, <4>2
    <3>10. t[i] = <<Characters(data, from + 1), value>>
      BY <3>6, <3>9
    <3>11. Len(data) \in Nat /\ from \in Nat
      BY LenProperties
    <3>12. TakenNext(data, <<Characters(data, from + 1), value>>, from, p[i], TRUE)
      BY <3>8, <3>9, <3>11, NamedFollows
    <3> QED BY <3>2, <3>7, <3>10, <3>12
  <2>3. Values(data)[p[0]][TRUE][n] = [taken |-> t, next |-> p[n]]
    <3>2. \A i \in 0..n : i = 0 \/ i \in 1..n
      OBVIOUS
    <3>3. \A i \in 0..Len(t) : p[i] \in Nat
      BY <1>0, <2>0, <2>1, <2>2, <3>2
    <3>4. \A i \in 1..Len(t) : TakenNext(data, t[i], p[i - 1], p[i], TRUE)
      BY <1>0, <2>2
    <3>5. Values(data)[p[0]][TRUE][Len(t)] = [taken |-> t, next |-> p[Len(t)]]
      BY <3>3, <3>4, EachIsTaken
    <3> QED BY <1>0, <3>5
  <2>4. PICK inner : inner = Values(data)[at + 2][TRUE][n]
    OBVIOUS
  <2>5. inner.taken = t /\ inner.next = at + Len(units)
    <3>1. p[0] = at + 2 /\ p[n] = at + Len(units)
      BY <2>0, <2>1
    <3>2. inner = [taken |-> t, next |-> p[n]]
      BY <2>3, <2>4, <3>1
    <3> QED BY <3>1, <3>2
  <2>6. inner = Values(data)[at + 2][Unit(data, at) = 8][n]
    <3>1. (Unit(data, at) = 8) = TRUE
      BY <2>0
    <3> QED BY <2>4, <3>1
  <2>7. Value(data, Values(data), at) = [value |-> Dictionary(inner.taken), next |-> inner.next]
    <3>1. at \in Nat /\ Unit(data, at) \in {7, 8} /\ Unit(data, at) = 8
      BY <2>0
    <3>2. Value(data, Values(data), at)
            = [value |-> IF Unit(data, at) = 8 THEN Dictionary(Inner(data, Values(data), at).taken)
                         ELSE Inner(data, Values(data), at).taken,
               next |-> Inner(data, Values(data), at).next]
      BY <3>1, ValueIsInner
    <3>3. Inner(data, Values(data), at) = inner
      BY <2>0, <2>6 DEF Inner
    <3> QED BY <3>1, <3>2, <3>3
  <2> QED BY <2>5, <2>7
<1>7. IsRead(S, data, units, Dictionary(t))
  BY <1>5, <1>6 DEF IsRead
<1> QED BY <1>3, <1>4, <1>7


\* A dictionary of fields of different names has each under its name.
LEMMA DictionaryIs ==
    ASSUME NEW V, NEW t \in Seq(V), \A i, j \in 1..Len(t) : t[i][1] = t[j][1] => i = j
    PROVE  /\ Dictionary(t) = [name \in {t[i][1] : i \in 1..Len(t)} |-> Dictionary(t)[name]]
           /\ \A i \in 1..Len(t) : Dictionary(t)[t[i][1]] = t[i][2]
<1>1. DOMAIN t = 1..Len(t) /\ Len(t) \in Nat
  BY LenProperties
<1> DEFINE At(name) == CHOOSE i \in DOMAIN t : t[i][1] = name /\ \A j \in DOMAIN t : t[j][1] = name => j <= i
<1>2. Dictionary(t) = [name \in {t[i][1] : i \in 1..Len(t)} |-> t[At(name)][2]]
  BY <1>1 DEF Dictionary
<1>3. ASSUME NEW i \in 1..Len(t) PROVE At(t[i][1]) = i
  <2>1. \A j \in DOMAIN t : t[j][1] = t[i][1] => j <= i
    BY <1>1
  <2>2. \E k \in DOMAIN t : t[k][1] = t[i][1] /\ \A j \in DOMAIN t : t[j][1] = t[i][1] => j <= k
    BY <1>1, <2>1
  <2>3. At(t[i][1]) \in DOMAIN t /\ t[At(t[i][1])][1] = t[i][1]
    BY <2>2
  <2> HIDE DEF At
  <2> QED BY <1>1, <2>3
<1> HIDE DEF At
<1>4. ASSUME NEW i \in 1..Len(t) PROVE Dictionary(t)[t[i][1]] = t[i][2]
  BY <1>2, <1>3
<1>5. Dictionary(t) = [name \in {t[i][1] : i \in 1..Len(t)} |-> Dictionary(t)[name]]
  BY <1>2
<1> QED BY <1>4, <1>5

\* A record of one field is decoded to one.
LEMMA RecordOfOne ==
    ASSUME NEW S, Nat \subseteq S, NEW data \in Seq(S), "Elements" \in S,
           NEW units, NEW value, IsRead(S, data, units, value)
    PROVE  IsRead(S, data, RecordOf(<< <<"Elements", units>> >>), [Elements |-> value])
<1>1. PICK fields : fields = << <<"Elements", units>> >>
  OBVIOUS
<1>2. PICK t : t = << <<"Elements", value>> >>
  OBVIOUS
<1>3. /\ fields \in Seq({fields[1]}) /\ Len(fields) = 1 /\ fields[1][1] = "Elements" /\ fields[1][2] = units
      /\ t \in Seq({t[1]}) /\ Len(t) = 1 /\ t[1] = <<"Elements", value>>
  BY <1>1, <1>2
<1>4. \A i \in 1..1 : i = 1
  OBVIOUS
<1>5. IsRead(S, data, RecordOf(fields), Dictionary(t))
  <2>1. \A i \in 1..Len(fields) : /\ fields[i][1] \in S /\ t[i] = <<fields[i][1], t[i][2]>>
                                  /\ IsRead(S, data, fields[i][2], t[i][2])
    BY <1>3, <1>4
  <2> QED BY <1>3, <2>1, RecordIsRead
<1>6. Dictionary(t) = [Elements |-> value]
  <2>1. /\ Dictionary(t) = [name \in {t[i][1] : i \in 1..Len(t)} |-> Dictionary(t)[name]]
        /\ \A i \in 1..Len(t) : Dictionary(t)[t[i][1]] = t[i][2]
    BY <1>3, <1>4, DictionaryIs
  <2>2. {t[i][1] : i \in 1..Len(t)} = {"Elements"}
    BY <1>3, <1>4
  <2>3. Dictionary(t)["Elements"] = value
    BY <1>3, <2>1
  <2>4. PICK dictionary : dictionary = Dictionary(t)
    OBVIOUS
  <2>5. dictionary = [name \in {"Elements"} |-> dictionary[name]] /\ dictionary["Elements"] = value
    BY <2>1, <2>2, <2>3, <2>4
  <2>6. dictionary = [Elements |-> value]
    BY <2>5
  <2> QED BY <2>4, <2>6
<1> QED BY <1>1, <1>5, <1>6

\* A record of two fields.
LEMMA RecordOfTwo ==
    ASSUME NEW S, Nat \subseteq S, NEW data \in Seq(S), {"Role", "Id"} \subseteq S,
           NEW a, NEW b, NEW role, NEW id, IsRead(S, data, a, role), IsRead(S, data, b, id)
    PROVE  IsRead(S, data, RecordOf(<< <<"Role", a>>, <<"Id", b>> >>), Binding(role, id))
<1>1. PICK fields : fields = << <<"Role", a>>, <<"Id", b>> >>
  OBVIOUS
<1>2. PICK t : t = << <<"Role", role>>, <<"Id", id>> >>
  OBVIOUS
<1>3. /\ fields \in Seq({fields[1], fields[2]}) /\ Len(fields) = 2
      /\ fields[1][1] = "Role" /\ fields[1][2] = a /\ fields[2][1] = "Id" /\ fields[2][2] = b
  BY <1>1
<1>4. /\ t \in Seq({t[1], t[2]}) /\ Len(t) = 2
      /\ t[1] = <<"Role", role>> /\ t[2] = <<"Id", id>>
  BY <1>2
<1>5. \A i \in 1..2 : i = 1 \/ i = 2
  OBVIOUS
<1>6. IsRead(S, data, RecordOf(fields), Dictionary(t))
  <2>1. \A i \in 1..Len(fields) : /\ fields[i][1] \in S /\ t[i] = <<fields[i][1], t[i][2]>>
                                  /\ IsRead(S, data, fields[i][2], t[i][2])
    BY <1>3, <1>4, <1>5
  <2> QED BY <1>3, <1>4, <2>1, RecordIsRead
<1>7. Dictionary(t) = Binding(role, id)
  <2>1. /\ Dictionary(t) = [name \in {t[i][1] : i \in 1..Len(t)} |-> Dictionary(t)[name]]
        /\ \A i \in 1..Len(t) : Dictionary(t)[t[i][1]] = t[i][2]
    <3>1. \A i, j \in 1..Len(t) : t[i][1] = t[j][1] => i = j
      BY <1>4, <1>5
    <3> QED BY <1>4, <3>1, DictionaryIs
  <2>2. {t[i][1] : i \in 1..Len(t)} = {"Role", "Id"}
    BY <1>4, <1>5
  <2>3. Dictionary(t)["Role"] = role /\ Dictionary(t)["Id"] = id
    BY <1>4, <2>1
  <2>4. PICK dictionary : dictionary = Dictionary(t)
    OBVIOUS
  <2>5. /\ dictionary = [name \in {"Role", "Id"} |-> dictionary[name]]
        /\ dictionary["Role"] = role /\ dictionary["Id"] = id
    BY <2>1, <2>2, <2>3, <2>4
  <2>6. dictionary = [Role |-> role, Id |-> id]
    BY <2>5
  <2> QED BY <2>4, <2>6 DEF Binding
<1> QED BY <1>1, <1>6, <1>7

\* A record of five.
LEMMA RecordOfFive ==
    ASSUME NEW S, Nat \subseteq S, NEW data \in Seq(S),
           {"Kind", "Control", "Parent", "Bindings", "Choices"} \subseteq S,
           NEW a, NEW b, NEW c, NEW d, NEW e, NEW kind, NEW control, NEW parent, NEW bindings, NEW choices,
           IsRead(S, data, a, kind), IsRead(S, data, b, control), IsRead(S, data, c, parent),
           IsRead(S, data, d, bindings), IsRead(S, data, e, choices)
    PROVE  IsRead(S, data, RecordOf(<< <<"Kind", a>>, <<"Control", b>>, <<"Parent", c>>, <<"Bindings", d>>,
                                       <<"Choices", e>> >>),
                  Element(kind, parent, control, bindings, choices))
<1>1. PICK fields : fields = << <<"Kind", a>>, <<"Control", b>>, <<"Parent", c>>, <<"Bindings", d>>,
                                <<"Choices", e>> >>
  OBVIOUS
<1>2. PICK t : t = << <<"Kind", kind>>, <<"Control", control>>, <<"Parent", parent>>, <<"Bindings", bindings>>,
                      <<"Choices", choices>> >>
  OBVIOUS
<1>3. /\ fields \in Seq({fields[1], fields[2], fields[3], fields[4], fields[5]}) /\ Len(fields) = 5
      /\ fields[1][1] = "Kind" /\ fields[1][2] = a /\ fields[2][1] = "Control" /\ fields[2][2] = b
      /\ fields[3][1] = "Parent" /\ fields[3][2] = c /\ fields[4][1] = "Bindings" /\ fields[4][2] = d
      /\ fields[5][1] = "Choices" /\ fields[5][2] = e
  BY <1>1
<1>4. /\ t \in Seq({t[1], t[2], t[3], t[4], t[5]}) /\ Len(t) = 5
      /\ t[1] = <<"Kind", kind>> /\ t[2] = <<"Control", control>> /\ t[3] = <<"Parent", parent>>
      /\ t[4] = <<"Bindings", bindings>> /\ t[5] = <<"Choices", choices>>
  BY <1>2
<1>5. \A i \in 1..5 : i = 1 \/ i = 2 \/ i = 3 \/ i = 4 \/ i = 5
  OBVIOUS
<1>6. IsRead(S, data, RecordOf(fields), Dictionary(t))
  <2>1. \A i \in 1..Len(fields) : /\ fields[i][1] \in S /\ t[i] = <<fields[i][1], t[i][2]>>
                                  /\ IsRead(S, data, fields[i][2], t[i][2])
    BY <1>3, <1>4, <1>5
  <2> QED BY <1>3, <1>4, <2>1, RecordIsRead
<1>7. Dictionary(t) = Element(kind, parent, control, bindings, choices)
  <2>1. /\ Dictionary(t) = [name \in {t[i][1] : i \in 1..Len(t)} |-> Dictionary(t)[name]]
        /\ \A i \in 1..Len(t) : Dictionary(t)[t[i][1]] = t[i][2]
    <3>1. \A i, j \in 1..Len(t) : t[i][1] = t[j][1] => i = j
      BY <1>4, <1>5
    <3> QED BY <1>4, <3>1, DictionaryIs
  <2>2. {t[i][1] : i \in 1..Len(t)} = {"Kind", "Control", "Parent", "Bindings", "Choices"}
    BY <1>4, <1>5
  <2>3. /\ Dictionary(t)["Kind"] = kind /\ Dictionary(t)["Control"] = control /\ Dictionary(t)["Parent"] = parent
        /\ Dictionary(t)["Bindings"] = bindings /\ Dictionary(t)["Choices"] = choices
    BY <1>4, <2>1
  <2>4. PICK dictionary : dictionary = Dictionary(t)
    OBVIOUS
  <2>5. /\ dictionary = [name \in {"Kind", "Control", "Parent", "Bindings", "Choices"} |-> dictionary[name]]
        /\ dictionary["Kind"] = kind /\ dictionary["Control"] = control /\ dictionary["Parent"] = parent
        /\ dictionary["Bindings"] = bindings /\ dictionary["Choices"] = choices
    BY <2>1, <2>2, <2>3, <2>4
  <2>6. dictionary = [Kind |-> kind, Control |-> control, Parent |-> parent, Bindings |-> bindings,
                      Choices |-> choices]
    BY <2>5
  <2> QED BY <2>4, <2>6 DEF Element
<1> QED BY <1>1, <1>6, <1>7


\* The words a schema is written with.
Named == {"Elements", "Kind", "Control", "Parent", "Bindings", "Choices", "Role", "Id"}
SpeltFrom(S, element) ==
    /\ element.Kind \in S /\ element.Control \in S /\ element.Choices \in Seq(S)
    /\ \A k \in DOMAIN element.Bindings : element.Bindings[k].Role \in S /\ element.Bindings[k].Id \in S

\* A described element as the schema has it.
IsElement(element) ==
    /\ element = Element(element.Kind, element.Parent, element.Control, element.Bindings, element.Choices)
    /\ element.Bindings \in Seq(ToSet(element.Bindings))
    /\ \A k \in DOMAIN element.Bindings :
         element.Bindings[k] = Binding(element.Bindings[k].Role, element.Bindings[k].Id)
    /\ element.Parent = Absent \/ element.Parent \in Nat

\* The choices of an element are decoded to themselves.
LEMMA ChoicesAreRead ==
    ASSUME NEW S, Nat \subseteq S, NEW data \in Seq(S), NEW choices \in Seq(S)
    PROVE  IsRead(S, data, ListOf([i \in DOMAIN choices |-> <<5>> \o Text(choices[i])]), choices)
<1>1. PICK n \in Nat : n = Len(choices) /\ DOMAIN choices = 1..n
  BY LenProperties
<1>2. PICK items : items = [i \in 1..n |-> <<5>> \o Text(choices[i])]
  OBVIOUS
<1>3. ASSUME NEW i \in 1..n PROVE IsRead(S, data, items[i], choices[i]) /\ items[i] \in Seq(S)
  <2>1. choices[i] \in S /\ items[i] = <<5>> \o Text(choices[i])
    BY <1>1, <1>2, ElementOfSeq
  <2>2. IsRead(S, data, <<5>> \o Text(choices[i]), choices[i])
    BY <2>1, TextIsRead
  <2> QED BY <2>1, <2>2 DEF IsRead
<1>4. items \in Seq(Seq(S)) /\ Len(items) = n
  <2>1. items \in [1..n -> Seq(S)]
    BY <1>2, <1>3
  <2> QED BY <2>1
<1>5. IsRead(S, data, ListOf(items), choices)
  <2>1. Len(choices) = Len(items) /\ \A i \in 1..Len(items) : IsRead(S, data, items[i], choices[i])
    BY <1>1, <1>3, <1>4
  <2> QED BY <1>4, <2>1, ListIsRead
<1> QED BY <1>1, <1>2, <1>5

\* And its bindings.
LEMMA BindingsAreRead ==
    ASSUME NEW S, Nat \subseteq S, Named \subseteq S, NEW data \in Seq(S), NEW V, NEW bindings \in Seq(V),
           \A i \in DOMAIN bindings : /\ bindings[i].Role \in S /\ bindings[i].Id \in S
                                      /\ bindings[i] = Binding(bindings[i].Role, bindings[i].Id)
    PROVE  IsRead(S, data,
                  ListOf([i \in DOMAIN bindings |->
                      RecordOf(<< <<"Role", Enumerator(bindings[i].Role)>>,
                                  <<"Id", <<5>> \o Text(bindings[i].Id)>> >>)]), bindings)
<1>1. PICK n \in Nat : n = Len(bindings) /\ DOMAIN bindings = 1..n
  BY LenProperties
<1>2. PICK items : items = [i \in 1..n |-> RecordOf(<< <<"Role", Enumerator(bindings[i].Role)>>,
                                                       <<"Id", <<5>> \o Text(bindings[i].Id)>> >>)]
  OBVIOUS
<1>3. ASSUME NEW i \in 1..n PROVE IsRead(S, data, items[i], bindings[i]) /\ items[i] \in Seq(S)
  <2>1. PICK role \in S : role = bindings[i].Role
    BY <1>1
  <2>2. PICK id \in S : id = bindings[i].Id
    BY <1>1
  <2>3. IsRead(S, data, Enumerator(role), role) /\ IsRead(S, data, <<5>> \o Text(id), id)
    BY TextIsRead DEF Enumerator
  <2>4. IsRead(S, data, RecordOf(<< <<"Role", Enumerator(role)>>, <<"Id", <<5>> \o Text(id)>> >>),
                   Binding(role, id))
    <3>1. {"Role", "Id"} \subseteq S
      BY DEF Named
    <3> QED BY <2>3, <3>1, RecordOfTwo
  <2>5. items[i] = RecordOf(<< <<"Role", Enumerator(role)>>, <<"Id", <<5>> \o Text(id)>> >>)
    BY <1>2, <2>1, <2>2
  <2>6. bindings[i] = Binding(role, id)
    BY <1>1, <2>1, <2>2
  <2>7. IsRead(S, data, items[i], bindings[i])
    BY <2>4, <2>5, <2>6
  <2> QED BY <2>7 DEF IsRead
<1>4. items \in Seq(Seq(S)) /\ Len(items) = n
  <2>1. items \in [1..n -> Seq(S)]
    BY <1>2, <1>3
  <2> QED BY <2>1
<1>5. IsRead(S, data, ListOf(items), bindings)
  <2>1. Len(bindings) = Len(items) /\ \A i \in 1..Len(items) : IsRead(S, data, items[i], bindings[i])
    BY <1>1, <1>3, <1>4
  <2> QED BY <1>4, <2>1, ListIsRead
<1> QED BY <1>1, <1>2, <1>5

\* And all of it.
LEMMA ElementIsRead ==
    ASSUME NEW S, Nat \subseteq S, Named \subseteq S, NEW data \in Seq(S), NEW element, IsElement(element),
           SpeltFrom(S, element)
    PROVE  IsRead(S, data, EncodedElement(element), element)
<1>1. IsRead(S, data, Enumerator(element.Kind), element.Kind)
  BY TextIsRead DEF SpeltFrom, Enumerator
<1>2. PICK control : control = IF element.Control = Absent THEN Nothing ELSE Enumerator(element.Control)
  OBVIOUS
<1>3. IsRead(S, data, control, element.Control)
  <2>1. CASE element.Control = Absent
    BY <1>2, <2>1, NothingIsRead
  <2>2. CASE element.Control # Absent
    <3>1. element.Control \in S
      BY DEF SpeltFrom
    <3>2. IsRead(S, data, Enumerator(element.Control), element.Control)
      BY <3>1, TextIsRead DEF Enumerator
    <3> QED BY <1>2, <2>2, <3>2
  <2> QED BY <2>1, <2>2
<1>4. PICK parent : parent = IF element.Parent = Absent THEN Nothing ELSE Integer(element.Parent)
  OBVIOUS
<1>5. IsRead(S, data, parent, element.Parent)
  <2>1. CASE element.Parent = Absent
    BY <1>4, <2>1, NothingIsRead
  <2>2. CASE element.Parent # Absent
    <3>1. element.Parent \in Nat
      BY <2>2 DEF IsElement
    <3> QED BY <1>4, <2>2, <3>1, IntegerIsRead
  <2> QED BY <2>1, <2>2
<1>6. PICK bindings : bindings = ListOf([i \in DOMAIN element.Bindings |->
            RecordOf(<< <<"Role", Enumerator(element.Bindings[i].Role)>>,
                        <<"Id", <<5>> \o Text(element.Bindings[i].Id)>> >>)])
  OBVIOUS
<1>7. IsRead(S, data, bindings, element.Bindings)
  <2>1. PICK written : written = element.Bindings
    OBVIOUS
  <2>2. /\ written \in Seq(ToSet(written))
        /\ \A i \in DOMAIN written : /\ written[i].Role \in S /\ written[i].Id \in S
                                     /\ written[i] = Binding(written[i].Role, written[i].Id)
    BY <2>1 DEF IsElement, SpeltFrom
  <2>3. IsRead(S, data,
                  ListOf([i \in DOMAIN written |->
                      RecordOf(<< <<"Role", Enumerator(written[i].Role)>>,
                                  <<"Id", <<5>> \o Text(written[i].Id)>> >>)]), written)
    BY <2>2, BindingsAreRead
  <2> QED BY <1>6, <2>1, <2>3
<1>8. PICK choices : choices = ListOf([i \in DOMAIN element.Choices |-> <<5>> \o Text(element.Choices[i])])
  OBVIOUS
<1>9. IsRead(S, data, choices, element.Choices)
  <2>1. PICK written \in Seq(S) : written = element.Choices
    BY DEF SpeltFrom
  <2>2. IsRead(S, data, ListOf([i \in DOMAIN written |-> <<5>> \o Text(written[i])]), written)
    BY ChoicesAreRead
  <2> QED BY <1>8, <2>1, <2>2
<1>10. EncodedElement(element)
         = RecordOf(<< <<"Kind", Enumerator(element.Kind)>>, <<"Control", control>>, <<"Parent", parent>>,
                       <<"Bindings", bindings>>, <<"Choices", choices>> >>)
  BY <1>2, <1>4, <1>6, <1>8 DEF EncodedElement
<1>11. IsRead(S, data,
              RecordOf(<< <<"Kind", Enumerator(element.Kind)>>, <<"Control", control>>, <<"Parent", parent>>,
                          <<"Bindings", bindings>>, <<"Choices", choices>> >>),
              Element(element.Kind, element.Parent, element.Control, element.Bindings, element.Choices))
  <2>1. {"Kind", "Control", "Parent", "Bindings", "Choices"} \subseteq S
    BY DEF Named
  <2> QED BY <1>1, <1>3, <1>5, <1>7, <1>9, <2>1, RecordOfFive
<1>12. element = Element(element.Kind, element.Parent, element.Control, element.Bindings, element.Choices)
  BY DEF IsElement
<1> QED BY <1>10, <1>11, <1>12

\* The words of a schema.
Roles(schema) == UNION {{schema[i].Bindings[k].Role : k \in DOMAIN schema[i].Bindings} : i \in DOMAIN schema}
BoundIds(schema) == UNION {{schema[i].Bindings[k].Id : k \in DOMAIN schema[i].Bindings} : i \in DOMAIN schema}
Offered(schema) == UNION {ToSet(schema[i].Choices) : i \in DOMAIN schema}
Spelling(schema) ==
    Nat \cup Named \cup {Marker} \cup Roles(schema) \cup BoundIds(schema) \cup Offered(schema)
    \cup {schema[i].Kind : i \in DOMAIN schema} \cup {schema[i].Control : i \in DOMAIN schema}

\* And the elements of a schema.
LEMMA SchemaIsRead ==
    ASSUME NEW S, Nat \subseteq S, Named \subseteq S, NEW data \in Seq(S), NEW E, NEW schema \in Seq(E),
           \A i \in DOMAIN schema : IsElement(schema[i]) /\ SpeltFrom(S, schema[i])
    PROVE  IsRead(S, data,
                  RecordOf(<< <<"Elements", ListOf([i \in DOMAIN schema |-> EncodedElement(schema[i])])>> >>),
                  [Elements |-> schema])
<1>1. PICK n \in Nat : n = Len(schema) /\ DOMAIN schema = 1..n
  BY LenProperties
<1>2. PICK items : items = [i \in 1..n |-> EncodedElement(schema[i])]
  OBVIOUS
<1>3. ASSUME NEW i \in 1..n PROVE IsRead(S, data, items[i], schema[i]) /\ items[i] \in Seq(S)
  <2>1. IsRead(S, data, EncodedElement(schema[i]), schema[i])
    BY <1>1, ElementIsRead
  <2>2. IsRead(S, data, items[i], schema[i])
    BY <1>2, <2>1
  <2> QED BY <2>2 DEF IsRead
<1>4. items \in Seq(Seq(S)) /\ Len(items) = n
  <2>1. items \in [1..n -> Seq(S)]
    BY <1>2, <1>3
  <2> QED BY <2>1
<1>5. IsRead(S, data, ListOf(items), schema)
  <2>1. Len(schema) = Len(items) /\ \A i \in 1..Len(items) : IsRead(S, data, items[i], schema[i])
    BY <1>1, <1>3, <1>4
  <2> QED BY <1>4, <2>1, ListIsRead
<1>6. "Elements" \in S
  BY DEF Named
<1> QED BY <1>1, <1>2, <1>5, <1>6, RecordOfOne

\* What stands where the decoder begins, and is all there is, is what it decodes.
LEMMA ValueIsDecoded ==
    ASSUME NEW S, Nat \subseteq S, Marker \in S, NEW units \in Seq(S), NEW value,
           IsRead(S, Encoded(units), units, value)
    PROVE  Decode(Encoded(units)) = value
<1> DEFINE head == <<Marker, FormatVersion>>
<1>1. head \in Seq(S) /\ Len(head) = 2 /\ head[1] = Marker /\ head[2] = FormatVersion
  BY DEF FormatVersion
<1> HIDE DEF head
<1>2. PICK data : data = head \o units
  OBVIOUS
<1>3. data = Encoded(units)
  BY <1>2 DEF Encoded, head
<1>4. Len(units) \in Nat \ {0}
  BY DEF IsRead
<1>5. /\ data \in Seq(S) /\ Len(data) = 2 + Len(units)
      /\ \A i \in 1..2 + Len(units) : data[i] = IF i <= 2 THEN head[i] ELSE units[i - 2]
  <2>1. /\ head \o units \in Seq(S) /\ Len(head \o units) = Len(head) + Len(units)
        /\ \A i \in 1..Len(head) + Len(units) :
             (head \o units)[i] = IF i <= Len(head) THEN head[i] ELSE units[i - Len(head)]
    BY <1>1, ConcatProperties
  <2> QED BY <1>1, <1>2, <2>1
<1>6. Len(data) > 2 /\ data[1] = Marker /\ data[2] = FormatVersion
  <2>1. 1 \in 1..2 + Len(units) /\ 2 \in 1..2 + Len(units) /\ Len(data) > 2
    BY <1>4, <1>5
  <2> QED BY <1>1, <1>5, <2>1
<1>7. Holds(data, 3, units)
  <2>1. 3 + Len(units) <= Len(data) + 1
    BY <1>4, <1>5
  <2>2. ASSUME NEW j \in 1..Len(units) PROVE data[3 + j - 1] = units[j]
    <3>1. 3 + j - 1 \in 1..2 + Len(units) /\ ~(3 + j - 1 <= 2) /\ (3 + j - 1) - 2 = j
      BY <1>4
    <3> QED BY <1>5, <3>1
  <2> QED BY <2>1, <2>2 DEF Holds
<1>8. Value(data, Values(data), 3) = [value |-> value, next |-> 3 + Len(units)]
  BY <1>3, <1>7 DEF IsRead
<1>9. PICK next \in Nat : next = 3 + Len(units) /\ next = Len(data) + 1
  BY <1>4, <1>5
<1>10. Values(data)[3][FALSE][1] = Led(value, Values(data)[next][FALSE][0])
  <2>1. TakenNext(data, value, 3, next, FALSE)
    <3>1. 3 \in Nat /\ 3 <= Len(data) /\ Len(data) \in Nat
      BY <1>4, <1>5
    <3> QED BY <1>8, <1>9, <3>1, OneFollows
  <2>2. PICK one \in Nat \ {0}, from \in Nat : one = 1 /\ from = 3
    OBVIOUS
  <2>3. TakenNext(data, value, from, next, FALSE)
    BY <2>1, <2>2
  <2>4. Taken(data, Values(data), from, FALSE, one) = Led(value, Values(data)[next][FALSE][one - 1])
    BY <2>3 DEF TakenNext
  <2>5. Values(data)[from][FALSE][one] = Taken(data, Values(data), from, FALSE, one)
    BY <1>5, ValuesAreRead
  <2>6. one - 1 = 0
    BY <2>2
  <2>7. Values(data)[from][FALSE][one] = Led(value, Values(data)[next][FALSE][0])
    BY <2>4, <2>5, <2>6
  <2> QED BY <2>2, <2>7
<1>11. Values(data)[next][FALSE][0] = [taken |-> <<>>, next |-> next]
  <2>1. Values(data)[next][FALSE][0] = Taken(data, Values(data), next, FALSE, 0)
    BY <1>5, ValuesAreRead
  <2> QED BY <2>1 DEF Taken
<1>12. PICK read : read = Values(data)[3][FALSE][1]
  OBVIOUS
<1>13. read.taken = <<value>> \o <<>> /\ read.next = Len(data) + 1
  <2>1. PICK rest : rest = Values(data)[next][FALSE][0]
    OBVIOUS
  <2>2. rest = [taken |-> <<>>, next |-> next] /\ read = [taken |-> <<value>> \o rest.taken, next |-> rest.next]
    BY <1>10, <1>11, <1>12, <2>1 DEF Led
  <2> QED BY <1>9, <2>2
<1>14. read.taken[1] = value
  BY <1>13
<1>15. Decode(data) = read.taken[1]
  <2>1. Decode(data) = IF /\ Len(data) > 2 /\ data[1] = Marker /\ data[2] = FormatVersion
                          /\ Whole(data, read.next)
                       THEN read.taken[1] ELSE ValueError
    BY <1>12 DEF Decode
  <2> QED BY <1>6, <1>13, <2>1 DEF Whole
<1> QED BY <1>3, <1>14, <1>15

\* A well-formed schema is decoded from its encoding as it was.
THEOREM EncodedIsDecoded ==
    ASSUME NEW schema, WellFormed(schema)
    PROVE  Decode(EncodedSchema(schema)) = [Elements |-> schema]
<1> DEFINE S == Spelling(schema)
           units == RecordOf(<< <<"Elements", ListOf([i \in DOMAIN schema |-> EncodedElement(schema[i])])>> >>)
           value == [Elements |-> schema]
<1>1. schema \in Seq(ToSet(schema)) /\ DOMAIN schema = 1..Len(schema) /\ Len(schema) \in Nat
  BY LenProperties DEF WellFormed
<1>2. ASSUME NEW i \in DOMAIN schema PROVE IsElement(schema[i])
  <2>1. PICK element : element = schema[i]
    OBVIOUS
  <2>2. /\ element = Element(element.Kind, element.Parent, element.Control, element.Bindings, element.Choices)
        /\ element.Bindings \in Seq(ToSet(element.Bindings))
        /\ \A k \in DOMAIN element.Bindings :
             element.Bindings[k] = Binding(element.Bindings[k].Role, element.Bindings[k].Id)
        /\ element.Parent = Absent \/ element.Parent \in 1..(i - 1)
    BY <2>1 DEF WellFormed
  <2>3. IsElement(element)
    BY <1>1, <2>2 DEF IsElement
  <2> QED BY <2>1, <2>3
<1>3. ASSUME NEW i \in DOMAIN schema PROVE SpeltFrom(S, schema[i])
  <2>1. schema[i].Kind \in S /\ schema[i].Control \in S
    BY DEF Spelling
  <2>2. \A k \in DOMAIN schema[i].Bindings : schema[i].Bindings[k].Role \in S /\ schema[i].Bindings[k].Id \in S
    <3>1. ASSUME NEW k \in DOMAIN schema[i].Bindings
          PROVE  schema[i].Bindings[k].Role \in Roles(schema) /\ schema[i].Bindings[k].Id \in BoundIds(schema)
      BY DEF Roles, BoundIds
    <3>2. Roles(schema) \subseteq S /\ BoundIds(schema) \subseteq S
      BY DEF Spelling
    <3> QED BY <3>1, <3>2
  <2>3. ToSet(schema[i].Choices) \subseteq S
    <3>1. ToSet(schema[i].Choices) \subseteq Offered(schema)
      BY DEF Offered
    <3>2. Offered(schema) \subseteq S
      BY DEF Spelling
    <3> QED BY <3>1, <3>2
  <2>4. schema[i].Choices \in Seq(ToSet(schema[i].Choices))
    BY DEF WellFormed
  <2>5. schema[i].Choices \in Seq(S)
    <3> HIDE DEF S
    <3> QED BY <2>3, <2>4
  <2> QED BY <2>1, <2>2, <2>5 DEF SpeltFrom
<1>4. Nat \subseteq S /\ Named \subseteq S /\ Marker \in S
  BY DEF Spelling
<1> HIDE DEF S
<1>5. ASSUME NEW data \in Seq(S) PROVE IsRead(S, data, units, value)
  BY <1>1, <1>2, <1>3, <1>4, SchemaIsRead
<1> HIDE DEF units
<1>6. units \in Seq(S)
  <2>1. <<>> \in Seq(S)
    OBVIOUS
  <2> QED BY <1>5, <2>1 DEF IsRead
<1>7. Encoded(units) \in Seq(S)
  <2>1. <<Marker, FormatVersion>> \in Seq(S)
    BY <1>4 DEF FormatVersion
  <2> QED BY <1>6, <2>1, ConcatProperties DEF Encoded
<1>8. Decode(Encoded(units)) = value
  BY <1>4, <1>5, <1>6, <1>7, ValueIsDecoded
<1> QED BY <1>8 DEF EncodedSchema, units

-----------------------------------------------------------------------------
(* The classes of the UI, in the order in which Blender gets them.           *)

\* The panel an element is drawn in is an element before it, or itself, which is a panel.
LEMMA PanelsExist ==
    ASSUME NEW schema, NEW n \in Nat
    PROVE  \E f : f = [i \in 1..n |->
                        IF IsPanel(schema[i]) THEN i
                        ELSE IF schema[i].Parent \in 1..(i - 1) THEN f[schema[i].Parent] ELSE Absent]
<1> DEFINE Is(f, m) == f = [i \in 1..m |->
                        IF IsPanel(schema[i]) THEN i
                        ELSE IF schema[i].Parent \in 1..(i - 1) THEN f[schema[i].Parent] ELSE Absent]
           T == {m \in Nat : \E f : Is(f, m)}
<1>1. 0 \in T
  <2>1. Is([i \in 1..0 |-> 0], 0)
    OBVIOUS
  <2> QED BY <2>1
<1>2. ASSUME NEW m \in Nat, m \in T PROVE m + 1 \in T
  <2>1. PICK f : Is(f, m)
    BY <1>2
  <2> DEFINE g == [i \in 1..(m + 1) |->
                        IF IsPanel(schema[i]) THEN i
                        ELSE IF schema[i].Parent \in 1..(i - 1) THEN f[schema[i].Parent] ELSE Absent]
  <2>2. ASSUME NEW i \in 1..(m + 1), schema[i].Parent \in 1..(i - 1)
        PROVE  g[schema[i].Parent] = f[schema[i].Parent]
    <3> DEFINE p == schema[i].Parent
    <3>1. p \in 1..m /\ p \in 1..(m + 1)
      BY <2>2
    <3> HIDE DEF p
    <3>2. f[p] = IF IsPanel(schema[p]) THEN p
                 ELSE IF schema[p].Parent \in 1..(p - 1) THEN f[schema[p].Parent] ELSE Absent
      BY <2>1, <3>1
    <3>3. g[p] = IF IsPanel(schema[p]) THEN p
                 ELSE IF schema[p].Parent \in 1..(p - 1) THEN f[schema[p].Parent] ELSE Absent
      BY <3>1
    <3> QED BY <3>2, <3>3 DEF p
  <2>3. Is(g, m + 1)
    <3>1. [i \in 1..(m + 1) |->
                IF IsPanel(schema[i]) THEN i
                ELSE IF schema[i].Parent \in 1..(i - 1) THEN f[schema[i].Parent] ELSE Absent]
          = [i \in 1..(m + 1) |->
                IF IsPanel(schema[i]) THEN i
                ELSE IF schema[i].Parent \in 1..(i - 1) THEN g[schema[i].Parent] ELSE Absent]
      <4> HIDE DEF g
      <4> QED BY <2>2
    <3> QED BY <3>1
  <2> HIDE DEF Is, g
  <2> QED BY <2>3
<1> HIDE DEF T
<1>3. n \in T
  BY <1>1, <1>2, CountingUp
<1> QED BY <1>3 DEF T

\* Panels is defined by what it says of each element.
LEMMA PanelsAre ==
    ASSUME NEW S, NEW schema \in Seq(S)
    PROVE  Panels(schema) = [i \in 1..Len(schema) |->
                                IF IsPanel(schema[i]) THEN i
                                ELSE IF schema[i].Parent \in 1..(i - 1) THEN Panels(schema)[schema[i].Parent]
                                     ELSE Absent]
<1>1. Len(schema) \in Nat /\ DOMAIN schema = 1..Len(schema)
  BY LenProperties
<1> DEFINE n == Len(schema)
           Is(f) == f = [j \in 1..n |->
                        IF IsPanel(schema[j]) THEN j
                        ELSE IF schema[j].Parent \in 1..(j - 1) THEN f[schema[j].Parent] ELSE Absent]
           p == CHOOSE f : Is(f)
<1>2. p = Panels(schema)
  BY <1>1 DEF Panels
<1>3. Is(p)
  <2>1. \E f : Is(f)
    BY <1>1, PanelsExist
  <2> HIDE DEF Is
  <2> QED BY <2>1
<1> HIDE DEF p
<1> QED BY <1>2, <1>3

\* What an element is drawn in is a panel, and none that comes later.
LEMMA PanelsArePanels ==
    ASSUME NEW S, NEW schema \in Seq(S), NEW i \in 1..Len(schema)
    PROVE  \/ Panels(schema)[i] = Absent
           \/ Panels(schema)[i] \in 1..i /\ IsPanel(schema[Panels(schema)[i]])
<1>1. Len(schema) \in Nat /\ DOMAIN schema = 1..Len(schema)
  BY LenProperties
<1> DEFINE n == Len(schema)
<1>2. PICK p : p = Panels(schema)
  OBVIOUS
<1>3. p = [j \in 1..n |->
             IF IsPanel(schema[j]) THEN j
             ELSE IF schema[j].Parent \in 1..(j - 1) THEN p[schema[j].Parent] ELSE Absent]
  BY <1>2, PanelsAre
<1> DEFINE Fine(j) == p[j] = Absent \/ (p[j] \in 1..j /\ IsPanel(schema[p[j]]))
           T == {m \in Nat : \A j \in 1..m : j <= n => Fine(j)}
<1>4. 0 \in T
  OBVIOUS
<1>5. ASSUME NEW m \in Nat, m \in T PROVE m + 1 \in T
  <2> SUFFICES ASSUME m + 1 <= n PROVE Fine(m + 1)
    BY <1>5
  <2> DEFINE j == m + 1
             q == schema[j].Parent
  <2>1. j \in 1..n /\ j - 1 = m
    BY <1>1
  <2>2. p[j] = IF IsPanel(schema[j]) THEN j ELSE IF q \in 1..(j - 1) THEN p[q] ELSE Absent
    BY <1>3, <2>1
  <2>3. q \in 1..(j - 1) => Fine(q) /\ q <= j
    BY <1>1, <1>5, <2>1
  <2> HIDE DEF j, q
  <2>4. j \in 1..j
    BY <1>1, <2>1
  <2>5. CASE IsPanel(schema[j])
    BY <2>2, <2>4, <2>5 DEF j
  <2>6. CASE ~IsPanel(schema[j]) /\ q \in 1..(j - 1)
    <3>1. p[j] = p[q] /\ Fine(q) /\ q <= j /\ q \in Nat /\ j \in Nat
      BY <2>1, <2>2, <2>3, <2>6 DEF j
    <3>2. p[q] \in 1..q => p[q] \in 1..j
      BY <3>1
    <3> QED BY <3>1, <3>2 DEF j
  <2>7. CASE ~IsPanel(schema[j]) /\ q \notin 1..(j - 1)
    BY <2>2, <2>7 DEF j
  <2> QED BY <2>5, <2>6, <2>7
<1> HIDE DEF T
<1>6. n \in T
  BY <1>1, <1>4, <1>5, CountingUp
<1>7. Fine(i)
  BY <1>1, <1>6 DEF T
<1> QED BY <1>2, <1>7

\* A panel is in the document's, in one before it, or in none.
Before(schema, i) == {PanelName(j) : j \in {j \in 1..i : IsPanel(schema[j])}}
LEMMA ParentIsBefore ==
    ASSUME NEW S, NEW schema \in Seq(S), NEW i \in 1..Len(schema)
    PROVE  ParentPanel(schema, i) \in {DocumentPanel, Absent} \cup Before(schema, i - 1)
<1> DEFINE q == schema[i].Parent
           p == Panels(schema)[q]
<1>1. CASE schema[i].Kind # "Surface" /\ q \in 1..(i - 1) /\ p # Absent
  <2>1. q \in 1..Len(schema) /\ q <= i - 1 /\ q \in Nat /\ i \in Nat
    BY <1>1, LenProperties
  <2>2. p \in 1..q /\ IsPanel(schema[p])
    BY <1>1, <2>1, PanelsArePanels
  <2>3. ParentPanel(schema, i) = PanelName(p)
    BY <1>1 DEF ParentPanel
  <2> HIDE DEF p, q
  <2>4. p \in {j \in 1..(i - 1) : IsPanel(schema[j])}
    BY <2>1, <2>2
  <2> QED BY <2>3, <2>4 DEF Before
<1>2. CASE schema[i].Kind = "Surface" \/ ~(q \in 1..(i - 1) /\ p # Absent)
  BY <1>2 DEF ParentPanel
<1> QED BY <1>1, <1>2

\* The classes of the panels.
PanelClass(schema, i) == Class(PanelName(i), "Panel", ParentPanel(schema, i))
Made(schema, f, n) ==
    f = [i \in 0..n |-> IF i = 0 THEN <<ValuesClass>>
                        ELSE IF IsPanel(schema[i]) THEN Append(f[i - 1], PanelClass(schema, i))
                             ELSE f[i - 1]]

\* The classes can be made element by element.
LEMMA MadeExists ==
    ASSUME NEW schema, NEW n \in Nat
    PROVE  \E f : Made(schema, f, n)
<1> DEFINE T == {m \in Nat : \E f : Made(schema, f, m)}
<1>1. 0 \in T
  <2> DEFINE f == [i \in 0..0 |-> <<ValuesClass>>]
  <2>1. Made(schema, f, 0)
    BY DEF Made
  <2> HIDE DEF f
  <2> QED BY <2>1
<1>2. ASSUME NEW m \in Nat, m \in T PROVE m + 1 \in T
  <2>1. PICK f : Made(schema, f, m)
    BY <1>2
  <2> DEFINE g == [i \in 0..(m + 1) |->
                    IF i = 0 THEN <<ValuesClass>>
                    ELSE IF IsPanel(schema[i]) THEN Append(f[i - 1], PanelClass(schema, i))
                         ELSE f[i - 1]]
  <2>2. ASSUME NEW i \in 0..(m + 1), i # 0 PROVE g[i - 1] = f[i - 1]
    <3> DEFINE j == i - 1
    <3>1. j \in 0..m /\ j \in 0..(m + 1)
      BY <2>2
    <3> HIDE DEF j
    <3>2. f[j] = IF j = 0 THEN <<ValuesClass>>
                 ELSE IF IsPanel(schema[j]) THEN Append(f[j - 1], PanelClass(schema, j)) ELSE f[j - 1]
      BY <2>1, <3>1 DEF Made
    <3>3. g[j] = IF j = 0 THEN <<ValuesClass>>
                 ELSE IF IsPanel(schema[j]) THEN Append(f[j - 1], PanelClass(schema, j)) ELSE f[j - 1]
      BY <3>1
    <3> QED BY <3>2, <3>3 DEF j
  <2>3. Made(schema, g, m + 1)
    <3>1. g = [i \in 0..(m + 1) |->
                IF i = 0 THEN <<ValuesClass>>
                ELSE IF IsPanel(schema[i]) THEN Append(g[i - 1], PanelClass(schema, i)) ELSE g[i - 1]]
      <4>1. \A i \in 0..(m + 1) : i # 0 => g[i - 1] = f[i - 1]
        BY <2>2
      <4>2. g = [i \in 0..(m + 1) |->
                  IF i = 0 THEN <<ValuesClass>>
                  ELSE IF IsPanel(schema[i]) THEN Append(f[i - 1], PanelClass(schema, i)) ELSE f[i - 1]]
        OBVIOUS
      <4> HIDE DEF g
      <4> QED BY <4>1, <4>2
    <3> HIDE DEF g
    <3> QED BY <3>1 DEF Made
  <2> HIDE DEF g
  <2> QED BY <2>3
<1> HIDE DEF T
<1>3. n \in T
  BY <1>1, <1>2, CountingUp
<1> QED BY <1>3 DEF T

\* And so Project makes them.
LEMMA ProjectSteps ==
    ASSUME NEW S, NEW schema \in Seq(S)
    PROVE  \E f : Made(schema, f, Len(schema)) /\ f[Len(schema)] = Project(schema)
<1> DEFINE f == CHOOSE g : Made(schema, g, Len(schema))
<1>1. Made(schema, f, Len(schema))
  BY MadeExists, LenProperties
<1>2. f[Len(schema)] = Project(schema)
  BY DEF Project, Made, PanelClass
<1> HIDE DEF f
<1> QED BY <1>1, <1>2

\* One class more, of a new name and in a panel that is there.
NamesOf(list) == {list[i].name : i \in DOMAIN list}
LEMMA AppendInOrder ==
    ASSUME NEW S, NEW list \in Seq(S), NEW class \in S, InOrder({}, list),
           class.name \notin NamesOf(list), class.parent \in NamesOf(list) \cup {Absent}
    PROVE  /\ Append(list, class) \in Seq(S) /\ InOrder({}, Append(list, class))
           /\ NamesOf(Append(list, class)) = NamesOf(list) \cup {class.name}
<1> DEFINE longer == Append(list, class)
           n == Len(list)
<1>1. /\ n \in Nat /\ DOMAIN list = 1..n
      /\ longer \in Seq(S) /\ DOMAIN longer = 1..(n + 1)
      /\ \A i \in 1..n : longer[i] = list[i]
      /\ longer[n + 1] = class
  BY LenProperties
<1> HIDE DEF longer, n
<1>2. NamesOf(longer) = NamesOf(list) \cup {class.name}
  <2>1. \A i \in 1..n : i \in 1..(n + 1)
    BY <1>1
  <2>2. n + 1 \in 1..(n + 1) /\ \A i \in 1..(n + 1) : i \in 1..n \/ i = n + 1
    BY <1>1
  <2> QED BY <1>1, <2>1, <2>2 DEF NamesOf
<1>3. ASSUME NEW i \in 1..(n + 1)
      PROVE  /\ longer[i].name \notin {longer[j].name : j \in 1..(i - 1)}
             /\ longer[i].parent \in {longer[j].name : j \in 1..(i - 1)} \cup {Absent}
  <2>1. \A j \in 1..(i - 1) : longer[j] = list[j]
    BY <1>1
  <2>2. {longer[j].name : j \in 1..(i - 1)} = {list[j].name : j \in 1..(i - 1)}
    BY <2>1
  <2>3. CASE i \in 1..n
    <3>1. /\ list[i].name \notin {list[j].name : j \in 1..(i - 1)}
          /\ list[i].parent \in {list[j].name : j \in 1..(i - 1)} \cup {Absent}
      BY <1>1, <2>3 DEF InOrder
    <3> QED BY <1>1, <2>2, <2>3, <3>1
  <2>4. CASE i = n + 1
    <3>1. {list[j].name : j \in 1..(i - 1)} = NamesOf(list)
      BY <1>1, <2>4 DEF NamesOf
    <3> QED BY <1>1, <2>2, <2>4, <3>1
  <2> QED BY <1>1, <2>3, <2>4
<1>4. InOrder({}, longer)
  BY <1>1, <1>3 DEF InOrder
<1> QED BY <1>1, <1>2, <1>4 DEF longer

\* Whatever the engine describes, Blender can take the classes one after the other.
LEMMA ProjectInOrder ==
    ASSUME NEW S, NEW schema \in Seq(S)
    PROVE  /\ InOrder({}, Ordered(Project(schema)))
           /\ \E C : Ordered(Project(schema)) \in Seq(C)
           /\ NamesOf(Ordered(Project(schema)))
                = NamesOf(RegisteredClasses) \cup {ValuesClass.name} \cup Before(schema, Len(schema))
<1> DEFINE n == Len(schema)
           W == RegisteredClasses
           C == ToSet(W) \cup {ValuesClass} \cup {PanelClass(schema, i) : i \in 1..n}
           Generated(i) == {ValuesClass.name} \cup Before(schema, i)
<1>1. n \in Nat
  BY LenProperties
<1>2. PICK f : Made(schema, f, n) /\ f[n] = Project(schema)
  BY ProjectSteps
<1>3. /\ f[0] = <<ValuesClass>>
      /\ \A i \in 1..n : f[i] = IF IsPanel(schema[i]) THEN Append(f[i - 1], PanelClass(schema, i))
                                ELSE f[i - 1]
  <2>1. f = [i \in 0..n |-> IF i = 0 THEN <<ValuesClass>>
                             ELSE IF IsPanel(schema[i]) THEN Append(f[i - 1], PanelClass(schema, i))
                                  ELSE f[i - 1]]
    BY <1>2 DEF Made
  <2>2. 0 \in 0..n /\ \A i \in 1..n : i \in 0..n /\ i # 0
    BY <1>1
  <2>3. f[0] = <<ValuesClass>>
    BY <2>1, <2>2
  <2>4. ASSUME NEW i \in 1..n
        PROVE  f[i] = IF IsPanel(schema[i]) THEN Append(f[i - 1], PanelClass(schema, i)) ELSE f[i - 1]
    <3> HIDE DEF n
    <3> QED BY <2>1, <2>2
  <2> QED BY <2>3, <2>4
<1>4. /\ W \in Seq(C) /\ InOrder({}, W) /\ DocumentPanel \in NamesOf(W)
      /\ \A name \in NamesOf(W) : name[1] \notin {"FD_PT_ui", "FD_UiValues"}
  <2>1. W \in Seq(ToSet(W)) /\ InOrder({}, W)
    BY WrittenAssumption
  <2>2. ToSet(W) \subseteq C
    OBVIOUS
  <2>3. W \in Seq(C)
    BY <2>1, <2>2, SeqMonotonic
  <2>4. NamesOf(W) = {class.name : class \in ToSet(W)}
    BY DEF NamesOf, ToSet
  <2> QED BY <2>1, <2>3, <2>4, WrittenAssumption DEF PanelName, ValuesClass, Class
<1>5. ValuesClass \in C /\ \A i \in 1..n : PanelClass(schema, i) \in C
  OBVIOUS
<1> HIDE DEF C, W
<1> DEFINE Fine(i) ==
             /\ f[i] \in Seq(C) /\ W \o f[i] \in Seq(C) /\ InOrder({}, W \o f[i])
             /\ NamesOf(W \o f[i]) = NamesOf(W) \cup Generated(i)
           T == {m \in Nat : m <= n => Fine(m)}
<1>6. 0 \in T
  <2>1. f[0] \in Seq(C) /\ W \o f[0] = Append(W, ValuesClass)
    BY <1>3, <1>4, <1>5
  <2>2. ValuesClass.name \notin NamesOf(W) /\ ValuesClass.parent = Absent
    BY <1>4 DEF ValuesClass, Class
  <2>3. /\ Append(W, ValuesClass) \in Seq(C) /\ InOrder({}, Append(W, ValuesClass))
        /\ NamesOf(Append(W, ValuesClass)) = NamesOf(W) \cup {ValuesClass.name}
    BY <1>4, <1>5, <2>2, AppendInOrder
  <2>4. Before(schema, 0) = {}
    BY DEF Before
  <2> QED BY <2>1, <2>3, <2>4
<1>7. ASSUME NEW m \in Nat, m \in T PROVE m + 1 \in T
  <2> SUFFICES ASSUME m + 1 <= n PROVE Fine(m + 1)
    OBVIOUS
  <2> DEFINE i == m + 1
             class == PanelClass(schema, i)
  <2>1. i \in 1..n /\ i - 1 = m /\ m <= n /\ i \in 1..Len(schema)
    BY <1>1
  <2>2. Fine(m)
    BY <1>7, <2>1
  <2>3. f[i] = IF IsPanel(schema[i]) THEN Append(f[m], class) ELSE f[m]
    BY <1>3, <2>1
  <2>4. Before(schema, i) = Before(schema, m) \cup (IF IsPanel(schema[i]) THEN {PanelName(i)} ELSE {})
    <3>1. {j \in 1..i : IsPanel(schema[j])}
          = {j \in 1..m : IsPanel(schema[j])} \cup (IF IsPanel(schema[i]) THEN {i} ELSE {})
      OBVIOUS
    <3> QED BY <3>1 DEF Before
  <2>5. CASE ~IsPanel(schema[i])
    BY <2>2, <2>3, <2>4, <2>5
  <2>6. CASE IsPanel(schema[i])
    <3>1. class.name = PanelName(i) /\ class.parent = ParentPanel(schema, i)
      BY DEF PanelClass, Class
    <3>2. PanelName(i) \notin NamesOf(W) \cup Generated(m)
      <4>1. PanelName(i)[1] = "FD_PT_ui" /\ PanelName(i)[2] = i
        BY DEF PanelName
      <4>2. PanelName(i) # ValuesClass.name
        BY DEF PanelName, ValuesClass, Class
      <4>3. PanelName(i) \notin Before(schema, m)
        <5>1. \A j \in 1..m : PanelName(j)[2] = j /\ j # i
          BY DEF PanelName
        <5> QED BY <4>1, <5>1 DEF Before
      <4> QED BY <1>4, <4>1, <4>2, <4>3
    <3>3. ParentPanel(schema, i) \in {DocumentPanel, Absent} \cup Before(schema, m)
      BY <2>1, ParentIsBefore
    <3>4. class.name \notin NamesOf(W \o f[m]) /\ class.parent \in NamesOf(W \o f[m]) \cup {Absent}
      BY <1>4, <2>2, <3>1, <3>2, <3>3
    <3>5. class \in C
      BY <1>5, <2>1
    <3> HIDE DEF class
    <3>6. /\ Append(W \o f[m], class) \in Seq(C) /\ InOrder({}, Append(W \o f[m], class))
          /\ NamesOf(Append(W \o f[m], class)) = NamesOf(W \o f[m]) \cup {class.name}
      <4> DEFINE list == W \o f[m]
      <4>1. list \in Seq(C) /\ InOrder({}, list)
        BY <2>2
      <4>2. class.name \notin NamesOf(list) /\ class.parent \in NamesOf(list) \cup {Absent}
        BY <3>4
      <4> HIDE DEF list
      <4>3. /\ Append(list, class) \in Seq(C) /\ InOrder({}, Append(list, class))
            /\ NamesOf(Append(list, class)) = NamesOf(list) \cup {class.name}
        BY <3>5, <4>1, <4>2, AppendInOrder
      <4> QED BY <4>3 DEF list
    <3>7. W \o Append(f[m], class) = Append(W \o f[m], class) /\ Append(f[m], class) \in Seq(C)
      BY <1>4, <2>2, <3>5
    <3> QED BY <2>2, <2>3, <2>4, <2>6, <3>1, <3>6, <3>7
  <2> QED BY <2>5, <2>6
<1> HIDE DEF T
<1>8. n \in T
  BY <1>1, <1>6, <1>7, CountingUp
<1>9. Fine(n)
  BY <1>1, <1>8 DEF T
<1> QED BY <1>2, <1>9 DEF W, Ordered

\* Written classes alone, too.
LEMMA WrittenInOrder ==
    /\ InOrder({}, Ordered(<<>>))
    /\ \E C : Ordered(<<>>) \in Seq(C)
<1>1. RegisteredClasses \in Seq(ToSet(RegisteredClasses)) /\ InOrder({}, RegisteredClasses)
  BY WrittenAssumption
<1>2. RegisteredClasses \o <<>> = RegisteredClasses
  BY <1>1, ConcatEmptySeq
<1> QED BY <1>1, <1>2 DEF Ordered

\* The first of the list can be taken, and the rest after it.
LEMMA TakeOne ==
    ASSUME NEW C, NEW list \in Seq(C), NEW names, InOrder(names, list), list # <<>>
    PROVE  /\ Head(list).name \notin names /\ Head(list).parent \in names \cup {Absent}
           /\ InOrder(names \cup {Head(list).name}, Tail(list)) /\ Tail(list) \in Seq(C)
<1> DEFINE rest == Tail(list)
           n == Len(list)
<1>1. n \in Nat \ {0} /\ DOMAIN list = 1..n /\ Head(list) = list[1]
  BY LenProperties, EmptySeq
<1>2. rest \in Seq(C) /\ Len(rest) = n - 1 /\ \A i \in 1..Len(rest) : rest[i] = list[i + 1]
  BY HeadTailProperties
<1>3. DOMAIN rest = 1..(n - 1)
  BY <1>2, LenProperties
<1> HIDE DEF rest, n
<1>4. list[1].name \notin names /\ list[1].parent \in names \cup {Absent}
  <2>1. 1 \in DOMAIN list /\ {list[j].name : j \in 1..(1 - 1)} = {}
    BY <1>1
  <2> QED BY <2>1 DEF InOrder
<1>5. ASSUME NEW i \in 1..(n - 1)
      PROVE  LET before == (names \cup {list[1].name}) \cup {rest[j].name : j \in 1..(i - 1)}
             IN rest[i].name \notin before /\ rest[i].parent \in before \cup {Absent}
  <2> DEFINE before == (names \cup {list[1].name}) \cup {rest[j].name : j \in 1..(i - 1)}
             earlier == names \cup {list[j].name : j \in 1..((i + 1) - 1)}
  <2>1. i + 1 \in DOMAIN list /\ rest[i] = list[i + 1]
    BY <1>1, <1>2
  <2>2. list[i + 1].name \notin earlier /\ list[i + 1].parent \in earlier \cup {Absent}
    BY <2>1 DEF InOrder
  <2>3. before = earlier
    <3>1. \A j \in 1..(i - 1) : rest[j] = list[j + 1] /\ j + 1 \in 1..((i + 1) - 1)
      BY <1>1, <1>2
    <3>2. \A j \in 1..((i + 1) - 1) : j = 1 \/ (j - 1 \in 1..(i - 1) /\ (j - 1) + 1 = j)
      BY <1>1
    <3>3. 1 \in 1..((i + 1) - 1)
      BY <1>1
    <3>4. before \subseteq earlier
      BY <3>1, <3>3
    <3>5. ASSUME NEW j \in 1..((i + 1) - 1) PROVE list[j].name \in before
      <4>1. CASE j = 1
        BY <4>1
      <4>2. CASE j - 1 \in 1..(i - 1) /\ (j - 1) + 1 = j
        <5>1. rest[j - 1] = list[j]
          BY <3>1, <4>2
        <5> QED BY <4>2, <5>1
      <4> QED BY <3>2, <4>1, <4>2
    <3> QED BY <3>4, <3>5
  <2> QED BY <2>1, <2>2, <2>3
<1>6. InOrder(names \cup {list[1].name}, rest)
  BY <1>3, <1>5 DEF InOrder
<1> QED BY <1>1, <1>2, <1>4, <1>6 DEF rest

-----------------------------------------------------------------------------
(* Drawing.                                                                  *)

\* A thing stands at one place of a sequence, or at none.
Once(seq, thing) == \E k \in 1..Len(seq) : \A l \in 1..Len(seq) : seq[l] = thing <=> l = k
Never(seq, thing) == \A l \in 1..Len(seq) : seq[l] # thing

\* One behind the other, what is once in one of two and never in the other is once in both.
LEMMA OneBehindTheOther ==
    ASSUME NEW S, NEW a \in Seq(S), NEW b \in Seq(S), NEW thing, Never(b, thing) \/ Never(a, thing)
    PROVE  /\ Never(a, thing) /\ Never(b, thing) => Never(a \o b, thing)
           /\ Once(a, thing) \/ Once(b, thing) => Once(a \o b, thing)
<1>1. PICK c : c = a \o b
  OBVIOUS
<1>2. /\ Len(a) \in Nat /\ Len(b) \in Nat /\ Len(c) = Len(a) + Len(b)
      /\ \A i \in 1..Len(a) + Len(b) : c[i] = IF i <= Len(a) THEN a[i] ELSE b[i - Len(a)]
  BY <1>1, LenProperties, ConcatProperties
<1>3. \A i \in 1..Len(a) : i \in 1..Len(c) /\ c[i] = a[i]
  BY <1>2
<1>4. \A i \in 1..Len(b) : i + Len(a) \in 1..Len(c) /\ c[i + Len(a)] = b[i]
  <2> TAKE i \in 1..Len(b)
  <2> DEFINE j == i + Len(a)
  <2>1. j \in 1..Len(a) + Len(b) /\ ~(j <= Len(a)) /\ j - Len(a) = i
    BY <1>2
  <2> HIDE DEF j
  <2>2. j \in 1..Len(c) /\ c[j] = b[i]
    BY <1>2, <2>1
  <2> QED BY <2>2 DEF j
<1>5. \A l \in 1..Len(c) : l \in 1..Len(a) \/ (l - Len(a) \in 1..Len(b) /\ l = (l - Len(a)) + Len(a))
  BY <1>2
<1>6. ASSUME Never(a, thing), Never(b, thing) PROVE Never(c, thing)
  BY <1>3, <1>4, <1>5, <1>6 DEF Never
<1>7. ASSUME Once(a, thing), Never(b, thing) PROVE Once(c, thing)
  <2>1. PICK k \in 1..Len(a) : \A l \in 1..Len(a) : a[l] = thing <=> l = k
    BY <1>7 DEF Once
  <2>2. ASSUME NEW l \in 1..Len(c) PROVE c[l] = thing <=> l = k
    <3>1. CASE l \in 1..Len(a)
      BY <1>3, <2>1, <3>1
    <3>2. CASE l - Len(a) \in 1..Len(b) /\ l = (l - Len(a)) + Len(a)
      <4>1. c[l] = b[l - Len(a)] /\ b[l - Len(a)] # thing
        BY <1>4, <1>7, <3>2 DEF Never
      <4>2. l # k
        BY <1>2, <3>2
      <4> QED BY <4>1, <4>2
    <3> QED BY <1>5, <3>1, <3>2
  <2> QED BY <1>3, <2>2 DEF Once
<1>8. ASSUME Once(b, thing), Never(a, thing) PROVE Once(c, thing)
  <2>1. PICK k \in 1..Len(b) : \A l \in 1..Len(b) : b[l] = thing <=> l = k
    BY <1>8 DEF Once
  <2>2. ASSUME NEW l \in 1..Len(c) PROVE c[l] = thing <=> l = k + Len(a)
    <3>1. CASE l \in 1..Len(a)
      <4>1. c[l] # thing
        BY <1>3, <1>8, <3>1 DEF Never
      <4>2. l # k + Len(a)
        BY <1>2, <3>1
      <4> QED BY <4>1, <4>2
    <3>2. CASE l - Len(a) \in 1..Len(b) /\ l = (l - Len(a)) + Len(a)
      <4>1. PICK m \in 1..Len(b) : m = l - Len(a) /\ l = m + Len(a)
        BY <3>2
      <4>2. c[l] = b[m] /\ (b[m] = thing <=> m = k)
        BY <1>4, <2>1, <4>1
      <4>3. m = k <=> l = k + Len(a)
        BY <1>2, <4>1
      <4> QED BY <4>2, <4>3
    <3> QED BY <1>5, <3>1, <3>2
  <2>3. k + Len(a) \in 1..Len(c)
    BY <1>4
  <2> QED BY <2>2, <2>3 DEF Once
<1>9. ~(Once(a, thing) /\ Never(a, thing)) /\ ~(Once(b, thing) /\ Never(b, thing))
  BY DEF Once, Never
<1> QED BY <1>1, <1>6, <1>7, <1>8, <1>9

\* What stands in no more than one of the pieces, and there once.
LEMMA OneOfThePieces ==
    ASSUME NEW S, NEW s \in Seq(Seq(S)), NEW thing, NEW k \in Nat \ {0},
           \A i \in 1..Len(s) : IF i = k THEN Once(s[i], thing) ELSE Never(s[i], thing)
    PROVE  IF k <= Len(s) THEN Once(FlattenSeq(s), thing) ELSE Never(FlattenSeq(s), thing)
<1>1. Len(s) \in Nat /\ \A i \in 1..Len(s) : s[i] \in Seq(S)
  BY LenProperties, ElementOfSeq
<1>2. PICK f : /\ f[0] = <<>> /\ f[Len(s)] = FlattenSeq(s)
               /\ \A i \in 0..Len(s) : f[i] \in Seq(S)
               /\ \A i \in 1..Len(s) : f[i] = f[i - 1] \o s[i]
  BY FlattenSteps
<1> DEFINE Good(m) == IF k <= m THEN Once(f[m], thing) ELSE Never(f[m], thing)
           T == {m \in Nat : m <= Len(s) => Good(m)}
<1>3. 0 \in T
  <2>1. Never(<<>>, thing) /\ ~(k <= 0)
    BY DEF Never
  <2> QED BY <1>2, <2>1
<1>4. ASSUME NEW m \in Nat, m \in T PROVE m + 1 \in T
  <2> SUFFICES ASSUME m + 1 <= Len(s) PROVE Good(m + 1)
    <3> HIDE DEF Good
    <3> QED OBVIOUS
  <2>1. PICK i \in 1..Len(s) : i = m + 1 /\ i - 1 = m /\ i \in 0..Len(s) /\ m \in 0..Len(s)
    BY <1>1
  <2>2. f[i] = f[m] \o s[i] /\ f[m] \in Seq(S) /\ s[i] \in Seq(S)
    BY <1>1, <1>2, <2>1
  <2>3. Good(m)
    BY <1>4, <1>1
  <2>4. IF i = k THEN Once(s[i], thing) ELSE Never(s[i], thing)
    OBVIOUS
  <2>5. CASE i = k
    <3>1. Never(f[m], thing) /\ Once(s[i], thing) /\ k <= i
      BY <2>1, <2>3, <2>4, <2>5
    <3>2. Once(f[m] \o s[i], thing)
      BY <2>2, <3>1, OneBehindTheOther
    <3> QED BY <2>1, <2>2, <3>1, <3>2
  <2>6. CASE i # k /\ k <= m
    <3>1. Once(f[m], thing) /\ Never(s[i], thing) /\ k <= i
      BY <2>1, <2>3, <2>4, <2>6
    <3>2. Once(f[m] \o s[i], thing)
      BY <2>2, <3>1, OneBehindTheOther
    <3> QED BY <2>1, <2>2, <3>1, <3>2
  <2>7. CASE i # k /\ ~(k <= m)
    <3>1. Never(f[m], thing) /\ Never(s[i], thing) /\ ~(k <= i)
      BY <2>1, <2>3, <2>4, <2>7
    <3>2. Never(f[m] \o s[i], thing)
      BY <2>2, <3>1, OneBehindTheOther
    <3> QED BY <2>1, <2>2, <3>1, <3>2
  <2> QED BY <2>5, <2>6, <2>7
<1> HIDE DEF T
<1>5. Len(s) \in T
  BY <1>1, <1>3, <1>4, CountingUp
<1>6. Good(Len(s))
  BY <1>1, <1>5 DEF T
<1> QED BY <1>2, <1>6


\* Where an element is drawn: in those above it, up to a panel of its own.
Ends(schema, i) == OfItsOwn(schema[i]) \/ schema[i].Parent \notin 1..(i - 1)
Above(schema, f, i) == {i} \cup (IF Ends(schema, i) THEN {} ELSE f[schema[i].Parent])

LEMMA ChainExists ==
    ASSUME NEW schema, NEW n \in Nat
    PROVE  \E f : \A i \in 1..n : f[i] = Above(schema, f, i)
<1> DEFINE Is(f, m) == \A i \in 1..m : f[i] = Above(schema, f, i)
           T == {m \in Nat : \E f : Is(f, m)}
<1>1. 0 \in T
  <2>1. Is(0, 0)
    OBVIOUS
  <2> QED BY <2>1
<1>2. ASSUME NEW m \in Nat, m \in T PROVE m + 1 \in T
  <2>1. PICK f : Is(f, m)
    BY <1>2
  <2> DEFINE g == [i \in 1..(m + 1) |-> Above(schema, f, i)]
  <2>2. ASSUME NEW i \in 1..(m + 1) PROVE g[i] = Above(schema, g, i)
    <3>1. g[i] = Above(schema, f, i)
      OBVIOUS
    <3>2. ASSUME ~Ends(schema, i) PROVE g[schema[i].Parent] = f[schema[i].Parent]
      <4> DEFINE p == schema[i].Parent
      <4>1. p \in 1..m /\ p \in 1..(m + 1)
        BY <3>2 DEF Ends
      <4> HIDE DEF p
      <4>2. g[p] = Above(schema, f, p)
        BY <4>1
      <4>3. f[p] = Above(schema, f, p)
        BY <2>1, <4>1
      <4> QED BY <4>2, <4>3 DEF p
    <3> HIDE DEF g
    <3> QED BY <3>1, <3>2 DEF Above
  <2>3. Is(g, m + 1)
    BY <2>2
  <2> HIDE DEF Is, g
  <2> QED BY <2>3
<1> HIDE DEF T
<1>3. n \in T
  BY <1>1, <1>2, CountingUp
<1> QED BY <1>3 DEF T

\* In a well-formed schema those are no controls but the first and end in one panel, and of those
\* that have the same parent there is one.
Chained(schema, f, i) ==
    /\ i \in f[i] /\ f[i] \subseteq 1..i
    /\ \A a \in f[i] : a # i => schema[a].Kind # "Control"
    /\ \A a \in f[i] : ~Ends(schema, a) => schema[a].Parent \in f[i]
    /\ \A a \in f[i] : a # i => \E b \in f[i] : ~Ends(schema, b) /\ schema[b].Parent = a
    /\ \A a, b \in f[i] : ~Ends(schema, a) /\ ~Ends(schema, b) /\ schema[a].Parent = schema[b].Parent => a = b
    /\ Panels(schema)[i] \in f[i]
    /\ \A a \in f[i] : IsPanel(schema[a]) <=> a = Panels(schema)[i]

\* Well-formed, there is one chain from each element up to its panel.
LEMMA ChainsAreChained ==
    ASSUME NEW schema, WellFormed(schema), Absent \notin Nat, NEW f,
           \A i \in 1..Len(schema) : f[i] = Above(schema, f, i)
    PROVE  \A i \in 1..Len(schema) : Chained(schema, f, i)
<1>1. /\ schema \in Seq(ToSet(schema)) /\ DOMAIN schema = 1..Len(schema) /\ Len(schema) \in Nat
      /\ \A i \in 1..Len(schema) :
           IF schema[i].Kind = "Surface" THEN schema[i].Parent = Absent
           ELSE schema[i].Parent \in 1..(i - 1) /\ schema[schema[i].Parent].Kind # "Control"
  BY LenProperties DEF WellFormed
<1>2. \A i \in 1..Len(schema) :
        Panels(schema)[i] = IF IsPanel(schema[i]) THEN i
                            ELSE IF schema[i].Parent \in 1..(i - 1) THEN Panels(schema)[schema[i].Parent]
                                  ELSE Absent
  BY <1>1, PanelsAre
<1> DEFINE T == {m \in Nat : \A i \in 1..m : i <= Len(schema) => Chained(schema, f, i)}
<1>3. 0 \in T
  OBVIOUS
<1>4. ASSUME NEW m \in Nat, m \in T PROVE m + 1 \in T
  <2> SUFFICES ASSUME m + 1 <= Len(schema) PROVE Chained(schema, f, m + 1)
    BY <1>4
  <2>1. PICK i \in 1..Len(schema) : i = m + 1 /\ i \in Nat
    BY <1>1
  <2>2. f[i] = Above(schema, f, i)
    OBVIOUS
  <2>3. PICK p : p = schema[i].Parent
    OBVIOUS
  <2>4. CASE Ends(schema, i)
    <3>1. f[i] = {i}
      BY <2>2, <2>4 DEF Above
    <3>2. IsPanel(schema[i])
      <4>1. schema[i].Kind = "Surface" \/ schema[i].Kind = "Section"
        BY <1>1, <2>4 DEF Ends, OfItsOwn
      <4> QED BY <4>1 DEF IsPanel
    <3>3. Panels(schema)[i] = i
      BY <1>2, <3>2
    <3>4. f[i] \subseteq 1..i
      BY <2>1, <3>1
    <3> QED BY <2>1, <2>4, <3>1, <3>2, <3>3, <3>4 DEF Chained
  <2>5. CASE ~Ends(schema, i)
    <3>1. p \in 1..(i - 1) /\ p \in 1..m /\ p \in 1..Len(schema) /\ p <= Len(schema) /\ p < i /\ p \in Nat
      BY <1>1, <2>1, <2>3, <2>5 DEF Ends
    <3>2. Chained(schema, f, p)
      BY <1>4, <3>1
    <3>3. f[i] = {i} \cup f[p]
      BY <2>2, <2>3, <2>5 DEF Above
    <3>4. f[p] \subseteq 1..p /\ p \in f[p] /\ i \notin f[p]
      BY <2>1, <3>1, <3>2 DEF Chained
    <3>5. i \in f[i] /\ f[i] \subseteq 1..i
      BY <2>1, <3>1, <3>3, <3>4
    <3>6. ASSUME NEW a \in f[i], a # i PROVE schema[a].Kind # "Control"
      <4>1. a \in f[p]
        BY <3>3, <3>6
      <4>2. CASE a = p
        <5>1. schema[i].Kind # "Surface"
          <6>1. schema[i].Parent # Absent
            BY <2>3, <3>1
          <6> QED BY <1>1, <6>1
        <5> QED BY <1>1, <2>3, <4>2, <5>1
      <4>3. CASE a # p
        BY <3>2, <4>1, <4>3 DEF Chained
      <4> QED BY <4>2, <4>3
    <3>7. ASSUME NEW a \in f[i], ~Ends(schema, a) PROVE schema[a].Parent \in f[i]
      <4>1. CASE a = i
        BY <2>3, <3>3, <3>4, <4>1
      <4>2. CASE a \in f[p]
        BY <3>2, <3>3, <3>7, <4>2 DEF Chained
      <4> QED BY <3>3, <4>1, <4>2
    <3>8. ASSUME NEW a \in f[i], a # i PROVE \E b \in f[i] : ~Ends(schema, b) /\ schema[b].Parent = a
      <4>1. CASE a = p
        BY <2>3, <2>5, <3>5, <4>1
      <4>2. CASE a # p
        <5>1. a \in f[p]
          BY <3>3, <3>8
        <5>2. PICK b \in f[p] : ~Ends(schema, b) /\ schema[b].Parent = a
          BY <3>2, <4>2, <5>1 DEF Chained
        <5> QED BY <3>3, <5>2
      <4> QED BY <4>1, <4>2
    <3>9. ASSUME NEW a \in f[p], ~Ends(schema, a) PROVE schema[a].Parent # p
      <4>1. a \in 1..p /\ schema[a].Parent \in 1..(a - 1)
        BY <3>4, <3>9 DEF Ends
      <4> QED BY <3>1, <4>1
    <3>10. ASSUME NEW a \in f[i], NEW b \in f[i], ~Ends(schema, a), ~Ends(schema, b),
                  schema[a].Parent = schema[b].Parent
           PROVE  a = b
      <4>1. CASE a \in f[p] /\ b \in f[p]
        BY <3>2, <3>10, <4>1 DEF Chained
      <4>2. CASE a = i /\ b \in f[p]
        BY <2>3, <3>9, <3>10, <4>2
      <4>3. CASE a \in f[p] /\ b = i
        BY <2>3, <3>9, <3>10, <4>3
      <4> QED BY <3>3, <4>1, <4>2, <4>3
    <3>11. ~IsPanel(schema[i])
      <4>1. schema[i].Kind # "Section"
        BY <2>5 DEF Ends, OfItsOwn
      <4>2. schema[i].Kind # "Surface"
        <5>1. schema[i].Parent # Absent
          BY <2>3, <3>1
        <5> QED BY <1>1, <5>1
      <4> QED BY <4>1, <4>2 DEF IsPanel
    <3>12. Panels(schema)[i] = Panels(schema)[p]
      BY <1>2, <2>3, <3>1, <3>11
    <3>13. /\ Panels(schema)[i] \in f[i]
           /\ \A a \in f[i] : IsPanel(schema[a]) <=> a = Panels(schema)[i]
      <4>1. /\ Panels(schema)[p] \in f[p]
            /\ \A a \in f[p] : IsPanel(schema[a]) <=> a = Panels(schema)[p]
        BY <3>2 DEF Chained
      <4> QED BY <3>3, <3>4, <3>11, <3>12, <4>1
    <3>14. Chained(schema, f, i)
      BY <3>5, <3>6, <3>7, <3>8, <3>10, <3>13 DEF Chained
    <3> QED BY <2>1, <3>14
  <2> QED BY <2>4, <2>5
<1> HIDE DEF T
<1>5. Len(schema) \in T
  BY <1>1, <1>3, <1>4, CountingUp
<1> QED BY <1>1, <1>5 DEF T


ControlsOf(schema) == {i \in DOMAIN schema : schema[i].Kind = "Control"}

\* What a child adds to what is drawn below an element.
Piece(schema, below, i, child) ==
    IF child <= i \/ schema[child].Parent # i \/ OfItsOwn(schema[child]) THEN <<>>
    ELSE IF schema[child].Kind = "Control" THEN <<child>> ELSE below[child]
Pieces(schema, below, i) == [child \in DOMAIN schema |-> Piece(schema, below, i, child)]
LEMMA DrawnInPieces == \A schema, below, i : DrawnIn(schema, below, i) = FlattenSeq(Pieces(schema, below, i))
  BY DEF DrawnIn, Pieces, Piece

Draws(schema, below) ==
    \A i \in DOMAIN schema : below[i] \in Seq(ControlsOf(schema)) /\ below[i] = DrawnIn(schema, below, i)

\* What is drawn below an element is of controls if that below its children is.
LEMMA PiecesAre ==
    ASSUME NEW S, NEW schema \in Seq(S), NEW below, NEW i \in DOMAIN schema,
           \A child \in DOMAIN schema : child > i => below[child] \in Seq(ControlsOf(schema))
    PROVE  /\ Pieces(schema, below, i) \in Seq(Seq(ControlsOf(schema)))
           /\ Len(Pieces(schema, below, i)) = Len(schema)
           /\ DrawnIn(schema, below, i) \in Seq(ControlsOf(schema))
<1>1. PICK n \in Nat : n = Len(schema) /\ DOMAIN schema = 1..n
  BY LenProperties
<1>2. ASSUME NEW child \in 1..n PROVE Piece(schema, below, i, child) \in Seq(ControlsOf(schema))
  <2>1. CASE child <= i \/ schema[child].Parent # i \/ OfItsOwn(schema[child])
    <3>1. Piece(schema, below, i, child) = <<>>
      BY <2>1 DEF Piece
    <3> QED BY <3>1
  <2>2. CASE ~(child <= i \/ schema[child].Parent # i \/ OfItsOwn(schema[child]))
             /\ schema[child].Kind = "Control"
    <3>1. Piece(schema, below, i, child) = <<child>> /\ child \in ControlsOf(schema)
      BY <1>1, <2>2 DEF Piece, ControlsOf
    <3> QED BY <3>1
  <2>3. CASE ~(child <= i \/ schema[child].Parent # i \/ OfItsOwn(schema[child]))
             /\ schema[child].Kind # "Control"
    <3>1. Piece(schema, below, i, child) = below[child] /\ child > i
      BY <1>1, <2>3 DEF Piece
    <3> QED BY <1>1, <3>1
  <2> QED BY <2>1, <2>2, <2>3
<1>3. PICK s : s = Pieces(schema, below, i)
  OBVIOUS
<1>4. s \in [1..n -> Seq(ControlsOf(schema))]
  BY <1>1, <1>2, <1>3 DEF Pieces
<1>5. s \in Seq(Seq(ControlsOf(schema))) /\ Len(s) = n
  BY <1>4
<1>6. FlattenSeq(s) \in Seq(ControlsOf(schema))
  <2>1. PICK f : f[Len(s)] = FlattenSeq(s) /\ \A k \in 0..Len(s) : f[k] \in Seq(ControlsOf(schema))
    BY <1>5, FlattenSteps
  <2>2. Len(s) \in 0..Len(s)
    BY <1>5
  <2> QED BY <2>1, <2>2
<1> QED BY <1>1, <1>3, <1>5, <1>6, DrawnInPieces

\* What is below an element is drawn from what is below those after it.
LEMMA DrawnInAgree ==
    ASSUME NEW S, NEW schema \in Seq(S), NEW f, NEW g, NEW i,
           \A child \in DOMAIN schema : child > i => f[child] = g[child], i \in DOMAIN schema
    PROVE  DrawnIn(schema, f, i) = DrawnIn(schema, g, i)
<1>1. DOMAIN schema = 1..Len(schema) /\ Len(schema) \in Nat
  BY LenProperties
<1>2. ASSUME NEW child \in DOMAIN schema PROVE Piece(schema, f, i, child) = Piece(schema, g, i, child)
  <2>1. CASE child <= i
    BY <2>1 DEF Piece
  <2>2. CASE ~(child <= i)
    <3>1. f[child] = g[child]
      BY <1>1, <2>2
    <3> QED BY <3>1 DEF Piece
  <2> QED BY <2>1, <2>2
<1>3. Pieces(schema, f, i) = Pieces(schema, g, i)
  BY <1>2 DEF Pieces
<1> QED BY <1>3, DrawnInPieces

\* What is drawn can be found from the last element to the first.
LEMMA BelowExists ==
    ASSUME NEW S, NEW schema \in Seq(S)
    PROVE  \E below : Draws(schema, below) /\ below = [i \in DOMAIN schema |-> DrawnIn(schema, below, i)]
<1>1. PICK n \in Nat : n = Len(schema) /\ DOMAIN schema = 1..n
  BY LenProperties
<1> DEFINE After(f) == [i \in DOMAIN schema |-> DrawnIn(schema, f, i)]
           Is(f, k) == \A i \in DOMAIN schema : i + k > n =>
                         f[i] \in Seq(ControlsOf(schema)) /\ f[i] = DrawnIn(schema, f, i)
           T == {k \in Nat : \E f : Is(f, k) /\ f = [i \in DOMAIN schema |-> f[i]]}
<1>2. ASSUME NEW f PROVE After(f) = [i \in DOMAIN schema |-> After(f)[i]]
  OBVIOUS
<1>3. ASSUME NEW f, NEW i \in DOMAIN schema PROVE After(f)[i] = DrawnIn(schema, f, i)
  OBVIOUS
<1> HIDE DEF After
<1>4. 0 \in T
  <2> DEFINE f == After(0)
  <2>1. Is(f, 0)
    BY <1>1
  <2>2. f = [i \in DOMAIN schema |-> f[i]]
    BY <1>2
  <2> HIDE DEF f, Is
  <2> QED BY <2>1, <2>2
<1>5. ASSUME NEW k \in Nat, k \in T PROVE k + 1 \in T
  <2>1. PICK f : Is(f, k) /\ f = [i \in DOMAIN schema |-> f[i]]
    BY <1>5
  <2> DEFINE g == After(f)
  <2>2. ASSUME NEW i \in DOMAIN schema, i + (k + 1) > n
        PROVE  g[i] \in Seq(ControlsOf(schema)) /\ g[i] = DrawnIn(schema, g, i)
    <3>1. ASSUME NEW child \in DOMAIN schema, child > i
          PROVE  f[child] \in Seq(ControlsOf(schema)) /\ f[child] = g[child]
      <4>1. child + k > n
        BY <1>1, <2>2, <3>1
      <4> QED BY <1>3, <2>1, <4>1
    <3>2. g[i] = DrawnIn(schema, f, i)
      BY <1>3
    <3> HIDE DEF g
    <3>3. DrawnIn(schema, f, i) \in Seq(ControlsOf(schema))
      BY <3>1, PiecesAre
    <3>4. DrawnIn(schema, f, i) = DrawnIn(schema, g, i)
      BY <3>1, DrawnInAgree
    <3> QED BY <3>2, <3>3, <3>4
  <2>3. Is(g, k + 1)
    BY <2>2
  <2>4. g = [i \in DOMAIN schema |-> g[i]]
    BY <1>2
  <2> HIDE DEF g, Is
  <2> QED BY <2>3, <2>4
<1> HIDE DEF T
<1>6. n \in T
  BY <1>4, <1>5, CountingUp
<1>7. PICK f : Is(f, n) /\ f = [i \in DOMAIN schema |-> f[i]]
  BY <1>6 DEF T
<1>8. \A i \in DOMAIN schema : f[i] \in Seq(ControlsOf(schema)) /\ f[i] = DrawnIn(schema, f, i)
  BY <1>1, <1>7
<1>9. f = [i \in DOMAIN schema |-> DrawnIn(schema, f, i)]
  BY <1>7, <1>8
<1> QED BY <1>8, <1>9 DEF Draws

\* And so Drawn finds it.
LEMMA DrawnDraws ==
    ASSUME NEW S, NEW schema \in Seq(S)
    PROVE  Draws(schema, Drawn(schema))
<1> DEFINE Is(f) == f = [i \in DOMAIN schema |-> DrawnIn(schema, f, i)]
           below == CHOOSE f : Is(f)
<1>1. Drawn(schema) = below
  BY DEF Drawn
<1>2. PICK f : Is(f)
  BY BelowExists
<1>3. Is(below)
  <2> HIDE DEF Is
  <2> QED BY <1>2
<1> HIDE DEF below
<1>4. \A i \in DOMAIN schema : below[i] = DrawnIn(schema, below, i)
  BY <1>3
<1>5. PICK n \in Nat : n = Len(schema) /\ DOMAIN schema = 1..n
  BY LenProperties
<1> DEFINE T == {k \in Nat : \A i \in DOMAIN schema : i + k > n => below[i] \in Seq(ControlsOf(schema))}
<1>6. 0 \in T
  BY <1>5
<1>7. ASSUME NEW k \in Nat, k \in T PROVE k + 1 \in T
  <2>1. ASSUME NEW i \in DOMAIN schema, i + (k + 1) > n PROVE below[i] \in Seq(ControlsOf(schema))
    <3>1. \A child \in DOMAIN schema : child > i => child + k > n
      BY <1>5, <2>1
    <3>2. \A child \in DOMAIN schema : child > i => below[child] \in Seq(ControlsOf(schema))
      BY <1>7, <3>1
    <3>3. DrawnIn(schema, below, i) \in Seq(ControlsOf(schema))
      BY <3>2, PiecesAre
    <3> QED BY <1>4, <3>3
  <2> QED BY <2>1
<1> HIDE DEF T
<1>8. n \in T
  BY <1>6, <1>7, CountingUp
<1>9. \A i \in DOMAIN schema : below[i] \in Seq(ControlsOf(schema))
  BY <1>5, <1>8 DEF T
<1> QED BY <1>1, <1>4, <1>9 DEF Draws

\* A control is drawn in those above it, once, and in nothing else.
LEMMA DrawnAbove ==
    ASSUME NEW schema, WellFormed(schema), Absent \notin Nat, NEW f,
           \A i \in 1..Len(schema) : f[i] = Above(schema, f, i), NEW control \in ControlsOf(schema)
    PROVE  \A i \in DOMAIN schema :
             IF i \in f[control] /\ i # control THEN Once(Drawn(schema)[i], control)
             ELSE Never(Drawn(schema)[i], control)
<1>1. schema \in Seq(ToSet(schema)) /\ control \in DOMAIN schema /\ schema[control].Kind = "Control"
  BY DEF WellFormed, ControlsOf
<1>2. PICK n \in Nat : n = Len(schema) /\ DOMAIN schema = 1..n
  BY <1>1, LenProperties
<1>3. Chained(schema, f, control)
  BY <1>1, <1>2, ChainsAreChained
<1>4. PICK below : below = Drawn(schema)
  OBVIOUS
<1>5. \A i \in DOMAIN schema : below[i] \in Seq(ControlsOf(schema)) /\ below[i] = DrawnIn(schema, below, i)
  BY <1>1, <1>4, DrawnDraws DEF Draws
<1>6. \A a \in f[control] : a \in 1..control /\ a \in DOMAIN schema
  BY <1>1, <1>2, <1>3 DEF Chained
<1> DEFINE Good(i) == IF i \in f[control] /\ i # control THEN Once(below[i], control)
                   ELSE Never(below[i], control)
           T == {k \in Nat : \A i \in DOMAIN schema : i + k > n => Good(i)}
<1>7. 0 \in T
  BY <1>2
<1>8. ASSUME NEW k \in Nat, k \in T PROVE k + 1 \in T
  <2>1. ASSUME NEW i \in DOMAIN schema, i + (k + 1) > n PROVE Good(i)
    <3>1. ASSUME NEW child \in DOMAIN schema, child > i PROVE Good(child)
      <4>1. child + k > n
        BY <1>2, <2>1, <3>1
      <4> QED BY <1>8, <4>1
    <3> DEFINE Carries(child) == child \in f[control] /\ ~Ends(schema, child) /\ schema[child].Parent = i
    <3>2. ASSUME NEW child \in DOMAIN schema
          PROVE  IF Carries(child) THEN Once(Piece(schema, below, i, child), control)
                 ELSE Never(Piece(schema, below, i, child), control)
      <4>1. CASE child <= i \/ schema[child].Parent # i \/ OfItsOwn(schema[child])
        <5>1. Piece(schema, below, i, child) = <<>>
          BY <4>1 DEF Piece
        <5>2. Never(<<>>, control)
          BY DEF Never
        <5>3. ~Carries(child)
          BY <1>2, <4>1 DEF Ends
        <5> QED BY <5>1, <5>2, <5>3
      <4>2. CASE ~(child <= i \/ schema[child].Parent # i \/ OfItsOwn(schema[child]))
        <5>1. /\ child > i /\ schema[child].Parent = i /\ ~Ends(schema, child)
              /\ (Carries(child) <=> child \in f[control])
          BY <1>2, <4>2 DEF Ends
        <5>2. CASE schema[child].Kind = "Control"
          <6>1. Piece(schema, below, i, child) = <<child>>
            BY <4>2, <5>2 DEF Piece
          <6>2. child \in f[control] <=> child = control
            BY <1>3, <5>2 DEF Chained
          <6>3. IF child = control THEN Once(<<child>>, control) ELSE Never(<<child>>, control)
            BY DEF Once, Never
          <6> QED BY <5>1, <6>1, <6>2, <6>3
        <5>3. CASE schema[child].Kind # "Control"
          <6>1. Piece(schema, below, i, child) = below[child]
            BY <4>2, <5>3 DEF Piece
          <6>2. child # control
            BY <1>1, <5>3
          <6> QED BY <3>1, <5>1, <6>1, <6>2
        <5> QED BY <5>2, <5>3
      <4> QED BY <4>1, <4>2
    <3>3. PICK s : s = Pieces(schema, below, i)
      OBVIOUS
    <3>4. s \in Seq(Seq(ControlsOf(schema))) /\ Len(s) = n /\ below[i] = FlattenSeq(s)
      BY <1>1, <1>2, <1>5, <3>3, PiecesAre, DrawnInPieces
    <3>5. \A child \in 1..n : s[child] = Piece(schema, below, i, child)
      BY <1>2, <3>3 DEF Pieces
    <3>6. CASE i \in f[control] /\ i # control
      <4>1. PICK only \in f[control] : ~Ends(schema, only) /\ schema[only].Parent = i
        BY <1>3, <3>6 DEF Chained
      <4>2. \A child \in DOMAIN schema : Carries(child) <=> child = only
        BY <1>3, <1>6, <4>1 DEF Chained
      <4>3. only \in Nat \ {0} /\ only <= Len(s)
        BY <1>2, <1>6, <3>4
      <4>4. \A child \in 1..Len(s) : IF child = only THEN Once(s[child], control) ELSE Never(s[child], control)
        BY <1>2, <3>2, <3>4, <3>5, <4>2
      <4>5. Once(FlattenSeq(s), control)
        BY <3>4, <4>3, <4>4, OneOfThePieces
      <4> QED BY <3>4, <3>6, <4>5
    <3>7. CASE ~(i \in f[control] /\ i # control)
      <4>1. \A child \in DOMAIN schema : ~Carries(child)
        <5> SUFFICES ASSUME NEW child \in DOMAIN schema, Carries(child) PROVE FALSE
          OBVIOUS
        <5>1. i \in f[control] /\ i \in 1..(child - 1) /\ child \in 1..control
          BY <1>3, <1>6 DEF Chained, Ends
        <5> QED BY <1>2, <3>7, <5>1
      <4>2. n + 1 \in Nat \ {0} /\ ~(n + 1 <= Len(s)) /\ \A child \in 1..Len(s) : child # n + 1
        BY <1>2, <3>4
      <4>3. \A child \in 1..Len(s) : IF child = n + 1 THEN Once(s[child], control) ELSE Never(s[child], control)
        BY <1>2, <3>2, <3>4, <3>5, <4>1, <4>2
      <4>4. Never(FlattenSeq(s), control)
        BY <3>4, <4>2, <4>3, OneOfThePieces
      <4> QED BY <3>4, <3>7, <4>4
    <3> QED BY <3>6, <3>7
  <2> HIDE DEF Good
  <2> QED BY <2>1
<1> HIDE DEF T
<1>9. n \in T
  BY <1>7, <1>8, CountingUp
<1>10. \A i \in DOMAIN schema : Good(i)
  BY <1>2, <1>9 DEF T
<1> QED BY <1>4, <1>10

\* Of the panels, each control is drawn in the one it belongs to, once.
LEMMA DrawnInItsPanel ==
    ASSUME NEW schema, WellFormed(schema), Absent \notin Nat
    PROVE  /\ \A i \in DOMAIN schema : Drawn(schema)[i] \in Seq(ControlsOf(schema))
           /\ \A control \in ControlsOf(schema) :
                /\ Panels(schema)[control] \in DOMAIN schema /\ IsPanel(schema[Panels(schema)[control]])
                /\ \A i \in DOMAIN schema : IsPanel(schema[i]) =>
                     IF i = Panels(schema)[control] THEN Once(Drawn(schema)[i], control)
                     ELSE Never(Drawn(schema)[i], control)
<1>1. schema \in Seq(ToSet(schema))
  BY DEF WellFormed
<1>2. PICK n \in Nat : n = Len(schema) /\ DOMAIN schema = 1..n
  BY <1>1, LenProperties
<1>3. PICK f : \A i \in 1..Len(schema) : f[i] = Above(schema, f, i)
  BY <1>2, ChainExists
<1>4. ASSUME NEW control \in ControlsOf(schema)
      PROVE  /\ Panels(schema)[control] \in DOMAIN schema /\ IsPanel(schema[Panels(schema)[control]])
             /\ \A i \in DOMAIN schema : IsPanel(schema[i]) =>
                  IF i = Panels(schema)[control] THEN Once(Drawn(schema)[i], control)
                  ELSE Never(Drawn(schema)[i], control)
  <2>1. control \in 1..n /\ schema[control].Kind = "Control"
    BY <1>2 DEF ControlsOf
  <2>2. Chained(schema, f, control)
    BY <1>2, <1>3, <2>1, ChainsAreChained
  <2>3. PICK panel : panel = Panels(schema)[control]
    OBVIOUS
  <2>4. panel \in f[control] /\ panel \in 1..control /\ \A a \in f[control] : IsPanel(schema[a]) <=> a = panel
    BY <2>2, <2>3 DEF Chained
  <2>5. panel \in DOMAIN schema /\ IsPanel(schema[panel])
    BY <1>2, <2>1, <2>4
  <2>6. ~IsPanel(schema[control])
    BY <2>1 DEF IsPanel
  <2>7. \A i \in DOMAIN schema :
          IF i \in f[control] /\ i # control THEN Once(Drawn(schema)[i], control)
          ELSE Never(Drawn(schema)[i], control)
    BY <1>3, DrawnAbove
  <2>8. \A i \in DOMAIN schema : IsPanel(schema[i]) => (i \in f[control] /\ i # control <=> i = panel)
    BY <2>4, <2>5, <2>6
  <2> QED BY <2>3, <2>5, <2>7, <2>8
<1>5. \A i \in DOMAIN schema : Drawn(schema)[i] \in Seq(ControlsOf(schema))
  BY <1>1, DrawnDraws DEF Draws
<1> QED BY <1>4, <1>5

-----------------------------------------------------------------------------
(* The classes while they are registered.                                    *)

\* While register is under way Blender has none of them before it is given the first, and what
\* it is still to be given can be taken one after the other.
Making == {"open", "synchronize", "hydra", "lend", "describe"}
Accepting ==
    ~spoiled =>
        /\ step \in Making => classes = {}
        /\ step = "classes" => InOrder(Names, coming) /\ \E C : coming \in Seq(C)

\* What was spoiled stays so.
LEMMA SpoiledForGood ==
    ASSUME [Next]_vars, spoiled
    PROVE  spoiled'
  <1>1. CASE UNCHANGED vars
    BY <1>1, Zenon DEF vars, histories
  <1>2. CASE Register \/ Lend \/ MakeClasses \/ RegisterClass \/ StartWatching \/ Unregister
    BY <1>2, Zenon DEF Register, Lend, MakeClasses, RegisterClass, StartWatching, Unregister, histories
  <1>3. CASE OpenEngine
    BY <1>3, Zenon DEF OpenEngine
  <1>4. CASE SynchronizeScene \/ RegisterHydra
    BY <1>4, Zenon DEF SynchronizeScene, RegisterHydra
  <1>5. CASE DropClass \/ DropHydra
    BY <1>5, Zenon DEF DropClass, DropHydra, Abandons
  <1>6. CASE StopWatching \/ LetGoOfLink \/ TakeBack \/ ShutDown \/ End
    BY <1>6, Zenon DEF StopWatching, LetGoOfLink, TakeBack, ShutDown, End, histories
  <1>7. CASE Press \/ EngineRevises \/ OpensFile
    BY <1>7, Zenon DEF Press, EngineRevises, OpensFile, histories
  <1> QED BY <1>1, <1>2, <1>3, <1>4, <1>5, <1>6, <1>7, Zenon DEF Next, Enabling, Undoing

\* Nothing a step does changes what is to come but MakeClasses and RegisterClass.
LEMMA OthersComeToNone ==
    ASSUME [Next]_vars, ~MakeClasses, ~RegisterClass
    PROVE  /\ UNCHANGED coming
           /\ step' = "classes" => UNCHANGED <<step, classes>>
  <1>1. CASE UNCHANGED vars
    BY <1>1 DEF vars, lifeVars, uiVars, classVars
  <1>2. CASE Register
    BY <1>2 DEF Register, uiVars, classVars
  <1>3. CASE OpenEngine
    BY <1>3 DEF OpenEngine, Refused, uiVars, classVars
  <1>4. CASE SynchronizeScene \/ Lend \/ StartWatching
    BY <1>4 DEF SynchronizeScene, Lend, StartWatching, Unwinds, uiVars, classVars
  <1>5. CASE RegisterHydra
    BY <1>5 DEF RegisterHydra, Unwinds, classVars
  <1>6. CASE Unregister
    BY <1>6 DEF Unregister, classVars
  <1>7. CASE DropClass
    BY <1>7 DEF DropClass, Abandons
  <1>8. CASE DropHydra
    BY <1>8 DEF DropHydra, Abandons, classVars
  <1>9. CASE StopWatching \/ LetGoOfLink \/ TakeBack
    BY <1>9 DEF StopWatching, LetGoOfLink, LetGo, TakeBack, classVars
  <1>10. CASE ShutDown \/ End
    BY <1>10 DEF ShutDown, End, uiVars, classVars
  <1>11. CASE Press \/ EngineRevises \/ OpensFile
    BY <1>11 DEF Press, EngineRevises, OpensFile, lifeVars, uiVars, classVars
  <1> QED BY <1>1, <1>2, <1>3, <1>4, <1>5, <1>6, <1>7, <1>8, <1>9, <1>10, <1>11
          DEF Next, Enabling, Undoing

\* The steps before the first class come one after the other, from an add-on that is off.
LEMMA OthersMakeNone ==
    ASSUME [Next]_vars, step' \in Making
    PROVE  /\ UNCHANGED classes
           /\ step \in Making \/ (step = "idle" /\ ~enabled)
  <1>1. CASE UNCHANGED vars
    BY <1>1 DEF vars, lifeVars, uiVars, classVars
  <1>2. CASE Register
    BY <1>2 DEF Register, uiVars, classVars
  <1>3. CASE OpenEngine
    BY <1>3 DEF OpenEngine, Making, Refused, uiVars, classVars
  <1>4. CASE SynchronizeScene \/ RegisterHydra \/ Lend
    BY <1>4 DEF SynchronizeScene, RegisterHydra, Lend, Unwinds, Making, uiVars, classVars
  <1>5. CASE MakeClasses \/ RegisterClass \/ StartWatching
    BY <1>5 DEF MakeClasses, RegisterClass, StartWatching, Unwinds, Making
  <1>6. CASE Unregister
    BY <1>6 DEF Unregister, Making, classVars
  <1>7. CASE Undoing
    BY <1>7 DEF Undoing, StopWatching, DropClass, LetGoOfLink, DropHydra, TakeBack, ShutDown, End,
                Abandons, LetGo, Making
  <1>8. CASE Press \/ EngineRevises \/ OpensFile
    BY <1>8 DEF Press, EngineRevises, OpensFile, lifeVars, uiVars, classVars, Making
  <1> QED BY <1>1, <1>2, <1>3, <1>4, <1>5, <1>6, <1>7, <1>8 DEF Next, Enabling

\* What the add-on makes of an answer is what the engine meant by it.
LEMMA MeantIsDescribed ==
    ASSUME NEW description \in Descriptions, description.succeeds
    PROVE  \/ description.meant = Absent /\ Describe(description.data) = ValueError
           \/ /\ WellFormed(description.meant) /\ description.meant \notin {Absent, ValueError}
              /\ Describe(description.data) = description.meant
<1>1. CASE description.meant = Absent /\ Describe(description.data) = ValueError
  BY <1>1
<1>2. CASE /\ WellFormed(description.meant) /\ description.data = EncodedSchema(description.meant)
           /\ description.meant \notin {Absent, ValueError} /\ [Elements |-> description.meant] # ValueError
  <2>1. Decode(description.data) = [Elements |-> description.meant]
    BY <1>2, EncodedIsDecoded
  <2>2. PICK schema : schema = description.meant
    OBVIOUS
  <2>3. Describe(description.data) = schema
    <3>1. Decode(description.data) = [Elements |-> schema] /\ [Elements |-> schema] # ValueError
      BY <1>2, <2>1, <2>2
    <3>2. [Elements |-> schema].Elements = schema
      OBVIOUS
    <3> QED BY <3>1, <3>2 DEF Describe
  <2> QED BY <1>2, <2>2, <2>3
<1> QED BY <1>1, <1>2, ExtensionAssumption

\* Blender can take what is to come, at every step.
LEMMA AcceptingHolds == Tidy /\ Accepting /\ [Next]_vars => Accepting'
  <1> SUFFICES ASSUME Tidy, Accepting, [Next]_vars, ~spoiled' PROVE Accepting'
    BY DEF Accepting
  <1>1. CASE MakeClasses
    <2>1. step = "describe" /\ UNCHANGED <<classes, spoiled>> /\ step' \in {"classes", "stop watching"}
      BY <1>1 DEF MakeClasses, Unwinds, histories
    <2>2. classes' = {}
      BY <2>1 DEF Accepting, Making
    <2>3. Names' = {}
      BY <2>2 DEF Names
    <2>4. PICK description \in Descriptions :
            LET schema == Describe(description.data) IN
            \/ step' = "classes" /\ coming' = Ordered(<<>>)
            \/ step' = "stop watching"
            \/ /\ step' = "classes" /\ coming' = Ordered(Project(schema))
               /\ description.succeeds /\ schema # ValueError
      BY <1>1 DEF MakeClasses, Unwinds
    <2>5. PICK schema : schema = Describe(description.data)
      OBVIOUS
    <2>6. description.succeeds /\ schema # ValueError => schema \in Seq(ToSet(schema))
      BY <2>5, MeantIsDescribed DEF WellFormed
    <2>7. step' = "classes" => InOrder({}, coming') /\ \E C : coming' \in Seq(C)
      BY <2>4, <2>5, <2>6, WrittenInOrder, ProjectInOrder
    <2> QED BY <2>1, <2>2, <2>3, <2>7 DEF Accepting, Making
  <1>2. CASE RegisterClass
    <2>1. step = "classes" /\ UNCHANGED spoiled /\ step' \in {"classes", "watch", "stop watching"}
      BY <1>2 DEF RegisterClass, Unwinds, histories
    <2>2. CASE step' = "classes"
      <3>1. coming # <<>> /\ classes' = classes \cup {Head(coming)} /\ coming' = Tail(coming)
        BY <1>2, <2>2 DEF RegisterClass, Unwinds
      <3>2. Names' = Names \cup {Head(coming).name}
        BY <3>1 DEF Names
      <3>3. PICK C : coming \in Seq(C)
        BY <2>1 DEF Accepting
      <3>4. InOrder(Names', coming') /\ coming' \in Seq(C)
        BY <2>1, <3>1, <3>2, <3>3, TakeOne DEF Accepting
      <3> QED BY <2>2, <3>4 DEF Accepting, Making
    <2>3. CASE step' # "classes"
      BY <2>1, <2>3 DEF Accepting, Making
    <2> QED BY <2>2, <2>3
  <1>3. CASE ~MakeClasses /\ ~RegisterClass
    <2>1. UNCHANGED coming /\ ~spoiled /\ (step' = "classes" => UNCHANGED <<step, classes>>)
      BY <1>3, OthersComeToNone, SpoiledForGood
    <2>2. step' \in Making => classes' = {}
      BY <2>1, OthersMakeNone DEF Accepting, Tidy
    <2>3. step' = "classes" => InOrder(Names', coming') /\ \E C : coming' \in Seq(C)
      BY <2>1 DEF Accepting, Names
    <2> QED BY <2>2, <2>3 DEF Accepting
  <1> QED BY <1>1, <1>2, <1>3
-----------------------------------------------------------------------------
(* The UI that is shown.                                                     *)

\* Of what is registered so far each class has its parent before it.  Once the list was made, what is
\* registered and what is to come are the whole of it, and the projection is that of the schema
\* the engine meant; until then describe can be called.
Describing == {"synchronize", "hydra", "lend", "describe"}
AllOf(schema) == IF schema = Absent THEN Ordered(<<>>) ELSE Ordered(Project(schema))
IsShown(schema, list) ==
    /\ IF schema = Absent THEN projection = Absent ELSE WellFormed(schema) /\ projection = Projection(schema)
    /\ list = AllOf(schema)
InShown == step \in {"classes", "watch"} \/ (step = "idle" /\ enabled)
Showing ==
    ~spoiled =>
        /\ InOrder({}, listed)
        /\ InShown => IsShown(meant, listed \o (IF step = "classes" THEN coming ELSE <<>>))
Answering == step \in Describing => Serves("UiSchema", "describe")

\* Until the list of classes is made, the engine can be asked for the UI it describes.
LEMMA AnsweringHolds == Answering /\ [Next]_vars => Answering'
  <1> SUFFICES ASSUME Answering, [Next]_vars, step' \in Describing PROVE Serves("UiSchema", "describe")'
    BY DEF Answering
  <1>1. CASE OpenEngine
    <2>1. PICK library \in Libraries :
            (OpenRefused(library) /\ Refused) \/ (WrapperRaises(library) /\ Refused) \/ Opened(library)
      BY <1>1 DEF OpenEngine
    <2>2. ~Refused
      BY DEF Refused, Describing
    <2>3. interfaces' = [attribute \in DOMAIN Tables |-> EntryPoints(attribute)]
      BY <2>1, <2>2 DEF Opened
    <2> QED BY <2>3, ExtensionAssumption DEF Serves
  <1>2. CASE ShutDown
    BY <1>2 DEF ShutDown, Describing
  <1>3. CASE ~OpenEngine /\ ~ShutDown
    <2>1. UNCHANGED interfaces
      BY <1>3, OthersKeepTheBridge DEF bridgeVars
    <2>2. step \in Describing
      <3>1. CASE UNCHANGED vars
        BY <3>1 DEF vars, lifeVars
      <3>2. CASE Register \/ SynchronizeScene \/ RegisterHydra \/ Lend
        BY <3>2 DEF Register, SynchronizeScene, RegisterHydra, Lend, Unwinds, Describing
      <3>3. CASE MakeClasses \/ RegisterClass \/ StartWatching
        BY <3>3 DEF MakeClasses, RegisterClass, StartWatching, Unwinds, classVars, Describing
      <3>4. CASE Unregister
        BY <3>4 DEF Unregister, Describing
      <3>5. CASE Undoing
        BY <3>5 DEF Undoing, StopWatching, DropClass, LetGoOfLink, DropHydra, TakeBack, ShutDown, End,
                    Abandons, LetGo, Describing
      <3>6. CASE Press \/ EngineRevises \/ OpensFile
        BY <3>6 DEF Press, EngineRevises, OpensFile, lifeVars, Describing
      <3> QED BY <1>3, <3>1, <3>2, <3>3, <3>4, <3>5, <3>6 DEF Next, Enabling
    <2> QED BY <2>1, <2>2 DEF Answering, Serves
  <1> QED BY <1>1, <1>2, <1>3

\* Nothing else makes or changes what is shown.
LEMMA OthersShow ==
    ASSUME Alive, [Next]_vars, ~MakeClasses, ~RegisterClass, ~spoiled', InShown'
    PROVE  /\ InShown /\ UNCHANGED <<projection, meant, coming, listed>>
           /\ step' = "classes" <=> step = "classes"
  <1> USE DEF InShown, uiVars, classVars, shownVars
  <1>1. CASE UNCHANGED vars
    BY <1>1 DEF vars, lifeVars
  <1>2. CASE Register
    BY <1>2 DEF Register
  <1>3. CASE OpenEngine
    <2>1. enabled' = FALSE /\ step' \in {"idle", "synchronize"}
      BY <1>3 DEF OpenEngine, Refused, Alive, Rising
    <2> QED BY <2>1
  <1>4. CASE SynchronizeScene \/ RegisterHydra \/ Lend
    BY <1>4 DEF SynchronizeScene, RegisterHydra, Lend, Unwinds
  <1>5. CASE StartWatching
    BY <1>5 DEF StartWatching, Unwinds
  <1>6. CASE Unregister
    BY <1>6 DEF Unregister
  <1>7. CASE DropClass \/ DropHydra
    <2>1. ~Abandons("let go") /\ ~Abandons("end")
      BY DEF Abandons
    <2>2. step' \in {"drop classes", "let go", "take back"}
      BY <1>7, <2>1 DEF DropClass, DropHydra
    <2> QED BY <2>2
  <1>8. CASE StopWatching \/ LetGoOfLink \/ TakeBack \/ ShutDown \/ End
    BY <1>8 DEF StopWatching, LetGoOfLink, LetGo, TakeBack, ShutDown, End
  <1>9. CASE Press \/ EngineRevises \/ OpensFile
    BY <1>9 DEF Press, EngineRevises, OpensFile, lifeVars
  <1> QED BY <1>1, <1>2, <1>3, <1>4, <1>5, <1>6, <1>7, <1>8, <1>9 DEF Next, Enabling, Undoing

\* What is taken off the end of a list leaves the rest as it was.
LEMMA RemoveLastInOrder ==
    ASSUME NEW S, NEW list \in Seq(S), list # <<>>, InOrder({}, list)
    PROVE  InOrder({}, RemoveAt(list, Len(list)))
<1>1. Len(list) \in Nat \ {0} /\ DOMAIN list = 1..Len(list)
  BY LenProperties, EmptySeq
<1>2. PICK shorter : shorter = RemoveAt(list, Len(list))
  OBVIOUS
<1>3. shorter = [i \in 1..(Len(list) - 1) |-> list[i]]
  BY <1>1, <1>2 DEF RemoveAt
<1>4. DOMAIN shorter = 1..(Len(list) - 1) /\ \A i \in 1..(Len(list) - 1) : shorter[i] = list[i]
  BY <1>3
<1>5. ASSUME NEW i \in DOMAIN shorter
      PROVE  /\ shorter[i].name \notin {shorter[j].name : j \in 1..(i - 1)}
             /\ shorter[i].parent \in {shorter[j].name : j \in 1..(i - 1)} \cup {Absent}
  <2>1. i \in 1..(Len(list) - 1) /\ i \in DOMAIN list /\ shorter[i] = list[i]
    BY <1>1, <1>4
  <2>2. \A j \in 1..(i - 1) : shorter[j] = list[j]
    BY <1>1, <1>4, <2>1
  <2>3. {shorter[j].name : j \in 1..(i - 1)} = {list[j].name : j \in 1..(i - 1)}
    BY <2>2
  <2> QED BY <2>1, <2>3 DEF InOrder
<1>6. InOrder({}, shorter)
  BY <1>5 DEF InOrder
<1> QED BY <1>2, <1>6

\* The first of a sequence moved to the end of the one before it changes nothing of the two.
LEMMA MoveOne ==
    ASSUME NEW S, NEW before \in Seq(S), NEW after \in Seq(S), after # <<>>
    PROVE  Append(before, Head(after)) \o Tail(after) = before \o after
<1>1. PICK head \in S : head = Head(after)
  BY HeadTailProperties
<1>2. PICK tail \in Seq(S) : tail = Tail(after)
  BY HeadTailProperties
<1>3. PICK m \in Nat : m = Len(before)
  BY LenProperties
<1>4. PICK n \in Nat : n = Len(after)
  BY LenProperties
<1>5. n > 0 /\ after[1] = head
  BY <1>1, <1>4, EmptySeq
<1>6. Len(tail) = n - 1 /\ \A i \in 1..(n - 1) : tail[i] = after[i + 1]
  BY <1>2, <1>4, HeadTailProperties
<1>7. PICK longer \in Seq(S) : longer = Append(before, head)
  BY AppendProperties
<1>8. Len(longer) = m + 1 /\ longer[m + 1] = head /\ \A i \in 1..m : longer[i] = before[i]
  BY <1>3, <1>7, AppendProperties
<1>9. PICK left \in Seq(S) : left = longer \o tail
  BY ConcatProperties
<1>10. PICK right \in Seq(S) : right = before \o after
  BY ConcatProperties
<1>11. /\ Len(left) = Len(longer) + Len(tail)
       /\ \A i \in 1..(Len(longer) + Len(tail)) :
             left[i] = IF i <= Len(longer) THEN longer[i] ELSE tail[i - Len(longer)]
  BY <1>9, ConcatProperties
<1>12. /\ Len(right) = Len(before) + Len(after)
       /\ \A i \in 1..(Len(before) + Len(after)) :
             right[i] = IF i <= Len(before) THEN before[i] ELSE after[i - Len(before)]
  BY <1>10, ConcatProperties
<1>13. /\ Len(left) = m + n
       /\ \A i \in 1..(m + n) : left[i] = IF i <= m + 1 THEN longer[i] ELSE tail[i - (m + 1)]
  BY <1>5, <1>6, <1>8, <1>11
<1>14. /\ Len(right) = m + n
       /\ \A i \in 1..(m + n) : right[i] = IF i <= m THEN before[i] ELSE after[i - m]
  BY <1>3, <1>4, <1>12
<1>15. ASSUME NEW i \in 1..(m + n) PROVE left[i] = right[i]
  <2>1. CASE i <= m
    BY <1>8, <1>13, <1>14, <2>1
  <2>2. CASE i = m + 1
    BY <1>5, <1>8, <1>13, <1>14, <2>2
  <2>3. CASE i > m + 1
    <3>1. left[i] = tail[i - (m + 1)] /\ right[i] = after[i - m]
      BY <1>13, <1>14, <2>3
    <3>2. PICK k \in 1..(n - 1) : k = i - (m + 1)
      BY <2>3
    <3>3. k + 1 = i - m
      BY <3>2
    <3> QED BY <1>6, <3>1, <3>2, <3>3
  <2> QED BY <2>1, <2>2, <2>3
<1>16. left = right
  BY <1>13, <1>14, <1>15, SeqEqual
<1> QED BY <1>1, <1>2, <1>7, <1>9, <1>10, <1>16

\* No step shows anything else than the engine described.
LEMMA ShowingHolds == Alive /\ Tidy /\ Accepting /\ Answering /\ Showing /\ [Next]_vars => Showing'
  <1> SUFFICES ASSUME Alive, Tidy, Accepting, Answering, Showing, [Next]_vars, ~spoiled' PROVE Showing'
    BY DEF Showing
  <1>0. ~spoiled
    BY SpoiledForGood
  <1>1. CASE MakeClasses
    <2>1. step = "describe" /\ UNCHANGED <<listed, classes>> /\ step' \in {"classes", "stop watching"}
      BY <1>1 DEF MakeClasses, Unwinds
    <2>2. listed = <<>>
      BY <1>0, <2>1, EmptyLists DEF Tidy, Accepting, Making
    <2>3. InOrder({}, listed')
      BY <1>0, <2>1 DEF Showing
    <2>4. PICK description \in Descriptions :
            LET schema == Describe(description.data) IN
            /\ meant' = IF description.succeeds THEN description.meant ELSE Absent
            /\ \/ ~description.succeeds /\ projection' = Absent /\ coming' = Ordered(<<>>)
               \/ step' = "stop watching"
               \/ /\ description.succeeds /\ schema # ValueError
                  /\ projection' = Projection(schema) /\ coming' = Ordered(Project(schema))
      BY <1>1, <2>1 DEF MakeClasses, Unwinds, Answering, Describing
    <2>5. PICK schema : schema = Describe(description.data)
      OBVIOUS
    <2>6. CASE step' = "classes"
      <3>1. CASE ~description.succeeds /\ projection' = Absent /\ coming' = Ordered(<<>>)
        <4>1. meant' = Absent /\ coming' = AllOf(meant')
          BY <2>4, <3>1 DEF AllOf
        <4>2. \E C : coming' \in Seq(C)
          BY <3>1, WrittenInOrder
        <4>3. listed' \o coming' = coming'
          BY <2>1, <2>2, <4>2, ConcatEmptySeq
        <4> QED BY <2>3, <2>6, <3>1, <4>1, <4>3 DEF Showing, IsShown
      <3>2. CASE /\ description.succeeds /\ schema # ValueError
                 /\ projection' = Projection(schema) /\ coming' = Ordered(Project(schema))
        <4>1. WellFormed(schema) /\ schema # Absent /\ meant' = schema
          BY <2>4, <2>5, <3>2, MeantIsDescribed
        <4>2. coming' = AllOf(meant')
          BY <3>2, <4>1 DEF AllOf
        <4>3. \E C : coming' \in Seq(C)
          BY <3>2, <4>1, ProjectInOrder DEF WellFormed
        <4>4. listed' \o coming' = coming'
          BY <2>1, <2>2, <4>3, ConcatEmptySeq
        <4> QED BY <2>3, <2>6, <3>2, <4>1, <4>2, <4>4 DEF Showing, IsShown
      <3> QED BY <2>4, <2>5, <2>6, <3>1, <3>2
    <2>7. CASE step' = "stop watching"
      BY <2>3, <2>7 DEF Showing, InShown
    <2> QED BY <2>1, <2>6, <2>7
  <1>2. CASE RegisterClass
    <2>1. step = "classes" /\ UNCHANGED <<enabled, projection, meant>>
      BY <1>2 DEF RegisterClass, shownVars
    <2>2. IsShown(meant, listed \o coming) /\ InOrder({}, listed)
      BY <1>0, <2>1 DEF Showing, InShown
    <2>3. PICK C : coming \in Seq(C)
      BY <1>0, <2>1 DEF Accepting
    <2>4. Lists(listed, classes)
      BY <1>0 DEF Tidy
    <2>5. CASE step' = "stop watching" /\ UNCHANGED listed
      BY <2>2, <2>5 DEF Showing, InShown
    <2>6. CASE coming = <<>> /\ step' = "watch" /\ UNCHANGED listed
      BY <2>1, <2>2, <2>6 DEF Showing, IsShown
    <2>7. CASE /\ coming # <<>> /\ Takes(Head(coming)) /\ step' = step
               /\ listed' = Append(listed, Head(coming)) /\ coming' = Tail(coming)
      <3>1. PICK S : S = classes \cup C
        OBVIOUS
      <3>2. listed \in Seq(S) /\ coming \in Seq(S) /\ Head(coming) \in S /\ Tail(coming) \in Seq(S)
        <4>1. Seq(classes) \subseteq Seq(S) /\ Seq(C) \subseteq Seq(S)
          BY <3>1, SeqMonotonic
        <4>2. listed \in Seq(classes)
          BY <2>4 DEF Lists
        <4>3. listed \in Seq(S) /\ coming \in Seq(S)
          BY <2>3, <4>1, <4>2
        <4> QED BY <2>7, <4>3, HeadTailProperties
      <3>3. PICK class \in S : class = Head(coming)
        BY <3>2
      <3>4. NamesOf(listed) = Names
        BY <2>4 DEF Lists, NamesOf, Names
      <3>5. InOrder({}, Append(listed, class))
        BY <2>2, <2>7, <3>2, <3>3, <3>4, AppendInOrder DEF Takes
      <3>6. Append(listed, class) \o Tail(coming) = listed \o coming
        BY <2>7, <3>2, <3>3, MoveOne
      <3>7. InOrder({}, listed')
        BY <2>7, <3>3, <3>5
      <3>8. listed' \o coming' = listed \o coming
        BY <2>7, <3>3, <3>6
      <3> QED BY <2>1, <2>2, <2>7, <3>7, <3>8 DEF Showing, IsShown
    <2> QED BY <1>2, <2>5, <2>6, <2>7 DEF RegisterClass, Unwinds, classVars
  <1>3. CASE ~MakeClasses /\ ~RegisterClass
    <2>1. InOrder({}, listed')
      <3>1. CASE DropClass
        <4>1. UNCHANGED listed \/ (listed # <<>> /\ listed' = RemoveAt(listed, Len(listed)))
          BY <3>1 DEF DropClass, Popped
        <4>2. listed \in Seq(classes) /\ InOrder({}, listed)
          BY <1>0 DEF Tidy, Lists, Showing
        <4> QED BY <4>1, <4>2, RemoveLastInOrder
      <3>2. CASE ~DropClass
        BY <1>0, <1>3, <3>2, OthersKeepTheClasses DEF Showing
      <3> QED BY <3>1, <3>2
    <2>2. ASSUME InShown'
          PROVE  IsShown(meant, listed \o (IF step = "classes" THEN coming ELSE <<>>))'
      <3>1. /\ InShown /\ UNCHANGED <<projection, meant, coming, listed>>
            /\ step' = "classes" <=> step = "classes"
        BY <1>3, <2>2, OthersShow
      <3>2. IsShown(meant, listed \o (IF step = "classes" THEN coming ELSE <<>>))
        BY <1>0, <3>1 DEF Showing
      <3> QED BY <3>1, <3>2 DEF IsShown
    <2> QED BY <2>1, <2>2 DEF Showing
  <1> QED BY <1>1, <1>2, <1>3

\* An add-on that has not started shows nothing.
LEMMA InitShown == Init => Accepting /\ Answering /\ Showing
  <1> SUFFICES ASSUME Init PROVE Accepting /\ Answering /\ Showing
    OBVIOUS
  <1>1. Accepting /\ Answering
    BY DEF Init, Accepting, Making, Answering, Describing
  <1>2. listed = <<>> /\ step = "idle" /\ ~enabled
    BY DEF Init
  <1>3. InOrder({}, <<>>)
    BY DEF InOrder
  <1> QED BY <1>1, <1>2, <1>3 DEF Showing, InShown

\* What an element is drawn in and as, of a schema that is shown.
LEMMA DrawnAsDescribed ==
    ASSUME NEW schema, WellFormed(schema)
    PROVE  LET panels == {i \in DOMAIN schema : IsPanel(schema[i])}
               controls == {i \in DOMAIN schema : schema[i].Kind = "Control"}
               drawn == Drawn(schema)
           IN /\ \A i \in panels : ToSet(drawn[i]) \subseteq controls
              /\ \A control \in controls :
                   \E panel \in panels : \E k \in DOMAIN drawn[panel] :
                     /\ Panels(schema)[control] = panel
                     /\ \A i \in panels : \A l \in DOMAIN drawn[i] :
                          drawn[i][l] = control <=> (i = panel /\ l = k)
<1>1. PICK drawn : drawn = Drawn(schema)
  OBVIOUS
<1>2. PICK panels : panels = {i \in DOMAIN schema : IsPanel(schema[i])}
  OBVIOUS
<1>3. \A i \in panels : drawn[i] \in Seq(ControlsOf(schema)) /\ DOMAIN drawn[i] = 1..Len(drawn[i])
  BY <1>1, <1>2, ExtensionAssumption, DrawnInItsPanel, LenProperties
<1>4. ASSUME NEW i \in panels PROVE ToSet(drawn[i]) \subseteq ControlsOf(schema)
  <2>1. \A l \in 1..Len(drawn[i]) : drawn[i][l] \in ControlsOf(schema)
    BY <1>3, ElementOfSeq
  <2> QED BY <1>3, <2>1 DEF ToSet
<1>5. ASSUME NEW control \in ControlsOf(schema)
      PROVE  \E panel \in panels : \E k \in DOMAIN drawn[panel] :
               /\ Panels(schema)[control] = panel
               /\ \A i \in panels : \A l \in DOMAIN drawn[i] :
                    drawn[i][l] = control <=> (i = panel /\ l = k)
  <2>1. PICK panel : panel = Panels(schema)[control]
    OBVIOUS
  <2>2. /\ panel \in panels
        /\ \A i \in panels : IF i = panel THEN Once(drawn[i], control) ELSE Never(drawn[i], control)
    BY <1>1, <1>2, <2>1, ExtensionAssumption, DrawnInItsPanel
  <2>3. PICK k \in 1..Len(drawn[panel]) :
           \A l \in 1..Len(drawn[panel]) : drawn[panel][l] = control <=> l = k
    BY <2>2 DEF Once
  <2>4. ASSUME NEW i \in panels, NEW l \in DOMAIN drawn[i]
        PROVE  drawn[i][l] = control <=> (i = panel /\ l = k)
    <3>1. CASE i = panel
      BY <1>3, <2>3, <3>1
    <3>2. CASE i # panel
      BY <1>3, <2>2, <3>2 DEF Never
    <3> QED BY <3>1, <3>2
  <2>5. k \in DOMAIN drawn[panel]
    BY <1>3, <2>2, <2>3
  <2> QED BY <2>1, <2>2, <2>4, <2>5
<1> QED BY <1>1, <1>2, <1>4, <1>5 DEF ControlsOf

\* A class that is registered has its parent registered.
LEMMA ParentsAreRegistered ==
    ASSUME Lists(listed, classes), InOrder({}, listed)
    PROVE  \A class \in classes : class.parent \in Names \cup {Absent}
<1>1. DOMAIN listed = 1..Len(listed) /\ \A i \in 1..Len(listed) : listed[i] \in classes
  BY LenProperties DEF Lists
<1>2. ASSUME NEW i \in 1..Len(listed) PROVE listed[i].parent \in Names \cup {Absent}
  <2>1. listed[i].parent \in {listed[j].name : j \in 1..(i - 1)} \cup {Absent}
    BY <1>1 DEF InOrder
  <2>2. Len(listed) \in Nat
    BY LenProperties DEF Lists
  <2>3. \A j \in 1..(i - 1) : listed[j].name \in Names
    BY <1>1, <2>2 DEF Names
  <2> QED BY <2>1, <2>3
<1> QED BY <1>2 DEF Lists

\* What the three say, as the property has it.
LEMMA ShownAsDescribed == Tidy /\ Showing => UiIsAsDescribed
  <1> SUFFICES ASSUME Tidy, Showing, ~spoiled PROVE UiIsAsDescribed
    BY DEF UiIsAsDescribed
  <1>1. Lists(listed, classes) /\ InOrder({}, listed)
    BY DEF Tidy, Showing
  <1>2. DOMAIN listed = 1..Len(listed) /\ listed \in Seq(classes)
    BY <1>1, LenProperties DEF Lists
  <1>3. \A class \in classes : class.parent \in Names \cup {Absent}
    BY <1>1, ParentsAreRegistered
  <1>4. CASE ~(enabled /\ step = "idle")
    BY <1>3, <1>4 DEF UiIsAsDescribed
  <1>5. CASE enabled /\ step = "idle"
    <2>1. IsShown(meant, listed)
      <3>1. IsShown(meant, listed \o <<>>)
        BY <1>5 DEF Showing, InShown
      <3>2. listed \o <<>> = listed
        BY <1>2, ConcatEmptySeq
      <3> QED BY <3>1, <3>2
    <2>2. CASE meant = Absent
      <3>1. projection = Absent /\ listed = Ordered(<<>>)
        BY <2>1, <2>2 DEF IsShown, AllOf
      <3>2. listed = RegisteredClasses
        BY <3>1, WrittenAssumption, ConcatEmptySeq DEF Ordered
      <3>3. classes = ToSet(listed)
        BY <1>1, <1>2 DEF Lists, ToSet
      <3> QED BY <1>3, <2>2, <3>1, <3>2, <3>3 DEF UiIsAsDescribed
    <2>3. CASE meant # Absent
      <3>1. WellFormed(meant) /\ projection = Projection(meant) /\ listed = Ordered(Project(meant))
        BY <2>1, <2>3 DEF IsShown, AllOf
      <3>2. projection.Schema = meant /\ DOMAIN projection.Controls = ControlsOf(meant)
        BY <3>1 DEF Projection, Controls, ControlsOf
      <3>3. Names = NamesOf(listed)
        BY <1>1, <1>2 DEF Lists, Names, NamesOf
      <3>4. PICK S : meant \in Seq(S)
        BY <3>1 DEF WellFormed
      <3>5. NamesOf(listed)
              = NamesOf(RegisteredClasses) \cup {ValuesClass.name} \cup Before(meant, Len(meant))
        BY <3>1, <3>4, ProjectInOrder
      <3>6. Before(meant, Len(meant)) = {PanelName(i) : i \in {i \in DOMAIN meant : IsPanel(meant[i])}}
        BY <3>4, LenProperties DEF Before
      <3>7. Names = {RegisteredClasses[i].name : i \in DOMAIN RegisteredClasses}
                      \cup {ValuesClass.name}
                      \cup {PanelName(i) : i \in {i \in DOMAIN meant : IsPanel(meant[i])}}
        BY <3>3, <3>5, <3>6 DEF NamesOf
      <3>8. PICK schema : schema = projection.Schema
        OBVIOUS
      <3>9. schema = meant
        BY <3>2, <3>8
      <3> QED BY <1>3, <1>5, <2>3, <3>1, <3>2, <3>7, <3>8, <3>9, DrawnAsDescribed
             DEF UiIsAsDescribed, ControlsOf
    <2> QED BY <2>2, <2>3
  <1> QED BY <1>4, <1>5

-----------------------------------------------------------------------------
(* What always holds.                                                        *)

LEMMA InitIInv == Init => IInv
  <1> SUFFICES ASSUME Init PROVE IInv
    OBVIOUS
  <1> USE DEF Init, BridgeInit
  <1>1. Bound
    BY DEF Bound, EntryPointsAreServed, NoInterfaces
  <1>2. Alive
    BY DEF Alive, Held, Rising, Lent
  <1>3. Tidy
    BY DEF Tidy, Lists, Bare
  <1>4. Clean
    BY DEF Clean, Off, Held, Bare
  <1> QED BY <1>1, <1>2, <1>3, <1>4 DEF IInv

\* The four parts hold in every state the add-on reaches.
THEOREM ExtensionInvariant == Spec => []IInv
  <1>1. IInv /\ [Next]_vars => IInv'
    BY BoundHolds, AliveHolds, TidyHolds, CleanHolds DEF IInv
  <1> QED BY <1>1, InitIInv, PTL DEF Spec

\* Every entry point that can be called lies within what its live engine populated
\* (extension/abi/engine.py, abi/interfaces/__init__.py).
THEOREM EntryPointsAreAlwaysServed == Spec => []EntryPointsAreServed
  <1>1. IInv => EntryPointsAreServed
    BY DEF IInv, Bound
  <1> QED BY <1>1, ExtensionInvariant, PTL

\* The UI is never lent an engine that was destroyed, and no class of it is registered without
\* one, whatever raised while registering (extension/__init__.py).
THEOREM UiAlwaysHasItsEngine == Spec => []UiHasItsEngine
  <1>1. IInv => UiHasItsEngine
    BY DEF IInv, Alive, Tidy, UiHasItsEngine
  <1> QED BY <1>1, ExtensionInvariant, PTL

\* An add-on that is off, or that failed to come up, has left nothing behind
\* (extension/__init__.py).
THEOREM AlwaysLeavesNothing == Spec => []LeavesNothing
  <1>1. IInv => LeavesNothing
    <2> SUFFICES ASSUME IInv, Off, ~spoiled PROVE NothingIsLeft
      BY DEF LeavesNothing, Off
    <2>1. classes = {} /\ listed = <<>>
      BY EmptyLists DEF IInv, Tidy, Off
    <2>2. /\ engine = 0 /\ live = {} /\ lent = 0 /\ ~link
          /\ hydra = 0 /\ hydraKnown = 0 /\ ~watching /\ ~logging /\ ~published
      BY DEF IInv, Clean
    <2> QED BY <2>1, <2>2 DEF NothingIsLeft
  <1> QED BY <1>1, ExtensionInvariant, PTL

\* Through every disabling, enabling and closing, a reconciled scene carries a document the engine
\* knows, at a revision it has reached (document_binding.py:66-83).
THEOREM BindingIsAlwaysKnown == Spec => []BindingIsKnown
  <1>1. Init => Shaped /\ Follows
    BY DEF Init, NoDocuments, Shaped, Follows
  <1>2. IInv /\ (Shaped /\ Follows) /\ [Next]_vars => (Shaped /\ Follows)'
    BY FollowsHolds DEF IInv
  <1>3. Follows => BindingIsKnown
    BY DEF Follows, BindingIsKnown, Carried
  <1> QED BY <1>1, <1>2, <1>3, ExtensionInvariant, PTL DEF Spec

\* The shapes of the state, and that no class is listed that Blender does not have, also after an
\* undoing raised (extension/__init__.py, presentation/__init__.py:133-146).
THEOREM ExtensionTypes == Spec => []TypeOK
  <1> DEFINE Types == EnginesCounted /\ RaisesCounted /\ HydraCounted /\ Flagged /\ Registered
                        /\ Shaped /\ Follows
  <1>1. Init => Types
    <2> SUFFICES ASSUME Init PROVE Types
      OBVIOUS
    <2>1. EnginesCounted /\ RaisesCounted /\ HydraCounted
      BY EngineBridgeAssumption, ExtensionAssumption
         DEF Init, BridgeInit, EnginesCounted, RaisesCounted, HydraCounted
    <2>2. Flagged
      BY DEF Init, Flagged, Steps
    <2>3. Registered /\ Shaped /\ Follows
      BY DEF Init, Registered, NoDocuments, Shaped, Follows
    <2> QED BY <2>1, <2>2, <2>3
  <1>2. IInv /\ Types /\ [Next]_vars => Types'
    BY EnginesHold, RaisesHold, HydraHolds, FlaggedHolds, RegisteredHolds, FollowsHolds DEF IInv
  <1>3. Types => TypeOK
    <2> SUFFICES ASSUME Types PROVE TypeOK
      OBVIOUS
    <2>1. \A i \in DOMAIN listed : listed[i] \in classes
      BY DEF Registered
    <2>2. {enabled, link, watching, logging, published, reconciled, spoiled} \subseteq BOOLEAN
      BY Zenon DEF Flagged
    <2> QED BY <2>1, <2>2 DEF TypeOK, EnginesCounted, RaisesCounted, HydraCounted, Flagged, Shaped
  <1> QED BY <1>1, <1>2, <1>3, ExtensionInvariant, PTL DEF Spec

\* ClassesAreAccepted, of every schema an engine may describe, however deep: register only ever
\* fails on a class by an exception, or because an undoing before it left a class standing
\* (presentation/__init__.py:96-101, ui_projection.py:334-356).
THEOREM ClassesAreAlwaysAccepted == Spec => ClassesAreAccepted
  <1>1. Init => Accepting
    BY DEF Init, Accepting, Making
  <1>2. IInv => Tidy
    BY DEF IInv
  <1>3. Spec => []Accepting
    BY <1>1, <1>2, AcceptingHolds, ExtensionInvariant, PTL DEF Spec
  <1>4. TypeOK /\ Accepting /\ [Next]_vars
          => [step = "classes" /\ Unwinds => spoiled \/ raises' > raises]_vars
    <2> SUFFICES ASSUME TypeOK, Accepting, Next, step = "classes", Unwinds, ~spoiled
                 PROVE  raises' > raises
      OBVIOUS
    <2>1. RegisterClass
      <3>1. ~Register /\ ~OpenEngine /\ ~SynchronizeScene /\ ~RegisterHydra /\ ~Lend /\ ~MakeClasses
            /\ ~StartWatching /\ ~Unregister
        BY DEF Register, OpenEngine, SynchronizeScene, RegisterHydra, Lend, MakeClasses, StartWatching,
               Unregister
      <3>2. ~Undoing
        BY DEF Undoing, StopWatching, DropClass, LetGoOfLink, DropHydra, TakeBack, ShutDown, End
      <3>3. ~Press /\ ~EngineRevises /\ ~OpensFile
        BY DEF Press, EngineRevises, OpensFile
      <3> QED BY <3>1, <3>2, <3>3 DEF Next, Enabling
    <2>2. coming # <<>> => Takes(Head(coming))
      <3>1. PICK C : coming \in Seq(C)
        BY DEF Accepting
      <3>2. InOrder(Names, coming)
        BY DEF Accepting
      <3> QED BY <3>1, <3>2, TakeOne DEF Takes
    <2>3. Raises("class")
      BY <2>1, <2>2 DEF RegisterClass, Unwinds
    <2>4. raises \in Nat
      BY ExtensionAssumption DEF TypeOK
    <2> QED BY <2>3, <2>4 DEF Raises
  <1> QED BY <1>3, <1>4, ExtensionTypes, PTL DEF Spec, ClassesAreAccepted

\* UiIsAsDescribed, of every schema an engine may describe, whatever is decoded, registered, undone
\* and raised on the way (ui_projection.py:228-238, 308-371, presentation/__init__.py:133-146).
THEOREM UiIsAlwaysAsDescribed == Spec => []UiIsAsDescribed
  <1> DEFINE Shown == Accepting /\ Answering /\ Showing
  <1>1. Init => Shown
    BY InitShown
  <1>2. IInv /\ Shown /\ [Next]_vars => Shown'
    BY AcceptingHolds, AnsweringHolds, ShowingHolds DEF IInv
  <1>3. IInv /\ Shown => UiIsAsDescribed
    BY ShownAsDescribed DEF IInv
  <1> QED BY <1>1, <1>2, <1>3, ExtensionInvariant, PTL DEF Spec
=============================================================================
