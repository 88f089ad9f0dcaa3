---------------------------- MODULE EngineBridge ----------------------------
(***************************************************************************)
(* The life of one EngineBridge (extension/abi/engine.py): it finds and      *)
(* loads the library (library.py), creates the native engine if its ABI is   *)
(* the host's, and binds the entry points of every interface the host has a  *)
(* wrapper for (registry.py, interfaces/__init__.py); Shutdown takes them    *)
(* away again before it destroys the engine.                                 *)
(*                                                                          *)
(* Engines are numbered as they are created; live are those not destroyed,   *)
(* which the library knows and the host does not.                            *)
(***************************************************************************)
EXTENDS Integers, Sequences

CONSTANTS
    Tables,         \* of each wrapper's ATTRIBUTE, the entry points of its table, in order
    Libraries,      \* what is found: [override, packaged, exports, abi, creates, populated]
    AbiVersion,     \* FD_ABI_VERSION
    MaxEngines      \* bound: engines created

Unserved == 0       \* fd_engine_get_interface knows no such interface

ASSUME EngineBridgeAssumption ==
    /\ AbiVersion \in Nat /\ MaxEngines \in Nat
    /\ Libraries \subseteq
         [override : {"none", "file", "missing"}, packaged : BOOLEAN, exports : BOOLEAN,
          abi : Nat, creates : BOOLEAN, populated : [DOMAIN Tables -> Nat]]

VARIABLES
    engines,        \* how many engines were created
    live,           \* those that were not destroyed
    handle,         \* the bridge's engine, 0 for None
    interfaces,     \* the wrappers that can be reached: of each the entry points it read
    populated       \* history: the bytes its engine populated of each table

bridgeVars == <<engines, live, handle, interfaces, populated>>

NoInterfaces == [attribute \in {} |-> {}]
NothingServed == [attribute \in DOMAIN Tables |-> Unserved]
BridgeInit ==
    /\ engines = 0 /\ live = {} /\ handle = 0 /\ interfaces = NoInterfaces
    /\ populated = NothingServed

\* struct_size takes the first 8 bytes of a table and each entry point the next 8.
Offset(position) == 8 * position
SlipMemberEnd(position) == Offset(position)         \* where it begins
MemberEnd(position) == Offset(position) + 8

\* FetchTable: the engine serves the interface, as far as every entry point of the wrapper.
Fetches(served, attribute) ==
    /\ served[attribute] # Unserved
    /\ \A position \in DOMAIN Tables[attribute] : served[attribute] >= MemberEnd(position)
EntryPoints(attribute) == {Tables[attribute][position] : position \in DOMAIN Tables[attribute]}

\* DiscoverLibrary: where an override is set, the packaged library is not looked for.
Discovers(library) == IF library.override = "none" THEN library.packaged ELSE library.override = "file"
\* LoadLibrary: it exports every function of the bootstrap.
Loads(library) == Discovers(library) /\ library.exports
\* It has the host's ABI, and creates an engine.
Creates(library) == Loads(library) /\ library.abi = AbiVersion /\ library.creates
OpenRefused(library) == ~Creates(library) /\ UNCHANGED bridgeVars

Created(library) ==
    /\ Creates(library) /\ engines < MaxEngines
    /\ engines' = engines + 1 /\ live' = live \cup {engines'}
\* A wrapper that raises leaves nobody who knows the bridge and the engine it holds.
WrapperRaises(library) ==
    /\ Created(library) /\ \E attribute \in DOMAIN Tables : ~Fetches(library.populated, attribute)
    /\ UNCHANGED <<handle, interfaces, populated>>
Opened(library) ==
    /\ Created(library) /\ \A attribute \in DOMAIN Tables : Fetches(library.populated, attribute)
    /\ handle' = engines' /\ populated' = library.populated
    /\ interfaces' = [attribute \in DOMAIN Tables |-> EntryPoints(attribute)]

\* Shutdown, which may be called again.
Shutdown ==
    /\ interfaces' = NoInterfaces /\ handle' = 0 /\ live' = live \ {handle}
    /\ populated' = NothingServed /\ UNCHANGED engines

\* Asking the bridge for an interface, and the wrapper for an entry point: what is not bound, or
\* bound no more, is an EngineError.
Serves(attribute, member) == attribute \in DOMAIN interfaces /\ member \in interfaces[attribute]

\* Whatever entry point can be reached lies in the part of its table the engine populated, and
\* its engine is alive (engine.py:144-145, "a call into freed memory"; interfaces/__init__.py:139-141).
EntryPointsAreServed ==
    \A attribute \in DOMAIN interfaces :
        /\ handle \in live
        /\ \A position \in DOMAIN Tables[attribute] :
             Tables[attribute][position] \in interfaces[attribute] =>
                 populated[attribute] >= Offset(position) + 8
=============================================================================
