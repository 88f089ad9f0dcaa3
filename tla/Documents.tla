------------------------------ MODULE Documents ------------------------------
(***************************************************************************)
(* The drawing documents of the native engine and the identity of one that   *)
(* Blender's scene carries (extension/host/document_binding.py), with the    *)
(* buttons that make, look at and close it                                   *)
(* (extension/presentation/document.py).                                     *)
(*                                                                          *)
(* The engine is another library: its documents are known by what the host   *)
(* asks of them.  A document is its identity and its revision; the number of *)
(* its layers goes with the revision.                                        *)
(***************************************************************************)
EXTENDS Integers, Functions

CONSTANTS
    None,
    Ids,            \* the identities an engine may give
    MaxRevision     \* bound: the greatest revision of a document

ASSUME DocumentsAssumption ==
    /\ MaxRevision \in Nat \ {0}
    /\ None \notin [id : Ids, revision : Nat]

VARIABLES
    documents,      \* the engine's active documents: the revision of each
    scene           \* the binding the current scene carries, or None

documentVars == <<documents, scene>>

NoDocuments == [id \in {} |-> 0]
Bindings == [id : Ids, revision : 1..MaxRevision]
Known(id) == id \in DOMAIN documents

\* The engine makes, closes, restores and revises documents.
WithDocument(known, id, revision) ==
    [other \in DOMAIN known \cup {id} |-> IF other = id THEN revision ELSE known[other]]
WithoutDocument(known, id) == Restrict(known, DOMAIN known \ {id})
Revised ==
    \E id \in DOMAIN documents :
        /\ documents[id] < MaxRevision
        /\ documents' = [documents EXCEPT ![id] = @ + 1]
        /\ UNCHANGED scene

\* Bind: the scene carries the document as the engine has it.
Bind(id) == scene' = [id |-> id, revision |-> documents'[id]]

\* Synchronize: a document the engine does not know is restored from what the scene carries.
SlipRestored == documents
Restored == WithDocument(documents, scene.id, scene.revision)
Synchronize ==
    IF scene = None THEN UNCHANGED documentVars
    ELSE /\ documents' = IF Known(scene.id) THEN documents ELSE Restored
         /\ IF scene.id \in DOMAIN documents' THEN Bind(scene.id) ELSE UNCHANGED scene

\* "Create Flexible Drawing", and "Add Canvas Plane" in a scene without a document.
Create ==
    /\ scene = None
    /\ \E id \in Ids \ DOMAIN documents : documents' = WithDocument(documents, id, 1) /\ Bind(id)

\* "Inspect" and "Close" raise, and change nothing, when the engine does not know the document.
Inspect ==
    /\ scene # None /\ Known(scene.id)
    /\ UNCHANGED documents /\ Bind(scene.id)
\* The scene keeps carrying the document that was closed.
SlipCleared == scene
Cleared == None
Close ==
    /\ scene # None /\ Known(scene.id)
    /\ documents' = WithoutDocument(documents, scene.id) /\ scene' = Cleared

\* A file is opened, or another scene is made current: it carries what was saved with it.
SceneChanges ==
    /\ scene' \in Bindings \cup {None} /\ scene' # scene
    /\ UNCHANGED documents

Buttons == Create \/ Inspect \/ Close
=============================================================================
