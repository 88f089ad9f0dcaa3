---------------------------- MODULE MCExtension ----------------------------
(* Small instances of Extension for TLC. *)
EXTENDS Extension

MCIds == 1..2
MCStarting == {"create", "synchronize", "reattach", "class", "watch"}
MCRaises == MCStarting \cup {"publish", "interface", "hydra", "drop class", "drop hydra"}

\* The two wrappers of abi/interfaces, with the entry points of their tables.
MCTables == [Documents |-> <<"create", "query", "close", "restore">>, UiSchema |-> <<"describe">>]
Served(documentsBytes, uiSchemaBytes) == [Documents |-> documentsBytes, UiSchema |-> uiSchemaBytes]
Library(override, packaged, exports, abi, creates, served) ==
    [override |-> override, packaged |-> packaged, exports |-> exports, abi |-> abi,
     creates |-> creates, populated |-> served]
Packaged(served) == Library("none", TRUE, TRUE, 1, TRUE, served)
\* Those that do not open; tables as long as the host's, longer, ending with or within the last
\* entry point, and missing.
MCLibraries ==
    {Library("none", FALSE, TRUE, 1, TRUE, Served(40, 16)), Library("missing", TRUE, TRUE, 1, TRUE, Served(40, 16)),
     Library("file", FALSE, TRUE, 2, TRUE, Served(40, 16)), Library("file", FALSE, FALSE, 1, TRUE, Served(40, 16)),
     Library("none", TRUE, TRUE, 1, FALSE, Served(40, 16)), Library("file", FALSE, TRUE, 1, TRUE, Served(40, 16))}
    \cup {Packaged(Served(bytes, 16)) : bytes \in {0, 32, 36, 40, 48}}
    \cup {Packaged(Served(40, bytes)) : bytes \in {0, 8}}

\* Without Hydra, without USD, with another's USD beside Blender's, and Blender's own.
MCResourceRoots == {<<"blender", "local">>, <<"blender", "system">>}
Runtime(has, imports, root) == [hydra |-> has, imports |-> imports, root |-> root, delegates |-> 2]
MCRuntimes ==
    {Runtime(FALSE, TRUE, <<"blender", "system", "pxr">>), Runtime(TRUE, FALSE, <<>>),
     Runtime(TRUE, TRUE, <<"blender", "pxr">>), Runtime(TRUE, TRUE, <<"blender", "system", "pxr">>)}

\* One class written before the panel of the document, which itself precedes what is made, and a
\* class Blender does not register.
MCDeclared ==
    << << Class(<<"CreateDocumentOperator", 0>>, "Operator", Absent), Class(DocumentPanel, "Panel", Absent) >>,
       << Class(<<"ProjectedControl", 0>>, "tuple", Absent) >> >>

Bound == <<Binding("Capability", "c"), Binding("State", "s"), Binding("Action", "a")>>
Container(kind, parent) == Element(kind, parent, Absent, <<>>, <<>>)
\* A box in a section and a section in that box, a choice of nothing, and an editor.
MCNested ==
    << Container("Surface", Absent), Element("Control", 1, "Command", Bound, <<>>),
       Container("Section", 1), Container("Group", 3), Element("Control", 4, "Choice", Bound, <<>>),
       Container("Section", 4), Container("Editor", 6), Element("Control", 7, "Choice", Bound, <<"x", "y">>) >>
\* Two surfaces, the second with nothing.
MCSurfaces == << Container("Surface", Absent), Element("Control", 1, "Number", <<>>, <<>>), Container("Surface", Absent) >>
MCSchemas == {MCNested, MCSurfaces, <<>>}

Answer(succeeds, data, schema) == [succeeds |-> succeeds, data |-> data, meant |-> schema]
\* Whole answers, a call that fails, answers cut short anywhere, and with something left or changed.
MCDescriptions ==
    {Answer(TRUE, EncodedSchema(schema), schema) : schema \in MCSchemas}
    \cup {Answer(FALSE, <<>>, Absent)}
    \cup LET data == EncodedSchema(MCSurfaces) IN
         {Answer(TRUE, SubSeq(data, 1, length), Absent) : length \in 0..(Len(data) - 1)}
         \cup {Answer(TRUE, changed, Absent) :
                 changed \in {Append(data, 0), [data EXCEPT ![1] = "other"], [data EXCEPT ![2] = 2],
                              [data EXCEPT ![3] = 9]}}

-----------------------------------------------------------------------------
(* The pure functions, over every well-formed schema of up to four elements: *)
(* a parent is not a control and comes before its children.                  *)

Roots == {Container("Surface", Absent)}
Below(schema) ==
    {Element(kind, parent, IF kind = "Control" THEN "Command" ELSE Absent, <<>>, <<>>) :
        kind \in {"Section", "Group", "Control"},
        parent \in {i \in DOMAIN schema : schema[i].Kind # "Control"}}
Grown(schemas) == schemas \cup UNION {{Append(schema, next) : next \in Roots \cup Below(schema)} : schema \in schemas}
SmallSchemas == Grown(Grown(Grown(Grown({<<>>}))))

\* What the engine encodes is what the host decodes, and neither a part of it nor more than it
\* decodes (reflected.py:57-118).
ASSUME AnswersAreRead ==
    \A schema \in SmallSchemas :
        LET data == EncodedSchema(schema) IN
        /\ Describe(data) = schema
        /\ Describe(Append(data, 0)) = ValueError /\ Describe(Front(data)) = ValueError

\* Every control is drawn in exactly one panel, which is the one its element belongs to, and every
\* panel's parent is an earlier panel or the document's (ui_projection.py:228-238, 333-356).
ASSUME PanelsShareTheControls ==
    \A schema \in SmallSchemas :
        LET drawn == Drawn(schema)
            made == Project(schema)
        IN /\ \A i \in DOMAIN Controls(schema), panel \in DOMAIN schema :
                IsPanel(schema[panel]) =>
                    (Cardinality({k \in DOMAIN drawn[panel] : drawn[panel][k] = i})
                       = IF Panels(schema)[i] = panel THEN 1 ELSE 0)
           /\ \A k \in 2..Len(made) :
                \/ made[k].parent = DocumentPanel
                \/ \E j \in 2..(k - 1) : made[j].name = made[k].parent
=============================================================================
