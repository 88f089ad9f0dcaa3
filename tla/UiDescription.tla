---------------------------- MODULE UiDescription ----------------------------
(***************************************************************************)
(* The classes that Blender shows the add-on's UI with                       *)
(* (extension/presentation/__init__.py and ui_projection.py): those the      *)
(* package's modules write, and those the projection makes from the UI the   *)
(* engine describes (extension/abi/interfaces/ui_schema.py).                 *)
(*                                                                          *)
(* A schema is the sequence of the described elements; an element's Parent   *)
(* is the place of its parent, counted from 1, or Absent.  A class is its    *)
(* name, the Blender class it derives from and the panel it is drawn in.     *)
(***************************************************************************)
EXTENDS Reflected, FiniteSets

CONSTANT
    Declared        \* the classes written in the package's modules, module by module

Registrable ==
    {"Operator", "Panel", "Menu", "Header", "UIList", "PropertyGroup", "AddonPreferences", "Gizmo", "GizmoGroup"}
Class(name, base, parent) == [name |-> name, base |-> base, parent |-> parent]
RegisteredClasses == SelectSeq(FlattenSeq(Declared), LAMBDA found : found.base \in Registrable)
-----------------------------------------------------------------------------
(* What the engine may describe, and how it is encoded and decoded.          *)

Binding(role, id) == [Role |-> role, Id |-> id]
Element(kind, parent, control, bindings, choices) ==
    [Kind |-> kind, Control |-> control, Parent |-> parent, Bindings |-> bindings, Choices |-> choices]

EncodedElement(element) ==
    RecordOf(<<
        <<"Kind", Enumerator(element.Kind)>>,
        <<"Control", IF element.Control = Absent THEN Nothing ELSE Enumerator(element.Control)>>,
        <<"Parent", IF element.Parent = Absent THEN Nothing ELSE Integer(element.Parent)>>,
        <<"Bindings", ListOf([i \in DOMAIN element.Bindings |->
            RecordOf(<< <<"Role", Enumerator(element.Bindings[i].Role)>>,
                        <<"Id", <<5>> \o Text(element.Bindings[i].Id)>> >>)])>>,
        <<"Choices", ListOf([i \in DOMAIN element.Choices |-> <<5>> \o Text(element.Choices[i])])>> >>)
EncodedSchema(schema) ==
    Encoded(RecordOf(<< <<"Elements", ListOf([i \in DOMAIN schema |-> EncodedElement(schema[i])])>> >>))

\* What an engine describes: elements in depth-first order, every parent before its children and
\* no control, surfaces at the top and nothing else (ui_schema.py:28-42).
WellFormed(schema) ==
    /\ schema \in Seq(ToSet(schema))
    /\ \A i \in DOMAIN schema :
         LET element == schema[i]
             bindings == element.Bindings
         IN /\ element = Element(element.Kind, element.Parent, element.Control, bindings, element.Choices)
            /\ bindings \in Seq(ToSet(bindings)) /\ element.Choices \in Seq(ToSet(element.Choices))
            /\ \A k \in DOMAIN bindings : bindings[k] = Binding(bindings[k].Role, bindings[k].Id)
            /\ IF element.Kind = "Surface" THEN element.Parent = Absent
               ELSE element.Parent \in 1..(i - 1) /\ schema[element.Parent].Kind # "Control"

\* UiSchemaInterface.Describe, once the call has succeeded.
Describe(data) ==
    LET decoded == Decode(data) IN IF decoded = ValueError THEN ValueError ELSE decoded.Elements
-----------------------------------------------------------------------------
(* Project.                                                                  *)

IsPanel(element) == element.Kind \in {"Surface", "Section"}

\* The first binding of a role.
BindingOf(element, role) ==
    IF \E i \in DOMAIN element.Bindings : element.Bindings[i].Role = role
    THEN SelectSeq(element.Bindings, LAMBDA binding : binding.Role = role)[1].Id ELSE Absent

\* A control, as drawing and updating it needs it.
HasValue(element) ==
    /\ element.Control \in {"Number", "Integer", "Boolean", "Text", "Choice"}
    /\ element.Control = "Choice" => element.Choices # <<>>
Control(element) ==
    [Role |-> element.Control, Property |-> HasValue(element),
     State |-> BindingOf(element, "State"), Action |-> BindingOf(element, "Action")]
Controls(schema) ==
    [i \in {i \in DOMAIN schema : schema[i].Kind = "Control"} |-> Control(schema[i])]

\* Projection: what is drawn from, worked out once.
Projection(schema) == [Schema |-> schema, Controls |-> Controls(schema)]

\* The panel each element is drawn in: a panel itself, or its parent's, if that came before it.
Panels(schema) ==
    LET panelOf[i \in DOMAIN schema] ==
            IF IsPanel(schema[i]) THEN i
            ELSE IF schema[i].Parent \in 1..(i - 1) THEN panelOf[schema[i].Parent] ELSE Absent
    IN panelOf

PanelName(i) == <<"FD_PT_ui", i>>
ValuesClass == Class(<<"FD_UiValues", 0>>, "PropertyGroup", Absent)
DocumentPanel == <<"FD_PT_document", 0>>
\* A sub-panel is in the panel its parent is drawn in.
ParentPanel(schema, i) ==
    IF schema[i].Kind = "Surface" THEN DocumentPanel
    ELSE IF schema[i].Parent \in 1..(i - 1) /\ Panels(schema)[schema[i].Parent] # Absent
         THEN PanelName(Panels(schema)[schema[i].Parent]) ELSE Absent

Project(schema) ==
    LET made[i \in 0..Len(schema)] ==
            IF i = 0 THEN <<ValuesClass>>
            ELSE IF IsPanel(schema[i])
                 THEN Append(made[i - 1], Class(PanelName(i), "Panel", ParentPanel(schema, i)))
                 ELSE made[i - 1]
    IN made[Len(schema)]

\* The classes presentation.register goes through: written classes before what is made.
SlipOrdered(generated) == generated \o RegisteredClasses
Ordered(generated) == RegisteredClasses \o generated

\* Classes that can be registered one after the other beside those of some names: none has the
\* name of another, and each has its parent before it.
InOrder(names, list) ==
    \A i \in DOMAIN list :
        LET before == names \cup {list[j].name : j \in 1..(i - 1)}
        IN list[i].name \notin before /\ list[i].parent \in before \cup {Absent}

\* The written classes are written so, with the document's panel among them, under names of
\* their own (presentation/__init__.py:95-101).
ASSUME WrittenAssumption ==
    /\ RegisteredClasses \in Seq(ToSet(RegisteredClasses)) /\ InOrder({}, RegisteredClasses)
    /\ DocumentPanel \in {class.name : class \in ToSet(RegisteredClasses)}
    /\ \A class \in ToSet(RegisteredClasses) : class.name[1] \notin {PanelName(1)[1], ValuesClass.name[1]}
-----------------------------------------------------------------------------
(* Drawing: a panel shows what is below its element, in order, without the   *)
(* sections, which are panels of their own.                                  *)

OfItsOwn(element) == element.Kind = "Section"

\* The controls drawn below an element, given those below the elements after it, of which its
\* children are.
DrawnIn(schema, below, i) ==
    FlattenSeq([child \in DOMAIN schema |->
        IF child <= i \/ schema[child].Parent # i \/ OfItsOwn(schema[child]) THEN <<>>
        ELSE IF schema[child].Kind = "Control" THEN <<child>> ELSE below[child]])
Drawn(schema) ==
    LET below[i \in DOMAIN schema] == DrawnIn(schema, below, i)
    IN below
=============================================================================
