---------------------------- MODULE UiProjection ----------------------------
(***************************************************************************)
(* The engine's UI as Blender widgets                                        *)
(* (extension/presentation/ui_projection.py): a change of a widget asks for  *)
(* its action, and the widget shows the value in effect whenever a turn of   *)
(* the timer moved something (extension/presentation/realtime_plane.py).     *)
(*                                                                          *)
(* A number field holds a 32-bit number, and the Realtime Plane 64-bit ones: *)
(* Single is what a field makes of a number, and Shortest the decimal a      *)
(* person meant by a field's number.  Every number fits 32 bits here.  A     *)
(* text field or drop-down holds texts, of which an action may carry some    *)
(* only; a checkbox holds what neither an action nor a report carries.  The  *)
(* session is the one of Session.tla, told here by what it promises, but for *)
(* a Realtime Plane that may take another value than it was asked for.       *)
(***************************************************************************)
EXTENDS Integers

CONSTANTS
    Fields,         \* number fields with a value, a state and an action of their own
    Texts,          \* text fields and drop-downs with them
    Checkboxes,     \* checkboxes with them
    Numbers,        \* the numbers in use, 32-bit or not
    Single,         \* the 32-bit number nearest to a number
    Shortest,       \* the shortest decimal that is that same 32-bit number
    Words,          \* the texts in use
    Refused,        \* those that no action payload carries (PayloadError)
    Ticks,          \* what a checkbox holds: True and False
    Odd,            \* a value in effect that its widget cannot hold, such as a vector
    None

Controls == Fields \cup Texts \cup Checkboxes
Singles == {Single[v] : v \in Numbers}
ASSUME NumbersAssumption ==
    /\ Fields \cap Texts = {} /\ Fields \cap Checkboxes = {} /\ Texts \cap Checkboxes = {}
    /\ Numbers # {} /\ Words # {} /\ Ticks # {} /\ Refused \subseteq Words
    /\ Single \in [Numbers -> Numbers] /\ Shortest \in [Singles -> Numbers]
    /\ \A s \in Singles : Single[s] = s /\ Single[Shortest[s]] = s
    /\ Numbers \cap Words = {} /\ Numbers \cap Ticks = {} /\ Words \cap Ticks = {}
    /\ Odd \notin Numbers \cup Words \cup Ticks
    /\ None \notin Numbers \cup Words \cup Ticks \cup {Odd}

VARIABLES
    session,        \* the target's session: "none", "opening" or "open"
    pending,        \* target.Pending of each control
    effective,      \* target.Effective of each control
    widget,         \* the values group's properties
    meant           \* history: what a person last asked for with each widget, None for nothing

targetVars == <<session, pending, effective>>
vars == <<targetVars, widget, meant>>

\* What a widget of each role can be given by a person.
Inputs(c) == CASE c \in Fields -> Singles [] c \in Texts -> Words [] OTHER -> Ticks

NothingPending == [c \in Controls |-> None]
Init ==
    /\ session = "none" /\ pending = NothingPending /\ effective = NothingPending
    /\ widget = [c \in Controls |-> CHOOSE s \in Inputs(c) : TRUE]
    /\ meant = NothingPending
-----------------------------------------------------------------------------
\* _sent: a control's value as the action carries it.
Sent(c, s) == IF c \in Fields THEN Shortest[s] ELSE s

\* target.Request: refused without a session, and for a value that has no payload.
Carried(v) == v \notin Refused \cup Ticks
Takes(c, s) == session # "none" /\ Carried(Sent(c, s))

\* A person changes a widget, whose update callback requests the action; when it is refused
\* the widget keeps what was put in.
Change(c, s) ==
    /\ widget' = [widget EXCEPT ![c] = s]
    /\ meant' = IF Takes(c, s) THEN [meant EXCEPT ![c] = s] ELSE meant
    /\ pending' = IF Takes(c, s) THEN [pending EXCEPT ![c] = Sent(c, s)] ELSE pending
    /\ UNCHANGED <<session, effective>>

\* _shownValue: the values that a control of each role shows; a whole number in an integer
\* field is told like a text.
Holds(c, v) == v \in (CASE c \in Fields -> Numbers [] c \in Texts -> Words [] OTHER -> Ticks)
AsShown(c, v) == IF c \in Fields THEN Single[v] ELSE v

\* Refresh: every control that is not pending shows its effective value, if it holds such
\* values; writing a property calls its update callback, which does nothing meanwhile.
SlipRefreshing == FALSE
Refreshing == TRUE
\* The values of pending requests are written over.
SlipSkips(asked, c) == FALSE
Skips(asked, c) == asked[c] # None
\* A widget that a person changed counts as showing what is in effect.
SlipShows(c, v) == widget[c] = AsShown(c, v) \/ meant[c] # None
Shows(c, v) == widget[c] = AsShown(c, v)
Refresh(asked) ==
    LET written == {c \in Controls :
            ~Skips(asked, c) /\ Holds(c, effective'[c]) /\ ~Shows(c, effective'[c])}
    IN  /\ widget' = [c \in Controls |->
               IF c \in written THEN AsShown(c, effective'[c]) ELSE widget[c]]
        /\ pending' = [c \in Controls |->
               IF ~Refreshing /\ c \in written /\ Carried(Sent(c, widget'[c]))
               THEN Sent(c, widget'[c]) ELSE asked[c]]
        /\ UNCHANGED meant
-----------------------------------------------------------------------------
\* Turns of the timer in which something changed: the link is moved, and what changed is
\* shown.  In any other turn nothing is refreshed.

Connects ==
    /\ session = "none" /\ session' = "opening"
    /\ UNCHANGED effective /\ Refresh(pending)
Opens ==
    /\ session = "opening" /\ session' = "open"
    /\ UNCHANGED effective /\ Refresh(pending)
\* The session ends, and what it knew with it.
Ends ==
    /\ session # "none" /\ session' = "none"
    /\ effective' = NothingPending /\ Refresh(NothingPending)
\* A tool state: some of the requests were applied, and values in effect are reported: numbers,
\* vectors and texts, never what a checkbox holds (session.py:39, 210-211).
Reported == Numbers \cup Words \cup {Odd, None}
Told == {e \in [Controls -> Reported] : \A c \in Controls : Holds(c, e[c]) \/ e[c] \in {Odd, None}}
Reports ==
    /\ session = "open" /\ session' = "open"
    /\ effective' \in Told
    /\ \E applied \in SUBSET {c \in Controls : pending[c] # None} :
         Refresh([c \in Controls |-> IF c \in applied THEN None ELSE pending[c]])

Turn == Connects \/ Opens \/ Ends \/ Reports
Next == Turn \/ \E c \in Controls : \E s \in Inputs(c) : Change(c, s)

Spec == Init /\ [][Next]_vars
\* A session opens, and the Realtime Plane reports what it was asked for; it need not report
\* anything otherwise.
FairSpec ==
    /\ Spec
    /\ WF_vars(Connects) /\ WF_vars(Opens)
    /\ WF_vars(Reports /\ pending # NothingPending)
-----------------------------------------------------------------------------
\* Without a session nothing is pending and nothing is known (link.py:157).
TypeOK ==
    /\ session \in {"none", "opening", "open"}
    /\ pending \in [Controls -> Numbers \cup Words \cup {None}]
    /\ effective \in [Controls -> Reported]
    /\ session = "none" => pending = NothingPending /\ effective = NothingPending
    /\ \A c \in Controls : widget[c] \in Inputs(c) /\ meant[c] \in Inputs(c) \cup {None}
    /\ DOMAIN widget = Controls /\ DOMAIN meant = Controls

\* Only a person asks for anything: whatever is pending is what they last asked for with that
\* control, a number as the shortest decimal of it (ui_projection.py:118-132).  A widget that
\* is refreshed never asks for the value it is made to show (159).
AskedIsMeant ==
    \A c \in Controls : pending[c] # None => meant[c] # None /\ pending[c] = Sent(c, meant[c])

\* A value that was asked for and is not in effect yet stays in its widget (ui_projection.py:
\* 19-20, 164-168), however often others are refreshed, but for a text put in since that no
\* action carries.
PendingIsShown ==
    \A c \in Controls : pending[c] # None =>
        widget[c] = AsShown(c, pending[c]) \/ widget[c] \in Refused

\* Otherwise the widget shows what is in effect, if it holds such values, but for a text put
\* in since that no action carries; also when the Realtime Plane took another value than it
\* was asked for.
ShowsWhatIsInEffect ==
    \A c \in Controls : pending[c] = None /\ Holds(c, effective[c]) =>
        widget[c] = AsShown(c, effective[c]) \/ widget[c] \in Refused

\* "The control shows the state binding's effective value" (ui_projection.py:17-18) again at
\* last, after a change that the target refused.
RefusedIsTakenBack ==
    \A c \in Controls :
        (session = "open" /\ pending[c] = None /\ Holds(c, effective[c]))
            ~> (session # "open" \/ pending[c] # None \/ ~Holds(c, effective[c])
                \/ widget[c] = AsShown(c, effective[c]))
=============================================================================
