------------------------------- MODULE UiProofs -------------------------------
(***************************************************************************)
(* Proofs about UiProjection, for every set of controls, numbers and texts:  *)
(* what a widget shows, and that only a person asks for anything.            *)
(*                                                                          *)
(* The three properties rest on each other: a pending value is what was last *)
(* asked for, so it is what the widget has; and a change that is refused     *)
(* leaves a text of those in its widget, or happens without a session, when  *)
(* nothing is pending or in effect.                                          *)
(***************************************************************************)
EXTENDS UiProjection, TLAPS

\* A checkbox has nothing pending, for no action carries what it holds.
CheckboxesNeverPend == \A c \in Checkboxes : pending[c] = None

IInv ==
    /\ TypeOK
    /\ CheckboxesNeverPend
    /\ AskedIsMeant
    /\ PendingIsShown
    /\ ShowsWhatIsInEffect

\* What a widget of each role can be given, and what is sent and shown of it.
LEMMA Rounding ==
    /\ \A v \in Numbers : Single[v] \in Singles
    /\ \A s \in Singles : s \in Numbers /\ Shortest[s] \in Numbers /\ Single[Shortest[s]] = s
<1>1. \A v \in Numbers : Single[v] \in Singles
  BY DEF Singles
<1>2. Singles \subseteq Numbers
  BY NumbersAssumption DEF Singles
<1>3. \A s \in Singles : Shortest[s] \in Numbers /\ Single[Shortest[s]] = s
  BY NumbersAssumption
<1> QED  BY <1>1, <1>2, <1>3

\* A control has one role, which says what its widget can be given.
LEMMA RolesAre ==
    ASSUME NEW c \in Controls
    PROVE  \/ c \in Fields /\ Inputs(c) = Singles /\ (\A v : Holds(c, v) <=> v \in Numbers)
           \/ c \in Texts /\ c \notin Fields /\ Inputs(c) = Words /\ (\A v : Holds(c, v) <=> v \in Words)
           \/ c \in Checkboxes /\ c \notin Fields /\ Inputs(c) = Ticks /\ (\A v : Holds(c, v) <=> v \in Ticks)
BY NumbersAssumption DEF Controls, Inputs, Holds

\* A widget shows every value it holds as something a person could put in.
LEMMA ShownIsAnInput ==
    ASSUME NEW c \in Controls, NEW v, Holds(c, v)
    PROVE  AsShown(c, v) \in Inputs(c)
BY RolesAre, Rounding DEF AsShown

\* What an action carries is shown as it was put in, and is no text that is refused.
LEMMA CarriedIsShown ==
    ASSUME NEW c \in Controls, NEW s \in Inputs(c), Carried(Sent(c, s))
    PROVE  /\ Sent(c, s) \in Numbers \cup Words /\ Sent(c, s) # None
           /\ AsShown(c, Sent(c, s)) = s /\ c \notin Checkboxes
<1>1. CASE c \in Fields
  BY <1>1, RolesAre, Rounding, NumbersAssumption DEF Sent, AsShown
<1>2. CASE c \notin Fields
  BY <1>2, RolesAre, NumbersAssumption DEF Sent, AsShown, Carried
<1> QED  BY <1>1, <1>2

\* What no action carries is a text of those that are refused, or what a checkbox holds.
LEMMA NotCarried ==
    ASSUME NEW c \in Controls, NEW s \in Inputs(c), ~Carried(Sent(c, s))
    PROVE  s \in Refused \/ c \in Checkboxes
<1>1. CASE c \in Fields
  <2>1. Sent(c, s) \in Numbers
    BY <1>1, RolesAre, Rounding, NumbersAssumption DEF Sent
  <2> QED  BY <2>1, NumbersAssumption DEF Carried
<1>2. CASE c \notin Fields
  BY <1>2, RolesAre, NumbersAssumption DEF Sent, Carried
<1> QED  BY <1>1, <1>2

\* The widgets start at their defaults, with nothing asked and nothing pending.
LEMMA InitIInv == Init => IInv
<1> SUFFICES ASSUME Init PROVE IInv
  OBVIOUS
<1>1. \A c \in Controls : (CHOOSE s \in Inputs(c) : TRUE) \in Inputs(c)
  <2> SUFFICES ASSUME NEW c \in Controls PROVE Inputs(c) # {}
    OBVIOUS
  <2>1. Singles # {}
    BY NumbersAssumption DEF Singles
  <2> QED  BY <2>1, RolesAre, NumbersAssumption
<1>2. TypeOK
  BY <1>1 DEF Init, TypeOK, NothingPending, Reported
<1>3. \A c \in Controls : pending[c] = None /\ effective[c] = None
  BY DEF Init, NothingPending
<1>4. CheckboxesNeverPend /\ AskedIsMeant /\ PendingIsShown
  BY <1>3 DEF CheckboxesNeverPend, AskedIsMeant, PendingIsShown, Controls
<1>5. ShowsWhatIsInEffect
  BY <1>3, RolesAre, NumbersAssumption DEF ShowsWhatIsInEffect
<1> QED  BY <1>2, <1>4, <1>5 DEF IInv

\* A change of one widget keeps the invariant.
LEMMA ChangeKeeps ==
    ASSUME IInv, NEW c \in Controls, NEW s \in Inputs(c), Change(c, s)
    PROVE  IInv'
<1>1. /\ TypeOK /\ CheckboxesNeverPend /\ AskedIsMeant /\ PendingIsShown /\ ShowsWhatIsInEffect
  BY DEF IInv
<1>2. /\ widget' = [widget EXCEPT ![c] = s] /\ session' = session /\ effective' = effective
      /\ DOMAIN widget = Controls /\ DOMAIN meant = Controls /\ DOMAIN pending = Controls
  BY <1>1 DEF Change, TypeOK
<1>3. /\ widget'[c] = s /\ DOMAIN widget' = Controls
      /\ \A d \in Controls : d # c => widget'[d] = widget[d]
  BY <1>2
<1>4. CASE Takes(c, s)
  <2>1. /\ pending' = [pending EXCEPT ![c] = Sent(c, s)] /\ meant' = [meant EXCEPT ![c] = s]
        /\ session # "none" /\ Carried(Sent(c, s))
    BY <1>4 DEF Change, Takes
  <2>2. /\ pending'[c] = Sent(c, s) /\ meant'[c] = s /\ DOMAIN meant' = Controls
        /\ \A d \in Controls : d # c => pending'[d] = pending[d] /\ meant'[d] = meant[d]
    BY <1>2, <2>1
  <2>3. /\ Sent(c, s) \in Numbers \cup Words /\ Sent(c, s) # None
        /\ AsShown(c, Sent(c, s)) = s /\ c \notin Checkboxes
    BY <2>1, CarriedIsShown
  <2>4. TypeOK'
    BY <1>1, <1>2, <1>3, <2>1, <2>2, <2>3 DEF TypeOK, Inputs
  <2>5. CheckboxesNeverPend'
    BY <1>1, <2>2, <2>3 DEF CheckboxesNeverPend, Controls
  <2>6. AskedIsMeant'
    <3>1. s # None
      BY RolesAre, Rounding, NumbersAssumption
    <3> QED  BY <1>1, <2>2, <3>1 DEF AskedIsMeant, Sent
  <2>7. PendingIsShown'
    BY <1>1, <1>3, <2>2, <2>3 DEF PendingIsShown, AsShown
  <2>8. ShowsWhatIsInEffect'
    BY <1>1, <1>2, <1>3, <2>2, <2>3 DEF ShowsWhatIsInEffect, AsShown, Holds
  <2> QED  BY <2>4, <2>5, <2>6, <2>7, <2>8 DEF IInv
<1>5. CASE ~Takes(c, s)
  <2>1. pending' = pending /\ meant' = meant
    BY <1>5 DEF Change
  <2>2. \/ pending[c] = None /\ effective[c] = None
        \/ s \in Refused \/ c \in Checkboxes
    BY <1>1, <1>5, NotCarried DEF Takes, TypeOK, NothingPending
  <2>3. TypeOK'
    BY <1>1, <1>2, <1>3, <2>1 DEF TypeOK, Inputs, NothingPending
  <2>4. CheckboxesNeverPend' /\ AskedIsMeant'
    BY <1>1, <2>1 DEF CheckboxesNeverPend, AskedIsMeant, Sent
  <2>5. PendingIsShown'
    BY <1>1, <1>3, <2>1, <2>2 DEF PendingIsShown, AsShown, CheckboxesNeverPend
  <2>6. c \in Checkboxes \/ effective[c] = None => ~Holds(c, effective[c])
    BY <1>1, RolesAre, NumbersAssumption DEF TypeOK, Reported
  <2>7. ShowsWhatIsInEffect'
    BY <1>1, <1>2, <1>3, <2>1, <2>2, <2>6 DEF ShowsWhatIsInEffect, AsShown, Holds
  <2> QED  BY <2>3, <2>4, <2>5, <2>7 DEF IInv
<1> QED  BY <1>4, <1>5

\* A refresh over what the link left pending keeps the invariant, whatever it reports.
LEMMA RefreshKeeps ==
    ASSUME IInv, NEW asked,
           asked \in [Controls -> Numbers \cup Words \cup {None}],
           \A c \in Controls : asked[c] \in {pending[c], None},
           effective' \in [Controls -> Reported],
           session' \in {"none", "opening", "open"},
           session' = "none" => asked = NothingPending /\ effective' = NothingPending,
           Refresh(asked)
    PROVE  IInv'
<1> USE DEF IInv
<1> DEFINE written == {c \in Controls :
               ~Skips(asked, c) /\ Holds(c, effective'[c]) /\ ~Shows(c, effective'[c])}
<1>1. /\ pending' = asked /\ meant' = meant
      /\ widget' = [c \in Controls |->
                      IF c \in written THEN AsShown(c, effective'[c]) ELSE widget[c]]
  <2>1. pending' = [c \in Controls |-> asked[c]]
    BY DEF Refresh, Refreshing
  <2> QED  BY <2>1 DEF Refresh
<1>2. TypeOK'
  <2>1. \A c \in Controls : widget'[c] \in Inputs(c)
    BY <1>1, ShownIsAnInput DEF TypeOK
  <2> QED  BY <1>1, <2>1 DEF TypeOK, NothingPending, Inputs
<1>3. CheckboxesNeverPend' /\ AskedIsMeant'
  BY <1>1 DEF CheckboxesNeverPend, AskedIsMeant, Controls, Sent
<1>4. PendingIsShown'
  <2> SUFFICES ASSUME NEW c \in Controls, asked[c] # None
               PROVE  widget'[c] = AsShown(c, asked[c]) \/ widget'[c] \in Refused
    BY <1>1 DEF PendingIsShown, AsShown
  <2>1. c \notin written /\ asked[c] = pending[c]
    BY DEF Skips
  <2> QED  BY <1>1, <2>1 DEF PendingIsShown
<1>5. ShowsWhatIsInEffect'
  <2> SUFFICES ASSUME NEW c \in Controls, asked[c] = None, Holds(c, effective'[c])
               PROVE  widget'[c] = AsShown(c, effective'[c])
    BY <1>1 DEF ShowsWhatIsInEffect, Holds, AsShown
  <2> QED  BY <1>1 DEF Skips, Shows
<1> QED  BY <1>2, <1>3, <1>4, <1>5

\* Every change of a widget, refresh and end of a session keeps the invariant.
LEMMA NextKeeps == IInv /\ [Next]_vars => IInv'
<1> SUFFICES ASSUME IInv, [Next]_vars PROVE IInv'
  OBVIOUS
<1>0. TypeOK
  BY DEF IInv
<1>1. CASE Connects
  BY <1>0, <1>1, RefreshKeeps DEF Connects, TypeOK
<1>2. CASE Opens
  BY <1>0, <1>2, RefreshKeeps DEF Opens, TypeOK
<1>3. CASE Ends
  <2>1. NothingPending \in [Controls -> Numbers \cup Words \cup {None}]
    BY DEF NothingPending
  <2>2. \A c \in Controls : NothingPending[c] \in {pending[c], None}
    BY DEF NothingPending
  <2>3. effective' \in [Controls -> Reported]
    BY <1>3 DEF Ends, NothingPending, Reported
  <2> QED  BY <1>3, <2>1, <2>2, <2>3, RefreshKeeps DEF Ends
<1>4. CASE Reports
  <2>1. PICK applied \in SUBSET {c \in Controls : pending[c] # None} :
            Refresh([c \in Controls |-> IF c \in applied THEN None ELSE pending[c]])
    BY <1>4 DEF Reports
  <2> DEFINE asked == [c \in Controls |-> IF c \in applied THEN None ELSE pending[c]]
  <2>2. asked \in [Controls -> Numbers \cup Words \cup {None}]
    BY <1>0 DEF TypeOK
  <2>3. \A c \in Controls : asked[c] \in {pending[c], None}
    OBVIOUS
  <2>4. /\ session' = "open"
        /\ effective' \in [Controls -> Reported]
    BY <1>4 DEF Reports, Told
  <2>5. Refresh(asked)
    BY <2>1
  <2> HIDE DEF asked
  <2> QED  BY <2>2, <2>3, <2>4, <2>5, RefreshKeeps
<1>5. CASE \E c \in Controls : \E s \in Inputs(c) : Change(c, s)
  BY <1>5, ChangeKeeps
<1>6. CASE UNCHANGED vars
  BY <1>6 DEF IInv, TypeOK, CheckboxesNeverPend, AskedIsMeant, PendingIsShown,
       ShowsWhatIsInEffect, Holds, AsShown, Sent, Inputs, vars, targetVars, NothingPending
<1> QED  BY <1>1, <1>2, <1>3, <1>4, <1>5, <1>6 DEF Next, Turn

\* The inductive invariant: what every reachable state of the widgets and the link satisfies,
\* whatever a person changes and the Realtime Plane reports (ui_projection.py:135-173).
THEOREM UiInvariant == Spec => []IInv
BY InitIInv, NextKeeps, PTL DEF Spec

\* A refresh never asks for the value it shows; what is asked is what a person meant
\* (ui_projection.py:118-132, 159).
THEOREM OnlyAPersonAsks == Spec => []AskedIsMeant
<1>1. IInv => AskedIsMeant
  BY DEF IInv
<1> QED  BY <1>1, UiInvariant, PTL

\* A value that is pending stays in its widget (ui_projection.py:164-168), unless a person
\* put in a text since that no action carries.
THEOREM PendingStays == Spec => []PendingIsShown
<1>1. IInv => PendingIsShown
  BY DEF IInv
<1> QED  BY <1>1, UiInvariant, PTL

\* Whatever is not pending shows what is in effect (ui_projection.py:17-18, 169-171), unless
\* a person put in a text that no action carries.
THEOREM EffectiveIsShown == Spec => []ShowsWhatIsInEffect
<1>1. IInv => ShowsWhatIsInEffect
  BY DEF IInv
<1> QED  BY <1>1, UiInvariant, PTL
=============================================================================
