--------------------------- MODULE SettingExchange ---------------------------
(***************************************************************************)
(* What a session promises about the settings a person changes, whatever    *)
(* the Realtime Plane and the transport do: a value asked for stays pending *)
(* until a report shows that very value in effect, a later one replaces it, *)
(* and the only other way out is the end of the session.                    *)
(* (extension/realtime_plane/session.py:8-18)                               *)
(***************************************************************************)
CONSTANTS Settings, Values, None

VARIABLES open, pending, effective
exchangeVars == <<open, pending, effective>>

Init ==
    /\ open = TRUE
    /\ pending = [k \in Settings |-> None]
    /\ effective = [k \in Settings |-> None]

Ask(k, v) ==
    /\ open
    /\ pending' = [pending EXCEPT ![k] = v]
    /\ UNCHANGED <<open, effective>>

\* A report settles some of the pending settings and may show anything of the others.
Report ==
    /\ open /\ open' = TRUE
    /\ effective' \in [Settings -> Values]
    /\ \E settled \in SUBSET {k \in Settings : pending[k] # None} :
         /\ pending' = [k \in Settings |-> IF k \in settled THEN None ELSE pending[k]]
         /\ \A k \in settled : effective'[k] = pending[k]

Finish ==
    /\ open /\ open' = FALSE
    /\ pending' = [k \in Settings |-> None]
    /\ UNCHANGED effective

Next == (\E k \in Settings, v \in Values : Ask(k, v)) \/ Report \/ Finish

Spec == Init /\ [][Next]_exchangeVars
=============================================================================
