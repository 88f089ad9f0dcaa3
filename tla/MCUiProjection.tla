--------------------------- MODULE MCUiProjection ---------------------------
(* UiProjection for TLC: two 32-bit numbers, 0 and 2, each with the shortest decimal, 1 and 3,
   that it stands for. *)
EXTENDS UiProjection, TLC

CONSTANTS field, text, checkbox, short, other, long, yes, no, odd, none

Nearest == 0 :> 0 @@ 1 :> 0 @@ 2 :> 2 @@ 3 :> 2
Decimal == 0 :> 1 @@ 2 :> 3
=============================================================================
