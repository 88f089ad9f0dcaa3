---------------------------- MODULE MCCanvasImage ----------------------------
(* Small instances of CanvasImage for TLC. *)
EXTENDS CanvasImage, TLC

CONSTANTS t1, t2, none

OneTile == {t1}
TwoTiles == {t1, t2}
OneSize == {1}
TwoSizes == {1, 2}
Same == Permutations(Tiles)
=============================================================================
