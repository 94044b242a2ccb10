------------------------------ MODULE MCClient ------------------------------
(***************************************************************************)
(* GameClient on instances TLC can enumerate: a strip one player high.     *)
(***************************************************************************)
EXTENDS GameClient

CONSTANT c1

OnlyRight == {[NoInput EXCEPT !.right = TRUE]}

Middle == {[x |-> 2, y |-> 1]}
=============================================================================
