---------------------------- MODULE MCPrediction ----------------------------
(***************************************************************************)
(* Prediction on a strip one player high: a position is a column.          *)
(***************************************************************************)
EXTENDS Prediction

Left  == [NoInput EXCEPT !.left = TRUE]
Right == [NoInput EXCEPT !.right = TRUE]
Keys  == {Left, Right, NoInput}

At(x) == [x |-> x, y |-> 1]

Centre   == At(3)
AllSpots == {At(x) : x \in 1 .. 5}
=============================================================================
