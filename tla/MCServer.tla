------------------------------ MODULE MCServer ------------------------------
(***************************************************************************)
(* ServerSession on instances TLC can enumerate.  The world is a strip one *)
(* player high, so that only left and right move.                          *)
(***************************************************************************)
EXTENDS ServerSession, TLC

CONSTANTS c1, c2

Interchangeable == Permutations(Clients)

Left  == [NoInput EXCEPT !.left = TRUE]
Right == [NoInput EXCEPT !.right = TRUE]

At(x) == [x |-> x, y |-> 1]

LeftOrRight == {Left, Right}
OnlyRight   == {Right}

Middle   == {At(2)}
TwoSpots == {At(1), At(2)}
=============================================================================
