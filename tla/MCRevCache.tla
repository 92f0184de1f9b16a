----------------------------- MODULE MCRevCache -----------------------------
(* Small instances of RevCache for TLC: a row of grid cells, each with the  *)
(* two simplexes at its ends, which it shares with its neighbours.          *)
EXTENDS RevCache, TLC

CONSTANTS a, b, p, q, r, s

TwoCells   == {p, q}
ThreeCells == {p, q, r}
FourCells  == {p, q, r, s}

Ends(n) == [x \in 0..(n - 1) |-> {x, x + 1}]
Row2  == 0..1
Row4  == 0..3
Pts2  == 0..2
Pts4  == 0..4
Ends2 == Ends(2)
Ends4 == Ends(4)

ListsOf4 == {<<0, 1, 2, 3>>, <<3, 1, 3, 0>>, <<2>>}
ListsOf2 == {<<0, 1>>, <<1, 0, 1>>}

Sizes12 == <<1, 2>>
Sizes23 == <<2, 3>>

Symmetry == Permutations(Cells)
=============================================================================
