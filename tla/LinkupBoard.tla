---------------------------- MODULE LinkupBoard ----------------------------
(***************************************************************************)
(* The geometry of the Linkup board (html/game/linkup/linkup.js): which    *)
(* tiles a tile can be linked to by a line that runs over empty cells of   *)
(* the board and turns at most twice.                                      *)
(*                                                                         *)
(* vis is the set of cells whose tile is visible.  The arrays that the     *)
(* code collects are sets here, for nothing depends on their order.        *)
(***************************************************************************)
EXTENDS Integers, FiniteSets

CONSTANTS Rows, Cols        \* gCanvas.rowNums, gCanvas.colNums

ASSUME BoardAssumption == Rows \in Nat \ {0} /\ Cols \in Nat \ {0}

Cells == (0 .. Rows - 1) \X (0 .. Cols - 1)

Directions == {<<-1, 0>>, <<1, 0>>, <<0, -1>>, <<0, 1>>}

\* How far an arrow may go on the board.
Reach == 1 .. (IF Rows < Cols THEN Cols ELSE Rows) - 1

\* The cell k steps from c in the direction d.
Away(c, d, k) == <<c[1] + k * d[1], c[2] + k * d[2]>>

\* The cells strictly between c and Away(c, d, k).
Between(c, d, k) == {Away(c, d, j) : j \in 1 .. k - 1}

\* The first visible cell in each direction.
getVisiualImgs(vis, c) ==
    {x \in vis : \E d \in Directions, k \in Reach :
                    x = Away(c, d, k) /\ Between(c, d, k) \cap vis = {}}

\* The empty cells in each direction, up to the first visible one.
getUnVisibleImgs(vis, c) ==
    {x \in Cells \ vis : \E d \in Directions, k \in Reach :
                            x = Away(c, d, k) /\ Between(c, d, k) \cap vis = {}}

getVisiualImgsByArr(vis, S)   == UNION {getVisiualImgs(vis, x) : x \in S}
getUnVisiualImgsByArr(vis, S) == UNION {getUnVisibleImgs(vis, x) : x \in S}

\* Mutant: lines with two turns are not looked for.
checkImgOneTurn(vis, a, b) ==
    \/ b \in getVisiualImgs(vis, a)
    \/ b \in getVisiualImgsByArr(vis, getUnVisibleImgs(vis, a))

\* Mutant: only straight lines are looked for.
checkImgStraight(vis, a, b) == b \in getVisiualImgs(vis, a)

\* The cells that can be seen from a without a turn, with one and with two.
checkImg(vis, a, b) ==
    LET uv == getUnVisibleImgs(vis, a)
    IN  \/ b \in getVisiualImgs(vis, a)
        \/ b \in getVisiualImgsByArr(vis, uv)
        \/ b \in getVisiualImgsByArr(vis, getUnVisiualImgsByArr(vis, uv))

-----------------------------------------------------------------------------
(* What the rules of the game mean, said without the search. *)

\* x and y are in one row or column and nothing visible is between them.
ClearLine(vis, x, y) ==
    /\ x[1] = y[1] \/ x[2] = y[2]
    /\ \A z \in vis \ {x, y} :
          ~ /\ z[1] \in (IF x[1] < y[1] THEN x[1] .. y[1] ELSE y[1] .. x[1])
            /\ z[2] \in (IF x[2] < y[2] THEN x[2] .. y[2] ELSE y[2] .. x[2])

\* A line from a to b with the corners p and q, which are empty cells or the ends
\* themselves, in case there are fewer turns.
Linked(vis, a, b) ==
    \E p \in (Cells \ vis) \cup {a}, q \in (Cells \ vis) \cup {b} :
        ClearLine(vis, a, p) /\ ClearLine(vis, p, q) /\ ClearLine(vis, q, b)
=============================================================================
