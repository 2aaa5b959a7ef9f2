------------------------------- MODULE Linkup -------------------------------
(***************************************************************************)
(* The Linkup game (html/game/linkup/linkup.js): a board of tiles that     *)
(* carry pictures, each picture on two tiles; two tiles with one picture   *)
(* that can be linked disappear together.  Clicks on tiles, clicks on the  *)
(* help button and two kinds of timers run one at a time, in any order,    *)
(* and each of them ends by drawing the board, which looks for a pair to   *)
(* hint at and, when there is none, sets a timer that shuffles the tiles.  *)
(*                                                                         *)
(* Pixels are left out: the colours of a selected or hinted tile, the      *)
(* grid, and the texts.                                                    *)
(***************************************************************************)
EXTENDS LinkupBoard

CONSTANTS Pictures,     \* the pictures drawn for this game, by getRandom
          NoTile,       \* undefined
          MaxTimers     \* bound on the timers of a kind that are pending

Copies == 2             \* gImgCopys

ASSUME LinkupAssumption ==
    /\ Cardinality(Pictures) * Copies = Rows * Cols
    /\ NoTile \notin Cells /\ NoTile \notin Cells \X Cells
    /\ MaxTimers \in Nat

VARIABLES img,          \* gImages[row][col].img.src, the picture of a tile
          visible,      \* the cells with .visible
          selected,     \* the cells with .selected
          gPreGrid,     \* the tile chosen before
          oneResult,    \* a pair to hint at
          resets,       \* pending timers for resetImages
          redraws       \* pending timers for drawCanvas

gameVars == <<img, visible, selected, gPreGrid, oneResult, resets, redraws>>

\* The number of cells of C that show the picture p.
Showing(f, C, p) == Cardinality({c \in C : f[c] = p})

GameTypeOK ==
    /\ img \in [Cells -> Pictures]
    /\ visible \in SUBSET Cells
    /\ selected \in SUBSET Cells
    /\ gPreGrid \in Cells \cup {NoTile}
    /\ oneResult \in (Cells \X Cells) \cup {NoTile}
    /\ resets \in 0 .. MaxTimers + 1
    /\ redraws \in 0 .. MaxTimers

-----------------------------------------------------------------------------
(* Drawing, in the state that the handler has come to. *)

Before(a, b) == a[1] < b[1] \/ (a[1] = b[1] /\ a[2] < b[2])

\* The tiles that can disappear with the tile a.
Partners(f, vis, a) == {b \in vis \ {a} : f[b] = f[a] /\ checkImg(vis, a, b)}

Solvable(f, vis) == \E a \in vis : Partners(f, vis, a) # {}

\* The pairs that drawImages may hint at: it takes the first tile, in the order of
\* rows and columns, that has a partner; which of its partners is left open.
Hints(f, vis) ==
    LET movable == {a \in vis : Partners(f, vis, a) # {}}
        first   == {a \in movable : \A other \in movable : ~ Before(other, a)}
    IN  UNION {{a} \X Partners(f, vis, a) : a \in first}

\* Mutant: no timer is set while there is an old hint.
drawCanvasHinted(f, vis, hint, due) ==
    LET hints == Hints(f, vis)
    IN  /\ oneResult' \in IF hints = {} THEN {hint} ELSE hints
        /\ resets' = IF hints = {} /\ vis # {} /\ hint = NoTile THEN due + 1 ELSE due

\* drawImages: no hint is taken back here, and a board that is not solved and has
\* no pair asks for a reset.
drawCanvas(f, vis, hint, due) ==
    LET hints == Hints(f, vis)
    IN  /\ oneResult' \in IF hints = {} THEN {hint} ELSE hints
        /\ resets' = IF hints = {} /\ vis # {} THEN due + 1 ELSE due

\* initImages: so many copies of every picture, put on the cells anyhow.
Deals == {f \in [Cells -> Pictures] : \A p \in Pictures : Showing(f, Cells, p) = Copies}

GameInit ==
    /\ img \in Deals
    /\ visible = Cells
    /\ selected = {}
    /\ gPreGrid = NoTile
    /\ redraws = 0
    /\ LET hints == Hints(img, visible)
       IN  /\ oneResult \in IF hints = {} THEN {NoTile} ELSE hints
           /\ resets = IF hints = {} THEN 1 ELSE 0

-----------------------------------------------------------------------------
(* A click on a tile: checkClick, then drawCanvas without the old hint. *)

\* Mutant: the tile chosen before stays marked.
ChooseMore(c) ==
    /\ selected' = selected \cup {c}
    /\ gPreGrid' = c
    /\ UNCHANGED visible

\* The first tile, or another picture, or the same picture out of reach.
Choose(c) ==
    /\ selected' = (selected \ {gPreGrid}) \cup {c}
    /\ gPreGrid' = c
    /\ UNCHANGED visible

\* The chosen tile again.
Unchoose(c) ==
    /\ selected' = selected \ {c}
    /\ gPreGrid' = NoTile
    /\ UNCHANGED visible

\* Mutant: one tile of the pair stays.
RemoveOne(c) ==
    /\ visible' = visible \ {c}
    /\ gPreGrid' = NoTile
    /\ UNCHANGED selected

RemovePair(c) ==
    /\ visible' = visible \ {gPreGrid, c}
    /\ gPreGrid' = NoTile
    /\ UNCHANGED selected

Pairs(c) ==
    /\ gPreGrid \notin {NoTile, c}
    /\ img[c] = img[gPreGrid]
    /\ checkImg(visible, gPreGrid, c)

\* Mutant: the old hint is not forgotten.
ClickKeepingHint(c) ==
    /\ c \in visible /\ resets <= MaxTimers
    /\ \/ gPreGrid = c /\ Unchoose(c)
       \/ Pairs(c) /\ RemovePair(c)
       \/ gPreGrid # c /\ ~ Pairs(c) /\ Choose(c)
    /\ drawCanvas(img, visible', oneResult, resets)
    /\ UNCHANGED <<img, redraws>>

Click(c) ==
    /\ c \in visible /\ resets <= MaxTimers
    /\ \/ gPreGrid = c /\ Unchoose(c)
       \/ Pairs(c) /\ RemovePair(c)
       \/ gPreGrid # c /\ ~ Pairs(c) /\ Choose(c)
    /\ drawCanvas(img, visible', NoTile, resets)
    /\ UNCHANGED <<img, redraws>>

-----------------------------------------------------------------------------
(* The help button and the timers. *)

\* The selection marks go, the board is drawn, and if there is a hint its two
\* tiles are marked until the next drawing, at the latest when a timer asks for it.
Help ==
    /\ resets <= MaxTimers /\ redraws < MaxTimers
    /\ selected' = {}
    /\ drawCanvas(img, visible, oneResult, resets)
    /\ redraws' = IF oneResult' = NoTile THEN redraws ELSE redraws + 1
    /\ UNCHANGED <<img, visible, gPreGrid>>

\* The visible pictures dealt anew over the visible cells; as the others stay where
\* they are, this again is one of the Deals.
Shuffled(f) ==
    /\ \A c \in Cells \ visible : f[c] = img[c]
    /\ \A p \in Pictures : Showing(f, visible, p) = Showing(img, visible, p)

ResetTo(f) ==
    /\ resets > 0
    /\ img' = f
    /\ drawCanvas(f, visible, oneResult, resets - 1)
    /\ UNCHANGED <<visible, selected, gPreGrid, redraws>>

resetImages == \E f \in Deals : Shuffled(f) /\ ResetTo(f)

\* Mutant: the timer draws again and again.
RedrawForEver ==
    /\ resets <= MaxTimers
    /\ redraws' = redraws - 1
    /\ drawCanvas(img, visible, oneResult, resets)
    /\ UNCHANGED <<img, visible, selected, gPreGrid>>

Redraw ==
    /\ redraws > 0 /\ resets <= MaxTimers
    /\ redraws' = redraws - 1
    /\ drawCanvas(img, visible, oneResult, resets)
    /\ UNCHANGED <<img, visible, selected, gPreGrid>>

GameNext ==
    \/ \E c \in Cells : Click(c)
    \/ Help
    \/ resetImages
    \/ Redraw

GameSpec == GameInit /\ [][GameNext]_gameVars

-----------------------------------------------------------------------------
(* Properties. *)

\* A board that is not finished and has no pair is going to be shuffled, whatever
\* clicks and timers came before (linkup.js:159-180).
NeverStuck == visible # {} /\ ~ Solvable(img, visible) => resets > 0

\* Every picture is on an even number of visible tiles, so that the game can be
\* finished (linkup.js:290-310, 338-361).
PairsKept == \A p \in Pictures : Showing(img, visible, p) % 2 = 0

\* At most one visible tile is marked, and it is the one that the next click will
\* be compared with (linkup.js:338-361).
OneMarked == selected \cap visible \subseteq {gPreGrid} /\ gPreGrid \in visible \cup {NoTile}

\* When no shuffle is pending the hint is right: there is one, unless the game is
\* finished, and its tiles can be removed (linkup.js:161-180, 314-321).
HintIsCurrent ==
    resets = 0 =>
        /\ oneResult = NoTile <=> visible = {}
        /\ oneResult # NoTile =>
              oneResult[1] \in visible /\ oneResult[2] \in Partners(img, visible, oneResult[1])
=============================================================================
