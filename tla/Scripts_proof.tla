--------------------------- MODULE Scripts_proof ---------------------------
(***************************************************************************)
(* Proofs about the game and the editor of the pages.                      *)
(*                                                                         *)
(* What the Linkup game keeps whatever the size of its board and the       *)
(* number of its pictures: every handler ends by drawing the board, and    *)
(* the drawing alone settles which hint there is and whether a shuffle is  *)
(* due.  Which tiles can be linked does not matter for that, so checkImg   *)
(* stays unexpanded in the proofs about the game.  What it finds is the    *)
(* subject of the last part, for any tiles on a board of any size: those   *)
(* that a line with two turns at most links.                               *)
(*                                                                         *)
(* What the editor keeps, for any texts, any cleaning of HTML that does    *)
(* nothing the second time, any length of the history and whatever its     *)
(* user and page do: the form posts what is shown, the history begins with *)
(* the first text, undo and redo take each other back and in the end get   *)
(* to that text, and nothing is left behind when the editor is removed but *)
(* the dialogs that were open.                                             *)
(*                                                                         *)
(* The invariant (Sound) says of an editor that is there that its          *)
(* listeners, handlers and icons are those that were made last, that the   *)
(* dialogs in the document are those left behind and those of the stack,   *)
(* of which there are one for a picture and one for its file at most, with *)
(* frames and elements that no other has, that a menu is open only where   *)
(* it can be used, and that its history begins with the first text.        *)
(***************************************************************************)
EXTENDS Linkup, Editor, BoardsAndPages, FiniteSetTheorems, WellFoundedInduction, TLAPS

-----------------------------------------------------------------------------
(* The game. *)

\* What a drawing of the board leaves behind: the hint is one of the pairs there
\* are, or a shuffle is due, or there is nothing to remove.
Drawn(f, vis, result, reset) ==
    /\ Hints(f, vis) # {} => result \in Hints(f, vis)
    /\ vis # {} /\ Hints(f, vis) = {} => reset > 0
    /\ vis = {} => result = NoTile

GameInv ==
    /\ GameTypeOK
    /\ Drawn(img, visible, oneResult, resets)

-----------------------------------------------------------------------------
(* The pairs that a board has. *)

\* A hint is a pair of visible tiles of which the second is a partner of the first.
LEMMA HintIsPair ==
    ASSUME NEW f, NEW vis, NEW h \in Hints(f, vis)
    PROVE  h[1] \in vis /\ h[2] \in Partners(f, vis, h[1]) /\ h \in vis \X vis
<1> DEFINE movable == {a \in vis : Partners(f, vis, a) # {}}
           first   == {a \in movable : \A other \in movable : ~ Before(other, a)}
<1>1. PICK a \in first : h \in {a} \X Partners(f, vis, a)
  BY DEF Hints
<1>2. a \in vis
  OBVIOUS
<1>3. Partners(f, vis, a) \subseteq vis
  BY DEF Partners
<1>4. PICK b \in Partners(f, vis, a) : h = <<a, b>>
  BY <1>1
<1>5. h[1] = a /\ h[2] = b
  BY <1>4
<1> QED
  BY <1>2, <1>3, <1>4, <1>5

\* A board with a hint has a pair.
LEMMA HintSolves ==
    ASSUME NEW f, NEW vis, Hints(f, vis) # {}
    PROVE  Solvable(f, vis)
<1>1. PICK h : h \in Hints(f, vis)
  OBVIOUS
<1>2. h[1] \in vis /\ h[2] \in Partners(f, vis, h[1])
  BY <1>1, HintIsPair
<1> QED
  BY <1>2 DEF Solvable

\* A hint on a board is no NoTile.
LEMMA HintIsSome ==
    ASSUME NEW f, NEW vis \in SUBSET Cells
    PROVE  Hints(f, vis) \subseteq Cells \X Cells /\ NoTile \notin Hints(f, vis)
<1>1. ASSUME NEW h \in Hints(f, vis) PROVE h \in Cells \X Cells
  <2>1. h \in vis \X vis
    BY HintIsPair
  <2> QED
    BY <2>1
<1> QED
  BY <1>1, LinkupAssumption

\* An empty board has no hint.
LEMMA NothingToHint ==
    ASSUME NEW f
    PROVE  Hints(f, {}) = {}
<1>1. ASSUME NEW h \in Hints(f, {}) PROVE FALSE
  BY <1>1, HintIsPair
<1> QED
  BY <1>1

-----------------------------------------------------------------------------
(* Drawing. *)

\* Whatever is drawn, afterwards the hint is right or a shuffle is due; the old hint
\* matters only where the board is empty.
LEMMA DrawingSettles ==
    ASSUME NEW f, NEW vis \in SUBSET Cells, NEW hint \in (Cells \X Cells) \cup {NoTile},
           NEW reset \in 0 .. MaxTimers,
           vis = {} => hint = NoTile,
           drawCanvas(f, vis, hint, reset)
    PROVE  /\ Drawn(f, vis, oneResult', resets')
           /\ oneResult' \in (Cells \X Cells) \cup {NoTile}
           /\ resets' \in 0 .. MaxTimers + 1
<1>1. reset \in Nat /\ reset <= MaxTimers
  BY LinkupAssumption
<1>2. /\ oneResult' \in IF Hints(f, vis) = {} THEN {hint} ELSE Hints(f, vis)
      /\ resets' = IF Hints(f, vis) = {} /\ vis # {} THEN reset + 1 ELSE reset
  BY DEF drawCanvas
<1>3. CASE Hints(f, vis) = {}
  <2>1. oneResult' = hint
    BY <1>2, <1>3
  <2>2. resets' \in 0 .. MaxTimers + 1 /\ (vis # {} => resets' > 0)
    BY <1>1, <1>2, <1>3, LinkupAssumption
  <2> QED
    BY <1>3, <2>1, <2>2 DEF Drawn
<1>4. CASE Hints(f, vis) # {}
  <2>1. oneResult' \in Hints(f, vis) /\ resets' = reset
    BY <1>2, <1>4
  <2>2. vis # {}
    BY <1>4, NothingToHint
  <2>3. oneResult' \in Cells \X Cells
    BY <2>1, HintIsSome
  <2>4. reset \in 0 .. MaxTimers + 1
    BY <1>1, LinkupAssumption
  <2> QED
    BY <1>4, <2>1, <2>2, <2>3, <2>4 DEF Drawn
<1> QED
  BY <1>3, <1>4

-----------------------------------------------------------------------------
(* The handlers. *)

\* A new game is drawn.
LEMMA GameStarts == GameInit => GameInv
<1> SUFFICES ASSUME GameInit PROVE GameInv
  OBVIOUS
<1>1. /\ img \in [Cells -> Pictures] /\ visible = Cells /\ selected = {}
      /\ gPreGrid = NoTile /\ redraws = 0
      /\ oneResult \in IF Hints(img, visible) = {} THEN {NoTile} ELSE Hints(img, visible)
      /\ resets = IF Hints(img, visible) = {} THEN 1 ELSE 0
  BY DEF GameInit, Deals
<1>2. <<0, 0>> \in Cells
  BY BoardAssumption DEF Cells
<1>3. visible \in SUBSET Cells /\ visible # {}
  BY <1>1, <1>2
<1>4. oneResult \in (Cells \X Cells) \cup {NoTile}
  BY <1>1, <1>3, HintIsSome
<1>5. resets \in 0 .. MaxTimers + 1 /\ redraws \in 0 .. MaxTimers
  BY <1>1, LinkupAssumption
<1>6. GameTypeOK
  BY <1>1, <1>3, <1>4, <1>5 DEF GameTypeOK
<1>7. Drawn(img, visible, oneResult, resets)
  BY <1>1, <1>3 DEF Drawn
<1> QED
  BY <1>6, <1>7 DEF GameInv

\* A click draws the board without the old hint, whatever became of the tiles.
LEMMA ClickDraws == ASSUME GameInv, NEW c \in Cells, Click(c) PROVE GameInv'
<1>1. /\ visible' \in SUBSET Cells
      /\ selected' \in SUBSET Cells
      /\ gPreGrid' \in Cells \cup {NoTile}
  BY DEF GameInv, GameTypeOK, Click, Choose, Unchoose, RemovePair
<1>2. resets \in 0 .. MaxTimers
  BY LinkupAssumption DEF GameInv, GameTypeOK, Click
<1>3. drawCanvas(img, visible', NoTile, resets) /\ img' = img /\ redraws' = redraws
  BY DEF Click
<1>4. /\ Drawn(img, visible', oneResult', resets')
      /\ oneResult' \in (Cells \X Cells) \cup {NoTile}
      /\ resets' \in 0 .. MaxTimers + 1
  BY <1>1, <1>2, <1>3, DrawingSettles
<1>5. GameTypeOK'
  BY <1>1, <1>3, <1>4 DEF GameInv, GameTypeOK
<1>6. Drawn(img, visible, oneResult, resets)'
  BY <1>3, <1>4 DEF Drawn
<1> QED
  BY <1>5, <1>6 DEF GameInv

\* Help draws the board as it is, and so does a timer that takes the marks back.
LEMMA RedrawingDraws ==
    ASSUME GameInv, resets <= MaxTimers,
           drawCanvas(img, visible, oneResult, resets),
           UNCHANGED <<img, visible, gPreGrid>>,
           selected' \in SUBSET Cells,
           redraws' \in 0 .. MaxTimers
    PROVE  GameInv'
<1>1. resets \in 0 .. MaxTimers /\ visible \in SUBSET Cells
  BY LinkupAssumption DEF GameInv, GameTypeOK
<1>2. oneResult \in (Cells \X Cells) \cup {NoTile} /\ (visible = {} => oneResult = NoTile)
  BY DEF GameInv, GameTypeOK, Drawn
<1>3. /\ Drawn(img, visible, oneResult', resets')
      /\ oneResult' \in (Cells \X Cells) \cup {NoTile}
      /\ resets' \in 0 .. MaxTimers + 1
  BY <1>1, <1>2, DrawingSettles
<1>4. GameTypeOK'
  BY <1>3 DEF GameInv, GameTypeOK
<1>5. Drawn(img, visible, oneResult, resets)'
  BY <1>3 DEF Drawn
<1> QED
  BY <1>4, <1>5 DEF GameInv

LEMMA HelpDraws == ASSUME GameInv, Help PROVE GameInv'
<1>1. redraws' \in 0 .. MaxTimers
  BY LinkupAssumption DEF GameInv, GameTypeOK, Help
<1> QED
  BY <1>1, RedrawingDraws DEF Help

LEMMA RedrawDraws == ASSUME GameInv, Redraw PROVE GameInv'
<1>1. redraws' \in 0 .. MaxTimers
  BY LinkupAssumption DEF GameInv, GameTypeOK, Redraw
<1>2. selected' \in SUBSET Cells
  BY DEF GameInv, GameTypeOK, Redraw
<1> QED
  BY <1>1, <1>2, RedrawingDraws DEF Redraw

\* A shuffle draws the board that it made; the old hint, which it does not take
\* back, is replaced or another shuffle is due.
LEMMA ResetDraws == ASSUME GameInv, resetImages PROVE GameInv'
<1>1. PICK f \in Deals : ResetTo(f)
  BY DEF resetImages
<1>2. f \in [Cells -> Pictures]
  BY DEF Deals
<1>3. resets - 1 \in 0 .. MaxTimers
  BY <1>1, LinkupAssumption DEF GameInv, GameTypeOK, ResetTo
<1>4. /\ drawCanvas(f, visible, oneResult, resets - 1) /\ img' = f
      /\ UNCHANGED <<visible, selected, gPreGrid, redraws>>
  BY <1>1 DEF ResetTo
<1>5. /\ visible \in SUBSET Cells
      /\ oneResult \in (Cells \X Cells) \cup {NoTile}
      /\ visible = {} => oneResult = NoTile
  BY DEF GameInv, GameTypeOK, Drawn
<1>6. /\ Drawn(f, visible, oneResult', resets')
      /\ oneResult' \in (Cells \X Cells) \cup {NoTile}
      /\ resets' \in 0 .. MaxTimers + 1
  BY <1>3, <1>4, <1>5, DrawingSettles
<1>7. GameTypeOK'
  BY <1>2, <1>4, <1>6 DEF GameInv, GameTypeOK
<1>8. Drawn(img, visible, oneResult, resets)'
  BY <1>4, <1>6 DEF Drawn
<1> QED
  BY <1>7, <1>8 DEF GameInv

LEMMA GameSteps == GameInv /\ [GameNext]_gameVars => GameInv'
<1> SUFFICES ASSUME GameInv, [GameNext]_gameVars PROVE GameInv'
  OBVIOUS
<1>1. ASSUME NEW c \in Cells, Click(c) PROVE GameInv'
  BY <1>1, ClickDraws
<1>2. CASE Help
  BY <1>2, HelpDraws
<1>3. CASE resetImages
  BY <1>3, ResetDraws
<1>4. CASE Redraw
  BY <1>4, RedrawDraws
<1>5. CASE UNCHANGED gameVars
  BY <1>5 DEF gameVars, GameInv, GameTypeOK, Drawn
<1> QED
  BY <1>1, <1>2, <1>3, <1>4, <1>5 DEF GameNext

-----------------------------------------------------------------------------
(* The theorems. *)

\* Tiles, marks, hint and timers keep their types, and the pending shuffles stay
\* within one above the bound (linkup.js:290-361).
THEOREM GameTypesKept == GameSpec => []GameTypeOK
<1>1. GameInv => GameTypeOK
  BY DEF GameInv
<1> QED
  BY <1>1, GameStarts, GameSteps, PTL DEF GameSpec

\* On a board of any size, a board that is not finished and has no pair is going to
\* be shuffled, whatever clicks and timers came before (linkup.js:159-180).
THEOREM NeverStuckEver == GameSpec => []NeverStuck
<1>1. GameInv => NeverStuck
  <2> SUFFICES ASSUME GameInv, visible # {}, ~ Solvable(img, visible) PROVE resets > 0
    BY DEF NeverStuck
  <2>1. Hints(img, visible) = {}
    BY HintSolves
  <2> QED
    BY <2>1 DEF GameInv, Drawn
<1> QED
  BY <1>1, GameStarts, GameSteps, PTL DEF GameSpec

\* On a board of any size, when no shuffle is pending there is a hint unless the
\* game is finished, and its tiles can be removed (linkup.js:161-180, 314-321).
THEOREM HintIsCurrentEver == GameSpec => []HintIsCurrent
<1>1. GameInv => HintIsCurrent
  <2> SUFFICES ASSUME GameInv, resets = 0
               PROVE  /\ oneResult = NoTile <=> visible = {}
                      /\ oneResult # NoTile =>
                            /\ oneResult[1] \in visible
                            /\ oneResult[2] \in Partners(img, visible, oneResult[1])
    BY DEF HintIsCurrent
  <2>1. visible \in SUBSET Cells /\ Drawn(img, visible, oneResult, resets)
    BY DEF GameInv, GameTypeOK
  <2>2. CASE visible = {}
    BY <2>1, <2>2 DEF Drawn
  <2>3. CASE visible # {}
    <3>1. oneResult \in Hints(img, visible)
      BY <2>1, <2>3 DEF Drawn
    <3>2. oneResult # NoTile
      BY <2>1, <3>1, HintIsSome
    <3>3. /\ oneResult[1] \in visible
          /\ oneResult[2] \in Partners(img, visible, oneResult[1])
      BY <3>1, HintIsPair
    <3> QED
      BY <2>3, <3>2, <3>3
  <2> QED
    BY <2>2, <2>3
<1> QED
  BY <1>1, GameStarts, GameSteps, PTL DEF GameSpec

-----------------------------------------------------------------------------
(* The texts and the history. *)

EditorRecord ==
    [container : BOOLEAN, wyswygMode : BOOLEAN, fullscreen : BOOLEAN,
     body : Html, newTextarea : Texts, srcTextarea : Texts,
     undoStack : Seq(Html), redoStack : Seq(Html),
     onchange : Nat, eventStack : SUBSET Nat,
     dialogStack : Seq(Dialog), dialog : Nat, toolbarIcon : SUBSET Commands]

\* What the operations on texts and history leave alone.
SameRest(e, f) ==
    /\ f \in EditorRecord
    /\ f.container = e.container /\ f.wyswygMode = e.wyswygMode /\ f.fullscreen = e.fullscreen
    /\ f.onchange = e.onchange /\ f.eventStack = e.eventStack
    /\ f.dialogStack = e.dialogStack /\ f.dialog = e.dialog /\ f.toolbarIcon = e.toolbarIcon

\* What the source view or the body shows is what e shows.
SameText(e, f) == getSrcData(f) = getSrcData(e)

LEMMA HooksType ==
    ASSUME NEW t \in Texts
    PROVE  /\ execSetHtmlHooks(t) \in Html /\ execSetHtmlHooks(t).text = t
           /\ toData(execSetHtmlHooks(t)) = Clean[t]
BY DEF execSetHtmlHooks, Html, toData

LEMMA DataType == ASSUME NEW h \in Html PROVE toData(h) \in Texts /\ Clean[toData(h)] = toData(h)
BY TextsAssumption DEF toData, Html

LEMMA RefreshedIs ==
    ASSUME NEW e \in EditorRecord
    PROVE  /\ SameRest(e, Refreshed(e)) /\ SameText(e, Refreshed(e))
           /\ Refreshed(e).body = getSrcData(e) /\ getSrcData(e) \in Html
           /\ getSrcData(e) = IF e.wyswygMode THEN e.body ELSE execSetHtmlHooks(e.newTextarea)
           /\ Refreshed(e).newTextarea = e.newTextarea /\ Refreshed(e).srcTextarea = e.srcTextarea
           /\ Refreshed(e).undoStack = e.undoStack /\ Refreshed(e).redoStack = e.redoStack
<1>1. e.newTextarea \in Texts /\ e.body \in Html /\ e.wyswygMode \in BOOLEAN
  BY DEF EditorRecord
<1>2. execSetHtmlHooks(e.newTextarea) \in Html
  BY <1>1, HooksType
<1>3. CASE e.wyswygMode
  BY <1>1, <1>3 DEF Refreshed, SameRest, SameText, getSrcData
<1>4. CASE ~ e.wyswygMode
  BY <1>1, <1>2, <1>4 DEF Refreshed, SameRest, SameText, getSrcData, EditorRecord
<1> QED
  BY <1>3, <1>4

LEMMA SetDataIs ==
    ASSUME NEW e \in EditorRecord
    PROVE  /\ SameRest(e, setData(e)) /\ SameText(e, setData(e))
           /\ setData(e).srcTextarea = getData(e) /\ setData(e).body = getSrcData(e)
           /\ setData(e).newTextarea = e.newTextarea
           /\ setData(e).undoStack = e.undoStack /\ setData(e).redoStack = e.redoStack
<1>1. PICK f \in EditorRecord : f = Refreshed(e)
  BY RefreshedIs DEF SameRest
<1>2. toData(f.body) \in Texts /\ getData(e) = toData(f.body)
  BY <1>1, DataType DEF EditorRecord, getData, getSrcData
<1>3. setData(e) = [f EXCEPT !.srcTextarea = toData(f.body)]
  BY <1>1 DEF setData
<1>4. /\ SameRest(e, f) /\ f.body = getSrcData(e) /\ f.newTextarea = e.newTextarea
      /\ f.undoStack = e.undoStack /\ f.redoStack = e.redoStack
  BY <1>1, RefreshedIs
<1>5. SameRest(e, setData(e))
  BY <1>2, <1>3, <1>4 DEF SameRest, EditorRecord
<1>6. /\ setData(e).srcTextarea = getData(e) /\ setData(e).body = getSrcData(e)
      /\ setData(e).newTextarea = e.newTextarea
      /\ setData(e).undoStack = e.undoStack /\ setData(e).redoStack = e.redoStack
  BY <1>2, <1>3, <1>4 DEF EditorRecord
<1>7. SameText(e, setData(e))
  BY <1>5, <1>6, RefreshedIs DEF SameText, SameRest
<1> QED
  BY <1>5, <1>6, <1>7

\* One more entry, unless it is there already.
LEMMA StackGrows ==
    ASSUME NEW stack \in Seq(Html), NEW html \in Html
    PROVE  /\ addStackData(stack, html) \in Seq(Html) /\ addStackData(stack, html) # <<>>
           /\ Last(addStackData(stack, html)) = html
           /\ addStackData(stack, html)[1] = IF stack = <<>> THEN html ELSE stack[1]
           /\ \/ addStackData(stack, html) = stack
              \/ /\ Front(addStackData(stack, html)) = stack
                 /\ stack # <<>> => Last(stack) # html
<1>1. CASE stack # <<>> /\ Last(stack) = html
  BY <1>1 DEF addStackData
<1>2. CASE ~ (stack # <<>> /\ Last(stack) = html)
  <2>1. addStackData(stack, html) = Append(stack, html)
    BY <1>2 DEF addStackData
  <2>2. /\ Append(stack, html) \in Seq(Html) /\ Append(stack, html) # <<>>
        /\ Last(Append(stack, html)) = html
    BY DEF Last
  <2>3. Front(Append(stack, html)) = stack
    BY DEF Front
  <2>4. Append(stack, html)[1] = IF stack = <<>> THEN html ELSE stack[1]
    OBVIOUS
  <2> QED
    BY <1>2, <2>1, <2>2, <2>3, <2>4
<1> QED
  BY <1>1, <1>2

\* The shorter stack that is left when the last entry is taken.
LEMMA StackShrinks ==
    ASSUME NEW stack \in Seq(Html), stack # <<>>
    PROVE  /\ Last(stack) \in Html /\ Front(stack) \in Seq(Html)
           /\ Front(stack) # <<>> => Front(stack)[1] = stack[1]
           /\ Front(stack) = <<>> => Last(stack) = stack[1]
<1>1. Len(stack) \in Nat /\ Len(stack) # 0
  OBVIOUS
<1>2. Front(stack) \in Seq(Html) /\ Last(stack) \in Html /\ Len(Front(stack)) = Len(stack) - 1
  <2>1. Front(stack) \in Seq(Html)
    BY <1>1 DEF Front
  <2>2. Last(stack) \in Html
    BY <1>1 DEF Last
  <2>3. PICK n \in 0 .. Len(stack) : n = Len(stack) - 1
    <3>1. Len(stack) - 1 \in 0 .. Len(stack)
      BY <1>1
    <3> QED
      BY <3>1
  <2>4. PICK p \in Seq(Html) : p = SubSeq(stack, 1, n)
    BY <2>1, <2>3 DEF Front
  <2>5. Len(p) = n
    BY <2>4
  <2>6. Len(Front(stack)) = Len(stack) - 1
    BY <2>3, <2>4, <2>5 DEF Front
  <2> QED
    BY <2>1, <2>2, <2>6
<1>3. ASSUME Front(stack) # <<>> PROVE Front(stack)[1] = stack[1]
  <2>1. 1 \in 1 .. Len(stack) - 1
    BY <1>1, <1>2, <1>3
  <2> QED
    BY <2>1, <1>1 DEF Front
<1>4. ASSUME Front(stack) = <<>> PROVE Last(stack) = stack[1]
  <2>1. Len(stack) = 1
    BY <1>1, <1>2, <1>4
  <2> QED
    BY <2>1 DEF Last
<1> QED
  BY <1>2, <1>3, <1>4

\* A stack on which html was put, or was too much like the last entry to be put.
Recorded(stack, html, after) == (after = stack /\ stack # <<>>) \/ after = addStackData(stack, html)

LEMMA RecordedIs ==
    ASSUME NEW stack \in Seq(Html), NEW html \in Html, NEW after, Recorded(stack, html, after)
    PROVE  /\ after \in Seq(Html) /\ after # <<>>
           /\ after[1] = IF stack = <<>> THEN html ELSE stack[1]
<1>1. CASE after = stack /\ stack # <<>>
  BY <1>1
<1>2. CASE after = addStackData(stack, html)
  BY <1>2, StackGrows
<1> QED
  BY <1>1, <1>2 DEF Recorded

LEMMA HistoryAddIs ==
    ASSUME NEW e \in EditorRecord, NEW size
    PROVE  /\ SameRest(e, historyAdd(e, size)) /\ SameText(e, historyAdd(e, size))
           /\ historyAdd(e, size).srcTextarea = e.srcTextarea
           /\ historyAdd(e, size).redoStack = e.redoStack
           /\ historyAdd(e, size).body = getSrcData(e)
           /\ Recorded(e.undoStack, getSrcData(e), historyAdd(e, size).undoStack)
<1>1. PICK f \in EditorRecord : f = Refreshed(e)
  BY RefreshedIs DEF SameRest
<1>2. /\ SameRest(e, f) /\ SameText(e, f) /\ f.body = getSrcData(e) /\ f.newTextarea = e.newTextarea
      /\ f.srcTextarea = e.srcTextarea /\ f.undoStack = e.undoStack /\ f.redoStack = e.redoStack
      /\ getSrcData(e) \in Html
  BY <1>1, RefreshedIs
<1>3. CASE SmallChange(f.undoStack, f.body, size)
  <2>1. historyAdd(e, size) = f
    BY <1>1, <1>3 DEF historyAdd
  <2>2. f.undoStack # <<>>
    BY <1>3 DEF SmallChange
  <2> QED
    BY <1>2, <2>1, <2>2 DEF Recorded
<1>4. CASE ~ SmallChange(f.undoStack, f.body, size)
  <2>1. PICK after \in Seq(Html) : after = addStackData(f.undoStack, f.body)
    BY StackGrows DEF EditorRecord
  <2>2. historyAdd(e, size) = [f EXCEPT !.undoStack = after]
    BY <1>1, <1>4, <2>1 DEF historyAdd
  <2>3. /\ SameRest(e, historyAdd(e, size)) /\ historyAdd(e, size).body = f.body
        /\ historyAdd(e, size).newTextarea = f.newTextarea
        /\ historyAdd(e, size).srcTextarea = f.srcTextarea
        /\ historyAdd(e, size).redoStack = f.redoStack
        /\ historyAdd(e, size).undoStack = after
    BY <1>2, <2>2 DEF SameRest, EditorRecord
  <2>4. SameText(e, historyAdd(e, size))
    BY <1>2, <2>3, RefreshedIs DEF SameText, SameRest
  <2> QED
    BY <1>2, <2>1, <2>3, <2>4 DEF Recorded
<1> QED
  BY <1>3, <1>4

\* The handlers of a change have run: the form has what is shown, and history knows it.
Handled(e, f) ==
    /\ SameRest(e, f) /\ SameText(e, f)
    /\ f.srcTextarea = getData(f) /\ f.redoStack = e.redoStack /\ f.body = getSrcData(f)
    /\ Recorded(e.undoStack, getSrcData(e), f.undoStack)

LEMMA ChangedIs == ASSUME NEW e \in EditorRecord PROVE Handled(e, changed(e))
<1>1. PICK f \in EditorRecord : f = setData(e)
  BY SetDataIs DEF SameRest
<1>2. /\ SameRest(e, f) /\ SameText(e, f) /\ f.srcTextarea = getData(e)
      /\ f.undoStack = e.undoStack /\ f.redoStack = e.redoStack
  BY <1>1, SetDataIs
<1>3. changed(e) = historyAdd(f, MinChangeSize)
  BY <1>1 DEF changed
<1>4. /\ SameRest(f, changed(e)) /\ SameText(f, changed(e))
      /\ changed(e).srcTextarea = f.srcTextarea
      /\ changed(e).redoStack = f.redoStack /\ changed(e).body = getSrcData(f)
      /\ Recorded(f.undoStack, getSrcData(f), changed(e).undoStack)
  BY <1>3, HistoryAddIs
<1>5. SameRest(e, changed(e)) /\ SameText(e, changed(e))
  BY <1>2, <1>4 DEF SameRest, SameText
<1>6. changed(e).srcTextarea = getData(changed(e))
  BY <1>2, <1>4, <1>5 DEF getData, SameText
<1> QED
  BY <1>2, <1>4, <1>5, <1>6 DEF Handled, SameText

LEMMA HandlerIs ==
    ASSUME NEW e \in EditorRecord, e.onchange # 0
    PROVE  Handled(e, execOnchangeHandler(e))
BY ChangedIs DEF execOnchangeHandler

\* What is shown when html is taken from a stack.
LEMMA ShownIs ==
    ASSUME NEW e \in EditorRecord, NEW html \in Html
    PROVE  /\ SameRest(e, Shown(e, html)) /\ getSrcData(Shown(e, html)) = execSetHtmlHooks(toData(html))
           /\ getData(Shown(e, html)) = toData(html)
           /\ Shown(e, html).undoStack = e.undoStack /\ Shown(e, html).redoStack = e.redoStack
           /\ Shown(e, html).srcTextarea = e.srcTextarea
<1>1. PICK t \in Texts : t = toData(html) /\ Clean[t] = t
  BY DataType
<1>2. execSetHtmlHooks(t) \in Html /\ toData(execSetHtmlHooks(t)) = t
  BY <1>1, HooksType
<1>3. CASE e.wyswygMode
  <2>1. Shown(e, html) = [e EXCEPT !.body = execSetHtmlHooks(t)]
    BY <1>1, <1>3 DEF Shown
  <2>2. /\ SameRest(e, Shown(e, html)) /\ Shown(e, html).body = execSetHtmlHooks(t)
        /\ Shown(e, html).undoStack = e.undoStack /\ Shown(e, html).redoStack = e.redoStack
        /\ Shown(e, html).srcTextarea = e.srcTextarea
    BY <1>2, <2>1 DEF SameRest, EditorRecord
  <2>3. getSrcData(Shown(e, html)) = execSetHtmlHooks(t)
    BY <1>3, <2>2, RefreshedIs DEF SameRest
  <2> QED
    BY <1>1, <1>2, <2>2, <2>3 DEF getData
<1>4. CASE ~ e.wyswygMode
  <2>1. Shown(e, html) = [e EXCEPT !.newTextarea = t]
    BY <1>1, <1>4 DEF Shown
  <2>2. /\ SameRest(e, Shown(e, html)) /\ Shown(e, html).newTextarea = t
        /\ Shown(e, html).undoStack = e.undoStack /\ Shown(e, html).redoStack = e.redoStack
        /\ Shown(e, html).srcTextarea = e.srcTextarea
    BY <1>2, <2>1 DEF SameRest, EditorRecord
  <2>3. getSrcData(Shown(e, html)) = execSetHtmlHooks(t)
    BY <1>4, <2>2, RefreshedIs DEF SameRest
  <2> QED
    BY <1>1, <1>2, <2>2, <2>3 DEF getData
<1> QED
  BY <1>3, <1>4

\* undo takes the last entry, or the one before it if the last is what is shown.
LEMMA UndoIs ==
    ASSUME NEW e \in EditorRecord, e.undoStack # <<>>
    PROVE  /\ SameRest(e, undo(e))
           /\ undo(e).redoStack = addStackData(e.redoStack, getSrcData(e))
           /\ \E html \in Html :
                 /\ getSrcData(undo(e)) = execSetHtmlHooks(toData(html)) /\ getData(undo(e)) = toData(html)
                 /\ undo(e).undoStack # <<>> => undo(e).undoStack[1] = e.undoStack[1]
                 /\ undo(e).undoStack = <<>> => html = e.undoStack[1]
                 /\ IF getSrcData(e) = Last(e.undoStack) /\ Front(e.undoStack) # <<>>
                    THEN html = Last(Front(e.undoStack)) /\ undo(e).undoStack = Front(Front(e.undoStack))
                    ELSE html = Last(e.undoStack) /\ undo(e).undoStack = Front(e.undoStack)
<1>1. PICK f \in EditorRecord : f = Refreshed(e)
  BY RefreshedIs DEF SameRest
<1>2. /\ SameRest(e, f) /\ f.body = getSrcData(e) /\ getSrcData(e) \in Html
      /\ f.undoStack = e.undoStack /\ f.redoStack = e.redoStack
  BY <1>1, RefreshedIs
<1>3. PICK redone \in Seq(Html) : redone = addStackData(f.redoStack, f.body)
  BY StackGrows DEF EditorRecord
<1>4. PICK kept \in EditorRecord : kept = [f EXCEPT !.redoStack = redone]
  BY <1>3 DEF EditorRecord
<1>5. SameRest(e, kept) /\ kept.redoStack = redone /\ kept.undoStack = e.undoStack
  BY <1>2, <1>4 DEF SameRest, EditorRecord
<1>6. PICK stack \in Seq(Html) : stack = e.undoStack
  BY DEF EditorRecord
<1>7. PICK rest \in Seq(Html) :
          /\ rest = Front(stack) /\ Last(stack) \in Html
          /\ rest # <<>> => rest[1] = stack[1]
          /\ rest = <<>> => Last(stack) = stack[1]
  BY <1>6, StackShrinks
<1>8. \A left \in Seq(Html), html \in Html :
        /\ SameRest(e, Shown([kept EXCEPT !.undoStack = left], html))
        /\ getSrcData(Shown([kept EXCEPT !.undoStack = left], html)) = execSetHtmlHooks(toData(html))
        /\ getData(Shown([kept EXCEPT !.undoStack = left], html)) = toData(html)
        /\ Shown([kept EXCEPT !.undoStack = left], html).undoStack = left
        /\ Shown([kept EXCEPT !.undoStack = left], html).redoStack = redone
  <2> SUFFICES ASSUME NEW left \in Seq(Html), NEW html \in Html
               PROVE  /\ SameRest(e, Shown([kept EXCEPT !.undoStack = left], html))
                      /\ getSrcData(Shown([kept EXCEPT !.undoStack = left], html)) = execSetHtmlHooks(toData(html))
                      /\ getData(Shown([kept EXCEPT !.undoStack = left], html)) = toData(html)
                      /\ Shown([kept EXCEPT !.undoStack = left], html).undoStack = left
                      /\ Shown([kept EXCEPT !.undoStack = left], html).redoStack = redone
    OBVIOUS
  <2>1. PICK h \in EditorRecord : h = [kept EXCEPT !.undoStack = left]
    BY DEF EditorRecord
  <2>2. SameRest(e, h) /\ h.undoStack = left /\ h.redoStack = redone
    BY <2>1, <1>5 DEF SameRest, EditorRecord
  <2>3. /\ SameRest(h, Shown(h, html)) /\ getSrcData(Shown(h, html)) = execSetHtmlHooks(toData(html))
        /\ getData(Shown(h, html)) = toData(html)
        /\ Shown(h, html).undoStack = left /\ Shown(h, html).redoStack = redone
    BY <2>2, ShownIs
  <2>4. SameRest(e, Shown(h, html))
    BY <2>2, <2>3 DEF SameRest
  <2> QED
    BY <2>1, <2>3, <2>4
<1>9. CASE getSrcData(e) = Last(stack) /\ rest # <<>>
  <2>1. PICK left \in Seq(Html) :
          /\ left = Front(rest) /\ Last(rest) \in Html
          /\ left # <<>> => left[1] = stack[1]
          /\ left = <<>> => Last(rest) = stack[1]
    BY <1>7, <1>9, StackShrinks
  <2>2. undo(e) = Shown([kept EXCEPT !.undoStack = left], Last(rest))
    BY <1>1, <1>2, <1>3, <1>4, <1>6, <1>7, <1>9, <2>1 DEF undo
  <2>3. /\ SameRest(e, undo(e)) /\ undo(e).redoStack = redone /\ undo(e).undoStack = left
        /\ getSrcData(undo(e)) = execSetHtmlHooks(toData(Last(rest))) /\ getData(undo(e)) = toData(Last(rest))
    BY <1>8, <2>1, <2>2
  <2> QED
    BY <1>2, <1>3, <1>6, <1>7, <1>9, <2>1, <2>3
<1>10. CASE ~ (getSrcData(e) = Last(stack) /\ rest # <<>>)
  <2>1. undo(e) = Shown([kept EXCEPT !.undoStack = rest], Last(stack))
    BY <1>1, <1>2, <1>3, <1>4, <1>6, <1>7, <1>10 DEF undo
  <2>2. /\ SameRest(e, undo(e)) /\ undo(e).redoStack = redone /\ undo(e).undoStack = rest
        /\ getSrcData(undo(e)) = execSetHtmlHooks(toData(Last(stack))) /\ getData(undo(e)) = toData(Last(stack))
    BY <1>7, <1>8, <2>1
  <2> QED
    BY <1>2, <1>3, <1>6, <1>7, <1>10, <2>2
<1> QED
  BY <1>9, <1>10

LEMMA RedoIs ==
    ASSUME NEW e \in EditorRecord, e.redoStack # <<>>
    PROVE  /\ SameRest(e, redo(e))
           /\ redo(e).undoStack = addStackData(e.undoStack, getSrcData(e))
           /\ Last(e.redoStack) \in Html
           /\ getSrcData(redo(e)) = execSetHtmlHooks(toData(Last(e.redoStack)))
           /\ getData(redo(e)) = toData(Last(e.redoStack))
<1>1. PICK f \in EditorRecord : f = Refreshed(e)
  BY RefreshedIs DEF SameRest
<1>2. /\ SameRest(e, f) /\ f.body = getSrcData(e) /\ getSrcData(e) \in Html
      /\ f.undoStack = e.undoStack /\ f.redoStack = e.redoStack
  BY <1>1, RefreshedIs
<1>3. PICK undone \in Seq(Html) : undone = addStackData(f.undoStack, f.body)
  BY StackGrows DEF EditorRecord
<1>4. PICK left \in Seq(Html) : left = Front(e.redoStack) /\ Last(e.redoStack) \in Html
  BY StackShrinks DEF EditorRecord
<1>5. PICK h \in EditorRecord : h = [f EXCEPT !.undoStack = undone, !.redoStack = left]
  BY DEF EditorRecord
<1>6. SameRest(e, h) /\ h.undoStack = undone
  BY <1>2, <1>5 DEF SameRest, EditorRecord
<1>7. redo(e) = Shown(h, Last(e.redoStack))
  BY <1>1, <1>2, <1>3, <1>4, <1>5 DEF redo
<1>8. /\ SameRest(h, redo(e)) /\ getSrcData(redo(e)) = execSetHtmlHooks(toData(Last(e.redoStack)))
      /\ getData(redo(e)) = toData(Last(e.redoStack)) /\ redo(e).undoStack = undone
  BY <1>4, <1>6, <1>7, ShownIs
<1>9. SameRest(e, redo(e))
  BY <1>6, <1>8 DEF SameRest
<1> QED
  BY <1>2, <1>3, <1>4, <1>8, <1>9

-----------------------------------------------------------------------------
(* What undo and redo do to each other. *)

LEMMA RedoTakesBackUndo ==
    ASSUME NEW e \in EditorRecord, e.onchange # 0, e.undoStack # <<>>
    PROVE  getData(redoClick(undoClick(e))) = getData(e)
<1>1. PICK u \in EditorRecord : u = undo(e)
  BY UndoIs DEF SameRest
<1>2. SameRest(e, u) /\ u.redoStack = addStackData(e.redoStack, getSrcData(e)) /\ u.onchange # 0
  BY <1>1, UndoIs DEF SameRest
<1>3. getSrcData(e) \in Html
  BY RefreshedIs
<1>4. u.redoStack # <<>> /\ Last(u.redoStack) = getSrcData(e)
  BY <1>2, <1>3, StackGrows DEF EditorRecord
<1>5. PICK v : v = undoClick(e)
  OBVIOUS
<1>6. Handled(u, v)
  BY <1>1, <1>2, <1>5, HandlerIs DEF undoClick
<1>7. v \in EditorRecord /\ v.onchange # 0 /\ v.redoStack = u.redoStack
  BY <1>2, <1>6 DEF Handled, SameRest
<1>8. PICK r : r = redo(v)
  OBVIOUS
<1>9. SameRest(v, r) /\ getData(r) = toData(getSrcData(e))
  BY <1>4, <1>7, <1>8, RedoIs
<1>10. r \in EditorRecord /\ r.onchange # 0
  BY <1>7, <1>9 DEF SameRest
<1>11. SameText(r, execOnchangeHandler(r))
  BY <1>10, HandlerIs DEF Handled
<1>12. getData(redoClick(v)) = getData(r)
  BY <1>8, <1>11 DEF redoClick, SameText, getData
<1> QED
  BY <1>5, <1>9, <1>12 DEF getData

LEMMA UndoTakesBackRedo ==
    ASSUME NEW e \in EditorRecord, e.onchange # 0, e.redoStack # <<>>,
           toData(Last(e.redoStack)) # getData(e)
    PROVE  getData(undoClick(redoClick(e))) = getData(e)
<1>1. PICK r \in EditorRecord : r = redo(e)
  BY RedoIs DEF SameRest
<1>2. /\ r.onchange # 0 /\ r.undoStack = addStackData(e.undoStack, getSrcData(e))
      /\ getData(r) = toData(Last(e.redoStack))
  BY <1>1, RedoIs DEF SameRest
<1>3. getSrcData(e) \in Html /\ getSrcData(r) \in Html
  BY RefreshedIs
<1>4. PICK stack \in Seq(Html) : stack = r.undoStack /\ stack # <<>> /\ Last(stack) = getSrcData(e)
  BY <1>2, <1>3, StackGrows DEF EditorRecord
<1>5. getSrcData(r) # getSrcData(e)
  BY <1>2 DEF getData
<1>6. PICK v : v = redoClick(e)
  OBVIOUS
<1>7. Handled(r, v)
  BY <1>1, <1>2, <1>6, HandlerIs DEF redoClick
<1>8. /\ v \in EditorRecord /\ v.onchange # 0 /\ getSrcData(v) = getSrcData(r)
      /\ v.undoStack = stack \/ v.undoStack = addStackData(stack, getSrcData(r))
  BY <1>2, <1>4, <1>7 DEF Handled, SameRest, SameText, Recorded
<1>9. v.undoStack # <<>> /\ getData(undo(v)) = toData(getSrcData(e)) /\ SameRest(v, undo(v))
  <2>1. CASE v.undoStack = stack
    <3>1. v.undoStack # <<>> /\ Last(v.undoStack) # getSrcData(v)
      BY <2>1, <1>4, <1>5, <1>8
    <3> QED
      BY <2>1, <3>1, <1>4, <1>8, UndoIs
  <2>2. CASE v.undoStack = addStackData(stack, getSrcData(r))
    <3>1. /\ v.undoStack # <<>> /\ Last(v.undoStack) = getSrcData(v)
          /\ Front(v.undoStack) = stack
      BY <2>2, <1>3, <1>4, <1>5, <1>8, StackGrows
    <3> QED
      BY <3>1, <1>4, <1>8, UndoIs
  <2> QED
    BY <2>1, <2>2, <1>8
<1>10. PICK u : u = undo(v)
  OBVIOUS
<1>11. u \in EditorRecord /\ u.onchange # 0
  BY <1>8, <1>9, <1>10 DEF SameRest
<1>12. SameText(u, execOnchangeHandler(u))
  BY <1>11, HandlerIs DEF Handled
<1>13. getData(undoClick(v)) = getData(u)
  BY <1>10, <1>12 DEF undoClick, SameText, getData
<1> QED
  BY <1>6, <1>9, <1>10, <1>13 DEF getData

-----------------------------------------------------------------------------
(* What operations do to the first entry and to the form. *)

\* The history begins with the text that the page came with.
FirstKept(e) == e.undoStack # <<>> /\ toData(e.undoStack[1]) = Initial

\* The form has what is shown.
Posted(e) == e.srcTextarea = getData(e)

LEMMA HandledKeepsFirst ==
    ASSUME NEW e \in EditorRecord, NEW f, Handled(e, f)
    PROVE  /\ f \in EditorRecord /\ Posted(f) /\ SameRest(e, f) /\ getData(f) = getData(e)
           /\ FirstKept(e) => FirstKept(f)
           /\ e.undoStack = <<>> /\ getData(e) = Initial => FirstKept(f)
<1>1. f \in EditorRecord /\ Posted(f) /\ SameRest(e, f) /\ getSrcData(e) \in Html
  BY RefreshedIs DEF Handled, SameRest, Posted
<1>2. /\ f.undoStack # <<>>
      /\ f.undoStack[1] = IF e.undoStack = <<>> THEN getSrcData(e) ELSE e.undoStack[1]
  BY <1>1, RecordedIs DEF Handled, EditorRecord
<1>3. getData(f) = getData(e)
  BY DEF Handled, SameText, getData
<1> QED
  BY <1>1, <1>2, <1>3 DEF FirstKept, getData

LEMMA UndoClickIs ==
    ASSUME NEW e \in EditorRecord, e.onchange # 0, FirstKept(e)
    PROVE  SameRest(e, undoClick(e)) /\ FirstKept(undoClick(e)) /\ Posted(undoClick(e))
<1>1. PICK u \in EditorRecord : u = undo(e)
  BY UndoIs DEF SameRest, FirstKept
<1>2. PICK html \in Html :
        /\ getSrcData(u) = execSetHtmlHooks(toData(html)) /\ getData(u) = toData(html)
        /\ u.undoStack # <<>> => u.undoStack[1] = e.undoStack[1]
        /\ u.undoStack = <<>> => html = e.undoStack[1]
  BY <1>1, UndoIs DEF FirstKept
<1>3. SameRest(e, u) /\ u.onchange # 0
  BY <1>1, UndoIs DEF SameRest, FirstKept
<1>4. PICK v : v = undoClick(e)
  OBVIOUS
<1>5. Handled(u, v)
  BY <1>1, <1>3, <1>4, HandlerIs DEF undoClick
<1>6. FirstKept(u) \/ (u.undoStack = <<>> /\ getData(u) = Initial)
  BY <1>2 DEF FirstKept
<1>7. SameRest(u, v) /\ FirstKept(v) /\ Posted(v)
  BY <1>5, <1>6, HandledKeepsFirst
<1> QED
  BY <1>3, <1>4, <1>7 DEF SameRest

LEMMA RedoClickIs ==
    ASSUME NEW e \in EditorRecord, e.onchange # 0, FirstKept(e)
    PROVE  SameRest(e, redoClick(e)) /\ FirstKept(redoClick(e)) /\ Posted(redoClick(e))
<1>1. PICK r : r = redo(e)
  OBVIOUS
<1>2. SameRest(e, r) /\ r \in EditorRecord /\ FirstKept(r)
  <2>1. CASE e.redoStack = <<>>
    <3>1. r = e
      BY <1>1, <2>1 DEF redo
    <3> QED
      BY <3>1 DEF SameRest
  <2>2. CASE e.redoStack # <<>>
    <3>1. SameRest(e, r) /\ r.undoStack = addStackData(e.undoStack, getSrcData(e))
      BY <1>1, <2>2, RedoIs
    <3>2. getSrcData(e) \in Html /\ e.undoStack \in Seq(Html)
      BY RefreshedIs DEF EditorRecord
    <3>3. PICK html \in Html : html = getSrcData(e)
      BY <3>2
    <3>4. PICK stack \in Seq(Html) : stack = e.undoStack /\ stack # <<>>
      BY <3>2 DEF FirstKept
    <3>5. addStackData(stack, html) # <<>> /\ addStackData(stack, html)[1] = stack[1]
      BY <3>4, StackGrows
    <3>6. r.undoStack # <<>> /\ r.undoStack[1] = e.undoStack[1]
      BY <3>1, <3>3, <3>4, <3>5
    <3> QED
      BY <3>1, <3>6 DEF SameRest, FirstKept
  <2> QED
    BY <2>1, <2>2
<1>3. r.onchange # 0
  BY <1>2 DEF SameRest
<1>4. PICK v : v = redoClick(e)
  OBVIOUS
<1>5. Handled(r, v)
  BY <1>1, <1>2, <1>3, <1>4, HandlerIs DEF redoClick
<1>6. SameRest(r, v) /\ FirstKept(v) /\ Posted(v)
  BY <1>2, <1>5, HandledKeepsFirst
<1> QED
  BY <1>2, <1>4, <1>6 DEF SameRest

\* A text is put in, as html or as its source.
LEMMA FullHtmlIs ==
    ASSUME NEW e \in EditorRecord, e.onchange # 0, NEW text \in Texts
    PROVE  /\ SameRest(e, setFullHtml(e, text)) /\ Posted(setFullHtml(e, text))
           /\ setFullHtml(e, text).body = getSrcData(setFullHtml(e, text))
           /\ FirstKept(e) => FirstKept(setFullHtml(e, text))
           /\ e.undoStack = <<>> /\ text = Initial => FirstKept(setFullHtml(e, text))
<1>1. PICK t \in Texts : t = (IF text = Empty THEN Break ELSE text)
  BY TextsAssumption
<1>2. Clean[t] \in Texts /\ (text = Initial => Clean[t] = Initial) /\ Clean[Clean[t]] = Clean[t]
  BY <1>1, TextsAssumption, EditorAssumption
<1>3. PICK h \in Html : h = execSetHtmlHooks(t) /\ toData(h) = Clean[t]
  BY HooksType
<1>4. PICK f \in EditorRecord : f = [e EXCEPT !.body = h]
  BY DEF EditorRecord
<1>5. /\ SameRest(e, f) /\ f.body = h /\ f.undoStack = e.undoStack
  BY <1>4 DEF SameRest, EditorRecord
<1>6. PICK k \in EditorRecord : k = IF f.wyswygMode THEN f ELSE [f EXCEPT !.newTextarea = toData(f.body)]
  BY <1>2, <1>3, <1>5 DEF EditorRecord
<1>7. SameRest(e, k) /\ k.undoStack = e.undoStack /\ k.wyswygMode = f.wyswygMode
  BY <1>5, <1>6 DEF SameRest, EditorRecord
<1>8. getData(k) = Clean[t]
  <2>1. CASE f.wyswygMode
    BY <2>1, <1>3, <1>5, <1>6, <1>7, RefreshedIs DEF getData
  <2>2. CASE ~ f.wyswygMode
    <3>1. k.newTextarea = Clean[t]
      BY <2>2, <1>3, <1>5, <1>6 DEF EditorRecord
    <3>2. getSrcData(k) = execSetHtmlHooks(Clean[t])
      BY <2>2, <3>1, <1>7, RefreshedIs
    <3> QED
      BY <3>2, <1>2, HooksType DEF getData
  <2> QED
    BY <2>1, <2>2
<1>9. k.onchange # 0
  BY <1>7 DEF SameRest
<1>10. PICK v : v = setFullHtml(e, text)
  OBVIOUS
<1>11. v = execOnchangeHandler(k)
  BY <1>1, <1>3, <1>4, <1>6, <1>10 DEF setFullHtml
<1>12. Handled(k, v)
  BY <1>9, <1>11, HandlerIs
<1>13. /\ SameRest(k, v) /\ Posted(v) /\ (FirstKept(k) => FirstKept(v))
       /\ k.undoStack = <<>> /\ getData(k) = Initial => FirstKept(v)
  BY <1>12, HandledKeepsFirst
<1>14. SameRest(e, v)
  BY <1>7, <1>13 DEF SameRest
<1> QED
  BY <1>2, <1>7, <1>8, <1>10, <1>12, <1>13, <1>14 DEF FirstKept, Handled

LEMMA HistoryAddKeeps ==
    ASSUME NEW e \in EditorRecord, NEW size, FirstKept(e), Posted(e)
    PROVE  SameRest(e, historyAdd(e, size)) /\ FirstKept(historyAdd(e, size)) /\ Posted(historyAdd(e, size))
<1>1. PICK f : f = historyAdd(e, size)
  OBVIOUS
<1>2. /\ SameRest(e, f) /\ SameText(e, f) /\ f.srcTextarea = e.srcTextarea
      /\ Recorded(e.undoStack, getSrcData(e), f.undoStack)
  BY <1>1, HistoryAddIs
<1>3. getSrcData(e) \in Html /\ e.undoStack \in Seq(Html)
  BY RefreshedIs DEF EditorRecord
<1>4. f.undoStack # <<>> /\ f.undoStack[1] = e.undoStack[1]
  BY <1>2, <1>3, RecordedIs DEF FirstKept
<1> QED
  BY <1>1, <1>2, <1>4 DEF FirstKept, Posted, SameText, getData

LEMMA CreateIs ==
    ASSUME NEW e \in EditorRecord, e.onchange = 0, NEW n \in Nat,
           FirstKept(e) \/ (e.undoStack = <<>> /\ e.srcTextarea = Initial)
    PROVE  /\ create(e, n) \in EditorRecord /\ create(e, n).container /\ create(e, n).onchange = 1
           /\ create(e, n).wyswygMode = e.wyswygMode /\ create(e, n).fullscreen = e.fullscreen
           /\ create(e, n).eventStack = e.eventStack \cup {n}
           /\ create(e, n).dialogStack = e.dialogStack /\ create(e, n).dialog = e.dialog
           /\ create(e, n).toolbarIcon = (IF e.wyswygMode THEN Commands ELSE AlwaysAble)
           /\ FirstKept(create(e, n)) /\ Posted(create(e, n))
<1>1. /\ e.srcTextarea \in Texts /\ execSetHtmlHooks(Empty) \in Html /\ Empty \in Texts
      /\ e.wyswygMode \in BOOLEAN
  BY TextsAssumption, HooksType DEF EditorRecord
<1>2. PICK built \in EditorRecord :
        built = [e EXCEPT !.container = TRUE, !.body = execSetHtmlHooks(Empty), !.newTextarea = Empty,
                          !.onchange = @ + 1, !.eventStack = @ \cup {n}, !.toolbarIcon = Commands]
  <2>1. PICK some \in SUBSET Nat : some = e.eventStack \cup {n}
    BY DEF EditorRecord
  <2>2. PICK icons \in SUBSET Commands : icons = Commands
    OBVIOUS
  <2>3. PICK one \in Nat : one = e.onchange + 1
    OBVIOUS
  <2>4. [e EXCEPT !.container = TRUE, !.body = execSetHtmlHooks(Empty), !.newTextarea = Empty,
                  !.onchange = one, !.eventStack = some, !.toolbarIcon = icons] \in EditorRecord
    BY <1>1 DEF EditorRecord
  <2> QED
    BY <2>1, <2>2, <2>3, <2>4
<1>3. /\ built.container /\ built.onchange = 1 /\ built.wyswygMode = e.wyswygMode
      /\ built.fullscreen = e.fullscreen /\ built.eventStack = e.eventStack \cup {n}
      /\ built.dialogStack = e.dialogStack /\ built.dialog = e.dialog /\ built.toolbarIcon = Commands
      /\ built.undoStack = e.undoStack
  BY <1>2 DEF EditorRecord
<1>4. PICK view \in EditorRecord :
        view = IF e.wyswygMode THEN built
               ELSE disable([built EXCEPT !.newTextarea = e.srcTextarea], AlwaysAble)
  <2>1. disable([built EXCEPT !.newTextarea = e.srcTextarea], AlwaysAble) \in EditorRecord
    BY <1>1 DEF disable, EditorRecord
  <2> QED
    BY <2>1, <1>1
<1>5. /\ view.container /\ view.onchange = 1 /\ view.wyswygMode = e.wyswygMode
      /\ view.fullscreen = e.fullscreen /\ view.eventStack = e.eventStack \cup {n}
      /\ view.dialogStack = e.dialogStack /\ view.dialog = e.dialog
      /\ view.toolbarIcon = (IF e.wyswygMode THEN Commands ELSE AlwaysAble)
      /\ view.undoStack = e.undoStack
  <2>1. CASE e.wyswygMode
    BY <2>1, <1>3, <1>4
  <2>2. CASE ~ e.wyswygMode
    <3>1. view = [[built EXCEPT !.newTextarea = e.srcTextarea] EXCEPT !.toolbarIcon = @ \cap AlwaysAble]
      BY <2>2, <1>4 DEF disable
    <3>2. Commands \cap AlwaysAble = AlwaysAble
      BY DEF Commands, AlwaysAble
    <3> QED
      BY <2>2, <3>1, <3>2, <1>3 DEF EditorRecord
  <2> QED
    BY <2>1, <2>2
<1>6. PICK f : f = setFullHtml(view, e.srcTextarea)
  OBVIOUS
<1>7. SameRest(view, f) /\ Posted(f) /\ FirstKept(f)
  BY <1>1, <1>5, <1>6, FullHtmlIs DEF FirstKept
<1>8. PICK h : h = historyAdd(f, 0)
  OBVIOUS
<1>9. SameRest(f, h) /\ Posted(h) /\ FirstKept(h)
  BY <1>7, <1>8, HistoryAddKeeps DEF SameRest
<1>10. create(e, n) = h
  BY <1>2, <1>4, <1>6, <1>8 DEF create
<1> QED
  BY <1>5, <1>7, <1>9, <1>10 DEF SameRest

LEMMA RemoveIs ==
    ASSUME NEW e \in EditorRecord
    PROVE  /\ remove(e) \in EditorRecord /\ ~ remove(e).container /\ remove(e).onchange = 0
           /\ remove(e).wyswygMode = e.wyswygMode /\ remove(e).fullscreen = e.fullscreen
           /\ remove(e).eventStack = {} /\ remove(e).dialogStack = <<>>
           /\ remove(e).undoStack = e.undoStack
<1>1. PICK f \in EditorRecord : f = setData(e)
  BY SetDataIs DEF SameRest
<1>2. SameRest(e, f) /\ f.undoStack = e.undoStack
  BY <1>1, SetDataIs
<1>3. remove(e) = [f EXCEPT !.container = FALSE, !.onchange = 0, !.eventStack = {}, !.dialogStack = <<>>]
  BY <1>1 DEF remove
<1>4. PICK dialogs \in Seq(Dialog) : dialogs = <<>>
  <2>1. <<>> \in Seq(Dialog)
    OBVIOUS
  <2> QED
    BY <2>1, Zenon
<1>5. PICK some \in SUBSET Nat : some = {}
  OBVIOUS
<1>6. PICK h \in EditorRecord : h = [f EXCEPT !.container = FALSE, !.onchange = 0]
  BY DEF EditorRecord
<1>7. remove(e) = [h EXCEPT !.eventStack = some, !.dialogStack = dialogs]
  BY <1>3, <1>4, <1>5, <1>6 DEF EditorRecord
<1>8. h = [f EXCEPT !.container = FALSE, !.onchange = 0]
  BY <1>6
<1>9. /\ remove(e) \in EditorRecord /\ ~ remove(e).container /\ remove(e).onchange = 0
      /\ remove(e).wyswygMode = f.wyswygMode /\ remove(e).fullscreen = f.fullscreen
      /\ remove(e).eventStack = some /\ remove(e).dialogStack = dialogs
      /\ remove(e).undoStack = f.undoStack
  BY <1>7, <1>8 DEF EditorRecord
<1> QED
  BY <1>2, <1>4, <1>5, <1>9 DEF SameRest

\* From one view to the other nothing that is shown is lost.
LEMMA ToggleSourceIs ==
    ASSUME NEW e \in EditorRecord, e.onchange # 0, FirstKept(e),
           e.toolbarIcon = (IF e.wyswygMode THEN Commands ELSE AlwaysAble)
    PROVE  /\ toggleSource(e) \in EditorRecord
           /\ toggleSource(e).container = e.container /\ toggleSource(e).fullscreen = e.fullscreen
           /\ toggleSource(e).onchange = e.onchange /\ toggleSource(e).eventStack = e.eventStack
           /\ toggleSource(e).dialogStack = e.dialogStack /\ toggleSource(e).dialog = e.dialog
           /\ toggleSource(e).toolbarIcon = (IF toggleSource(e).wyswygMode THEN Commands ELSE AlwaysAble)
           /\ FirstKept(toggleSource(e))
           /\ Posted(e) \/ ~ e.wyswygMode => Posted(toggleSource(e))
<1>1. Commands \cap AlwaysAble = AlwaysAble /\ AlwaysAble \cup (Commands \ AlwaysAble) = Commands
  BY DEF Commands, AlwaysAble
<1>2. PICK html \in Html, t \in Texts : html = getSrcData(e) /\ t = toData(html) /\ Clean[t] = t
  BY RefreshedIs, DataType
<1>3. CASE e.wyswygMode
  <2>1. toggleSource(e) = [[e EXCEPT !.toolbarIcon = @ \cap AlwaysAble] EXCEPT !.newTextarea = t, !.wyswygMode = FALSE]
    BY <1>2, <1>3 DEF toggleSource, disable, getData
  <2>2. PICK f \in EditorRecord : f = toggleSource(e)
    BY <2>1 DEF EditorRecord
  <2>3. /\ f.container = e.container /\ f.fullscreen = e.fullscreen
        /\ f.onchange = e.onchange /\ f.eventStack = e.eventStack
        /\ f.dialogStack = e.dialogStack /\ f.dialog = e.dialog
        /\ f.toolbarIcon = AlwaysAble /\ ~ f.wyswygMode /\ f.newTextarea = t
        /\ f.undoStack = e.undoStack /\ f.srcTextarea = e.srcTextarea
    BY <1>1, <1>3, <2>1, <2>2 DEF EditorRecord
  <2>4. getData(f) = t
    <3>1. getSrcData(f) = execSetHtmlHooks(t)
      BY <2>3, RefreshedIs
    <3> QED
      BY <3>1, <1>2, HooksType DEF getData
  <2> QED
    BY <1>2, <1>3, <2>2, <2>3, <2>4 DEF FirstKept, Posted, getData
<1>4. CASE ~ e.wyswygMode
  <2>1. PICK h \in EditorRecord : h = setFullHtml(e, e.newTextarea)
    BY FullHtmlIs DEF SameRest, EditorRecord
  <2>2. SameRest(e, h) /\ Posted(h) /\ h.body = getSrcData(h) /\ FirstKept(h)
    BY <2>1, FullHtmlIs DEF EditorRecord
  <2>3. toggleSource(e) = [[h EXCEPT !.toolbarIcon = @ \cup (Commands \ AlwaysAble)] EXCEPT !.wyswygMode = TRUE]
    BY <1>4, <2>1 DEF toggleSource, able
  <2>4. PICK f \in EditorRecord : f = toggleSource(e)
    BY <2>3 DEF EditorRecord
  <2>5. /\ f.container = e.container /\ f.fullscreen = e.fullscreen
        /\ f.onchange = e.onchange /\ f.eventStack = e.eventStack
        /\ f.dialogStack = e.dialogStack /\ f.dialog = e.dialog
        /\ f.toolbarIcon = Commands /\ f.wyswygMode /\ f.body = h.body
        /\ f.undoStack = h.undoStack /\ f.srcTextarea = h.srcTextarea
    BY <1>1, <1>4, <2>2, <2>3, <2>4 DEF EditorRecord, SameRest
  <2>6. getSrcData(f) = getSrcData(h)
    BY <2>2, <2>5, RefreshedIs
  <2> QED
    BY <1>4, <2>2, <2>4, <2>5, <2>6 DEF FirstKept, Posted, getData
<1> QED
  BY <1>3, <1>4

-----------------------------------------------------------------------------
(* Undo makes headway. *)

LEMMA Lengths ==
    ASSUME NEW stack \in Seq(Html), NEW html \in Html
    PROVE  /\ Len(stack) \in Nat
           /\ stack # <<>> => Len(Front(stack)) = Len(stack) - 1
           /\ \/ addStackData(stack, html) = stack
              \/ Len(addStackData(stack, html)) = Len(stack) + 1
<1>1. Len(stack) \in Nat
  OBVIOUS
<1>2. ASSUME stack # <<>> PROVE Len(Front(stack)) = Len(stack) - 1
  <2>1. Front(stack) \in Seq(Html)
    BY <1>2, StackShrinks
  <2>2. PICK n \in 0 .. Len(stack) : n = Len(stack) - 1
    <3>1. Len(stack) - 1 \in 0 .. Len(stack)
      BY <1>1, <1>2
    <3> QED
      BY <3>1
  <2>3. PICK p \in Seq(Html) : p = SubSeq(stack, 1, n)
    BY <2>1, <2>2 DEF Front
  <2>4. Len(p) = n
    BY <2>3
  <2> QED
    BY <2>2, <2>3, <2>4 DEF Front
<1>3. addStackData(stack, html) = stack \/ Len(addStackData(stack, html)) = Len(stack) + 1
  BY DEF addStackData
<1> QED
  BY <1>1, <1>2, <1>3

LEMMA UndoMakesHeadway ==
    ASSUME NEW e \in EditorRecord, e.onchange # 0, FirstKept(e)
    PROVE  UndosLeft(undoClick(e)) < UndosLeft(e) \/ getData(undoClick(e)) = Initial
<1>1. PICK stack \in Seq(Html), html \in Html : stack = e.undoStack /\ stack # <<>> /\ html = getSrcData(e)
  BY RefreshedIs DEF EditorRecord, FirstKept
<1>2. PICK u \in EditorRecord : u = undo(e)
  BY <1>1, UndoIs DEF SameRest
<1>3. u.onchange # 0
  BY <1>1, <1>2, UndoIs DEF SameRest
<1>4. PICK v \in EditorRecord : v = undoClick(e) /\ Handled(u, v)
  BY <1>2, <1>3, HandlerIs DEF undoClick, Handled, SameRest
<1>5. PICK after \in Seq(Html), shown \in Html : after = v.undoStack /\ shown = getSrcData(v) /\ shown = getSrcData(u)
  BY <1>4, RefreshedIs DEF Handled, SameText, EditorRecord
<1>6. PICK left \in Seq(Html) : left = u.undoStack
  BY DEF EditorRecord
<1>7. after = left \/ (after = addStackData(left, shown) /\ after # <<>> /\ Last(after) = shown)
  <2>1. after = left \/ after = addStackData(left, shown)
    BY <1>4, <1>5, <1>6 DEF Handled, Recorded
  <2>2. addStackData(left, shown) # <<>> /\ Last(addStackData(left, shown)) = shown
    BY StackGrows
  <2> QED
    BY <2>1, <2>2
<1>8. UndosLeft(v) = 2 * Len(after) - (IF after # <<>> /\ Last(after) = shown THEN 1 ELSE 0)
  BY <1>5 DEF UndosLeft
<1>9. UndosLeft(e) = 2 * Len(stack) - (IF Last(stack) = html THEN 1 ELSE 0)
  BY <1>1 DEF UndosLeft
<1>10. /\ Len(stack) \in Nat /\ Len(left) \in Nat /\ Len(after) \in Nat
       /\ after = left \/ (Len(after) <= Len(left) + 1 /\ after # <<>> /\ Last(after) = shown)
  BY <1>7, Lengths
<1>11. CASE Last(stack) = html /\ Front(stack) = <<>>
  <2>1. html = stack[1]
    BY <1>11, <1>1, StackShrinks
  <2>2. getData(u) = Initial
    BY <1>1, <1>2, <1>11, <2>1, UndoIs DEF FirstKept
  <2> QED
    BY <2>2, <1>4 DEF Handled, SameText, getData
<1>12. CASE Last(stack) = html /\ Front(stack) # <<>>
  <2>1. left = Front(Front(stack))
    BY <1>1, <1>2, <1>6, <1>12, UndoIs
  <2>2. Len(left) = Len(stack) - 2
    <3>1. PICK rest \in Seq(Html) : rest = Front(stack)
      BY <1>1, StackShrinks
    <3>2. Len(rest) = Len(stack) - 1 /\ Len(Front(rest)) = Len(rest) - 1
      BY <3>1, <1>1, <1>12, Lengths
    <3> QED
      BY <2>1, <3>1, <3>2, <1>10
  <2>3. UndosLeft(v) < UndosLeft(e)
    BY <2>2, <1>8, <1>9, <1>10, <1>12
  <2> QED
    BY <2>3, <1>4
<1>13. CASE Last(stack) # html
  <2>1. left = Front(stack)
    BY <1>1, <1>2, <1>6, <1>13, UndoIs
  <2>2. Len(left) = Len(stack) - 1
    BY <2>1, <1>1, Lengths
  <2>3. UndosLeft(v) < UndosLeft(e)
    BY <2>2, <1>8, <1>9, <1>10, <1>13
  <2> QED
    BY <2>3, <1>4
<1> QED
  BY <1>11, <1>12, <1>13

-----------------------------------------------------------------------------
(* Dialogs, menus and what belongs to the editor in the document. *)

PageRecord ==
    [created : Nat, listeners : SUBSET Nat, menu : {NoMenu, "textcolor"}, mask : BOOLEAN,
     dialogs : SUBSET Nat, left : SUBSET Dialog]

\* The listeners and handlers are those of the editor that is there.
BuiltOk(e, p) ==
    /\ p.listeners = (IF e.container THEN {p.created} ELSE {})
    /\ e.eventStack = (IF e.container THEN {p.created} ELSE {})
    /\ e.onchange = (IF e.container THEN 1 ELSE 0)
    /\ e.container => e.toolbarIcon = (IF e.wyswygMode THEN Commands ELSE AlwaysAble)

\* What dialogs left behind have in the document, and frames that are none of the stack's.
LeftDivs(p) == {d.div : d \in p.left}
Used(p) == {None} \cup {d.frame : d \in p.left}

\* No dialog, that for a picture, or over it that for its file, with other elements and
\* frames than those used.
Stacked(stack, divs, used) ==
    \/ stack = <<>> /\ divs = {}
    \/ \E c \in Dialog : stack = <<c>> /\ c.cmd = "image" /\ divs = {c.div} /\ c.frame \notin used
    \/ \E c \in Dialog, d \in Dialog :
          /\ stack = <<c, d>> /\ c.cmd = "image" /\ d.cmd = "file_manager"
          /\ divs = {c.div, d.div} /\ c.div # d.div /\ c.frame # d.frame
          /\ c.frame \notin used /\ d.frame \notin used

DialogsOk(e, p) ==
    /\ p.mask <=> e.dialogStack # <<>>
    /\ p.mask => e.container /\ e.wyswygMode
    /\ LeftDivs(p) \subseteq p.dialogs /\ IsFiniteSet(p.dialogs) /\ IsFiniteSet(Used(p))
    /\ Stacked(e.dialogStack, p.dialogs \ LeftDivs(p), Used(p))

MenuOk(e, p) == p.menu # NoMenu => e.container /\ e.wyswygMode /\ ~ p.mask

Fits(e, p) == BuiltOk(e, p) /\ DialogsOk(e, p) /\ MenuOk(e, p)

LEMMA SameRestFits ==
    ASSUME NEW e, NEW f, NEW p, SameRest(e, f), Fits(e, p)
    PROVE  Fits(f, p)
BY DEF SameRest, Fits, BuiltOk, DialogsOk, MenuOk

\* What counts of the page for an editor that fits it, but for the menu.
SamePage(p, q) ==
    /\ q \in PageRecord /\ q.created = p.created /\ q.listeners = p.listeners /\ q.mask = p.mask
    /\ q.dialogs = p.dialogs /\ LeftDivs(q) = LeftDivs(p) /\ Used(q) = Used(p)

LEMMA SamePageFits ==
    ASSUME NEW e, NEW p, NEW q, Fits(e, p), SamePage(p, q), MenuOk(e, q)
    PROVE  Fits(e, q)
BY DEF SamePage, Fits, BuiltOk, DialogsOk

LEMMA MenuIsSame ==
    ASSUME NEW p \in PageRecord, NEW menu \in {NoMenu, "textcolor"}, NEW q, q = [p EXCEPT !.menu = menu]
    PROVE  SamePage(p, q) /\ q.menu = menu
<1>1. q \in PageRecord /\ q.left = p.left /\ q.menu = menu
  BY DEF PageRecord
<1> QED
  BY <1>1 DEF SamePage, LeftDivs, Used, PageRecord

LEMMA ClosedMenuFits ==
    ASSUME NEW e, NEW p \in PageRecord, Fits(e, p)
    PROVE  /\ [p EXCEPT !.menu = NoMenu] \in PageRecord
           /\ Fits(e, [p EXCEPT !.menu = NoMenu])
           /\ [p EXCEPT !.menu = NoMenu].created = p.created
<1>1. PICK q : q = [p EXCEPT !.menu = NoMenu]
  OBVIOUS
<1>2. SamePage(p, q) /\ q.menu = NoMenu
  BY <1>1, MenuIsSame
<1>3. Fits(e, q)
  BY <1>2, SamePageFits DEF MenuOk
<1> QED
  BY <1>1, <1>2, <1>3 DEF SamePage

\* A dialog left behind waits for something else, but is where it was.
Waiting(p, d, x, q) ==
    /\ d \in p.left /\ x \in Dialog /\ x.div = d.div /\ x.frame = d.frame
    /\ q = [p EXCEPT !.left = (@ \ {d}) \cup {x}]

LEMMA LeftChanges ==
    ASSUME NEW e, NEW p \in PageRecord, Fits(e, p), NEW d, NEW x, NEW q, Waiting(p, d, x, q)
    PROVE  q \in PageRecord /\ Fits(e, q) /\ q.created = p.created
<1> USE DEF Waiting
<1>1. PICK left \in SUBSET Dialog : left = (p.left \ {d}) \cup {x}
  BY DEF PageRecord
<1>2. q = [p EXCEPT !.left = left]
  BY <1>1
<1>3. /\ q \in PageRecord /\ q.left = left /\ q.created = p.created /\ q.listeners = p.listeners
      /\ q.mask = p.mask /\ q.dialogs = p.dialogs /\ q.menu = p.menu
  BY <1>2 DEF PageRecord
<1>4. LeftDivs(q) = LeftDivs(p) /\ Used(q) = Used(p)
  BY <1>1, <1>3 DEF LeftDivs, Used
<1>5. SamePage(p, q)
  BY <1>3, <1>4 DEF SamePage
<1>6. MenuOk(e, q)
  BY <1>3 DEF Fits, MenuOk
<1> QED
  BY <1>3, <1>5, <1>6, SamePageFits

\* A nonempty set of numbers has a least element; this stands in for
\* induction.
LEMMA LeastNumber ==
    ASSUME NEW T \in SUBSET Nat, T # {}
    PROVE  \E n \in T : \A m \in T : n <= m
<1> DEFINE initial == {1 .. n : n \in T}
<1>1. initial \subseteq FiniteSubsetsOf(Nat)
  <2>1. \A n \in Nat : 1 .. n \subseteq Nat /\ IsFiniteSet(1 .. n)
    BY FS_Interval
  <2> QED
    BY <2>1 DEF FiniteSubsetsOf
<1>2. IsWellFoundedOn(StrictSubsetOrdering(Nat), FiniteSubsetsOf(Nat))
  BY FS_StrictSubsetOrderingWellFounded
<1>3. initial # {}
  OBVIOUS
<1>4. \E X \in initial : \A Y \in initial : ~ (<<Y, X>> \in StrictSubsetOrdering(Nat))
  <2> HIDE DEF initial
  <2> QED
    BY <1>1, <1>2, <1>3, WFMin
<1>5. PICK n \in T : \A m \in T : ~ (<<1 .. m, 1 .. n>> \in StrictSubsetOrdering(Nat))
  BY <1>4
<1>6. ASSUME NEW m \in T, m < n
      PROVE  FALSE
  <2>1. /\ 1 .. m \subseteq Nat /\ 1 .. n \subseteq Nat
        /\ 1 .. m \subseteq 1 .. n /\ n \in 1 .. n /\ n \notin 1 .. m
    BY <1>6
  <2>2. <<1 .. m, 1 .. n>> \in StrictSubsetOrdering(Nat)
    BY <2>1, 1 .. m # 1 .. n DEF StrictSubsetOrdering
  <2> QED
    BY <2>2, <1>5
<1> QED
  BY <1>6

\* A number that is not used is found, and it is not None.
LEMMA UnusedIs ==
    ASSUME NEW used, IsFiniteSet(used)
    PROVE  Unused(used) \in (Nat \ {None}) \ used
<1>1. PICK n \in Nat : n = Cardinality(used)
  BY FS_CardinalityType
<1>2. PICK free : free = (1 .. n + 1) \ used
  OBVIOUS
<1>3. free # {}
  <2>1. SUFFICES ASSUME free = {} PROVE FALSE
    OBVIOUS
  <2>2. 1 .. n + 1 \in SUBSET used
    BY <1>2, <2>1
  <2>3. Cardinality(1 .. n + 1) <= n
    BY <1>1, <2>2, FS_Subset
  <2>4. Cardinality(1 .. n + 1) = n + 1
    BY FS_Interval
  <2> QED
    BY <2>3, <2>4
<1>4. free \subseteq Nat
  BY <1>2
<1>5. \E x \in free : \A y \in free : x <= y
  BY <1>3, <1>4, LeastNumber
<1>6. Unused(used) = CHOOSE x \in free : \A y \in free : x <= y
  BY <1>1, <1>2 DEF Unused, Min
<1>7. Unused(used) \in free
  BY <1>5, <1>6
<1>8. \A x \in free : x \in Nat \ {None} /\ x \notin used
  BY <1>2 DEF None
<1> QED
  BY <1>7, <1>8

LEMMA Appended ==
    ASSUME NEW c \in Dialog, NEW d \in Dialog
    PROVE  Append(<<>>, c) = <<c>> /\ Append(<<c>>, d) = <<c, d>>
<1>1. PICK s \in Seq(Dialog) : s = <<c>> /\ Len(s) = 1 /\ s[1] = c
  <2>1. <<c>> \in Seq(Dialog) /\ Len(<<c>>) = 1 /\ <<c>>[1] = c
    OBVIOUS
  <2> QED
    BY <2>1, Zenon
<1>2. PICK t \in Seq(Dialog) : t = Append(s, d)
  <2>1. Append(s, d) \in Seq(Dialog)
    OBVIOUS
  <2> QED
    BY <2>1, Zenon
<1>3. Len(t) = 2 /\ t[1] = c /\ t[2] = d
  BY <1>1, <1>2
<1>4. t = <<c, d>>
  BY <1>3
<1>5. Append(<<>>, c) = <<c>>
  OBVIOUS
<1> QED
  BY <1>1, <1>2, <1>4, <1>5

LEMMA StackOps ==
    ASSUME NEW c \in Dialog, NEW d \in Dialog
    PROVE  /\ Len(<<c>>) = 1 /\ Last(<<c>>) = c /\ Front(<<c>>) = <<>> /\ <<c>> # <<>>
           /\ Len(<<c, d>>) = 2 /\ Last(<<c, d>>) = d /\ Front(<<c, d>>) = <<c>> /\ <<c, d>> # <<>>
<1>1. /\ Len(<<c>>) = 1 /\ Last(<<c>>) = c /\ <<c>> # <<>>
      /\ Len(<<c, d>>) = 2 /\ Last(<<c, d>>) = d /\ <<c, d>> # <<>>
  BY DEF Last
<1>2. Front(<<c>>) = <<>>
  BY DEF Front
<1>3. PICK s \in Seq(Dialog) : s = <<c, d>> /\ Len(s) = 2 /\ s[1] = c
  <2>1. <<c, d>> \in Seq(Dialog) /\ Len(<<c, d>>) = 2 /\ <<c, d>>[1] = c
    OBVIOUS
  <2> QED
    BY <2>1, Zenon
<1>4. PICK p \in Seq(Dialog) : p = SubSeq(s, 1, 1)
  <2>1. SubSeq(s, 1, 1) \in Seq(Dialog)
    BY <1>3
  <2> QED
    BY <2>1, Zenon
<1>5. Len(p) = 1 /\ p[1] = c
  BY <1>3, <1>4
<1>6. p = <<c>>
  BY <1>5
<1>7. Front(s) = SubSeq(s, 1, 1)
  BY <1>3 DEF Front
<1> QED
  BY <1>1, <1>2, <1>3, <1>4, <1>6, <1>7

LEMMA TopReplaced ==
    ASSUME NEW c \in Dialog, NEW d \in Dialog, NEW x \in Dialog
    PROVE  /\ [<<c>> EXCEPT ![1] = x] = <<x>>
           /\ [<<c, d>> EXCEPT ![1] = x] = <<x, d>> /\ [<<c, d>> EXCEPT ![2] = x] = <<c, x>>
OBVIOUS

\* f has the text, the history and what the form posts from e.
SameWords(e, f) == f.undoStack = e.undoStack /\ f.srcTextarea = e.srcTextarea /\ getSrcData(f) = getSrcData(e)

\* f is e but for its dialogs.
Elsewhere(e, f) ==
    /\ f \in EditorRecord /\ SameWords(e, f)
    /\ f.container = e.container /\ f.wyswygMode = e.wyswygMode /\ f.fullscreen = e.fullscreen
    /\ f.onchange = e.onchange /\ f.eventStack = e.eventStack /\ f.toolbarIcon = e.toolbarIcon

LEMMA ElsewhereIs ==
    ASSUME NEW e \in EditorRecord, NEW f \in EditorRecord,
           f.container = e.container, f.wyswygMode = e.wyswygMode, f.fullscreen = e.fullscreen,
           f.onchange = e.onchange, f.eventStack = e.eventStack, f.toolbarIcon = e.toolbarIcon,
           f.undoStack = e.undoStack, f.srcTextarea = e.srcTextarea, f.body = e.body,
           f.newTextarea = e.newTextarea
    PROVE  Elsewhere(e, f)
BY RefreshedIs DEF Elsewhere, SameWords

LEMMA Restacked ==
    ASSUME NEW e \in EditorRecord, NEW stack \in Seq(Dialog)
    PROVE  /\ Elsewhere(e, [e EXCEPT !.dialogStack = stack])
           /\ [e EXCEPT !.dialogStack = stack].dialogStack = stack
<1>1. PICK f \in EditorRecord : f = [e EXCEPT !.dialogStack = stack]
  BY DEF EditorRecord
<1>3. /\ f.container = e.container /\ f.wyswygMode = e.wyswygMode /\ f.fullscreen = e.fullscreen
      /\ f.onchange = e.onchange /\ f.eventStack = e.eventStack /\ f.toolbarIcon = e.toolbarIcon
      /\ f.undoStack = e.undoStack /\ f.srcTextarea = e.srcTextarea /\ f.body = e.body
      /\ f.newTextarea = e.newTextarea /\ f.dialogStack = stack
  BY <1>1 DEF EditorRecord
<1>5. Elsewhere(e, f)
  BY <1>3, RefreshedIs DEF Elsewhere, SameWords
<1> QED
  BY <1>1, <1>3, <1>5

\* What hiding a dialog leaves, if anything of it is there.
LEMMA HideKeeps ==
    ASSUME NEW e \in EditorRecord, NEW p \in PageRecord, Fits(e, p), NEW div
    PROVE  LET s == Hide([g |-> e, page |-> p], div)
           IN  /\ Elsewhere(e, s.g) /\ s.page \in PageRecord /\ Fits(s.g, s.page)
               /\ s.page.created = p.created
<1>1. PICK s : s = Hide([g |-> e, page |-> p], div)
  OBVIOUS
<1>2. CASE e.dialogStack = <<>> \/ Over(e).div # div
  <2>1. s = [g |-> e, page |-> p]
    BY <1>1, <1>2 DEF Hide
  <2> QED
    BY <1>1, <2>1 DEF Elsewhere, SameWords
<1>3. CASE ~ (e.dialogStack = <<>> \/ Over(e).div # div)
  <2>1. PICK stack \in Seq(Dialog) : stack = e.dialogStack /\ stack # <<>> /\ div = Last(stack).div
    BY <1>3 DEF EditorRecord, Over
  <2> DEFINE own == p.dialogs \ LeftDivs(p)
  <2>2. PICK rest \in Seq(Dialog) :
          /\ rest = Front(stack) /\ div \in own
          /\ Stacked(rest, own \ {div}, Used(p))
    <3>1. CASE \E c \in Dialog : stack = <<c>> /\ c.cmd = "image" /\ own = {c.div} /\ c.frame \notin Used(p)
      <4>1. PICK c \in Dialog : stack = <<c>> /\ own = {c.div}
        BY <3>1
      <4>2. Front(stack) = <<>> /\ div = c.div
        BY <4>1, <2>1, StackOps
      <4>3. Front(stack) \in Seq(Dialog)
        BY <4>2
      <4>4. Stacked(Front(stack), own \ {div}, Used(p)) /\ div \in own
        BY <4>1, <4>2 DEF Stacked
      <4> QED
        BY <4>3, <4>4, Zenon
    <3>2. CASE \E c \in Dialog, d \in Dialog :
                  /\ stack = <<c, d>> /\ c.cmd = "image" /\ d.cmd = "file_manager"
                  /\ own = {c.div, d.div} /\ c.div # d.div /\ c.frame # d.frame
                  /\ c.frame \notin Used(p) /\ d.frame \notin Used(p)
      <4>1. PICK c \in Dialog, d \in Dialog :
              /\ stack = <<c, d>> /\ c.cmd = "image" /\ own = {c.div, d.div} /\ c.div # d.div
              /\ c.frame \notin Used(p)
        BY <3>2
      <4>2. Front(stack) = <<c>> /\ div = d.div
        BY <4>1, <2>1, StackOps
      <4>3. Front(stack) \in Seq(Dialog)
        BY <4>2
      <4>4. own \ {div} = {c.div} /\ div \in own
        BY <4>1, <4>2
      <4>5. Stacked(Front(stack), own \ {div}, Used(p))
        BY <4>1, <4>2, <4>4 DEF Stacked
      <4> QED
        BY <4>3, <4>4, <4>5, Zenon
    <3> QED
      BY <2>1, <3>1, <3>2 DEF Fits, DialogsOk, Stacked
  <2>3. PICK f \in EditorRecord : f = [e EXCEPT !.dialogStack = rest]
    BY Restacked DEF Elsewhere
  <2>4. Elsewhere(e, f) /\ f.dialogStack = rest
    BY <2>3, Restacked
  <2>5. PICK some \in SUBSET Nat, here \in BOOLEAN : some = p.dialogs \ {div} /\ here = (p.mask /\ rest # <<>>)
    BY DEF PageRecord
  <2>6. PICK q \in PageRecord : q = [p EXCEPT !.dialogs = some, !.mask = here]
    BY DEF PageRecord
  <2>7. /\ q.created = p.created /\ q.listeners = p.listeners /\ q.menu = p.menu
        /\ q.mask = here /\ q.dialogs = some /\ LeftDivs(q) = LeftDivs(p) /\ Used(q) = Used(p)
    BY <2>6 DEF PageRecord, LeftDivs, Used
  <2>8. s = [g |-> f, page |-> q]
    BY <1>1, <1>3, <2>1, <2>2, <2>3, <2>5, <2>6 DEF Hide
  <2>9. BuiltOk(f, q)
    BY <2>4, <2>7 DEF Elsewhere, Fits, BuiltOk
  <2>10. p.mask
    BY <2>1 DEF Fits, DialogsOk
  <2>11. DialogsOk(f, q)
    <3>1. IsFiniteSet(p.dialogs) /\ LeftDivs(p) \subseteq p.dialogs /\ IsFiniteSet(Used(p)) /\ e.container /\ e.wyswygMode
      BY <2>10 DEF Fits, DialogsOk
    <3>2. IsFiniteSet(q.dialogs)
      BY <2>5, <2>7, <3>1, FS_Subset
    <3>3. LeftDivs(q) \subseteq q.dialogs /\ q.dialogs \ LeftDivs(q) = own \ {div}
      BY <2>2, <2>5, <2>7, <3>1
    <3>4. q.mask <=> f.dialogStack # <<>>
      BY <2>4, <2>5, <2>7, <2>10
    <3> QED
      BY <2>2, <2>4, <2>7, <3>1, <3>2, <3>3, <3>4 DEF Elsewhere, DialogsOk
  <2>12. MenuOk(f, q)
    BY <2>4, <2>7, <2>10 DEF Elsewhere, Fits, MenuOk
  <2> QED
    BY <1>1, <2>4, <2>7, <2>8, <2>9, <2>11, <2>12 DEF Fits
<1> QED
  BY <1>2, <1>3

\* A dialog of the stack is replaced by one that differs in its state and its uploads only.
LEMMA OneChanges ==
    ASSUME NEW e \in EditorRecord, NEW p \in PageRecord, Fits(e, p), NEW k \in DOMAIN e.dialogStack,
           NEW x \in Dialog, x.cmd = e.dialogStack[k].cmd, x.div = e.dialogStack[k].div,
           x.frame = e.dialogStack[k].frame,
           NEW f, f = [e EXCEPT !.dialogStack[k] = x]
    PROVE  /\ Elsewhere(e, f) /\ Fits(f, p) /\ f.dialogStack # <<>>
           /\ Len(f.dialogStack) = Len(e.dialogStack)
<1> DEFINE own == p.dialogs \ LeftDivs(p)
<1>1. PICK stack \in Seq(Dialog) : stack = e.dialogStack /\ stack # <<>> /\ k \in DOMAIN stack
  BY DEF EditorRecord
<1>2. PICK after \in Seq(Dialog) :
        /\ after = [stack EXCEPT ![k] = x] /\ Stacked(after, own, Used(p)) /\ after # <<>>
  <2>1. CASE \E c \in Dialog : stack = <<c>> /\ c.cmd = "image" /\ own = {c.div} /\ c.frame \notin Used(p)
    <3>1. PICK c \in Dialog : stack = <<c>> /\ c.cmd = "image" /\ own = {c.div} /\ c.frame \notin Used(p)
      BY <2>1
    <3>2. k = 1 /\ stack[k] = c
      BY <3>1, <1>1
    <3>3. [stack EXCEPT ![k] = x] = <<x>>
      BY <3>1, <3>2, TopReplaced
    <3>4. <<x>> \in Seq(Dialog) /\ <<x>> # <<>>
      OBVIOUS
    <3>5. Stacked(<<x>>, own, Used(p))
      BY <1>1, <3>1, <3>2 DEF Stacked
    <3> QED
      BY <3>3, <3>4, <3>5, Zenon
  <2>2. CASE \E c \in Dialog, d \in Dialog :
                /\ stack = <<c, d>> /\ c.cmd = "image" /\ d.cmd = "file_manager"
                /\ own = {c.div, d.div} /\ c.div # d.div /\ c.frame # d.frame
                /\ c.frame \notin Used(p) /\ d.frame \notin Used(p)
    <3>1. PICK c \in Dialog, d \in Dialog :
            /\ stack = <<c, d>> /\ c.cmd = "image" /\ d.cmd = "file_manager"
            /\ own = {c.div, d.div} /\ c.div # d.div /\ c.frame # d.frame
            /\ c.frame \notin Used(p) /\ d.frame \notin Used(p)
      BY <2>2
    <3>2. (k = 1 /\ stack[k] = c) \/ (k = 2 /\ stack[k] = d)
      BY <3>1, <1>1
    <3>3. PICK a \in Dialog, b \in Dialog :
            /\ [stack EXCEPT ![k] = x] = <<a, b>>
            /\ a.cmd = c.cmd /\ a.div = c.div /\ a.frame = c.frame
            /\ b.cmd = d.cmd /\ b.div = d.div /\ b.frame = d.frame
      <4>1. CASE k = 1
        <5>1. [stack EXCEPT ![k] = x] = <<x, d>>
          BY <3>1, <4>1, TopReplaced
        <5> QED
          BY <1>1, <3>1, <3>2, <4>1, <5>1
      <4>2. CASE k = 2
        <5>1. [stack EXCEPT ![k] = x] = <<c, x>>
          BY <3>1, <4>2, TopReplaced
        <5> QED
          BY <1>1, <3>1, <3>2, <4>2, <5>1
      <4> QED
        BY <3>2, <4>1, <4>2
    <3>4. <<a, b>> \in Seq(Dialog) /\ <<a, b>> # <<>>
      OBVIOUS
    <3>5. Stacked(<<a, b>>, own, Used(p))
      BY <3>1, <3>3 DEF Stacked
    <3> QED
      BY <3>3, <3>4, <3>5, Zenon
  <2> QED
    BY <1>1, <2>1, <2>2 DEF Fits, DialogsOk, Stacked
<1>3. f = [e EXCEPT !.dialogStack = after]
  BY <1>1, <1>2
<1>4. Elsewhere(e, f) /\ f.dialogStack = after
  <2>1. PICK h : h = [e EXCEPT !.dialogStack = after]
    OBVIOUS
  <2>2. Elsewhere(e, h) /\ h.dialogStack = after
    BY <2>1, Restacked
  <2>3. h = f
    BY <1>3, <2>1
  <2> QED
    BY <2>2, <2>3
<1>5. Fits(f, p)
  BY <1>1, <1>2, <1>4 DEF Elsewhere, Fits, BuiltOk, DialogsOk, MenuOk
<1>6. Len(after) = Len(stack)
  BY <1>2
<1> QED
  BY <1>1, <1>2, <1>4, <1>5, <1>6

LEMMA OverIs ==
    ASSUME NEW e \in EditorRecord, e.dialogStack # <<>>
    PROVE  /\ Over(e) \in Dialog /\ Len(e.dialogStack) \in DOMAIN e.dialogStack
           /\ Over(e) = e.dialogStack[Len(e.dialogStack)]
<1>1. PICK stack \in Seq(Dialog) : stack = e.dialogStack /\ stack # <<>>
  BY DEF EditorRecord
<1>2. Len(stack) \in Nat /\ Len(stack) # 0 /\ DOMAIN stack = 1 .. Len(stack)
  BY <1>1
<1>3. Len(stack) \in DOMAIN stack /\ stack[Len(stack)] \in Dialog
  BY <1>2
<1> QED
  BY <1>1, <1>3 DEF Over, Last

States == {"opening", "asking", "browsing", "loading", "failed", "ready"}

LEMMA WithStateKeeps ==
    ASSUME NEW e \in EditorRecord, NEW p \in PageRecord, Fits(e, p), e.dialogStack # <<>>,
           NEW state \in States
    PROVE  /\ Elsewhere(e, WithState(e, state)) /\ Fits(WithState(e, state), p)
           /\ WithState(e, state).dialogStack # <<>>
           /\ Len(WithState(e, state).dialogStack) = Len(e.dialogStack)
<1>1. PICK top \in Dialog : top = e.dialogStack[Len(e.dialogStack)] /\ Len(e.dialogStack) \in DOMAIN e.dialogStack
  BY OverIs
<1>2. PICK x \in Dialog : x = [top EXCEPT !.state = state]
  BY DEF Dialog, States
<1>3. x.cmd = top.cmd /\ x.div = top.div /\ x.frame = top.frame
  BY <1>2 DEF Dialog
<1>4. PICK f : f = [e EXCEPT !.dialogStack[Len(e.dialogStack)] = x]
  OBVIOUS
<1>5. WithState(e, state) = f
  BY <1>1, <1>2, <1>4 DEF WithState
<1>6. /\ Elsewhere(e, f) /\ Fits(f, p) /\ f.dialogStack # <<>>
      /\ Len(f.dialogStack) = Len(e.dialogStack)
  BY <1>1, <1>3, <1>4, OneChanges
<1> QED
  BY <1>5, <1>6, Zenon

LEMMA LoadingKeeps ==
    ASSUME NEW e \in EditorRecord, NEW p \in PageRecord, Fits(e, p),
           NEW f \in {showLoadingPage(e), hideLoadingPage(e), e}
    PROVE  Elsewhere(e, f) /\ Fits(f, p) /\ (e.dialogStack # <<>> => f.dialogStack # <<>>)
<1>1. Elsewhere(e, e)
  BY DEF Elsewhere, SameWords
<1>2. f = e \/ (e.dialogStack # <<>> /\ \E state \in {"loading", "ready"} : f = WithState(e, state))
  BY DEF showLoadingPage, hideLoadingPage
<1>3. CASE f = e
  BY <1>1, <1>3
<1>4. CASE e.dialogStack # <<>> /\ \E state \in {"loading", "ready"} : f = WithState(e, state)
  <2>1. PICK state \in States : f = WithState(e, state)
    BY <1>4 DEF States
  <2> QED
    BY <1>4, <2>1, WithStateKeeps
<1> QED
  BY <1>2, <1>3, <1>4

LEMMA UploadsKeep ==
    ASSUME NEW e \in EditorRecord, NEW p \in PageRecord, Fits(e, p), NEW k \in DOMAIN e.dialogStack, NEW n \in Nat
    PROVE  LET f == [e EXCEPT !.dialogStack[k].uploads = n]
           IN  Elsewhere(e, f) /\ Fits(f, p) /\ f.dialogStack # <<>>
<1>1. PICK one \in Dialog : one = e.dialogStack[k]
  BY DEF EditorRecord
<1>2. PICK x \in Dialog : x = [one EXCEPT !.uploads = n]
  BY DEF Dialog
<1>3. x.cmd = one.cmd /\ x.div = one.div /\ x.frame = one.frame
  BY <1>2 DEF Dialog
<1>4. [e EXCEPT !.dialogStack[k].uploads = n] = [e EXCEPT !.dialogStack[k] = x]
  BY <1>1, <1>2
<1>5. PICK f : f = [e EXCEPT !.dialogStack[k] = x]
  OBVIOUS
<1>6. Elsewhere(e, f) /\ Fits(f, p) /\ f.dialogStack # <<>>
  BY <1>1, <1>3, <1>5, OneChanges
<1> QED
  BY <1>4, <1>5, <1>6

NewDialog(e, p, cmd) ==
    [cmd |-> cmd, div |-> Unused(p.dialogs), frame |-> Frame(e, p), state |-> "opening", uploads |-> 0]

DialogOn(e, x) == [e EXCEPT !.dialogStack = Append(@, x), !.dialog = x.frame]

DivOn(p, x) == [p EXCEPT !.dialogs = @ \cup {x.div}, !.mask = TRUE, !.menu = NoMenu,
                         !.left = Unframed(@, x.frame)]

\* A frame is taken from the dialogs left behind; what they have in the document stays.
LEMMA UnframedIs ==
    ASSUME NEW p \in PageRecord, NEW frame \in Nat \ {None},
           NEW q, NEW left, q.left = left, left = Unframed(p.left, frame)
    PROVE  /\ q.left \in SUBSET Dialog /\ LeftDivs(q) = LeftDivs(p)
           /\ Used(q) \subseteq Used(p) /\ frame \notin Used(q)
<1> DEFINE now(d) == IF d.frame = frame THEN [d EXCEPT !.frame = None, !.state = "failed", !.uploads = 0] ELSE d
<1>1. \A d \in p.left : d \in Dialog
  BY DEF PageRecord
<1>2. q.left = {now(d) : d \in p.left}
  BY DEF Unframed
<1>3. \A d \in p.left : /\ now(d) \in Dialog /\ now(d).div = d.div
                        /\ now(d).frame \in {None, d.frame} \ {frame}
  BY <1>1 DEF Dialog, None
<1> HIDE DEF now
<1>4. q.left \subseteq Dialog
  BY <1>2, <1>3
<1>5. LeftDivs(q) = LeftDivs(p)
  BY <1>2, <1>3 DEF LeftDivs
<1>6. \A n \in Used(q) : n = None \/ \E d \in p.left : n = now(d).frame
  BY <1>2 DEF Used
<1>7. \A n \in Used(q) : n \in Used(p) /\ n # frame
  BY <1>3, <1>6 DEF Used
<1> QED
  BY <1>4, <1>5, <1>7

\* A new dialog on top gets a frame and an element of its own.
LEMMA ShownDialogFits ==
    ASSUME NEW e \in EditorRecord, NEW p \in PageRecord, Fits(e, p),
           NEW cmd, NEW x, x = NewDialog(e, p, cmd),
           \/ cmd = "image" /\ e.container /\ e.wyswygMode /\ ~ p.mask
           \/ cmd = "file_manager" /\ p.mask /\ Over(e).cmd = "image",
           NEW f, f = DialogOn(e, x), NEW q, q = DivOn(p, x)
    PROVE  Elsewhere(e, f) /\ q \in PageRecord /\ Fits(f, q) /\ q.created = p.created
<1> USE DEF NewDialog, DialogOn, DivOn
<1> DEFINE own == p.dialogs \ LeftDivs(p)
<1>1. PICK stack \in Seq(Dialog) : stack = e.dialogStack /\ Stacked(stack, own, Used(p))
  BY DEF EditorRecord, Fits, DialogsOk
<1>2. /\ e.dialog \in Nat /\ IsFiniteSet(p.dialogs) /\ IsFiniteSet(Used(p)) /\ LeftDivs(p) \subseteq p.dialogs
      /\ p.dialogs \subseteq Nat
  BY DEF EditorRecord, PageRecord, Fits, DialogsOk
<1>3. PICK div \in Nat : div = x.div /\ div \notin p.dialogs
  BY <1>2, UnusedIs
<1>4. \A frames : IsFiniteSet(frames) => IsFiniteSet(frames \cup {e.dialog} \cup {d.frame : d \in p.left})
  <2>1. {d.frame : d \in p.left} \in SUBSET Used(p)
    BY DEF Used
  <2>2. IsFiniteSet({d.frame : d \in p.left})
    BY <1>2, <2>1, FS_Subset
  <2>3. ASSUME NEW frames, IsFiniteSet(frames)
        PROVE  IsFiniteSet(frames \cup {e.dialog} \cup {d.frame : d \in p.left})
    <3>1. IsFiniteSet(frames \cup {e.dialog})
      BY <2>3, FS_AddElement
    <3> QED
      BY <2>2, <3>1, FS_Union
  <2> QED
    BY <2>3
<1>5. PICK n \in Nat \ {None} :
        /\ n = x.frame
        /\ \A c \in Dialog : stack = <<c>> => n # c.frame
  <2>1. CASE stack = <<>>
    <3>1. \A c \in Dialog : stack # <<c>>
      BY <2>1
    <3>2. CASE e.dialog # None
      BY <1>1, <1>2, <2>1, <3>1, <3>2 DEF Frame
    <3>3. CASE e.dialog = None
      <4>1. Frames(e) = {}
        BY <1>1, <2>1 DEF Frames
      <4>2. IsFiniteSet(Frames(e) \cup {e.dialog} \cup {d.frame : d \in p.left})
        BY <1>4, <4>1, FS_EmptySet
      <4>3. Unused(Frames(e) \cup {e.dialog} \cup {d.frame : d \in p.left}) \in Nat \ {None}
        BY <4>2, UnusedIs
      <4> QED
        BY <3>1, <3>3, <4>3 DEF Frame
    <3> QED
      BY <3>2, <3>3
  <2>2. CASE stack # <<>> /\ \E c \in Dialog : stack = <<c>>
    <3>1. PICK c \in Dialog : stack = <<c>> /\ DOMAIN stack = {1} /\ stack[1] = c
      BY <2>2
    <3>2. Frames(e) = {c.frame}
      BY <1>1, <3>1 DEF Frames
    <3>3. IsFiniteSet(Frames(e) \cup {e.dialog} \cup {d.frame : d \in p.left})
      BY <1>4, <3>2, FS_Singleton
    <3>4. Unused(Frames(e) \cup {e.dialog} \cup {d.frame : d \in p.left}) \in (Nat \ {None}) \ {c.frame}
      BY <3>2, <3>3, UnusedIs
    <3>5. x.frame \in (Nat \ {None}) \ {c.frame}
      BY <1>1, <2>2, <3>4 DEF Frame
    <3> QED
      BY <3>1, <3>5
  <2>3. ASSUME NEW c \in Dialog, NEW d \in Dialog, stack = <<c, d>>, d.cmd = "file_manager"
        PROVE  FALSE
    <3>1. Last(stack) = d /\ stack # <<>>
      BY <2>3, StackOps
    <3> QED
      BY <3>1, <2>3, <1>1 DEF Over, Fits, DialogsOk
  <2> QED
    BY <1>1, <2>1, <2>2, <2>3 DEF Stacked
<1>6. PICK left \in SUBSET Dialog : left = Unframed(p.left, n)
  <2>1. PICK r, left : left = Unframed(p.left, n) /\ r = [left |-> left]
    OBVIOUS
  <2>2. r.left = left
    BY <2>1
  <2> QED
    BY <2>1, <2>2, UnframedIs
<1>7. PICK some \in SUBSET Nat : some = p.dialogs \cup {div}
  BY <1>2
<1>8. q = [p EXCEPT !.dialogs = some, !.mask = TRUE, !.menu = NoMenu, !.left = left]
  BY <1>3, <1>5, <1>6, <1>7
<1>9. /\ q \in PageRecord /\ q.created = p.created /\ q.listeners = p.listeners /\ q.menu = NoMenu /\ q.mask
      /\ q.dialogs = some /\ q.left = left
  BY <1>8 DEF PageRecord
<1>10. LeftDivs(q) = LeftDivs(p) /\ Used(q) \subseteq Used(p) /\ n \notin Used(q)
  <2>1. PICK r : r = q
    OBVIOUS
  <2>2. r.left = left
    BY <1>9, <2>1
  <2>3. LeftDivs(r) = LeftDivs(p) /\ Used(r) \subseteq Used(p) /\ n \notin Used(r)
    BY <1>6, <2>2, UnframedIs
  <2> QED
    BY <2>1, <2>3
<1>11. IsFiniteSet(q.dialogs) /\ IsFiniteSet(Used(q)) /\ LeftDivs(q) \subseteq q.dialogs
  <2>1. IsFiniteSet(some)
    BY <1>2, <1>7, FS_AddElement
  <2>2. IsFiniteSet(Used(q))
    BY <1>2, <1>10, FS_Subset
  <2> QED
    BY <1>2, <1>7, <1>9, <1>10, <2>1, <2>2
<1>12. q.dialogs \ LeftDivs(q) = own \cup {div}
  BY <1>2, <1>3, <1>7, <1>9, <1>10
<1>13. PICK after \in Seq(Dialog) :
        /\ after = Append(stack, x) /\ Stacked(after, own \cup {div}, Used(q)) /\ after # <<>>
        /\ e.container /\ e.wyswygMode
  <2>1. CASE cmd = "image" /\ e.container /\ e.wyswygMode /\ ~ p.mask
    <3>1. stack = <<>> /\ own = {}
      <4>1. stack = <<>>
        BY <2>1, <1>1, Zenon DEF Fits, DialogsOk
      <4>2. \A c, d : <<>> # <<c>> /\ <<>> # <<c, d>>
        OBVIOUS
      <4> QED
        BY <1>1, <4>1, <4>2, Zenon DEF Stacked
    <3>2. x \in Dialog /\ x.cmd = "image"
      BY <1>3, <1>5, <2>1 DEF Dialog
    <3>3. Append(stack, x) = <<x>> /\ <<x>> \in Seq(Dialog) /\ <<x>> # <<>>
      BY <3>1, <3>2, Appended
    <3>4. Stacked(<<x>>, own \cup {div}, Used(q))
      BY <1>3, <1>5, <1>10, <3>1, <3>2 DEF Stacked
    <3> QED
      BY <2>1, <3>3, <3>4, Zenon
  <2>2. CASE cmd = "file_manager" /\ p.mask /\ Over(e).cmd = "image"
    <3>1. PICK c \in Dialog : stack = <<c>> /\ c.cmd = "image" /\ own = {c.div} /\ c.frame \notin Used(p)
      <4>1. stack # <<>>
        BY <1>1, <2>2 DEF Fits, DialogsOk
      <4>2. ASSUME NEW c \in Dialog, NEW d \in Dialog, stack = <<c, d>>, d.cmd = "file_manager"
            PROVE  FALSE
        <5>1. Last(stack) = d
          BY <4>2, StackOps
        <5> QED
          BY <5>1, <4>2, <2>2, <1>1 DEF Over
      <4> QED
        BY <1>1, <4>1, <4>2 DEF Stacked
    <3>2. x \in Dialog /\ x.cmd = "file_manager"
      BY <1>3, <1>5, <2>2 DEF Dialog
    <3>3. x.div = div /\ div # c.div /\ x.frame = n /\ n # c.frame
      BY <1>3, <1>5, <3>1
    <3>4. Append(stack, x) = <<c, x>>
      BY <3>1, <3>2, Appended
    <3>5. <<c, x>> \in Seq(Dialog) /\ <<c, x>> # <<>>
      BY <3>2
    <3>6. Stacked(<<c, x>>, own \cup {div}, Used(q))
      BY <1>10, <3>1, <3>2, <3>3 DEF Stacked
    <3>7. e.container /\ e.wyswygMode
      BY <2>2 DEF Fits, DialogsOk
    <3> QED
      BY <3>4, <3>5, <3>6, <3>7, Zenon
  <2> QED
    BY <2>1, <2>2
<1>14. f = [e EXCEPT !.dialogStack = after, !.dialog = n]
  BY <1>1, <1>5, <1>13
<1>15. Elsewhere(e, f) /\ f.dialogStack = after
  <2>1. f \in EditorRecord
    BY <1>14 DEF EditorRecord
  <2>2. /\ f.container = e.container /\ f.wyswygMode = e.wyswygMode /\ f.fullscreen = e.fullscreen
        /\ f.onchange = e.onchange /\ f.eventStack = e.eventStack /\ f.toolbarIcon = e.toolbarIcon
        /\ f.undoStack = e.undoStack /\ f.srcTextarea = e.srcTextarea /\ f.body = e.body
        /\ f.newTextarea = e.newTextarea /\ f.dialogStack = after
    BY <1>14 DEF EditorRecord
  <2> QED
    BY <2>1, <2>2, ElsewhereIs, Zenon
<1>16. Fits(f, q)
  <2>1. Stacked(f.dialogStack, q.dialogs \ LeftDivs(q), Used(q))
    BY <1>12, <1>13, <1>15, Zenon
  <2> QED
    BY <1>9, <1>11, <1>13, <1>15, <2>1 DEF Elsewhere, Fits, BuiltOk, DialogsOk, MenuOk
<1> QED
  BY <1>9, <1>15, <1>16

-----------------------------------------------------------------------------
(* The inductive invariant: what holds of an editor that has been built, and before. *)

Sound(e, p) ==
    /\ e \in EditorRecord /\ p \in PageRecord /\ p.created \in 1 .. MaxCreates
    /\ Fits(e, p) /\ FirstKept(e)

\* Before: nothing in the history, and the form has what the page came with.
Fresh(e, p) ==
    /\ e \in EditorRecord /\ p \in PageRecord /\ p.created = 0 /\ p.left = {}
    /\ Fits(e, p) /\ e.undoStack = <<>> /\ e.srcTextarea = Initial /\ ~ e.container

EditorInv ==
    /\ Sound(g, page) \/ (Fresh(g, page) /\ due = {})
    /\ due \subseteq Events /\ ignored \in BOOLEAN /\ edits \in 0 .. MaxEdits
    /\ PostsWhatIsShown

LEMMA SoundSame ==
    ASSUME NEW e, NEW p, Sound(e, p), NEW f, SameRest(e, f), FirstKept(f)
    PROVE  Sound(f, p)
BY SameRestFits DEF Sound, SameRest

LEMMA SoundElsewhere ==
    ASSUME NEW e, NEW p, Sound(e, p), NEW f, Elsewhere(e, f),
           NEW q \in PageRecord, Fits(f, q), q.created = p.created
    PROVE  Sound(f, q) /\ (Posted(e) => Posted(f))
BY DEF Sound, Elsewhere, SameWords, FirstKept, Posted, getData

LEMMA SoundMenu ==
    ASSUME NEW e, NEW p, Sound(e, p)
    PROVE  Sound(e, [p EXCEPT !.menu = NoMenu])
<1>1. p \in PageRecord /\ Fits(e, p)
  BY DEF Sound
<1>2. PICK q : q = [p EXCEPT !.menu = NoMenu]
  OBVIOUS
<1>3. q \in PageRecord /\ Fits(e, q) /\ q.created = p.created
  BY <1>1, <1>2, ClosedMenuFits
<1>4. Sound(e, q)
  BY <1>3 DEF Sound
<1> QED
  BY <1>2, <1>4

\* Where the editor is, its handlers are.
LEMMA SoundHandlers ==
    ASSUME NEW e, NEW p, Sound(e, p), e.container
    PROVE  /\ e \in EditorRecord /\ e.onchange = 1 /\ e.onchange # 0 /\ FirstKept(e)
           /\ e.toolbarIcon = (IF e.wyswygMode THEN Commands ELSE AlwaysAble)
BY DEF Sound, Fits, BuiltOk

\* The n-th editor is built where none is.
LEMMA BuildIs ==
    ASSUME NEW e \in EditorRecord, NEW p \in PageRecord, NEW n \in 1 .. MaxCreates,
           e.onchange = 0, e.eventStack = {}, e.dialogStack = <<>>, p.listeners = {}, DialogsOk(e, p),
           FirstKept(e) \/ (e.undoStack = <<>> /\ e.srcTextarea = Initial)
    PROVE  Sound(create(e, n), Created(p, n)) /\ Posted(create(e, n))
<1>1. n \in Nat
  BY EditorAssumption
<1>2. PICK f : f = create(e, n)
  OBVIOUS
<1>3. /\ f \in EditorRecord /\ f.container /\ f.onchange = 1 /\ f.wyswygMode = e.wyswygMode
      /\ f.eventStack = e.eventStack \cup {n} /\ f.dialogStack = e.dialogStack
      /\ f.toolbarIcon = (IF e.wyswygMode THEN Commands ELSE AlwaysAble)
      /\ FirstKept(f) /\ Posted(f)
  BY <1>1, <1>2, CreateIs
<1>4. PICK some \in SUBSET Nat : some = {n}
  BY <1>1
<1>5. PICK q \in PageRecord : q = [p EXCEPT !.created = n, !.listeners = some, !.menu = NoMenu, !.mask = FALSE]
  BY <1>1 DEF PageRecord
<1>6. /\ q.created = n /\ q.listeners = {n} /\ q.menu = NoMenu /\ q.mask = FALSE /\ q.dialogs = p.dialogs
      /\ LeftDivs(q) = LeftDivs(p) /\ Used(q) = Used(p)
  BY <1>4, <1>5 DEF PageRecord, LeftDivs, Used
<1>7. q = Created(p, n)
  BY <1>4, <1>5 DEF Created
<1>8. BuiltOk(f, q)
  BY <1>3, <1>6 DEF BuiltOk
<1>9. DialogsOk(f, q) /\ MenuOk(f, q)
  BY <1>3, <1>6 DEF DialogsOk, MenuOk
<1> QED
  BY <1>2, <1>3, <1>6, <1>7, <1>8, <1>9 DEF Sound, Fits

DivsOf(stack) == {stack[i].div : i \in DOMAIN stack}
FramesOf(stack) == {stack[i].frame : i \in DOMAIN stack}

\* The elements and the frames of a stack.
LEMMA StackHas ==
    ASSUME NEW stack \in Seq(Dialog), NEW divs, NEW used, Stacked(stack, divs, used)
    PROVE  /\ DivsOf(stack) = divs /\ IsFiniteSet(FramesOf(stack)) /\ Cardinality(FramesOf(stack)) = Len(stack)
           /\ FramesOf(stack) \cap used = {}
<1> USE DEF DivsOf, FramesOf
<1>1. CASE stack = <<>> /\ divs = {}
  <2>1. DOMAIN stack = {} /\ Len(stack) = 0
    BY <1>1
  <2>2. {stack[i].frame : i \in DOMAIN stack} = {} /\ {stack[i].div : i \in DOMAIN stack} = {}
    BY <2>1
  <2> QED
    BY <1>1, <2>1, <2>2, FS_EmptySet
<1>2. CASE \E c \in Dialog : stack = <<c>> /\ c.cmd = "image" /\ divs = {c.div} /\ c.frame \notin used
  <2>1. PICK c \in Dialog : stack = <<c>> /\ divs = {c.div} /\ c.frame \notin used
    BY <1>2
  <2>2. DOMAIN stack = {1} /\ stack[1] = c /\ Len(stack) = 1
    BY <2>1
  <2>3. {stack[i].frame : i \in DOMAIN stack} = {c.frame} /\ {stack[i].div : i \in DOMAIN stack} = {c.div}
    BY <2>2
  <2>4. IsFiniteSet({c.frame}) /\ Cardinality({c.frame}) = 1
    BY FS_Singleton
  <2> QED
    BY <2>1, <2>2, <2>3, <2>4
<1>3. CASE \E c \in Dialog, d \in Dialog :
              /\ stack = <<c, d>> /\ c.cmd = "image" /\ d.cmd = "file_manager"
              /\ divs = {c.div, d.div} /\ c.div # d.div /\ c.frame # d.frame
              /\ c.frame \notin used /\ d.frame \notin used
  <2>1. PICK c \in Dialog, d \in Dialog :
          /\ stack = <<c, d>> /\ divs = {c.div, d.div} /\ c.frame # d.frame
          /\ c.frame \notin used /\ d.frame \notin used
    BY <1>3
  <2>2. DOMAIN stack = {1, 2} /\ stack[1] = c /\ stack[2] = d /\ Len(stack) = 2
    BY <2>1
  <2>3. {stack[i].frame : i \in DOMAIN stack} = {c.frame} \cup {d.frame}
    BY <2>2
  <2>4. {stack[i].div : i \in DOMAIN stack} = {c.div, d.div}
    BY <2>2
  <2>5. IsFiniteSet({c.frame} \cup {d.frame}) /\ Cardinality({c.frame} \cup {d.frame}) = 2
    <3>1. IsFiniteSet({c.frame}) /\ Cardinality({c.frame}) = 1
      BY FS_Singleton
    <3>2. d.frame \notin {c.frame}
      BY <2>1
    <3>3. PICK one, x : one = {c.frame} /\ x = d.frame
      OBVIOUS
    <3>4. IsFiniteSet(one) /\ Cardinality(one) = 1 /\ x \notin one
      BY <3>1, <3>2, <3>3
    <3>5. /\ IsFiniteSet(one \cup {x})
          /\ Cardinality(one \cup {x}) = IF x \in one THEN Cardinality(one) ELSE Cardinality(one) + 1
      BY <3>4, FS_AddElement, Zenon
    <3>6. Cardinality(one \cup {x}) = 2
      BY <3>4, <3>5
    <3> QED
      BY <3>3, <3>5, <3>6
  <2> QED
    BY <2>1, <2>2, <2>3, <2>4, <2>5
<1> QED
  BY <1>1, <1>2, <1>3 DEF Stacked

\* What is left when the editor is removed: dialogs that are open stay.
LEMMA RemovedIs ==
    ASSUME NEW e, NEW p, Sound(e, p), e.container, NEW f, SameRest(e, f), FirstKept(f)
    PROVE  /\ Sound(remove(f), Removed(p, e)) /\ ~ remove(f).container
           /\ remove(f).onchange = 0 /\ remove(f).eventStack = {} /\ remove(f).dialogStack = <<>>
           /\ Removed(p, e).listeners = {} /\ Removed(p, e).created = p.created
<1>1. PICK h : h = remove(f)
  OBVIOUS
<1>2. /\ h \in EditorRecord /\ ~ h.container /\ h.onchange = 0 /\ h.eventStack = {} /\ h.dialogStack = <<>>
      /\ h.undoStack = f.undoStack
  BY <1>1, RemoveIs DEF SameRest
<1>3. p \in PageRecord /\ p.listeners = {p.created} /\ e.eventStack = {p.created} /\ DialogsOk(e, p)
  BY DEF Sound, Fits, BuiltOk
<1>4. PICK none \in SUBSET Nat : none = p.listeners \ e.eventStack /\ none = {}
  BY <1>3
<1>5. PICK stack \in Seq(Dialog) : stack = e.dialogStack
  BY DEF Sound, EditorRecord
<1>6. PICK open \in SUBSET Dialog : open = {stack[i] : i \in DOMAIN stack}
  <2>1. \A i \in DOMAIN stack : stack[i] \in Dialog
    OBVIOUS
  <2> QED
    BY <2>1
<1>7. PICK left \in SUBSET Dialog : left = p.left \cup open
  BY <1>3 DEF PageRecord
<1>8. PICK q \in PageRecord : q = [p EXCEPT !.listeners = none, !.menu = NoMenu, !.mask = FALSE, !.left = left]
  BY <1>3 DEF PageRecord
<1>9. /\ q.created = p.created /\ q.listeners = {} /\ q.menu = NoMenu /\ q.mask = FALSE /\ q.dialogs = p.dialogs
      /\ q.left = left
  BY <1>3, <1>4, <1>8 DEF PageRecord
<1>10. q = Removed(p, e)
  BY <1>4, <1>5, <1>6, <1>7, <1>8 DEF Removed
<1>11. DialogsOk(h, q)
  <2> DEFINE divs == DivsOf(stack)
             frames == FramesOf(stack)
  <2>1. divs = p.dialogs \ LeftDivs(p) /\ IsFiniteSet(frames)
    <3>1. Stacked(stack, p.dialogs \ LeftDivs(p), Used(p))
      BY <1>3, <1>5 DEF DialogsOk
    <3> QED
      BY <3>1, StackHas
  <2>2. LeftDivs(q) = LeftDivs(p) \cup divs /\ Used(q) = Used(p) \cup frames
    BY <1>6, <1>7, <1>9 DEF LeftDivs, Used, DivsOf, FramesOf
  <2> HIDE DEF divs, frames
  <2>3. IsFiniteSet(Used(q))
    <3>1. IsFiniteSet(Used(p))
      BY <1>3 DEF DialogsOk
    <3>2. IsFiniteSet(Used(p) \cup frames)
      BY <2>1, <3>1, FS_Union
    <3> QED
      BY <2>2, <3>2
  <2>4. LeftDivs(q) = q.dialogs /\ IsFiniteSet(q.dialogs)
    BY <1>3, <1>9, <2>1, <2>2 DEF DialogsOk
  <2> QED
    BY <1>2, <1>9, <2>3, <2>4 DEF DialogsOk, Stacked
<1>12. BuiltOk(h, q) /\ MenuOk(h, q)
  BY <1>2, <1>9 DEF BuiltOk, MenuOk
<1>13. FirstKept(h)
  BY <1>2 DEF FirstKept
<1>14. Sound(h, q)
  BY <1>2, <1>9, <1>11, <1>12, <1>13 DEF Sound, Fits
<1> QED
  BY <1>1, <1>2, <1>9, <1>10, <1>14

\* A command that inserts, where it is used.
LEMMA InsertedIs ==
    ASSUME NEW e \in EditorRecord, e.onchange # 0, e.wyswygMode, FirstKept(e), NEW f \in Inserted(e)
    PROVE  SameRest(e, f) /\ FirstKept(f) /\ Posted(f)
<1>1. PICK h \in UNION {Bodies(t) : t \in Typed} : f = execOnchangeHandler([e EXCEPT !.body = h])
  BY DEF Inserted
<1>2. h \in Html
  BY DEF Bodies
<1>3. PICK k \in EditorRecord : k = [e EXCEPT !.body = h]
  BY <1>2 DEF EditorRecord
<1>4. SameRest(e, k) /\ k.undoStack = e.undoStack
  BY <1>3 DEF EditorRecord, SameRest
<1>5. k.onchange # 0
  BY <1>4 DEF SameRest
<1>6. Handled(k, f)
  BY <1>1, <1>3, <1>5, HandlerIs
<1>7. FirstKept(k)
  BY <1>4 DEF FirstKept
<1>8. SameRest(k, f) /\ FirstKept(f) /\ Posted(f)
  BY <1>6, <1>7, HandledKeepsFirst
<1> QED
  BY <1>4, <1>8 DEF SameRest

\* The answer to an upload, in a dialog or with none left.
LEMMA UploadedIs ==
    ASSUME NEW e, NEW p, Sound(e, p), NEW body \in Html, NEW answer
    PROVE  LET s == Uploaded([g |-> e, page |-> p], answer, body)
           IN  /\ Sound(s.g, s.page) /\ s = [g |-> s.g, page |-> s.page]
               /\ Posted(e) \/ (e.dialogStack # <<>> /\ answer # "error") => Posted(s.g)
<1>1. PICK s : s = Uploaded([g |-> e, page |-> p], answer, body)
  OBVIOUS
<1>2. e \in EditorRecord /\ p \in PageRecord /\ Fits(e, p) /\ FirstKept(e)
  BY DEF Sound
<1>3. CASE e.dialogStack = <<>>
  BY <1>1, <1>3 DEF Uploaded
<1>4. CASE e.dialogStack # <<>>
  <2>1. PICK f : f = hideLoadingPage(e)
    OBVIOUS
  <2>2. Elsewhere(e, f) /\ Fits(f, p) /\ f.dialogStack # <<>>
    BY <1>2, <1>4, <2>1, LoadingKeeps
  <2>3. Sound(f, p) /\ (Posted(e) => Posted(f))
    BY <1>2, <2>2, SoundElsewhere
  <2>4. CASE answer = "error"
    <3>1. s = [g |-> f, page |-> p]
      BY <1>1, <1>4, <2>1, <2>4 DEF Uploaded
    <3> QED
      BY <1>1, <2>3, <2>4, <3>1
  <2>5. CASE answer # "error"
    <3>1. f \in EditorRecord /\ f.onchange # 0
      <4>1. f.container
        BY <2>2 DEF Fits, DialogsOk
      <4> QED
        BY <4>1, <2>3, SoundHandlers
    <3>2. PICK k \in EditorRecord : k = [f EXCEPT !.body = body]
      BY <3>1 DEF EditorRecord
    <3>3. SameRest(f, k) /\ k.undoStack = f.undoStack
      BY <3>1, <3>2 DEF EditorRecord, SameRest
    <3>4. k.onchange # 0 /\ FirstKept(k)
      BY <2>3, <3>1, <3>3 DEF SameRest, FirstKept, Sound
    <3>5. PICK h : h = execOnchangeHandler(k)
      OBVIOUS
    <3>6. SameRest(k, h) /\ FirstKept(h) /\ Posted(h)
      BY <3>4, <3>5, HandlerIs, HandledKeepsFirst
    <3>7. SameRest(f, h)
      BY <3>3, <3>6 DEF SameRest
    <3>8. Sound(h, p)
      BY <2>3, <3>6, <3>7, SoundSame
    <3>9. h \in EditorRecord /\ Fits(h, p)
      BY <3>8 DEF Sound
    <3>10. PICK div : s = Hide([g |-> h, page |-> p], div)
      BY <1>1, <1>4, <2>1, <2>5, <3>2, <3>5 DEF Uploaded
    <3>11. Elsewhere(h, s.g) /\ s.page \in PageRecord /\ Fits(s.g, s.page) /\ s.page.created = p.created
      BY <1>2, <3>9, <3>10, HideKeeps
    <3>12. Sound(s.g, s.page) /\ Posted(s.g)
      BY <3>6, <3>8, <3>11, SoundElsewhere
    <3>13. s = [g |-> s.g, page |-> s.page]
      BY <3>10 DEF Hide
    <3> QED
      BY <1>1, <3>12, <3>13
  <2> QED
    BY <2>4, <2>5
<1> QED
  BY <1>3, <1>4

-----------------------------------------------------------------------------
(* The steps. *)

LEMMA EditorInit == Init => EditorInv
<1> SUFFICES ASSUME Init PROVE EditorInv
  OBVIOUS
<1>1. Initial \in Texts /\ execSetHtmlHooks(Empty) \in Html /\ Empty \in Texts
  BY TextsAssumption, EditorAssumption, HooksType
<1>2. <<>> \in Seq(Html) /\ <<>> \in Seq(Dialog)
  OBVIOUS
<1>3. g \in EditorRecord
  BY <1>1, <1>2 DEF Init, EditorRecord, None
<1>4. page \in PageRecord
  BY DEF Init, PageRecord
<1>5. Fits(g, page)
  <2>1. LeftDivs(page) = {} /\ Used(page) = {None} /\ page.dialogs = {}
    BY DEF Init, LeftDivs, Used
  <2>2. IsFiniteSet(Used(page)) /\ IsFiniteSet(page.dialogs)
    <3>1. IsFiniteSet({None})
      BY FS_Singleton
    <3>2. IsFiniteSet({})
      BY FS_EmptySet
    <3> QED
      BY <2>1, <3>1, <3>2
  <2> QED
    BY <2>1, <2>2 DEF Init, Fits, BuiltOk, DialogsOk, MenuOk, Stacked
<1>6. Fresh(g, page)
  BY <1>3, <1>4, <1>5 DEF Init, Fresh
<1>7. PostsWhatIsShown
  BY DEF Init, PostsWhatIsShown
<1>8. due = {} /\ ignored \in BOOLEAN /\ edits \in 0 .. MaxEdits
  <2>1. due = {} /\ ignored = FALSE /\ edits = 0
    BY DEF Init
  <2>2. ignored \in BOOLEAN
    BY <2>1, Zenon
  <2>3. edits \in 0 .. MaxEdits
    BY <2>1, EditorAssumption
  <2> QED
    BY <2>1, <2>2, <2>3
<1> QED
  BY <1>6, <1>7, <1>8 DEF EditorInv

\* A step that leaves the editor sound, and the form with what is shown unless events are
\* to come or a key went by.
Stepped == Sound(g', page') /\ (g'.container /\ due' = {} /\ ~ ignored' => Posted(g'))

\* Steps on an editor that is there find it sound, and a step that leaves the form and the
\* events alone leaves it posted.
LEMMA WhenSound ==
    ASSUME EditorInv, page.created # 0
    PROVE  /\ Sound(g, page) /\ g \in EditorRecord /\ page \in PageRecord /\ FirstKept(g) /\ Fits(g, page)
           /\ g.container /\ due = {} /\ ~ ignored => Posted(g)
BY DEF EditorInv, Fresh, Sound, PostsWhatIsShown, Posted

LEMMA WhenThere ==
    ASSUME EditorInv, g.container
    PROVE  page.created # 0 /\ page.created \in 1 .. MaxCreates
BY EditorAssumption DEF EditorInv, Fresh, Sound

LEMMA WhenMasked ==
    ASSUME EditorInv, page.mask
    PROVE  /\ g.container /\ g.wyswygMode /\ page.created # 0 /\ g.dialogStack # <<>>
<1>1. Fits(g, page)
  BY DEF EditorInv, Fresh, Sound
<1>2. g.container /\ g.wyswygMode /\ g.dialogStack # <<>>
  BY <1>1 DEF Fits, DialogsOk
<1> QED
  BY <1>2, WhenThere

LEMMA BuildSteps == EditorInv /\ (Ready \/ Fullscreen \/ RemoveEditor \/ CreateEditor) => Stepped
<1> SUFFICES ASSUME EditorInv, Ready \/ Fullscreen \/ RemoveEditor \/ CreateEditor PROVE Stepped
  OBVIOUS
<1>1. CASE Ready
  <2>1. Fresh(g, page)
    BY <1>1, EditorAssumption DEF Ready, EditorInv, Sound
  <2>2. /\ g \in EditorRecord /\ page \in PageRecord /\ g.onchange = 0 /\ g.eventStack = {}
        /\ g.dialogStack = <<>> /\ page.listeners = {}
    BY <2>1 DEF Fresh, Fits, BuiltOk, DialogsOk
  <2>3. DialogsOk(g, page)
    BY <2>1 DEF Fresh, Fits
  <2>4. 1 \in 1 .. MaxCreates
    BY EditorAssumption
  <2>5. Sound(create(g, 1), Created(page, 1)) /\ Posted(create(g, 1))
    BY <2>1, <2>2, <2>3, <2>4, BuildIs DEF Fresh
  <2> QED
    BY <1>1, <2>5 DEF Ready, Stepped
<1>2. CASE Fullscreen
  <2>1. g.container /\ ~ page.mask /\ page.created < MaxCreates
    BY <1>2 DEF Fullscreen, Clicks, Open, Another
  <2>2. Sound(g, page) /\ g \in EditorRecord /\ page \in PageRecord /\ FirstKept(g)
        /\ page.created \in 1 .. MaxCreates
    BY <2>1, WhenThere, WhenSound
  <2>3. PICK f : f = setData(g)
    OBVIOUS
  <2>4. SameRest(g, f) /\ FirstKept(f)
    BY <2>2, <2>3, SetDataIs DEF FirstKept
  <2>5. PICK h, q : h = remove(f) /\ q = Removed(page, g)
    OBVIOUS
  <2>6. /\ Sound(h, q) /\ h.onchange = 0 /\ h.eventStack = {} /\ h.dialogStack = <<>>
        /\ q.listeners = {}
    BY <2>1, <2>2, <2>4, <2>5, RemovedIs
  <2>7. page.created + 1 \in 1 .. MaxCreates
    BY <2>1, <2>2, EditorAssumption
  <2>8. h \in EditorRecord /\ q \in PageRecord /\ FirstKept(h) /\ DialogsOk(h, q)
    BY <2>6 DEF Sound, Fits
  <2>9. PICK k, r : k = create(h, page.created + 1) /\ r = Created(q, page.created + 1)
    OBVIOUS
  <2>10. Sound(k, r) /\ Posted(k)
    BY <2>6, <2>7, <2>8, <2>9, BuildIs
  <2>11. g' = [k EXCEPT !.fullscreen = ~ @] /\ page' = r
    BY <1>2, <2>3, <2>5, <2>9 DEF Fullscreen
  <2>12. k \in EditorRecord /\ Fits(k, r) /\ FirstKept(k)
    BY <2>10 DEF Sound
  <2>13. PICK v \in EditorRecord : v = g'
    BY <2>11, <2>12 DEF EditorRecord
  <2>14. /\ v.container = k.container /\ v.wyswygMode = k.wyswygMode
         /\ v.onchange = k.onchange /\ v.eventStack = k.eventStack /\ v.toolbarIcon = k.toolbarIcon
         /\ v.undoStack = k.undoStack /\ v.srcTextarea = k.srcTextarea /\ v.body = k.body
         /\ v.newTextarea = k.newTextarea /\ v.dialogStack = k.dialogStack
    BY <2>11, <2>12, <2>13 DEF EditorRecord
  <2>15. Fits(v, r)
    BY <2>12, <2>14 DEF Fits, BuiltOk, DialogsOk, MenuOk
  <2>16. getSrcData(v) = getSrcData(k)
    BY <2>12, <2>14, RefreshedIs
  <2>17. Sound(v, r) /\ Posted(v)
    BY <2>10, <2>14, <2>15, <2>16 DEF Sound, FirstKept, Posted, getData
  <2> QED
    BY <2>11, <2>13, <2>17 DEF Stepped
<1>3. CASE RemoveEditor
  <2>1. g.container
    BY <1>3 DEF RemoveEditor
  <2>2. Sound(g, page) /\ g \in EditorRecord /\ FirstKept(g)
    BY <2>1, WhenThere, WhenSound
  <2>3. SameRest(g, g)
    BY <2>2 DEF SameRest
  <2>4. Sound(remove(g), Removed(page, g)) /\ ~ remove(g).container
    BY <2>1, <2>2, <2>3, RemovedIs
  <2> QED
    BY <1>3, <2>4 DEF RemoveEditor, Stepped
<1>4. CASE CreateEditor
  <2>1. ~ g.container /\ page.created \in 1 .. MaxCreates - 1
    BY <1>4 DEF CreateEditor
  <2>2. page.created # 0
    BY <2>1, EditorAssumption
  <2>3. Sound(g, page) /\ g \in EditorRecord /\ page \in PageRecord /\ FirstKept(g) /\ Fits(g, page)
    BY <2>2, WhenSound
  <2>4. g.onchange = 0 /\ g.eventStack = {} /\ page.listeners = {} /\ g.dialogStack = <<>>
    BY <2>1, <2>3 DEF Fits, BuiltOk, DialogsOk
  <2>5. DialogsOk(g, page)
    BY <2>3 DEF Fits
  <2>6. page.created + 1 \in 1 .. MaxCreates
    BY <2>1, EditorAssumption
  <2>7. Sound(create(g, page.created + 1), Created(page, page.created + 1)) /\ Posted(create(g, page.created + 1))
    BY <2>3, <2>4, <2>5, <2>6, BuildIs
  <2> QED
    BY <1>4, <2>7 DEF CreateEditor, Stepped
<1> QED
  BY <1>1, <1>2, <1>3, <1>4

LEMMA TextSteps ==
    EditorInv /\ (Type \/ Paste \/ TypeInForm \/ MouseUp \/ KeyUp \/ KeyUpModified \/ Timer) => Stepped
<1> SUFFICES ASSUME EditorInv,
                    Type \/ Paste \/ TypeInForm \/ MouseUp \/ KeyUp \/ KeyUpModified \/ Timer
             PROVE  Stepped
  OBVIOUS
<1>1. ASSUME Change, UNCHANGED page, due' # {} PROVE Stepped
  <2>1. g.container
    BY <1>1 DEF Change, Open
  <2>2. Sound(g, page) /\ g \in EditorRecord
    BY <2>1, WhenThere, WhenSound
  <2>3. PICK text \in Typed :
          IF g.wyswygMode THEN \E h \in Bodies(text) : g' = [g EXCEPT !.body = h]
                          ELSE g' = [g EXCEPT !.newTextarea = text]
    BY <1>1 DEF Change
  <2>4. SameRest(g, g') /\ g'.undoStack = g.undoStack
    <3>1. CASE g.wyswygMode
      <4>1. PICK h \in Bodies(text) : g' = [g EXCEPT !.body = h]
        BY <2>3, <3>1
      <4>2. h \in Html
        BY DEF Bodies
      <4> QED
        BY <2>2, <4>1, <4>2 DEF SameRest, EditorRecord
    <3>2. CASE ~ g.wyswygMode
      <4>1. g' = [g EXCEPT !.newTextarea = text] /\ text \in Texts
        BY <2>3, <3>2, EditorAssumption
      <4> QED
        BY <2>2, <4>1 DEF SameRest, EditorRecord
    <3> QED
      BY <3>1, <3>2
  <2>5. FirstKept(g')
    BY <2>2, <2>4 DEF Sound, FirstKept
  <2>6. Sound(g', page)
    BY <2>2, <2>4, <2>5, SoundSame
  <2> QED
    BY <1>1, <2>6 DEF Stepped
<1>2. ASSUME due # {}, g' = changed(g), UNCHANGED page PROVE Stepped
  <2>1. page.created # 0
    BY <1>2 DEF EditorInv, Sound
  <2>2. Sound(g, page) /\ g \in EditorRecord /\ FirstKept(g)
    BY <1>2, EditorAssumption, WhenSound DEF EditorInv, Sound
  <2>3. SameRest(g, g') /\ FirstKept(g') /\ Posted(g')
    BY <1>2, <2>2, ChangedIs, HandledKeepsFirst
  <2>4. Sound(g', page)
    BY <2>2, <2>3, SoundSame
  <2> QED
    BY <1>2, <2>3, <2>4 DEF Stepped
<1>3. CASE Type \/ Paste
  BY <1>1, <1>3 DEF Type, Paste
<1>4. CASE TypeInForm
  <2>1. ~ g.container /\ page.created # 0
    BY <1>4 DEF TypeInForm, EditorInv, Fresh
  <2>2. Sound(g, page) /\ g \in EditorRecord
    BY <2>1, WhenSound
  <2>3. PICK text \in Texts : g' = [g EXCEPT !.srcTextarea = text] /\ page' = page
    BY <1>4, EditorAssumption DEF TypeInForm
  <2>4. SameRest(g, g') /\ g'.undoStack = g.undoStack
    BY <2>2, <2>3 DEF SameRest, EditorRecord
  <2>5. Sound(g', page) /\ ~ g'.container
    BY <2>1, <2>2, <2>4, SoundSame DEF Sound, FirstKept, SameRest
  <2> QED
    BY <2>3, <2>5 DEF Stepped
<1>5. CASE MouseUp
  <2>1. g.container
    BY <1>5 DEF MouseUp, Open
  <2>2. Sound(g, page)
    BY <2>1, WhenThere, WhenSound
  <2> QED
    BY <1>5, <2>2 DEF MouseUp, Stepped
<1>6. CASE KeyUp \/ Timer
  BY <1>2, <1>6 DEF KeyUp, Timer
<1>7. CASE KeyUpModified
  <2>1. Sound(g, page)
    BY <1>7 DEF KeyUpModified, EditorInv
  <2> QED
    BY <1>7, <2>1 DEF KeyUpModified, Stepped
<1> QED
  BY <1>3, <1>4, <1>5, <1>6, <1>7

LEMMA CommandSteps ==
    EditorInv /\ (Undo \/ Redo \/ Source \/ InsertHtml \/ Menu \/ HideMenu \/ MenuExec) => Stepped
<1> SUFFICES ASSUME EditorInv, Undo \/ Redo \/ Source \/ InsertHtml \/ Menu \/ HideMenu \/ MenuExec
             PROVE  Stepped
  OBVIOUS
<1>1. g.container /\ ~ page.mask
  BY DEF Undo, Redo, Source, InsertHtml, Menu, HideMenu, MenuExec, Clicks, Open
<1>2. /\ Sound(g, page) /\ g \in EditorRecord /\ page \in PageRecord /\ FirstKept(g) /\ Fits(g, page)
      /\ g.onchange # 0 /\ g.toolbarIcon = (IF g.wyswygMode THEN Commands ELSE AlwaysAble)
      /\ due = {} /\ ~ ignored => Posted(g)
  BY <1>1, WhenThere, WhenSound, SoundHandlers
<1>3. ASSUME SameRest(g, g'), FirstKept(g'), Posted(g'), page' = [page EXCEPT !.menu = NoMenu]
      PROVE  Stepped
  BY <1>2, <1>3, SoundSame, SoundMenu DEF Stepped
<1>4. ASSUME g.wyswygMode, g' \in Inserted(g), page' = [page EXCEPT !.menu = NoMenu]
      PROVE  Stepped
  BY <1>2, <1>3, <1>4, InsertedIs
<1>5. CASE Undo
  BY <1>2, <1>3, <1>5, UndoClickIs DEF Undo
<1>6. CASE Redo
  BY <1>2, <1>3, <1>6, RedoClickIs DEF Redo
<1>7. CASE Source
  <2>1. PICK f : f = toggleSource(g)
    OBVIOUS
  <2>2. /\ f \in EditorRecord /\ f.container = g.container
        /\ f.onchange = g.onchange /\ f.eventStack = g.eventStack /\ f.dialogStack = g.dialogStack
        /\ f.toolbarIcon = (IF f.wyswygMode THEN Commands ELSE AlwaysAble)
        /\ FirstKept(f) /\ (Posted(g) \/ ~ g.wyswygMode => Posted(f))
    BY <1>2, <2>1, ToggleSourceIs
  <2>3. PICK q : q = [page EXCEPT !.menu = NoMenu]
    OBVIOUS
  <2>4. Sound(g, q) /\ q.menu = NoMenu /\ q.mask = page.mask
    BY <1>2, <2>3, SoundMenu, MenuIsSame DEF SamePage
  <2>5. Fits(f, q)
    BY <1>1, <2>2, <2>4 DEF Sound, Fits, BuiltOk, DialogsOk, MenuOk
  <2>6. Sound(f, q)
    BY <2>2, <2>4, <2>5 DEF Sound
  <2>7. g' = f /\ page' = q /\ ignored' = (g.wyswygMode /\ ignored) /\ due' = due
    BY <1>7, <2>1, <2>3 DEF Source
  <2> QED
    BY <1>2, <2>2, <2>6, <2>7 DEF Stepped
<1>8. CASE InsertHtml
  <2>1. g.wyswygMode
    BY <1>2, <1>8 DEF InsertHtml, Clicks, AlwaysAble
  <2> QED
    BY <1>4, <1>8, <2>1 DEF InsertHtml
<1>9. CASE Menu
  <2>1. g.wyswygMode
    BY <1>2, <1>9 DEF Menu, Clicks, AlwaysAble
  <2>2. PICK menu \in {NoMenu, "textcolor"} : page' = [page EXCEPT !.menu = menu]
    BY <1>9 DEF Menu
  <2>3. PICK q : q = page'
    OBVIOUS
  <2>4. SamePage(page, q)
    BY <1>2, <2>2, <2>3, MenuIsSame
  <2>5. Fits(g, q)
    BY <1>1, <1>2, <2>1, <2>4, SamePageFits DEF MenuOk, SamePage
  <2>6. Sound(g, q)
    BY <1>2, <2>4, <2>5 DEF Sound, SamePage
  <2> QED
    BY <1>2, <1>9, <2>3, <2>6 DEF Menu, Stepped
<1>10. CASE HideMenu
  <2>1. Sound(g, [page EXCEPT !.menu = NoMenu])
    BY <1>2, SoundMenu
  <2> QED
    BY <1>2, <1>10, <2>1 DEF HideMenu, Stepped
<1>11. CASE MenuExec
  <2>1. g.wyswygMode
    BY <1>2, <1>11 DEF MenuExec, Fits, MenuOk
  <2> QED
    BY <1>4, <1>11, <2>1 DEF MenuExec
<1> QED
  BY <1>5, <1>6, <1>7, <1>8, <1>9, <1>10, <1>11

LEMMA DialogSteps ==
    EditorInv /\ (ImageDialog \/ FileManager \/ DialogLoaded \/ Browse \/ PickFile \/ Close) => Stepped
<1> SUFFICES ASSUME EditorInv,
                    ImageDialog \/ FileManager \/ DialogLoaded \/ Browse \/ PickFile \/ Close
             PROVE  Stepped
  OBVIOUS
<1>1. page.created # 0
  <2>1. CASE page.mask
    BY <2>1, WhenMasked
  <2>2. CASE ImageDialog
    BY <2>2, WhenThere DEF ImageDialog, Clicks, Open
  <2>3. CASE ~ page.mask /\ Close
    <3>1. Fits(g, page)
      BY DEF EditorInv, Fresh, Sound
    <3>2. g.dialogStack = <<>>
      BY <2>3, <3>1 DEF Fits, DialogsOk
    <3>3. page.dialogs # {}
      BY <2>3 DEF Close
    <3>4. page.left # {}
      BY <3>1, <3>2, <3>3 DEF Fits, DialogsOk, Stacked, LeftDivs
    <3>5. Sound(g, page)
      BY <3>4 DEF EditorInv, Fresh
    <3> QED
      BY <3>5, EditorAssumption DEF Sound
  <2> QED
    BY <2>1, <2>2, <2>3 DEF FileManager, DialogLoaded, Browse, PickFile
<1>2. /\ Sound(g, page) /\ g \in EditorRecord /\ page \in PageRecord /\ Fits(g, page)
      /\ g.container =>
            /\ g.toolbarIcon = (IF g.wyswygMode THEN Commands ELSE AlwaysAble)
            /\ due = {} /\ ~ ignored => Posted(g)
  BY <1>1, WhenSound, SoundHandlers
<1>3. ASSUME Elsewhere(g, g'), page' \in PageRecord, Fits(g', page'), page'.created = page.created,
             UNCHANGED <<due, ignored>>
      PROVE  Stepped
  <2>1. g'.container = g.container
    BY <1>3 DEF Elsewhere
  <2> QED
    BY <1>2, <1>3, <2>1, SoundElsewhere DEF Stepped
<1>4. ASSUME NEW cmd, Show(cmd),
             \/ cmd = "image" /\ g.container /\ g.wyswygMode /\ ~ page.mask
             \/ cmd = "file_manager" /\ page.mask /\ Over(g).cmd = "image"
      PROVE  Stepped
  <2>1. PICK x, f, q : x = NewDialog(g, page, cmd) /\ f = DialogOn(g, x) /\ q = DivOn(page, x)
    OBVIOUS
  <2>2. g' = f /\ page' = q /\ UNCHANGED <<due, ignored>>
    BY <1>4, <2>1 DEF Show, NewDialog, DialogOn, DivOn
  <2>3. Elsewhere(g, f) /\ q \in PageRecord /\ Fits(f, q) /\ q.created = page.created
    BY <1>2, <1>4, <2>1, ShownDialogFits
  <2> QED
    BY <1>3, <2>2, <2>3
<1>5. ASSUME NEW div, Becomes(Hide(Here, div)), UNCHANGED <<due, ignored>> PROVE Stepped
  <2>1. PICK s : s = Hide([g |-> g, page |-> page], div)
    OBVIOUS
  <2>2. Elsewhere(g, s.g) /\ s.page \in PageRecord /\ Fits(s.g, s.page) /\ s.page.created = page.created
    BY <1>2, <2>1, HideKeeps
  <2>3. g' = s.g /\ page' = s.page
    BY <1>5, <2>1 DEF Becomes, Here
  <2> QED
    BY <1>3, <1>5, <2>2, <2>3
<1>6. ASSUME NEW state \in States, page.mask, g' = WithState(g, state),
             UNCHANGED <<page, due, ignored>>
      PROVE  Stepped
  <2>1. g.dialogStack # <<>>
    BY <1>6, WhenMasked
  <2>2. Elsewhere(g, g') /\ Fits(g', page)
    BY <1>2, <1>6, <2>1, WithStateKeeps
  <2> QED
    BY <1>2, <1>3, <1>6, <2>2
<1>7. CASE ImageDialog
  <2>1. g.container /\ g.wyswygMode /\ ~ page.mask
    BY <1>2, <1>7 DEF ImageDialog, Clicks, Open, AlwaysAble
  <2> QED
    BY <1>4, <1>7, <2>1 DEF ImageDialog
<1>8. CASE FileManager
  BY <1>4, <1>8 DEF FileManager
<1>9. CASE DialogLoaded \/ Browse
  BY <1>6, <1>9 DEF DialogLoaded, Browse, Loaded, States
<1>10. CASE PickFile
  BY <1>5, <1>10 DEF PickFile
<1>11. CASE Close
  BY <1>5, <1>11 DEF Close
<1> QED
  BY <1>7, <1>8, <1>9, <1>10, <1>11

LEMMA PictureSteps == EditorInv /\ (InsertImage \/ Upload) => Stepped
<1> SUFFICES ASSUME EditorInv, InsertImage \/ Upload PROVE Stepped
  OBVIOUS
<1>1. page.mask
  BY DEF InsertImage, Upload
<1>2. g.container /\ g.wyswygMode /\ page.created # 0 /\ g.dialogStack # <<>>
  BY <1>1, WhenMasked
<1>3. /\ Sound(g, page) /\ g \in EditorRecord /\ page \in PageRecord /\ Fits(g, page) /\ FirstKept(g)
      /\ g.onchange # 0 /\ (due = {} /\ ~ ignored => Posted(g))
  BY <1>2, WhenSound, SoundHandlers
<1>4. CASE InsertImage
  <2>1. PICK e \in Inserted(g) : Becomes(Hide([g |-> e, page |-> page], Over(g).div))
    BY <1>4 DEF InsertImage
  <2>2. SameRest(g, e) /\ FirstKept(e) /\ Posted(e)
    BY <1>2, <1>3, <2>1, InsertedIs
  <2>3. Sound(e, page)
    BY <1>3, <2>2, SoundSame
  <2>4. e \in EditorRecord /\ Fits(e, page)
    BY <2>3 DEF Sound
  <2>5. PICK s, div : s = Hide([g |-> e, page |-> page], div) /\ div = Over(g).div
    OBVIOUS
  <2>6. Elsewhere(e, s.g) /\ s.page \in PageRecord /\ Fits(s.g, s.page) /\ s.page.created = page.created
    BY <1>3, <2>4, <2>5, HideKeeps
  <2>7. Sound(s.g, s.page) /\ Posted(s.g)
    BY <2>2, <2>3, <2>6, SoundElsewhere
  <2>8. g' = s.g /\ page' = s.page
    BY <2>1, <2>5 DEF Becomes
  <2> QED
    BY <2>7, <2>8 DEF Stepped
<1>5. CASE Upload
  <2>1. PICK f : f = WithState(g, "loading")
    OBVIOUS
  <2>2. /\ Elsewhere(g, f) /\ Fits(f, page) /\ f.dialogStack # <<>>
        /\ Len(f.dialogStack) = Len(g.dialogStack)
    BY <1>2, <1>3, <2>1, WithStateKeeps DEF States
  <2>3. Sound(f, page) /\ (Posted(g) => Posted(f)) /\ f \in EditorRecord
    BY <1>3, <2>2, SoundElsewhere DEF Elsewhere
  <2>4. PICK n \in Nat : n = f.dialogStack[Len(f.dialogStack)].uploads + 1
    BY <2>2, <2>3, OverIs DEF Dialog
  <2>5. g' = [f EXCEPT !.dialogStack[Len(f.dialogStack)].uploads = n]
    BY <1>5, <2>1, <2>2, <2>4 DEF Upload
  <2>6. Elsewhere(f, g') /\ Fits(g', page)
    BY <1>3, <2>2, <2>3, <2>5, UploadsKeep, OverIs
  <2>7. Sound(g', page) /\ (Posted(f) => Posted(g'))
    BY <1>3, <2>3, <2>6, SoundElsewhere
  <2> QED
    BY <1>2, <1>3, <1>5, <2>3, <2>7 DEF Upload, Stepped
<1> QED
  BY <1>4, <1>5

\* Whoever hears the answer to an upload.
LEMMA HeardIs ==
    ASSUME EditorInv, NEW e, NEW p, Sound(e, p), e.dialogStack = <<>> <=> g.dialogStack = <<>>,
           g.container /\ due = {} /\ ~ ignored => Posted(e), e.container = g.container,
           NEW uploads, Heard([g |-> e, page |-> p], uploads)
    PROVE  Stepped
<1>1. g \in EditorRecord
  BY DEF EditorInv, Sound, Fresh
<1>2. ASSUME NEW body \in Html, g.dialogStack # <<>>,
             LET once == Uploaded([g |-> e, page |-> p], "url", body)
             IN  Becomes(IF uploads = 1 THEN once ELSE Uploaded(once, "url", body))
      PROVE  Stepped
  <2>1. PICK s : s = Uploaded([g |-> e, page |-> p], "url", body)
    OBVIOUS
  <2>2. Sound(s.g, s.page) /\ s = [g |-> s.g, page |-> s.page] /\ Posted(s.g)
    BY <1>2, <2>1, UploadedIs
  <2>3. PICK e2, p2 : e2 = s.g /\ p2 = s.page
    OBVIOUS
  <2>4. PICK t : t = Uploaded([g |-> e2, page |-> p2], "url", body)
    OBVIOUS
  <2>5. Sound(t.g, t.page) /\ Posted(t.g)
    BY <2>2, <2>3, <2>4, UploadedIs
  <2>6. t = Uploaded(s, "url", body)
    BY <2>2, <2>3, <2>4
  <2>7. Becomes(IF uploads = 1 THEN s ELSE t)
    BY <1>2, <2>1, <2>6
  <2>8. Sound(g', page') /\ Posted(g')
    BY <2>2, <2>5, <2>7 DEF Becomes
  <2> QED
    BY <2>8 DEF Stepped
<1>3. ASSUME Becomes(Uploaded([g |-> e, page |-> p], "error", g.body)), UNCHANGED <<due, ignored>>
      PROVE  Stepped
  <2>1. PICK body \in Html : body = g.body
    BY <1>1 DEF EditorRecord
  <2>2. PICK s : s = Uploaded([g |-> e, page |-> p], "error", body)
    OBVIOUS
  <2>3. Sound(s.g, s.page) /\ (Posted(e) => Posted(s.g))
    BY <2>2, UploadedIs
  <2>5. s.g.container => g.container
    <3>1. CASE e.dialogStack = <<>>
      BY <2>2, <3>1 DEF Uploaded
    <3>2. CASE e.dialogStack # <<>>
      BY <3>2 DEF Sound, Fits, DialogsOk
    <3> QED
      BY <3>1, <3>2
  <2>4. g' = s.g /\ page' = s.page
    BY <1>3, <2>1, <2>2 DEF Becomes
  <2> QED
    BY <1>3, <2>3, <2>4, <2>5 DEF Stepped
<1>4. \A t \in Typed : Bodies(t) \subseteq Html
  BY DEF Bodies
<1> QED
  BY <1>2, <1>3, <1>4 DEF Heard

\* What is answered, to the dialogs there are or to those left behind.
LEMMA AnswerSteps == EditorInv /\ (UploadAnswered \/ LeftLoaded \/ LeftAnswered) => Stepped
<1> SUFFICES ASSUME EditorInv, UploadAnswered \/ LeftLoaded \/ LeftAnswered PROVE Stepped
  OBVIOUS
<1>1. page.created # 0
  <2>1. CASE page.mask
    BY <2>1, WhenMasked
  <2>2. CASE page.left # {}
    BY <2>2, EditorAssumption DEF EditorInv, Fresh, Sound
  <2> QED
    BY <2>1, <2>2 DEF UploadAnswered, LeftLoaded, LeftAnswered
<1>2. /\ Sound(g, page) /\ g \in EditorRecord /\ page \in PageRecord /\ Fits(g, page)
      /\ g.container /\ due = {} /\ ~ ignored => Posted(g)
  BY <1>1, WhenSound
<1>3. CASE UploadAnswered
  <2>1. PICK e : e = [g EXCEPT !.dialogStack[1].uploads = 0]
    OBVIOUS
  <2>2. g.dialogStack # <<>>
    BY <1>3, WhenMasked DEF UploadAnswered
  <2>3. 1 \in DOMAIN g.dialogStack
    BY <1>2, <2>2 DEF EditorRecord
  <2>4. Elsewhere(g, e) /\ Fits(e, page) /\ e.dialogStack # <<>>
    BY <1>2, <2>1, <2>3, UploadsKeep
  <2>5. Sound(e, page) /\ (Posted(g) => Posted(e)) /\ e.container = g.container
    BY <1>2, <2>4, SoundElsewhere DEF Elsewhere
  <2>6. [Here EXCEPT !.g.dialogStack[1].uploads = 0] = [g |-> e, page |-> page]
    BY <2>1 DEF Here
  <2>7. PICK uploads : Heard([g |-> e, page |-> page], uploads)
    BY <1>3, <2>6 DEF UploadAnswered
  <2> QED
    BY <1>2, <2>2, <2>4, <2>5, <2>7, HeardIs
<1>4. CASE LeftLoaded
  <2>1. PICK d, state :
          /\ d \in page.left /\ state \in Loaded(d)
          /\ g' \in {showLoadingPage(g), hideLoadingPage(g), g}
          /\ page' = [page EXCEPT !.left = (@ \ {d}) \cup
                {[d EXCEPT !.state = IF @ = "opening" /\ g.dialogStack = <<>> THEN "failed" ELSE state]}]
          /\ UNCHANGED <<due, ignored>>
    BY <1>4 DEF LeftLoaded
  <2>2. d \in Dialog /\ state \in States
    BY <1>2, <2>1 DEF PageRecord, Loaded, States
  <2>3. PICK now \in States : now = IF d.state = "opening" /\ g.dialogStack = <<>> THEN "failed" ELSE state
    BY <2>2 DEF States
  <2>4. PICK x \in Dialog : x = [d EXCEPT !.state = now]
    BY <2>2 DEF Dialog, States
  <2>5. x.div = d.div /\ x.frame = d.frame
    BY <2>2, <2>4 DEF Dialog
  <2>6. PICK p : p = [page EXCEPT !.left = (@ \ {d}) \cup {x}]
    OBVIOUS
  <2>10. Waiting(page, d, x, p)
    BY <2>1, <2>5, <2>6 DEF Waiting
  <2>11. page' = p
    BY <2>1, <2>3, <2>4, <2>6
  <2>7. Elsewhere(g, g') /\ Fits(g', page)
    BY <1>2, <2>1, LoadingKeeps
  <2>8. p \in PageRecord /\ Fits(g', p) /\ p.created = page.created
    BY <1>2, <2>7, <2>10, LeftChanges
  <2>9. Sound(g', page') /\ (Posted(g) => Posted(g')) /\ g'.container = g.container
    BY <1>2, <2>7, <2>8, <2>11, SoundElsewhere DEF Elsewhere
  <2> QED
    BY <1>2, <2>1, <2>9 DEF Stepped
<1>5. CASE LeftAnswered
  <2>1. PICK d \in page.left :
          Heard([g |-> g, page |-> [page EXCEPT !.left = (@ \ {d}) \cup {[d EXCEPT !.uploads = 0]}]], d.uploads)
    BY <1>5 DEF LeftAnswered
  <2>2. PICK x \in Dialog : x = [d EXCEPT !.uploads = 0] /\ x.div = d.div /\ x.frame = d.frame
    <3>1. d \in Dialog
      BY <1>2 DEF PageRecord
    <3>2. PICK x : x = [d EXCEPT !.uploads = 0]
      OBVIOUS
    <3>3. x \in Dialog /\ x.div = d.div /\ x.frame = d.frame
      BY <3>1, <3>2 DEF Dialog
    <3> QED
      BY <3>2, <3>3
  <2>3. PICK p : p = [page EXCEPT !.left = (@ \ {d}) \cup {x}]
    OBVIOUS
  <2>7. Waiting(page, d, x, p)
    BY <2>1, <2>2, <2>3 DEF Waiting
  <2>4. p \in PageRecord /\ Fits(g, p) /\ p.created = page.created
    BY <1>2, <2>7, LeftChanges
  <2>5. Sound(g, p)
    BY <1>2, <2>4 DEF Sound
  <2>6. Heard([g |-> g, page |-> p], d.uploads)
    <3>1. [page EXCEPT !.left = (@ \ {d}) \cup {[d EXCEPT !.uploads = 0]}] = p
      BY <2>2, <2>3
    <3> QED
      BY <2>1, <3>1
  <2> QED
    BY <1>2, <2>5, <2>6, HeardIs
<1> QED
  BY <1>3, <1>4, <1>5

LEMMA EventSteps ==
    EditorInv /\ Next => due' \subseteq Events /\ ignored' \in BOOLEAN /\ edits' \in 0 .. MaxEdits
<1> SUFFICES ASSUME EditorInv, Next
             PROVE  due' \subseteq Events /\ ignored' \in BOOLEAN /\ edits' \in 0 .. MaxEdits
  OBVIOUS
<1>1. due \subseteq Events /\ ignored \in BOOLEAN /\ edits \in 0 .. MaxEdits
  BY DEF EditorInv
<1>2. Edits => edits' \in 0 .. MaxEdits
  BY <1>1, EditorAssumption DEF Edits
<1>3. edits' = edits \/ Edits
  BY DEF Next, Ready, Fullscreen, RemoveEditor, CreateEditor, Type, Paste, TypeInForm, MouseUp, KeyUp,
         KeyUpModified, Timer, Undo, Redo, Source, InsertHtml, Menu, HideMenu, MenuExec, ImageDialog,
         FileManager, DialogLoaded, Browse, PickFile, Close, InsertImage, Upload, UploadAnswered,
         LeftLoaded, LeftAnswered, Heard, Change
<1>4. due' = due \/ due' = due \cup {"keyup"} \/ due' = due \cup {"timer"}
          \/ due' = due \ {"keyup"} \/ due' = due \ {"timer"}
  BY DEF Next, Ready, Fullscreen, RemoveEditor, CreateEditor, Type, Paste, TypeInForm, MouseUp, KeyUp,
         KeyUpModified, Timer, Undo, Redo, Source, InsertHtml, Menu, HideMenu, MenuExec, ImageDialog,
         FileManager, DialogLoaded, Browse, PickFile, Close, InsertImage, Upload, UploadAnswered,
         LeftLoaded, LeftAnswered, Heard, Show
<1>5. ignored' = ignored \/ ignored' = FALSE \/ ignored' = TRUE \/ ignored' = (g.wyswygMode /\ ignored)
  BY DEF Next, Ready, Fullscreen, RemoveEditor, CreateEditor, Type, Paste, TypeInForm, MouseUp, KeyUp,
         KeyUpModified, Timer, Undo, Redo, Source, InsertHtml, Menu, HideMenu, MenuExec, ImageDialog,
         FileManager, DialogLoaded, Browse, PickFile, Close, InsertImage, Upload, UploadAnswered,
         LeftLoaded, LeftAnswered, Heard, Show
<1>6. due' \subseteq Events
  BY <1>1, <1>4 DEF Events
<1>7. ignored' \in BOOLEAN
  BY <1>1, <1>5
<1> QED
  BY <1>1, <1>2, <1>3, <1>6, <1>7

LEMMA EditorStep == EditorInv /\ [Next]_vars => EditorInv'
<1> SUFFICES ASSUME EditorInv, [Next]_vars PROVE EditorInv'
  OBVIOUS
<1>1. CASE UNCHANGED vars
  BY <1>1 DEF EditorInv, PostsWhatIsShown, vars
<1>2. CASE Next
  <2>1. Stepped
    BY <1>2, BuildSteps, TextSteps, CommandSteps, DialogSteps, PictureSteps, AnswerSteps DEF Next
  <2>2. PostsWhatIsShown'
    BY <2>1 DEF Stepped, PostsWhatIsShown, Posted
  <2>3. Sound(g, page)'
    BY <2>1 DEF Stepped
  <2> QED
    BY <1>2, <2>2, <2>3, EventSteps DEF EditorInv
<1> QED
  BY <1>1, <1>2

\* The invariant that the theorems rest on.
THEOREM EditorIsSound == Spec => []EditorInv
BY EditorInit, EditorStep, PTL DEF Spec

-----------------------------------------------------------------------------
(* What follows from it. *)

\* The variables have their types: texts are texts, the history is made of them, and no
\* more editors are counted than are built.
THEOREM EditorTypeOK == Spec => []TypeOK
<1>1. EditorInv => TypeOK
  <2> SUFFICES ASSUME EditorInv PROVE TypeOK
    OBVIOUS
  <2>1. g \in EditorRecord /\ page \in PageRecord /\ Fits(g, page)
    BY DEF EditorInv, Sound, Fresh
  <2>2. /\ g.body \in Html /\ {g.newTextarea, g.srcTextarea} \subseteq Texts
        /\ {g.container, g.wyswygMode, g.fullscreen} \subseteq BOOLEAN
        /\ g.undoStack \in Seq(Html) /\ g.redoStack \in Seq(Html)
        /\ g.toolbarIcon \subseteq Commands
    BY <2>1 DEF EditorRecord
  <2>3. g.onchange \in 0 .. 1
    BY <2>1 DEF Fits, BuiltOk
  <2>4. {g.dialogStack[i] : i \in DOMAIN g.dialogStack} \cup page.left \subseteq Dialog
    <3>1. PICK stack \in Seq(Dialog) : stack = g.dialogStack
      BY <2>1 DEF EditorRecord
    <3>2. \A i \in DOMAIN stack : stack[i] \in Dialog
      OBVIOUS
    <3>3. page.left \subseteq Dialog
      BY <2>1 DEF PageRecord
    <3> QED
      BY <3>1, <3>2, <3>3
  <2>5. page.menu \in {NoMenu, "textcolor"} /\ page.mask \in BOOLEAN
    BY <2>1 DEF PageRecord
  <2>6. page.listeners \subseteq 1 .. MaxCreates
    BY <2>1 DEF EditorInv, Sound, Fresh, Fits, BuiltOk
  <2>7. due \subseteq Events /\ ignored \in BOOLEAN /\ edits \in 0 .. MaxEdits
    BY DEF EditorInv
  <2> QED
    BY <2>2, <2>3, <2>4, <2>5, <2>6, <2>7 DEF TypeOK
<1> QED
  BY <1>1, EditorIsSound, PTL

\* What the form posts is what the user sees, in either view, once the events of the
\* changes have come and none of them went by under Ctrl or Alt (kindeditor.js:1726,
\* 2892-2905), for any texts and whatever is done to them.
THEOREM PostsWhatIsShownEver == Spec => []PostsWhatIsShown
<1>1. EditorInv => PostsWhatIsShown
  BY DEF EditorInv
<1> QED
  BY <1>1, EditorIsSound, PTL

\* The first entry of the history is the text that the page came with, however long the
\* history gets and however often the editor is removed and built again
\* (kindeditor.js:2532-2579).
THEOREM FirstTextKeptEver == Spec => []FirstTextKept
<1>1. EditorInv => FirstTextKept
  BY DEF EditorInv, Sound, Fresh, FirstKept, FirstTextKept
<1> QED
  BY <1>1, EditorIsSound, PTL

\* In every state that is reached redo takes back an undo, and undo a redo that changed
\* something (kindeditor.js:2549-2578).
THEOREM UndoAndRedoCancelEver == Spec => []UndoAndRedoCancel
<1>1. EditorInv => UndoAndRedoCancel
  <2> SUFFICES ASSUME EditorInv, g.container PROVE UndoAndRedoCancel
    BY DEF UndoAndRedoCancel
  <2>1. g \in EditorRecord /\ g.onchange # 0
    BY WhenThere, WhenSound, SoundHandlers
  <2> QED
    BY <2>1, RedoTakesBackUndo, UndoTakesBackRedo DEF UndoAndRedoCancel
<1> QED
  BY <1>1, EditorIsSound, PTL

\* In every state that is reached an undo leaves less to undo, or shows the text that the
\* page came with: whoever goes on undoing gets back to it (kindeditor.js:2549-2563).
THEOREM UndoGetsBackEver == Spec => []UndoGetsBack
<1>1. EditorInv => UndoGetsBack
  <2> SUFFICES ASSUME EditorInv, g.container PROVE UndoGetsBack
    BY DEF UndoGetsBack
  <2>1. g \in EditorRecord /\ g.onchange # 0 /\ FirstKept(g)
    BY WhenThere, WhenSound, SoundHandlers
  <2> QED
    BY <2>1, UndoMakesHeadway DEF UndoGetsBack
<1> QED
  BY <1>1, EditorIsSound, PTL

\* The dialogs in the document are those that can be closed, each with a frame of its own,
\* and those that were open when the editor was removed, which keep none of their frames
\* from it; mask, menu, icons, listeners and handlers are as the editor that is there wants
\* them (kindeditor.js:2205-2402, 2674-2706, 3010-3160), however often it is removed and
\* built again, with whatever dialogs and uploads.
THEOREM NothingLeftBehindEver == Spec => []NothingLeftBehind
<1>1. EditorInv => NothingLeftBehind
  <2> SUFFICES ASSUME EditorInv PROVE NothingLeftBehind
    OBVIOUS
  <2>1. g \in EditorRecord /\ Fits(g, page)
    BY DEF EditorInv, Sound, Fresh
  <2>2. PICK stack \in Seq(Dialog) :
          stack = g.dialogStack /\ Stacked(stack, page.dialogs \ LeftDivs(page), Used(page))
    BY <2>1 DEF EditorRecord, Fits, DialogsOk
  <2>3. /\ Divs(g) = page.dialogs \ LeftDivs(page) /\ Cardinality(Frames(g)) = Len(stack)
        /\ Frames(g) \cap Used(page) = {} /\ LeftDivs(page) \subseteq page.dialogs
    <3>1. LeftDivs(page) \subseteq page.dialogs
      BY <2>1 DEF Fits, DialogsOk
    <3>2. /\ DivsOf(stack) = page.dialogs \ LeftDivs(page) /\ Cardinality(FramesOf(stack)) = Len(stack)
          /\ FramesOf(stack) \cap Used(page) = {}
      BY <2>2, StackHas
    <3>3. Divs(g) = DivsOf(stack) /\ Frames(g) = FramesOf(stack)
      BY <2>2 DEF Divs, Frames, DivsOf, FramesOf
    <3> QED
      BY <3>1, <3>2, <3>3
  <2>4. /\ page.mask <=> g.dialogStack # <<>>
        /\ page.menu # NoMenu => g.container /\ g.wyswygMode /\ ~ page.mask
        /\ page.listeners = (IF g.container THEN {page.created} ELSE {})
        /\ g.container =>
              g.onchange = 1 /\ g.toolbarIcon = (IF g.wyswygMode THEN Commands ELSE AlwaysAble)
    BY <2>1 DEF Fits, BuiltOk, DialogsOk, MenuOk
  <2> QED
    BY <2>2, <2>3, <2>4 DEF NothingLeftBehind, LeftDivs, Used
<1> QED
  BY <1>1, EditorIsSound, PTL

-----------------------------------------------------------------------------
(* The search for tiles that can be linked. *)

\* What one finds in a straight line from a cell, as getVisiualImgs and getUnVisibleImgs do.
Sees(vis, x, y) == \E d \in Directions, k \in Reach : y = Away(x, d, k) /\ Between(x, d, k) \cap vis = {}

LEMMA SeenIsClear ==
    ASSUME NEW vis \in SUBSET Cells, NEW x \in Cells, NEW y \in Cells, Sees(vis, x, y)
    PROVE  ClearLine(vis, x, y)
<1>1. PICK d \in Directions, k \in Reach : y = Away(x, d, k) /\ Between(x, d, k) \cap vis = {}
  BY DEF Sees
<1>2. k \in Nat /\ k > 0 /\ x[1] \in Int /\ x[2] \in Int
  BY BoardAssumption DEF Reach, Cells
<1>3. y[1] = x[1] + k * d[1] /\ y[2] = x[2] + k * d[2]
  BY <1>1 DEF Away
<1>4. x[1] = y[1] \/ x[2] = y[2]
  BY <1>2, <1>3 DEF Directions
<1>5. ASSUME NEW z \in vis \ {x, y},
             z[1] \in (IF x[1] < y[1] THEN x[1] .. y[1] ELSE y[1] .. x[1]),
             z[2] \in (IF x[2] < y[2] THEN x[2] .. y[2] ELSE y[2] .. x[2])
      PROVE  FALSE
  <2>1. z = <<z[1], z[2]>> /\ x = <<x[1], x[2]>> /\ y = <<y[1], y[2]>> /\ z[1] \in Int /\ z[2] \in Int
    BY DEF Cells
  <2>2. PICK j \in 1 .. k - 1 : z[1] = x[1] + j * d[1] /\ z[2] = x[2] + j * d[2]
    <3>1. CASE d = <<-1, 0>>
      <4>1. d[1] = -1 /\ d[2] = 0 /\ y[1] = x[1] - k /\ y[2] = x[2] /\ ~ x[2] < y[2] /\ y[1] \in Int
        BY <1>2, <1>3, <3>1
      <4>2. z[2] = x[2] /\ z[1] # x[1] /\ z[1] # y[1]
        BY <1>2, <1>5, <2>1, <4>1
      <4>3. x[1] - k < z[1] /\ z[1] < x[1]
        BY <1>2, <1>5, <2>1, <4>1, <4>2
      <4> DEFINE j == x[1] - z[1]
      <4>4. j \in 1 .. k - 1 /\ z[1] = x[1] + j * d[1] /\ z[2] = x[2] + j * d[2]
        BY <1>2, <2>1, <4>1, <4>2, <4>3
      <4> QED
        BY <4>4
    <3>2. CASE d = <<1, 0>>
      <4>1. d[1] = 1 /\ d[2] = 0 /\ y[1] = x[1] + k /\ y[2] = x[2] /\ ~ x[2] < y[2] /\ y[1] \in Int
        BY <1>2, <1>3, <3>2
      <4>2. z[2] = x[2] /\ z[1] # x[1] /\ z[1] # y[1]
        BY <1>2, <1>5, <2>1, <4>1
      <4>3. x[1] < z[1] /\ z[1] < x[1] + k
        BY <1>2, <1>5, <2>1, <4>1, <4>2
      <4> DEFINE j == z[1] - x[1]
      <4>4. j \in 1 .. k - 1 /\ z[1] = x[1] + j * d[1] /\ z[2] = x[2] + j * d[2]
        BY <1>2, <2>1, <4>1, <4>2, <4>3
      <4> QED
        BY <4>4
    <3>3. CASE d = <<0, -1>>
      <4>1. d[2] = -1 /\ d[1] = 0 /\ y[2] = x[2] - k /\ y[1] = x[1] /\ ~ x[1] < y[1] /\ y[2] \in Int
        BY <1>2, <1>3, <3>3
      <4>2. z[1] = x[1] /\ z[2] # x[2] /\ z[2] # y[2]
        BY <1>2, <1>5, <2>1, <4>1
      <4>3. x[2] - k < z[2] /\ z[2] < x[2]
        BY <1>2, <1>5, <2>1, <4>1, <4>2
      <4> DEFINE j == x[2] - z[2]
      <4>4. j \in 1 .. k - 1 /\ z[1] = x[1] + j * d[1] /\ z[2] = x[2] + j * d[2]
        BY <1>2, <2>1, <4>1, <4>2, <4>3
      <4> QED
        BY <4>4
    <3>4. CASE d = <<0, 1>>
      <4>1. d[2] = 1 /\ d[1] = 0 /\ y[2] = x[2] + k /\ y[1] = x[1] /\ ~ x[1] < y[1] /\ y[2] \in Int
        BY <1>2, <1>3, <3>4
      <4>2. z[1] = x[1] /\ z[2] # x[2] /\ z[2] # y[2]
        BY <1>2, <1>5, <2>1, <4>1
      <4>3. x[2] < z[2] /\ z[2] < x[2] + k
        BY <1>2, <1>5, <2>1, <4>1, <4>2
      <4> DEFINE j == z[2] - x[2]
      <4>4. j \in 1 .. k - 1 /\ z[1] = x[1] + j * d[1] /\ z[2] = x[2] + j * d[2]
        BY <1>2, <2>1, <4>1, <4>2, <4>3
      <4> QED
        BY <4>4
    <3> QED
      BY <3>1, <3>2, <3>3, <3>4 DEF Directions
  <2>3. z = Away(x, d, j)
    BY <2>1, <2>2 DEF Away
  <2>4. z \in Between(x, d, k)
    BY <2>3 DEF Between
  <2> QED
    BY <1>1, <1>5, <2>4
<1> QED
  BY <1>4, <1>5 DEF ClearLine

\* A clear line goes so many steps in one of the directions.
LEMMA ClearIsSeen ==
    ASSUME NEW vis \in SUBSET Cells, NEW x \in Cells, NEW y \in Cells, x # y, ClearLine(vis, x, y)
    PROVE  Sees(vis, x, y)
<1>1. /\ x = <<x[1], x[2]>> /\ y = <<y[1], y[2]>>
      /\ x[1] \in 0 .. Rows - 1 /\ y[1] \in 0 .. Rows - 1 /\ x[2] \in 0 .. Cols - 1 /\ y[2] \in 0 .. Cols - 1
  BY DEF Cells
<1>2. Rows \in Nat /\ Cols \in Nat
  BY BoardAssumption
<1>3. ASSUME NEW d \in Directions, NEW k \in Reach, y = Away(x, d, k),
             \A j \in 1 .. k - 1 : Away(x, d, j) \notin vis
      PROVE  Sees(vis, x, y)
  <2>1. Between(x, d, k) \cap vis = {}
    BY <1>3 DEF Between
  <2> QED
    BY <1>3, <2>1 DEF Sees
<1>4. \A z \in vis : z # x /\ z # y =>
         ~ /\ z[1] \in (IF x[1] < y[1] THEN x[1] .. y[1] ELSE y[1] .. x[1])
           /\ z[2] \in (IF x[2] < y[2] THEN x[2] .. y[2] ELSE y[2] .. x[2])
  BY DEF ClearLine
<1>5. CASE x[2] = y[2] /\ x[1] < y[1]
  <2> DEFINE d == <<1, 0>>  k == y[1] - x[1]
  <2>1. d \in Directions /\ k \in Reach
    BY <1>1, <1>2, <1>5 DEF Directions, Reach
  <2>2. y = Away(x, d, k)
    BY <1>1, <1>2, <1>5 DEF Away
  <2>3. ASSUME NEW j \in 1 .. k - 1 PROVE Away(x, d, j) \notin vis
    <3>1. Away(x, d, j) = <<x[1] + j, x[2]>> /\ j \in Int /\ j > 0 /\ j < y[1] - x[1]
      BY <1>1, <1>2, <2>3 DEF Away
    <3> QED
      BY <1>1, <1>2, <1>4, <1>5, <3>1
  <2> QED
    BY <1>3, <2>1, <2>2, <2>3
<1>6. CASE x[2] = y[2] /\ x[1] > y[1]
  <2> DEFINE d == <<-1, 0>>  k == x[1] - y[1]
  <2>1. d \in Directions /\ k \in Reach
    BY <1>1, <1>2, <1>6 DEF Directions, Reach
  <2>2. y = Away(x, d, k)
    BY <1>1, <1>2, <1>6 DEF Away
  <2>3. ASSUME NEW j \in 1 .. k - 1 PROVE Away(x, d, j) \notin vis
    <3>1. Away(x, d, j) = <<x[1] - j, x[2]>> /\ j \in Int /\ j > 0 /\ j < x[1] - y[1]
      BY <1>1, <1>2, <2>3 DEF Away
    <3> QED
      BY <1>1, <1>2, <1>4, <1>6, <3>1
  <2> QED
    BY <1>3, <2>1, <2>2, <2>3
<1>7. CASE x[1] = y[1] /\ x[2] < y[2]
  <2> DEFINE d == <<0, 1>>  k == y[2] - x[2]
  <2>1. d \in Directions /\ k \in Reach
    BY <1>1, <1>2, <1>7 DEF Directions, Reach
  <2>2. y = Away(x, d, k)
    BY <1>1, <1>2, <1>7 DEF Away
  <2>3. ASSUME NEW j \in 1 .. k - 1 PROVE Away(x, d, j) \notin vis
    <3>1. Away(x, d, j) = <<x[1], x[2] + j>> /\ j \in Int /\ j > 0 /\ j < y[2] - x[2]
      BY <1>1, <1>2, <2>3 DEF Away
    <3> QED
      BY <1>1, <1>2, <1>4, <1>7, <3>1
  <2> QED
    BY <1>3, <2>1, <2>2, <2>3
<1>8. CASE x[1] = y[1] /\ x[2] > y[2]
  <2> DEFINE d == <<0, -1>>  k == x[2] - y[2]
  <2>1. d \in Directions /\ k \in Reach
    BY <1>1, <1>2, <1>8 DEF Directions, Reach
  <2>2. y = Away(x, d, k)
    BY <1>1, <1>2, <1>8 DEF Away
  <2>3. ASSUME NEW j \in 1 .. k - 1 PROVE Away(x, d, j) \notin vis
    <3>1. Away(x, d, j) = <<x[1], x[2] - j>> /\ j \in Int /\ j > 0 /\ j < x[2] - y[2]
      BY <1>1, <1>2, <2>3 DEF Away
    <3> QED
      BY <1>1, <1>2, <1>4, <1>8, <3>1
  <2> QED
    BY <1>3, <2>1, <2>2, <2>3
<1>9. x[1] = y[1] \/ x[2] = y[2]
  BY DEF ClearLine
<1> QED
  BY <1>1, <1>2, <1>5, <1>6, <1>7, <1>8, <1>9

LEMMA NoLineIsClear ==
    ASSUME NEW vis \in SUBSET Cells, NEW x \in Cells
    PROVE  ClearLine(vis, x, x)
BY BoardAssumption DEF ClearLine, Cells

\* What checkImg asks, with what is seen from a cell.
LEMMA SearchIs ==
    ASSUME NEW vis \in SUBSET Cells, NEW a \in vis, NEW b \in vis
    PROVE  checkImg(vis, a, b) <=>
              \/ Sees(vis, a, b)
              \/ \E x \in Cells \ vis : Sees(vis, a, x) /\ Sees(vis, x, b)
              \/ \E x, y \in Cells \ vis : Sees(vis, a, x) /\ Sees(vis, x, y) /\ Sees(vis, y, b)
<1>1. \A x : getVisiualImgs(vis, x) = {y \in vis : Sees(vis, x, y)}
  BY DEF getVisiualImgs, Sees
<1>2. \A x : getUnVisibleImgs(vis, x) = {y \in Cells \ vis : Sees(vis, x, y)}
  BY DEF getUnVisibleImgs, Sees
<1> DEFINE uv == getUnVisibleImgs(vis, a)
<1>3. b \in getVisiualImgs(vis, a) <=> Sees(vis, a, b)
  BY <1>1
<1>4. b \in getVisiualImgsByArr(vis, uv) <=> \E x \in Cells \ vis : Sees(vis, a, x) /\ Sees(vis, x, b)
  BY <1>1, <1>2 DEF getVisiualImgsByArr
<1>5. \A y : y \in getUnVisiualImgsByArr(vis, uv) <=>
               y \in Cells \ vis /\ \E x \in Cells \ vis : Sees(vis, a, x) /\ Sees(vis, x, y)
  BY <1>2 DEF getUnVisiualImgsByArr
<1>6. b \in getVisiualImgsByArr(vis, getUnVisiualImgsByArr(vis, uv)) <=>
         \E x, y \in Cells \ vis : Sees(vis, a, x) /\ Sees(vis, x, y) /\ Sees(vis, y, b)
  BY <1>1, <1>5 DEF getVisiualImgsByArr
<1> QED
  BY <1>3, <1>4, <1>6 DEF checkImg

LEMMA SearchExact ==
    ASSUME NEW vis \in SUBSET Cells, NEW a \in vis, NEW b \in vis, a # b
    PROVE  checkImg(vis, a, b) <=> Linked(vis, a, b)
<1>1. a \in Cells /\ b \in Cells
  OBVIOUS
<1>2. ASSUME checkImg(vis, a, b) PROVE Linked(vis, a, b)
  <2>1. CASE Sees(vis, a, b)
    BY <1>1, <2>1, SeenIsClear, NoLineIsClear DEF Linked
  <2>2. CASE \E x \in Cells \ vis : Sees(vis, a, x) /\ Sees(vis, x, b)
    <3>1. PICK x \in Cells \ vis : Sees(vis, a, x) /\ Sees(vis, x, b)
      BY <2>2
    <3>2. ClearLine(vis, a, x) /\ ClearLine(vis, x, b) /\ ClearLine(vis, x, x)
      BY <1>1, <3>1, SeenIsClear, NoLineIsClear
    <3> QED
      BY <3>2 DEF Linked
  <2>3. CASE \E x, y \in Cells \ vis : Sees(vis, a, x) /\ Sees(vis, x, y) /\ Sees(vis, y, b)
    <3>1. PICK x \in Cells \ vis, y \in Cells \ vis : Sees(vis, a, x) /\ Sees(vis, x, y) /\ Sees(vis, y, b)
      BY <2>3
    <3>2. ClearLine(vis, a, x) /\ ClearLine(vis, x, y) /\ ClearLine(vis, y, b)
      BY <1>1, <3>1, SeenIsClear
    <3> QED
      BY <3>2 DEF Linked
  <2> QED
    BY <1>2, <2>1, <2>2, <2>3, SearchIs
<1>3. ASSUME Linked(vis, a, b) PROVE checkImg(vis, a, b)
  <2>1. PICK p \in (Cells \ vis) \cup {a}, q \in (Cells \ vis) \cup {b} :
             ClearLine(vis, a, p) /\ ClearLine(vis, p, q) /\ ClearLine(vis, q, b)
    BY <1>3 DEF Linked
  <2>2. \A x, y \in Cells : x # y /\ ClearLine(vis, x, y) => Sees(vis, x, y)
    BY ClearIsSeen
  <2>3. CASE p = a /\ q = b
    BY <1>1, <2>1, <2>2, <2>3, SearchIs
  <2>4. CASE p = a /\ q \in Cells \ vis
    <3>1. Sees(vis, a, q) /\ Sees(vis, q, b)
      BY <1>1, <2>1, <2>2, <2>4
    <3> QED
      BY <2>4, <3>1, SearchIs
  <2>5. CASE p \in Cells \ vis /\ (q = b \/ q = p)
    <3>1. Sees(vis, a, p) /\ Sees(vis, p, b)
      BY <1>1, <2>1, <2>2, <2>5
    <3> QED
      BY <2>5, <3>1, SearchIs
  <2>6. CASE p \in Cells \ vis /\ q \in Cells \ vis /\ q # p
    <3>1. Sees(vis, a, p) /\ Sees(vis, p, q) /\ Sees(vis, q, b)
      BY <1>1, <2>1, <2>2, <2>6
    <3> QED
      BY <2>6, <3>1, SearchIs
  <2> QED
    BY <2>3, <2>4, <2>5, <2>6
<1> QED
  BY <1>2, <1>3

Least(m, n) == IF m <= n THEN m ELSE n
Greatest(m, n) == IF m <= n THEN n ELSE m

Span(m, n) == Greatest(m, n) - Least(m, n)

\* How far two tiles are from each other.
Distance(x, y) == Span(x[1], y[1]) + Span(x[2], y[2])

\* Of two or more tiles those that are nearest to each other can be linked: nothing is in the
\* rectangle between them.
LEMMA NearestAreLinked ==
    ASSUME NEW vis \in SUBSET Cells, NEW a \in vis, NEW b \in vis, a # b
    PROVE  \E x, y \in vis : x # y /\ Linked(vis, x, y)
<1> DEFINE T == {n \in Nat : \E x, y \in vis : x # y /\ n = Distance(x, y)}
<1>1. \A z \in vis : z = <<z[1], z[2]>> /\ z[1] \in Nat /\ z[2] \in Nat /\ z \in Cells
  BY BoardAssumption DEF Cells
<1>2. \A x, y \in vis : Distance(x, y) \in Nat
  BY <1>1 DEF Distance, Span, Least, Greatest
<1>3. T \in SUBSET Nat /\ Distance(a, b) \in T
  BY <1>2
<1>4. PICK n \in T : \A m \in T : n <= m
  BY <1>3, LeastNumber
<1>5. PICK x \in vis, y \in vis : x # y /\ n = Distance(x, y)
  BY <1>4
<1>6. \A z \in vis : z # x => Distance(x, y) <= Distance(x, z)
  BY <1>2, <1>4, <1>5
<1> HIDE DEF T
<1>7. ASSUME NEW z \in vis \ {x, y}, z[1] \in Least(x[1], y[1]) .. Greatest(x[1], y[1]),
             z[2] \in Least(x[2], y[2]) .. Greatest(x[2], y[2])
      PROVE  FALSE
  <2>1. Distance(x, z) < Distance(x, y)
    BY <1>1, <1>7 DEF Distance, Span, Least, Greatest
  <2> QED
    BY <1>2, <1>6, <1>7, <2>1
<1> DEFINE c == <<x[1], y[2]>>
<1>8. c \in Cells /\ c[1] = x[1] /\ c[2] = y[2]
  BY <1>1 DEF Cells
<1>9. c \in (Cells \ vis) \cup {x, y}
  <2> SUFFICES ASSUME c \in vis \ {x, y} PROVE FALSE
    BY <1>8
  <2> QED
    BY <1>1, <1>7, <1>8 DEF Least, Greatest
<1>10. ClearLine(vis, x, c) /\ ClearLine(vis, c, y)
  <2>1. ASSUME NEW z \in vis, z # x,
              z[1] = x[1], z[2] \in (IF x[2] < y[2] THEN x[2] .. y[2] ELSE y[2] .. x[2])
        PROVE  z = y
    BY <1>1, <1>7, <2>1 DEF Least, Greatest
  <2>2. ASSUME NEW z \in vis, z # y,
              z[2] = y[2], z[1] \in (IF x[1] < y[1] THEN x[1] .. y[1] ELSE y[1] .. x[1])
        PROVE  z = x
    BY <1>1, <1>7, <2>2 DEF Least, Greatest
  <2>3. ASSUME NEW z \in vis \ {x, c},
              z[1] \in (IF x[1] < c[1] THEN x[1] .. c[1] ELSE c[1] .. x[1]),
              z[2] \in (IF x[2] < c[2] THEN x[2] .. c[2] ELSE c[2] .. x[2])
        PROVE  FALSE
    <3>1. z[1] = x[1]
      BY <1>1, <1>8, <2>3
    <3>2. z = y
      BY <1>8, <2>1, <2>3, <3>1
    <3>3. y = c
      BY <1>1, <1>8, <3>1, <3>2
    <3> QED
      BY <2>3, <3>2, <3>3
  <2>4. ASSUME NEW z \in vis \ {c, y},
              z[1] \in (IF c[1] < y[1] THEN c[1] .. y[1] ELSE y[1] .. c[1]),
              z[2] \in (IF c[2] < y[2] THEN c[2] .. y[2] ELSE y[2] .. c[2])
        PROVE  FALSE
    <3>1. z[2] = y[2]
      BY <1>1, <1>8, <2>4
    <3>2. z = x
      BY <1>8, <2>2, <2>4, <3>1
    <3>3. x = c
      BY <1>1, <1>8, <3>1, <3>2
    <3> QED
      BY <2>4, <3>2, <3>3
  <2> QED
    BY <1>8, <2>3, <2>4 DEF ClearLine
<1>11. ClearLine(vis, x, x) /\ ClearLine(vis, y, y)
  BY NoLineIsClear
<1>12. Linked(vis, x, y)
  <2>1. CASE c \in Cells \ vis
    BY <1>10, <1>11, <2>1 DEF Linked
  <2>2. CASE c = x \/ c = y
    BY <1>10, <1>11, <2>2 DEF Linked
  <2> QED
    BY <1>9, <2>1, <2>2
<1> QED
  BY <1>5, <1>12

\* What the states are: some tiles of the board, or a number of rows.
PlainInv ==
    /\ function = "checkImg" => input \in SUBSET Cells
    /\ function = "doPage" => input \in Nat

LEMMA PlainSteps == PlainInv /\ [PlainNext]_inputVars => PlainInv'
<1> SUFFICES ASSUME PlainInv, [PlainNext]_inputVars PROVE PlainInv'
  OBVIOUS
<1>1. CASE function = "checkImg" /\ RemoveTwo /\ UNCHANGED function
  BY <1>1 DEF PlainInv, RemoveTwo
<1>2. CASE function = "doPage" /\ AddRow /\ UNCHANGED function
  BY <1>2 DEF PlainInv, AddRow
<1>3. CASE UNCHANGED inputVars
  BY <1>3 DEF PlainInv, inputVars
<1> QED
  BY <1>1, <1>2, <1>3 DEF PlainNext

LEMMA PlainInputs == PlainSpec => []PlainInv
<1>1. PlainInit => PlainInv
  BY DEF PlainInit, PlainInv
<1> QED
  BY <1>1, PlainSteps, PTL DEF PlainSpec

\* On a board of any size, wherever tiles are left: the search finds the tiles that a line with
\* at most two turns links, and no others (linkup.js:368-381).
THEOREM SearchIsExactEver == PlainSpec => []SearchIsExact
<1>1. PlainInv => SearchIsExact
  BY SearchExact DEF PlainInv, SearchIsExact
<1> QED
  BY <1>1, PlainInputs, PTL

Even(n) == \E k \in Nat : n = k + k

\* The tiles are as many as there are cells, or fewer by some pairs.
PairsInv == PlainInv /\ (function = "checkImg" => IsFiniteSet(input) /\ Even(Cardinality(input)))

\* On a board of any size, with an even number of cells, wherever tiles are left: some two
\* of them can be linked, so that resetImages (linkup.js:290-310) can deal a board that has a solution.
THEOREM SomePairLinkedEver ==
    ASSUME (Rows * Cols) % 2 = 0
    PROVE  PlainSpec => []SomePairLinked
<1>1. PlainInit => PairsInv
  <2> SUFFICES ASSUME PlainInit, function = "checkImg" PROVE IsFiniteSet(input) /\ Even(Cardinality(input))
    BY DEF PlainInit, PlainInv, PairsInv
  <2> DEFINE rows == 0 .. Rows - 1  cols == 0 .. Cols - 1
  <2>1. IsFiniteSet(rows) /\ IsFiniteSet(cols) /\ Cardinality(rows) = Rows /\ Cardinality(cols) = Cols
    BY BoardAssumption, FS_Interval
  <2>2. IsFiniteSet(rows \X cols) /\ Cardinality(rows \X cols) = Rows * Cols
    <3> HIDE DEF rows, cols
    <3> QED
      BY <2>1, FS_Product
  <2>3. Even(Rows * Cols)
    <3> DEFINE n == Rows * Cols
    <3>1. n \in Nat
      BY BoardAssumption, Z3
    <3> HIDE DEF n
    <3>2. n % 2 = 0
      BY DEF n
    <3>3. n \div 2 \in Nat /\ n = (n \div 2) + (n \div 2)
      BY <3>1, <3>2, Z3
    <3>4. Even(n)
      BY <3>3 DEF Even
    <3> QED
      BY <3>4 DEF n
  <2> QED
    BY <2>2, <2>3 DEF PlainInit, Cells
<1>2. PairsInv /\ [PlainNext]_inputVars => PairsInv'
  <2> SUFFICES ASSUME PairsInv, [PlainNext]_inputVars PROVE PairsInv'
    OBVIOUS
  <2>1. PlainInv'
    BY PlainSteps DEF PairsInv
  <2>2. CASE function = "checkImg" /\ RemoveTwo /\ UNCHANGED function
    <3>1. PICK a \in input, b \in input : a # b /\ input' = input \ {a, b}
      BY <2>2 DEF RemoveTwo
    <3>2. IsFiniteSet(input) /\ Even(Cardinality(input)) /\ Cardinality(input) \in Nat
      BY <2>2, FS_CardinalityType DEF PairsInv
    <3> DEFINE one == input \ {a}
    <3>3. IsFiniteSet(one) /\ Cardinality(one) = Cardinality(input) - 1
      BY <3>2, FS_RemoveElement
    <3>4. IsFiniteSet(one \ {b}) /\ Cardinality(one \ {b}) = Cardinality(one) - 1
      BY <3>1, <3>3, FS_RemoveElement
    <3>5. input' = one \ {b} /\ Cardinality(one \ {b}) \in Nat
      BY <3>1, <3>4, FS_CardinalityType
    <3>6. PICK k \in Nat : Cardinality(input) = k + k
      BY <3>2 DEF Even
    <3>7. Cardinality(input') = (k - 1) + (k - 1) /\ k - 1 \in Nat
      BY <3>2, <3>3, <3>4, <3>5, <3>6
    <3> QED
      BY <2>1, <3>4, <3>5, <3>7 DEF PairsInv, Even
  <2>3. CASE function = "doPage" /\ UNCHANGED function
    BY <2>1, <2>3 DEF PairsInv
  <2>4. CASE UNCHANGED inputVars
    BY <2>1, <2>4 DEF PairsInv, inputVars
  <2> QED
    BY <2>2, <2>3, <2>4 DEF PlainNext
<1>3. PairsInv => SomePairLinked
  <2> SUFFICES ASSUME PairsInv, function = "checkImg", input # {}
               PROVE  \E x, y \in input : x # y /\ checkImg(input, x, y)
    BY DEF SomePairLinked
  <2>1. input \in SUBSET Cells /\ IsFiniteSet(input) /\ Even(Cardinality(input)) /\ Cardinality(input) \in Nat
    BY FS_CardinalityType DEF PairsInv, PlainInv
  <2>2. PICK a \in input : TRUE
    OBVIOUS
  <2>3. PICK b \in input : a # b
    <3> SUFFICES ASSUME input = {a} PROVE FALSE
      BY <2>2
    <3>1. Cardinality(input) = 1
      BY FS_Singleton
    <3> QED
      BY <2>1, <3>1 DEF Even
  <2>4. PICK x \in input, y \in input : x # y /\ Linked(input, x, y)
    BY <2>1, <2>2, <2>3, NearestAreLinked
  <2> QED
    BY <2>1, <2>4, SearchExact
<1> QED
  BY <1>1, <1>2, <1>3, PTL DEF PlainSpec

=============================================================================
