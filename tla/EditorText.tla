----------------------------- MODULE EditorText -----------------------------
(***************************************************************************)
(* The texts of KindEditor (src/WebRoot/kindEditor/kindeditor.js) and its  *)
(* undo history, as operators on the record KE.g[id].  What the user sees  *)
(* is a body edited in place (wyswygMode) or the source of it in           *)
(* newTextarea; srcTextarea is what the form posts.                        *)
(*                                                                         *)
(* A body is a text and whether its links carry the kesrc marks that the   *)
(* set hooks put in and the get hooks take out.  Clean is what             *)
(* KE.format.getHtml and the replacements of toData make of a text, Size   *)
(* the length of its HTML; Empty and Break are '' and '<br />'.            *)
(***************************************************************************)
EXTENDS Integers, Sequences, SequencesExt

CONSTANTS Texts, Empty, Break,
          HasLink,           \* the texts with a link or a picture
          Size, Clean,
          MarkSize,         \* the length that marks add
          MinChangeSize     \* KE.setting.minChangeSize

ASSUME TextsAssumption ==
    /\ {Empty, Break} \cup HasLink \subseteq Texts
    /\ Size \in [Texts -> Nat] /\ MarkSize \in Nat /\ MinChangeSize \in Nat \ {0}
    /\ Clean \in [Texts -> Texts] /\ \A t \in Texts : Clean[Clean[t]] = Clean[t]
    /\ Clean[Break] = Empty /\ Clean[Empty] = Empty

Html == [text : Texts, marked : BOOLEAN]

-----------------------------------------------------------------------------
execSetHtmlHooks(text) == [text |-> text, marked |-> text \in HasLink]

toData(html) == Clean[html.text]

Length(html) == Size[html.text] + (IF html.marked THEN MarkSize ELSE 0)

\* In the source view the body is brought up to date with the source before it is read.
Refreshed(e) == IF e.wyswygMode THEN e ELSE [e EXCEPT !.body = execSetHtmlHooks(e.newTextarea)]

getSrcData(e) == Refreshed(e).body

getData(e) == toData(getSrcData(e))

setData(e) == LET f == Refreshed(e) IN [f EXCEPT !.srcTextarea = toData(f.body)]

(* KE.history *)

addStackData(stack, html) == IF stack # <<>> /\ Last(stack) = html THEN stack ELSE Append(stack, html)

SmallChange(stack, html, size) ==
    stack # <<>> /\ LET d == Length(html) - Length(Last(stack)) IN d < size /\ -d < size

historyAdd(e, size) ==
    LET f == Refreshed(e)
    IN  IF SmallChange(f.undoStack, f.body, size) THEN f
        ELSE [f EXCEPT !.undoStack = addStackData(@, f.body)]

\* What create registers with KE.onchange, and the run of all that is registered.
changed(e) == historyAdd(setData(e), MinChangeSize)

execOnchangeHandler(e) == IF e.onchange = 0 THEN e ELSE changed(e)

Shown(e, html) ==
    IF e.wyswygMode THEN [e EXCEPT !.body = execSetHtmlHooks(toData(html))]
                    ELSE [e EXCEPT !.newTextarea = toData(html)]

\* Mutant: takes only one entry off the stack, though it is what is shown.
undoOnce(e) ==
    LET f == Refreshed(e)
    IN  IF e.undoStack = <<>> THEN e
        ELSE Shown([f EXCEPT !.redoStack = addStackData(@, f.body), !.undoStack = Front(@)], Last(f.undoStack))

undo(e) ==
    LET f    == Refreshed(e)
        rest == Front(f.undoStack)
        kept == [f EXCEPT !.redoStack = addStackData(@, f.body)]
    IN  IF e.undoStack = <<>> THEN e
        ELSE IF f.body = Last(f.undoStack) /\ rest # <<>>
             THEN Shown([kept EXCEPT !.undoStack = Front(rest)], Last(rest))
             ELSE Shown([kept EXCEPT !.undoStack = rest], Last(f.undoStack))

\* Mutant: does not keep what it replaces.
redoLosing(e) ==
    LET f == Refreshed(e)
    IN  IF e.redoStack = <<>> THEN e ELSE Shown([f EXCEPT !.redoStack = Front(@)], Last(f.redoStack))

redo(e) ==
    LET f == Refreshed(e)
    IN  IF e.redoStack = <<>> THEN e
        ELSE Shown([f EXCEPT !.undoStack = addStackData(@, f.body), !.redoStack = Front(@)], Last(f.redoStack))

\* Mutant: tells nobody of the change.
undoClickSilent(e) == undo(e)

\* The commands: what history does, then the handlers of a change.
undoClick(e) == execOnchangeHandler(undo(e))

redoClick(e) == execOnchangeHandler(redo(e))

setFullHtml(e, text) ==
    LET f == [e EXCEPT !.body = execSetHtmlHooks(IF text = Empty THEN Break ELSE text)]
    IN  execOnchangeHandler(IF f.wyswygMode THEN f ELSE [f EXCEPT !.newTextarea = toData(f.body)])

-----------------------------------------------------------------------------
\* How many more times undo can do something: twice for every entry, once less when the
\* last is what is shown already.
UndosLeft(e) ==
    2 * Len(e.undoStack) - (IF e.undoStack # <<>> /\ Last(e.undoStack) = getSrcData(e) THEN 1 ELSE 0)
=============================================================================
