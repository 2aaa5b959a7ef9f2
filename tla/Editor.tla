------------------------------- MODULE Editor -------------------------------
(***************************************************************************)
(* The editor of the page blog_edit.jsp: KindEditor built over the         *)
(* textarea of the form, the user at work in its two views, its menus and  *)
(* dialogs, and the events of a change, which come after the change.       *)
(***************************************************************************)
EXTENDS EditorText, FiniteSets, FiniteSetsExt

CONSTANTS Initial,          \* the content the page comes with
          Typed,            \* what the user may type, paste, insert or format to
          MaxEdits,         \* bound on the user's changes and dialogs
          MaxCreates        \* bound on the times the editor is built

ASSUME EditorAssumption ==
    /\ Typed \cup {Initial} \subseteq Texts /\ Clean[Initial] = Initial
    /\ MaxEdits \in Nat /\ MaxCreates \in Nat \ {0}

VARIABLES g,        \* KE.g[id]
          page,     \* what the editor has put into the document
          due,      \* events of the user's changes that are still to come
          ignored,  \* whether a change went by without a handler
          edits     \* the number of changes and dialogs so far

vars == <<g, page, due, ignored, edits>>

\* hr stands for the commands that act at once, textcolor for those with a menu, image
\* for those with a dialog.
Commands == {"source", "fullscreen", "undo", "redo", "hr", "textcolor", "image"}

None == 0
NoMenu == ""

Events == {"keyup", "timer"}

\* A dialog is loading when what its frame shows is hidden; a file manager asks for its first
\* list, or browses and asks for another; uploads are those that it waits for.
Dialog == [cmd : {"image", "file_manager"}, div : Nat, frame : Nat, uploads : Nat,
           state : {"opening", "asking", "browsing", "loading", "failed", "ready"}]

TypeOK ==
    /\ g.body \in Html /\ {g.newTextarea, g.srcTextarea} \subseteq Texts
    /\ {g.container, g.wyswygMode, g.fullscreen} \subseteq BOOLEAN
    /\ g.undoStack \in Seq(Html) /\ g.redoStack \in Seq(Html)
    /\ g.onchange \in 0 .. 1 /\ g.toolbarIcon \subseteq Commands
    /\ {g.dialogStack[i] : i \in DOMAIN g.dialogStack} \cup page.left \subseteq Dialog
    /\ page.menu \in {NoMenu, "textcolor"} /\ page.mask \in BOOLEAN /\ page.listeners \subseteq 1 .. MaxCreates
    /\ due \subseteq Events /\ ignored \in BOOLEAN /\ edits \in 0 .. MaxEdits

\* KE.init.
Init ==
    /\ g = [container |-> FALSE, wyswygMode |-> TRUE, fullscreen |-> FALSE,
            body |-> execSetHtmlHooks(Empty), newTextarea |-> Empty, srcTextarea |-> Initial,
            undoStack |-> <<>>, redoStack |-> <<>>, onchange |-> 0, eventStack |-> {},
            dialogStack |-> <<>>, dialog |-> None, toolbarIcon |-> {}]
    /\ page = [created |-> 0, listeners |-> {}, menu |-> NoMenu, mask |-> FALSE,
               dialogs |-> {}, left |-> {}]
    /\ due = {} /\ ignored = FALSE /\ edits = 0

-----------------------------------------------------------------------------
(* Building and removing. *)

able(e, arr) == [e EXCEPT !.toolbarIcon = @ \cup (Commands \ arr)]

disable(e, arr) == [e EXCEPT !.toolbarIcon = @ \cap arr]

AlwaysAble == {"source", "fullscreen"}

\* A new body and a new source textarea, with all icons able but those the source view
\* has no use for; the handlers and the listeners; then the content of the form.
create(e, n) ==
    LET built == [e EXCEPT !.container = TRUE, !.body = execSetHtmlHooks(Empty), !.newTextarea = Empty,
                           !.onchange = @ + 1, !.eventStack = @ \cup {n}, !.toolbarIcon = Commands]
        view  == IF e.wyswygMode THEN built
                 ELSE disable([built EXCEPT !.newTextarea = e.srcTextarea], AlwaysAble)
    IN  historyAdd(setFullHtml(view, e.srcTextarea), 0)

\* Mutant: leaves the handlers of the editor that goes.
removeKeeping(e) ==
    [setData(e) EXCEPT !.container = FALSE, !.eventStack = {}, !.dialogStack = <<>>]

remove(e) ==
    [setData(e) EXCEPT !.container = FALSE, !.onchange = 0, !.eventStack = {}, !.dialogStack = <<>>]

\* The listeners on the document that belong to the editor built as the n-th.
Created(p, n) == [p EXCEPT !.created = n, !.listeners = @ \cup {n}, !.menu = NoMenu, !.mask = FALSE]

\* Dialogs that are open stay in the document.
Removed(p, e) == [p EXCEPT !.listeners = @ \ e.eventStack, !.menu = NoMenu, !.mask = FALSE,
                           !.left = @ \cup {e.dialogStack[i] : i \in DOMAIN e.dialogStack}]

\* The first of two events that tell that the page is there builds the editor; the second
\* finds loaded set.
Ready ==
    /\ page.created = 0
    /\ g' = create(g, 1) /\ page' = Created(page, 1)
    /\ UNCHANGED <<due, ignored, edits>>

\* What the mask does not cover can be used.
Open == g.container /\ ~ page.mask

Another == page.created < MaxCreates

\* A click on an icon that is able; the menu goes.
Clicks(cmd) == Open /\ cmd \in g.toolbarIcon

Fullscreen ==
    /\ Clicks("fullscreen") /\ Another
    /\ g' = [create(remove(setData(g)), page.created + 1) EXCEPT !.fullscreen = ~ @]
    /\ page' = Created(Removed(page, g), page.created + 1)
    /\ ignored' = FALSE /\ UNCHANGED <<due, edits>>

\* A script of the page removes the editor and builds it again, as in the examples; in
\* between the textarea of the form is used as it is.  It may do so whatever is open.
RemoveEditor ==
    /\ g.container
    /\ g' = remove(g) /\ page' = Removed(page, g)
    /\ due' = due \ {"keyup"} /\ ignored' = FALSE /\ UNCHANGED edits

CreateEditor ==
    /\ ~ g.container /\ page.created \in 1 .. MaxCreates - 1
    /\ g' = create(g, page.created + 1) /\ page' = Created(page, page.created + 1)
    /\ UNCHANGED <<due, ignored, edits>>

-----------------------------------------------------------------------------
(* Changes by the user, and the events that tell of them. *)

Edits == edits < MaxEdits /\ edits' = edits + 1

\* What is typed or pasted has no marks, what was there keeps its own.
Bodies(text) == {h \in Html : h.text = text /\ (h.marked => text \in HasLink)}

Change ==
    /\ Open /\ Edits
    /\ \E text \in Typed :
          IF g.wyswygMode THEN \E h \in Bodies(text) : g' = [g EXCEPT !.body = h]
                          ELSE g' = [g EXCEPT !.newTextarea = text]

Type == Change /\ due' = due \cup {"keyup"} /\ UNCHANGED <<page, ignored>>

\* Cut and paste are noticed by a timer that their events set.
Paste == Change /\ due' = due \cup {"timer"} /\ UNCHANGED <<page, ignored>>

TypeInForm ==
    /\ ~ g.container /\ page.created > 0 /\ due = {} /\ Edits
    /\ \E text \in Typed : g' = [g EXCEPT !.srcTextarea = text]
    /\ UNCHANGED <<page, due, ignored>>

MouseUp ==
    /\ Open /\ g.wyswygMode /\ due' = due \cup {"timer"} /\ UNCHANGED <<g, page, ignored, edits>>

KeyUp ==
    /\ "keyup" \in due /\ g' = changed(g)
    /\ due' = due \ {"keyup"} /\ ignored' = FALSE /\ UNCHANGED <<page, edits>>

\* A key that goes up while Ctrl or Alt is down is not looked at.
KeyUpModified ==
    /\ "keyup" \in due /\ due' = due \ {"keyup"} /\ ignored' = TRUE /\ UNCHANGED <<g, page, edits>>

\* Set before, the timer goes off whatever became of the editor.
Timer ==
    /\ "timer" \in due /\ g' = changed(g)
    /\ due' = due \ {"timer"} /\ ignored' = FALSE /\ UNCHANGED <<page, edits>>

-----------------------------------------------------------------------------
(* Commands. *)

\* By icon, or by the keys Ctrl+Z and Ctrl+Y in either view.
Undo ==
    /\ Open
    /\ g' = undoClick(g) /\ page' = [page EXCEPT !.menu = NoMenu]
    /\ ignored' = FALSE /\ UNCHANGED <<due, edits>>

Redo ==
    /\ Open
    /\ g' = redoClick(g) /\ page' = [page EXCEPT !.menu = NoMenu]
    /\ ignored' = FALSE /\ UNCHANGED <<due, edits>>

\* Mutant: goes back from the source without its text.
toggleSourceBack(e) ==
    IF e.wyswygMode
    THEN [disable(e, AlwaysAble) EXCEPT !.newTextarea = getData(e), !.wyswygMode = FALSE]
    ELSE [able(e, AlwaysAble) EXCEPT !.wyswygMode = TRUE]

toggleSource(e) ==
    IF e.wyswygMode
    THEN [disable(e, AlwaysAble) EXCEPT !.newTextarea = getData(e), !.wyswygMode = FALSE]
    ELSE [able(setFullHtml(e, e.newTextarea), AlwaysAble) EXCEPT !.wyswygMode = TRUE]

Source ==
    /\ Clicks("source")
    /\ g' = toggleSource(g) /\ page' = [page EXCEPT !.menu = NoMenu]
    /\ ignored' = (g.wyswygMode /\ ignored) /\ UNCHANGED <<due, edits>>

\* Changes the body by a command, and tells the handlers at once.
Inserted(e) ==
    IF ~ e.wyswygMode THEN {e}
    ELSE {execOnchangeHandler([e EXCEPT !.body = h]) : h \in UNION {Bodies(t) : t \in Typed}}

InsertHtml ==
    /\ Clicks("hr") /\ Edits /\ g' \in Inserted(g)
    /\ page' = [page EXCEPT !.menu = NoMenu]
    /\ ignored' = FALSE /\ UNCHANGED due

\* A second click on the icon closes the menu, as does a click elsewhere.
Menu ==
    /\ Clicks("textcolor")
    /\ page' = [page EXCEPT !.menu = IF @ = "textcolor" THEN NoMenu ELSE "textcolor"]
    /\ UNCHANGED <<g, due, ignored, edits>>

HideMenu ==
    /\ Open /\ page.menu # NoMenu
    /\ page' = [page EXCEPT !.menu = NoMenu] /\ UNCHANGED <<g, due, ignored, edits>>

MenuExec ==
    /\ Open /\ page.menu # NoMenu /\ Edits /\ g' \in Inserted(g)
    /\ page' = [page EXCEPT !.menu = NoMenu]
    /\ ignored' = FALSE /\ UNCHANGED due

-----------------------------------------------------------------------------
(* Dialogs: a stack of them, over a mask.  Each shows a page in a frame; the frame of
   the last dialog is used again for the first of a new stack, even if it belongs to one
   that was left behind.  These are not used any more, but what they wait for comes. *)

Unused(used) == Min((1 .. Cardinality(used) + 1) \ used)

Divs(e) == {e.dialogStack[i].div : i \in DOMAIN e.dialogStack}

Frames(e) == {e.dialogStack[i].frame : i \in DOMAIN e.dialogStack}

Frame(e, p) ==
    IF e.dialogStack = <<>> /\ e.dialog # None THEN e.dialog
    ELSE Unused(Frames(e) \cup {e.dialog} \cup {d.frame : d \in p.left})

\* Without its frame a dialog waits for nothing.
Unframed(left, frame) ==
    {IF d.frame = frame THEN [d EXCEPT !.frame = None, !.state = "failed", !.uploads = 0] ELSE d : d \in left}

Over(e) == Last(e.dialogStack)

WithState(e, state) == [e EXCEPT !.dialogStack[Len(e.dialogStack)].state = state]

\* These act on the uppermost dialog, whoever calls them; what has never come cannot be
\* shown.
showLoadingPage(e) ==
    IF e.dialogStack # <<>> /\ Over(e).state = "ready" THEN WithState(e, "loading") ELSE e

hideLoadingPage(e) ==
    IF e.dialogStack # <<>> /\ Over(e).state = "loading" THEN WithState(e, "ready") ELSE e

Show(cmd) ==
    LET dialog == [cmd |-> cmd, div |-> Unused(page.dialogs), frame |-> Frame(g, page),
                   state |-> "opening", uploads |-> 0]
    IN  /\ g' = [g EXCEPT !.dialogStack = Append(@, dialog), !.dialog = dialog.frame]
        /\ page' = [page EXCEPT !.dialogs = @ \cup {dialog.div}, !.mask = TRUE, !.menu = NoMenu,
                                !.left = Unframed(@, dialog.frame)]
        /\ UNCHANGED <<due, ignored>>

\* Only the uppermost dialog goes, and the mask with the last.
Hide(s, div) ==
    IF s.g.dialogStack = <<>> \/ Over(s.g).div # div THEN s
    ELSE LET rest == Front(s.g.dialogStack)
         IN  [g |-> [s.g EXCEPT !.dialogStack = rest],
              page |-> [s.page EXCEPT !.dialogs = @ \ {div}, !.mask = @ /\ rest # <<>>]]

Becomes(s) == g' = s.g /\ page' = s.page

Here == [g |-> g, page |-> page]

ImageDialog == Clicks("image") /\ Edits /\ Show("image")

FileManager == page.mask /\ Over(g).cmd = "image" /\ Over(g).state = "ready" /\ Show("file_manager")
               /\ UNCHANGED edits

\* The page in the frame is there: image.html, or file_manager.html, which asks for a list;
\* or an answer to file_manager.js, which may be a bad one.
Loaded(d) ==
    CASE d.state = "opening"  -> {IF d.cmd = "image" THEN "ready" ELSE "asking"}
      [] d.state = "asking"   -> {"ready", "failed"}
      [] d.state = "browsing" -> {"ready", "loading"}
      [] OTHER                -> {}

DialogLoaded ==
    /\ page.mask
    /\ \E state \in Loaded(Over(g)) : g' = WithState(g, state)
    /\ UNCHANGED <<page, due, ignored, edits>>

\* The same for a dialog left behind: it finds the dialogs of another editor, or none, and
\* then asks for nothing.
LeftLoaded ==
    /\ \E d \in page.left : \E state \in Loaded(d) :
          /\ g' = CASE state = "asking" -> showLoadingPage(g)
                    [] state = "ready"  -> hideLoadingPage(g)
                    [] OTHER            -> g
          /\ page' = [page EXCEPT !.left = (@ \ {d}) \cup
                {[d EXCEPT !.state = IF @ = "opening" /\ g.dialogStack = <<>> THEN "failed" ELSE state]}]
    /\ UNCHANGED <<due, ignored, edits>>

\* Another directory is asked for.
Browse ==
    /\ page.mask /\ Over(g).cmd = "file_manager" /\ Over(g).state = "ready"
    /\ g' = WithState(g, "browsing") /\ UNCHANGED <<page, due, ignored, edits>>

\* The file goes into the dialog below.
PickFile ==
    /\ page.mask /\ Over(g).cmd = "file_manager" /\ Over(g).state = "ready"
    /\ Becomes(Hide(Here, Over(g).div)) /\ UNCHANGED <<due, ignored, edits>>

Close ==
    /\ \E div \in page.dialogs : Becomes(Hide(Here, div))
    /\ UNCHANGED <<due, ignored, edits>>

\* The picture of an address goes in at once.  The button stays where it is when what the
\* frame shows is hidden.
InsertImage ==
    /\ page.mask /\ Over(g).cmd = "image"
    /\ Over(g).state \in {"ready", "loading"} /\ (Over(g).state = "loading" => Over(g).uploads = 0)
    /\ \E e \in Inserted(g) : Becomes(Hide([g |-> e, page |-> page], Over(g).div))
    /\ ignored' = FALSE /\ UNCHANGED <<due, edits>>

\* One from the user's disk is uploaded first.  A second upload may be started; it takes the
\* place of the first, but both listen.
Upload ==
    /\ page.mask /\ Over(g).cmd = "image" /\ Over(g).state \in {"ready", "loading"}
    /\ Over(g).uploads < 2
    /\ g' = [WithState(g, "loading") EXCEPT !.dialogStack[Len(g.dialogStack)].uploads = @ + 1]
    /\ UNCHANGED <<page, due, ignored, edits>>

\* What a listener does with the answer; it ends at once where there is no dialog.  The one
\* that it hides is the last image dialog, which is the lowest.
Uploaded(s, answer, body) ==
    LET loaded   == hideLoadingPage(s.g)
        inserted == execOnchangeHandler([loaded EXCEPT !.body = body])
    IN  IF s.g.dialogStack = <<>> THEN s
        ELSE IF answer = "error" THEN [s EXCEPT !.g = loaded]
        ELSE Hide([s EXCEPT !.g = inserted], Head(s.g.dialogStack).div)

\* All that listen hear the answer.
Heard(s, uploads) ==
    /\ \/ /\ g.dialogStack # <<>> /\ ignored' = FALSE
          /\ \E body \in UNION {Bodies(t) : t \in Typed} :
                LET once == Uploaded(s, "url", body)
                IN  Becomes(IF uploads = 1 THEN once ELSE Uploaded(once, "url", body))
       \/ Becomes(Uploaded(s, "error", g.body)) /\ UNCHANGED ignored
    /\ UNCHANGED <<due, edits>>

UploadAnswered ==
    /\ page.mask /\ Head(g.dialogStack).uploads > 0
    /\ Heard([Here EXCEPT !.g.dialogStack[1].uploads = 0], Head(g.dialogStack).uploads)

\* The answer to an upload of a dialog left behind.
LeftAnswered ==
    \E d \in page.left :
        /\ d.uploads > 0
        /\ Heard([g |-> g, page |-> [page EXCEPT !.left = (@ \ {d}) \cup {[d EXCEPT !.uploads = 0]}]],
                 d.uploads)

Next ==
    \/ Ready \/ Fullscreen \/ RemoveEditor \/ CreateEditor
    \/ Type \/ Paste \/ TypeInForm \/ MouseUp \/ KeyUp \/ KeyUpModified \/ Timer
    \/ Undo \/ Redo \/ Source \/ InsertHtml \/ Menu \/ HideMenu \/ MenuExec
    \/ ImageDialog \/ FileManager \/ DialogLoaded \/ Browse \/ PickFile \/ Close
    \/ InsertImage \/ Upload \/ UploadAnswered \/ LeftLoaded \/ LeftAnswered

Spec == Init /\ [][Next]_vars

-----------------------------------------------------------------------------
(* Properties. *)

\* What the form posts is what the user sees, in either view, once the events of the
\* changes have come (kindeditor.js:1726, 2892-2905, 2871-2877): doSave of the page
\* (blog_edit.jsp) reads the textarea without asking the editor.  Only a key that goes up
\* under Ctrl or Alt (kindeditor.js:178) leaves a change that is not posted.
PostsWhatIsShown == g.container /\ due = {} /\ ~ ignored => g.srcTextarea = getData(g)

\* However much is done and undone, in both views and through full screen, the first
\* entry of the history is the text that the page came with (kindeditor.js:2532-2579).
FirstTextKept == g.undoStack # <<>> => toData(g.undoStack[1]) = Initial

\* Each undo makes headway: one less is left, or the first text is shown.  So a user who
\* goes on undoing comes back to the text the page came with.
UndoGetsBack ==
    g.container /\ g.undoStack # <<>> =>
        LET e == undoClick(g) IN UndosLeft(e) < UndosLeft(g) \/ getData(e) = Initial

\* Redo takes back an undo, and undo takes back a redo that changed anything: neither
\* loses the text that it replaces, recorded or not (kindeditor.js:2549-2578).
UndoAndRedoCancel ==
    g.container =>
        /\ g.undoStack # <<>> => getData(redoClick(undoClick(g))) = getData(g)
        /\ g.redoStack # <<>> /\ toData(Last(g.redoStack)) # getData(g) =>
              getData(undoClick(redoClick(g))) = getData(g)

\* Every dialog in the document can be closed, but for those that were open when the editor
\* was removed, and no two share a frame; the mask is there as long as one is that can be
\* closed, and under it there is no menu; icons are able as the view wants it, and the
\* listeners on the document are those of the editor that is there, once.
NothingLeftBehind ==
    /\ page.dialogs = Divs(g) \cup {d.div : d \in page.left}
    /\ \A d \in page.left : d.div \notin Divs(g) /\ d.frame \notin Frames(g)
    /\ Cardinality(Frames(g)) = Len(g.dialogStack)
    /\ page.mask <=> g.dialogStack # <<>>
    /\ page.menu # NoMenu => g.container /\ g.wyswygMode /\ ~ page.mask
    /\ page.listeners = (IF g.container THEN {page.created} ELSE {})
    /\ g.container => g.onchange = 1 /\ g.toolbarIcon = (IF g.wyswygMode THEN Commands ELSE AlwaysAble)
=============================================================================
