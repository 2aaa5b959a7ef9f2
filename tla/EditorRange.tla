---------------------------- MODULE EditorRange ----------------------------
(***************************************************************************)
(* KE.range and KE.cmd (src/WebRoot/kindEditor/kindeditor.js:451-930), as  *)
(* browsers other than IE run them: how a part of a document that begins   *)
(* and ends anywhere is given a colour, and how formats are taken off it.  *)
(*                                                                         *)
(* A node is a record: its id, its tag, what its style sets, its children, *)
(* and its text if it is a text node.  Ids of nodes that the code makes    *)
(* are the id of the node they come from with a suffix.  A range is two    *)
(* points, of a node and a position in it.                                 *)
(***************************************************************************)
EXTENDS Integers, Sequences, SequencesExt, FiniteSets

NoStyle == [color |-> "", size |-> ""]

Text(id, text) == [id |-> id, tag |-> "#text", style |-> NoStyle, kids |-> <<>>, text |-> text]

Element(id, tag, style, kids) == [id |-> id, tag |-> tag, style |-> style, kids |-> kids, text |-> <<>>]

IsText(node) == node.tag = "#text"

NoEndTags == {"br", "img"}

\* The marks of what is made from a node: the part of a text in the range and the part
\* behind it, an element around a text, the copies that hold what is cut out.
New(id, mark) == Append(id, mark)

Within == -1

Behind == -2

Around == -3

Copy == -4

LeftCopy == -5

RightCopy == -6

-----------------------------------------------------------------------------
(* The document. *)

RECURSIVE Listed(_)
\* Nodes and what is in them, in the order in which KE.eachNode visits them.
Listed(nodes) ==
    IF nodes = <<>> THEN <<>> ELSE <<Head(nodes)>> \o Listed(Head(nodes).kids) \o Listed(Tail(nodes))

Preorder(node) == Listed(node.kids)

All(root) == Listed(<<root>>)

Nodes(root) == ToSet(All(root))

Node(root, id) == SelectSeq(All(root), LAMBDA n : n.id = id)[1]

RECURSIVE Ancestors(_, _)
\* The nodes above the node of an id, the nearest first.
Ancestors(root, id) ==
    IF \E i \in DOMAIN root.kids : root.kids[i].id = id THEN <<root>>
    ELSE LET below == SelectSeq(root.kids, LAMBDA k : SelectSeq(All(k), LAMBDA n : n.id = id) # <<>>)
         IN  IF below = <<>> THEN <<>> ELSE Append(Ancestors(below[1], id), root)

Parent(root, id) == Ancestors(root, id)[1]

RECURSIVE Put(_, _, _)
\* The document with some nodes in the place of one.
Put(root, id, nodes) ==
    [root EXCEPT !.kids =
        FoldLeft(LAMBDA kids, k : kids \o (IF k.id = id THEN nodes ELSE <<Put(k, id, nodes)>>), <<>>, @)]

TextOf(node) == FoldLeft(LAMBDA text, n : text \o n.text, <<>>, All(node))

RECURSIVE TokensOf(_)
TokensOf(nodes) ==
    IF nodes = <<>> THEN <<>>
    ELSE <<<<Head(nodes).id, "open">>>> \o TokensOf(Head(nodes).kids) \o <<<<Head(nodes).id, "close">>>>
            \o TokensOf(Tail(nodes))

Tokens(root) == TokensOf(<<root>>)

\* The boundary points in front of a node and behind it.
Before(root, id) == SelectInSeq(Tokens(root), LAMBDA t : t = <<id, "open">>) - 1

After(root, id) == SelectInSeq(Tokens(root), LAMBDA t : t = <<id, "close">>)

-----------------------------------------------------------------------------
(* Ranges. *)

Point(id, pos) == [node |-> id, pos |-> pos]

RangeOf(start, end) == [start |-> start, end |-> end]

\* -1, 0 or 1: by the boundary, then by the position.
Compared(a, posA, b, posB) ==
    IF a > b THEN 1 ELSE IF a < b THEN -1 ELSE IF posA > posB THEN 1 ELSE IF posA = posB THEN 0 ELSE -1

comparePoints(root, how, r, s) ==
    CASE how = "START_TO_START" ->
            Compared(Before(root, r.start.node), r.start.pos, Before(root, s.start.node), s.start.pos)
      [] how = "START_TO_END" ->
            Compared(Before(root, r.start.node), r.start.pos, After(root, s.end.node), s.end.pos)
      [] how = "END_TO_END" ->
            Compared(After(root, r.end.node), r.end.pos, After(root, s.end.node), s.end.pos)

\* Text that is not empty, or a tag that has no end.
Holds(node) == (IsText(node) /\ node.text # <<>>) \/ node.tag \in NoEndTags

Held(node) == IF node.tag \in NoEndTags THEN <<>> ELSE SelectSeq(Preorder(node), Holds)

\* setTextStart and setTextEnd go to the first and the last such node within.
TextStart(node, pos) == IF Held(node) = <<>> THEN Point(node.id, pos) ELSE Point(Held(node)[1].id, 0)

TextEnd(node, pos) ==
    IF Held(node) = <<>> THEN Point(node.id, pos)
    ELSE LET last == Last(Held(node)) IN Point(last.id, Len(last.text))

selectNode(node) == RangeOf(Point(node.id, 0), Point(node.id, Len(node.text)))

selectTextNode(node) == RangeOf(TextStart(node, 0), TextEnd(node, Len(node.text)))

RECURSIVE LeadsTo(_, _)
\* Going down only children from a node comes to that of an id.
LeadsTo(node, id) == node.id = id \/ (Len(node.kids) = 1 /\ LeadsTo(node.kids[1], id))

\* KE.selection's init: the range to work on, of where the browser's begins and ends.  A
\* point in an element becomes the child it is in front of or behind, and then a text of it.
selection(root, browser) ==
    LET s      == Node(root, browser.start.node)
        e      == Node(root, browser.end.node)
        endPos == IF ~ IsText(e) /\ browser.end.pos = 0 THEN 1 ELSE browser.end.pos
        start  == IF ~ IsText(s) /\ browser.start.pos < Len(s.kids)
                  THEN Point(s.kids[browser.start.pos + 1].id, 0) ELSE browser.start
        end    == IF ~ IsText(e) /\ endPos <= Len(e.kids)
                  THEN Point(e.kids[endPos].id, Len(e.kids[endPos].text)) ELSE Point(e.id, endPos)
        ended  == Node(root, end.node)
        before == {k \in ToSet(Parent(root, ended.id).kids) : After(root, k.id) = Before(root, ended.id)}
        back   == IF /\ ~ IsText(Node(root, start.node)) /\ IsText(ended) /\ end.pos = 0
                     /\ \E k \in before : LeadsTo(k, start.node)
                  THEN Point(start.node, 0) ELSE end
        first  == TextStart(Node(root, start.node), start.pos)
        until  == IF browser.start = browser.end THEN first ELSE back
    IN  RangeOf(first, TextEnd(Node(root, until.node), until.pos))

\* The nearest node that both points are in.
getParentElement(root, r) ==
    LET above == Ancestors(root, r.start.node)
        both  == SelectSeq(Ancestors(root, r.end.node), LAMBDA n : n \in ToSet(above))
    IN  IF both = <<>> THEN root ELSE both[1]

\* The nodes from the start on, up to the first that begins behind the end.
getNodeList(root, r) ==
    LET parent == getParentElement(root, r)
        Visit(s, node) ==
            LET started == s.started \/ node.id = r.start.node
                own     == selectTextNode(node)
                cmp     == comparePoints(root, "START_TO_END", own, r)
            IN  IF s.stop \/ cmp > 0 \/ (cmp = 0 /\ own.start # own.end)
                THEN [s EXCEPT !.stop = TRUE]
                ELSE [s EXCEPT !.started = started, !.nodes = IF started THEN Append(@, node.id) ELSE @]
    IN  FoldLeft(Visit, [started |-> parent.id = r.start.node, stop |-> FALSE,
                         nodes |-> IF parent.id = r.start.node THEN <<parent.id>> ELSE <<>>],
                 Preorder(parent)).nodes

\* A text node cut in three: in front of the range, in it, and behind.
Pieces(node, from, to) ==
    [front |-> [node EXCEPT !.text = SubSeq(node.text, 1, from)],
     middle |-> [node EXCEPT !.id = New(@, Within), !.text = SubSeq(node.text, from + 1, to)],
     behind |-> [node EXCEPT !.id = New(@, Behind), !.text = SubSeq(node.text, to + 1, Len(node.text))]]

Full(nodes) == SelectSeq(nodes, LAMBDA n : n.text # <<>>)

RECURSIVE ExtractKids(_, _, _, _, _), ExtractOn(_, _, _, _, _)

\* What was extracted of a node, and then of those behind it.
Both(one, rest) == [out |-> one.out \o rest.out, left |-> one.left \o rest.left, s |-> rest.s]

ExtractOn(root, r, mark, one, kids) == Both(one, ExtractKids(root, r, mark, kids, one.s))

\* extractNodes over some children: what goes into the fragment, what is left of them, and
\* whether the start and the end were met.
ExtractKids(root, r, mark, kids, s) ==
    IF kids = <<>> \/ s.stop THEN [out |-> <<>>, left |-> kids, s |-> s]
    ELSE
    LET node    == Head(kids)
        isStart == node.id = r.start.node
        isEnd   == node.id = r.end.node
        on      == [s EXCEPT !.started = @ \/ isStart, !.stop = isEnd]
        cmp     == comparePoints(root, "END_TO_END", RangeOf(Point(node.id, 0), Point(node.id, 0)), r)
        inner   == ExtractKids(root, r, mark, node.kids, on)
        shell   == [node EXCEPT !.id = New(@, mark), !.kids = inner.out]
        cut     == Pieces(node, IF isStart THEN r.start.pos ELSE 0,
                                IF isEnd THEN r.end.pos ELSE Len(node.text))
        one     ==
            IF IsText(node)
            THEN IF on.started THEN [out |-> <<cut.middle>>, left |-> Full(<<cut.front, cut.behind>>), s |-> on]
                               ELSE [out |-> <<>>, left |-> <<node>>, s |-> on]
            ELSE IF on.started /\ (cmp < 0 \/ (cmp = 0 /\ node.tag \in NoEndTags))
            THEN [out |-> <<[node EXCEPT !.id = New(@, mark)]>>, left |-> <<>>, s |-> on]
            ELSE IF node.tag \in NoEndTags THEN [out |-> <<>>, left |-> <<node>>, s |-> on]
            ELSE [out |-> IF ~ inner.s.stop /\ TextOf(shell) = <<>> THEN <<>> ELSE <<shell>>,
                  left |-> <<[node EXCEPT !.kids = inner.left]>>,
                  s |-> [inner.s EXCEPT !.stop = @ \/ isEnd]]
    IN  ExtractOn(root, r, mark, one, Tail(kids))

\* The fragment, a copy of the parent with what is in the range, and what stays.
Fragment(parent, cut, mark) ==
    [frag |-> [parent EXCEPT !.id = New(@, mark), !.kids = cut.out], left |-> [parent EXCEPT !.kids = cut.left]]

extractFrom(root, parent, r, mark) ==
    Fragment(parent, ExtractKids(root, r, mark, parent.kids, [started |-> FALSE, stop |-> FALSE]), mark)

extractContents(root, r, mark) == extractFrom(root, getParentElement(root, r), r, mark)

getText(root, r) == TextOf(extractContents(root, r, Copy).frag)

-----------------------------------------------------------------------------
(* Formats. *)

\* What is set replaces what was.
mergeAttributes(node, style) ==
    [node EXCEPT !.style = [k \in DOMAIN @ |-> IF style[k] # "" THEN style[k] ELSE @[k]]]

\* Mutant: looks only at where the parent ends.
InRangeToo(root, parent, r) == comparePoints(root, "END_TO_END", selectTextNode(parent), r) <= 0

InRange(root, parent, r) ==
    /\ comparePoints(root, "END_TO_END", selectTextNode(parent), r) <= 0
    /\ comparePoints(root, "START_TO_START", selectTextNode(parent), r) >= 0

\* A whole text whose parent is such an element, and in the range as well, sets its
\* parent's style; else the part gets an element of its own.
wrapTextNode(root, r, node, from, to, tag, style) ==
    LET parent == Parent(root, node.id)
        full   == from = 0 /\ to = Len(node.text)
        cut    == Pieces(node, from, to)
    IN  IF full /\ parent.tag = tag /\ InRange(root, parent, r)
        THEN [root |-> Put(root, parent.id, <<mergeAttributes(parent, style)>>), node |-> node]
        ELSE LET wrapped == Element(New(node.id, Around), tag, style,
                                        IF from < to \/ full THEN <<cut.middle>> ELSE <<>>)
                 made    == Full(<<cut.front>>) \o <<wrapped>> \o Full(<<cut.behind>>)
             IN  [root |-> Put(root, node.id, made),
                  node |-> IF from < to \/ full THEN cut.middle ELSE wrapped]

wrap(root, range, tag, style) ==
    LET Visit(s, node) ==
            LET isStart == node.id = range.start.node
                isEnd   == node.id = range.end.node
                on      == [s EXCEPT !.started = @ \/ isStart]
                made    == wrapTextNode(s.root, s.r, node,
                                        IF isStart THEN range.start.pos ELSE 0,
                                        IF isEnd THEN range.end.pos ELSE Len(node.text), tag, style)
                new     == Element(New(node.id, Around), tag, style, <<>>)
            IN  IF s.stop THEN s
                ELSE IF ~ IsText(node)
                THEN [on EXCEPT !.stop = isEnd,
                                !.root = IF isStart /\ isEnd
                                         THEN IF node.tag \in NoEndTags THEN Put(@, node.id, <<new, node>>)
                                              ELSE Put(@, node.id, <<[node EXCEPT !.kids = Append(@, new)]>>)
                                         ELSE @]
                ELSE IF ~ on.started THEN on
                ELSE [on EXCEPT !.stop = isEnd, !.root = made.root,
                                !.r = IF isStart THEN [@ EXCEPT !.start = Point(made.node.id, 0)] ELSE @]
    IN  FoldLeft(Visit, [root |-> root, r |-> range, started |-> FALSE, stop |-> FALSE],
                 Preorder(getParentElement(root, range))).root

\* The topmost of the parents that follow one another with such tags; none is <<>>.
getTopParent(root, tags, id) ==
    LET above == Ancestors(root, id)
        run   == {i \in DOMAIN above : \A j \in 1 .. i : above[j].tag \in tags}
    IN  IF run = {} THEN <<>> ELSE <<above[Cardinality(run)].id>>

\* What is in front of a point within the parent goes into a copy of the parent, which is
\* put before it.
Halves(root, parentId, cut) ==
    [root |-> Put(root, parentId, <<cut.frag, cut.left>>), left |-> cut.frag, right |-> cut.left]

splitNodeParent(root, parentId, point, mark) ==
    LET first == Node(root, parentId).kids[1]
    IN  Halves(root, parentId, extractContents(root, RangeOf(Point(first.id, 0), point), mark))

removeParent(root, id) == Put(root, id, Node(root, id).kids)

\* Takes the styles off; with none left, or if all are meant, the element goes too.
removeFrom(root, id, tags, keys) ==
    LET node == Node(root, id)
        bare == [node EXCEPT !.style = [k \in DOMAIN @ |-> IF k \in keys THEN "" ELSE @[k]]]
    IN  IF IsText(node) \/ node.tag \notin tags THEN root
        ELSE IF bare.style = NoStyle THEN removeParent(root, id)
        ELSE Put(root, id, <<bare>>)

\* Mutant: does not count the end anew where the start was cut off the same text.
EndAfterSplitStale(range, split) == range.end

\* Where the range ends once the text it begins in was cut: in the first text of the rest,
\* by as much less as was cut off.
EndAfterSplit(range, split) ==
    IF range.start.node # range.end.node \/ TextOf(split.right) = <<>> THEN range.end
    ELSE Point(selectTextNode(split.right).start.node,
               range.end.pos - (IF range.start.pos = 0 THEN 0
                                ELSE selectTextNode(split.left).end.pos))

\* The start of the range is cut off the topmost parent, if there is one, then the end.
AfterStart(range, split) ==
    [root |-> split.root,
     r    |-> IF range.start.node = range.end.node /\ TextOf(split.right) # <<>>
              THEN selectNode(split.right) ELSE [range EXCEPT !.start = Point(split.right.id, 0)],
     end  |-> EndAfterSplit(range, split)]

splitStart(root, range, top) ==
    IF top = <<>> THEN [root |-> root, r |-> range, end |-> range.end]
    ELSE AfterStart(range, splitNodeParent(root, top[1], range.start, LeftCopy))

AfterEnd(cut, split, sameTop) ==
    [cut EXCEPT !.root = split.root,
                !.r = [start |-> IF sameTop THEN Point(split.left.id, 0) ELSE @.start, end |-> Point(split.left.id, 0)]]

splitEnd(cut, top, sameTop) ==
    IF top = <<>> THEN cut
    ELSE AfterEnd(cut, splitNodeParent(cut.root, top[1], cut.end, RightCopy), sameTop)

removeWithin(cut, tags, keys) ==
    FoldLeft(LAMBDA d, id : removeFrom(d, id, tags, keys), cut.root, getNodeList(cut.root, cut.r))

remove(root, range, tags, keys) ==
    LET top(point) == getTopParent(root, tags, point.node)
    IN  IF getText(root, range) = <<>> THEN root
        ELSE removeWithin(splitEnd(splitStart(root, range, top(range.start)), top(range.end),
                                   top(range.start) = top(range.end)), tags, keys)

-----------------------------------------------------------------------------
(* What the formats of a text are. *)

RECURSIVE Formatted(_, _)
\* The characters of a node, with the colour and size that they get from the nearest
\* element that sets one, and the tags around them.
Formatted(node, around) ==
    LET here == [style |-> [k \in DOMAIN NoStyle |-> IF node.style[k] # "" THEN node.style[k] ELSE around.style[k]],
                 tags  |-> around.tags \cup ({node.tag} \ {"#text", "span"})]
    IN  [i \in DOMAIN node.text |-> [char |-> node.text[i], format |-> here]]
            \o FoldLeft(LAMBDA all, k : all \o Formatted(k, here), <<>>, node.kids)

Characters(root) == Formatted(root, [style |-> NoStyle, tags |-> {}])

\* How many characters are in front of a point.
Offset(root, point) ==
    LET node  == Node(root, point.node)
        upto  == SubSeq(Tokens(root), 1, Before(root, node.id))
        opens == SelectSeq(upto, LAMBDA t : t[2] = "open")
        texts == FoldLeft(LAMBDA all, t : all \o Node(root, t[1]).text, <<>>, opens)
    IN  Len(texts) + (IF IsText(node) THEN point.pos
                      ELSE Len(TextOf([node EXCEPT !.kids = SubSeq(@, 1, point.pos)])))

\* Where a selection may begin and end: in a text, in front of or behind a child.
Selections(root) ==
    LET inText  == UNION {{Point(n.id, p) : p \in 0 .. Len(n.text)} : n \in {m \in Nodes(root) : IsText(m)}}
        starts  == inText \cup UNION {{Point(n.id, p) : p \in 0 .. Len(n.kids) - 1} : n \in Nodes(root)}
        ends    == inText \cup UNION {{Point(n.id, p) : p \in 1 .. Len(n.kids)} : n \in Nodes(root)}
        offset  == [p \in starts \cup ends |-> Offset(root, p)]
    IN  UNION {{RangeOf(a, b) : b \in {e \in ends : offset[a] < offset[e]}} : a \in starts}

RECURSIVE Named(_, _)
\* The document with a node's path as its id.
Named(node, path) ==
    [node EXCEPT !.id = path, !.kids = [i \in DOMAIN @ |-> Named(@[i], Append(path, i))]]
=============================================================================
