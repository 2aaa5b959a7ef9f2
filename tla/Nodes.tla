-------------------------------- MODULE Nodes --------------------------------
(***************************************************************************)
(* Nodes and their data in jQuery (js/jquery-1.5.1.js:1330-1620,           *)
(* 5033-5680).  A page puts nodes and HTML into others, wraps, clones,     *)
(* replaces and removes them, and keeps data and functions for events on   *)
(* them.  The data is in a cache, under a number that is put on the node,  *)
(* so that jQuery is to clear it when it removes the node.                 *)
(*                                                                         *)
(* What a page does at once is one step.  Browsers are those of which      *)
(* jQuery.support is true throughout; HTML makes elements side by side     *)
(* and no script.                                                          *)
(***************************************************************************)
EXTENDS Integers, Sequences, FiniteSets, SequencesExt, TLC

CONSTANTS Tags,         \* of each string of HTML, the tags of what it makes
          Cached,       \* the strings that may go into the cache of fragments
          Single,       \* the strings that are one tag and no more
          Books         \* the documents, and what their pages do, one after the other

Html == DOMAIN Tags

ASSUME NodesAssumption == Cached \subseteq Html /\ Single \subseteq Html /\ Books # {}

VARIABLES book,         \* which of these this is
          dom,          \* nodes, data and the cache of fragments
          call,         \* what the page did last
          calls

nodesVars == <<book, dom, call, calls>>

Body == 1

Nodes(d) == DOMAIN d.tag

Nothing == [user |-> <<>>, internal |-> <<>>]

NoCall == [how |-> "", targets |-> <<>>, args |-> <<>>]

-----------------------------------------------------------------------------
(* The tree. *)

isElement(d, n) == d.tag[n] \notin {"#text", "#fragment"}

Parent(d, n) == LET above == {p \in Nodes(d) : \E i \in DOMAIN d.kids[p] : d.kids[p][i] = n}
                IN  IF above = {} THEN 0 ELSE CHOOSE p \in above : TRUE

FirstOf(list) == IF list = <<>> THEN 0 ELSE Head(list)

After(list, i) == IF i = Len(list) THEN 0 ELSE list[i + 1]

NextSibling(d, n) == LET list == d.kids[Parent(d, n)] IN After(list, SelectInSeq(list, LAMBDA c : c = n))

RECURSIVE getAll(_, _), Root(_, _)

\* The node and all below it, as getElementsByTagName has them.
getAll(d, n) == FoldLeft(LAMBDA list, c : list \o getAll(d, c), <<n>>, d.kids[n])

Descendants(d, n) == Tail(getAll(d, n))

UpFrom(d, n, p) == IF p = 0 THEN n ELSE Root(d, p)

Root(d, n) == UpFrom(d, n, Parent(d, n))

\* What a page can come by: the document, and the trees it holds.
Page(d) == UNION {ToSet(getAll(d, r)) : r \in {Body} \cup d.held}

Without(d, n, p) == IF p = 0 THEN d ELSE [d EXCEPT !.kids[p] = SelectSeq(@, LAMBDA c : c # n)]

Gone(d, n) == Without(d, n, Parent(d, n))

Spliced(list, at, new) == SubSeq(list, 1, at - 1) \o new \o SubSeq(list, at, Len(list))

PutAt(d, p, new, ref) ==
    [d EXCEPT !.kids[p] = Spliced(@, IF ref = 0 THEN Len(@) + 1 ELSE SelectInSeq(@, LAMBDA c : c = ref), new)]

\* The node is put into another before a third, at the end if that is 0; of a fragment the
\* nodes are.  Without a parent, or into itself, there is an exception.
insertBefore(d, p, n, ref) ==
    IF IF p = 0 THEN TRUE ELSE p \in ToSet(getAll(d, n)) THEN [d EXCEPT !.threw = TRUE]
    ELSE IF d.tag[n] = "#fragment" THEN PutAt([d EXCEPT !.kids[n] = <<>>], p, d.kids[n], ref)
    ELSE PutAt(Gone(d, n), p, <<n>>, ref)

\* New nodes.
New(d, tags) ==
    LET blank(x) == [i \in DOMAIN tags |-> x]
    IN  [d EXCEPT !.tag = @ \o tags, !.kids = @ \o blank(<<>>), !.attr = @ \o blank(""), !.expando = @ \o blank(0)]

Fresh(d, tags) == [i \in DOMAIN tags |-> Len(d.tag) + i]

Holding(d, list) == [d EXCEPT !.held = @ \cup ToSet(list)]

-----------------------------------------------------------------------------
(* Data. *)

acceptData(d, n) == d.tag[n] # "embed"

Entry(d, n) == IF d.expando[n] = 0 THEN Nothing ELSE d.cache[d.expando[n]]

hasData(d, n) == Entry(d, n) # Nothing

\* The node's entry in the cache, with a number for the node if it has none.
Stored(d, n, entry) ==
    IF d.expando[n] # 0 THEN [d EXCEPT !.cache[d.expando[n]] = entry]
    ELSE [d EXCEPT !.uuid = @ + 1, !.expando[n] = d.uuid + 1, !.cache = (d.uuid + 1 :> entry) @@ @]

\* Number and entry go.
Erased(d, n) == [d EXCEPT !.expando[n] = 0, !.cache = Restrict(@, DOMAIN @ \ {d.expando[n]})]

\* Put under a name, pvt with what jQuery keeps for itself.
data(d, n, name, value, pvt) ==
    IF ~ acceptData(d, n) THEN d
    ELSE Stored(d, n, IF pvt THEN [Entry(d, n) EXCEPT !.internal = (name :> value) @@ @]
                             ELSE [Entry(d, n) EXCEPT !.user = (name :> value) @@ @])

Left(d, n, entry) == IF entry = Nothing THEN Erased(d, n) ELSE Stored(d, n, entry)

\* Taken from under a name, or all; of an entry without anything the number goes too.
removeData(d, n, name, pvt) ==
    LET less(f) == Restrict(f, IF name = "" THEN {} ELSE DOMAIN f \ {name})
    IN  IF ~ acceptData(d, n) \/ d.expando[n] = 0 THEN d
        ELSE Left(d, n, IF pvt THEN [Entry(d, n) EXCEPT !.internal = less(@)]
                               ELSE [Entry(d, n) EXCEPT !.user = less(@)])

\* What is not found is taken from the attribute data-a, and kept.
dataAttr(d, n) == IF "a" \notin DOMAIN Entry(d, n).user /\ d.attr[n] # ""
                  THEN data(d, n, "a", d.attr[n], FALSE) ELSE d

\* data of a name, or of all, which makes an entry; with that of an element that takes no
\* data there is an exception when the attribute is there.
dataRead(d, n, name) ==
    IF name # "" THEN dataAttr(d, n)
    ELSE IF acceptData(d, n) THEN dataAttr(Stored(d, n, Entry(d, n)), n)
    ELSE [d EXCEPT !.threw = d.attr[n] # ""]

Listening(d, n) == IF "events" \in DOMAIN Entry(d, n).internal THEN Entry(d, n).internal.events ELSE <<>>

\* A function is bound; when none is left, internal data goes.
bindTo(d, n, fn) == data(d, n, "events", Append(Listening(d, n), fn), TRUE)

LeftBound(d, n, fns) == IF fns = <<>> THEN removeData(d, n, "events", TRUE) ELSE data(d, n, "events", fns, TRUE)

unbindFrom(d, n, fn) ==
    IF Listening(d, n) = <<>> THEN d ELSE LeftBound(d, n, SelectSeq(Listening(d, n), LAMBDA f : f # fn))

cleanData(d, list) ==
    FoldLeft(LAMBDA e, n : IF acceptData(e, n) /\ e.expando[n] # 0 THEN Erased(e, n) ELSE e, d, list)

\* A document at first: some nodes have data and a function already.
NodesInit ==
    /\ book \in Books
    /\ LET none == [tag |-> <<>>, kids |-> <<>>, attr |-> <<>>, expando |-> <<>>, held |-> book.held, cache |-> <<>>,
                    uuid |-> 0, fragments |-> [h \in Html |-> 0], threw |-> FALSE]
       IN  dom = FoldLeft(LAMBDA d, n : bindTo(data(d, n, "a", "set", FALSE), n, "f"),
                          [New(none, book.tag) EXCEPT !.kids = book.kids, !.attr = book.attr], book.keeps)
    /\ call = NoCall /\ calls = 0

-----------------------------------------------------------------------------
(* Clones. *)

\* The data is copied, the functions are bound again.
cloneCopyEvent(d, src, dest) ==
    IF ~ isElement(d, dest) \/ ~ hasData(d, src) THEN d
    ELSE FoldLeft(LAMBDA e, fn : bindTo(e, dest, fn),
                  Stored(d, dest, [Entry(d, src) EXCEPT !.internal = Restrict(@, DOMAIN @ \ {"events"})]),
                  Listening(d, src))

\* The node, with data, with data of all below it; the copy of it is the first of the new nodes.
cloneAll(d, n, list, own, deep) ==
    LET copy(k) == Len(d.tag) + SelectInSeq(list, LAMBDA m : m = k)
        of(f)   == [i \in DOMAIN list |-> f[list[i]]]
    IN  FoldLeft(LAMBDA e, k : IF own /\ (deep \/ k = n) THEN cloneCopyEvent(e, k, copy(k)) ELSE e,
                 [d EXCEPT !.tag = @ \o of(d.tag), !.attr = @ \o of(d.attr),
                           !.expando = @ \o [i \in DOMAIN list |-> 0],
                           !.kids = @ \o [i \in DOMAIN list |-> [j \in DOMAIN d.kids[list[i]] |-> copy(d.kids[list[i]][j])]]],
                 list)

clone(d, n, own, deep) == cloneAll(d, n, getAll(d, n), own, deep)

\* All of a set: the copies are in nodes.
cloneSet(d, list, own, deep) ==
    FoldLeft(LAMBDA r, n : [dom |-> clone(r.dom, n, own, deep), nodes |-> Append(r.nodes, Len(r.dom.tag) + 1)],
             [dom |-> d, nodes |-> <<>>], list)

-----------------------------------------------------------------------------
(* Fragments. *)

\* The nodes of what is given to a method: HTML makes new ones.
clean(d, args) ==
    FoldLeft(LAMBDA r, a : IF a.kind = "html"
                           THEN [dom |-> New(r.dom, Tags[a.of]), nodes |-> r.nodes \o Fresh(r.dom, Tags[a.of])]
                           ELSE [r EXCEPT !.nodes = @ \o a.of],
             [dom |-> d, nodes |-> <<>>], args)

\* All of them go into a fragment.
Filled(cleaned, fragment) == FoldLeft(LAMBDA e, n : insertBefore(e, fragment, n, 0), cleaned.dom, cleaned.nodes)

Building(d, args) == Filled(clean(New(d, <<"#fragment">>), args), Len(d.tag) + 1)

Built(d, fragment, cacheable) == [dom |-> d, fragment |-> fragment, cacheable |-> cacheable]

\* A fragment is kept when a string comes for the second time, and used from the third.
CachedFragment(d, h, known, args) ==
    IF known > 0 THEN Built(d, known, TRUE)
    ELSE Built([Building(d, args) EXCEPT !.fragments[h] = IF known = 0 THEN -1 ELSE Len(d.tag) + 1], Len(d.tag) + 1, TRUE)

buildFragment(d, args) ==
    IF IF Len(args) = 1 /\ args[1].kind = "html" THEN args[1].of \in Cached ELSE FALSE
    THEN CachedFragment(d, args[1].of, d.fragments[args[1].of], args)
    ELSE Built(Building(d, args), Len(d.tag) + 1, FALSE)

KidsOf(d, n) == [dom |-> d, nodes |-> d.kids[n]]

\* Of a cached fragment a clone is given.
FromFragment(built) ==
    IF built.cacheable THEN KidsOf(clone(built.dom, built.fragment, FALSE, FALSE), Len(built.dom.tag) + 1)
    ELSE KidsOf(built.dom, built.fragment)

\* jQuery of HTML: an element that was made, or the nodes of a fragment.
jQueryOf(d, value) ==
    IF value.kind # "html" THEN [dom |-> d, nodes |-> value.of]
    ELSE IF value.of \in Single THEN [dom |-> New(d, Tags[value.of]), nodes |-> Fresh(d, Tags[value.of])]
    ELSE FromFragment(buildFragment(d, <<value>>))

\* What the methods that put something have it do for one target.
Put(d, how, t, n) ==
    CASE how = "append"  -> IF isElement(d, t) THEN insertBefore(d, t, n, 0) ELSE d
      [] how = "prepend" -> IF isElement(d, t) THEN insertBefore(d, t, n, FirstOf(d.kids[t])) ELSE d
      [] how = "before"  -> insertBefore(d, Parent(d, t), n, t)
      [] how = "after"   -> IF Parent(d, t) = 0 THEN [d EXCEPT !.threw = TRUE]
                            ELSE insertBefore(d, Parent(d, t), n, NextSibling(d, t))

\* Mutant: the first target has the original, though it goes on to the others.
CopiedFirst(built, i, targets) == built.cacheable \/ i > 1

\* The last target has the original, unless that is a fragment of the cache.
Copied(built, i, targets) == built.cacheable \/ i < Len(targets)

PutCopy(e, how, t, copied, content) ==
    Put(IF copied THEN clone(e, content, TRUE, TRUE) ELSE e, how, t, IF copied THEN Len(e.tag) + 1 ELSE content)

\* What is in the fragment, or the fragment itself if that is not one node, comes to each target.
PutEach(built, list, targets, how) ==
    IF list = <<>> THEN built.dom
    ELSE FoldLeft(LAMBDA e, i : IF e.threw THEN e
                                ELSE PutCopy(e, how, targets[i], Copied(built, i, targets),
                                             IF Len(list) = 1 THEN Head(list) ELSE built.fragment),
                  built.dom, [i \in DOMAIN targets |-> i])

PutBuilt(built, targets, how) == PutEach(built, built.dom.kids[built.fragment], targets, how)

\* A node that is given may be in a fragment with as many nodes as there are targets: then the
\* fragment is taken for it.
FitsIn(d, parent, targets) == parent # 0 /\ d.tag[parent] = "#fragment" /\ Len(d.kids[parent]) = Len(targets)

Taken(d, targets, args) == args[1].kind = "node" /\ FitsIn(d, Parent(d, args[1].of[1]), targets)

domManip(d, targets, how, args) ==
    IF targets = <<>> THEN d
    ELSE PutBuilt(IF Taken(d, targets, args) THEN Built(d, Parent(d, args[1].of[1]), FALSE) ELSE buildFragment(d, args),
                  targets, how)

\* append, prepend, before, after: the last two only if the first target has a parent.
Insert(d, targets, how, args) ==
    IF how \in {"before", "after"} /\ (IF targets = <<>> THEN TRUE ELSE Parent(d, targets[1]) = 0)
    THEN d ELSE domManip(d, targets, how, args)

-----------------------------------------------------------------------------
(* Taking away. *)

Elements(d, list) == SelectSeq(list, LAMBDA n : isElement(d, n))

\* Mutant: what is below keeps its data.
RemovedAlone(d, t, all, keepData) ==
    IF keepData THEN Holding(Gone(d, t), <<t>>)
    ELSE [Gone(IF isElement(d, t) THEN cleanData(d, <<t>>) ELSE d, t) EXCEPT !.held = @ \ ToSet(all)]

\* What detach takes the page holds, what remove takes it does not.
Removed(d, t, all, keepData) ==
    IF keepData THEN Holding(Gone(d, t), <<t>>)
    ELSE [Gone(IF isElement(d, t) THEN cleanData(d, Elements(d, all)) ELSE d, t) EXCEPT !.held = @ \ ToSet(all)]

remove(d, targets, keepData) == FoldLeft(LAMBDA e, t : Removed(e, t, getAll(e, t), keepData), d, targets)

Emptied(d, t, below) ==
    [cleanData(d, Elements(d, below)) EXCEPT !.kids[t] = <<>>, !.held = @ \ ToSet(below)]

\* What is below goes with its data.
empty(d, targets) == FoldLeft(LAMBDA e, t : Emptied(e, t, Descendants(e, t)), d, targets)

\* The strings for which innerHTML is set; the others are put as nodes.
innerHTML(h) == h \in Cached \/ Tags[h] = <<"#text">>

SetInside(d, t, h) == [New(d, Tags[h]) EXCEPT !.kids[t] = Fresh(d, Tags[h])]

html(d, targets, arg) ==
    IF innerHTML(arg.of) THEN FoldLeft(LAMBDA e, t : SetInside(empty(e, <<t>>), t, arg.of), d, targets)
    ELSE Insert(empty(d, targets), targets, "append", <<arg>>)

text(d, targets) == Insert(empty(d, targets), targets, "append", <<[kind |-> "html", of |-> "text"]>>)

PutInPlace(d, next, p, arg) ==
    IF next # 0 THEN Insert(d, <<next>>, "before", <<arg>>)
    ELSE IF p # 0 THEN Insert(d, <<p>>, "append", <<arg>>) ELSE d

ReplaceOne(d, t, p, arg) ==
    PutInPlace(remove(d, <<t>>, FALSE), IF p = 0 THEN 0 ELSE NextSibling(d, t), p, arg)

\* Nodes to replace others are detached before.
replaceWith(d, targets, value) ==
    IF IF targets = <<>> THEN TRUE ELSE Parent(d, targets[1]) = 0 THEN d
    ELSE FoldLeft(LAMBDA e, t : IF e.threw THEN e
                                ELSE ReplaceOne(e, t, Parent(e, t), [value EXCEPT !.kind = IF @ = "node" THEN "set" ELSE @]),
                  remove(d, IF value.kind = "html" THEN <<>> ELSE value.of, TRUE), targets)

PutOrReplace(d, targets, how, arg) ==
    IF how = "replaceWith" THEN replaceWith(d, targets, arg) ELSE Insert(d, targets, how, <<arg>>)

\* The set that comes to one target, and that the page is given then.
PutSet(copied, t, how) == Holding(PutOrReplace(copied.dom, <<t>>, how, [kind |-> "set", of |-> copied.nodes]), copied.nodes)

\* The node is alone in a fragment, and there is one target.
Alone(d, these, targets) == Len(these) = 1 /\ Len(targets) = 1 /\ FitsIn(d, Parent(d, these[1]), <<1>>)

\* appendTo and its like: here the first has the originals.
InsertTo(d, these, how, targets) ==
    IF Alone(d, these, targets) THEN PutOrReplace(d, targets, how, [kind |-> "node", of |-> these])
    ELSE FoldLeft(LAMBDA e, i : IF e.threw THEN e
                                ELSE PutSet(IF i > 1 THEN cloneSet(e, these, TRUE, TRUE) ELSE [dom |-> e, nodes |-> these],
                                            targets[i], how),
                  d, [i \in DOMAIN targets |-> i])

-----------------------------------------------------------------------------
(* Wrapping. *)

RECURSIVE Innermost(_, _)

Innermost(d, n) == IF (IF d.kids[n] = <<>> THEN FALSE ELSE isElement(d, Head(d.kids[n])))
                   THEN Innermost(d, Head(d.kids[n])) ELSE n

WrapIn(d, n, targets) == Insert(d, <<Innermost(d, n)>>, "append", <<[kind |-> "set", of |-> targets]>>)

Wrapping(d, n, targets) ==
    WrapIn(IF Parent(d, targets[1]) # 0 THEN InsertTo(d, <<n>>, "before", <<targets[1]>>) ELSE d, n, targets)

WrapGiven(given, targets) ==
    Wrapping(clone(given.dom, given.nodes[1], TRUE, TRUE), Len(given.dom.tag) + 1, targets)

\* A clone of the first of what is given is put before the first target, and all into its
\* innermost element.
wrapAll(d, targets, value) == IF d.threw THEN d ELSE WrapGiven(jQueryOf(d, value), targets)

wrap(d, targets, value) == FoldLeft(LAMBDA e, t : wrapAll(e, <<t>>, value), d, targets)

\* What is in the targets is wrapped; in an empty one the wrap itself is put.
wrapInner(d, targets, value) ==
    FoldLeft(LAMBDA e, t : IF e.kids[t] # <<>> THEN wrapAll(e, e.kids[t], value)
                           ELSE Insert(e, <<t>>, "append", <<value>>), d, targets)

\* The parents, each once.
WithParent(d, list, p) ==
    IF IF p = 0 THEN TRUE ELSE d.tag[p] = "#fragment" \/ p \in ToSet(list) THEN list ELSE Append(list, p)

parentSet(d, targets) == FoldLeft(LAMBDA list, t : WithParent(d, list, Parent(d, t)), <<>>, targets)

unwrap(d, targets) ==
    FoldLeft(LAMBDA e, p : IF e.threw \/ p = Body THEN e
                           ELSE replaceWith(e, <<p>>, [kind |-> "set", of |-> e.kids[p]]),
             d, parentSet(d, targets))

-----------------------------------------------------------------------------
(* The page. *)

\* The elements of a set in the order of the document, those of detached trees after it.
Sorted(d, set, roots) ==
    FoldLeft(LAMBDA list, r : list \o SelectSeq(getAll(d, r), LAMBDA n : n \in set),
             <<>>, SelectSeq([n \in Nodes(d) |-> n], LAMBDA r : r \in roots))

Chosen(d) == {n \in Page(d) \ {Body} : isElement(d, n)}

Turn == IF calls < Len(book.turns) THEN book.turns[calls + 1] ELSE [does |-> {}, sizes |-> {}, two |-> FALSE]

Does == Turn.does

\* One element or two.
Targets == LET few == {s \in {{m, n} : m, n \in Chosen(dom)} : Cardinality(s) \in Turn.sizes}
           IN  {Sorted(dom, set, {Root(dom, n) : n \in set}) : set \in few}

HtmlArgs == [kind : {"html"}, of : book.html]

Pieces == {arg \in HtmlArgs : Tags[arg.of] # <<"#text">>}

NodeArgs == [kind : {"node"}, of : {<<n>> : n \in Chosen(dom)}]

SetArgs == [kind : {"set"}, of : {t \in Targets : Len(t) = 2}]

Both == IF Turn.two THEN {<<a, b>> : a \in NodeArgs, b \in HtmlArgs} ELSE {}

\* None of the targets is among what is put, or below it.
Apart(targets, args) ==
    \A i \in DOMAIN args : args[i].kind # "html" =>
        \A j \in DOMAIN args[i].of : ToSet(targets) \cap ToSet(getAll(dom, args[i].of[j])) = {}

GivenNodes(args) == UNION {ToSet(args[i].of) : i \in {j \in DOMAIN args : args[j].kind # "html"}}

\* What it gave to a method that ends with an exception the page still has.  With a node it holds
\* the whole tree.
Thrown(d, args) == IF d.threw THEN [d EXCEPT !.held = @ \cup GivenNodes(args)] ELSE d

Trees(d) == [d EXCEPT !.held = {Root(d, n) : n \in @} \ {Body}]

Step(how, targets, args, done) ==
    /\ dom' = Trees(Thrown(done, args))
    /\ call' = [how |-> how, targets |-> targets, args |-> args]
    /\ calls' = calls + 1
    /\ UNCHANGED book

Now == [dom EXCEPT !.threw = FALSE]

\* The method of which a method with To is the other way round.
original(how) == CASE how = "appendTo" -> "append" [] how = "prependTo" -> "prepend"
                   [] how = "insertBefore" -> "before" [] how = "insertAfter" -> "after"
                   [] how = "replaceAll" -> "replaceWith"

\* Two arguments are a node and HTML.
PageInserts ==
    \E how \in {"append", "prepend", "before", "after"} \cap Does : \E targets \in Targets :
       \E args \in {<<a>> : a \in HtmlArgs \cup NodeArgs \cup SetArgs} \cup Both :
          Apart(targets, args) /\ Step(how, targets, args, Insert(Now, targets, how, args))

PageInsertsTo ==
    \E how \in {"appendTo", "prependTo", "insertBefore", "insertAfter", "replaceAll"} \cap Does :
       \E these \in Targets, targets \in Targets :
          LET args == <<[kind |-> "set", of |-> these]>>
          IN  Apart(targets, args) /\ Step(how, targets, args, InsertTo(Now, these, original(how), targets))

PageReplaces ==
    "replaceWith" \in Does /\
    \E targets \in Targets, arg \in HtmlArgs \cup NodeArgs \cup SetArgs :
       Apart(targets, <<arg>>) /\ Step("replaceWith", targets, <<arg>>, replaceWith(Now, targets, arg))

PageRemoves ==
    \E how \in {"remove", "detach"} \cap Does : \E targets \in Targets :
       Step(how, targets, <<>>, remove(Now, targets, how = "detach"))

PageEmpties == "empty" \in Does /\ \E targets \in Targets : Step("empty", targets, <<>>, empty(Now, targets))

PageFills == "html" \in Does /\ \E targets \in Targets, arg \in HtmlArgs : Step("html", targets, <<arg>>, html(Now, targets, arg))

PageWrites == "text" \in Does /\ \E targets \in Targets : Step("text", targets, <<>>, text(Now, targets))

PageWraps ==
    \E how \in {"wrapAll", "wrap", "wrapInner"} \cap Does : \E targets \in Targets, arg \in Pieces \cup NodeArgs \cup SetArgs :
       /\ Apart(targets, <<arg>>)
       /\ Step(how, targets, <<arg>>, CASE how = "wrapAll" -> wrapAll(Now, targets, arg)
                                        [] how = "wrap" -> wrap(Now, targets, arg)
                                        [] how = "wrapInner" -> wrapInner(Now, targets, arg))

PageUnwraps == "unwrap" \in Does /\ \E targets \in Targets : Step("unwrap", targets, <<>>, unwrap(Now, targets))

Held(made) == Holding(made.dom, made.nodes)

\* What is made or cloned the page holds.
PageCreates == "jQuery" \in Does /\ \E arg \in Pieces : Step("jQuery", <<>>, <<arg>>, Held(jQueryOf(Now, arg)))

PageClones ==
    "clone" \in Does /\ \E targets \in Targets, own \in BOOLEAN, deep \in BOOLEAN :
        Step("clone", targets, <<>>, Held(cloneSet(Now, targets, own, deep)))

PageKeeps == "data" \in Does /\ \E n \in Chosen(dom) : Step("data", <<n>>, <<>>, data(Now, n, "a", "new", FALSE))

PageReads ==
    "read" \in Does /\ \E n \in Chosen(dom), name \in {"", "a"} : Step("read", <<n>>, <<>>, dataRead(Now, n, name))

PageForgets ==
    "removeData" \in Does /\ \E n \in Chosen(dom), name \in {"", "a"} :
        Step("removeData", <<n>>, <<>>, removeData(Now, n, name, FALSE))

PageListens ==
    \/ "bind" \in Does /\ \E n \in Chosen(dom) : Step("bind", <<n>>, <<>>, bindTo(Now, n, "g"))
    \/ "unbind" \in Does /\ \E n \in Chosen(dom), fn \in {"f", "g"} : Step("unbind", <<n>>, <<>>, unbindFrom(Now, n, fn))

NodesNext ==
    \/ PageInserts \/ PageInsertsTo \/ PageReplaces \/ PageRemoves \/ PageEmpties \/ PageFills \/ PageWrites
    \/ PageWraps \/ PageUnwraps \/ PageCreates \/ PageClones \/ PageKeeps \/ PageReads \/ PageForgets \/ PageListens

NodesSpec == NodesInit /\ [][NodesNext]_nodesVars

-----------------------------------------------------------------------------
(* Properties. *)

\* No two nodes share data and none is left over: each number is on one node, which has an
\* entry; each entry is that of a node which the page can still come by, whatever
\* was removed, replaced, cloned or made for nothing (5303-5308, 5642-5680).
DataOwned ==
    LET owners == {n \in Nodes(dom) : dom.expando[n] # 0}
    IN  /\ \A m, n \in owners : dom.expando[m] = dom.expando[n] => m = n
        /\ {dom.expando[n] : n \in owners} = DOMAIN dom.cache
        /\ owners \subseteq Page(dom)

\* Two nodes are the same but for their numbers.
RECURSIVE Alike(_, _, _)

Alike(d, m, n) ==
    /\ d.tag[m] = d.tag[n] /\ d.attr[m] = d.attr[n] /\ Entry(d, m) = Entry(d, n)
    /\ Len(d.kids[m]) = Len(d.kids[n])
    /\ \A i \in DOMAIN d.kids[m] : Alike(d, d.kids[m][i], d.kids[n][i])

Flat(args, Of(_)) == FoldLeft(LAMBDA list, a : list \o Of(a), <<>>, args)

\* The nodes next to a target on the side where something was put.
Beside(d, how, t, width) ==
    LET list == IF how \in {"append", "prepend"} THEN d.kids[t] ELSE d.kids[Parent(d, t)]
        at   == IF how \in {"append", "prepend"} THEN 0 ELSE CHOOSE i \in DOMAIN list : list[i] = t
        from == CASE how = "append" -> Len(list) - width + 1 [] how = "prepend" -> 1
                  [] how = "before" -> at - width [] how = "after" -> at + 1
    IN  [i \in 1 .. width |-> IF from + i - 1 \in DOMAIN list THEN list[from + i - 1] ELSE 0]

Plain(how) == CASE how \in {"append", "appendTo"} -> "append" [] how \in {"prepend", "prependTo"} -> "prepend"
                [] how \in {"before", "insertBefore"} -> "before" [] how \in {"after", "insertAfter"} -> "after"
                [] OTHER -> ""

\* At each target there is what was put: the nodes themselves at one, nodes alike at the others.
Arrived(d, e, c) ==
    LET toOne  == IF c.how \in {"append", "prepend", "before", "after"} THEN Len(c.targets) ELSE 1
        given  == Flat(c.args, LAMBDA a : IF a.kind = "html" THEN [i \in DOMAIN Tags[a.of] |-> 0] ELSE a.of)
        wanted == Flat(c.args, LAMBDA a : IF a.kind = "html" THEN Tags[a.of] ELSE [i \in DOMAIN a.of |-> d.tag[a.of[i]]])
    IN  \A i \in DOMAIN c.targets :
           LET here == Beside(e, Plain(c.how), c.targets[i], Len(given))
           IN  \A j \in DOMAIN given :
                  /\ here[j] # 0
                  /\ IF given[j] = 0 THEN here[j] \notin Nodes(d) /\ e.tag[here[j]] = wanted[j]
                     ELSE /\ (here[j] = given[j]) = (i = toOne)
                          /\ Alike(e, here[j], given[j])

\* All are in a new element, in their order, which stands where the first was.
WrappedIn(d, e, targets, p, was) ==
    /\ p \notin Nodes(d) /\ IsSuffix(targets, e.kids[p])
    /\ d.tag[was] # "#fragment" =>
          \E i \in DOMAIN e.kids[was] : e.kids[was][i] \notin Nodes(d) /\ p \in ToSet(getAll(e, e.kids[was][i]))

\* The nodes stand where the one was.
StandFor(d, e, n, p, nodes) ==
    LET others == SelectSeq(d.kids[p], LAMBDA m : m \notin ToSet(nodes))
        at     == SelectInSeq(others, LAMBDA m : m = n)
    IN  e.kids[p] = SubSeq(others, 1, at - 1) \o nodes \o SubSeq(others, at + 1, Len(others))

Unwrapped(d, e, targets, p) ==
    (p \notin {0, Body} /\ \A i \in DOMAIN targets : Parent(d, targets[i]) = p) =>
        (Parent(d, p) # 0 => StandFor(d, e, p, Parent(d, p), d.kids[p]))

\* What a call moves, or replaces.
Moved(d, c) ==
    ToSet(c.targets) \cup GivenNodes(c.args)
    \cup (IF c.how = "wrapInner" THEN UNION {ToSet(d.kids[c.targets[i]]) : i \in DOMAIN c.targets} ELSE {})

\* All of a list but what is among the nodes.
Others(list, nodes) == SelectSeq(list, LAMBDA n : n \notin nodes)

Unmoved(d, e, nodes) ==
    \A p \in Page(d) \cap Page(e) : Others(e.kids[p], nodes \cup (Nodes(e) \ Nodes(d))) = Others(d.kids[p], nodes)

ContentComes(d, e, c) ==
    /\ Plain(c.how) # "" => Arrived(d, e, c)
    /\ c.how = "wrapAll" => WrappedIn(d, e, c.targets, Parent(e, c.targets[1]), Parent(d, c.targets[1]))
    /\ c.how = "unwrap" => Unwrapped(d, e, c.targets, Parent(d, c.targets[1]))
    /\ c.how = "replaceWith" /\ Len(c.targets) = 1 /\ c.args[1].kind # "html" =>
          StandFor(d, e, c.targets[1], Parent(d, c.targets[1]), c.args[1].of)
    /\ c.how \notin {"data", "read", "removeData", "bind", "unbind"} =>
          \A n \in Page(d) \cap Page(e) : Entry(e, n) = Entry(d, n)
    /\ c.how \notin {"remove", "empty", "html", "text", "replaceWith", "replaceAll", "unwrap"} =>
          Page(d) \subseteq Page(e)
    /\ c.how \notin {"empty", "html", "text", "unwrap"} => Unmoved(d, e, Moved(d, c))

\* Every target has a parent; what is replaced is not in another that is replaced.
Ordinary(d, c) ==
    /\ c.how \in {"replaceWith", "replaceAll"} =>
          \A i, j \in DOMAIN c.targets : i # j => c.targets[j] \notin ToSet(getAll(d, c.targets[i]))
    /\ \A i \in DOMAIN c.targets : Parent(d, c.targets[i]) # 0
    /\ c.args # <<>> => ~ Taken(d, c.targets, c.args)

\* What a page puts comes to each target once, with its data and its functions, and nothing
\* else moves or loses data: methods that put nodes use the nodes themselves
\* for the last target, those with To for the first, and clones for the others (5303-5321, 5477-5486);
\* what is to replace is detached before the rest goes (5247-5251).  What is not kept
\* is when a fragment is taken for its node (5290), an exception ends the call, a target
\* has no parent, or one that is to be replaced is in another.
ContentArrives == [][Ordinary(dom, call') /\ ~ dom'.threw => ContentComes(dom, dom', call')]_nodesVars
=============================================================================
