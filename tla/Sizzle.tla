------------------------------- MODULE Sizzle -------------------------------
(***************************************************************************)
(* Sizzle, with which jQuery finds the elements of a selector              *)
(* (js/jquery-1.5.1.js:3303-4655), where the browser does not do it.  It   *)
(* finds what the last part of the selector means and then goes from       *)
(* there to the parts in front, one after the other, for all elements at   *)
(* once.                                                                   *)
(*                                                                         *)
(* A document is the sequence of its nodes in their order; a node knows    *)
(* its parent.  A selector is the sequence of what commas separate, each   *)
(* of which is a sequence of parts: a part is tests, or it is a            *)
(* combinator.  Selectors of several parts with positions (:first, :eq)    *)
(* are left out, and so are attributes and what :not() is given more than  *)
(* one test.                                                               *)
(***************************************************************************)
EXTENDS Integers, Sequences, SequencesExt, FiniteSets

\* Nodes.  Of what is not there, and of an element that was ruled out, there is none.
Document == 0
None == -1

\* In a check set: true.
True == -2

nodeType(doc, n) == IF n = Document THEN 9 ELSE doc[n].type

parentNode(doc, n) == IF n = Document THEN None ELSE doc[n].parent

childNodes(doc, n) == SelectSeq([i \in DOMAIN doc |-> i], LAMBDA k : doc[k].parent = n)

Largest(S) == IF S = {} THEN None ELSE CHOOSE m \in S : \A n \in S : n <= m

previousSibling(doc, n) ==
    IF n = Document THEN None ELSE Largest({m \in 1 .. n - 1 : doc[m].parent = doc[n].parent})

Step(doc, dir, n) == IF dir = "parentNode" THEN parentNode(doc, n) ELSE previousSibling(doc, n)

RECURSIVE Above(_, _)
Above(doc, n) == IF n = Document THEN {} ELSE {doc[n].parent} \cup Above(doc, doc[n].parent)

contains(doc, a, b) == a \in Above(doc, b)

Elements(doc) == SelectSeq([i \in DOMAIN doc |-> i], LAMBDA n : doc[n].type = 1)

\* The elements in a context, in their order.
Under(doc, context) == SelectSeq(Elements(doc), LAMBDA n : contains(doc, context, n))

-----------------------------------------------------------------------------
(* Selectors. *)

Test(kind, name) == [kind |-> kind, name |-> name, a |-> 0, b |-> 0, selector |-> <<>>]

Tests(tests) == [rel |-> "", tests |-> tests]

Combinator(rel) == [rel |-> rel, tests |-> <<>>]

IsTag(part) == Len(part.tests) = 1 /\ part.tests[1].kind = "TAG" /\ part.tests[1].name # "*"

\* Expr.filter is gone through in this order, again from the start after each filter.
Rank(test) ==
    CASE test.kind = "PSEUDO" -> 1 [] test.kind = "CHILD" -> 2 [] test.kind = "ID" -> 3
      [] test.kind = "TAG" -> 4 [] test.kind = "CLASS" -> 5 [] test.kind = "POS" -> 6

Ordered(tests) ==
    LET Of(rank) == SelectSeq(tests, LAMBDA t : Rank(t) = rank)
    IN  Of(1) \o Of(2) \o Of(3) \o Of(4) \o Of(5) \o Of(6)

-----------------------------------------------------------------------------
(* Filters. *)

\* The place of an element among the elements of its parent.
nodeIndex(doc, n) == Cardinality({m \in 1 .. n : doc[m].parent = doc[n].parent /\ doc[m].type = 1})

LastChild(doc, n) == \A m \in n + 1 .. Len(doc) : doc[m].parent = doc[n].parent => doc[m].type # 1

CHILD(doc, n, test) ==
    CASE test.name = "first" -> n = Document \/ nodeIndex(doc, n) = 1
      [] test.name = "last"  -> n = Document \/ LastChild(doc, n)
      [] test.name = "only"  -> n = Document \/ (nodeIndex(doc, n) = 1 /\ LastChild(doc, n))
      [] test.name = "nth"   ->
            /\ n # Document
            /\ LET diff == nodeIndex(doc, n) - test.b
               IN  IF test.a = 0 THEN diff = 0 ELSE \E k \in 0 .. Len(doc) : diff = k * test.a

POS(i, last, test) ==
    CASE test.name = "first" -> i = 0
      [] test.name = "last"  -> i = last
      [] test.name = "even"  -> i % 2 = 0
      [] test.name = "odd"   -> i % 2 = 1
      [] test.name = "lt"    -> i < test.a
      [] test.name = "gt"    -> i > test.a
      [] test.name = "eq"    -> i = test.a

RECURSIVE Select(_, _, _, _), filter(_, _, _)

PSEUDO(doc, n, test, set) ==
    CASE test.name = "parent" -> n = Document \/ childNodes(doc, n) # <<>>
      [] test.name = "empty"  -> n # Document /\ childNodes(doc, n) = <<>>
      [] test.name = "has"    -> Select(doc, test.selector, n, <<>>) # <<>>
      [] test.name = "not"    -> n \notin ToSet(Select(doc, test.selector, Document, set))

\* Whether the i-th of a set passes a test.
Passes(doc, set, i, test) ==
    LET n == set[i] IN
    CASE test.kind = "TAG"    -> nodeType(doc, n) = 1 /\ (test.name = "*" \/ doc[n].tag = test.name)
      [] test.kind = "CLASS"  -> nodeType(doc, n) = 1 /\ test.name \in doc[n].classes
      [] test.kind = "ID"     -> nodeType(doc, n) = 1 /\ doc[n].id = test.name
      [] test.kind = "CHILD"  -> CHILD(doc, n, test)
      [] test.kind = "POS"    -> POS(i - 1, Len(set) - 1, test)
      [] test.kind = "PSEUDO" -> PSEUDO(doc, n, test, SelectSeq(set, LAMBDA m : m # None))

At(list, indices) == [k \in DOMAIN indices |-> list[indices[k]]]

\* The set without what does not pass.
filter(doc, tests, set) ==
    FoldLeft(LAMBDA left, test : At(left, SelectSeq([i \in DOMAIN left |-> i], LAMBDA i : Passes(doc, left, i, test))),
             set, Ordered(tests))

\* In place: what does not pass is ruled out.
filterInPlace(doc, tests, set) ==
    FoldLeft(LAMBDA left, test : [i \in DOMAIN left |->
                IF left[i] # None /\ Passes(doc, left, i, test) THEN left[i] ELSE None],
             set, Ordered(tests))

-----------------------------------------------------------------------------
(* Combinators: what is to the left of each element of a check set.  The left side is a part *)
(* of the selector or, at its start, the context.                                            *)

RECURSIVE Nearest(_, _, _)
\* The nearest element on the way in a direction.
Nearest(doc, dir, n) ==
    LET to == Step(doc, dir, n)
    IN  IF to = None \/ nodeType(doc, to) = 1 THEN to ELSE Nearest(doc, dir, to)

plus(doc, checkSet, part) ==
    LET before == [i \in DOMAIN checkSet |->
                     IF checkSet[i] = None THEN None ELSE Nearest(doc, "previousSibling", checkSet[i])]
    IN  filterInPlace(doc, part.tests, before)

\* The document has no parent (jquery:3694 would throw); no part of a run's selectors that
\* is to the right of a > lets it through.
child(doc, checkSet, part) ==
    LET parents == [i \in DOMAIN checkSet |->
                      IF checkSet[i] = None THEN None ELSE parentNode(doc, checkSet[i])]
    IN  filterInPlace(doc, part.tests, parents)

plusContext(doc, checkSet, context) ==
    [i \in DOMAIN checkSet |->
        IF checkSet[i] # None /\ Nearest(doc, "previousSibling", checkSet[i]) = context THEN True ELSE None]

childContext(doc, checkSet, context) ==
    [i \in DOMAIN checkSet |->
        IF checkSet[i] # None /\ parentNode(doc, checkSet[i]) = context THEN True ELSE None]

RECURSIVE Walk(_, _, _, _, _, _)
\* Goes in a direction until a node is the one looked for, or was seen on an earlier walk,
\* whose result holds for this one too.  The elements that it comes by are seen then.
Walk(doc, dir, n, stops, sizset, checkSet) ==
    CASE n = None -> [match |-> None, seen |-> {}]
      [] n # None /\ sizset[n] > 0 -> [match |-> checkSet[sizset[n]], seen |-> {}]
      [] n # None /\ sizset[n] = 0 /\ n \in stops -> [match |-> n, seen |-> {n}]
      [] OTHER -> LET on == Walk(doc, dir, Step(doc, dir, n), stops, sizset, checkSet)
                  IN  [on EXCEPT !.seen = @ \cup (IF nodeType(doc, n) = 1 THEN {n} ELSE {})]

\* dirCheck and dirNodeCheck: one element of the check set after the other.
dirCheck(doc, dir, stops, checkSet) ==
    FoldLeft(LAMBDA s, i :
                IF s.checkSet[i] = None THEN s
                ELSE LET found == Walk(doc, dir, Step(doc, dir, s.checkSet[i]), stops, s.sizset, s.checkSet)
                     IN  [checkSet |-> [s.checkSet EXCEPT ![i] = found.match],
                          sizset   |-> [n \in DOMAIN s.sizset |-> IF n \in found.seen THEN i ELSE s.sizset[n]]],
             [checkSet |-> checkSet, sizset |-> [n \in 0 .. Len(doc) |-> 0]],
             [i \in DOMAIN checkSet |-> i]).checkSet

dir(rel) == IF rel = "~" THEN "previousSibling" ELSE "parentNode"

relative(doc, rel, checkSet, part) ==
    CASE rel = "+" -> plus(doc, checkSet, part)
      [] rel = ">" -> child(doc, checkSet, part)
      [] rel \in {"", "~"} ->
            LET elements == ToSet(Elements(doc))
            IN  dirCheck(doc, dir(rel), {n \in elements : filter(doc, part.tests, <<n>>) # <<>>}, checkSet)

relativeContext(doc, rel, checkSet, context) ==
    CASE rel = "+" -> plusContext(doc, checkSet, context)
      [] rel = ">" -> childContext(doc, checkSet, context)
      [] rel = "~" ->
            LET found == dirCheck(doc, "previousSibling", {context}, checkSet)
            IN  [i \in DOMAIN found |-> IF found[i] = None THEN None ELSE True]

-----------------------------------------------------------------------------
(* Sizzle. *)

\* By the id, from the document; by the class or the tag; or all there are.
find(doc, part, context) ==
    LET first(kind) == SelectSeq(part.tests, LAMBDA t : t.kind = kind)
        by == IF context = Document /\ first("ID") # <<>> THEN "ID"
              ELSE IF first("CLASS") # <<>> THEN "CLASS"
              ELSE IF Len(part.tests) > 0 /\ part.tests[1].kind = "TAG" THEN "TAG" ELSE ""
        all == Under(doc, context)
        found == IF by = "" THEN all
                 ELSE SelectSeq(all, LAMBDA n : Passes(doc, <<n>>, 1, first(by)[1]))
    IN  [set  |-> IF by = "ID" /\ found # <<>> THEN <<found[1]>> ELSE found,
         expr |-> IF by = "" THEN part.tests
                  ELSE SelectSeq(part.tests, LAMBDA t : t # first(by)[1])]

RECURSIVE CheckParts(_, _, _, _)
\* The parts from the last to the first.
CheckParts(doc, checkSet, parts, context) ==
    IF parts = <<>> THEN checkSet
    ELSE LET cur  == Last(parts)
             rest == Front(parts)
         IN  IF cur.rel = "" THEN CheckParts(doc, relative(doc, "", checkSet, cur), rest, context)
             ELSE IF rest = <<>> THEN relativeContext(doc, cur.rel, checkSet, context)
             ELSE CheckParts(doc, relative(doc, cur.rel, checkSet, Last(rest)), Front(rest), context)

\* Mutant: elements whose leftmost part is outside of the context are found.
inContextAny(doc, context, n) == n # None

\* What is left of the check set counts if it is in the context.
inContext(doc, context, n) ==
    /\ n # None
    /\ IF nodeType(doc, context) = 1 THEN n = True \/ (nodeType(doc, n) = 1 /\ contains(doc, context, n))
       ELSE n # True /\ nodeType(doc, n) = 1

HasId(part) == \E i \in DOMAIN part.tests : part.tests[i].kind = "ID"

filterFound(doc, found) == filter(doc, found.expr, found.set)

\* If it begins with an id, what has it is the context for the rest.
From(doc, parts, origContext, seed) ==
    IF /\ seed = <<>> /\ Len(parts) > 1 /\ origContext = Document
       /\ HasId(parts[1]) /\ ~ HasId(Last(parts))
    THEN [root |-> filterFound(doc, find(doc, parts[1], origContext)), parts |-> Tail(parts)]
    ELSE [root |-> <<origContext>>, parts |-> parts]

Kept(doc, set, checkSet, context) ==
    At(set, SelectSeq([i \in DOMAIN set |-> i], LAMBDA i : inContext(doc, context, checkSet[i])))

Checked(doc, set, parts, context) ==
    IF Len(parts) = 1 THEN set ELSE Kept(doc, set, CheckParts(doc, set, Front(parts), context), context)

SelectIn(doc, parts, context, seed) ==
    LET sibling == Len(parts) = 2 /\ parts[1].rel \in {"+", "~"} /\ parentNode(doc, context) # None
    IN  Checked(doc, filterFound(doc, IF seed # <<>> THEN [set |-> seed, expr |-> Last(parts).tests]
                                      ELSE find(doc, Last(parts), IF sibling THEN parentNode(doc, context) ELSE context)),
                parts, context)

\* One selector without a comma.
SelectFrom(doc, from, seed) == IF from.root = <<>> THEN <<>> ELSE SelectIn(doc, from.parts, from.root[1], seed)

SelectOne(doc, parts, origContext, seed) == SelectFrom(doc, From(doc, parts, origContext, seed), seed)

\* With several selectors the results are put in order, and each is there once.
uniqueSort(results, several) == IF several THEN SetToSortSeq(ToSet(results), <) ELSE results

Select(doc, selector, context, seed) ==
    uniqueSort(FoldLeft(LAMBDA found, parts : found \o SelectOne(doc, parts, context, seed), <<>>, selector),
               Len(selector) > 1)

-----------------------------------------------------------------------------
(* What a selector means. *)

Related(doc, rel, left, n) ==
    CASE rel = ""  -> contains(doc, left, n)
      [] rel = ">" -> parentNode(doc, n) = left
      [] rel = "+" -> Nearest(doc, "previousSibling", n) = left
      [] rel = "~" -> left < n /\ left # Document /\ parentNode(doc, left) = parentNode(doc, n)

RECURSIVE Means(_, _, _, _)
\* Whether an element is one that the parts mean, in a context.
Means(doc, parts, context, n) ==
    LET part == Last(parts)
        rest == Front(parts)
        rel  == IF rest = <<>> THEN "" ELSE Last(rest).rel
        left == IF rel = "" THEN rest ELSE Front(rest)
    IN  /\ \A i \in DOMAIN part.tests : Passes(doc, <<n>>, 1, part.tests[i])
        /\ IF rest = <<>> THEN contains(doc, context, n)
           ELSE IF left = <<>> THEN Related(doc, rel, context, n)
           ELSE \E m \in ToSet(Elements(doc)) : Related(doc, rel, m, n) /\ Means(doc, left, context, m)
\* The combinators of a selector from left to right; between two tests there is the blank.
Combinators(parts) ==
    FoldLeft(LAMBDA all, k : all \o (IF parts[k].rel # "" THEN <<parts[k].rel>>
                                     ELSE IF k > 1 /\ parts[k - 1].rel = "" THEN <<"">> ELSE <<>>),
             <<>>, [k \in DOMAIN parts |-> k])

\* Selectors of which Sizzle finds all that they mean.  It goes to one element on the left and
\* tries no other: a blank must not follow any combinator that leads to one place, nor ~ a +.
\* A combinator comes first only where the context is an element, + and ~ only with one test,
\* and they do not follow an id at the start if more follows.
FindsAll(parts, context) ==
    LET c == Combinators(parts) IN
    /\ \A j \in 2 .. Len(c) : c[j] = "" => c[j - 1] = ""
    /\ \A j \in 2 .. Len(c) : c[j] = "~" => c[j - 1] # "+"
    /\ parts[1].rel # "" => context # Document
    /\ parts[1].rel \in {"+", "~"} => Len(parts) = 2
    /\ HasId(parts[1]) /\ ~ HasId(Last(parts)) /\ Len(parts) > 3 => parts[2].rel \notin {"+", "~"}

=============================================================================
