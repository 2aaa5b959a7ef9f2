---------------------------- MODULE MCFunctions ----------------------------
(***************************************************************************)
(* Bounded inputs: texts of tags, documents, and trees of nodes with       *)
(* selectors for them.                                                     *)
(***************************************************************************)
EXTENDS FunctionsCheck

MCTagTexts == {<<>>, <<"a">>, <<"b">>, <<"a", ",", "b">>, <<"b", "wide", " ", "c">>, <<"a", " ", ",", "a">>}

Id == <<>>
Text(text) == E!Text(Id, text)
Styled(colour, kids) == E!Element(Id, "span", [E!NoStyle EXCEPT !.color = colour], kids)
Tagged(tag, kids) == E!Element(Id, tag, E!NoStyle, kids)

\* Documents with a colour next to a br and below a b, a colour above a b, two paragraphs.
MCBodies ==
    {[left |-> 0, body |->
        Tagged("body", <<Tagged("p", <<Styled("red", <<Text(<<1, 2>>)>>), Tagged("br", <<>>), Text(<<3>>)>>),
                         Tagged("p", <<Tagged("b", <<Styled("red", <<Text(<<4, 5>>)>>)>>)>>)>>)],
     [left |-> 0, body |->
        Tagged("body", <<Tagged("p", <<Tagged("b", <<Text(<<1>>), Styled("red", <<Text(<<2, 3>>)>>)>>), Text(<<4>>)>>),
                         Tagged("p", <<Styled("red", <<Text(<<5>>), Tagged("b", <<Text(<<6>>)>>), Text(<<7>>)>>), Text(<<8>>)>>)>>)],
     [left |-> 0, body |->
        Tagged("body", <<Tagged("p", <<Text(<<1, 2>>), Tagged("b", <<Text(<<3, 4>>)>>), Text(<<5>>)>>),
                         Tagged("p", <<Text(<<6, 7>>)>>)>>)],
     [left |-> 1, body |->
        Tagged("body", <<Tagged("p", <<Text(<<1>>), Tagged("b", <<Text(<<2>>)>>)>>), Tagged("p", <<Text(<<3>>)>>)>>)]}
\* Nodes: elements a and b; with an id or a class, or a text.
Node(tag, id, classes) == [type |-> 1, tag |-> tag, id |-> id, classes |-> classes, parent |-> 0]
TextNode == [Node("", "", {}) EXCEPT !.type = 3]

Rels == {"", ">", "+", "~"}
Rel(rel) == IF rel = "" THEN <<>> ELSE <<Z!Combinator(rel)>>
One(S) == {Rel(r) \o <<p>> : p \in S, r \in Rels}
Two(S) == {p \o Rel(r) \o <<q>> : p \in One(S), q \in S, r \in Rels}
Three(S) == {p \o Rel(r) \o <<q>> : p \in Two(S), q \in S, r \in Rels}

Is(kind, name) == Z!Tests(<<Z!Test(kind, name)>>)
Nth(a, b) == [Z!Test("CHILD", "nth") EXCEPT !.a = a, !.b = b]
OfSelector(name, parts) == [Z!Test("PSEUDO", name) EXCEPT !.selector = <<parts>>]

Tag == {Is("TAG", "a"), Is("TAG", "b"), Is("TAG", "*")}

Compound ==
    {Is("ID", "i"), Is("CLASS", "x"), Z!Tests(<<Z!Test("TAG", "b"), Z!Test("CLASS", "x")>>),
     Z!Tests(<<Nth(2, 1)>>), Z!Tests(<<Z!Test("TAG", "a"), Nth(-1, 2)>>), Is("CHILD", "only"),
     Is("CHILD", "last"), Is("PSEUDO", "empty"), Is("TAG", "a"),
     Z!Tests(<<OfSelector("not", <<Is("CLASS", "x")>>)>>),
     Z!Tests(<<Z!Test("TAG", "*"), OfSelector("has", <<Z!Combinator(">"), Is("TAG", "b")>>)>>)}

\* Selectors of up to three tags, and of up to two parts with all kinds of tests.
MCFamilies ==
    <<[root |-> Node("a", "", {}), nodes |-> 4,
       labels |-> {Node("a", "", {}), Node("b", "", {})},
       selectors |-> Three(Tag) \cup Two(Tag) \cup One(Tag), pairs |-> {}],
      [root |-> Node("a", "", {}), nodes |-> 3,
       labels |-> {Node("a", "", {}), Node("a", "i", {}), Node("b", "", {"x"}), TextNode},
       selectors |-> Two(Compound) \cup One(Compound),
       pairs |-> {<<<<p>>, <<q>>>> : p, q \in Compound}]>>

NoFamilies == <<>>
=============================================================================
