--------------------------- MODULE FunctionsCheck ---------------------------
(***************************************************************************)
(* The functions of the program that keep no state, compared with what     *)
(* they are for, as BoardsAndPages and TagsCheck do for some of them.  A   *)
(* state is an input of one function; a step makes the next larger one.    *)
(***************************************************************************)
EXTENDS TagsCheck

CONSTANTS Bodies,               \* documents in the editor, and how many commands change each
          MaxCommands,          \* how many commands change a table
          MaxCode,              \* bound on the length of a piece of code
          MaxSpans,             \* bound on the spans that are matched in it
          TabSize, FirstLine,   \* as in Highlighter
          Families              \* selectors, and the nodes of documents for them and how many

E == INSTANCE EditorRange
T == INSTANCE EditorTable
H == INSTANCE Highlighter
Z == INSTANCE Sizzle

\* Something else is written in every cell.
Filled(table) == [r \in DOMAIN table |-> [c \in DOMAIN table[r] |-> <<r, c>>]]

Init ==
    \/ PlainInit
    \/ TagsInit
    \/ function = "cmd"       /\ input \in {[b EXCEPT !.body = E!Named(@, <<>>)] : b \in Bodies}
    \/ function = "highlight" /\ input = [code |-> <<>>, spans |-> {}]
    \/ function = "table"     /\ input = [table |-> Filled(T!newTable(3, 3)), left |-> MaxCommands]
    \/ function = "sizzle"    /\ \E f \in DOMAIN Families :
            input = [family |-> f, doc |-> <<Families[f].root>>]

\* What the commands of the editor do to a selected part of a document: give it a colour,
\* take all formats off it, or its colour.
Coloured(body, selected) ==
    E!wrap(body, E!selection(body, selected), "span", [E!NoStyle EXCEPT !.color = "green"])
Cleared(body, selected) ==
    E!remove(body, E!selection(body, selected), {"b", "span"}, {"color", "size"})
Uncoloured(body, selected) ==
    E!remove(body, E!selection(body, selected), {"span"}, {"color"})

Command ==
    /\ input.left > 0
    /\ \E selected \in E!Selections(input.body) :
          \E after \in {Coloured(input.body, selected), Cleared(input.body, selected)} :
             input' = [body |-> E!Named(after, <<>>), left |-> input.left - 1]

ChangeTable ==
    /\ input.left > 0
    /\ \E r \in DOMAIN input.table : \E c \in DOMAIN input.table[r] :
          \E after \in {T!tablecolinsert(input.table, r, c, 0), T!tablecolinsert(input.table, r, c, 1),
                        T!tablerowinsert(input.table, r, c, 0), T!tablerowinsert(input.table, r, c, 1),
                        T!tablecoldelete(input.table, r, c), T!tablerowdelete(input.table, r, c)} :
             input' = [table |-> after, left |-> input.left - 1]

\* More code is typed, then more spans of what is shown of it are matched.  The class of a
\* match depends on its length.
TypeCode ==
    \/ /\ Len(input.code) < MaxCode /\ input.spans = {}
       /\ \E c \in {"x", H!Space, H!Tab, H!NewLine} : input' = [input EXCEPT !.code = Append(@, c)]
    \/ /\ Cardinality(input.spans) < MaxSpans
       /\ LET length == Len(H!Prepared(input.code))
          IN  \E i \in 0 .. length - 1 : \E n \in 1 .. length - i :
                 input' = [input EXCEPT !.spans = @ \cup {<<i, n>>}]

\* One node more, below the last one or an element above it; an id is there once.
AddNode ==
    LET family == Families[input.family]
        doc    == input.doc
        last   == Len(doc)
    IN  /\ last < family.nodes
        /\ \E parent \in (Z!Above(doc, last) \cup {last}) \ {Z!Document}, node \in family.labels :
              /\ doc[parent].type = 1
              /\ node.id # "" => \A n \in DOMAIN doc : doc[n].id # node.id
              /\ input' = [input EXCEPT !.doc = Append(@, [node EXCEPT !.parent = parent])]

Next ==
    \/ PlainNext
    \/ TagsNext
    \/ /\ UNCHANGED function
       /\ \/ function = "cmd"       /\ Command
          \/ function = "highlight" /\ TypeCode
          \/ function = "table"     /\ ChangeTable
          \/ function = "sizzle"    /\ AddNode

Spec == Init /\ [][Next]_inputVars

-----------------------------------------------------------------------------
(* Properties. *)

\* Whatever is selected of a document, wherever in texts or between elements it begins and
\* ends (kindeditor.js:322-367, 451-930): a colour is given to its characters and to no others.
\* To take formats off splits the elements around the ends of what is selected: the characters
\* in it have none of the formats then, and those outside have all that they had.  A colour
\* alone is taken off where no element with a colour has elements in it.  No character is
\* lost or moved, and none loses another format.
FormatsExact ==
    function = "cmd" =>
        \A selected \in E!Selections(input.body) :
            LET old     == E!Characters(input.body)
                In(i)   == E!Offset(input.body, selected.start) < i /\ i <= E!Offset(input.body, selected.end)
                Changed(Op(_)) == [i \in DOMAIN old |-> IF In(i) THEN Op(old[i]) ELSE old[i]]
                simple  == \A n \in E!Nodes(input.body) : n.style.color # "" => \A i \in DOMAIN n.kids : E!IsText(n.kids[i])
            IN  /\ E!Characters(Coloured(input.body, selected)) =
                      Changed(LAMBDA c : [c EXCEPT !.format.style.color = "green"])
                /\ E!Characters(Cleared(input.body, selected)) =
                      Changed(LAMBDA c : [c EXCEPT !.format.style = E!NoStyle, !.format.tags = @ \ {"b"}])
                /\ simple => E!Characters(Uncoloured(input.body, selected)) =
                      Changed(LAMBDA c : [c EXCEPT !.format.style.color = ""])

\* "Delete column" (tablecoldelete, kindeditor.js:2996) deletes the selected cell's column and
\* nothing else.
ColumnDeleted ==
    function = "table" =>
        \A r \in DOMAIN input.table : \A c \in DOMAIN input.table[r] :
            T!tablecoldelete(input.table, r, c) = [k \in DOMAIN input.table |-> RemoveAt(input.table[k], c)]

Found(code, spans) ==
    {H!Match(SubSeq(code, s[1] + 1, s[1] + s[2]), s[1], IF s[2] % 2 = 1 THEN "odd" ELSE "even") : s \in spans}

\* What the characters of the code are to be shown as: of the longest match at the first place
\* that no match in front of it covers.
Styles(code, found) ==
    LET longest(i) == CHOOSE m \in found : m.index = i /\ \A n \in found : n.index = i => Len(n.value) <= Len(m.value)
        style[i \in 0 .. Len(code)] ==
            IF i = Len(code) THEN <<>>
            ELSE IF \E m \in found : m.index = i
            THEN [k \in DOMAIN longest(i).value |-> longest(i).css] \o style[i + Len(longest(i).value)]
            ELSE <<"plain">> \o style[i + 1]
    IN  style[0]

Ink(html) == SelectSeq(html, LAMBDA c : c.char \notin H!Blank \cup {"nbsp"})

\* The lines that have ink are shown, with their numbers, characters and indentation.
ShownAs(lines, shown) ==
    LET inked    == {i \in DOMAIN lines : Ink(lines[i]) # <<>>}
        inkShown == {i \in DOMAIN shown : Ink(shown[i].content) # <<>>}
        gone     == IF inked = {} \/ inkShown = {} THEN 0 ELSE Min(inked) - Min(inkShown)
    IN  /\ gone >= 0
        /\ \A i \in inked : i - gone \in inkShown
        /\ \A i \in DOMAIN shown :
              /\ i + gone \in DOMAIN lines
              /\ shown[i].number = FirstLine + i - 1
              /\ Ink(shown[i].content) = Ink(lines[i + gone])
              /\ i > 1 /\ i \in inkShown =>
                    shown[i].spaces = SelectInSeq(lines[i + gone], LAMBDA c : c.char # H!Space) - 1

LinesWith(code, styles) == H!HtmlLines([i \in DOMAIN code |-> H!Shown(code[i], styles[i])])

CodeIsShown(code, typed, found) == ShownAs(LinesWith(code, Styles(code, found)), H!highlight(typed, SetToSeq(found)))

\* Wherever in the code some other is embedded, matches in that are where they were.
EmbeddedIsFound(code) ==
    \A a, b \in 0 .. Len(code) : a + 1 < b =>
        LET match == [index |-> a, left |-> <<code[a + 1]>>, right |-> <<code[b]>>, code |-> SubSeq(code, a + 2, b - 1)]
        IN  \A m \in ToSet(H!process(match, [i \in DOMAIN match.code |-> H!Match(<<match.code[i]>>, i - 1, "odd")])) :
               m.value = SubSeq(code, m.index + 1, m.index + Len(m.value))

\* The marks around the code are taken off; of code without marks nothing is, unless it is
\* of two characters, where a mark that is not found seems to be at the end.
MarksGo(code) ==
    /\ H!Length(H!trim(code)) # 2 => H!stripCData(code) = code
    /\ H!stripCData(<<H!Opening>> \o code \o <<H!Closing>>) = code

\* What SyntaxHighlighter shows of a piece of code (shCore.js:1096-1118, 1368-1632) is the code,
\* line by line: each line with its number, its characters and its indentation, though trim drops
\* the one of the first line if it is of one space or all of the lines in front are blank.
\* A character has the class of the longest match that begins at the first place that no match
\* in front of it covers.  Matches in code that is embedded in other code are where they were.
CodeShown ==
    function = "highlight" =>
        /\ CodeIsShown(H!Prepared(input.code), input.code, Found(H!Prepared(input.code), input.spans))
        /\ EmbeddedIsFound(H!Prepared(input.code))
        /\ MarksGo(input.code)

MeantBy(doc, parts, context) == {n \in ToSet(Z!Elements(doc)) : Z!Means(doc, parts, context, n)}

FoundOf(found, meant, all) == IF all THEN found = SetToSortSeq(meant, <) ELSE ToSet(found) \subseteq meant

\* Sizzle (jquery-1.5.1.js:3322-4655), which goes backwards through the selector for all
\* elements at once and remembers on the way where it has been, finds only elements that the
\* selector means, below the context; of the selectors for which it need not go back (FindsAll)
\* it finds all of them, each once and in their order, also with commas.
SelectorsExact ==
    function = "sizzle" =>
        \A context \in {Z!Document} \cup ToSet(Z!Elements(input.doc)) :
           /\ \A parts \in Families[input.family].selectors :
                 FoundOf(Z!Select(input.doc, <<parts>>, context, <<>>), MeantBy(input.doc, parts, context),
                         Z!FindsAll(parts, context))
           /\ \A pair \in Families[input.family].pairs :
                 FoundOf(Z!Select(input.doc, pair, context, <<>>),
                         UNION {MeantBy(input.doc, parts, context) : parts \in {pair[1], pair[2]}}, TRUE)

==============================================================================
