---------------------------- MODULE Highlighter ----------------------------
(***************************************************************************)
(* How SyntaxHighlighter (syntaxhighlighter/src/shCore.js) shows a piece   *)
(* of code: tabs become spaces, the indentation that all lines share goes, *)
(* what regular expressions matched gets a class, nested matches do not    *)
(* count, and each line is shown with its number.                          *)
(*                                                                         *)
(* What the expressions of a brush match is not modelled: any spans of the *)
(* code may match.  HTML is not written out: a shown character has a class *)
(* or, if it is a space in front of a line, none.                          *)
(***************************************************************************)
EXTENDS Integers, Sequences, SequencesExt, FiniteSets

CONSTANTS TabSize,      \* the parameter tab-size
          FirstLine     \* the parameter first-line

Space == " "
Tab == "tab"
NewLine == "nl"
Blank == {Space, Tab, NewLine}

\* How many characters of a kind a text begins with.
Leading(text, kind) ==
    IF \A i \in DOMAIN text : text[i] \in kind THEN Len(text)
    ELSE SelectInSeq(text, LAMBDA c : c \notin kind) - 1

Trailing(text, kind) == Leading(Reverse(text), kind)

Drop(text, first, last) == SubSeq(text, first + 1, Len(text) - last)

trim(text) ==
    LET rest == Drop(text, Leading(text, Blank), 0) IN Drop(rest, 0, Trailing(rest, Blank))

\* str.split('\n') and lines.join('\n')
Lines(code) ==
    FoldLeft(LAMBDA lines, c : IF c = NewLine THEN Append(lines, <<>>)
                               ELSE [lines EXCEPT ![Len(lines)] = Append(@, c)], <<<<>>>>, code)

Joined(lines) ==
    FoldLeft(LAMBDA code, line : Append(code, NewLine) \o line, Head(lines), Tail(lines))

eachLine(code, Op(_)) == LET lines == Lines(code) IN Joined([i \in DOMAIN lines |-> Op(lines[i])])

\* Empty lines at the start and at the end.
trimFirstAndLastLines(code) ==
    LET spaces  == Leading(code, {Space})
        ends    == Leading(Drop(code, spaces, 0), {NewLine})
        rest    == Drop(code, IF ends > 0 THEN spaces + ends ELSE 0, 0)
        last    == Drop(rest, 0, Trailing(rest, {Space}))
    IN  Drop(last, 0, Trailing(last, {NewLine}))

Spaces(n) == [i \in 1 .. n |-> Space]

\* A tab goes on to the next multiple of the tab size.
processSmartTabs(code) ==
    eachLine(code, LAMBDA line :
        FoldLeft(LAMBDA text, c : IF c = Tab THEN text \o Spaces(TabSize - (Len(text) % TabSize))
                                  ELSE Append(text, c), <<>>, line))

\* Takes off as many characters as the least indented of the lines that are not blank
\* begins with.  1000 is where the search begins.
unindent(code) ==
    LET lines   == Lines(code)
        indents == {Leading(lines[i], Blank) : i \in {j \in DOMAIN lines : trim(lines[j]) # <<>>}}
        least   == IF indents = {} THEN 1000 ELSE CHOOSE n \in indents : \A m \in indents : n <= m
    IN  eachLine(code, LAMBDA line : SubSeq(line, least + 1, Len(line)))

-----------------------------------------------------------------------------
(* Matches. *)

Match(value, index, css) == [value |-> value, index |-> index, css |-> css]

Nothing == [value |-> <<>>, index |-> -1, css |-> "null"]

\* The expressions of the brush, over code that is embedded in HTML.  What they match, and
\* what is in the brackets, is moved to where it is in the whole.
process(match, inCode) ==
    LET moved(m, by) == [m EXCEPT !.index = @ + by]
        offset       == match.index + Len(match.left)
    IN  [i \in DOMAIN inCode |-> moved(inCode[i], offset)]
            \o <<Match(match.left, match.index, "script"),
                 Match(match.right, offset + Len(match.code), "script")>>

\* By where they begin, then by their length.
matchesSortCallback(m1, m2) ==
    \/ m1.index < m2.index
    \/ m1.index = m2.index /\ Len(m1.value) < Len(m2.value)

findMatches(results) == SortSeq(results, matchesSortCallback)

\* Mutant: a longer match at the same place does not count.
AgainstFirst(matches, i) ==
    LET item == matches[i]
        end  == item.index + Len(item.value)
        Visit(s, j) ==
            LET other == s.matches[j]
            IN  IF s.done \/ other = Nothing THEN s
                ELSE IF other.index > end THEN [s EXCEPT !.done = TRUE]
                ELSE IF other.index >= item.index /\ other.index < end
                THEN [s EXCEPT !.matches[j] = Nothing]
                ELSE s
    IN  IF item = Nothing THEN matches
        ELSE FoldLeft(Visit, [matches |-> matches, done |-> FALSE],
                      [k \in 1 .. Len(matches) - i |-> i + k]).matches

\* What the loop over j does of a match i: a longer one at the same place removes it, and
\* else it removes those that begin in it.
Against(matches, i) ==
    LET item == matches[i]
        end  == item.index + Len(item.value)
        Visit(s, j) ==
            LET other == s.matches[j]
            IN  IF s.done \/ other = Nothing THEN s
                ELSE IF other.index > end THEN [s EXCEPT !.done = TRUE]
                ELSE IF other.index = item.index /\ Len(other.value) > Len(item.value)
                THEN [s EXCEPT !.matches[i] = Nothing, !.done = TRUE]
                ELSE IF other.index >= item.index /\ other.index < end
                THEN [s EXCEPT !.matches[j] = Nothing]
                ELSE s
    IN  IF item = Nothing THEN matches
        ELSE FoldLeft(Visit, [matches |-> matches, done |-> FALSE],
                      [k \in 1 .. Len(matches) - i |-> i + k]).matches

removeNestedMatches(matches) == FoldLeft(Against, matches, [i \in DOMAIN matches |-> i])

-----------------------------------------------------------------------------
(* What is shown. *)

\* A character and the class of the element that it is in, if it is in one.
Shown(char, css) == [char |-> char, css |-> css]

Bare == ""

\* Of spaces in a row only the last stays a space.  Every line gets the class, but not the
\* spaces that it begins with.
decorate(text, css) ==
    LET html(i)  == IF text[i] = Space /\ i < Len(text) /\ text[i + 1] = Space THEN "nbsp" ELSE text[i]
        front(i) == \E j \in 0 .. i : /\ j = 0 \/ text[j] = NewLine
                                     /\ \A k \in j + 1 .. i : text[k] = Space
    IN  [i \in DOMAIN text |-> Shown(html(i), IF front(i) THEN Bare ELSE css)]

\* The matches that are left, and between them the text that did not match.
processMatches(code, matches) ==
    LET Add(s, m) ==
            IF Len(m.value) = 0 THEN s
            ELSE [pos  |-> m.index + Len(m.value),
                  html |-> s.html \o decorate(SubSeq(code, s.pos + 1, m.index), "plain")
                                  \o decorate(m.value, m.css)]
        all == FoldLeft(Add, [pos |-> 0, html |-> <<>>], matches)
    IN  all.html \o decorate(SubSeq(code, all.pos + 1, Len(code)), "plain")

\* What trim and the expression for the indentation take for blank.
BlankHtml == {Shown(c, Bare) : c \in Blank}
IndentHtml == BlankHtml \cup {Shown("nbsp", Bare)}

trimHtml(html) ==
    LET rest == Drop(html, Leading(html, BlankHtml), 0) IN Drop(rest, 0, Trailing(rest, BlankHtml))

HtmlLines(html) ==
    FoldLeft(LAMBDA lines, c : IF c.char = NewLine THEN Append(lines, <<>>)
                               ELSE [lines EXCEPT ![Len(lines)] = Append(@, c)], <<<<>>>>, html)

\* Each line with its number, how far it is indented, and the rest of it.
createDisplayLines(html) ==
    LET lines == HtmlLines(html)
    IN  [i \in DOMAIN lines |->
            LET indent == Leading(lines[i], IndentHtml)
            IN  [number |-> FirstLine + i - 1, spaces |-> indent,
                 content |-> trimHtml(Drop(lines[i], indent, 0))]]

Prepared(code) == unindent(processSmartTabs(trimFirstAndLastLines(code)))

highlight(code, results) ==
    createDisplayLines(trimHtml(processMatches(Prepared(code), removeNestedMatches(findMatches(results)))))

-----------------------------------------------------------------------------
(* Code in a page. *)

Opening == "<![CDATA["
Closing == "]]>"

\* A mark is one element of a text, and counts for as many characters as it has.
Length(text) ==
    FoldLeft(LAMBDA n, c : n + (CASE c = Opening -> 9 [] c = Closing -> 3 [] OTHER -> 1), 0, text)

IndexOf(text, mark) ==
    IF Contains(text, mark) THEN Length(SubSeq(text, 1, SelectInSeq(text, LAMBDA c : c = mark) - 1)) ELSE -1

\* A mark that is not there has the index -1, which is where it would be at the end of a
\* text of two characters.
stripCData(original) ==
    LET copy   == trim(original)
        opened == IndexOf(copy, Opening) = 0
        inner  == IF opened THEN Tail(copy) ELSE copy
        closed == IndexOf(inner, Closing) = Length(inner) - 3
    IN  CASE closed /\ Length(inner) < 3 -> <<>>
          [] closed /\ Length(inner) >= 3 -> Front(inner)
          [] opened /\ ~ closed -> inner
          [] ~ opened /\ ~ closed -> original
=============================================================================
