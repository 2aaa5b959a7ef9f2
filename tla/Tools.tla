------------------------------- MODULE Tools -------------------------------
(***************************************************************************)
(* The tags of articles (common/Tools.java, BaseAction.hotTag): how a text *)
(* with tags is cleaned before it is saved, and how the tags of a table    *)
(* are ranked.  Loops are recursive functions of the number of their       *)
(* rounds, and quickSort is one of the array and the part it sorts.        *)
(*                                                                         *)
(* A text is a sequence of characters.  Of these only blanks and the two   *)
(* commas are told apart from the rest.  An article's tags are kept as one *)
(* text, with commas between them.                                         *)
(***************************************************************************)
EXTENDS Integers, Sequences, SequencesExt, FiniteSetsExt

Space == " "    Tab == "tab"    Comma == ","    WideComma == "wide"

isBlank(c) == c \in {Tab, Space}

-----------------------------------------------------------------------------
(* Cleaning. *)

\* String.trim
Trimmed(str) ==
    LET inner == {i \in DOMAIN str : ~ isBlank(str[i])}
    IN  IF inner = {} THEN <<>> ELSE SubSeq(str, Min(inner), Max(inner))

\* A blank is kept, as a space, if no blank follows.
compressBlank(_str) ==
    LET str == Trimmed(_str)
        str_bu[n \in 0 .. Len(str)] ==
            IF n = 0 THEN <<>>
            ELSE IF ~ isBlank(str[n]) THEN Append(str_bu[n - 1], str[n])
            ELSE IF n < Len(str) /\ ~ isBlank(str[n + 1]) THEN Append(str_bu[n - 1], Space)
            ELSE str_bu[n - 1]
    IN  str_bu[Len(str)]

\* String.split at commas, with empty parts; those at the end, which Java leaves out,
\* are passed over by checkTag.
Split(str) ==
    LET parts[n \in 0 .. Len(str)] ==
            IF n = 0 THEN <<<<>>>>
            ELSE IF str[n] = Comma THEN Append(parts[n - 1], <<>>)
            ELSE [parts[n - 1] EXCEPT ![Len(parts[n - 1])] = Append(@, str[n])]
    IN  parts[Len(str)]

\* The tags, with commas between them.
Joined(tags) ==
    LET text[n \in 0 .. Len(tags)] ==
            IF n = 0 THEN <<>> ELSE IF n = 1 THEN tags[1] ELSE text[n - 1] \o <<Comma>> \o tags[n]
    IN  text[Len(tags)]

Narrow(text) == [i \in DOMAIN text |-> IF text[i] = WideComma THEN Comma ELSE text[i]]

\* The tags of a text, each once, in the order in which they come first.
checkTag(_tags) ==
    LET parts == Split(Narrow(_tags))
        tag_list[n \in 0 .. Len(parts)] ==
            IF n = 0 THEN <<>>
            ELSE LET _tag == compressBlank(parts[n])
                 IN  IF _tag = <<>> \/ Contains(tag_list[n - 1], _tag) THEN tag_list[n - 1]
                     ELSE Append(tag_list[n - 1], _tag)
    IN  Joined(tag_list[Len(parts)])

-----------------------------------------------------------------------------
(* Ranking. *)

swap(_arr, i, j) == [_arr EXCEPT ![i] = _arr[j], ![j] = _arr[i]]

\* Where the scan from i upwards halts: at a count below that of the pivot, or at the end.
ScanUp(_map, _arr, i, _end, part) ==
    IF i < _end THEN Min({k \in i + 1 .. _end : _map[_arr[k]] < part} \cup {_end}) ELSE i

ScanDown(_map, _arr, j, _start, part) ==
    IF j > _start THEN Max({k \in _start .. j - 1 : _map[_arr[k]] > part} \cup {_start}) ELSE j

\* A round of the loop of quickSort: both scans, and a swap if they have not met.
Round(_map, part, s, _start, _end) ==
    LET up   == ScanUp(_map, s.arr, s.i, _end, part)
        down == ScanDown(_map, s.arr, s.j, _start, part)
    IN  [arr |-> IF up < down THEN swap(s.arr, up, down) ELSE s.arr, i |-> up, j |-> down]

\* The loop, which ends when the scans have met: the array, and where the pivot goes.  They
\* come nearer in each round.
Partition(_map, _arr, _start, _end) ==
    LET loop[n \in 0 .. _end - _start + 1] ==
            IF n = 0 THEN [arr |-> _arr, i |-> _start, j |-> _end + 1]
            ELSE IF loop[n - 1].i < loop[n - 1].j
            THEN Round(_map, _map[_arr[_start]], loop[n - 1], _start, _end)
            ELSE loop[n - 1]
        last == loop[_end - _start + 1]
    IN  [arr |-> swap(last.arr, _start, last.j), at |-> last.j]

Call(_arr, _start, _end) == [arr |-> _arr, start |-> _start, end |-> _end]

\* Sorts by counts, the highest first.
quickSort(_map, _arr, _start, _end) ==
    LET sort[c \in [arr : [DOMAIN _arr -> DOMAIN _map], start : 1 .. Len(_arr) + 1, end : 0 .. Len(_arr)]] ==
            IF c.start >= c.end THEN c.arr
            ELSE LET parted == Partition(_map, c.arr, c.start, c.end)
                     left   == sort[Call(parted.arr, c.start, parted.at - 1)]
                 IN  sort[Call(left, parted.at + 1, c.end)]
    IN  sort[Call(_arr, _start, _end)]

\* Where a tag comes: in which list, and where in that.
Places(lists, tag) == UNION {{<<a, i>> : i \in {k \in DOMAIN lists[a] : lists[a][k] = tag}} : a \in DOMAIN lists}

\* Mutant: the first time a tag comes counts nothing.
TagMapFromZero(lists) ==
    [tag \in UNION {ToSet(lists[a]) : a \in DOMAIN lists} |-> Cardinality(Places(lists, tag)) - 1]

\* How often each tag comes.
TagMap(lists) ==
    [tag \in UNION {ToSet(lists[a]) : a \in DOMAIN lists} |-> Cardinality(Places(lists, tag))]

\* The tags of an article; it may have none.
TagsOf(text) == IF text = <<>> THEN <<>> ELSE Split(text)

\* The tags of all articles with their counts, the highest first; articles that have no
\* tag are passed over.  The keys of a map come in any order.
hotTag(texts) ==
    LET tag_map == TagMap([a \in DOMAIN texts |-> TagsOf(texts[a])])
        orders  == SetToSeqs(DOMAIN tag_map)
    IN  {LET sorted == quickSort(tag_map, key_arr, 1, Len(key_arr))
         IN  [i \in DOMAIN sorted |-> [tag |-> sorted[i], count |-> tag_map[sorted[i]]]] :
         key_arr \in orders}
=============================================================================
