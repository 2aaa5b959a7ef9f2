----------------------------- MODULE TagsCheck ------------------------------
(***************************************************************************)
(* What is done to the tags of articles, compared with what it is for, as  *)
(* BoardsAndPages does with other functions.  A state is an array to sort, *)
(* a text that is cleaned, or the tags of articles that are ranked.        *)
(***************************************************************************)
EXTENDS BoardsAndPages, Tools

CONSTANTS MaxKeys, MaxCount,    \* bounds of the sort: keys, and count of a key
          MaxText,              \* bound on the length of a text with tags
          MaxArticles,          \* bound on the articles whose tags are ranked
          TagTexts              \* what is typed as tags for them

ASSUME TagsAssumption == MaxCount \in Nat /\ TagTexts \subseteq Seq(STRING)

Chars == {"a", "b", Space, Tab, Comma, WideComma}

TagsInit == function \in {"quickSort", "checkTag", "hotTag"} /\ input = <<>>

CountOneMore == Len(input) < MaxKeys /\ \E n \in 1 .. MaxCount : input' = Append(input, n)

TypeOneMore == Len(input) < MaxText /\ \E c \in Chars : input' = Append(input, c)

SaveOneMore == Len(input) < MaxArticles /\ \E text \in TagTexts : input' = Append(input, checkTag(text))

TagsNext ==
    /\ \/ function = "quickSort" /\ CountOneMore
       \/ function = "checkTag"  /\ TypeOneMore
       \/ function = "hotTag"    /\ SaveOneMore
    /\ UNCHANGED function

TagsSpec == TagsInit /\ [][TagsNext]_inputVars

-----------------------------------------------------------------------------
(* Properties. *)

\* quickSort (Tools.java:132-151) ends with the same keys, those with the highest
\* counts first, also when counts are equal.
SortedByCount ==
    function = "quickSort" =>
        LET keys   == [i \in DOMAIN input |-> i]
            sorted == quickSort(input, keys, 1, Len(keys))
        IN  /\ ToSet(sorted) = DOMAIN input /\ Len(sorted) = Len(input)
            /\ \A i, j \in DOMAIN sorted : i < j => input[sorted[i]] >= input[sorted[j]]

\* What checkTag (Tools.java:69-83) leaves of a text are its tags, each once: without a
\* wide comma, a tab or two blanks in a row, none empty or with blanks around it.
\* Cleaning it once more changes nothing, as happens when an article is edited.
TagsClean ==
    function = "checkTag" =>
        LET tags == TagsOf(checkTag(input))
        IN  /\ IsInjective(tags)
            /\ \A i \in DOMAIN tags : tags[i] # <<>> /\ tags[i] = compressBlank(tags[i])
            /\ ~ Contains(checkTag(input), WideComma)
            /\ Contains(checkTag(input), "a") <=> Contains(input, "a")
            /\ checkTag(checkTag(input)) = checkTag(input)

\* hotTag (BaseAction.java:214-235) lists each tag of the articles with the number of
\* articles that have it, because checkTag leaves it once in each; the highest first.
HotTagsCount ==
    function = "hotTag" =>
        \A hot \in hotTag(input) :
            /\ {hot[i].tag : i \in DOMAIN hot} = UNION {ToSet(TagsOf(input[a])) : a \in DOMAIN input}
            /\ \A i \in DOMAIN hot :
                  hot[i].count = Cardinality({a \in DOMAIN input : Contains(TagsOf(input[a]), hot[i].tag)})
            /\ \A i, j \in DOMAIN hot : i < j => hot[i].count >= hot[j].count /\ hot[i].tag # hot[j].tag
=============================================================================
