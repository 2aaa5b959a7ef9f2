--------------------------- MODULE BoardsAndPages ---------------------------
(***************************************************************************)
(* Functions of the program that keep no state, compared with what they    *)
(* are for: the search for tiles that can be linked, and the pages of a    *)
(* list.  A state is an input of one of them; a step makes the next one.   *)
(* TagsCheck and FunctionsCheck go on with other functions.                *)
(***************************************************************************)
EXTENDS LinkupBoard, FiniteSetsExt

CONSTANTS MaxRows,      \* bound on the rows of a list
          PageSizes     \* how many rows the lists have on a page

ASSUME PagesAssumption == PageSizes \subseteq Nat \ {0}

P == INSTANCE Paging

VARIABLES function,     \* which function this is an input of
          input         \* the input

inputVars == <<function, input>>

PlainInit ==
    \/ function = "checkImg" /\ input = Cells
    \/ function = "doPage"   /\ input = 0

\* The tiles disappear in pairs, in whatever order; all of them are there at first.
RemoveTwo == \E a, b \in input : a # b /\ input' = input \ {a, b}

AddRow == input < MaxRows /\ input' = input + 1

PlainNext ==
    /\ \/ function = "checkImg" /\ RemoveTwo
       \/ function = "doPage"   /\ AddRow
    /\ UNCHANGED function

PlainSpec == PlainInit /\ [][PlainNext]_inputVars

-----------------------------------------------------------------------------
(* Properties. *)

\* The search of checkImg (linkup.js:368-381) finds the tiles that a line with at
\* most two turns links, and no others, from whichever of the two it starts.
SearchIsExact ==
    function = "checkImg" => \A a, b \in input : a # b => (checkImg(input, a, b) <=> Linked(input, a, b))

\* Wherever the tiles are, some two of them can be linked: resetImages
\* (linkup.js:290-310), which deals the pictures anew over the same cells, can
\* always come to a board with a solution.
SomePairLinked ==
    function = "checkImg" /\ input # {} => \E a, b \in input : a # b /\ checkImg(input, a, b)

\* Every page from the first to the last shows some rows, no row is on two, and together
\* they show all rows: the count of pages and the cut of one, which are in different
\* classes, agree (BaseAction.java:61-90, MottoAction.java:63-67 and 137-140,
\* QueryHelper.java:142-149, SearchfAction.java:57-64).
PagesReach ==
    function = "doPage" =>
        \A per \in PageSizes :
            LET pages    == P!PageCount(input, per)
                shown(p) == P!RowsOfPage(input, P!PageShown(p, pages), per)
            IN  /\ \A p \in 1 .. pages : shown(p) # {} /\ shown(p) \subseteq 1 .. input
                /\ \A p, q \in 1 .. pages : p # q => shown(p) \cap shown(q) = {}
                /\ UNION {shown(p) : p \in 1 .. pages} = 1 .. input
                /\ shown(-1) = shown(1) /\ shown(pages + 1) = shown(pages)
=============================================================================
