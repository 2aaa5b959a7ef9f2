------------------------------ MODULE MCLists ------------------------------
(***************************************************************************)
(* The lists that pages show, each for itself: the list of blogs, fetched  *)
(* anew for each request, and the cached list of mottos.                   *)
(*                                                                         *)
(* Blogs: pages asked for before the first and after the last of the 13    *)
(* pages that 553 blogs need, 46 to a page.  Mottos: one table, and lists  *)
(* of two mottos, so that there are shorter ones that are not empty.       *)
(***************************************************************************)
EXTENDS BlogList, MottoCache

CONSTANT motto

AskedPages == {-1, 14}

MCTable == {motto}
MCMaxId == [t \in MCTable |-> 3]

VARIABLE shown          \* which of the two

ListsInit ==
    /\ shown \in {"blogs", "mottos"} /\ Init /\ MottoInit
    /\ shown = "blogs" => broken

ListsNext ==
    /\ \/ shown = "blogs"  /\ Next /\ UNCHANGED mottoSiteVars
       \/ shown = "mottos" /\ MottoNext /\ UNCHANGED vars
    /\ UNCHANGED shown

ListsSpec == ListsInit /\ [][ListsNext]_<<shown, vars, mottoSiteVars>> /\ Fairness
=============================================================================
