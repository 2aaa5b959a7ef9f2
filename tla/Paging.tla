------------------------------- MODULE Paging -------------------------------
(***************************************************************************)
(* Which rows a page of a list shows: the pages are counted by             *)
(* BaseAction.doPage, and the rows of one are cut out of the list by the   *)
(* action (SearchfAction.java:59-63) or the database                       *)
(* (QueryHelper.java:142-149).  This is what a request does that runs      *)
(* alone; how requests disturb each other is the subject of BlogList.      *)
(***************************************************************************)
EXTENDS Integers, FiniteSetsExt

\* Mutant: a page more than needed when the last one is full.
PageCountMore(size, _num_per_page) == size \div _num_per_page + 1

PageCount(size, _num_per_page) == (size + _num_per_page - 1) \div _num_per_page

\* The page shown in place of the one asked for.
PageShown(asked, total_page) ==
    LET page_NO == Max({asked, 1}) IN Min({page_NO, total_page})

\* The rows of a page, where rows are counted from 1.
RowsOfPage(size, page_NO, per) ==
    LET begin == Max({(page_NO - 1) * per, 0})
        end   == Min({page_NO * per, size})
    IN  begin + 1 .. end
=============================================================================
