----------------------------- MODULE Articles -----------------------------
(***************************************************************************)
(* The tables of articles (blogs, code snippets and mottos) and the        *)
(* requests that change them (action/BlogAction.java, CodeAction.java,     *)
(* MottoAction.java, BaseAction.java).  Each of these requests sends one   *)
(* statement to the database, and the database has the effect at once or,  *)
(* if the statement fails, not at all; the request does not notice.  A     *)
(* failed statement and one that finds no row leave all as it is, so that  *)
(* neither needs an action.                                                *)
(*                                                                         *)
(* Of an article only its number and its revision matter.                  *)
(***************************************************************************)
EXTENDS Integers, Sequences, FiniteSets

CONSTANTS Request,      \* the threads that serve requests
          Table,        \* the tables
          MaxId,        \* bound: how many articles each table ever has
          MaxRev        \* bound: the revisions of an article

ASSUME ArticlesAssumption == MaxId \in [Table -> Nat] /\ MaxRev \in Nat \ {0}

Id == UNION {1 .. MaxId[t] : t \in Table}
Rev == 1 .. MaxRev

VARIABLES rows,         \* for each table its articles, as pairs of number and revision
          lastId        \* for each table the number that was given out last

articleVars == <<rows, lastId>>

Article == [id : Id, rev : Rev]

ArticlesTypeOK ==
    /\ rows \in [Table -> SUBSET Article]
    /\ lastId \in [Table -> Id \cup {0}]

Ids(articles) == {a.id : a \in articles}

\* Each table starts with n articles.
ArticlesInit(n) ==
    /\ rows = [t \in Table |-> {[id |-> i, rev |-> 1] : i \in 1 .. n}]
    /\ lastId = [t \in Table |-> n]

\* save without a number: the database gives the article the next one.
Add(t) ==
    /\ lastId[t] < MaxId[t]
    /\ rows' = [rows EXCEPT ![t] = @ \cup {[id |-> lastId[t] + 1, rev |-> 1]}]
    /\ lastId' = [lastId EXCEPT ![t] = @ + 1]

\* save with a number.
Save(t) ==
    \E a \in rows[t] :
        /\ a.rev < MaxRev
        /\ rows' = [rows EXCEPT ![t] = (@ \ {a}) \cup {[a EXCEPT !.rev = @ + 1]}]
        /\ UNCHANGED lastId

Del(t) ==
    \E a \in rows[t] :
        /\ rows' = [rows EXCEPT ![t] = @ \ {a}]
        /\ UNCHANGED lastId

Change(t) == Add(t) \/ Save(t) \/ Del(t)
=============================================================================
