---------------------------- MODULE MottoCache ----------------------------
(***************************************************************************)
(* The mottos at the head of the pages (action/MottoAction.java).  A list  *)
(* of some mottos is kept for a minute; every page takes one of it at      *)
(* random.  A page that finds the list too old, or missing, fetches a new  *)
(* one, while other pages go on with what is there: nothing is locked.     *)
(* A list is fetched without an order, so that of it only the set of its   *)
(* mottos is known.                                                        *)
(***************************************************************************)
EXTENDS Articles, FiniteSetsExt

CONSTANTS Mottos,           \* the table of the mottos
          NumRandomMotto,   \* NUM_RANDOM_MOTTO
          Initially,        \* how many there are when the program starts
          NoList            \* null

ASSUME MottoAssumption ==
    /\ Mottos \in Table /\ NumRandomMotto \in Nat \ {0}
    /\ \A list \in SUBSET Id : NoList # list
    /\ Initially \in NumRandomMotto .. MaxId[Mottos]

VARIABLES randomMotto,  \* the list of mottos, or NoList
          due,          \* whether a minute has passed since updateTime
          at,           \* the next step of each thread within getRandomMotto
          begin,        \* where the list it fetches begins
          fetched,      \* the list it fetches
          index,        \* which motto of the list it takes
          broken,       \* whether a statement of getRandomMotto has failed
          swapped       \* whether the list was replaced since the thread asked for its size

mottoVars == <<randomMotto, due, at, begin, fetched, index, broken, swapped>>
mottoSiteVars == <<articleVars, mottoVars>>

Steps == {"idle", "missing", "age", "count", "query", "assign", "size", "get",
          "shown", "none", "exception"}

Lists == {list \in SUBSET Id : Cardinality(list) <= NumRandomMotto}

MottoTypeOK ==
    /\ ArticlesTypeOK
    /\ randomMotto \in Lists \cup {NoList}
    /\ due \in BOOLEAN /\ broken \in BOOLEAN
    /\ at \in [Request -> Steps]
    /\ begin \in [Request -> 0 .. MaxId[Mottos] + NumRandomMotto + 1]
    /\ fetched \in [Request -> Lists \cup {NoList}]
    /\ index \in [Request -> 0 .. NumRandomMotto - 1]
    /\ swapped \in [Request -> BOOLEAN]

Distance(m, n) == IF m < n THEN n - m ELSE m - n

\* Mutant: one more than can be left in front of a full list.
StartsOneMore(count) ==
    {Distance(0, n) : n \in Min({0, count - NumRandomMotto}) .. Max({0, count - NumRandomMotto + 1})}

\* A random number between 0 and the number of mottos less a full list, whichever is
\* smaller, without its sign.
Starts(count) ==
    {Distance(0, n) : n \in Min({0, count - NumRandomMotto}) .. Max({0, count - NumRandomMotto})}

\* LIMIT start, NUM_RANDOM_MOTTO, of mottos in any order.
Limited(start) ==
    LET left == Cardinality(Ids(rows[Mottos])) - start
    IN  {list \in SUBSET Ids(rows[Mottos]) : Cardinality(list) = Max({0, Min({NumRandomMotto, left})})}

\* The first list is fetched when the class is loaded, before there are requests.
MottoInit ==
    /\ ArticlesInit(Initially)
    /\ broken \in BOOLEAN
    /\ randomMotto \in IF broken THEN {NoList}
                       ELSE UNION {Limited(start) : start \in Starts(Cardinality(rows[Mottos]))}
    /\ due = FALSE
    /\ at = [th \in Request |-> "idle"]
    /\ begin = [th \in Request |-> 0] /\ index = [th \in Request |-> 0]
    /\ fetched = [th \in Request |-> {}]
    /\ swapped = [th \in Request |-> FALSE]

Then(th, next) == at' = [at EXCEPT ![th] = next]

MinutePasses ==
    /\ ~ due /\ due' = TRUE
    /\ UNCHANGED <<randomMotto, at, begin, fetched, index, broken, swapped>>

getRandomMotto(th) ==
    /\ at[th] = "idle"
    /\ Then(th, "missing")
    /\ UNCHANGED <<randomMotto, due, begin, fetched, index, broken, swapped>>

TestMissing(th) ==
    /\ at[th] = "missing"
    /\ IF randomMotto = NoList
       THEN due' = FALSE /\ Then(th, "count")
       ELSE UNCHANGED due /\ Then(th, "age")
    /\ UNCHANGED <<randomMotto, begin, fetched, index, broken, swapped>>

\* updateTime is set here, before there is a new list.
TestAge(th) ==
    /\ at[th] = "age"
    /\ due' = FALSE
    /\ Then(th, IF due THEN "count" ELSE "size")
    /\ UNCHANGED <<randomMotto, begin, fetched, index, broken, swapped>>

\* The statement that counts; -1 if it fails.
CountMottos(th) ==
    /\ at[th] = "count"
    /\ \E ok \in BOOLEAN :
          /\ \E start \in Starts(IF ok THEN Cardinality(rows[Mottos]) ELSE -1) :
                begin' = [begin EXCEPT ![th] = start]
          /\ broken' = (broken \/ ~ ok)
    /\ Then(th, "query")
    /\ UNCHANGED <<randomMotto, due, fetched, index, swapped>>

\* The statement that fetches; null if it fails.
QueryMottos(th) ==
    /\ at[th] = "query"
    /\ \E ok \in BOOLEAN :
          /\ \E list \in IF ok THEN Limited(begin[th]) ELSE {NoList} :
                fetched' = [fetched EXCEPT ![th] = list]
          /\ broken' = (broken \/ ~ ok)
    /\ begin' = [begin EXCEPT ![th] = 0]
    /\ Then(th, "assign")
    /\ UNCHANGED <<randomMotto, due, index, swapped>>

AssignList(th) ==
    /\ at[th] = "assign"
    /\ randomMotto' = fetched[th]
    /\ fetched' = [fetched EXCEPT ![th] = {}]
    /\ swapped' = [other \in Request |-> swapped[other] \/ at[other] = "get"]
    /\ Then(th, "size")
    /\ UNCHANGED <<due, begin, index, broken>>

Leaves(th, result) ==
    /\ index' = [index EXCEPT ![th] = 0]
    /\ swapped' = [swapped EXCEPT ![th] = FALSE]
    /\ Then(th, result)

\* A random number, and whether the list has so many mottos.
AskSize(th) ==
    /\ at[th] = "size"
    /\ IF randomMotto = NoList THEN Leaves(th, "exception")
       ELSE \E n \in 0 .. NumRandomMotto - 1 :
               IF Cardinality(randomMotto) <= n THEN Leaves(th, "none")
               ELSE index' = [index EXCEPT ![th] = n] /\ Then(th, "get") /\ UNCHANGED swapped
    /\ UNCHANGED <<randomMotto, due, begin, fetched, broken>>

\* The list is looked at once more, and may be another.
GetMotto(th) ==
    /\ at[th] = "get"
    /\ Leaves(th, IF randomMotto = NoList \/ Cardinality(randomMotto) <= index[th]
                  THEN "exception" ELSE "shown")
    /\ UNCHANGED <<randomMotto, due, begin, fetched, broken>>

\* The page is sent, with a motto, without one, or as a page of errors.
PageEnds(th) ==
    /\ at[th] \in {"shown", "none", "exception"}
    /\ Then(th, "idle")
    /\ UNCHANGED <<randomMotto, due, begin, fetched, index, broken, swapped>>

ShowingMotto(th) ==
    /\ \/ TestMissing(th) \/ TestAge(th) \/ CountMottos(th) \/ QueryMottos(th) \/ AssignList(th)
       \/ AskSize(th) \/ GetMotto(th) \/ PageEnds(th)
    /\ UNCHANGED articleVars

MottoNext ==
    \/ MinutePasses /\ UNCHANGED articleVars
    \/ Change(Mottos) /\ UNCHANGED mottoVars
    \/ \E th \in Request : (getRandomMotto(th) /\ UNCHANGED articleVars) \/ ShowingMotto(th)

MottoSpec == MottoInit /\ [][MottoNext]_mottoSiteVars

-----------------------------------------------------------------------------
(* Properties. *)

\* A page fails on the mottos only after one of their statements has failed, or if
\* another page replaced the list between the two looks at it (MottoAction.java:111-113).
FailsForAReason ==
    [][\A th \in Request : at[th] # "exception" /\ at'[th] = "exception" => broken \/ swapped[th]]_mottoSiteVars

\* Of a site that has enough mottos from the start and deletes none, every page shows one,
\* however the list is replaced and however many are added, unless a statement fails
\* (MottoAction.java:100-128).
EveryPageShowsOne ==
    ~ broken /\ Cardinality(rows[Mottos]) = lastId[Mottos] =>
        \A th \in Request : at[th] \notin {"none", "exception"}
=============================================================================
