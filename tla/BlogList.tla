------------------------------ MODULE BlogList ------------------------------
(***************************************************************************)
(* Requests for the list of blogs (action/BlogAction.java:55-66), each on  *)
(* a thread of its own: count the blogs, work out which page to show       *)
(* (action/BaseAction.java:61-90), fetch that page, fetch the tags.        *)
(*                                                                         *)
(* There is one BlogAction for all requests, and the page is kept in       *)
(* fields of it: requests that run at the same time overwrite them for     *)
(* each other.  A step here is one statement of the code, which reads and  *)
(* writes fields at once; requests mingle finer than that, but of pages    *)
(* the properties only say what a request may rely on as long as none that *)
(* runs beside it changes a field between its count and its use of it.     *)
(***************************************************************************)
EXTENDS DBManager

CONSTANTS PerPage,      \* Constants.NUM_PER_PAGE
          Counts,       \* how many blogs there may be
          Asked,        \* the numbers a request may have as parameter p
          NotANumber    \* a parameter p that is no number

ASSUME ListAssumption ==
    /\ PerPage \in Nat \ {0, 1} /\ Counts \subseteq Nat
    /\ Asked \subseteq Int /\ NotANumber \notin Int

VARIABLES total_page, page_NO, p_start, p_end,  \* the fields of BaseAction
          pc,           \* the next statement of each request
          want,         \* its parameter p, "1" if it has none
          counted,      \* what its stat returned
          sliced,       \* the page it asks query_slice for
          undisturbed   \* history: no other request has changed a field from its
                        \* count to its query_slice

fieldVars == <<total_page, page_NO, p_start, p_end>>
localVars == <<want, counted, sliced>>
vars      == <<poolVars, fieldVars, localVars, pc, undisturbed>>

\* The statements, in order; the names are those of the actions that carry them
\* out.
Statements == <<"StatConnect", "Stat", "ParsePage", "ClampLow", "ClampHigh",
                "PageStart", "PageEnd", "Attributes", "SliceArguments",
                "SliceConnect", "Slice", "TagsConnect", "Tags">>

TypeOK ==
    /\ PoolTypeOK
    /\ total_page \in Int /\ page_NO \in Int /\ p_start \in Int /\ p_end \in Int
    /\ pc \in [Thread -> {"none"} \cup {Statements[i] : i \in DOMAIN Statements}]
    /\ want \in [Thread -> Asked \cup {NotANumber}]
    /\ counted \in [Thread -> Counts \cup {-1}]
    /\ sliced \in [Thread -> Nat]
    /\ undisturbed \in [Thread -> BOOLEAN]

Init ==
    /\ PoolInit
    /\ total_page = 0 /\ page_NO = 0 /\ p_start = 0 /\ p_end = 0
    /\ pc = [t \in Thread |-> "none"]
    /\ want = [t \in Thread |-> NotANumber]
    /\ counted = [t \in Thread |-> -1]
    /\ sliced = [t \in Thread |-> 0]
    /\ undisturbed = [t \in Thread |-> TRUE]

-----------------------------------------------------------------------------
(* From one statement to the next. *)

At(t, statement) == pc[t] = statement

GoTo(t, statement) == pc' = [pc EXCEPT ![t] = statement]

\* Where a request relies on what the fields hold: until query_slice has its arguments.
Reading == {"ParsePage", "ClampLow", "ClampHigh", "PageStart", "PageEnd", "Attributes",
            "SliceArguments"}

\* What a step of t means for the others.
Watch(t) ==
    undisturbed' = [u \in Thread |->
        \/ pc[u] \in {"none", "StatConnect", "Stat"}
        \/ undisturbed[u] /\ (pc[u] \in Reading /\ u # t => fieldVars' = fieldVars)]

\* The request is over, with a page or with an exception that ActionServlet
\* catches; what it had is forgotten.
Finish(t) ==
    /\ GoTo(t, "none")
    /\ want' = [want EXCEPT ![t] = NotANumber]
    /\ counted' = [counted EXCEPT ![t] = -1]
    /\ sliced' = [sliced EXCEPT ![t] = 0]

Begin(t) ==
    /\ At(t, "none")
    /\ \E p \in Asked \cup {NotANumber} : want' = [want EXCEPT ![t] = p]
    /\ pc' = [pc EXCEPT ![t] = "StatConnect"]
    /\ UNCHANGED <<poolVars, fieldVars, counted, sliced>>
    /\ Watch(t)

\* A statement of QueryHelper takes a connection, and gives it back whether or
\* not the statement succeeded.
Connect(t, here, next) ==
    /\ At(t, here)
    /\ getConnection(t)
    /\ GoTo(t, next)
    /\ UNCHANGED <<fieldVars, localVars>>

StatConnect(t) == Connect(t, "StatConnect", "Stat")

SliceConnect(t) == Connect(t, "SliceConnect", "Slice")

TagsConnect(t) == Connect(t, "TagsConnect", "Tags")

-----------------------------------------------------------------------------
(* The statements. *)

Pages(n) == (n + PerPage - 1) \div PerPage

\* Mutant: a count that failed gives its connection back nowhere.
StatUnclosed(t) ==
    /\ At(t, "Stat")
    /\ \E n \in Counts \cup {-1} :
          /\ n # -1 => conns[t] # NoConn
          /\ IF n = -1 THEN conns' = [conns EXCEPT ![t] = NoConn] /\ UNCHANGED <<idle, lost>>
             ELSE closeConnection(t)
          /\ counted' = [counted EXCEPT ![t] = n]
          /\ total_page' = Pages(n)
    /\ GoTo(t, "ParsePage")
    /\ UNCHANGED <<page_NO, p_start, p_end, want, sliced>>

\* stat returns -1 when the statement fails, as it does without a connection.
Stat(t) ==
    /\ At(t, "Stat")
    /\ closeConnection(t)
    /\ \E n \in Counts \cup {-1} :
          /\ n # -1 => conns[t] # NoConn
          /\ counted' = [counted EXCEPT ![t] = n]
          /\ total_page' = Pages(n)
    /\ GoTo(t, "ParsePage")
    /\ UNCHANGED <<page_NO, p_start, p_end, want, sliced>>

ParsePage(t) ==
    /\ At(t, "ParsePage")
    /\ IF want[t] = NotANumber
       THEN Finish(t) /\ UNCHANGED page_NO
       ELSE page_NO' = want[t] /\ GoTo(t, "ClampLow") /\ UNCHANGED localVars
    /\ UNCHANGED <<poolVars, total_page, p_start, p_end>>

ClampLow(t) ==
    /\ At(t, "ClampLow")
    /\ page_NO' = IF page_NO < 1 THEN 1 ELSE page_NO
    /\ GoTo(t, "ClampHigh")
    /\ UNCHANGED <<poolVars, localVars, total_page, p_start, p_end>>

ClampHigh(t) ==
    /\ At(t, "ClampHigh")
    /\ page_NO' = IF page_NO > total_page THEN total_page ELSE page_NO
    /\ GoTo(t, "PageStart")
    /\ UNCHANGED <<poolVars, localVars, total_page, p_start, p_end>>

PageStart(t) ==
    /\ At(t, "PageStart")
    /\ p_start' = IF page_NO - 5 > 0 THEN page_NO - 5 ELSE 1
    /\ GoTo(t, "PageEnd")
    /\ UNCHANGED <<poolVars, localVars, total_page, page_NO, p_end>>

\* Mutant: the window is as wide before the page as behind it, and no wider.
PageEndShort(t) ==
    /\ At(t, "PageEnd")
    /\ p_end' = IF p_start + 4 > total_page THEN total_page ELSE p_start + 4
    /\ GoTo(t, "Attributes")
    /\ UNCHANGED <<poolVars, localVars, total_page, page_NO, p_start>>

PageEnd(t) ==
    /\ At(t, "PageEnd")
    /\ p_end' = IF p_start + 10 > total_page THEN total_page ELSE p_start + 10
    /\ GoTo(t, "Attributes")
    /\ UNCHANGED <<poolVars, localVars, total_page, page_NO, p_start>>

\* The page is handed the four fields as attributes.
Attributes(t) ==
    /\ At(t, "Attributes")
    /\ GoTo(t, "SliceArguments")
    /\ UNCHANGED <<poolVars, fieldVars, localVars>>

\* Mutant: query_slice takes every page.
SliceArgumentsUnchecked(t) ==
    /\ At(t, "SliceArguments")
    /\ sliced' = [sliced EXCEPT ![t] = page_NO]
    /\ GoTo(t, "SliceConnect")
    /\ UNCHANGED <<poolVars, fieldVars, want, counted>>

\* query_slice throws for a page below 0, before it takes a connection.
SliceArguments(t) ==
    /\ At(t, "SliceArguments")
    /\ IF page_NO < 0
       THEN Finish(t)
       ELSE /\ sliced' = [sliced EXCEPT ![t] = page_NO]
            /\ GoTo(t, "SliceConnect")
            /\ UNCHANGED <<want, counted>>
    /\ UNCHANGED <<poolVars, fieldVars>>

\* The rows of the page come, or null; the request goes on in either case.
Slice(t) ==
    /\ At(t, "Slice")
    /\ closeConnection(t)
    /\ GoTo(t, "TagsConnect")
    /\ UNCHANGED <<fieldVars, localVars>>

\* The page is shown, unless the tags did not come or are fewer than 15.
Tags(t) ==
    /\ At(t, "Tags")
    /\ closeConnection(t)
    /\ Finish(t)
    /\ UNCHANGED fieldVars

\* What a request does once it has begun; the steps that may have to wait for a
\* connection are apart.
Wait(t) == (StatConnect(t) \/ SliceConnect(t) \/ TagsConnect(t)) /\ Watch(t)

Go(t) ==
    /\ \/ Stat(t) \/ ParsePage(t) \/ ClampLow(t) \/ ClampHigh(t) \/ PageStart(t)
       \/ PageEnd(t) \/ Attributes(t) \/ SliceArguments(t) \/ Slice(t) \/ Tags(t)
    /\ Watch(t)

Next == \E t \in Thread : Begin(t) \/ Wait(t) \/ Go(t)

\* A thread runs on, and the pool serves those who wait in the order they came, so
\* that a thread for which there is a connection again and again gets one.
Fairness == \A t \in Thread : WF_vars(Go(t)) /\ SF_vars(Wait(t) /\ conns'[t] # NoConn)

Spec == Init /\ [][Next]_vars /\ Fairness

-----------------------------------------------------------------------------
(* Properties. *)

\* A thread has a connection while it runs a statement and at no other time
\* (QueryHelper.java:98-228), so it never waits for one while it holds another.
HeldForStatements ==
    \A t \in Thread : conns[t] # NoConn => pc[t] \in {"Stat", "Slice", "Tags"}

\* Connections get lost only where closing fails (DBManager.java:99-110).
NoneForgotten == ConnsAccounted /\ HeldForStatements

\* The last page is the one with the last of n blogs.
LastPage(n) == CHOOSE last \in 1 .. n : (last - 1) * PerPage < n /\ n <= last * PerPage

\* However requests overlap, one shows the page it was asked for, the first or the last if
\* that is out of range, unless another changes a field between its count and its
\* query_slice: what others did to the fields before its count does not matter, nor what
\* they do afterwards.  The page fetched is then the page shown, and the page numbers
\* offered are in range and hold the page shown.  All this while there are blogs
\* (BaseAction.java:61-90, BlogAction.java:58-61).
ShowsPageAsked ==
    \A t \in Thread :
        LET last == LastPage(counted[t])
            page == IF want[t] < 1 THEN 1 ELSE IF want[t] > last THEN last ELSE want[t]
        IN  undisturbed[t] /\ counted[t] > 0 =>
              /\ At(t, "Attributes") =>
                    /\ total_page = last
                    /\ page_NO = page
                    /\ 1 <= p_start /\ p_start <= page_NO /\ page_NO <= p_end /\ p_end <= total_page
              /\ pc[t] \in {"SliceConnect", "Slice"} => sliced[t] = page

\* As long as not all connections of the pool are lost, every request comes to an
\* end, however many others there are (DBManager.java:83-110).
RequestsEnd == \A t \in Thread : ~ At(t, "none") ~> At(t, "none")
=============================================================================
