---------------------------- MODULE Lists_proof ----------------------------
(***************************************************************************)
(* What is proved of the lists that pages show: of BlogList, for every     *)
(* number of threads, connections and blogs and every size of a page; of   *)
(* MottoCache, for every number of threads and mottos and every length of  *)
(* the cached list; of how pages are counted and cut, for any rows; and of *)
(* how the tags of articles are cleaned and ranked, for any texts.         *)
(***************************************************************************)
EXTENDS BlogList, MottoCache, TagsCheck, FiniteSetTheorems, SequenceTheorems, WellFoundedInduction, TLAPS

-----------------------------------------------------------------------------
(* The list of blogs. *)

\* What an integer division is, for a divisor that is positive.
LEMMA Division ==
    ASSUME NEW a \in Int, NEW b \in Nat \ {0}
    PROVE  /\ a \div b \in Int
           /\ b * (a \div b) <= a
           /\ a < b * (a \div b) + b
  BY Z3

\* The pages of doPage are as many as n rows need (BaseAction.java:62).
LEMMA PagesFit ==
    ASSUME NEW n \in Nat \ {0}
    PROVE  /\ Pages(n) \in Nat \ {0}
           /\ (Pages(n) - 1) * PerPage < n
           /\ n <= Pages(n) * PerPage
  <1> DEFINE q == Pages(n)
  <1>1. PerPage \in Nat \ {0} /\ n + PerPage - 1 \in Int
    BY ListAssumption
  <1>2. q \in Int /\ PerPage * q <= n + PerPage - 1 /\ n + PerPage - 1 < PerPage * q + PerPage
    BY <1>1, Division DEF Pages
  <1>3. PerPage * q = q * PerPage /\ (q - 1) * PerPage = PerPage * q - PerPage
    BY <1>1, <1>2, Z3
  <1>4. q >= 1
    <2>1. SUFFICES ASSUME q <= 0 PROVE FALSE
      BY <1>2
    <2>2. PerPage * q <= 0
      BY <1>1, <1>2, <2>1, Z3
    <2> QED BY <1>1, <1>2, <2>2
  <1> HIDE DEF q
  <1>5. PerPage * q \in Int
    BY <1>1, <1>2
  <1>6. q \in Nat \ {0} /\ (q - 1) * PerPage < n /\ n <= q * PerPage
    BY <1>1, <1>2, <1>3, <1>4, <1>5
  <1> QED BY <1>6 DEF q

LEMMA Multiples ==
    ASSUME NEW m \in Nat, NEW n \in Nat, NEW t \in Nat, m <= n
    PROVE  m * t \in Nat /\ n * t \in Nat /\ m * t <= n * t
<1>1. PICK k \in Nat : n = m + k
  <2>1. n - m \in Nat /\ n = m + (n - m)
    OBVIOUS
  <2> QED
    BY <2>1
<1>2. n * t = m * t + k * t /\ k * t >= 0 /\ m * t >= 0 /\ k * t \in Int /\ m * t \in Int
  BY <1>1, Z3
<1> QED
  BY <1>2

LEMMA PagesInt ==
    ASSUME NEW n \in Nat \cup {-1}
    PROVE  Pages(n) \in Int
  BY ListAssumption, Division DEF Pages

-----------------------------------------------------------------------------
(* The types, and where the connections are. *)

\* Every request's step is one of these.
Step(t) == Begin(t) \/ Wait(t) \/ Go(t)

\* The values of all variables stay in their types.
LEMMA Typing == Spec => []TypeOK
  <1>1. Init => TypeOK
    BY ListAssumption DEF Init, TypeOK, PoolInit, PoolTypeOK, Statements
  <1>2. ASSUME TypeOK, [Next]_vars PROVE TypeOK'
    <2>1. CASE UNCHANGED vars
      BY <1>2, <2>1 DEF TypeOK, PoolTypeOK, vars, poolVars, fieldVars, localVars
    <2>2. ASSUME NEW t \in Thread, Step(t) PROVE TypeOK'
      <3>0. undisturbed' \in [Thread -> BOOLEAN]
        <4>1. Watch(t)
          BY <2>2 DEF Step, Begin, Wait, Go
        <4>2. \A u \in Thread :
                 (\/ pc[u] \in {"none", "StatConnect", "Stat"}
                  \/ undisturbed[u] /\ (pc[u] \in Reading /\ u # t => fieldVars' = fieldVars)) \in BOOLEAN
          OBVIOUS
        <4> QED
          BY <4>1, <4>2 DEF Watch
      <3> USE <1>2, <3>0, ListAssumption DEF TypeOK, PoolTypeOK, At, GoTo, Statements,
                                             poolVars, fieldVars, localVars
      <3>1. CASE Begin(t)
        BY <3>1 DEF Begin
      <3>2. CASE Wait(t)
        <4>1. PoolTypeOK'
          BY <3>2 DEF Wait, StatConnect, SliceConnect, TagsConnect, Connect, getConnection
        <4>2. ASSUME NEW here, NEW next \in {"Stat", "Slice", "Tags"}, Connect(t, here, next)
              PROVE  TypeOK'
          BY <4>1, <4>2 DEF Connect
        <4> QED
          BY <3>2, <4>2 DEF Wait, StatConnect, SliceConnect, TagsConnect
      <3>3. ASSUME closeConnection(t) PROVE PoolTypeOK'
        BY <3>3 DEF closeConnection
      <3>4. CASE Stat(t)
        BY <3>3, <3>4, PagesInt DEF Stat
      <3>5. CASE ParsePage(t)
        <4>1. CASE want[t] = NotANumber
          BY <3>5, <4>1 DEF ParsePage, Finish
        <4>2. CASE want[t] # NotANumber
          <5>1. want[t] \in Int
            BY <4>2
          <5> QED BY <3>5, <4>2, <5>1 DEF ParsePage
        <4> QED BY <4>1, <4>2
      <3>6. CASE ClampLow(t) \/ ClampHigh(t)
        BY <3>6 DEF ClampLow, ClampHigh
      <3>7. CASE PageStart(t) \/ PageEnd(t) \/ Attributes(t)
        BY <3>7 DEF PageStart, PageEnd, Attributes
      <3>8. CASE SliceArguments(t)
        BY <3>8 DEF SliceArguments, Finish
      <3>9. CASE Slice(t) \/ Tags(t)
        BY <3>3, <3>9 DEF Slice, Tags, Finish
      <3> QED
        BY <2>2, <3>1, <3>2, <3>4, <3>5, <3>6, <3>7, <3>8, <3>9 DEF Step, Go
    <2> QED
      BY <1>2, <2>1, <2>2 DEF Next, Step
  <1> QED
    BY <1>1, <1>2, PTL DEF Spec

\* No connection is ever in two hands or in none, and no thread has one but for
\* its statement (DBManager.java:83-110).
THEOREM ConnectionsAccounted == Spec => []NoneForgotten
  <1> USE PoolAssumption
  <1>1. Init => NoneForgotten
    BY DEF Init, PoolInit, NoneForgotten, ConnsAccounted, HeldForStatements
  <1>2. ASSUME TypeOK, NoneForgotten, [Next]_vars PROVE NoneForgotten'
    <2> USE <1>2 DEF TypeOK, PoolTypeOK, NoneForgotten, ConnsAccounted, HeldForStatements
    <2>1. CASE UNCHANGED vars
      BY <2>1 DEF vars, poolVars
    <2>2. ASSUME NEW t \in Thread, Step(t) PROVE NoneForgotten'
      <3> USE DEF At, GoTo
      <3>1. ASSUME NEW here, NEW next \in {"Stat", "Slice", "Tags"}, Connect(t, here, next),
                   here \notin {"Stat", "Slice", "Tags"}
            PROVE  NoneForgotten'
        BY <3>1 DEF Connect, getConnection, poolVars
      <3>2. ASSUME closeConnection(t) PROVE ConnsAccounted' /\ conns' = [conns EXCEPT ![t] = NoConn]
        BY <3>2 DEF closeConnection
      <3>3. CASE Wait(t)
        BY <3>1, <3>3 DEF Wait, StatConnect, SliceConnect, TagsConnect
      <3>4. CASE Stat(t) \/ Slice(t) \/ Tags(t)
        BY <3>2, <3>4 DEF Stat, Slice, Tags, Finish
      <3>5. CASE Begin(t) \/ ParsePage(t) \/ SliceArguments(t)
        BY <3>5 DEF Begin, ParsePage, SliceArguments, Finish, poolVars
      <3>6. CASE ClampLow(t) \/ ClampHigh(t) \/ PageStart(t) \/ PageEnd(t) \/ Attributes(t)
        BY <3>6 DEF ClampLow, ClampHigh, PageStart, PageEnd, Attributes, poolVars
      <3> QED
        BY <2>2, <3>3, <3>4, <3>5, <3>6 DEF Step, Go
    <2> QED
      BY <2>1, <2>2 DEF Next, Step
  <1> QED
    BY <1>1, <1>2, Typing, PTL DEF Spec

-----------------------------------------------------------------------------
(* The page shown. *)

\* The last page is as many as the pages that doPage counts.
LEMMA LastIsCounted ==
    ASSUME NEW n \in Nat \ {0}
    PROVE  LastPage(n) = Pages(n) /\ LastPage(n) \in Nat \ {0}
  <1> DEFINE Holds(last) == (last - 1) * PerPage < n /\ n <= last * PerPage
  <1>1. PerPage \in Nat \ {0}
    BY ListAssumption
  <1>2. Pages(n) \in Nat \ {0} /\ Holds(Pages(n))
    BY PagesFit
  <1>3. Pages(n) <= n
    <2>1. SUFFICES ASSUME n <= Pages(n) - 1 PROVE FALSE
      BY <1>2
    <2>2. Pages(n) - 1 \in Nat
      BY <1>2
    <2> DEFINE q == Pages(n) - 1
    <2>3. n * PerPage <= q * PerPage /\ n * PerPage \in Nat /\ q * PerPage \in Nat
      BY <1>1, <2>1, <2>2, Multiples
    <2>4. n <= n * PerPage
      BY <1>1, Z3
    <2> QED
      BY <1>2, <2>3, <2>4
  <1>4. ASSUME NEW a \in 1 .. n, NEW b \in 1 .. n, Holds(a), Holds(b) PROVE ~ a < b
    <2>1. SUFFICES ASSUME a <= b - 1 PROVE FALSE
      OBVIOUS
    <2>2. b - 1 \in Nat /\ a \in Nat
      OBVIOUS
    <2> DEFINE c == b - 1
    <2>3. a * PerPage <= c * PerPage /\ a * PerPage \in Nat /\ c * PerPage \in Nat
      BY <1>1, <2>1, <2>2, Multiples
    <2> QED
      BY <1>4, <2>3
  <1>5. Pages(n) \in 1 .. n /\ Holds(Pages(n))
    BY <1>2, <1>3
  <1>6. LastPage(n) = CHOOSE last \in 1 .. n : Holds(last)
    BY DEF LastPage
  <1> HIDE DEF Holds
  <1>7. LastPage(n) \in 1 .. n /\ Holds(LastPage(n))
    BY <1>5, <1>6
  <1>8. LastPage(n) = Pages(n)
    <2>1. ~ LastPage(n) < Pages(n) /\ ~ Pages(n) < LastPage(n)
      BY <1>4, <1>5, <1>7
    <2> QED
      BY <1>5, <1>7, <2>1
  <1> QED
    BY <1>2, <1>8

Low(t) == IF want[t] < 1 THEN 1 ELSE want[t]

Target(t) == IF Low(t) > Pages(counted[t]) THEN Pages(counted[t]) ELSE Low(t)

\* What the fields hold at each statement of a request that reads them and that no other
\* disturbs, and what it has asked for when it no longer does.
Staged(t) ==
    /\ pc[t] \in Reading => total_page = Pages(counted[t])
    /\ pc[t] \notin {"none", "StatConnect", "Stat", "ParsePage"} => want[t] # NotANumber
    /\ pc[t] = "ClampLow" => page_NO = want[t]
    /\ pc[t] = "ClampHigh" => page_NO = Low(t)
    /\ pc[t] \in {"PageStart", "PageEnd", "Attributes", "SliceArguments"} => page_NO = Target(t)
    /\ pc[t] \in {"PageEnd", "Attributes"} =>
          p_start = IF page_NO - 5 > 0 THEN page_NO - 5 ELSE 1
    /\ pc[t] = "Attributes" =>
          p_end = IF p_start + 10 > total_page THEN total_page ELSE p_start + 10
    /\ pc[t] \in {"SliceConnect", "Slice"} => sliced[t] = Target(t)

PageInv == \A t \in Thread : undisturbed[t] => Staged(t)

\* The invariant says enough about the page.
LEMMA PageInvShows ==
    ASSUME TypeOK, PageInv
    PROVE  ShowsPageAsked
  <1> SUFFICES ASSUME NEW t \in Thread, undisturbed[t], counted[t] > 0,
                      pc[t] \in {"Attributes", "SliceConnect", "Slice"}
               PROVE  LET last == LastPage(counted[t])
                          page == IF want[t] < 1 THEN 1 ELSE IF want[t] > last THEN last ELSE want[t]
                      IN  /\ At(t, "Attributes") =>
                               /\ total_page = last
                               /\ page_NO = page
                               /\ 1 <= p_start /\ p_start <= page_NO /\ page_NO <= p_end /\ p_end <= total_page
                          /\ pc[t] \in {"SliceConnect", "Slice"} => sliced[t] = page
    BY DEF ShowsPageAsked, At
  <1>1. counted[t] \in Nat \ {0} /\ want[t] \in Int
    <2>1. want[t] # NotANumber
      BY DEF PageInv, Staged
    <2>2. counted[t] \in Counts \cup {-1} /\ want[t] \in Asked
      BY <2>1 DEF TypeOK
    <2>3. counted[t] # -1 /\ Counts \subseteq Nat
      BY <2>2, ListAssumption
    <2>4. counted[t] \in Nat
      BY <2>2, <2>3
    <2>5. want[t] \in Int
      <3>1. Asked \subseteq Int
        BY ListAssumption
      <3> QED BY <2>2, <3>1
    <2>6. counted[t] \in Nat \ {0}
      BY <2>4
    <2> QED BY <2>5, <2>6
  <1> DEFINE last == LastPage(counted[t])
  <1>2. last = Pages(counted[t]) /\ last \in Nat \ {0}
    BY <1>1, LastIsCounted
  <1> HIDE DEF last
  <1>3. Target(t) = IF want[t] < 1 THEN 1 ELSE IF want[t] > last THEN last ELSE want[t]
    BY <1>1, <1>2 DEF Target, Low
  <1>4. Target(t) \in Int /\ 1 <= Target(t) /\ Target(t) <= last
    BY <1>1, <1>2 DEF Target, Low
  <1>5. At(t, "Attributes") =>
            /\ total_page = last /\ page_NO = Target(t)
            /\ 1 <= p_start /\ p_start <= page_NO /\ page_NO <= p_end /\ p_end <= total_page
    <2>1. SUFFICES ASSUME pc[t] = "Attributes"
                   PROVE  /\ total_page = last /\ page_NO = Target(t)
                          /\ 1 <= p_start /\ p_start <= page_NO /\ page_NO <= p_end /\ p_end <= total_page
      BY DEF At
    <2>2. /\ total_page = last
          /\ page_NO = Target(t)
          /\ p_start = IF page_NO - 5 > 0 THEN page_NO - 5 ELSE 1
          /\ p_end = IF p_start + 10 > total_page THEN total_page ELSE p_start + 10
      BY <1>2, <2>1 DEF PageInv, Staged, Reading
    <2> QED
      BY <1>2, <1>4, <2>2
  <1>6. pc[t] \in {"SliceConnect", "Slice"} => sliced[t] = Target(t)
    BY DEF PageInv, Staged
  <1> QED
    BY <1>3, <1>5, <1>6 DEF last

\* However many blogs there are and however many go on a page, and however requests
\* overlap, one whose fields no other changes from its count to its query_slice shows the
\* page it was asked for (BaseAction.java:61-90).
THEOREM PageIsShown == Spec => []ShowsPageAsked
  <1>1. Init => PageInv
    BY DEF Init, PageInv, Staged, Reading
  <1>2. ASSUME TypeOK, PageInv, [Next]_vars PROVE PageInv'
    <2>1. CASE UNCHANGED vars
      BY <1>2, <2>1 DEF PageInv, Staged, Low, Target, vars, fieldVars, localVars
    <2>2. ASSUME NEW t \in Thread, Step(t) PROVE PageInv'
      <3>1. Watch(t)
        BY <2>2 DEF Step, Begin, Wait, Go
      <3>2. ASSUME NEW u \in Thread \ {t}, undisturbed'[u] PROVE Staged(u)'
        <4>1. pc'[u] = pc[u] /\ want'[u] = want[u] /\ counted'[u] = counted[u] /\ sliced'[u] = sliced[u]
          <5> USE <1>2, <3>2 DEF TypeOK, GoTo, localVars
          <5>1. CASE Begin(t)
            BY <5>1 DEF Begin
          <5>2. CASE Wait(t)
            BY <5>2 DEF Wait, StatConnect, SliceConnect, TagsConnect, Connect
          <5>3. CASE Stat(t) \/ ParsePage(t) \/ SliceArguments(t) \/ Slice(t) \/ Tags(t)
            BY <5>3 DEF Stat, ParsePage, SliceArguments, Slice, Tags, Finish
          <5>4. CASE ClampLow(t) \/ ClampHigh(t) \/ PageStart(t) \/ PageEnd(t) \/ Attributes(t)
            BY <5>4 DEF ClampLow, ClampHigh, PageStart, PageEnd, Attributes
          <5> QED
            BY <2>2, <5>1, <5>2, <5>3, <5>4 DEF Step, Go
        <4>2. CASE pc[u] \in {"none", "StatConnect", "Stat"}
          BY <4>1, <4>2 DEF Staged, Reading
        <4>3. CASE pc[u] \notin {"none", "StatConnect", "Stat"}
          <5>1. undisturbed[u] /\ (pc[u] \in Reading => fieldVars' = fieldVars)
            BY <3>1, <3>2, <4>3 DEF Watch
          <5>2. Staged(u)
            BY <1>2, <5>1 DEF PageInv
          <5>3. CASE pc[u] \in Reading
            BY <4>1, <5>1, <5>2, <5>3 DEF Staged, Low, Target, fieldVars, Pages
          <5>4. CASE pc[u] \notin Reading
            BY <4>1, <5>2, <5>4 DEF Staged, Low, Target, Reading, Pages
          <5> QED
            BY <5>3, <5>4
        <4> QED
          BY <4>2, <4>3
      <3>3. ASSUME undisturbed'[t] PROVE Staged(t)'
        <4>1. pc[t] \notin {"none", "StatConnect", "Stat"} => Staged(t)
          BY <1>2, <3>1, <3>3 DEF Watch, PageInv
        <4> USE <1>2 DEF TypeOK, At, GoTo, localVars, fieldVars, Reading
        <4>2. CASE Begin(t) \/ StatConnect(t)
          BY <4>2 DEF Begin, StatConnect, Connect, Staged
        <4>3. CASE Stat(t)
          BY <4>3 DEF Stat, Staged, Pages
        <4> USE <4>1 DEF Staged, Low, Target, Pages
        <4>4. CASE SliceConnect(t) \/ TagsConnect(t)
          BY <4>4 DEF SliceConnect, TagsConnect, Connect
        <4>5. CASE ParsePage(t)
          BY <4>5 DEF ParsePage, Finish
        <4>6. CASE ClampLow(t)
          BY <4>6 DEF ClampLow
        <4>7. CASE ClampHigh(t)
          BY <4>7 DEF ClampHigh
        <4>8. CASE PageStart(t) \/ Attributes(t)
          BY <4>8 DEF PageStart, Attributes
        <4>9. CASE PageEnd(t)
          BY <4>9 DEF PageEnd
        <4>10. CASE SliceArguments(t)
          BY <4>10 DEF SliceArguments, Finish
        <4>11. CASE Slice(t) \/ Tags(t)
          BY <4>11 DEF Slice, Tags, Finish
        <4> QED
          BY <2>2, <4>2, <4>3, <4>4, <4>5, <4>6, <4>7, <4>8, <4>9, <4>10, <4>11 DEF Step, Wait, Go
      <3> QED
        BY <3>2, <3>3 DEF PageInv
    <2> QED
      BY <1>2, <2>1, <2>2 DEF Next, Step
  <1> QED
    BY <1>1, <1>2, Typing, PageInvShows, PTL DEF Spec

-----------------------------------------------------------------------------
(* The cached list of mottos. *)

\* All mottos that were ever added are there, and no statement has failed.
AllThere == ~ broken /\ Ids(rows[Mottos]) = 1 .. lastId[Mottos]

\* The mottos have numbers of their own, which the table gave out.
Numbered ==
    /\ lastId[Mottos] \in NumRandomMotto .. MaxId[Mottos]
    /\ rows[Mottos] \subseteq Article
    /\ Ids(rows[Mottos]) \subseteq 1 .. lastId[Mottos]
    /\ \A a \in rows[Mottos], b \in rows[Mottos] : a.id = b.id => a = b

\* Every list that is kept or fetched is then as long as it can be, and no thread is
\* about to fetch a shorter one.
ListsFull ==
    /\ Cardinality(randomMotto) = NumRandomMotto
    /\ \A th \in Request :
          /\ at[th] = "query" => begin[th] + NumRandomMotto <= lastId[Mottos]
          /\ at[th] = "assign" => Cardinality(fetched[th]) = NumRandomMotto
          /\ at[th] \notin {"none", "exception"}

\* A list is missing only after a failure, and the motto that a thread is about to
\* take is in the list unless that was replaced.
Reasons ==
    /\ randomMotto = NoList => broken
    /\ \A th \in Request :
          /\ fetched[th] = NoList => broken
          /\ at[th] = "get" /\ ~ swapped[th] =>
                randomMotto # NoList /\ ~ Cardinality(randomMotto) <= index[th]

MottoInv == MottoTypeOK /\ Numbered /\ (AllThere => ListsFull) /\ Reasons

LEMMA SmallerOf ==
    ASSUME NEW a \in Int, NEW b \in Int
    PROVE  Min({a, b}) = IF a <= b THEN a ELSE b
<1>1. PICK low \in {a, b} : \A y \in {a, b} : low =< y
  OBVIOUS
<1>2. \A x \in {a, b} : (\A y \in {a, b} : x =< y) => x = IF a <= b THEN a ELSE b
  OBVIOUS
<1> QED
  BY <1>1, <1>2, Zenon DEF Min

LEMMA LargerOf ==
    ASSUME NEW a \in Int, NEW b \in Int
    PROVE  Max({a, b}) = IF a <= b THEN b ELSE a
<1>1. PICK high \in {a, b} : \A y \in {a, b} : high >= y
  OBVIOUS
<1>2. \A x \in {a, b} : (\A y \in {a, b} : x >= y) => x = IF a <= b THEN b ELSE a
  OBVIOUS
<1> QED
  BY <1>1, <1>2, Zenon DEF Max

\* Where a list begins, by the number of mottos that were counted.
LEMMA StartsWithin ==
    ASSUME NEW count \in Int, count >= -1, NEW start \in Starts(count)
    PROVE  /\ start \in Nat
           /\ count >= NumRandomMotto => start + NumRandomMotto <= count
           /\ count < NumRandomMotto => start <= NumRandomMotto + 1
<1>1. NumRandomMotto \in Nat
  BY MottoAssumption
<1>2. /\ Min({0, count - NumRandomMotto}) =
             IF 0 <= count - NumRandomMotto THEN 0 ELSE count - NumRandomMotto
      /\ Max({0, count - NumRandomMotto}) =
             IF 0 <= count - NumRandomMotto THEN count - NumRandomMotto ELSE 0
  BY <1>1, SmallerOf, LargerOf
<1>3. PICK n \in Min({0, count - NumRandomMotto}) .. Max({0, count - NumRandomMotto}) :
        start = Distance(0, n)
  BY Zenon DEF Starts
<1> QED
  BY <1>1, <1>2, <1>3 DEF Distance

\* As many mottos as the table has numbers in use.
LEMMA Counted ==
    ASSUME Numbered
    PROVE  /\ IsFiniteSet(Ids(rows[Mottos]))
           /\ Cardinality(rows[Mottos]) = Cardinality(Ids(rows[Mottos]))
           /\ Cardinality(Ids(rows[Mottos])) \in 0 .. lastId[Mottos]
           /\ lastId[Mottos] \in Nat
           /\ Cardinality(Ids(rows[Mottos])) = lastId[Mottos] <=>
                 Ids(rows[Mottos]) = 1 .. lastId[Mottos]
<1> DEFINE M == rows[Mottos]  I == Ids(M)  L == lastId[Mottos]
<1>1. L \in Nat /\ I \subseteq 1 .. L
  BY MottoAssumption, ArticlesAssumption DEF Numbered
<1>2. IsFiniteSet(1 .. L) /\ Cardinality(1 .. L) = L
  <2>1. \A n \in Nat : IsFiniteSet(1 .. n) /\ Cardinality(1 .. n) = n
    BY FS_Interval
  <2> QED
    BY <1>1, <2>1
<1>3. /\ IsFiniteSet(I) /\ Cardinality(I) <= L
      /\ Cardinality(I) = L => I = 1 .. L
  BY <1>1, <1>2, FS_Subset
<1>4. Cardinality(I) \in Nat
  BY <1>3, FS_CardinalityType
<1>5. Cardinality(M) = Cardinality(I)
  <2> DEFINE f == [a \in M |-> a.id]
  <2>1. f \in Bijection(M, I)
    <3>1. f \in [M -> I] /\ \A i \in I : \E a \in M : f[a] = i
      BY DEF Ids
    <3>2. \A a, b \in M : f[a] = f[b] => a = b
      BY DEF Numbered
    <3> QED
      BY <3>1, <3>2 DEF Bijection, Injection, Surjection, IsInjective
  <2>2. f \in Injection(M, I) /\ f \in Surjection(M, I)
    BY <2>1, Zenon DEF Bijection
  <2> QED
    BY <2>2, <1>3, FS_Injection
<1> QED
  BY <1>1, <1>2, <1>3, <1>4, <1>5

\* What is fetched is a list, a full one if so many mottos follow.
LEMMA LimitedIs ==
    ASSUME Numbered, NEW start \in Nat, NEW list \in Limited(start)
    PROVE  /\ list \in Lists /\ Cardinality(list) \in Nat
           /\ start + NumRandomMotto <= Cardinality(Ids(rows[Mottos])) =>
                 Cardinality(list) = NumRandomMotto
<1>1. PICK c \in Nat : c = Cardinality(Ids(rows[Mottos]))
  BY Counted
<1>2. NumRandomMotto \in Nat
  BY MottoAssumption
<1>3. /\ list \subseteq Ids(rows[Mottos])
      /\ Cardinality(list) = Max({0, Min({NumRandomMotto, c - start})})
  BY <1>1, Zenon DEF Limited
<1>4. PICK left \in Int : left = c - start
  BY <1>1
<1>5. Min({NumRandomMotto, left}) = IF NumRandomMotto <= left THEN NumRandomMotto ELSE left
  BY <1>2, SmallerOf
<1>6. PICK size \in Int : size = Min({NumRandomMotto, left})
  BY <1>2, <1>5
<1>7. Max({0, size}) = IF 0 <= size THEN size ELSE 0
  BY LargerOf
<1>8. Cardinality(list) = IF 0 <= size THEN size ELSE 0
  BY <1>3, <1>4, <1>6, <1>7, Zenon
<1>9. Ids(rows[Mottos]) \subseteq Id
  BY DEF Numbered, Ids, Article
<1>10. Cardinality(list) <= NumRandomMotto /\ Cardinality(list) \in Nat
  BY <1>8, <1>6, <1>5, <1>2
<1>11. list \in Lists
  BY <1>3, <1>9, <1>10 DEF Lists
<1> QED
  BY <1>1, <1>2, <1>4, <1>5, <1>6, <1>8, <1>10, <1>11

LEMMA MottoInvShows == MottoInv => EveryPageShowsOne
<1>1. SUFFICES ASSUME MottoInv, ~ broken, Cardinality(rows[Mottos]) = lastId[Mottos]
               PROVE  \A th \in Request : at[th] \notin {"none", "exception"}
  BY DEF EveryPageShowsOne
<1>2. AllThere
  BY <1>1, Counted DEF MottoInv, AllThere
<1> QED
  BY <1>1, <1>2 DEF MottoInv, ListsFull

-----------------------------------------------------------------------------
LEMMA MottoInitInv == MottoInit => MottoInv
<1> SUFFICES ASSUME MottoInit PROVE MottoInv
  OBVIOUS
<1> DEFINE M == rows[Mottos]  L == lastId[Mottos]
<1>1. /\ Mottos \in Table /\ Initially \in NumRandomMotto .. MaxId[Mottos]
      /\ NumRandomMotto \in Nat \ {0} /\ MaxId[Mottos] \in Nat /\ Initially \in Id
      /\ MaxRev \in Nat \ {0}
  BY MottoAssumption, ArticlesAssumption DEF Id
<1>2. L = Initially /\ M = {[id |-> i, rev |-> 1] : i \in 1 .. Initially}
  BY <1>1 DEF MottoInit, ArticlesInit
<1>3. Ids(M) = 1 .. Initially
  <2>1. \A i \in 1 .. Initially : [id |-> i, rev |-> 1] \in M /\ [id |-> i, rev |-> 1].id = i
    BY <1>2
  <2>2. \A a \in M : a.id \in 1 .. Initially
    BY <1>2
  <2> QED
    BY <2>1, <2>2 DEF Ids
<1>4. \A i \in 1 .. Initially : [id |-> i, rev |-> 1] \in Article
  BY <1>1 DEF Article, Id, Rev
<1>5. ArticlesTypeOK
  <2>1. rows \in [Table -> SUBSET Article]
    BY <1>4 DEF MottoInit, ArticlesInit
  <2>2. lastId \in [Table -> Id \cup {0}]
    BY <1>1 DEF MottoInit, ArticlesInit
  <2> QED
    BY <2>1, <2>2 DEF ArticlesTypeOK
<1>6. Numbered
  <2>1. M \subseteq Article
    BY <1>2, <1>4
  <2>2. \A a \in M, b \in M : a.id = b.id => a = b
    BY <1>2
  <2> QED
    BY <1>1, <1>2, <1>3, <2>1, <2>2 DEF Numbered
<1>7. /\ randomMotto \in Lists \cup {NoList} /\ (randomMotto = NoList => broken)
      /\ ~ broken => Cardinality(randomMotto) = NumRandomMotto
  <2>1. \A list \in SUBSET Id : NoList # list
    BY MottoAssumption
  <2>2. CASE broken
    BY <2>2 DEF MottoInit
  <2>3. CASE ~ broken
    <3>1. PICK start \in Starts(Cardinality(M)) : randomMotto \in Limited(start)
      BY <2>3 DEF MottoInit
    <3>2. Cardinality(M) = L /\ Cardinality(Ids(M)) = L /\ L \in Nat
      BY <1>2, <1>3, <1>6, Counted
    <3>3. L \in Int /\ L >= -1 /\ L >= NumRandomMotto /\ NumRandomMotto \in Nat
      BY <1>1, <1>2
    <3>4. start \in Nat /\ start + NumRandomMotto <= L
      BY <3>1, <3>2, <3>3, StartsWithin
    <3>5. randomMotto \in Lists /\ Cardinality(randomMotto) = NumRandomMotto
      BY <3>1, <3>2, <3>4, <1>6, LimitedIs
    <3>6. randomMotto # NoList
      BY <3>5, <2>1 DEF Lists
    <3> QED
      BY <3>5, <3>6
  <2> QED
    BY <2>2, <2>3
<1>8. {} \in Lists
  BY <1>1, FS_EmptySet DEF Lists
<1>9. {} # NoList
  BY MottoAssumption
<1>10. MottoTypeOK
  <2>1. 0 \in 0 .. MaxId[Mottos] + NumRandomMotto + 1 /\ 0 \in 0 .. NumRandomMotto - 1
    BY <1>1
  <2> QED
    BY <1>5, <1>7, <1>8, <2>1 DEF MottoInit, MottoTypeOK, Steps
<1>11. AllThere => ListsFull
  BY <1>7 DEF AllThere, MottoInit, ListsFull
<1>12. Reasons
  BY <1>7, <1>9 DEF MottoInit, Reasons
<1> QED
  BY <1>6, <1>10, <1>11, <1>12 DEF MottoInv

\* A motto that is added, saved or deleted.
LEMMA ChangeStep ==
    ASSUME MottoInv, Change(Mottos), UNCHANGED mottoVars
    PROVE  MottoInv'
<1> DEFINE M == rows[Mottos]  L == lastId[Mottos]
<1> USE DEF MottoInv
<1>1. /\ Mottos \in Table /\ NumRandomMotto \in Nat \ {0} /\ MaxId[Mottos] \in Nat
      /\ MaxRev \in Nat \ {0} /\ L \in Nat
  BY MottoAssumption, ArticlesAssumption DEF Numbered
<1>2. rows \in [Table -> SUBSET Article] /\ lastId \in [Table -> Id \cup {0}]
  BY DEF MottoTypeOK, ArticlesTypeOK
<1>3. /\ M \subseteq Article /\ Ids(M) \subseteq 1 .. L /\ L \in NumRandomMotto .. MaxId[Mottos]
      /\ \A a \in M, b \in M : a.id = b.id => a = b
  BY DEF Numbered
<1>4. \A a \in M : a.id \in Ids(M)
  BY DEF Ids
<1>5. /\ ArticlesTypeOK' /\ Numbered' /\ L <= L'
      /\ Ids(M)' = 1 .. L' => Ids(M) = 1 .. L
  <2>1. CASE Add(Mottos)
    <3>1. L < MaxId[Mottos] /\ L' = L + 1
      BY <2>1, <1>1, <1>2 DEF Add
    <3>2. PICK new : new = [id |-> L + 1, rev |-> 1]
      OBVIOUS
    <3>3. new \in Article /\ new.id = L + 1 /\ L + 1 \in Id
      BY <3>1, <3>2, <1>1 DEF Article, Id, Rev
    <3>4. M' = M \cup {new}
      BY <2>1, <3>2, <1>1, <1>2 DEF Add
    <3>5. Ids(M)' = Ids(M) \cup {L + 1}
      BY <3>3, <3>4 DEF Ids
    <3>6. rows' \in [Table -> SUBSET Article] /\ lastId' \in [Table -> Id \cup {0}]
      BY <2>1, <3>2, <3>3, <1>1, <1>2 DEF Add
    <3>7. \A a \in M', b \in M' : a.id = b.id => a = b
      BY <3>3, <3>4, <1>1, <1>3, <1>4
    <3>8. Numbered'
      <4>1. L' \in NumRandomMotto .. MaxId[Mottos] /\ 1 .. L' = (1 .. L) \cup {L + 1}
        BY <3>1, <1>1, <1>3
      <4>2. Ids(M)' \subseteq 1 .. L' /\ M' \subseteq Article
        BY <4>1, <3>3, <3>4, <3>5, <1>3, Zenon
      <4> QED
        BY <4>1, <4>2, <3>7 DEF Numbered
    <3>9. Ids(M)' = 1 .. L' => Ids(M) = 1 .. L
      <4>1. PICK ids : ids = Ids(M)
        OBVIOUS
      <4>2. ids \subseteq 1 .. L
        BY <4>1, <1>3
      <4>3. \A i \in 1 .. L : i \in 1 .. (L + 1) /\ i # L + 1
        BY <1>1
      <4>4. ids \cup {L + 1} = 1 .. (L + 1) => ids = 1 .. L
        BY <4>2, <4>3, Zenon
      <4> QED
        BY <4>1, <4>4, <3>1, <3>5, Zenon
    <3> QED
      BY <3>1, <3>6, <3>8, <3>9, <1>1 DEF ArticlesTypeOK
  <2>2. CASE Save(Mottos)
    <3>1. PICK a \in M : /\ a.rev < MaxRev /\ UNCHANGED lastId
                         /\ rows' = [rows EXCEPT ![Mottos] = (@ \ {a}) \cup {[a EXCEPT !.rev = @ + 1]}]
      BY <2>2 DEF Save
    <3>2. a.id \in Id /\ a.rev \in Rev /\ a = [id |-> a.id, rev |-> a.rev]
      BY <1>3 DEF Article
    <3>3. PICK new : new = [a EXCEPT !.rev = @ + 1]
      OBVIOUS
    <3>4. new \in Article /\ new.id = a.id
      BY <3>1, <3>2, <3>3, <1>1 DEF Article, Rev
    <3>5. M' = (M \ {a}) \cup {new} /\ L' = L
      BY <3>1, <3>3, <1>1, <1>2
    <3>6. Ids(M)' = Ids(M)
      BY <3>4, <3>5 DEF Ids
    <3>7. rows' \in [Table -> SUBSET Article] /\ lastId' \in [Table -> Id \cup {0}]
      BY <3>1, <3>3, <3>4, <1>1, <1>2
    <3>8. \A b \in M', c \in M' : b.id = c.id => b = c
      BY <3>4, <3>5, <1>3
    <3> QED
      BY <3>4, <3>5, <3>6, <3>7, <3>8, <1>1, <1>3 DEF ArticlesTypeOK, Numbered
  <2>3. CASE Del(Mottos)
    <3>1. PICK a \in M : rows' = [rows EXCEPT ![Mottos] = @ \ {a}] /\ UNCHANGED lastId
      BY <2>3 DEF Del
    <3>2. M' = M \ {a} /\ L' = L
      BY <3>1, <1>1, <1>2
    <3>3. Ids(M)' \subseteq Ids(M) \ {a.id}
      BY <3>2, <1>3 DEF Ids
    <3>4. a.id \in 1 .. L
      BY <3>1, <1>3, <1>4
    <3>5. rows' \in [Table -> SUBSET Article] /\ lastId' \in [Table -> Id \cup {0}]
      BY <3>1, <1>1, <1>2
    <3>6. Ids(M)' # 1 .. L'
      BY <3>2, <3>3, <3>4
    <3>7. Ids(M)' \subseteq 1 .. L' /\ M' \subseteq Article
      BY <3>2, <3>3, <1>3, Zenon
    <3>8. \A b \in M', c \in M' : b.id = c.id => b = c
      BY <3>2, <1>3
    <3>9. Numbered'
      BY <3>2, <3>7, <3>8, <1>3 DEF Numbered
    <3> QED
      BY <3>2, <3>5, <3>6, <3>9, <1>1 DEF ArticlesTypeOK
  <2> QED
    BY <2>1, <2>2, <2>3 DEF Change
<1>6. MottoTypeOK'
  BY <1>5 DEF MottoTypeOK, mottoVars
<1>7. (AllThere => ListsFull)'
  <2>1. SUFFICES ASSUME AllThere' PROVE ListsFull'
    OBVIOUS
  <2>2. AllThere
    BY <1>5, <2>1 DEF AllThere, mottoVars
  <2>3. \A th \in Request : begin[th] \in Nat
    BY <1>1 DEF MottoTypeOK
  <2>4. L' \in Nat
    BY <1>1, <1>5 DEF Numbered
  <2> QED
    BY <1>1, <1>5, <2>2, <2>3, <2>4 DEF ListsFull, mottoVars
<1>8. Reasons'
  BY DEF Reasons, mottoVars
<1> QED
  BY <1>5, <1>6, <1>7, <1>8

LEMMA ListIsNot == \A list \in Lists : list # NoList
BY MottoAssumption DEF Lists

\* A thread counts and chooses where its list begins.
LEMMA CountStep ==
    ASSUME MottoInv, UNCHANGED articleVars, NEW th \in Request, CountMottos(th)
    PROVE  MottoInv'
<1> DEFINE L == lastId[Mottos]  N == NumRandomMotto  M == rows[Mottos]
<1> USE DEF MottoInv
<1>1. N \in Nat \ {0} /\ MaxId[Mottos] \in Nat /\ L \in Nat /\ L <= MaxId[Mottos] /\ N <= L
  BY MottoAssumption, ArticlesAssumption DEF Numbered
<1>0. PICK ok \in BOOLEAN :
        /\ \E start \in Starts(IF ok THEN Cardinality(M) ELSE -1) :
              begin' = [begin EXCEPT ![th] = start]
        /\ broken' = (broken \/ ~ ok)
  BY Zenon DEF CountMottos
<1>2. PICK start \in Starts(IF ok THEN Cardinality(M) ELSE -1) :
        begin' = [begin EXCEPT ![th] = start] /\ broken' = (broken \/ ~ ok)
  BY <1>0, Zenon
<1>3. PICK count \in Int : /\ count = IF ok THEN Cardinality(M) ELSE -1
                           /\ count >= -1 /\ count <= L
  BY <1>1, Counted
<1>4. /\ start \in 0 .. MaxId[Mottos] + N + 1
      /\ count >= N => start + N <= count
  BY <1>1, <1>2, <1>3, StartsWithin
<1>5. UNCHANGED <<rows, lastId, randomMotto, due, fetched, index, swapped>> /\ at' = [at EXCEPT ![th] = "query"]
  BY DEF CountMottos, Then, articleVars
<1>6. MottoTypeOK'
  BY <1>2, <1>4, <1>5 DEF MottoTypeOK, ArticlesTypeOK, Steps
<1>7. Numbered'
  BY <1>5 DEF Numbered, Ids
<1>8. (AllThere => ListsFull)'
  <2>1. SUFFICES ASSUME AllThere' PROVE ListsFull'
    OBVIOUS
  <2>2. AllThere /\ ok
    BY <1>2, <1>5, <2>1 DEF AllThere, Ids
  <2>3. count = L
    BY <1>3, <2>2, Counted DEF AllThere
  <2>4. start + N <= L
    BY <1>4, <1>1, <2>3
  <2>5. at \in [Request -> Steps] /\ DOMAIN begin = Request
    BY DEF MottoTypeOK
  <2> QED
    BY <1>2, <1>5, <2>2, <2>4, <2>5 DEF ListsFull
<1>9. Reasons'
  BY <1>2, <1>5 DEF Reasons, MottoTypeOK
<1> QED
  BY <1>6, <1>7, <1>8, <1>9

\* A thread fetches a list.
LEMMA QueryStep ==
    ASSUME MottoInv, UNCHANGED articleVars, NEW th \in Request, QueryMottos(th)
    PROVE  MottoInv'
<1> DEFINE L == lastId[Mottos]  N == NumRandomMotto  M == rows[Mottos]
<1> USE DEF MottoInv
<1>1. N \in Nat \ {0} /\ MaxId[Mottos] \in Nat /\ L \in Nat /\ begin[th] \in Nat
  BY MottoAssumption, ArticlesAssumption DEF Numbered, MottoTypeOK
<1>0. PICK ok \in BOOLEAN :
        /\ \E list \in IF ok THEN Limited(begin[th]) ELSE {NoList} :
              fetched' = [fetched EXCEPT ![th] = list]
        /\ broken' = (broken \/ ~ ok)
  BY Zenon DEF QueryMottos
<1>2. PICK list \in IF ok THEN Limited(begin[th]) ELSE {NoList} :
        fetched' = [fetched EXCEPT ![th] = list] /\ broken' = (broken \/ ~ ok)
  BY <1>0, Zenon
<1>3. /\ list \in Lists \cup {NoList} /\ (ok => list # NoList)
      /\ ok /\ begin[th] + N <= Cardinality(Ids(M)) => Cardinality(list) = N
  BY <1>1, <1>2, LimitedIs, ListIsNot
<1>4. /\ UNCHANGED <<rows, lastId, randomMotto, due, index, swapped>> /\ at' = [at EXCEPT ![th] = "assign"]
      /\ begin' = [begin EXCEPT ![th] = 0] /\ at[th] = "query"
  BY DEF QueryMottos, Then, articleVars
<1>5. MottoTypeOK'
  BY <1>1, <1>2, <1>3, <1>4 DEF MottoTypeOK, ArticlesTypeOK, Steps
<1>6. Numbered'
  BY <1>4 DEF Numbered, Ids
<1>7. (AllThere => ListsFull)'
  <2>1. SUFFICES ASSUME AllThere' PROVE ListsFull'
    OBVIOUS
  <2>2. AllThere /\ ok
    BY <1>2, <1>4, <2>1 DEF AllThere, Ids
  <2>3. begin[th] + N <= L
    BY <1>4, <2>2 DEF ListsFull
  <2>4. Cardinality(list) = N
    BY <1>3, <2>2, <2>3, Counted DEF AllThere
  <2>5. at \in [Request -> Steps] /\ DOMAIN begin = Request /\ DOMAIN fetched = Request
    BY DEF MottoTypeOK
  <2> QED
    BY <1>2, <1>4, <2>2, <2>4, <2>5 DEF ListsFull
<1>8. Reasons'
  BY <1>2, <1>3, <1>4 DEF Reasons, MottoTypeOK
<1> QED
  BY <1>5, <1>6, <1>7, <1>8

\* The list is replaced.
LEMMA AssignStep ==
    ASSUME MottoInv, UNCHANGED articleVars, NEW th \in Request, AssignList(th)
    PROVE  MottoInv'
<1> USE DEF MottoInv
<1>1. /\ UNCHANGED <<rows, lastId, due, begin, index, broken>> /\ at' = [at EXCEPT ![th] = "size"]
      /\ at[th] = "assign" /\ randomMotto' = fetched[th] /\ fetched' = [fetched EXCEPT ![th] = {}]
      /\ swapped' = [other \in Request |-> swapped[other] \/ at[other] = "get"]
  BY DEF AssignList, Then, articleVars
<1>2. {} \in Lists /\ {} # NoList
  BY FS_EmptySet, MottoAssumption, ListIsNot DEF Lists
<1>3. swapped' \in [Request -> BOOLEAN]
  BY <1>1
<1>4. MottoTypeOK'
  BY <1>1, <1>2, <1>3 DEF MottoTypeOK, ArticlesTypeOK, Steps
<1>5. Numbered'
  BY <1>1 DEF Numbered, Ids
<1>6. (AllThere => ListsFull)'
  BY <1>1 DEF AllThere, ListsFull, Ids, MottoTypeOK
<1>7. Reasons'
  BY <1>1, <1>2 DEF Reasons, MottoTypeOK
<1> QED
  BY <1>4, <1>5, <1>6, <1>7

\* The steps that read the list, and those that change nothing else than where a
\* thread is.
LEMMA ReadStep ==
    ASSUME MottoInv, UNCHANGED articleVars,
           \/ MinutePasses
           \/ \E th \in Request : \/ getRandomMotto(th) \/ TestMissing(th) \/ TestAge(th)
                                  \/ AskSize(th) \/ GetMotto(th) \/ PageEnds(th)
    PROVE  MottoInv'
<1> USE DEF MottoInv
<1>1. /\ UNCHANGED <<rows, lastId, randomMotto, begin, fetched, broken>>
      /\ due' \in BOOLEAN
  BY DEF MinutePasses, getRandomMotto, TestMissing, TestAge, AskSize, GetMotto, PageEnds,
         articleVars, MottoTypeOK
<1>2. Numbered'
  BY <1>1 DEF Numbered, Ids
<1>3. AllThere' <=> AllThere
  BY <1>1 DEF AllThere, Ids
<1>4. ASSUME at' \in [Request -> Steps], index' \in [Request -> 0 .. NumRandomMotto - 1],
             swapped' \in [Request -> BOOLEAN]
      PROVE  MottoTypeOK'
  BY <1>1, <1>4 DEF MottoTypeOK, ArticlesTypeOK
<1>5. NumRandomMotto \in Nat \ {0} /\ 0 \in 0 .. NumRandomMotto - 1
  BY MottoAssumption
<1>6. CASE MinutePasses
  BY <1>1, <1>2, <1>3, <1>4, <1>6 DEF MinutePasses, MottoTypeOK, ListsFull, Reasons
<1>7. ASSUME NEW th \in Request, NEW next \in Steps \ {"query", "assign", "get", "none", "exception"},
             at' = [at EXCEPT ![th] = next], UNCHANGED <<index, swapped>>
      PROVE  MottoInv'
  <2>1. MottoTypeOK'
    BY <1>4, <1>7 DEF MottoTypeOK
  <2>2. AllThere => ListsFull'
    BY <1>1, <1>7 DEF MottoTypeOK, ListsFull
  <2>3. Reasons'
    BY <1>1, <1>7 DEF MottoTypeOK, Reasons
  <2> QED
    BY <1>2, <1>3, <2>1, <2>2, <2>3
<1>8. ASSUME NEW th \in Request, getRandomMotto(th) \/ TestMissing(th) \/ TestAge(th) \/ PageEnds(th)
      PROVE  MottoInv'
  BY <1>7, <1>8 DEF getRandomMotto, TestMissing, TestAge, PageEnds, Then, Steps
<1>9. ASSUME NEW th \in Request, NEW next \in {"shown", "none", "exception"}, Leaves(th, next),
             AllThere => next = "shown"
      PROVE  MottoInv'
  <2>1. /\ at' = [at EXCEPT ![th] = next] /\ index' = [index EXCEPT ![th] = 0]
        /\ swapped' = [swapped EXCEPT ![th] = FALSE]
    BY <1>9 DEF Leaves, Then
  <2>2. MottoTypeOK'
    BY <1>4, <1>5, <2>1 DEF MottoTypeOK, Steps
  <2>3. AllThere => ListsFull'
    BY <1>1, <1>9, <2>1 DEF MottoTypeOK, ListsFull
  <2>4. Reasons'
    BY <1>1, <2>1 DEF MottoTypeOK, Reasons
  <2> QED
    BY <1>2, <1>3, <2>2, <2>3, <2>4
<1>10. ASSUME NEW th \in Request, AskSize(th)
       PROVE  MottoInv'
  <2>1. CASE randomMotto = NoList
    <3>1. ~ AllThere /\ Leaves(th, "exception")
      BY <1>10, <2>1 DEF AskSize, Reasons, AllThere
    <3> QED
      BY <1>9, <3>1
  <2>2. CASE randomMotto # NoList
    <3>1. PICK n \in 0 .. NumRandomMotto - 1 :
            IF Cardinality(randomMotto) <= n THEN Leaves(th, "none")
            ELSE index' = [index EXCEPT ![th] = n] /\ Then(th, "get") /\ UNCHANGED swapped
      BY <1>10, <2>2, Zenon DEF AskSize
    <3>2. CASE Cardinality(randomMotto) <= n
      <4>1. ~ AllThere
        BY <1>5, <3>1, <3>2 DEF ListsFull
      <4> QED
        BY <1>9, <3>1, <3>2, <4>1
    <3>3. CASE ~ Cardinality(randomMotto) <= n
      <4>1. /\ index' = [index EXCEPT ![th] = n] /\ at' = [at EXCEPT ![th] = "get"]
            /\ UNCHANGED swapped
        BY <3>1, <3>3 DEF Then
      <4>2. MottoTypeOK'
        BY <1>4, <4>1 DEF MottoTypeOK, Steps
      <4>3. AllThere => ListsFull'
        BY <1>1, <4>1 DEF MottoTypeOK, ListsFull
      <4>4. Reasons'
        BY <1>1, <2>2, <3>3, <4>1 DEF MottoTypeOK, Reasons
      <4> QED
        BY <1>2, <1>3, <4>2, <4>3, <4>4
    <3> QED
      BY <3>2, <3>3
  <2> QED
    BY <2>1, <2>2
<1>11. ASSUME NEW th \in Request, GetMotto(th)
       PROVE  MottoInv'
  <2>1. PICK next \in {"shown", "exception"} :
          /\ next = IF randomMotto = NoList \/ Cardinality(randomMotto) <= index[th]
                    THEN "exception" ELSE "shown"
          /\ Leaves(th, next)
    BY <1>11 DEF GetMotto
  <2>2. index[th] \in 0 .. NumRandomMotto - 1
    BY DEF MottoTypeOK
  <2>3. AllThere => next = "shown"
    BY <1>5, <2>1, <2>2 DEF AllThere, ListsFull, Reasons
  <2> QED
    BY <1>9, <2>1, <2>3
<1> QED
  BY <1>6, <1>8, <1>10, <1>11

LEMMA MottoStep == MottoInv /\ [MottoNext]_mottoSiteVars => MottoInv'
<1> SUFFICES ASSUME MottoInv, [MottoNext]_mottoSiteVars PROVE MottoInv'
  OBVIOUS
<1>1. CASE UNCHANGED mottoSiteVars
  BY <1>1 DEF mottoSiteVars, mottoVars, articleVars, MottoInv, MottoTypeOK, ArticlesTypeOK,
              Numbered, AllThere, Ids, ListsFull, Reasons
<1>2. CASE Change(Mottos) /\ UNCHANGED mottoVars
  BY <1>2, ChangeStep
<1>3. CASE MinutePasses /\ UNCHANGED articleVars
  BY <1>3, ReadStep
<1>4. ASSUME NEW th \in Request, (getRandomMotto(th) /\ UNCHANGED articleVars) \/ ShowingMotto(th)
      PROVE  MottoInv'
  BY <1>4, ReadStep, CountStep, QueryStep, AssignStep DEF ShowingMotto
<1> QED
  BY <1>1, <1>2, <1>3, <1>4 DEF MottoNext

LEMMA MottoInvAlways == MottoSpec => []MottoInv
BY MottoInitInv, MottoStep, PTL DEF MottoSpec

\* Of a site that has enough mottos from the start and deletes none, every page shows one,
\* unless a statement fails (MottoAction.java:100-128): for every number of pages asked
\* for at once, every length of the list and every number of mottos that are added.
THEOREM EveryPageShowsOneEver == MottoSpec => []EveryPageShowsOne
BY MottoInvAlways, MottoInvShows, PTL

\* A page fails on the mottos only after one of their statements has failed, or if another
\* page replaced the list between the two looks at it (MottoAction.java:111-113).
THEOREM FailsForAReasonEver == MottoSpec => FailsForAReason
<1>1. ASSUME MottoInv, [MottoNext]_mottoSiteVars
      PROVE  [\A th \in Request : at[th] # "exception" /\ at'[th] = "exception" =>
                 broken \/ swapped[th]]_mottoSiteVars
  <2>1. SUFFICES ASSUME MottoNext, NEW th \in Request, at[th] # "exception", at'[th] = "exception"
                 PROVE  broken \/ swapped[th]
    BY <1>1, Zenon
  <2>2. at \in [Request -> Steps]
    BY <1>1 DEF MottoInv, MottoTypeOK
  <2>3. PICK other \in Request : AskSize(other) \/ GetMotto(other)
    BY <2>1, <2>2 DEF MottoNext, ShowingMotto, MinutePasses, mottoVars, getRandomMotto, TestMissing,
                      TestAge, CountMottos, QueryMottos, AssignList, PageEnds, Then
  <2>4. other = th
    BY <2>1, <2>2, <2>3 DEF AskSize, GetMotto, Leaves, Then
  <2>5. CASE AskSize(other)
    BY <1>1, <2>1, <2>2, <2>4, <2>5 DEF AskSize, Leaves, Then, MottoInv, Reasons
  <2>6. CASE GetMotto(other)
    BY <1>1, <2>1, <2>2, <2>4, <2>6 DEF GetMotto, Leaves, Then, MottoInv, Reasons
  <2> QED
    BY <2>3, <2>5, <2>6
<1> QED
  BY <1>1, MottoInvAlways, PTL DEF MottoSpec, FailsForAReason

-----------------------------------------------------------------------------
(* The pages of a list. *)

Least(m, n) == IF m <= n THEN m ELSE n
Greatest(m, n) == IF m <= n THEN n ELSE m

LEMMA OfTwo ==
    ASSUME NEW m \in Int, NEW n \in Int
    PROVE  /\ Min({m, n}) = Least(m, n) /\ Max({m, n}) = Greatest(m, n)
           /\ P!Min({m, n}) = Least(m, n) /\ P!Max({m, n}) = Greatest(m, n)
BY DEF Min, Max, P!Min, P!Max, Least, Greatest

\* There are as many pages as it takes to count all rows.
LEMMA PagesCounted ==
    ASSUME NEW size \in Nat, NEW per \in Nat \ {0}
    PROVE  /\ P!PageCount(size, per) \in Nat
           /\ size <= P!PageCount(size, per) * per
           /\ P!PageCount(size, per) > 0 => (P!PageCount(size, per) - 1) * per < size
<1> DEFINE q == P!PageCount(size, per)
<1>1. q \in Int /\ per * q <= size + per - 1 /\ size + per - 1 < per * q + per
  BY Division DEF P!PageCount
<1> HIDE DEF q
<1>2. per * q = q * per /\ (q - 1) * per = per * q - per /\ per * q \in Int
  BY <1>1, Z3
<1>3. q >= 0
  <2> SUFFICES ASSUME q <= -1 PROVE FALSE
    BY <1>1
  <2>1. per * q <= - per
    BY <1>1, Z3
  <2> QED
    BY <1>1, <1>2, <2>1
<1>4. q \in Nat /\ size <= q * per /\ (q > 0 => (q - 1) * per < size)
  BY <1>1, <1>2, <1>3
<1> QED
  BY <1>4 DEF q

LEMMA PageIs ==
    ASSUME NEW size \in Nat, NEW pages \in Nat, NEW t \in Nat \ {0}, NEW p \in 1 .. pages
    PROVE  /\ P!PageShown(p, pages) = p
           /\ P!RowsOfPage(size, P!PageShown(p, pages), t) = (p - 1) * t + 1 .. Least(p * t, size)
           /\ (p - 1) * t \in Nat /\ p * t \in Nat /\ p * t = (p - 1) * t + t
<1>1. P!PageShown(p, pages) = p
  <2>1. P!Max({p, 1}) = p
    BY OfTwo DEF Greatest
  <2>2. P!Min({p, pages}) = p
    BY OfTwo DEF Least
  <2> QED
    BY <2>1, <2>2 DEF P!PageShown
<1>2. (p - 1) * t \in Nat /\ p * t \in Nat /\ p * t = (p - 1) * t + t
  <2>1. p - 1 \in Nat /\ p \in Nat /\ p - 1 <= p
    OBVIOUS
  <2>2. (p - 1) * t \in Nat /\ p * t \in Nat
    BY <2>1, Multiples
  <2> QED
    BY <2>1, <2>2, Z3
<1>3. P!Max({(p - 1) * t, 0}) = (p - 1) * t /\ P!Min({p * t, size}) = Least(p * t, size)
  <2>1. \A m \in Nat : m \in Int /\ P!Max({m, 0}) = m
    <3> SUFFICES ASSUME NEW m \in Nat PROVE P!Max({m, 0}) = m
      OBVIOUS
    <3>1. P!Max({m, 0}) = Greatest(m, 0)
      BY OfTwo
    <3> QED
      BY <3>1 DEF Greatest
  <2>2. \A m \in Nat : P!Min({m, size}) = Least(m, size)
    BY OfTwo
  <2> QED
    BY <1>2, <2>1, <2>2
<1> QED
  BY <1>1, <1>2, <1>3 DEF P!RowsOfPage

LEMMA PagesReached ==
    ASSUME NEW size \in Nat, NEW t \in PageSizes
    PROVE  LET pages    == P!PageCount(size, t)
               shown(p) == P!RowsOfPage(size, P!PageShown(p, pages), t)
           IN  /\ \A p \in 1 .. pages : shown(p) # {} /\ shown(p) \subseteq 1 .. size
               /\ \A p, q \in 1 .. pages : p # q => shown(p) \cap shown(q) = {}
               /\ UNION {shown(p) : p \in 1 .. pages} = 1 .. size
               /\ shown(-1) = shown(1) /\ shown(pages + 1) = shown(pages)
<1> DEFINE pages    == P!PageCount(size, t)
           shown(p) == P!RowsOfPage(size, P!PageShown(p, pages), t)
<1>1. /\ t \in Nat \ {0} /\ pages \in Nat
      /\ size <= pages * t /\ (pages > 0 => (pages - 1) * t < size)
  <2>1. t \in Nat \ {0}
    BY PagesAssumption
  <2> QED
    BY <2>1, PagesCounted
<1> HIDE DEF pages
<1>2. \A p \in 1 .. pages :
         /\ shown(p) = (p - 1) * t + 1 .. Least(p * t, size)
         /\ (p - 1) * t \in Nat /\ p * t \in Nat /\ p * t = (p - 1) * t + t
  BY <1>1, PageIs
<1>3. \A p \in 1 .. pages : (p - 1) * t < size
  <2> SUFFICES ASSUME NEW p \in 1 .. pages PROVE (p - 1) * t < size
    OBVIOUS
  <2>1. p - 1 \in Nat /\ pages - 1 \in Nat /\ p - 1 <= pages - 1 /\ pages > 0
    BY <1>1
  <2>2. (p - 1) * t \in Nat /\ (pages - 1) * t \in Nat /\ (p - 1) * t <= (pages - 1) * t
    BY <1>1, <2>1, Multiples
  <2> QED
    BY <1>1, <2>1, <2>2
<1>4. ASSUME NEW p \in 1 .. pages
      PROVE  shown(p) # {} /\ shown(p) \subseteq 1 .. size
  <2> DEFINE m == (p - 1) * t  n == p * t
  <2>1. /\ shown(p) = m + 1 .. Least(n, size) /\ m \in Nat /\ n \in Nat /\ n = m + t /\ m < size
    BY <1>2, <1>3
  <2> HIDE DEF m, n
  <2>2. m + 1 \in m + 1 .. Least(n, size) /\ m + 1 .. Least(n, size) \subseteq 1 .. size
    BY <1>1, <2>1 DEF Least
  <2> QED
    BY <2>1, <2>2
<1>5. ASSUME NEW p \in 1 .. pages, NEW q \in 1 .. pages, p < q
      PROVE  shown(p) \cap shown(q) = {}
  <2>1. p \in Nat /\ q - 1 \in Nat /\ p <= q - 1
    BY <1>1, <1>5
  <2> DEFINE n == p * t  m == (q - 1) * t
  <2>2. n <= m /\ n \in Nat /\ m \in Nat
    BY <1>1, <2>1, Multiples
  <2>3. /\ \A i \in shown(p) : i \in Int /\ i <= Least(n, size)
        /\ \A i \in shown(q) : i \in Int /\ i >= m + 1
    BY <1>1, <1>2, <2>2 DEF Least
  <2> HIDE DEF n, m
  <2> QED
    BY <2>2, <2>3 DEF Least
<1>6. \A p, q \in 1 .. pages : p # q => shown(p) \cap shown(q) = {}
  <2> SUFFICES ASSUME NEW p \in 1 .. pages, NEW q \in 1 .. pages, p # q
               PROVE  shown(p) \cap shown(q) = {}
    OBVIOUS
  <2>1. p < q \/ q < p
    BY <1>1
  <2> HIDE DEF shown
  <2> QED
    BY <1>5, <2>1
<1>7. pages * t \in Nat
  BY <1>1, Multiples
<1>8. UNION {shown(p) : p \in 1 .. pages} = 1 .. size
  <2>1. ASSUME NEW i \in 1 .. size PROVE \E p \in 1 .. pages : i \in shown(p)
    <3> DEFINE p == P!PageCount(i, t)
    <3>1. i \in Nat \ {0} /\ i <= pages * t /\ i <= size
      BY <1>1, <1>7
    <3>2. p \in Nat /\ i <= p * t /\ (p > 0 => (p - 1) * t < i)
      BY <1>1, <3>1, PagesCounted
    <3> HIDE DEF p
    <3>3. p > 0
      <4>1. p = 0 => p * t = 0
        BY <1>1
      <4> QED
        BY <3>1, <3>2, <4>1
    <3>4. p <= pages
      <4> SUFFICES ASSUME pages <= p - 1 PROVE FALSE
        BY <1>1, <3>2
      <4>1. p - 1 \in Nat
        BY <3>2, <3>3
      <4>2. pages * t <= (p - 1) * t /\ (p - 1) * t \in Nat
        BY <1>1, <4>1, Multiples
      <4> QED
        BY <1>7, <3>1, <3>2, <3>3, <4>2
    <3>5. p \in 1 .. pages
      BY <1>1, <3>2, <3>3, <3>4
    <3> DEFINE n == p * t  m == (p - 1) * t
    <3>6. shown(p) = m + 1 .. Least(n, size) /\ m \in Nat /\ n \in Nat /\ m < i /\ i <= n
      BY <1>2, <3>2, <3>3, <3>5
    <3> HIDE DEF n, m
    <3>7. i \in m + 1 .. Least(n, size)
      BY <3>1, <3>6 DEF Least
    <3> QED
      BY <3>5, <3>6, <3>7
  <2> HIDE DEF shown
  <2> QED
    BY <1>4, <2>1
<1> DEFINE Known == \A m, n \in Int : P!Min({m, n}) = Least(m, n) /\ P!Max({m, n}) = Greatest(m, n)
<1>9. Known
  BY OfTwo
<1>10. shown(-1) = shown(1)
  <2>1. P!Max({-1, 1}) = Greatest(-1, 1) /\ P!Max({1, 1}) = Greatest(1, 1)
    <3>1. \A m \in Int : P!Max({m, 1}) = Greatest(m, 1)
      <4> SUFFICES ASSUME NEW m \in Int PROVE P!Max({m, 1}) = Greatest(m, 1)
        OBVIOUS
      <4> QED
        BY OfTwo
    <3>2. -1 \in Int
      OBVIOUS
    <3> HIDE DEF Known
    <3> QED
      BY <3>1, <3>2
  <2>2. Greatest(-1, 1) = 1 /\ Greatest(1, 1) = 1
    BY DEF Greatest
  <2> QED
    BY <2>1, <2>2 DEF P!PageShown
<1>11. shown(pages + 1) = shown(pages)
  <2>0. pages \in Int /\ pages + 1 \in Int /\ 1 \in Int /\ 0 <= pages
    BY <1>1
  <2>1. P!Max({pages + 1, 1}) = pages + 1 /\ P!Min({pages + 1, pages}) = pages
    <3>1. P!Max({pages + 1, 1}) = Greatest(pages + 1, 1) /\ P!Min({pages + 1, pages}) = Least(pages + 1, pages)
      BY <1>9, <2>0
    <3> QED
      BY <2>0, <3>1 DEF Greatest, Least
  <2>2. /\ P!Max({pages, 1}) = (IF pages = 0 THEN 1 ELSE pages) /\ P!Min({1, pages}) = (IF pages = 0 THEN 0 ELSE 1)
        /\ P!Min({pages, pages}) = pages
    <3>1. /\ P!Max({pages, 1}) = Greatest(pages, 1) /\ P!Min({1, pages}) = Least(1, pages)
          /\ P!Min({pages, pages}) = Least(pages, pages)
      BY <1>9, <2>0
    <3> QED
      BY <2>0, <3>1 DEF Greatest, Least
  <2>3. P!PageShown(pages + 1, pages) = pages
    BY <2>1 DEF P!PageShown
  <2>4. P!PageShown(pages, pages) = pages
    <3>1. CASE pages = 0
      BY <2>2, <3>1 DEF P!PageShown
    <3>2. CASE pages # 0
      BY <2>2, <3>2 DEF P!PageShown
    <3> QED
      BY <3>1, <3>2
  <2> QED
    BY <2>3, <2>4
<1> HIDE DEF shown
<1>12. /\ \A p \in 1 .. pages : shown(p) # {} /\ shown(p) \subseteq 1 .. size
       /\ \A p, q \in 1 .. pages : p # q => shown(p) \cap shown(q) = {}
       /\ UNION {shown(p) : p \in 1 .. pages} = 1 .. size
       /\ shown(-1) = shown(1) /\ shown(pages + 1) = shown(pages)
  BY <1>4, <1>6, <1>8, <1>10, <1>11
<1> QED
  BY <1>12 DEF shown, pages

\* The states are numbers of rows, for this function.
LEMMA RowsAreCounted == PlainSpec => [](function = "doPage" => input \in Nat)
<1> DEFINE Numbers == function = "doPage" => input \in Nat
<1>1. PlainInit => Numbers
  BY DEF PlainInit
<1>2. Numbers /\ [PlainNext]_inputVars => Numbers'
  BY DEF PlainNext, AddRow, inputVars
<1> QED
  BY <1>1, <1>2, PTL DEF PlainSpec

\* For any number of rows and any size of a page, every page shows rows, no row is on two,
\* and they show all rows (BaseAction.java:61-90, QueryHelper.java:142-149).
THEOREM PagesReachEver == PlainSpec => []PagesReach
<1>1. (function = "doPage" => input \in Nat) => PagesReach
  BY PagesReached DEF PagesReach
<1> QED
  BY <1>1, RowsAreCounted, PTL

-----------------------------------------------------------------------------
(* Loops: the states of a recursive function of the number of its rounds. *)

\* The numbers are well-founded.
LEMMA Below == \E R : /\ IsWellFoundedOn(R, Nat) /\ \A m, n \in Nat : m < n => <<m, n>> \in R
<1>1. IsWellFoundedOn(OpToRel(<, Nat), Nat)
  BY NatLessThanWellFounded
<1>2. \A m, n \in Nat : m < n => <<m, n>> \in OpToRel(<, Nat)
  BY DEF OpToRel
<1> QED
  BY <1>1, <1>2

\* A set of numbers has a least one.
LEMMA LeastOf ==
    ASSUME NEW T, T \subseteq Nat, T # {}
    PROVE  \E x \in T : \A y \in T : ~ y < x
<1>1. PICK R : IsWellFoundedOn(R, Nat) /\ \A m, n \in Nat : m < n => <<m, n>> \in R
  BY Below
<1>2. IsWellFoundedOn(R, Nat)
  BY <1>1
<1>3. \E x \in T : \A y \in T : ~ (<<y, x>> \in R)
  BY <1>2, WFMin, Zenon
<1> QED
  BY <1>1, <1>3

\* Induction, for sets of numbers.
LEMMA CountsUp ==
    ASSUME NEW S, 0 \in S, \A n \in Nat : n \in S => n + 1 \in S
    PROVE  Nat \subseteq S
<1>1. SUFFICES ASSUME Nat \ S # {} PROVE FALSE
  OBVIOUS
<1>2. PICK x \in Nat \ S : \A y \in Nat \ S : ~ y < x
  BY <1>1, LeastOf
<1>3. x - 1 \in Nat /\ x - 1 < x /\ (x - 1) + 1 = x
  BY <1>2
<1> QED
  BY <1>2, <1>3

\* What the rounds of a loop do.
Rounds(S, N) == [S \X (1 .. N) -> S]

IsLoop(f, S, base, N, round) ==
    f \in [0 .. N -> S] /\ f = [n \in 0 .. N |-> IF n = 0 THEN base ELSE round[<<f[n - 1], n>>]]

\* A loop of n rounds, whose rounds are the values of a function.
LEMMA LoopsExist ==
    ASSUME NEW S, NEW base \in S, NEW N \in Nat, NEW round \in Rounds(S, N)
    PROVE  \E f : IsLoop(f, S, base, N, round)
<1> DEFINE Ran(f, k) == /\ f \in [0 .. k -> S] /\ f[0] = base
                        /\ \A n \in 1 .. k : f[n] = round[<<f[n - 1], n>>]
           T == {k \in Nat : k <= N => \E f : Ran(f, k)}
<1>1. 0 \in T
  <2>1. Ran([n \in 0 .. 0 |-> base], 0)
    OBVIOUS
  <2> QED
    BY <2>1
<1>2. ASSUME NEW k \in Nat, k \in T PROVE k + 1 \in T
  <2>1. SUFFICES ASSUME k + 1 <= N PROVE \E f : Ran(f, k + 1)
    OBVIOUS
  <2>2. PICK f : Ran(f, k)
    BY <1>2, <2>1
  <2>3. PICK g : g = [n \in 0 .. k + 1 |-> IF n = k + 1 THEN round[<<f[k], k + 1>>] ELSE f[n]]
    OBVIOUS
  <2>4. f[k] \in S /\ k + 1 \in 1 .. N /\ round \in [S \X (1 .. N) -> S]
    BY <2>1, <2>2 DEF Rounds
  <2>5. g \in [0 .. k + 1 -> S] /\ g[0] = base
    BY <2>2, <2>3, <2>4
  <2>6. ASSUME NEW n \in 1 .. k + 1 PROVE g[n] = round[<<g[n - 1], n>>]
    <3>1. g[n - 1] = f[n - 1]
      BY <2>3
    <3>2. CASE n = k + 1
      <4>1. n - 1 = k /\ g[n] = round[<<f[k], k + 1>>]
        BY <2>3, <3>2
      <4> QED
        BY <3>1, <3>2, <4>1
    <3>3. CASE n # k + 1
      <4>1. n \in 1 .. k /\ g[n] = f[n]
        BY <2>3, <3>3
      <4>2. f[n] = round[<<f[n - 1], n>>]
        BY <2>2, <4>1, Zenon
      <4> QED
        BY <3>1, <4>1, <4>2
    <3> QED
      BY <3>2, <3>3
  <2>7. Ran(g, k + 1)
    BY <2>5, <2>6
  <2> QED
    BY <2>7
<1> HIDE DEF T
<1>3. Nat \subseteq T
  BY <1>1, <1>2, CountsUp
<1>4. PICK f : Ran(f, N)
  <2> HIDE DEF Ran
  <2>1. N \in T /\ N <= N
    BY <1>3
  <2> QED
    BY <2>1 DEF T
<1>5. f = [n \in 0 .. N |-> IF n = 0 THEN base ELSE round[<<f[n - 1], n>>]]
  BY <1>4
<1> QED
  BY <1>4, <1>5 DEF IsLoop

\* What is in a set once is in it after every round.
LEMMA LoopStays ==
    ASSUME NEW S, NEW N \in Nat, NEW f, f[0] \in S, \A n \in 1 .. N : f[n - 1] \in S => f[n] \in S
    PROVE  \A n \in 0 .. N : f[n] \in S
<1> DEFINE T == {n \in Nat : n <= N => f[n] \in S}
<1>1. 0 \in T
  OBVIOUS
<1>2. ASSUME NEW n \in Nat, n \in T PROVE n + 1 \in T
  <2>1. SUFFICES ASSUME n + 1 <= N PROVE f[n + 1] \in S
    OBVIOUS
  <2>2. n + 1 \in 1 .. N /\ (n + 1) - 1 = n /\ f[n] \in S
    BY <1>2, <2>1
  <2>3. f[(n + 1) - 1] \in S => f[n + 1] \in S
    BY <2>2
  <2> QED
    BY <2>2, <2>3
<1> HIDE DEF T
<1>3. Nat \subseteq T
  BY <1>1, <1>2, CountsUp
<1> QED
  BY <1>3 DEF T

\* Min and Max are what they should be, for finite sets.
LEMMA MinIs ==
    ASSUME NEW T, T \subseteq Nat, T # {}
    PROVE  Min(T) \in T /\ \A x \in T : Min(T) <= x
<1>1. \E x \in T : \A y \in T : x <= y
  <2>1. PICK x \in T : \A y \in T : ~ y < x
    BY LeastOf
  <2> QED
    BY <2>1
<1> QED
  BY <1>1 DEF Min

LEMMA MaxIs ==
    ASSUME NEW n \in Nat, NEW T, T \subseteq 0 .. n, T # {}
    PROVE  Max(T) \in T /\ \A x \in T : x <= Max(T)
<1> DEFINE U == {n - x : x \in T}
<1>1. U \subseteq Nat /\ U # {}
  <2>1. ASSUME NEW x \in T PROVE n - x \in Nat
    <3>1. x \in 0 .. n
      OBVIOUS
    <3> QED
      BY <3>1
  <2> QED
    BY <2>1
<1>2. PICK u \in U : \A y \in U : ~ y < u
  <2> HIDE DEF U
  <2> QED
    BY <1>1, LeastOf
<1>3. PICK x \in T : u = n - x
  BY <1>2
<1>4. \A y \in T : x >= y
  BY <1>2, <1>3
<1> QED
  BY <1>4 DEF Max

-----------------------------------------------------------------------------
(* Sorting. *)

\* Arrays of keys, and the counts of the keys.
Arrays(N, K) == [1 .. N -> K]
Maps(K) == [K -> Int]

\* What is between two places is in another order, all else where it was.
Rearranged(a, b, from, to) ==
    /\ \A k \in DOMAIN a : k \notin from .. to => b[k] = a[k]
    /\ \A k \in from .. to : \E l \in from .. to : b[l] = a[k]
    /\ \A k \in from .. to : \E l \in from .. to : b[k] = a[l]
    /\ IsInjective(a) => IsInjective(b)

\* Rearranging may be done in steps, within a larger part, or not at all.
LEMMA RearrangedTwice ==
    ASSUME NEW a, NEW b, NEW c, DOMAIN b = DOMAIN a, DOMAIN c = DOMAIN a, NEW from, NEW to,
           Rearranged(a, b, from, to), Rearranged(b, c, from, to)
    PROVE  Rearranged(a, c, from, to)
<1>1. \A k \in DOMAIN a : k \notin from .. to => c[k] = a[k]
  BY DEF Rearranged
<1>2. ASSUME NEW k \in from .. to PROVE \E l \in from .. to : c[l] = a[k]
  <2>1. PICK m \in from .. to : b[m] = a[k]
    BY DEF Rearranged
  <2> QED
    BY <2>1 DEF Rearranged
<1>3. ASSUME NEW k \in from .. to PROVE \E l \in from .. to : c[k] = a[l]
  <2>1. PICK m \in from .. to : c[k] = b[m]
    BY DEF Rearranged
  <2> QED
    BY <2>1 DEF Rearranged
<1> QED
  BY <1>1, <1>2, <1>3 DEF Rearranged

LEMMA RearrangedWithin ==
    ASSUME NEW a, NEW b, DOMAIN b = DOMAIN a,
           NEW from \in Int, NEW to \in Int, NEW f \in from .. to + 1, NEW t \in from - 1 .. to,
           from .. to \subseteq DOMAIN a,
           Rearranged(a, b, f, t)
    PROVE  Rearranged(a, b, from, to)
<1>0. f .. t \subseteq from .. to
  OBVIOUS
<1>1. \A k \in DOMAIN a : k \notin from .. to => b[k] = a[k]
  BY <1>0 DEF Rearranged
<1>2. ASSUME NEW k \in from .. to PROVE \E l \in from .. to : b[l] = a[k]
  BY <1>0 DEF Rearranged
<1>3. ASSUME NEW k \in from .. to PROVE \E l \in from .. to : b[k] = a[l]
  BY <1>0 DEF Rearranged
<1> QED
  BY <1>1, <1>2, <1>3 DEF Rearranged

LEMMA RearrangedNot ==
    ASSUME NEW a, NEW from, NEW to
    PROVE  Rearranged(a, a, from, to)
  BY DEF Rearranged

\* swap rearranges (Tools.java:107-111).
LEMMA Swapped ==
    ASSUME NEW N \in Nat, NEW K, NEW a \in Arrays(N, K), NEW from \in Int, 1 <= from, NEW to \in Int, to <= N,
           NEW i \in from .. to, NEW j \in from .. to
    PROVE  /\ swap(a, i, j) \in Arrays(N, K)
           /\ swap(a, i, j) = [k \in 1 .. N |-> IF k = j THEN a[i] ELSE IF k = i THEN a[j] ELSE a[k]]
           /\ Rearranged(a, swap(a, i, j), from, to)
<1> USE DEF Arrays
<1> DEFINE b == [k \in 1 .. N |-> IF k = j THEN a[i] ELSE IF k = i THEN a[j] ELSE a[k]]
<1>1. i \in 1 .. N /\ j \in 1 .. N
  OBVIOUS
<1>2. swap(a, i, j) = b /\ b \in [1 .. N -> K]
  BY <1>1 DEF swap
<1>3. \A k \in 1 .. N : b[k] = IF k = j THEN a[i] ELSE IF k = i THEN a[j] ELSE a[k]
  OBVIOUS
<1> HIDE DEF b
<1>4. \A k \in 1 .. N : k \notin from .. to => b[k] = a[k]
  BY <1>3
<1>5. ASSUME NEW k \in from .. to PROVE \E l \in from .. to : b[l] = a[k]
  BY <1>1, <1>3
<1>6. ASSUME NEW k \in from .. to PROVE \E l \in from .. to : b[k] = a[l]
  BY <1>1, <1>3
<1>7. ASSUME IsInjective(a) PROVE IsInjective(b)
  BY <1>1, <1>2, <1>3, <1>7 DEF IsInjective
<1>8. Rearranged(a, b, from, to)
  BY <1>4, <1>5, <1>6, <1>7 DEF Rearranged
<1> QED
  BY <1>2, <1>8 DEF b

\* Where the scan upwards halts.
HaltsAt(map, arr, up, i, to, part) ==
    /\ up \in i .. to
    /\ \A k \in i + 1 .. up - 1 : map[arr[k]] >= part
    /\ i < to => up > i /\ (up = to \/ map[arr[up]] < part)

\* ScanUp and ScanDown halt where they should.
LEMMA ScansUp ==
    ASSUME NEW K, NEW map \in Maps(K), NEW N \in Nat, NEW arr \in Arrays(N, K),
           NEW to \in Int, to <= N, NEW i \in Int, 1 <= i, i <= to, NEW part \in Int
    PROVE  HaltsAt(map, arr, ScanUp(map, arr, i, to, part), i, to, part)
<1> USE DEF Arrays, Maps, HaltsAt
<1>1. CASE ~ i < to
  BY <1>1 DEF ScanUp
<1>2. CASE i < to
  <2> DEFINE T == {k \in i + 1 .. to : map[arr[k]] < part} \cup {to}
  <2>1. ScanUp(map, arr, i, to, part) = Min(T) /\ T \subseteq Nat /\ T # {} /\ T \subseteq i + 1 .. to
    BY <1>2 DEF ScanUp
  <2>3. \A k \in i + 1 .. to : map[arr[k]] < part => k \in T
    OBVIOUS
  <2>4. \A k \in T : k = to \/ map[arr[k]] < part
    OBVIOUS
  <2>7. \A k \in i + 1 .. to : map[arr[k]] \in Int
    OBVIOUS
  <2> HIDE DEF T
  <2>2. Min(T) \in T /\ \A x \in T : Min(T) <= x
    BY <2>1, MinIs
  <2>8. Min(T) \in i + 1 .. to
    BY <2>1, <2>2
  <2>5. ASSUME NEW k \in i + 1 .. Min(T) - 1 PROVE map[arr[k]] >= part
    <3>1. k \in i + 1 .. to /\ ~ Min(T) <= k
      BY <2>8
    <3>2. ~ map[arr[k]] < part
      BY <2>2, <2>3, <3>1
    <3> QED
      BY <2>7, <3>1, <3>2
  <2>6. Min(T) = to \/ map[arr[Min(T)]] < part
    BY <2>2, <2>4
  <2> QED
    BY <1>2, <2>1, <2>5, <2>6, <2>8
<1> QED
  BY <1>1, <1>2

LEMMA ScansDown ==
    ASSUME NEW K, NEW map \in Maps(K), NEW N \in Nat, NEW arr \in Arrays(N, K),
           NEW from \in 1 .. N, NEW j \in from + 1 .. N + 1, NEW part \in Int
    PROVE  LET down == ScanDown(map, arr, j, from, part)
           IN  /\ down \in from .. j - 1
               /\ \A k \in down + 1 .. j - 1 : map[arr[k]] <= part
               /\ down = from \/ map[arr[down]] > part
<1> USE DEF Arrays, Maps
<1> DEFINE T == {k \in from .. j - 1 : map[arr[k]] > part} \cup {from}
<1>1. ScanDown(map, arr, j, from, part) = Max(T) /\ T \subseteq 0 .. N /\ T # {} /\ T \subseteq from .. j - 1
  BY DEF ScanDown
<1>3. \A k \in from .. j - 1 : map[arr[k]] > part => k \in T
  OBVIOUS
<1>4. \A k \in T : k = from \/ map[arr[k]] > part
  OBVIOUS
<1>7. \A k \in from .. j - 1 : map[arr[k]] \in Int
  OBVIOUS
<1> HIDE DEF T
<1>2. Max(T) \in T /\ \A x \in T : x <= Max(T)
  BY <1>1, MaxIs
<1>8. Max(T) \in from .. j - 1
  BY <1>1, <1>2
<1>5. ASSUME NEW k \in Max(T) + 1 .. j - 1 PROVE map[arr[k]] <= part
  <2>1. k \in from .. j - 1 /\ ~ k <= Max(T)
    BY <1>8
  <2>2. ~ map[arr[k]] > part
    BY <1>2, <1>3, <2>1
  <2> QED
    BY <1>7, <2>1, <2>2
<1>6. Max(T) = from \/ map[arr[Max(T)]] > part
  BY <1>2, <1>4
<1> QED
  BY <1>1, <1>5, <1>6, <1>8

\* What holds between the rounds of the loop: in front of one scan are no counts below that of
\* the pivot, behind the other none above it.
Parting(map, arr, s, from, to) ==
    LET part == map[arr[from]]
    IN  /\ s.i \in from .. to /\ s.j \in from .. to + 1
        /\ Rearranged(arr, s.arr, from, to) /\ s.arr[from] = arr[from]
        /\ s.i < s.j => /\ \A k \in from + 1 .. s.i : map[s.arr[k]] >= part
                        /\ \A k \in s.j .. to : map[s.arr[k]] <= part
        /\ ~ s.i < s.j => /\ s.j <= to
                          /\ \A k \in from + 1 .. s.j : map[s.arr[k]] >= part
                          /\ \A k \in s.j + 1 .. to : map[s.arr[k]] <= part

LoopStates(K, N) == [arr : Arrays(N, K), i : Int, j : Int]

\* A round keeps this, and the scans come nearer to each other.
LEMMA RoundParts ==
    ASSUME NEW K, NEW map \in Maps(K), NEW N \in Nat, NEW arr \in Arrays(N, K),
           NEW from \in 1 .. N, NEW to \in from + 1 .. N, NEW s \in LoopStates(K, N),
           Parting(map, arr, s, from, to), s.i < s.j
    PROVE  LET r == Round(map, map[arr[from]], s, from, to)
           IN  /\ r \in LoopStates(K, N)
               /\ Parting(map, arr, r, from, to)
               /\ r.i < r.j => r.j - r.i < s.j - s.i
<1> DEFINE r == Round(map, map[arr[from]], s, from, to)
<1>1. PICK a, i, j, part : a = s.arr /\ i = s.i /\ j = s.j /\ part = map[arr[from]]
  OBVIOUS
<1>2. /\ a \in Arrays(N, K) /\ part \in Int /\ i \in Int /\ j \in Int /\ from \in Int /\ to \in Int
      /\ Rearranged(arr, a, from, to) /\ a[from] = arr[from]
      /\ \A k \in from + 1 .. i : map[a[k]] >= part
      /\ \A k \in j .. to : map[a[k]] <= part
  BY <1>1 DEF Parting, LoopStates, Arrays, Maps
<1>3. from <= i /\ i <= to /\ from < j /\ j <= to + 1 /\ i < j /\ 1 <= from /\ from < to /\ to <= N
  BY <1>1, <1>2 DEF Parting
<1>4. PICK up : up = ScanUp(map, a, i, to, part)
  OBVIOUS
<1>5. PICK down : down = ScanDown(map, a, j, from, part)
  OBVIOUS
<1>6. /\ up \in Int /\ i <= up /\ up <= to
      /\ \A k \in i + 1 .. up - 1 : map[a[k]] >= part
      /\ i < to => up > i /\ (up = to \/ map[a[up]] < part)
  <2>1. a \in Arrays(N, K) /\ part \in Int /\ to \in Int /\ to <= N /\ i \in Int /\ 1 <= i /\ i <= to
    BY <1>2, <1>3
  <2>2. HaltsAt(map, a, up, i, to, part)
    BY <1>4, <2>1, ScansUp
  <2> QED
    BY <1>2, <2>2 DEF HaltsAt
<1>7. /\ down \in Int /\ from <= down /\ down < j
      /\ \A k \in down + 1 .. j - 1 : map[a[k]] <= part
      /\ down = from \/ map[a[down]] > part
  <2>1. from \in 1 .. N /\ j \in from + 1 .. N + 1
    BY <1>2, <1>3
  <2>2. down \in from .. j - 1 /\ (\A k \in down + 1 .. j - 1 : map[a[k]] <= part)
        /\ (down = from \/ map[a[down]] > part)
    BY <1>2, <1>5, <2>1, ScansDown
  <2> QED
    BY <1>2, <2>2
<1>8. r = [arr |-> IF up < down THEN swap(a, up, down) ELSE a, i |-> up, j |-> down]
  BY <1>1, <1>4, <1>5 DEF Round
<1>9. \A k \in 1 .. N : map[a[k]] \in Int
  BY <1>2 DEF Arrays, Maps
<1> HIDE DEF r
<1>10. CASE up < down
  <2>1. i < up /\ up < to /\ from < down /\ down <= to /\ map[a[up]] < part /\ map[a[down]] > part
    BY <1>2, <1>3, <1>6, <1>7, <1>10
  <2>2. from .. to \subseteq 1 .. N /\ up \in from .. to /\ down \in from .. to
    BY <1>2, <1>3, <1>6, <1>7, <2>1
  <2>3. PICK b : b = swap(a, up, down)
    OBVIOUS
  <2>4. /\ b \in Arrays(N, K)
        /\ b = [k \in 1 .. N |-> IF k = down THEN a[up] ELSE IF k = up THEN a[down] ELSE a[k]]
        /\ Rearranged(a, b, from, to)
    <3>1. a \in Arrays(N, K) /\ from \in Int /\ to \in Int /\ 1 <= from /\ to <= N
      BY <1>2, <1>3
    <3> QED
      BY <2>2, <2>3, <3>1, Swapped
  <2>5. Rearranged(arr, b, from, to)
    <3>1. DOMAIN a = DOMAIN arr /\ DOMAIN b = DOMAIN arr /\ Rearranged(arr, a, from, to) /\ Rearranged(a, b, from, to)
      BY <1>2, <2>4 DEF Arrays
    <3> QED
      BY <3>1, RearrangedTwice
  <2>6. b[from] = arr[from]
    BY <1>2, <1>3, <2>1, <2>4
  <2>7. ASSUME NEW k \in from + 1 .. up PROVE map[b[k]] >= part
    <3>1. k \in 1 .. N /\ k # down
      BY <1>2, <1>3, <1>6, <1>10
    <3>2. CASE k = up
      <4>1. b[k] = a[down] /\ down \in 1 .. N
        BY <2>2, <2>4, <3>1, <3>2
      <4> QED
        BY <1>2, <1>9, <2>1, <4>1
    <3>3. CASE k # up
      <4>1. b[k] = a[k]
        BY <2>4, <3>1, <3>3
      <4>2. k \in from + 1 .. i \/ k \in i + 1 .. up - 1
        BY <1>2, <1>6, <3>3
      <4> QED
        BY <1>2, <1>6, <4>1, <4>2
    <3> QED
      BY <3>2, <3>3
  <2>8. ASSUME NEW k \in down .. to PROVE map[b[k]] <= part
    <3>1. k \in 1 .. N /\ k # up
      BY <1>2, <1>3, <1>7, <1>6, <1>10
    <3>2. CASE k = down
      <4>1. b[k] = a[up] /\ up \in 1 .. N
        BY <2>2, <2>4, <3>1, <3>2
      <4> QED
        BY <1>2, <1>9, <2>1, <4>1
    <3>3. CASE k # down
      <4>1. b[k] = a[k]
        BY <2>4, <3>1, <3>3
      <4>2. k \in j .. to \/ k \in down + 1 .. j - 1
        BY <1>2, <1>7, <3>3
      <4> QED
        BY <1>2, <1>7, <4>1, <4>2
    <3> QED
      BY <3>2, <3>3
  <2>9. r.arr = b /\ r.i = up /\ r.j = down
    BY <1>8, <1>10, <2>3
  <2>10. r \in LoopStates(K, N)
    BY <1>6, <1>7, <1>8, <1>10, <2>3, <2>4 DEF LoopStates
  <2>11. down \in from .. to + 1
    BY <1>2, <1>7, <2>1
  <2>12. Parting(map, arr, r, from, to)
    BY <1>1, <1>10, <2>2, <2>5, <2>6, <2>7, <2>8, <2>9, <2>11 DEF Parting
  <2>13. r.j - r.i < s.j - s.i
    <3>1. down - up < j - i
      BY <1>2, <1>6, <1>7, <2>1
    <3> QED
      BY <1>1, <2>9, <3>1
  <2> QED
    BY <2>10, <2>12, <2>13 DEF r
<1>11. CASE ~ up < down
  <2>1. r.arr = a /\ r.i = up /\ r.j = down /\ ~ r.i < r.j
    BY <1>8, <1>11
  <2>2. down <= to /\ up \in from .. to /\ down \in from .. to + 1
    BY <1>2, <1>3, <1>6, <1>7
  <2>3. ASSUME NEW k \in from + 1 .. down PROVE map[a[k]] >= part
    <3>1. CASE k \in from + 1 .. i
      BY <1>2, <3>1
    <3>2. CASE k \in i + 1 .. up - 1
      BY <1>6, <3>2
    <3>3. CASE k \notin from + 1 .. i /\ k \notin i + 1 .. up - 1
      <4>1. k = up /\ k = down /\ down # from
        BY <1>2, <1>6, <1>7, <1>11, <3>3
      <4>2. down \in 1 .. N
        BY <1>2, <1>3, <1>7, <2>2
      <4>3. map[a[down]] > part /\ map[a[down]] \in Int
        BY <1>7, <1>9, <4>1, <4>2
      <4> QED
        BY <1>2, <4>1, <4>3
    <3> QED
      BY <3>1, <3>2, <3>3
  <2>4. ASSUME NEW k \in down + 1 .. to PROVE map[a[k]] <= part
    <3>1. k \in j .. to \/ k \in down + 1 .. j - 1
      BY <1>2, <1>7
    <3> QED
      BY <1>2, <1>7, <3>1
  <2>5. r \in LoopStates(K, N)
    BY <1>2, <1>6, <1>7, <1>8, <1>11 DEF LoopStates
  <2>6. Parting(map, arr, r, from, to)
    BY <1>1, <1>2, <2>1, <2>2, <2>3, <2>4 DEF Parting
  <2> QED
    BY <2>1, <2>5, <2>6 DEF r
<1> QED
  BY <1>10, <1>11

\* The array is parted at a place: in front of it are no lower counts, behind it no higher ones.
Parted(map, arr, p, from, to) ==
    /\ p.at \in from .. to
    /\ Rearranged(arr, p.arr, from, to)
    /\ \A k \in from .. p.at : map[p.arr[k]] >= map[p.arr[p.at]]
    /\ \A k \in p.at .. to : map[p.arr[k]] <= map[p.arr[p.at]]

\* The loop ends, and leaves the array parted.
LEMMA Partitioned ==
    ASSUME NEW K, NEW map \in Maps(K), NEW N \in Nat, NEW arr \in Arrays(N, K),
           NEW from \in 1 .. N, NEW to \in from + 1 .. N
    PROVE  LET p == Partition(map, arr, from, to)
           IN  p.arr \in Arrays(N, K) /\ Parted(map, arr, p, from, to)
<1> DEFINE part  == map[arr[from]]
           first == [arr |-> arr, i |-> from, j |-> to + 1]
           Going(s) == IF s.i < s.j THEN Round(map, part, s, from, to) ELSE s
           Good  == {s \in LoopStates(K, N) : Parting(map, arr, s, from, to)}
           M     == to - from + 1
           Loop(f) == f = [n \in 0 .. M |-> IF n = 0 THEN first ELSE Going(f[n - 1])]
           loop  == CHOOSE f : Loop(f)
<1>1. M \in Nat /\ part \in Int
  BY DEF Arrays, Maps
<1>2. first \in Good
  <2>1. first \in LoopStates(K, N)
    BY DEF LoopStates
  <2>2. Parting(map, arr, first, from, to)
    BY RearrangedNot DEF Parting
  <2> QED
    BY <2>1, <2>2
<1>3. ASSUME NEW s \in Good PROVE Going(s) \in Good /\ (Going(s).i < Going(s).j => s.i < s.j /\ Going(s).j - Going(s).i < s.j - s.i)
  BY RoundParts
<1>4. \E f \in [0 .. M -> Good] : Loop(f)
  <2> DEFINE round == [x \in Good \X (1 .. M) |-> Going(x[1])]
  <2> HIDE DEF Good, Going, first, M
  <2>1. round \in Rounds(Good, M)
    BY <1>3 DEF Rounds
  <2>2. \A s \in Good : \A n \in 1 .. M : round[<<s, n>>] = Going(s)
    OBVIOUS
  <2> HIDE DEF round
  <2>3. PICK f : IsLoop(f, Good, first, M, round)
    BY <1>1, <1>2, <2>1, LoopsExist
  <2>4. \A n \in 0 .. M : n # 0 => n \in 1 .. M /\ f[n - 1] \in Good
    <3>1. f \in [0 .. M -> Good] /\ M \in Nat
      BY <1>1, <2>3 DEF IsLoop
    <3> QED
      BY <3>1
  <2>5. \A n \in 0 .. M : (IF n = 0 THEN first ELSE round[<<f[n - 1], n>>]) = IF n = 0 THEN first ELSE Going(f[n - 1])
    BY <2>2, <2>4
  <2>6. Loop(f)
    BY <2>3, <2>5 DEF IsLoop
  <2> QED
    BY <2>3, <2>6 DEF IsLoop
<1>5. Loop(loop)
  <2> HIDE DEF Loop
  <2> QED
    BY <1>4, Zenon
<1>6. Partition(map, arr, from, to) = [arr |-> swap(loop[M].arr, from, loop[M].j), at |-> loop[M].j]
  BY DEF Partition
<1> HIDE DEF loop, Good, Going, first, M, part
<1>7. loop[0] = first /\ \A n \in Nat : n + 1 <= M => loop[n + 1] = Going(loop[n])
  BY <1>1, <1>5
<1>8. Nat \subseteq {n \in Nat : n <= M => loop[n] \in Good /\ (loop[n].i < loop[n].j => loop[n].j - loop[n].i <= M - n)}
  <2> DEFINE T == {n \in Nat : n <= M => loop[n] \in Good /\ (loop[n].i < loop[n].j => loop[n].j - loop[n].i <= M - n)}
  <2>1. 0 \in T
    <3>1. first.i = from /\ first.j = to + 1 /\ M = to - from + 1
      BY DEF first, M
    <3> QED
      BY <1>1, <1>2, <1>7, <3>1
  <2>2. ASSUME NEW n \in Nat, n \in T PROVE n + 1 \in T
    <3>1. SUFFICES ASSUME n + 1 <= M
                   PROVE  LET s == loop[n + 1] IN s \in Good /\ (s.i < s.j => s.j - s.i <= M - (n + 1))
      OBVIOUS
    <3>2. loop[n] \in Good /\ (loop[n].i < loop[n].j => loop[n].j - loop[n].i <= M - n)
      BY <1>1, <2>2, <3>1
    <3>3. PICK s : s = loop[n]
      OBVIOUS
    <3>4. PICK r : r = Going(s)
      OBVIOUS
    <3>5. loop[n + 1] = r
      BY <1>7, <3>1, <3>3, <3>4
    <3>6. s \in Good /\ r \in Good /\ (r.i < r.j => s.i < s.j /\ r.j - r.i < s.j - s.i) /\ (s.i < s.j => s.j - s.i <= M - n)
      BY <1>3, <3>2, <3>3, <3>4
    <3>7. s.i \in Int /\ s.j \in Int /\ r.i \in Int /\ r.j \in Int
      BY <3>6 DEF Good, LoopStates
    <3> QED
      BY <1>1, <3>5, <3>6, <3>7
  <2> HIDE DEF T
  <2>3. Nat \subseteq T
    BY <2>1, <2>2, CountsUp
  <2> QED
    BY <2>3 DEF T
<1>9. PICK s : s = loop[M]
  OBVIOUS
<1>10. s \in Good /\ ~ s.i < s.j
  <2>1. s \in Good /\ (s.i < s.j => s.j - s.i <= 0)
    BY <1>1, <1>8, <1>9
  <2>2. s.i \in Int /\ s.j \in Int
    BY <2>1 DEF Good, LoopStates
  <2> QED
    BY <2>1, <2>2
<1>11. PICK a, mid : a = s.arr /\ mid = s.j
  OBVIOUS
<1>12. /\ a \in Arrays(N, K) /\ mid \in from .. to
       /\ Rearranged(arr, a, from, to) /\ a[from] = arr[from]
       /\ \A k \in from + 1 .. mid : map[a[k]] >= part
       /\ \A k \in mid + 1 .. to : map[a[k]] <= part
  BY <1>10, <1>11 DEF Good, LoopStates, Parting, part
<1>13. PICK b : b = swap(a, from, mid)
  OBVIOUS
<1>14. /\ b \in Arrays(N, K)
       /\ b = [k \in 1 .. N |-> IF k = mid THEN a[from] ELSE IF k = from THEN a[mid] ELSE a[k]]
       /\ Rearranged(a, b, from, to)
  <2>1. a \in Arrays(N, K) /\ mid \in from .. to /\ from \in from .. to /\ 1 <= from /\ from \in Int /\ to <= N /\ to \in Int
    BY <1>12
  <2> QED
    BY <1>13, <2>1, Swapped
<1>15. Rearranged(arr, b, from, to)
  <2>1. DOMAIN a = DOMAIN arr /\ DOMAIN b = DOMAIN arr
    BY <1>12, <1>14 DEF Arrays
  <2> QED
    BY <1>12, <1>14, <2>1, RearrangedTwice
<1>16. map[b[mid]] = part /\ part \in Int
  BY <1>1, <1>12, <1>14 DEF part
<1>17. ASSUME NEW k \in from .. mid PROVE map[b[k]] >= part
  <2>1. k \in 1 .. N
    BY <1>12
  <2>2. CASE k = mid
    BY <1>16, <2>2
  <2>3. CASE k # mid /\ k = from
    <3>1. b[k] = a[mid] /\ mid \in from + 1 .. mid
      BY <1>12, <1>14, <2>1, <2>3
    <3> QED
      BY <1>12, <3>1
  <2>4. CASE k # mid /\ k # from
    <3>1. b[k] = a[k] /\ k \in from + 1 .. mid
      BY <1>12, <1>14, <2>1, <2>4
    <3> QED
      BY <1>12, <3>1
  <2> QED
    BY <2>2, <2>3, <2>4
<1>18. ASSUME NEW k \in mid .. to PROVE map[b[k]] <= part
  <2>1. k \in 1 .. N
    BY <1>12
  <2>2. CASE k = mid
    BY <1>16, <2>2
  <2>3. CASE k # mid
    <3>1. b[k] = a[k] /\ k \in mid + 1 .. to
      BY <1>12, <1>14, <2>1, <2>3
    <3> QED
      BY <1>12, <3>1
  <2> QED
    BY <2>2, <2>3
<1>19. PICK p : p = Partition(map, arr, from, to)
  OBVIOUS
<1>20. p.arr = b /\ p.at = mid
  BY <1>13, <1>6, <1>9, <1>19, <1>11
<1>21. Parted(map, arr, p, from, to)
  BY <1>12, <1>15, <1>16, <1>17, <1>18, <1>20 DEF Parted
<1> QED
  BY <1>14, <1>19, <1>20, <1>21

\* The part of an array between two places is sorted, all else as it was.
Sorted(map, a, b, from, to) ==
    /\ Rearranged(a, b, from, to)
    /\ \A k, l \in from .. to : k < l => map[b[k]] >= map[b[l]]

\* An array that is parted, and sorted on both sides, is sorted.
LEMMA SortedAround ==
    ASSUME NEW N \in Nat, NEW K, NEW map \in Maps(K), NEW arr \in Arrays(N, K),
           NEW from \in Int, 1 <= from, NEW to \in Int, to <= N, NEW p, p.arr \in Arrays(N, K),
           NEW left \in Arrays(N, K), NEW right \in Arrays(N, K), Parted(map, arr, p, from, to),
           Sorted(map, p.arr, left, from, p.at - 1), Sorted(map, left, right, p.at + 1, to)
    PROVE  Sorted(map, arr, right, from, to)
<1>1. PICK a, mid : a = p.arr /\ mid = p.at
  OBVIOUS
<1>2. /\ mid \in Int /\ from <= mid /\ mid <= to /\ a \in Arrays(N, K)
      /\ Rearranged(arr, a, from, to)
      /\ \A k \in from .. mid : map[a[k]] >= map[a[mid]]
      /\ \A k \in mid .. to : map[a[k]] <= map[a[mid]]
  BY <1>1 DEF Parted
<1>3. Rearranged(a, left, from, mid - 1) /\ Rearranged(left, right, mid + 1, to)
  BY <1>1 DEF Sorted
<1>4. /\ DOMAIN arr = 1 .. N /\ DOMAIN a = 1 .. N /\ DOMAIN left = 1 .. N /\ DOMAIN right = 1 .. N
      /\ \A k \in 1 .. N : map[a[k]] \in Int
  BY <1>2 DEF Arrays, Maps
<1>5. Rearranged(arr, right, from, to)
  <2>1. Rearranged(a, left, from, to)
    BY <1>2, <1>3, <1>4, RearrangedWithin
  <2>2. Rearranged(left, right, from, to)
    BY <1>2, <1>3, <1>4, RearrangedWithin
  <2>3. Rearranged(arr, left, from, to)
    BY <1>2, <1>4, <2>1, RearrangedTwice
  <2> QED
    BY <1>4, <2>2, <2>3, RearrangedTwice
<1>6. mid \in 1 .. N /\ right[mid] = a[mid]
  <2>1. mid \in 1 .. N /\ mid \notin from .. mid - 1 /\ mid \notin mid + 1 .. to
    BY <1>2
  <2>2. left[mid] = a[mid]
    BY <1>3, <1>4, <2>1 DEF Rearranged
  <2> QED
    BY <1>3, <1>4, <2>1, <2>2 DEF Rearranged
<1>7. ASSUME NEW k \in from .. mid - 1 PROVE right[k] = left[k] /\ map[right[k]] >= map[a[mid]] /\ map[right[k]] \in Int
  <2>1. k \in 1 .. N /\ k \notin mid + 1 .. to
    BY <1>2
  <2>2. right[k] = left[k]
    BY <1>3, <1>4, <2>1 DEF Rearranged
  <2>3. PICK l \in from .. mid - 1 : left[k] = a[l]
    BY <1>3 DEF Rearranged
  <2>4. l \in from .. mid /\ l \in 1 .. N
    BY <1>2
  <2> QED
    BY <1>2, <1>4, <2>2, <2>3, <2>4
<1>8. ASSUME NEW k \in mid + 1 .. to PROVE map[right[k]] <= map[a[mid]] /\ map[right[k]] \in Int
  <2>1. PICK l \in mid + 1 .. to : right[k] = left[l]
    BY <1>3 DEF Rearranged
  <2>2. l \in mid .. to /\ l \in 1 .. N /\ l \notin from .. mid - 1
    BY <1>2
  <2>3. left[l] = a[l]
    BY <1>3, <1>4, <2>2 DEF Rearranged
  <2> QED
    BY <1>2, <1>4, <2>1, <2>2, <2>3
<1>9. ASSUME NEW k \in from .. to, NEW l \in from .. to, k < l PROVE map[right[k]] >= map[right[l]]
  <2>1. map[a[mid]] \in Int
    BY <1>4, <1>6
  <2>2. CASE l < mid
    <3>1. k \in from .. mid - 1 /\ l \in from .. mid - 1
      BY <1>2, <1>9, <2>2
    <3>2. map[left[k]] >= map[left[l]]
      BY <1>1, <1>9, <3>1 DEF Sorted
    <3> QED
      BY <1>7, <3>1, <3>2
  <2>3. CASE mid < k
    <3>1. k \in mid + 1 .. to /\ l \in mid + 1 .. to
      BY <1>2, <1>9, <2>3
    <3> QED
      BY <1>1, <1>9, <3>1 DEF Sorted
  <2>4. CASE ~ l < mid /\ ~ mid < k
    <3>1. (k = mid \/ k \in from .. mid - 1) /\ (l = mid \/ l \in mid + 1 .. to)
      BY <1>2, <2>4
    <3>2. map[right[k]] >= map[a[mid]] /\ map[right[k]] \in Int
      BY <1>6, <1>7, <2>1, <3>1
    <3>3. map[right[l]] <= map[a[mid]] /\ map[right[l]] \in Int
      BY <1>6, <1>8, <2>1, <3>1
    <3> QED
      BY <2>1, <3>2, <3>3
  <2> QED
    BY <1>2, <2>2, <2>3, <2>4
<1> QED
  BY <1>5, <1>9 DEF Sorted

Calls(N, K) == [arr : Arrays(N, K), start : 1 .. N + 1, end : 0 .. N]

\* What a call does, where f is what the calls in it do.
Sorting(map, f, c) ==
    IF c.start >= c.end THEN c.arr
    ELSE LET parted == Partition(map, c.arr, c.start, c.end)
             left   == f[Call(parted.arr, c.start, parted.at - 1)]
         IN  f[Call(left, parted.at + 1, c.end)]

\* Calls for parts up to a length are made and sort.
Sorts(map, N, K, f, n) ==
    \A c \in Calls(N, K) : c.end - c.start <= n =>
        /\ f[c] = Sorting(map, f, c)
        /\ f[c] \in Arrays(N, K) /\ Sorted(map, c.arr, f[c], c.start, c.end)

\* A call sorts if the shorter calls in it do, and does not depend on others.
LEMMA CallSorts ==
    ASSUME NEW N \in Nat, NEW K, NEW map \in Maps(K), NEW f, NEW n \in Nat, Sorts(map, N, K, f, n),
           NEW c \in Calls(N, K), c.end - c.start <= n + 1,
           NEW g, \A d \in Calls(N, K) : g[d] = Sorting(map, f, d) \/ g[d] = f[d]
    PROVE  /\ Sorting(map, g, c) = Sorting(map, f, c)
           /\ Sorting(map, f, c) \in Arrays(N, K)
           /\ Sorted(map, c.arr, Sorting(map, f, c), c.start, c.end)
<1>1. PICK arr, from, to : arr = c.arr /\ from = c.start /\ to = c.end
  OBVIOUS
<1>2. arr \in Arrays(N, K) /\ from \in 1 .. N + 1 /\ to \in 0 .. N /\ to - from <= n + 1
  BY <1>1 DEF Calls
<1>3. CASE from >= to
  <2>1. Sorting(map, f, c) = arr /\ Sorting(map, g, c) = arr
    BY <1>1, <1>3 DEF Sorting
  <2>2. Sorted(map, arr, arr, from, to)
    <3>1. \A k, l \in from .. to : ~ k < l
      BY <1>2, <1>3
    <3> QED
      BY <3>1, RearrangedNot DEF Sorted
  <2> QED
    BY <1>1, <1>2, <2>1, <2>2
<1>4. CASE ~ from >= to
  <2>1. PICK p : p = Partition(map, arr, from, to)
    OBVIOUS
  <2>2. p.arr \in Arrays(N, K) /\ Parted(map, arr, p, from, to)
    <3>1. from \in 1 .. N /\ to \in from + 1 .. N
      BY <1>2, <1>4
    <3> QED
      BY <1>2, <2>1, <3>1, Partitioned
  <2>3. p.at \in Int /\ from <= p.at /\ p.at <= to
    BY <1>2, <2>2 DEF Parted
  <2>4. ASSUME NEW d \in Calls(N, K), d.end - d.start <= n
        PROVE  g[d] = f[d] /\ f[d] \in Arrays(N, K) /\ Sorted(map, d.arr, f[d], d.start, d.end)
    BY <2>4 DEF Sorts
  <2>5. PICK c1 : c1 = Call(p.arr, from, p.at - 1)
    OBVIOUS
  <2>6. /\ c1 \in Calls(N, K) /\ c1.end - c1.start <= n
        /\ c1.arr = p.arr /\ c1.start = from /\ c1.end = p.at - 1
    BY <1>2, <2>2, <2>3, <2>5 DEF Call, Calls
  <2>7. PICK left : left = f[c1]
    OBVIOUS
  <2>8. g[c1] = left /\ left \in Arrays(N, K) /\ Sorted(map, p.arr, left, from, p.at - 1)
    BY <2>4, <2>6, <2>7
  <2>9. PICK c2 : c2 = Call(left, p.at + 1, to)
    OBVIOUS
  <2>10. /\ c2 \in Calls(N, K) /\ c2.end - c2.start <= n
         /\ c2.arr = left /\ c2.start = p.at + 1 /\ c2.end = to
    BY <1>2, <2>3, <2>8, <2>9 DEF Call, Calls
  <2>11. PICK right : right = f[c2]
    OBVIOUS
  <2>12. g[c2] = right /\ right \in Arrays(N, K) /\ Sorted(map, left, right, p.at + 1, to)
    BY <2>4, <2>10, <2>11
  <2>13. Sorting(map, f, c) = right /\ Sorting(map, g, c) = right
    BY <1>1, <1>4, <2>1, <2>5, <2>7, <2>8, <2>9, <2>11, <2>12 DEF Sorting
  <2>14. Sorted(map, arr, right, from, to)
    <3>1. from \in Int /\ 1 <= from /\ to \in Int /\ to <= N
      BY <1>2
    <3> QED
      BY <1>2, <2>2, <2>8, <2>12, <3>1, SortedAround
  <2> QED
    BY <1>1, <2>12, <2>13, <2>14
<1> QED
  BY <1>3, <1>4

\* So there is a function that is what all calls do.
LEMMA CallsEnd ==
    ASSUME NEW N \in Nat, NEW K, NEW map \in Maps(K)
    PROVE  \E f : f = [c \in Calls(N, K) |-> Sorting(map, f, c)]
<1> DEFINE T == {n \in Nat : \E f : Sorts(map, N, K, f, n)}
<1>1. 0 \in T
  <2>1. PICK f : f = [c \in Calls(N, K) |-> c.arr]
    OBVIOUS
  <2>2. ASSUME NEW c \in Calls(N, K), c.end - c.start <= 0
        PROVE  /\ f[c] = Sorting(map, f, c)
               /\ f[c] \in Arrays(N, K) /\ Sorted(map, c.arr, f[c], c.start, c.end)
    <3>1. c.start >= c.end /\ c.arr \in Arrays(N, K) /\ c.start \in Int /\ c.end \in Int
      BY <2>2 DEF Calls
    <3>2. f[c] = c.arr /\ f[c] = Sorting(map, f, c)
      BY <2>1, <3>1 DEF Sorting
    <3>3. \A k, l \in c.start .. c.end : ~ k < l
      BY <3>1
    <3> QED
      BY <3>1, <3>2, <3>3, RearrangedNot DEF Sorted
  <2>3. Sorts(map, N, K, f, 0)
    BY <2>2 DEF Sorts
  <2> QED
    BY <2>3
<1>2. ASSUME NEW n \in Nat, n \in T PROVE n + 1 \in T
  <2>1. PICK f : Sorts(map, N, K, f, n)
    BY <1>2
  <2>2. PICK g : g = [c \in Calls(N, K) |-> Sorting(map, f, c)]
    OBVIOUS
  <2>3. \A c \in Calls(N, K) : g[c] = Sorting(map, f, c)
    BY <2>2
  <2>4. ASSUME NEW c \in Calls(N, K), c.end - c.start <= n + 1
        PROVE  /\ g[c] = Sorting(map, g, c)
               /\ g[c] \in Arrays(N, K) /\ Sorted(map, c.arr, g[c], c.start, c.end)
    BY <2>1, <2>3, <2>4, CallSorts
  <2>5. Sorts(map, N, K, g, n + 1)
    BY <2>4 DEF Sorts
  <2> QED
    BY <2>5
<1> HIDE DEF T
<1>3. N \in T
  BY <1>1, <1>2, CountsUp
<1>4. PICK f : Sorts(map, N, K, f, N)
  BY <1>3 DEF T
<1>5. PICK g : g = [c \in Calls(N, K) |-> f[c]]
  OBVIOUS
<1>6. \A d \in Calls(N, K) : g[d] = f[d]
  BY <1>5
<1>7. ASSUME NEW c \in Calls(N, K) PROVE f[c] = Sorting(map, g, c)
  <2>1. c.end - c.start <= N /\ c.end - c.start <= N + 1
    BY DEF Calls
  <2>2. Sorting(map, g, c) = Sorting(map, f, c)
    BY <1>4, <1>6, <2>1, CallSorts
  <2>3. f[c] = Sorting(map, f, c)
    BY <1>4, <2>1 DEF Sorts
  <2> QED
    BY <2>2, <2>3
<1>8. g = [c \in Calls(N, K) |-> Sorting(map, g, c)]
  BY <1>5, <1>7
<1> QED
  BY <1>8

\* quickSort puts the keys in order of their counts, the highest first.
LEMMA QuickSortSorts ==
    ASSUME NEW N \in Nat, NEW K, NEW map \in Maps(K), NEW arr \in Arrays(N, K)
    PROVE  /\ quickSort(map, arr, 1, N) \in Arrays(N, K)
           /\ Sorted(map, arr, quickSort(map, arr, 1, N), 1, N)
<1> DEFINE Ends(f) == f = [c \in Calls(N, K) |-> Sorting(map, f, c)]
           sort == CHOOSE f : Ends(f)
<1>1. DOMAIN arr = 1 .. N /\ Len(arr) = N /\ DOMAIN map = K
  <2>1. arr \in Seq(K)
    BY DEF Arrays
  <2>2. DOMAIN arr = 1 .. N /\ DOMAIN arr = 1 .. Len(arr) /\ Len(arr) \in Nat
    BY <2>1 DEF Arrays
  <2>3. Len(arr) = N
    BY <2>1 DEF Arrays
  <2> QED
    BY <2>2, <2>3 DEF Maps
<1>2. [arr : [DOMAIN arr -> DOMAIN map], start : 1 .. Len(arr) + 1, end : 0 .. Len(arr)] = Calls(N, K)
  BY <1>1 DEF Calls, Arrays
<1>3. quickSort(map, arr, 1, N) = sort[Call(arr, 1, N)]
  BY <1>2 DEF quickSort, Sorting
<1>4. \E f : Ends(f)
  BY CallsEnd
<1> HIDE DEF Ends
<1>5. Ends(sort)
  BY <1>4, Zenon
<1> HIDE DEF sort
<1>6. \A c \in Calls(N, K) : sort[c] = Sorting(map, sort, c)
  BY <1>5 DEF Ends
<1> DEFINE T == {n \in Nat : Sorts(map, N, K, sort, n)}
<1>7. 0 \in T
  <2>1. ASSUME NEW c \in Calls(N, K), c.end - c.start <= 0
        PROVE  /\ sort[c] = Sorting(map, sort, c)
               /\ sort[c] \in Arrays(N, K) /\ Sorted(map, c.arr, sort[c], c.start, c.end)
    <3>1. c.start >= c.end /\ c.arr \in Arrays(N, K) /\ c.start \in Int /\ c.end \in Int
      BY <2>1 DEF Calls
    <3>2. sort[c] = c.arr /\ sort[c] = Sorting(map, sort, c)
      BY <1>6, <3>1 DEF Sorting
    <3>3. \A k, l \in c.start .. c.end : ~ k < l
      BY <3>1
    <3> QED
      BY <3>1, <3>2, <3>3, RearrangedNot DEF Sorted
  <2>2. Sorts(map, N, K, sort, 0)
    BY <2>1 DEF Sorts
  <2> QED
    BY <2>2
<1>8. ASSUME NEW n \in Nat, n \in T PROVE n + 1 \in T
  <2>1. Sorts(map, N, K, sort, n)
    BY <1>8
  <2>2. ASSUME NEW c \in Calls(N, K), c.end - c.start <= n + 1
        PROVE  /\ sort[c] = Sorting(map, sort, c)
               /\ sort[c] \in Arrays(N, K) /\ Sorted(map, c.arr, sort[c], c.start, c.end)
    BY <1>6, <2>1, <2>2, CallSorts
  <2>3. Sorts(map, N, K, sort, n + 1)
    BY <2>2 DEF Sorts
  <2> QED
    BY <2>3
<1> HIDE DEF T
<1>9. N \in T
  BY <1>7, <1>8, CountsUp
<1>10. PICK c : c = Call(arr, 1, N)
  OBVIOUS
<1>11. c \in Calls(N, K) /\ c.arr = arr /\ c.start = 1 /\ c.end = N
  BY <1>10 DEF Calls, Call
<1>12. Sorts(map, N, K, sort, N) /\ c.end - c.start <= N
  BY <1>9, <1>11 DEF T
<1>13. sort[c] \in Arrays(N, K) /\ Sorted(map, arr, sort[c], 1, N)
  BY <1>11, <1>12 DEF Sorts
<1> QED
  BY <1>3, <1>10, <1>13

-----------------------------------------------------------------------------
(* Texts and tags. *)

\* Characters: those that are typed are strings too, which the provers do not know of a literal.
Character == STRING \cup {"a", "b", Space, Tab, Comma, WideComma}
Text == Seq(Character)

\* Texts without a comma, and lists of tags that are all different and not empty.
Word == {w \in Text : \A i \in 1 .. Len(w) : w[i] # Comma}
TagList == {list \in Seq(Word) : IsInjective(list) /\ \A i \in 1 .. Len(list) : list[i] # <<>>}

\* Words may be empty or longer by a character that is no comma.
LEMMA Empty == <<>> \in Word
  BY EmptySeq DEF Word, Text

LEMMA Longer ==
    ASSUME NEW w \in Word, NEW c \in Character, c # Comma
    PROVE  Append(w, c) \in Word
<1>1. w \in Seq(Character) /\ \A i \in 1 .. Len(w) : w[i] # Comma
  BY DEF Word, Text
<1>2. /\ Append(w, c) \in Seq(Character) /\ Len(Append(w, c)) = Len(w) + 1 /\ Len(w) \in Nat
      /\ \A i \in 1 .. Len(w) : Append(w, c)[i] = w[i]
      /\ Append(w, c)[Len(w) + 1] = c
  BY <1>1, AppendProperties, LenProperties
<1>3. PICK v : v = Append(w, c)
  OBVIOUS
<1>4. ASSUME NEW i \in 1 .. Len(v) PROVE v[i] # Comma
  <2>1. i \in 1 .. Len(w) \/ i = Len(w) + 1
    BY <1>2, <1>3
  <2> QED
    BY <1>1, <1>2, <1>3, <2>1
<1> QED
  BY <1>2, <1>3, <1>4 DEF Word, Text

\* What is cleaned of a text without commas has none.
LEMMA TrimmedWord ==
    ASSUME NEW w \in Word
    PROVE  Trimmed(w) \in Word
<1> DEFINE inner == {i \in DOMAIN w : ~ isBlank(w[i])}
<1>1. w \in Seq(Character) /\ (\A i \in 1 .. Len(w) : w[i] # Comma) /\ Len(w) \in Nat /\ DOMAIN w = 1 .. Len(w)
  BY LenProperties DEF Word, Text
<1>2. CASE inner = {}
  BY <1>2, Empty DEF Trimmed
<1>3. CASE inner # {}
  <2>1. inner \subseteq 0 .. Len(w) /\ inner \subseteq Nat /\ inner \subseteq 1 .. Len(w)
    BY <1>1
  <2>2. Trimmed(w) = SubSeq(w, Min(inner), Max(inner))
    BY <1>3 DEF Trimmed
  <2> HIDE DEF inner
  <2>3. Min(inner) \in inner /\ Max(inner) \in inner
    BY <1>1, <1>3, <2>1, MinIs, MaxIs
  <2>4. PICK m, n : m = Min(inner) /\ n = Max(inner)
    OBVIOUS
  <2>5. m \in 1 .. Len(w) /\ n \in 1 .. Len(w)
    BY <2>1, <2>3, <2>4
  <2>6. \A i \in m .. n : w[i] \in Character
    BY <1>1, <2>5, ElementOfSeq
  <2>7. /\ SubSeq(w, m, n) \in Seq(Character)
        /\ Len(SubSeq(w, m, n)) = IF m <= n THEN n - m + 1 ELSE 0
        /\ \A i \in 1 .. n - m + 1 : SubSeq(w, m, n)[i] = w[m + i - 1]
    BY <2>5, <2>6, SubSeqProperties
  <2>8. ASSUME NEW i \in 1 .. Len(SubSeq(w, m, n)) PROVE SubSeq(w, m, n)[i] # Comma
    <3>1. i \in 1 .. n - m + 1 /\ m + i - 1 \in 1 .. Len(w)
      BY <2>5, <2>7
    <3> QED
      BY <1>1, <2>7, <3>1
  <2> QED
    BY <2>2, <2>4, <2>7, <2>8 DEF Word, Text
<1> QED
  BY <1>2, <1>3

\* What compressBlank does with a character, and its states.
CompressStep(str, text, n) ==
    IF ~ isBlank(str[n]) THEN Append(text, str[n])
    ELSE IF n < Len(str) /\ ~ isBlank(str[n + 1]) THEN Append(text, Space)
    ELSE text

IsCompressing(texts, str) ==
    /\ texts \in [0 .. Len(str) -> Word] /\ texts[0] = <<>>
    /\ \A n \in 1 .. Len(str) : texts[n] = CompressStep(str, texts[n - 1], n)

LEMMA Compressing ==
    ASSUME NEW w \in Word
    PROVE  \E texts : IsCompressing(texts, Trimmed(w)) /\ compressBlank(w) = texts[Len(Trimmed(w))]
<1> DEFINE Loop(str, f) == f = [n \in 0 .. Len(str) |-> IF n = 0 THEN <<>> ELSE CompressStep(str, f[n - 1], n)]
<1>1. PICK str \in Word : str = Trimmed(w)
  BY TrimmedWord
<1>2. str \in Seq(Character) /\ (\A i \in 1 .. Len(str) : str[i] # Comma) /\ Len(str) \in Nat
  BY LenProperties DEF Word, Text
<1>3. \A i \in 1 .. Len(str) : str[i] \in Character
  BY <1>2, ElementOfSeq
<1>4. Space \in Character /\ Space # Comma
  BY DEF Character, Space, Comma
<1> DEFINE str_bu == CHOOSE f : Loop(str, f)
<1>5. compressBlank(w) = str_bu[Len(str)]
  BY <1>1 DEF compressBlank, CompressStep
<1>6. ASSUME NEW text \in Word, NEW n \in 1 .. Len(str) PROVE CompressStep(str, text, n) \in Word
  BY <1>2, <1>3, <1>4, Longer DEF CompressStep
<1>7. \E f : Loop(str, f)
  <2> DEFINE round == [x \in Word \X (1 .. Len(str)) |-> CompressStep(str, x[1], x[2])]
  <2>1. round \in Rounds(Word, Len(str))
    BY <1>6 DEF Rounds
  <2>2. \A text \in Word : \A n \in 1 .. Len(str) : round[<<text, n>>] = CompressStep(str, text, n)
    OBVIOUS
  <2> HIDE DEF round
  <2>3. PICK f : IsLoop(f, Word, <<>>, Len(str), round)
    BY <1>2, <2>1, Empty, LoopsExist
  <2>4. \A n \in 0 .. Len(str) : n # 0 => n \in 1 .. Len(str) /\ f[n - 1] \in Word
    <3>1. f \in [0 .. Len(str) -> Word] /\ Len(str) \in Nat
      BY <1>2, <2>3 DEF IsLoop
    <3> QED
      BY <3>1
  <2>5. \A n \in 0 .. Len(str) : (IF n = 0 THEN <<>> ELSE round[<<f[n - 1], n>>])
                                 = IF n = 0 THEN <<>> ELSE CompressStep(str, f[n - 1], n)
    BY <2>2, <2>4
  <2>6. Loop(str, f)
    BY <2>3, <2>5 DEF IsLoop
  <2> QED
    BY <2>6
<1>8. Loop(str, str_bu)
  <2> HIDE DEF Loop
  <2> QED
    BY <1>7, Zenon
<1> HIDE DEF str_bu
<1>9. str_bu[0] = <<>> /\ \A n \in 1 .. Len(str) : str_bu[n] = CompressStep(str, str_bu[n - 1], n)
  <2>1. Len(str) \in Nat
    BY <1>2
  <2> QED
    BY <1>8, <2>1
<1>10. \A n \in 0 .. Len(str) : str_bu[n] \in Word
  <2>1. \A n \in 1 .. Len(str) : str_bu[n - 1] \in Word => str_bu[n] \in Word
    BY <1>6, <1>9
  <2> QED
    BY <1>2, <1>9, <2>1, Empty, LoopStays
<1>11. str_bu = [n \in 0 .. Len(str) |-> str_bu[n]]
  BY <1>8
<1>12. IsCompressing(str_bu, str)
  BY <1>9, <1>10, <1>11 DEF IsCompressing
<1> QED
  BY <1>1, <1>5, <1>12

LEMMA CompressedWord ==
    ASSUME NEW w \in Word
    PROVE  compressBlank(w) \in Word
<1>1. PICK str \in Word : str = Trimmed(w)
  BY TrimmedWord
<1>2. Len(str) \in Nat
  BY LenProperties DEF Word, Text
<1>3. PICK texts : IsCompressing(texts, str) /\ compressBlank(w) = texts[Len(str)]
  BY <1>1, Compressing
<1> QED
  BY <1>2, <1>3 DEF IsCompressing

\* What is left of a text when it is cut at commas, and what the next character does.
Parts == {parts \in Seq(Word) : parts # <<>>}

SplitStep(parts, c) ==
    IF c = Comma THEN Append(parts, <<>>) ELSE [parts EXCEPT ![Len(parts)] = Append(@, c)]

\* The parts are texts without commas; there is one at least.
LEMMA PartsStay ==
    ASSUME NEW parts \in Parts, NEW c \in Character
    PROVE  SplitStep(parts, c) \in Parts
<1>1. parts \in Seq(Word) /\ Len(parts) \in Nat \ {0}
  BY EmptySeq DEF Parts
<1>2. CASE c = Comma
  <2>1. Append(parts, <<>>) \in Seq(Word) /\ Append(parts, <<>>) # <<>>
    BY <1>1, Empty, AppendProperties
  <2> QED
    BY <1>2, <2>1 DEF SplitStep, Parts
<1>3. CASE c # Comma
  <2>1. Len(parts) \in 1 .. Len(parts)
    BY <1>1
  <2>2. parts[Len(parts)] \in Word
    BY <1>1, <2>1, ElementOfSeq
  <2>3. Append(parts[Len(parts)], c) \in Word
    BY <1>3, <2>2, Longer
  <2>4. PICK more : more = [parts EXCEPT ![Len(parts)] = Append(@, c)]
    OBVIOUS
  <2>5. more \in Seq(Word) /\ Len(more) = Len(parts)
    BY <1>1, <2>1, <2>3, <2>4, ExceptSeq
  <2>6. more # <<>>
    BY <1>1, <2>5, EmptySeq
  <2> QED
    BY <1>3, <2>4, <2>5, <2>6 DEF SplitStep, Parts
<1> QED
  BY <1>2, <1>3

\* The states of cutting a text, one for each of its beginnings.
IsCutting(parts, str) ==
    /\ parts \in [0 .. Len(str) -> Parts]
    /\ parts[0] = <<<<>>>>
    /\ \A n \in 1 .. Len(str) : parts[n] = SplitStep(parts[n - 1], str[n])

LEMMA OnePart == <<<<>>>> \in Parts
  BY Empty DEF Parts

\* Split is the last of these states.
LEMMA Cutting ==
    ASSUME NEW str \in Text
    PROVE  \E parts : IsCutting(parts, str) /\ Split(str) = parts[Len(str)]
<1> DEFINE Loop(f) == f = [n \in 0 .. Len(str) |-> IF n = 0 THEN <<<<>>>> ELSE SplitStep(f[n - 1], str[n])]
           parts == CHOOSE f : Loop(f)
<1>1. Split(str) = parts[Len(str)]
  BY DEF Split, SplitStep
<1>2. Len(str) \in Nat /\ \A n \in 1 .. Len(str) : str[n] \in Character
  BY LenProperties, ElementOfSeq DEF Text
<1>3. \E f : Loop(f)
  <2> DEFINE round == [x \in Parts \X (1 .. Len(str)) |-> SplitStep(x[1], str[x[2]])]
  <2>1. round \in Rounds(Parts, Len(str))
    BY <1>2, PartsStay DEF Rounds
  <2>2. \A p \in Parts : \A n \in 1 .. Len(str) : round[<<p, n>>] = SplitStep(p, str[n])
    OBVIOUS
  <2> HIDE DEF round
  <2>3. PICK f : IsLoop(f, Parts, <<<<>>>>, Len(str), round)
    BY <1>2, <2>1, OnePart, LoopsExist
  <2>4. \A n \in 0 .. Len(str) : n # 0 => n \in 1 .. Len(str) /\ f[n - 1] \in Parts
    <3>1. f \in [0 .. Len(str) -> Parts] /\ Len(str) \in Nat
      BY <1>2, <2>3 DEF IsLoop
    <3> QED
      BY <3>1
  <2>5. \A n \in 0 .. Len(str) : (IF n = 0 THEN <<<<>>>> ELSE round[<<f[n - 1], n>>])
                                 = IF n = 0 THEN <<<<>>>> ELSE SplitStep(f[n - 1], str[n])
    BY <2>2, <2>4
  <2>6. Loop(f)
    BY <2>3, <2>5 DEF IsLoop
  <2> QED
    BY <2>6
<1>4. Loop(parts)
  <2> HIDE DEF Loop
  <2> QED
    BY <1>3, Zenon
<1> HIDE DEF parts
<1>5. parts[0] = <<<<>>>> /\ \A n \in 1 .. Len(str) : parts[n] = SplitStep(parts[n - 1], str[n])
  BY <1>2, <1>4
<1>6. \A n \in 1 .. Len(str) : parts[n - 1] \in Parts => parts[n] \in Parts
  BY <1>2, <1>5, PartsStay
<1>7. \A n \in 0 .. Len(str) : parts[n] \in Parts
  BY <1>2, <1>5, <1>6, OnePart, LoopStays
<1>8. parts = [n \in 0 .. Len(str) |-> parts[n]]
  BY <1>4
<1>9. IsCutting(parts, str)
  BY <1>5, <1>7, <1>8 DEF IsCutting
<1> QED
  BY <1>1, <1>9

\* Split of nothing, and of a text with a character more.
LEMMA SplitNothing == Split(<<>>) = <<<<>>>>
<1>1. <<>> \in Text /\ Len(<<>>) = 0
  BY EmptySeq DEF Text
<1>2. PICK parts : IsCutting(parts, <<>>) /\ Split(<<>>) = parts[Len(<<>>)]
  BY <1>1, Cutting
<1> QED
  BY <1>1, <1>2 DEF IsCutting

LEMMA SplitMore ==
    ASSUME NEW str \in Text, NEW c \in Character
    PROVE  Append(str, c) \in Text /\ Split(str) \in Parts /\ Split(Append(str, c)) = SplitStep(Split(str), c)
<1>1. PICK more : more = Append(str, c)
  OBVIOUS
<1>2. /\ str \in Seq(Character) /\ Len(str) \in Nat
      /\ more \in Text /\ Len(more) = Len(str) + 1 /\ more[Len(str) + 1] = c
      /\ \A n \in 1 .. Len(str) : more[n] = str[n]
  BY <1>1, LenProperties, AppendProperties DEF Text
<1>3. PICK p : IsCutting(p, str) /\ Split(str) = p[Len(str)]
  BY Cutting
<1>4. PICK q : IsCutting(q, more) /\ Split(more) = q[Len(more)]
  BY <1>2, Cutting
<1> DEFINE T == {n \in Nat : n <= Len(str) => q[n] = p[n]}
<1>5. 0 \in T
  BY <1>3, <1>4 DEF IsCutting
<1>6. ASSUME NEW n \in Nat, n \in T PROVE n + 1 \in T
  <2>1. SUFFICES ASSUME n + 1 <= Len(str) PROVE q[n + 1] = p[n + 1]
    OBVIOUS
  <2>2. PICK m : m = n + 1
    OBVIOUS
  <2>3. m \in 1 .. Len(str) /\ m \in 1 .. Len(more) /\ m - 1 = n
    BY <1>2, <2>1, <2>2
  <2>4. q[m] = SplitStep(q[m - 1], more[m]) /\ p[m] = SplitStep(p[m - 1], str[m])
    BY <1>3, <1>4, <2>3 DEF IsCutting
  <2>5. q[n] = p[n]
    BY <1>6, <2>1
  <2> QED
    BY <1>2, <2>2, <2>3, <2>4, <2>5
<1> HIDE DEF T
<1>7. Len(str) \in T
  BY <1>2, <1>5, <1>6, CountsUp
<1>8. q[Len(str)] = p[Len(str)]
  BY <1>2, <1>7 DEF T
<1>9. Len(more) \in 1 .. Len(more) /\ Len(more) - 1 = Len(str)
  BY <1>2
<1>10. q[Len(more)] = SplitStep(q[Len(str)], more[Len(more)])
  BY <1>4, <1>9 DEF IsCutting
<1>11. p[Len(str)] \in Parts
  BY <1>2, <1>3 DEF IsCutting
<1> QED
  BY <1>1, <1>2, <1>3, <1>4, <1>8, <1>10, <1>11

\* A text put at the end of the last part.
With(parts, text) == [parts EXCEPT ![Len(parts)] = @ \o text]

\* To append is the same before and after texts are put together.
LEMMA AppendAfter ==
    ASSUME NEW a \in Seq(Character), NEW b \in Seq(Character), NEW c \in Character
    PROVE  Append(a \o b, c) = a \o Append(b, c)
<1>1. PICK last : last = <<c>>
  OBVIOUS
<1>2. last \in Seq(Character)
  BY <1>1
<1>3. a \o b \in Seq(Character)
  BY ConcatProperties
<1>4. Append(a \o b, c) = (a \o b) \o last
  BY <1>1, <1>3, AppendIsConcat
<1>5. Append(b, c) = b \o last
  BY <1>1, AppendIsConcat
<1>6. (a \o b) \o last = a \o (b \o last)
  BY <1>2, ConcatAssociative
<1> QED
  BY <1>4, <1>5, <1>6

\* How With and SplitStep go together.
LEMMA WithMore ==
    ASSUME NEW parts \in Parts, NEW text \in Word, NEW c \in Character, c # Comma
    PROVE  SplitStep(With(parts, text), c) = With(parts, Append(text, c))
<1>1. parts \in Seq(Word) /\ Len(parts) \in Nat \ {0} /\ DOMAIN parts = 1 .. Len(parts)
  BY EmptySeq, LenProperties DEF Parts
<1>2. PICK n : n = Len(parts)
  OBVIOUS
<1>3. n \in 1 .. Len(parts) /\ parts[n] \in Seq(Character) /\ text \in Seq(Character)
  <2>1. n \in 1 .. Len(parts) /\ parts[n] \in Word
    BY <1>1, <1>2, ElementOfSeq
  <2> QED
    BY <2>1 DEF Word, Text
<1>4. parts[n] \o text \in Seq(Character)
  BY <1>3, ConcatProperties
<1>5. Append(parts[n] \o text, c) = parts[n] \o Append(text, c)
  <2>1. PICK a : a = parts[n]
    OBVIOUS
  <2>2. a \in Seq(Character)
    BY <1>3, <2>1
  <2>3. Append(a \o text, c) = a \o Append(text, c)
    BY <1>3, <2>2, AppendAfter
  <2> QED
    BY <2>1, <2>3
<1>6. parts \in [1 .. n -> Seq(Character)]
  <2>1. parts \in [1 .. n -> Word]
    BY <1>1, <1>2, LenProperties
  <2> QED
    BY <2>1 DEF Word, Text
<1>7. PICK p : p = With(parts, text)
  OBVIOUS
<1>8. p = [parts EXCEPT ![n] = parts[n] \o text]
  BY <1>1, <1>2, <1>3, <1>7 DEF With
<1>9. p \in [1 .. n -> Seq(Character)] /\ p[n] = parts[n] \o text /\ n \in Nat
  BY <1>1, <1>2, <1>3, <1>4, <1>6, <1>8
<1>10. Len(p) = n
  BY <1>9
<1>11. SplitStep(p, c) = [p EXCEPT ![n] = Append(p[n], c)]
  BY <1>3, <1>9, <1>10 DEF SplitStep
<1>12. [p EXCEPT ![n] = Append(p[n], c)] = [parts EXCEPT ![n] = parts[n] \o Append(text, c)]
  BY <1>3, <1>5, <1>6, <1>8, <1>9
<1>13. With(parts, Append(text, c)) = [parts EXCEPT ![n] = parts[n] \o Append(text, c)]
  BY <1>2, <1>3, <1>6 DEF With
<1> QED
  BY <1>7, <1>11, <1>12, <1>13

LEMMA WithNothing ==
    ASSUME NEW parts \in Parts
    PROVE  With(parts, <<>>) = parts
<1>1. parts \in Seq(Word) /\ Len(parts) \in 1 .. Len(parts) /\ DOMAIN parts = 1 .. Len(parts) /\ parts \in [1 .. Len(parts) -> Word]
  BY EmptySeq, LenProperties DEF Parts
<1>2. parts[Len(parts)] \in Seq(Character)
  BY <1>1 DEF Word, Text
<1>3. parts[Len(parts)] \o <<>> = parts[Len(parts)]
  BY <1>2, ConcatEmptySeq
<1> QED
  BY <1>1, <1>3 DEF With

\* A word after a text is put at its last part.
LEMMA SplitWord ==
    ASSUME NEW str \in Text, NEW w \in Word
    PROVE  Split(str \o w) = With(Split(str), w)
<1>1. /\ w \in Seq(Character) /\ Len(w) \in Nat /\ (\A k \in 1 .. Len(w) : w[k] \in Character /\ w[k] # Comma)
      /\ str \in Seq(Character)
  BY LenProperties, ElementOfSeq DEF Word, Text
<1>2. PICK parts : parts = Split(str)
  OBVIOUS
<1>3. parts \in Parts
  BY <1>2, Cutting, LenProperties DEF IsCutting, Text
<1> DEFINE Beginning(k) == SubSeq(w, 1, k)
           T == {k \in Nat : k <= Len(w) => Beginning(k) \in Word /\ Split(str \o Beginning(k)) = With(parts, Beginning(k))}
<1>4. 0 \in T
  <2>1. Beginning(0) = <<>>
    BY SubSeqEmpty
  <2>2. str \o <<>> = str
    BY <1>1, ConcatEmptySeq
  <2> QED
    BY <1>2, <1>3, <2>1, <2>2, Empty, WithNothing
<1>5. ASSUME NEW k \in Nat, k \in T PROVE k + 1 \in T
  <2>1. SUFFICES ASSUME k + 1 <= Len(w) PROVE Beginning(k + 1) \in Word /\ Split(str \o Beginning(k + 1)) = With(parts, Beginning(k + 1))
    OBVIOUS
  <2>2. PICK x : x = Beginning(k)
    OBVIOUS
  <2>3. x \in Word /\ Split(str \o x) = With(parts, x)
    BY <1>5, <2>1, <2>2
  <2>4. PICK c : c = w[k + 1]
    OBVIOUS
  <2>5. c \in Character /\ c # Comma /\ x \in Seq(Character) /\ <<c>> \in Seq(Character)
    BY <1>1, <2>1, <2>3, <2>4 DEF Word, Text
  <2>6. Beginning(k + 1) = Append(x, c)
    <3>1. 1 \in 1 .. Len(w) /\ k + 1 \in 1 .. Len(w) /\ (k + 1) - 1 = k
      BY <1>1, <2>1
    <3>2. SubSeq(w, 1, k + 1) = SubSeq(w, 1, (k + 1) - 1) \o <<w[k + 1]>>
      BY <1>1, <3>1, SubSeqRecursiveSecond
    <3> QED
      BY <2>2, <2>4, <2>5, <3>1, <3>2, AppendIsConcat
  <2>7. Append(str \o x, c) = str \o Append(x, c)
    BY <1>1, <2>5, AppendAfter
  <2>8. str \o x \in Text
    BY <1>1, <2>5, ConcatProperties DEF Text
  <2>9. Split(Append(str \o x, c)) = SplitStep(With(parts, x), c)
    BY <2>3, <2>5, <2>8, SplitMore
  <2>10. Append(x, c) \in Word
    BY <2>3, <2>5, Longer
  <2> HIDE DEF Beginning
  <2> QED
    BY <1>3, <2>3, <2>5, <2>6, <2>7, <2>9, <2>10, WithMore
<1> HIDE DEF T
<1>6. Len(w) \in T
  BY <1>1, <1>4, <1>5, CountsUp
<1>7. Beginning(Len(w)) = w
  BY <1>1, SubSeqFull
<1> HIDE DEF Beginning
<1> QED
  BY <1>1, <1>2, <1>6, <1>7 DEF T

\* Tags that are joined are parted again at the commas, since none of them has one.
LEMMA SplitJoined ==
    ASSUME NEW tags \in Seq(Word), tags # <<>>
    PROVE  Joined(tags) \in Text /\ Split(Joined(tags)) = tags
<1>1. Len(tags) \in Nat \ {0} /\ DOMAIN tags = 1 .. Len(tags) /\ \A n \in 1 .. Len(tags) : tags[n] \in Word /\ tags[n] \in Seq(Character)
  <2>1. Len(tags) \in Nat \ {0} /\ DOMAIN tags = 1 .. Len(tags)
    BY EmptySeq, LenProperties
  <2>2. \A n \in 1 .. Len(tags) : tags[n] \in Word
    BY ElementOfSeq
  <2> QED
    BY <2>1, <2>2 DEF Word, Text
<1>2. Text = Seq(Character) /\ <<Comma>> \in Seq(Character) /\ Comma \in Character
  BY DEF Text, Character
<1> DEFINE Put(text, n) == IF n = 1 THEN tags[1] ELSE text \o <<Comma>> \o tags[n]
           Loop(f) == f = [n \in 0 .. Len(tags) |-> IF n = 0 THEN <<>> ELSE Put(f[n - 1], n)]
           text == CHOOSE f : Loop(f)
<1>3. Joined(tags) = text[Len(tags)]
  BY DEF Joined
<1>4. ASSUME NEW t \in Text, NEW n \in 1 .. Len(tags) PROVE Put(t, n) \in Text
  <2>1. CASE n = 1
    BY <1>1, <1>2, <2>1
  <2>2. CASE n # 1
    <3>1. PICK w : w = tags[n]
      OBVIOUS
    <3>2. PICK c : c = <<Comma>>
      OBVIOUS
    <3>3. w \in Seq(Character) /\ c \in Seq(Character) /\ t \in Seq(Character)
      BY <1>1, <1>2, <3>1, <3>2
    <3>4. t \o c \in Seq(Character)
      BY <3>3, ConcatProperties
    <3>5. t \o c \o w \in Seq(Character)
      BY <3>3, <3>4, ConcatProperties
    <3> QED
      BY <1>2, <2>2, <3>1, <3>2, <3>5
  <2> QED
    BY <2>1, <2>2
<1>5. <<>> \in Text
  BY EmptySeq DEF Text
<1>6. \E f : Loop(f)
  <2> DEFINE round == [x \in Text \X (1 .. Len(tags)) |-> Put(x[1], x[2])]
  <2> HIDE DEF Put
  <2>1. round \in Rounds(Text, Len(tags))
    BY <1>4 DEF Rounds
  <2>2. \A t \in Text : \A n \in 1 .. Len(tags) : round[<<t, n>>] = Put(t, n)
    OBVIOUS
  <2> HIDE DEF round
  <2>3. PICK f : IsLoop(f, Text, <<>>, Len(tags), round)
    BY <1>1, <1>5, <2>1, LoopsExist
  <2>4. \A n \in 0 .. Len(tags) : n # 0 => n \in 1 .. Len(tags) /\ f[n - 1] \in Text
    <3>1. f \in [0 .. Len(tags) -> Text] /\ Len(tags) \in Nat
      BY <1>1, <2>3 DEF IsLoop
    <3> QED
      BY <3>1
  <2>5. \A n \in 0 .. Len(tags) : (IF n = 0 THEN <<>> ELSE round[<<f[n - 1], n>>])
                                   = IF n = 0 THEN <<>> ELSE Put(f[n - 1], n)
    BY <2>2, <2>4
  <2>6. f = [n \in 0 .. Len(tags) |-> IF n = 0 THEN <<>> ELSE Put(f[n - 1], n)]
    BY <2>3, <2>5 DEF IsLoop
  <2>7. Loop(f)
    BY <2>6
  <2> QED
    BY <2>7
<1>7. Loop(text)
  <2> HIDE DEF Loop
  <2> QED
    BY <1>6, Zenon
<1> HIDE DEF text
<1> HIDE DEF Put
<1>8. \A n \in 1 .. Len(tags) : text[n] = Put(text[n - 1], n)
  <2>1. Len(tags) \in Nat
    BY <1>1
  <2> QED
    BY <1>7, <2>1
<1> HIDE DEF Loop
<1> DEFINE T == {n \in Nat : n + 1 <= Len(tags) => text[n + 1] \in Text /\ Split(text[n + 1]) = SubSeq(tags, 1, n + 1)}
<1>9. 0 \in T
  <2>1. PICK w : w = tags[1]
    OBVIOUS
  <2>2. w \in Word /\ w \in Text /\ text[1] = w /\ w \in Seq(Character)
    BY <1>1, <1>2, <1>8, <2>1 DEF Put
  <2>3. <<>> \o w = w
    BY <2>2, ConcatEmptySeq
  <2>4. Split(<<>> \o w) = With(Split(<<>>), w)
    BY <1>5, <2>2, SplitWord
  <2>5. With(<<<<>>>>, w) = <<w>>
    BY <2>3 DEF With
  <2>6. SubSeq(tags, 1, 1) = <<w>>
    <3>1. 1 \in 1 .. Len(tags)
      BY <1>1
    <3>2. SubSeq(tags, 1, 1) = SubSeq(tags, 1, 0) \o <<w>>
      BY <2>1, <3>1, SubSeqRecursiveSecond
    <3>3. SubSeq(tags, 1, 0) = <<>>
      BY SubSeqEmpty
    <3>4. <<w>> \in Seq(Word)
      BY <2>2
    <3> QED
      BY <3>2, <3>3, <3>4, ConcatEmptySeq
  <2>7. text[1] \in Text /\ Split(text[1]) = SubSeq(tags, 1, 1)
    BY <2>2, <2>3, <2>4, <2>5, <2>6, SplitNothing
  <2>8. 0 + 1 = 1
    OBVIOUS
  <2> QED
    BY <2>7, <2>8
<1>10. ASSUME NEW n \in Nat, n \in T PROVE n + 1 \in T
  <2>1. SUFFICES ASSUME (n + 1) + 1 <= Len(tags)
                 PROVE  text[(n + 1) + 1] \in Text /\ Split(text[(n + 1) + 1]) = SubSeq(tags, 1, (n + 1) + 1)
    OBVIOUS
  <2>2. PICK m, t, w, p : m = (n + 1) + 1 /\ t = text[n + 1] /\ w = tags[m] /\ p = SubSeq(tags, 1, n + 1)
    OBVIOUS
  <2>3. m \in 1 .. Len(tags) /\ m # 1 /\ m - 1 = n + 1 /\ n + 1 <= Len(tags) /\ n + 1 \in 1 .. Len(tags) /\ 1 \in 1 .. m
    BY <1>1, <2>1, <2>2
  <2>4. t \in Text /\ Split(t) = p /\ text[m] = t \o <<Comma>> \o w /\ w \in Word /\ t \in Seq(Character)
    BY <1>1, <1>2, <1>8, <1>10, <2>2, <2>3 DEF Put
  <2>5. PICK str : str = Append(t, Comma)
    OBVIOUS
  <2>6. str \in Text /\ Split(str) = SplitStep(p, Comma) /\ p \in Parts
    BY <1>2, <2>4, <2>5, SplitMore
  <2>7. str = t \o <<Comma>>
    BY <1>2, <2>4, <2>5, AppendIsConcat
  <2>8. Split(text[m]) = With(SplitStep(p, Comma), w)
    BY <2>4, <2>6, <2>7, SplitWord
  <2>9. text[m] \in Text
    <3>1. w \in Seq(Character) /\ str \in Seq(Character)
      BY <2>4, <2>6 DEF Word, Text
    <3> QED
      BY <1>2, <2>4, <2>7, <3>1, ConcatProperties
  <2>10. SplitStep(p, Comma) = Append(p, <<>>)
    BY DEF SplitStep
  <2>11. With(Append(p, <<>>), w) = Append(p, w)
    <3>1. p \in Seq(Word) /\ Len(p) \in Nat
      BY <2>6, LenProperties DEF Parts
    <3>2. <<>> \o w = w
      BY <2>4, ConcatEmptySeq DEF Word, Text
    <3>3. PICK q, r, l : q = Append(p, <<>>) /\ r = Append(p, w) /\ l = Len(p) + 1
      OBVIOUS
    <3>4. /\ q \in Seq(Word) /\ Len(q) = l /\ q[l] = <<>> /\ \A k \in 1 .. Len(p) : q[k] = p[k]
          /\ r \in Seq(Word) /\ Len(r) = l /\ r[l] = w /\ \A k \in 1 .. Len(p) : r[k] = p[k]
      BY <2>4, <3>1, <3>3, Empty, AppendProperties
    <3>5. l \in 1 .. l /\ q \in [1 .. l -> Word]
      <4>1. q \in [1 .. Len(q) -> Word]
        BY <3>4, LenProperties
      <4> QED
        BY <3>1, <3>3, <3>4, <4>1
    <3>6. With(q, w) = [q EXCEPT ![l] = w]
      BY <3>2, <3>4, <3>5 DEF With
    <3>7. PICK v : v = [q EXCEPT ![l] = w]
      OBVIOUS
    <3>8. v \in Seq(Word) /\ Len(v) = l /\ \A k \in 1 .. l : v[k] = IF k = l THEN w ELSE q[k]
      BY <2>4, <3>4, <3>5, <3>7, ExceptSeq
    <3>9. \A k \in 1 .. Len(v) : v[k] = r[k]
      BY <3>1, <3>3, <3>4, <3>8
    <3>10. v = r
      BY <3>4, <3>8, <3>9, SeqEqual
    <3> QED
      BY <3>3, <3>6, <3>7, <3>10
  <2>12. SubSeq(tags, 1, m) = Append(p, w)
    <3>1. SubSeq(tags, 1, m) = SubSeq(tags, 1, m - 1) \o <<tags[m]>>
      BY <1>1, <2>3, SubSeqRecursiveSecond
    <3>2. p \in Seq(Word)
      BY <2>6 DEF Parts
    <3> QED
      BY <2>2, <2>3, <2>4, <3>1, <3>2, AppendIsConcat
  <2> QED
    BY <2>2, <2>8, <2>9, <2>10, <2>11, <2>12
<1> HIDE DEF T
<1>11. Len(tags) - 1 \in T /\ (Len(tags) - 1) + 1 = Len(tags)
  <2>1. Nat \subseteq T
    BY <1>9, <1>10, CountsUp
  <2> QED
    BY <1>1, <2>1
<1>12. text[Len(tags)] \in Text /\ Split(text[Len(tags)]) = SubSeq(tags, 1, Len(tags))
  BY <1>1, <1>11 DEF T
<1>13. SubSeq(tags, 1, Len(tags)) = tags
  BY SubSeqFull
<1> QED
  BY <1>3, <1>12, <1>13

\* A new tag that is not empty can be added to a list of tags; a list may be empty.
LEMMA TagListGrows ==
    ASSUME NEW list \in TagList, NEW w \in Word, w # <<>>, ~ Contains(list, w)
    PROVE  Append(list, w) \in TagList
<1>1. list \in Seq(Word) /\ Len(list) \in Nat /\ IsInjective(list) /\ \A i \in 1 .. Len(list) : list[i] # <<>>
  BY LenProperties DEF TagList
<1>2. DOMAIN list = 1 .. Len(list)
  BY <1>1, LenProperties
<1>3. PICK more : more = Append(list, w)
  OBVIOUS
<1>4. /\ more \in Seq(Word) /\ Len(more) = Len(list) + 1 /\ more[Len(list) + 1] = w
      /\ \A i \in 1 .. Len(list) : more[i] = list[i]
  BY <1>1, <1>3, AppendProperties
<1>5. DOMAIN more = 1 .. Len(list) + 1
  BY <1>4, LenProperties
<1>6. \A i \in 1 .. Len(list) : list[i] # w
  BY DEF Contains
<1>7. ASSUME NEW i \in DOMAIN more, NEW j \in DOMAIN more, more[i] = more[j] PROVE i = j
  BY <1>1, <1>2, <1>4, <1>5, <1>6, <1>7 DEF IsInjective
<1>8. \A i \in 1 .. Len(more) : more[i] # <<>>
  BY <1>1, <1>4
<1>9. IsInjective(more)
  BY <1>7 DEF IsInjective
<1> QED
  BY <1>3, <1>4, <1>8, <1>9 DEF TagList

LEMMA NoTags == <<>> \in TagList /\ Joined(<<>>) = <<>>
<1>1. <<>> \in Seq(Word) /\ Len(<<>>) = 0
  BY EmptySeq
<1>2. <<>> \in TagList
  BY <1>1 DEF TagList, IsInjective
<1> DEFINE Loop(f) == f = [n \in 0 .. Len(<<>>) |->
                             IF n = 0 THEN <<>> ELSE IF n = 1 THEN <<>>[1] ELSE f[n - 1] \o <<Comma>> \o <<>>[n]]
           text == CHOOSE f : Loop(f)
<1>3. Joined(<<>>) = text[0]
  BY <1>1 DEF Joined
<1>4. \E f : Loop(f)
  <2>1. PICK f : f = [n \in 0 .. Len(<<>>) |-> <<>>]
    OBVIOUS
  <2>2. \A n \in 0 .. Len(<<>>) : n = 0
    BY <1>1
  <2>3. Loop(f)
    BY <2>1, <2>2
  <2> QED
    BY <2>3
<1>5. Loop(text)
  <2> HIDE DEF Loop
  <2> QED
    BY <1>4, Zenon
<1> HIDE DEF text
<1>6. text[0] = <<>>
  BY <1>1, <1>5
<1> QED
  BY <1>2, <1>3, <1>6

\* What checkTag does with a part, and its states.
TagStep(list, part) ==
    LET _tag == compressBlank(part)
    IN  IF _tag = <<>> \/ Contains(list, _tag) THEN list ELSE Append(list, _tag)

IsChecking(lists, parts) ==
    /\ lists \in [0 .. Len(parts) -> TagList] /\ lists[0] = <<>>
    /\ \A n \in 1 .. Len(parts) : lists[n] = TagStep(lists[n - 1], parts[n])

LEMMA NarrowText ==
    ASSUME NEW _tags \in Text
    PROVE  /\ Narrow(_tags) \in Text /\ Len(Narrow(_tags)) = Len(_tags)
           /\ \A i \in 1 .. Len(_tags) : Narrow(_tags)[i] = IF _tags[i] = WideComma THEN Comma ELSE _tags[i]
<1>1. _tags \in [1 .. Len(_tags) -> Character] /\ DOMAIN _tags = 1 .. Len(_tags) /\ Len(_tags) \in Nat
  BY LenProperties DEF Text
<1>2. Comma \in Character
  BY DEF Character
<1>3. PICK str : str = Narrow(_tags)
  OBVIOUS
<1>4. str \in [1 .. Len(_tags) -> Character] /\ \A i \in 1 .. Len(_tags) : str[i] = IF _tags[i] = WideComma THEN Comma ELSE _tags[i]
  BY <1>1, <1>2, <1>3 DEF Narrow
<1>5. str \in Text /\ Len(str) = Len(_tags)
  BY <1>1, <1>4 DEF Text
<1> QED
  BY <1>3, <1>4, <1>5

LEMMA SplitText ==
    ASSUME NEW str \in Text
    PROVE  Split(str) \in Parts
<1>1. PICK p : IsCutting(p, str) /\ Split(str) = p[Len(str)]
  BY Cutting
<1>2. Len(str) \in Nat
  BY LenProperties DEF Text
<1> QED
  BY <1>1, <1>2 DEF IsCutting

LEMMA Checking ==
    ASSUME NEW _tags \in Text, NEW parts, parts = Split(Narrow(_tags))
    PROVE  \E lists : IsChecking(lists, parts) /\ checkTag(_tags) = Joined(lists[Len(parts)])
<1>1. parts \in Seq(Word) /\ Len(parts) \in Nat /\ \A n \in 1 .. Len(parts) : parts[n] \in Word
  <2>1. parts \in Seq(Word)
    BY NarrowText, SplitText DEF Parts
  <2> QED
    BY <2>1, LenProperties, ElementOfSeq
<1> DEFINE Loop(f) == f = [n \in 0 .. Len(parts) |-> IF n = 0 THEN <<>> ELSE TagStep(f[n - 1], parts[n])]
           tag_list == CHOOSE f : Loop(f)
<1>2. checkTag(_tags) = Joined(tag_list[Len(parts)])
  BY DEF checkTag, TagStep
<1>3. ASSUME NEW list \in TagList, NEW n \in 1 .. Len(parts) PROVE TagStep(list, parts[n]) \in TagList
  BY <1>1, CompressedWord, TagListGrows DEF TagStep
<1>4. \E f : Loop(f)
  <2> DEFINE round == [x \in TagList \X (1 .. Len(parts)) |-> TagStep(x[1], parts[x[2]])]
  <2>1. round \in Rounds(TagList, Len(parts))
    BY <1>3 DEF Rounds
  <2>2. \A list \in TagList : \A n \in 1 .. Len(parts) : round[<<list, n>>] = TagStep(list, parts[n])
    OBVIOUS
  <2> HIDE DEF round
  <2>3. PICK f : IsLoop(f, TagList, <<>>, Len(parts), round)
    BY <1>1, <2>1, NoTags, LoopsExist
  <2>4. \A n \in 0 .. Len(parts) : n # 0 => n \in 1 .. Len(parts) /\ f[n - 1] \in TagList
    <3>1. f \in [0 .. Len(parts) -> TagList] /\ Len(parts) \in Nat
      BY <1>1, <2>3 DEF IsLoop
    <3> QED
      BY <3>1
  <2>5. \A n \in 0 .. Len(parts) : (IF n = 0 THEN <<>> ELSE round[<<f[n - 1], n>>])
                                    = IF n = 0 THEN <<>> ELSE TagStep(f[n - 1], parts[n])
    BY <2>2, <2>4
  <2>6. Loop(f)
    BY <2>3, <2>5 DEF IsLoop
  <2> QED
    BY <2>6
<1>5. Loop(tag_list)
  <2> HIDE DEF Loop
  <2> QED
    BY <1>4, Zenon
<1> HIDE DEF tag_list
<1>6. tag_list[0] = <<>> /\ \A n \in 1 .. Len(parts) : tag_list[n] = TagStep(tag_list[n - 1], parts[n])
  <2>1. Len(parts) \in Nat
    BY <1>1
  <2> QED
    BY <1>5, <2>1
<1>7. \A n \in 0 .. Len(parts) : tag_list[n] \in TagList
  <2>1. \A n \in 1 .. Len(parts) : tag_list[n - 1] \in TagList => tag_list[n] \in TagList
    BY <1>3, <1>6
  <2> QED
    BY <1>1, <1>6, <2>1, NoTags, LoopStays
<1>8. tag_list = [n \in 0 .. Len(parts) |-> tag_list[n]]
  BY <1>5
<1>9. IsChecking(tag_list, parts)
  BY <1>6, <1>7, <1>8 DEF IsChecking
<1> QED
  BY <1>2, <1>9

\* What was joined is read again, also if it is nothing.
LEMMA TagsOfJoined ==
    ASSUME NEW list \in TagList
    PROVE  Joined(list) \in Text /\ TagsOf(Joined(list)) = list
<1>1. CASE list = <<>>
  <2>1. <<>> \in Text
    BY EmptySeq DEF Text
  <2> QED
    BY <1>1, <2>1, NoTags DEF TagsOf
<1>2. CASE list # <<>>
  <2>1. list \in Seq(Word) /\ Len(list) \in Nat \ {0}
    BY <1>2, EmptySeq DEF TagList
  <2>2. Joined(list) \in Text /\ Split(Joined(list)) = list
    BY <1>2, <2>1, SplitJoined
  <2>3. list[1] # <<>>
    BY <2>1 DEF TagList
  <2>4. Joined(list) # <<>>
    BY <2>2, <2>3, SplitNothing
  <2> QED
    BY <2>2, <2>4 DEF TagsOf
<1> QED
  BY <1>1, <1>2

\* What checkTag saves is read again as a list of tags, each of them once.
LEMMA CheckedTags ==
    ASSUME NEW _tags \in Text
    PROVE  TagsOf(checkTag(_tags)) \in TagList
<1>1. PICK parts : parts = Split(Narrow(_tags))
  OBVIOUS
<1>2. parts \in Seq(Word) /\ Len(parts) \in Nat
  <2>1. parts \in Seq(Word)
    BY <1>1, NarrowText, SplitText DEF Parts
  <2> QED
    BY <2>1, LenProperties
<1>3. PICK lists : IsChecking(lists, parts) /\ checkTag(_tags) = Joined(lists[Len(parts)])
  BY <1>1, Checking
<1>4. PICK list : list = lists[Len(parts)]
  OBVIOUS
<1>5. list \in TagList
  BY <1>2, <1>3, <1>4 DEF IsChecking
<1> QED
  BY <1>3, <1>4, <1>5, TagsOfJoined

-----------------------------------------------------------------------------
(* Clean tags. *)

\* A tag without needless blanks: none but single spaces between others.
Clean ==
    {w \in Word : \A i \in 1 .. Len(w) :
        /\ w[i] # Tab
        /\ isBlank(w[i]) => i > 1 /\ i < Len(w) /\ ~ isBlank(w[i + 1])}

\* Trimmed begins and ends with what is not blank, and loses nothing else.
LEMMA TrimmedEnds ==
    ASSUME NEW w \in Word, NEW str, str = Trimmed(w)
    PROVE  /\ Len(str) > 0 => ~ isBlank(str[1]) /\ ~ isBlank(str[Len(str)])
           /\ \A c : ~ isBlank(c) => (Contains(str, c) <=> Contains(w, c))
<1> DEFINE inner == {i \in DOMAIN w : ~ isBlank(w[i])}
<1>1. w \in Seq(Character) /\ Len(w) \in Nat /\ DOMAIN w = 1 .. Len(w)
  BY LenProperties DEF Word, Text
<1>2. CASE inner = {}
  <2>1. str = <<>>
    BY <1>2 DEF Trimmed
  <2>2. Len(str) = 0
    BY <2>1, EmptySeq
  <2>3. \A i \in 1 .. Len(w) : isBlank(w[i])
    BY <1>1, <1>2
  <2> QED
    BY <2>2, <2>3 DEF Contains
<1>3. CASE inner # {}
  <2>1. inner \subseteq 0 .. Len(w) /\ inner \subseteq Nat /\ inner \subseteq 1 .. Len(w)
    BY <1>1
  <2>2. str = SubSeq(w, Min(inner), Max(inner))
    BY <1>3 DEF Trimmed
  <2>3. \A i \in 1 .. Len(w) : i \in inner <=> ~ isBlank(w[i])
    BY <1>1
  <2> HIDE DEF inner
  <2>4. Min(inner) \in inner /\ Max(inner) \in inner /\ \A i \in inner : Min(inner) <= i /\ i <= Max(inner)
    BY <1>1, <1>3, <2>1, MinIs, MaxIs
  <2>5. PICK m, n : m = Min(inner) /\ n = Max(inner)
    OBVIOUS
  <2>6. m \in 1 .. Len(w) /\ n \in 1 .. Len(w) /\ m <= n /\ \A i \in 1 .. Len(w) : ~ isBlank(w[i]) => i \in m .. n
    <3>1. m \in inner /\ n \in inner /\ \A i \in inner : m <= i /\ i <= n
      BY <2>4, <2>5
    <3>2. m \in 1 .. Len(w) /\ n \in 1 .. Len(w) /\ m <= n
      BY <2>1, <3>1
    <3>3. ASSUME NEW i \in 1 .. Len(w), ~ isBlank(w[i]) PROVE i \in m .. n
      <4>1. m <= i /\ i <= n
        BY <2>3, <3>1, <3>3
      <4> QED
        BY <1>1, <3>2, <4>1
    <3> QED
      BY <3>2, <3>3
  <2>7. \A i \in m .. n : w[i] \in Character
    BY <1>1, <2>6, ElementOfSeq
  <2>8. Len(str) = n - m + 1 /\ \A i \in 1 .. n - m + 1 : str[i] = w[m + i - 1]
    BY <2>2, <2>5, <2>6, <2>7, SubSeqProperties
  <2>9. ~ isBlank(str[1]) /\ ~ isBlank(str[Len(str)])
    <3>1. m \in inner /\ n \in inner
      BY <2>4, <2>5
    <3>2. str[1] = w[m] /\ str[Len(str)] = w[n]
      <4>1. 1 \in 1 .. n - m + 1 /\ n - m + 1 \in 1 .. n - m + 1 /\ m + 1 - 1 = m /\ m + (n - m + 1) - 1 = n
        BY <2>6
      <4> QED
        BY <2>8, <4>1
    <3> QED
      BY <2>3, <2>6, <3>1, <3>2
  <2>10. ASSUME NEW c, ~ isBlank(c) PROVE Contains(str, c) <=> Contains(w, c)
    <3>1. ASSUME Contains(str, c) PROVE Contains(w, c)
      <4>1. PICK i \in 1 .. n - m + 1 : str[i] = c
        BY <2>8, <3>1 DEF Contains
      <4>2. m + i - 1 \in 1 .. Len(w) /\ w[m + i - 1] = c
        BY <2>6, <2>8, <4>1
      <4> QED
        BY <4>2 DEF Contains
    <3>2. ASSUME Contains(w, c) PROVE Contains(str, c)
      <4>1. PICK i \in 1 .. Len(w) : w[i] = c
        BY <3>2 DEF Contains
      <4>2. i \in m .. n
        BY <2>6, <2>10, <4>1
      <4>3. PICK k : k = i - m + 1
        OBVIOUS
      <4>4. k \in 1 .. n - m + 1 /\ m + k - 1 = i
        BY <2>6, <4>2, <4>3
      <4>5. str[k] = c
        BY <2>8, <4>1, <4>4
      <4> QED
        BY <2>8, <4>4, <4>5 DEF Contains
    <3> QED
      BY <3>1, <3>2
  <2> QED
    BY <2>9, <2>10
<1> QED
  BY <1>2, <1>3

\* What is so of a beginning of a text that is being cleaned, after n of its characters.
Compressed(str, text, n) ==
    /\ \A i \in 1 .. Len(text) :
          /\ text[i] # Tab
          /\ isBlank(text[i]) => /\ i > 1
                                 /\ IF i < Len(text) THEN ~ isBlank(text[i + 1])
                                    ELSE n < Len(str) /\ ~ isBlank(str[n + 1])
    /\ n > 0 => Len(text) > 0
    /\ \A c : ~ isBlank(c) => (Contains(text, c) <=> \E k \in 1 .. n : str[k] = c)

LEMMA CompressedMore ==
    ASSUME NEW str \in Word, Len(str) > 0 => ~ isBlank(str[1]), NEW text \in Word, NEW n \in 1 .. Len(str),
           Compressed(str, text, n - 1)
    PROVE  Compressed(str, CompressStep(str, text, n), n)
<1>1. /\ str \in Seq(Character) /\ Len(str) \in Nat /\ text \in Seq(Character) /\ Len(text) \in Nat
      /\ str[n] \in Character /\ Space \in Character
  BY LenProperties, ElementOfSeq DEF Word, Text, Character
<1>2. isBlank(Space) /\ Space # Tab /\ \A c : ~ isBlank(c) => c # Tab /\ c # Space
  BY DEF isBlank, Space, Tab
<1>3. n - 1 \in Nat /\ (n - 1) + 1 = n /\ n \in Nat
  BY <1>1
<1>4. (n = 1 \/ Len(text) > 0) /\ (n - 1 < Len(str))
  BY <1>1, <1>3 DEF Compressed
<1>5. CASE ~ isBlank(str[n])
  <2>1. PICK more : more = Append(text, str[n])
    OBVIOUS
  <2>2. /\ Len(more) = Len(text) + 1 /\ more[Len(text) + 1] = str[n]
        /\ \A i \in 1 .. Len(text) : more[i] = text[i]
    BY <1>1, <2>1, AppendProperties
  <2>3. ASSUME NEW i \in 1 .. Len(more)
        PROVE  /\ more[i] # Tab
               /\ isBlank(more[i]) => /\ i > 1
                                      /\ IF i < Len(more) THEN ~ isBlank(more[i + 1])
                                         ELSE n < Len(str) /\ ~ isBlank(str[n + 1])
    <3>1. CASE i = Len(text) + 1
      BY <1>2, <1>5, <2>2, <3>1
    <3>2. CASE i = Len(text)
      <4>1. i \in 1 .. Len(text) /\ ~ i < Len(text) /\ i < Len(more) /\ more[i] = text[i] /\ more[i + 1] = str[n]
        BY <1>1, <2>2, <3>2
      <4> QED
        BY <1>3, <1>5, <4>1 DEF Compressed
    <3>3. CASE i < Len(text)
      <4>1. i \in 1 .. Len(text) /\ i + 1 \in 1 .. Len(text) /\ i < Len(more) /\ more[i] = text[i] /\ more[i + 1] = text[i + 1]
        BY <1>1, <2>2, <3>3
      <4> QED
        BY <3>3, <4>1 DEF Compressed
    <3> QED
      BY <1>1, <2>2, <3>1, <3>2, <3>3
  <2>4. ASSUME NEW c, ~ isBlank(c) PROVE Contains(more, c) <=> \E k \in 1 .. n : str[k] = c
    <3>1. Contains(more, c) <=> Contains(text, c) \/ str[n] = c
      <4>1. \A i \in 1 .. Len(more) : i \in 1 .. Len(text) \/ i = Len(text) + 1
        BY <1>1, <2>2
      <4>2. Len(text) + 1 \in 1 .. Len(more) /\ 1 .. Len(text) \subseteq 1 .. Len(more)
        BY <1>1, <2>2
      <4> QED
        BY <2>2, <4>1, <4>2 DEF Contains
    <3>2. (\E k \in 1 .. n : str[k] = c) <=> (\E k \in 1 .. n - 1 : str[k] = c) \/ str[n] = c
      <4>1. \A k \in 1 .. n : k \in 1 .. n - 1 \/ k = n
        BY <1>3
      <4>2. 1 .. n - 1 \subseteq 1 .. n /\ n \in 1 .. n
        BY <1>3
      <4> QED
        BY <4>1, <4>2
    <3> QED
      BY <2>4, <3>1, <3>2 DEF Compressed
  <2> QED
    BY <1>1, <1>5, <2>1, <2>2, <2>3, <2>4 DEF Compressed, CompressStep
<1>6. CASE isBlank(str[n])
  <2>1. n # 1 /\ Len(text) > 0
    BY <1>1, <1>4, <1>6
  <2>2. ASSUME NEW c, ~ isBlank(c) PROVE Contains(text, c) <=> \E k \in 1 .. n : str[k] = c
    <3>1. \A k \in 1 .. n : k \in 1 .. n - 1 \/ k = n
      BY <1>3
    <3>2. 1 .. n - 1 \subseteq 1 .. n /\ str[n] # c
      BY <1>3, <1>6, <2>2
    <3> QED
      BY <2>2, <3>1, <3>2 DEF Compressed
  <2>3. ~ isBlank(text[Len(text)])
    <3>1. Len(text) \in 1 .. Len(text) /\ ~ Len(text) < Len(text)
      BY <1>1, <2>1
    <3> QED
      BY <1>3, <1>6, <3>1 DEF Compressed
  <2>4. ASSUME NEW i \in 1 .. Len(text), isBlank(text[i]) PROVE i > 1 /\ i < Len(text) /\ ~ isBlank(text[i + 1])
    <3>1. i # Len(text)
      BY <2>3, <2>4
    <3>2. i < Len(text)
      BY <1>1, <3>1
    <3> QED
      BY <2>4, <3>2 DEF Compressed
  <2>5. \A i \in 1 .. Len(text) : text[i] # Tab
    BY DEF Compressed
  <2>6. CASE n < Len(str) /\ ~ isBlank(str[n + 1])
    <3>1. PICK more : more = Append(text, Space)
      OBVIOUS
    <3>2. /\ Len(more) = Len(text) + 1 /\ more[Len(text) + 1] = Space
          /\ \A i \in 1 .. Len(text) : more[i] = text[i]
      BY <1>1, <3>1, AppendProperties
    <3>3. ASSUME NEW i \in 1 .. Len(more)
          PROVE  /\ more[i] # Tab
                 /\ isBlank(more[i]) => /\ i > 1
                                        /\ IF i < Len(more) THEN ~ isBlank(more[i + 1])
                                           ELSE n < Len(str) /\ ~ isBlank(str[n + 1])
      <4>1. CASE i = Len(text) + 1
        BY <1>1, <1>2, <2>1, <2>6, <3>2, <4>1
      <4>2. CASE i # Len(text) + 1
        <5>1. i \in 1 .. Len(text) /\ more[i] = text[i] /\ i < Len(more)
          BY <1>1, <3>2, <4>2
        <5>2. CASE isBlank(text[i])
          <6>1. i + 1 \in 1 .. Len(text)
            BY <1>1, <2>4, <5>1, <5>2
          <6> QED
            BY <2>4, <2>5, <3>2, <5>1, <5>2, <6>1
        <5> QED
          BY <2>5, <5>1, <5>2
      <4> QED
        BY <4>1, <4>2
    <3>4. ASSUME NEW c, ~ isBlank(c) PROVE Contains(more, c) <=> Contains(text, c)
      <4>1. \A i \in 1 .. Len(more) : i \in 1 .. Len(text) \/ i = Len(text) + 1
        BY <1>1, <3>2
      <4>2. 1 .. Len(text) \subseteq 1 .. Len(more) /\ c # Space
        BY <1>1, <1>2, <3>2, <3>4
      <4> QED
        BY <3>2, <4>1, <4>2 DEF Contains
    <3>5. CompressStep(str, text, n) = more
      BY <1>6, <2>6, <3>1 DEF CompressStep
    <3>6. Len(more) > 0
      BY <1>1, <3>2
    <3> QED
      BY <2>2, <3>3, <3>4, <3>5, <3>6 DEF Compressed
  <2>7. CASE ~ (n < Len(str) /\ ~ isBlank(str[n + 1]))
    <3>1. CompressStep(str, text, n) = text
      BY <1>6, <2>7 DEF CompressStep
    <3> QED
      BY <2>1, <2>2, <2>4, <2>5, <3>1 DEF Compressed
  <2> QED
    BY <2>6, <2>7
<1> QED
  BY <1>5, <1>6

\* What compressBlank leaves is clean, and it leaves all that is not blank.
LEMMA CompressedClean ==
    ASSUME NEW w \in Word
    PROVE  /\ compressBlank(w) \in Clean
           /\ \A c : ~ isBlank(c) => (Contains(compressBlank(w), c) <=> Contains(w, c))
<1>1. PICK str \in Word : str = Trimmed(w)
  BY TrimmedWord
<1>2. Len(str) \in Nat
  BY LenProperties DEF Word, Text
<1>3. PICK texts : IsCompressing(texts, str) /\ compressBlank(w) = texts[Len(str)]
  BY <1>1, Compressing
<1>4. Len(str) > 0 => ~ isBlank(str[1])
  BY <1>1, TrimmedEnds
<1> DEFINE T == {n \in Nat : n <= Len(str) => Compressed(str, texts[n], n)}
<1>5. 0 \in T
  <2>1. texts[0] = <<>> /\ Len(<<>>) = 0
    BY <1>3, EmptySeq DEF IsCompressing
  <2>2. \A c : ~ Contains(<<>>, c)
    BY <2>1 DEF Contains
  <2>3. Compressed(str, <<>>, 0)
    BY <2>1, <2>2 DEF Compressed
  <2> QED
    BY <2>1, <2>3
<1>6. ASSUME NEW n \in Nat, n \in T PROVE n + 1 \in T
  <2>1. SUFFICES ASSUME n + 1 <= Len(str) PROVE Compressed(str, texts[n + 1], n + 1)
    OBVIOUS
  <2>2. PICK m : m = n + 1
    OBVIOUS
  <2>3. m \in 1 .. Len(str) /\ m - 1 = n /\ n \in 0 .. Len(str)
    BY <1>2, <2>1, <2>2
  <2>4. Compressed(str, texts[m - 1], m - 1)
    BY <1>6, <2>1, <2>3
  <2>5. texts[m - 1] \in Word /\ texts[m] = CompressStep(str, texts[m - 1], m)
    BY <1>3, <2>3 DEF IsCompressing
  <2> HIDE DEF T
  <2>6. Compressed(str, CompressStep(str, texts[m - 1], m), m)
    BY <1>4, <2>3, <2>4, <2>5, CompressedMore
  <2> QED
    BY <2>2, <2>5, <2>6
<1> HIDE DEF T
<1>7. Len(str) \in T
  BY <1>2, <1>5, <1>6, CountsUp
<1>8. PICK text : text = texts[Len(str)]
  OBVIOUS
<1>9. text \in Word /\ Compressed(str, text, Len(str))
  BY <1>2, <1>3, <1>7, <1>8 DEF T, IsCompressing
<1>10. text \in Clean
  BY <1>2, <1>9 DEF Compressed, Clean
<1>11. ASSUME NEW c, ~ isBlank(c) PROVE Contains(text, c) <=> Contains(w, c)
  <2>1. Contains(text, c) <=> Contains(str, c)
    BY <1>9, <1>11 DEF Compressed, Contains
  <2>2. Contains(str, c) <=> Contains(w, c)
    BY <1>1, <1>11, TrimmedEnds
  <2> QED
    BY <2>1, <2>2
<1> QED
  BY <1>3, <1>8, <1>10, <1>11

\* What is clean stays as it is.
LEMMA CleanStays ==
    ASSUME NEW w \in Clean
    PROVE  compressBlank(w) = w
<1>1. w \in Word /\ w \in Seq(Character) /\ Len(w) \in Nat /\ DOMAIN w = 1 .. Len(w)
  BY LenProperties DEF Clean, Word, Text
<1>2. \A i \in 1 .. Len(w) : w[i] # Tab /\ (isBlank(w[i]) => i > 1 /\ i < Len(w) /\ ~ isBlank(w[i + 1]))
  BY DEF Clean
<1>3. Trimmed(w) = w
  <2> DEFINE inner == {i \in DOMAIN w : ~ isBlank(w[i])}
  <2>1. CASE w = <<>>
    <3>1. inner = {}
      BY <1>1, <2>1, EmptySeq
    <3> QED
      BY <2>1, <3>1 DEF Trimmed
  <2>2. CASE w # <<>>
    <3>1. Len(w) > 0
      BY <1>1, <2>2, EmptySeq
    <3>2. 1 \in 1 .. Len(w) /\ Len(w) \in 1 .. Len(w)
      BY <1>1, <3>1
    <3>3. 1 \in inner /\ Len(w) \in inner
      BY <1>1, <1>2, <3>2
    <3>4. inner \subseteq 0 .. Len(w) /\ inner \subseteq Nat /\ inner \subseteq 1 .. Len(w) /\ inner # {}
      BY <1>1, <3>3
    <3>5. Trimmed(w) = SubSeq(w, Min(inner), Max(inner))
      BY <3>4 DEF Trimmed
    <3> HIDE DEF inner
    <3>6. PICK m, n : m = Min(inner) /\ n = Max(inner)
      OBVIOUS
    <3>7. m \in inner /\ n \in inner /\ \A i \in inner : m <= i /\ i <= n
      BY <1>1, <3>4, <3>6, MinIs, MaxIs
    <3>8. m = 1 /\ n = Len(w)
      <4>1. m \in 1 .. Len(w) /\ n \in 1 .. Len(w) /\ m <= 1 /\ Len(w) <= n
        BY <3>3, <3>4, <3>7
      <4>2. m = 1
        BY <4>1
      <4>3. \A l \in Nat : n \in 1 .. l /\ l <= n => n = l
        OBVIOUS
      <4> QED
        BY <1>1, <4>1, <4>2, <4>3
    <3> QED
      BY <1>1, <3>5, <3>6, <3>8, SubSeqFull
  <2> QED
    BY <2>1, <2>2
<1>4. PICK texts : IsCompressing(texts, w) /\ compressBlank(w) = texts[Len(w)]
  BY <1>1, <1>3, Compressing
<1> DEFINE T == {n \in Nat : n <= Len(w) => texts[n] = SubSeq(w, 1, n)}
<1>5. 0 \in T
  <2>1. texts[0] = <<>>
    BY <1>4 DEF IsCompressing
  <2>2. SubSeq(w, 1, 0) = <<>>
    BY <1>1, SubSeqEmpty
  <2> QED
    BY <2>1, <2>2
<1>6. ASSUME NEW n \in Nat, n \in T PROVE n + 1 \in T
  <2>1. SUFFICES ASSUME n + 1 <= Len(w) PROVE texts[n + 1] = SubSeq(w, 1, n + 1)
    OBVIOUS
  <2>2. PICK m : m = n + 1
    OBVIOUS
  <2>3. m \in 1 .. Len(w) /\ m - 1 = n /\ n \in 0 .. Len(w)
    BY <1>1, <2>1, <2>2
  <2>4. texts[m - 1] = SubSeq(w, 1, m - 1) /\ texts[m - 1] \in Word
    BY <1>4, <1>6, <2>1, <2>3 DEF IsCompressing
  <2> HIDE DEF T
  <2>5. texts[m] = CompressStep(w, texts[m - 1], m)
    BY <1>4, <2>3 DEF IsCompressing
  <2>6. CompressStep(w, texts[m - 1], m) = Append(texts[m - 1], w[m])
    <3>1. w[m] # Tab /\ (isBlank(w[m]) => m < Len(w) /\ ~ isBlank(w[m + 1]) /\ w[m] = Space)
      BY <1>2, <2>3 DEF isBlank
    <3> QED
      BY <3>1 DEF CompressStep
  <2>7. SubSeq(w, 1, m) = SubSeq(w, 1, m - 1) \o <<w[m]>>
    <3>1. 1 \in 1 .. Len(w)
      BY <1>1, <2>3
    <3> QED
      BY <1>1, <2>3, <3>1, SubSeqRecursiveSecond
  <2>8. texts[m - 1] \in Seq(Character) /\ w[m] \in Character
    BY <1>1, <2>3, <2>4, ElementOfSeq DEF Word, Text
  <2>9. Append(texts[m - 1], w[m]) = texts[m - 1] \o <<w[m]>>
    BY <2>8, AppendIsConcat
  <2> QED
    BY <2>2, <2>4, <2>5, <2>6, <2>7, <2>9
<1> HIDE DEF T
<1>7. Len(w) \in T
  BY <1>1, <1>5, <1>6, CountsUp
<1>8. texts[Len(w)] = SubSeq(w, 1, Len(w))
  BY <1>1, <1>7 DEF T
<1> QED
  BY <1>1, <1>4, <1>8, SubSeqFull

\* A character is in a text that is not a comma if it is in one of its parts.
InSome(parts, c) == \E i \in 1 .. Len(parts) : Contains(parts[i], c)

LEMMA SplitStepChars ==
    ASSUME NEW parts \in Parts, NEW x \in Character, NEW c, c # Comma
    PROVE  InSome(SplitStep(parts, x), c) <=> InSome(parts, c) \/ x = c
<1>1. parts \in Seq(Word) /\ Len(parts) \in Nat \ {0} /\ Len(parts) \in 1 .. Len(parts)
  BY EmptySeq DEF Parts
<1>2. CASE x = Comma
  <2>1. PICK more : more = Append(parts, <<>>)
    OBVIOUS
  <2>2. Len(more) = Len(parts) + 1 /\ more[Len(parts) + 1] = <<>> /\ \A i \in 1 .. Len(parts) : more[i] = parts[i]
    BY <1>1, <2>1, Empty, AppendProperties
  <2>3. ~ Contains(<<>>, c)
    BY EmptySeq DEF Contains
  <2>4. /\ 1 .. Len(parts) \subseteq 1 .. Len(more)
        /\ \A i \in 1 .. Len(more) : i \in 1 .. Len(parts) \/ i = Len(parts) + 1
    BY <1>1, <2>2
  <2>5. InSome(more, c) <=> InSome(parts, c)
    BY <2>2, <2>3, <2>4 DEF InSome
  <2> QED
    BY <1>2, <2>1, <2>5 DEF SplitStep
<1>3. CASE x # Comma
  <2>1. PICK l, last : l = Len(parts) /\ last = Append(parts[l], x)
    OBVIOUS
  <2>2. parts[l] \in Word
    BY <1>1, <2>1, ElementOfSeq
  <2>3. last \in Word /\ parts[l] \in Seq(Character)
    BY <1>3, <2>1, <2>2, Longer DEF Word, Text
  <2>4. /\ Len(last) = Len(parts[l]) + 1 /\ last[Len(parts[l]) + 1] = x /\ Len(parts[l]) \in Nat
        /\ \A i \in 1 .. Len(parts[l]) : last[i] = parts[l][i]
    BY <2>1, <2>3, AppendProperties, LenProperties
  <2>5. Contains(last, c) <=> Contains(parts[l], c) \/ x = c
    <3>1. /\ Len(parts[l]) + 1 \in 1 .. Len(last) /\ 1 .. Len(parts[l]) \subseteq 1 .. Len(last)
          /\ \A i \in 1 .. Len(last) : i \in 1 .. Len(parts[l]) \/ i = Len(parts[l]) + 1
      BY <2>4
    <3> QED
      BY <2>4, <3>1 DEF Contains
  <2>6. PICK more : more = [parts EXCEPT ![l] = last]
    OBVIOUS
  <2>7. Len(more) = l /\ \A i \in 1 .. l : more[i] = IF i = l THEN last ELSE parts[i]
    BY <1>1, <2>1, <2>3, <2>6, ExceptSeq
  <2>8. l \in 1 .. l
    BY <1>1, <2>1
  <2>9. InSome(more, c) <=> InSome(parts, c) \/ x = c
    BY <2>1, <2>5, <2>7, <2>8 DEF InSome
  <2>10. SplitStep(parts, x) = more
    BY <1>3, <2>1, <2>6 DEF SplitStep
  <2> QED
    BY <2>9, <2>10
<1> QED
  BY <1>2, <1>3

LEMMA SplitChars ==
    ASSUME NEW str \in Text, NEW c, c # Comma
    PROVE  Contains(str, c) <=> InSome(Split(str), c)
<1>1. Len(str) \in Nat /\ \A n \in 1 .. Len(str) : str[n] \in Character
  BY LenProperties, ElementOfSeq DEF Text
<1>2. PICK p : IsCutting(p, str) /\ Split(str) = p[Len(str)]
  BY Cutting
<1> DEFINE T == {n \in Nat : n <= Len(str) => (InSome(p[n], c) <=> \E k \in 1 .. n : str[k] = c)}
<1>3. 0 \in T
  <2>1. p[0] = <<<<>>>> /\ Len(<<<<>>>>) = 1 /\ <<<<>>>>[1] = <<>> /\ ~ Contains(<<>>, c)
    BY <1>2, EmptySeq DEF IsCutting, Contains
  <2>2. ~ InSome(p[0], c)
    BY <2>1 DEF InSome
  <2> QED
    BY <2>2
<1>4. ASSUME NEW n \in Nat, n \in T PROVE n + 1 \in T
  <2>1. SUFFICES ASSUME n + 1 <= Len(str) PROVE InSome(p[n + 1], c) <=> \E k \in 1 .. n + 1 : str[k] = c
    OBVIOUS
  <2>2. PICK m : m = n + 1
    OBVIOUS
  <2>3. m \in 1 .. Len(str) /\ m - 1 = n /\ n \in 0 .. Len(str)
    BY <1>1, <2>1, <2>2
  <2>4. InSome(p[n], c) <=> \E k \in 1 .. n : str[k] = c
    BY <1>4, <2>1
  <2>5. p[n] \in Parts /\ p[m] = SplitStep(p[n], str[m])
    BY <1>2, <2>3 DEF IsCutting
  <2>6. InSome(p[m], c) <=> InSome(p[n], c) \/ str[m] = c
    BY <1>1, <2>3, <2>5, SplitStepChars
  <2>7. \A k \in 1 .. m : k \in 1 .. n \/ k = m
    BY <2>3
  <2>8. 1 .. n \subseteq 1 .. m /\ m \in 1 .. m
    BY <2>3
  <2> HIDE DEF T
  <2>9. InSome(p[m], c) <=> \E k \in 1 .. m : str[k] = c
    BY <2>4, <2>6, <2>7, <2>8
  <2> QED
    BY <2>2, <2>9
<1> HIDE DEF T
<1>5. Len(str) \in T
  BY <1>1, <1>3, <1>4, CountsUp
<1> QED
  BY <1>1, <1>2, <1>5 DEF T, Contains

\* What a part adds to the tags: what is in it, but blanks and tags that are there.
LEMMA TagStepClean ==
    ASSUME NEW list \in TagList, NEW part \in Word
    PROVE  LET more == TagStep(list, part)
           IN  /\ more \in TagList
               /\ (\A i \in 1 .. Len(list) : list[i] \in Clean) => \A i \in 1 .. Len(more) : more[i] \in Clean
               /\ \A c : ~ isBlank(c) => (InSome(more, c) <=> InSome(list, c) \/ Contains(part, c))
<1>1. PICK _tag : _tag = compressBlank(part)
  OBVIOUS
<1>2. _tag \in Word /\ _tag \in Clean /\ \A c : ~ isBlank(c) => (Contains(_tag, c) <=> Contains(part, c))
  BY <1>1, CompressedWord, CompressedClean
<1>3. list \in Seq(Word) /\ Len(list) \in Nat
  BY LenProperties DEF TagList
<1>4. CASE _tag = <<>> \/ Contains(list, _tag)
  <2>1. TagStep(list, part) = list
    BY <1>1, <1>4 DEF TagStep
  <2>2. ASSUME NEW c, ~ isBlank(c), Contains(_tag, c) PROVE InSome(list, c)
    <3>1. _tag # <<>>
      BY <2>2, EmptySeq DEF Contains
    <3>2. PICK i \in 1 .. Len(list) : list[i] = _tag
      BY <1>4, <3>1 DEF Contains
    <3> QED
      BY <2>2, <3>2 DEF InSome
  <2> QED
    BY <1>2, <2>1, <2>2
<1>5. CASE ~ (_tag = <<>> \/ Contains(list, _tag))
  <2>1. PICK more : more = Append(list, _tag)
    OBVIOUS
  <2>2. TagStep(list, part) = more
    BY <1>1, <1>5, <2>1 DEF TagStep
  <2>3. more \in TagList
    BY <1>2, <1>5, <2>1, TagListGrows
  <2>4. Len(more) = Len(list) + 1 /\ more[Len(list) + 1] = _tag /\ \A i \in 1 .. Len(list) : more[i] = list[i]
    BY <1>2, <1>3, <2>1, AppendProperties
  <2>5. /\ 1 .. Len(list) \subseteq 1 .. Len(more) /\ Len(list) + 1 \in 1 .. Len(more)
        /\ \A i \in 1 .. Len(more) : i \in 1 .. Len(list) \/ i = Len(list) + 1
    BY <1>3, <2>4
  <2>6. (\A i \in 1 .. Len(list) : list[i] \in Clean) => \A i \in 1 .. Len(more) : more[i] \in Clean
    BY <1>2, <2>4, <2>5
  <2>7. \A c : InSome(more, c) <=> InSome(list, c) \/ Contains(_tag, c)
    BY <2>4, <2>5 DEF InSome
  <2> QED
    BY <1>2, <2>2, <2>3, <2>6, <2>7
<1> QED
  BY <1>4, <1>5

\* The tags that checkTag leaves are clean, and have between them all that was typed but blanks and commas.
LEMMA CheckedClean ==
    ASSUME NEW _tags \in Text
    PROVE  \E list \in TagList :
              /\ checkTag(_tags) = Joined(list)
              /\ \A i \in 1 .. Len(list) : list[i] \in Clean
              /\ \A c : ~ isBlank(c) /\ c # Comma =>
                    /\ InSome(list, c) <=> Contains(Narrow(_tags), c)
                    /\ Contains(checkTag(_tags), c) <=> Contains(Narrow(_tags), c)
<1>1. PICK parts : parts = Split(Narrow(_tags))
  OBVIOUS
<1>2. parts \in Seq(Word) /\ Len(parts) \in Nat /\ \A n \in 1 .. Len(parts) : parts[n] \in Word
  <2>1. parts \in Seq(Word)
    BY <1>1, NarrowText, SplitText DEF Parts
  <2> QED
    BY <2>1, LenProperties, ElementOfSeq
<1>3. PICK lists : IsChecking(lists, parts) /\ checkTag(_tags) = Joined(lists[Len(parts)])
  BY <1>1, Checking
<1> DEFINE Gathered(n) == /\ \A i \in 1 .. Len(lists[n]) : lists[n][i] \in Clean
                          /\ \A c : ~ isBlank(c) => (InSome(lists[n], c) <=> \E k \in 1 .. n : Contains(parts[k], c))
           T == {n \in Nat : n <= Len(parts) => Gathered(n)}
<1>4. 0 \in T
  <2>1. lists[0] = <<>> /\ Len(<<>>) = 0
    BY <1>3, EmptySeq DEF IsChecking
  <2>2. \A c : ~ InSome(<<>>, c)
    BY <2>1 DEF InSome
  <2>3. Gathered(0)
    BY <2>1, <2>2
  <2> HIDE DEF Gathered
  <2> QED
    BY <2>3
<1>5. ASSUME NEW n \in Nat, n \in T PROVE n + 1 \in T
  <2>1. SUFFICES ASSUME n + 1 <= Len(parts) PROVE Gathered(n + 1)
    OBVIOUS
  <2>2. PICK m : m = n + 1
    OBVIOUS
  <2>3. m \in 1 .. Len(parts) /\ m - 1 = n /\ n \in 0 .. Len(parts)
    BY <1>2, <2>1, <2>2
  <2>4. Gathered(n)
    BY <1>5, <2>1
  <2> HIDE DEF T
  <2>5. PICK list, more : list = lists[n] /\ more = lists[m]
    OBVIOUS
  <2>6. list \in TagList /\ more = TagStep(list, parts[m]) /\ parts[m] \in Word
    BY <1>2, <1>3, <2>3, <2>5 DEF IsChecking
  <2>7. \A i \in 1 .. Len(more) : more[i] \in Clean
    BY <2>4, <2>5, <2>6, TagStepClean
  <2>8. \A k \in 1 .. m : k \in 1 .. n \/ k = m
    BY <2>3
  <2>9. 1 .. n \subseteq 1 .. m /\ m \in 1 .. m
    BY <2>3
  <2>10. ASSUME NEW c, ~ isBlank(c) PROVE InSome(more, c) <=> \E k \in 1 .. m : Contains(parts[k], c)
    <3>1. InSome(more, c) <=> InSome(list, c) \/ Contains(parts[m], c)
      BY <2>6, <2>10, TagStepClean
    <3>2. InSome(list, c) <=> \E k \in 1 .. n : Contains(parts[k], c)
      BY <2>4, <2>5, <2>10
    <3> HIDE DEF Gathered
    <3> QED
      BY <2>8, <2>9, <3>1, <3>2
  <2>11. Gathered(m)
    BY <2>5, <2>7, <2>10
  <2> HIDE DEF Gathered
  <2> QED
    BY <2>2, <2>11
<1> HIDE DEF T, Gathered
<1>6. Len(parts) \in T
  BY <1>2, <1>4, <1>5, CountsUp
<1>7. Gathered(Len(parts))
  BY <1>2, <1>6 DEF T
<1>8. PICK list : list = lists[Len(parts)]
  OBVIOUS
<1>9. list \in TagList /\ \A i \in 1 .. Len(list) : list[i] \in Clean
  BY <1>2, <1>3, <1>7, <1>8 DEF IsChecking, Gathered
<1>10. ASSUME NEW c, ~ isBlank(c), c # Comma
       PROVE  /\ InSome(list, c) <=> Contains(Narrow(_tags), c)
              /\ Contains(Joined(list), c) <=> Contains(Narrow(_tags), c)
  <2>1. InSome(list, c) <=> InSome(parts, c)
    BY <1>7, <1>8, <1>10 DEF Gathered, InSome
  <2>2. InSome(parts, c) <=> Contains(Narrow(_tags), c)
    BY <1>1, <1>10, NarrowText, SplitChars
  <2>3. Contains(Joined(list), c) <=> InSome(list, c)
    <3>1. CASE list = <<>>
      <4>1. ~ Contains(<<>>, c) /\ ~ InSome(<<>>, c)
        BY EmptySeq DEF Contains, InSome
      <4> QED
        BY <3>1, <4>1, NoTags
    <3>2. CASE list # <<>>
      <4>1. list \in Seq(Word)
        BY <1>9 DEF TagList
      <4>2. Joined(list) \in Text /\ Split(Joined(list)) = list
        BY <3>2, <4>1, SplitJoined
      <4>3. Contains(Joined(list), c) <=> InSome(Split(Joined(list)), c)
        BY <1>10, <4>2, SplitChars
      <4> QED
        BY <4>2, <4>3
    <3> QED
      BY <3>1, <3>2
  <2> QED
    BY <2>1, <2>2, <2>3
<1> QED
  BY <1>3, <1>8, <1>9, <1>10

\* Cleaning the tags once more leaves them as they are.
LEMMA CheckedAgain ==
    ASSUME NEW list \in TagList, \A i \in 1 .. Len(list) : list[i] \in Clean, ~ Contains(Joined(list), WideComma)
    PROVE  checkTag(Joined(list)) = Joined(list)
<1>1. PICK text : text = Joined(list)
  OBVIOUS
<1>2. list \in Seq(Word) /\ Len(list) \in Nat /\ DOMAIN list = 1 .. Len(list)
  BY LenProperties DEF TagList
<1>3. \A i \in 1 .. Len(list) : list[i] # <<>>
  BY DEF TagList
<1>4. \A i, j \in 1 .. Len(list) : list[i] = list[j] => i = j
  <2>1. IsInjective(list)
    BY DEF TagList
  <2> QED
    BY <1>2, <2>1 DEF IsInjective
<1>5. text \in Text
  BY <1>1, TagsOfJoined
<1>6. Narrow(text) = text
  <2>1. \A i \in 1 .. Len(text) : text[i] # WideComma
    BY <1>1 DEF Contains
  <2>2. DOMAIN text = 1 .. Len(text) /\ text = [i \in DOMAIN text |-> text[i]]
    BY <1>5, LenProperties DEF Text
  <2> QED
    BY <2>1, <2>2 DEF Narrow
<1>7. PICK parts : parts = Split(text)
  OBVIOUS
<1>8. PICK lists : IsChecking(lists, parts) /\ checkTag(text) = Joined(lists[Len(parts)])
  BY <1>5, <1>6, <1>7, Checking
<1>9. CASE list = <<>>
  <2>1. text = <<>>
    BY <1>1, <1>9, NoTags
  <2>2. parts = <<<<>>>> /\ Len(parts) = 1 /\ parts[1] = <<>>
    BY <1>7, <2>1, SplitNothing
  <2>3. <<>> \in Clean
    BY Empty, EmptySeq DEF Clean
  <2>4. compressBlank(<<>>) = <<>>
    BY <2>3, CleanStays
  <2>5. lists[1] = TagStep(lists[0], <<>>) /\ lists[0] = <<>>
    <3>1. 1 \in 1 .. Len(parts) /\ 1 - 1 = 0
      BY <2>2
    <3> QED
      BY <1>8, <2>2, <3>1 DEF IsChecking
  <2>6. lists[1] = <<>>
    BY <2>4, <2>5 DEF TagStep
  <2> QED
    BY <1>1, <1>8, <1>9, <2>2, <2>6
<1>10. CASE list # <<>>
  <2>1. parts = list
    BY <1>1, <1>2, <1>7, <1>10, SplitJoined
  <2> DEFINE T == {n \in Nat : n <= Len(list) => lists[n] = SubSeq(list, 1, n)}
  <2>2. 0 \in T
    <3>1. lists[0] = <<>>
      BY <1>8 DEF IsChecking
    <3>2. SubSeq(list, 1, 0) = <<>>
      BY <1>2, SubSeqEmpty
    <3> QED
      BY <3>1, <3>2
  <2>3. ASSUME NEW n \in Nat, n \in T PROVE n + 1 \in T
    <3>1. SUFFICES ASSUME n + 1 <= Len(list) PROVE lists[n + 1] = SubSeq(list, 1, n + 1)
      OBVIOUS
    <3>2. PICK m, before : m = n + 1 /\ before = lists[n]
      OBVIOUS
    <3>3. m \in 1 .. Len(list) /\ m - 1 = n /\ n \in 0 .. Len(list) /\ 1 \in 1 .. Len(list)
      BY <1>2, <3>1, <3>2
    <3>4. before = SubSeq(list, 1, n)
      BY <2>3, <3>1, <3>2
    <3> HIDE DEF T
    <3>5. before \in TagList /\ lists[m] = TagStep(before, list[m])
      BY <1>8, <2>1, <3>2, <3>3 DEF IsChecking
    <3>6. compressBlank(list[m]) = list[m] /\ list[m] # <<>> /\ list[m] \in Word
      BY <1>2, <1>3, <3>3, CleanStays, ElementOfSeq
    <3>7. Len(before) = n /\ \A i \in 1 .. n : before[i] = list[i]
      <4>1. \A i \in 1 .. n : list[i] \in Word
        BY <1>2, <3>3, ElementOfSeq
      <4>2. Len(before) = (IF 1 <= n THEN n - 1 + 1 ELSE 0) /\ \A i \in 1 .. n - 1 + 1 : before[i] = list[1 + i - 1]
        BY <3>3, <3>4, <4>1, SubSeqProperties
      <4> QED
        BY <4>2
    <3>8. ~ Contains(before, list[m])
      <4>1. \A i \in 1 .. n : i \in 1 .. Len(list) /\ i # m
        BY <1>2, <3>3
      <4> QED
        BY <1>4, <3>3, <3>7, <4>1 DEF Contains
    <3>9. lists[m] = Append(before, list[m])
      BY <3>5, <3>6, <3>8 DEF TagStep
    <3>10. SubSeq(list, 1, m) = SubSeq(list, 1, m - 1) \o <<list[m]>>
      BY <1>2, <3>3, SubSeqRecursiveSecond
    <3>11. Append(before, list[m]) = before \o <<list[m]>>
      <4>1. before \in Seq(Word)
        BY <3>5 DEF TagList
      <4> QED
        BY <3>6, <4>1, AppendIsConcat
    <3> QED
      BY <3>2, <3>3, <3>4, <3>9, <3>10, <3>11
  <2> HIDE DEF T
  <2>4. Len(list) \in T
    BY <1>2, <2>2, <2>3, CountsUp
  <2>5. lists[Len(list)] = SubSeq(list, 1, Len(list))
    BY <1>2, <2>4 DEF T
  <2> QED
    BY <1>1, <1>2, <1>8, <2>1, <2>5, SubSeqFull
<1> QED
  BY <1>9, <1>10

\* Letters and wide commas are no blanks, and letters are no commas.
LEMMA Letters == ~ isBlank("a") /\ "a" # Comma /\ "a" # WideComma /\ ~ isBlank(WideComma) /\ WideComma # Comma
<1>1. "a" # " " /\ "a" # "tab" /\ "a" # "," /\ "a" # "wide" /\ "wide" # " " /\ "wide" # "tab" /\ "wide" # ","
  OBVIOUS
<1> QED
  BY <1>1 DEF isBlank, Space, Tab, Comma, WideComma

\* What is so of a text of tags after it was checked.
LEMMA ChecksTags ==
    ASSUME NEW _tags \in Text
    PROVE  LET tags == TagsOf(checkTag(_tags))
           IN  /\ IsInjective(tags)
               /\ \A i \in DOMAIN tags : tags[i] # <<>> /\ tags[i] = compressBlank(tags[i])
               /\ ~ Contains(checkTag(_tags), WideComma)
               /\ Contains(checkTag(_tags), "a") <=> Contains(_tags, "a")
               /\ checkTag(checkTag(_tags)) = checkTag(_tags)
<1>1. PICK list \in TagList :
         /\ checkTag(_tags) = Joined(list)
         /\ \A i \in 1 .. Len(list) : list[i] \in Clean
         /\ \A c : ~ isBlank(c) /\ c # Comma =>
               /\ InSome(list, c) <=> Contains(Narrow(_tags), c)
               /\ Contains(checkTag(_tags), c) <=> Contains(Narrow(_tags), c)
  BY CheckedClean
<1>2. TagsOf(checkTag(_tags)) = list
  BY <1>1, TagsOfJoined
<1>3. IsInjective(list) /\ DOMAIN list = 1 .. Len(list) /\ \A i \in 1 .. Len(list) : list[i] # <<>>
  <2>1. list \in Seq(Word) /\ IsInjective(list) /\ \A i \in 1 .. Len(list) : list[i] # <<>>
    BY DEF TagList
  <2> QED
    BY <2>1, LenProperties
<1>4. \A i \in 1 .. Len(list) : list[i] = compressBlank(list[i])
  BY <1>1, CleanStays
<1>5. PICK text : text = Narrow(_tags)
  OBVIOUS
<1>6. Len(text) = Len(_tags) /\ \A i \in 1 .. Len(_tags) : text[i] = IF _tags[i] = WideComma THEN Comma ELSE _tags[i]
  BY <1>5, NarrowText
<1>7. ~ Contains(text, WideComma) /\ (Contains(text, "a") <=> Contains(_tags, "a"))
  BY <1>6, Letters DEF Contains
<1>8. ~ Contains(checkTag(_tags), WideComma) /\ (Contains(checkTag(_tags), "a") <=> Contains(_tags, "a"))
  BY <1>1, <1>5, <1>7, Letters
<1>9. checkTag(checkTag(_tags)) = checkTag(_tags)
  BY <1>1, <1>8, CheckedAgain
<1> QED
  BY <1>2, <1>3, <1>4, <1>8, <1>9

-----------------------------------------------------------------------------
(* Ranked tags. *)

\* Since a tag is once at most in a list, it comes as often as there are lists with it.
LEMMA CountsLists ==
    ASSUME NEW n \in Nat, NEW lists \in [1 .. n -> TagList], NEW tag
    PROVE  LET with == {a \in 1 .. n : Contains(lists[a], tag)}
           IN  Cardinality(with) \in Nat /\ Cardinality(Places(lists, tag)) = Cardinality(with)
<1> DEFINE A == {a \in 1 .. n : Contains(lists[a], tag)}
           B == Places(lists, tag)
<1>1. \A a \in 1 .. n : /\ IsInjective(lists[a]) /\ DOMAIN lists[a] = 1 .. Len(lists[a])
                        /\ a \in A <=> \E i \in 1 .. Len(lists[a]) : lists[a][i] = tag
  <2>1. \A a \in 1 .. n : lists[a] \in Seq(Word) /\ IsInjective(lists[a])
    BY DEF TagList
  <2>2. \A a \in 1 .. n : DOMAIN lists[a] = 1 .. Len(lists[a])
    BY <2>1, LenProperties
  <2> QED
    BY <2>1, <2>2 DEF Contains
<1>2. B = UNION {{<<a, i>> : i \in {k \in 1 .. Len(lists[a]) : lists[a][k] = tag}} : a \in 1 .. n}
  BY <1>1 DEF Places
<1>3. IsFiniteSet(A) /\ Cardinality(A) \in Nat
  <2>1. IsFiniteSet(1 .. n)
    BY FS_Interval
  <2> QED
    BY <2>1, FS_Subset, FS_CardinalityType
<1> HIDE DEF A
<1>4. A \subseteq 1 .. n
  BY DEF A
<1> DEFINE place(a) == CHOOSE i \in 1 .. Len(lists[a]) : lists[a][i] = tag
<1>5. \A a \in A : place(a) \in 1 .. Len(lists[a]) /\ lists[a][place(a)] = tag
  BY <1>1, <1>4
<1>6. \A a \in 1 .. n : \A i \in 1 .. Len(lists[a]) : lists[a][i] = tag => a \in A /\ i = place(a)
  BY <1>1, <1>5 DEF IsInjective
<1> HIDE DEF place
<1> DEFINE f == [a \in A |-> <<a, place(a)>>]
<1>7. \A x \in B : \E a \in A : x = <<a, place(a)>>
  BY <1>2, <1>6
<1>8. \A a \in A : <<a, place(a)>> \in B
  BY <1>2, <1>4, <1>5
<1> HIDE DEF B
<1>9. f \in Bijection(A, B)
  <2>1. f \in [A -> B]
    BY <1>8
  <2>2. IsInjective(f)
    BY DEF IsInjective
  <2>3. \A x \in B : \E a \in A : f[a] = x
    BY <1>7
  <2> HIDE DEF f
  <2> QED
    BY <2>1, <2>2, <2>3 DEF Bijection, Injection, Surjection
<1>10. Cardinality(B) = Cardinality(A)
  BY <1>3, <1>9, FS_Bijection DEF ExistsBijection
<1> QED
  BY <1>3, <1>10 DEF A, B

\* There are finitely many tags.
LEMMA TagsFinite ==
    ASSUME NEW n \in Nat, NEW lists \in [1 .. n -> TagList]
    PROVE  IsFiniteSet(UNION {ToSet(lists[a]) : a \in 1 .. n})
<1> DEFINE sets == {ToSet(lists[a]) : a \in 1 .. n}
<1>1. ASSUME NEW a \in 1 .. n PROVE IsFiniteSet(ToSet(lists[a]))
  <2>1. PICK list : list = lists[a]
    OBVIOUS
  <2>2. list \in Seq(Word)
    BY <2>1 DEF TagList
  <2>3. Len(list) \in Nat /\ list \in [1 .. Len(list) -> Word] /\ DOMAIN list = 1 .. Len(list)
    BY <2>2, LenProperties
  <2>4. list \in [1 .. Len(list) -> ToSet(list)] /\ \A x \in ToSet(list) : \E i \in 1 .. Len(list) : list[i] = x
    BY <2>3 DEF ToSet
  <2>5. list \in Surjection(1 .. Len(list), ToSet(list))
    BY <2>4 DEF Surjection
  <2>6. IsFiniteSet(1 .. Len(list))
    BY <2>3, FS_Interval
  <2>7. IsFiniteSet(ToSet(list))
    BY <2>5, <2>6, FS_Surjection
  <2> QED
    BY <2>1, <2>7
<1>2. IsFiniteSet(sets)
  <2> DEFINE f == [a \in 1 .. n |-> ToSet(lists[a])]
  <2>1. f \in [1 .. n -> sets] /\ \A x \in sets : \E a \in 1 .. n : f[a] = x
    OBVIOUS
  <2> HIDE DEF f, sets
  <2>2. f \in Surjection(1 .. n, sets)
    BY <2>1 DEF Surjection
  <2>3. IsFiniteSet(1 .. n)
    BY FS_Interval
  <2> QED
    BY <2>2, <2>3, FS_Surjection
<1>3. \A T \in sets : IsFiniteSet(T)
  BY <1>1
<1> HIDE DEF sets
<1>4. IsFiniteSet(UNION sets)
  BY <1>2, <1>3, FS_UNION
<1> QED
  BY <1>4 DEF sets

\* Any order of the keys of a map is sorted into one by counts.
LEMMA SomeOrderSorted ==
    ASSUME NEW K, IsFiniteSet(K), NEW map \in Maps(K), NEW key_arr \in SetToSeqs(K),
           NEW sorted, sorted = quickSort(map, key_arr, 1, Len(key_arr))
    PROVE  /\ DOMAIN sorted \subseteq Nat /\ {sorted[i] : i \in DOMAIN sorted} = K
           /\ \A i, j \in DOMAIN sorted : i < j => map[sorted[i]] >= map[sorted[j]] /\ sorted[i] # sorted[j]
<1>1. PICK N : N = Cardinality(K)
  OBVIOUS
<1>2. N \in Nat
  BY <1>1, FS_CardinalityType
<1>3. key_arr \in Arrays(N, K) /\ IsInjective(key_arr)
  BY <1>1 DEF SetToSeqs, Arrays, IsInjective
<1>4. Len(key_arr) = N
  <2>1. key_arr \in Seq(K)
    BY <1>2, <1>3 DEF Arrays
  <2> QED
    BY <1>2, <1>3, <2>1 DEF Arrays
<1>5. key_arr \in Surjection(1 .. N, K)
  <2>1. key_arr \in Injection(1 .. N, K)
    BY <1>3 DEF Injection, Arrays
  <2>2. Cardinality(1 .. N) = Cardinality(K)
    BY <1>1, <1>2, FS_Interval
  <2> QED
    BY <2>1, <2>2, FS_Injection
<1>6. sorted \in Arrays(N, K) /\ Sorted(map, key_arr, sorted, 1, N)
  BY <1>2, <1>3, <1>4, QuickSortSorts
<1>7. DOMAIN sorted = 1 .. N /\ IsInjective(sorted)
  BY <1>3, <1>6 DEF Sorted, Rearranged, Arrays
<1>8. ASSUME NEW k \in K PROVE \E i \in 1 .. N : sorted[i] = k
  <2>1. PICK i \in 1 .. N : key_arr[i] = k
    BY <1>5 DEF Surjection
  <2> QED
    BY <1>6, <2>1 DEF Sorted, Rearranged
<1>9. {sorted[i] : i \in 1 .. N} = K
  BY <1>6, <1>8 DEF Arrays
<1>10. ASSUME NEW i \in 1 .. N, NEW j \in 1 .. N, i < j
       PROVE  map[sorted[i]] >= map[sorted[j]] /\ sorted[i] # sorted[j]
  <2>1. i # j
    BY <1>10
  <2> QED
    BY <1>6, <1>7, <1>10, <2>1 DEF Sorted, IsInjective
<1>11. PICK places : places = DOMAIN sorted
  OBVIOUS
<1>12. places = 1 .. N
  BY <1>7, <1>11
<1>13. {sorted[i] : i \in places} = K
  BY <1>9, <1>12, Zenon
<1>14. \A i, j \in places : i < j => map[sorted[i]] >= map[sorted[j]] /\ sorted[i] # sorted[j]
  BY <1>10, <1>12
<1>15. places \subseteq Nat
  BY <1>2, <1>12
<1> QED
  BY <1>11, <1>13, <1>14, <1>15

\* Texts as checkTag saves them.
Saved == {checkTag(text) : text \in Text}

\* So hotTag counts articles, for all texts that checkTag saved.
LEMMA HotTagsOf ==
    ASSUME NEW texts \in Seq(Saved), NEW hot \in hotTag(texts)
    PROVE  /\ {hot[i].tag : i \in DOMAIN hot} = UNION {ToSet(TagsOf(texts[a])) : a \in DOMAIN texts}
           /\ \A i \in DOMAIN hot :
                 hot[i].count = Cardinality({a \in DOMAIN texts : Contains(TagsOf(texts[a]), hot[i].tag)})
           /\ \A i, j \in DOMAIN hot : i < j => hot[i].count >= hot[j].count /\ hot[i].tag # hot[j].tag
<1>1. PICK n : n = Len(texts)
  OBVIOUS
<1>2. n \in Nat /\ DOMAIN texts = 1 .. n /\ \A a \in 1 .. n : texts[a] \in Saved
  BY <1>1, LenProperties, ElementOfSeq
<1>3. PICK lists : lists = [a \in DOMAIN texts |-> TagsOf(texts[a])]
  OBVIOUS
<1>4. \A a \in 1 .. n : lists[a] = TagsOf(texts[a]) /\ lists[a] \in TagList
  BY <1>2, <1>3, CheckedTags DEF Saved
<1>5. lists \in [1 .. n -> TagList] /\ DOMAIN lists = 1 .. n
  BY <1>2, <1>3, <1>4
<1>6. PICK K : K = UNION {ToSet(lists[a]) : a \in 1 .. n}
  OBVIOUS
<1>7. IsFiniteSet(K)
  BY <1>2, <1>5, <1>6, TagsFinite
<1> DEFINE with(tag) == {a \in 1 .. n : Contains(lists[a], tag)}
<1>8. \A tag : Cardinality(with(tag)) \in Nat /\ Cardinality(Places(lists, tag)) = Cardinality(with(tag))
  BY <1>2, <1>5, CountsLists
<1>9. PICK map : map = TagMap(lists)
  OBVIOUS
<1>10. map = [tag \in K |-> Cardinality(Places(lists, tag))]
  BY <1>5, <1>6, <1>9 DEF TagMap
<1> HIDE DEF with
<1>11. map \in Maps(K) /\ DOMAIN map = K /\ \A tag \in K : map[tag] = Cardinality(with(tag))
  BY <1>8, <1>10 DEF Maps
<1>12. PICK key_arr \in SetToSeqs(DOMAIN map) :
          LET sorted == quickSort(map, key_arr, 1, Len(key_arr))
          IN  hot = [i \in DOMAIN sorted |-> [tag |-> sorted[i], count |-> map[sorted[i]]]]
  BY <1>3, <1>9 DEF hotTag
<1>13. PICK sorted : sorted = quickSort(map, key_arr, 1, Len(key_arr))
  OBVIOUS
<1>14. hot = [i \in DOMAIN sorted |-> [tag |-> sorted[i], count |-> map[sorted[i]]]]
  BY <1>12, <1>13
<1>15. key_arr \in SetToSeqs(K)
  BY <1>11, <1>12
<1>16. /\ DOMAIN sorted \subseteq Nat /\ {sorted[i] : i \in DOMAIN sorted} = K
       /\ \A i, j \in DOMAIN sorted : i < j => map[sorted[i]] >= map[sorted[j]] /\ sorted[i] # sorted[j]
  BY <1>7, <1>11, <1>13, <1>15, SomeOrderSorted
<1>17. PICK places : places = DOMAIN sorted
  OBVIOUS
<1>18. DOMAIN hot = places /\ \A i \in places : hot[i].tag = sorted[i] /\ hot[i].count = map[sorted[i]] /\ sorted[i] \in K
  BY <1>14, <1>16, <1>17
<1>19. {hot[i].tag : i \in DOMAIN hot} = K
  BY <1>16, <1>17, <1>18
<1>20. K = UNION {ToSet(TagsOf(texts[a])) : a \in DOMAIN texts}
  BY <1>2, <1>4, <1>6
<1>21. ASSUME NEW i \in DOMAIN hot
       PROVE  hot[i].count = Cardinality({a \in DOMAIN texts : Contains(TagsOf(texts[a]), hot[i].tag)})
  <2>1. hot[i].count = Cardinality(with(hot[i].tag))
    BY <1>11, <1>18
  <2>2. with(hot[i].tag) = {a \in DOMAIN texts : Contains(TagsOf(texts[a]), hot[i].tag)}
    BY <1>2, <1>4 DEF with
  <2> QED
    BY <2>1, <2>2
<1>22. \A i, j \in DOMAIN hot : i < j => hot[i].count >= hot[j].count /\ hot[i].tag # hot[j].tag
  BY <1>16, <1>17, <1>18
<1> QED
  BY <1>19, <1>20, <1>21, <1>22

\* What the inputs are of each of these functions.
TagsInv ==
    /\ function = "quickSort" => input \in Seq(Nat)
    /\ function = "checkTag" => input \in Text
    /\ function = "hotTag" => input \in Seq(Saved)

\* They are so in every state.
LEMMA TagsTyped == TagsSpec => []TagsInv
<1>1. TagsInit => TagsInv
  <2>1. <<>> \in Seq(Nat) /\ <<>> \in Text /\ <<>> \in Seq(Saved)
    BY EmptySeq DEF Text
  <2> QED
    BY <2>1 DEF TagsInit, TagsInv
<1>2. ASSUME TagsInv, [TagsNext]_inputVars PROVE TagsInv'
  <2>1. CASE function = "quickSort" /\ CountOneMore /\ UNCHANGED function
    <3>1. PICK n \in 1 .. MaxCount : input' = Append(input, n)
      BY <2>1 DEF CountOneMore
    <3>2. input \in Seq(Nat) /\ n \in Nat
      BY <1>2, <2>1, <3>1, TagsAssumption DEF TagsInv
    <3>3. input' \in Seq(Nat)
      BY <3>1, <3>2, AppendProperties
    <3> QED
      BY <2>1, <3>3 DEF TagsInv
  <2>2. CASE function = "checkTag" /\ TypeOneMore /\ UNCHANGED function
    <3>1. PICK c \in Chars : input' = Append(input, c)
      BY <2>2 DEF TypeOneMore
    <3>2. c \in Character /\ input \in Seq(Character)
      <4>1. Chars \subseteq Character
        BY DEF Chars, Character
      <4> QED
        BY <1>2, <2>2, <4>1 DEF TagsInv, Text
    <3>3. input' \in Text
      BY <3>1, <3>2, AppendProperties DEF Text
    <3> QED
      BY <2>2, <3>3 DEF TagsInv
  <2>3. CASE function = "hotTag" /\ SaveOneMore /\ UNCHANGED function
    <3>1. PICK text \in TagTexts : input' = Append(input, checkTag(text))
      BY <2>3 DEF SaveOneMore
    <3>2. text \in Text
      <4>1. text \in Seq(STRING) /\ STRING \subseteq Character
        BY <3>1, TagsAssumption DEF Character
      <4> QED
        BY <4>1, SeqMonotonic DEF Text
    <3>3. checkTag(text) \in Saved /\ input \in Seq(Saved)
      BY <1>2, <2>3, <3>2 DEF Saved, TagsInv
    <3>4. input' \in Seq(Saved)
      BY <3>1, <3>3, AppendProperties
    <3> QED
      BY <2>3, <3>4 DEF TagsInv
  <2>4. CASE UNCHANGED inputVars
    BY <1>2, <2>4 DEF TagsInv, inputVars
  <2> QED
    BY <1>2, <2>1, <2>2, <2>3, <2>4 DEF TagsNext
<1> QED
  BY <1>1, <1>2, PTL DEF TagsSpec

\* For any articles, whatever was typed as their tags: hotTag lists each tag of them, with the number of
\* articles that have it, the highest first (BaseAction.java:214-235).
THEOREM HotTagsCountEver == TagsSpec => []HotTagsCount
<1>1. TagsInv => HotTagsCount
  BY HotTagsOf DEF TagsInv, HotTagsCount
<1> QED
  BY <1>1, TagsTyped, PTL

\* For any text typed as the tags of an article: checkTag leaves its tags, each once, none of them empty
\* or with needless blanks, without a wide comma, and cleaning it again changes nothing (Tools.java:69-83).
THEOREM TagsCleanEver == TagsSpec => []TagsClean
<1>1. TagsInv => TagsClean
  BY ChecksTags DEF TagsInv, TagsClean
<1> QED
  BY <1>1, TagsTyped, PTL

\* For any counts, quickSort keeps the keys and puts the highest counts first (Tools.java:132-151).
THEOREM SortedByCountEver == TagsSpec => []SortedByCount
<1>1. ASSUME TagsInv, function = "quickSort"
      PROVE  LET keys   == [i \in DOMAIN input |-> i]
                 sorted == quickSort(input, keys, 1, Len(keys))
             IN  /\ ToSet(sorted) = DOMAIN input /\ Len(sorted) = Len(input)
                 /\ \A i, j \in DOMAIN sorted : i < j => input[sorted[i]] >= input[sorted[j]]
  <2>1. PICK N : N = Len(input)
    OBVIOUS
  <2>2. input \in Seq(Nat) /\ N \in Nat /\ DOMAIN input = 1 .. N /\ input \in [1 .. N -> Nat]
    <3>1. input \in Seq(Nat)
      BY <1>1 DEF TagsInv
    <3> QED
      BY <2>1, <3>1, LenProperties
  <2>3. PICK K, keys : K = 1 .. N /\ keys = [i \in DOMAIN input |-> i]
    OBVIOUS
  <2>4. keys \in Arrays(N, K) /\ input \in Maps(K) /\ keys \in Seq(K) /\ Len(keys) = N /\ DOMAIN keys = K
    BY <2>2, <2>3 DEF Arrays, Maps
  <2>5. PICK sorted : sorted = quickSort(input, keys, 1, N)
    OBVIOUS
  <2>6. sorted \in Arrays(N, K) /\ Sorted(input, keys, sorted, 1, N)
    BY <2>2, <2>4, <2>5, QuickSortSorts
  <2>7. DOMAIN sorted = K /\ sorted \in Seq(K) /\ Len(sorted) = N
    <3>1. sorted \in [1 .. N -> K]
      BY <2>6 DEF Arrays
    <3> QED
      BY <2>2, <2>3, <3>1
  <2>8. ToSet(sorted) = K
    <3>1. \A k \in K : \E l \in K : sorted[l] = k
      BY <2>2, <2>3, <2>6 DEF Sorted, Rearranged
    <3>2. \A l \in K : sorted[l] \in K
      BY <2>3, <2>6 DEF Arrays
    <3> QED
      BY <2>7, <3>1, <3>2 DEF ToSet
  <2>9. \A i, j \in K : i < j => input[sorted[i]] >= input[sorted[j]]
    BY <2>3, <2>6 DEF Sorted
  <2> QED
    BY <2>1, <2>2, <2>3, <2>4, <2>5, <2>7, <2>8, <2>9
<1>2. TagsInv => SortedByCount
  BY <1>1 DEF SortedByCount
<1> QED
  BY <1>2, TagsTyped, PTL
=============================================================================
