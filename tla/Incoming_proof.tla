--------------------------- MODULE Incoming_proof ---------------------------
(***************************************************************************)
(* Proofs about what comes in from pages.                                  *)
(*                                                                         *)
(* Frames of a chat, with any texts and however their bytes are cut: what  *)
(* was parsed and the bytes still on their way always make up the texts    *)
(* that were sent (Flow).  That needs how the loop over a piece goes on    *)
(* where the piece before ended (ParseConcat), by induction over numbers,  *)
(* in the form of a lemma about sets of them (CountsUp).                   *)
(*                                                                         *)
(* Requests for actions, with any threads and names: the object that is    *)
(* called was made for its name and is ready, no thread makes two objects  *)
(* for one name, and an action that was loaded at the start stays the only *)
(* object for its name.                                                    *)
(*                                                                         *)
(* Requests to index, with any number of tables: no article is found       *)
(* twice, an index never goes back, and locks are returned unless a        *)
(* request failed.  The argument is that a request that has the lock of an *)
(* index keeps all others from changing the index, and that it reads the   *)
(* table only then.  So its list is never older than what is in the index, *)
(* and what is missing in it is no longer in the table (Listed).           *)
(***************************************************************************)
EXTENDS WsParser, Dispatch, SearchIndex, WellFoundedInduction, SequenceTheorems, TLAPS

-----------------------------------------------------------------------------
(* Action dispatch. *)

Types ==
    /\ actions \in [Name -> Nat \cup {Nobody}]
    /\ made \in Seq([name : Name, by : Thread \cup {Main}])
    /\ ready \subseteq DOMAIN made
    /\ loaded \in 0 .. Len(Initial)
    /\ pc \in [Thread -> {"idle", "lookup", "create", "init", "test", "put", "invoke", "reply"}]
    /\ asked \in [Thread -> Name]
    /\ action \in [Thread -> Nat \cup {Nobody}]

\* An object is in the map only when it is ready, and under its own name.
MapReady ==
    \A n \in Name : actions[n] # Nobody =>
        actions[n] \in ready /\ made[actions[n]].name = n

\* What a thread holds between making an object and calling it.
HeldRight ==
    \A t \in Thread : pc[t] \in {"init", "test", "put", "invoke"} =>
        /\ action[t] \in DOMAIN made /\ made[action[t]].name = asked[t]
        /\ pc[t] # "init" => action[t] \in ready
        /\ pc[t] # "invoke" => made[action[t]].by = t

\* A name for which there is an object is in the map, or the thread that made the object
\* is about to put it there.
Mapped ==
    \A i \in DOMAIN made :
        \/ actions[made[i].name] # Nobody
        \/ /\ made[i].by \in Thread
           /\ pc[made[i].by] \in {"init", "test", "put"}
           /\ action[made[i].by] = i

\* A thread that is about to make an object has not made one for the name before.
FirstOfItsOwn ==
    \A t \in Thread : At(t, "create") =>
        \A i \in DOMAIN made : ~ (made[i].name = asked[t] /\ made[i].by = t)

\* The start makes objects for the names that it has been through; until it is over no
\* request runs.
StartFirst ==
    /\ loaded < Len(Initial) => \A t \in Thread : At(t, "idle")
    /\ loaded < Len(Initial) => \A i \in DOMAIN made : made[i].by = Main
    /\ \A i \in DOMAIN made : made[i].by = Main => \E k \in 1 .. loaded : made[i].name = Initial[k]

\* While a name has an object of the start, no thread loads one for it.
NotLoadedAgain ==
    \A i \in DOMAIN made : made[i].by = Main =>
        \A t \in Thread : asked[t] = made[i].name => pc[t] \notin {"create", "init", "test", "put"}

DispatchInv == Types /\ MapReady /\ HeldRight /\ Mapped /\ FirstOfItsOwn /\ OncePerThread
        /\ StartFirst /\ NotLoadedAgain /\ InitialActionsShared

LEMMA DispatchInit == Init => DispatchInv
<1> SUFFICES ASSUME Init PROVE DispatchInv
  OBVIOUS
<1> USE DEF Init
<1>1. Types
  BY DispatchAssumption DEF Types, AnyName
<1>2. DOMAIN made = {}
  OBVIOUS
<1>3. MapReady /\ HeldRight /\ Mapped /\ FirstOfItsOwn /\ OncePerThread
  BY <1>2 DEF MapReady, HeldRight, Mapped, FirstOfItsOwn, OncePerThread, At
<1>4. StartFirst /\ NotLoadedAgain /\ InitialActionsShared
  BY <1>2 DEF StartFirst, NotLoadedAgain, InitialActionsShared, At
<1> QED BY <1>1, <1>3, <1>4 DEF DispatchInv

\* Make adds one object and leaves the others.
LEMMA MadeGrows ==
    ASSUME Types, NEW n \in Name, NEW t \in Thread \cup {Main}, Make(n, t)
    PROVE  LET new == Len(made) + 1
           IN  /\ made' \in Seq([name : Name, by : Thread \cup {Main}])
               /\ new \in Nat /\ new \notin DOMAIN made /\ DOMAIN made' = DOMAIN made \cup {new}
               /\ \A i \in DOMAIN made : made'[i] = made[i]
               /\ made'[new].name = n /\ made'[new].by = t
BY DEF Types, Make

\* The start makes the next object while no request runs, for a name it has not had.
LEMMA InitialActionKeeps == ASSUME DispatchInv, InitialAction PROVE DispatchInv'
<1> DEFINE n == Initial[loaded + 1]
           new == Len(made) + 1
<1> USE DEF DispatchInv
<1>0. /\ loaded < Len(Initial) /\ loaded' = loaded + 1
      /\ UNCHANGED <<pc, asked, action>>
      /\ loaded' \in 1 .. Len(Initial) /\ n \in Name
      /\ \A t \in Thread : At(t, "idle")
      /\ \A i \in DOMAIN made : made[i].by = Main
  BY DispatchAssumption DEF InitialAction, Types, StartFirst
<1>1. CASE UNCHANGED <<made, ready, actions>>
  <2>1. Types' /\ MapReady' /\ HeldRight' /\ Mapped'
    BY <1>0, <1>1 DEF Types, MapReady, HeldRight, Mapped
  <2>2. FirstOfItsOwn' /\ OncePerThread' /\ NotLoadedAgain' /\ InitialActionsShared'
    BY <1>0, <1>1 DEF FirstOfItsOwn, OncePerThread, NotLoadedAgain, InitialActionsShared, At
  <2>3. StartFirst'
    BY <1>0, <1>1 DEF StartFirst, At, Types
  <2> QED BY <2>1, <2>2, <2>3
<1>2. CASE /\ Make(n, Main)
           /\ ready' = ready \cup {new}
           /\ actions' = [actions EXCEPT ![n] = new]
  <2>1. /\ made' \in Seq([name : Name, by : Thread \cup {Main}])
        /\ new \in Nat /\ new \notin DOMAIN made /\ DOMAIN made' = DOMAIN made \cup {new}
        /\ \A i \in DOMAIN made : made'[i] = made[i]
        /\ made'[new].name = n /\ made'[new].by = Main
    BY <1>0, <1>2, MadeGrows
  <2>2. \A i \in DOMAIN made : made[i].name # n
    BY <1>0, DispatchAssumption DEF StartFirst, Types
  <2>3. Types'
    BY <1>0, <1>2, <2>1 DEF Types
  <2>4. MapReady'
    BY <1>2, <2>1 DEF Types, MapReady
  <2>5. HeldRight'
    BY <1>0, <2>1 DEF HeldRight, At
  <2>6. Mapped'
    BY <1>0, <1>2, <2>1, DispatchAssumption DEF Types, Mapped, At
  <2>7. FirstOfItsOwn' /\ NotLoadedAgain'
    BY <1>0 DEF FirstOfItsOwn, NotLoadedAgain, At
  <2>8. OncePerThread'
    BY <2>1, <2>2 DEF OncePerThread
  <2>9. StartFirst'
    BY <1>0, <2>1 DEF StartFirst, Types, At
  <2>10. InitialActionsShared'
    BY <1>0, <1>2, <2>1, <2>2 DEF InitialActionsShared, Types, At
  <2> QED BY <2>3, <2>4, <2>5, <2>6, <2>7, <2>8, <2>9, <2>10
<1> QED BY <1>1, <1>2 DEF InitialAction

\* A request begins.
LEMMA BeginKeeps == ASSUME NEW t \in Thread, DispatchInv, Begin(t) PROVE DispatchInv'
<1> USE DEF DispatchInv, Begin, GoTo, At
<1>1. Types'
  BY DEF Types
<1>2. MapReady'
  BY DEF MapReady
<1>3. HeldRight'
  BY DEF HeldRight
<1>4. Mapped'
  BY DEF Mapped
<1>5. FirstOfItsOwn'
  BY DEF FirstOfItsOwn
<1>6. OncePerThread'
  BY DEF OncePerThread
<1>7. StartFirst'
  BY DEF StartFirst
<1>8. NotLoadedAgain'
  BY DEF NotLoadedAgain
<1>9. InitialActionsShared'
  BY DEF InitialActionsShared
<1> QED BY <1>1, <1>2, <1>3, <1>4, <1>5, <1>6, <1>7, <1>8, <1>9

\* What is found is ready and shared; what is not found has not been made by this thread.
LEMMA LookupKeeps == ASSUME NEW t \in Thread, DispatchInv, Lookup(t) PROVE DispatchInv'
<1> USE DEF DispatchInv, Lookup, GoTo, At
<1>1. Types'
  BY DEF Types
<1>2. MapReady'
  BY DEF MapReady
<1>3. HeldRight'
  BY DEF Types, MapReady, HeldRight
<1>4. Mapped'
  BY DEF Mapped
<1>5. FirstOfItsOwn'
  BY DEF Mapped, FirstOfItsOwn
<1>6. OncePerThread'
  BY DEF OncePerThread
<1>7. StartFirst'
  BY DEF StartFirst
<1>8. NotLoadedAgain'
  BY DispatchAssumption DEF Types, NotLoadedAgain, InitialActionsShared
<1>9. InitialActionsShared'
  BY DEF Types, InitialActionsShared
<1> QED BY <1>1, <1>2, <1>3, <1>4, <1>5, <1>6, <1>7, <1>8, <1>9

\* A name without a class.
LEMMA NotLoadedKeeps == ASSUME NEW t \in Thread, DispatchInv, NotLoaded(t) PROVE DispatchInv'
<1> USE DEF DispatchInv, NotLoaded, GoTo, At, Ends
<1>1. Types'
  BY DEF Types
<1>2. MapReady'
  BY DEF MapReady
<1>3. HeldRight'
  BY DEF HeldRight
<1>4. Mapped'
  BY DEF Mapped
<1>5. FirstOfItsOwn'
  BY DEF FirstOfItsOwn
<1>6. OncePerThread'
  BY DEF OncePerThread
<1>7. StartFirst'
  BY DEF StartFirst
<1>8. NotLoadedAgain'
  BY DEF NotLoadedAgain
<1>9. InitialActionsShared'
  BY DEF InitialActionsShared
<1> QED BY <1>1, <1>2, <1>3, <1>4, <1>5, <1>6, <1>7, <1>8, <1>9

\* The new object is the first of its thread for the name, and none of the start is there.
LEMMA CreateKeeps == ASSUME NEW t \in Thread, DispatchInv, Create(t) PROVE DispatchInv'
<1> USE DEF DispatchInv, Create, GoTo, At, Make
<1>1. Types'
  BY DispatchAssumption DEF Types
<1>2. MapReady'
  BY DispatchAssumption DEF Types, MapReady
<1>3. HeldRight'
  BY DispatchAssumption DEF Types, HeldRight
<1>4. Mapped'
  BY DEF Types, HeldRight, Mapped
<1>5. FirstOfItsOwn'
  BY DEF Types, FirstOfItsOwn
<1>6. OncePerThread'
  BY DispatchAssumption DEF OncePerThread, FirstOfItsOwn
<1>7. StartFirst'
  <2>1. loaded = Len(Initial) /\ loaded' = loaded /\ Len(Initial) \in Nat
    BY DispatchAssumption DEF StartFirst, Types
  <2>2. \A i \in DOMAIN made' : made'[i].by = Main => i \in DOMAIN made /\ made'[i] = made[i]
    BY DispatchAssumption, MadeGrows DEF Types
  <2>3. \A i \in DOMAIN made' : made'[i].by = Main => \E k \in 1 .. loaded : made'[i].name = Initial[k]
    BY <2>2 DEF StartFirst
  <2> QED BY <2>1, <2>3 DEF StartFirst
<1>8. NotLoadedAgain'
  BY DispatchAssumption DEF NotLoadedAgain
<1>9. InitialActionsShared'
  BY DispatchAssumption DEF NotLoadedAgain, InitialActionsShared
<1> QED BY <1>1, <1>2, <1>3, <1>4, <1>5, <1>6, <1>7, <1>8, <1>9

\* The object becomes ready.
LEMMA InitActionKeeps == ASSUME NEW t \in Thread, DispatchInv, InitAction(t) PROVE DispatchInv'
<1> USE DEF DispatchInv, InitAction, GoTo, At
<1>1. Types'
  BY DEF Types, HeldRight
<1>2. MapReady'
  BY DEF MapReady
<1>3. HeldRight'
  BY DEF HeldRight
<1>4. Mapped'
  BY DEF Mapped
<1>5. FirstOfItsOwn'
  BY DEF FirstOfItsOwn
<1>6. OncePerThread'
  BY DEF OncePerThread
<1>7. StartFirst'
  BY DEF StartFirst
<1>8. NotLoadedAgain'
  BY DEF NotLoadedAgain
<1>9. InitialActionsShared'
  BY DEF InitialActionsShared
<1> QED BY <1>1, <1>2, <1>3, <1>4, <1>5, <1>6, <1>7, <1>8, <1>9

\* The test for the name.
LEMMA TestKeyKeeps == ASSUME NEW t \in Thread, DispatchInv, TestKey(t) PROVE DispatchInv'
<1> USE DEF DispatchInv, TestKey, GoTo, At
<1>1. Types'
  BY DEF Types
<1>2. MapReady'
  BY DEF MapReady
<1>3. HeldRight'
  BY DEF HeldRight
<1>4. Mapped'
  BY DEF HeldRight, Mapped
<1>5. FirstOfItsOwn'
  BY DEF FirstOfItsOwn
<1>6. OncePerThread'
  BY DEF OncePerThread
<1>7. StartFirst'
  BY DEF StartFirst
<1>8. NotLoadedAgain'
  BY DEF NotLoadedAgain
<1>9. InitialActionsShared'
  BY DEF NotLoadedAgain, InitialActionsShared
<1> QED BY <1>1, <1>2, <1>3, <1>4, <1>5, <1>6, <1>7, <1>8, <1>9

\* The object goes into the map; none of the start is replaced.
LEMMA PutKeeps == ASSUME NEW t \in Thread, DispatchInv, Put(t) PROVE DispatchInv'
<1> USE DEF DispatchInv, Put, GoTo, At
<1>1. Types'
  BY DEF Types
<1>2. MapReady'
  BY DEF MapReady, HeldRight
<1>3. HeldRight'
  BY DEF HeldRight
<1>4. Mapped'
  BY DispatchAssumption DEF Types, HeldRight, Mapped
<1>5. FirstOfItsOwn'
  BY DEF FirstOfItsOwn
<1>6. OncePerThread'
  BY DEF OncePerThread
<1>7. StartFirst'
  BY DEF StartFirst
<1>8. NotLoadedAgain'
  BY DEF NotLoadedAgain
<1>9. InitialActionsShared'
  BY DEF NotLoadedAgain, InitialActionsShared
<1> QED BY <1>1, <1>2, <1>3, <1>4, <1>5, <1>6, <1>7, <1>8, <1>9

\* The method is called.
LEMMA InvokeKeeps == ASSUME NEW t \in Thread, DispatchInv, Invoke(t) PROVE DispatchInv'
<1> USE DEF DispatchInv, Invoke, GoTo, At, Ends
<1>1. Types'
  BY DEF Types
<1>2. MapReady'
  BY DEF MapReady
<1>3. HeldRight'
  BY DEF HeldRight
<1>4. Mapped'
  BY DEF Mapped
<1>5. FirstOfItsOwn'
  BY DEF FirstOfItsOwn
<1>6. OncePerThread'
  BY DEF OncePerThread
<1>7. StartFirst'
  BY DEF StartFirst
<1>8. NotLoadedAgain'
  BY DEF NotLoadedAgain
<1>9. InitialActionsShared'
  BY DEF InitialActionsShared
<1> QED BY <1>1, <1>2, <1>3, <1>4, <1>5, <1>6, <1>7, <1>8, <1>9

\* The request is over.
LEMMA ReplyKeeps == ASSUME NEW t \in Thread, DispatchInv, Reply(t) PROVE DispatchInv'
<1> USE DEF DispatchInv, Reply, GoTo, At
<1>1. Types'
  <2>1. AnyName \in Name
    BY DispatchAssumption DEF AnyName
  <2> QED BY <2>1 DEF Types
<1>2. MapReady'
  BY DEF MapReady
<1>3. HeldRight'
  BY DEF HeldRight
<1>4. Mapped'
  BY DEF Mapped
<1>5. FirstOfItsOwn'
  BY DEF FirstOfItsOwn
<1>6. OncePerThread'
  BY DEF OncePerThread
<1>7. StartFirst'
  BY DEF StartFirst
<1>8. NotLoadedAgain'
  BY DEF NotLoadedAgain
<1>9. InitialActionsShared'
  BY DEF InitialActionsShared
<1> QED BY <1>1, <1>2, <1>3, <1>4, <1>5, <1>6, <1>7, <1>8, <1>9

LEMMA StutterKeeps == ASSUME DispatchInv, UNCHANGED vars PROVE DispatchInv'
BY DEF DispatchInv, vars, Types, MapReady, HeldRight, Mapped, FirstOfItsOwn, OncePerThread,
       StartFirst, NotLoadedAgain, InitialActionsShared, At

LEMMA DispatchInvAlways == Spec => []DispatchInv
<1>1. ASSUME DispatchInv, [Next]_vars PROVE DispatchInv'
  <2>1. CASE InitialAction
    BY <1>1, <2>1, InitialActionKeeps
  <2>2. ASSUME NEW t \in Thread, Begin(t) \/ Go(t) PROVE DispatchInv'
    BY <1>1, <2>2, BeginKeeps, LookupKeeps, NotLoadedKeeps, CreateKeeps, InitActionKeeps,
       TestKeyKeeps, PutKeeps, InvokeKeeps, ReplyKeeps DEF Go
  <2>3. CASE UNCHANGED vars
    BY <1>1, <2>3, StutterKeeps
  <2> QED BY <1>1, <2>1, <2>2, <2>3 DEF Next
<1> QED BY DispatchInit, <1>1, PTL DEF Spec

\* A request only calls an object that was made for the name it asks for and
\* whose init has been called (ActionServlet.java:201-239).
THEOREM CalledWhenReady == Spec => []ReadyWhenCalled
<1>1. DispatchInv => ReadyWhenCalled
  BY DEF DispatchInv, HeldRight, ReadyWhenCalled, At
<1> QED BY DispatchInvAlways, <1>1, PTL

\* No thread makes two objects for one name, however the requests run
\* (ActionServlet.java:230-234).
THEOREM ObjectsBounded == Spec => []OncePerThread
<1>1. DispatchInv => OncePerThread
  BY DEF DispatchInv
<1> QED BY DispatchInvAlways, <1>1, PTL

\* The object of an action that was loaded at the start is the only one there will be
\* (ActionServlet.java:67-77, 203-204).
THEOREM InitialActionsStay == Spec => []InitialActionsShared
<1>1. DispatchInv => InitialActionsShared
  BY DEF DispatchInv
<1> QED BY DispatchInvAlways, <1>1, PTL

-----------------------------------------------------------------------------
(* The writing of the index. *)

\* The numbers of a table's articles are their own and have been given out.
RowsOK ==
    \A t \in Table :
        /\ \A a, b \in rows[t] : a.id = b.id => a = b
        /\ \A a \in rows[t] : a.id <= lastId[t]

\* Documents are of articles with numbers given out, and none is newer than its article.
DocsOK ==
    \A t \in Table : \A d \in docs[t] :
        /\ d.id <= lastId[t]
        /\ \A a \in rows[t] : a.id = d.id => d.rev <= a.rev

\* Who works on an index has its lock.
LocksOK == \A th \in Request : step[th] \in {"read", "write"} => lock[Current(th)] = th

\* What a list read from table t has to do with the table and its index.
Listed(th, t) ==
    /\ \A a, b \in list[th] : a.id = b.id => a = b
    /\ \A a \in list[th] : a.id <= lastId[t]
    /\ \A a \in list[th], b \in rows[t] : a.id = b.id => a.rev <= b.rev
    /\ \A d \in docs[t], a \in list[th] : a.id = d.id => d.rev <= a.rev
    /\ \A d \in docs[t], b \in rows[t] : b.id = d.id => \E a \in list[th] : a.id = d.id

ListsOK == \A th \in Request : step[th] = "write" => Listed(th, Current(th))

IndexInv == IndexTypeOK /\ RowsOK /\ DocsOK /\ FoundOnce /\ LocksOK /\ ListsOK /\ LockReturned

\* A request to index is at a table as long as it is not over.
LEMMA CurrentType ==
    ASSUME IndexTypeOK, NEW th \in Request, step[th] # "idle"
    PROVE  todo[th] \in Seq(Table) /\ todo[th] # <<>> /\ Current(th) \in Table
BY DEF IndexTypeOK, Current

\* Numbers and revisions are numbers.
LEMMA IdsAreNumbers == Id \subseteq Nat \ {0} /\ Rev \subseteq Nat
BY ArticlesAssumption DEF Id, Rev

LEMMA IdsOfTable ==
    ASSUME NEW t \in Table, NEW i \in 1 .. MaxId[t]
    PROVE  i \in Id
BY Zenon DEF Id

LEMMA ArticleFields == \A a \in Article : a.id \in Nat /\ a.rev \in Nat
BY IdsAreNumbers DEF Article

LEMMA LastIdIsNumber ==
    ASSUME ArticlesTypeOK
    PROVE  \A t \in Table : lastId[t] \in Nat
<1>1. Id \cup {0} \subseteq Nat
  BY IdsAreNumbers
<1> QED
  BY <1>1 DEF ArticlesTypeOK

\* Going on with the next table leaves the other requests alone, and the request itself
\* with no writer.
LEMMA NextTableEffect ==
    ASSUME IndexTypeOK, NEW th \in Request, step[th] # "idle", NextTable(th)
    PROVE  /\ step' \in [Request -> {"idle", "open", "read", "write"}]
           /\ todo' \in [Request -> Seq(Table)]
           /\ \A o \in Request : step'[o] = "idle" <=> todo'[o] = <<>>
           /\ create' \in [Request -> BOOLEAN]
           /\ list' \in [Request -> SUBSET Article]
           /\ step'[th] \in {"idle", "open"}
           /\ \A o \in Request \ {th} : step'[o] = step[o] /\ todo'[o] = todo[o] /\ list'[o] = list[o]
<1> DEFINE rest == Tail(todo[th])
<1>1. todo[th] \in Seq(Table) /\ todo[th] # <<>>
  BY CurrentType
<1>2. rest \in Seq(Table)
  BY <1>1
<1>3. todo' = [todo EXCEPT ![th] = rest] /\ list' = [list EXCEPT ![th] = {}]
  BY DEF NextTable
<1>4. CASE rest = <<>>
  <2>1. step' = [step EXCEPT ![th] = "idle"] /\ create' = [create EXCEPT ![th] = FALSE]
    BY <1>4 DEF NextTable, StepTo
  <2> QED
    BY <1>2, <1>3, <1>4, <2>1 DEF IndexTypeOK
<1>5. CASE rest # <<>>
  <2>1. step' = [step EXCEPT ![th] = "open"] /\ create' = create
    BY <1>5 DEF NextTable, StepTo
  <2> QED
    BY <1>2, <1>3, <1>5, <2>1 DEF IndexTypeOK
<1> QED
  BY <1>4, <1>5

LEMMA InitIndexInv == IndexInit => IndexInv
<1> SUFFICES ASSUME IndexInit PROVE IndexInv
  OBVIOUS
<1> USE DEF IndexInit, ArticlesInit
<1>1. \A t \in Table : rows[t] = {}
  OBVIOUS
<1>2. IndexTypeOK
  BY <1>1 DEF IndexTypeOK, ArticlesTypeOK
<1>3. RowsOK /\ DocsOK /\ FoundOnce
  BY <1>1 DEF RowsOK, DocsOK, FoundOnce
<1>4. LocksOK /\ ListsOK /\ LockReturned
  BY DEF LocksOK, ListsOK, LockReturned
<1> QED
  BY <1>2, <1>3, <1>4 DEF IndexInv

\* A change of a table keeps its numbers unique, and what it holds then is new or was
\* there, perhaps in an older revision.
LEMMA ChangeEffect ==
    ASSUME ArticlesTypeOK, RowsOK, NEW t \in Table, Change(t)
    PROVE  /\ ArticlesTypeOK' /\ RowsOK'
           /\ \A u \in Table : lastId[u] <= lastId'[u]
           /\ \A u \in Table : \A b \in rows'[u] :
                 \/ lastId[u] < b.id
                 \/ \E a \in rows[u] : a.id = b.id /\ a.rev <= b.rev
<1> USE DEF ArticlesTypeOK, RowsOK, Article
<1>0. \A u \in Table : lastId[u] \in Nat
  BY LastIdIsNumber
<1>a. \A a \in Article : a.id \in Nat /\ a.rev \in Nat
  BY IdsAreNumbers
<1>b. \A u \in Table : rows[u] \subseteq Article
  OBVIOUS
<1>c. \A u \in Table : \A b \in rows[u] : b.rev <= b.rev
  BY <1>a, <1>b
<1>1. CASE Add(t)
  <2> DEFINE new == [id |-> lastId[t] + 1, rev |-> 1]
  <2>1. /\ rows' = [rows EXCEPT ![t] = @ \cup {new}]
        /\ lastId' = [lastId EXCEPT ![t] = @ + 1]
        /\ lastId[t] < MaxId[t]
    BY <1>1 DEF Add
  <2>0. MaxId[t] \in Nat /\ MaxRev \in Nat \ {0}
    BY ArticlesAssumption
  <2>2. lastId[t] + 1 \in 1 .. MaxId[t] /\ 1 \in Rev
    BY <1>0, <2>0, <2>1 DEF Rev
  <2>3. lastId[t] + 1 \in Id
    BY <2>2, IdsOfTable
  <2>4. new \in Article
    BY <2>2, <2>3
  <2>5. ArticlesTypeOK'
    BY <2>1, <2>3, <2>4
  <2>6. \A a \in rows[t] : a.id <= lastId[t]
    OBVIOUS
  <2>7. \A a \in rows[t] : a.id # new.id
    BY <1>0, <2>6
  <2>8. RowsOK'
    <3> SUFFICES ASSUME NEW u \in Table
                 PROVE  /\ \A a, b \in rows'[u] : a.id = b.id => a = b
                        /\ \A a \in rows'[u] : a.id <= lastId'[u]
      OBVIOUS
    <3>1. CASE u # t
      BY <2>1, <3>1
    <3>2. CASE u = t
      <4>1. rows'[u] = rows[t] \cup {new} /\ lastId'[u] = lastId[t] + 1
        BY <2>1, <3>2
      <4>2. \A a \in rows[t] : a.id \in Nat
        BY <1>a, <1>b
      <4> QED
        BY <1>0, <2>6, <2>7, <4>1, <4>2
    <3> QED
      BY <3>1, <3>2
  <2>9. \A u \in Table : \A b \in rows'[u] : lastId[u] < b.id \/ b \in rows[u]
    <3> SUFFICES ASSUME NEW u \in Table, NEW b \in rows'[u], b \notin rows[u]
                 PROVE  lastId[u] < b.id
      OBVIOUS
    <3>1. u = t /\ b = new
      BY <2>1
    <3> QED
      BY <1>0, <3>1
  <2>11. \A u \in Table : lastId[u] <= lastId'[u]
    BY <1>0, <2>1
  <2> QED
    BY <2>5, <2>8, <2>9, <2>11, <1>c
<1>2. CASE Save(t)
  <2>1. PICK a \in rows[t] :
           /\ a.rev < MaxRev
           /\ rows' = [rows EXCEPT ![t] = (@ \ {a}) \cup {[a EXCEPT !.rev = @ + 1]}]
           /\ lastId' = lastId
    BY <1>2 DEF Save
  <2> DEFINE new == [a EXCEPT !.rev = @ + 1]
  <2>2. a \in Article /\ a.rev + 1 \in Rev
    BY <1>b, <2>1, ArticlesAssumption DEF Rev
  <2>3. new \in Article /\ new.id = a.id /\ new.rev = a.rev + 1
    BY <2>2
  <2>4. ArticlesTypeOK'
    BY <2>1, <2>3
  <2>5. \A u \in Table \ {t} : rows'[u] = rows[u]
    BY <2>1
  <2>6. rows'[t] = (rows[t] \ {a}) \cup {new}
    BY <2>1
  <2>7. RowsOK'
    BY <2>1, <2>3, <2>5, <2>6
  <2>9. a.rev <= new.rev
    BY <1>a, <2>2, <2>3
  <2>10. \A u \in Table : \A b \in rows'[u] : \E c \in rows[u] : c.id = b.id /\ c.rev <= b.rev
    BY <2>3, <2>5, <2>6, <1>c, <2>9
  <2>11. \A u \in Table : lastId[u] <= lastId'[u]
    BY <1>0, <2>1
  <2> QED
    BY <2>4, <2>7, <2>10, <2>11
<1>3. CASE Del(t)
  <2>1. PICK a \in rows[t] : rows' = [rows EXCEPT ![t] = @ \ {a}] /\ lastId' = lastId
    BY <1>3 DEF Del
  <2>2. \A u \in Table : rows'[u] \subseteq rows[u]
    BY <2>1
  <2> QED
    BY <1>0, <1>c, <2>1, <2>2
<1> QED
  BY <1>1, <1>2, <1>3 DEF Change

\* So it contradicts nothing of what has been read or indexed.
LEMMA ChangeKeeps ==
    ASSUME IndexInv, NEW t \in Table, Change(t), UNCHANGED indexVars
    PROVE  IndexInv'
<1> USE DEF indexVars
<1>1. IndexTypeOK /\ ArticlesTypeOK /\ RowsOK /\ DocsOK /\ FoundOnce /\ LocksOK /\ ListsOK /\ LockReturned
  BY DEF IndexInv, IndexTypeOK
<1>2. ArticlesTypeOK' /\ RowsOK'
  BY <1>1, ChangeEffect
<1>3. \A u \in Table : lastId[u] <= lastId'[u] /\ lastId[u] \in Nat /\ lastId'[u] \in Nat
  <2>1. \A u \in Table : lastId[u] <= lastId'[u]
    BY <1>1, ChangeEffect
  <2>2. \A u \in Table : lastId[u] \in Nat
    BY <1>1, LastIdIsNumber
  <2>3. \A u \in Table : lastId'[u] \in Nat
    <3>1. Id \cup {0} \subseteq Nat
      BY IdsAreNumbers
    <3> QED
      BY <1>2, <3>1 DEF ArticlesTypeOK
  <2> QED
    BY <2>1, <2>2, <2>3
<1>4. \A u \in Table : \A b \in rows'[u] :
         \/ lastId[u] < b.id
         \/ \E a \in rows[u] : a.id = b.id /\ a.rev <= b.rev
  BY <1>1, ChangeEffect
<1>5. /\ \A u \in Table : \A a \in rows[u] : a.id \in Nat /\ a.rev \in Nat
      /\ \A u \in Table : \A a \in rows'[u] : a.id \in Nat /\ a.rev \in Nat
      /\ \A u \in Table : \A a \in docs[u] : a.id \in Nat /\ a.rev \in Nat
      /\ \A th \in Request : \A a \in list[th] : a.id \in Nat /\ a.rev \in Nat
  <2>1. \A u \in Table : rows[u] \subseteq Article /\ rows'[u] \subseteq Article /\ docs[u] \subseteq Article
    BY <1>1, <1>2 DEF IndexTypeOK, ArticlesTypeOK
  <2>2. \A th \in Request : list[th] \subseteq Article
    BY <1>1 DEF IndexTypeOK
  <2> QED
    BY <2>1, <2>2, ArticleFields
<1>6. IndexTypeOK'
  BY <1>1, <1>2 DEF IndexTypeOK
<1>7. LocksOK' /\ LockReturned' /\ FoundOnce'
  BY <1>1 DEF LocksOK, LockReturned, FoundOnce, Current
<1>8. DocsOK'
  <2> SUFFICES ASSUME NEW u \in Table, NEW d \in docs[u]
               PROVE  /\ d.id <= lastId'[u]
                      /\ \A b \in rows'[u] : b.id = d.id => d.rev <= b.rev
    BY DEF DocsOK
  <2>1. d.id <= lastId[u] /\ \A a \in rows[u] : a.id = d.id => d.rev <= a.rev
    BY <1>1 DEF DocsOK
  <2>2. d.id <= lastId'[u]
    BY <1>3, <1>5, <2>1
  <2>3. ASSUME NEW b \in rows'[u], b.id = d.id PROVE d.rev <= b.rev
    <3>1. PICK a \in rows[u] : a.id = b.id /\ a.rev <= b.rev
      BY <1>3, <1>4, <1>5, <2>1, <2>3
    <3>2. d.rev <= a.rev
      BY <2>1, <2>3, <3>1
    <3> QED
      BY <1>5, <3>1, <3>2
  <2> QED
    BY <2>2, <2>3
<1>9. ListsOK'
  <2> SUFFICES ASSUME NEW th \in Request, step[th] = "write"
               PROVE  Listed(th, Current(th))'
    BY DEF ListsOK
  <2> DEFINE u == Current(th)
  <2>1. u \in Table /\ u' = u
    BY <1>1, CurrentType DEF Current
  <2>2. Listed(th, u)
    BY <1>1 DEF ListsOK
  <2> HIDE DEF u
  <2>3. \A a \in list[th] : a.id <= lastId'[u]
    BY <1>3, <1>5, <2>1, <2>2 DEF Listed
  <2>4. ASSUME NEW a \in list[th], NEW b \in rows'[u], a.id = b.id PROVE a.rev <= b.rev
    <3>1. a.id <= lastId[u]
      BY <2>2 DEF Listed
    <3>2. PICK c \in rows[u] : c.id = b.id /\ c.rev <= b.rev
      BY <1>3, <1>4, <1>5, <2>1, <2>4, <3>1
    <3>3. a.rev <= c.rev
      BY <2>2, <2>4, <3>2 DEF Listed
    <3> QED
      BY <1>5, <2>1, <3>2, <3>3
  <2>5. ASSUME NEW d \in docs[u], NEW b \in rows'[u], b.id = d.id
        PROVE  \E a \in list[th] : a.id = d.id
    <3>1. d.id <= lastId[u]
      BY <1>1, <2>1 DEF DocsOK
    <3>2. PICK c \in rows[u] : c.id = b.id
      BY <1>3, <1>4, <1>5, <2>1, <2>5, <3>1
    <3> QED
      BY <2>2, <2>5, <3>2 DEF Listed
  <2>6. Listed(th, u)'
    BY <2>1, <2>2, <2>3, <2>4, <2>5 DEF Listed
  <2> QED
    BY <2>1, <2>6 DEF u
<1> QED
  BY <1>2, <1>6, <1>7, <1>8, <1>9 DEF IndexInv

\* A request begins.
LEMMA updateIndexKeeps ==
    ASSUME IndexInv, NEW th \in Request, updateIndex(th), UNCHANGED articleVars
    PROVE  IndexInv'
<1> USE DEF articleVars
<1>1. IndexTypeOK /\ RowsOK /\ DocsOK /\ FoundOnce /\ LocksOK /\ ListsOK /\ LockReturned
  BY DEF IndexInv
<1>2. PICK tables \in Tables, rebuild \in BOOLEAN :
         /\ step[th] = "idle" /\ step' = [step EXCEPT ![th] = "open"]
         /\ todo' = [todo EXCEPT ![th] = tables] /\ create' = [create EXCEPT ![th] = rebuild]
         /\ UNCHANGED <<docs, lock, list, failed>>
  BY DEF updateIndex, StepTo
<1>3. tables \in Seq(Table) /\ tables # <<>>
  BY SearchIndexAssumption
<1>4. IndexTypeOK'
  BY <1>1, <1>2, <1>3 DEF IndexTypeOK, ArticlesTypeOK
<1>5. step'[th] = "open" /\ \A o \in Request \ {th} : step'[o] = step[o] /\ Current(o)' = Current(o)
  BY <1>1, <1>2 DEF IndexTypeOK, Current
<1>6. RowsOK' /\ DocsOK' /\ FoundOnce'
  BY <1>1, <1>2 DEF RowsOK, DocsOK, FoundOnce
<1>7. LocksOK'
  BY <1>1, <1>2, <1>5 DEF LocksOK
<1>8. ListsOK'
  BY <1>1, <1>2, <1>5 DEF ListsOK, Listed
<1>9. LockReturned'
  BY <1>1, <1>2, <1>5 DEF LockReturned, IndexTypeOK
<1> QED
  BY <1>4, <1>6, <1>7, <1>8, <1>9 DEF IndexInv

\* A writer is opened.  The lock was free, so nobody else works on this index.
LEMMA OpenWriterKeeps ==
    ASSUME IndexInv, NEW th \in Request, OpenWriter(th), UNCHANGED articleVars
    PROVE  IndexInv'
<1> USE DEF articleVars
<1>1. IndexTypeOK /\ RowsOK /\ DocsOK /\ FoundOnce /\ LocksOK /\ ListsOK /\ LockReturned
  BY DEF IndexInv
<1>2. /\ step[th] = "open" /\ lock[Current(th)] = Unlocked
      /\ step' = [step EXCEPT ![th] = "read"]
      /\ lock' = [lock EXCEPT ![Current(th)] = th]
      /\ UNCHANGED <<docs, todo, create, list, failed>>
  BY DEF OpenWriter, StepTo
<1>3. Current(th) \in Table /\ todo[th] # <<>>
  BY <1>1, <1>2, CurrentType
<1>4. IndexTypeOK'
  BY <1>1, <1>2, <1>3 DEF IndexTypeOK, ArticlesTypeOK
<1>5. step'[th] = "read" /\ \A o \in Request \ {th} : step'[o] = step[o]
  BY <1>1, <1>2 DEF IndexTypeOK
<1>6. \A o \in Request : Current(o)' = Current(o)
  BY <1>2 DEF Current
<1>7. RowsOK' /\ DocsOK' /\ FoundOnce'
  BY <1>1, <1>2 DEF RowsOK, DocsOK, FoundOnce
<1>8. /\ lock'[Current(th)] = th
      /\ \A t \in Table : t # Current(th) => lock'[t] = lock[t]
  BY <1>1, <1>2, <1>3 DEF IndexTypeOK
<1>9. \A o \in Request : step[o] # "idle" => Current(o) \in Table
  BY <1>1, CurrentType
<1>10. LocksOK'
  BY <1>1, <1>2, <1>5, <1>6, <1>8, <1>9, SearchIndexAssumption DEF LocksOK
<1>11. ListsOK'
  BY <1>1, <1>2, <1>5, <1>6 DEF ListsOK, Listed
<1>12. LockReturned'
  <2> SUFFICES ASSUME NEW t \in Table, lock'[t] # Unlocked
               PROVE  \/ failed'[t]
                      \/ step'[lock'[t]] \in {"read", "write"} /\ Head(todo'[lock'[t]]) = t
    BY DEF LockReturned, Current
  <2>1. CASE t = Current(th)
    BY <1>2, <1>5, <1>8, <2>1 DEF Current
  <2>2. CASE t # Current(th)
    <3>1. lock'[t] = lock[t] /\ lock[t] \in Request
      BY <1>1, <1>8, <2>2 DEF IndexTypeOK
    <3>2. failed[t] \/ (step[lock[t]] \in {"read", "write"} /\ Current(lock[t]) = t)
      BY <1>1, <3>1 DEF LockReturned
    <3>3. CASE lock[t] = th
      BY <1>2, <3>1, <3>2, <3>3
    <3>4. CASE lock[t] # th
      BY <1>2, <1>5, <3>1, <3>2, <3>4 DEF Current
    <3> QED
      BY <3>3, <3>4
  <2> QED
    BY <2>1, <2>2
<1> QED
  BY <1>4, <1>7, <1>10, <1>11, <1>12 DEF IndexInv

\* What remains of a request that goes on with its next table.
LEMMA NextTableKeeps ==
    ASSUME IndexInv, NEW th \in Request, step[th] # "idle", NextTable(th), UNCHANGED articleVars,
           docs' \in [Table -> SUBSET Article], DocsOK', FoundOnce',
           failed' \in [Table -> BOOLEAN],
           lock' \in [Table -> Request \cup {Unlocked}],
           \A t \in Table : lock'[t] # lock[t] => lock'[t] = Unlocked /\ lock[t] = th,
           \A t \in Table : failed[t] => failed'[t],
           \A t \in Table : lock'[t] = th => failed'[t],
           \A o \in Request \ {th} : step[o] = "write" => docs'[Current(o)] = docs[Current(o)]
    PROVE  IndexInv'
<1> USE DEF articleVars
<1>1. IndexTypeOK /\ RowsOK /\ LocksOK /\ ListsOK /\ LockReturned
  BY DEF IndexInv
<1>2. /\ step' \in [Request -> {"idle", "open", "read", "write"}]
      /\ todo' \in [Request -> Seq(Table)]
      /\ \A o \in Request : step'[o] = "idle" <=> todo'[o] = <<>>
      /\ create' \in [Request -> BOOLEAN]
      /\ list' \in [Request -> SUBSET Article]
      /\ step'[th] \in {"idle", "open"}
      /\ \A o \in Request \ {th} : step'[o] = step[o] /\ todo'[o] = todo[o] /\ list'[o] = list[o]
  BY <1>1, NextTableEffect
<1>3. IndexTypeOK'
  BY <1>1, <1>2 DEF IndexTypeOK, ArticlesTypeOK
<1>4. RowsOK'
  BY <1>1 DEF RowsOK
<1>5. \A o \in Request \ {th} : step'[o] # "idle" => Current(o) \in Table /\ Current(o)' = Current(o)
  BY <1>1, <1>2, CurrentType DEF Current
<1>6. LocksOK'
  <2> SUFFICES ASSUME NEW o \in Request, step'[o] \in {"read", "write"}
               PROVE  lock'[Head(todo'[o])] = o
    BY DEF LocksOK, Current
  <2>1. o # th /\ step[o] = step'[o] /\ Head(todo'[o]) = Current(o) /\ Current(o) \in Table
    BY <1>2, <1>5 DEF Current
  <2>2. lock[Current(o)] = o
    BY <1>1, <2>1 DEF LocksOK
  <2> QED
    BY <2>1, <2>2
<1>7. ListsOK'
  <2> SUFFICES ASSUME NEW o \in Request, step'[o] = "write"
               PROVE  Listed(o, Current(o))'
    BY DEF ListsOK
  <2>1. o # th /\ step[o] = "write" /\ Current(o)' = Current(o) /\ list'[o] = list[o]
    BY <1>2, <1>5
  <2>2. Listed(o, Current(o))
    BY <1>1, <2>1 DEF ListsOK
  <2>3. docs'[Current(o)] = docs[Current(o)]
    BY <2>1
  <2> QED
    BY <2>1, <2>2, <2>3 DEF Listed
<1>8. LockReturned'
  <2> SUFFICES ASSUME NEW t \in Table, lock'[t] # Unlocked, ~failed'[t]
               PROVE  step'[lock'[t]] \in {"read", "write"} /\ Head(todo'[lock'[t]]) = t
    BY DEF LockReturned, Current
  <2>1. lock'[t] = lock[t] /\ lock[t] \in Request \ {th}
    OBVIOUS
  <2>2. step[lock[t]] \in {"read", "write"} /\ Current(lock[t]) = t
    BY <1>1, <2>1 DEF LockReturned
  <2> QED
    BY <1>2, <2>1, <2>2 DEF Current
<1> QED
  BY <1>3, <1>4, <1>6, <1>7, <1>8 DEF IndexInv

\* Waiting for the lock in vain: the request had no lock that it has to return.
LEMMA LockTimeoutKeeps ==
    ASSUME IndexInv, NEW th \in Request, LockTimeout(th), UNCHANGED articleVars
    PROVE  IndexInv'
<1>1. IndexTypeOK /\ DocsOK /\ FoundOnce /\ LockReturned
  BY DEF IndexInv
<1>2. step[th] = "open" /\ NextTable(th) /\ UNCHANGED <<docs, lock, failed>>
  BY DEF LockTimeout
<1>3. DocsOK' /\ FoundOnce'
  BY <1>1, <1>2 DEF DocsOK, FoundOnce, articleVars
<1>4. \A t \in Table : lock[t] = th => failed[t]
  BY <1>1, <1>2, SearchIndexAssumption DEF LockReturned
<1>5. /\ docs' \in [Table -> SUBSET Article]
      /\ failed' \in [Table -> BOOLEAN]
      /\ lock' \in [Table -> Request \cup {Unlocked}]
      /\ \A t \in Table : lock'[t] # lock[t] => lock'[t] = Unlocked /\ lock[t] = th
      /\ \A t \in Table : failed[t] => failed'[t]
      /\ \A t \in Table : lock'[t] = th => failed'[t]
      /\ \A o \in Request \ {th} : step[o] = "write" => docs'[Current(o)] = docs[Current(o)]
  BY <1>1, <1>2, <1>4 DEF IndexTypeOK
<1>6. step[th] # "idle" /\ NextTable(th)
  BY <1>2
<1> QED
  BY <1>3, <1>5, <1>6, NextTableKeeps

\* A failure: the lock of this one table is left.
LEMMA IndexingFailsKeeps ==
    ASSUME IndexInv, NEW th \in Request, IndexingFails(th), UNCHANGED articleVars
    PROVE  IndexInv'
<1>1. IndexTypeOK /\ DocsOK /\ FoundOnce /\ LockReturned
  BY DEF IndexInv
<1>2. /\ step[th] \in {"read", "write"} /\ NextTable(th) /\ UNCHANGED <<docs, lock>>
      /\ failed' = [failed EXCEPT ![Current(th)] = TRUE]
  BY DEF IndexingFails
<1>3. DocsOK' /\ FoundOnce'
  BY <1>1, <1>2 DEF DocsOK, FoundOnce, articleVars
<1>4. \A t \in Table : lock[t] = th => failed[t] \/ t = Current(th)
  BY <1>1, SearchIndexAssumption DEF LockReturned
<1>5. failed' \in [Table -> BOOLEAN] /\ \A t \in Table : failed[t] => failed'[t]
  BY <1>1, <1>2 DEF IndexTypeOK
<1>6. \A t \in Table : lock'[t] = th => failed'[t]
  BY <1>1, <1>2, <1>4 DEF IndexTypeOK
<1>7. /\ docs' \in [Table -> SUBSET Article]
      /\ failed' \in [Table -> BOOLEAN]
      /\ lock' \in [Table -> Request \cup {Unlocked}]
      /\ \A t \in Table : lock'[t] # lock[t] => lock'[t] = Unlocked /\ lock[t] = th
      /\ \A t \in Table : failed[t] => failed'[t]
      /\ \A t \in Table : lock'[t] = th => failed'[t]
      /\ \A o \in Request \ {th} : step[o] = "write" => docs'[Current(o)] = docs[Current(o)]
  BY <1>1, <1>2, <1>5, <1>6 DEF IndexTypeOK
<1>8. step[th] # "idle" /\ NextTable(th)
  BY <1>2
<1> QED
  BY <1>3, <1>7, <1>8, NextTableKeeps

\* The table is read: nothing in the index is newer or of an article that is missing.
LEMMA ReadTableKeeps ==
    ASSUME IndexInv, NEW th \in Request, ReadTable(th), UNCHANGED articleVars
    PROVE  IndexInv'
<1> USE DEF articleVars
<1>1. IndexTypeOK /\ RowsOK /\ DocsOK /\ FoundOnce /\ LocksOK /\ ListsOK /\ LockReturned
  BY DEF IndexInv
<1>2. /\ step[th] = "read" /\ step' = [step EXCEPT ![th] = "write"]
      /\ list' = [list EXCEPT ![th] = rows[Current(th)]]
      /\ UNCHANGED <<docs, lock, todo, create, failed>>
  BY DEF ReadTable, StepTo
<1>3. Current(th) \in Table /\ todo[th] # <<>>
  BY <1>1, <1>2, CurrentType
<1>4. IndexTypeOK'
  BY <1>1, <1>2, <1>3 DEF IndexTypeOK, ArticlesTypeOK
<1>5. RowsOK' /\ DocsOK' /\ FoundOnce'
  BY <1>1, <1>2 DEF RowsOK, DocsOK, FoundOnce
<1>6. \A o \in Request : Current(o)' = Current(o)
  BY <1>2 DEF Current
<1>7. step'[th] = "write" /\ \A o \in Request \ {th} : step'[o] = step[o] /\ list'[o] = list[o]
  BY <1>1, <1>2 DEF IndexTypeOK
<1>8. LocksOK'
  BY <1>1, <1>2, <1>6, <1>7 DEF LocksOK
<1>9. LockReturned'
  <2> SUFFICES ASSUME NEW t \in Table, lock[t] # Unlocked, ~failed[t]
               PROVE  step'[lock[t]] \in {"read", "write"} /\ Head(todo[lock[t]]) = t
    BY <1>2 DEF LockReturned, Current
  <2>1. lock[t] \in Request /\ step[lock[t]] \in {"read", "write"} /\ Current(lock[t]) = t
    BY <1>1 DEF LockReturned, IndexTypeOK
  <2> QED
    BY <1>7, <2>1 DEF Current
<1>10. ListsOK'
  <2> SUFFICES ASSUME NEW o \in Request, step'[o] = "write"
               PROVE  Listed(o, Current(o))'
    BY DEF ListsOK
  <2>1. CASE o = th
    <3> DEFINE t == Current(th)
    <3>1. list'[th] = rows[t]
      BY <1>1, <1>2 DEF IndexTypeOK
    <3>2. rows[t] \subseteq Article /\ \A a \in rows[t] : a.rev <= a.rev
      BY <1>1, <1>3, ArticleFields DEF IndexTypeOK, ArticlesTypeOK
    <3>3. t \in Table /\ t' = t
      BY <1>3, <1>6
    <3> HIDE DEF t
    <3>4. Listed(th, t)'
      BY <1>1, <1>2, <3>1, <3>2, <3>3 DEF Listed, RowsOK, DocsOK
    <3> QED
      BY <2>1, <3>4 DEF t
  <2>2. CASE o # th
    BY <1>1, <1>2, <1>6, <1>7, <2>2 DEF ListsOK, Listed
  <2> QED
    BY <2>1, <2>2
<1> QED
  BY <1>4, <1>5, <1>8, <1>9, <1>10 DEF IndexInv

\* The documents that a writer leaves are those of its list and those of old ones that
\* the list says nothing of.
LEMMA Written ==
    ASSUME IndexInv, NEW th \in Request, CloseWriter(th)
    PROVE  /\ Current(th) \in Table /\ Listed(th, Current(th))
           /\ \A t \in Table \ {Current(th)} : docs'[t] = docs[t]
           /\ list[th] \subseteq docs'[Current(th)]
           /\ \A d \in docs'[Current(th)] :
                 d \in list[th] \/ (d \in docs[Current(th)] /\ d.id \notin Ids(list[th]))
<1>1. IndexTypeOK /\ ListsOK
  BY DEF IndexInv
<1>2. /\ step[th] = "write"
      /\ docs' = [docs EXCEPT ![Current(th)] = Indexed(@, list[th], create[th])]
  BY DEF CloseWriter
<1>3. Current(th) \in Table
  BY <1>1, <1>2, CurrentType
<1>4. Listed(th, Current(th))
  BY <1>1, <1>2 DEF ListsOK
<1>5. docs'[Current(th)] = Indexed(docs[Current(th)], list[th], create[th])
  BY <1>1, <1>2, <1>3 DEF IndexTypeOK
<1>6. \A t \in Table \ {Current(th)} : docs'[t] = docs[t]
  BY <1>1, <1>2 DEF IndexTypeOK
<1> QED
  BY <1>3, <1>4, <1>5, <1>6 DEF Indexed

\* A writer is closed: its list takes the place of what was there.
LEMMA CloseWriterKeeps ==
    ASSUME IndexInv, NEW th \in Request, CloseWriter(th), UNCHANGED articleVars
    PROVE  IndexInv'
<1>1. IndexTypeOK /\ RowsOK /\ DocsOK /\ FoundOnce /\ LocksOK /\ LockReturned
  BY DEF IndexInv
<1>2. /\ step[th] = "write" /\ NextTable(th) /\ failed' = failed
      /\ lock' = [lock EXCEPT ![Current(th)] = Unlocked]
      /\ docs' = [docs EXCEPT ![Current(th)] = Indexed(@, list[th], create[th])]
  BY DEF CloseWriter
<1>3. /\ Current(th) \in Table /\ Listed(th, Current(th))
      /\ \A t \in Table \ {Current(th)} : docs'[t] = docs[t]
      /\ \A d \in docs'[Current(th)] :
            d \in list[th] \/ (d \in docs[Current(th)] /\ d.id \notin Ids(list[th]))
  BY Written
<1> DEFINE at == Current(th)
<1>4. lock[at] = th
  BY <1>1, <1>2 DEF LocksOK
<1>5. docs' \in [Table -> SUBSET Article]
  <2>1. list[th] \subseteq Article /\ docs[at] \subseteq Article
    BY <1>1, <1>3 DEF IndexTypeOK
  <2>2. Indexed(docs[at], list[th], create[th]) \subseteq Article
    BY <2>1 DEF Indexed
  <2> QED
    BY <1>1, <1>2, <1>3, <2>2 DEF IndexTypeOK
<1>6. DocsOK'
  <2> SUFFICES ASSUME NEW t \in Table, NEW d \in docs'[t]
               PROVE  d.id <= lastId[t] /\ \A a \in rows[t] : a.id = d.id => d.rev <= a.rev
    BY DEF DocsOK, articleVars
  <2>1. CASE d \in docs[t]
    BY <1>1, <2>1 DEF DocsOK
  <2>2. CASE d \notin docs[t]
    <3>1. t = at /\ d \in list[th]
      BY <1>3, <2>2
    <3> QED
      BY <1>3, <3>1 DEF Listed
  <2> QED
    BY <2>1, <2>2
<1>7. FoundOnce'
  <2> SUFFICES ASSUME NEW t \in Table, NEW d \in docs'[t], NEW e \in docs'[t], d.id = e.id
               PROVE  d = e
    BY DEF FoundOnce
  <2>1. CASE t = at
    <3>1. d \in list[th] => d.id \in Ids(list[th])
      BY DEF Ids
    <3>2. e \in list[th] => e.id \in Ids(list[th])
      BY DEF Ids
    <3> QED
      BY <1>1, <1>3, <2>1, <3>1, <3>2 DEF FoundOnce, Listed
  <2>2. CASE t # at
    BY <1>1, <1>3, <2>2 DEF FoundOnce
  <2> QED
    BY <2>1, <2>2
<1>8. \A t \in Table : lock'[t] = IF t = at THEN Unlocked ELSE lock[t]
  BY <1>1, <1>2 DEF IndexTypeOK
<1>9. \A t \in Table : lock'[t] = th => failed'[t]
  BY <1>1, <1>2, <1>8, SearchIndexAssumption DEF LockReturned
<1>10. lock' \in [Table -> Request \cup {Unlocked}]
  BY <1>1, <1>2 DEF IndexTypeOK
<1>11. \A o \in Request \ {th} : step[o] = "write" => docs'[Current(o)] = docs[Current(o)]
  <2> SUFFICES ASSUME NEW o \in Request \ {th}, step[o] = "write"
               PROVE  docs'[Current(o)] = docs[Current(o)]
    OBVIOUS
  <2>1. lock[Current(o)] = o /\ Current(o) \in Table
    BY <1>1, CurrentType DEF LocksOK
  <2> QED
    BY <1>3, <1>4, <2>1
<1>12. /\ failed' \in [Table -> BOOLEAN]
       /\ \A t \in Table : lock'[t] # lock[t] => lock'[t] = Unlocked /\ lock[t] = th
       /\ \A t \in Table : failed[t] => failed'[t]
  BY <1>1, <1>2, <1>4, <1>8 DEF IndexTypeOK
<1>13. step[th] # "idle" /\ NextTable(th)
  BY <1>2
<1> QED
  BY <1>5, <1>6, <1>7, <1>9, <1>10, <1>11, <1>12, <1>13, NextTableKeeps

LEMMA StepIndexInv == IndexInv /\ [IndexNext]_indexingVars => IndexInv'
<1> SUFFICES ASSUME IndexInv, [IndexNext]_indexingVars PROVE IndexInv'
  OBVIOUS
<1>1. CASE UNCHANGED indexingVars
  BY <1>1 DEF IndexInv, IndexTypeOK, ArticlesTypeOK, RowsOK, DocsOK, FoundOnce, LocksOK, ListsOK, Listed,
              LockReturned, Current, indexingVars, articleVars, indexVars
<1>2. ASSUME NEW t \in Table, Change(t), UNCHANGED indexVars PROVE IndexInv'
  BY <1>2, ChangeKeeps
<1>3. ASSUME NEW th \in Request, updateIndex(th), UNCHANGED articleVars PROVE IndexInv'
  BY <1>3, updateIndexKeeps
<1>4. ASSUME NEW th \in Request, Indexing(th) PROVE IndexInv'
  BY <1>4, OpenWriterKeeps, LockTimeoutKeeps, ReadTableKeeps, CloseWriterKeeps,
     IndexingFailsKeeps DEF Indexing
<1> QED
  BY <1>1, <1>2, <1>3, <1>4 DEF IndexNext

LEMMA IndexInvAlways == IndexSpec => []IndexInv
  BY InitIndexInv, StepIndexInv, PTL DEF IndexSpec

\* However requests to rebuild and to update the index of a table overlap, no article is
\* found twice (LuceneHelper.java:115-118).
THEOREM ArticlesFoundOnce == IndexSpec => []FoundOnce
<1>1. IndexInv => FoundOnce
  BY DEF IndexInv
<1> QED
  BY <1>1, IndexInvAlways, PTL

\* Every lock that is taken is with a request at work on this table, unless a request
\* failed there (LuceneHelper.java:70-77).
THEOREM LocksAreReturned == IndexSpec => []LockReturned
<1>1. IndexInv => LockReturned
  BY DEF IndexInv
<1> QED
  BY <1>1, IndexInvAlways, PTL

\* The index of a table never goes back, neither to an older revision of an article nor
\* to one without an article that is still there (LuceneHelper.java:72-73, 94).
THEOREM IndexNeverGoesBack == IndexSpec => IndexMovesOn
<1> DEFINE Moves == \A t \in Table : \A d \in docs[t] :
          IF d.id \in Ids(docs'[t]) THEN \E e \in docs'[t] : e.id = d.id /\ e.rev >= d.rev
          ELSE d.id \notin Ids(rows[t])
<1>1. ASSUME IndexInv, [IndexNext]_indexingVars PROVE [Moves]_docs
  <2>1. CASE docs' = docs
    BY <2>1
  <2>2. CASE docs' # docs
    <3>1. PICK th \in Request : CloseWriter(th)
      BY <1>1, <2>2 DEF IndexNext, Indexing, updateIndex, OpenWriter, LockTimeout, ReadTable,
                        IndexingFails, indexingVars, indexVars
    <3>2. /\ Current(th) \in Table /\ Listed(th, Current(th))
          /\ \A t \in Table \ {Current(th)} : docs'[t] = docs[t]
          /\ list[th] \subseteq docs'[Current(th)]
      BY <1>1, <3>1, Written
    <3>3. \A t \in Table : \A d \in docs[t] : d.id \in Nat /\ d.rev \in Nat
      <4>1. \A t \in Table : docs[t] \subseteq Article
        BY <1>1 DEF IndexInv, IndexTypeOK
      <4> QED
        BY <4>1, ArticleFields
    <3>4. \A a \in list[th] : a.rev \in Nat
      <4>1. list[th] \subseteq Article
        BY <1>1 DEF IndexInv, IndexTypeOK
      <4> QED
        BY <4>1, ArticleFields
    <3>5. ASSUME NEW t \in Table, NEW d \in docs[t]
          PROVE  \/ \E e \in docs'[t] : e.id = d.id /\ e.rev >= d.rev
                 \/ d.id \notin Ids(docs'[t]) /\ d.id \notin Ids(rows[t])
      <4>1. CASE t # Current(th)
        BY <3>2, <3>3, <4>1
      <4>2. CASE t = Current(th)
        <5>1. CASE \E a \in list[th] : a.id = d.id
          <6>1. PICK a \in list[th] : a.id = d.id
            BY <5>1
          <6>2. d.rev <= a.rev
            BY <3>2, <4>2, <6>1 DEF Listed
          <6> QED
            BY <3>2, <3>3, <3>4, <4>2, <6>1, <6>2
        <5>2. CASE ~ \E a \in list[th] : a.id = d.id
          <6>1. d.id \notin Ids(rows[t])
            BY <3>2, <4>2, <5>2 DEF Listed, Ids
          <6>2. CASE d.id \notin Ids(docs'[t])
            BY <6>1, <6>2
          <6>3. CASE d.id \in Ids(docs'[t])
            <7>1. PICK e \in docs'[t] : e.id = d.id
              BY <6>3 DEF Ids
            <7>2. e \in docs[t]
              BY <1>1, <3>1, <4>2, <5>2, <7>1, Written
            <7>3. e = d
              BY <1>1, <7>1, <7>2 DEF IndexInv, FoundOnce
            <7> QED
              BY <3>3, <7>1, <7>3
          <6> QED
            BY <6>2, <6>3
        <5> QED
          BY <5>1, <5>2
      <4> QED
        BY <4>1, <4>2
    <3>6. Moves
      BY <3>5 DEF Ids
    <3> QED
      BY <3>6
  <2> QED
    BY <2>1, <2>2
<1>2. IndexInv /\ [IndexNext]_indexingVars => [Moves]_docs
  BY <1>1
<1>3. [][Moves]_docs <=> IndexMovesOn
  BY DEF IndexMovesOn
<1> HIDE DEF Moves
<1> QED
  BY <1>2, <1>3, IndexInvAlways, PTL DEF IndexSpec

-----------------------------------------------------------------------------
(* The frame parser. *)

LEMMA Below == \E R : /\ IsWellFoundedOn(R, Nat) /\ \A m, n \in Nat : m < n => <<m, n>> \in R
<1>1. IsWellFoundedOn(OpToRel(<, Nat), Nat)
  BY NatLessThanWellFounded
<1>2. \A m, n \in Nat : m < n => <<m, n>> \in OpToRel(<, Nat)
  BY DEF OpToRel
<1> QED
  BY <1>1, <1>2

LEMMA LeastOf ==
    ASSUME NEW T, T \subseteq Nat, T # {}
    PROVE  \E x \in T : \A y \in T : ~ y < x
<1>1. PICK R : IsWellFoundedOn(R, Nat) /\ \A m, n \in Nat : m < n => <<m, n>> \in R
  BY Below
<1>2. IsWellFoundedOn(R, Nat)
  BY <1>1
<1>3. \E x \in T : \A y \in T : ~ (<<y, x>> \in R)
  BY <1>2, WFMin, Zenon
<1> QED
  BY <1>1, <1>3

\* Induction, for sets of numbers.
LEMMA CountsUp ==
    ASSUME NEW S, 0 \in S, \A n \in Nat : n \in S => n + 1 \in S
    PROVE  Nat \subseteq S
<1>1. SUFFICES ASSUME Nat \ S # {} PROVE FALSE
  OBVIOUS
<1>2. PICK x \in Nat \ S : \A y \in Nat \ S : ~ y < x
  BY <1>1, LeastOf
<1>3. x - 1 \in Nat /\ x - 1 < x /\ (x - 1) + 1 = x
  BY <1>2
<1> QED
  BY <1>2, <1>3

\* The states of the parser as it goes through the first n bytes of a piece.
IsRun(run, p, data, n) ==
    /\ run = [k \in 0 .. n |-> run[k]]
    /\ run[0] = p
    /\ \A k \in 1 .. n : run[k] = Step(run[k - 1], data[k])

LEMMA RunsExist ==
    ASSUME NEW p, NEW data, NEW n \in Nat
    PROVE  \E run : IsRun(run, p, data, n)
<1> DEFINE S == {k \in Nat : \E run : IsRun(run, p, data, k)}
<1>1. 0 \in S
  <2>1. IsRun([k \in 0 .. 0 |-> p], p, data, 0)
    BY DEF IsRun
  <2> QED
    BY <2>1
<1>2. ASSUME NEW k \in Nat, k \in S PROVE k + 1 \in S
  <2>1. PICK run : IsRun(run, p, data, k)
    BY <1>2
  <2>2. PICK next : next = [i \in 0 .. k + 1 |-> IF i = k + 1 THEN Step(run[k], data[k + 1]) ELSE run[i]]
    OBVIOUS
  <2>3. next[0] = p
    BY <2>1, <2>2 DEF IsRun
  <2>4. \A i \in 1 .. k + 1 : next[i] = Step(next[i - 1], data[i])
    <3>1. TAKE i \in 1 .. k + 1
    <3>2. next[i - 1] = run[i - 1]
      BY <2>2
    <3>3. next[i] = Step(run[i - 1], data[i])
      <4>1. CASE i = k + 1
        BY <2>2, <4>1
      <4>2. CASE i # k + 1
        <5>1. i \in 1 .. k /\ next[i] = run[i]
          BY <2>2, <4>2
        <5>2. run[i] = Step(run[i - 1], data[i])
          BY <2>1, <5>1, Zenon DEF IsRun
        <5> QED
          BY <5>1, <5>2
      <4> QED
        BY <4>1, <4>2
    <3> QED
      BY <3>2, <3>3
  <2>5. IsRun(next, p, data, k + 1)
    BY <2>2, <2>3, <2>4 DEF IsRun
  <2> QED
    BY <2>5
<1> HIDE DEF S
<1>3. Nat \subseteq S
  BY <1>1, <1>2, CountsUp
<1> QED
  BY <1>3 DEF S

LEMMA RunsAgree ==
    ASSUME NEW p, NEW data, NEW n \in Nat, NEW run, IsRun(run, p, data, n),
           NEW other, IsRun(other, p, data, n)
    PROVE  run = other
<1> DEFINE S == {k \in Nat : k <= n => run[k] = other[k]}
<1>1. 0 \in S
  BY DEF IsRun
<1>2. ASSUME NEW k \in Nat, k \in S PROVE k + 1 \in S
  <2>1. SUFFICES ASSUME k + 1 <= n PROVE run[k + 1] = other[k + 1]
    OBVIOUS
  <2>2. run[k] = other[k] /\ k + 1 \in 1 .. n /\ (k + 1) - 1 = k
    BY <1>2, <2>1
  <2> QED
    BY <2>2 DEF IsRun
<1> HIDE DEF S
<1>3. Nat \subseteq S
  BY <1>1, <1>2, CountsUp
<1>4. \A k \in 0 .. n : run[k] = other[k]
  BY <1>3 DEF S
<1> QED
  BY <1>4 DEF IsRun

LEMMA ParseIsRun ==
    ASSUME NEW p, NEW data, Len(data) \in Nat, NEW run, IsRun(run, p, data, Len(data))
    PROVE  Parse(p, data) = run[Len(data)]
<1> DEFINE after[n \in 0 .. Len(data)] == IF n = 0 THEN p ELSE Step(after[n - 1], data[n])
<1>1. Parse(p, data) = after[Len(data)]
  BY DEF Parse
<1>2. run = [n \in 0 .. Len(data) |-> IF n = 0 THEN p ELSE Step(run[n - 1], data[n])]
  BY DEF IsRun
<1>3. after = [n \in 0 .. Len(data) |-> IF n = 0 THEN p ELSE Step(after[n - 1], data[n])]
  <2> DEFINE G(f) == f = [n \in 0 .. Len(data) |-> IF n = 0 THEN p ELSE Step(f[n - 1], data[n])]
  <2>1. after = CHOOSE f : G(f)
    OBVIOUS
  <2>2. G(run)
    BY <1>2
  <2> HIDE DEF G
  <2>3. G(after)
    BY <2>1, <2>2, Zenon
  <2> QED
    BY <2>3 DEF G
<1> HIDE DEF after
<1>4. IsRun(after, p, data, Len(data))
  BY <1>3 DEF IsRun
<1> QED
  BY <1>1, <1>4, RunsAgree

ParserState == [order : {FrameType, TextByte, HighByte}, frameData : Seq(Byte), out : Seq(Seq(Byte))]

LEMMA StepState ==
    ASSUME NEW p \in ParserState, NEW byte \in Byte
    PROVE  Step(p, byte) \in ParserState
<1>5. ASSUME NEW order \in {FrameType, TextByte, HighByte} PROVE [p EXCEPT !.order = order] \in ParserState
  BY DEF ParserState
<1>1. CASE p.order = FrameType
  <2>1. Step(p, byte) = [p EXCEPT !.order = IF byte % 2 = 1 THEN HighByte ELSE TextByte]
    BY <1>1 DEF Step, FrameType, TextByte, HighByte
  <2> QED
    BY <2>1, <1>5
<1>2. CASE p.order = TextByte /\ byte = FrameEnd
  BY <1>2 DEF Step, ParserState, FrameType, TextByte, HighByte
<1>3. CASE p.order = TextByte /\ byte # FrameEnd
  <2>1. Step(p, byte) = [p EXCEPT !.frameData = Append(@, byte)]
    BY <1>3 DEF Step, FrameType, TextByte, HighByte
  <2>2. Append(p.frameData, byte) \in Seq(Byte)
    BY DEF ParserState
  <2> QED
    BY <2>1, <2>2 DEF ParserState
<1>4. CASE p.order = HighByte
  <2>1. Step(p, byte) = [p EXCEPT !.order = FrameType]
    BY <1>4 DEF Step, FrameType, TextByte, HighByte
  <2> QED
    BY <2>1, <1>5
<1> QED
  BY <1>1, <1>2, <1>3, <1>4 DEF ParserState

LEMMA RunStates ==
    ASSUME NEW p \in ParserState, NEW data \in Seq(Byte), NEW run, IsRun(run, p, data, Len(data))
    PROVE  \A k \in 0 .. Len(data) : run[k] \in ParserState
<1> DEFINE n == Len(data)  T == {k \in Nat : k <= n => run[k] \in ParserState}
<1>1. n \in Nat
  OBVIOUS
<1>2. 0 \in T
  BY DEF IsRun
<1>3. ASSUME NEW k \in Nat, k \in T PROVE k + 1 \in T
  <2>1. SUFFICES ASSUME k + 1 <= n PROVE run[k + 1] \in ParserState
    OBVIOUS
  <2>2. run[k] \in ParserState /\ k + 1 \in 1 .. n /\ (k + 1) - 1 = k
    BY <1>1, <1>3, <2>1
  <2>3. data[k + 1] \in Byte
    BY <2>2
  <2>4. run[k + 1] = Step(run[(k + 1) - 1], data[k + 1])
    BY <2>2, Zenon DEF IsRun
  <2> QED
    BY <2>2, <2>3, <2>4, StepState
<1> HIDE DEF T
<1>4. Nat \subseteq T
  BY <1>2, <1>3, CountsUp
<1> QED
  BY <1>1, <1>4 DEF T

LEMMA ParseState ==
    ASSUME NEW p \in ParserState, NEW data \in Seq(Byte)
    PROVE  Parse(p, data) \in ParserState
<1>1. Len(data) \in Nat
  OBVIOUS
<1>2. PICK run : IsRun(run, p, data, Len(data))
  BY <1>1, RunsExist
<1> QED
  BY <1>1, <1>2, RunStates, ParseIsRun

\* Two pieces are parsed as the bytes of both.
LEMMA ParseConcat ==
    ASSUME NEW p, NEW a \in Seq(Byte), NEW b \in Seq(Byte)
    PROVE  Parse(p, a \o b) = Parse(Parse(p, a), b)
<1> DEFINE m == Len(a)  n == Len(b)
<1>1. m \in Nat /\ n \in Nat /\ a \o b \in Seq(Byte) /\ Len(a \o b) = m + n
  OBVIOUS
<1>2. PICK first : IsRun(first, p, a, m)
  BY <1>1, RunsExist
<1>3. Parse(p, a) = first[m]
  BY <1>1, <1>2, ParseIsRun
<1>4. PICK second : IsRun(second, first[m], b, n)
  BY <1>1, RunsExist
<1>5. Parse(first[m], b) = second[n]
  BY <1>1, <1>4, ParseIsRun
<1>6. PICK run : run = [k \in 0 .. m + n |-> IF k <= m THEN first[k] ELSE second[k - m]]
  OBVIOUS
<1>7. run[0] = p /\ run = [k \in 0 .. m + n |-> run[k]]
  BY <1>1, <1>2, <1>6 DEF IsRun
<1>8. ASSUME NEW k \in 1 .. m + n PROVE run[k] = Step(run[k - 1], (a \o b)[k])
  <2>1. CASE k <= m
    <3>1. k \in 1 .. m /\ run[k] = first[k] /\ run[k - 1] = first[k - 1] /\ (a \o b)[k] = a[k]
      BY <1>1, <1>6, <2>1
    <3>2. first[k] = Step(first[k - 1], a[k])
      BY <1>2, <3>1, Zenon DEF IsRun
    <3> QED
      BY <3>1, <3>2, Zenon
  <2>2. CASE k > m
    <3>1. k - m \in 1 .. n /\ (a \o b)[k] = b[k - m]
      BY <1>1, <2>2
    <3>2. run[k] = second[k - m]
      BY <1>1, <1>6, <2>2
    <3>3. run[k - 1] = second[(k - m) - 1]
      <4>1. CASE k - 1 <= m
        <5>1. k - 1 = m /\ (k - m) - 1 = 0
          BY <1>1, <2>2, <4>1
        <5>2. run[k - 1] = first[m] /\ second[0] = first[m]
          BY <1>1, <1>4, <1>6, <5>1 DEF IsRun
        <5> QED
          BY <5>1, <5>2
      <4>2. CASE ~ k - 1 <= m
        BY <1>1, <1>6, <4>2, <2>2
      <4> QED
        BY <4>1, <4>2
    <3>4. second[k - m] = Step(second[(k - m) - 1], b[k - m])
      BY <1>4, <3>1, Zenon DEF IsRun
    <3> QED
      BY <3>1, <3>2, <3>3, <3>4, Zenon
  <2> QED
    BY <1>1, <2>1, <2>2
<1>9. IsRun(run, p, a \o b, m + n)
  BY <1>7, <1>8 DEF IsRun
<1>10. run[m + n] = second[n]
  <2>1. CASE n = 0
    BY <1>1, <1>4, <1>6, <2>1 DEF IsRun
  <2>2. CASE n # 0
    BY <1>1, <1>6, <2>2
  <2> QED
    BY <2>1, <2>2
<1>11. Len(a \o b) \in Nat /\ IsRun(run, p, a \o b, Len(a \o b))
  BY <1>1, <1>9
<1>12. Parse(p, a \o b) = run[Len(a \o b)]
  BY <1>11, ParseIsRun
<1> QED
  BY <1>1, <1>3, <1>5, <1>10, <1>12

LEMMA ParseNothing == ASSUME NEW p PROVE Parse(p, <<>>) = p
<1>1. Len(<<>>) = 0
  OBVIOUS
<1>2. IsRun([k \in 0 .. 0 |-> p], p, <<>>, 0)
  BY DEF IsRun
<1>3. 0 \in Nat /\ [k \in 0 .. 0 |-> p][0] = p
  OBVIOUS
<1> QED
  BY <1>1, <1>2, <1>3, ParseIsRun

LEMMA ParseOne ==
    ASSUME NEW p, NEW byte
    PROVE  Parse(p, <<byte>>) = Step(p, byte)
<1> DEFINE run == [k \in 0 .. 1 |-> IF k = 0 THEN p ELSE Step(p, byte)]
<1>1. Len(<<byte>>) = 1 /\ <<byte>>[1] = byte
  OBVIOUS
<1>2. run[0] = p /\ run[1] = Step(p, byte) /\ run = [k \in 0 .. 1 |-> run[k]]
  OBVIOUS
<1>3. \A k \in 1 .. 1 : k = 1 /\ k - 1 = 0
  OBVIOUS
<1> HIDE DEF run
<1>4. IsRun(run, p, <<byte>>, 1)
  BY <1>1, <1>2, <1>3 DEF IsRun
<1>5. Len(<<byte>>) \in Nat /\ IsRun(run, p, <<byte>>, Len(<<byte>>))
  BY <1>1, <1>4
<1>6. Parse(p, <<byte>>) = run[Len(<<byte>>)]
  BY <1>5, ParseIsRun
<1> QED
  BY <1>1, <1>2, <1>6

State(order, frameData, out) == [order |-> order, frameData |-> frameData, out |-> out]

\* The step, case by case.
LEMMA StepCases ==
    ASSUME NEW frameData, NEW out, NEW byte
    PROVE  /\ Step(State(FrameType, frameData, out), byte) =
                 State(IF byte % 2 = 1 THEN HighByte ELSE TextByte, frameData, out)
           /\ Step(State(HighByte, frameData, out), byte) = State(FrameType, frameData, out)
           /\ byte = FrameEnd =>
                 Step(State(TextByte, frameData, out), byte) = State(FrameType, <<>>, Append(out, frameData))
           /\ byte # FrameEnd =>
                 Step(State(TextByte, frameData, out), byte) = State(TextByte, Append(frameData, byte), out)
<1>1. FrameType # TextByte /\ FrameType # HighByte /\ TextByte # HighByte
  BY DEF FrameType, TextByte, HighByte
<1> QED
  BY <1>1 DEF Step, State

LEMMA StateOf ==
    ASSUME NEW p \in ParserState
    PROVE  /\ p = State(p.order, p.frameData, p.out)
           /\ p.order \in {FrameType, TextByte, HighByte}
           /\ p.frameData \in Seq(Byte) /\ p.out \in Seq(Seq(Byte))
BY DEF ParserState, State

\* What the parser has emitted before makes no difference to it.
After(before, p) == State(p.order, p.frameData, before \o p.out)

LEMMA StepAfter ==
    ASSUME NEW p \in ParserState, NEW byte \in Byte, NEW before \in Seq(Seq(Byte))
    PROVE  Step(After(before, p), byte) = After(before, Step(p, byte))
<1>1. p = State(p.order, p.frameData, p.out) /\ p.frameData \in Seq(Byte) /\ p.out \in Seq(Seq(Byte))
  BY StateOf
<1>2. \A order, frameData, out :
        After(before, State(order, frameData, out)) = State(order, frameData, before \o out)
  BY DEF After, State
<1>3. CASE p.order = FrameType
  <2>1. PICK order : order = IF byte % 2 = 1 THEN HighByte ELSE TextByte
    OBVIOUS
  <2>2. Step(p, byte) = State(order, p.frameData, p.out)
    BY <1>1, <1>3, <2>1, StepCases
  <2>3. Step(After(before, p), byte) = State(order, p.frameData, before \o p.out)
    BY <1>3, <2>1, StepCases DEF After
  <2> QED
    BY <1>2, <2>2, <2>3
<1>4. CASE p.order = TextByte /\ byte = FrameEnd
  <2>1. before \o Append(p.out, p.frameData) = Append(before \o p.out, p.frameData)
    <3>1. PICK o \in Seq(Seq(Byte)), d \in Seq(Byte) : o = p.out /\ d = p.frameData
      BY <1>1
    <3>2. before \o Append(o, d) = Append(before \o o, d)
      OBVIOUS
    <3> QED
      BY <3>1, <3>2
  <2>2. Step(p, byte) = State(FrameType, <<>>, Append(p.out, p.frameData))
    BY <1>1, <1>4, StepCases
  <2>3. Step(After(before, p), byte) = State(FrameType, <<>>, Append(before \o p.out, p.frameData))
    BY <1>4, StepCases DEF After
  <2> QED
    BY <1>2, <2>1, <2>2, <2>3
<1>5. CASE p.order = TextByte /\ byte # FrameEnd
  <2>1. Step(p, byte) = State(TextByte, Append(p.frameData, byte), p.out)
    BY <1>1, <1>5, StepCases
  <2>2. Step(After(before, p), byte) = State(TextByte, Append(p.frameData, byte), before \o p.out)
    BY <1>5, StepCases DEF After
  <2> QED
    BY <1>2, <2>1, <2>2
<1>6. CASE p.order = HighByte
  <2>1. Step(p, byte) = State(FrameType, p.frameData, p.out)
    BY <1>1, <1>6, StepCases
  <2>2. Step(After(before, p), byte) = State(FrameType, p.frameData, before \o p.out)
    BY <1>6, StepCases DEF After
  <2> QED
    BY <1>2, <2>1, <2>2
<1> QED
  BY <1>3, <1>4, <1>5, <1>6, StateOf

LEMMA ParseAfter ==
    ASSUME NEW p \in ParserState, NEW data \in Seq(Byte), NEW before \in Seq(Seq(Byte))
    PROVE  Parse(After(before, p), data) = After(before, Parse(p, data))
<1> DEFINE n == Len(data)
<1>1. n \in Nat
  OBVIOUS
<1>2. PICK run : IsRun(run, p, data, n)
  BY <1>1, RunsExist
<1>6. \A k \in 0 .. n : run[k] \in ParserState
  BY <1>2, RunStates
<1>7. PICK later : later = [k \in 0 .. n |-> After(before, run[k])]
  OBVIOUS
<1>8. ASSUME NEW k \in 1 .. n PROVE later[k] = Step(later[k - 1], data[k])
  <2>1. k \in 0 .. n /\ k - 1 \in 0 .. n /\ data[k] \in Byte
    BY <1>1
  <2>2. run[k] = Step(run[k - 1], data[k])
    BY <1>2, Zenon DEF IsRun
  <2>3. later[k] = After(before, run[k]) /\ later[k - 1] = After(before, run[k - 1])
    BY <1>7, <2>1
  <2> QED
    BY <1>6, <2>1, <2>2, <2>3, StepAfter
<1>9. later[0] = After(before, p) /\ later[n] = After(before, run[n])
  BY <1>1, <1>2, <1>7 DEF IsRun
<1>10. IsRun(later, After(before, p), data, n)
  BY <1>7, <1>8, <1>9 DEF IsRun
<1> QED
  BY <1>1, <1>2, <1>9, <1>10, ParseIsRun

\* A frame of a text becomes a message.
LEMMA ParseText ==
    ASSUME NEW t \in Seq(Byte \ {FrameEnd}), NEW out
    PROVE  /\ Parse(State(FrameType, <<>>, out), <<TextType>>) = State(TextByte, <<>>, out)
           /\ Parse(State(TextByte, <<>>, out), t) = State(TextByte, t, out)
           /\ Parse(State(TextByte, t, out), <<FrameEnd>>) = State(FrameType, <<>>, Append(out, t))
<1>1. Parse(State(FrameType, <<>>, out), <<TextType>>) = State(TextByte, <<>>, out)
  <2>1. TextType % 2 # 1
    BY DEF TextType
  <2> QED
    BY <2>1, ParseOne, StepCases
<1>2. Parse(State(TextByte, t, out), <<FrameEnd>>) = State(FrameType, <<>>, Append(out, t))
  BY ParseOne, StepCases
<1>3. Parse(State(TextByte, <<>>, out), t) = State(TextByte, t, out)
  <2> DEFINE n == Len(t)
  <2>1. n \in Nat
    OBVIOUS
  <2>2. PICK run : run = [k \in 0 .. n |-> State(TextByte, SubSeq(t, 1, k), out)]
    OBVIOUS
  <2>3. run[0] = State(TextByte, <<>>, out) /\ run[n] = State(TextByte, t, out)
    <3>1. SubSeq(t, 1, 0) = <<>> /\ SubSeq(t, 1, n) = t
      BY SubSeqEmpty, SubSeqFull
    <3> QED
      BY <2>1, <2>2, <3>1
  <2>4. ASSUME NEW k \in 1 .. n PROVE run[k] = Step(run[k - 1], t[k])
    <3>1. t[k] \in Byte /\ t[k] # FrameEnd
      OBVIOUS
    <3>2. SubSeq(t, 1, k) = Append(SubSeq(t, 1, k - 1), t[k])
      BY <2>1
    <3>3. run[k - 1] = State(TextByte, SubSeq(t, 1, k - 1), out)
      BY <2>1, <2>2
    <3>4. run[k] = State(TextByte, SubSeq(t, 1, k), out)
      BY <2>1, <2>2
    <3>5. Step(State(TextByte, SubSeq(t, 1, k - 1), out), t[k]) =
             State(TextByte, Append(SubSeq(t, 1, k - 1), t[k]), out)
      <4>1. PICK before : before = SubSeq(t, 1, k - 1)
        OBVIOUS
      <4> QED
        BY <3>1, <4>1, StepCases
    <3> QED
      BY <3>2, <3>3, <3>4, <3>5, Zenon
  <2>5. IsRun(run, State(TextByte, <<>>, out), t, n)
    BY <2>2, <2>3, <2>4 DEF IsRun
  <2> QED
    BY <2>1, <2>3, <2>5, ParseIsRun
<1> QED
  BY <1>1, <1>2, <1>3

\* Two bytes of which the first is odd become nothing.
LEMMA ParseOdd ==
    ASSUME NEW a \in Byte, a % 2 = 1, NEW b \in Byte, NEW out
    PROVE  Parse(State(FrameType, <<>>, out), <<a, b>>) = State(FrameType, <<>>, out)
<1>1. <<a>> \in Seq(Byte) /\ <<b>> \in Seq(Byte) /\ <<a, b>> = <<a>> \o <<b>>
  OBVIOUS
<1>2. Parse(State(FrameType, <<>>, out), <<a>>) = State(HighByte, <<>>, out)
  BY ParseOne, StepCases
<1>3. Parse(State(HighByte, <<>>, out), <<b>>) = State(FrameType, <<>>, out)
  BY ParseOne, StepCases
<1>4. Parse(State(FrameType, <<>>, out), <<a>> \o <<b>>) =
         Parse(Parse(State(FrameType, <<>>, out), <<a>>), <<b>>)
  BY <1>1, ParseConcat, Zenon
<1> QED
  BY <1>1, <1>2, <1>3, <1>4, Zenon

\* The parser and what it has emitted, and what they are when all texts are emitted.
Now == State(parser.order, parser.frameData, emitted)
Done == State(FrameType, <<>>, written)

\* When the bytes on their way have been parsed as well, all texts that were sent are
\* emitted and the parser waits for a frame.
Flow ==
    /\ upgraded = "no" =>
          /\ Now = State(FrameType, <<>>, <<>>)
          /\ \E rest \in Seq(Byte) : pipe = Key3 \o rest /\ Parse(Now, rest) = Done
    /\ upgraded = "yes" => Parse(Now, pipe) = Done
    /\ upgraded = "rejected" => emitted = <<>>

ParserInv == ParserTypeOK /\ Flow

\* The frames of other types that the parser passes over: their type is odd, and one
\* byte follows.
HighFramesSkipped == \A f \in HighFrames : Len(f) = 2 /\ f[1] % 2 = 1

LEMMA TextsAreBytes == \A t \in Texts : t \in Seq(Byte \ {FrameEnd}) /\ t \in Seq(Byte)
<1>1. \A t \in Texts : t \in Seq(Byte \ {FrameEnd})
  BY ParserAssumption
<1>2. \A t \in Seq(Byte \ {FrameEnd}) : t \in Seq(Byte)
  OBVIOUS
<1> QED
  BY <1>1, <1>2

LEMMA NowState == ASSUME ParserTypeOK PROVE Now \in ParserState
<1>1. emitted \in Seq(Seq(Byte)) /\ parser.order \in {FrameType, TextByte, HighByte} /\ parser.frameData \in Seq(Byte)
  BY DEF ParserTypeOK
<1> QED
  BY <1>1 DEF Now, State, ParserState

LEMMA ParserInitInv == ParserInit => ParserInv
<1> SUFFICES ASSUME ParserInit PROVE ParserInv
  OBVIOUS
<1>1. ParserTypeOK
  <2>1. <<>> \in Seq(Byte) /\ <<>> \in Seq(Texts) /\ <<>> \in Seq(Seq(Byte)) /\ Key3 \in Seq(Byte)
    BY ParserAssumption
  <2> QED
    BY <2>1 DEF ParserInit, ParserTypeOK
<1>2. Now = State(FrameType, <<>>, <<>>) /\ Done = State(FrameType, <<>>, <<>>)
  BY DEF ParserInit, Now, Done
<1>3. pipe = Key3 \o <<>> /\ <<>> \in Seq(Byte)
  BY ParserAssumption DEF ParserInit
<1>4. Flow
  BY <1>2, <1>3, ParseNothing DEF ParserInit, Flow
<1> QED
  BY <1>1, <1>4 DEF ParserInv

\* What Parser.write does with a piece.
LEMMA WriteParses ==
    ASSUME ParserTypeOK, NEW data \in Seq(Byte), Write(data)
    PROVE  /\ Now' = Parse(Now, data)
           /\ parser' \in [order : {FrameType, TextByte, HighByte}, frameData : Seq(Byte)]
           /\ emitted' \in Seq(Seq(Byte))
<1> DEFINE p == State(parser.order, parser.frameData, <<>>)  q == Parse(p, data)
<1>1. /\ emitted \in Seq(Seq(Byte)) /\ parser.order \in {FrameType, TextByte, HighByte}
      /\ parser.frameData \in Seq(Byte)
  BY DEF ParserTypeOK
<1>2. p \in ParserState
  BY <1>1 DEF State, ParserState
<1>3. q \in ParserState
  BY <1>2, ParseState
<1>4. parser' = [order |-> q.order, frameData |-> q.frameData] /\ emitted' = emitted \o q.out
  BY DEF Write, State
<1>5. Now = After(emitted, p)
  <2>1. emitted \o <<>> = emitted /\ p.order = parser.order /\ p.frameData = parser.frameData /\ p.out = <<>>
    BY <1>1 DEF State
  <2> QED
    BY <2>1 DEF Now, After
<1>6. Parse(Now, data) = After(emitted, q)
  BY <1>1, <1>2, <1>5, ParseAfter
<1> HIDE DEF q
<1>7. Now' = After(emitted, q)
  BY <1>4 DEF Now, After
<1>8. q.out \in Seq(Seq(Byte)) /\ q.order \in {FrameType, TextByte, HighByte} /\ q.frameData \in Seq(Byte)
  BY <1>3, StateOf
<1> QED
  BY <1>1, <1>4, <1>6, <1>7, <1>8

LEMMA CutPipe ==
    ASSUME NEW s \in Seq(Byte), NEW m \in 0 .. Len(s), NEW n \in m .. Len(s)
    PROVE  /\ SubSeq(s, m + 1, n) \in Seq(Byte) /\ SubSeq(s, n + 1, Len(s)) \in Seq(Byte)
           /\ SubSeq(s, m + 1, n) \o SubSeq(s, n + 1, Len(s)) = SubSeq(s, m + 1, Len(s))
<1>1. SubSeq(s, m + 1, n) \in Seq(Byte) /\ SubSeq(s, n + 1, Len(s)) \in Seq(Byte)
  OBVIOUS
<1>2. m + 1 \in 1 .. Len(s) + 1 /\ n \in (m + 1) - 1 .. Len(s) /\ Len(s) \in n .. Len(s)
  OBVIOUS
<1>3. SubSeq(s, m + 1, n) \o SubSeq(s, n + 1, Len(s)) = SubSeq(s, m + 1, Len(s))
  BY <1>2, ConcatAdjacentSubSeq
<1> QED
  BY <1>1, <1>3

LEMMA BehindKey ==
    ASSUME NEW key \in Seq(Byte), NEW rest \in Seq(Byte)
    PROVE  SubSeq(key \o rest, Len(key) + 1, Len(key \o rest)) = rest
  OBVIOUS

LEMMA UpgradeStep ==
    ASSUME ParserInv, NEW n \in 0 .. Len(pipe), Upgrade(n)
    PROVE  ParserInv'
<1> USE DEF ParserInv
<1>1. PICK rest \in Seq(Byte) : pipe = Key3 \o rest /\ Parse(Now, rest) = Done
  BY DEF Upgrade, Flow
<1>2. Key3 \in Seq(Byte) /\ pipe \in Seq(Byte) /\ Len(Key3) \in Nat /\ Len(pipe) \in Nat /\ Len(Key3) <= Len(pipe)
  BY <1>1, ParserAssumption DEF ParserTypeOK
<1>3. pipe' = SubSeq(pipe, n + 1, Len(pipe)) /\ UNCHANGED peerVars
  BY DEF Upgrade
<1>4. pipe' \in Seq(Byte)
  BY <1>2, <1>3
<1>5. CASE n < Len(Key3)
  <2>1. upgraded' = "rejected" /\ UNCHANGED <<parser, emitted>>
    BY <1>5 DEF Upgrade
  <2>2. Now = State(FrameType, <<>>, <<>>)
    BY DEF Flow, Upgrade
  <2>3. emitted = <<>>
    BY <2>2 DEF Now, State
  <2> QED
    BY <1>3, <1>4, <2>1, <2>3 DEF ParserTypeOK, Flow, peerVars
<1>6. CASE ~ n < Len(Key3)
  <2> DEFINE data == SubSeq(pipe, Len(Key3) + 1, n)
  <2>1. upgraded' = "yes" /\ Write(data)
    BY <1>6 DEF Upgrade
  <2>2. data \in Seq(Byte) /\ data \o pipe' = SubSeq(pipe, Len(Key3) + 1, Len(pipe))
    <3>1. Len(Key3) \in 0 .. Len(pipe) /\ n \in Len(Key3) .. Len(pipe)
      BY <1>2, <1>6
    <3> QED
      BY <1>2, <1>3, <3>1, CutPipe
  <2>3. data \o pipe' = rest
    BY <1>1, <1>2, <2>2, BehindKey
  <2>4. /\ Now' = Parse(Now, data) /\ emitted' \in Seq(Seq(Byte))
        /\ parser' \in [order : {FrameType, TextByte, HighByte}, frameData : Seq(Byte)]
    BY <2>1, <2>2, WriteParses
  <2>5. Parse(Now', pipe') = Done
    <3>1. Parse(Now, data \o pipe') = Parse(Parse(Now, data), pipe')
      BY <1>4, <2>2, ParseConcat
    <3> QED
      BY <1>1, <2>3, <2>4, <3>1
  <2>6. Done' = Done
    BY <1>3 DEF Done, peerVars
  <2> QED
    BY <1>3, <1>4, <2>1, <2>4, <2>5, <2>6 DEF ParserTypeOK, Flow, peerVars
<1> QED
  BY <1>5, <1>6

LEMMA DataStep ==
    ASSUME ParserInv, NEW n \in 0 .. Len(pipe), Data(n)
    PROVE  ParserInv'
<1> USE DEF ParserInv
<1> DEFINE data == SubSeq(pipe, 1, n)
<1>1. pipe \in Seq(Byte) /\ Len(pipe) \in Nat
  BY DEF ParserTypeOK
<1>2. pipe' = SubSeq(pipe, n + 1, Len(pipe)) /\ Write(data) /\ UNCHANGED <<peerVars, upgraded>>
  BY DEF Data
<1>3. data \in Seq(Byte) /\ pipe' \in Seq(Byte) /\ data \o pipe' = pipe
  <2>1. 0 \in 0 .. Len(pipe) /\ n \in 0 .. Len(pipe) /\ 0 + 1 = 1
    BY <1>1
  <2>2. SubSeq(pipe, 1, Len(pipe)) = pipe
    BY <1>1, SubSeqFull
  <2> QED
    BY <1>1, <1>2, <2>1, <2>2, CutPipe
<1>4. /\ Now' = Parse(Now, data) /\ emitted' \in Seq(Seq(Byte))
      /\ parser' \in [order : {FrameType, TextByte, HighByte}, frameData : Seq(Byte)]
  BY <1>2, <1>3, WriteParses
<1>5. Parse(Now, pipe) = Done
  BY DEF Data, Flow
<1>6. Parse(Now', pipe') = Done
  <2>1. Parse(Now, data \o pipe') = Parse(Parse(Now, data), pipe')
    BY <1>3, ParseConcat
  <2> QED
    BY <1>3, <1>4, <1>5, <2>1
<1>7. Done' = Done /\ upgraded' = "yes"
  BY <1>2 DEF Done, peerVars, Data
<1> QED
  BY <1>2, <1>3, <1>4, <1>6, <1>7 DEF ParserTypeOK, Flow, peerVars

\* More bytes on their way, after those that are there.
LEMMA PipeGrows ==
    ASSUME ParserInv, UNCHANGED serverVars, NEW more \in Seq(Byte), pipe' = pipe \o more,
           Parse(Done, more) = Done', ParserTypeOK'
    PROVE  ParserInv'
<1> USE DEF ParserInv
<1>1. pipe \in Seq(Byte) /\ Key3 \in Seq(Byte)
  BY ParserAssumption DEF ParserTypeOK
<1>2. Now' = Now /\ upgraded' = upgraded /\ emitted' = emitted
  BY DEF serverVars, Now
<1>3. CASE upgraded = "no"
  <2>1. PICK rest \in Seq(Byte) : pipe = Key3 \o rest /\ Parse(Now, rest) = Done
    BY <1>3 DEF Flow
  <2>2. rest \o more \in Seq(Byte) /\ pipe' = Key3 \o (rest \o more)
    BY <1>1, <2>1
  <2>3. Parse(Now, rest \o more) = Done'
    BY <2>1, ParseConcat
  <2> QED
    BY <1>2, <1>3, <2>2, <2>3 DEF Flow
<1>4. CASE upgraded = "yes"
  BY <1>1, <1>2, <1>4, ParseConcat DEF Flow
<1>5. CASE upgraded \notin {"no", "yes"}
  BY <1>2, <1>5 DEF Flow
<1> QED
  BY <1>3, <1>4, <1>5

LEMMA SendTextStep ==
    ASSUME ParserInv, NEW t \in Texts, SendText(t)
    PROVE  ParserInv'
<1>1. t \in Seq(Byte) /\ t \in Seq(Byte \ {FrameEnd})
  BY TextsAreBytes
<1>2. <<TextType>> \in Seq(Byte) /\ <<FrameEnd>> \in Seq(Byte)
  BY DEF TextType, FrameEnd, Byte
<1>3. PICK head \in Seq(Byte) : head = <<TextType>> \o t
  <2>1. <<TextType>> \o t \in Seq(Byte)
    BY <1>1, <1>2, ConcatProperties
  <2> QED
    BY <2>1
<1>4. PICK more \in Seq(Byte) : more = head \o <<FrameEnd>>
  <2>1. head \o <<FrameEnd>> \in Seq(Byte)
    BY <1>2, ConcatProperties
  <2> QED
    BY <2>1
<1>5. /\ UNCHANGED <<closing, high, serverVars>> /\ written' = Append(written, t)
      /\ pipe' = pipe \o <<TextType>> \o t \o <<FrameEnd>>
  BY DEF SendText
<1>6. pipe \in Seq(Byte)
  BY DEF ParserInv, ParserTypeOK
<1>7. pipe' = pipe \o more
  <2>1. pipe \o <<TextType>> \o t = pipe \o head
    BY <1>1, <1>2, <1>3, <1>6, ConcatAssociative
  <2>2. pipe \o head \o <<FrameEnd>> = pipe \o more
    BY <1>2, <1>6, <1>4, ConcatAssociative
  <2> QED
    BY <1>5, <2>1, <2>2
<1>8. Parse(Done, more) = Done'
  <2>1. Parse(Done, more) = Parse(Parse(Done, head), <<FrameEnd>>)
    BY <1>2, <1>4, ParseConcat
  <2>2. Parse(Done, head) = Parse(Parse(Done, <<TextType>>), t)
    BY <1>1, <1>2, <1>3, ParseConcat
  <2>3. Parse(Parse(Parse(Done, <<TextType>>), t), <<FrameEnd>>) = State(FrameType, <<>>, Append(written, t))
    BY <1>1, ParseText DEF Done
  <2> QED
    BY <1>5, <2>1, <2>2, <2>3 DEF Done
<1>9. ParserTypeOK'
  <2>1. pipe' \in Seq(Byte)
    BY <1>6, <1>7, ConcatProperties
  <2>2. written' \in Seq(Texts)
    BY <1>5 DEF ParserInv, ParserTypeOK
  <2> QED
    BY <1>5, <2>1, <2>2 DEF ParserInv, ParserTypeOK, serverVars
<1> QED
  BY <1>5, <1>7, <1>8, <1>9, PipeGrows

LEMMA SkippedStep ==
    ASSUME ParserInv, UNCHANGED <<written, serverVars>>, closing' \in BOOLEAN, high' \in BOOLEAN,
           NEW f \in Seq(Byte), Len(f) = 2, f[1] % 2 = 1, pipe' = pipe \o f
    PROVE  ParserInv'
<1>1. PICK a \in Byte, b \in Byte : f = <<a, b>> /\ a % 2 = 1
  <2>1. f[1] \in Byte /\ f[2] \in Byte /\ f = <<f[1], f[2]>>
    <3>1. f[1] \in Byte /\ f[2] \in Byte
      <4>1. 1 \in 1 .. Len(f) /\ 2 \in 1 .. Len(f)
        OBVIOUS
      <4> QED
        BY <4>1, ElementOfSeq
    <3>2. <<f[1], f[2]>> \in Seq(Byte) /\ Len(<<f[1], f[2]>>) = 2
      BY <3>1
    <3>3. \A i \in 1 .. Len(f) : f[i] = <<f[1], f[2]>>[i]
      OBVIOUS
    <3> QED
      BY <3>1, <3>2, <3>3, SeqEqual
  <2> QED
    BY <2>1
<1>2. Parse(Done, f) = Done
  BY <1>1, ParseOdd DEF Done
<1>3. Done' = Done
  BY DEF Done
<1>4. ParserTypeOK'
  BY DEF ParserInv, ParserTypeOK, serverVars
<1> QED
  BY <1>2, <1>3, <1>4, PipeGrows

LEMMA ParserStep ==
    ASSUME HighFramesSkipped, ParserInv, [ParserNext]_parserVars
    PROVE  ParserInv'
<1>1. CASE UNCHANGED parserVars
  BY <1>1 DEF parserVars, peerVars, serverVars, ParserInv, ParserTypeOK, Flow, Now, Done
<1>2. ASSUME NEW n \in 0 .. Len(pipe), Upgrade(n) \/ Data(n) PROVE ParserInv'
  BY <1>2, UpgradeStep, DataStep
<1>3. ASSUME NEW t \in Texts, SendText(t) PROVE ParserInv'
  BY <1>3, SendTextStep
<1>4. ASSUME NEW f \in HighFrames, SendHigh(f) PROVE ParserInv'
  <2>1. f \in Seq(Byte) /\ Len(f) = 2 /\ f[1] % 2 = 1
    BY ParserAssumption DEF HighFramesSkipped
  <2>2. UNCHANGED <<written, closing, serverVars>> /\ high' = TRUE /\ pipe' = pipe \o f /\ closing \in BOOLEAN
    BY <1>4 DEF SendHigh, ParserInv, ParserTypeOK
  <2> QED
    BY <2>1, <2>2, SkippedStep
<1>5. CASE SendClose
  <2>1. <<FrameEnd, TextType>> \in Seq(Byte) /\ Len(<<FrameEnd, TextType>>) = 2
        /\ <<FrameEnd, TextType>>[1] % 2 = 1
    BY DEF FrameEnd, TextType, Byte
  <2>2. /\ UNCHANGED <<written, high, serverVars>> /\ closing' = TRUE /\ high \in BOOLEAN
        /\ pipe' = pipe \o <<FrameEnd, TextType>>
    BY <1>5 DEF SendClose, ParserInv, ParserTypeOK
  <2> QED
    BY <2>1, <2>2, SkippedStep
<1> QED
  BY <1>1, <1>2, <1>3, <1>4, <1>5 DEF ParserNext

LEMMA ParserInvShows == ASSUME ParserInv PROVE MessagesIntact /\ NothingHeldBack
<1>1. emitted \in Seq(Seq(Byte)) /\ Now \in ParserState
  BY NowState DEF ParserInv, ParserTypeOK
<1>2. pipe \in Seq(Byte) /\ Key3 \in Seq(Byte) /\ written \in Seq(Texts)
  BY ParserAssumption DEF ParserInv, ParserTypeOK
<1>3. ASSUME NEW data \in Seq(Byte), Parse(Now, data) = Done PROVE IsPrefix(emitted, written)
  <2>1. PICK p \in ParserState : p = State(parser.order, parser.frameData, <<>>)
    <3>1. parser.order \in {FrameType, TextByte, HighByte} /\ parser.frameData \in Seq(Byte)
          /\ <<>> \in Seq(Seq(Byte))
      BY DEF ParserInv, ParserTypeOK
    <3>2. State(parser.order, parser.frameData, <<>>) \in ParserState
      BY <3>1 DEF State, ParserState
    <3> QED
      BY <3>2
  <2>2. emitted \o <<>> = emitted
    BY <1>1
  <2>3. Now = After(emitted, p)
    BY <2>1, <2>2 DEF Now, After, State
  <2>4. Done = After(emitted, Parse(p, data))
    BY <1>1, <1>3, <2>3, ParseAfter
  <2>5. PICK out \in Seq(Seq(Byte)) : out = Parse(p, data).out
    BY ParseState, StateOf
  <2>6. written = emitted \o out
    BY <2>4, <2>5 DEF Done, After, State
  <2> QED
    BY <1>1, <2>6 DEF IsPrefix
<1>4. MessagesIntact
  <2>1. CASE upgraded = "rejected"
    <3>1. emitted = <<>>
      BY <2>1 DEF ParserInv, Flow
    <3> QED
      BY <1>2, <3>1 DEF MessagesIntact, IsPrefix
  <2>2. CASE upgraded \in {"no", "yes"}
    BY <1>2, <1>3, <2>2 DEF MessagesIntact, ParserInv, Flow
  <2> QED
    BY <2>1, <2>2 DEF ParserInv, ParserTypeOK
<1>5. NothingHeldBack
  <2>1. SUFFICES ASSUME upgraded = "yes", pipe = <<>>
                 PROVE  emitted = written /\ parser = [order |-> FrameType, frameData |-> <<>>]
    BY DEF NothingHeldBack
  <2>2. Now = Done
    BY <2>1, ParseNothing DEF ParserInv, Flow
  <2>3. parser = [order |-> parser.order, frameData |-> parser.frameData]
    BY DEF ParserInv, ParserTypeOK
  <2> QED
    BY <2>2, <2>3 DEF Now, Done, State
<1> QED
  BY <1>4, <1>5

LEMMA ParserInvAlways ==
    ASSUME HighFramesSkipped
    PROVE  ParserSpec => []ParserInv
BY ParserInitInv, ParserStep, PTL DEF ParserSpec

\* However the stream is cut into pieces, the messages emitted are the texts that were
\* sent, whole, in order, none of them twice (connection.js:413-437): for all texts, any
\* key3 and any number of frames, among them such of other types that the parser passes over.
THEOREM MessagesIntactEver ==
    ASSUME HighFramesSkipped
    PROVE  ParserSpec => []MessagesIntact
BY ParserInvAlways, ParserInvShows, PTL

\* When all that was sent has arrived, no text is held back and the parser waits for
\* a frame.
THEOREM NothingHeldBackEver ==
    ASSUME HighFramesSkipped
    PROVE  ParserSpec => []NothingHeldBack
BY ParserInvAlways, ParserInvShows, PTL
=============================================================================
