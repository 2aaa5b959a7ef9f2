------------------------- MODULE ManagerSpec_proof -------------------------
(***************************************************************************)
(* Proofs about the connection manager under every use of it.  When all    *)
(* the ports are written with the same number of digits, no two ids        *)
(* collide; and when no two ids collide, the list always holds exactly the *)
(* attached connections.                                                   *)
(***************************************************************************)
EXTENDS ManagerSpec, WsManager_proof, SequenceTheorems

\* No id that can still be made is in use.
FreshIds ==
    \A c \in Created, port \in Port, n \in counter .. MaxCounter :
        id[c] # Decimal(port) \o Decimal(n)

IdInv == phase \in [Conn -> Phases] /\ IdTypeOK /\ UniqueIds /\ FreshIds

ListInv == \E s : IsList(s) /\ Elems(s) = Registered

IInv == IdInv /\ ListInv

-----------------------------------------------------------------------------
\* The uniqueness of the ids in use and that of those still to come are
\* inductive together: createId never repeats an id (manager.js:39-41).
LEMMA IdInvInit == Init => IdInv
BY CounterAssumption
   DEF Init, ManagerInit, IdInv, IdTypeOK, UniqueIds, IdsDistinct, FreshIds,
       Phases, Created

LEMMA IdInvCreate ==
    ASSUME SameWidthPorts, IdInv, NEW c \in Conn, Create(c)
    PROVE  IdInv'
<1> USE DEF IdInv
<1>1. PICK port \in Port : CreateId(c, port)
  BY DEF Create
<1>2. /\ counter \in Counters /\ counter' = counter + 1
      /\ id' = [id EXCEPT ![c] = MakeId(port)]
      /\ phase' = [phase EXCEPT ![c] = "opening"]
  BY <1>1, CounterAssumption DEF Create, CreateId, Counters, IdTypeOK
<1>3. MakeId(port) \in Seq(0 .. 9)
  <2>1. Decimal(port) \in Seq(0 .. 9) /\ Decimal(counter) \in Seq(0 .. 9)
    BY <1>2, DecimalAssumption
  <2> QED
    BY <2>1 DEF MakeId
<1>4. phase' \in [Conn -> Phases] /\ IdTypeOK'
  BY <1>2, <1>3, CounterAssumption DEF IdTypeOK, Counters, Phases
<1>5. \A d \in Created : id[d] # MakeId(port)
  BY <1>2, CounterAssumption DEF FreshIds, MakeId, Counters
<1>6. Created' = Created \cup {c} /\ c \notin Created
  BY <1>2 DEF Created, Create
<1>7. UniqueIds'
  BY <1>2, <1>5, <1>6 DEF UniqueIds, IdsDistinct, IdTypeOK, Created
<1>8. ASSUME NEW p \in Port, NEW n \in counter' .. MaxCounter
      PROVE  MakeId(port) # Decimal(p) \o Decimal(n)
  <2>1. n \in Counters /\ n # counter
    BY <1>2, CounterAssumption DEF Counters
  <2> QED
    BY <2>1, <1>2, IdsDiffer DEF MakeId
<1>9. FreshIds'
  <2> SUFFICES ASSUME NEW d \in Created',
                      NEW p \in Port, NEW n \in counter' .. MaxCounter
               PROVE  id'[d] # Decimal(p) \o Decimal(n)
    BY DEF FreshIds
  <2>1. n \in counter .. MaxCounter
    BY <1>2, CounterAssumption DEF Counters
  <2> QED
    BY <1>2, <1>6, <1>8, <2>1 DEF FreshIds, IdTypeOK, Created
<1> QED
  BY <1>4, <1>7, <1>9

LEMMA IdInvKept ==
    ASSUME IdInv, UNCHANGED idVars, NEW c \in Conn, NEW p \in Phases, p # "new",
           phase[c] # "new", phase' = [phase EXCEPT ![c] = p]
    PROVE  IdInv'
<1>1. Created' = Created
  BY DEF IdInv, Created
<1> QED
  BY <1>1 DEF IdInv, IdTypeOK, UniqueIds, IdsDistinct, FreshIds, idVars

LEMMA IdInvNext ==
    ASSUME SameWidthPorts, IdInv, [Next]_vars
    PROVE  IdInv'
<1>1. ASSUME NEW c \in Conn, Create(c)
      PROVE  IdInv'
  BY <1>1, IdInvCreate
<1>2. ASSUME NEW c \in Conn, Attach(c) \/ Detach(c)
      PROVE  IdInv'
  BY <1>2, IdInvKept DEF Attach, Detach, Phases
<1>3. ASSUME UNCHANGED vars
      PROVE  IdInv'
  BY <1>3 DEF vars, IdInv, IdTypeOK, UniqueIds, IdsDistinct, FreshIds, Created
<1> QED
  BY <1>1, <1>2, <1>3 DEF Next

-----------------------------------------------------------------------------
\* The list is the attached connections, in every step of every connection.
LEMMA ListInvInit == Init => ListInv
<1> SUFFICES ASSUME Init
             PROVE  ListInv
  OBVIOUS
<1>1. PICK s : s = [i \in 1 .. 0 |-> Null]
  OBVIOUS
<1>2. IsList(s)
  BY <1>1 DEF Init, ManagerInit, IsList
<1>3. Elems(s) = {} /\ Registered = {}
  BY <1>1 DEF Init, Elems, Registered
<1> QED
  BY <1>2, <1>3 DEF ListInv

LEMMA ListInvNext ==
    ASSUME IdInv, ListInv, [Next]_vars
    PROVE  ListInv'
<1>1. PICK s : IsList(s) /\ Elems(s) = Registered
  BY DEF ListInv
<1>2. phase \in [Conn -> Phases]
  BY DEF IdInv
<1>3. ASSUME NEW c \in Conn, Create(c)
      PROVE  ListInv'
  <2>1. IsList(s)'
    BY <1>1, <1>3 DEF IsList, Create, listVars
  <2>2. Registered' = Registered
    BY <1>2, <1>3 DEF Create, Registered
  <2> QED
    BY <1>1, <2>1, <2>2 DEF ListInv
<1>4. ASSUME NEW c \in Conn, Attach(c)
      PROVE  ListInv'
  <2>1. c \notin Elems(s)
    BY <1>1, <1>4 DEF Attach, Registered
  <2>2. PICK t : IsList(t)' /\ Elems(t) = Elems(s) \cup {c}
    BY <1>1, <1>4, <2>1, AttachExtendsList DEF Attach
  <2>3. Registered' = Registered \cup {c}
    BY <1>2, <1>4 DEF Attach, Registered
  <2> QED
    BY <1>1, <2>2, <2>3 DEF ListInv
<1>5. ASSUME NEW c \in Conn, Detach(c)
      PROVE  ListInv'
  <2>1. \A d \in Elems(s) : id[d] = id[c] <=> d = c
    BY <1>1, <1>5 DEF Detach, Registered, Created, IdInv, UniqueIds, IdsDistinct
  <2>2. PICK t : IsList(t)' /\ Elems(t) = Elems(s) \ {c}
    BY <1>1, <1>5, <2>1, DetachShrinksList DEF Detach
  <2>3. Registered' = Registered \ {c}
    BY <1>2, <1>5 DEF Detach, Registered
  <2> QED
    BY <1>1, <2>2, <2>3 DEF ListInv
<1>6. ASSUME UNCHANGED vars
      PROVE  ListInv'
  <2>1. IsList(s)' /\ Registered' = Registered
    BY <1>1, <1>6 DEF vars, IsList, Registered
  <2> QED
    BY <1>1, <2>1 DEF ListInv
<1> QED
  BY <1>3, <1>4, <1>5, <1>6 DEF Next

-----------------------------------------------------------------------------
LEMMA IInvInit == Init => IInv
BY IdInvInit, ListInvInit DEF IInv

LEMMA IInvNext == SameWidthPorts /\ IInv /\ [Next]_vars => IInv'
BY IdInvNext, ListInvNext DEF IInv

LEMMA IInvImplies == IInv => TypeOK /\ UniqueIds /\ RegistryExact
<1> SUFFICES ASSUME IInv
             PROVE  TypeOK /\ UniqueIds /\ RegistryExact
  OBVIOUS
<1>1. PICK s : IsList(s) /\ Elems(s) = Registered
  BY DEF IInv, ListInv
<1>2. ListHolds(Registered) /\ ListTypeOK
  BY <1>1, ListHoldsElems
<1> QED
  BY <1>2 DEF IInv, IdInv, TypeOK, RegistryExact

\* createId never makes an id that is in use (manager.js:39-41), whatever the
\* ports of one width and the order in which connections come and go.
THEOREM IdsAreUnique == SameWidthPorts => (Spec => []UniqueIds)
<1> SUFFICES ASSUME SameWidthPorts
             PROVE  Spec => []UniqueIds
  OBVIOUS
<1>1. IInv /\ [Next]_vars => IInv'
  BY IInvNext
<1> QED
  BY IInvInit, <1>1, IInvImplies, PTL DEF Spec

\* Whatever the order in which connections open, attach and close, and however
\* often one detaches, the list that broadcasts walk holds exactly the attached
\* connections (manager.js:47-122), provided that no two ids can collide.
THEOREM RegistryIsExact == SameWidthPorts => (Spec => [](TypeOK /\ RegistryExact))
<1> SUFFICES ASSUME SameWidthPorts
             PROVE  Spec => [](TypeOK /\ RegistryExact)
  OBVIOUS
<1>1. IInv /\ [Next]_vars => IInv'
  BY IInvNext
<1> QED
  BY IInvInit, <1>1, IInvImplies, PTL DEF Spec

-----------------------------------------------------------------------------
(* The manager implements the registry. *)

\* Any list there is, is the one that the mapping chooses.
LEMMA ClientsAre == \A s : IsList(s) => Clients = s
<1> SUFFICES ASSUME NEW s, IsList(s) PROVE Clients = s
  OBVIOUS
<1>1. s \in Lists
  BY DEF Lists, IsList
<1>2. Clients \in Lists
  BY <1>1 DEF Clients
<1> QED
  BY <1>2, ListUnique DEF Lists

LEMMA ClientsAreThen == (\A s : IsList(s) => Clients = s)'
BY ClientsAre, PTL

\* What the clients of the registry are, in terms of the list.
LEMMA RegistryIsList ==
    ASSUME NEW s, IsList(s), Elems(s) = Registered
    PROVE  /\ Clients = s /\ s \in Seq(Conn) /\ Len(s) = length /\ DOMAIN s = 1 .. length
           /\ Registry!Attached = Registered
<1>1. Clients = s
  BY ClientsAre
<1>2. length \in Nat /\ s \in [1 .. length -> Conn] /\ DOMAIN s = 1 .. length
  BY DEF IsList
<1>3. s \in Seq(Conn) /\ Len(s) = length
  BY <1>2
<1>4. Registry!Attached = Elems(s)
  BY <1>1 DEF Registry!Attached, Elems
<1> QED
  BY <1>1, <1>2, <1>3, <1>4

\* The new manager is an empty registry.
LEMMA RegistryStarts == Init => Registry!Init
<1> SUFFICES ASSUME Init PROVE Registry!Init
  OBVIOUS
<1>1. PICK s : s = [i \in 1 .. 0 |-> Null]
  OBVIOUS
<1>2. IsList(s) /\ s = <<>>
  BY <1>1 DEF Init, ManagerInit, IsList
<1>3. Detached = {}
  BY DEF Init, Detached
<1> QED
  BY <1>2, <1>3, ClientsAre DEF Registry!Init

\* Each step of the manager is a step of the registry or none.
LEMMA RegistrySteps ==
    ASSUME SameWidthPorts, IInv, [Next]_vars
    PROVE  [Registry!Next]_(Registry!registryVars)
<1>1. PICK s : IsList(s) /\ Elems(s) = Registered
  BY DEF IInv, ListInv
<1>2. phase \in [Conn -> Phases]
  BY DEF IInv, IdInv
<1>3. /\ Clients = s /\ s \in Seq(Conn) /\ Len(s) = length /\ DOMAIN s = 1 .. length
      /\ Registry!Attached = Registered
  BY <1>1, RegistryIsList
<1>4. ASSUME IsList(s)', Detached' = Detached PROVE UNCHANGED Registry!registryVars
  <2>1. Clients' = s
    BY <1>4, ClientsAreThen
  <2> QED
    BY <2>1, <1>3, <1>4 DEF Registry!registryVars
<1>5. ASSUME NEW c \in Conn, Create(c) PROVE UNCHANGED Registry!registryVars
  <2>1. IsList(s)'
    BY <1>1, <1>5 DEF IsList, Create, listVars
  <2>2. Detached' = Detached
    BY <1>2, <1>5 DEF Create, Detached
  <2> QED
    BY <1>4, <2>1, <2>2
<1>6. ASSUME UNCHANGED vars PROVE UNCHANGED Registry!registryVars
  <2>1. IsList(s)' /\ Detached' = Detached
    BY <1>1, <1>6 DEF vars, IsList, Detached
  <2> QED
    BY <1>4, <2>1
<1>7. ASSUME NEW c \in Conn, Attach(c) PROVE Registry!Attach(c)
  <2>1. c \notin Elems(s)
    BY <1>1, <1>7 DEF Attach, Registered
  <2>2. PICK t : /\ IsList(t)'
                 /\ t = [i \in 1 .. length + 1 |-> IF i = length + 1 THEN c ELSE s[i]]
    BY <1>1, <1>7, <2>1, AttachExtendsList DEF Attach
  <2>3. t = Append(s, c)
    <3>1. /\ Append(s, c) \in Seq(Conn) /\ Len(Append(s, c)) = length + 1
          /\ \A i \in 1 .. length + 1 :
                Append(s, c)[i] = IF i = length + 1 THEN c ELSE s[i]
      BY <1>3
    <3>2. length \in Nat /\ s \in [1 .. length -> Conn]
      BY <1>1 DEF IsList
    <3>3. t \in [1 .. length + 1 -> Conn]
      BY <3>2, <2>2
    <3>4. t \in Seq(Conn) /\ Len(t) = length + 1
      BY <3>2, <3>3
    <3> QED
      BY <3>1, <3>2, <3>4, <2>2, SeqEqual
  <2>4. Clients' = t
    BY <2>2, ClientsAreThen
  <2>5. Detached' = Detached /\ c \notin Registered \cup Detached
    BY <1>2, <1>7 DEF Attach, Detached, Registered
  <2> QED
    BY <1>3, <2>3, <2>4, <2>5 DEF Registry!Attach
<1>8. ASSUME NEW c \in Conn, Detach(c) PROVE Registry!Detach(c)
  <2>1. \A d \in Elems(s) : id[d] = id[c] <=> d = c
    BY <1>1, <1>8 DEF Detach, Registered, Created, IInv, IdInv, UniqueIds, IdsDistinct
  <2>2. PICK t : /\ IsList(t)'
                 /\ IF c \in Elems(s) THEN \E k \in 1 .. length : s[k] = c /\ t = Shorter(s, k)
                    ELSE t = s
    BY <1>1, <1>8, <2>1, DetachShrinksList DEF Detach
  <2>3. Clients' = t
    BY <2>2, ClientsAreThen
  <2>4. Detached' = Detached \cup {c}
    BY <1>2, <1>8 DEF Detach, Detached
  <2>5. \A k \in 1 .. length : Registry!Without(k) = Shorter(s, k)
    BY <1>3 DEF Registry!Without, Shorter
  <2> QED
    BY <1>1, <1>3, <2>2, <2>3, <2>4, <2>5 DEF Registry!Detach
<1> QED
  BY <1>5, <1>6, <1>7, <1>8 DEF Next, Registry!Next

\* Whatever connections do, if the ports have one width, the linked list behaves as
\* the sequence of the attached clients: a client comes in at its end, one goes out
\* wherever it is, and nothing else ever happens to it (manager.js:47-113).
THEOREM ManagerIsRegistry == SameWidthPorts => (Spec => ImplementsRegistry)
<1> SUFFICES ASSUME SameWidthPorts
             PROVE  Spec => Registry!Spec
  BY DEF ImplementsRegistry
<1>1. IInv /\ [Next]_vars => IInv'
  BY IInvNext
<1>2. IInv /\ [Next]_vars => [Registry!Next]_(Registry!registryVars)
  BY RegistrySteps
<1> QED
  BY IInvInit, RegistryStarts, <1>1, <1>2, PTL DEF Spec, Registry!Spec
=============================================================================
