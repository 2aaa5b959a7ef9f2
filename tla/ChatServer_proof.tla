-------------------------- MODULE ChatServer_proof --------------------------
(***************************************************************************)
(* Proofs about the chat server, for any number of connections and         *)
(* whatever the order of handshakes, messages, ends and errors.  If all    *)
(* ports are written with the same number of digits, the manager lists the *)
(* connected ones, the application is told of each connection and of its   *)
(* end once, and everyone hears what the others say.  With any ports at    *)
(* all, nobody hears anything out of order, and walks of the list end.     *)
(* They rest on what WsManager_proof shows of the list.                    *)
(***************************************************************************)
EXTENDS ChatServer, WsManager_proof

\* The connections that the server has made, each with an id.
Made == {c \in Conn : state[c] # Unknown}

\* No id that can still be made is in use.
FreshIds ==
    \A c \in Made, port \in Port, n \in counter .. MaxCounter :
        id[c] # Decimal(port) \o Decimal(n)

IdInv == IdTypeOK /\ IdsDistinct(Made) /\ FreshIds

\* The list is the connected ones.
ListInv == \E s : IsList(s) /\ Elems(s) = ConnectedConns

ConnTypeOK ==
    /\ state \in [Conn -> {Unknown, Connected, Closed}]
    /\ rejected \in [Conn -> Reasons]
    /\ sock \in [Conn -> Sockets]
    /\ errDue \in [Conn -> BOOLEAN]
    /\ opens \in [Conn -> Nat] /\ leaves \in [Conn -> Nat]

\* How far a connection is and what has been told of it.
Told(c) ==
    /\ state[c] = Unknown => /\ sock[c] \in {"none", "unserved"} /\ ~ errDue[c]
                             /\ opens[c] = 0 /\ leaves[c] = 0 /\ rejected[c] = ""
                             /\ heard[c] = <<>>
    /\ state[c] = Connected => /\ opens[c] = 1 /\ leaves[c] = 0 /\ rejected[c] = ""
                               /\ (sock[c] = "open" \/ (sock[c] = "dead" /\ errDue[c]))
    /\ state[c] = Closed => /\ sock[c] = "dead" /\ leaves[c] = opens[c] /\ opens[c] <= 1
                            /\ (rejected[c] # "" => opens[c] = 0 /\ heard[c] = <<>>)

TellInv == ConnTypeOK /\ \A c \in Conn : Told(c)

ChatInv == IdInv /\ ListInv /\ TellInv

LEMMA StatesDiffer == Unknown # Connected /\ Unknown # Closed /\ Connected # Closed
BY DEF Unknown, Connected, Closed

-----------------------------------------------------------------------------
(* What the parts of a handler do. *)

\* A broadcast reaches its audience only; of that, some sockets may break, each with an
\* error to come.
LEMMA DeliverBreaks ==
    ASSUME NEW audience, NEW ms, NEW sk \in [Conn -> Sockets], NEW er \in [Conn -> BOOLEAN],
           Deliver(audience, ms, sk, er)
    PROVE  /\ \A d \in Conn \ audience : heard'[d] = heard[d]
           /\ sock' \in [Conn -> Sockets] /\ errDue' \in [Conn -> BOOLEAN]
           /\ \A d \in Conn : sock'[d] = sk[d] \/ (d \in audience /\ sock'[d] = "dead" /\ errDue'[d])
           /\ \A d \in Conn : (errDue'[d] <=> er[d]) \/ (d \in audience /\ errDue'[d])
<1>1. PICK cut \in [{d \in audience : sk[d] = "open"} -> 0 .. Len(ms)] :
        LET broken == {d \in DOMAIN cut : cut[d] < Len(ms)}
        IN  /\ heard' = [d \in Conn |->
                           IF d \in DOMAIN cut THEN heard[d] \o SubSeq(ms, 1, cut[d])
                           ELSE heard[d]]
            /\ sock' = [d \in Conn |-> IF d \in broken THEN "dead" ELSE sk[d]]
            /\ errDue' = [d \in Conn |-> d \in broken \/ er[d]]
  BY DEF Deliver
<1> DEFINE broken == {d \in DOMAIN cut : cut[d] < Len(ms)}
<1>2. DOMAIN cut \subseteq audience /\ broken \subseteq audience
  OBVIOUS
<1>3. /\ sock' = [d \in Conn |-> IF d \in broken THEN "dead" ELSE sk[d]]
      /\ errDue' = [d \in Conn |-> d \in broken \/ er[d]]
  BY <1>1
<1>4. \A d \in Conn \ audience : heard'[d] = heard[d]
  BY <1>1, <1>2
<1> HIDE DEF broken
<1>5. sock' \in [Conn -> Sockets] /\ errDue' \in [Conn -> BOOLEAN]
  BY <1>3 DEF Sockets
<1>6. \A d \in Conn : sock'[d] = sk[d] \/ (d \in audience /\ sock'[d] = "dead" /\ errDue'[d])
  BY <1>2, <1>3
<1>7. \A d \in Conn : (errDue'[d] <=> er[d]) \/ (d \in audience /\ errDue'[d])
  BY <1>2, <1>3
<1> QED
  BY <1>4, <1>5, <1>6, <1>7

\* A broadcast of nothing changes nothing.
LEMMA DeliverNothing ==
    ASSUME NEW audience, NEW sk \in [Conn -> Sockets], NEW er \in [Conn -> BOOLEAN],
           Deliver(audience, <<>>, sk, er)
    PROVE  sock' = sk /\ errDue' = er
<1>1. PICK cut \in [{d \in audience : sk[d] = "open"} -> 0 .. Len(<<>>)] :
        LET broken == {d \in DOMAIN cut : cut[d] < Len(<<>>)}
        IN  /\ sock' = [d \in Conn |-> IF d \in broken THEN "dead" ELSE sk[d]]
            /\ errDue' = [d \in Conn |-> d \in broken \/ er[d]]
  BY DEF Deliver
<1>2. {d \in DOMAIN cut : cut[d] < Len(<<>>)} = {}
  OBVIOUS
<1>3. /\ sock' = [d \in Conn |-> IF d \in {} THEN "dead" ELSE sk[d]]
      /\ errDue' = [d \in Conn |-> d \in {} \/ er[d]]
  BY <1>1, <1>2
<1> QED
  BY <1>3

\* detach finds a connection that is in the list under an id that no other there has.
LEMMA FoundIsListed ==
    ASSUME NEW s, IsList(s), NEW c \in Conn, NEW w, \A d \in Elems(s) : id[d] = w <=> d = c
    PROVE  Found(w) # {} <=> c \in Elems(s)
<1>1. DOMAIN s = 1 .. length /\ length \in Nat /\ Elems(s) \subseteq Conn
  BY DEF IsList, Elems
<1>2. Visited(w) \subseteq Elems(s)
  BY WalkStaysInList DEF Visited
<1>3. ASSUME c \in Elems(s) PROVE c \in Found(w)
  <2>1. PICK k \in 1 .. length : s[k] = c
    BY <1>1, <1>3 DEF Elems
  <2>2. \A j \in 1 .. length : j < k => s[j] \in {d \in Conn : id[d] # w}
    BY <2>1, <1>1 DEF IsList, Elems
  <2>3. c \in Visited(w)
    BY <2>1, <2>2, WalkReaches DEF Visited
  <2> QED
    BY <2>3, <1>3 DEF Found
<1> QED
  BY <1>2, <1>3 DEF Found

\* Closing makes the connection closed and its socket dead, and tells of its end if it was
\* connected; what others hear and their sockets stay as they are.
OnlyEnds(c, sk, er) ==
    /\ state' \in [Conn -> {Unknown, Connected, Closed}]
    /\ state'[c] = Closed /\ \A d \in Conn \ {c} : state'[d] = state[d]
    /\ leaves' = IF c \in ConnectedConns THEN [leaves EXCEPT ![c] = @ + 1] ELSE leaves
    /\ sock' \in [Conn -> Sockets]
    /\ sock'[c] = "dead" /\ \A d \in Conn \ {c} : sock'[d] = sk[d]
    /\ errDue' \in [Conn -> BOOLEAN] /\ \A d \in Conn \ {c} : (errDue'[d] <=> er[d])
    /\ \A d \in Conn : state'[d] # Connected => heard'[d] = heard[d]

\* Closing does just that, and takes the connection out of the list if it was there.
LEMMA CloseEnds ==
    ASSUME ListInv, ConnTypeOK,
           NEW c \in Conn, NEW w, NEW sk \in [Conn -> Sockets], NEW er \in [Conn -> BOOLEAN],
           \A d \in ConnectedConns : id[d] = w <=> d = c,
           Close(c, w, sk, er)
    PROVE  ListInv' /\ OnlyEnds(c, sk, er)
<1>1. PICK s : IsList(s) /\ Elems(s) = ConnectedConns
  BY DEF ListInv
<1>2. /\ state' = [state EXCEPT ![c] = Closed] /\ DetachNode(w)
      /\ leaves' = IF Found(w) = {} THEN leaves ELSE [leaves EXCEPT ![c] = @ + 1]
  BY DEF Close
<1>3. Found(w) # {} <=> c \in ConnectedConns
  BY <1>1, FoundIsListed
<1>4. PICK failed \in BOOLEAN :
        Deliver(Audience', <<>>, Ended(c, sk), ErrorsAfter(c, sk, er, failed))
  BY DEF Close, DetachEvent, ServerListeners
<1>5. /\ Ended(c, sk) \in [Conn -> Sockets] /\ Ended(c, sk) = [sk EXCEPT ![c] = "dead"]
      /\ ErrorsAfter(c, sk, er, failed) \in [Conn -> BOOLEAN]
      /\ \A d \in Conn \ {c} : (ErrorsAfter(c, sk, er, failed)[d] <=> er[d])
  BY DEF Ended, ErrorsAfter, Sockets
<1>6. sock' = Ended(c, sk) /\ errDue' = ErrorsAfter(c, sk, er, failed)
  BY <1>4, <1>5, DeliverNothing
<1>7. \A d \in Conn \ Audience' : heard'[d] = heard[d]
  BY <1>4, <1>5, DeliverBreaks
<1>8. \A d \in Conn : state'[d] # Connected => d \notin Audience'
  BY DEF Audience
<1>9. ListInv'
  <2>1. PICK t : IsList(t)' /\ Elems(t) = Elems(s) \ {c}
    BY <1>1, <1>2, DetachShrinksList
  <2>2. ConnectedConns' = ConnectedConns \ {c}
    BY <1>2, StatesDiffer DEF ConnectedConns, ConnTypeOK
  <2> QED
    BY <1>1, <2>1, <2>2 DEF ListInv
<1>10. /\ state' \in [Conn -> {Unknown, Connected, Closed}]
       /\ state'[c] = Closed /\ \A d \in Conn \ {c} : state'[d] = state[d]
  BY <1>2 DEF ConnTypeOK
<1>11. /\ sock' \in [Conn -> Sockets]
       /\ sock'[c] = "dead" /\ \A d \in Conn \ {c} : sock'[d] = sk[d]
  BY <1>5, <1>6
<1> QED
  BY <1>2, <1>3, <1>5, <1>6, <1>7, <1>8, <1>9, <1>10, <1>11 DEF OnlyEnds

-----------------------------------------------------------------------------
(* The ids. *)

LEMMA IdsStart == ChatInit => IdInv
<1> SUFFICES ASSUME ChatInit PROVE IdInv
  OBVIOUS
<1>1. id = [c \in Conn |-> <<>>] /\ counter = 0 /\ state = [c \in Conn |-> Unknown]
  BY DEF ChatInit, ManagerInit
<1>2. Made = {}
  BY <1>1 DEF Made
<1>3. IdTypeOK
  BY <1>1, CounterAssumption DEF IdTypeOK
<1> QED
  BY <1>2, <1>3 DEF IdInv, IdsDistinct, FreshIds

\* A connection that is made gets an id of its own, and leaves later ones free.
LEMMA IdsMade ==
    ASSUME SameWidthPorts, IdInv, NEW c \in Conn, state[c] = Unknown, NEW port \in Port,
           CreateId(c, port), Made' = Made \cup {c}
    PROVE  IdInv' /\ \A d \in Made : id[d] # MakeId(port)
<1>1. /\ counter \in Counters /\ counter' = counter + 1
      /\ id' = [id EXCEPT ![c] = MakeId(port)] /\ c \notin Made
  BY CounterAssumption DEF IdInv, CreateId, Counters, IdTypeOK, Made
<1>2. MakeId(port) \in Seq(0 .. 9)
  <2>1. Decimal(port) \in Seq(0 .. 9) /\ Decimal(counter) \in Seq(0 .. 9)
    BY <1>1, DecimalAssumption
  <2> QED
    BY <2>1 DEF MakeId
<1>3. IdTypeOK'
  BY <1>1, <1>2, CounterAssumption DEF IdInv, IdTypeOK, Counters
<1>4. \A d \in Made : id[d] # MakeId(port)
  BY <1>1, CounterAssumption DEF IdInv, FreshIds, MakeId, Counters
<1>5. IdsDistinct(Made)'
  <2> SUFFICES ASSUME NEW a \in Made', NEW b \in Made', a # b PROVE id'[a] # id'[b]
    BY DEF IdsDistinct
  <2> QED
    BY <1>1, <1>4 DEF IdInv, IdsDistinct, IdTypeOK, Made
<1>6. FreshIds'
  <2> SUFFICES ASSUME NEW d \in Made', NEW p \in Port, NEW n \in counter' .. MaxCounter
               PROVE  id'[d] # Decimal(p) \o Decimal(n)
    BY DEF FreshIds
  <2>1. n \in Counters /\ n # counter /\ n \in counter .. MaxCounter
    BY <1>1, CounterAssumption DEF Counters
  <2>2. MakeId(port) # Decimal(p) \o Decimal(n)
    BY <2>1, <1>1, IdsDiffer DEF MakeId
  <2> QED
    BY <1>1, <2>1, <2>2 DEF IdInv, FreshIds, IdTypeOK, Made
<1> QED
  BY <1>3, <1>4, <1>5, <1>6 DEF IdInv

LEMMA IdsKept == ASSUME IdInv, UNCHANGED idVars, Made' = Made PROVE IdInv'
BY DEF IdInv, IdTypeOK, IdsDistinct, FreshIds, idVars

-----------------------------------------------------------------------------
(* The handlers. *)

LEMMA ChatStarts == ChatInit => ChatInv
<1> SUFFICES ASSUME ChatInit PROVE ChatInv
  OBVIOUS
<1>1. ListInv
  <2>1. PICK s : s = [i \in 1 .. 0 |-> Null]
    OBVIOUS
  <2>2. /\ head = Null /\ tail = Null /\ length = 0
        /\ nxt = [c \in Conn |-> Null] /\ state = [c \in Conn |-> Unknown]
    BY DEF ChatInit, ManagerInit
  <2>3. IsList(s)
    BY <2>1, <2>2 DEF IsList
  <2>4. Elems(s) = {} /\ ConnectedConns = {}
    BY <2>1, <2>2, StatesDiffer DEF Elems, ConnectedConns
  <2> QED
    BY <2>3, <2>4 DEF ListInv
<1>2. TellInv
  <2>1. /\ state = [c \in Conn |-> Unknown] /\ rejected = [c \in Conn |-> ""]
        /\ sock = [c \in Conn |-> "none"] /\ errDue = [c \in Conn |-> FALSE]
        /\ heard = [c \in Conn |-> <<>>]
        /\ opens = [c \in Conn |-> 0] /\ leaves = [c \in Conn |-> 0]
    BY DEF ChatInit
  <2>2. ConnTypeOK
    BY <2>1 DEF ConnTypeOK, Reasons, Sockets
  <2>3. \A c \in Conn : Told(c)
    BY <2>1, StatesDiffer DEF Told
  <2> QED
    BY <2>1, <2>2, <2>3 DEF TellInv
<1> QED
  BY <1>1, <1>2, IdsStart DEF ChatInv

\* A handshake that succeeds.
LEMMA AcceptTells ==
    ASSUME ChatInv, NEW c \in Conn, sock[c] = "none", NEW r \in Requests, Accept(c, r)
    PROVE  ListInv' /\ TellInv' /\ Made' = Made \cup {c}
<1>1. ConnTypeOK /\ \A d \in Conn : Told(d)
  BY DEF ChatInv, TellInv
<1>2. state[c] = Unknown
  BY <1>1 DEF Told, ConnTypeOK
<1>3. /\ state' = [state EXCEPT ![c] = Connected] /\ AttachNode(c)
      /\ opens' = [opens EXCEPT ![c] = @ + 1]
      /\ UNCHANGED <<rejected, leaves>>
  BY DEF Accept
<1>4. ListInv'
  <2>1. PICK s : IsList(s) /\ Elems(s) = ConnectedConns
    BY DEF ChatInv, ListInv
  <2>2. c \notin Elems(s)
    BY <2>1, <1>2, StatesDiffer DEF ConnectedConns
  <2>3. PICK t : IsList(t)' /\ Elems(t) = Elems(s) \cup {c}
    BY <2>1, <2>2, <1>3, AttachExtendsList
  <2>4. ConnectedConns' = ConnectedConns \cup {c}
    BY <1>1, <1>3 DEF ConnectedConns, ConnTypeOK
  <2> QED
    BY <2>1, <2>3, <2>4 DEF ListInv
<1>5. PICK n \in 0 .. MaxMessages, written \in BOOLEAN :
        Deliver(Hearers(c)', <<[from |-> c, what |-> Joined]>> \o Messages(c, n),
                [sock EXCEPT ![c] = IF written THEN "open" ELSE "dead"],
                [errDue EXCEPT ![c] = ~ written])
  BY DEF Accept
<1> DEFINE sk == [sock EXCEPT ![c] = IF written THEN "open" ELSE "dead"]
           er == [errDue EXCEPT ![c] = ~ written]
<1>6. sk \in [Conn -> Sockets] /\ er \in [Conn -> BOOLEAN]
  BY <1>1 DEF ConnTypeOK, Sockets
<1>7. /\ \A d \in Conn \ Hearers(c)' : heard'[d] = heard[d]
      /\ sock' \in [Conn -> Sockets] /\ errDue' \in [Conn -> BOOLEAN]
      /\ \A d \in Conn : sock'[d] = sk[d] \/ (d \in Hearers(c)' /\ sock'[d] = "dead" /\ errDue'[d])
      /\ \A d \in Conn : (errDue'[d] <=> er[d]) \/ (d \in Hearers(c)' /\ errDue'[d])
  <2> HIDE DEF sk, er
  <2>1. Deliver(Hearers(c)', <<[from |-> c, what |-> Joined]>> \o Messages(c, n), sk, er)
    BY <1>5 DEF sk, er
  <2> QED
    BY <2>1, <1>6, DeliverBreaks
<1>8. \A d \in Hearers(c)' : state'[d] = Connected
  BY DEF Hearers, Audience
<1>9. ConnTypeOK'
  <2>1. state' \in [Conn -> {Unknown, Connected, Closed}]
    BY <1>1, <1>3 DEF ConnTypeOK
  <2>2. opens' \in [Conn -> Nat] /\ leaves' \in [Conn -> Nat] /\ rejected' \in [Conn -> Reasons]
    BY <1>1, <1>3 DEF ConnTypeOK
  <2> QED
    BY <1>7, <2>1, <2>2 DEF ConnTypeOK
<1>10. ASSUME NEW d \in Conn PROVE Told(d)'
  <2>1. CASE d = c
    <3> HIDE DEF sk, er
    <3>0. opens[d] = 0 /\ leaves[d] = 0 /\ rejected[d] = ""
      BY <2>1, <1>1, <1>2 DEF Told
    <3>1. /\ state'[d] = Connected /\ leaves'[d] = 0 /\ rejected'[d] = ""
          /\ opens' = [opens EXCEPT ![c] = @ + 1] /\ opens \in [Conn -> Nat]
      BY <2>1, <3>0, <1>1, <1>3 DEF ConnTypeOK
    <3>2. opens[c] = 0
      BY <2>1, <3>0
    <3>3. opens'[d] = 1
      <4>1. opens' = [opens EXCEPT ![c] = @ + 1] /\ opens \in [Conn -> Nat]
        BY <3>1
      <4> QED
        BY <2>1, <3>2, <4>1
    <3>4. sock'[d] = "open" \/ (sock'[d] = "dead" /\ errDue'[d])
      <4>1. sk[c] = IF written THEN "open" ELSE "dead"
        BY <1>1 DEF ConnTypeOK, sk
      <4>2. er[c] = ~ written
        BY <1>1 DEF ConnTypeOK, er
      <4> QED
        BY <2>1, <1>7, <4>1, <4>2
    <3> QED
      BY <3>1, <3>3, <3>4, StatesDiffer DEF Told
  <2>2. CASE d # c
    <3>1. /\ state'[d] = state[d] /\ opens'[d] = opens[d] /\ leaves'[d] = leaves[d]
          /\ rejected'[d] = rejected[d] /\ sk[d] = sock[d] /\ (er[d] <=> errDue[d])
      BY <2>2, <1>1, <1>3 DEF ConnTypeOK
    <3> HIDE DEF sk, er
    <3>2. /\ sock'[d] = sock[d] \/ (state[d] = Connected /\ sock'[d] = "dead" /\ errDue'[d])
          /\ (errDue'[d] <=> errDue[d]) \/ (state[d] = Connected /\ errDue'[d])
      BY <1>7, <1>8, <3>1
    <3>3. state[d] # Connected => heard'[d] = heard[d]
      BY <1>7, <1>8, <3>1
    <3>4. Told(d)
      BY <1>1
    <3> QED
      BY <3>1, <3>2, <3>3, <3>4 DEF Told
  <2> QED
    BY <2>1, <2>2
<1>11. Made' = Made \cup {c}
  BY <1>1, <1>3, StatesDiffer DEF Made, ConnTypeOK
<1> QED
  BY <1>4, <1>7, <1>9, <1>10, <1>11 DEF TellInv

\* Any way to close a connection, rejected or not: its end is told if it had been told of.
LEMMA CloseTells ==
    ASSUME ListInv, TellInv, NEW c \in Conn, NEW w,
           NEW sk \in [Conn -> Sockets], NEW er \in [Conn -> BOOLEAN],
           \A d \in Conn \ {c} : sk[d] = sock[d] /\ (er[d] <=> errDue[d]),
           \A d \in ConnectedConns : id[d] = w <=> d = c,
           Close(c, w, sk, er), UNCHANGED opens,
           NEW reason \in Reasons, rejected' = [rejected EXCEPT ![c] = reason],
           reason = rejected[c] \/ state[c] = Unknown
    PROVE  ListInv' /\ TellInv' /\ Made' = Made \cup {c}
<1>1. ConnTypeOK /\ \A d \in Conn : Told(d)
  BY DEF TellInv
<1>2. /\ ListInv'
      /\ state' \in [Conn -> {Unknown, Connected, Closed}]
      /\ state'[c] = Closed /\ \A d \in Conn \ {c} : state'[d] = state[d]
      /\ leaves' = IF c \in ConnectedConns THEN [leaves EXCEPT ![c] = @ + 1] ELSE leaves
      /\ sock' \in [Conn -> Sockets]
      /\ sock'[c] = "dead" /\ \A d \in Conn \ {c} : sock'[d] = sk[d]
      /\ errDue' \in [Conn -> BOOLEAN] /\ \A d \in Conn \ {c} : (errDue'[d] <=> er[d])
      /\ \A d \in Conn : state'[d] # Connected => heard'[d] = heard[d]
  <2>1. ListInv' /\ OnlyEnds(c, sk, er)
    BY <1>1, CloseEnds
  <2> QED
    BY <2>1 DEF OnlyEnds
<1>3. ConnTypeOK'
  BY <1>1, <1>2 DEF ConnTypeOK, Sockets
<1>4. ASSUME NEW d \in Conn PROVE Told(d)'
  <2>1. Told(d)
    BY <1>1
  <2>2. CASE d = c
    <3>1. state'[d] = Closed /\ sock'[d] = "dead" /\ rejected'[d] = reason /\ opens'[d] = opens[d]
      BY <2>2, <1>1, <1>2 DEF ConnTypeOK
    <3>2. leaves'[d] = opens[d] /\ opens[d] <= 1
      <4>1. state[d] \in {Unknown, Connected, Closed} /\ opens[d] \in Nat /\ leaves[d] \in Nat
        BY <1>1 DEF ConnTypeOK
      <4>2. CASE state[d] = Connected
        <5>1. opens[d] = 1 /\ leaves[d] = 0
          BY <2>1, <4>2 DEF Told
        <5>2. leaves' = [leaves EXCEPT ![c] = @ + 1]
          BY <2>2, <4>2, <1>2 DEF ConnectedConns
        <5> QED
          BY <5>1, <5>2, <2>2, <1>1 DEF ConnTypeOK
      <4>3. CASE state[d] # Connected
        <5>1. leaves' = leaves
          BY <2>2, <4>3, <1>2 DEF ConnectedConns
        <5>2. CASE state[d] = Unknown
          <6>1. leaves[d] = 0 /\ opens[d] = 0
            BY <2>1, <5>2 DEF Told
          <6> QED
            BY <6>1, <5>1
        <5>3. CASE state[d] = Closed
          BY <2>1, <5>1, <5>3 DEF Told
        <5> QED
          BY <4>1, <4>3, <5>2, <5>3
      <4> QED
        BY <4>2, <4>3
    <3>3. reason # "" => opens[d] = 0 /\ heard[d] = <<>>
      BY <2>1, <2>2, <1>1 DEF Told, ConnTypeOK
    <3>4. heard'[d] = heard[d]
      BY <3>1, <1>2, StatesDiffer
    <3> QED
      BY <3>1, <3>2, <3>3, <3>4, StatesDiffer DEF Told
  <2>3. CASE d # c
    <3>1. /\ state'[d] = state[d] /\ opens'[d] = opens[d] /\ leaves'[d] = leaves[d]
          /\ rejected'[d] = rejected[d] /\ sock'[d] = sock[d] /\ (errDue'[d] <=> errDue[d])
      BY <2>3, <1>1, <1>2 DEF ConnTypeOK
    <3>2. state[d] # Connected => heard'[d] = heard[d]
      BY <3>1, <1>2
    <3> QED
      BY <2>1, <3>1, <3>2 DEF Told
  <2> QED
    BY <2>2, <2>3
<1>5. Made' = Made \cup {c}
  BY <1>1, <1>2, StatesDiffer DEF Made, ConnTypeOK
<1> QED
  BY <1>2, <1>3, <1>4, <1>5 DEF TellInv

LEMMA UpgradeKeeps == ASSUME SameWidthPorts, ChatInv, NEW c \in Conn, Upgrade(c) PROVE ChatInv'
<1>1. ConnTypeOK /\ \A d \in Conn : Told(d)
  BY DEF ChatInv, TellInv
<1>2. sock[c] = "none" /\ state[c] = Unknown /\ ~ errDue[c]
  BY <1>1 DEF Upgrade, Told, ConnTypeOK
<1>3. PICK r \in Requests, port \in Port :
        /\ CreateId(c, port)
        /\ IF Reason(r) = "" THEN Accept(c, r) ELSE Reject(c, r, MakeId(port))
  BY DEF Upgrade
<1>4. CASE Reason(r) = ""
  <2>1. ListInv' /\ TellInv' /\ Made' = Made \cup {c}
    BY <1>2, <1>3, <1>4, AcceptTells
  <2>2. IdInv'
    BY <2>1, <1>2, <1>3, IdsMade DEF ChatInv
  <2> QED
    BY <2>1, <2>2 DEF ChatInv
<1>5. CASE Reason(r) # ""
  <2> DEFINE sk == [sock EXCEPT ![c] = IF Reason(r) = "version" THEN "dead" ELSE "open"]
  <2>1. /\ rejected' = [rejected EXCEPT ![c] = Reason(r)]
        /\ Close(c, MakeId(port), sk, errDue) /\ UNCHANGED opens
    BY <1>3, <1>5 DEF Reject
  <2>2. Made' = Made \cup {c}
    BY <2>1, <1>1, StatesDiffer DEF Close, Made, ConnTypeOK
  <2>3. IdInv' /\ \A d \in Made : id[d] # MakeId(port)
    BY <2>2, <1>2, <1>3, IdsMade DEF ChatInv
  <2>4. \A d \in ConnectedConns : id[d] = MakeId(port) <=> d = c
    BY <2>3, <1>2, StatesDiffer DEF ConnectedConns, Made
  <2>5. Reason(r) \in Reasons
    BY DEF Reason, Reasons
  <2>6. sk \in [Conn -> Sockets] /\ errDue \in [Conn -> BOOLEAN]
    BY <1>1 DEF ConnTypeOK, Sockets
  <2>7. \A d \in Conn \ {c} : sk[d] = sock[d]
    BY <1>1 DEF ConnTypeOK
  <2> HIDE DEF sk
  <2>8. ListInv' /\ TellInv'
    BY <2>1, <2>4, <2>5, <2>6, <2>7, <1>2, CloseTells DEF ChatInv
  <2> QED
    BY <2>3, <2>8 DEF ChatInv
<1> QED
  BY <1>4, <1>5

\* The end of a stream and an error close a connection that the server has made.
LEMMA EndKeeps ==
    ASSUME ChatInv, NEW c \in Conn, state[c] # Unknown, NEW er \in [Conn -> BOOLEAN],
           \A d \in Conn \ {c} : (er[d] <=> errDue[d]),
           Close(c, id[c], sock, er), UNCHANGED <<idVars, rejected, opens>>
    PROVE  ChatInv'
<1>1. ConnTypeOK /\ IdsDistinct(Made) /\ c \in Made
  BY DEF ChatInv, TellInv, IdInv, Made
<1>2. \A d \in ConnectedConns : id[d] = id[c] <=> d = c
  BY <1>1, StatesDiffer DEF IdsDistinct, ConnectedConns, Made
<1>3. /\ sock \in [Conn -> Sockets] /\ rejected[c] \in Reasons
      /\ rejected' = [rejected EXCEPT ![c] = rejected[c]]
  BY <1>1 DEF ConnTypeOK
<1>4. ListInv' /\ TellInv' /\ Made' = Made \cup {c}
  BY <1>2, <1>3, CloseTells DEF ChatInv
<1>5. IdInv'
  BY <1>1, <1>4, IdsKept DEF ChatInv
<1> QED
  BY <1>4, <1>5 DEF ChatInv

LEMMA DataKeeps == ASSUME ChatInv, NEW c \in Conn, SocketData(c) PROVE ChatInv'
<1>1. ConnTypeOK /\ \A d \in Conn : Told(d)
  BY DEF ChatInv, TellInv
<1>2. UNCHANGED <<idVars, listVars, state, rejected, eventVars>>
  BY DEF SocketData
<1>3. PICK n : Deliver(Hearers(c), Messages(c, n), sock, errDue)
  BY DEF SocketData
<1>0. sock \in [Conn -> Sockets] /\ errDue \in [Conn -> BOOLEAN]
  BY <1>1 DEF ConnTypeOK
<1>4. /\ \A d \in Conn \ Hearers(c) : heard'[d] = heard[d]
      /\ sock' \in [Conn -> Sockets] /\ errDue' \in [Conn -> BOOLEAN]
      /\ \A d \in Conn : sock'[d] = sock[d] \/ (d \in Hearers(c) /\ sock'[d] = "dead" /\ errDue'[d])
      /\ \A d \in Conn : (errDue'[d] <=> errDue[d]) \/ (d \in Hearers(c) /\ errDue'[d])
  BY <1>0, <1>3, DeliverBreaks
<1>5. \A d \in Hearers(c) : state[d] = Connected
  BY DEF Hearers, Audience
<1>6. ASSUME NEW d \in Conn PROVE Told(d)'
  <2>1. Told(d)
    BY <1>1
  <2> QED
    BY <2>1, <1>2, <1>4, <1>5 DEF Told, eventVars
<1>7. TellInv'
  BY <1>1, <1>2, <1>4, <1>6 DEF TellInv, ConnTypeOK, eventVars
<1>8. ListInv'
  BY <1>2 DEF ChatInv, ListInv, IsList, ConnectedConns, listVars
<1>9. IdInv'
  BY <1>2, IdsKept DEF ChatInv, Made
<1> QED
  BY <1>7, <1>8, <1>9 DEF ChatInv

\* A socket that breaks and an upgrade that nobody serves change that socket only.
LEMMA SocketKeeps ==
    ASSUME ChatInv, NEW c \in Conn, IgnoredUpgrade(c) \/ SocketBreaks(c)
    PROVE  ChatInv'
<1>1. ConnTypeOK /\ \A d \in Conn : Told(d)
  BY DEF ChatInv, TellInv
<1>2. UNCHANGED <<idVars, listVars, state, rejected, heard, eventVars>>
  BY DEF IgnoredUpgrade, SocketBreaks
<1>3. \/ /\ sock[c] = "none" /\ sock' = [sock EXCEPT ![c] = "unserved"] /\ errDue' = errDue
      \/ /\ sock[c] = "open" /\ sock' = [sock EXCEPT ![c] = "dead"]
         /\ errDue' = [errDue EXCEPT ![c] = TRUE]
  BY DEF IgnoredUpgrade, SocketBreaks
<1>4. ConnTypeOK'
  BY <1>1, <1>2, <1>3 DEF ConnTypeOK, Sockets, eventVars
<1>5. ASSUME NEW d \in Conn PROVE Told(d)'
  <2>1. Told(d) /\ state[d] \in {Unknown, Connected, Closed}
    BY <1>1 DEF ConnTypeOK
  <2>2. CASE d = c
    BY <2>1, <2>2, <1>1, <1>2, <1>3 DEF Told, ConnTypeOK, eventVars
  <2>3. CASE d # c
    <3>1. sock'[d] = sock[d] /\ (errDue'[d] <=> errDue[d])
      BY <2>3, <1>1, <1>3 DEF ConnTypeOK
    <3> QED
      BY <2>1, <3>1, <1>2 DEF Told, eventVars
  <2> QED
    BY <2>2, <2>3
<1>6. ListInv'
  BY <1>2 DEF ChatInv, ListInv, IsList, ConnectedConns, listVars
<1>7. IdInv'
  BY <1>2, IdsKept DEF ChatInv, Made
<1> QED
  BY <1>1, <1>2, <1>4, <1>5, <1>6, <1>7 DEF ChatInv, TellInv

LEMMA ChatSteps == ASSUME SameWidthPorts, ChatInv, [ChatNext]_chatVars PROVE ChatInv'
<1>1. ConnTypeOK /\ \A d \in Conn : Told(d)
  BY DEF ChatInv, TellInv
<1>2. ASSUME NEW c \in Conn, Upgrade(c) PROVE ChatInv'
  BY <1>2, UpgradeKeeps
<1>3. ASSUME NEW c \in Conn, IgnoredUpgrade(c) \/ SocketBreaks(c) PROVE ChatInv'
  BY <1>3, SocketKeeps
<1>4. ASSUME NEW c \in Conn, SocketData(c) PROVE ChatInv'
  BY <1>4, DataKeeps
<1>5. ASSUME NEW c \in Conn, SocketEnd(c) PROVE ChatInv'
  <2>1. state[c] # Unknown
    BY <1>1, <1>5 DEF SocketEnd, Told
  <2> QED
    BY <2>1, <1>1, <1>5, EndKeeps DEF SocketEnd, ConnTypeOK
<1>6. ASSUME NEW c \in Conn, SocketError(c) PROVE ChatInv'
  <2>1. state[c] # Unknown
    BY <1>1, <1>6 DEF SocketError, Told
  <2>2. /\ [errDue EXCEPT ![c] = FALSE] \in [Conn -> BOOLEAN]
        /\ \A d \in Conn \ {c} : ([errDue EXCEPT ![c] = FALSE][d] <=> errDue[d])
    BY <1>1 DEF ConnTypeOK
  <2> QED
    BY <2>1, <2>2, <1>6, EndKeeps DEF SocketError
<1>7. ASSUME UNCHANGED chatVars PROVE ChatInv'
  <2>1. UNCHANGED <<idVars, listVars, state, sock, errDue, rejected, heard, eventVars>>
    BY <1>7 DEF chatVars, connVars, netVars
  <2>2. ListInv'
    BY <2>1 DEF ChatInv, ListInv, IsList, ConnectedConns, listVars
  <2>3. IdInv'
    BY <2>1, IdsKept DEF ChatInv, Made
  <2>4. TellInv'
    BY <2>1 DEF ChatInv, TellInv, ConnTypeOK, Told, eventVars
  <2> QED
    BY <2>2, <2>3, <2>4 DEF ChatInv
<1> QED
  BY <1>2, <1>3, <1>4, <1>5, <1>6, <1>7 DEF ChatNext

-----------------------------------------------------------------------------
(* The theorems. *)

\* Between two handlers the manager lists exactly the connections in state 4
\* (connection.js:61-75), however many there are and whatever fails.
THEOREM RosterIsExact == SameWidthPorts => (ChatSpec => []RosterExact)
<1> SUFFICES ASSUME SameWidthPorts PROVE ChatSpec => []RosterExact
  OBVIOUS
<1>1. ChatInv /\ [ChatNext]_chatVars => ChatInv'
  BY ChatSteps
<1>2. ChatInv => RosterExact
  <2> SUFFICES ASSUME ChatInv PROVE RosterExact
    OBVIOUS
  <2>1. PICK s : IsList(s) /\ Elems(s) = ConnectedConns
    BY DEF ChatInv, ListInv
  <2> QED
    BY <2>1, ListHoldsElems DEF RosterExact
<1> QED
  BY ChatStarts, <1>1, <1>2, PTL DEF ChatSpec

\* The application is told once of a connection and once of its end, of a rejected one
\* nothing, and a connection in state 4 on a dead socket is still to be detached by an
\* error event (server.js:71-72, connection.js:113-119, 163-173).
THEOREM EndsAreToldEver == SameWidthPorts => (ChatSpec => []EndsAreTold)
<1> SUFFICES ASSUME SameWidthPorts PROVE ChatSpec => []EndsAreTold
  OBVIOUS
<1>1. ChatInv /\ [ChatNext]_chatVars => ChatInv'
  BY ChatSteps
<1>2. ChatInv => EndsAreTold
  <2> SUFFICES ASSUME ChatInv, NEW c \in Conn
               PROVE  /\ leaves[c] <= opens[c] /\ opens[c] <= 1
                      /\ state[c] = Closed => leaves[c] = opens[c]
                      /\ rejected[c] # "" => opens[c] = 0 /\ heard[c] = <<>>
                      /\ state[c] = Connected /\ sock[c] = "dead" => errDue[c]
    BY DEF EndsAreTold
  <2>1. Told(c) /\ state[c] \in {Unknown, Connected, Closed} /\ opens[c] \in Nat
    BY DEF ChatInv, TellInv, ConnTypeOK
  <2>2. CASE state[c] = Unknown
    <3>1. leaves[c] = 0 /\ opens[c] = 0 /\ rejected[c] = ""
      BY <2>1, <2>2 DEF Told
    <3>2. state[c] # Closed /\ state[c] # Connected
      BY <2>2, StatesDiffer
    <3>3. leaves[c] <= opens[c] /\ opens[c] <= 1
      <4>1. leaves[c] = 0 /\ opens[c] = 0
        BY <3>1
      <4> QED
        BY <4>1
    <3> QED
      BY <3>1, <3>2, <3>3
  <2>3. CASE state[c] = Connected
    <3>1. leaves[c] = 0 /\ opens[c] = 1 /\ rejected[c] = ""
      BY <2>1, <2>3 DEF Told
    <3>2. sock[c] = "open" \/ errDue[c]
      BY <2>1, <2>3 DEF Told
    <3>4. leaves[c] <= opens[c] /\ opens[c] <= 1
      <4>1. leaves[c] = 0 /\ opens[c] = 1
        BY <3>1
      <4> QED
        BY <4>1
    <3>3. state[c] # Closed
      BY <2>3, StatesDiffer
    <3> QED
      BY <3>1, <3>2, <3>3, <3>4
  <2>4. CASE state[c] = Closed
    <3>1. leaves[c] = opens[c] /\ opens[c] <= 1 /\ (rejected[c] # "" => opens[c] = 0 /\ heard[c] = <<>>)
      BY <2>1, <2>4 DEF Told
    <3>2. state[c] # Connected
      BY <2>4, StatesDiffer
    <3>3. leaves[c] <= opens[c]
      <4>1. leaves[c] = opens[c] /\ opens[c] \in Nat
        BY <3>1, <2>1
      <4> QED
        BY <4>1
    <3> QED
      BY <3>1, <3>2, <3>3
  <2> QED
    BY <2>1, <2>2, <2>3, <2>4
<1> QED
  BY ChatStarts, <1>1, <1>2, PTL DEF ChatSpec

-----------------------------------------------------------------------------
(* What is said and heard, also when ids collide. *)

SocketInv ==
    /\ state \in [Conn -> {Unknown, Connected, Closed}]
    /\ sock \in [Conn -> Sockets] /\ errDue \in [Conn -> BOOLEAN]
    /\ \A c \in Conn : state[c] = Unknown <=> sock[c] \in {"none", "unserved"}
    /\ \A c \in Conn : state[c] = Unknown => ~ errDue[c]

SaidTypeOK ==
    /\ said \in Seq(Entries) /\ heard \in [Conn -> Seq(Entries)]
    /\ since \in [Conn -> Nat] /\ sent \in [Conn -> 0 .. MaxMessages]

NoneSaidTwice == \A k, l \in DOMAIN said : said[k] = said[l] => k = l

\* What has been said was said by connections, of the messages that they have sent, once.
SaidInv ==
    /\ SaidTypeOK /\ NoneSaidTwice
    /\ \A c \in Conn : since[c] <= Len(said)
    /\ \A c \in Conn : state[c] = Unknown => heard[c] = <<>> /\ sent[c] = 0
    /\ \A k \in DOMAIN said : state[said[k].from] # Unknown /\ said[k].what <= sent[said[k].from]

\* What a walk visits are connections that were made.
ChainInv ==
    /\ length \in Nat /\ (length > 0 => tail \in Conn)
    /\ \E s, n : IsChain(s, n) /\ n <= length /\ Elems(s) \subseteq Made

OrderInv == SocketInv /\ SaidInv /\ ChainInv /\ OrderKept

\* Of what is broadcast d hears a beginning, nothing if it is not in the audience, and all
\* if its socket works in the end.
HearsSome(d, ms, sk, audience) ==
    \E n \in 0 .. Len(ms) :
        /\ heard'[d] = heard[d] \o SubSeq(ms, 1, n)
        /\ n > 0 => d \in audience /\ sk[d] = "open"
        /\ d \in audience /\ sock'[d] = "open" => n = Len(ms)

\* In a step c says what was not said before, and everybody in the audience whose socket
\* worked hears a beginning of it, all of it if it still works.
Speaks(c, ms, audience) ==
    /\ ms \in Seq(Entries) /\ said' = said \o ms /\ heard' \in [Conn -> Seq(Entries)]
    /\ \A i \in DOMAIN ms : ms[i].from = c
    /\ \A i, j \in DOMAIN ms : ms[i] = ms[j] => i = j
    /\ \A i \in DOMAIN ms, k \in DOMAIN said : ms[i] # said[k]
    /\ c \notin audience /\ \A d \in Conn : HearsSome(d, ms, sock, audience)
    /\ since' \in [Conn -> Nat] /\ since'[c] <= Len(said)
    /\ \A d \in Conn \ {c} : since'[d] = since[d]
    /\ since'[c] = since[c] \/ (heard[c] = <<>> /\ since'[c] = Len(said))

LEMMA DeliverHears ==
    ASSUME NEW audience, NEW ms \in Seq(Entries), NEW sk \in [Conn -> Sockets], NEW er,
           heard \in [Conn -> Seq(Entries)], Deliver(audience, ms, sk, er)
    PROVE  /\ said' = said \o ms /\ heard' \in [Conn -> Seq(Entries)]
           /\ \A d \in Conn : HearsSome(d, ms, sk, audience)
<1>1. PICK cut \in [{d \in audience : sk[d] = "open"} -> 0 .. Len(ms)] :
        LET broken == {d \in DOMAIN cut : cut[d] < Len(ms)}
        IN  /\ heard' = [d \in Conn |->
                           IF d \in DOMAIN cut THEN heard[d] \o SubSeq(ms, 1, cut[d])
                           ELSE heard[d]]
            /\ sock' = [d \in Conn |-> IF d \in broken THEN "dead" ELSE sk[d]]
            /\ said' = said \o ms
  BY DEF Deliver
<1>2. \A n \in 0 .. Len(ms) : SubSeq(ms, 1, n) \in Seq(Entries)
  OBVIOUS
<1>3. SubSeq(ms, 1, 0) = <<>>
  OBVIOUS
<1>4. ASSUME NEW d \in Conn
      PROVE  HearsSome(d, ms, sk, audience)
  <2>1. CASE d \in DOMAIN cut
    <3>1. cut[d] \in 0 .. Len(ms) /\ d \in audience /\ sk[d] = "open"
      BY <2>1
    <3>2. sock'[d] = "open" => ~ (cut[d] < Len(ms))
      BY <1>1, <2>1
    <3>3. heard'[d] = heard[d] \o SubSeq(ms, 1, cut[d])
      BY <1>1, <2>1
    <3>4. PICK n \in 0 .. Len(ms) : n = cut[d]
      BY <3>1
    <3>5. n < Len(ms) \/ n = Len(ms)
      OBVIOUS
    <3> QED
      BY <3>1, <3>2, <3>3, <3>4, <3>5 DEF HearsSome
  <2>2. CASE d \notin DOMAIN cut
    <3>1. heard'[d] = heard[d] /\ heard[d] \in Seq(Entries)
      BY <1>1, <2>2
    <3>2. heard'[d] = heard[d] \o SubSeq(ms, 1, 0)
      BY <3>1, <1>3
    <3>3. ~ (d \in audience /\ sock'[d] = "open")
      BY <1>1, <2>2
    <3>4. PICK n \in 0 .. Len(ms) : n = 0
      OBVIOUS
    <3>5. ~ (n > 0)
      BY <3>4
    <3> QED
      BY <3>2, <3>3, <3>4, <3>5 DEF HearsSome
  <2> QED
    BY <2>1, <2>2
<1>5. ASSUME NEW d \in Conn PROVE heard'[d] \in Seq(Entries)
  <2>1. PICK n \in 0 .. Len(ms) : heard'[d] = heard[d] \o SubSeq(ms, 1, n)
    BY <1>4 DEF HearsSome
  <2> QED
    BY <2>1, <1>2
<1>6. heard' \in [Conn -> Seq(Entries)]
  BY <1>1, <1>5
<1> QED
  BY <1>1, <1>4, <1>6

LEMMA SpeechIsNew ==
    ASSUME SaidInv, NEW c, NEW ms, NEW audience, Speaks(c, ms, audience)
    PROVE  /\ Len(said') = Len(said) + Len(ms) /\ DOMAIN said' = 1 .. Len(said) + Len(ms)
           /\ \A k \in DOMAIN said : said'[k] = said[k]
           /\ \A i \in DOMAIN ms : said'[Len(said) + i] = ms[i]
           /\ Len(said) \in Nat /\ Len(ms) \in Nat
           /\ NoneSaidTwice'
<1>1. said \in Seq(Entries) /\ ms \in Seq(Entries) /\ said' = said \o ms
  BY DEF SaidInv, SaidTypeOK, Speaks
<1>2. /\ Len(said') = Len(said) + Len(ms) /\ DOMAIN said' = 1 .. Len(said) + Len(ms)
      /\ \A k \in DOMAIN said : said'[k] = said[k]
      /\ \A i \in DOMAIN ms : said'[Len(said) + i] = ms[i]
      /\ Len(said) \in Nat /\ Len(ms) \in Nat
  BY <1>1
<1>3. ASSUME NEW k \in DOMAIN said', NEW l \in DOMAIN said', said'[k] = said'[l] PROVE k = l
  <2>1. \A m \in DOMAIN said' : m \in DOMAIN said \/ (m - Len(said) \in DOMAIN ms /\ said'[m] = ms[m - Len(said)])
    BY <1>1, <1>2
  <2>2. CASE k \in DOMAIN said /\ l \in DOMAIN said
    BY <2>2, <1>2, <1>3 DEF SaidInv, NoneSaidTwice
  <2>3. CASE k \notin DOMAIN said /\ l \notin DOMAIN said
    <3>1. k - Len(said) = l - Len(said)
      BY <2>1, <2>3, <1>3 DEF Speaks
    <3> QED
      BY <3>1, <1>2
  <2>4. CASE k \in DOMAIN said /\ l \notin DOMAIN said
    BY <2>1, <2>4, <1>2, <1>3 DEF Speaks
  <2>5. CASE k \notin DOMAIN said /\ l \in DOMAIN said
    BY <2>1, <2>5, <1>2, <1>3 DEF Speaks
  <2> QED
    BY <2>2, <2>3, <2>4, <2>5
<1> QED
  BY <1>2, <1>3 DEF NoneSaidTwice

\* What d hears is added in the order in which it is said.
LEMMA SpeechKeepsOrder ==
    ASSUME SaidInv, OrderKept, NEW c \in Conn, NEW ms, NEW audience, Speaks(c, ms, audience)
    PROVE  OrderKept'
<1>1. /\ Len(said') = Len(said) + Len(ms) /\ DOMAIN said' = 1 .. Len(said) + Len(ms)
      /\ \A k \in DOMAIN said : said'[k] = said[k]
      /\ \A i \in DOMAIN ms : said'[Len(said) + i] = ms[i]
      /\ Len(said) \in Nat /\ Len(ms) \in Nat /\ DOMAIN said = 1 .. Len(said)
      /\ NoneSaidTwice'
  BY SpeechIsNew DEF SaidInv, SaidTypeOK
<1> SUFFICES ASSUME NEW d \in Conn
             PROVE  /\ \A i \in DOMAIN heard'[d] : \E k \in Due(d)' : heard'[d][i] = said'[k]
                    /\ \A i, j \in DOMAIN heard'[d], k, l \in DOMAIN said' :
                          i < j /\ heard'[d][i] = said'[k] /\ heard'[d][j] = said'[l] => k < l
  BY DEF OrderKept
<1>2. PICK n \in 0 .. Len(ms) :
          /\ heard'[d] = heard[d] \o SubSeq(ms, 1, n)
          /\ n > 0 => d # c
  BY DEF Speaks, HearsSome
<1>3. heard[d] \in Seq(Entries) /\ ms \in Seq(Entries)
  BY DEF SaidInv, SaidTypeOK, Speaks
<1> DEFINE old == Len(heard[d])
<1>4. /\ DOMAIN heard'[d] = 1 .. old + n /\ old \in Nat /\ DOMAIN heard[d] = 1 .. old
      /\ \A i \in 1 .. old : heard'[d][i] = heard[d][i]
      /\ \A i \in 1 .. n : heard'[d][old + i] = ms[i] /\ i \in DOMAIN ms
  <2>0. SubSeq(ms, 1, n) \in Seq(Entries)
    BY <1>3
  <2>1. PICK p \in Seq(Entries) : p = SubSeq(ms, 1, n)
    BY <2>0
  <2>2. Len(p) = n /\ \A i \in 1 .. n : p[i] = ms[i] /\ i \in DOMAIN ms
    BY <1>3, <2>1
  <2>3. PICK h \in Seq(Entries) : h = heard[d]
    BY <1>3
  <2>4. heard'[d] = h \o p /\ old = Len(h)
    BY <1>2, <2>1, <2>3
  <2> HIDE DEF old
  <2>5. Len(h \o p) = Len(h) + n /\ DOMAIN (h \o p) = 1 .. Len(h) + n /\ Len(h) \in Nat /\ DOMAIN h = 1 .. Len(h)
    BY <2>2
  <2>6. \A i \in 1 .. Len(h) : (h \o p)[i] = h[i]
    OBVIOUS
  <2>7. \A i \in 1 .. n : (h \o p)[Len(h) + i] = p[i]
    BY <2>2
  <2> QED
    BY <2>2, <2>3, <2>4, <2>5, <2>6, <2>7
<1>5. since[d] \in Nat /\ since'[d] \in Nat /\ since'[d] <= Len(said) /\ (since'[d] = since[d] \/ old = 0)
  BY DEF SaidInv, SaidTypeOK, Speaks
<1>6. ASSUME NEW i \in 1 .. old PROVE \E k \in Due(d)' : k \in DOMAIN said /\ heard'[d][i] = said'[k]
  <2>1. PICK k \in Due(d) : heard[d][i] = said[k]
    BY <1>4 DEF OrderKept
  <2>2. k \in since[d] + 1 .. Len(said) /\ said[k].from # d
    BY <2>1 DEF Due
  <2>3. since'[d] = since[d]
    BY <1>4, <1>5
  <2>4. k \in DOMAIN said /\ k \in since'[d] + 1 .. Len(said')
    BY <2>2, <2>3, <1>1, <1>5
  <2> QED
    BY <2>1, <2>2, <2>4, <1>1, <1>4 DEF Due
<1>7. ASSUME NEW i \in 1 .. n PROVE Len(said) + i \in Due(d)' /\ heard'[d][old + i] = said'[Len(said) + i]
  <2>1. heard'[d][old + i] = ms[i] /\ i \in DOMAIN ms /\ said'[Len(said) + i] = ms[i]
    BY <1>1, <1>4
  <2>2. ms[i].from # d
    BY <1>2, <2>1 DEF Speaks
  <2>3. Len(said) + i \in since'[d] + 1 .. Len(said')
    BY <1>1, <1>2, <1>5
  <2> QED
    BY <2>1, <2>2, <2>3 DEF Due
<1> HIDE DEF old
<1>8. \A i \in 1 .. old + n : i \in 1 .. old \/ (i - old \in 1 .. n /\ i = old + (i - old))
  BY <1>4, <1>1
<1>9. ASSUME NEW i \in DOMAIN heard'[d] PROVE \E k \in Due(d)' : heard'[d][i] = said'[k]
  <2>1. CASE i \in 1 .. old
    BY <2>1, <1>6
  <2>2. CASE i \notin 1 .. old
    <3>1. PICK m \in 1 .. n : i = old + m
      BY <2>2, <1>4, <1>8
    <3> QED
      BY <3>1, <1>7
  <2> QED
    BY <2>1, <2>2
<1>10. ASSUME NEW i \in DOMAIN heard'[d], NEW j \in DOMAIN heard'[d], NEW k \in DOMAIN said', NEW l \in DOMAIN said',
              i < j, heard'[d][i] = said'[k], heard'[d][j] = said'[l]
       PROVE  k < l
  <2>1. \A m \in 1 .. old, p \in DOMAIN said' : heard'[d][m] = said'[p] => p \in DOMAIN said
    BY <1>1, <1>6 DEF NoneSaidTwice
  <2>2. \A m \in 1 .. n, p \in DOMAIN said' : heard'[d][old + m] = said'[p] => p = Len(said) + m
    <3>1. \A m \in 1 .. n : Len(said) + m \in DOMAIN said'
      BY <1>1, <1>2
    <3> QED
      BY <3>1, <1>1, <1>7 DEF NoneSaidTwice
  <2>3. CASE j \in 1 .. old
    <3>1. i \in 1 .. old /\ k \in DOMAIN said /\ l \in DOMAIN said
      BY <2>1, <2>3, <1>4, <1>10
    <3>2. heard[d][i] = said[k] /\ heard[d][j] = said[l] /\ i \in DOMAIN heard[d] /\ j \in DOMAIN heard[d]
      BY <3>1, <2>3, <1>1, <1>4, <1>10
    <3> QED
      BY <3>1, <3>2, <1>10 DEF OrderKept
  <2>4. CASE i \in 1 .. old /\ j \notin 1 .. old
    <3>1. k \in 1 .. Len(said) /\ l = Len(said) + (j - old) /\ j - old \in 1 .. n
      BY <2>1, <2>2, <2>4, <1>1, <1>4, <1>8, <1>10
    <3> QED
      BY <3>1, <1>1
  <2>5. CASE i \notin 1 .. old /\ j \notin 1 .. old
    <3>1. /\ k = Len(said) + (i - old) /\ i - old \in 1 .. n
          /\ l = Len(said) + (j - old) /\ j - old \in 1 .. n
      BY <2>2, <2>5, <1>4, <1>8, <1>10
    <3>2. i \in Nat /\ j \in Nat
      BY <1>4
    <3> QED
      BY <3>1, <3>2, <1>1, <1>4, <1>10
  <2> QED
    BY <2>3, <2>4, <2>5, <1>4, <1>10
<1> QED
  BY <1>9, <1>10

\* What c says in a handler: the announcement of it, or not, and its next n messages.
LEMMA MessagesAreNew ==
    ASSUME SaidInv, NEW c \in Conn, NEW n \in Nat, sent[c] + n <= MaxMessages
    PROVE  /\ Messages(c, n) \in Seq(Entries) /\ Len(Messages(c, n)) = n
           /\ \A i \in 1 .. n : Messages(c, n)[i] = [from |-> c, what |-> sent[c] + i]
           /\ \A i \in 1 .. n, k \in DOMAIN said : Messages(c, n)[i] # said[k]
<1>1. sent[c] \in Nat /\ MaxMessages \in Nat
  BY ChatAssumption DEF SaidInv, SaidTypeOK
<1>2. \A i \in 1 .. n : [from |-> c, what |-> sent[c] + i] \in Entries
  BY <1>1 DEF Entries
<1>3. /\ Messages(c, n) \in Seq(Entries) /\ Len(Messages(c, n)) = n
      /\ \A i \in 1 .. n : Messages(c, n)[i] = [from |-> c, what |-> sent[c] + i]
  BY <1>2 DEF Messages
<1>4. ASSUME NEW i \in 1 .. n, NEW k \in DOMAIN said PROVE Messages(c, n)[i] # said[k]
  <2>1. said[k] \in Entries /\ said[k].what <= sent[said[k].from]
    BY DEF SaidInv, SaidTypeOK
  <2>2. said[k].from = c => said[k].what <= sent[c] /\ said[k].what \in Int
    BY <2>1, <1>1 DEF Entries
  <2> QED
    BY <2>2, <1>1, <1>3
<1> QED
  BY <1>3, <1>4

\* What has been said stays what its speakers have sent.
LEMMA SpeechKeepsSaid ==
    ASSUME SaidInv, NEW c \in Conn, NEW ms, NEW audience, Speaks(c, ms, audience),
           state' \in [Conn -> {Unknown, Connected, Closed}],
           sent' \in [Conn -> 0 .. MaxMessages], sent[c] <= sent'[c],
           state'[c] # Unknown, \A d \in audience : state[d] # Unknown \/ d = c,
           \A d \in Conn \ {c} : sent'[d] = sent[d] /\ state'[d] = state[d],
           \A i \in DOMAIN ms : ms[i].what <= sent'[c]
    PROVE  SaidInv'
<1>1. /\ Len(said') = Len(said) + Len(ms) /\ DOMAIN said' = 1 .. Len(said) + Len(ms)
      /\ \A k \in DOMAIN said : said'[k] = said[k]
      /\ \A i \in DOMAIN ms : said'[Len(said) + i] = ms[i]
      /\ Len(said) \in Nat /\ Len(ms) \in Nat
      /\ NoneSaidTwice'
  BY SpeechIsNew
<1>2. SaidTypeOK'
  BY DEF Speaks, SaidTypeOK, SaidInv
<1>3. \A d \in Conn : since'[d] <= Len(said')
  <2> SUFFICES ASSUME NEW d \in Conn PROVE since'[d] <= Len(said) /\ since'[d] \in Nat
    BY <1>1
  <2> QED
    BY DEF Speaks, SaidInv
<1>4. ASSUME NEW d \in Conn, state'[d] = Unknown PROVE heard'[d] = <<>> /\ sent'[d] = 0
  <2>1. d # c /\ state[d] = Unknown /\ heard[d] = <<>> /\ sent'[d] = 0 /\ d \notin audience
    BY <1>4 DEF SaidInv
  <2>2. PICK n \in 0 .. Len(ms) : heard'[d] = heard[d] \o SubSeq(ms, 1, n) /\ (n > 0 => d \in audience)
    BY DEF Speaks, HearsSome
  <2>3. n = 0 /\ SubSeq(ms, 1, 0) = <<>>
    BY <2>1, <2>2, <1>1 DEF Speaks
  <2> QED
    BY <2>1, <2>2, <2>3
<1>5. ASSUME NEW k \in DOMAIN said' PROVE state'[said'[k].from] # Unknown /\ said'[k].what <= sent'[said'[k].from]
  <2>1. CASE k \in DOMAIN said
    <3>1. said'[k] = said[k] /\ said[k] \in Entries /\ state[said[k].from] # Unknown /\ said[k].what <= sent[said[k].from]
      BY <2>1, <1>1 DEF SaidInv, SaidTypeOK
    <3>2. said[k].from \in Conn /\ said[k].what \in Int
      BY <3>1, ChatAssumption DEF Entries
    <3>3. sent[c] \in Nat /\ sent'[c] \in Nat
      BY DEF SaidInv, SaidTypeOK
    <3>4. CASE said[k].from = c
      BY <3>1, <3>2, <3>3, <3>4
    <3>5. CASE said[k].from # c
      BY <3>1, <3>2, <3>5
    <3> QED
      BY <3>4, <3>5
  <2>2. CASE k \notin DOMAIN said
    <3>1. said \in Seq(Entries) /\ ms \in Seq(Entries)
      BY DEF SaidInv, SaidTypeOK, Speaks
    <3>2. PICK i \in DOMAIN ms : k = Len(said) + i
      <4>1. k - Len(said) \in DOMAIN ms /\ k = Len(said) + (k - Len(said))
        BY <2>2, <3>1, <1>1
      <4> QED
        BY <4>1
    <3> QED
      BY <3>2, <1>1 DEF Speaks
  <2> QED
    BY <2>1, <2>2
<1> QED
  BY <1>1, <1>2, <1>3, <1>4, <1>5 DEF SaidInv

\* Closing a connection, whatever its id, is told to nobody and heard by nobody.
LEMMA CloseIsQuiet ==
    ASSUME SaidInv, NEW c \in Conn, NEW w, NEW sk \in [Conn -> Sockets], NEW er \in [Conn -> BOOLEAN],
           state \in [Conn -> {Unknown, Connected, Closed}], Close(c, w, sk, er)
    PROVE  /\ UNCHANGED <<said, heard>> /\ DetachNode(w)
           /\ state' = [state EXCEPT ![c] = Closed]
           /\ sock' = [sk EXCEPT ![c] = "dead"]
           /\ errDue' \in [Conn -> BOOLEAN] /\ \A d \in Conn \ {c} : (errDue'[d] <=> er[d])
<1>1. state' = [state EXCEPT ![c] = Closed] /\ DetachNode(w)
  BY DEF Close
<1>2. PICK failed \in BOOLEAN :
        Deliver(Audience', <<>>, Ended(c, sk), ErrorsAfter(c, sk, er, failed))
  BY DEF Close, DetachEvent, ServerListeners
<1>3. /\ Ended(c, sk) \in [Conn -> Sockets] /\ Ended(c, sk) = [sk EXCEPT ![c] = "dead"]
      /\ ErrorsAfter(c, sk, er, failed) \in [Conn -> BOOLEAN]
      /\ \A d \in Conn \ {c} : (ErrorsAfter(c, sk, er, failed)[d] <=> er[d])
  BY DEF Ended, ErrorsAfter, Sockets
<1>4. sock' = Ended(c, sk) /\ errDue' = ErrorsAfter(c, sk, er, failed)
  BY <1>2, <1>3, DeliverNothing
<1>5. said \in Seq(Entries) /\ heard \in [Conn -> Seq(Entries)] /\ <<>> \in Seq(Entries)
  BY DEF SaidInv, SaidTypeOK
<1>6. /\ said' = said \o <<>> /\ heard' \in [Conn -> Seq(Entries)]
      /\ \A d \in Conn : \E n \in 0 .. Len(<<>>) : heard'[d] = heard[d] \o SubSeq(<<>>, 1, n)
  <2>1. PICK ms \in Seq(Entries) : ms = <<>>
    BY <1>5
  <2>2. PICK ended, errs, there :
           /\ ended = Ended(c, sk) /\ errs = ErrorsAfter(c, sk, er, failed) /\ there = Audience'
           /\ ended \in [Conn -> Sockets]
    BY <1>3
  <2>3. Deliver(there, ms, ended, errs)
    BY <1>2, <2>1, <2>2
  <2>4. /\ said' = said \o ms /\ heard' \in [Conn -> Seq(Entries)]
        /\ \A d \in Conn : HearsSome(d, ms, ended, there)
    BY <2>2, <2>3, <1>5, DeliverHears
  <2> QED
    BY <2>1, <2>4 DEF HearsSome
<1>7. said' = said
  BY <1>5, <1>6
<1>8. ASSUME NEW d \in Conn PROVE heard'[d] = heard[d]
  <2>1. PICK h \in Seq(Entries) : h = heard[d]
    BY <1>5
  <2>2. PICK n \in 0 .. Len(<<>>) : heard'[d] = h \o SubSeq(<<>>, 1, n)
    BY <1>6, <2>1
  <2>3. SubSeq(<<>>, 1, n) = <<>>
    OBVIOUS
  <2>4. h \o <<>> = h
    OBVIOUS
  <2> QED
    BY <2>1, <2>2, <2>3, <2>4
<1>9. heard' = heard
  BY <1>5, <1>6, <1>8
<1> QED
  BY <1>1, <1>3, <1>4, <1>7, <1>9

\* The handlers in which a connection speaks.
LEMMA AcceptSpeaks ==
    ASSUME SocketInv, SaidInv, NEW c \in Conn, sock[c] = "none", NEW r \in Requests, Accept(c, r)
    PROVE  /\ \E ms : /\ Speaks(c, ms, Hearers(c)')
                      /\ \A i \in DOMAIN ms : ms[i].what <= sent'[c]
           /\ sent' \in [Conn -> 0 .. MaxMessages] /\ \A d \in Conn \ {c} : sent'[d] = sent[d]
           /\ state' = [state EXCEPT ![c] = Connected] /\ AttachNode(c)
           /\ since'[c] = Len(said)
           /\ sock' \in [Conn -> Sockets] /\ errDue' \in [Conn -> BOOLEAN]
           /\ sock'[c] \in {"open", "dead"}
           /\ \A d \in Conn \ {c} : sock'[d] = sock[d] \/ (state[d] = Connected /\ sock'[d] = "dead")
           /\ \A d \in Conn \ {c} : (errDue'[d] <=> errDue[d]) \/ state[d] = Connected
<1>1. /\ state[c] = Unknown /\ heard[c] = <<>> /\ sent[c] = 0
      /\ sock \in [Conn -> Sockets] /\ errDue \in [Conn -> BOOLEAN]
      /\ said \in Seq(Entries) /\ heard \in [Conn -> Seq(Entries)]
      /\ since \in [Conn -> Nat] /\ sent \in [Conn -> 0 .. MaxMessages]
      /\ state \in [Conn -> {Unknown, Connected, Closed}]
  BY DEF SocketInv, SaidInv, SaidTypeOK
<1>2. PICK n \in 0 .. MaxMessages, written \in BOOLEAN :
          /\ sent' = [sent EXCEPT ![c] = n]
          /\ Deliver(Hearers(c)',
                     <<[from |-> c, what |-> Joined]>> \o Messages(c, n),
                     [sock EXCEPT ![c] = IF written THEN "open" ELSE "dead"],
                     [errDue EXCEPT ![c] = ~ written])
  BY DEF Accept
<1>3. /\ state' = [state EXCEPT ![c] = Connected] /\ AttachNode(c)
      /\ since' = [since EXCEPT ![c] = Len(said)]
  BY DEF Accept
<1>4. PICK sk \in [Conn -> Sockets] : sk = [sock EXCEPT ![c] = IF written THEN "open" ELSE "dead"]
  BY <1>1 DEF Sockets
<1>5. PICK er \in [Conn -> BOOLEAN] : er = [errDue EXCEPT ![c] = ~ written]
  BY <1>1
<1>6. n \in Nat /\ MaxMessages \in Nat /\ sent[c] + n <= MaxMessages
  BY <1>1, ChatAssumption
<1>7. PICK msgs \in Seq(Entries) :
          /\ msgs = Messages(c, n) /\ Len(msgs) = n
          /\ \A i \in 1 .. n : msgs[i] = [from |-> c, what |-> i]
          /\ \A i \in 1 .. n, k \in DOMAIN said : msgs[i] # said[k]
  BY <1>1, <1>6, MessagesAreNew
<1>8. PICK ms \in Seq(Entries) :
          /\ ms = <<[from |-> c, what |-> Joined]>> \o msgs /\ Len(ms) = n + 1
          /\ \A i \in 1 .. n + 1 : ms[i] = [from |-> c, what |-> i - 1]
  <2>1. [from |-> c, what |-> Joined] \in Entries
    BY <1>6 DEF Entries, Joined
  <2>2. <<[from |-> c, what |-> Joined]>> \o msgs \in Seq(Entries)
    BY <2>1
  <2>3. Len(<<[from |-> c, what |-> Joined]>> \o msgs) = n + 1
    BY <1>6, <1>7
  <2>4. ASSUME NEW i \in 1 .. n + 1
        PROVE  (<<[from |-> c, what |-> Joined]>> \o msgs)[i] = [from |-> c, what |-> i - 1]
    <3>1. CASE i = 1
      BY <3>1, <1>7 DEF Joined
    <3>2. CASE i # 1
      <4>1. i - 1 \in 1 .. n
        BY <3>2, <1>6
      <4>2. (<<[from |-> c, what |-> Joined]>> \o msgs)[i] = msgs[i - 1]
        BY <3>2, <4>1, <1>7
      <4> QED
        BY <4>1, <4>2, <1>7
    <3> QED
      BY <3>1, <3>2
  <2> QED
    BY <2>2, <2>3, <2>4
<1>9. Deliver(Hearers(c)', ms, sk, er)
  BY <1>2, <1>4, <1>5, <1>7, <1>8
<1>10. PICK there : there = Hearers(c)'
  OBVIOUS
<1>11. Deliver(there, ms, sk, er)
  BY <1>9, <1>10
<1>12. /\ said' = said \o ms /\ heard' \in [Conn -> Seq(Entries)]
       /\ \A d \in Conn : HearsSome(d, ms, sk, there)
  BY <1>1, <1>11, DeliverHears
<1>13. /\ sock' \in [Conn -> Sockets] /\ errDue' \in [Conn -> BOOLEAN]
       /\ \A d \in Conn : sock'[d] = sk[d] \/ (d \in there /\ sock'[d] = "dead" /\ errDue'[d])
       /\ \A d \in Conn : (errDue'[d] <=> er[d]) \/ (d \in there /\ errDue'[d])
  <2>1. sk \in [Conn -> Sockets] /\ er \in [Conn -> BOOLEAN]
    OBVIOUS
  <2>2. sock' \in [Conn -> Sockets] /\ errDue' \in [Conn -> BOOLEAN]
    BY <1>11, <2>1, DeliverBreaks
  <2>3. \A d \in Conn : sock'[d] = sk[d] \/ (d \in there /\ sock'[d] = "dead" /\ errDue'[d])
    BY <1>11, <2>1, DeliverBreaks, ZenonT(40)
  <2>4. \A d \in Conn : (errDue'[d] <=> er[d]) \/ (d \in there /\ errDue'[d])
    BY <1>11, <2>1, DeliverBreaks
  <2> QED
    BY <2>2, <2>3, <2>4
<1>14. c \notin there /\ \A d \in there : d = c \/ state[d] = Connected
  <2>1. c \notin there /\ \A d \in there : d \in Conn /\ state'[d] = Connected
    BY <1>10 DEF Hearers, Audience, Listed, Walk
  <2> QED
    BY <2>1, <1>1, <1>3
<1>15. \A d \in Conn : HearsSome(d, ms, sock, there)
  <2> SUFFICES ASSUME NEW d \in Conn PROVE HearsSome(d, ms, sock, there)
    OBVIOUS
  <2>1. d \in there => sk[d] = sock[d]
    BY <1>1, <1>4, <1>14
  <2>2. HearsSome(d, ms, sk, there)
    BY <1>12
  <2> QED
    BY <2>1, <2>2 DEF HearsSome
<1>16. /\ DOMAIN ms = 1 .. n + 1 /\ \A i \in DOMAIN ms : ms[i].from = c /\ ms[i].what = i - 1
       /\ \A i, j \in DOMAIN ms : ms[i] = ms[j] => i = j
  <2>0. DOMAIN ms = 1 .. n + 1
    BY <1>6, <1>8
  <2>1. DOMAIN ms = 1 .. n + 1 /\ \A i \in DOMAIN ms : ms[i].from = c /\ ms[i].what = i - 1
    <3> SUFFICES ASSUME NEW i \in 1 .. n + 1 PROVE ms[i].from = c /\ ms[i].what = i - 1
      BY <2>0
    <3>1. ms[i] = [from |-> c, what |-> i - 1]
      BY <1>8
    <3> QED
      BY <3>1
  <2>2. \A i \in DOMAIN ms, j \in DOMAIN ms : i - 1 = j - 1 => i = j
    BY <2>1, <1>6
  <2> QED
    BY <2>1, <2>2
<1>17. \A i \in DOMAIN ms, k \in DOMAIN said : ms[i] # said[k]
  <2> SUFFICES ASSUME NEW i \in DOMAIN ms, NEW k \in DOMAIN said PROVE ms[i] # said[k]
    OBVIOUS
  <2>1. said[k].from # c
    BY <1>1 DEF SaidInv
  <2> QED
    BY <2>1, <1>16
<1>18. Speaks(c, ms, there)
  <2>1. since' \in [Conn -> Nat] /\ since'[c] = Len(said) /\ \A d \in Conn \ {c} : since'[d] = since[d]
    BY <1>1, <1>3
  <2>2. Len(said) \in Nat
    BY <1>1
  <2> QED
    BY <1>1, <2>1, <2>2, <1>12, <1>14, <1>15, <1>16, <1>17 DEF Speaks
<1>19. sent' \in [Conn -> 0 .. MaxMessages] /\ sent'[c] = n /\ \A d \in Conn \ {c} : sent'[d] = sent[d]
  BY <1>1, <1>2
<1>20. \A i \in DOMAIN ms : ms[i].what <= sent'[c]
  BY <1>16, <1>19, <1>6
<1>21. sk[c] \in {"open", "dead"} /\ \A d \in Conn \ {c} : sk[d] = sock[d] /\ (er[d] <=> errDue[d])
  BY <1>1, <1>4, <1>5
<1> QED
  BY <1>1, <1>3, <1>10, <1>13, <1>14, <1>18, <1>19, <1>20, <1>21

LEMMA DataSpeaks ==
    ASSUME SocketInv, SaidInv, NEW c \in Conn, SocketData(c)
    PROVE  /\ \E ms : /\ Speaks(c, ms, Hearers(c))
                      /\ \A i \in DOMAIN ms : ms[i].what <= sent'[c]
           /\ sent' \in [Conn -> 0 .. MaxMessages] /\ sent[c] <= sent'[c]
           /\ \A d \in Conn \ {c} : sent'[d] = sent[d]
           /\ sock' \in [Conn -> Sockets] /\ errDue' \in [Conn -> BOOLEAN]
           /\ \A d \in Conn : sock'[d] = sock[d] \/ (state[d] = Connected /\ sock'[d] = "dead")
           /\ \A d \in Conn : (errDue'[d] <=> errDue[d]) \/ state[d] = Connected
<1>1. /\ sock \in [Conn -> Sockets] /\ errDue \in [Conn -> BOOLEAN]
      /\ said \in Seq(Entries) /\ heard \in [Conn -> Seq(Entries)]
      /\ since \in [Conn -> Nat] /\ sent \in [Conn -> 0 .. MaxMessages]
      /\ since[c] <= Len(said)
  BY DEF SocketInv, SaidInv, SaidTypeOK
<1>2. PICK n \in 1 .. MaxMessages - sent[c] :
          /\ Deliver(Hearers(c), Messages(c, n), sock, errDue)
          /\ sent' = [sent EXCEPT ![c] = @ + n]
  BY DEF SocketData
<1>3. UNCHANGED <<state, since>>
  BY DEF SocketData
<1>4. n \in Nat /\ MaxMessages \in Nat /\ sent[c] \in Nat /\ sent[c] + n <= MaxMessages
  BY <1>1, <1>2, ChatAssumption
<1>5. PICK ms \in Seq(Entries) :
          /\ ms = Messages(c, n) /\ Len(ms) = n
          /\ \A i \in 1 .. n : ms[i] = [from |-> c, what |-> sent[c] + i]
          /\ \A i \in 1 .. n, k \in DOMAIN said : ms[i] # said[k]
  BY <1>4, MessagesAreNew
<1>6. PICK there : there = Hearers(c)
  OBVIOUS
<1>7. Deliver(there, ms, sock, errDue)
  BY <1>2, <1>5, <1>6
<1>8. /\ said' = said \o ms /\ heard' \in [Conn -> Seq(Entries)]
      /\ \A d \in Conn : HearsSome(d, ms, sock, there)
  BY <1>1, <1>7, DeliverHears
<1>9. /\ sock' \in [Conn -> Sockets] /\ errDue' \in [Conn -> BOOLEAN]
      /\ \A d \in Conn : sock'[d] = sock[d] \/ (d \in there /\ sock'[d] = "dead" /\ errDue'[d])
      /\ \A d \in Conn : (errDue'[d] <=> errDue[d]) \/ (d \in there /\ errDue'[d])
  BY <1>1, <1>7, DeliverBreaks
<1>10. c \notin there /\ \A d \in there : state[d] = Connected
  BY <1>6 DEF Hearers, Audience
<1>11. /\ DOMAIN ms = 1 .. n /\ \A i \in DOMAIN ms : ms[i].from = c /\ ms[i].what = sent[c] + i
       /\ \A i, j \in DOMAIN ms : ms[i] = ms[j] => i = j
  <2>1. DOMAIN ms = 1 .. n /\ \A i \in DOMAIN ms : ms[i].from = c /\ ms[i].what = sent[c] + i
    BY <1>4, <1>5
  <2>2. \A i \in DOMAIN ms, j \in DOMAIN ms : sent[c] + i = sent[c] + j => i = j
    BY <2>1, <1>4
  <2> QED
    BY <2>1, <2>2
<1>12. Speaks(c, ms, there)
  BY <1>1, <1>3, <1>5, <1>8, <1>10, <1>11 DEF Speaks
<1>13. /\ sent' \in [Conn -> 0 .. MaxMessages] /\ sent'[c] = sent[c] + n
       /\ \A d \in Conn \ {c} : sent'[d] = sent[d]
  BY <1>1, <1>2, <1>4
<1>14. sent[c] <= sent'[c] /\ \A i \in DOMAIN ms : ms[i].what <= sent'[c]
  BY <1>4, <1>11, <1>13
<1> QED
  BY <1>6, <1>9, <1>10, <1>12, <1>13, <1>14

LEMMA OrderStarts == ChatInit => OrderInv
<1> SUFFICES ASSUME ChatInit PROVE OrderInv
  OBVIOUS
<1>1. SocketInv
  BY StatesDiffer DEF ChatInit, SocketInv, Sockets
<1>2. said = <<>> /\ DOMAIN said = {} /\ \A c \in Conn : heard[c] = <<>> /\ DOMAIN heard[c] = {}
  <2>1. said = <<>> /\ \A c \in Conn : heard[c] = <<>>
    BY DEF ChatInit
  <2>2. DOMAIN <<>> = {}
    OBVIOUS
  <2> QED
    BY <2>1, <2>2
<1>3. SaidInv
  <2>1. SaidTypeOK
    <3>1. <<>> \in Seq(Entries) /\ 0 \in 0 .. MaxMessages
      BY ChatAssumption
    <3> QED
      BY <3>1 DEF SaidTypeOK, ChatInit
  <2>2. \A c \in Conn : since[c] <= Len(said) /\ sent[c] = 0
    <3>1. Len(<<>>) = 0 /\ 0 <= 0
      OBVIOUS
    <3> QED
      BY <3>1 DEF ChatInit
  <2> QED
    BY <1>2, <2>1, <2>2 DEF SaidInv, NoneSaidTwice
<1>4. OrderKept
  BY <1>2 DEF OrderKept
<1>5. ChainInv
  <2>1. PICK s : s = [i \in 1 .. 0 |-> Null]
    OBVIOUS
  <2>2. IsChain(s, 0)
    <3>1. head = Null /\ nxt = [c \in Conn |-> Null]
      BY DEF ChatInit, ManagerInit
    <3> QED
      BY <2>1, <3>1 DEF IsChain
  <2>3. Elems(s) = {}
    BY <2>1 DEF Elems
  <2>4. length = 0
    BY DEF ChatInit, ManagerInit
  <2>5. length \in Nat /\ 0 <= length /\ ~ (length > 0)
    BY <2>4
  <2> QED
    BY <2>2, <2>3, <2>5 DEF ChainInv
<1> QED
  BY <1>1, <1>3, <1>4, <1>5 DEF OrderInv

\* Closing takes a node out of the chain, perhaps the wrong one, and nothing is said.
LEMMA CloseKeepsOrder ==
    ASSUME OrderInv, NEW c \in Conn, NEW w, NEW sk \in [Conn -> Sockets], NEW er \in [Conn -> BOOLEAN],
           \A d \in Conn \ {c} : sk[d] = sock[d] /\ (er[d] <=> errDue[d]),
           Close(c, w, sk, er), UNCHANGED <<sent, since>>
    PROVE  OrderInv'
<1>1. SocketInv /\ SaidInv /\ ChainInv /\ OrderKept
  BY DEF OrderInv
<1>2. state \in [Conn -> {Unknown, Connected, Closed}]
  BY <1>1 DEF SocketInv
<1>3. /\ UNCHANGED <<said, heard>> /\ DetachNode(w)
      /\ state' = [state EXCEPT ![c] = Closed]
      /\ sock' = [sk EXCEPT ![c] = "dead"]
      /\ errDue' \in [Conn -> BOOLEAN] /\ \A d \in Conn \ {c} : (errDue'[d] <=> er[d])
  BY <1>1, <1>2, CloseIsQuiet
<1>4. state'[c] = Closed /\ \A d \in Conn \ {c} : state'[d] = state[d]
  BY <1>2, <1>3
<1>5. sock'[c] = "dead" /\ \A d \in Conn \ {c} : sock'[d] = sock[d] /\ (errDue'[d] <=> errDue[d])
  BY <1>3
<1>6. SocketInv'
  <2>1. state' \in [Conn -> {Unknown, Connected, Closed}] /\ sock' \in [Conn -> Sockets]
    BY <1>2, <1>3 DEF Sockets
  <2>2. ASSUME NEW d \in Conn
        PROVE  /\ state'[d] = Unknown <=> sock'[d] \in {"none", "unserved"}
               /\ state'[d] = Unknown => ~ errDue'[d]
    BY <1>1, <1>4, <1>5, StatesDiffer DEF SocketInv
  <2> QED
    BY <2>1, <2>2, <1>3 DEF SocketInv
<1>7. SaidInv'
  <2>1. \A d \in Conn : state'[d] = Unknown => state[d] = Unknown
    BY <1>4, StatesDiffer
  <2>2. \A d \in Conn : state[d] # Unknown => state'[d] # Unknown
    BY <1>4, StatesDiffer
  <2>3. ASSUME NEW k \in DOMAIN said PROVE said[k].from \in Conn
    <3>1. said[k] \in Entries
      BY <1>1 DEF SaidInv, SaidTypeOK
    <3> QED
      BY <3>1 DEF Entries
  <2> QED
    BY <2>1, <2>2, <2>3, <1>1, <1>3 DEF SaidInv, SaidTypeOK, NoneSaidTwice
<1>8. OrderKept'
  BY <1>1, <1>3 DEF OrderKept, Due
<1>9. ChainInv'
  <2>1. PICK s, n : IsChain(s, n) /\ n <= length /\ Elems(s) \subseteq Made
    BY <1>1 DEF ChainInv
  <2>2. PICK t, m : /\ IsChain(t, m)' /\ m <= length' /\ length' \in Nat
                    /\ length' > 0 => tail' \in Conn
                    /\ Elems(t) \subseteq Elems(s)
    BY <2>1, <1>1, <1>3, DetachKeepsChain DEF ChainInv
  <2>3. Made \subseteq Made'
    BY <1>4, StatesDiffer DEF Made
  <2>4. Elems(t) \subseteq Made'
    BY <2>1, <2>2, <2>3
  <2> QED
    BY <2>2, <2>4 DEF ChainInv, Elems
<1> QED
  BY <1>6, <1>7, <1>8, <1>9 DEF OrderInv

LEMMA AcceptKeepsOrder ==
    ASSUME OrderInv, NEW c \in Conn, sock[c] = "none", NEW r \in Requests, Accept(c, r)
    PROVE  OrderInv'
<1>1. SocketInv /\ SaidInv /\ ChainInv /\ OrderKept
  BY DEF OrderInv
<1>2. /\ \E ms : /\ Speaks(c, ms, Hearers(c)')
                 /\ \A i \in DOMAIN ms : ms[i].what <= sent'[c]
      /\ sent' \in [Conn -> 0 .. MaxMessages] /\ \A d \in Conn \ {c} : sent'[d] = sent[d]
      /\ state' = [state EXCEPT ![c] = Connected] /\ AttachNode(c)
      /\ sock' \in [Conn -> Sockets] /\ errDue' \in [Conn -> BOOLEAN]
      /\ sock'[c] \in {"open", "dead"}
      /\ \A d \in Conn \ {c} : sock'[d] = sock[d] \/ (state[d] = Connected /\ sock'[d] = "dead")
      /\ \A d \in Conn \ {c} : (errDue'[d] <=> errDue[d]) \/ state[d] = Connected
  BY <1>1, AcceptSpeaks
<1>3. PICK ms, there : /\ there = Hearers(c)' /\ Speaks(c, ms, there)
                       /\ \A i \in DOMAIN ms : ms[i].what <= sent'[c]
  BY <1>2
<1>4. /\ state[c] = Unknown /\ sent[c] = 0
      /\ state \in [Conn -> {Unknown, Connected, Closed}]
  BY <1>1 DEF SocketInv, SaidInv
<1>5. /\ state' \in [Conn -> {Unknown, Connected, Closed}]
      /\ state'[c] = Connected /\ \A d \in Conn \ {c} : state'[d] = state[d]
  BY <1>2, <1>4
<1>6. sent[c] <= sent'[c]
  BY <1>2, <1>4
<1>7. \A d \in there : state[d] # Unknown \/ d = c
  <2>1. \A d \in there : d \in Conn /\ state'[d] = Connected
    BY <1>3 DEF Hearers, Audience, Listed, Walk
  <2> QED
    BY <2>1, <1>5, StatesDiffer
<1>8. OrderKept'
  BY <1>1, <1>3, SpeechKeepsOrder
<1>9. SaidInv'
  BY <1>1, <1>2, <1>3, <1>5, <1>6, <1>7, StatesDiffer, SpeechKeepsSaid
<1>10. SocketInv'
  <2>1. ASSUME NEW d \in Conn
        PROVE  /\ state'[d] = Unknown <=> sock'[d] \in {"none", "unserved"}
               /\ state'[d] = Unknown => ~ errDue'[d]
    <3>1. CASE d = c
      BY <3>1, <1>2, <1>5, StatesDiffer
    <3>2. CASE d # c
      BY <3>2, <1>1, <1>2, <1>5, StatesDiffer DEF SocketInv
    <3> QED
      BY <3>1, <3>2
  <2> QED
    BY <2>1, <1>2, <1>5 DEF SocketInv
<1>11. ChainInv'
  <2>1. PICK s, n : IsChain(s, n) /\ n <= length /\ Elems(s) \subseteq Made
    BY <1>1 DEF ChainInv
  <2>2. c \notin Elems(s) /\ length \in Nat /\ (length > 0 => tail \in Conn)
    BY <2>1, <1>1, <1>4 DEF Made, ChainInv
  <2>3. PICK t, m : IsChain(t, m)' /\ m <= length + 1 /\ Elems(t) \subseteq Elems(s) \cup {c}
    BY <2>1, <2>2, <1>2, AttachKeepsChain
  <2>4. Made \cup {c} \subseteq Made'
    BY <1>4, <1>5, StatesDiffer DEF Made
  <2>5. length' = length + 1 /\ tail' = c /\ length' \in Nat
    BY <2>2, <1>2 DEF AttachNode
  <2>6. Elems(t) \subseteq Made'
    BY <2>1, <2>3, <2>4
  <2> QED
    BY <2>3, <2>5, <2>6 DEF ChainInv, Elems
<1> QED
  BY <1>8, <1>9, <1>10, <1>11 DEF OrderInv

LEMMA DataKeepsOrder == ASSUME OrderInv, NEW c \in Conn, SocketData(c) PROVE OrderInv'
<1>1. SocketInv /\ SaidInv /\ ChainInv /\ OrderKept
  BY DEF OrderInv
<1>2. /\ \E ms : /\ Speaks(c, ms, Hearers(c))
                 /\ \A i \in DOMAIN ms : ms[i].what <= sent'[c]
      /\ sent' \in [Conn -> 0 .. MaxMessages] /\ sent[c] <= sent'[c]
      /\ \A d \in Conn \ {c} : sent'[d] = sent[d]
      /\ sock' \in [Conn -> Sockets] /\ errDue' \in [Conn -> BOOLEAN]
      /\ \A d \in Conn : sock'[d] = sock[d] \/ (state[d] = Connected /\ sock'[d] = "dead")
      /\ \A d \in Conn : (errDue'[d] <=> errDue[d]) \/ state[d] = Connected
  BY <1>1, DataSpeaks
<1>3. PICK ms, there : /\ there = Hearers(c) /\ Speaks(c, ms, there)
                       /\ \A i \in DOMAIN ms : ms[i].what <= sent'[c]
  BY <1>2
<1>4. UNCHANGED <<idVars, listVars, state, since>> /\ sock[c] = "open"
  BY DEF SocketData
<1>5. state[c] # Unknown /\ state' \in [Conn -> {Unknown, Connected, Closed}]
  BY <1>1, <1>4 DEF SocketInv
<1>6. \A d \in there : state[d] # Unknown \/ d = c
  BY <1>3, StatesDiffer DEF Hearers, Audience
<1>7. OrderKept'
  BY <1>1, <1>3, SpeechKeepsOrder
<1>8. SaidInv'
  <2>1. state'[c] # Unknown /\ \A d \in Conn \ {c} : sent'[d] = sent[d] /\ state'[d] = state[d]
    BY <1>2, <1>4, <1>5
  <2> QED
    BY <2>1, <1>1, <1>2, <1>3, <1>5, <1>6, SpeechKeepsSaid
<1>9. SocketInv'
  BY <1>1, <1>2, <1>4, StatesDiffer DEF SocketInv
<1>10. ChainInv'
  BY <1>1, <1>4 DEF ChainInv, IsChain, listVars, Made, Elems
<1> QED
  BY <1>7, <1>8, <1>9, <1>10 DEF OrderInv

LEMMA OrderSteps == ASSUME OrderInv, [ChatNext]_chatVars PROVE OrderInv'
<1>1. SocketInv /\ SaidInv /\ ChainInv /\ OrderKept
  BY DEF OrderInv
<1>2. ASSUME NEW c \in Conn, Upgrade(c) PROVE OrderInv'
  <2>1. PICK r \in Requests, port \in Port :
          IF Reason(r) = "" THEN Accept(c, r) ELSE Reject(c, r, MakeId(port))
    BY <1>2 DEF Upgrade
  <2>2. sock[c] = "none"
    BY <1>2 DEF Upgrade
  <2>3. CASE Reason(r) = ""
    BY <2>1, <2>2, <2>3, AcceptKeepsOrder
  <2>4. CASE Reason(r) # ""
    <3>1. PICK sk \in [Conn -> Sockets] :
            sk = [sock EXCEPT ![c] = IF Reason(r) = "version" THEN "dead" ELSE "open"]
      BY <1>1 DEF SocketInv, Sockets
    <3>2. Close(c, MakeId(port), sk, errDue) /\ UNCHANGED <<sent, since>>
      BY <2>1, <2>4, <3>1 DEF Reject
    <3>3. errDue \in [Conn -> BOOLEAN] /\ \A d \in Conn \ {c} : sk[d] = sock[d]
      BY <1>1, <3>1 DEF SocketInv
    <3> QED
      BY <3>2, <3>3, CloseKeepsOrder
  <2> QED
    BY <2>3, <2>4
<1>3. ASSUME NEW c \in Conn, IgnoredUpgrade(c) \/ SocketBreaks(c) PROVE OrderInv'
  <2>1. UNCHANGED <<listVars, state, sent, heard, said, since>>
    BY <1>3 DEF IgnoredUpgrade, SocketBreaks
  <2>2. \/ /\ sock[c] = "none" /\ sock' = [sock EXCEPT ![c] = "unserved"] /\ errDue' = errDue
        \/ /\ sock[c] = "open" /\ sock' = [sock EXCEPT ![c] = "dead"]
           /\ errDue' = [errDue EXCEPT ![c] = TRUE]
    BY <1>3 DEF IgnoredUpgrade, SocketBreaks
  <2>3. SocketInv'
    <3>1. sock' \in [Conn -> Sockets] /\ errDue' \in [Conn -> BOOLEAN]
      BY <2>2, <1>1 DEF SocketInv, Sockets
    <3>2. ASSUME NEW d \in Conn
          PROVE  /\ state'[d] = Unknown <=> sock'[d] \in {"none", "unserved"}
                 /\ state'[d] = Unknown => ~ errDue'[d]
      <4>1. CASE d = c
        BY <4>1, <2>1, <2>2, <1>1 DEF SocketInv
      <4>2. CASE d # c
        <5>1. sock'[d] = sock[d] /\ (errDue'[d] <=> errDue[d])
          BY <4>2, <2>2, <1>1 DEF SocketInv
        <5> QED
          BY <5>1, <2>1, <1>1 DEF SocketInv
      <4> QED
        BY <4>1, <4>2
    <3> QED
      BY <3>1, <3>2, <2>1, <1>1 DEF SocketInv
  <2>4. SaidInv'
    BY <2>1, <1>1 DEF SaidInv, SaidTypeOK, NoneSaidTwice
  <2>5. ChainInv'
    BY <2>1, <1>1 DEF ChainInv, IsChain, listVars, Made, Elems
  <2>6. OrderKept'
    BY <2>1, <1>1 DEF OrderKept, Due
  <2> QED
    BY <2>3, <2>4, <2>5, <2>6 DEF OrderInv
<1>4. ASSUME NEW c \in Conn, SocketData(c) PROVE OrderInv'
  BY <1>4, DataKeepsOrder
<1>5. ASSUME NEW c \in Conn, SocketEnd(c) PROVE OrderInv'
  BY <1>1, <1>5, CloseKeepsOrder DEF SocketEnd, SocketInv
<1>6. ASSUME NEW c \in Conn, SocketError(c) PROVE OrderInv'
  <2>1. PICK er \in [Conn -> BOOLEAN] : er = [errDue EXCEPT ![c] = FALSE]
    BY <1>1 DEF SocketInv
  <2>2. \A d \in Conn \ {c} : sock[d] = sock[d] /\ (er[d] <=> errDue[d])
    BY <2>1, <1>1 DEF SocketInv
  <2>3. Close(c, id[c], sock, er) /\ UNCHANGED <<sent, since>> /\ sock \in [Conn -> Sockets]
    BY <2>1, <1>1, <1>6 DEF SocketError, SocketInv
  <2> QED
    BY <2>2, <2>3, CloseKeepsOrder
<1>7. ASSUME UNCHANGED chatVars PROVE OrderInv'
  <2>1. UNCHANGED <<listVars, state, sock, errDue, sent, heard, said, since>>
    BY <1>7 DEF chatVars, connVars, netVars
  <2>2. SocketInv' /\ SaidInv'
    BY <2>1, <1>1 DEF SocketInv, SaidInv, SaidTypeOK, NoneSaidTwice
  <2>3. ChainInv'
    BY <2>1, <1>1 DEF ChainInv, IsChain, listVars, Made, Elems
  <2>4. OrderKept'
    BY <2>1, <1>1 DEF OrderKept, Due
  <2> QED
    BY <2>2, <2>3, <2>4 DEF OrderInv
<1> QED
  BY <1>2, <1>3, <1>4, <1>5, <1>6, <1>7 DEF ChatNext

\* Even if ids collide, nobody hears an entry twice, out of order, from before it came or
\* from itself (connection.js:287-293).
THEOREM OrderKeptEver == ChatSpec => []OrderKept
<1>1. OrderInv /\ [ChatNext]_chatVars => OrderInv'
  BY OrderSteps
<1>2. OrderInv => OrderKept
  BY DEF OrderInv
<1> QED
  BY OrderStarts, <1>1, <1>2, PTL DEF ChatSpec

\* Even if ids collide, so that detach unlinks the wrong node, every walk of the manager's
\* list ends and visits no more nodes than the length counts (manager.js:68-150).
THEOREM WalkEndsEver == ChatSpec => []WalkEnds
<1>1. OrderInv /\ [ChatNext]_chatVars => OrderInv'
  BY OrderSteps
<1>2. OrderInv => WalkEnds
  BY ChainEnds DEF OrderInv, ChainInv
<1> QED
  BY OrderStarts, <1>1, <1>2, PTL DEF ChatSpec

-----------------------------------------------------------------------------
(* That everyone hears what is said, when ids do not collide. *)

\* The second half of EveryoneHears: nothing is missed, or only the end.
NothingMissed(d) ==
    \A k \in Due(d) :
        /\ state[d] = Connected /\ sock[d] = "open" => said[k] \in Heard(d)
        /\ \A l \in Due(d) : k < l /\ said[l] \in Heard(d) => said[k] \in Heard(d)

HearInv == ChatInv /\ OrderInv /\ \A d \in Conn : NothingMissed(d)

LEMMA ListedAreConnected == ListInv => Listed = ConnectedConns
BY ListedIsList DEF ListInv

LEMMA ListedStayConnected == ListInv' => (Listed = ConnectedConns)'
BY ListedAreConnected, PTL

\* Of what c says another peer hears no less than it did, and misses nothing if it is
\* in the audience whenever its socket works.
LEMMA SpeechIsHeard ==
    ASSUME SaidInv, OrderKept, NEW c \in Conn, NEW ms, NEW audience, Speaks(c, ms, audience),
           NEW d \in Conn, d # c, NothingMissed(d),
           state'[d] = state[d], sock'[d] = "open" => sock[d] = "open",
           d \in audience => state[d] = Connected,
           state[d] = Connected => d \in audience
    PROVE  NothingMissed(d)'
<1>1. /\ Len(said') = Len(said) + Len(ms) /\ DOMAIN said' = 1 .. Len(said) + Len(ms)
      /\ \A k \in DOMAIN said : said'[k] = said[k]
      /\ \A i \in DOMAIN ms : said'[Len(said) + i] = ms[i]
      /\ Len(said) \in Nat /\ Len(ms) \in Nat /\ DOMAIN said = 1 .. Len(said)
      /\ DOMAIN ms = 1 .. Len(ms)
  <2>1. said \in Seq(Entries) /\ ms \in Seq(Entries)
    BY DEF SaidInv, SaidTypeOK, Speaks
  <2>2. DOMAIN said = 1 .. Len(said) /\ DOMAIN ms = 1 .. Len(ms)
    BY <2>1
  <2> QED
    BY <2>2, SpeechIsNew
<1>2. PICK n \in 0 .. Len(ms) :
          /\ heard'[d] = heard[d] \o SubSeq(ms, 1, n)
          /\ n > 0 => d \in audience /\ sock[d] = "open"
          /\ d \in audience /\ sock'[d] = "open" => n = Len(ms)
  BY DEF Speaks, HearsSome
<1>3. heard[d] \in Seq(Entries) /\ ms \in Seq(Entries)
  BY DEF SaidInv, SaidTypeOK, Speaks
<1>4. Heard(d)' = Heard(d) \cup {ms[i] : i \in 1 .. n}
  <2>0. SubSeq(ms, 1, n) \in Seq(Entries)
    BY <1>3
  <2>1. PICK p \in Seq(Entries) : p = SubSeq(ms, 1, n)
    BY <2>0
  <2>2. Len(p) = n /\ \A i \in 1 .. n : p[i] = ms[i]
    BY <1>3, <2>1
  <2>3. PICK h \in Seq(Entries) : h = heard[d]
    BY <1>3
  <2>4. /\ DOMAIN (h \o p) = 1 .. Len(h) + n /\ Len(h) \in Nat /\ DOMAIN h = 1 .. Len(h)
        /\ \A i \in 1 .. Len(h) : (h \o p)[i] = h[i]
        /\ \A i \in 1 .. n : (h \o p)[Len(h) + i] = ms[i]
    BY <2>2
  <2>5. Heard(d)' = {(h \o p)[i] : i \in 1 .. Len(h) + n}
    BY <1>2, <2>1, <2>3, <2>4 DEF Heard
  <2>6. Heard(d) = {h[i] : i \in 1 .. Len(h)}
    BY <2>3, <2>4 DEF Heard
  <2>7. ASSUME NEW i \in 1 .. Len(h) + n
        PROVE  (h \o p)[i] \in {h[j] : j \in 1 .. Len(h)} \cup {ms[j] : j \in 1 .. n}
    <3>1. CASE i \in 1 .. Len(h)
      BY <3>1, <2>4
    <3>2. CASE i \notin 1 .. Len(h)
      <4>1. i - Len(h) \in 1 .. n /\ i = Len(h) + (i - Len(h))
        BY <3>2, <2>4
      <4>2. PICK j \in 1 .. n : i = Len(h) + j
        BY <4>1
      <4> QED
        BY <4>2, <2>4
    <3> QED
      BY <3>1, <3>2
  <2>8. ASSUME NEW j \in 1 .. Len(h) PROVE \E i \in 1 .. Len(h) + n : (h \o p)[i] = h[j]
    BY <2>4
  <2>9. ASSUME NEW j \in 1 .. n PROVE \E i \in 1 .. Len(h) + n : (h \o p)[i] = ms[j]
    <3>1. Len(h) + j \in 1 .. Len(h) + n /\ (h \o p)[Len(h) + j] = ms[j]
      BY <2>4
    <3> QED
      BY <3>1
  <2> QED
    BY <2>5, <2>6, <2>7, <2>8, <2>9
<1>5. Heard(d) \subseteq {said[k] : k \in DOMAIN said}
  <2> SUFFICES ASSUME NEW i \in DOMAIN heard[d] PROVE \E k \in DOMAIN said : heard[d][i] = said[k]
    BY DEF Heard
  <2>1. PICK k \in Due(d) : heard[d][i] = said[k]
    BY DEF OrderKept
  <2>2. k \in DOMAIN said
    BY <1>1 DEF Due, SaidInv, SaidTypeOK
  <2> QED
    BY <2>1, <2>2
<1>6. since'[d] = since[d] /\ since[d] \in Nat
  BY DEF Speaks, SaidInv, SaidTypeOK
<1>7. \A k \in Due(d)' : k \in Due(d) \/ (k - Len(said) \in 1 .. Len(ms) /\ said'[k] = ms[k - Len(said)])
  <2> SUFFICES ASSUME NEW k \in since[d] + 1 .. Len(said) + Len(ms), said'[k].from # d
               PROVE  k \in Due(d) \/ (k - Len(said) \in 1 .. Len(ms) /\ said'[k] = ms[k - Len(said)])
    BY <1>1, <1>6 DEF Due
  <2>1. CASE k <= Len(said)
    BY <2>1, <1>1, <1>6 DEF Due
  <2>2. CASE ~ (k <= Len(said))
    <3>1. k - Len(said) \in 1 .. Len(ms) /\ k = Len(said) + (k - Len(said))
      BY <2>2, <1>1, <1>6
    <3> QED
      BY <3>1, <1>1
  <2> QED
    BY <2>1, <2>2
<1>8. \A k \in Due(d) : k \in DOMAIN said /\ said'[k] = said[k]
  BY <1>1, <1>6 DEF Due
<1>9. \A i \in 1 .. Len(ms), k \in DOMAIN said : ms[i] # said[k]
  BY <1>1 DEF Speaks
<1>10. \A i, j \in 1 .. Len(ms) : ms[i] = ms[j] => i = j
  BY <1>1 DEF Speaks
<1>11. ASSUME NEW k \in Due(d)', state'[d] = Connected, sock'[d] = "open"
       PROVE  said'[k] \in Heard(d)'
  <2>1. d \in audience /\ n = Len(ms) /\ state[d] = Connected /\ sock[d] = "open"
    BY <1>2, <1>11
  <2>2. CASE k \in Due(d)
    BY <2>1, <2>2, <1>4, <1>8 DEF NothingMissed
  <2>3. CASE k \notin Due(d)
    BY <2>1, <2>3, <1>4, <1>7
  <2> QED
    BY <2>2, <2>3
<1>12. ASSUME NEW k \in Due(d)', NEW l \in Due(d)', k < l, said'[l] \in Heard(d)'
       PROVE  said'[k] \in Heard(d)'
  <2>1. CASE l \in Due(d)
    <3>1. said[l] \in Heard(d)
      <4>1. \A i \in 1 .. n : i \in 1 .. Len(ms)
        OBVIOUS
      <4> QED
        BY <2>1, <4>1, <1>4, <1>8, <1>9, <1>12
    <3>2. k \in Due(d)
      <4>1. l \in Int /\ k \in Int /\ l <= Len(said)
        BY <2>1, <1>1, <1>6 DEF Due
      <4> QED
        BY <4>1, <1>1, <1>7, <1>12
    <3> QED
      BY <2>1, <3>1, <3>2, <1>4, <1>8, <1>12 DEF NothingMissed
  <2>2. CASE l \notin Due(d)
    <3>1. PICK j \in 1 .. Len(ms) : j = l - Len(said) /\ said'[l] = ms[j]
      BY <2>2, <1>7
    <3>2. ms[j] \notin Heard(d)
      BY <1>5, <1>9
    <3>3. PICK m \in 1 .. n : ms[j] = ms[m]
      BY <3>1, <3>2, <1>4, <1>12
    <3>4. j \in 1 .. n
      BY <3>3, <1>10
    <3>5. CASE k \in Due(d)
      <4>1. n > 0
        BY <3>4
      <4>2. d \in audience /\ sock[d] = "open" /\ state[d] = Connected
        BY <4>1, <1>2
      <4> QED
        BY <4>2, <3>5, <1>4, <1>8 DEF NothingMissed
    <3>6. CASE k \notin Due(d)
      <4>1. PICK i \in 1 .. Len(ms) : i = k - Len(said) /\ said'[k] = ms[i]
        BY <3>6, <1>7
      <4>2. l \in Int /\ k \in Int
        BY <1>1, <1>6 DEF Due
      <4>3. i \in 1 .. n
        BY <3>1, <3>4, <4>1, <4>2, <1>1, <1>12
      <4> QED
        BY <4>1, <4>3, <1>4
    <3> QED
      BY <3>5, <3>6
  <2> QED
    BY <2>1, <2>2
<1> QED
  BY <1>11, <1>12 DEF NothingMissed

\* c itself misses nothing by speaking.
LEMMA SpeakerMissesNothing ==
    ASSUME SaidInv, NEW c \in Conn, NEW ms, NEW audience, Speaks(c, ms, audience), NothingMissed(c),
           \/ since'[c] = Len(said)
           \/ since'[c] = since[c] /\ state'[c] = state[c] /\ sock'[c] = sock[c]
    PROVE  NothingMissed(c)'
<1>1. /\ Len(said') = Len(said) + Len(ms)
      /\ \A k \in DOMAIN said : said'[k] = said[k]
      /\ \A i \in DOMAIN ms : said'[Len(said) + i] = ms[i]
      /\ Len(said) \in Nat /\ Len(ms) \in Nat /\ DOMAIN said = 1 .. Len(said)
      /\ DOMAIN ms = 1 .. Len(ms) /\ since[c] \in Nat
  BY SpeechIsNew DEF SaidInv, SaidTypeOK, Speaks
<1>2. Heard(c)' = Heard(c)
  <2>1. PICK n \in 0 .. Len(ms) : heard'[c] = heard[c] \o SubSeq(ms, 1, n) /\ ~ (n > 0)
    BY DEF Speaks, HearsSome
  <2>2. n = 0 /\ SubSeq(ms, 1, 0) = <<>>
    BY <2>1, <1>1 DEF Speaks
  <2>3. heard[c] \in Seq(Entries)
    BY DEF SaidInv, SaidTypeOK
  <2>4. heard'[c] = heard[c]
    BY <2>1, <2>2, <2>3
  <2> QED
    BY <2>4 DEF Heard
<1>3. ASSUME NEW k \in Due(c)'
      PROVE  k <= Len(said) /\ k \in Int /\ k > since'[c]
  <2>1. k \in since'[c] + 1 .. Len(said) + Len(ms) /\ said'[k].from # c
    BY <1>1 DEF Due
  <2>2. since'[c] \in Nat
    BY DEF Speaks
  <2>3. CASE k <= Len(said)
    BY <2>1, <2>2, <2>3
  <2>4. CASE ~ (k <= Len(said))
    <3>1. k - Len(said) \in DOMAIN ms /\ k = Len(said) + (k - Len(said))
      BY <2>1, <2>2, <2>4, <1>1
    <3>2. PICK i \in DOMAIN ms : k = Len(said) + i
      BY <3>1
    <3>3. said'[k].from = c
      BY <3>2, <1>1 DEF Speaks
    <3> QED
      BY <2>1, <3>3
  <2> QED
    BY <2>3, <2>4
<1>4. CASE since'[c] = Len(said)
  <2>1. Due(c)' = {}
    BY <1>1, <1>3, <1>4
  <2> QED
    BY <2>1 DEF NothingMissed
<1>5. CASE since'[c] = since[c] /\ state'[c] = state[c] /\ sock'[c] = sock[c]
  <2>1. ASSUME NEW k \in Due(c)' PROVE k \in Due(c) /\ said'[k] = said[k]
    <3>1. k \in since[c] + 1 .. Len(said) /\ k \in DOMAIN said
      BY <1>1, <1>3, <1>5
    <3>2. said'[k].from # c
      BY DEF Due
    <3> QED
      BY <3>1, <3>2, <1>1 DEF Due
  <2> QED
    BY <2>1, <1>2, <1>5 DEF NothingMissed
<1> QED
  BY <1>4, <1>5

\* Where nothing is said nothing is missed.
LEMMA QuietMissesNothing ==
    ASSUME \A d \in Conn : NothingMissed(d), UNCHANGED <<said, heard, since>>,
           \A d \in Conn : state'[d] = Connected /\ sock'[d] = "open"
                             => state[d] = Connected /\ sock[d] = "open"
    PROVE  \A d \in Conn : NothingMissed(d)'
BY DEF NothingMissed, Due, Heard

LEMMA CloseMissesNothing ==
    ASSUME HearInv, NEW c \in Conn, NEW w, NEW sk \in [Conn -> Sockets], NEW er \in [Conn -> BOOLEAN],
           \A d \in Conn \ {c} : sk[d] = sock[d], Close(c, w, sk, er), since' = since
    PROVE  \A d \in Conn : NothingMissed(d)'
<1>1. state \in [Conn -> {Unknown, Connected, Closed}] /\ SaidInv
  BY DEF HearInv, OrderInv, SocketInv
<1>2. /\ UNCHANGED <<said, heard>>
      /\ state' = [state EXCEPT ![c] = Closed]
      /\ sock' = [sk EXCEPT ![c] = "dead"]
  BY <1>1, CloseIsQuiet
<1>3. \A d \in Conn : state'[d] = Connected /\ sock'[d] = "open"
                        => state[d] = Connected /\ sock[d] = "open"
  BY <1>1, <1>2
<1> QED
  BY <1>2, <1>3, QuietMissesNothing DEF HearInv

\* A broadcast goes to every other connected peer: the manager lists them all and their
\* ids differ from the speaker's.
LEMMA AllAreHearers ==
    ASSUME ChatInv, NEW c \in Conn, state[c] = Connected
    PROVE  Hearers(c) = ConnectedConns \ {c}
<1>1. Listed = ConnectedConns /\ IdsDistinct(Made)
  BY ListedAreConnected DEF ChatInv, IdInv
<1>2. ConnectedConns \subseteq Made /\ c \in Made
  BY StatesDiffer DEF ConnectedConns, Made
<1> QED
  BY <1>1, <1>2 DEF Hearers, Audience, IdsDistinct, ConnectedConns

LEMMA HearersStayAll ==
    ASSUME NEW c \in Conn
    PROVE  ChatInv' /\ state'[c] = Connected => Hearers(c)' = ConnectedConns' \ {c}
<1>1. ChatInv /\ state[c] = Connected => Hearers(c) = ConnectedConns \ {c}
  BY AllAreHearers
<1>2. (ChatInv /\ state[c] = Connected => Hearers(c) = ConnectedConns \ {c})'
  BY <1>1, PTL
<1> QED
  BY <1>2

LEMMA AcceptMissesNothing ==
    ASSUME HearInv, ChatInv', NEW c \in Conn, sock[c] = "none", NEW r \in Requests, Accept(c, r)
    PROVE  \A d \in Conn : NothingMissed(d)'
<1>1. SocketInv /\ SaidInv /\ OrderKept /\ \A d \in Conn : NothingMissed(d)
  BY DEF HearInv, OrderInv
<1>2. /\ \E ms : Speaks(c, ms, Hearers(c)')
      /\ state' = [state EXCEPT ![c] = Connected]
      /\ since'[c] = Len(said)
      /\ \A d \in Conn \ {c} : sock'[d] = sock[d] \/ (state[d] = Connected /\ sock'[d] = "dead")
  BY <1>1, AcceptSpeaks
<1>3. PICK ms, there : there = Hearers(c)' /\ Speaks(c, ms, there)
  BY <1>2
<1>4. state'[c] = Connected /\ \A d \in Conn \ {c} : state'[d] = state[d]
  BY <1>1, <1>2 DEF SocketInv
<1>5. there = ConnectedConns' \ {c}
  BY <1>3, <1>4, HearersStayAll
<1>6. NothingMissed(c)'
  BY <1>1, <1>2, <1>3, SpeakerMissesNothing
<1>7. ASSUME NEW d \in Conn, d # c PROVE NothingMissed(d)'
  <2>1. (d \in there <=> state[d] = Connected) /\ state'[d] = state[d]
    BY <1>4, <1>5, <1>7 DEF ConnectedConns
  <2>2. sock'[d] = "open" => sock[d] = "open"
    BY <1>2, <1>7
  <2> QED
    BY <2>1, <2>2, <1>1, <1>3, <1>7, SpeechIsHeard
<1> QED
  BY <1>6, <1>7

LEMMA DataMissesNothing ==
    ASSUME HearInv, NEW c \in Conn, SocketData(c)
    PROVE  \A d \in Conn : NothingMissed(d)'
<1>1. SocketInv /\ SaidInv /\ OrderKept /\ \A d \in Conn : NothingMissed(d)
  BY DEF HearInv, OrderInv
<1>2. /\ \E ms : Speaks(c, ms, Hearers(c))
      /\ \A d \in Conn : sock'[d] = sock[d] \/ (state[d] = Connected /\ sock'[d] = "dead")
  BY <1>1, DataSpeaks
<1>3. UNCHANGED <<state, since>> /\ sock[c] = "open"
  BY DEF SocketData
<1>4. PICK ms, there : there = Hearers(c) /\ Speaks(c, ms, there)
  BY <1>2
<1>5. \A d \in Conn : sock'[d] = "open" => sock[d] = "open"
  BY <1>2
<1>6. \A d \in there : state[d] = Connected
  BY <1>4 DEF Hearers, Audience
<1>7. PICK n : Deliver(there, Messages(c, n), sock, errDue)
  BY <1>4 DEF SocketData
<1>8. sock'[c] = sock[c]
  <2>1. c \notin there /\ sock \in [Conn -> Sockets] /\ errDue \in [Conn -> BOOLEAN]
    BY <1>1, <1>4 DEF Speaks, SocketInv
  <2> QED
    BY <2>1, <1>7, DeliverBreaks
<1>9. NothingMissed(c)'
  BY <1>1, <1>3, <1>4, <1>8, SpeakerMissesNothing
<1>10. state[c] = Connected
  BY <1>1, <1>3 DEF HearInv, ChatInv, TellInv, Told, SocketInv
<1>11. there = ConnectedConns \ {c}
  BY <1>4, <1>10, AllAreHearers DEF HearInv
<1>12. ASSUME NEW d \in Conn, d # c PROVE NothingMissed(d)'
  <2>1. d \in there <=> state[d] = Connected
    BY <1>11, <1>12 DEF ConnectedConns
  <2> QED
    BY <2>1, <1>1, <1>3, <1>4, <1>5, <1>12, SpeechIsHeard
<1> QED
  BY <1>9, <1>12

LEMMA HearSteps == ASSUME SameWidthPorts, HearInv, [ChatNext]_chatVars PROVE HearInv'
<1>1. ChatInv' /\ OrderInv'
  BY ChatSteps, OrderSteps DEF HearInv
<1>2. /\ SocketInv /\ \A d \in Conn : NothingMissed(d)
      /\ sock \in [Conn -> Sockets] /\ errDue \in [Conn -> BOOLEAN]
  BY DEF HearInv, OrderInv, SocketInv
<1>3. ASSUME NEW c \in Conn, Upgrade(c) PROVE \A d \in Conn : NothingMissed(d)'
  <2>1. PICK r \in Requests, port \in Port :
          IF Reason(r) = "" THEN Accept(c, r) ELSE Reject(c, r, MakeId(port))
    BY <1>3 DEF Upgrade
  <2>2. sock[c] = "none"
    BY <1>3 DEF Upgrade
  <2>3. CASE Reason(r) = ""
    BY <2>1, <2>2, <2>3, <1>1, AcceptMissesNothing
  <2>4. CASE Reason(r) # ""
    <3>1. PICK sk \in [Conn -> Sockets] :
            sk = [sock EXCEPT ![c] = IF Reason(r) = "version" THEN "dead" ELSE "open"]
      BY <1>2 DEF Sockets
    <3>2. Close(c, MakeId(port), sk, errDue) /\ since' = since
      BY <2>1, <2>4, <3>1 DEF Reject
    <3>3. \A d \in Conn \ {c} : sk[d] = sock[d]
      BY <1>2, <3>1
    <3> QED
      BY <1>2, <3>2, <3>3, CloseMissesNothing
  <2> QED
    BY <2>3, <2>4
<1>4. ASSUME NEW c \in Conn, IgnoredUpgrade(c) \/ SocketBreaks(c) PROVE \A d \in Conn : NothingMissed(d)'
  <2>1. UNCHANGED <<state, heard, said, since>>
    BY <1>4 DEF IgnoredUpgrade, SocketBreaks
  <2>2. sock' = [sock EXCEPT ![c] = "unserved"] \/ sock' = [sock EXCEPT ![c] = "dead"]
    BY <1>4 DEF IgnoredUpgrade, SocketBreaks
  <2>3. \A d \in Conn : sock'[d] = "open" => sock[d] = "open"
    BY <1>2, <2>2
  <2> QED
    BY <2>1, <2>3, <1>2, QuietMissesNothing
<1>5. ASSUME NEW c \in Conn, SocketData(c) PROVE \A d \in Conn : NothingMissed(d)'
  BY <1>5, DataMissesNothing
<1>6. ASSUME NEW c \in Conn, SocketEnd(c) PROVE \A d \in Conn : NothingMissed(d)'
  BY <1>2, <1>6, CloseMissesNothing DEF SocketEnd
<1>7. ASSUME NEW c \in Conn, SocketError(c) PROVE \A d \in Conn : NothingMissed(d)'
  <2>1. PICK er \in [Conn -> BOOLEAN] : er = [errDue EXCEPT ![c] = FALSE]
    BY <1>2
  <2>2. Close(c, id[c], sock, er) /\ since' = since
    BY <2>1, <1>7 DEF SocketError
  <2> QED
    BY <2>2, <1>2, CloseMissesNothing
<1>8. ASSUME UNCHANGED chatVars PROVE \A d \in Conn : NothingMissed(d)'
  <2>1. UNCHANGED <<state, sock, heard, said, since>>
    BY <1>8 DEF chatVars, connVars, netVars
  <2> QED
    BY <2>1, <1>2, QuietMissesNothing
<1>9. \A d \in Conn : NothingMissed(d)'
  BY <1>3, <1>4, <1>5, <1>6, <1>7, <1>8 DEF ChatNext
<1> QED
  BY <1>1, <1>9 DEF HearInv

\* Every connected peer whose socket still works has heard all that the others said since
\* it came, once each and in order; one whose socket died a beginning of it
\* (connection.js:287-293).
THEOREM EveryoneHearsEver == SameWidthPorts => (ChatSpec => []EveryoneHears)
<1> SUFFICES ASSUME SameWidthPorts PROVE ChatSpec => []EveryoneHears
  OBVIOUS
<1>1. ChatInit => HearInv
  <2> SUFFICES ASSUME ChatInit, NEW d \in Conn PROVE NothingMissed(d)
    BY ChatStarts, OrderStarts DEF HearInv
  <2>1. Len(said) = 0 /\ since[d] = 0
    <3>1. Len(<<>>) = 0
      OBVIOUS
    <3> QED
      BY <3>1 DEF ChatInit
  <2>2. Due(d) = {}
    BY <2>1 DEF Due
  <2> QED
    BY <2>2 DEF NothingMissed
<1>2. HearInv /\ [ChatNext]_chatVars => HearInv'
  BY HearSteps
<1>3. HearInv => EveryoneHears
  BY DEF HearInv, OrderInv, EveryoneHears, NothingMissed
<1> QED
  BY <1>1, <1>2, <1>3, PTL DEF ChatSpec

=============================================================================
