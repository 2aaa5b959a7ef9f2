----------------------------- MODULE WsManager -----------------------------
(***************************************************************************)
(* The connection manager of the chat server (lib/ws/manager.js): a singly *)
(* linked list of client nodes with a head, a tail and a length, searched  *)
(* by the id that createId made up for the connection.                     *)
(*                                                                         *)
(* This module has the manager's variables and its operations, for         *)
(* ManagerSpec, which lets connections use them in every order, and for    *)
(* ChatServer, whose handlers call them.                                   *)
(*                                                                         *)
(* A connection is attached at most once, so the node that attach creates  *)
(* for it is identified with the connection and the node's _next with      *)
(* nxt[c].  The id is the text of the process id, the remote port and a    *)
(* counter, written one after the other; the process id is common to all   *)
(* the ids and is left out.                                                *)
(***************************************************************************)
EXTENDS Integers, Sequences, FiniteSets

CONSTANTS Conn,         \* the connections
          Null,         \* null, the end of the list
          Port,         \* the remote ports of the peers
          MaxCounter,   \* bound on _counter, the ids ever made
          Decimal(_)    \* the digits of a number, as JavaScript writes it

Counters == 0 .. MaxCounter

ASSUME NullAssumption == Null \notin Conn

ASSUME CounterAssumption == MaxCounter \in Nat

\* What is used of number formatting: it yields digits, and never the same
\* digits for two numbers.
ASSUME DecimalAssumption ==
    /\ Port \subseteq Nat
    /\ \A n \in Port \cup Counters : Decimal(n) \in Seq(0 .. 9)
    /\ \A m, n \in Port \cup Counters : Decimal(m) = Decimal(n) => m = n

VARIABLES id,           \* connection.id, <<>> before createId
          counter,      \* Manager._counter
          head,         \* Manager._head
          tail,         \* Manager._tail
          length,       \* Manager._length
          nxt           \* _next of the node of each connection

listVars == <<head, tail, length, nxt>>
idVars   == <<id, counter>>

IdTypeOK ==
    /\ id \in [Conn -> Seq(0 .. 9)]
    /\ counter \in 0 .. MaxCounter + 1

ListTypeOK ==
    /\ head \in Conn \cup {Null}
    /\ tail \in Conn \cup {Null}
    /\ length \in Nat
    /\ nxt \in [Conn -> Conn \cup {Null}]

\* The constructor of the manager; no connection has an id yet.
ManagerInit ==
    /\ id = [c \in Conn |-> <<>>]
    /\ counter = 0
    /\ head = Null
    /\ tail = Null
    /\ length = 0
    /\ nxt = [c \in Conn |-> Null]

-----------------------------------------------------------------------------
(* Walking the list. *)

\* S holds every node that a walk from the head reaches when it goes on from
\* the nodes of Pass only.
WalkClosed(S, Pass) ==
    /\ head # Null => head \in S
    /\ \A c \in S \cap Pass : nxt[c] # Null => nxt[c] \in S

Walk(Pass) == {c \in Conn : \A S \in SUBSET Conn : WalkClosed(S, Pass) => c \in S}

\* The clients that forEach, map and filter visit: all of the list.
Listed == Walk(Conn)

\* The nodes the loop of find and of detach looks at: it stops at the first
\* one with the id it looks for.
Visited(w) == Walk({c \in Conn : id[c] # w})

Found(w) == {c \in Visited(w) : id[c] = w}

-----------------------------------------------------------------------------
(* The list as a sequence, for the properties and proofs. *)

\* s is the list: its i-th node is s[i].
Elems(s) == {s[i] : i \in DOMAIN s}

IsList(s) ==
    /\ length \in Nat
    /\ s \in [1 .. length -> Conn]
    /\ \A i, j \in 1 .. length : s[i] = s[j] => i = j
    /\ head = IF length = 0 THEN Null ELSE s[1]
    /\ tail \in Conn \cup {Null}
    /\ length > 0 => tail = s[length]
    /\ nxt \in [Conn -> Conn \cup {Null}]
    /\ \A i \in 1 .. length : nxt[s[i]] = IF i = length THEN Null ELSE s[i + 1]

-----------------------------------------------------------------------------
(* The operations of the manager. *)

\* createId: the port, then the counter, and the counter moves on.
MakeId(port) == Decimal(port) \o Decimal(counter)

\* Mutant: the counter does not move on.
CreateIdStuck(c, port) ==
    /\ counter <= MaxCounter
    /\ id' = [id EXCEPT ![c] = MakeId(port)]
    /\ counter' = counter

CreateId(c, port) ==
    /\ counter <= MaxCounter
    /\ id' = [id EXCEPT ![c] = MakeId(port)]
    /\ counter' = counter + 1

\* Mutant: the tail is moved for the first client only.
AttachNodeOldTail(c) ==
    /\ head' = IF length = 0 THEN c ELSE head
    /\ tail' = IF length = 0 THEN c ELSE tail
    /\ nxt' = IF length = 0 THEN [nxt EXCEPT ![c] = Null]
              ELSE [nxt EXCEPT ![c] = Null, ![tail] = c]
    /\ length' = length + 1

\* attach: a new node behind the tail, or the only one if _length is 0.
AttachNode(c) ==
    /\ head' = IF length = 0 THEN c ELSE head
    /\ tail' = c
    /\ nxt' = IF length = 0 THEN [nxt EXCEPT ![c] = Null]
              ELSE [nxt EXCEPT ![c] = Null, ![tail] = c]
    /\ length' = length + 1

\* Mutant: the last node is removed, and the tail still is that node.
UnlinkOldTail(previous, current, w) ==
    /\ nxt' = [nxt EXCEPT ![previous] = nxt[current]]
    /\ head' = IF w = id[head] THEN nxt[current] ELSE head
    /\ tail' = tail
    /\ length' = length - 1

\* Mutant: previous is linked to the node itself, not to the one behind it.
UnlinkToCurrent(previous, current, w) ==
    /\ nxt' = [nxt EXCEPT ![previous] = current]
    /\ head' = IF w = id[head] THEN nxt[current] ELSE head
    /\ tail' = IF w = id[tail] THEN previous ELSE tail
    /\ length' = length - 1

\* The body of detach's loop once current has the id w: previous is the node
\* that was looked at before it, or current itself at the head.
Unlink(previous, current, w) ==
    LET newHead == IF w = id[head] THEN nxt[current] ELSE head
    IN  /\ nxt' = [nxt EXCEPT ![previous] = nxt[current]]
        /\ head' = newHead
        /\ tail' = IF w = id[tail] THEN previous ELSE tail
        /\ length' = length - 1

\* Mutant: the length goes down even if nothing was found.
DetachNodeCounting(w) ==
    \/ \E current \in Found(w), previous \in Visited(w) :
          /\ IF current = head THEN previous = head ELSE nxt[previous] = current
          /\ Unlink(previous, current, w)
    \/ Found(w) = {} /\ length' = length - 1 /\ UNCHANGED <<head, tail, nxt>>

\* detach, of the connection with id w: nothing happens if it is not found.
DetachNode(w) ==
    \/ \E current \in Found(w), previous \in Visited(w) :
          /\ IF current = head THEN previous = head ELSE nxt[previous] = current
          /\ Unlink(previous, current, w)
    \/ Found(w) = {} /\ UNCHANGED listVars

-----------------------------------------------------------------------------
(* What the users of the manager rely on. *)

\* No two of these connections have the same id, so that find and detach
\* (manager.js:68-113) look for one connection and no other.
IdsDistinct(S) == \A c, d \in S : c # d => id[c] # id[d]

\* The list that forEach walks (manager.js:115-122) holds these connections and
\* no others, the length counts them, and the tail, behind which attach links
\* the next one, is the last of them.
ListHolds(S) ==
    /\ Listed = S
    /\ length = Cardinality(S)
    /\ (length = 0) <=> (head = Null)
    /\ length > 0 => tail \in Listed /\ nxt[tail] = Null

\* The ports of the peers are all written with the same number of digits, as
\* the ephemeral ports of one operating system mostly are.
SameWidthPorts == \A p, q \in Port : Len(Decimal(p)) = Len(Decimal(q))

\* Even if ids collide, so that detach may unlink the wrong node, every walk of
\* the list comes to an end (the loops of manager.js:68-150 terminate), and no
\* node is reached that the length does not count.
WalkEnds ==
    /\ Listed # {} => \E c \in Listed : nxt[c] = Null
    /\ Cardinality(Listed) <= length
=============================================================================
