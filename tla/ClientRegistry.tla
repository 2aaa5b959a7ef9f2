--------------------------- MODULE ClientRegistry ---------------------------
(***************************************************************************)
(* What the connection manager of the chat server promises: the clients    *)
(* that are attached, each of them once, in the order of their arrival.    *)
(* Nothing is said of ids, nodes or pointers; WsManager implements this    *)
(* with a linked list that is searched by id.                              *)
(***************************************************************************)
EXTENDS Integers, Sequences

CONSTANT Conn           \* the connections a server sees in its life

VARIABLES clients,      \* the attached connections, oldest first
          gone          \* those that were detached, attached before or not

registryVars == <<clients, gone>>

Attached == {clients[i] : i \in DOMAIN clients}

Init == clients = <<>> /\ gone = {}

\* A connection arrives once in its life, and after all the others.
Attach(c) ==
    /\ c \notin Attached \cup gone
    /\ clients' = Append(clients, c)
    /\ UNCHANGED gone

\* The k-th client out of the list; the others keep their order.
Without(k) == [i \in 1 .. Len(clients) - 1 |-> IF i < k THEN clients[i] ELSE clients[i + 1]]

\* A connection leaves; detaching one that is not there leaves the list alone.
Detach(c) ==
    /\ IF c \in Attached
       THEN \E k \in DOMAIN clients : clients[k] = c /\ clients' = Without(k)
       ELSE UNCHANGED clients
    /\ gone' = gone \cup {c}

Next == \E c \in Conn : Attach(c) \/ Detach(c)

Spec == Init /\ [][Next]_registryVars
=============================================================================
