---------------------------- MODULE ManagerSpec ----------------------------
(***************************************************************************)
(* The connection manager under every order in which connections can use   *)
(* it: each one gets an id, is attached if its handshake succeeds, and is  *)
(* detached when it closes, attached before or not, and possibly again.    *)
(***************************************************************************)
EXTENDS WsManager

VARIABLE phase          \* how far each connection got

vars == <<phase, id, counter, head, tail, length, nxt>>

Phases == {"new", "opening", "attached", "detached"}

TypeOK == phase \in [Conn -> Phases] /\ IdTypeOK /\ ListTypeOK

Init == phase = [c \in Conn |-> "new"] /\ ManagerInit

Create(c) ==
    /\ phase[c] = "new"
    /\ \E port \in Port : CreateId(c, port)
    /\ phase' = [phase EXCEPT ![c] = "opening"]
    /\ UNCHANGED listVars

Attach(c) ==
    /\ phase[c] = "opening"
    /\ AttachNode(c)
    /\ phase' = [phase EXCEPT ![c] = "attached"]
    /\ UNCHANGED idVars

\* A connection detaches when its state goes from closing to closed, which may
\* happen without an attach before it and more than once.
Detach(c) ==
    /\ phase[c] # "new"
    /\ DetachNode(id[c])
    /\ phase' = [phase EXCEPT ![c] = "detached"]
    /\ UNCHANGED idVars

Next == \E c \in Conn : Create(c) \/ Attach(c) \/ Detach(c)

Spec == Init /\ [][Next]_vars

-----------------------------------------------------------------------------
Created    == {c \in Conn : phase[c] # "new"}
Registered == {c \in Conn : phase[c] = "attached"}

\* createId never makes an id twice (manager.js:39-41).
UniqueIds == IdsDistinct(Created)

\* After any history of attach and detach, the list holds exactly the attached
\* connections (manager.js:47-122).
RegistryExact == ListHolds(Registered)

Lists == {s \in [1 .. length -> Conn] : IsList(s)}

\* The nodes of the list, from the head on; nothing, if they make no list.
Clients == CHOOSE s \in Lists \cup {<<>>} : s \in Lists \/ Lists = {}

Detached == {c \in Conn : phase[c] = "detached"}

Registry == INSTANCE ClientRegistry WITH clients <- Clients, gone <- Detached

\* The manager implements ClientRegistry: the sequence of attached clients is the
\* list from the head on (manager.js:47-100).
ImplementsRegistry == Registry!Spec
=============================================================================
