----------------------------- MODULE ChatServer -----------------------------
(***************************************************************************)
(* The chat server: connections (lib/ws/connection.js), the manager that   *)
(* lists them (WsManager), the server that turns the manager's events into *)
(* its own (lib/ws/server.js) and the chat application on top of it        *)
(* (chat-server.js).                                                       *)
(*                                                                         *)
(* Node runs one handler at a time and every emit calls the listeners      *)
(* before it returns, so a handler with all that it sets off is one action *)
(* here.  What interleaves is the handlers: upgrade requests, data, the    *)
(* end of a stream and errors of the sockets of all the peers.  A write to *)
(* a socket that fails destroys it at once, but its error event comes      *)
(* later; between the two the connection still is "connected".             *)
(*                                                                         *)
(* Only what is heard of a message is kept: who spoke and which of his     *)
(* messages it was.  Frames and bytes are the subject of WsParser.         *)
(***************************************************************************)
EXTENDS WsManager

CONSTANTS MaxMessages,   \* bound on the messages of one peer
          ServerVersion  \* options.version: "auto", "draft75" or "draft76"

Versions == {"draft75", "draft76"}

ASSUME ChatAssumption ==
    MaxMessages \in Nat /\ ServerVersion \in Versions \cup {"auto"}

VARIABLES state,         \* connection._state, 0 before there is a connection
          sock,          \* the socket: see Sockets
          errDue,        \* the socket has an error event to deliver
          sent,          \* how many messages the peer has sent
          heard,         \* what was written to the peer's socket
          rejected,      \* why the connection was rejected, "" if it was not
          opens,         \* "connection" events of the server
          leaves,        \* "disconnect" events of the server
          closes,        \* "close" events of the connection
          said,          \* history: everything broadcast, in order
          since          \* history: Len(said) when the connection attached

netVars   == <<sock, errDue, sent>>
eventVars == <<opens, leaves, closes>>
connVars  == <<state, rejected, netVars, heard, eventVars, said, since>>
chatVars  == <<idVars, listVars, connVars>>

\* The states of a connection (connection.js:239-247).  States 1 to 3 and 5 last
\* only within a handler; 2 is never set.
Unknown == 0   Opening == 1   Handshaking == 3
Connected == 4   Closing == 5   Closed == 6

\* No connection yet; an upgrade that is not for a WebSocket, left alone; in use;
\* destroyed, by the server or because an operation on it failed.
Sockets == {"none", "unserved", "open", "dead"}

Reasons == {"", "version", "key3", "host", "keys"}

Joined == 0      \* the announcement of a connection, before its messages 1, 2 ..
Left   == -1     \* the announcement that it left

Entries == [from : Conn, what : -1 .. MaxMessages]

ChatTypeOK ==
    /\ IdTypeOK /\ ListTypeOK
    /\ state \in [Conn -> {Unknown, Connected, Closed}]
    /\ rejected \in [Conn -> Reasons]
    /\ sock \in [Conn -> Sockets]
    /\ errDue \in [Conn -> BOOLEAN]
    /\ sent \in [Conn -> 0 .. MaxMessages]
    /\ heard \in [Conn -> Seq(Entries)]
    /\ opens \in [Conn -> Nat] /\ leaves \in [Conn -> Nat] /\ closes \in [Conn -> Nat]
    /\ said \in Seq(Entries)
    /\ since \in [Conn -> Nat]

ChatInit ==
    /\ ManagerInit
    /\ state = [c \in Conn |-> Unknown]
    /\ rejected = [c \in Conn |-> ""]
    /\ sock = [c \in Conn |-> "none"]
    /\ errDue = [c \in Conn |-> FALSE]
    /\ sent = [c \in Conn |-> 0]
    /\ heard = [c \in Conn |-> <<>>]
    /\ opens = [c \in Conn |-> 0]
    /\ leaves = [c \in Conn |-> 0]
    /\ closes = [c \in Conn |-> 0]
    /\ said = <<>>
    /\ since = [c \in Conn |-> 0]

-----------------------------------------------------------------------------
(* Events and broadcasts. *)

\* The events of the server that chat-server.js listens to, and the name under
\* which the server emits the manager's "detach".
ServerListeners == {"connection", "error", "disconnected"}
DetachEvent == "disconnect"

\* Whom connection.broadcast and server.broadcast write to: the clients of the
\* list that are connected, without those that have the speaker's id.
Audience == {d \in Listed : state[d] = Connected}

\* Mutant: the speaker hears itself.
HearersEcho(c) == Audience

Hearers(c) == {d \in Audience : id[d] # id[c]}

\* Mutant: after a write that failed the socket is used on.
DeliverOnBroken(audience, ms, sk, er) ==
    \E cut \in [{d \in audience : sk[d] = "open"} -> 0 .. Len(ms)] :
        /\ heard' = [d \in Conn |->
                       IF d \in DOMAIN cut THEN heard[d] \o SubSeq(ms, 1, cut[d])
                       ELSE heard[d]]
        /\ sock' = sk
        /\ errDue' = er
        /\ said' = said \o ms

\* The entries ms are broadcast to the audience within one handler, when the
\* sockets are sk and the errors to deliver er.  A write to a socket that is not
\* open is dropped; one that fails destroys the socket, and its peer hears
\* nothing from there on.
Deliver(audience, ms, sk, er) ==
    \E cut \in [{d \in audience : sk[d] = "open"} -> 0 .. Len(ms)] :
        LET broken == {d \in DOMAIN cut : cut[d] < Len(ms)}
        IN  /\ heard' = [d \in Conn |->
                           IF d \in DOMAIN cut THEN heard[d] \o SubSeq(ms, 1, cut[d])
                           ELSE heard[d]]
            /\ sock' = [d \in Conn |-> IF d \in broken THEN "dead" ELSE sk[d]]
            /\ errDue' = [d \in Conn |-> d \in broken \/ er[d]]
            /\ said' = said \o ms

\* The next n messages of a peer.
Messages(c, n) == [i \in 1 .. n |-> [from |-> c, what |-> sent[c] + i]]

-----------------------------------------------------------------------------
(* state(5): close the socket, set state 6, detach, emit "close". *)

\* The function close flushes, ends and destroys the socket; of an open one,
\* flushing or ending may fail, which leaves an error event behind.
Ended(c, sk) == [sk EXCEPT ![c] = "dead"]
ErrorsAfter(c, sk, er, failed) == [er EXCEPT ![c] = @ \/ (sk[c] = "open" /\ failed)]

\* Mutant: the state is left at closing.
CloseUnfinished(c, w, sk, er) ==
    /\ state' = [state EXCEPT ![c] = Closing]
    /\ DetachNode(w)
    /\ closes' = [closes EXCEPT ![c] = @ + 1]
    /\ leaves' = IF Found(w) = {} THEN leaves ELSE [leaves EXCEPT ![c] = @ + 1]
    /\ \E failed \in BOOLEAN :
          Deliver({}, <<>>, Ended(c, sk), ErrorsAfter(c, sk, er, failed))

\* Mutant: a connection is only detached if its socket still was open.
CloseDeadListed(c, w, sk, er) ==
    /\ state' = [state EXCEPT ![c] = Closed]
    /\ IF sk[c] = "open" THEN DetachNode(w) ELSE UNCHANGED listVars
    /\ closes' = [closes EXCEPT ![c] = @ + 1]
    /\ leaves' = IF Found(w) = {} \/ sk[c] # "open" THEN leaves
               ELSE [leaves EXCEPT ![c] = @ + 1]
    /\ \E failed \in BOOLEAN :
          Deliver({}, <<>>, Ended(c, sk), ErrorsAfter(c, sk, er, failed))

\* Mutant: "detach" is emitted whether or not the client was found.
CloseAlwaysTold(c, w, sk, er) ==
    /\ state' = [state EXCEPT ![c] = Closed]
    /\ DetachNode(w)
    /\ closes' = [closes EXCEPT ![c] = @ + 1]
    /\ leaves' = [leaves EXCEPT ![c] = @ + 1]
    /\ \E failed \in BOOLEAN :
          Deliver({}, <<>>, Ended(c, sk), ErrorsAfter(c, sk, er, failed))

\* sk and er are the sockets and the pending errors before; w is the id of the
\* connection.  state() has no guard: a connection that is closed already goes
\* through all of it again.
Close(c, w, sk, er) ==
    /\ state' = [state EXCEPT ![c] = Closed]
    /\ DetachNode(w)
    /\ closes' = [closes EXCEPT ![c] = @ + 1]
    /\ leaves' = IF Found(w) = {} THEN leaves ELSE [leaves EXCEPT ![c] = @ + 1]
    /\ \E failed \in BOOLEAN :
          LET departure == IF Found(w) # {} /\ DetachEvent \in ServerListeners
                           THEN <<[from |-> c, what |-> Left]>> ELSE <<>>
          IN  Deliver(Audience', departure,
                      Ended(c, sk), ErrorsAfter(c, sk, er, failed))

-----------------------------------------------------------------------------
(* An upgrade request: the constructor of Connection. *)

\* What matters of a request: whether it asks for a WebSocket, which headers it
\* has, and whether the bytes that came with it are fewer than the 8 of key3, just
\* those or more.
Requests == [websocket : BOOLEAN, version : Versions, host : BOOLEAN,
             keys : BOOLEAN, body : {"short", "key3", "more"}]

VersionAccepted(r) == ServerVersion \in {"auto", r.version}

\* The reason for which the constructor rejects a request, in the order in which
\* it looks.
Reason(r) ==
    IF ~ VersionAccepted(r) THEN "version"
    ELSE IF r.version = "draft76" /\ r.body = "short" THEN "key3"
    ELSE IF ~ r.host THEN "host"
    ELSE IF r.version = "draft76" /\ ~ r.keys THEN "keys"
    ELSE ""

\* The handshake succeeds: the answer is written, the connection is attached and
\* announced, and the messages in the first frames, if any, are handled.
Accept(c, r) ==
    /\ state' = [state EXCEPT ![c] = Connected]
    /\ AttachNode(c)
    /\ opens' = [opens EXCEPT ![c] = @ + 1]
    /\ since' = [since EXCEPT ![c] = Len(said)]
    /\ \E n \in 0 .. MaxMessages, written \in BOOLEAN :
          /\ n > 0 => r.version = "draft76" /\ r.body = "more"
          /\ sent' = [sent EXCEPT ![c] = n]
          /\ Deliver(Hearers(c)',
                     <<[from |-> c, what |-> Joined]>> \o Messages(c, n),
                     [sock EXCEPT ![c] = IF written THEN "open" ELSE "dead"],
                     [errDue EXCEPT ![c] = ~ written])
    /\ UNCHANGED <<rejected, leaves, closes>>

\* The handshake fails.  A connection that is rejected for its version has no
\* handler for the errors of its socket yet.
Reject(c, r, w) ==
    /\ rejected' = [rejected EXCEPT ![c] = Reason(r)]
    /\ Close(c, w, [sock EXCEPT ![c] = IF Reason(r) = "version" THEN "dead" ELSE "open"],
             errDue)
    /\ UNCHANGED <<sent, opens, since>>

Upgrade(c) ==
    /\ sock[c] = "none"
    /\ \E r \in Requests, port \in Port :
          /\ r.websocket
          /\ CreateId(c, port)
          /\ IF Reason(r) = "" THEN Accept(c, r) ELSE Reject(c, r, MakeId(port))

\* A request that the server's filter does not let through: nobody serves the
\* socket and nobody closes it.
IgnoredUpgrade(c) ==
    /\ sock[c] = "none"
    /\ sock' = [sock EXCEPT ![c] = "unserved"]
    /\ UNCHANGED <<idVars, listVars, state, rejected, errDue, sent, heard,
                   eventVars, said, since>>

-----------------------------------------------------------------------------
(* Events of the socket of a connection. *)

\* Data with n complete messages: each is broadcast, in order.
SocketData(c) ==
    /\ sock[c] = "open"
    /\ \E n \in 1 .. MaxMessages - sent[c] :
          /\ Deliver(Hearers(c), Messages(c, n), sock, errDue)
          /\ sent' = [sent EXCEPT ![c] = @ + n]
    /\ UNCHANGED <<idVars, listVars, state, rejected, eventVars, since>>

\* The peer ended the stream.
SocketEnd(c) ==
    /\ sock[c] = "open"
    /\ Close(c, id[c], sock, errDue)
    /\ UNCHANGED <<idVars, rejected, sent, opens, since>>

\* The network breaks the socket: node destroys it and has an error to deliver.
SocketBreaks(c) ==
    /\ sock[c] = "open"
    /\ sock' = [sock EXCEPT ![c] = "dead"]
    /\ errDue' = [errDue EXCEPT ![c] = TRUE]
    /\ UNCHANGED <<idVars, listVars, state, rejected, sent, heard, eventVars,
                   said, since>>

\* Mutant: a broken pipe (errno 32) is passed over.
SocketErrorIgnored(c) ==
    /\ errDue[c]
    /\ errDue' = [errDue EXCEPT ![c] = FALSE]
    /\ UNCHANGED <<idVars, listVars, state, rejected, sock, sent, heard, eventVars,
                   said, since>>

\* The error event, whichever errno it has.
SocketError(c) ==
    /\ errDue[c]
    /\ Close(c, id[c], sock, [errDue EXCEPT ![c] = FALSE])
    /\ UNCHANGED <<idVars, rejected, sent, opens, since>>

ChatNext ==
    \E c \in Conn : \/ Upgrade(c) \/ IgnoredUpgrade(c)
                    \/ SocketData(c) \/ SocketEnd(c)
                    \/ SocketBreaks(c) \/ SocketError(c)

ChatSpec == ChatInit /\ [][ChatNext]_chatVars

-----------------------------------------------------------------------------
(* Properties. *)

ConnectedConns == {c \in Conn : state[c] = Connected}

\* Between two handlers the manager lists exactly the connections in state 4
\* (connection.js:61-75), so that a broadcast can reach all of them.
RosterExact == ListHolds(ConnectedConns)

\* What d should have heard: the places of what was said since it attached, by others.
Due(d) == {k \in since[d] + 1 .. Len(said) : said[k].from # d}

\* Even if ids collide, so that broadcasts miss peers, no peer hears an entry
\* twice, in another order than it was said in, from before it came or from
\* itself (connection.js:287-293).
OrderKept ==
    \A d \in Conn :
        /\ \A i \in DOMAIN heard[d] : \E k \in Due(d) : heard[d][i] = said[k]
        /\ \A i, j \in DOMAIN heard[d], k, l \in DOMAIN said :
              i < j /\ heard[d][i] = said[k] /\ heard[d][j] = said[l] => k < l

Heard(d) == {heard[d][i] : i \in DOMAIN heard[d]}

\* Every connected peer whose socket still works has heard everything that the
\* others said since it came, once each and in the one order in which it was said,
\* nothing of its own, and the announcement of a peer before its messages
\* (connection.js:287-293); a peer whose socket died heard a beginning of that.
EveryoneHears ==
    /\ OrderKept
    /\ \A d \in Conn : \A k \in Due(d) :
          /\ state[d] = Connected /\ sock[d] = "open" => said[k] \in Heard(d)
          /\ \A l \in Due(d) : k < l /\ said[l] \in Heard(d) => said[k] \in Heard(d)

\* The application is told of a connection once, of its end once, and of no end
\* of a connection it was not told of; of a rejected one it is told nothing, and that
\* one hears nothing (server.js:71-72).  Nobody stays in the list as connected on a
\* socket that is gone for good: while a connection in state 4 has a dead socket, the
\* error event that will detach it is still to come (connection.js:113-119, 163-173).
EndsAreTold ==
    \A c \in Conn :
        /\ leaves[c] <= opens[c] /\ opens[c] <= 1
        /\ state[c] = Closed => leaves[c] = opens[c]
        /\ rejected[c] # "" => opens[c] = 0 /\ heard[c] = <<>>
        /\ state[c] = Connected /\ sock[c] = "dead" => errDue[c]

\* The application means to tell everybody when a connection has left
\* (chat-server.js:22-24).
DeparturesAnnounced ==
    \A c \in Conn :
        leaves[c] > 0 => \E i \in DOMAIN said : said[i] = [from |-> c, what |-> Left]
=============================================================================
