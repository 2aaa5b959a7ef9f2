----------------------------- MODULE DBManager -----------------------------
(***************************************************************************)
(* Database connections (sys/db/DBManager.java): a pool from which every   *)
(* thread takes a connection for one query and gives it back after it; in  *)
(* between the thread's own one is kept in a ThreadLocal.  QueryHelper     *)
(* calls getConnection and, in a finally block, closeConnection around     *)
(* every statement.                                                        *)
(*                                                                         *)
(* The pool itself is external (BoneCP).  It hands out idle connections    *)
(* and lets a thread wait while there are none; when it throws, the thread *)
(* has no connection and its statement fails.                              *)
(***************************************************************************)
EXTENDS Integers, FiniteSets

CONSTANTS Thread,       \* the threads that serve requests
          PoolConn,     \* the connections of the pool
          NoConn,       \* null
          MaxLost       \* bound on the connections that cannot be given back

ASSUME PoolAssumption == NoConn \notin PoolConn /\ MaxLost \in Nat

VARIABLES conns,        \* DBManager.conns, of each thread
          idle,         \* the connections that the pool has
          lost          \* taken from the pool, and nobody has them any more

poolVars == <<conns, idle, lost>>

PoolTypeOK ==
    /\ conns \in [Thread -> PoolConn \cup {NoConn}]
    /\ idle \in SUBSET PoolConn
    /\ lost \in SUBSET PoolConn

PoolInit ==
    /\ conns = [t \in Thread |-> NoConn]
    /\ idle = PoolConn
    /\ lost = {}

\* A thread keeps the connection it has.  One that has none waits until the pool
\* has one, or goes on without, when the pool throws because the database cannot be
\* reached.
getConnection(t) ==
    IF conns[t] # NoConn
    THEN UNCHANGED poolVars
    ELSE \/ \E c \in idle : conns' = [conns EXCEPT ![t] = c] /\ idle' = idle \ {c} /\ UNCHANGED lost
         \/ UNCHANGED poolVars

\* Mutant: the thread keeps its reference to the connection.
closeConnectionKept(t) ==
    /\ idle' = idle \cup ({conns[t]} \ {NoConn})
    /\ UNCHANGED <<conns, lost>>

\* The connection goes back to the pool.  If setAutoCommit throws, which it does
\* on a connection that broke, close is not called, but the thread lets go of the
\* connection nevertheless.
closeConnection(t) ==
    LET held == {conns[t]} \ {NoConn}
    IN  /\ conns' = [conns EXCEPT ![t] = NoConn]
        /\ \/ /\ idle' = idle \cup held
              /\ UNCHANGED lost
           \/ /\ held # {} /\ Cardinality(lost) < MaxLost
              /\ lost' = lost \cup held
              /\ UNCHANGED idle

-----------------------------------------------------------------------------
\* No connection is in two hands: idle in the pool, lent to one thread or lost
\* (DBManager.java:83-110).
ConnsAccounted ==
    /\ idle \cap lost = {}
    /\ \A t \in Thread : conns[t] # NoConn =>
          /\ conns[t] \notin idle \cup lost
          /\ \A u \in Thread \ {t} : conns[u] # conns[t]
    /\ PoolConn \subseteq idle \cup lost \cup {conns[t] : t \in Thread}
=============================================================================
