---------------------------- MODULE SearchIndex ----------------------------
(***************************************************************************)
(* Writing the search index (common/LuceneHelper.java, called by           *)
(* AdminAction.updateIndex).  Each table has an index of its own, and each *)
(* index a write lock, which Lucene gives to one writer at a time.  What a *)
(* writer writes is seen when it is closed.  Requests to index overlap     *)
(* each other and the requests that change the tables.                     *)
(*                                                                         *)
(* Lucene is external: an index, a lock and the three things a writer does *)
(* are modelled from their use.  The lock of a writer that was opened and  *)
(* never closed stays taken as long as the program runs.                   *)
(***************************************************************************)
EXTENDS Articles

CONSTANTS Unlocked,     \* no thread
          Tables        \* the lists of tables that a request may name

ASSUME SearchIndexAssumption == Unlocked \notin Request /\ Tables \subseteq Seq(Table) \ {<<>>}

VARIABLES docs,         \* for each table the documents in its index
          lock,         \* who has the write lock
          step,         \* the next step of each request that indexes
          todo,         \* the tables it has before it
          create,       \* whether it rebuilds the index or updates it
          list,         \* the rows that it has read
          failed        \* for each table whether a request failed with the lock taken

indexVars == <<docs, lock, step, todo, create, list, failed>>
indexingVars == <<articleVars, indexVars>>

IndexTypeOK ==
    /\ ArticlesTypeOK
    /\ docs \in [Table -> SUBSET Article]
    /\ lock \in [Table -> Request \cup {Unlocked}]
    /\ step \in [Request -> {"idle", "open", "read", "write"}]
    /\ todo \in [Request -> Seq(Table)]
    /\ \A th \in Request : step[th] = "idle" <=> todo[th] = <<>>
    /\ create \in [Request -> BOOLEAN]
    /\ list \in [Request -> SUBSET Article]
    /\ failed \in [Table -> BOOLEAN]

IndexInit ==
    /\ ArticlesInit(0)
    /\ docs = [t \in Table |-> {}]
    /\ lock = [t \in Table |-> Unlocked]
    /\ step = [th \in Request |-> "idle"]
    /\ todo = [th \in Request |-> <<>>]
    /\ create = [th \in Request |-> FALSE]
    /\ list = [th \in Request |-> {}]
    /\ failed = [t \in Table |-> FALSE]

\* The table a request is at.
Current(th) == Head(todo[th])

StepTo(th, next) == step' = [step EXCEPT ![th] = next]

updateIndex(th) ==
    /\ step[th] = "idle"
    /\ \E tables \in Tables : todo' = [todo EXCEPT ![th] = tables]
    /\ \E rebuild \in BOOLEAN : create' = [create EXCEPT ![th] = rebuild]
    /\ StepTo(th, "open")
    /\ UNCHANGED <<docs, lock, list, failed>>

\* Mutant: the loop goes on after the last table.
NextTableOpen(th) ==
    /\ todo' = [todo EXCEPT ![th] = Tail(@)]
    /\ list' = [list EXCEPT ![th] = {}]
    /\ StepTo(th, "open") /\ UNCHANGED create

\* The loop goes on with the next table, whatever became of this one.
NextTable(th) ==
    LET rest == Tail(todo[th])
    IN  /\ todo' = [todo EXCEPT ![th] = rest]
        /\ list' = [list EXCEPT ![th] = {}]
        /\ IF rest = <<>>
           THEN StepTo(th, "idle") /\ create' = [create EXCEPT ![th] = FALSE]
           ELSE StepTo(th, "open") /\ UNCHANGED create

\* Mutant: the rows are read while waiting for the lock.
OpenWriterRead(th) ==
    /\ step[th] = "open"
    /\ IF list[th] = {} /\ rows[Current(th)] # {}
       THEN /\ list' = [list EXCEPT ![th] = rows[Current(th)]]
            /\ UNCHANGED <<docs, lock, todo, step, create, failed>>
       ELSE /\ lock[Current(th)] = Unlocked
            /\ lock' = [lock EXCEPT ![Current(th)] = th]
            /\ StepTo(th, "write")
            /\ UNCHANGED <<docs, todo, create, list, failed>>

\* The writer is opened, and with it the lock is taken.
OpenWriter(th) ==
    /\ step[th] = "open" /\ lock[Current(th)] = Unlocked
    /\ lock' = [lock EXCEPT ![Current(th)] = th]
    /\ StepTo(th, "read")
    /\ UNCHANGED <<docs, todo, create, list, failed>>

\* Mutant: a writer waits for the lock without end.
LockTimeoutNever(th) ==
    /\ step[th] = "open" /\ lock[Current(th)] # Unlocked
    /\ UNCHANGED indexVars

\* A writer waits a second for the lock; then the table is left out.
LockTimeout(th) ==
    /\ step[th] = "open" /\ lock[Current(th)] # Unlocked
    /\ NextTable(th)
    /\ UNCHANGED <<docs, lock, failed>>

ReadTable(th) ==
    /\ step[th] = "read"
    /\ list' = [list EXCEPT ![th] = rows[Current(th)]]
    /\ StepTo(th, "write")
    /\ UNCHANGED <<docs, lock, todo, create, failed>>

\* Mutant: an update adds the articles to what is there.
IndexedAdding(old, articles, rebuild) == IF rebuild THEN articles ELSE old \cup articles

\* A new index holds the articles alone; an update puts each in place of the document with
\* its number and keeps the others.
Indexed(old, articles, rebuild) ==
    IF rebuild THEN articles
    ELSE articles \cup {doc \in old : doc.id \notin Ids(articles)}

\* Mutant: a writer that had nothing to write is not closed.
CloseWriterFilled(th) ==
    /\ step[th] = "write"
    /\ docs' = [docs EXCEPT ![Current(th)] = Indexed(@, list[th], create[th])]
    /\ lock' = IF list[th] = {} THEN lock ELSE [lock EXCEPT ![Current(th)] = Unlocked]
    /\ NextTable(th)
    /\ UNCHANGED failed

CloseWriter(th) ==
    /\ step[th] = "write"
    /\ docs' = [docs EXCEPT ![Current(th)] = Indexed(@, list[th], create[th])]
    /\ lock' = [lock EXCEPT ![Current(th)] = Unlocked]
    /\ NextTable(th)
    /\ UNCHANGED failed

\* The statement fails, so that there is no list, or writing fails.  The exception is
\* caught where the writer is no more to be had; it is not closed.
IndexingFails(th) ==
    /\ step[th] \in {"read", "write"}
    /\ failed' = [failed EXCEPT ![Current(th)] = TRUE]
    /\ NextTable(th)
    /\ UNCHANGED <<docs, lock>>

\* One step of index, called by updateIndex.
Indexing(th) ==
    /\ \/ OpenWriter(th) \/ LockTimeout(th) \/ ReadTable(th)
       \/ CloseWriter(th) \/ IndexingFails(th)
    /\ UNCHANGED articleVars

IndexNext ==
    \/ \E t \in Table : Change(t) /\ UNCHANGED indexVars
    \/ \E th \in Request : (updateIndex(th) /\ UNCHANGED articleVars) \/ Indexing(th)

\* The threads of the container run on; the database and Lucene answer.
IndexFairness == \A th \in Request : WF_indexingVars(Indexing(th))

IndexSpec == IndexInit /\ [][IndexNext]_indexingVars /\ IndexFairness

-----------------------------------------------------------------------------
(* Properties. *)

\* However requests to rebuild and to update the index of a table overlap, no article is
\* found twice (LuceneHelper.java:115-118).
FoundOnce == \A t \in Table : \A d, e \in docs[t] : d.id = e.id => d = e

\* However they overlap each other and the changes of the table, the index never goes back:
\* a document is not replaced by an older revision, and none is dropped whose article is
\* still there.  This is so because a table is read with the lock of its index taken
\* (LuceneHelper.java:72-73, 94).
IndexMovesOn ==
    [][\A t \in Table : \A d \in docs[t] :
          IF d.id \in Ids(docs'[t]) THEN \E e \in docs'[t] : e.id = d.id /\ e.rev >= d.rev
          ELSE d.id \notin Ids(rows[t])]_docs

\* A lock is with a request that is at work on this table, unless a failure has left it
\* taken (LuceneHelper.java:70-77).
LockReturned ==
    \A t \in Table : lock[t] # Unlocked =>
        \/ failed[t]
        \/ step[lock[t]] \in {"read", "write"} /\ Current(lock[t]) = t

\* Even with locks that are left taken, a request to index comes to its end
\* (LuceneHelper.java:57-79).
IndexingEnds == \A th \in Request : step[th] # "idle" ~> step[th] = "idle"
=============================================================================
