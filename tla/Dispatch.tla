------------------------------ MODULE Dispatch ------------------------------
(***************************************************************************)
(* The dispatch of requests to actions (mvc/ActionServlet.java).  The      *)
(* servlet keeps one object for each action.  It makes those of a list     *)
(* before the first request, the others when a request asks for them.      *)
(* Requests run at the same time, one on each thread; making an action     *)
(* takes several steps, and the map of actions is only locked for the last *)
(* of them.                                                                *)
(*                                                                         *)
(* web.xml names one package, so that a name stands for one class.         *)
(***************************************************************************)
EXTENDS Integers, Sequences, FiniteSets

CONSTANTS Thread,       \* the threads that serve requests
          Main,         \* the thread on which the container starts the servlet
          Name,         \* first parts of the paths that are mapped to the servlet
          Loadable,     \* those for which there is a class
          Initial,      \* the parameter initial_actions
          Method,       \* names that come as second part
          Index,        \* "index"
          Public,       \* the shapes of the public methods with these names
          NoMethod,     \* null
          Nobody        \* no action: null

Shape == {"nothing", "context", "contextAndId", "three", "misfit"}

ASSUME DispatchAssumption ==
    /\ Main \notin Thread /\ Name # {} /\ Loadable \subseteq Name /\ Index \in Method
    /\ Initial \in Seq(Name) /\ \A i, j \in DOMAIN Initial : Initial[i] = Initial[j] => i = j
    /\ Public \in [Name \X Method -> SUBSET Shape] /\ NoMethod \notin Shape
    /\ Nobody \notin Nat

\* What follows the name in a path.
Call == [method : Method, id : BOOLEAN]

\* What the locals hold between requests does not matter.
AnyName == CHOOSE n \in Name : TRUE
AnyCall == CHOOSE c \in Call : TRUE

VARIABLES actions,      \* the map: for each name the number of an object, or Nobody
          made,         \* the objects: for which name, and on which thread, each was made
          ready,        \* the objects whose init has been called
          loaded,       \* how many of the initial actions have been tried
          chosen,       \* the method that getActionMethod finds
          pc,           \* the next step of each request
          asked,        \* the action it asks for, parts[0]
          action,       \* the local variable action
          call,         \* the rest of its path
          outcome       \* what doProcess came to

vars == <<actions, made, ready, loaded, chosen, pc, asked, action, call, outcome>>

Outcomes == [kind : {"notFound", "failed", "nothing"}] \cup [kind : {"called"}, method : Method]

TypeOK ==
    /\ actions \in [Name -> DOMAIN made \cup {Nobody}]
    /\ made \in Seq([name : Loadable, by : Thread \cup {Main}])
    /\ ready \subseteq DOMAIN made
    /\ loaded \in 0 .. Len(Initial)
    /\ chosen \in [Name \X Method -> Shape \cup {NoMethod}]
    /\ pc \in [Thread -> {"idle", "lookup", "create", "init", "test", "put", "invoke", "reply"}]
    /\ asked \in [Thread -> Name]
    /\ call \in [Thread -> Call]
    /\ action \in [Thread -> DOMAIN made \cup {Nobody}]
    /\ outcome \in [Thread -> Outcomes]

\* getMethods lists methods of one name in an order of its own, and the first one is
\* taken.  The order does not change while the program runs, so that it makes no
\* difference that a method once found is kept in a map.
Overloaded == {key \in Name \X Method : Cardinality(Public[key]) > 1}

FirstOf(key, picked) ==
    IF key \in Overloaded THEN picked[key]
    ELSE IF Public[key] = {} THEN NoMethod ELSE CHOOSE shape \in Public[key] : TRUE

getActionMethod ==
    {[key \in Name \X Method |-> FirstOf(key, picked)] :
        picked \in {f \in [Overloaded -> Shape] : \A key \in Overloaded : f[key] \in Public[key]}}

Init ==
    /\ actions = [n \in Name |-> Nobody]
    /\ made = <<>> /\ ready = {} /\ loaded = 0
    /\ chosen \in getActionMethod
    /\ pc = [t \in Thread |-> "idle"]
    /\ asked = [t \in Thread |-> AnyName] /\ call = [t \in Thread |-> AnyCall]
    /\ action = [t \in Thread |-> Nobody]
    /\ outcome = [t \in Thread |-> [kind |-> "nothing"]]

-----------------------------------------------------------------------------
(* The start of the servlet.  No request comes before it is over. *)

Make(n, t) == made' = Append(made, [name |-> n, by |-> t])

\* loadAction for the next initial action; it may fail, and the next is tried.
InitialAction ==
    /\ loaded < Len(Initial)
    /\ loaded' = loaded + 1
    /\ LET n == Initial[loaded + 1]
           new == Len(made) + 1
       IN  \/ /\ n \in Loadable
              /\ Make(n, Main)
              /\ ready' = ready \cup {new}
              /\ actions' = [actions EXCEPT ![n] = new]
           \/ UNCHANGED <<made, ready, actions>>
    /\ UNCHANGED <<chosen, pc, asked, action, outcome, call>>

-----------------------------------------------------------------------------
(* A request. *)

At(t, step) == pc[t] = step

GoTo(t, step) == pc' = [pc EXCEPT ![t] = step]

\* doProcess is over.
Ends(t, result) == GoTo(t, "reply") /\ outcome' = [outcome EXCEPT ![t] = result]

Begin(t) ==
    /\ loaded = Len(Initial)
    /\ At(t, "idle")
    /\ \E n \in Name : asked' = [asked EXCEPT ![t] = n]
    /\ GoTo(t, "lookup")
    /\ UNCHANGED <<actions, made, ready, loaded, chosen, action, outcome, call>>

\* Mutant: every request makes an object of its own.
LookupNever(t) ==
    /\ At(t, "lookup")
    /\ GoTo(t, "create")
    /\ UNCHANGED <<actions, made, ready, loaded, chosen, asked, action, outcome, call>>

Lookup(t) ==
    LET found == actions[asked[t]]
    IN  /\ At(t, "lookup")
        /\ action' = [action EXCEPT ![t] = found]
        /\ GoTo(t, IF found = Nobody THEN "create" ELSE "invoke")
        /\ UNCHANGED <<actions, made, ready, loaded, chosen, asked, outcome, call>>

\* There is no class, or no object of it can be made: 404.
NotLoaded(t) ==
    /\ At(t, "create")
    /\ Ends(t, [kind |-> "notFound"])
    /\ UNCHANGED <<actions, made, ready, loaded, chosen, asked, action, call>>

Create(t) ==
    /\ At(t, "create")
    /\ asked[t] \in Loadable
    /\ Make(asked[t], t)
    /\ action' = [action EXCEPT ![t] = Len(made) + 1]
    /\ GoTo(t, "init")
    /\ UNCHANGED <<actions, ready, loaded, chosen, asked, outcome, call>>

\* Mutant: an object that was made goes into the map before it is initialised.
InitActionLate(t) ==
    /\ At(t, "init")
    /\ GoTo(t, "test")
    /\ UNCHANGED <<actions, made, ready, loaded, chosen, asked, action, outcome, call>>

\* init is called if there is one; an exception of it is only printed.
InitAction(t) ==
    /\ At(t, "init")
    /\ ready' = ready \cup {action[t]}
    /\ GoTo(t, "test")
    /\ UNCHANGED <<actions, made, loaded, chosen, asked, action, outcome, call>>

\* Mutant: the object is only put in if the name is there already.
TestKeyInverted(t) ==
    /\ At(t, "test")
    /\ GoTo(t, IF actions[asked[t]] = Nobody THEN "invoke" ELSE "put")
    /\ UNCHANGED <<actions, made, ready, loaded, chosen, asked, action, outcome, call>>

\* Outside of the lock: whether the name is still without an object.
TestKey(t) ==
    /\ At(t, "test")
    /\ GoTo(t, IF actions[asked[t]] = Nobody THEN "put" ELSE "invoke")
    /\ UNCHANGED <<actions, made, ready, loaded, chosen, asked, action, outcome, call>>

\* Within the lock.  Another thread may have put one in since the test; it is
\* replaced.
Put(t) ==
    /\ At(t, "put")
    /\ actions' = [actions EXCEPT ![asked[t]] = action[t]]
    /\ GoTo(t, "invoke")
    /\ UNCHANGED <<made, ready, loaded, chosen, asked, action, outcome, call>>

\* Mutant: a method that is missing, or lacks its id, is looked for no further.
CalledStrict(n, m, id) ==
    LET shape == chosen[n, m]
    IN  CASE shape \in {"nothing", "context"} -> [kind |-> "called", method |-> m]
          [] shape = "contextAndId" /\ id -> [kind |-> "called", method |-> m]
          [] OTHER -> [kind |-> "nothing"]

\* What becomes of a call: index is called in place of a method that is missing and
\* of one that takes an id when there is none; a method of three parameters is left
\* alone; all else ends in an exception, which doProcess catches.
Called(n, m, id) ==
    LET target == IF chosen[n, m] = NoMethod THEN Index ELSE m
        shape  == chosen[n, target]
    IN  CASE shape \in {"nothing", "context"} \/ (shape = "contextAndId" /\ id)
                 -> [kind |-> "called", method |-> target]
          [] shape = "contextAndId" /\ ~ id /\ chosen[n, Index] = "context" -> [kind |-> "called", method |-> Index]
          [] shape = "three" -> [kind |-> "nothing"]
          [] OTHER -> [kind |-> "failed"]

\* The rest of the path is first looked at here.
Invoke(t) ==
    /\ At(t, "invoke")
    /\ \E c \in Call :
          /\ call' = [call EXCEPT ![t] = c]
          /\ Ends(t, Called(asked[t], c.method, c.id))
    /\ UNCHANGED <<actions, made, ready, loaded, chosen, asked, action>>

\* The page of the action, an error page, a redirection if doProcess failed and the
\* request names a page for that, or nothing.
Reply(t) ==
    /\ At(t, "reply")
    /\ GoTo(t, "idle")
    /\ asked' = [asked EXCEPT ![t] = AnyName]
    /\ call' = [call EXCEPT ![t] = AnyCall]
    /\ action' = [action EXCEPT ![t] = Nobody]
    /\ outcome' = [outcome EXCEPT ![t] = [kind |-> "nothing"]]
    /\ UNCHANGED <<actions, made, ready, loaded, chosen>>

Go(t) ==
    \/ Lookup(t) \/ NotLoaded(t) \/ Create(t) \/ InitAction(t) \/ TestKey(t) \/ Put(t)
    \/ Invoke(t) \/ Reply(t)

Next == InitialAction \/ \E t \in Thread : Begin(t) \/ Go(t)

Spec == Init /\ [][Next]_vars

-----------------------------------------------------------------------------
(* Properties. *)

\* The object that a request calls was made for the name it asks for, and its init
\* has been called, whoever made it (ActionServlet.java:201-239).
ReadyWhenCalled ==
    \A t \in Thread : At(t, "invoke") =>
        action[t] \in ready /\ made[action[t]].name = asked[t]

\* Several threads may each make an object for a name that is not loaded, as the test
\* for the name and its insertion are apart; but no thread makes a second one, so
\* there are at most as many as there are threads (ActionServlet.java:230-234).
OncePerThread ==
    \A i, j \in DOMAIN made : made[i].name = made[j].name /\ made[i].by = made[j].by => i = j

\* An action that was loaded when the servlet started is never made again, and all
\* requests for it use the one object (ActionServlet.java:67-77, 203-204).
InitialActionsShared ==
    \A i \in DOMAIN made : made[i].by = Main =>
        /\ actions[made[i].name] = i
        /\ \A j \in DOMAIN made : made[j].name = made[i].name => j = i
        /\ \A t \in Thread : At(t, "invoke") /\ asked[t] = made[i].name => action[t] = i

\* A request for an action whose class has a public index is answered by a method of it:
\* by the one asked for, or by index if that is missing or needs an id that was not
\* given.  The exception is a method for which a public one of three parameters came first
\* (ActionServlet.java:152-181).
IndexStandsIn ==
    \A t \in Thread :
        LET name    == asked[t]
            methods == Public[name, call[t].method]
            stands  == methods = {} \/ (methods = {"contextAndId"} /\ ~ call[t].id)
        IN  /\ At(t, "reply") /\ outcome[t].kind # "notFound"
            /\ Public[name, Index] = {"context"} /\ methods \cap {"three", "misfit"} = {}
            => outcome[t] = [kind |-> "called", method |-> IF stands THEN Index ELSE call[t].method]
=============================================================================
