----------------------------- MODULE Deferreds -----------------------------
(***************************************************************************)
(* jQuery's deferreds (js/jquery-1.5.1.js:810-984): lists of callbacks     *)
(* that are called when the deferred is resolved or rejected, and when(),  *)
(* which makes one of several.  A callback of the page may put callbacks   *)
(* on any deferred, resolve and reject it, or throw, in the middle of the  *)
(* list that it is called from.                                            *)
(*                                                                         *)
(* A deferred is two simple ones, "done" and "fail", each with its list.   *)
(* Contexts and arguments of callbacks are left out.                       *)
(***************************************************************************)
EXTENDS Integers, Sequences, FiniteSets

CONSTANTS Given,        \* how many deferreds the page has made for when(), which makes one more
          MaxCallbacks, \* bound on the callbacks that the page puts on them
          MaxActs       \* and on how often callbacks of the page do something

ASSUME DeferredsAssumption == Given \in Nat \ {0, 1} /\ MaxCallbacks \in Nat /\ MaxActs \in Nat

Deferred == 1 .. Given + 1

\* The one that when() returns.
Master == Given + 1

Side == {"done", "fail"}

Other(side) == IF side = "done" THEN "fail" ELSE "done"

VARIABLES lists,        \* of each deferred and side: the callbacks and the three flags
          attached,     \* how many lists when() has put its callback on
          count,        \* how many of the given deferreds it waits for
          made,         \* the callbacks of the page that were made: what each was put on
          called,       \* those that were called, in their order
          calling,      \* the lists that are being called, the innermost first
          acts,         \* how often callbacks have done something
          threw         \* whether one threw

deferredVars == <<lists, attached, count, made, called, calling, acts, threw>>

CallbackType == [kind : {"page", "cancel", "count", "reject"}, n : Nat]
ListType == [callbacks : Seq(CallbackType), fired : BOOLEAN, firing : BOOLEAN, cancelled : BOOLEAN]
FrameType == [list : Deferred \X Side, page : BOOLEAN]

DeferredsTypeOK ==
    /\ lists \in [Deferred \X Side -> ListType]
    /\ attached \in 0 .. 2 * Given /\ count \in 0 .. Given
    /\ made \in Seq(Deferred \X Side) /\ called \in Seq(Nat)
    /\ calling \in Seq(FrameType)
    /\ acts \in 0 .. MaxActs /\ threw \in BOOLEAN

Callback(kind, n) == [kind |-> kind, n |-> n]

\* "Make sure only one callback list will be used".
DeferredsInit ==
    /\ lists = [l \in Deferred \X Side |-> [callbacks |-> <<Callback("cancel", 0)>>, fired |-> FALSE,
                                            firing |-> FALSE, cancelled |-> FALSE]]
    /\ attached = 0
    /\ count = Given
    /\ made = <<>> /\ called = <<>> /\ calling = <<>> /\ acts = 0 /\ threw = FALSE

-----------------------------------------------------------------------------

\* resolveWith of a simple deferred: its list is called, unless it was or is being called.
resolveWith(ls, l, frames) ==
    IF ls[l].cancelled \/ ls[l].fired \/ ls[l].firing THEN lists' = ls /\ calling' = frames
    ELSE /\ lists' = [ls EXCEPT ![l].firing = TRUE]
         /\ calling' = <<[list |-> l, page |-> FALSE]>> \o frames

\* done or fail of a deferred, on one of the simple ones: if it was resolved, its list is called again.
addTo(l, callback, frames) ==
    LET put == [lists EXCEPT ![l].callbacks = Append(@, callback), ![l].fired = FALSE]
    IN  CASE lists[l].cancelled -> lists' = lists /\ calling' = frames
          [] ~ lists[l].cancelled /\ lists[l].fired -> resolveWith(put, l, frames)
          [] OTHER -> lists' = put /\ calling' = frames

Calls == calling # <<>> /\ ~ Head(calling).page

\* The list that is being called, and the first callback on it.
List == Head(calling).list

First == Head(lists[List].callbacks)

Shifted == [lists EXCEPT ![List].callbacks = Tail(@)]

CallNext == Calls /\ lists[List].callbacks # <<>>

\* Mutant: the other list can still be called.
CancelNothing ==
    /\ CallNext /\ First.kind = "cancel"
    /\ lists' = Shifted
    /\ UNCHANGED <<attached, count, made, called, calling, acts, threw>>

Cancel ==
    /\ CallNext /\ First.kind = "cancel"
    /\ lists' = [Shifted EXCEPT ![<<List[1], Other(List[2])>>].cancelled = TRUE,
                                ![<<List[1], Other(List[2])>>].callbacks = <<>>]
    /\ UNCHANGED <<attached, count, made, called, calling, acts, threw>>

\* Mutant: when() does not wait for all.
CountFirst ==
    /\ CallNext /\ First.kind = "count"
    /\ count' = count - 1
    /\ resolveWith(Shifted, <<Master, "done">>, calling)
    /\ UNCHANGED <<attached, made, called, acts, threw>>

\* iCallback of when(): the last one resolves.
Count ==
    /\ CallNext /\ First.kind = "count"
    /\ count' = count - 1
    /\ IF count' = 0 THEN resolveWith(Shifted, <<Master, "done">>, calling)
       ELSE lists' = Shifted /\ calling' = calling
    /\ UNCHANGED <<attached, made, called, acts, threw>>

Reject ==
    /\ CallNext /\ First.kind = "reject"
    /\ resolveWith(Shifted, <<Master, "fail">>, calling)
    /\ UNCHANGED <<attached, count, made, called, acts, threw>>

CallPage ==
    /\ CallNext /\ First.kind = "page"
    /\ lists' = Shifted
    /\ called' = Append(called, First.n)
    /\ calling' = <<[Head(calling) EXCEPT !.page = TRUE]>> \o Tail(calling)
    /\ UNCHANGED <<attached, count, made, acts, threw>>

PageReturns ==
    /\ calling # <<>> /\ Head(calling).page
    /\ calling' = <<[Head(calling) EXCEPT !.page = FALSE]>> \o Tail(calling)
    /\ UNCHANGED <<lists, attached, count, made, called, acts, threw>>

Over(ls, l) == [ls EXCEPT ![l].fired = TRUE, ![l].firing = FALSE]

ListEnds ==
    /\ Calls /\ lists[List].callbacks = <<>>
    /\ lists' = Over(lists, List) /\ calling' = Tail(calling)
    /\ UNCHANGED <<attached, count, made, called, acts, threw>>

\* What a callback throws ends all that runs, when() too, and leaves the rest of the lists.
PageThrows ==
    /\ calling # <<>> /\ Head(calling).page /\ acts < MaxActs
    /\ lists' = [l \in DOMAIN lists |-> IF \E i \in DOMAIN calling : calling[i].list = l
                                        THEN Over(lists, l)[l] ELSE lists[l]]
    /\ calling' = <<>> /\ threw' = TRUE /\ acts' = acts + 1
    /\ attached' = IF attached = 0 THEN 0 ELSE 2 * Given
    /\ UNCHANGED <<count, made, called>>

-----------------------------------------------------------------------------
(* The page, from outside or in a callback. *)

\* One step of when(), from the last deferred it was given to the first.
When ==
    /\ calling = <<>> /\ attached < 2 * Given
    /\ attached' = attached + 1
    /\ LET d == Given - attached \div 2
       IN  IF attached % 2 = 0 THEN addTo(<<d, "done">>, Callback("count", 0), <<>>)
                               ELSE addTo(<<d, "fail">>, Callback("reject", 0), <<>>)
    /\ UNCHANGED <<count, made, called, acts, threw>>

\* While when() runs nothing else does, but for the callbacks that it calls.
PageMay ==
    IF calling = <<>> THEN attached \in {0, 2 * Given} ELSE Head(calling).page /\ acts < MaxActs

\* On the deferred of when() it puts callbacks when it has been returned.
PageAdds ==
    /\ PageMay /\ Len(made) < MaxCallbacks
    /\ \E l \in Deferred \X Side :
          /\ l[1] = Master => attached = 2 * Given
          /\ made' = Append(made, l)
          /\ addTo(l, Callback("page", Len(made) + 1), calling)
    /\ acts' = IF calling = <<>> THEN acts ELSE acts + 1
    /\ UNCHANGED <<attached, count, called, threw>>

PageSettles ==
    /\ PageMay
    /\ \E d \in Deferred \ {Master}, side \in Side : resolveWith(lists, <<d, side>>, calling)
    /\ acts' = IF calling = <<>> THEN acts ELSE acts + 1
    /\ UNCHANGED <<attached, count, made, called, threw>>

DeferredsNext ==
    \/ Cancel \/ Count \/ Reject \/ CallPage \/ PageReturns \/ ListEnds
    \/ PageThrows \/ When \/ PageAdds \/ PageSettles

DeferredsSpec == DeferredsInit /\ [][DeferredsNext]_deferredVars

-----------------------------------------------------------------------------
(* Properties. *)

CalledBack == {called[i] : i \in DOMAIN called}

isResolved(l) == lists[l].fired \/ lists[l].firing

\* A deferred has one outcome: only callbacks for that one are called, each once and in the
\* order in which they were put on it; when nothing runs none is left that is due.
OneSide ==
    /\ \A d \in Deferred :
          /\ ~ (isResolved(<<d, "done">>) /\ isResolved(<<d, "fail">>))
          /\ \A m, n \in CalledBack : ~ (made[m] = <<d, "done">> /\ made[n] = <<d, "fail">>)
    /\ \A i, j \in DOMAIN called : i < j /\ made[called[i]] = made[called[j]] => called[i] < called[j]
    /\ \A n \in CalledBack, m \in DOMAIN made : m < n /\ made[m] = made[n] => m \in CalledBack
    /\ calling = <<>> /\ ~ threw => \A n \in DOMAIN made : isResolved(made[n]) => n \in CalledBack

\* when() is resolved with the last of its deferreds, and rejected with the first.
WhenWaitsForAll ==
    LET Resolved(d) == isResolved(<<d, "done">>)
        Rejected(d) == isResolved(<<d, "fail">>)
        given       == Deferred \ {Master}
    IN  /\ Resolved(Master) => \A d \in given : Resolved(d)
        /\ Rejected(Master) => \E d \in given : Rejected(d)
        /\ calling = <<>> /\ ~ threw /\ attached = 2 * Given =>
              /\ (\A d \in given : Resolved(d)) => Resolved(Master)
              /\ (\E d \in given : Rejected(d)) => Rejected(Master)

\* A deferred has one outcome, and tells it once to each callback that was put on it for that,
\* in their order and wherever that was done (833-860, 927-934), unless one throws; what when()
\* returns is resolved when all deferreds are that it was given, and rejected when
\* one of them is (949-984).
PromisesKept == OneSide /\ WhenWaitsForAll
=============================================================================
