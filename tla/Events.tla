------------------------------- MODULE Events -------------------------------
(***************************************************************************)
(* Events of jQuery (js/jquery-1.5.1.js:2136-2774, 3012-3273): functions   *)
(* are bound to an element, for once, or live for the elements below it    *)
(* that a selector means; a user clicks, or a page triggers a click, which *)
(* jQuery bubbles itself before it has the browser do what a click does.   *)
(* In the functions the page may bind, unbind and trigger again.           *)
(*                                                                         *)
(* There is one type of event.  Elements are numbered from the innermost   *)
(* to the document; each is the parent of the one before.  A list of       *)
(* functions is the set of them, as their numbers tell their order.        *)
(***************************************************************************)
EXTENDS Integers, Sequences

CONSTANTS Depth,        \* how many elements there are
          Matches,      \* the elements that each selector means
          Pages,        \* what a page binds and does, and how often at most
          MaxClicks     \* bound on clicks

Elements == 1 .. Depth
Selector == DOMAIN Matches
Kinds    == {"bind", "one", "live"}
Answers  == {"nothing", "false", "prevent", "stop", "immediate"}

ASSUME EventsAssumption ==
    /\ Depth \in Nat \ {0} /\ Matches \in [Selector -> SUBSET Elements]
    /\ Pages # {} /\ MaxClicks \in Nat
    /\ \A page \in Pages :
          /\ \A b \in page.bindings :
                b \in [kind : Kinds, elem : Elements, fn : STRING, ns : SUBSET STRING, selector : STRING]
          /\ page.answers \subseteq Answers

VARIABLES web,          \* which of the pages this is
          handlers,     \* events.click of each element
          live,         \* events.live of each element
          onclick,      \* the elements with an inline handler
          triggered,    \* jQuery.event.triggered
          dispatches,   \* the events on their way, the innermost first
          bound, acted, clicks

eventVariables == <<web, handlers, live, onclick, triggered, dispatches, bound, acted, clicks>>

counters == <<bound, acted, clicks>>

EventsInit ==
    /\ web \in Pages
    /\ handlers = [e \in Elements |-> {}] /\ live = handlers
    /\ onclick = web.onclick
    /\ triggered = FALSE /\ dispatches = <<>>
    /\ bound = 0 /\ acted = 0 /\ clicks = 0

\* An event at an element, and what was called for it.
Dispatch(native, target) ==
    [native |-> native, target |-> target, elem |-> target, pc |-> "arrive",
     typed |-> FALSE,           \* the type has its namespace still
     untyped |-> TRUE,          \* it had none when the event came to this element
     exclusive |-> FALSE, ns |-> {},
     stopped |-> FALSE, immediate |-> FALSE, prevented |-> FALSE,
     over |-> FALSE,            \* the browser's own event was stopped
     liveFired |-> 0,
     list |-> {},               \* the clone of the handlers, as far as they were not called
     lives |-> {},              \* the live functions to call, with their elements
     maxLevel |-> 0, answer |-> "nothing",
     old |-> FALSE,             \* an inline handler was taken off the target
     called |-> {},             \* what was called, on which element
     again |-> FALSE,           \* and called again
     meddled |-> FALSE,         \* another event took triggered back
     stoppedIn |-> 0,           \* where the first function stopped the event,
     stoppedAt |-> 0,           \* the element that this function was live for,
     late |-> FALSE]            \* and whether one was called that this was to prevent

Current == Head(dispatches)
Outer == Tail(dispatches)
EventAt(pc) == dispatches # <<>> /\ Current.pc = pc
Goes(event) == dispatches' = <<event>> \o Outer

-----------------------------------------------------------------------------
(* Binding. *)

\* handlers of a function, of all functions with the namespaces: what is left of them.
Without(list, fn, ns) == {b \in list : ~ (b.fn = fn /\ ns \subseteq b.ns)}
Outside(list, ns) == {b \in list : ~ (ns \subseteq b.ns)}

\* The one that was bound first.
Earliest(list) == CHOOSE b \in list : \A c \in list : b.id <= c.id

\* A live function is kept twice: as one of events.live, and as a call of liveHandler whose
\* namespaces are its own and its selector.
add(b) ==
    LET entry == [id |-> bound + 1, kind |-> b.kind, fn |-> b.fn, selector |-> b.selector,
                  ns |-> IF b.kind = "live" THEN b.ns \cup {b.selector} ELSE b.ns]
    IN  /\ handlers' = [handlers EXCEPT ![b.elem] = @ \cup {entry}]
        /\ live' = IF b.kind = "live" THEN [live EXCEPT ![b.elem] = @ \cup {entry}] ELSE live

\* Of a function, or all with the namespaces.  The entries of events.live stay.
unbind(e, fn, ns) == handlers' = [handlers EXCEPT ![e] = Without(@, fn, ns)]
unbindAll(e, ns) == handlers' = [handlers EXCEPT ![e] = Outside(@, ns)]

\* die: what goes of events.live takes its calls of liveHandler along.
die(e, fn, ns) ==
    LET gone == live[e] \ Without(live[e], fn, ns)
    IN  /\ live' = [live EXCEPT ![e] = Without(@, fn, ns)]
        /\ handlers' = [handlers EXCEPT ![e] =
              {b \in @ : \A c \in gone : ~ (b.fn = fn /\ c.ns \subseteq b.ns)}]

-----------------------------------------------------------------------------
(* Calling. *)

\* Mutant: also while the browser does what was triggered.
ListensAlways(e) == handlers[e] # {}

\* The listener that the browser calls, which lets pass what comes of a trigger.
Listens(e) == handlers[e] # {} /\ ~ triggered

\* handle: those of the namespace; if it is exclusive, those of none.  The type has no
\* namespace then, and further out all handlers are called.
handle(event) ==
    LET all == ~ event.typed /\ ~ event.exclusive
        ns  == IF event.typed THEN {"a"} ELSE {}
    IN  [event EXCEPT !.pc = "call", !.typed = FALSE,
            !.ns = IF @ = {} THEN ns ELSE @,
            !.list = {b \in handlers[event.elem] :
                        all \/ IF event.typed THEN ns \subseteq b.ns ELSE b.ns = {}}]

\* What is known of the calls that were made when one more is.
Noted(event, this, b) ==
    [event EXCEPT !.again = @ \/ <<this, b.id>> \in event.called,
                  !.called = @ \cup {<<this, b.id>>},
                  !.late = \/ @ \/ event.immediate
                           \/ event.stoppedIn > 0 /\ event.elem > event.stoppedIn
                           \/ b.kind = "live" /\ event.stoppedAt > 0 /\ this > event.stoppedAt]

\* The browser comes to an element, calls its inline handler, then the listener with a new
\* event of jQuery.
NativeArrive ==
    /\ EventAt("arrive") /\ Current.native
    /\ Goes([Current EXCEPT !.pc = IF Current.elem \in onclick THEN "inlinePage" ELSE "listen"])
    /\ UNCHANGED <<web, handlers, live, onclick, triggered, counters>>

NativeListen ==
    /\ EventAt("listen")
    /\ LET fixed == [Current EXCEPT !.stopped = FALSE, !.immediate = FALSE, !.liveFired = 0]
       IN  Goes(IF Listens(Current.elem) THEN handle(fixed) ELSE [Current EXCEPT !.pc = "up"])
    /\ UNCHANGED <<web, handlers, live, onclick, triggered, counters>>

TriggerArrive ==
    /\ EventAt("arrive") /\ ~ Current.native
    /\ LET event == [Current EXCEPT !.untyped = ~ Current.typed]
           data  == handlers[Current.elem] # {} \/ live[Current.elem] # {}
       IN  Goes(IF data /\ ~ triggered THEN handle(event) ELSE [event EXCEPT !.pc = "inline"])
    /\ UNCHANGED <<web, handlers, live, onclick, triggered, counters>>

\* A function bound with one is unbound first: with it go all entries of the function.
CallDirect ==
    /\ EventAt("call") /\ Current.list # {} /\ Earliest(Current.list).kind # "live"
    /\ LET b == Earliest(Current.list)
       IN  /\ Goes([Noted(Current, Current.elem, b) EXCEPT !.pc = "page", !.list = @ \ {b}])
           /\ IF b.kind = "one" THEN unbind(Current.elem, b.fn, {}) ELSE UNCHANGED handlers
    /\ UNCHANGED <<web, live, onclick, triggered, counters>>

Level(event, e) == e - event.target + 1

\* closest: from the target outwards to the element, for each selector that means the element
\* that it comes by, in the order in which they were first used, its functions.
Live(event) ==
    LET entries == live[event.elem]
        Used(b) == Earliest({c \in entries : c.selector = b.selector}).id
        Found(e, b) == [elem |-> e, used |-> Used(b), of |-> b]
    IN  {l \in {Found(e, b) : e \in event.target .. event.elem - 1, b \in entries} :
            event.ns \subseteq l.of.ns /\ l.elem \in Matches[l.of.selector]}

Sooner(l, k) == \/ l.elem < k.elem
                \/ l.elem = k.elem /\ l.used < k.used
                \/ l.elem = k.elem /\ l.used = k.used /\ l.of.id <= k.of.id

NextLive(lives) == CHOOSE l \in lives : \A k \in lives : Sooner(l, k)

\* liveHandler is there once for each live function, and works once for an event.
CallLive ==
    /\ EventAt("call") /\ Current.list # {} /\ Earliest(Current.list).kind = "live"
    /\ LET event == [Current EXCEPT !.list = @ \ {Earliest(@)}]
       IN  Goes(IF event.liveFired = event.elem \/ live[event.elem] = {} THEN event
               ELSE [event EXCEPT !.pc = "live", !.liveFired = event.elem, !.lives = Live(event),
                                  !.maxLevel = 0, !.answer = "nothing"])
    /\ UNCHANGED <<web, handlers, live, onclick, triggered, counters>>

\* Mutant: outer functions are called too.
InReachAll(event) == event.lives # {}

\* The next live function is not further out than one that stopped the event.
InReach(event) ==
    /\ event.lives # {}
    /\ event.maxLevel > 0 => Level(event, NextLive(event.lives).elem) <= event.maxLevel

LiveNext ==
    /\ EventAt("live") /\ InReach(Current)
    /\ LET next == NextLive(Current.lives)
       IN  Goes([Noted(Current, next.elem, next.of) EXCEPT !.pc = "livePage"])
    /\ UNCHANGED <<web, handlers, live, onclick, triggered, counters>>

\* The result of a function, or of liveHandler: to stop at once ends the list.
Answered(event, answer) ==
    LET stops == answer \in {"false", "stop", "immediate"}
    IN  [event EXCEPT !.pc = "call", !.stopped = @ \/ stops, !.over = @ \/ stops,
            !.prevented = @ \/ answer \in {"false", "prevent"},
            !.immediate = @ \/ answer = "immediate",
            !.list = IF event.immediate \/ answer = "immediate" THEN {} ELSE @,
            !.stoppedIn = IF stops /\ @ = 0 THEN event.elem ELSE @]

\* The result of a live function: those further out are not called then, and to stop at once
\* ends them all.  To return false is told by liveHandler when the last one was called.
LiveAnswered(event, answer) ==
    LET e     == NextLive(event.lives).elem
        stops == answer \in {"false", "stop", "immediate"}
        then  == [event EXCEPT !.pc = "live", !.lives = @ \ {NextLive(@)},
                     !.answer = IF answer = "false" THEN "false" ELSE @,
                     !.stopped = @ \/ answer \in {"stop", "immediate"},
                     !.over = @ \/ answer \in {"stop", "immediate"},
                     !.prevented = @ \/ answer = "prevent",
                     !.immediate = @ \/ answer = "immediate",
                     !.maxLevel = IF stops \/ event.stopped THEN Level(event, e) ELSE @,
                     !.stoppedIn = IF stops /\ @ = 0 THEN event.elem ELSE @,
                     !.stoppedAt = IF stops /\ @ = 0 THEN e ELSE @]
    IN  IF then.immediate THEN [then EXCEPT !.lives = {}] ELSE then

LiveEnds ==
    /\ EventAt("live") /\ ~ InReach(Current)
    /\ Goes([Answered(Current, Current.answer) EXCEPT !.lives = {}])
    /\ UNCHANGED <<web, handlers, live, onclick, triggered, counters>>

\* The functions at an element were called; of a trigger its inline handler is next.
HandlersEnd ==
    /\ EventAt("call") /\ Current.list = {}
    /\ Goes([Current EXCEPT !.pc = IF Current.native THEN "up" ELSE "inline"])
    /\ UNCHANGED <<web, handlers, live, onclick, triggered, counters>>

TriggerInline ==
    /\ EventAt("inline")
    /\ Goes([Current EXCEPT !.pc =
                IF Current.untyped /\ Current.elem \in onclick THEN "inlinePage" ELSE "up"])
    /\ UNCHANGED <<web, handlers, live, onclick, triggered, counters>>

-----------------------------------------------------------------------------
(* On the way out. *)

Bubbles(event) == event.elem < Depth /\ ~ (IF event.native THEN event.over ELSE event.stopped)

Up ==
    /\ EventAt("up") /\ Bubbles(Current)
    /\ Goes([Current EXCEPT !.elem = @ + 1, !.pc = "arrive"])
    /\ UNCHANGED <<web, handlers, live, onclick, triggered, counters>>

\* An event that ends takes triggered back, whoever set it.
Untrigger(events) ==
    /\ triggered' = FALSE
    /\ dispatches' = [i \in DOMAIN events |-> [events[i] EXCEPT !.meddled = @ \/ (triggered /\ events[i].native)]]

\* The browser's event is over, or what jQuery triggered is and nothing is to follow.
EventEnds ==
    /\ EventAt("up") /\ ~ Bubbles(Current)
    /\ \/ Current.native
       \/ ~ Current.native /\ (Current.prevented \/ Current.target \in web.links)
    /\ dispatches' = Outer
    /\ UNCHANGED <<web, handlers, live, onclick, triggered, counters>>

\* The browser does what a click on the target does: it has an event of its own, of which
\* neither the target's inline handler nor jQuery is to hear.
DefaultAction ==
    /\ EventAt("up") /\ ~ Bubbles(Current)
    /\ ~ Current.native /\ ~ Current.prevented /\ Current.target \notin web.links
    /\ IF Current.target \in web.methods
       THEN /\ triggered' = TRUE
            /\ onclick' = onclick \ {Current.target}
            /\ dispatches' = <<[Dispatch(TRUE, Current.target) EXCEPT !.called = Current.called],
                               [Current EXCEPT !.pc = "after", !.old = Current.target \in onclick]>> \o Outer
       ELSE Untrigger(Outer) /\ UNCHANGED onclick
    /\ UNCHANGED <<web, handlers, live, counters>>

DefaultDone ==
    /\ EventAt("after")
    /\ onclick' = IF Current.old THEN onclick \cup {Current.target} ELSE onclick
    /\ Untrigger(Outer)
    /\ UNCHANGED <<web, handlers, live, counters>>

-----------------------------------------------------------------------------
(* The page. *)

PageHasTurn == IF dispatches = <<>> THEN TRUE ELSE Current.pc \in {"page", "livePage", "inlinePage"}

HandlerReturns ==
    /\ EventAt("page")
    /\ \E answer \in web.answers : Goes(Answered(Current, answer))
    /\ UNCHANGED <<web, handlers, live, onclick, triggered, counters>>

LiveReturns ==
    /\ EventAt("livePage")
    /\ \E answer \in web.answers : Goes(LiveAnswered(Current, answer))
    /\ UNCHANGED <<web, handlers, live, onclick, triggered, counters>>

\* To return false from an inline handler prevents, to stop the event it is to be asked.
InlineReturns ==
    /\ EventAt("inlinePage")
    /\ \E answer \in web.answers \ {"immediate"} :
          Goes([Current EXCEPT !.pc = IF Current.native THEN "listen" ELSE "up",
                  !.prevented = @ \/ answer \in {"false", "prevent"},
                  !.stopped = @ \/ answer = "stop", !.over = @ \/ answer = "stop"])
    /\ UNCHANGED <<web, handlers, live, onclick, triggered, counters>>

PageBinds ==
    /\ PageHasTurn /\ bound < web.binds
    /\ \E b \in web.bindings : add(b)
    /\ bound' = bound + 1
    /\ UNCHANGED <<web, onclick, triggered, dispatches, acted, clicks>>

PageDoes(act) == PageHasTurn /\ acted < web.does /\ act \in web.acts /\ acted' = acted + 1

PageUnbinds ==
    /\ PageDoes("unbind")
    /\ \E b \in web.bindings : unbind(b.elem, b.fn, {}) \/ unbindAll(b.elem, b.ns)
    /\ UNCHANGED <<web, live, onclick, triggered, dispatches, bound, clicks>>

PageDies ==
    /\ PageDoes("die")
    /\ \E b \in web.bindings : b.kind = "live" /\ die(b.elem, b.fn, b.ns \cup {b.selector})
    /\ UNCHANGED <<web, onclick, triggered, dispatches, bound, clicks>>

\* trigger with a type, with a namespace or exclusive; triggerHandler.
PageTriggers ==
    /\ PageDoes("trigger")
    /\ \E e \in Elements, how \in web.triggers :
          dispatches' = <<[Dispatch(FALSE, e) EXCEPT
                             !.typed = how = "namespace", !.exclusive = how = "exclusive",
                             !.stopped = how = "handler", !.prevented = how = "handler",
                             !.stoppedIn = IF how = "handler" THEN e ELSE 0]>> \o dispatches
    /\ UNCHANGED <<web, handlers, live, onclick, triggered, bound, clicks>>

UserClicks ==
    /\ dispatches = <<>> /\ clicks < MaxClicks
    /\ \E e \in Elements : dispatches' = <<Dispatch(TRUE, e)>>
    /\ clicks' = clicks + 1
    /\ UNCHANGED <<web, handlers, live, onclick, triggered, bound, acted>>

EventsNext ==
    \/ NativeArrive \/ NativeListen \/ TriggerArrive \/ CallDirect \/ CallLive
    \/ LiveNext \/ LiveEnds \/ HandlersEnd \/ TriggerInline
    \/ Up \/ EventEnds \/ DefaultAction \/ DefaultDone
    \/ HandlerReturns \/ LiveReturns \/ InlineReturns
    \/ PageBinds \/ PageUnbinds \/ PageDies \/ PageTriggers \/ UserClicks

EventsSpec == EventsInit /\ [][EventsNext]_eventVariables

-----------------------------------------------------------------------------
(* Properties. *)

Entry == [id : Nat, kind : Kinds, fn : STRING, selector : STRING, ns : SUBSET STRING]

Stage    == {"arrive", "inlinePage", "listen", "call", "page", "live", "livePage", "inline", "up", "after"}
LiveCall == [elem : Elements, used : Nat, of : Entry]
Call     == Elements \X Nat
Told     == {"nothing", "false"}
Spaces   == {"a"}

EventType ==
    [native : BOOLEAN, target : Elements, elem : Elements, pc : Stage,
     typed : BOOLEAN, untyped : BOOLEAN, exclusive : BOOLEAN, ns : SUBSET Spaces,
     stopped : BOOLEAN, immediate : BOOLEAN, prevented : BOOLEAN, over : BOOLEAN,
     liveFired : Nat, list : SUBSET Entry, lives : SUBSET LiveCall,
     maxLevel : Nat, answer : Told, old : BOOLEAN,
     called : SUBSET Call, again : BOOLEAN, meddled : BOOLEAN,
     stoppedIn : Nat, stoppedAt : Nat, late : BOOLEAN]

\* Each variable has its type.
EventsTypeOK ==
    /\ web \in Pages /\ triggered \in BOOLEAN /\ bound \in Nat
    /\ handlers \in [Elements -> SUBSET Entry] /\ live \in [Elements -> SUBSET Entry]
    /\ dispatches \in Seq(EventType)

\* Each binding is called at most once for an event on an element: though a live function
\* has an entry of liveHandler for each time it was bound, and though what a trigger has the
\* browser do comes by the same elements again (2196-2204, 2501-2509, 3191-3203).  What is not kept
\* is that while the browser does it an inline handler further out triggers another event,
\* whose end takes triggered back for both (2518).
EventCalledOnce == \A i \in DOMAIN dispatches : dispatches[i].again => dispatches[i].meddled

\* When a function stops the event, none is called on an element further out; when a live
\* function does, no live one for an element further out, though functions that are
\* bound to the element where it is kept are called still; to stop it at once ends all calls
\* (2562-2576, 3243-3266).
StopIsKept == \A i \in DOMAIN dispatches : ~ dispatches[i].late
=============================================================================
