-------------------------------- MODULE Ajax --------------------------------
(***************************************************************************)
(* jQuery.ajax (js/jquery-1.5.1.js:6404-6780) with its two transports.     *)
(* Handlers of the page are called in the middle of a request; there they  *)
(* may abort it or another one, make one more, or throw.  What runs is a   *)
(* stack of calls of ajax() and done(), the one that runs on top.  Between *)
(* them the browser brings answers and lets time pass.                     *)
(*                                                                         *)
(* A request has one callback of each kind.  Headers, addresses and data   *)
(* are left out.                                                           *)
(***************************************************************************)
EXTENDS Integers, Sequences, FiniteSets

CONSTANTS Request,      \* the requests
          Settings,     \* what they are made with
          MaxMeddling   \* bound on how often handlers do more than look

ASSUME AjaxAssumption ==
    /\ Settings \subseteq [global : BOOLEAN, async : BOOLEAN, timeout : BOOLEAN,
                           kind : {"xhr", "script", "none"}]
    /\ Settings # {} /\ MaxMeddling \in Nat

VARIABLES request,      \* what is known of each request
          active,       \* jQuery.active
          stack,        \* the calls that run, the innermost first
          meddled       \* how often handlers have done something

ajaxVars == <<request, active, stack, meddled>>

\* made, threw, runs, success, error and complete are not in the code: whether the request
\* was made, whether a handler threw out of one of its calls, how often done() and the
\* callbacks ran.  settled and completed are the states of its two deferreds.
RequestType ==
    [s : Settings, made : BOOLEAN, state : 0 .. 2, transport : BOOLEAN, listening : BOOLEAN,
     timer : BOOLEAN, fireGlobals : BOOLEAN, installed : BOOLEAN, settled : BOOLEAN,
     completed : BOOLEAN, threw : BOOLEAN, runs : Nat, success : Nat, error : Nat, complete : Nat]

\* calls: whether there is a handler for what happens at pc.
CallType ==
    [fn : {"ajax"}, of : Request, calls : BOOLEAN,
     pc : {"prefilters", "ajaxStart", "beforeSend", "ajaxSend", "send", "sent"}]
    \cup [fn : {"done"}, of : Request, calls : BOOLEAN,
          pc : {"settle", "event", "complete", "ajaxComplete", "ajaxStop"}]

AjaxTypeOK ==
    /\ request \in [Request -> RequestType]
    /\ active \in Int /\ meddled \in 0 .. MaxMeddling
    /\ stack \in Seq(CallType)

AjaxInit ==
    /\ request = [r \in Request |->
            [s |-> CHOOSE x \in Settings : TRUE, made |-> FALSE, state |-> 0, transport |-> FALSE,
             listening |-> FALSE, timer |-> FALSE, fireGlobals |-> FALSE, installed |-> FALSE,
             settled |-> FALSE, completed |-> FALSE, threw |-> FALSE, runs |-> 0, success |-> 0,
             error |-> 0, complete |-> 0]]
    /\ active = 0 /\ stack = <<>> /\ meddled = 0

-----------------------------------------------------------------------------
(* done() and abort(). *)

Called(fn, r, pc, calls) == [fn |-> fn, of |-> r, pc |-> pc, calls |-> calls]

\* From the start of done() to where the deferred calls a callback.
done(reqs, r, success, below) ==
    LET now   == reqs[r]
        calls == now.installed /\ ~ now.settled
    IN  IF now.state = 2 THEN request' = reqs /\ stack' = below
        ELSE /\ request' = [reqs EXCEPT ![r] =
                    [now EXCEPT !.state = 2, !.timer = FALSE, !.transport = FALSE, !.runs = @ + 1,
                                !.settled = TRUE,
                                !.success = IF calls /\ success THEN @ + 1 ELSE @,
                                !.error = IF calls /\ ~ success THEN @ + 1 ELSE @]]
             /\ stack' = <<Called("done", r, "settle", calls)>> \o below

\* Mutant: only the transport is told.
abortTransport(r, below) ==
    /\ request' = [request EXCEPT ![r].listening = IF request[r].transport THEN FALSE ELSE @, ![r].timer = FALSE]
    /\ stack' = below

\* A transport that has not sent yet does nothing when it is aborted.
abort(r, below) ==
    done([request EXCEPT ![r].listening = IF request[r].transport THEN FALSE ELSE @], r, FALSE, below)

Top == Head(stack)
Below == Tail(stack)

At(fn, pc) == stack # <<>> /\ Top.fn = fn /\ Top.pc = pc

\* On to the next thing that may call a handler.
GoOn(pc, calls) == stack' = <<[Top EXCEPT !.pc = pc, !.calls = calls]>> \o Below

\* The deferred has called its callbacks, and those for the status code.
Settled ==
    /\ At("done", "settle")
    /\ GoOn("event", request[Top.of].fireGlobals)
    /\ UNCHANGED <<request, active, meddled>>

\* Mutant: complete is called again with every done().
CompleteAgain ==
    /\ At("done", "event")
    /\ LET calls == request[Top.of].installed IN
       /\ request' = [request EXCEPT ![Top.of].completed = TRUE,
                                     ![Top.of].complete = IF calls THEN @ + 1 ELSE @]
       /\ GoOn("complete", calls)
    /\ UNCHANGED <<active, meddled>>

\* ajaxSuccess or ajaxError has been triggered; completeDeferred calls its callback.
Complete ==
    /\ At("done", "event")
    /\ LET now   == request[Top.of]
           calls == now.installed /\ ~ now.completed
       IN
       /\ request' = [request EXCEPT ![Top.of] =
              [now EXCEPT !.completed = TRUE, !.complete = IF calls THEN @ + 1 ELSE @]]
       /\ GoOn("complete", calls)
    /\ UNCHANGED <<active, meddled>>

Completed ==
    /\ At("done", "complete")
    /\ IF request[Top.of].fireGlobals THEN GoOn("ajaxComplete", TRUE) ELSE stack' = Below
    /\ UNCHANGED <<request, active, meddled>>

\* ajaxComplete has been triggered; the last of the requests triggers ajaxStop.
CountDown ==
    /\ At("done", "ajaxComplete")
    /\ active' = active - 1
    /\ IF active' = 0 THEN GoOn("ajaxStop", TRUE) ELSE stack' = Below
    /\ UNCHANGED <<request, meddled>>

Stopped == At("done", "ajaxStop") /\ stack' = Below /\ UNCHANGED <<request, active, meddled>>

-----------------------------------------------------------------------------
(* ajax(). *)

\* Makes the request, as far as to the prefilters.
Make(r, s) ==
    /\ ~ request[r].made
    /\ request' = [request EXCEPT ![r] = [@ EXCEPT !.made = TRUE, !.s = s]]
    /\ stack' = <<Called("ajax", r, "prefilters", TRUE)>> \o stack
    /\ UNCHANGED active

\* Mutant: requests without global events count, too.
StartCounting ==
    /\ At("ajax", "prefilters")
    /\ LET now == request[Top.of] IN
       IF now.state = 2 THEN stack' = Below /\ UNCHANGED <<request, active>>
       ELSE /\ request' = [request EXCEPT ![Top.of].fireGlobals = now.s.global]
            /\ active' = active + 1
            /\ GoOn("ajaxStart", now.s.global /\ active = 0)
    /\ UNCHANGED meddled

\* If a prefilter aborted the request that is all; else it counts.
Start ==
    /\ At("ajax", "prefilters")
    /\ LET now == request[Top.of] IN
       IF now.state = 2 THEN stack' = Below /\ UNCHANGED <<request, active>>
       ELSE /\ request' = [request EXCEPT ![Top.of].fireGlobals = now.s.global]
            /\ active' = IF now.s.global THEN active + 1 ELSE active
            /\ GoOn("ajaxStart", now.s.global /\ active = 0)
    /\ UNCHANGED meddled

BeforeSend == At("ajax", "ajaxStart") /\ GoOn("beforeSend", TRUE) /\ UNCHANGED <<request, active, meddled>>

\* beforeSend returned false.
Refuse ==
    /\ At("ajax", "beforeSend") /\ meddled < MaxMeddling
    /\ abort(Top.of, Below)
    /\ meddled' = meddled + 1
    /\ UNCHANGED active

\* Else, unless it aborted the request, the callbacks are put on the deferreds and there
\* is a transport, or none and the request is done.
Install ==
    /\ At("ajax", "beforeSend")
    /\ LET now == request[Top.of]
           to  == [now EXCEPT !.installed = TRUE, !.transport = now.s.kind # "none"]
       IN  CASE now.state = 2 -> stack' = Below /\ UNCHANGED request
             [] now.state # 2 /\ now.s.kind = "none" ->
                    done([request EXCEPT ![Top.of] = to], Top.of, FALSE, Below)
             [] OTHER -> /\ request' = [request EXCEPT ![Top.of] = to]
                         /\ GoOn("ajaxSend", now.fireGlobals)
    /\ UNCHANGED <<active, meddled>>

\* The timeout is set and the state 1, whatever a handler of ajaxSend has done.
ToSend(now) == [now EXCEPT !.state = 1, !.timer = now.s.async /\ now.s.timeout]

\* The transport waits for the answer.
Send ==
    /\ At("ajax", "ajaxSend")
    /\ LET now == request[Top.of] IN
       /\ now.transport /\ (now.s.async \/ now.s.kind = "script")
       /\ request' = [request EXCEPT ![Top.of] = [ToSend(now) EXCEPT !.listening = TRUE]]
    /\ GoOn("sent", FALSE)
    /\ UNCHANGED <<active, meddled>>

\* The answer is there while send still runs: when send waits for it, or when an xhr has
\* it from a cache.
SendAtOnce ==
    /\ At("ajax", "ajaxSend")
    /\ LET now == request[Top.of] IN
       /\ now.transport /\ now.s.kind = "xhr"
       /\ \E success \in BOOLEAN :
             done([request EXCEPT ![Top.of] = ToSend(now)], Top.of, success,
                  <<[Top EXCEPT !.pc = "sent", !.calls = FALSE]>> \o Below)
    /\ UNCHANGED <<active, meddled>>

\* send throws, or there is no transport to send with any more, which throws too.
SendFails ==
    /\ At("ajax", "ajaxSend")
    /\ LET now == request[Top.of] IN
       /\ ~ now.transport \/ now.s.kind = "xhr"
       /\ done([request EXCEPT ![Top.of] = ToSend(now)], Top.of, FALSE, Below)
    /\ UNCHANGED <<active, meddled>>

Return == At("ajax", "sent") /\ stack' = Below /\ UNCHANGED <<request, active, meddled>>

-----------------------------------------------------------------------------
(* What happens to a request. *)

\* An answer, of whatever status, good or not, or one that cannot be parsed.
Answer(r) ==
    /\ stack = <<>> /\ request[r].listening
    /\ \E success \in BOOLEAN : done([request EXCEPT ![r].listening = FALSE], r, success, <<>>)
    /\ UNCHANGED <<active, meddled>>

TimeoutFires(r) ==
    /\ stack = <<>> /\ request[r].timer
    /\ abort(r, <<>>)
    /\ UNCHANGED <<active, meddled>>

\* Where the code of the page runs: nothing else does, or a handler is called.
PageRuns == IF stack = <<>> THEN TRUE ELSE Top.calls

Meddles == IF stack = <<>> THEN TRUE ELSE meddled < MaxMeddling

Meddled == meddled' = IF stack = <<>> THEN meddled ELSE meddled + 1

PageMakes(r) == PageRuns /\ Meddles /\ (\E s \in Settings : Make(r, s)) /\ Meddled

\* Handlers of ajaxStart are not given the request it starts with.
PageAborts(r) ==
    /\ PageRuns /\ Meddles /\ request[r].made /\ request[r].state # 2
    /\ \A i \in DOMAIN stack : stack[i].of = r => stack[i].pc # "ajaxStart"
    /\ abort(r, stack)
    /\ Meddled /\ UNCHANGED active

\* The calls that run end, up to a call of ajax() that is sending: what is thrown there is
\* caught, and done() called, which has run already.
HandlerThrows ==
    /\ stack # <<>> /\ Top.calls /\ Meddles
    /\ \E to \in 1 .. Len(stack) + 1 :
          /\ \A i \in 1 .. to - 1 : stack[i].pc # "sent"
          /\ to <= Len(stack) => stack[to].pc = "sent"
          /\ stack' = SubSeq(stack, to, Len(stack))
          /\ request' = [r \in Request |->
                [request[r] EXCEPT !.threw = @ \/ \E i \in 1 .. to - 1 : stack[i].of = r]]
    /\ Meddled /\ UNCHANGED active

RunOn ==
    \/ Settled \/ Complete \/ Completed \/ CountDown \/ Stopped
    \/ Start \/ BeforeSend \/ Install \/ Send \/ SendAtOnce \/ SendFails \/ Return

AjaxNext ==
    \/ RunOn \/ Refuse \/ HandlerThrows
    \/ \E r \in Request : Answer(r) \/ TimeoutFires(r) \/ PageMakes(r) \/ PageAborts(r)

\* What runs goes on, and time passes.
AjaxFairness == WF_ajaxVars(RunOn) /\ \A r \in Request : WF_ajaxVars(TimeoutFires(r))

AjaxSpec == AjaxInit /\ [][AjaxNext]_ajaxVars /\ AjaxFairness

-----------------------------------------------------------------------------
(* Properties. *)

\* "Called once" (jquery-1.5.1.js:6506).
CalledOnce == \A r \in Request : request[r].runs <= 1

\* A request has one outcome: of the callbacks for success and for error one is called,
\* once, and then complete, once, however its answer, its timeout and aborts come together,
\* and when nothing runs none is missing of a request that is done, unless a handler threw.
OneOutcome ==
    \A r \in Request :
        LET now == request[r] IN
        /\ now.success + now.error <= 1 /\ now.complete <= now.success + now.error
        /\ stack = <<>> /\ now.state = 2 /\ now.installed /\ ~ now.threw => now.complete = 1

\* jQuery.active, which decides when ajaxStart and ajaxStop are triggered, is the number of
\* requests with global events that are not done, if no handler threw and done() was not
\* run through twice.
ActiveExact ==
    stack = <<>> /\ (\A r \in Request : ~ request[r].threw /\ request[r].runs <= 1) =>
        active = Cardinality({r \in Request : request[r].fireGlobals /\ request[r].state # 2})

\* A request with a timeout is done in the end, answer or no answer.
TimeoutEnds ==
    \A r \in Request :
        (request[r].made /\ request[r].s.async /\ request[r].s.timeout)
            ~> (request[r].state = 2 \/ request[r].threw)
=============================================================================
