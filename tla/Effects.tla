------------------------------ MODULE Effects ------------------------------
(***************************************************************************)
(* Queues and animations of jQuery (js/jquery-1.5.1.js:1639-1730,          *)
(* 7517-7890).  An animation waits in the queue of its element, has a      *)
(* timer for each property while it runs, and when the last timer is over  *)
(* it takes the next one off the queue and calls its callback.  There the  *)
(* page may animate and stop elements again, in the middle of the loops    *)
(* over the timers.                                                        *)
(*                                                                         *)
(* What the properties of an element are while it is animated is left out, *)
(* and so are queues with other names.  A duration is in ticks; nothing    *)
(* or 0 is an animation that ends while it starts.                         *)
(***************************************************************************)
EXTENDS Integers, Sequences, FiniteSets, SequencesExt

CONSTANTS Element,          \* elements of the page
          Props,            \* properties that are animated
          MaxAnimations,    \* bound on how many animations are made
          MaxDelays,        \* and how many delays
          Manners           \* what a page may do, and its callbacks: how many animations of
                            \* which durations and properties it makes at most

Acts == {"animate", "aside", "delay", "stop", "end", "clear"}

ASSUME EffectsAssumption ==
    /\ Manners # {}
    /\ \A m \in Manners : /\ m.page \subseteq Acts /\ m.callbacks \subseteq Acts
                          /\ m.durations \subseteq Nat /\ m.animations \in 0 .. MaxAnimations
                          /\ \A props \in m.props : props \subseteq Props /\ props # {}
    /\ IsFiniteSet(Props) /\ MaxAnimations \in Nat /\ MaxDelays \in Nat

VARIABLES manner,       \* what the page of this run does
          queue,        \* the queue of each element; nothing is stored of an empty one
          anims,        \* the animations that were made
          timers,       \* jQuery.timers
          timerId,      \* whether the interval is set
          delays,       \* the timeouts of delays, by their elements
          delayed,      \* how many there were
          running       \* the calls that run, the innermost first

effectsVars == <<manner, queue, anims, timers, timerId, delays, delayed, running>>

InProgress == 0

\* In a queue an animation is its number, a delay is -1.
Delay == -1

Frames ==
    [fn : {"tick", "stop"}, i : Nat, over : BOOLEAN, elem : Element, toEnd : BOOLEAN]
    \cup [fn : {"dequeue"}, elem : Element, array : {"stored", "empty", "full"}]
    \cup [fn : {"complete"}, anim : 1 .. MaxAnimations, pc : {"dequeue", "callback", "page"}]

EffectsTypeOK ==
    /\ manner \in Manners
    /\ queue \in [Element -> Seq(Delay .. MaxAnimations)]
    /\ anims \in Seq([elem : Element, queued : BOOLEAN, props : SUBSET Props, duration : Nat,
                      curAnim : SUBSET Props, ended : Nat])
    /\ timers \in Seq([anim : 1 .. MaxAnimations, prop : Props, left : Nat])
    /\ timerId \in BOOLEAN
    /\ delays \in [Element -> Nat] /\ delayed \in 0 .. MaxDelays
    /\ running \in Seq(Frames)

EffectsInit ==
    /\ manner \in Manners
    /\ queue = [e \in Element |-> <<>>]
    /\ anims = <<>> /\ timers = <<>> /\ timerId = FALSE
    /\ delays = [e \in Element |-> 0] /\ delayed = 0
    /\ running = <<>>

-----------------------------------------------------------------------------
(* Queues. *)

Dequeuing(e) == [fn |-> "dequeue", elem |-> e, array |-> "stored"]

Completing(a) == [fn |-> "complete", anim |-> a, pc |-> "dequeue"]

\* Calls of dequeue keep the array that they began with, also when it is stored no more.
Forgotten(frames, e, how) ==
    [i \in DOMAIN frames |-> IF frames[i] = Dequeuing(e) THEN [frames[i] EXCEPT !.array = how]
                             ELSE frames[i]]

\* A timer for each property, or, if the animation is over at once, none and its end.
Run(a, made, frames) ==
    /\ anims' = [made EXCEPT ![a].curAnim = IF made[a].duration = 0 THEN made[a].props ELSE @]
    /\ IF made[a].duration = 0 THEN running' = <<Completing(a)>> \o frames /\ UNCHANGED <<timers, timerId>>
       ELSE /\ running' = frames
            /\ timers' = timers \o [k \in DOMAIN SetToSeq(made[a].props) |->
                    [anim |-> a, prop |-> SetToSeq(made[a].props)[k], left |-> made[a].duration]]
            /\ timerId' = TRUE

\* The next of what waits behind the mark of what is in progress, which is put back in front
\* of the rest while it runs.
dequeue(q, e, made, frames, due) ==
    LET rest == IF q[e] # <<>> /\ Head(q[e]) = InProgress THEN Tail(q[e]) ELSE q[e]
    IN  IF rest = <<>>
        THEN /\ queue' = [q EXCEPT ![e] = <<>>] /\ running' = Forgotten(frames, e, "empty")
             /\ anims' = made /\ delays' = due /\ UNCHANGED <<timers, timerId>>
        ELSE /\ queue' = [q EXCEPT ![e] = <<InProgress>> \o Tail(rest)]
             /\ IF Head(rest) = Delay
                THEN /\ delays' = [due EXCEPT ![e] = @ + 1]
                     /\ running' = <<Dequeuing(e)>> \o frames
                     /\ anims' = made /\ UNCHANGED <<timers, timerId>>
                ELSE Run(Head(rest), made, <<Dequeuing(e)>> \o frames) /\ delays' = due

\* Mutant: what waits is started whether or not something is in progress.
enqueueAtOnce(e, what, made, frames) == dequeue([queue EXCEPT ![e] = Append(@, what)], e, made, frames, delays)

\* this.queue(function): the first one in the queue is started.
enqueue(e, what, made, frames) ==
    LET q == [queue EXCEPT ![e] = Append(@, what)]
    IN  IF Head(q[e]) # InProgress THEN dequeue(q, e, made, frames, delays)
        ELSE queue' = q /\ anims' = made /\ running' = frames /\ UNCHANGED <<timers, timerId, delays>>

TopFrame == Head(running)
LowerFrames == Tail(running)

In(fn) == running # <<>> /\ TopFrame.fn = fn

\* What dequeue has called has returned.
Dequeued ==
    /\ In("dequeue")
    /\ LET e       == TopFrame.elem
           removes == TopFrame.array = "empty"
       IN  /\ queue' = IF removes THEN [queue EXCEPT ![e] = <<>>] ELSE queue
           /\ running' = IF removes /\ queue[e] # <<>> THEN Forgotten(LowerFrames, e, "full") ELSE LowerFrames
    /\ UNCHANGED <<manner, anims, timers, timerId, delays, delayed>>

-----------------------------------------------------------------------------
(* Animations. *)

\* Mutant: the callback is all that is called.
CompleteDequeueNothing ==
    /\ In("complete") /\ TopFrame.pc = "dequeue"
    /\ running' = <<[TopFrame EXCEPT !.pc = "callback"]>> \o LowerFrames
    /\ UNCHANGED <<manner, queue, anims, timers, timerId, delays, delayed>>

\* opt.complete, first of an animation that was not queued, which leaves the queue alone.
CompleteDequeue ==
    /\ In("complete") /\ TopFrame.pc = "dequeue"
    /\ LET a   == TopFrame.anim
           now == <<[TopFrame EXCEPT !.pc = "callback"]>> \o LowerFrames
       IN  IF anims[a].queued THEN dequeue(queue, anims[a].elem, anims, now, delays)
           ELSE running' = now /\ UNCHANGED <<queue, anims, timers, timerId, delays>>
    /\ UNCHANGED <<manner, delayed>>

CompleteCallback ==
    /\ In("complete") /\ TopFrame.pc = "callback"
    /\ anims' = [anims EXCEPT ![TopFrame.anim].ended = @ + 1]
    /\ running' = <<[TopFrame EXCEPT !.pc = "page"]>> \o LowerFrames
    /\ UNCHANGED <<manner, queue, timers, timerId, delays, delayed>>

CompleteReturn ==
    /\ In("complete") /\ TopFrame.pc = "page"
    /\ running' = LowerFrames
    /\ UNCHANGED <<manner, queue, anims, timers, timerId, delays, delayed>>

\* The last step of the timer at i: when it is the last of its animation, that is complete.
LastStep(i, frames) ==
    LET a    == timers[i].anim
        done == anims[a].curAnim \cup {timers[i].prop}
    IN  /\ anims' = [anims EXCEPT ![a].curAnim = done]
        /\ running' = IF done = anims[a].props THEN <<Completing(a)>> \o frames ELSE frames

\* timers.splice: takes out what is at i now.
Splice(i) == timers' = IF i \in DOMAIN timers THEN RemoveAt(timers, i) ELSE timers

TickStart ==
    /\ running = <<>> /\ timerId
    /\ running' = <<[fn |-> "tick", i |-> 1, over |-> FALSE, elem |-> CHOOSE e \in Element : TRUE, toEnd |-> FALSE]>>
    /\ UNCHANGED <<manner, queue, anims, timers, timerId, delays, delayed>>

\* One more step of the timer at i.
TickStep ==
    /\ In("tick") /\ ~ TopFrame.over /\ TopFrame.i <= Len(timers)
    /\ LET i == TopFrame.i IN
       IF timers[i].left > 0
       THEN /\ timers' = [timers EXCEPT ![i].left = @ - 1]
            /\ running' = <<[TopFrame EXCEPT !.i = @ + 1]>> \o LowerFrames
            /\ UNCHANGED anims
       ELSE LastStep(i, <<[TopFrame EXCEPT !.over = TRUE]>> \o LowerFrames) /\ UNCHANGED timers
    /\ UNCHANGED <<manner, queue, timerId, delays, delayed>>

\* Mutant: it is left where it is.
TickSpliceNothing ==
    /\ In("tick") /\ TopFrame.over
    /\ running' = <<[TopFrame EXCEPT !.over = FALSE, !.i = @ + 1]>> \o LowerFrames
    /\ UNCHANGED <<manner, queue, anims, timers, timerId, delays, delayed>>

\* The timer that is over is taken out, and the next one is at its place.
TickSplice ==
    /\ In("tick") /\ TopFrame.over
    /\ Splice(TopFrame.i)
    /\ running' = <<[TopFrame EXCEPT !.over = FALSE]>> \o LowerFrames
    /\ UNCHANGED <<manner, queue, anims, timerId, delays, delayed>>

TickEnd ==
    /\ In("tick") /\ ~ TopFrame.over /\ TopFrame.i > Len(timers)
    /\ timerId' = (timers # <<>>)
    /\ running' = LowerFrames
    /\ UNCHANGED <<manner, queue, anims, timers, delays, delayed>>

\* stop() goes from the last timer to the first.  Where a callback that it calls stops
\* others, there may be no i-th timer any more: then it throws (jquery:7643), and what
\* becomes of that is not followed.
StopStep ==
    /\ In("stop") /\ TopFrame.i \in DOMAIN timers /\ ~ TopFrame.over
    /\ LET i    == TopFrame.i
           next == <<[TopFrame EXCEPT !.i = @ - 1]>> \o LowerFrames
       IN  IF anims[timers[i].anim].elem # TopFrame.elem
           THEN running' = next /\ UNCHANGED <<anims, timers>>
           ELSE IF TopFrame.toEnd
           THEN LastStep(i, <<[TopFrame EXCEPT !.over = TRUE]>> \o LowerFrames) /\ UNCHANGED timers
           ELSE running' = next /\ Splice(i) /\ UNCHANGED anims
    /\ UNCHANGED <<manner, queue, timerId, delays, delayed>>

StopSplice ==
    /\ In("stop") /\ TopFrame.over
    /\ Splice(TopFrame.i)
    /\ running' = <<[TopFrame EXCEPT !.over = FALSE, !.i = @ - 1]>> \o LowerFrames
    /\ UNCHANGED <<manner, queue, anims, timerId, delays, delayed>>

StopEnd ==
    /\ In("stop") /\ TopFrame.i = 0
    /\ IF TopFrame.toEnd THEN running' = LowerFrames /\ UNCHANGED <<queue, anims, timers, timerId, delays>>
       ELSE dequeue(queue, TopFrame.elem, anims, LowerFrames, delays)
    /\ UNCHANGED <<manner, delayed>>

-----------------------------------------------------------------------------
(* The page. *)

\* Where code of the page runs, and what it may do there.
May(act) ==
    IF running = <<>> THEN act \in manner.page
    ELSE In("complete") /\ TopFrame.pc = "page" /\ act \in manner.callbacks

Made(e, queued, props, duration) ==
    Append(anims, [elem |-> e, queued |-> queued, props |-> props, duration |-> duration,
                   curAnim |-> {}, ended |-> 0])

\* With queue: false the animation does not wait.
Animate(e) ==
    /\ Len(anims) < manner.animations
    /\ \E props \in manner.props, duration \in manner.durations :
          LET a == Len(anims) + 1 IN
          \/ May("animate") /\ enqueue(e, a, Made(e, TRUE, props, duration), running)
          \/ May("aside") /\ Run(a, Made(e, FALSE, props, duration), running) /\ UNCHANGED <<queue, delays>>
    /\ UNCHANGED <<manner, delayed>>

DelayNext(e) ==
    /\ May("delay") /\ delayed < MaxDelays
    /\ delayed' = delayed + 1
    /\ enqueue(e, Delay, anims, running)
    /\ UNCHANGED manner

DelayOver(e) ==
    /\ running = <<>> /\ delays[e] > 0
    /\ dequeue(queue, e, anims, <<>>, [delays EXCEPT ![e] = @ - 1])
    /\ UNCHANGED <<manner, delayed>>

\* this.queue([]): the empty array is dequeued, and so not stored any more.
Cleared(e) == [queue EXCEPT ![e] = <<>>]

clearQueue(e) ==
    /\ May("clear") /\ queue[e] # <<>>
    /\ queue' = Cleared(e) /\ running' = Forgotten(running, e, "full")
    /\ UNCHANGED <<manner, anims, timers, timerId, delays, delayed>>

stop(e) ==
    /\ \E clears, toEnd \in BOOLEAN :
          /\ May(IF toEnd THEN "end" ELSE "stop")
          /\ queue' = IF clears THEN Cleared(e) ELSE queue
          /\ running' = <<[fn |-> "stop", i |-> Len(timers), over |-> FALSE, elem |-> e, toEnd |-> toEnd]>>
                            \o (IF clears THEN Forgotten(running, e, "full") ELSE running)
    /\ UNCHANGED <<manner, anims, timers, timerId, delays, delayed>>

GoesOn ==
    \/ Dequeued \/ CompleteDequeue \/ CompleteCallback \/ CompleteReturn
    \/ TickStep \/ TickSplice \/ TickEnd \/ StopStep \/ StopSplice \/ StopEnd

EffectsNext ==
    \/ GoesOn \/ TickStart
    \/ \E e \in Element : Animate(e) \/ DelayNext(e) \/ DelayOver(e) \/ clearQueue(e) \/ stop(e)

\* The interval and the timeouts fire, and what runs goes on.
EffectsFairness ==
    /\ WF_effectsVars(GoesOn) /\ SF_effectsVars(TickStart)
    /\ \A e \in Element : SF_effectsVars(DelayOver(e))

EffectsSpec == EffectsInit /\ [][EffectsNext]_effectsVars /\ EffectsFairness

-----------------------------------------------------------------------------
(* Properties. *)

HasTimer(a) == \E i \in DOMAIN timers : timers[i].anim = a

\* The timer of an animation that is complete is there until it is spliced.
Runs(a) == HasTimer(a) /\ anims[a].curAnim # anims[a].props

\* "Add a progress sentinel to prevent the fx queue from being automatically dequeued"
\* (jquery-1.5.1.js:1675-1676): of the animations of an element that wait for each other
\* one runs at a time.
OneAtATime ==
    \A a, b \in DOMAIN anims :
        Runs(a) /\ Runs(b) /\ anims[a].queued /\ anims[b].queued /\ anims[a].elem = anims[b].elem => a = b

\* An animation calls its callback once at most (7697-7704, 7797-7838), and when nothing runs it
\* has no timer left then.
EndsOnce ==
    \A a \in DOMAIN anims :
        /\ anims[a].ended <= 1
        /\ running = <<>> /\ anims[a].ended = 1 => ~ HasTimer(a)

\* What waits in a queue is started in the end and comes to its end, also when what it waits
\* for is stopped: no timer is left without the interval, none is skipped for ever.
QueuesDrain == \A e \in Element : []<>(queue[e] = <<>> /\ \A a \in DOMAIN anims : anims[a].elem = e => ~ HasTimer(a))
=============================================================================
