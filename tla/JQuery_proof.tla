---------------------------- MODULE JQuery_proof ----------------------------
(***************************************************************************)
(* Proofs about jQuery.                                                    *)
(*                                                                         *)
(* A request of jQuery.ajax has one outcome, for any number of requests,   *)
(* whatever handlers do in the middle of them: abort them, make others or  *)
(* throw.                                                                  *)
(*                                                                         *)
(* An event calls no function twice on an element, and none that a         *)
(* function which stopped it was to prevent, for any elements, selectors   *)
(* and pages: any functions, bound, live or for once, that answer          *)
(* anything, unbind, die and trigger while any number of events are on     *)
(* their way.                                                              *)
(***************************************************************************)
EXTENDS Ajax, Events, SequenceTheorems, WellFoundedInduction, TLAPS

-----------------------------------------------------------------------------
(* What is under way, of which the innermost is first. *)

Calls(s) == {s[i] : i \in DOMAIN s}

LEMMA CallsPushed ==
    ASSUME NEW S, NEW s \in Seq(S), NEW f \in S
    PROVE  <<f>> \o s \in Seq(S) /\ Calls(<<f>> \o s) = {f} \cup Calls(s)
<1> DEFINE t == <<f>> \o s
<1>1. t \in Seq(S) /\ Len(t) = Len(s) + 1 /\ t[1] = f
      /\ \A i \in 1 .. Len(s) : t[i + 1] = s[i]
  OBVIOUS
<1>2. DOMAIN t = 1 .. Len(s) + 1 /\ DOMAIN s = 1 .. Len(s) /\ Len(s) \in Nat
  BY <1>1
<1> HIDE DEF t
<1>3. Calls(t) \subseteq {f} \cup Calls(s)
  <2> SUFFICES ASSUME NEW i \in DOMAIN t PROVE t[i] \in {f} \cup Calls(s)
    BY DEF Calls
  <2>1. CASE i = 1
    BY <2>1, <1>1
  <2>2. CASE i # 1
    <3>1. i - 1 \in 1 .. Len(s) /\ i = (i - 1) + 1
      BY <2>2, <1>2
    <3>2. t[i] = s[i - 1]
      BY <3>1, <1>1
    <3> QED
      BY <3>1, <3>2, <1>2 DEF Calls
  <2> QED
    BY <2>1, <2>2
<1>4. f \in Calls(t)
  BY <1>1, <1>2 DEF Calls
<1>5. Calls(s) \subseteq Calls(t)
  <2> SUFFICES ASSUME NEW i \in 1 .. Len(s) PROVE s[i] \in Calls(t)
    BY <1>2 DEF Calls
  <2>1. i + 1 \in DOMAIN t /\ t[i + 1] = s[i]
    BY <1>1, <1>2
  <2> QED
    BY <2>1 DEF Calls
<1>6. t \in Seq(S) /\ Calls(t) = {f} \cup Calls(s)
  BY <1>1, <1>3, <1>4, <1>5
<1> QED
  BY <1>6 DEF t

LEMMA PushedInTurn ==
    ASSUME NEW S, NEW s \in Seq(S), NEW f \in S, NEW g \in S
    PROVE  <<f, g>> \o s = <<f>> \o (<<g>> \o s)
<1>1. <<f>> \in Seq(S) /\ <<g>> \in Seq(S) /\ <<f, g>> \in Seq(S)
  OBVIOUS
<1>3. <<f>> \o <<g>> = <<f, g>>
  <2> DEFINE t == <<f>> \o <<g>>
  <2>1. t \in Seq(S) /\ Len(t) = 2 /\ t[1] = f /\ t[2] = g
    BY <1>1
  <2> HIDE DEF t
  <2>2. t = <<f, g>>
    BY <2>1, <1>1
  <2> QED
    BY <2>2 DEF t
<1>2. (<<f>> \o <<g>>) \o s = <<f>> \o (<<g>> \o s)
  BY <1>1, ConcatAssociative
<1> QED
  BY <1>2, <1>3

LEMMA CallsOnTop ==
    ASSUME NEW S, NEW s \in Seq(S), s # <<>>
    PROVE  /\ Head(s) \in S /\ Tail(s) \in Seq(S)
           /\ Calls(s) = {Head(s)} \cup Calls(Tail(s))
<1>1. /\ Head(s) \in S /\ Tail(s) \in Seq(S)
      /\ s = <<Head(s)>> \o Tail(s)
  OBVIOUS
<1> QED
  BY <1>1, CallsPushed

LEMMA CallsOfNone == Calls(<<>>) = {} /\ \A S : <<>> \in Seq(S)
BY DEF Calls

-----------------------------------------------------------------------------
(* A request. *)

\* The callbacks of a request are called when it is settled, those for its completion when
\* it is completed, provided they were put on the deferreds; which they are only before it
\* is settled.
RequestSound(now) ==
    /\ now.state = 2 => now.settled
    /\ ~ now.installed /\ now.settled => now.state = 2
    /\ now.completed => now.settled
    /\ now.success + now.error = IF now.installed /\ now.settled THEN 1 ELSE 0
    /\ now.complete = IF now.installed /\ now.completed THEN 1 ELSE 0

\* What a call of ajax() or done() that runs relies on.
Backed(f, now) ==
    /\ f.fn = "done" => now.settled
    /\ f.fn = "ajax" /\ f.pc = "ajaxSend" => now.installed

\* A request that is settled and not completed, whose done() still runs.
Owed(now) == now.settled /\ ~ now.completed /\ ~ now.threw
Pays(f, r) == f.of = r /\ f.fn = "done" /\ f.pc \in {"settle", "event"}

Inv(reqs, s) ==
    /\ reqs \in [Request -> RequestType] /\ s \in Seq(CallType)
    /\ \A r \in Request : RequestSound(reqs[r])
    /\ \A f \in Calls(s) : Backed(f, reqs[f.of])
    /\ \A r \in Request : Owed(reqs[r]) => \E f \in Calls(s) : Pays(f, r)

AjaxInv == Inv(request, stack)

-----------------------------------------------------------------------------
(* What happens to one request. *)

Count(now, calls, success) ==
    [now EXCEPT !.state = 2, !.timer = FALSE, !.transport = FALSE, !.runs = @ + 1,
                !.settled = TRUE,
                !.success = IF calls /\ success THEN @ + 1 ELSE @,
                !.error = IF calls /\ ~ success THEN @ + 1 ELSE @]

\* The first outcome of a request counts, others do not.
LEMMA OutcomeCounts ==
    ASSUME NEW now \in RequestType, RequestSound(now), now.state # 2, NEW success \in BOOLEAN
    PROVE  LET then == Count(now, now.installed /\ ~ now.settled, success)
           IN  /\ then \in RequestType /\ RequestSound(then) /\ then.settled
               /\ then.installed = now.installed
<1> DEFINE calls == now.installed /\ ~ now.settled
           then == Count(now, calls, success)
<1>1. /\ now.state \in 0 .. 2 /\ now.installed \in BOOLEAN /\ now.settled \in BOOLEAN
      /\ now.completed \in BOOLEAN
      /\ now.success \in Nat /\ now.error \in Nat /\ now.runs \in Nat /\ now.complete \in Nat
  BY DEF RequestType
<1>2. /\ then.state = 2 /\ then.settled = TRUE
      /\ then.installed = now.installed /\ then.completed = now.completed
      /\ then.complete = now.complete
      /\ then.success = IF calls /\ success THEN now.success + 1 ELSE now.success
      /\ then.error = IF calls /\ ~ success THEN now.error + 1 ELSE now.error
  BY DEF Count, RequestType
<1>3. then \in RequestType
  <2>1. PICK n1 \in Nat : n1 = now.runs + 1
    BY <1>1
  <2>2. PICK n2 \in Nat : n2 = IF calls /\ success THEN now.success + 1 ELSE now.success
    BY <1>1
  <2>3. PICK n3 \in Nat : n3 = IF calls /\ ~ success THEN now.error + 1 ELSE now.error
    BY <1>1
  <2> DEFINE m1 == [now EXCEPT !.state = 2]
             m2 == [m1 EXCEPT !.timer = FALSE]
             m3 == [m2 EXCEPT !.transport = FALSE]
             m4 == [m3 EXCEPT !.runs = n1]
             m5 == [m4 EXCEPT !.settled = TRUE]
             m6 == [m5 EXCEPT !.success = n2]
             m7 == [m6 EXCEPT !.error = n3]
  <2>4. then = m7
    <3> HIDE DEF calls
    <3> QED
      BY <2>1, <2>2, <2>3 DEF Count
  <2>5. m1 \in RequestType
    BY DEF RequestType
  <2> HIDE DEF m1
  <2>6. m2 \in RequestType
    BY <2>5 DEF RequestType
  <2> HIDE DEF m2
  <2>7. m3 \in RequestType
    BY <2>6 DEF RequestType
  <2> HIDE DEF m3
  <2>8. m4 \in RequestType
    BY <2>7 DEF RequestType
  <2> HIDE DEF m4
  <2>9. m5 \in RequestType
    BY <2>8 DEF RequestType
  <2> HIDE DEF m5
  <2>10. m6 \in RequestType
    BY <2>9 DEF RequestType
  <2> HIDE DEF m6
  <2>11. m7 \in RequestType
    BY <2>10 DEF RequestType
  <2> QED
    BY <2>4, <2>11
<1>4. RequestSound(then)
  <2>1. then.success + then.error = IF then.installed /\ then.settled THEN 1 ELSE 0
    <3> HIDE DEF then
    <3>1. CASE calls
      <4>1. now.success + now.error = 0
        BY <3>1 DEF RequestSound
      <4> QED
        BY <3>1, <4>1, <1>1, <1>2
    <3>2. CASE ~ calls
      <4>1. now.success + now.error = IF now.installed THEN 1 ELSE 0
        BY <3>2 DEF RequestSound
      <4> QED
        BY <3>2, <4>1, <1>1, <1>2
    <3> QED
      BY <3>1, <3>2
  <2>2. then.complete = IF then.installed /\ then.completed THEN 1 ELSE 0
    BY <1>2 DEF RequestSound
  <2> HIDE DEF then
  <2> QED
    BY <2>1, <2>2, <1>2 DEF RequestSound
<1> HIDE DEF then
<1>5. then \in RequestType /\ RequestSound(then) /\ then.settled /\ then.installed = now.installed
  BY <1>2, <1>3, <1>4
<1> QED
  BY <1>5 DEF then, calls

\* done() runs through once more, or not at all.
LEMMA DoneKeeps ==
    ASSUME NEW reqs, NEW below, Inv(reqs, below), NEW r \in Request, NEW success \in BOOLEAN,
           done(reqs, r, success, below)
    PROVE  AjaxInv'
<1>1. CASE reqs[r].state = 2
  <2>1. request' = reqs /\ stack' = below
    BY <1>1 DEF done
  <2> QED
    BY <2>1 DEF AjaxInv
<1>2. CASE reqs[r].state # 2
  <2> DEFINE now == reqs[r]
             calls == now.installed /\ ~ now.settled
             then == Count(now, calls, success)
             f == Called("done", r, "settle", calls)
  <2>1. request' = [reqs EXCEPT ![r] = then] /\ stack' = <<f>> \o below
    BY <1>2 DEF done, Count
  <2>2. reqs \in [Request -> RequestType] /\ below \in Seq(CallType) /\ now \in RequestType /\ RequestSound(now)
    BY DEF Inv
  <2>3. then \in RequestType /\ RequestSound(then) /\ then.settled /\ then.installed = now.installed
    BY <1>2, <2>2, OutcomeCounts
  <2>4. f \in CallType /\ f.of = r /\ f.fn = "done" /\ f.pc = "settle"
    BY DEF Called, CallType
  <2>5. stack' \in Seq(CallType) /\ Calls(stack') = {f} \cup Calls(below)
    BY <2>1, <2>2, <2>4, CallsPushed
  <2> HIDE DEF then, f
  <2>6. /\ request' \in [Request -> RequestType]
        /\ request'[r] = then /\ \A q \in Request \ {r} : request'[q] = reqs[q]
    BY <2>1, <2>2, <2>3
  <2>7. \A q \in Request : RequestSound(request'[q])
    BY <2>3, <2>6 DEF Inv
  <2>8. \A g \in Calls(stack') : Backed(g, request'[g.of])
    <3> SUFFICES ASSUME NEW g \in Calls(stack') PROVE Backed(g, request'[g.of])
      OBVIOUS
    <3>1. CASE g = f
      BY <3>1, <2>3, <2>4, <2>6 DEF Backed
    <3>2. CASE g \in Calls(below)
      <4>1. Backed(g, reqs[g.of])
        BY <3>2 DEF Inv
      <4>2. g \in CallType
        BY <3>2, <2>2 DEF Calls
      <4>3. g.of \in Request
        BY <4>2 DEF CallType
      <4>4. CASE g.of = r
        BY <4>1, <4>4, <2>3, <2>6 DEF Backed
      <4>5. CASE g.of # r
        BY <4>1, <4>3, <4>5, <2>6
      <4> QED
        BY <4>4, <4>5
    <3> QED
      BY <3>1, <3>2, <2>5
  <2>9. ASSUME NEW q \in Request, Owed(request'[q]) PROVE \E g \in Calls(stack') : Pays(g, q)
    <3>1. CASE q = r
      BY <3>1, <2>4, <2>5 DEF Pays
    <3>2. CASE q # r
      <4>1. Owed(reqs[q])
        BY <3>2, <2>6, <2>9
      <4> QED
        BY <4>1, <2>5 DEF Inv
    <3> QED
      BY <3>1, <3>2
  <2> QED
    BY <2>5, <2>6, <2>7, <2>8, <2>9 DEF AjaxInv, Inv
<1> QED
  BY <1>1, <1>2

-----------------------------------------------------------------------------
(* What happens to one request and the calls that run. *)

Grown(now, then) ==
    /\ now.settled => then.settled
    /\ now.installed => then.installed
    /\ Owed(then) => Owed(now)

\* The calls s come after those on the stack, when r has become then.
Follows(s, r, then) ==
    /\ s \in Seq(CallType)
    /\ \A f \in Calls(s) : f \in Calls(stack) \/ (f.of = r /\ Backed(f, then))
    /\ \A f \in Calls(stack), q \in Request :
          Pays(f, q) => (q = r /\ ~ Owed(then)) \/ \E g \in Calls(s) : Pays(g, q)

LEMMA Moves ==
    ASSUME AjaxInv, NEW r \in Request, NEW then \in RequestType, RequestSound(then),
           Grown(request[r], then), NEW s, Follows(s, r, then)
    PROVE  Inv([request EXCEPT ![r] = then], s)
<1> DEFINE reqs == [request EXCEPT ![r] = then]
<1>1. request \in [Request -> RequestType] /\ stack \in Seq(CallType)
  BY DEF AjaxInv, Inv
<1>2. /\ reqs \in [Request -> RequestType]
      /\ reqs[r] = then /\ \A q \in Request \ {r} : reqs[q] = request[q]
  BY <1>1
<1> HIDE DEF reqs
<1>3. \A q \in Request : RequestSound(reqs[q])
  BY <1>2 DEF AjaxInv, Inv
<1>4. ASSUME NEW f \in Calls(s) PROVE Backed(f, reqs[f.of])
  <2>1. CASE f \in Calls(stack)
    <3>1. Backed(f, request[f.of])
      BY <2>1 DEF AjaxInv, Inv
    <3>2. f \in CallType
      BY <2>1, <1>1 DEF Calls
    <3>3. f.of \in Request
      BY <3>2 DEF CallType
    <3>4. CASE f.of = r
      BY <3>1, <3>4, <1>2 DEF Backed, Grown
    <3>5. CASE f.of # r
      BY <3>1, <3>3, <3>5, <1>2
    <3> QED
      BY <3>4, <3>5
  <2>2. CASE f.of = r /\ Backed(f, then)
    BY <2>2, <1>2
  <2> QED
    BY <2>1, <2>2 DEF Follows
<1>5. ASSUME NEW q \in Request, Owed(reqs[q]) PROVE \E g \in Calls(s) : Pays(g, q)
  <2>1. Owed(request[q]) /\ (q = r => Owed(then))
    BY <1>2, <1>5 DEF Grown
  <2>2. PICK f \in Calls(stack) : Pays(f, q)
    BY <2>1 DEF AjaxInv, Inv
  <2> QED
    BY <2>1, <2>2 DEF Follows
<1>6. s \in Seq(CallType)
  BY DEF Follows
<1>7. Inv(reqs, s)
  BY <1>2, <1>3, <1>4, <1>5, <1>6 DEF Inv
<1> QED
  BY <1>7 DEF reqs

LEMMA StackFollows ==
    ASSUME stack \in Seq(CallType), NEW r, NEW then
    PROVE  Follows(stack, r, then)
BY DEF Follows

\* The call on top goes on to g.
LEMMA TopFollows ==
    ASSUME stack \in Seq(CallType), stack # <<>>, NEW then, NEW g \in CallType, g.of = Top.of,
           Backed(g, then), Pays(Top, Top.of) /\ Owed(then) => Pays(g, Top.of)
    PROVE  Follows(<<g>> \o Below, Top.of, then)
<1>1. /\ Top \in CallType /\ Below \in Seq(CallType)
      /\ Calls(stack) = {Top} \cup Calls(Below)
  BY CallsOnTop DEF Top, Below
<1>2. /\ <<g>> \o Below \in Seq(CallType)
      /\ Calls(<<g>> \o Below) = {g} \cup Calls(Below)
  BY <1>1, CallsPushed
<1> QED
  BY <1>1, <1>2 DEF Follows, Pays

\* It returns.
LEMMA BelowFollows ==
    ASSUME stack \in Seq(CallType), stack # <<>>, NEW then, ~ (Pays(Top, Top.of) /\ Owed(then))
    PROVE  Follows(Below, Top.of, then)
<1>1. Below \in Seq(CallType) /\ Calls(stack) = {Top} \cup Calls(Below)
  BY CallsOnTop DEF Top, Below
<1> QED
  BY <1>1 DEF Follows, Pays

-----------------------------------------------------------------------------
(* The steps. *)

LEMMA TypesHold == ASSUME AjaxInv
                   PROVE  /\ request \in [Request -> RequestType] /\ stack \in Seq(CallType)
                          /\ \A r \in Request : RequestSound(request[r]) /\ Grown(request[r], request[r])
                          /\ \A r \in Request : request[r] \in RequestType
                          /\ \A r \in Request : [request EXCEPT ![r] = request[r]] = request
BY DEF AjaxInv, Inv, Grown

LEMMA TopIsCall == ASSUME AjaxInv, stack # <<>>
                   PROVE  /\ Top \in CallType /\ Top.of \in Request /\ Below \in Seq(CallType)
                          /\ Backed(Top, request[Top.of])
<1>1. /\ Top \in CallType /\ Below \in Seq(CallType)
      /\ Calls(stack) = {Top} \cup Calls(Below)
  BY CallsOnTop DEF AjaxInv, Inv, Top, Below
<1>2. Top.of \in Request
  BY <1>1 DEF CallType
<1> QED
  BY <1>1, <1>2 DEF AjaxInv, Inv

\* A call that goes on to g while the requests stay as they are.
LEMMA GoesOn ==
    ASSUME AjaxInv, stack # <<>>, NEW g \in CallType, g.of = Top.of, g.fn = Top.fn,
           g.fn = "done" \/ g.pc # "ajaxSend",
           Pays(Top, Top.of) => Pays(g, Top.of)
    PROVE  Inv(request, <<g>> \o Below)
<1>1. Top \in CallType /\ Top.of \in Request /\ Backed(Top, request[Top.of])
  BY TopIsCall
<1>2. Backed(g, request[Top.of])
  BY <1>1 DEF Backed
<1>3. Follows(<<g>> \o Below, Top.of, request[Top.of])
  BY <1>2, TypesHold, TopFollows
<1> QED
  BY <1>1, <1>3, TypesHold, Moves

\* A call that returns.
LEMMA Returns ==
    ASSUME AjaxInv, stack # <<>>, ~ (Pays(Top, Top.of) /\ Owed(request[Top.of]))
    PROVE  Inv(request, Below)
<1>1. Follows(Below, Top.of, request[Top.of])
  BY BelowFollows DEF AjaxInv, Inv
<1> QED
  BY <1>1, TopIsCall, TypesHold, Moves

LEMMA SettledKeeps == ASSUME AjaxInv, Settled PROVE AjaxInv'
<1>1. At("done", "settle") /\ request' = request
  BY DEF Settled
<1>2. Top \in CallType /\ Top.of \in Request /\ Top.fn = "done" /\ request[Top.of] \in RequestType
  BY <1>1, TopIsCall, TypesHold DEF At
<1>3. PICK calls \in BOOLEAN : calls = request[Top.of].fireGlobals
  BY <1>2 DEF RequestType
<1> DEFINE g == [Top EXCEPT !.pc = "event", !.calls = calls]
<1>4. stack' = <<g>> \o Below
  BY <1>3 DEF Settled, GoOn
<1>5. g \in CallType /\ g.of = Top.of /\ g.fn = "done" /\ g.pc = "event"
  BY <1>2 DEF CallType
<1> HIDE DEF g
<1>6. Pays(Top, Top.of) => Pays(g, Top.of)
  BY <1>5 DEF Pays
<1>7. Inv(request, <<g>> \o Below)
  BY <1>1, <1>2, <1>5, <1>6, GoesOn DEF At
<1> QED
  BY <1>1, <1>4, <1>7 DEF AjaxInv

LEMMA CompletedKeeps == ASSUME AjaxInv, Completed PROVE AjaxInv'
<1>1. At("done", "complete") /\ request' = request
  BY DEF Completed
<1>2. Top \in CallType /\ Top.fn = "done" /\ Top.pc = "complete"
  BY <1>1, TopIsCall DEF At
<1>3. ~ Pays(Top, Top.of)
  BY <1>2 DEF Pays
<1> DEFINE g == [Top EXCEPT !.pc = "ajaxComplete", !.calls = TRUE]
<1>4. CASE stack' = <<g>> \o Below
  <2>1. g \in CallType /\ g.of = Top.of /\ g.fn = "done"
    BY <1>2 DEF CallType
  <2> HIDE DEF g
  <2>2. Inv(request, <<g>> \o Below)
    BY <1>1, <1>2, <1>3, <2>1, GoesOn DEF At
  <2> QED
    BY <1>1, <1>4, <2>2 DEF AjaxInv
<1>5. CASE stack' = Below
  BY <1>1, <1>3, <1>5, Returns DEF AjaxInv, At
<1> QED
  BY <1>4, <1>5 DEF Completed, GoOn

LEMMA CountDownKeeps == ASSUME AjaxInv, CountDown PROVE AjaxInv'
<1>1. At("done", "ajaxComplete") /\ request' = request
  BY DEF CountDown
<1>2. Top \in CallType /\ Top.fn = "done" /\ Top.pc = "ajaxComplete"
  BY <1>1, TopIsCall DEF At
<1>3. ~ Pays(Top, Top.of)
  BY <1>2 DEF Pays
<1> DEFINE g == [Top EXCEPT !.pc = "ajaxStop", !.calls = TRUE]
<1>4. CASE stack' = <<g>> \o Below
  <2>1. g \in CallType /\ g.of = Top.of /\ g.fn = "done"
    BY <1>2 DEF CallType
  <2> HIDE DEF g
  <2>2. Inv(request, <<g>> \o Below)
    BY <1>1, <1>2, <1>3, <2>1, GoesOn DEF At
  <2> QED
    BY <1>1, <1>4, <2>2 DEF AjaxInv
<1>5. CASE stack' = Below
  BY <1>1, <1>3, <1>5, Returns DEF AjaxInv, At
<1> QED
  BY <1>4, <1>5 DEF CountDown, GoOn

LEMMA ReturnKeeps == ASSUME AjaxInv, Stopped \/ Return PROVE AjaxInv'
<1>1. (At("done", "ajaxStop") \/ At("ajax", "sent")) /\ stack' = Below /\ request' = request
  BY DEF Stopped, Return
<1>2. stack # <<>> /\ ~ Pays(Top, Top.of)
  BY <1>1 DEF At, Pays
<1> QED
  BY <1>1, <1>2, Returns DEF AjaxInv

LEMMA BeforeSendKeeps == ASSUME AjaxInv, BeforeSend PROVE AjaxInv'
<1> DEFINE g == [Top EXCEPT !.pc = "beforeSend", !.calls = TRUE]
<1>1. At("ajax", "ajaxStart") /\ request' = request /\ stack' = <<g>> \o Below
  BY DEF BeforeSend, GoOn
<1>2. stack # <<>> /\ Top \in CallType /\ Top.fn = "ajax"
  BY <1>1, TopIsCall DEF At
<1>3. ~ Pays(Top, Top.of)
  BY <1>2 DEF Pays
<1>4. g \in CallType /\ g.of = Top.of /\ g.fn = "ajax" /\ g.pc = "beforeSend"
  BY <1>2 DEF CallType
<1> HIDE DEF g
<1>5. Inv(request, <<g>> \o Below)
  BY <1>2, <1>3, <1>4, GoesOn
<1> QED
  BY <1>1, <1>5 DEF AjaxInv

LEMMA CompleteKeeps == ASSUME AjaxInv, Complete PROVE AjaxInv'
<1> DEFINE now == request[Top.of]
           calls == now.installed /\ ~ now.completed
           then == [now EXCEPT !.completed = TRUE, !.complete = IF calls THEN @ + 1 ELSE @]
           g == [Top EXCEPT !.pc = "complete", !.calls = calls]
<1>1. /\ At("done", "event") /\ request' = [request EXCEPT ![Top.of] = then]
      /\ stack' = <<g>> \o Below
  BY DEF Complete, GoOn
<1>2. /\ stack # <<>> /\ Top \in CallType /\ Top.fn = "done" /\ Top.of \in Request
      /\ now \in RequestType /\ RequestSound(now) /\ now.settled /\ stack \in Seq(CallType)
  BY <1>1, TopIsCall, TypesHold DEF At, Backed
<1>3. calls \in BOOLEAN
  OBVIOUS
<1>4. then \in RequestType
  <2> DEFINE m == [now EXCEPT !.completed = TRUE]
  <2>1. now.complete \in Nat
    BY <1>2 DEF RequestType
  <2>2. PICK n \in Nat : n = IF calls THEN now.complete + 1 ELSE now.complete
    BY <2>1
  <2>3. then = [m EXCEPT !.complete = n]
    <3> HIDE DEF calls
    <3> QED
      BY <2>2
  <2>4. m \in RequestType
    BY <1>2 DEF RequestType
  <2> HIDE DEF m
  <2> QED
    BY <2>3, <2>4 DEF RequestType
<1>5. /\ then.completed = TRUE /\ then.installed = now.installed /\ then.settled = now.settled
      /\ then.state = now.state /\ then.success = now.success /\ then.error = now.error
      /\ then.complete = IF calls THEN now.complete + 1 ELSE now.complete
  BY <1>2 DEF RequestType
<1>6. g \in CallType /\ g.of = Top.of /\ g.fn = "done"
  <2> HIDE DEF calls
  <2> QED
    BY <1>2, <1>3 DEF CallType
<1> HIDE DEF then, g
<1>7. then.complete = IF then.installed /\ then.completed THEN 1 ELSE 0
  <2>1. CASE calls
    <3>1. now.complete = 0
      BY <2>1, <1>2 DEF RequestSound
    <3> QED
      BY <2>1, <3>1, <1>5
  <2>2. CASE ~ calls
    BY <2>2, <1>2, <1>5 DEF RequestSound
  <2> QED
    BY <2>1, <2>2
<1>8. RequestSound(then)
  BY <1>2, <1>5, <1>7 DEF RequestSound
<1>9. Grown(now, then) /\ ~ Owed(then) /\ Backed(g, then)
  BY <1>2, <1>5, <1>6 DEF Grown, Owed, Backed
<1> HIDE DEF now, calls
<1>10. Follows(<<g>> \o Below, Top.of, then)
  BY <1>2, <1>6, <1>9, TopFollows
<1>11. Inv([request EXCEPT ![Top.of] = then], <<g>> \o Below)
  BY <1>2, <1>4, <1>8, <1>9, <1>10, Moves DEF now
<1> QED
  BY <1>1, <1>11 DEF AjaxInv

\* A change of what the outcome does not depend on.
LEMMA OthersKeep ==
    ASSUME NEW now, RequestSound(now), NEW then,
           then.state = now.state, then.settled = now.settled, then.installed = now.installed,
           then.completed = now.completed, then.threw = now.threw, then.success = now.success,
           then.error = now.error, then.complete = now.complete
    PROVE  RequestSound(then) /\ Grown(now, then)
BY DEF RequestSound, Grown, Owed

LEMMA StartKeeps == ASSUME AjaxInv, Start PROVE AjaxInv'
<1> DEFINE now == request[Top.of]
           then == [now EXCEPT !.fireGlobals = now.s.global]
           calls == now.s.global /\ active = 0
           g == [Top EXCEPT !.pc = "ajaxStart", !.calls = calls]
<1>1. At("ajax", "prefilters")
  BY DEF Start
<1>2. /\ stack # <<>> /\ Top \in CallType /\ Top.fn = "ajax" /\ Top.of \in Request
      /\ now \in RequestType /\ RequestSound(now) /\ request \in [Request -> RequestType]
      /\ stack \in Seq(CallType)
  BY <1>1, TopIsCall, TypesHold DEF At
<1>3. ~ Pays(Top, Top.of)
  BY <1>2 DEF Pays
<1>4. CASE now.state = 2
  <2>1. stack' = Below /\ request' = request
    BY <1>4 DEF Start
  <2> QED
    BY <1>2, <1>3, <2>1, Returns DEF AjaxInv
<1>5. CASE now.state # 2
  <2>1. request' = [request EXCEPT ![Top.of] = then] /\ stack' = <<g>> \o Below
    BY <1>2, <1>5 DEF Start, GoOn
  <2>2. now.s.global \in BOOLEAN
    <3>1. now.s \in Settings
      BY <1>2 DEF RequestType
    <3> QED
      BY <3>1, AjaxAssumption
  <2>3. then \in RequestType
    <3> HIDE DEF now
    <3>1. PICK b \in BOOLEAN : b = now.s.global
      BY <2>2
    <3>2. then = [now EXCEPT !.fireGlobals = b]
      BY <3>1
    <3> QED
      BY <1>2, <3>2 DEF RequestType
  <2>4. /\ then.state = now.state /\ then.settled = now.settled /\ then.installed = now.installed
        /\ then.completed = now.completed /\ then.threw = now.threw /\ then.success = now.success
        /\ then.error = now.error /\ then.complete = now.complete
    BY <1>2 DEF RequestType
  <2>5. g \in CallType /\ g.of = Top.of /\ g.fn = "ajax" /\ g.pc = "ajaxStart"
    <3>1. calls \in BOOLEAN
      BY <2>2
    <3> HIDE DEF calls
    <3> QED
      BY <1>2, <3>1 DEF CallType
  <2> HIDE DEF now, then, g
  <2>6. RequestSound(then) /\ Grown(now, then)
    BY <1>2, <2>4, OthersKeep
  <2>7. Backed(g, then)
    BY <2>5 DEF Backed
  <2>8. Follows(<<g>> \o Below, Top.of, then)
    BY <1>2, <1>3, <2>5, <2>7, TopFollows
  <2>9. Inv([request EXCEPT ![Top.of] = then], <<g>> \o Below)
    BY <1>2, <2>3, <2>6, <2>8, Moves DEF now
  <2> QED
    BY <2>1, <2>9 DEF AjaxInv
<1> QED
  BY <1>4, <1>5

\* The transport stops, or starts, to listen for an answer.
LEMMA ListeningKeeps ==
    ASSUME NEW now \in RequestType, RequestSound(now), NEW b \in BOOLEAN
    PROVE  LET then == [now EXCEPT !.listening = b]
           IN  then \in RequestType /\ RequestSound(then) /\ Grown(now, then)
<1> DEFINE then == [now EXCEPT !.listening = b]
<1>1. then \in RequestType
  BY DEF RequestType
<1>2. /\ then.state = now.state /\ then.settled = now.settled /\ then.installed = now.installed
      /\ then.completed = now.completed /\ then.threw = now.threw /\ then.success = now.success
      /\ then.error = now.error /\ then.complete = now.complete
  BY DEF RequestType
<1> HIDE DEF then
<1>3. RequestSound(then) /\ Grown(now, then)
  BY <1>2, OthersKeep
<1> QED
  BY <1>1, <1>3 DEF then

LEMMA AbortKeeps ==
    ASSUME AjaxInv, NEW r \in Request, NEW s, abort(r, s),
           s = stack \/ (s = Below /\ stack # <<>> /\ r = Top.of /\ ~ Pays(Top, Top.of))
    PROVE  AjaxInv'
<1> DEFINE now == request[r]
<1>1. now \in RequestType /\ RequestSound(now) /\ stack \in Seq(CallType)
  BY TypesHold
<1>2. PICK b \in BOOLEAN : b = IF now.transport THEN FALSE ELSE now.listening
  BY <1>1 DEF RequestType
<1> DEFINE then == [now EXCEPT !.listening = b]
<1>3. then \in RequestType /\ RequestSound(then) /\ Grown(now, then)
  BY <1>1, ListeningKeeps
<1>4. done([request EXCEPT ![r] = then], r, FALSE, s)
  BY <1>2 DEF abort
<1> HIDE DEF then, now
<1>5. Follows(s, r, then)
  BY <1>1, StackFollows, BelowFollows
<1>6. Inv([request EXCEPT ![r] = then], s)
  BY <1>3, <1>5, Moves DEF now
<1> QED
  BY <1>4, <1>6, DoneKeeps

LEMMA RefuseKeeps == ASSUME AjaxInv, Refuse PROVE AjaxInv'
<1>1. At("ajax", "beforeSend") /\ abort(Top.of, Below)
  BY DEF Refuse
<1>2. stack # <<>> /\ Top.of \in Request /\ ~ Pays(Top, Top.of)
  BY <1>1, TopIsCall DEF At, Pays
<1> QED
  BY <1>1, <1>2, AbortKeeps

LEMMA AnswerKeeps == ASSUME AjaxInv, NEW r \in Request, Answer(r) PROVE AjaxInv'
<1> DEFINE then == [request[r] EXCEPT !.listening = FALSE]
<1>1. PICK success \in BOOLEAN : done([request EXCEPT ![r] = then], r, success, stack)
  BY DEF Answer
<1>2. request[r] \in RequestType /\ RequestSound(request[r]) /\ stack \in Seq(CallType)
  BY TypesHold
<1>3. then \in RequestType /\ RequestSound(then) /\ Grown(request[r], then)
  BY <1>2, ListeningKeeps
<1> HIDE DEF then
<1>4. Inv([request EXCEPT ![r] = then], stack)
  BY <1>2, <1>3, StackFollows, Moves
<1> QED
  BY <1>1, <1>4, DoneKeeps

LEMMA PageMakesKeeps == ASSUME AjaxInv, NEW r \in Request, PageMakes(r) PROVE AjaxInv'
<1>1. PICK s \in Settings : Make(r, s)
  BY DEF PageMakes
<1> DEFINE now == request[r]
           then == [now EXCEPT !.made = TRUE, !.s = s]
           g == Called("ajax", r, "prefilters", TRUE)
<1>2. request' = [request EXCEPT ![r] = then] /\ stack' = <<g>> \o stack
  BY <1>1 DEF Make
<1>3. now \in RequestType /\ RequestSound(now) /\ stack \in Seq(CallType)
  BY TypesHold
<1>4. then \in RequestType
  <2> DEFINE m == [now EXCEPT !.made = TRUE]
  <2>1. m \in RequestType
    BY <1>3 DEF RequestType
  <2> HIDE DEF m
  <2>2. [m EXCEPT !.s = s] \in RequestType
    BY <2>1 DEF RequestType
  <2> QED
    BY <2>2 DEF m
<1>5. /\ then.state = now.state /\ then.settled = now.settled /\ then.installed = now.installed
      /\ then.completed = now.completed /\ then.threw = now.threw /\ then.success = now.success
      /\ then.error = now.error /\ then.complete = now.complete
  BY <1>3 DEF RequestType
<1>6. g \in CallType /\ g.of = r /\ g.fn = "ajax" /\ g.pc = "prefilters"
  BY DEF Called, CallType
<1> HIDE DEF now, then, g
<1>7. RequestSound(then) /\ Grown(now, then)
  BY <1>3, <1>5, OthersKeep
<1>8. stack' \in Seq(CallType) /\ Calls(stack') = {g} \cup Calls(stack)
  BY <1>2, <1>3, <1>6, CallsPushed
<1>9. Backed(g, then)
  BY <1>6 DEF Backed
<1>10. Follows(stack', r, then)
  BY <1>6, <1>8, <1>9 DEF Follows
<1>11. Inv([request EXCEPT ![r] = then], stack')
  BY <1>4, <1>7, <1>10, Moves DEF now
<1> QED
  BY <1>2, <1>11 DEF AjaxInv

\* What send is called with.
LEMMA ToSendKeeps ==
    ASSUME NEW now \in RequestType, RequestSound(now), now.installed
    PROVE  /\ ToSend(now) \in RequestType /\ RequestSound(ToSend(now)) /\ Grown(now, ToSend(now))
<1>1. PICK b \in BOOLEAN : b = (now.s.async /\ now.s.timeout)
  OBVIOUS
<1> DEFINE m == [now EXCEPT !.state = 1]
           then == [m EXCEPT !.timer = b]
<1>2. ToSend(now) = then
  BY <1>1 DEF ToSend
<1>3. m \in RequestType
  BY DEF RequestType
<1>4. /\ m.state = 1 /\ m.settled = now.settled /\ m.installed = now.installed
      /\ m.completed = now.completed /\ m.threw = now.threw /\ m.success = now.success
      /\ m.error = now.error /\ m.complete = now.complete
  BY DEF RequestType
<1> HIDE DEF m
<1>5. then \in RequestType
  BY <1>3 DEF RequestType
<1>6. /\ then.state = m.state /\ then.settled = m.settled /\ then.installed = m.installed
      /\ then.completed = m.completed /\ then.threw = m.threw /\ then.success = m.success
      /\ then.error = m.error /\ then.complete = m.complete
  BY <1>3 DEF RequestType
<1> HIDE DEF then
<1>7. RequestSound(m) /\ Grown(now, m)
  BY <1>4 DEF RequestSound, Grown, Owed
<1>8. RequestSound(then) /\ Grown(m, then)
  BY <1>6, <1>7, OthersKeep
<1>9. Grown(now, then)
  BY <1>7, <1>8 DEF Grown
<1> QED
  BY <1>2, <1>5, <1>8, <1>9

LEMMA SendKeeps == ASSUME AjaxInv, Send PROVE AjaxInv'
<1> DEFINE now == request[Top.of]
           then == [ToSend(now) EXCEPT !.listening = TRUE]
           g == [Top EXCEPT !.pc = "sent", !.calls = FALSE]
<1>1. /\ At("ajax", "ajaxSend") /\ request' = [request EXCEPT ![Top.of] = then]
      /\ stack' = <<g>> \o Below
  BY DEF Send, GoOn
<1>2. /\ stack # <<>> /\ Top \in CallType /\ Top.fn = "ajax" /\ Top.of \in Request
      /\ now \in RequestType /\ RequestSound(now) /\ now.installed /\ stack \in Seq(CallType)
  BY <1>1, TopIsCall, TypesHold DEF At, Backed
<1>3. g \in CallType /\ g.of = Top.of /\ g.fn = "ajax" /\ g.pc = "sent"
  BY <1>2 DEF CallType
<1> HIDE DEF now, g
<1>4. ToSend(now) \in RequestType /\ RequestSound(ToSend(now)) /\ Grown(now, ToSend(now))
  BY <1>2, ToSendKeeps
<1>5. then \in RequestType /\ RequestSound(then) /\ Grown(ToSend(now), then)
  BY <1>4, ListeningKeeps
<1> HIDE DEF then
<1>6. Grown(now, then)
  BY <1>4, <1>5 DEF Grown
<1>7. Backed(g, then) /\ ~ Pays(Top, Top.of)
  BY <1>2, <1>3 DEF Backed, Pays
<1>8. Follows(<<g>> \o Below, Top.of, then)
  BY <1>2, <1>3, <1>7, TopFollows
<1>9. Inv([request EXCEPT ![Top.of] = then], <<g>> \o Below)
  BY <1>2, <1>5, <1>6, <1>8, Moves DEF now
<1> QED
  BY <1>1, <1>9 DEF AjaxInv

LEMMA SendAtOnceKeeps == ASSUME AjaxInv, SendAtOnce PROVE AjaxInv'
<1> DEFINE now == request[Top.of]
           then == ToSend(now)
           g == [Top EXCEPT !.pc = "sent", !.calls = FALSE]
<1>1. At("ajax", "ajaxSend")
  BY DEF SendAtOnce
<1>0. PICK success \in BOOLEAN :
        done([request EXCEPT ![Top.of] = then], Top.of, success, <<g>> \o Below)
  BY DEF SendAtOnce
<1>2. /\ stack # <<>> /\ Top \in CallType /\ Top.fn = "ajax" /\ Top.of \in Request
      /\ now \in RequestType /\ RequestSound(now) /\ now.installed /\ stack \in Seq(CallType)
  BY <1>1, TopIsCall, TypesHold DEF At, Backed
<1>3. g \in CallType /\ g.of = Top.of /\ g.fn = "ajax" /\ g.pc = "sent"
  BY <1>2 DEF CallType
<1> HIDE DEF now, g
<1>4. then \in RequestType /\ RequestSound(then) /\ Grown(now, then)
  BY <1>2, ToSendKeeps
<1> HIDE DEF then
<1>5. Backed(g, then) /\ ~ Pays(Top, Top.of)
  BY <1>2, <1>3 DEF Backed, Pays
<1>6. Follows(<<g>> \o Below, Top.of, then)
  BY <1>2, <1>3, <1>5, TopFollows
<1>7. Inv([request EXCEPT ![Top.of] = then], <<g>> \o Below)
  BY <1>2, <1>4, <1>6, Moves DEF now
<1> QED
  BY <1>0, <1>2, <1>7, DoneKeeps

LEMMA SendFailsKeeps == ASSUME AjaxInv, SendFails PROVE AjaxInv'
<1> DEFINE now == request[Top.of]
           then == ToSend(now)
<1>1. /\ At("ajax", "ajaxSend")
      /\ done([request EXCEPT ![Top.of] = then], Top.of, FALSE, Below)
  BY DEF SendFails
<1>2. /\ stack # <<>> /\ Top \in CallType /\ Top.fn = "ajax" /\ Top.of \in Request
      /\ now \in RequestType /\ RequestSound(now) /\ now.installed /\ stack \in Seq(CallType)
  BY <1>1, TopIsCall, TypesHold DEF At, Backed
<1> HIDE DEF now
<1>3. then \in RequestType /\ RequestSound(then) /\ Grown(now, then)
  BY <1>2, ToSendKeeps
<1> HIDE DEF then
<1>4. ~ Pays(Top, Top.of)
  BY <1>2 DEF Pays
<1>5. Follows(Below, Top.of, then)
  BY <1>2, <1>4, BelowFollows
<1>6. Inv([request EXCEPT ![Top.of] = then], Below)
  BY <1>2, <1>3, <1>5, Moves DEF now
<1> QED
  BY <1>1, <1>2, <1>6, DoneKeeps

\* The callbacks are put on the deferreds of a request that is not settled: if it was, its
\* state would be 2.
LEMMA InstallKeeps == ASSUME AjaxInv, Install PROVE AjaxInv'
<1> DEFINE now == request[Top.of]
           sends == now.s.kind # "none"
           then == [now EXCEPT !.installed = TRUE, !.transport = sends]
           g == [Top EXCEPT !.pc = "ajaxSend", !.calls = now.fireGlobals]
<1>1. At("ajax", "beforeSend")
  BY DEF Install
<1>2. /\ stack # <<>> /\ Top \in CallType /\ Top.fn = "ajax" /\ Top.of \in Request
      /\ now \in RequestType /\ RequestSound(now) /\ stack \in Seq(CallType)
  BY <1>1, TopIsCall, TypesHold DEF At
<1>3. ~ Pays(Top, Top.of)
  BY <1>2 DEF Pays
<1>4. CASE now.state = 2
  <2>1. stack' = Below /\ request' = request
    BY <1>4 DEF Install
  <2> QED
    BY <1>2, <1>3, <2>1, Returns DEF AjaxInv
<1>5. CASE now.state # 2
  <2>1. sends \in BOOLEAN
    OBVIOUS
  <2>2. then \in RequestType
    <3> DEFINE m == [now EXCEPT !.installed = TRUE]
    <3>1. m \in RequestType
      BY <1>2 DEF RequestType
    <3> HIDE DEF m, sends
    <3>2. [m EXCEPT !.transport = sends] \in RequestType
      BY <2>1, <3>1 DEF RequestType
    <3> QED
      BY <3>2 DEF m
  <2>3. /\ then.state = now.state /\ then.settled = now.settled /\ then.installed = TRUE
        /\ then.completed = now.completed /\ then.threw = now.threw /\ then.success = now.success
        /\ then.error = now.error /\ then.complete = now.complete
    BY <1>2 DEF RequestType
  <2>4. g \in CallType /\ g.of = Top.of /\ g.fn = "ajax" /\ g.pc = "ajaxSend"
    <3>1. now.fireGlobals \in BOOLEAN
      BY <1>2 DEF RequestType
    <3> QED
      BY <1>2, <3>1 DEF CallType
  <2>5. \/ done([request EXCEPT ![Top.of] = then], Top.of, FALSE, Below)
        \/ request' = [request EXCEPT ![Top.of] = then] /\ stack' = <<g>> \o Below
    BY <1>5 DEF Install, GoOn
  <2> HIDE DEF now, then, g
  <2>6. RequestSound(then) /\ Grown(now, then)
    BY <1>2, <1>5, <2>3 DEF RequestSound, Grown, Owed
  <2>7. Backed(g, then)
    BY <2>3, <2>4 DEF Backed
  <2>8. CASE done([request EXCEPT ![Top.of] = then], Top.of, FALSE, Below)
    <3>1. Follows(Below, Top.of, then)
      BY <1>2, <1>3, BelowFollows
    <3>2. Inv([request EXCEPT ![Top.of] = then], Below)
      BY <1>2, <2>2, <2>6, <3>1, Moves DEF now
    <3> QED
      BY <1>2, <2>8, <3>2, DoneKeeps
  <2>9. CASE request' = [request EXCEPT ![Top.of] = then] /\ stack' = <<g>> \o Below
    <3>1. Follows(<<g>> \o Below, Top.of, then)
      BY <1>2, <1>3, <2>4, <2>7, TopFollows
    <3>2. Inv([request EXCEPT ![Top.of] = then], <<g>> \o Below)
      BY <1>2, <2>2, <2>6, <3>1, Moves DEF now
    <3> QED
      BY <2>9, <3>2 DEF AjaxInv
  <2> QED
    BY <2>5, <2>8, <2>9
<1> QED
  BY <1>4, <1>5

\* The requests of the calls that are left by an exception have no outcome due.
LEMMA ThrowsKeeps == ASSUME AjaxInv, HandlerThrows PROVE AjaxInv'
<1>1. PICK to \in 1 .. Len(stack) + 1 :
        /\ stack' = SubSeq(stack, to, Len(stack))
        /\ request' = [r \in Request |->
             [request[r] EXCEPT !.threw = @ \/ \E i \in 1 .. to - 1 : stack[i].of = r]]
  BY DEF HandlerThrows
<1>2. /\ request \in [Request -> RequestType] /\ stack \in Seq(CallType) /\ Len(stack) \in Nat
      /\ \A r \in Request : request[r] \in RequestType /\ RequestSound(request[r])
  BY TypesHold
<1>3. to \in 1 .. Len(stack) + 1
  OBVIOUS
<1>4. /\ stack' \in Seq(CallType)
      /\ Calls(stack') = {stack[i] : i \in to .. Len(stack)}
  <2> DEFINE t == SubSeq(stack, to, Len(stack))
  <2>1. /\ t \in Seq(CallType) /\ Len(t) = Len(stack) - to + 1
        /\ \A i \in 1 .. Len(t) : t[i] = stack[to + i - 1]
    BY <1>2, <1>3
  <2>2. DOMAIN t = 1 .. Len(stack) - to + 1
    BY <2>1
  <2> HIDE DEF t
  <2>3. ASSUME NEW i \in DOMAIN t PROVE t[i] \in {stack[j] : j \in to .. Len(stack)}
    <3>1. to + i - 1 \in to .. Len(stack)
      BY <1>2, <1>3, <2>2, <2>3
    <3> QED
      BY <2>1, <2>2, <3>1
  <2>4. ASSUME NEW j \in to .. Len(stack) PROVE \E i \in DOMAIN t : t[i] = stack[j]
    <3>1. j - to + 1 \in DOMAIN t /\ to + (j - to + 1) - 1 = j
      BY <1>2, <1>3, <2>2
    <3>2. t[j - to + 1] = stack[to + (j - to + 1) - 1]
      BY <2>1, <2>2, <3>1
    <3> QED
      BY <3>1, <3>2
  <2>5. Calls(t) = {stack[i] : i \in to .. Len(stack)}
    BY <2>3, <2>4 DEF Calls
  <2> QED
    BY <1>1, <2>1, <2>5 DEF t
<1>5. Calls(stack') \subseteq Calls(stack)
  <2>1. DOMAIN stack = 1 .. Len(stack)
    BY <1>2
  <2>2. to .. Len(stack) \subseteq DOMAIN stack
    BY <1>2, <1>3, <2>1
  <2> QED
    BY <1>4, <2>2 DEF Calls
<1> DEFINE left(r) == \E i \in 1 .. to - 1 : stack[i].of = r
<1>6. ASSUME NEW r \in Request
      PROVE  /\ request'[r] \in RequestType /\ RequestSound(request'[r])
             /\ request'[r].settled = request[r].settled
             /\ request'[r].installed = request[r].installed
             /\ Owed(request'[r]) => Owed(request[r]) /\ ~ left(r)
  <2> DEFINE now == request[r]
  <2>1. PICK b \in BOOLEAN : b = (now.threw \/ left(r))
    OBVIOUS
  <2> DEFINE then == [now EXCEPT !.threw = b]
  <2>2. request'[r] = then
    BY <1>1, <2>1
  <2>3. now \in RequestType /\ RequestSound(now)
    BY <1>2
  <2>4. then \in RequestType
    BY <2>3 DEF RequestType
  <2>5. /\ then.state = now.state /\ then.settled = now.settled /\ then.installed = now.installed
        /\ then.completed = now.completed /\ (then.threw <=> b) /\ then.success = now.success
        /\ then.error = now.error /\ then.complete = now.complete
    BY <2>3 DEF RequestType
  <2> HIDE DEF then, now, left
  <2>6. RequestSound(then)
    BY <2>3, <2>5 DEF RequestSound
  <2>7. Owed(then) => Owed(now) /\ ~ left(r)
    BY <2>1, <2>5 DEF Owed
  <2> QED
    BY <2>2, <2>4, <2>5, <2>6, <2>7 DEF now
<1>7. request' \in [Request -> RequestType]
  BY <1>1, <1>6
<1>8. ASSUME NEW f \in Calls(stack') PROVE Backed(f, request'[f.of])
  <2>1. Backed(f, request[f.of])
    BY <1>5 DEF AjaxInv, Inv
  <2>2. f \in CallType
    BY <1>4, <1>5, <1>2 DEF Calls
  <2>3. f.of \in Request
    BY <2>2 DEF CallType
  <2> QED
    BY <2>1, <2>3, <1>6 DEF Backed
<1>9. ASSUME NEW r \in Request, Owed(request'[r]) PROVE \E f \in Calls(stack') : Pays(f, r)
  <2>1. Owed(request[r]) /\ ~ left(r)
    BY <1>6, <1>9
  <2>2. PICK i \in DOMAIN stack : Pays(stack[i], r)
    BY <2>1 DEF AjaxInv, Inv, Calls
  <2>3. i \in 1 .. Len(stack) /\ stack[i].of = r
    BY <1>2, <2>2 DEF Pays
  <2>4. i \notin 1 .. to - 1
    BY <2>1, <2>3
  <2>5. i \in to .. Len(stack)
    BY <2>3, <2>4, <1>2, <1>3
  <2> QED
    BY <2>2, <2>5, <1>4
<1> QED
  BY <1>4, <1>6, <1>7, <1>8, <1>9 DEF AjaxInv, Inv

-----------------------------------------------------------------------------
(* The theorem. *)

LEMMA AjaxStarts == AjaxInit => AjaxInv
<1> SUFFICES ASSUME AjaxInit PROVE AjaxInv
  OBVIOUS
<1> DEFINE new == [s |-> CHOOSE x \in Settings : TRUE, made |-> FALSE, state |-> 0,
                   transport |-> FALSE, listening |-> FALSE, timer |-> FALSE,
                   fireGlobals |-> FALSE, installed |-> FALSE, settled |-> FALSE,
                   completed |-> FALSE, threw |-> FALSE, runs |-> 0, success |-> 0,
                   error |-> 0, complete |-> 0]
<1>1. request = [r \in Request |-> new] /\ stack = <<>>
  BY DEF AjaxInit
<1>2. new \in RequestType
  <2>1. (CHOOSE x \in Settings : TRUE) \in Settings
    BY AjaxAssumption
  <2> QED
    BY <2>1 DEF RequestType
<1>3. RequestSound(new) /\ ~ Owed(new)
  BY DEF RequestSound, Owed
<1> HIDE DEF new
<1> QED
  BY <1>1, <1>2, <1>3, CallsOfNone DEF AjaxInv, Inv

LEMMA AjaxSteps == ASSUME AjaxInv, [AjaxNext]_ajaxVars PROVE AjaxInv'
<1>1. CASE RunOn
  BY <1>1, SettledKeeps, CompleteKeeps, CompletedKeeps, CountDownKeeps, ReturnKeeps, StartKeeps,
     BeforeSendKeeps, InstallKeeps, SendKeeps, SendAtOnceKeeps, SendFailsKeeps DEF RunOn
<1>2. CASE Refuse \/ HandlerThrows
  BY <1>2, RefuseKeeps, ThrowsKeeps
<1>3. ASSUME NEW r \in Request, Answer(r) \/ TimeoutFires(r) \/ PageMakes(r) \/ PageAborts(r)
      PROVE  AjaxInv'
  <2>1. CASE Answer(r)
    BY <2>1, AnswerKeeps
  <2>2. CASE TimeoutFires(r)
    BY <2>2, AbortKeeps DEF TimeoutFires
  <2>3. CASE PageMakes(r)
    BY <2>3, PageMakesKeeps
  <2>4. CASE PageAborts(r)
    BY <2>4, AbortKeeps DEF PageAborts
  <2> QED
    BY <1>3, <2>1, <2>2, <2>3, <2>4
<1>4. CASE UNCHANGED ajaxVars
  BY <1>4 DEF ajaxVars, AjaxInv
<1> QED
  BY <1>1, <1>2, <1>3, <1>4 DEF AjaxNext

\* One outcome for each request, however its answer, its timeout, aborts and exceptions come
\* together, and for any number of requests (jquery-1.5.1.js:6498-6636).
THEOREM OneOutcomeEver == AjaxSpec => []OneOutcome
<1>1. AjaxInv /\ [AjaxNext]_ajaxVars => AjaxInv'
  BY AjaxSteps
<1>2. AjaxInv => OneOutcome
  <2> SUFFICES ASSUME AjaxInv, NEW r \in Request
               PROVE  /\ request[r].success + request[r].error <= 1
                      /\ request[r].complete <= request[r].success + request[r].error
                      /\ stack = <<>> /\ request[r].state = 2 /\ request[r].installed
                            /\ ~ request[r].threw => request[r].complete = 1
    BY DEF OneOutcome
  <2> DEFINE now == request[r]
  <2>1. RequestSound(now)
    BY DEF AjaxInv, Inv
  <2>2. Owed(now) => stack # <<>>
    BY CallsOfNone DEF AjaxInv, Inv
  <2> HIDE DEF now
  <2>3. now.success + now.error <= 1
    <3>1. now.success + now.error \in {0, 1}
      BY <2>1 DEF RequestSound
    <3> QED
      BY <3>1
  <2>4. now.complete <= now.success + now.error
    <3>1. \/ now.complete = 0 /\ now.success + now.error \in {0, 1}
          \/ now.complete = 1 /\ now.success + now.error = 1
      BY <2>1 DEF RequestSound
    <3> QED
      BY <3>1
  <2>5. ASSUME stack = <<>>, now.state = 2, now.installed, ~ now.threw PROVE now.complete = 1
    <3>1. now.completed
      BY <2>1, <2>2, <2>5 DEF RequestSound, Owed
    <3> QED
      BY <2>1, <2>5, <3>1 DEF RequestSound
  <2> QED
    BY <2>3, <2>4, <2>5 DEF now
<1> QED
  BY AjaxStarts, <1>1, <1>2, PTL DEF AjaxSpec

-----------------------------------------------------------------------------
(* An event. *)

\* An event that was stopped does not go on, and what it did is not done any more.
Ended(event) == IF event.native THEN event.over ELSE event.stopped

Kept(event) ==
    /\ ~ event.late
    /\ event.stoppedIn > 0 =>
          /\ event.elem = event.stoppedIn
          /\ Ended(event) \/ (event.pc \in {"live", "livePage"} /\ event.answer = "false")
          /\ event.native => event.pc \notin {"arrive", "inlinePage", "listen"}
    /\ event.immediate =>
          /\ Ended(event) /\ event.pc # "arrive"
          /\ event.pc = "call" => event.list = {}
          /\ event.pc = "live" => event.lives = {}
    /\ event.stoppedAt > 0 =>
          /\ event.stoppedIn > 0 /\ event.liveFired = event.elem /\ event.pc # "arrive"
          /\ event.pc \in {"live", "livePage"} =>
                event.maxLevel > 0 /\ event.maxLevel <= Level(event, event.stoppedAt)
    /\ event.pc \in {"inline", "after"} => ~ event.native
    /\ event.pc = "listen" => event.native
    /\ event.pc = "livePage" => InReach(event)
    /\ event.pc \in {"live", "livePage"} =>
          event.liveFired = event.elem /\ \A l \in event.lives : l.elem >= event.target

\* Each binding has a number of its own, and a live one an element.
Numbered(bindings, kept, n) ==
    /\ \A e, f \in Elements : \A b \in kept[e], c \in kept[f] : b.id = c.id => e = f /\ b = c
    /\ \A e \in Elements : \A b \in kept[e] : b.id <= n
    /\ \A e \in Elements : \A b \in bindings[e] :
          /\ b.id <= n
          /\ \A c \in bindings[e] : b.id = c.id => b = c
          /\ b.kind # "live" => \A f \in Elements : \A c \in kept[f] : c.id # b.id

\* An event has come to an element, but called nothing there.
Early(event) == event.pc = "arrive" \/ (event.native /\ event.pc \in {"inlinePage", "listen"})
Calling(event) == event.pc \in {"call", "page", "live", "livePage"}

\* What an event called is behind it.
Behind(event, kept, n) ==
    /\ event.liveFired <= event.elem /\ (event.pc = "arrive" => event.liveFired < event.elem)
    /\ \A c \in event.called :
          /\ c[1] <= event.elem /\ c[2] <= n
          /\ Early(event) => c[1] < event.elem
          /\ \A e \in Elements : \A b \in kept[e] : b.id = c[2] =>
                e < event.elem \/ (e = event.elem /\ ~ Early(event) /\ event.liveFired = event.elem)

\* What it will call at an element was not called there.
Ahead(event, kept, n) ==
    /\ Calling(event) => \A b \in event.list :
          /\ b.id <= n
          /\ \A c \in event.list : b.id = c.id => b = c
          /\ b.kind # "live" =>
                /\ <<event.elem, b.id>> \notin event.called
                /\ \A e \in Elements : \A c \in kept[e] : c.id # b.id
    /\ event.pc \in {"live", "livePage"} =>
          \A l \in event.lives :
             /\ l.of.id <= n /\ l.elem < event.elem
             /\ \A e \in Elements : \A b \in kept[e] : b.id = l.of.id => e = event.elem
             /\ \A k \in event.lives : (l.elem = k.elem /\ l.of.id = k.of.id) => l = k
             /\ <<l.elem, l.of.id>> \in event.called => event.pc = "livePage" /\ l = NextLive(event.lives)

Once(event, kept, n, quiet) ==
    \/ event.meddled
    \/ ~ event.again /\ event.native /\ quiet /\ event.pc \in {"arrive", "inlinePage", "listen", "up"}
    \/ ~ event.again /\ Behind(event, kept, n) /\ Ahead(event, kept, n)

Sound(event, kept, n, quiet) ==
    event \in EventType /\ Kept(event) /\ Once(event, kept, n, quiet)

EventsInv ==
    /\ EventsTypeOK
    /\ Numbered(handlers, live, bound)
    /\ \A event \in Calls(dispatches) : Sound(event, live, bound, triggered)

-----------------------------------------------------------------------------
(* The events on their way. *)

LEMMA ElementsAreNumbers == Depth \in Nat /\ \A e \in Elements : e \in Nat /\ e > 0 /\ e <= Depth
<1>1. Depth \in Nat \ {0}
  BY EventsAssumption
<1> QED
  BY <1>1 DEF Elements

LEMMA Stages ==
    \A p \in {"arrive", "inlinePage", "listen", "call", "page", "live", "livePage", "inline", "up", "after"} :
        p \in Stage
BY DEF Stage

LEMMA CurrentIsSound ==
    ASSUME EventsInv, dispatches # <<>>
    PROVE  /\ Sound(Current, live, bound, triggered)
           /\ Outer \in Seq(EventType)
           /\ \A event \in Calls(Outer) : Sound(event, live, bound, triggered)
<1>1. dispatches \in Seq(EventType)
  BY DEF EventsInv, EventsTypeOK
<1>2. Current \in Calls(dispatches) /\ Calls(Outer) \subseteq Calls(dispatches) /\ Outer \in Seq(EventType)
  BY <1>1, CallsOnTop DEF Current, Outer
<1> QED
  BY <1>2 DEF EventsInv

\* An event goes on, and of the others nothing changes, though functions may be unbound.
LEMMA OneGoesOn ==
    ASSUME EventsInv, dispatches # <<>>, NEW event, Goes(event),
           Sound(event, live, bound, triggered),
           UNCHANGED <<web, live, triggered, bound>>,
           handlers' \in [Elements -> SUBSET Entry], \A e \in Elements : handlers'[e] \subseteq handlers[e]
    PROVE  EventsInv'
<1>1. dispatches' \in Seq(EventType) /\ Calls(dispatches') = {event} \cup Calls(Outer)
  BY CurrentIsSound, CallsPushed DEF Goes, Sound
<1>2. EventsTypeOK'
  BY <1>1 DEF EventsInv, EventsTypeOK
<1>3. Numbered(handlers, live, bound)'
  BY DEF EventsInv, Numbered
<1>4. \A e \in Calls(dispatches') : Sound(e, live, bound, triggered)
  BY <1>1, CurrentIsSound
<1> QED
  BY <1>2, <1>3, <1>4 DEF EventsInv

LEMMA OnlyOneGoesOn ==
    ASSUME EventsInv, dispatches # <<>>, NEW event, Goes(event),
           Sound(event, live, bound, triggered),
           UNCHANGED <<web, handlers, live, triggered, bound>>
    PROVE  EventsInv'
<1>1. handlers' \in [Elements -> SUBSET Entry] /\ \A e \in Elements : handlers'[e] \subseteq handlers[e]
  BY DEF EventsInv, EventsTypeOK
<1> QED
  BY <1>1, OneGoesOn

-----------------------------------------------------------------------------
(* What happens to one event. *)

\* An event goes from a stage to one in which it calls no function of jQuery.
LEMMA MovesOn ==
    ASSUME NEW event, NEW kept, NEW n, NEW quiet, Sound(event, kept, n, quiet),
           NEW p \in {"inlinePage", "listen", "inline", "up", "after"},
           ~ (event.pc \in {"live", "livePage"}),
           event.native => p # "after" /\ p # "inline", p = "listen" => event.native,
           p \in {"inlinePage", "listen"} /\ event.native => Early(event)
    PROVE  Sound([event EXCEPT !.pc = p], kept, n, quiet)
<1> DEFINE then == [event EXCEPT !.pc = p]
<1>1. /\ then \in EventType /\ then.pc = p
      /\ then.native = event.native /\ then.target = event.target /\ then.elem = event.elem
      /\ then.stopped = event.stopped /\ then.immediate = event.immediate
      /\ then.over = event.over /\ then.liveFired = event.liveFired
      /\ then.list = event.list /\ then.lives = event.lives
      /\ then.maxLevel = event.maxLevel /\ then.answer = event.answer
      /\ then.called = event.called /\ then.again = event.again
      /\ then.meddled = event.meddled /\ then.stoppedIn = event.stoppedIn
      /\ then.stoppedAt = event.stoppedAt /\ then.late = event.late
  <2>1. event \in EventType /\ p \in Stage
    BY Stages DEF Sound
  <2> QED
    BY <2>1 DEF EventType
<1> HIDE DEF then
<1>2. Kept(event) /\ Once(event, kept, n, quiet) /\ event \in EventType
  BY DEF Sound
<1>3. Kept(then)
  BY <1>1, <1>2 DEF Kept, Ended, Early
<1>4. Once(then, kept, n, quiet)
  <2>1. CASE event.meddled
    BY <2>1, <1>1 DEF Once
  <2>2. CASE ~ event.again /\ event.native /\ quiet /\ event.pc \in {"arrive", "inlinePage", "listen", "up"}
    BY <2>2, <1>1 DEF Once
  <2>3. CASE ~ event.again /\ Behind(event, kept, n) /\ Ahead(event, kept, n)
    <3>1. Early(then) => Early(event)
      BY <1>1 DEF Early
    <3>2. Behind(then, kept, n)
      BY <2>3, <3>1, <1>1 DEF Behind
    <3>3. Ahead(then, kept, n)
      BY <1>1 DEF Ahead, Calling
    <3> QED
      BY <2>3, <3>2, <3>3, <1>1 DEF Once
  <2> QED
    BY <1>2, <2>1, <2>2, <2>3 DEF Once
<1> QED
  BY <1>1, <1>3, <1>4 DEF Sound, then

-----------------------------------------------------------------------------
(* The first of the functions. *)

LEMMA LessIsWellFounded == \E R : /\ IsWellFoundedOn(R, Nat) /\ \A m, n \in Nat : m < n => <<m, n>> \in R
<1>1. IsWellFoundedOn(OpToRel(<, Nat), Nat)
  BY NatLessThanWellFounded
<1>2. \A m, n \in Nat : m < n => <<m, n>> \in OpToRel(<, Nat)
  BY DEF OpToRel
<1> QED
  BY <1>1, <1>2

LEMMA LeastOf ==
    ASSUME NEW T, T \subseteq Nat, T # {}
    PROVE  \E x \in T : \A y \in T : ~ y < x
<1>1. PICK R : IsWellFoundedOn(R, Nat) /\ \A m, n \in Nat : m < n => <<m, n>> \in R
  BY LessIsWellFounded
<1>2. IsWellFoundedOn(R, Nat)
  BY <1>1
<1>3. \E x \in T : \A y \in T : ~ (<<y, x>> \in R)
  BY <1>2, WFMin, Zenon
<1> QED
  BY <1>1, <1>3

LEMMA EarliestIsOne ==
    ASSUME NEW list \in SUBSET Entry, list # {}
    PROVE  Earliest(list) \in list
<1> DEFINE Ids == {b.id : b \in list}
<1>1. Ids \subseteq Nat /\ Ids # {}
  BY DEF Entry
<1>2. PICK x \in Ids : \A y \in Ids : ~ y < x
  BY <1>1, LeastOf
<1>3. PICK b \in list : b.id = x
  BY <1>2
<1>4. \A c \in list : c.id \in Ids /\ c.id \in Nat
  BY DEF Entry
<1>5. \A c \in list : b.id <= c.id
  <2> HIDE DEF Ids
  <2> QED
    BY <1>1, <1>2, <1>3, <1>4
<1> QED
  BY <1>5 DEF Earliest

LEMMA NextLiveIsOne ==
    ASSUME NEW lives \in SUBSET LiveCall, lives # {}
    PROVE  NextLive(lives) \in lives
<1>1. \A l \in lives : l.elem \in Nat /\ l.used \in Nat /\ l.of.id \in Nat
  <2> SUFFICES ASSUME NEW l \in lives PROVE l.elem \in Nat /\ l.used \in Nat /\ l.of.id \in Nat
    OBVIOUS
  <2>1. l.elem \in Elements /\ l.used \in Nat /\ l.of \in Entry
    BY DEF LiveCall
  <2> QED
    BY <2>1, ElementsAreNumbers DEF Entry
<1> DEFINE Near == {l.elem : l \in lives}
<1>2. PICK e \in Near : \A f \in Near : ~ f < e
  <2>1. Near \subseteq Nat /\ Near # {}
    BY <1>1
  <2> QED
    BY <2>1, LeastOf
<1> DEFINE Old == {l.used : l \in {k \in lives : k.elem = e}}
<1>3. PICK u \in Old : \A v \in Old : ~ v < u
  <2>1. Old \subseteq Nat /\ Old # {}
    BY <1>1, <1>2
  <2> QED
    BY <2>1, LeastOf
<1> DEFINE Ids == {l.of.id : l \in {k \in lives : k.elem = e /\ k.used = u}}
<1>4. PICK x \in Ids : \A y \in Ids : ~ y < x
  <2>1. Ids \subseteq Nat /\ Ids # {}
    BY <1>1, <1>3
  <2> QED
    BY <2>1, LeastOf
<1>5. PICK l \in lives : l.elem = e /\ l.used = u /\ l.of.id = x
  BY <1>4
<1>6. ASSUME NEW k \in lives PROVE Sooner(l, k)
  <2>1. ~ k.elem < l.elem
    BY <1>2, <1>5
  <2>2. k.elem = l.elem => ~ k.used < l.used
    BY <1>3, <1>5
  <2>3. k.elem = l.elem /\ k.used = l.used => ~ k.of.id < l.of.id
    BY <1>4, <1>5
  <2> QED
    BY <2>1, <2>2, <2>3, <1>1 DEF Sooner
<1> QED
  BY <1>6 DEF NextLive

-----------------------------------------------------------------------------
(* Calling. *)

\* Nothing changes that matters.
LEMMA SameIsSound ==
    ASSUME NEW event, NEW kept, NEW n, NEW quiet, Sound(event, kept, n, quiet),
           NEW then \in EventType,
           /\ then.pc = event.pc /\ then.list = event.list /\ then.called = event.called
           /\ then.again = event.again /\ then.late = event.late
           /\ then.native = event.native /\ then.target = event.target /\ then.elem = event.elem
           /\ then.stopped = event.stopped /\ then.immediate = event.immediate
           /\ then.over = event.over /\ then.liveFired = event.liveFired
           /\ then.lives = event.lives /\ then.maxLevel = event.maxLevel /\ then.answer = event.answer
           /\ then.meddled = event.meddled /\ then.stoppedIn = event.stoppedIn
           /\ then.stoppedAt = event.stoppedAt
    PROVE  Sound(then, kept, n, quiet)
<1>1. Kept(event) /\ Once(event, kept, n, quiet)
  BY DEF Sound
<1>2. Kept(then)
  BY <1>1 DEF Kept, Ended, InReach, Level
<1>3. Behind(event, kept, n) => Behind(then, kept, n)
  BY DEF Behind, Early
<1>4. Ahead(event, kept, n) => Ahead(then, kept, n)
  BY DEF Ahead, Calling
<1> QED
  BY <1>1, <1>2, <1>3, <1>4 DEF Sound, Once

\* The list of functions is made when those at the element are all uncalled.
LEMMA HandleKeeps ==
    ASSUME EventsInv, NEW event, Sound(event, live, bound, triggered),
           ~ triggered, ~ event.immediate, Early(event)
    PROVE  Sound(handle(event), live, bound, triggered)
<1>1. /\ event \in EventType /\ Kept(event) /\ Once(event, live, bound, triggered)
      /\ handlers \in [Elements -> SUBSET Entry]
  BY DEF Sound, EventsInv, EventsTypeOK
<1>2. event.elem \in Elements /\ handlers[event.elem] \in SUBSET Entry
  BY <1>1 DEF EventType
<1>3. PICK list \in SUBSET handlers[event.elem] :
        list = {b \in handlers[event.elem] : (~ event.typed /\ ~ event.exclusive) \/
                  IF event.typed THEN (IF event.typed THEN {"a"} ELSE {}) \subseteq b.ns ELSE b.ns = {}}
  OBVIOUS
<1>4. PICK ns \in SUBSET Spaces :
        ns = IF event.ns = {} THEN (IF event.typed THEN {"a"} ELSE {}) ELSE event.ns
  <2>1. event.ns \in SUBSET Spaces
    BY <1>1 DEF EventType
  <2> QED
    BY <2>1 DEF Spaces
<1> DEFINE then == [event EXCEPT !.pc = "call", !.typed = FALSE, !.ns = ns, !.list = list]
<1>5. handle(event) = then
  BY <1>3, <1>4 DEF handle
<1>6. /\ then \in EventType /\ then.pc = "call" /\ then.list = list
      /\ then.native = event.native /\ then.target = event.target /\ then.elem = event.elem
      /\ then.stopped = event.stopped /\ then.immediate = event.immediate
      /\ then.over = event.over /\ then.liveFired = event.liveFired
      /\ then.called = event.called /\ then.again = event.again
      /\ then.meddled = event.meddled /\ then.stoppedIn = event.stoppedIn
      /\ then.stoppedAt = event.stoppedAt /\ then.late = event.late
  <2>1. list \in SUBSET Entry
    BY <1>2
  <2> QED
    BY <2>1, <1>1, Stages DEF EventType
<1> HIDE DEF then
<1>7. Kept(then)
  BY <1>1, <1>6 DEF Kept, Ended, Early
<1>8. Once(then, live, bound, triggered)
  <2>1. CASE event.meddled
    BY <2>1, <1>6 DEF Once
  <2>2. CASE ~ event.again /\ Behind(event, live, bound) /\ Ahead(event, live, bound)
    <3>1. Behind(then, live, bound)
      BY <2>2, <1>6 DEF Behind, Early
    <3>2. \A b \in list : <<event.elem, b.id>> \notin event.called
      <4> SUFFICES ASSUME NEW b \in list, <<event.elem, b.id>> \in event.called PROVE FALSE
        OBVIOUS
      <4>1. <<event.elem, b.id>>[1] < event.elem
        BY <2>2 DEF Behind
      <4> QED
        BY <4>1, <1>2, ElementsAreNumbers
    <3>3. \A b \in list :
            /\ b.id <= bound
            /\ \A c \in list : b.id = c.id => b = c
            /\ b.kind # "live" => \A e \in Elements : \A c \in live[e] : c.id # b.id
      BY <1>2 DEF EventsInv, Numbered
    <3>4. Ahead(then, live, bound)
      BY <3>2, <3>3, <1>6 DEF Ahead
    <3> QED
      BY <2>2, <3>1, <3>4, <1>6 DEF Once
  <2> QED
    BY <1>1, <2>1, <2>2 DEF Once
<1> QED
  BY <1>5, <1>6, <1>7, <1>8 DEF Sound

\* A call that nothing was to prevent.
Timely(event, this, b) ==
    /\ ~ event.late /\ ~ event.immediate
    /\ event.stoppedIn > 0 => ~ event.elem > event.stoppedIn
    /\ b.kind = "live" /\ event.stoppedAt > 0 => ~ this > event.stoppedAt

IsNoted(noted, event, this, b) ==
    /\ noted \in EventType /\ noted.pc = event.pc /\ noted.list = event.list
    /\ noted.called = event.called \cup {<<this, b.id>>}
    /\ noted.again = (event.again \/ <<this, b.id>> \in event.called)
    /\ noted.late = FALSE
    /\ noted.native = event.native /\ noted.target = event.target /\ noted.elem = event.elem
    /\ noted.stopped = event.stopped /\ noted.immediate = event.immediate
    /\ noted.over = event.over /\ noted.liveFired = event.liveFired
    /\ noted.lives = event.lives /\ noted.maxLevel = event.maxLevel
    /\ noted.answer = event.answer
    /\ noted.meddled = event.meddled /\ noted.stoppedIn = event.stoppedIn
    /\ noted.stoppedAt = event.stoppedAt

LEMMA NotedIs ==
    ASSUME NEW event \in EventType, NEW this \in Elements, NEW b, b.id \in Nat, Timely(event, this, b)
    PROVE  IsNoted(Noted(event, this, b), event, this, b)
<1>1. PICK again \in BOOLEAN : again = (event.again \/ <<this, b.id>> \in event.called)
  OBVIOUS
<1>2. PICK called \in SUBSET Call : called = event.called \cup {<<this, b.id>>}
  <2>1. event.called \in SUBSET Call
    BY DEF EventType
  <2>2. <<this, b.id>> \in Call
    BY DEF Call
  <2> QED
    BY <2>1, <2>2
<1>3. (\/ event.late \/ event.immediate
       \/ event.stoppedIn > 0 /\ event.elem > event.stoppedIn
       \/ b.kind = "live" /\ event.stoppedAt > 0 /\ this > event.stoppedAt) = FALSE
  BY DEF Timely
<1> DEFINE once == [event EXCEPT !.again = again, !.called = called]
           noted == [once EXCEPT !.late = FALSE]
<1>4. Noted(event, this, b) = noted
  BY <1>1, <1>2, <1>3 DEF Noted
<1>5. once \in EventType /\ noted \in EventType
  <2>1. again \in BOOLEAN /\ called \in SUBSET Call
    BY <1>1, <1>2
  <2>2. once \in EventType
    BY <2>1 DEF EventType
  <2> HIDE DEF once
  <2> QED
    BY <2>2 DEF EventType
<1>6. /\ noted.pc = event.pc /\ noted.list = event.list
      /\ noted.called = called /\ noted.again = again /\ noted.late = FALSE
      /\ noted.native = event.native /\ noted.target = event.target /\ noted.elem = event.elem
      /\ noted.stopped = event.stopped /\ noted.immediate = event.immediate
      /\ noted.over = event.over /\ noted.liveFired = event.liveFired
      /\ noted.lives = event.lives /\ noted.maxLevel = event.maxLevel
      /\ noted.answer = event.answer
      /\ noted.meddled = event.meddled /\ noted.stoppedIn = event.stoppedIn
      /\ noted.stoppedAt = event.stoppedAt
  BY DEF EventType
<1> HIDE DEF noted
<1> QED
  BY <1>1, <1>2, <1>4, <1>5, <1>6 DEF IsNoted

LEMMA DirectKeeps ==
    ASSUME NEW event, NEW kept, NEW n, NEW quiet, Sound(event, kept, n, quiet),
           event.pc = "call", NEW b \in event.list, b.kind # "live"
    PROVE  Sound([Noted(event, event.elem, b) EXCEPT !.pc = "page", !.list = @ \ {b}], kept, n, quiet)
<1> DEFINE noted == Noted(event, event.elem, b)
           pair == <<event.elem, b.id>>
           called == event.called \cup {pair}
           list == event.list \ {b}
           then == [noted EXCEPT !.pc = "page", !.list = @ \ {b}]
<1>1. event \in EventType /\ Kept(event) /\ Once(event, kept, n, quiet)
  BY DEF Sound
<1>2. event.list \in SUBSET Entry /\ event.elem \in Elements /\ event.stoppedIn \in Nat
  BY <1>1 DEF EventType
<1>3. b.id \in Nat /\ event.elem \in Int
  <2>1. b \in Entry
    BY <1>2
  <2> QED
    BY <2>1, <1>2, ElementsAreNumbers DEF Entry
<1>4. Timely(event, event.elem, b)
  BY <1>1, <1>2, <1>3 DEF Kept, Timely
<1>5. IsNoted(noted, event, event.elem, b)
  BY <1>1, <1>2, <1>3, <1>4, NotedIs
<1> HIDE DEF noted
<1>6. list \in SUBSET Entry
  BY <1>2
<1>7. /\ then \in EventType /\ then.pc = "page" /\ then.list = list /\ then.called = called
      /\ then.again = (event.again \/ pair \in event.called) /\ then.late = FALSE
      /\ then.native = event.native /\ then.target = event.target /\ then.elem = event.elem
      /\ then.stopped = event.stopped /\ then.immediate = event.immediate
      /\ then.over = event.over /\ then.liveFired = event.liveFired
      /\ then.meddled = event.meddled /\ then.stoppedIn = event.stoppedIn
      /\ then.stoppedAt = event.stoppedAt
  <2>1. noted \in EventType
    BY <1>5 DEF IsNoted
  <2>2. then \in EventType
    BY <2>1, <1>5, <1>6, Stages DEF EventType, IsNoted
  <2> QED
    BY <2>1, <2>2, <1>5, <1>6 DEF EventType, IsNoted
<1> HIDE DEF then
<1>8. Kept(then)
  BY <1>1, <1>4, <1>7 DEF Kept, Ended, Timely
<1>9. Once(then, kept, n, quiet)
  <2>1. CASE event.meddled
    BY <2>1, <1>7 DEF Once
  <2>2. CASE ~ event.again /\ Behind(event, kept, n) /\ Ahead(event, kept, n)
    <3>1. /\ b.id <= n /\ pair \notin event.called
          /\ \A c \in event.list : b.id = c.id => b = c
          /\ \A e \in Elements : \A c \in kept[e] : c.id # b.id
      BY <2>2 DEF Ahead, Calling
    <3>2. ASSUME NEW c \in called
          PROVE  /\ c[1] <= event.elem /\ c[2] <= n
                 /\ \A e \in Elements : \A d \in kept[e] : d.id = c[2] =>
                       e < event.elem \/ (e = event.elem /\ event.liveFired = event.elem)
      <4>1. CASE c \in event.called
        BY <4>1, <2>2 DEF Behind
      <4>2. CASE c = pair
        BY <4>2, <3>1, <1>3
      <4> QED
        BY <4>1, <4>2
    <3>3. Behind(then, kept, n)
      BY <2>2, <3>2, <1>7 DEF Behind, Early
    <3>4. ASSUME NEW d \in list
          PROVE  /\ d.id <= n /\ \A c \in list : d.id = c.id => d = c
                 /\ d.kind # "live" =>
                       <<event.elem, d.id>> \notin called /\ \A e \in Elements : \A c \in kept[e] : c.id # d.id
      <4>1. /\ d.id <= n /\ \A c \in event.list : d.id = c.id => d = c
            /\ d.kind # "live" => <<event.elem, d.id>> \notin event.called
                                  /\ \A e \in Elements : \A c \in kept[e] : c.id # d.id
        BY <2>2 DEF Ahead, Calling
      <4>2. <<event.elem, d.id>> # pair
        BY <3>1
      <4> QED
        BY <4>1, <4>2
    <3>5. Ahead(then, kept, n)
      BY <3>4, <1>7 DEF Ahead
    <3> QED
      BY <2>2, <3>1, <3>3, <3>5, <1>7 DEF Once
  <2> QED
    BY <1>1, <2>1, <2>2 DEF Once
<1> QED
  BY <1>7, <1>8, <1>9 DEF Sound, then, noted

LEMMA ListShrinks ==
    ASSUME NEW event, NEW kept, NEW n, NEW quiet, Sound(event, kept, n, quiet),
           event.pc = "call", NEW list \in SUBSET event.list
    PROVE  LET then == [event EXCEPT !.list = list]
           IN  /\ Sound(then, kept, n, quiet) /\ then.pc = "call"
               /\ then.elem = event.elem /\ then.liveFired = event.liveFired
               /\ then.immediate = event.immediate
<1> DEFINE then == [event EXCEPT !.list = list]
<1>1. event \in EventType /\ Kept(event) /\ Once(event, kept, n, quiet)
  BY DEF Sound
<1>2. list \in SUBSET Entry
  BY <1>1 DEF EventType
<1>3. /\ then \in EventType /\ then.pc = "call" /\ then.list = list /\ then.called = event.called
      /\ then.again = event.again /\ then.late = event.late
      /\ then.native = event.native /\ then.target = event.target /\ then.elem = event.elem
      /\ then.stopped = event.stopped /\ then.immediate = event.immediate
      /\ then.over = event.over /\ then.liveFired = event.liveFired
      /\ then.meddled = event.meddled /\ then.stoppedIn = event.stoppedIn
      /\ then.stoppedAt = event.stoppedAt
  BY <1>1, <1>2 DEF EventType
<1> HIDE DEF then
<1>4. Kept(then)
  BY <1>1, <1>3 DEF Kept, Ended
<1>5. Once(then, kept, n, quiet)
  <2>1. CASE event.meddled
    BY <2>1, <1>3 DEF Once
  <2>2. CASE ~ event.again /\ Behind(event, kept, n) /\ Ahead(event, kept, n)
    <3>1. Behind(then, kept, n)
      BY <2>2, <1>3 DEF Behind, Early
    <3>2. Ahead(then, kept, n)
      BY <2>2, <1>3 DEF Ahead, Calling
    <3> QED
      BY <2>2, <3>1, <3>2, <1>3 DEF Once
  <2> QED
    BY <1>1, <2>1, <2>2 DEF Once
<1>6. Sound(then, kept, n, quiet)
  BY <1>3, <1>4, <1>5 DEF Sound
<1> QED
  BY <1>3, <1>6 DEF then

\* The live functions of an element that the event comes by.
LEMMA LiveIs ==
    ASSUME EventsInv, NEW event \in EventType
    PROVE  /\ Live(event) \in SUBSET LiveCall
           /\ \A l \in Live(event) :
                 /\ l.elem >= event.target /\ l.elem < event.elem
                 /\ l.of \in live[event.elem]
                 /\ \A k \in Live(event) : (l.elem = k.elem /\ l.of = k.of) => l = k
<1> DEFINE entries == live[event.elem]
           Used(b) == Earliest({c \in entries : c.selector = b.selector}).id
           Found(e, b) == [elem |-> e, used |-> Used(b), of |-> b]
<1>1. event.elem \in Elements /\ event.target \in Elements
  BY DEF EventType
<1>2. entries \in SUBSET Entry
  BY <1>1 DEF EventsInv, EventsTypeOK
<1>3. ASSUME NEW b \in entries PROVE Used(b) \in Nat
  <2> DEFINE same == {c \in entries : c.selector = b.selector}
  <2>1. same \in SUBSET Entry /\ same # {}
    BY <1>2
  <2>2. Earliest(same) \in Entry
    BY <2>1, EarliestIsOne
  <2> QED
    BY <2>2 DEF Entry
<1>4. \A e \in event.target .. event.elem - 1 : e \in Elements /\ e >= event.target /\ e < event.elem
  <2>1. event.elem \in Nat /\ event.target \in Nat /\ event.target > 0 /\ event.elem <= Depth /\ Depth \in Nat
    BY <1>1, ElementsAreNumbers
  <2> QED
    BY <2>1 DEF Elements
<1> DEFINE all == {Found(e, b) : e \in event.target .. event.elem - 1, b \in entries}
<1>5. \A l \in Live(event) : l \in all
  <2>1. Live(event) = {l \in all : event.ns \subseteq l.of.ns /\ l.elem \in Matches[l.of.selector]}
    BY DEF Live
  <2> HIDE DEF all
  <2> QED
    BY <2>1
<1> HIDE DEF Used
<1>6. ASSUME NEW l \in all
      PROVE  /\ l \in LiveCall /\ l.elem >= event.target /\ l.elem < event.elem
             /\ l.of \in entries /\ l.used = Used(l.of)
  <2>1. PICK e \in event.target .. event.elem - 1, b \in entries : l = Found(e, b)
    OBVIOUS
  <2>2. l.elem = e /\ l.used = Used(b) /\ l.of = b
    BY <2>1
  <2>3. b \in Entry /\ Used(b) \in Nat
    BY <1>2, <1>3
  <2>4. l \in LiveCall
    BY <2>1, <2>3, <1>4 DEF LiveCall
  <2> QED
    BY <2>2, <2>4, <1>4
<1>7. ASSUME NEW l \in all, NEW k \in all, l.elem = k.elem, l.of = k.of PROVE l = k
  <2>1. PICK e \in event.target .. event.elem - 1, b \in entries : l = Found(e, b)
    OBVIOUS
  <2>2. PICK f \in event.target .. event.elem - 1, c \in entries : k = Found(f, c)
    OBVIOUS
  <2>3. e = f /\ b = c
    BY <2>1, <2>2, <1>7
  <2> QED
    BY <2>1, <2>2, <2>3
<1> HIDE DEF all, entries
<1> QED
  BY <1>5, <1>6, <1>7 DEF entries

LEMMA LiveStarts ==
    ASSUME EventsInv, NEW event, Sound(event, live, bound, triggered),
           event.pc = "call", ~ event.immediate, event.liveFired # event.elem
    PROVE  Sound([event EXCEPT !.pc = "live", !.liveFired = event.elem, !.lives = Live(event),
                               !.maxLevel = 0, !.answer = "nothing"], live, bound, triggered)
<1>1. event \in EventType /\ Kept(event) /\ Once(event, live, bound, triggered)
  BY DEF Sound
<1> DEFINE lives == Live(event)
           then == [event EXCEPT !.pc = "live", !.liveFired = event.elem, !.lives = lives,
                                 !.maxLevel = 0, !.answer = "nothing"]
<1>2. /\ lives \in SUBSET LiveCall
      /\ \A l \in lives :
            /\ l.elem >= event.target /\ l.elem < event.elem
            /\ l.of \in live[event.elem]
            /\ \A k \in lives : (l.elem = k.elem /\ l.of = k.of) => l = k
  BY <1>1, LiveIs
<1>3. event.elem \in Elements /\ event.elem \in Nat /\ "nothing" \in Told
  BY <1>1, ElementsAreNumbers DEF EventType, Told
<1> HIDE DEF lives
<1>4. /\ then \in EventType /\ then.pc = "live" /\ then.list = event.list /\ then.called = event.called
      /\ then.again = event.again /\ then.late = event.late
      /\ then.native = event.native /\ then.target = event.target /\ then.elem = event.elem
      /\ then.stopped = event.stopped /\ then.immediate = event.immediate
      /\ then.over = event.over /\ then.liveFired = event.elem
      /\ then.meddled = event.meddled /\ then.stoppedIn = event.stoppedIn
      /\ then.stoppedAt = event.stoppedAt /\ then.lives = lives
  BY <1>1, <1>2, <1>3, Stages DEF EventType
<1> HIDE DEF then
<1>5. Kept(then)
  BY <1>1, <1>2, <1>4 DEF Kept, Ended
<1>6. Once(then, live, bound, triggered)
  <2>1. CASE event.meddled
    BY <2>1, <1>4 DEF Once
  <2>2. CASE ~ event.again /\ Behind(event, live, bound) /\ Ahead(event, live, bound)
    <3>1. Behind(then, live, bound)
      <4>1. ~ Early(then)
        BY <1>4 DEF Early
      <4>2. \A c \in event.called :
              /\ c[1] <= event.elem /\ c[2] <= bound
              /\ \A e \in Elements : \A b \in live[e] : b.id = c[2] => e < event.elem
        BY <2>2 DEF Behind
      <4> QED
        BY <4>1, <4>2, <1>3, <1>4 DEF Behind
    <3>2. ASSUME NEW l \in lives
          PROVE  /\ l.of.id <= bound /\ l.elem < event.elem
                 /\ \A e \in Elements : \A b \in live[e] : b.id = l.of.id => e = event.elem
                 /\ \A k \in lives : (l.elem = k.elem /\ l.of.id = k.of.id) => l = k
                 /\ <<l.elem, l.of.id>> \notin event.called
      <4>1. Numbered(handlers, live, bound)
        BY DEF EventsInv
      <4>2. l.of \in live[event.elem] /\ l.elem < event.elem
        BY <1>2
      <4>3. \A e \in Elements : \A b \in live[e] : b.id = l.of.id => e = event.elem
        BY <4>1, <4>2, <1>3 DEF Numbered
      <4>4. \A k \in lives : (l.elem = k.elem /\ l.of.id = k.of.id) => l = k
        <5> SUFFICES ASSUME NEW k \in lives, l.elem = k.elem, l.of.id = k.of.id PROVE l = k
          OBVIOUS
        <5>1. k.of \in live[event.elem]
          BY <1>2
        <5>2. l.of = k.of
          BY <4>1, <4>2, <5>1, <1>3 DEF Numbered
        <5> QED
          BY <5>2, <1>2
      <4>5. l.of.id <= bound
        BY <4>1, <4>2, <1>3 DEF Numbered
      <4>6. ASSUME <<l.elem, l.of.id>> \in event.called PROVE FALSE
        <5>1. l.of.id = <<l.elem, l.of.id>>[2]
          OBVIOUS
        <5>2. event.elem < event.elem
          BY <4>2, <4>6, <5>1, <2>2, <1>3 DEF Behind
        <5> QED
          BY <5>2, <1>3
      <4> QED
        BY <4>2, <4>3, <4>4, <4>5, <4>6
    <3>3. Ahead(then, live, bound)
      BY <2>2, <3>2, <1>4 DEF Ahead, Calling
    <3> QED
      BY <2>2, <3>1, <3>3, <1>4 DEF Once
  <2> QED
    BY <1>1, <2>1, <2>2 DEF Once
<1> QED
  BY <1>4, <1>5, <1>6 DEF Sound, then, lives

\* The next live function is called.
LEMMA LiveKeeps ==
    ASSUME NEW event, NEW kept, NEW n, NEW quiet, Sound(event, kept, n, quiet),
           event.pc = "live", InReach(event)
    PROVE  Sound([Noted(event, NextLive(event.lives).elem, NextLive(event.lives).of)
                     EXCEPT !.pc = "livePage"], kept, n, quiet)
<1> DEFINE l == NextLive(event.lives)
           noted == Noted(event, l.elem, l.of)
           pair == <<l.elem, l.of.id>>
           called == event.called \cup {pair}
           then == [noted EXCEPT !.pc = "livePage"]
<1>1. event \in EventType /\ Kept(event) /\ Once(event, kept, n, quiet)
  BY DEF Sound
<1>2. event.lives \in SUBSET LiveCall /\ event.elem \in Elements /\ event.stoppedIn \in Nat
      /\ event.target \in Elements /\ event.maxLevel \in Nat /\ event.stoppedAt \in Nat
  BY <1>1 DEF EventType
<1>3. l \in event.lives
  BY <1>2, NextLiveIsOne DEF InReach
<1> HIDE DEF l
<1>4. l.elem \in Elements /\ l.of.id \in Nat /\ l.elem \in Int /\ event.elem \in Int /\ event.target \in Int
  <2>1. l.elem \in Elements /\ l.of \in Entry
    BY <1>2, <1>3 DEF LiveCall
  <2> QED
    BY <2>1, <1>2, ElementsAreNumbers DEF Entry
<1>5. Timely(event, l.elem, l.of)
  <2>1. ~ event.late /\ ~ event.immediate /\ (event.stoppedIn > 0 => ~ event.elem > event.stoppedIn)
    BY <1>1, <1>2, <1>3, <1>4 DEF Kept
  <2>2. ASSUME event.stoppedAt > 0 PROVE ~ l.elem > event.stoppedAt
    <3>1. event.maxLevel > 0 /\ event.maxLevel <= Level(event, event.stoppedAt)
      BY <2>2, <1>1 DEF Kept
    <3>2. Level(event, l.elem) <= event.maxLevel
      BY <3>1 DEF InReach, l
    <3> QED
      BY <3>1, <3>2, <1>2, <1>4 DEF Level
  <2> QED
    BY <2>1, <2>2 DEF Timely
<1>6. IsNoted(noted, event, l.elem, l.of)
  BY <1>1, <1>4, <1>5, NotedIs
<1> HIDE DEF noted
<1>7. /\ then \in EventType /\ then.pc = "livePage" /\ then.list = event.list /\ then.called = called
      /\ then.again = (event.again \/ pair \in event.called) /\ then.late = FALSE
      /\ then.native = event.native /\ then.target = event.target /\ then.elem = event.elem
      /\ then.stopped = event.stopped /\ then.immediate = event.immediate
      /\ then.over = event.over /\ then.liveFired = event.liveFired
      /\ then.lives = event.lives /\ then.maxLevel = event.maxLevel /\ then.answer = event.answer
      /\ then.meddled = event.meddled /\ then.stoppedIn = event.stoppedIn
      /\ then.stoppedAt = event.stoppedAt
  <2>1. noted \in EventType
    BY <1>6 DEF IsNoted
  <2>2. then \in EventType
    BY <2>1, Stages DEF EventType
  <2> QED
    BY <2>1, <2>2, <1>6 DEF EventType, IsNoted
<1> HIDE DEF then
<1>8. Kept(then)
  <2>1. InReach(then)
    BY <1>7 DEF InReach, Level
  <2>2. Level(then, event.stoppedAt) = Level(event, event.stoppedAt)
    BY <1>7 DEF Level
  <2> QED
    BY <1>1, <1>5, <1>7, <2>1, <2>2 DEF Kept, Ended, Timely
<1>9. Once(then, kept, n, quiet)
  <2>1. CASE event.meddled
    BY <2>1, <1>7 DEF Once
  <2>2. CASE ~ event.again /\ Behind(event, kept, n) /\ Ahead(event, kept, n)
    <3>1. /\ l.of.id <= n /\ l.elem < event.elem /\ pair \notin event.called
          /\ event.liveFired = event.elem
          /\ \A e \in Elements : \A b \in kept[e] : b.id = l.of.id => e = event.elem
          /\ \A k \in event.lives : (l.elem = k.elem /\ l.of.id = k.of.id) => l = k
      BY <2>2, <1>1, <1>3 DEF Ahead, Kept
    <3>2. ASSUME NEW c \in called
          PROVE  /\ c[1] <= event.elem /\ c[2] <= n
                 /\ \A e \in Elements : \A d \in kept[e] : d.id = c[2] =>
                       e < event.elem \/ (e = event.elem /\ event.liveFired = event.elem)
      <4>1. CASE c \in event.called
        BY <4>1, <2>2 DEF Behind
      <4>2. CASE c = pair
        BY <4>2, <3>1, <1>4
      <4> QED
        BY <4>1, <4>2
    <3>3. Behind(then, kept, n)
      BY <2>2, <3>2, <1>7 DEF Behind, Early
    <3>4. ASSUME NEW d \in event.list, d.kind # "live" PROVE <<event.elem, d.id>> \notin called
      <4>1. <<event.elem, d.id>> \notin event.called
        BY <2>2, <3>4 DEF Ahead, Calling
      <4>2. <<event.elem, d.id>> # pair
        BY <3>1, <1>4
      <4> QED
        BY <4>1, <4>2
    <3>5. ASSUME NEW k \in event.lives, <<k.elem, k.of.id>> \in called PROVE k = l
      <4>1. <<k.elem, k.of.id>> \notin event.called
        BY <2>2 DEF Ahead
      <4>2. k.elem = l.elem /\ k.of.id = l.of.id
        BY <3>5, <4>1
      <4> QED
        BY <4>2, <3>1
    <3>6. Ahead(then, kept, n)
      <4>1. \A b \in event.list :
              /\ b.id <= n /\ \A c \in event.list : b.id = c.id => b = c
              /\ b.kind # "live" =>
                    /\ <<event.elem, b.id>> \notin called
                    /\ \A e \in Elements : \A c \in kept[e] : c.id # b.id
        BY <2>2, <3>4 DEF Ahead, Calling
      <4>2. \A k \in event.lives :
              /\ k.of.id <= n /\ k.elem < event.elem
              /\ \A e \in Elements : \A b \in kept[e] : b.id = k.of.id => e = event.elem
              /\ \A j \in event.lives : (k.elem = j.elem /\ k.of.id = j.of.id) => k = j
              /\ <<k.elem, k.of.id>> \in called => k = NextLive(event.lives)
        BY <2>2, <3>5 DEF Ahead, l
      <4> QED
        BY <4>1, <4>2, <3>1, <1>7 DEF Ahead
    <3> QED
      BY <2>2, <3>1, <3>3, <3>6, <1>7 DEF Once
  <2> QED
    BY <1>1, <2>1, <2>2 DEF Once
<1> QED
  BY <1>7, <1>8, <1>9 DEF Sound, then, noted, l

-----------------------------------------------------------------------------
(* What functions return. *)

LEMMA AnsweredKeeps ==
    ASSUME NEW event, NEW kept, NEW n, NEW quiet, Sound(event, kept, n, quiet),
           NEW answer \in Answers, event.pc = "page" \/ (event.pc = "live" /\ answer = event.answer)
    PROVE  Sound(Answered(event, answer), kept, n, quiet) /\ Answered(event, answer).pc = "call"
<1> DEFINE stops == answer \in {"false", "stop", "immediate"}
<1>1. event \in EventType /\ Kept(event) /\ Once(event, kept, n, quiet)
  BY DEF Sound
<1>2. /\ event.stopped \in BOOLEAN /\ event.over \in BOOLEAN /\ event.prevented \in BOOLEAN
      /\ event.immediate \in BOOLEAN /\ event.list \in SUBSET Entry
      /\ event.stoppedIn \in Nat /\ event.elem \in Nat /\ event.elem > 0
  BY <1>1, ElementsAreNumbers DEF EventType
<1>3. PICK stopped \in BOOLEAN : stopped = (event.stopped \/ stops)
  OBVIOUS
<1>4. PICK over \in BOOLEAN : over = (event.over \/ stops)
  OBVIOUS
<1>5. PICK prevented \in BOOLEAN : prevented = (event.prevented \/ answer \in {"false", "prevent"})
  OBVIOUS
<1>6. PICK immediate \in BOOLEAN : immediate = (event.immediate \/ answer = "immediate")
  OBVIOUS
<1>7. PICK list \in SUBSET Entry : list = IF event.immediate \/ answer = "immediate" THEN {} ELSE event.list
  BY <1>2
<1>8. PICK stoppedIn \in Nat : stoppedIn = IF stops /\ event.stoppedIn = 0 THEN event.elem ELSE event.stoppedIn
  BY <1>2
<1> DEFINE once == [event EXCEPT !.pc = "call", !.stopped = stopped, !.over = over]
           twice == [once EXCEPT !.prevented = prevented, !.immediate = immediate]
           then == [twice EXCEPT !.list = list, !.stoppedIn = stoppedIn]
<1>9. Answered(event, answer) = then
  BY <1>3, <1>4, <1>5, <1>6, <1>7, <1>8 DEF Answered
<1>16. stopped \in BOOLEAN /\ over \in BOOLEAN /\ "call" \in Stage
  BY <1>3, <1>4, Stages
<1>17. prevented \in BOOLEAN /\ immediate \in BOOLEAN
  BY <1>5, <1>6
<1>10. once \in EventType
  BY <1>1, <1>16 DEF EventType
<1>11. twice \in EventType
  <2> HIDE DEF once
  <2> QED
    BY <1>17, <1>10 DEF EventType
<1>12. then \in EventType
  <2> HIDE DEF twice
  <2> QED
    BY <1>7, <1>8, <1>11 DEF EventType
<1>13. /\ then.pc = "call" /\ then.list = list /\ then.called = event.called
       /\ then.again = event.again /\ then.late = event.late
       /\ then.native = event.native /\ then.target = event.target /\ then.elem = event.elem
       /\ then.stopped = stopped /\ then.immediate = immediate
       /\ then.over = over /\ then.liveFired = event.liveFired
       /\ then.meddled = event.meddled /\ then.stoppedIn = stoppedIn
       /\ then.stoppedAt = event.stoppedAt
  BY <1>1 DEF EventType
<1> HIDE DEF then
<1>14. Kept(then)
  <2>1. ~ then.late
    BY <1>1, <1>13 DEF Kept
  <2>2. ASSUME then.stoppedIn > 0 PROVE then.elem = then.stoppedIn /\ Ended(then)
    <3>1. CASE stops
      BY <3>1, <2>2, <1>1, <1>2, <1>3, <1>4, <1>8, <1>13 DEF Kept, Ended
    <3>2. CASE ~ stops
      <4>1. event.stoppedIn > 0
        BY <3>2, <2>2, <1>8, <1>13
      <4>2. event.pc = "page" \/ event.answer # "false"
        BY <3>2
      <4> QED
        BY <4>1, <4>2, <3>2, <1>1, <1>2, <1>3, <1>4, <1>8, <1>13 DEF Kept, Ended
    <3> QED
      BY <3>1, <3>2
  <2>3. ASSUME then.immediate PROVE Ended(then) /\ then.list = {}
    BY <2>3, <1>1, <1>3, <1>4, <1>6, <1>7, <1>13 DEF Kept, Ended
  <2>4. ASSUME then.stoppedAt > 0 PROVE then.stoppedIn > 0 /\ then.liveFired = then.elem
    BY <2>4, <1>1, <1>2, <1>8, <1>13 DEF Kept
  <2> QED
    BY <2>1, <2>2, <2>3, <2>4, <1>13 DEF Kept
<1>15. Once(then, kept, n, quiet)
  <2>1. CASE event.meddled
    BY <2>1, <1>13 DEF Once
  <2>2. CASE ~ event.again /\ Behind(event, kept, n) /\ Ahead(event, kept, n)
    <3>1. ~ Early(event) /\ ~ Early(then)
      BY <1>13 DEF Early
    <3>2. Behind(then, kept, n)
      BY <2>2, <3>1, <1>13 DEF Behind
    <3>3. list \subseteq event.list /\ Calling(event)
      BY <1>7 DEF Calling
    <3>4. Ahead(then, kept, n)
      BY <2>2, <3>3, <1>13 DEF Ahead
    <3> QED
      BY <2>2, <3>2, <3>4, <1>13 DEF Once
  <2> QED
    BY <1>1, <2>1, <2>2 DEF Once
<1> QED
  BY <1>9, <1>12, <1>13, <1>14, <1>15 DEF Sound

\* When no live function is to be called any more, those that were left do not matter.
LEMMA LivesGone ==
    ASSUME NEW event, NEW kept, NEW n, NEW quiet, Sound(event, kept, n, quiet), event.pc = "call"
    PROVE  Sound([event EXCEPT !.lives = {}], kept, n, quiet)
<1> DEFINE then == [event EXCEPT !.lives = {}]
<1>1. event \in EventType /\ Kept(event) /\ Once(event, kept, n, quiet) /\ {} \in SUBSET LiveCall
  BY DEF Sound
<1>2. /\ then \in EventType /\ then.pc = "call" /\ then.list = event.list /\ then.called = event.called
      /\ then.again = event.again /\ then.late = event.late
      /\ then.native = event.native /\ then.target = event.target /\ then.elem = event.elem
      /\ then.stopped = event.stopped /\ then.immediate = event.immediate
      /\ then.over = event.over /\ then.liveFired = event.liveFired
      /\ then.meddled = event.meddled /\ then.stoppedIn = event.stoppedIn
      /\ then.stoppedAt = event.stoppedAt
  BY <1>1 DEF EventType
<1> HIDE DEF then
<1>3. Kept(then)
  BY <1>1, <1>2 DEF Kept, Ended
<1>4. Once(then, kept, n, quiet)
  <2>1. Behind(event, kept, n) => Behind(then, kept, n)
    BY <1>2 DEF Behind, Early
  <2>2. Ahead(event, kept, n) => Ahead(then, kept, n)
    BY <1>2 DEF Ahead, Calling
  <2> QED
    BY <1>1, <1>2, <2>1, <2>2 DEF Once
<1> QED
  BY <1>2, <1>3, <1>4 DEF Sound, then

\* What an inline handler answers.
LEMMA InlineKeeps ==
    ASSUME NEW event, NEW kept, NEW n, NEW quiet, Sound(event, kept, n, quiet),
           event.pc = "inlinePage", NEW answer
    PROVE  Sound([event EXCEPT !.pc = IF event.native THEN "listen" ELSE "up",
                     !.prevented = @ \/ answer \in {"false", "prevent"},
                     !.stopped = @ \/ answer = "stop", !.over = @ \/ answer = "stop"], kept, n, quiet)
<1>1. event \in EventType /\ Kept(event) /\ Once(event, kept, n, quiet)
  BY DEF Sound
<1>2. event.stopped \in BOOLEAN /\ event.over \in BOOLEAN /\ event.prevented \in BOOLEAN
  BY <1>1 DEF EventType
<1>3. PICK stopped \in BOOLEAN : stopped = (event.stopped \/ answer = "stop")
  OBVIOUS
<1>4. PICK over \in BOOLEAN : over = (event.over \/ answer = "stop")
  OBVIOUS
<1>5. PICK prevented \in BOOLEAN : prevented = (event.prevented \/ answer \in {"false", "prevent"})
  OBVIOUS
<1>6. PICK p \in Stage : p = IF event.native THEN "listen" ELSE "up"
  BY Stages
<1> DEFINE once == [event EXCEPT !.pc = p, !.prevented = prevented]
           then == [once EXCEPT !.stopped = stopped, !.over = over]
<1>7. [event EXCEPT !.pc = IF event.native THEN "listen" ELSE "up",
          !.prevented = @ \/ answer \in {"false", "prevent"},
          !.stopped = @ \/ answer = "stop", !.over = @ \/ answer = "stop"] = then
  BY <1>3, <1>4, <1>5, <1>6
<1>8. once \in EventType
  BY <1>1, <1>5, <1>6 DEF EventType
<1>9. then \in EventType
  <2>1. stopped \in BOOLEAN /\ over \in BOOLEAN
    BY <1>3, <1>4
  <2> HIDE DEF once
  <2> QED
    BY <2>1, <1>8 DEF EventType
<1>10. /\ then.pc = p /\ then.list = event.list /\ then.called = event.called
       /\ then.again = event.again /\ then.late = event.late
       /\ then.native = event.native /\ then.target = event.target /\ then.elem = event.elem
       /\ then.stopped = stopped /\ then.immediate = event.immediate
       /\ then.over = over /\ then.liveFired = event.liveFired
       /\ then.meddled = event.meddled /\ then.stoppedIn = event.stoppedIn
       /\ then.stoppedAt = event.stoppedAt
  BY <1>1 DEF EventType
<1> HIDE DEF then
<1>11. Ended(event) => Ended(then)
  BY <1>3, <1>4, <1>10 DEF Ended
<1>12. Kept(then)
  BY <1>1, <1>6, <1>10, <1>11 DEF Kept
<1>13. Once(then, kept, n, quiet)
  <2>1. Behind(event, kept, n) => Behind(then, kept, n)
    BY <1>6, <1>10 DEF Behind, Early
  <2>2. Ahead(then, kept, n)
    BY <1>6, <1>10 DEF Ahead, Calling
  <2> QED
    BY <1>1, <1>6, <1>10, <2>1, <2>2 DEF Once
<1> QED
  BY <1>7, <1>9, <1>12, <1>13 DEF Sound

\* An event goes on to the next element, if nothing stopped it.
LEMMA UpKeeps ==
    ASSUME NEW event, NEW kept, NEW n, NEW quiet, Sound(event, kept, n, quiet),
           event.pc = "up", Bubbles(event)
    PROVE  Sound([event EXCEPT !.elem = @ + 1, !.pc = "arrive"], kept, n, quiet)
<1> DEFINE then == [event EXCEPT !.elem = @ + 1, !.pc = "arrive"]
<1>1. event \in EventType /\ Kept(event) /\ Once(event, kept, n, quiet)
  BY DEF Sound
<1>2. event.elem \in Nat /\ event.liveFired \in Nat /\ event.stoppedIn \in Nat /\ event.stoppedAt \in Nat
      /\ event.called \in SUBSET Call
  BY <1>1, ElementsAreNumbers DEF EventType
<1>3. event.elem + 1 \in Elements
  <2>1. event.elem < Depth /\ Depth \in Nat
    BY ElementsAreNumbers DEF Bubbles
  <2> QED
    BY <2>1, <1>2 DEF Elements
<1>4. /\ then \in EventType /\ then.pc = "arrive" /\ then.list = event.list /\ then.called = event.called
      /\ then.again = event.again /\ then.late = event.late
      /\ then.native = event.native /\ then.target = event.target /\ then.elem = event.elem + 1
      /\ then.stopped = event.stopped /\ then.immediate = event.immediate
      /\ then.over = event.over /\ then.liveFired = event.liveFired
      /\ then.meddled = event.meddled /\ then.stoppedIn = event.stoppedIn
      /\ then.stoppedAt = event.stoppedAt
  BY <1>1, <1>3, Stages DEF EventType
<1> HIDE DEF then
<1>5. ~ event.late /\ ~ event.stoppedIn > 0 /\ ~ event.immediate /\ ~ event.stoppedAt > 0
  <2>1. ~ Ended(event)
    BY DEF Bubbles, Ended
  <2> QED
    BY <2>1, <1>1 DEF Kept
<1>6. Kept(then)
  BY <1>4, <1>5 DEF Kept
<1>7. Once(then, kept, n, quiet)
  <2>1. ASSUME Behind(event, kept, n) PROVE Behind(then, kept, n)
    <3>1. ASSUME NEW c \in event.called
          PROVE  /\ c[1] <= event.elem + 1 /\ c[2] <= n /\ c[1] < event.elem + 1
                 /\ \A e \in Elements : \A b \in kept[e] : b.id = c[2] => e < event.elem + 1
      <4>1. c[1] \in Nat
        BY <1>2, ElementsAreNumbers DEF Call
      <4>2. c[1] <= event.elem /\ c[2] <= n
        BY <2>1 DEF Behind
      <4>3. \A e \in Elements : e \in Nat
        BY ElementsAreNumbers
      <4>4. \A e \in Elements : \A b \in kept[e] : b.id = c[2] => e < event.elem \/ e = event.elem
        BY <2>1 DEF Behind
      <4> QED
        BY <4>1, <4>2, <4>3, <4>4, <1>2
    <3>2. event.liveFired < event.elem + 1 /\ event.liveFired <= event.elem + 1
      BY <2>1, <1>2 DEF Behind
    <3> QED
      BY <3>1, <3>2, <1>4 DEF Behind
  <2>2. Ahead(then, kept, n)
    BY <1>4 DEF Ahead, Calling
  <2> QED
    BY <1>1, <1>4, <2>1, <2>2 DEF Once
<1> QED
  BY <1>4, <1>6, <1>7 DEF Sound, then

LEMMA LiveAnsweredKeeps ==
    ASSUME NEW event, NEW kept, NEW n, NEW quiet, Sound(event, kept, n, quiet),
           event.pc = "livePage", NEW answer
    PROVE  Sound(LiveAnswered(event, answer), kept, n, quiet)
<1> DEFINE l == NextLive(event.lives)
           stops == answer \in {"false", "stop", "immediate"}
<1>1. event \in EventType /\ Kept(event) /\ Once(event, kept, n, quiet)
  BY DEF Sound
<1>2. /\ event.stopped \in BOOLEAN /\ event.over \in BOOLEAN /\ event.prevented \in BOOLEAN
      /\ event.immediate \in BOOLEAN /\ event.lives \in SUBSET LiveCall /\ event.answer \in Told
      /\ event.stoppedIn \in Nat /\ event.stoppedAt \in Nat /\ event.maxLevel \in Nat
      /\ event.elem \in Nat /\ event.elem > 0 /\ event.target \in Nat /\ event.liveFired \in Nat
  BY <1>1, ElementsAreNumbers DEF EventType
<1>3. l \in event.lives /\ (event.maxLevel > 0 => Level(event, l.elem) <= event.maxLevel)
  <2>1. InReach(event)
    BY <1>1 DEF Kept
  <2> QED
    BY <2>1, <1>2, NextLiveIsOne DEF InReach
<1> HIDE DEF l
<1>4. l.elem \in Nat /\ l.elem > 0 /\ l.elem >= event.target
  <2>1. l.elem \in Elements
    BY <1>2, <1>3 DEF LiveCall
  <2>2. l.elem >= event.target
    BY <1>1, <1>3 DEF Kept
  <2> QED
    BY <2>1, <2>2, ElementsAreNumbers
<1>5. PICK stopped \in BOOLEAN : stopped = (event.stopped \/ answer \in {"stop", "immediate"})
  OBVIOUS
<1>6. PICK over \in BOOLEAN : over = (event.over \/ answer \in {"stop", "immediate"})
  OBVIOUS
<1>7. PICK prevented \in BOOLEAN : prevented = (event.prevented \/ answer = "prevent")
  OBVIOUS
<1>8. PICK immediate \in BOOLEAN : immediate = (event.immediate \/ answer = "immediate")
  OBVIOUS
<1>9. PICK told \in Told : told = IF answer = "false" THEN "false" ELSE event.answer
  <2>1. "false" \in Told
    BY DEF Told
  <2> QED
    BY <2>1, <1>2
<1>10. PICK maxLevel \in Nat : maxLevel = IF stops \/ event.stopped THEN Level(event, l.elem) ELSE event.maxLevel
  BY <1>2, <1>4 DEF Level
<1>11. PICK stoppedIn \in Nat : stoppedIn = IF stops /\ event.stoppedIn = 0 THEN event.elem ELSE event.stoppedIn
  BY <1>2
<1>12. PICK stoppedAt \in Nat : stoppedAt = IF stops /\ event.stoppedAt = 0 THEN l.elem ELSE event.stoppedAt
  BY <1>2, <1>4
<1> DEFINE lives == IF immediate THEN {} ELSE event.lives \ {l}
           one   == [event EXCEPT !.pc = "live", !.lives = event.lives \ {l}, !.answer = told]
           two   == [one EXCEPT !.stopped = stopped, !.over = over]
           three == [two EXCEPT !.prevented = prevented, !.immediate = immediate]
           some  == [three EXCEPT !.maxLevel = maxLevel, !.stoppedIn = stoppedIn, !.stoppedAt = stoppedAt]
           then  == IF immediate THEN [some EXCEPT !.lives = {}] ELSE some
<1>14. stopped \in BOOLEAN /\ over \in BOOLEAN /\ "live" \in Stage /\ event.lives \ {l} \in SUBSET LiveCall
  BY <1>2, <1>5, <1>6, Stages
<1>15. prevented \in BOOLEAN /\ immediate \in BOOLEAN
  BY <1>7, <1>8
<1>16. one \in EventType
  BY <1>1, <1>9, <1>14 DEF EventType
<1>17. two \in EventType
  <2> HIDE DEF one
  <2> QED
    BY <1>14, <1>16 DEF EventType
<1>18. three \in EventType
  <2> HIDE DEF two
  <2> QED
    BY <1>15, <1>17 DEF EventType
<1>19. some \in EventType
  <2> HIDE DEF three
  <2> QED
    BY <1>10, <1>11, <1>12, <1>18 DEF EventType
<1>20. /\ some.pc = "live" /\ some.list = event.list /\ some.called = event.called
       /\ some.again = event.again /\ some.late = event.late
       /\ some.native = event.native /\ some.target = event.target /\ some.elem = event.elem
       /\ some.stopped = stopped /\ some.immediate = immediate
       /\ some.over = over /\ some.liveFired = event.liveFired
       /\ some.lives = event.lives \ {l} /\ some.maxLevel = maxLevel /\ some.answer = told
       /\ some.meddled = event.meddled /\ some.stoppedIn = stoppedIn
       /\ some.stoppedAt = stoppedAt
  BY <1>1 DEF EventType
<1>22. LiveAnswered(event, answer) = then
  <2>1. LiveAnswered(event, answer) = IF some.immediate THEN [some EXCEPT !.lives = {}] ELSE some
    BY <1>5, <1>6, <1>7, <1>8, <1>9, <1>10, <1>11, <1>12 DEF LiveAnswered, l
  <2> HIDE DEF some
  <2> QED
    BY <2>1, <1>20
<1> HIDE DEF some
<1>13. then \in EventType
  <2>1. CASE immediate
    BY <2>1, <1>19 DEF EventType
  <2>2. CASE ~ immediate
    BY <2>2, <1>19
  <2> QED
    BY <2>1, <2>2
<1>21. /\ then.pc = "live" /\ then.list = event.list /\ then.called = event.called
       /\ then.again = event.again /\ then.late = event.late
       /\ then.native = event.native /\ then.target = event.target /\ then.elem = event.elem
       /\ then.stopped = stopped /\ then.immediate = immediate
       /\ then.over = over /\ then.liveFired = event.liveFired
       /\ then.lives = lives /\ then.maxLevel = maxLevel /\ then.answer = told
       /\ then.meddled = event.meddled /\ then.stoppedIn = stoppedIn
       /\ then.stoppedAt = stoppedAt
  <2>1. CASE immediate
    BY <2>1, <1>19, <1>20 DEF EventType
  <2>2. CASE ~ immediate
    BY <2>2, <1>20
  <2> QED
    BY <2>1, <2>2
<1> HIDE DEF then
<1>23. Ended(event) => Ended(then)
  BY <1>5, <1>6, <1>21 DEF Ended
<1>24. Kept(then)
  <2>1. ~ then.late
    BY <1>1, <1>21 DEF Kept
  <2>2. ASSUME then.stoppedIn > 0
        PROVE  then.elem = then.stoppedIn /\ (Ended(then) \/ then.answer = "false")
    <3>1. CASE stops
      BY <3>1, <2>2, <1>1, <1>2, <1>5, <1>6, <1>9, <1>11, <1>21 DEF Kept, Ended
    <3>2. CASE ~ stops
      <4>1. event.stoppedIn > 0 /\ answer # "false"
        BY <3>2, <2>2, <1>11, <1>21
      <4> QED
        BY <4>1, <3>2, <1>1, <1>2, <1>9, <1>11, <1>21, <1>23 DEF Kept
    <3> QED
      BY <3>1, <3>2
  <2>3. ASSUME then.immediate PROVE Ended(then) /\ then.lives = {}
    BY <2>3, <1>1, <1>5, <1>6, <1>8, <1>21, <1>23 DEF Kept, Ended
  <2>4. ASSUME then.stoppedAt > 0
        PROVE  /\ then.stoppedIn > 0 /\ then.liveFired = then.elem
               /\ then.maxLevel > 0 /\ then.maxLevel <= Level(then, then.stoppedAt)
    <3>1. Level(then, then.stoppedAt) = stoppedAt - event.target + 1
          /\ Level(event, l.elem) = l.elem - event.target + 1
      BY <1>21 DEF Level
    <3>2. Level(event, l.elem) > 0
      BY <3>1, <1>2, <1>4
    <3>3. CASE event.stoppedAt > 0
      <4>1. /\ event.stoppedIn > 0 /\ event.liveFired = event.elem
            /\ event.maxLevel > 0 /\ event.maxLevel <= event.stoppedAt - event.target + 1
        BY <3>3, <1>1 DEF Kept, Level
      <4>2. stoppedAt = event.stoppedAt /\ stoppedIn = event.stoppedIn
        BY <3>3, <4>1, <1>2, <1>11, <1>12
      <4>3. Level(event, l.elem) <= event.maxLevel
        BY <4>1, <1>3
      <4>4. maxLevel > 0 /\ maxLevel <= event.maxLevel
        BY <4>1, <4>3, <3>1, <3>2, <1>2, <1>4, <1>10
      <4> QED
        BY <4>1, <4>2, <4>4, <3>1, <1>2, <1>21
    <3>4. CASE event.stoppedAt = 0
      <4>1. stops
        BY <3>4, <2>4, <1>12, <1>21
      <4>2. stoppedAt = l.elem /\ stoppedIn > 0 /\ maxLevel = Level(event, l.elem)
        BY <4>1, <3>4, <1>2, <1>10, <1>11, <1>12
      <4>3. event.liveFired = event.elem
        BY <1>1 DEF Kept
      <4> QED
        BY <4>2, <4>3, <3>1, <3>2, <1>2, <1>4, <1>21
    <3> QED
      BY <3>3, <3>4, <1>2
  <2>5. \A k \in then.lives : k.elem >= then.target
    BY <1>1, <1>21 DEF Kept
  <2>6. then.liveFired = then.elem
    BY <1>1, <1>21 DEF Kept
  <2> QED
    BY <2>1, <2>2, <2>3, <2>4, <2>5, <2>6, <1>21 DEF Kept
<1>25. Once(then, kept, n, quiet)
  <2>1. CASE event.meddled
    BY <2>1, <1>21 DEF Once
  <2>2. CASE ~ event.again /\ Behind(event, kept, n) /\ Ahead(event, kept, n)
    <3>1. Behind(then, kept, n)
      BY <2>2, <1>21 DEF Behind, Early
    <3>2. Calling(event) /\ Calling(then) /\ lives \subseteq event.lives \ {l}
      BY <1>21 DEF Calling
    <3>3. \A k \in lives : <<k.elem, k.of.id>> \notin event.called
      BY <2>2, <3>2 DEF Ahead, l
    <3>4. Ahead(then, kept, n)
      BY <2>2, <3>2, <3>3, <1>21 DEF Ahead
    <3> QED
      BY <2>2, <3>1, <3>4, <1>21 DEF Once
  <2> QED
    BY <1>1, <2>1, <2>2 DEF Once
<1> QED
  BY <1>13, <1>22, <1>24, <1>25 DEF Sound

-----------------------------------------------------------------------------
(* Events that start and end, and what changes for all of them. *)

\* A new event.
LEMMA NewIsSound ==
    ASSUME NEW kept, NEW n, NEW quiet, NEW native \in BOOLEAN, NEW target \in Elements
    PROVE  LET event == Dispatch(native, target)
           IN  /\ event \in EventType /\ Sound(event, kept, n, quiet) /\ event.pc = "arrive"
               /\ event.elem = target /\ event.native = native
               /\ ~ event.again /\ ~ event.late /\ event.stoppedIn = 0 /\ event.stoppedAt = 0
               /\ event.liveFired = 0 /\ ~ event.immediate /\ event.called = {}
<1> DEFINE event == Dispatch(native, target)
<1>1. /\ FALSE \in BOOLEAN /\ TRUE \in BOOLEAN /\ 0 \in Nat /\ "arrive" \in Stage /\ "nothing" \in Told
      /\ {} \in SUBSET Spaces /\ {} \in SUBSET Entry /\ {} \in SUBSET LiveCall /\ {} \in SUBSET Call
  BY Stages DEF Told
<1>2. event \in EventType
  BY <1>1 DEF EventType, Dispatch
<1>3. /\ event.pc = "arrive" /\ event.elem = target /\ event.native = native
      /\ ~ event.again /\ ~ event.late /\ event.stoppedIn = 0 /\ event.stoppedAt = 0
      /\ event.liveFired = 0 /\ ~ event.immediate /\ event.called = {}
  BY DEF Dispatch
<1> HIDE DEF event
<1>4. Kept(event)
  BY <1>3 DEF Kept
<1>5. target \in Nat /\ target > 0
  BY ElementsAreNumbers
<1>6. Behind(event, kept, n) /\ Ahead(event, kept, n)
  BY <1>3, <1>5 DEF Behind, Ahead, Calling
<1>7. Sound(event, kept, n, quiet)
  BY <1>2, <1>3, <1>4, <1>6 DEF Sound, Once
<1> QED
  BY <1>2, <1>3, <1>7 DEF event

\* What is still bound was bound before, or gets the next number.
Binds(kept, n, then, m) ==
    /\ n \in Nat /\ m \in {n, n + 1}
    /\ \A e \in Elements : \A b \in kept[e] : b.id \in Nat
    /\ \A e \in Elements : \A b \in then[e] : b \in kept[e] \/ (b.id = n + 1 /\ m = n + 1)

LEMMA OnceStays ==
    ASSUME NEW event, NEW kept, NEW n, NEW quiet, Sound(event, kept, n, quiet),
           NEW then, NEW m, Binds(kept, n, then, m)
    PROVE  Sound(event, then, m, quiet)
<1>0. /\ n \in Nat /\ m \in {n, n + 1}
      /\ \A e \in Elements : \A b \in kept[e] : b.id \in Nat
      /\ \A e \in Elements : \A b \in then[e] : b \in kept[e] \/ (b.id = n + 1 /\ m = n + 1)
  BY DEF Binds
<1>1. event \in EventType /\ Kept(event) /\ Once(event, kept, n, quiet)
  BY DEF Sound
<1>2. /\ event.called \in SUBSET Call /\ event.list \in SUBSET Entry /\ event.lives \in SUBSET LiveCall
  BY <1>1 DEF EventType
<1>3. n <= m
  BY <1>0
<1>4. ASSUME Behind(event, kept, n) PROVE Behind(event, then, m)
  <2>1. ASSUME NEW c \in event.called
        PROVE  /\ c[2] <= m
               /\ \A e \in Elements : \A b \in then[e] : b.id = c[2] => b \in kept[e]
    <3>1. c[2] \in Nat /\ c[2] <= n
      BY <1>2, <1>4 DEF Behind, Call
    <3> QED
      BY <3>1, <1>0, <1>3
  <2> QED
    BY <2>1, <1>4 DEF Behind
<1>5. ASSUME Ahead(event, kept, n) PROVE Ahead(event, then, m)
  <2>1. ASSUME NEW b \in event.list, b.id <= n
        PROVE  /\ b.id <= m
               /\ \A e \in Elements : \A c \in then[e] : c.id = b.id => c \in kept[e]
    <3>1. b.id \in Nat
      BY <1>2 DEF Entry
    <3> QED
      BY <2>1, <3>1, <1>0, <1>3
  <2>2. ASSUME NEW l \in event.lives, l.of.id <= n
        PROVE  /\ l.of.id <= m
               /\ \A e \in Elements : \A b \in then[e] : b.id = l.of.id => b \in kept[e]
    <3>1. l.of.id \in Nat
      BY <1>2 DEF LiveCall, Entry
    <3> QED
      BY <2>2, <3>1, <1>0, <1>3
  <2>3. Calling(event) => \A b \in event.list :
          /\ b.id <= m
          /\ \A c \in event.list : b.id = c.id => b = c
          /\ b.kind # "live" =>
                /\ <<event.elem, b.id>> \notin event.called
                /\ \A e \in Elements : \A c \in then[e] : c.id # b.id
    BY <2>1, <1>5 DEF Ahead
  <2>4. event.pc \in {"live", "livePage"} =>
          \A l \in event.lives :
             /\ l.of.id <= m /\ l.elem < event.elem
             /\ \A e \in Elements : \A b \in then[e] : b.id = l.of.id => e = event.elem
             /\ \A k \in event.lives : (l.elem = k.elem /\ l.of.id = k.of.id) => l = k
             /\ <<l.elem, l.of.id>> \in event.called => event.pc = "livePage" /\ l = NextLive(event.lives)
    BY <2>2, <1>5 DEF Ahead
  <2> QED
    BY <2>3, <2>4 DEF Ahead
<1>6. Once(event, then, m, quiet)
  BY <1>1, <1>4, <1>5 DEF Once
<1> QED
  BY <1>1, <1>6 DEF Sound

\* The end of an event, which takes triggered back.
LEMMA UntriggerKeeps ==
    ASSUME NEW s \in Seq(EventType), \A event \in Calls(s) : Sound(event, live, bound, triggered),
           triggered \in BOOLEAN, Untrigger(s)
    PROVE  /\ dispatches' \in Seq(EventType) /\ triggered' = FALSE
           /\ \A event \in Calls(dispatches') : Sound(event, live, bound, FALSE)
<1> DEFINE Late(event) == [event EXCEPT !.meddled = @ \/ (triggered /\ event.native)]
<1>1. triggered' = FALSE /\ dispatches' = [i \in DOMAIN s |-> Late(s[i])]
  BY DEF Untrigger
<1>2. ASSUME NEW event, Sound(event, live, bound, triggered) PROVE Sound(Late(event), live, bound, FALSE)
  <2> DEFINE then == Late(event)
  <2>1. event \in EventType /\ Kept(event) /\ Once(event, live, bound, triggered)
    BY <1>2 DEF Sound
  <2>2. event.meddled \in BOOLEAN /\ event.native \in BOOLEAN
    BY <2>1 DEF EventType
  <2>3. PICK m \in BOOLEAN : m = (event.meddled \/ (triggered /\ event.native))
    OBVIOUS
  <2>4. then = [event EXCEPT !.meddled = m]
    BY <2>3
  <2>5. m \in BOOLEAN
    BY <2>3
  <2>6. then \in EventType
    <3>1. [event EXCEPT !.meddled = m] \in EventType
      BY <2>1, <2>5 DEF EventType
    <3> QED
      BY <3>1, <2>4
  <2>7. /\ then.pc = event.pc /\ then.list = event.list /\ then.called = event.called
        /\ then.again = event.again /\ then.late = event.late
        /\ then.native = event.native /\ then.target = event.target /\ then.elem = event.elem
        /\ then.stopped = event.stopped /\ then.immediate = event.immediate
        /\ then.over = event.over /\ then.liveFired = event.liveFired
        /\ then.lives = event.lives /\ then.maxLevel = event.maxLevel /\ then.answer = event.answer
        /\ then.meddled = m /\ then.stoppedIn = event.stoppedIn
        /\ then.stoppedAt = event.stoppedAt
    BY <2>1, <2>3 DEF EventType
  <2> HIDE DEF then
  <2>8. Kept(then)
    BY <2>1, <2>7 DEF Kept, Ended, InReach, Level
  <2>9. Once(then, live, bound, FALSE)
    <3>1. Behind(event, live, bound) => Behind(then, live, bound)
      BY <2>7 DEF Behind, Early
    <3>2. Ahead(event, live, bound) => Ahead(then, live, bound)
      BY <2>7 DEF Ahead, Calling
    <3> QED
      BY <2>1, <2>3, <2>7, <3>1, <3>2 DEF Once
  <2> QED
    BY <2>6, <2>8, <2>9 DEF Sound, then
<1>3. \A i \in DOMAIN s : Sound(Late(s[i]), live, bound, FALSE)
  BY <1>2 DEF Calls
<1> HIDE DEF Late
<1>4. \A i \in DOMAIN s : Late(s[i]) \in EventType
  BY <1>3 DEF Sound
<1>5. dispatches' \in Seq(EventType) /\ DOMAIN dispatches' = DOMAIN s
  <2>1. DOMAIN s = 1 .. Len(s) /\ Len(s) \in Nat
    OBVIOUS
  <2> QED
    BY <2>1, <1>1, <1>4
<1>6. \A event \in Calls(dispatches') : Sound(event, live, bound, FALSE)
  BY <1>1, <1>3, <1>5 DEF Calls
<1> QED
  BY <1>1, <1>5, <1>6

-----------------------------------------------------------------------------
(* The steps. *)

LEMMA EventsInitInv == EventsInit => EventsInv
<1> SUFFICES ASSUME EventsInit PROVE EventsInv
  OBVIOUS
<1>1. dispatches = <<>> /\ bound = 0 /\ triggered = FALSE /\ web \in Pages
      /\ handlers = [e \in Elements |-> {}] /\ live = [e \in Elements |-> {}]
  BY DEF EventsInit
<1>2. EventsTypeOK
  <2>1. handlers \in [Elements -> SUBSET Entry] /\ live \in [Elements -> SUBSET Entry]
    BY <1>1
  <2>2. dispatches \in Seq(EventType)
    BY <1>1
  <2> QED
    BY <1>1, <2>1, <2>2 DEF EventsTypeOK
<1>3. Numbered(handlers, live, bound)
  BY <1>1 DEF Numbered
<1>4. Calls(dispatches) = {}
  BY <1>1 DEF Calls
<1> QED
  BY <1>2, <1>3, <1>4 DEF EventsInv

\* jQuery makes an event of its own of the browser's.
LEMMA FixedIsSound ==
    ASSUME NEW event, NEW kept, NEW n, NEW quiet, Sound(event, kept, n, quiet), event.pc = "listen"
    PROVE  LET fixed == [event EXCEPT !.stopped = FALSE, !.immediate = FALSE, !.liveFired = 0]
           IN  Sound(fixed, kept, n, quiet) /\ ~ fixed.immediate /\ Early(fixed)
<1> DEFINE once  == [event EXCEPT !.stopped = FALSE, !.immediate = FALSE]
           fixed == [once EXCEPT !.liveFired = 0]
<1>1. event \in EventType /\ Kept(event) /\ Once(event, kept, n, quiet)
  BY DEF Sound
<1>2. once \in EventType
  BY <1>1 DEF EventType
<1>3. fixed \in EventType
  <2> HIDE DEF once
  <2> QED
    BY <1>2 DEF EventType
<1>4. /\ fixed.pc = "listen" /\ fixed.called = event.called
      /\ fixed.again = event.again /\ fixed.late = event.late
      /\ fixed.native = event.native /\ fixed.elem = event.elem
      /\ ~ fixed.immediate /\ fixed.liveFired = 0
      /\ fixed.meddled = event.meddled /\ fixed.stoppedIn = event.stoppedIn
      /\ fixed.stoppedAt = event.stoppedAt
  BY <1>1 DEF EventType
<1> HIDE DEF fixed
<1>5. event.native /\ ~ event.stoppedIn > 0 /\ ~ event.stoppedAt > 0 /\ ~ event.late
  BY <1>1 DEF Kept
<1>6. Kept(fixed)
  BY <1>4, <1>5 DEF Kept
<1>7. event.elem \in Nat /\ event.elem > 0
  BY <1>1, ElementsAreNumbers DEF EventType
<1>8. Once(fixed, kept, n, quiet)
  <2>1. Behind(event, kept, n) => Behind(fixed, kept, n)
    BY <1>4, <1>5, <1>7 DEF Behind, Early
  <2>2. Ahead(fixed, kept, n)
    BY <1>4 DEF Ahead, Calling
  <2> QED
    BY <1>1, <1>4, <2>1, <2>2 DEF Once
<1>9. Sound(fixed, kept, n, quiet) /\ ~ fixed.immediate /\ Early(fixed)
  BY <1>3, <1>4, <1>5, <1>6, <1>8 DEF Sound, Early
<1> QED
  BY <1>9 DEF fixed

LEMMA UntypedIsSound ==
    ASSUME NEW event, NEW kept, NEW n, NEW quiet, Sound(event, kept, n, quiet), NEW v \in BOOLEAN
    PROVE  LET then == [event EXCEPT !.untyped = v]
           IN  /\ Sound(then, kept, n, quiet) /\ then.pc = event.pc /\ then.native = event.native
               /\ then.immediate = event.immediate
<1> DEFINE then == [event EXCEPT !.untyped = v]
<1>1. event \in EventType
  BY DEF Sound
<1>2. then \in EventType
  BY <1>1 DEF EventType
<1>3. /\ then.pc = event.pc /\ then.list = event.list /\ then.called = event.called
      /\ then.again = event.again /\ then.late = event.late
      /\ then.native = event.native /\ then.target = event.target /\ then.elem = event.elem
      /\ then.stopped = event.stopped /\ then.immediate = event.immediate
      /\ then.over = event.over /\ then.liveFired = event.liveFired
      /\ then.lives = event.lives /\ then.maxLevel = event.maxLevel /\ then.answer = event.answer
      /\ then.meddled = event.meddled /\ then.stoppedIn = event.stoppedIn
      /\ then.stoppedAt = event.stoppedAt
  BY <1>1 DEF EventType
<1> HIDE DEF then
<1>4. Sound(then, kept, n, quiet)
  BY <1>2, <1>3, SameIsSound
<1> QED
  BY <1>3, <1>4 DEF then

LEMMA ArrivesSoundly ==
    ASSUME EventsInv, NativeArrive \/ NativeListen \/ TriggerArrive
    PROVE  EventsInv'
<1>1. dispatches # <<>> /\ UNCHANGED <<web, handlers, live, triggered, bound>>
  BY DEF NativeArrive, NativeListen, TriggerArrive, EventAt, counters
<1>2. Sound(Current, live, bound, triggered)
  BY <1>1, CurrentIsSound
<1>3. Current \in EventType /\ Kept(Current) /\ Once(Current, live, bound, triggered)
  BY <1>2 DEF Sound
<1>4. CASE NativeArrive
  <2>1. Current.pc = "arrive" /\ Current.native /\ Early(Current)
    BY <1>4 DEF NativeArrive, EventAt, Early
  <2>2. PICK p \in {"inlinePage", "listen"} : Goes([Current EXCEPT !.pc = p])
    BY <1>4 DEF NativeArrive
  <2>3. Sound([Current EXCEPT !.pc = p], live, bound, triggered)
    BY <1>2, <2>1, MovesOn
  <2> QED
    BY <1>1, <2>2, <2>3, OnlyOneGoesOn
<1>5. CASE NativeListen
  <2> DEFINE fixed == [Current EXCEPT !.stopped = FALSE, !.immediate = FALSE, !.liveFired = 0]
  <2>1. Current.pc = "listen"
    BY <1>5 DEF NativeListen, EventAt
  <2>2. CASE Listens(Current.elem)
    <3>1. ~ triggered /\ Goes(handle(fixed))
      BY <1>5, <2>2 DEF NativeListen, Listens
    <3>2. Sound(fixed, live, bound, triggered) /\ ~ fixed.immediate /\ Early(fixed)
      BY <1>2, <2>1, FixedIsSound
    <3> HIDE DEF fixed
    <3>3. Sound(handle(fixed), live, bound, triggered)
      BY <3>1, <3>2, HandleKeeps
    <3> QED
      BY <1>1, <3>1, <3>3, OnlyOneGoesOn
  <2>3. CASE ~ Listens(Current.elem)
    <3>1. Goes([Current EXCEPT !.pc = "up"])
      BY <1>5, <2>3 DEF NativeListen
    <3>2. Sound([Current EXCEPT !.pc = "up"], live, bound, triggered)
      BY <1>2, <2>1, MovesOn
    <3> QED
      BY <1>1, <3>1, <3>2, OnlyOneGoesOn
  <2> QED
    BY <2>2, <2>3
<1>6. CASE TriggerArrive
  <2>1. Current.pc = "arrive" /\ ~ Current.native /\ ~ Current.immediate
    BY <1>3, <1>6 DEF TriggerArrive, EventAt, Kept
  <2>2. PICK v \in BOOLEAN : v = ~ Current.typed
    OBVIOUS
  <2> DEFINE event == [Current EXCEPT !.untyped = v]
  <2>3. \/ ~ triggered /\ Goes(handle(event))
        \/ Goes([event EXCEPT !.pc = "inline"])
    BY <1>6, <2>2 DEF TriggerArrive
  <2>4. Sound(event, live, bound, triggered) /\ event.pc = "arrive" /\ ~ event.native /\ ~ event.immediate
    <3>1. v \in BOOLEAN
      BY <2>2
    <3> QED
      BY <3>1, <1>2, <2>1, UntypedIsSound
  <2> HIDE DEF event
  <2>5. CASE ~ triggered /\ Goes(handle(event))
    <3>1. Early(event)
      BY <2>4 DEF Early
    <3>2. Sound(handle(event), live, bound, triggered)
      BY <2>4, <2>5, <3>1, HandleKeeps
    <3> QED
      BY <1>1, <2>5, <3>2, OnlyOneGoesOn
  <2>6. CASE Goes([event EXCEPT !.pc = "inline"])
    <3>1. Sound([event EXCEPT !.pc = "inline"], live, bound, triggered)
      BY <2>4, MovesOn
    <3> QED
      BY <1>1, <2>6, <3>1, OnlyOneGoesOn
  <2> QED
    BY <2>3, <2>5, <2>6
<1> QED
  BY <1>4, <1>5, <1>6

LEMMA CallsSoundly ==
    ASSUME EventsInv, CallDirect \/ CallLive \/ LiveNext
    PROVE  EventsInv'
<1>1. dispatches # <<>> /\ UNCHANGED <<web, live, triggered, bound>>
  BY DEF CallDirect, CallLive, LiveNext, EventAt, counters
<1>2. Sound(Current, live, bound, triggered)
  BY <1>1, CurrentIsSound
<1>3. Current \in EventType /\ Kept(Current) /\ Current.list \in SUBSET Entry
  BY <1>2 DEF Sound, EventType
<1>4. CASE CallDirect
  <2> DEFINE b == Earliest(Current.list)
  <2>1. Current.pc = "call" /\ Current.list # {} /\ b.kind # "live"
    BY <1>4 DEF CallDirect, EventAt
  <2>2. b \in Current.list
    BY <1>3, <2>1, EarliestIsOne
  <2> DEFINE then == [Noted(Current, Current.elem, b) EXCEPT !.pc = "page", !.list = @ \ {b}]
  <2>3. Goes(then)
    BY <1>4 DEF CallDirect
  <2> HIDE DEF b
  <2>4. Sound(then, live, bound, triggered)
    BY <1>2, <2>1, <2>2, DirectKeeps
  <2>5. handlers' \in [Elements -> SUBSET Entry] /\ \A e \in Elements : handlers'[e] \subseteq handlers[e]
    <3>1. handlers \in [Elements -> SUBSET Entry]
      BY DEF EventsInv, EventsTypeOK
    <3>2. CASE UNCHANGED handlers
      BY <3>1, <3>2
    <3>3. CASE unbind(Current.elem, b.fn, {})
      <4>1. Without(handlers[Current.elem], b.fn, {}) \subseteq handlers[Current.elem]
        BY DEF Without
      <4>2. handlers' = [handlers EXCEPT ![Current.elem] = Without(@, b.fn, {})]
        BY <3>3 DEF unbind
      <4> QED
        BY <3>1, <4>1, <4>2
    <3> QED
      BY <1>4, <3>2, <3>3 DEF CallDirect, b
  <2> HIDE DEF then
  <2> QED
    BY <1>1, <2>3, <2>4, <2>5, OneGoesOn
<1>5. CASE CallLive
  <2> DEFINE list == Current.list \ {Earliest(Current.list)}
             event == [Current EXCEPT !.list = list]
  <2>1. Current.pc = "call" /\ Current.list # {} /\ UNCHANGED handlers
    BY <1>5 DEF CallLive, EventAt
  <2>2. ~ Current.immediate
    BY <1>3, <2>1 DEF Kept
  <2>3. list \in SUBSET Current.list
    OBVIOUS
  <2>4. \/ Goes(event)
        \/ /\ event.liveFired # event.elem
           /\ Goes([event EXCEPT !.pc = "live", !.liveFired = event.elem, !.lives = Live(event),
                                 !.maxLevel = 0, !.answer = "nothing"])
    BY <1>5 DEF CallLive
  <2> HIDE DEF list
  <2>5. Sound(event, live, bound, triggered) /\ event.pc = "call" /\ ~ event.immediate
    BY <1>2, <2>1, <2>2, <2>3, ListShrinks
  <2> HIDE DEF event
  <2>6. CASE Goes(event)
    BY <1>1, <2>1, <2>5, <2>6, OnlyOneGoesOn
  <2>7. CASE /\ event.liveFired # event.elem
             /\ Goes([event EXCEPT !.pc = "live", !.liveFired = event.elem, !.lives = Live(event),
                                   !.maxLevel = 0, !.answer = "nothing"])
    BY <1>1, <2>1, <2>5, <2>7, LiveStarts, OnlyOneGoesOn
  <2> QED
    BY <2>4, <2>6, <2>7
<1>6. CASE LiveNext
  <2>1. Current.pc = "live" /\ InReach(Current) /\ UNCHANGED handlers
        /\ Goes([Noted(Current, NextLive(Current.lives).elem, NextLive(Current.lives).of)
                     EXCEPT !.pc = "livePage"])
    BY <1>6 DEF LiveNext, EventAt
  <2> QED
    BY <1>1, <1>2, <2>1, LiveKeeps, OnlyOneGoesOn
<1> QED
  BY <1>4, <1>5, <1>6

LEMMA ReturnsSoundly ==
    ASSUME EventsInv, LiveEnds \/ HandlersEnd \/ TriggerInline \/ Up \/ HandlerReturns \/ LiveReturns \/ InlineReturns
    PROVE  EventsInv'
<1>1. dispatches # <<>> /\ UNCHANGED <<web, handlers, live, triggered, bound>>
  BY DEF LiveEnds, HandlersEnd, TriggerInline, Up, HandlerReturns, LiveReturns, InlineReturns, EventAt, counters
<1>2. Sound(Current, live, bound, triggered)
  BY <1>1, CurrentIsSound
<1>3. Current \in EventType /\ Kept(Current) /\ Current.answer \in Told /\ web.answers \subseteq Answers
  <2>1. Current \in EventType /\ Kept(Current) /\ Current.answer \in Told
    BY <1>2 DEF Sound, EventType
  <2>2. web \in Pages
    BY DEF EventsInv, EventsTypeOK
  <2> QED
    BY <2>1, <2>2, EventsAssumption
<1>4. CASE LiveEnds
  <2> DEFINE answered == Answered(Current, Current.answer)
  <2>1. Current.pc = "live" /\ Goes([answered EXCEPT !.lives = {}])
    BY <1>4 DEF LiveEnds, EventAt
  <2>2. Current.answer \in Answers
    BY <1>3 DEF Told, Answers
  <2>3. Sound(answered, live, bound, triggered) /\ answered.pc = "call"
    BY <1>2, <2>1, <2>2, AnsweredKeeps
  <2> HIDE DEF answered
  <2>4. Sound([answered EXCEPT !.lives = {}], live, bound, triggered)
    BY <2>3, LivesGone
  <2> QED
    BY <1>1, <2>1, <2>4, OnlyOneGoesOn
<1>5. CASE HandlersEnd \/ TriggerInline
  <2>1. PICK p \in {"inlinePage", "inline", "up"} :
          /\ Goes([Current EXCEPT !.pc = p]) /\ Current.pc \in {"call", "inline"}
          /\ Current.native => p = "up"
    <3>1. CASE HandlersEnd
      BY <3>1 DEF HandlersEnd, EventAt
    <3>2. CASE TriggerInline
      <4>1. ~ Current.native /\ Current.pc = "inline"
        BY <1>3, <3>2 DEF TriggerInline, EventAt, Kept
      <4> QED
        BY <3>2, <4>1 DEF TriggerInline
    <3> QED
      BY <1>5, <3>1, <3>2
  <2>2. Sound([Current EXCEPT !.pc = p], live, bound, triggered)
    BY <1>2, <2>1, MovesOn
  <2> QED
    BY <1>1, <2>1, <2>2, OnlyOneGoesOn
<1>6. CASE Up
  <2>1. Current.pc = "up" /\ Bubbles(Current) /\ Goes([Current EXCEPT !.elem = @ + 1, !.pc = "arrive"])
    BY <1>6 DEF Up, EventAt
  <2> QED
    BY <1>1, <1>2, <2>1, UpKeeps, OnlyOneGoesOn
<1>7. CASE HandlerReturns
  <2>1. PICK answer \in web.answers : Goes(Answered(Current, answer))
    BY <1>7 DEF HandlerReturns
  <2>2. Current.pc = "page" /\ answer \in Answers
    BY <1>3, <1>7 DEF HandlerReturns, EventAt
  <2>3. Sound(Answered(Current, answer), live, bound, triggered)
    BY <1>2, <2>2, AnsweredKeeps
  <2> QED
    BY <1>1, <2>1, <2>3, OnlyOneGoesOn
<1>8. CASE LiveReturns
  <2>1. PICK answer \in web.answers : Goes(LiveAnswered(Current, answer))
    BY <1>8 DEF LiveReturns
  <2>2. Current.pc = "livePage"
    BY <1>8 DEF LiveReturns, EventAt
  <2>3. Sound(LiveAnswered(Current, answer), live, bound, triggered)
    BY <1>2, <2>2, LiveAnsweredKeeps
  <2> QED
    BY <1>1, <2>1, <2>3, OnlyOneGoesOn
<1>9. CASE InlineReturns
  <2> DEFINE Then(answer) ==
                 [Current EXCEPT !.pc = IF Current.native THEN "listen" ELSE "up",
                     !.prevented = @ \/ answer \in {"false", "prevent"},
                     !.stopped = @ \/ answer = "stop", !.over = @ \/ answer = "stop"]
  <2>1. PICK answer : Goes(Then(answer))
    BY <1>9 DEF InlineReturns
  <2>2. Current.pc = "inlinePage"
    BY <1>9 DEF InlineReturns, EventAt
  <2>3. Sound(Then(answer), live, bound, triggered)
    BY <1>2, <2>2, InlineKeeps
  <2> HIDE DEF Then
  <2> QED
    BY <1>1, <2>1, <2>3, OnlyOneGoesOn
<1> QED
  BY <1>4, <1>5, <1>6, <1>7, <1>8, <1>9

\* What the browser does has an event of its own, of which jQuery is not to hear.
LEMMA DefaultIsSound ==
    ASSUME NEW event \in EventType, NEW kept, NEW n
    PROVE  Sound([Dispatch(TRUE, event.target) EXCEPT !.called = event.called], kept, n, TRUE)
<1> DEFINE new == Dispatch(TRUE, event.target)
           then == [new EXCEPT !.called = event.called]
<1>1. event.target \in Elements /\ event.called \in SUBSET Call /\ TRUE \in BOOLEAN
  BY DEF EventType
<1>2. /\ new \in EventType /\ new.pc = "arrive" /\ new.native = TRUE /\ ~ new.again /\ ~ new.late
      /\ new.stoppedIn = 0 /\ new.stoppedAt = 0 /\ ~ new.immediate
  BY <1>1, NewIsSound
<1> HIDE DEF new
<1>3. then \in EventType
  BY <1>1, <1>2 DEF EventType
<1>4. /\ then.pc = "arrive" /\ then.native = TRUE /\ ~ then.again /\ ~ then.late
      /\ then.stoppedIn = 0 /\ then.stoppedAt = 0 /\ ~ then.immediate
  BY <1>2 DEF EventType
<1> HIDE DEF then
<1>5. Kept(then)
  BY <1>4 DEF Kept
<1>6. Once(then, kept, n, TRUE)
  BY <1>4 DEF Once
<1> QED
  BY <1>3, <1>5, <1>6 DEF Sound, then, new

LEMMA OldIsSound ==
    ASSUME NEW event, NEW kept, NEW n, NEW quiet, Sound(event, kept, n, quiet),
           event.pc = "up", ~ event.native, NEW v \in BOOLEAN
    PROVE  Sound([event EXCEPT !.pc = "after", !.old = v], kept, n, TRUE)
<1> DEFINE once == [event EXCEPT !.pc = "after"]
           then == [once EXCEPT !.old = v]
<1>1. Sound(once, kept, n, quiet)
  BY MovesOn
<1> HIDE DEF once
<1>2. once \in EventType
  BY <1>1 DEF Sound
<1>3. then \in EventType
  BY <1>2 DEF EventType
<1>4. /\ then.pc = once.pc /\ then.list = once.list /\ then.called = once.called
      /\ then.again = once.again /\ then.late = once.late
      /\ then.native = once.native /\ then.target = once.target /\ then.elem = once.elem
      /\ then.stopped = once.stopped /\ then.immediate = once.immediate
      /\ then.over = once.over /\ then.liveFired = once.liveFired
      /\ then.lives = once.lives /\ then.maxLevel = once.maxLevel /\ then.answer = once.answer
      /\ then.meddled = once.meddled /\ then.stoppedIn = once.stoppedIn
      /\ then.stoppedAt = once.stoppedAt
  BY <1>2 DEF EventType
<1> HIDE DEF then
<1>5. Sound(then, kept, n, quiet)
  BY <1>1, <1>3, <1>4, SameIsSound
<1> QED
  BY <1>5 DEF Sound, Once, then, once

LEMMA EndsSoundly ==
    ASSUME EventsInv, EventEnds \/ DefaultAction \/ DefaultDone
    PROVE  EventsInv'
<1>1. dispatches # <<>> /\ UNCHANGED <<web, handlers, live, bound>>
  BY DEF EventEnds, DefaultAction, DefaultDone, EventAt, counters
<1>2. /\ Sound(Current, live, bound, triggered) /\ Current \in EventType
      /\ Outer \in Seq(EventType) /\ \A event \in Calls(Outer) : Sound(event, live, bound, triggered)
      /\ triggered \in BOOLEAN
  BY <1>1, CurrentIsSound DEF Sound, EventsInv, EventsTypeOK
<1>3. ASSUME dispatches' \in Seq(EventType), triggered' \in BOOLEAN,
             \A event \in Calls(dispatches') : Sound(event, live, bound, triggered')
      PROVE  EventsInv'
  <2>1. EventsTypeOK' /\ Numbered(handlers, live, bound)'
    BY <1>1, <1>3 DEF EventsInv, EventsTypeOK
  <2> QED
    BY <2>1, <1>1, <1>3 DEF EventsInv
<1>4. ASSUME Untrigger(Outer) PROVE EventsInv'
  BY <1>2, <1>3, <1>4, UntriggerKeeps
<1>5. CASE EventEnds
  BY <1>2, <1>3, <1>5 DEF EventEnds
<1>6. CASE DefaultDone
  BY <1>4, <1>6 DEF DefaultDone
<1>7. CASE DefaultAction
  <2>1. CASE Current.target \notin web.methods
    BY <1>4, <1>7, <2>1 DEF DefaultAction
  <2>2. CASE Current.target \in web.methods
    <3>1. PICK v \in BOOLEAN : v = (Current.target \in onclick)
      <4>1. (Current.target \in onclick) \in BOOLEAN
        OBVIOUS
      <4> QED
        BY <4>1, Zenon
    <3> DEFINE new == [Dispatch(TRUE, Current.target) EXCEPT !.called = Current.called]
               after == [Current EXCEPT !.pc = "after", !.old = v]
    <3>2. /\ triggered' = TRUE /\ Current.pc = "up" /\ ~ Current.native
          /\ dispatches' = <<new, after>> \o Outer
      BY <1>7, <2>2, <3>1 DEF DefaultAction, EventAt
    <3>3. Sound(new, live, bound, TRUE)
      BY <1>2, DefaultIsSound
    <3>4. Sound(after, live, bound, TRUE)
      <4>1. v \in BOOLEAN
        BY <3>1
      <4> QED
        BY <4>1, <1>2, <3>2, OldIsSound
    <3>5. \A event \in Calls(Outer) : Sound(event, live, bound, TRUE)
      BY <1>2 DEF Sound, Once
    <3> HIDE DEF new, after
    <3>6. new \in EventType /\ after \in EventType
      BY <3>3, <3>4 DEF Sound
    <3>7. <<after>> \o Outer \in Seq(EventType) /\ Calls(<<after>> \o Outer) = {after} \cup Calls(Outer)
      BY <1>2, <3>6, CallsPushed
    <3>8. <<new, after>> \o Outer = <<new>> \o (<<after>> \o Outer)
      BY <1>2, <3>6, PushedInTurn
    <3>9. dispatches' \in Seq(EventType) /\ Calls(dispatches') = {new} \cup ({after} \cup Calls(Outer))
      BY <3>2, <3>6, <3>7, <3>8, CallsPushed
    <3> QED
      BY <1>3, <3>2, <3>3, <3>4, <3>5, <3>9
  <2> QED
    BY <2>1, <2>2
<1> QED
  BY <1>5, <1>6, <1>7

\* Functions are bound, and others no longer.
LEMMA BindsSoundly ==
    ASSUME EventsInv, UNCHANGED <<web, triggered, dispatches>>, bound' \in {bound, bound + 1},
           handlers' \in [Elements -> SUBSET Entry], live' \in [Elements -> SUBSET Entry],
           \A e \in Elements : \A b \in live'[e] : b \in live[e] \/ (b.id = bound + 1 /\ bound' = bound + 1),
           Numbered(handlers', live', bound')
    PROVE  EventsInv'
<1>1. /\ bound \in Nat /\ bound' \in Nat
      /\ \A e \in Elements : \A b \in live[e] : b.id \in Nat
  BY DEF EventsInv, EventsTypeOK, Entry
<1>2. EventsTypeOK'
  BY <1>1 DEF EventsInv, EventsTypeOK
<1>3. PICK then : then = live'
  OBVIOUS
<1>4. PICK m : m = bound'
  OBVIOUS
<1>5. ASSUME NEW event \in Calls(dispatches) PROVE Sound(event, then, m, triggered)
  <2>1. Sound(event, live, bound, triggered)
    BY DEF EventsInv
  <2>2. m \in {bound, bound + 1}
    BY <1>4
  <2>3. \A e \in Elements : \A b \in then[e] : b \in live[e] \/ (b.id = bound + 1 /\ m = bound + 1)
    BY <1>3, <1>4
  <2>4. Binds(live, bound, then, m)
    BY <2>2, <2>3, <1>1 DEF Binds
  <2> QED
    BY <2>1, <2>4, OnceStays
<1>6. \A event \in Calls(dispatches') : Sound(event, live', bound', triggered')
  BY <1>3, <1>4, <1>5
<1> QED
  BY <1>2, <1>6 DEF EventsInv

LEMMA PagesActSoundly ==
    ASSUME EventsInv, PageBinds \/ PageUnbinds \/ PageDies
    PROVE  EventsInv'
<1>1. UNCHANGED <<web, triggered, dispatches>>
  BY DEF PageBinds, PageUnbinds, PageDies
<1>2. /\ handlers \in [Elements -> SUBSET Entry] /\ live \in [Elements -> SUBSET Entry]
      /\ bound \in Nat /\ web \in Pages /\ Numbered(handlers, live, bound)
  BY DEF EventsInv, EventsTypeOK
<1>3. \A b \in web.bindings :
         /\ b.kind \in Kinds /\ b.elem \in Elements /\ b.fn \in STRING /\ b.ns \in SUBSET STRING
         /\ b.selector \in STRING
  BY <1>2, EventsAssumption
<1>4. ASSUME bound' = bound, handlers' \in [Elements -> SUBSET Entry], live' \in [Elements -> SUBSET Entry],
             \A e \in Elements : handlers'[e] \subseteq handlers[e] /\ live'[e] \subseteq live[e]
      PROVE  EventsInv'
  <2>1. Numbered(handlers', live', bound')
    BY <1>2, <1>4 DEF Numbered
  <2> QED
    BY <2>1, <1>1, <1>4, BindsSoundly
<1>5. CASE PageBinds
  <2>1. bound' = bound + 1
    BY <1>5 DEF PageBinds
  <2>2. PICK b \in web.bindings : add(b)
    BY <1>5 DEF PageBinds
  <2>3. PICK ns \in SUBSET STRING : ns = IF b.kind = "live" THEN b.ns \cup {b.selector} ELSE b.ns
    BY <1>3
  <2> DEFINE entry == [id |-> bound + 1, kind |-> b.kind, fn |-> b.fn, selector |-> b.selector, ns |-> ns]
  <2>4. entry \in Entry
    BY <1>2, <1>3, <2>3 DEF Entry
  <2>5. /\ handlers' = [handlers EXCEPT ![b.elem] = @ \cup {entry}]
        /\ live' = IF b.kind = "live" THEN [live EXCEPT ![b.elem] = @ \cup {entry}] ELSE live
    BY <2>2, <2>3 DEF add
  <2>6. entry.id = bound + 1 /\ entry.kind = b.kind
    OBVIOUS
  <2> HIDE DEF entry
  <2>7. handlers' \in [Elements -> SUBSET Entry] /\ live' \in [Elements -> SUBSET Entry]
    BY <1>2, <1>3, <2>4, <2>5
  <2>8. /\ \A e \in Elements : \A c \in handlers'[e] : c \in handlers[e] \/ (c = entry /\ e = b.elem)
        /\ \A e \in Elements : \A c \in live'[e] : c \in live[e] \/ (c = entry /\ e = b.elem /\ entry.kind = "live")
    BY <1>2, <1>3, <2>5, <2>6
  <2>9. /\ \A e \in Elements : \A c \in handlers[e] : c.id \in Nat /\ c.id <= bound
        /\ \A e \in Elements : \A c \in live[e] : c.id \in Nat /\ c.id <= bound
    BY <1>2 DEF Numbered, Entry
  <2>10. Numbered(handlers', live', bound + 1)
    <3>1. \A e, f \in Elements : \A c \in live'[e], d \in live'[f] : c.id = d.id => e = f /\ c = d
      BY <1>2, <2>6, <2>8, <2>9 DEF Numbered
    <3>2. \A e \in Elements : \A c \in live'[e] : c.id <= bound + 1
      BY <1>2, <2>6, <2>8, <2>9
    <3>3. ASSUME NEW e \in Elements, NEW c \in handlers'[e]
          PROVE  /\ c.id <= bound + 1
                 /\ \A d \in handlers'[e] : c.id = d.id => c = d
                 /\ c.kind # "live" => \A f \in Elements : \A d \in live'[f] : d.id # c.id
      <4>1. c.id <= bound + 1
        BY <1>2, <2>6, <2>8, <2>9
      <4>2. \A d \in handlers'[e] : c.id = d.id => c = d
        BY <1>2, <2>6, <2>8, <2>9 DEF Numbered
      <4>3. c.kind # "live" => \A f \in Elements : \A d \in live'[f] : d.id # c.id
        BY <1>2, <2>6, <2>8, <2>9 DEF Numbered
      <4> QED
        BY <4>1, <4>2, <4>3
    <3> QED
      BY <3>1, <3>2, <3>3 DEF Numbered
  <2>11. \A e \in Elements : \A c \in live'[e] : c \in live[e] \/ (c.id = bound + 1 /\ bound' = bound + 1)
    BY <2>1, <2>6, <2>8
  <2> QED
    BY <1>1, <2>1, <2>7, <2>10, <2>11, BindsSoundly
<1>6. CASE PageUnbinds
  <2>1. UNCHANGED <<live, bound>>
    BY <1>6 DEF PageUnbinds
  <2>2. PICK b \in web.bindings : unbind(b.elem, b.fn, {}) \/ unbindAll(b.elem, b.ns)
    BY <1>6 DEF PageUnbinds
  <2>3. PICK left \in SUBSET handlers[b.elem] : handlers' = [handlers EXCEPT ![b.elem] = left]
    BY <2>2 DEF unbind, unbindAll, Without, Outside
  <2> QED
    BY <1>2, <1>3, <1>4, <2>1, <2>3
<1>7. CASE PageDies
  <2>1. UNCHANGED bound
    BY <1>7 DEF PageDies
  <2>2. PICK b \in web.bindings : die(b.elem, b.fn, b.ns \cup {b.selector})
    BY <1>7 DEF PageDies
  <2>3. PICK left \in SUBSET handlers[b.elem] : handlers' = [handlers EXCEPT ![b.elem] = left]
    BY <2>2 DEF die
  <2>4. PICK still \in SUBSET live[b.elem] : live' = [live EXCEPT ![b.elem] = still]
    BY <2>2 DEF die, Without
  <2> QED
    BY <1>2, <1>3, <1>4, <2>1, <2>3, <2>4
<1> QED
  BY <1>5, <1>6, <1>7

LEMMA StartsSoundly ==
    ASSUME EventsInv, PageTriggers \/ UserClicks
    PROVE  EventsInv'
<1>1. UNCHANGED <<web, handlers, live, triggered, bound>> /\ dispatches \in Seq(EventType)
  BY DEF PageTriggers, UserClicks, EventsInv, EventsTypeOK
<1>2. ASSUME NEW event, Sound(event, live, bound, triggered), dispatches' = <<event>> \o dispatches
      PROVE  EventsInv'
  <2>1. dispatches' \in Seq(EventType) /\ Calls(dispatches') = {event} \cup Calls(dispatches)
    BY <1>1, <1>2, CallsPushed DEF Sound
  <2>2. EventsTypeOK' /\ Numbered(handlers, live, bound)'
    BY <1>1, <2>1 DEF EventsInv, EventsTypeOK
  <2>3. \A e \in Calls(dispatches') : Sound(e, live, bound, triggered)
    BY <1>2, <2>1 DEF EventsInv
  <2> QED
    BY <1>1, <2>2, <2>3 DEF EventsInv
<1>3. CASE UserClicks
  <2>1. PICK e \in Elements : dispatches' = <<Dispatch(TRUE, e)>> /\ dispatches = <<>>
    BY <1>3 DEF UserClicks
  <2>2. Sound(Dispatch(TRUE, e), live, bound, triggered)
    BY NewIsSound
  <2>3. dispatches' = <<Dispatch(TRUE, e)>> \o dispatches
    BY <2>1
  <2> QED
    BY <1>2, <2>2, <2>3
<1>4. CASE PageTriggers
  <2>1. PICK e \in Elements, how \in web.triggers :
          dispatches' = <<[Dispatch(FALSE, e) EXCEPT
                             !.typed = how = "namespace", !.exclusive = how = "exclusive",
                             !.stopped = how = "handler", !.prevented = how = "handler",
                             !.stoppedIn = IF how = "handler" THEN e ELSE 0]>> \o dispatches
    BY <1>4 DEF PageTriggers
  <2>2. PICK typed \in BOOLEAN : typed = (how = "namespace")
    OBVIOUS
  <2>3. PICK exclusive \in BOOLEAN : exclusive = (how = "exclusive")
    OBVIOUS
  <2>4. PICK handler \in BOOLEAN : handler = (how = "handler")
    OBVIOUS
  <2>5. PICK stoppedIn \in Nat : stoppedIn = IF how = "handler" THEN e ELSE 0
    BY ElementsAreNumbers
  <2> DEFINE new  == Dispatch(FALSE, e)
             once == [new EXCEPT !.typed = typed, !.exclusive = exclusive]
             twice == [once EXCEPT !.stopped = handler, !.prevented = handler]
             then == [twice EXCEPT !.stoppedIn = stoppedIn]
  <2>6. dispatches' = <<then>> \o dispatches
    BY <2>1, <2>2, <2>3, <2>4, <2>5
  <2>7. /\ new \in EventType /\ Once(new, live, bound, triggered) /\ new.pc = "arrive"
        /\ new.elem = e /\ new.native = FALSE
        /\ ~ new.again /\ ~ new.late /\ new.stoppedAt = 0
        /\ new.liveFired = 0 /\ ~ new.immediate /\ new.called = {}
    <3>1. FALSE \in BOOLEAN
      OBVIOUS
    <3> QED
      BY <3>1, NewIsSound DEF Sound
  <2> HIDE DEF new
  <2>8. typed \in BOOLEAN /\ exclusive \in BOOLEAN /\ handler \in BOOLEAN
    BY <2>2, <2>3, <2>4
  <2>9. once \in EventType
    BY <2>7, <2>8 DEF EventType
  <2>10. twice \in EventType
    <3> HIDE DEF once
    <3> QED
      BY <2>8, <2>9 DEF EventType
  <2>11. then \in EventType
    <3> HIDE DEF twice
    <3> QED
      BY <2>5, <2>10 DEF EventType
  <2>12. /\ then.pc = "arrive" /\ then.elem = e /\ ~ then.native /\ then.stopped = handler
         /\ ~ then.again /\ ~ then.late /\ then.stoppedIn = stoppedIn /\ then.stoppedAt = 0
         /\ then.liveFired = 0 /\ ~ then.immediate /\ then.called = {}
    BY <2>7 DEF EventType
  <2> HIDE DEF then
  <2>14. e \in Nat /\ e > 0
    BY ElementsAreNumbers
  <2>13. Kept(then)
    <3>1. then.stoppedIn > 0 => then.elem = then.stoppedIn /\ Ended(then)
      <4>1. CASE how = "handler"
        <5>1. stoppedIn = e
          BY <2>5, <4>1
        <5>2. handler
          BY <2>4, <4>1
        <5> QED
          BY <5>1, <5>2, <2>12 DEF Ended
      <4>2. CASE how # "handler"
        <5>1. stoppedIn = 0
          BY <2>5, <4>2
        <5> QED
          BY <5>1, <2>12
      <4> QED
        BY <4>1, <4>2
    <3>2. then.late = FALSE /\ then.immediate = FALSE /\ then.stoppedAt = 0 /\ then.pc = "arrive"
      BY <2>12
    <3> QED
      BY <3>1, <3>2, <2>12 DEF Kept
  <2>15. Behind(then, live, bound) /\ Ahead(then, live, bound)
    BY <2>12, <2>14 DEF Behind, Ahead, Calling
  <2>16. Sound(then, live, bound, triggered)
    BY <2>11, <2>12, <2>13, <2>15 DEF Sound, Once
  <2> QED
    BY <1>2, <2>6, <2>16
<1> QED
  BY <1>3, <1>4

LEMMA EventsStep == EventsInv /\ [EventsNext]_eventVariables => EventsInv'
<1> SUFFICES ASSUME EventsInv, [EventsNext]_eventVariables PROVE EventsInv'
  OBVIOUS
<1>1. CASE UNCHANGED eventVariables
  BY <1>1 DEF eventVariables, EventsInv, EventsTypeOK
<1>2. CASE NativeArrive \/ NativeListen \/ TriggerArrive
  BY <1>2, ArrivesSoundly
<1>3. CASE CallDirect \/ CallLive \/ LiveNext
  BY <1>3, CallsSoundly
<1>4. CASE LiveEnds \/ HandlersEnd \/ TriggerInline \/ Up \/ HandlerReturns \/ LiveReturns \/ InlineReturns
  BY <1>4, ReturnsSoundly
<1>5. CASE EventEnds \/ DefaultAction \/ DefaultDone
  BY <1>5, EndsSoundly
<1>6. CASE PageBinds \/ PageUnbinds \/ PageDies
  BY <1>6, PagesActSoundly
<1>7. CASE PageTriggers \/ UserClicks
  BY <1>7, StartsSoundly
<1> QED
  BY <1>1, <1>2, <1>3, <1>4, <1>5, <1>6, <1>7 DEF EventsNext

LEMMA EventsInvShows == EventsInv => EventCalledOnce /\ StopIsKept
<1> SUFFICES ASSUME EventsInv, NEW i \in DOMAIN dispatches
             PROVE  (dispatches[i].again => dispatches[i].meddled) /\ ~ dispatches[i].late
  BY DEF EventCalledOnce, StopIsKept
<1>1. Sound(dispatches[i], live, bound, triggered)
  BY DEF EventsInv, Calls
<1> QED
  BY <1>1 DEF Sound, Kept, Once

LEMMA EventsInvAlways == EventsSpec => []EventsInv
BY EventsInitInv, EventsStep, PTL DEF EventsSpec

\* No function is called twice for an event on an element, however functions are bound, live or
\* for once, and unbound while it is on its way, and though what a trigger has the browser do comes
\* by the same elements again (2196-2204, 2501-2509, 3191-3203): unless another event meddled.
THEOREM EventCalledOnceEver == EventsSpec => []EventCalledOnce
BY EventsInvAlways, EventsInvShows, PTL

\* An event that was stopped calls none further out, and live functions none that is live for an
\* element further out; to stop it at once ends all calls (2562-2576, 3243-3266).
THEOREM StopIsKeptEver == EventsSpec => []StopIsKept
BY EventsInvAlways, EventsInvShows, PTL
=============================================================================
