-------------------------- MODULE Callbacks_proof --------------------------
(***************************************************************************)
(* Proofs about what jQuery calls later: the callbacks of deferreds, and   *)
(* the functions in the queues of elements, which are animations and       *)
(* delays.                                                                 *)
(*                                                                         *)
(* Deferreds, for any number of them and of callbacks, which put, resolve, *)
(* reject and throw in the middle of the lists that they are called from.  *)
(* The invariant (DeferredsInv) has three parts.  World: of the two lists  *)
(* of a deferred both wait, or one was begun and the other is dropped; the *)
(* callbacks of the page on a list are those that are still to be called,  *)
(* in their order; the lists that are being called are each called once.   *)
(* InOrder: the callbacks were called in the order in which they were put  *)
(* on a list.  Awaits: what when() has counted are the deferreds that were *)
(* resolved and have no count left on their list, and what it returned is  *)
(* settled when none is left to count or one was rejected.                 *)
(*                                                                         *)
(* Animations, for any page, elements and durations.  The invariant        *)
(* (EffectsInv) has the types, for every page, and more for a gentle one   *)
(* (Gentle, Sound): what waits in a queue was not started and waits once;  *)
(* a timer that is at its end is the one that a loop is about to take out; *)
(* of all that will yet dequeue an element (Going), animations and delays, *)
(* there is one at most (Single), and while there is one, the queue has    *)
(* its sentinel or was cut short by stop().                                *)
(***************************************************************************)
EXTENDS Deferreds, Effects, FiniteSetTheorems, TLAPS

Slot == Deferred \X Side
Opposite(l) == <<l[1], Other(l[2])>>

Has(s, kind) == \E i \in DOMAIN s.callbacks : s.callbacks[i].kind = kind

\* A list that was not called yet, one that was or is being called, and one that never will be.
Waits(s) ==
    /\ s.callbacks # <<>> /\ s.callbacks[1].kind = "cancel"
    /\ \A i \in DOMAIN s.callbacks : i > 1 => s.callbacks[i].kind # "cancel"
    /\ ~ s.fired /\ ~ s.cancelled
Began(s) == ~ Has(s, "cancel") /\ ~ s.cancelled /\ (s.fired \/ s.firing)
Dropped(s) == s.callbacks = <<>> /\ s.cancelled /\ ~ s.fired /\ ~ s.firing

Paired(s, t) == \/ Waits(s) /\ Waits(t)
                \/ Began(s) /\ Dropped(t)
                \/ Dropped(s) /\ Began(t)

Page(s, i) == s.callbacks[i].kind = "page"

\* The callbacks of the page that are on a list are those that are still to be called, in
\* the order in which they were made, which is after all that were called.
InTurn(s, l, mk, past) ==
    /\ \A i \in DOMAIN s.callbacks : Page(s, i) =>
          /\ s.callbacks[i].n \in DOMAIN mk /\ mk[s.callbacks[i].n] = l
          /\ \A n \in past : mk[n] = l => n < s.callbacks[i].n
    /\ \A i, j \in DOMAIN s.callbacks :
          i < j /\ Page(s, i) /\ Page(s, j) => s.callbacks[i].n < s.callbacks[j].n
    /\ ~ s.cancelled => \A n \in DOMAIN mk : mk[n] = l =>
          n \in past \/ \E i \in DOMAIN s.callbacks : Page(s, i) /\ s.callbacks[i].n = n
    /\ (\E n \in past : mk[n] = l) => Began(s)

Emptied(s) == Began(s) /\ ~ s.firing => s.callbacks = <<>>

\* The lists that are being called, each once, were made but for the innermost.
On(frames) == {frames[i].list : i \in DOMAIN frames}
Once(frames) == \A i, j \in DOMAIN frames : frames[i].list = frames[j].list => i = j

Running(ls, frames) ==
    /\ Once(frames)
    /\ \A l \in Slot : ls[l].firing <=> l \in On(frames)
    /\ \A i \in DOMAIN frames : Began(ls[frames[i].list]) \/ (i = 1 /\ ~ frames[i].page)

ListOK(s, l, mk, past, thrown) ==
    s \in ListType /\ InTurn(s, l, mk, past) /\ ~ (s.fired /\ s.firing) /\ (thrown \/ Emptied(s))

World(ls, frames, mk, past, thrown) ==
    /\ ls \in [Slot -> ListType] /\ frames \in Seq(FrameType)
    /\ mk \in Seq(Slot) /\ past \subseteq DOMAIN mk
    /\ \A l \in Slot : ListOK(ls[l], l, mk, past, thrown)
    /\ \A l \in Slot : Paired(ls[l], ls[Opposite(l)])
    /\ Running(ls, frames)

InOrder == \A i, j \in DOMAIN called : i < j /\ made[called[i]] = made[called[j]] => called[i] < called[j]

\* Where when() has put its callbacks.
OneCount(s) == \A i, j \in DOMAIN s.callbacks :
                  s.callbacks[i].kind = "count" /\ s.callbacks[j].kind = "count" => i = j

Placed(s, l, att) ==
    /\ Has(s, "count") => l[1] \in 1 .. Given /\ l[2] = "done" /\ att > 2 * (Given - l[1])
    /\ Has(s, "reject") => l[1] \in 1 .. Given /\ l[2] = "fail"
    /\ OneCount(s)

\* What was counted, and what is still to be.
Counted(s, d, att) == Began(s) /\ ~ Has(s, "count") /\ att > 2 * (Given - d)
NotOwed(s, d, att) == att > 2 * (Given - d) /\ ~ s.cancelled /\ ~ Has(s, "count")
NotRejected(s, d, att) == att > 2 * (Given - d) + 1 /\ ~ s.cancelled /\ ~ Has(s, "reject")

CountedAre(ls, att, n, thrown, W) ==
    /\ Cardinality(W) = Given - n
    /\ \A d \in W : Counted(ls[<<d, "done">>], d, att)
    /\ ~ thrown => \A d \in 1 .. Given : NotOwed(ls[<<d, "done">>], d, att) => d \in W

Resolved(s) == s.fired \/ s.firing
Settled(ls) == Resolved(ls[<<Master, "done">>]) \/ Resolved(ls[<<Master, "fail">>])

Awaits(ls, att, n, thrown) ==
    /\ att \in 0 .. 2 * Given /\ n \in 0 .. Given
    /\ \A l \in Slot : Placed(ls[l], l, att)
    /\ \E W \in SUBSET (1 .. Given) : CountedAre(ls, att, n, thrown, W)
    /\ ~ thrown => \A d \in 1 .. Given : NotRejected(ls[<<d, "fail">>], d, att) => Settled(ls)
    /\ n = 0 => Settled(ls)
    /\ Resolved(ls[<<Master, "done">>]) => n = 0
    /\ Resolved(ls[<<Master, "fail">>]) => \E d \in 1 .. Given : Resolved(ls[<<d, "fail">>])

DeferredsInv ==
    /\ called \in Seq(Nat) /\ acts \in 0 .. MaxActs /\ threw \in BOOLEAN
    /\ World(lists, calling, made, CalledBack, threw) /\ InOrder
    /\ Awaits(lists, attached, count, threw)
-----------------------------------------------------------------------------
(* Lists. *)

LEMMA Slots ==
    /\ \A d \in Deferred, side \in Side : <<d, side>> \in Slot
    /\ \A l \in Slot : /\ l[1] \in Deferred /\ l[2] \in Side /\ l = <<l[1], l[2]>>
                       /\ Opposite(l) \in Slot /\ Opposite(l) # l /\ Opposite(Opposite(l)) = l
    /\ \A k, l \in Slot : Opposite(k) = l => k = Opposite(l)
    /\ \A l \in Slot : l[2] = "done" \/ l[2] = "fail"
    /\ \A d \in Deferred : /\ Opposite(<<d, "done">>) = <<d, "fail">>
                           /\ Opposite(<<d, "fail">>) = <<d, "done">>
BY DEF Slot, Opposite, Other, Side

LEMMA TailIs ==
    ASSUME NEW S, NEW s \in Seq(S), s # <<>>
    PROVE  /\ Tail(s) \in Seq(S) /\ Len(s) \in Nat /\ Len(s) > 0
           /\ DOMAIN s = 1 .. Len(s) /\ DOMAIN Tail(s) = 1 .. Len(s) - 1
           /\ \A i \in DOMAIN Tail(s) : i \in Nat /\ i > 0 /\ i + 1 \in DOMAIN s /\ Tail(s)[i] = s[i + 1]
           /\ Head(s) = s[1] /\ 1 \in DOMAIN s
           /\ \A i \in DOMAIN s : i \in Nat /\ (i # 1 => i - 1 \in DOMAIN Tail(s) /\ Tail(s)[i - 1] = s[i])
OBVIOUS

LEMMA AppendIs ==
    ASSUME NEW S, NEW s \in Seq(S), NEW c \in S
    PROVE  /\ Append(s, c) \in Seq(S) /\ Append(s, c) # <<>> /\ Len(s) \in Nat
           /\ DOMAIN s = 1 .. Len(s) /\ DOMAIN Append(s, c) = 1 .. Len(s) + 1
           /\ Append(s, c)[Len(s) + 1] = c
           /\ \A i \in DOMAIN s : i \in DOMAIN Append(s, c) /\ Append(s, c)[i] = s[i] /\ i # Len(s) + 1
           /\ \A i \in DOMAIN Append(s, c) : i \in Nat /\ (i = Len(s) + 1 \/ i \in DOMAIN s)
OBVIOUS

\* A list without its first callback.
Shift(s) == [s EXCEPT !.callbacks = Tail(@)]

LEMMA ShiftIs ==
    ASSUME NEW s \in ListType, s.callbacks # <<>>
    PROVE  /\ Shift(s) \in ListType
           /\ Shift(s).fired = s.fired /\ Shift(s).firing = s.firing /\ Shift(s).cancelled = s.cancelled
           /\ Shift(s).callbacks = Tail(s.callbacks)
           /\ s.callbacks \in Seq(CallbackType)
           /\ \A i \in DOMAIN s.callbacks : s.callbacks[i] \in CallbackType
<1>1. s.callbacks \in Seq(CallbackType)
  BY DEF ListType
<1>2. PICK c \in Seq(CallbackType) : c = Tail(s.callbacks)
  BY <1>1, TailIs
<1>3. [s EXCEPT !.callbacks = c] \in ListType
  BY DEF ListType
<1>4. /\ Shift(s).fired = s.fired /\ Shift(s).firing = s.firing /\ Shift(s).cancelled = s.cancelled
      /\ Shift(s).callbacks = Tail(s.callbacks)
  BY DEF Shift, ListType
<1> QED
  BY <1>1, <1>2, <1>3, <1>4 DEF Shift

\* Its callbacks are those of the list from the second on.
LEMMA ShiftedAre ==
    ASSUME NEW s \in ListType, s.callbacks # <<>>
    PROVE  /\ 1 \in DOMAIN s.callbacks
           /\ \A i \in DOMAIN Shift(s).callbacks :
                 /\ i \in Nat /\ i > 0 /\ i + 1 \in DOMAIN s.callbacks
                 /\ Shift(s).callbacks[i] = s.callbacks[i + 1]
           /\ \A i \in DOMAIN s.callbacks :
                 i \in Nat /\ (i # 1 => i - 1 \in DOMAIN Shift(s).callbacks /\ Shift(s).callbacks[i - 1] = s.callbacks[i])
<1>1. s.callbacks \in Seq(CallbackType) /\ Shift(s).callbacks = Tail(s.callbacks)
  BY ShiftIs
<1>2. PICK c \in Seq(CallbackType) : c = s.callbacks
  BY <1>1
<1> QED
  BY <1>1, <1>2, TailIs

LEMMA ShiftHas ==
    ASSUME NEW s \in ListType, s.callbacks # <<>>, NEW kind
    PROVE  /\ Has(Shift(s), kind) => Has(s, kind)
           /\ s.callbacks[1].kind # kind => (Has(s, kind) => Has(Shift(s), kind))
           /\ Has(s, s.callbacks[1].kind)
BY ShiftedAre DEF Has

LEMMA ShiftInTurn ==
    ASSUME NEW s \in ListType, s.callbacks # <<>>, s.callbacks[1].kind # "page",
           NEW l, NEW mk, NEW past, InTurn(s, l, mk, past)
    PROVE  InTurn(Shift(s), l, mk, past)
<1> DEFINE t == Shift(s)
<1>1. /\ t.callbacks = Tail(s.callbacks) /\ t.cancelled = s.cancelled
      /\ \A i \in DOMAIN t.callbacks : i \in Nat /\ i + 1 \in DOMAIN s.callbacks /\ t.callbacks[i] = s.callbacks[i + 1]
      /\ \A i \in DOMAIN s.callbacks : i # 1 => i - 1 \in DOMAIN t.callbacks /\ t.callbacks[i - 1] = s.callbacks[i]
  BY ShiftIs, ShiftedAre
<1>2. Began(s) => Began(t)
  BY ShiftIs, ShiftHas DEF Began
<1> HIDE DEF t
<1>3. \A i \in DOMAIN t.callbacks : Page(t, i) => Page(s, i + 1)
  BY <1>1 DEF Page
<1>4. \A i \in DOMAIN s.callbacks : Page(s, i) => i # 1 /\ Page(t, i - 1)
  BY <1>1 DEF Page
<1>5. \A i \in DOMAIN t.callbacks : Page(t, i) =>
          /\ t.callbacks[i].n \in DOMAIN mk /\ mk[t.callbacks[i].n] = l
          /\ \A n \in past : mk[n] = l => n < t.callbacks[i].n
  BY <1>1, <1>3 DEF InTurn
<1>6. \A i, j \in DOMAIN t.callbacks :
          i < j /\ Page(t, i) /\ Page(t, j) => t.callbacks[i].n < t.callbacks[j].n
  <2> SUFFICES ASSUME NEW i \in DOMAIN t.callbacks, NEW j \in DOMAIN t.callbacks, i < j, Page(t, i), Page(t, j)
               PROVE  t.callbacks[i].n < t.callbacks[j].n
    OBVIOUS
  <2>1. i + 1 < j + 1
    BY <1>1
  <2> QED
    BY <2>1, <1>1, <1>3 DEF InTurn
<1>7. ~ t.cancelled => \A n \in DOMAIN mk : mk[n] = l =>
          n \in past \/ \E i \in DOMAIN t.callbacks : Page(t, i) /\ t.callbacks[i].n = n
  BY <1>1, <1>4 DEF InTurn
<1> QED
  BY <1>2, <1>5, <1>6, <1>7 DEF InTurn, t

\* The first callback of the page is called.
IsNext(s, l, mk, past, p) ==
    /\ s \in ListType /\ s.callbacks # <<>> /\ s.callbacks[1].kind = "page" /\ s.callbacks[1].n = p
    /\ Began(s) /\ InTurn(s, l, mk, past)

LEMMA ShiftPage ==
    ASSUME NEW s, NEW l, NEW mk, NEW past, NEW p, IsNext(s, l, mk, past, p)
    PROVE  /\ InTurn(Shift(s), l, mk, past \cup {p})
           /\ p \in DOMAIN mk /\ mk[p] = l /\ \A n \in past : mk[n] = l => n < p
<1> DEFINE t == Shift(s)
<1> s \in ListType /\ s.callbacks # <<>> /\ s.callbacks[1].kind = "page" /\ s.callbacks[1].n = p
    /\ Began(s) /\ InTurn(s, l, mk, past)
  BY DEF IsNext
<1>1. /\ t.callbacks = Tail(s.callbacks) /\ t.cancelled = s.cancelled
      /\ \A i \in DOMAIN t.callbacks : i \in Nat /\ i > 0 /\ i + 1 \in DOMAIN s.callbacks /\ t.callbacks[i] = s.callbacks[i + 1]
      /\ \A i \in DOMAIN s.callbacks : i # 1 => i - 1 \in DOMAIN t.callbacks /\ t.callbacks[i - 1] = s.callbacks[i]
      /\ 1 \in DOMAIN s.callbacks
  BY ShiftIs, ShiftedAre
<1>2. Began(t)
  BY ShiftIs, ShiftHas DEF Began
<1> HIDE DEF t
<1>3. \A i \in DOMAIN t.callbacks : Page(t, i) => Page(s, i + 1)
  BY <1>1 DEF Page
<1>4. \A i \in DOMAIN s.callbacks : Page(s, i) => i = 1 \/ Page(t, i - 1)
  BY <1>1 DEF Page
<1>8. Page(s, 1)
  BY DEF Page
<1>9. p \in DOMAIN mk /\ mk[p] = l /\ \A n \in past : mk[n] = l => n < p
  BY <1>1, <1>8 DEF InTurn
<1>5. \A i \in DOMAIN t.callbacks : Page(t, i) =>
          /\ t.callbacks[i].n \in DOMAIN mk /\ mk[t.callbacks[i].n] = l
          /\ \A n \in past \cup {p} : mk[n] = l => n < t.callbacks[i].n
  <2> SUFFICES ASSUME NEW i \in DOMAIN t.callbacks, Page(t, i)
               PROVE  /\ t.callbacks[i].n \in DOMAIN mk /\ mk[t.callbacks[i].n] = l
                      /\ \A n \in past \cup {p} : mk[n] = l => n < t.callbacks[i].n
    OBVIOUS
  <2>1. 1 < i + 1 /\ i + 1 \in DOMAIN s.callbacks /\ t.callbacks[i] = s.callbacks[i + 1] /\ Page(s, i + 1)
    BY <1>1, <1>3
  <2>2. p < t.callbacks[i].n
    BY <2>1, <1>1, <1>8 DEF InTurn
  <2> QED
    BY <2>1, <2>2 DEF InTurn
<1>6. \A i, j \in DOMAIN t.callbacks :
          i < j /\ Page(t, i) /\ Page(t, j) => t.callbacks[i].n < t.callbacks[j].n
  <2> SUFFICES ASSUME NEW i \in DOMAIN t.callbacks, NEW j \in DOMAIN t.callbacks, i < j, Page(t, i), Page(t, j)
               PROVE  t.callbacks[i].n < t.callbacks[j].n
    OBVIOUS
  <2>1. i + 1 < j + 1
    BY <1>1
  <2> QED
    BY <2>1, <1>1, <1>3 DEF InTurn
<1>7. ~ t.cancelled => \A n \in DOMAIN mk : mk[n] = l =>
          n \in past \cup {p} \/ \E i \in DOMAIN t.callbacks : Page(t, i) /\ t.callbacks[i].n = n
  BY <1>1, <1>4 DEF InTurn
<1> QED
  BY <1>2, <1>5, <1>6, <1>7, <1>9 DEF InTurn, t

\* For the other lists nothing changes by that.
LEMMA OthersInTurn ==
    ASSUME NEW s, NEW l, NEW mk, NEW past, InTurn(s, l, mk, past), NEW p, mk[p] # l
    PROVE  InTurn(s, l, mk, past \cup {p})
BY DEF InTurn

\* A callback is put at the end of a list.
Puts(s, c, t) == t \in ListType /\ t.cancelled = s.cancelled /\ t.callbacks = Append(s.callbacks, c)

LEMMA PutsHas ==
    ASSUME NEW s \in ListType, NEW c \in CallbackType, NEW t, Puts(s, c, t), NEW kind
    PROVE  Has(t, kind) <=> Has(s, kind) \/ c.kind = kind
<1>1. s.callbacks \in Seq(CallbackType)
  BY DEF ListType
<1> QED
  BY <1>1, AppendIs DEF Has, Puts

\* One of the page, which was just made.
LEMMA PutsInTurn ==
    ASSUME NEW s \in ListType, NEW c \in CallbackType, NEW t, Puts(s, c, t), c.kind = "page",
           NEW l \in Slot, NEW mk \in Seq(Slot), NEW past, past \subseteq DOMAIN mk, c.n = Len(mk) + 1,
           InTurn(s, l, mk, past), Began(s) => Began(t)
    PROVE  InTurn(t, l, Append(mk, l), past)
<1> DEFINE more == Append(mk, l)
<1>1. /\ Len(mk) \in Nat /\ c.n \in DOMAIN more /\ more[c.n] = l /\ c.n \notin DOMAIN mk /\ c.n \in Nat
      /\ \A n \in DOMAIN mk : n \in DOMAIN more /\ more[n] = mk[n] /\ n < c.n
      /\ \A n \in DOMAIN more : n = c.n \/ n \in DOMAIN mk
  BY AppendIs
<1>2. s.callbacks \in Seq(CallbackType)
  BY DEF ListType
<1> DEFINE m == Len(s.callbacks) + 1
<1>3. /\ m \in Nat /\ m \in DOMAIN t.callbacks /\ t.callbacks[m] = c /\ m \notin DOMAIN s.callbacks
      /\ \A i \in DOMAIN s.callbacks : i \in DOMAIN t.callbacks /\ t.callbacks[i] = s.callbacks[i] /\ i < m
      /\ \A i \in DOMAIN t.callbacks : i = m \/ i \in DOMAIN s.callbacks
  BY <1>2, AppendIs DEF Puts
<1> HIDE DEF more, m
<1>4. /\ \A i \in DOMAIN s.callbacks : Page(t, i) <=> Page(s, i)
      /\ Page(t, m) /\ t.cancelled = s.cancelled
  BY <1>3 DEF Page, Puts
<1>5. ASSUME NEW i \in DOMAIN t.callbacks, Page(t, i)
      PROVE  /\ t.callbacks[i].n \in DOMAIN more /\ more[t.callbacks[i].n] = l
             /\ \A n \in past : more[n] = l => n < t.callbacks[i].n
  <2>1. CASE i = m
    BY <2>1, <1>1, <1>3
  <2>2. CASE i \in DOMAIN s.callbacks
    BY <2>2, <1>1, <1>3, <1>4, <1>5 DEF InTurn
  <2> QED
    BY <2>1, <2>2, <1>3
<1>6. ASSUME NEW i \in DOMAIN t.callbacks, NEW j \in DOMAIN t.callbacks, i < j, Page(t, i), Page(t, j)
      PROVE  t.callbacks[i].n < t.callbacks[j].n
  <2>3. i \in DOMAIN s.callbacks
    BY <1>2, <1>3, <1>6
  <2>4. s.callbacks[i].n \in DOMAIN mk
    BY <2>3, <1>4, <1>6 DEF InTurn
  <2>1. CASE j = m
    BY <2>1, <2>3, <2>4, <1>1, <1>3
  <2>2. CASE j \in DOMAIN s.callbacks
    BY <2>2, <2>3, <1>3, <1>4, <1>6 DEF InTurn
  <2> QED
    BY <2>1, <2>2, <1>3
<1>7. ASSUME ~ t.cancelled, NEW n \in DOMAIN more, more[n] = l
      PROVE  n \in past \/ \E i \in DOMAIN t.callbacks : Page(t, i) /\ t.callbacks[i].n = n
  <2>1. CASE n = c.n
    BY <2>1, <1>3, <1>4
  <2>2. CASE n \in DOMAIN mk
    <3>1. n \in past \/ \E i \in DOMAIN s.callbacks : Page(s, i) /\ s.callbacks[i].n = n
      BY <2>2, <1>1, <1>4, <1>7 DEF InTurn
    <3> QED
      BY <3>1, <1>3, <1>4
  <2> QED
    BY <2>1, <2>2, <1>1
<1>8. (\E n \in past : more[n] = l) => Began(t)
  BY <1>1 DEF InTurn
<1> QED
  BY <1>5, <1>6, <1>7, <1>8 DEF InTurn, more

\* One of when(), or none: the page's are the same.
LEMMA OthersPutInTurn ==
    ASSUME NEW s \in ListType, NEW c \in CallbackType, NEW t, Puts(s, c, t), c.kind # "page",
           NEW l, NEW mk, NEW past, InTurn(s, l, mk, past), Began(s) => Began(t)
    PROVE  InTurn(t, l, mk, past)
<1>2. s.callbacks \in Seq(CallbackType)
  BY DEF ListType
<1>3. /\ \A i \in DOMAIN s.callbacks : i \in DOMAIN t.callbacks /\ t.callbacks[i] = s.callbacks[i]
      /\ \A i \in DOMAIN t.callbacks : t.callbacks[i] = c \/ i \in DOMAIN s.callbacks
      /\ t.cancelled = s.cancelled
  BY <1>2, AppendIs DEF Puts
<1>4. /\ \A i \in DOMAIN s.callbacks : Page(t, i) <=> Page(s, i)
      /\ \A i \in DOMAIN t.callbacks : Page(t, i) => i \in DOMAIN s.callbacks
  BY <1>3 DEF Page
<1> QED
  BY <1>3, <1>4 DEF InTurn

\* A callback is made for another list.
LEMMA MadeElsewhere ==
    ASSUME NEW s, NEW l, NEW k \in Slot, k # l, NEW mk \in Seq(Slot), NEW past, past \subseteq DOMAIN mk,
           InTurn(s, l, mk, past)
    PROVE  InTurn(s, l, Append(mk, k), past)
<1> DEFINE more == Append(mk, k)
<1>1. /\ \A n \in DOMAIN mk : n \in DOMAIN more /\ more[n] = mk[n]
      /\ \A n \in DOMAIN more : more[n] = l => n \in DOMAIN mk
  BY AppendIs
<1> HIDE DEF more
<1> QED
  BY <1>1 DEF InTurn, more

-----------------------------------------------------------------------------
(* What is being called. *)

LEMMA FramesPushed ==
    ASSUME NEW s \in Seq(FrameType), NEW f \in FrameType
    PROVE  /\ <<f>> \o s \in Seq(FrameType) /\ On(<<f>> \o s) = {f.list} \cup On(s)
           /\ (<<f>> \o s)[1] = f /\ DOMAIN s = 1 .. Len(s) /\ Len(s) \in Nat
           /\ DOMAIN (<<f>> \o s) = 1 .. Len(s) + 1
           /\ \A i \in DOMAIN s : i + 1 \in DOMAIN (<<f>> \o s) /\ (<<f>> \o s)[i + 1] = s[i]
           /\ \A i \in DOMAIN (<<f>> \o s) : i # 1 => i - 1 \in DOMAIN s /\ (<<f>> \o s)[i] = s[i - 1]
<1> DEFINE t == <<f>> \o s
<1>1. /\ t \in Seq(FrameType) /\ Len(t) = Len(s) + 1 /\ t[1] = f
      /\ \A i \in 1 .. Len(s) : t[i + 1] = s[i]
  OBVIOUS
<1>2. /\ DOMAIN t = 1 .. Len(s) + 1 /\ DOMAIN s = 1 .. Len(s) /\ Len(s) \in Nat
  BY <1>1
<1> HIDE DEF t
<1>3. \A i \in DOMAIN s : i + 1 \in DOMAIN t /\ t[i + 1] = s[i]
  BY <1>1, <1>2
<1>4. ASSUME NEW i \in DOMAIN t, i # 1 PROVE i - 1 \in DOMAIN s /\ t[i] = s[i - 1]
  <2>1. i - 1 \in 1 .. Len(s) /\ i = (i - 1) + 1
    BY <1>2, <1>4
  <2> QED
    BY <2>1, <1>1, <1>2
<1>5. 1 \in DOMAIN t
  BY <1>2
<1>6. On(t) = {f.list} \cup On(s)
  <2>1. On(t) \subseteq {f.list} \cup On(s)
    BY <1>1, <1>4 DEF On
  <2>2. On(s) \subseteq On(t) /\ f.list \in On(t)
    BY <1>1, <1>3, <1>5 DEF On
  <2> QED
    BY <2>1, <2>2
<1> QED
  BY <1>1, <1>2, <1>3, <1>4, <1>6 DEF t

LEMMA OnSlots == ASSUME NEW s \in Seq(FrameType) PROVE On(s) \subseteq Slot
<1>1. \A i \in DOMAIN s : s[i] \in FrameType
  OBVIOUS
<1> QED
  BY <1>1 DEF On, FrameType, Slot

\* All lists that are being called were made.
Steady(ls, frames) == \A l \in On(frames) : Began(ls[l])

\* The innermost call of a list, and those around it.
Innermost(ls, f, rest) ==
    /\ f \in FrameType /\ rest \in Seq(FrameType) /\ f.list \in Slot
    /\ Once(rest) /\ Steady(ls, rest) /\ f.list \notin On(rest)
    /\ Began(ls[f.list]) \/ ~ f.page
    /\ \A l \in Slot : ls[l].firing <=> l = f.list \/ l \in On(rest)

LEMMA RunsOn ==
    ASSUME NEW ls, NEW f, NEW rest, Innermost(ls, f, rest)
    PROVE  <<f>> \o rest \in Seq(FrameType) /\ Running(ls, <<f>> \o rest)
<1>1. PICK t : t = <<f>> \o rest
  OBVIOUS
<1>2. f \in FrameType /\ rest \in Seq(FrameType)
  BY DEF Innermost
<1>3. /\ t \in Seq(FrameType) /\ On(t) = {f.list} \cup On(rest) /\ t[1] = f
      /\ \A i \in DOMAIN t : i \in Nat /\ (i # 1 => i - 1 \in DOMAIN rest /\ t[i] = rest[i - 1])
  BY <1>1, <1>2, FramesPushed
<1>4. \A i \in DOMAIN rest : rest[i].list \in On(rest)
  BY DEF On
<1>5. Once(t)
  <2> SUFFICES ASSUME NEW i \in DOMAIN t, NEW j \in DOMAIN t, t[i].list = t[j].list PROVE i = j
    BY DEF Once
  <2>1. CASE i = 1
    BY <2>1, <1>3, <1>4 DEF Innermost
  <2>2. CASE j = 1
    BY <2>2, <1>3, <1>4 DEF Innermost
  <2>3. CASE i # 1 /\ j # 1
    <3>1. i - 1 = j - 1
      BY <2>3, <1>3 DEF Innermost, Once
    <3> QED
      BY <3>1, <1>3
  <2> QED
    BY <2>1, <2>2, <2>3
<1>6. \A i \in DOMAIN t : Began(ls[t[i].list]) \/ (i = 1 /\ ~ t[i].page)
  BY <1>3, <1>4 DEF Innermost, Steady
<1>7. \A l \in Slot : ls[l].firing <=> l \in On(t)
  BY <1>3 DEF Innermost
<1> QED
  BY <1>1, <1>3, <1>5, <1>6, <1>7 DEF Running

LEMMA RunsFrom ==
    ASSUME NEW ls, NEW frames \in Seq(FrameType), frames # <<>>, Running(ls, frames)
    PROVE  Innermost(ls, Head(frames), Tail(frames)) /\ frames = <<Head(frames)>> \o Tail(frames)
<1>1. PICK f \in FrameType : f = Head(frames)
  OBVIOUS
<1>2. PICK rest \in Seq(FrameType) : rest = Tail(frames)
  BY TailIs
<1>3. frames = <<f>> \o rest
  BY <1>1, <1>2
<1>4. /\ On(frames) = {f.list} \cup On(rest) /\ frames[1] = f /\ 1 \in DOMAIN frames
      /\ \A i \in DOMAIN rest : i \in Nat /\ i > 0 /\ i + 1 \in DOMAIN frames /\ frames[i + 1] = rest[i]
  BY <1>3, FramesPushed
<1>5. Once(rest)
  <2> SUFFICES ASSUME NEW i \in DOMAIN rest, NEW j \in DOMAIN rest, rest[i].list = rest[j].list PROVE i = j
    BY DEF Once
  <2>1. i + 1 = j + 1
    BY <1>4 DEF Running, Once
  <2> QED
    BY <2>1, <1>4
<1>6. f.list \notin On(rest)
  <2> SUFFICES ASSUME NEW i \in DOMAIN rest, rest[i].list = f.list PROVE FALSE
    BY DEF On
  <2>1. i + 1 = 1
    BY <1>4 DEF Running, Once
  <2> QED
    BY <2>1, <1>4
<1>7. \A i \in DOMAIN rest : Began(ls[rest[i].list])
  <2> SUFFICES ASSUME NEW i \in DOMAIN rest PROVE Began(ls[rest[i].list])
    OBVIOUS
  <2>1. i + 1 \in DOMAIN frames /\ i + 1 # 1 /\ frames[i + 1] = rest[i]
    BY <1>4
  <2> QED
    BY <2>1 DEF Running
<1>8. Steady(ls, rest)
  BY <1>7 DEF Steady, On
<1>9. Began(ls[f.list]) \/ ~ f.page
  BY <1>4 DEF Running
<1>10. f.list \in Slot
  BY DEF FrameType, Slot
<1>11. \A l \in Slot : ls[l].firing <=> l = f.list \/ l \in On(rest)
  BY <1>4 DEF Running
<1> QED
  BY <1>1, <1>2, <1>3, <1>5, <1>6, <1>8, <1>9, <1>10, <1>11 DEF Innermost

\* Nothing is being called, or the page is in the middle of it.
LEMMA SteadyUnderPage ==
    ASSUME NEW ls, NEW frames \in Seq(FrameType), Running(ls, frames), frames = <<>> \/ Head(frames).page
    PROVE  Steady(ls, frames)
<1>1. CASE frames = <<>>
  BY <1>1 DEF Steady, On
<1>2. CASE frames # <<>>
  <2>1. Innermost(ls, Head(frames), Tail(frames)) /\ frames = <<Head(frames)>> \o Tail(frames)
    BY <1>2, RunsFrom
  <2>2. Head(frames) \in FrameType /\ Tail(frames) \in Seq(FrameType)
    BY <2>1 DEF Innermost
  <2>4. On(<<Head(frames)>> \o Tail(frames)) = {Head(frames).list} \cup On(Tail(frames))
    BY <2>2, FramesPushed
  <2>3. On(frames) = {Head(frames).list} \cup On(Tail(frames))
    BY <2>1, <2>4
  <2> QED
    BY <2>1, <2>3, <1>2 DEF Innermost, Steady
<1> QED
  BY <1>1, <1>2

\* What is being called still is, whatever else happens to the lists.
LEMMA StillRuns ==
    ASSUME NEW ls, NEW frames, Running(ls, frames), Steady(ls, frames), NEW then,
           \A l \in Slot : then[l].firing <=> ls[l].firing,
           \A l \in On(frames) : Began(then[l])
    PROVE  Running(then, frames)
<1>1. \A i \in DOMAIN frames : frames[i].list \in On(frames)
  BY DEF On
<1> QED
  BY <1>1 DEF Running

\* The list that is called innermost changes.
LEMMA InnermostChanges ==
    ASSUME NEW ls, NEW f, NEW rest, Innermost(ls, f, rest), NEW then,
           \A l \in Slot : l # f.list => then[l].firing = ls[l].firing /\ (Began(ls[l]) => Began(then[l])),
           then[f.list].firing, Began(then[f.list]) \/ ~ f.page
    PROVE  Innermost(then, f, rest)
<1>1. On(rest) \subseteq Slot
  BY OnSlots DEF Innermost
<1> QED
  BY <1>1 DEF Innermost, Steady

-----------------------------------------------------------------------------
(* Changes of one list, and of one with its other side. *)

LEMMA PairedTurned == ASSUME NEW s, NEW t, Paired(s, t) PROVE Paired(t, s)
BY DEF Paired

LEMMA OneChanges ==
    ASSUME NEW ls, NEW frames, NEW mk, NEW past, NEW thrown, World(ls, frames, mk, past, thrown),
           NEW l \in Slot, NEW t, NEW now \in Seq(FrameType), NEW more \in Seq(Slot),
           NEW gone, gone \subseteq DOMAIN more,
           ListOK(t, l, more, gone, thrown), Paired(t, ls[Opposite(l)]),
           \A k \in Slot : k # l => ListOK(ls[k], k, more, gone, thrown),
           NEW then, then = [ls EXCEPT ![l] = t], Running(then, now)
    PROVE  World(then, now, more, gone, thrown)
<1>1. ls \in [Slot -> ListType] /\ \A k \in Slot : Paired(ls[k], ls[Opposite(k)])
  BY DEF World
<1>2. then[l] = t /\ \A k \in Slot : k # l => then[k] = ls[k]
  BY <1>1
<1>3. then \in [Slot -> ListType]
  BY <1>1 DEF ListOK
<1>4. \A k \in Slot : ListOK(then[k], k, more, gone, thrown)
  BY <1>2
<1>5. \A k \in Slot : Paired(then[k], then[Opposite(k)])
  <2> SUFFICES ASSUME NEW k \in Slot PROVE Paired(then[k], then[Opposite(k)])
    OBVIOUS
  <2>1. CASE k = l
    BY <2>1, <1>2, Slots
  <2>2. CASE Opposite(k) = l
    <3>1. k = Opposite(l) /\ k # l
      BY <2>2, Slots
    <3> QED
      BY <2>2, <3>1, <1>2, PairedTurned
  <2>3. CASE k # l /\ Opposite(k) # l
    BY <2>3, <1>1, <1>2, Slots
  <2> QED
    BY <2>1, <2>2, <2>3
<1> QED
  BY <1>3, <1>4, <1>5 DEF World

\* The list begins to be called, if it is to be.
Fire(s) == [s EXCEPT !.firing = TRUE]

LEMMA FireIs ==
    ASSUME NEW s \in ListType
    PROVE  /\ Fire(s) \in ListType /\ Fire(s).firing = TRUE
           /\ Fire(s).callbacks = s.callbacks /\ Fire(s).fired = s.fired /\ Fire(s).cancelled = s.cancelled
           /\ \A kind : Has(Fire(s), kind) <=> Has(s, kind)
BY DEF Fire, ListType, Has

LEMMA FiresWaiting ==
    ASSUME NEW s \in ListType, Waits(s), NEW l, NEW mk, NEW past, NEW thrown, ListOK(s, l, mk, past, thrown)
    PROVE  ListOK(Fire(s), l, mk, past, thrown) /\ Waits(Fire(s))
<1> DEFINE t == Fire(s)
<1>1. /\ t \in ListType /\ t.firing = TRUE /\ t.callbacks = s.callbacks /\ t.fired = s.fired
      /\ t.cancelled = s.cancelled
  BY FireIs
<1> HIDE DEF t
<1>2. Waits(t)
  BY <1>1 DEF Waits
<1>3. Began(s) => Began(t)
  BY <1>1 DEF Began, Has
<1>4. InTurn(t, l, mk, past)
  BY <1>1, <1>3 DEF ListOK, InTurn, Page
<1>5. Emptied(t)
  BY <1>1 DEF Emptied
<1> QED
  BY <1>1, <1>2, <1>4, <1>5 DEF ListOK, Waits, t

\* What resolveWith does to a list.
Resolution(ls, then, l) ==
    /\ \A k \in Slot : k # l => then[k] = ls[k]
    /\ \/ then[l] = ls[l] /\ (ls[l].cancelled \/ Resolved(ls[l]))
       \/ then[l] = Fire(ls[l]) /\ Waits(ls[l]) /\ ~ ls[l].firing

LEMMA Resolves ==
    ASSUME NEW ls, NEW frames, NEW mk, NEW past, NEW thrown, World(ls, frames, mk, past, thrown),
           Steady(ls, frames), NEW l \in Slot, NEW then, NEW now,
           \/ (ls[l].cancelled \/ ls[l].fired \/ ls[l].firing) /\ then = ls /\ now = frames
           \/ /\ ~ (ls[l].cancelled \/ ls[l].fired \/ ls[l].firing)
              /\ then = [ls EXCEPT ![l].firing = TRUE]
              /\ now = <<[list |-> l, page |-> FALSE]>> \o frames
    PROVE  World(then, now, mk, past, thrown) /\ Resolution(ls, then, l)
<1>1. /\ ls \in [Slot -> ListType] /\ frames \in Seq(FrameType) /\ mk \in Seq(Slot) /\ past \subseteq DOMAIN mk
      /\ Running(ls, frames) /\ Opposite(l) \in Slot /\ Opposite(l) # l
      /\ Paired(ls[l], ls[Opposite(l)]) /\ \A k \in Slot : ListOK(ls[k], k, mk, past, thrown)
  BY Slots DEF World
<1>2. CASE ls[l].cancelled \/ ls[l].fired \/ ls[l].firing
  <2>1. then = ls /\ now = frames
    BY <1>2
  <2> QED
    BY <2>1, <1>2 DEF Resolution, Resolved
<1>3. CASE ~ (ls[l].cancelled \/ ls[l].fired \/ ls[l].firing)
  <2>1. then = [ls EXCEPT ![l] = Fire(ls[l])] /\ now = <<[list |-> l, page |-> FALSE]>> \o frames
    BY <1>3 DEF Fire
  <2>2. Waits(ls[l]) /\ Waits(ls[Opposite(l)])
    BY <1>1, <1>3 DEF Paired, Began, Dropped, Waits, Has
  <2>3. ls[l] \in ListType
    BY <1>1
  <2>4. ListOK(Fire(ls[l]), l, mk, past, thrown) /\ Waits(Fire(ls[l]))
    BY <1>1, <2>2, <2>3, FiresWaiting
  <2>5. Paired(Fire(ls[l]), ls[Opposite(l)])
    BY <2>2, <2>4 DEF Paired
  <2>6. PICK f : f = [list |-> l, page |-> FALSE]
    OBVIOUS
  <2>7. f \in FrameType /\ f.list = l /\ ~ f.page
    BY <2>6 DEF FrameType, Slot
  <2>8. \A k \in Slot : k # l => then[k] = ls[k]
    BY <2>1, <1>1
  <2>9. then[l] = Fire(ls[l]) /\ then[l].firing
    BY <2>1, <1>1, <2>3, FireIs
  <2>10. l \notin On(frames) /\ \A k \in Slot : ls[k].firing <=> k \in On(frames)
    BY <1>1, <1>3 DEF Running
  <2>11. On(frames) \subseteq Slot
    BY <1>1, OnSlots
  <2>12. Innermost(then, f, frames)
    <3>1. Steady(then, frames)
      BY <2>8, <2>10, <2>11 DEF Steady
    <3>2. Once(frames)
      BY <1>1 DEF Running
    <3>3. \A k \in Slot : then[k].firing <=> k = f.list \/ k \in On(frames)
      BY <2>7, <2>8, <2>9, <2>10
    <3> QED
      BY <1>1, <2>7, <2>10, <3>1, <3>2, <3>3 DEF Innermost
  <2>13. now \in Seq(FrameType) /\ Running(then, now)
    BY <2>1, <2>6, <2>12, RunsOn
  <2>14. World(then, now, mk, past, thrown)
    BY <1>1, <2>1, <2>4, <2>5, <2>13, OneChanges
  <2> QED
    BY <2>14, <2>8, <2>9, <2>2, <1>3 DEF Resolution
<1> QED
  BY <1>2, <1>3

\* What done() or fail() makes of a list that was not dropped.
Gain(s, c) == [s EXCEPT !.callbacks = Append(@, c), !.fired = FALSE, !.firing = s.fired \/ s.firing]

LEMMA GainIs ==
    ASSUME NEW s \in ListType, NEW c \in CallbackType
    PROVE  /\ Puts(s, c, Gain(s, c)) /\ Gain(s, c).fired = FALSE
           /\ Gain(s, c).firing <=> (s.fired \/ s.firing)
<1>0. s.callbacks \in Seq(CallbackType)
  BY DEF ListType
<1>1. PICK cs \in Seq(CallbackType) : cs = Append(s.callbacks, c)
  BY <1>0, AppendIs
<1>2. PICK b \in BOOLEAN : b = (s.fired \/ s.firing)
  OBVIOUS
<1>3. b \in BOOLEAN
  OBVIOUS
<1>4. Gain(s, c) = [s EXCEPT !.callbacks = cs, !.fired = FALSE, !.firing = b]
  BY <1>1, <1>2 DEF Gain
<1>5. [s EXCEPT !.callbacks = cs, !.fired = FALSE, !.firing = b] \in ListType
  BY <1>3 DEF ListType
<1>6. /\ Gain(s, c).callbacks = cs /\ Gain(s, c).fired = FALSE /\ Gain(s, c).firing = b
      /\ Gain(s, c).cancelled = s.cancelled
  BY <1>4 DEF ListType
<1> QED
  BY <1>1, <1>2, <1>4, <1>5, <1>6 DEF Puts

LEMMA GainPaired ==
    ASSUME NEW s \in ListType, NEW c \in CallbackType, c.kind # "cancel", ~ s.cancelled,
           NEW o, Paired(s, o)
    PROVE  /\ Paired(Gain(s, c), o)
           /\ Began(s) => Began(Gain(s, c)) /\ Gain(s, c).firing
           /\ Waits(s) => Waits(Gain(s, c))
<1>1. PICK t : t = Gain(s, c)
  OBVIOUS
<1>2. /\ Puts(s, c, t) /\ t.fired = FALSE /\ (t.firing <=> s.fired \/ s.firing)
      /\ t.cancelled = s.cancelled
  BY <1>1, GainIs DEF Puts
<1>3. s.callbacks \in Seq(CallbackType) /\ t.callbacks = Append(s.callbacks, c)
  BY <1>2 DEF Puts, ListType
<1>4. Began(s) => Began(t) /\ t.firing
  <2>1. Has(t, "cancel") => Has(s, "cancel")
    BY <1>2, PutsHas
  <2> QED
    BY <2>1, <1>2 DEF Began
<1>5. Waits(s) => Waits(t)
  <2> SUFFICES ASSUME Waits(s) PROVE Waits(t)
    OBVIOUS
  <2>1. /\ t.callbacks # <<>>
        /\ \A i \in DOMAIN s.callbacks : t.callbacks[i] = s.callbacks[i]
        /\ \A i \in DOMAIN t.callbacks : t.callbacks[i] = c \/ i \in DOMAIN s.callbacks
    BY <1>3, AppendIs
  <2>2. 1 \in DOMAIN s.callbacks
    BY <1>3 DEF Waits
  <2> QED
    BY <2>1, <2>2, <1>2 DEF Waits
<1> QED
  BY <1>1, <1>4, <1>5 DEF Paired, Dropped

LEMMA GainOK ==
    ASSUME NEW s \in ListType, NEW c \in CallbackType, c.kind # "cancel", ~ s.cancelled,
           NEW o, Paired(s, o), NEW l \in Slot, NEW mk \in Seq(Slot), NEW past, past \subseteq DOMAIN mk,
           NEW thrown, ListOK(s, l, mk, past, thrown), NEW more,
           \/ c.kind = "page" /\ c.n = Len(mk) + 1 /\ more = Append(mk, l)
           \/ c.kind # "page" /\ more = mk
    PROVE  ListOK(Gain(s, c), l, more, past, thrown)
<1>1. PICK t : t = Gain(s, c)
  OBVIOUS
<1>2. /\ Puts(s, c, t) /\ t.fired = FALSE /\ (t.firing <=> s.fired \/ s.firing) /\ t \in ListType
  BY <1>1, GainIs DEF Puts
<1>3. (Began(s) => Began(t) /\ t.firing) /\ (Waits(s) => Waits(t))
  BY <1>1, GainPaired
<1>4. InTurn(s, l, mk, past)
  BY DEF ListOK
<1>5. InTurn(t, l, more, past)
  <2>1. CASE c.kind = "page" /\ c.n = Len(mk) + 1 /\ more = Append(mk, l)
    BY <2>1, <1>2, <1>3, <1>4, PutsInTurn
  <2>2. CASE c.kind # "page" /\ more = mk
    BY <2>2, <1>2, <1>3, <1>4, OthersPutInTurn
  <2> QED
    BY <2>1, <2>2
<1>6. Emptied(t)
  <2>1. CASE Began(s)
    BY <2>1, <1>3 DEF Emptied
  <2>2. CASE Waits(s)
    <3>1. Waits(t)
      BY <2>2, <1>3
    <3>2. t.callbacks \in Seq(CallbackType) /\ t.callbacks # <<>>
      BY <3>1, <1>2 DEF Waits, ListType
    <3>3. Has(t, "cancel")
      BY <3>1, <3>2, TailIs DEF Waits, Has
    <3> QED
      BY <3>3 DEF Emptied, Began
  <2> QED
    BY <2>1, <2>2 DEF Paired, Dropped
<1> QED
  BY <1>1, <1>2, <1>5, <1>6 DEF ListOK

\* What addTo does to a list, or has it do.
Addition(ls, then, l, c) ==
    /\ \A k \in Slot : k # l => then[k] = ls[k]
    /\ IF ls[l].cancelled THEN then[l] = ls[l]
       ELSE then[l] = Gain(ls[l], c) /\ Puts(ls[l], c, then[l])
    /\ Began(ls[l]) => Began(then[l])
    /\ Resolved(then[l]) <=> Resolved(ls[l])

Added(ls, frames, l, c, then, now) ==
    \/ ls[l].cancelled /\ then = ls /\ now = frames
    \/ /\ ~ ls[l].cancelled /\ ls[l].fired /\ then = [ls EXCEPT ![l] = Gain(ls[l], c)]
       /\ now = <<[list |-> l, page |-> FALSE]>> \o frames
    \/ ~ ls[l].cancelled /\ ~ ls[l].fired /\ then = [ls EXCEPT ![l] = Gain(ls[l], c)] /\ now = frames

\* Only the callbacks of the page are numbered.
Makes(mk, l, c, more) ==
    \/ c.kind = "page" /\ c.n = Len(mk) + 1 /\ more = Append(mk, l)
    \/ c.kind # "page" /\ more = mk

LEMMA Adds ==
    ASSUME NEW ls, NEW frames, NEW mk, NEW past, NEW thrown, World(ls, frames, mk, past, thrown),
           Steady(ls, frames), NEW l \in Slot, NEW c \in CallbackType, c.kind # "cancel", NEW then, NEW now,
           Added(ls, frames, l, c, then, now), NEW more, Makes(mk, l, c, more)
    PROVE  World(then, now, more, past, thrown) /\ Addition(ls, then, l, c)
<1> USE DEF Added, Makes
<1>1. /\ ls \in [Slot -> ListType] /\ frames \in Seq(FrameType) /\ mk \in Seq(Slot) /\ past \subseteq DOMAIN mk
      /\ Running(ls, frames) /\ Opposite(l) \in Slot /\ Opposite(l) # l
      /\ Paired(ls[l], ls[Opposite(l)]) /\ \A k \in Slot : ListOK(ls[k], k, mk, past, thrown)
  BY Slots DEF World
<1>2. more \in Seq(Slot) /\ past \subseteq DOMAIN more /\ \A n \in past : more[n] = mk[n]
  <2>1. /\ Append(mk, l) \in Seq(Slot)
        /\ \A n \in DOMAIN mk : n \in DOMAIN Append(mk, l) /\ Append(mk, l)[n] = mk[n]
    BY <1>1, AppendIs
  <2> QED
    BY <1>1, <2>1
<1>3. ASSUME NEW k \in Slot, k # l PROVE ListOK(ls[k], k, more, past, thrown)
  <2>1. CASE more = mk
    BY <2>1, <1>1
  <2>2. CASE more = Append(mk, l)
    <3>1. InTurn(ls[k], k, mk, past)
      BY <1>1 DEF ListOK
    <3>2. InTurn(ls[k], k, more, past)
      BY <2>2, <3>1, <1>1, <1>3, MadeElsewhere
    <3> QED
      BY <3>2, <1>1 DEF ListOK
  <2> QED
    BY <2>1, <2>2
<1>4. CASE ls[l].cancelled
  <2>1. then = ls /\ now = frames /\ then = [ls EXCEPT ![l] = ls[l]]
    BY <1>1, <1>4
  <2>2. Dropped(ls[l])
    BY <1>1, <1>4 DEF Paired, Waits, Began
  <2>3. ListOK(ls[l], l, more, past, thrown)
    <3>1. \A n \in past : mk[n] # l
      BY <1>1, <1>4 DEF ListOK, InTurn, Began
    <3>2. \A n \in past : more[n] # l
      BY <1>2, <3>1
    <3>3. InTurn(ls[l], l, more, past)
      BY <2>2, <3>2, <1>4 DEF InTurn, Dropped
    <3> QED
      BY <3>3, <1>1 DEF ListOK
  <2>4. World(then, now, more, past, thrown)
    <3>1. Running(then, now) /\ now \in Seq(FrameType)
      BY <1>1, <2>1
    <3>2. Paired(ls[l], ls[Opposite(l)]) /\ \A k \in Slot : k # l => ListOK(ls[k], k, more, past, thrown)
      BY <1>1, <1>3
    <3> QED
      BY ONLY World(ls, frames, mk, past, thrown), l \in Slot,
              <1>2, <2>1, <2>3, <3>1, <3>2, OneChanges
  <2> QED
    BY <2>1, <2>4, <1>4 DEF Addition
<1>5. CASE ~ ls[l].cancelled
  <2>1. then = [ls EXCEPT ![l] = Gain(ls[l], c)]
    BY <1>5
  <2>2. ls[l] \in ListType
    BY <1>1
  <2>3. /\ Puts(ls[l], c, then[l]) /\ then[l] = Gain(ls[l], c) /\ then[l].fired = FALSE
        /\ then[l].firing <=> (ls[l].fired \/ ls[l].firing)
    BY <2>1, <2>2, <1>1, GainIs
  <2>4. \A k \in Slot : k # l => then[k] = ls[k]
    BY <2>1, <1>1
  <2>5. /\ Paired(Gain(ls[l], c), ls[Opposite(l)]) /\ (Began(ls[l]) => Began(then[l]) /\ then[l].firing)
    BY <1>1, <1>5, <2>2, <2>3, GainPaired
  <2>6. ListOK(Gain(ls[l], c), l, more, past, thrown)
    BY <1>1, <1>5, <2>2, GainOK
  <2>7. now \in Seq(FrameType) /\ Running(then, now)
    <3>1. On(frames) \subseteq Slot /\ Once(frames) /\ \A k \in Slot : ls[k].firing <=> k \in On(frames)
      BY <1>1, OnSlots DEF Running
    <3>2. \A k \in On(frames) : Began(then[k])
      BY <3>1, <2>4, <2>5 DEF Steady
    <3>3. CASE ls[l].fired
      <4>1. now = <<[list |-> l, page |-> FALSE]>> \o frames
        BY <1>5, <3>3
      <4>2. PICK f : f = [list |-> l, page |-> FALSE]
        OBVIOUS
      <4>3. f \in FrameType /\ f.list = l /\ ~ f.page
        BY <4>2 DEF FrameType, Slot
      <4>4. ~ ls[l].firing /\ then[l].firing
        BY <1>1, <2>3, <3>3 DEF ListOK
      <4>5. Innermost(then, f, frames)
        <5>1. \A k \in Slot : then[k].firing <=> k = f.list \/ k \in On(frames)
          BY <2>4, <3>1, <4>3, <4>4
        <5> QED
          BY <1>1, <3>1, <3>2, <4>3, <4>4, <5>1 DEF Innermost, Steady
      <4> QED
        BY <4>1, <4>2, <4>5, RunsOn
    <3>4. CASE ~ ls[l].fired
      <4>1. now = frames
        BY <1>5, <3>4
      <4>2. \A k \in Slot : then[k].firing <=> ls[k].firing
        BY <2>3, <2>4, <3>4
      <4> QED
        BY <1>1, <3>2, <4>1, <4>2, StillRuns
    <3> QED
      BY <3>3, <3>4
  <2>8. World(then, now, more, past, thrown)
    BY <1>1, <1>2, <1>3, <2>1, <2>5, <2>6, <2>7, OneChanges
  <2> QED
    BY <1>5, <2>3, <2>4, <2>5, <2>8 DEF Addition, Resolved
<1> QED
  BY <1>4, <1>5

-----------------------------------------------------------------------------
(* What when() waits for. *)

\* A change of a list that does not disturb when().
Calm(s, t) ==
    /\ \A kind \in {"count", "reject"} : Has(t, kind) => Has(s, kind)
    /\ OneCount(s) => OneCount(t)
    /\ Began(s) => Began(t)
    /\ t.cancelled \/ (~ s.cancelled /\ \A kind \in {"count", "reject"} : Has(s, kind) => Has(t, kind))
    /\ Resolved(s) => Resolved(t)

LEMMA CalmSame == ASSUME NEW s PROVE Calm(s, s)
BY DEF Calm

LEMMA GivenAre ==
    /\ Given \in Nat /\ Given > 1 /\ Master = Given + 1 /\ 0 \in 0 .. 2 * Given
    /\ \A d \in 1 .. Given : d \in Nat /\ d \in Deferred /\ d # Master
    /\ Master \in Deferred
    /\ \A d \in Deferred : d # Master => d \in 1 .. Given
BY DeferredsAssumption DEF Deferred, Master

LEMMA CalmAwaits ==
    ASSUME NEW ls, NEW att, NEW n, NEW thrown, Awaits(ls, att, n, thrown),
           NEW then, \A l \in Slot : Calm(ls[l], then[l]),
           \A side \in Side : Resolved(then[<<Master, side>>]) => Resolved(ls[<<Master, side>>]),
           NEW beyond \in 0 .. 2 * Given, att <= beyond, NEW broken, thrown => broken, broken \/ beyond = att
    PROVE  Awaits(then, beyond, n, broken)
<1>1. /\ \A d \in 1 .. Given : <<d, "done">> \in Slot /\ <<d, "fail">> \in Slot
      /\ <<Master, "done">> \in Slot /\ <<Master, "fail">> \in Slot
      /\ att \in Nat /\ beyond \in Nat
  BY GivenAre, Slots DEF Awaits, Side
<1>2. \A l \in Slot : Placed(then[l], l, beyond)
  <2> SUFFICES ASSUME NEW l \in Slot PROVE Placed(then[l], l, beyond)
    OBVIOUS
  <2>1. Placed(ls[l], l, att) /\ Calm(ls[l], then[l])
    BY DEF Awaits
  <2>2. l[1] \in 1 .. Given /\ att > 2 * (Given - l[1]) => beyond > 2 * (Given - l[1])
    BY <1>1, GivenAre
  <2> QED
    BY <2>1, <2>2 DEF Placed, Calm
<1>3. PICK W \in SUBSET (1 .. Given) : CountedAre(ls, att, n, thrown, W)
  BY DEF Awaits
<1>4. CountedAre(then, beyond, n, broken, W)
  <2>1. ASSUME NEW d \in W PROVE Counted(then[<<d, "done">>], d, beyond)
    <3>1. Counted(ls[<<d, "done">>], d, att) /\ Calm(ls[<<d, "done">>], then[<<d, "done">>])
      BY <1>1, <1>3 DEF CountedAre
    <3>2. beyond > 2 * (Given - d)
      BY <3>1, <1>1, GivenAre DEF Counted
    <3> QED
      BY <3>1, <3>2 DEF Counted, Calm
  <2>2. ASSUME ~ broken, NEW d \in 1 .. Given, NotOwed(then[<<d, "done">>], d, beyond) PROVE d \in W
    <3>1. NotOwed(ls[<<d, "done">>], d, att)
      BY <1>1, <2>2 DEF NotOwed, Calm
    <3> QED
      BY <3>1, <1>3, <2>2 DEF CountedAre
  <2> QED
    BY <2>1, <2>2, <1>3 DEF CountedAre
<1>5. Settled(ls) => Settled(then)
  BY <1>1 DEF Settled, Calm
<1>6. ASSUME ~ broken, NEW d \in 1 .. Given, NotRejected(then[<<d, "fail">>], d, beyond) PROVE Settled(then)
  <2>1. NotRejected(ls[<<d, "fail">>], d, att)
    BY <1>1, <1>6 DEF NotRejected, Calm
  <2> QED
    BY <2>1, <1>5, <1>6 DEF Awaits
<1>7. (n = 0 => Settled(then)) /\ (Resolved(then[<<Master, "done">>]) => n = 0)
  BY <1>5 DEF Awaits, Side
<1>8. Resolved(then[<<Master, "fail">>]) => \E d \in 1 .. Given : Resolved(then[<<d, "fail">>])
  <2> SUFFICES ASSUME Resolved(then[<<Master, "fail">>]) PROVE \E d \in 1 .. Given : Resolved(then[<<d, "fail">>])
    OBVIOUS
  <2>1. PICK d \in 1 .. Given : Resolved(ls[<<d, "fail">>])
    BY DEF Awaits, Side
  <2> QED
    BY <2>1, <1>1 DEF Calm
<1> QED
  BY <1>2, <1>3, <1>4, <1>6, <1>7, <1>8 DEF Awaits

LEMMA FireCalm ==
    ASSUME NEW s \in ListType PROVE Calm(s, Fire(s))
BY FireIs DEF Calm, OneCount, Began, Resolved

LEMMA ResolutionCalm ==
    ASSUME NEW ls \in [Slot -> ListType], NEW then, NEW l \in Slot, Resolution(ls, then, l)
    PROVE  \A k \in Slot : Calm(ls[k], then[k])
<1> SUFFICES ASSUME NEW k \in Slot PROVE Calm(ls[k], then[k])
  OBVIOUS
<1>1. ls[k] \in ListType
  OBVIOUS
<1> QED
  BY <1>1, FireCalm, CalmSame DEF Resolution

LEMMA PutOneCount ==
    ASSUME NEW s \in ListType, NEW c \in CallbackType, NEW t, Puts(s, c, t), OneCount(s),
           c.kind # "count" \/ ~ Has(s, "count")
    PROVE  OneCount(t)
<1>1. s.callbacks \in Seq(CallbackType)
  BY DEF ListType
<1> DEFINE m == Len(s.callbacks) + 1
<1>2. /\ t.callbacks[m] = c /\ \A i \in DOMAIN t.callbacks : i = m \/ i \in DOMAIN s.callbacks
      /\ \A i \in DOMAIN s.callbacks : t.callbacks[i] = s.callbacks[i]
  BY <1>1, AppendIs DEF Puts
<1> HIDE DEF m
<1> QED
  BY <1>2 DEF OneCount, Has

LEMMA ShiftOneCount ==
    ASSUME NEW s \in ListType, s.callbacks # <<>>, OneCount(s)
    PROVE  /\ OneCount(Shift(s))
           /\ s.callbacks[1].kind = "count" => ~ Has(Shift(s), "count")
<1>1. /\ 1 \in DOMAIN s.callbacks
      /\ \A i \in DOMAIN Shift(s).callbacks :
            i \in Nat /\ i > 0 /\ i + 1 \in DOMAIN s.callbacks /\ Shift(s).callbacks[i] = s.callbacks[i + 1]
  BY ShiftedAre
<1>2. OneCount(Shift(s))
  <2> SUFFICES ASSUME NEW i \in DOMAIN Shift(s).callbacks, NEW j \in DOMAIN Shift(s).callbacks,
                      Shift(s).callbacks[i].kind = "count", Shift(s).callbacks[j].kind = "count"
               PROVE  i = j
    BY DEF OneCount
  <2>1. i + 1 = j + 1
    BY <1>1 DEF OneCount
  <2> QED
    BY <2>1, <1>1
<1>3. ASSUME s.callbacks[1].kind = "count", NEW i \in DOMAIN Shift(s).callbacks, Shift(s).callbacks[i].kind = "count"
      PROVE  FALSE
  <2>1. i + 1 = 1
    BY <1>1, <1>3 DEF OneCount
  <2> QED
    BY <2>1, <1>1
<1> QED
  BY <1>2, <1>3 DEF Has

LEMMA ShiftBegan ==
    ASSUME NEW s \in ListType, s.callbacks # <<>>, Began(s)
    PROVE  Began(Shift(s)) /\ (Resolved(Shift(s)) <=> Resolved(s))
BY ShiftIs, ShiftHas DEF Began, Resolved

LEMMA ShiftCalm ==
    ASSUME NEW s \in ListType, s.callbacks # <<>>, s.callbacks[1].kind \notin {"count", "reject"}, ~ s.cancelled
    PROVE  Calm(s, Shift(s))
<1>1. /\ \A kind \in {"count", "reject"} : Has(Shift(s), kind) <=> Has(s, kind)
      /\ OneCount(s) => OneCount(Shift(s))
      /\ Shift(s).cancelled = s.cancelled /\ (Resolved(s) => Resolved(Shift(s)))
  BY ShiftHas, ShiftOneCount, ShiftIs DEF Resolved
<1>2. Began(s) => Began(Shift(s))
  BY ShiftBegan
<1> QED
  BY <1>1, <1>2 DEF Calm

LEMMA AdditionCalm ==
    ASSUME NEW ls \in [Slot -> ListType], NEW then, NEW l \in Slot, NEW c \in CallbackType, c.kind = "page",
           Addition(ls, then, l, c)
    PROVE  \A k \in Slot : Calm(ls[k], then[k])
<1> SUFFICES ASSUME NEW k \in Slot PROVE Calm(ls[k], then[k])
  OBVIOUS
<1>1. CASE k # l \/ ls[l].cancelled
  <2>1. then[k] = ls[k]
    BY <1>1 DEF Addition
  <2> QED
    BY <2>1, CalmSame
<1>2. CASE k = l /\ ~ ls[l].cancelled
  <2>1. Puts(ls[l], c, then[l]) /\ ls[l] \in ListType /\ then[l].cancelled = ls[l].cancelled
    BY <1>2 DEF Addition, Puts
  <2>2. /\ \A kind \in {"count", "reject"} : Has(then[l], kind) <=> Has(ls[l], kind)
        /\ OneCount(ls[l]) => OneCount(then[l])
    BY <2>1, PutsHas, PutOneCount
  <2> QED
    BY <2>1, <2>2, <1>2 DEF Calm, Addition
<1> QED
  BY <1>1, <1>2

\* A master that is settled one way or cannot be settled this way is settled.
LEMMA MasterSettles ==
    ASSUME NEW ls, NEW frames, NEW mk, NEW past, NEW thrown, World(ls, frames, mk, past, thrown),
           NEW side \in Side, NEW then, Resolution(ls, then, <<Master, side>>)
    PROVE  Settled(then)
<1>1. /\ <<Master, "done">> \in Slot /\ <<Master, "fail">> \in Slot /\ <<Master, side>> \in Slot
      /\ side = "done" \/ side = "fail"
      /\ ls \in [Slot -> ListType]
      /\ Opposite(<<Master, "done">>) = <<Master, "fail">> /\ Opposite(<<Master, "fail">>) = <<Master, "done">>
  BY GivenAre, Slots DEF World, Side
<1>2. CASE ls[<<Master, side>>].cancelled
  <2>1. Began(ls[Opposite(<<Master, side>>)])
    BY <1>1, <1>2 DEF World, Paired, Waits, Began
  <2>2. then[Opposite(<<Master, side>>)] = ls[Opposite(<<Master, side>>)]
    BY <1>1 DEF Resolution
  <2> QED
    BY <2>1, <2>2, <1>1 DEF Began, Settled, Resolved
<1>3. CASE Resolved(ls[<<Master, side>>]) /\ then[<<Master, side>>] = ls[<<Master, side>>]
  BY <1>1, <1>3 DEF Settled
<1>4. CASE then[<<Master, side>>] = Fire(ls[<<Master, side>>])
  <2>1. Resolved(then[<<Master, side>>])
    BY <1>1, <1>4, FireIs DEF Resolved
  <2> QED
    BY <1>1, <2>1 DEF Settled
<1> QED
  BY <1>2, <1>3, <1>4 DEF Resolution

-----------------------------------------------------------------------------
(* The steps of the list that is called innermost. *)

LEMMA InTheList ==
    ASSUME DeferredsInv, calling # <<>>
    PROVE  /\ List \in Slot /\ lists \in [Slot -> ListType] /\ lists[List] \in ListType
           /\ lists[List].firing /\ ~ lists[List].fired /\ ~ lists[List].cancelled
           /\ ListOK(lists[List], List, made, CalledBack, threw)
           /\ Innermost(lists, Head(calling), Tail(calling))
           /\ calling = <<Head(calling)>> \o Tail(calling)
           /\ \/ Waits(lists[List]) /\ Waits(lists[Opposite(List)])
              \/ Began(lists[List]) /\ Dropped(lists[Opposite(List)])
<1>1. /\ calling \in Seq(FrameType) /\ Running(lists, calling) /\ lists \in [Slot -> ListType]
      /\ \A l \in Slot : Paired(lists[l], lists[Opposite(l)]) /\ ListOK(lists[l], l, made, CalledBack, threw)
  BY DEF DeferredsInv, World
<1>2. Innermost(lists, Head(calling), Tail(calling)) /\ calling = <<Head(calling)>> \o Tail(calling)
  BY <1>1, RunsFrom
<1>3. List \in Slot /\ lists[List].firing
  BY <1>2 DEF Innermost, List
<1>4. Paired(lists[List], lists[Opposite(List)]) /\ ListOK(lists[List], List, made, CalledBack, threw)
  BY <1>1, <1>3
<1>5. ~ lists[List].fired
  BY <1>3, <1>4 DEF ListOK
<1>6. ~ Dropped(lists[List])
  BY <1>3 DEF Dropped
<1>7. lists[List] \in ListType
  BY <1>1, <1>3
<1>8. \/ Waits(lists[List]) /\ Waits(lists[Opposite(List)])
      \/ Began(lists[List]) /\ Dropped(lists[Opposite(List)])
  BY <1>4, <1>6 DEF Paired
<1>9. ~ lists[List].cancelled
  BY <1>8 DEF Waits, Began
<1> QED
  BY <1>1, <1>2, <1>3, <1>4, <1>5, <1>7, <1>8, <1>9

LEMMA FirstIs ==
    ASSUME DeferredsInv, CallNext
    PROVE  /\ First = lists[List].callbacks[1] /\ First \in CallbackType
           /\ Shifted = [lists EXCEPT ![List] = Shift(lists[List])]
           /\ Shift(lists[List]) \in ListType
           /\ First.kind # "cancel" => Began(lists[List]) /\ Dropped(lists[Opposite(List)])
           /\ First.kind = "cancel" => Waits(lists[List]) /\ Waits(lists[Opposite(List)])
<1>1. calling # <<>> /\ lists[List].callbacks # <<>>
  BY DEF CallNext, Calls
<1>2. lists[List] \in ListType /\ List \in Slot /\ lists \in [Slot -> ListType]
  BY <1>1, InTheList
<1>3. lists[List].callbacks \in Seq(CallbackType)
  BY <1>2 DEF ListType
<1>4. First = lists[List].callbacks[1] /\ 1 \in DOMAIN lists[List].callbacks
  BY <1>1, <1>3, TailIs DEF First
<1>5. First \in CallbackType
  BY <1>3, <1>4
<1>6. Shifted = [lists EXCEPT ![List] = Shift(lists[List])]
  BY <1>2 DEF Shifted, Shift
<1>7. Shift(lists[List]) \in ListType
  BY <1>1, <1>2, ShiftIs
<1>8. First.kind # "cancel" => ~ Waits(lists[List])
  BY <1>4 DEF Waits
<1>9. First.kind = "cancel" => ~ Began(lists[List])
  BY <1>4 DEF Began, Has
<1> QED
  BY <1>1, <1>4, <1>5, <1>6, <1>7, <1>8, <1>9, InTheList

\* The first callback, not one of the page, is off the list.
LEMMA FirstGoes ==
    ASSUME DeferredsInv, CallNext, First.kind \in {"count", "reject"}
    PROVE  /\ World(Shifted, calling, made, CalledBack, threw) /\ Steady(Shifted, calling)
           /\ Shifted[List] = Shift(lists[List]) /\ \A k \in Slot : k # List => Shifted[k] = lists[k]
           /\ Began(lists[List]) /\ Began(Shifted[List])
<1>1. calling # <<>> /\ lists[List].callbacks # <<>>
  BY DEF CallNext, Calls
<1>2. /\ List \in Slot /\ lists \in [Slot -> ListType] /\ lists[List] \in ListType
      /\ lists[List].firing /\ ~ lists[List].fired
      /\ ListOK(lists[List], List, made, CalledBack, threw)
      /\ Innermost(lists, Head(calling), Tail(calling)) /\ calling = <<Head(calling)>> \o Tail(calling)
      /\ World(lists, calling, made, CalledBack, threw)
  BY <1>1, InTheList DEF DeferredsInv
<1>3. /\ Shifted = [lists EXCEPT ![List] = Shift(lists[List])]
      /\ lists[List].callbacks[1].kind # "page" /\ Began(lists[List])
  BY FirstIs
<1>4. Dropped(lists[Opposite(List)])
  BY FirstIs
<1>5. Shifted[List] = Shift(lists[List]) /\ \A k \in Slot : k # List => Shifted[k] = lists[k]
  BY <1>2, <1>3
<1>6. /\ Shift(lists[List]) \in ListType /\ Shift(lists[List]).firing = lists[List].firing
      /\ Shift(lists[List]).fired = lists[List].fired
  BY <1>1, <1>2, ShiftIs
<1>7. Began(Shift(lists[List]))
  BY <1>1, <1>2, <1>3, ShiftBegan
<1>8. ListOK(Shift(lists[List]), List, made, CalledBack, threw)
  <2>1. InTurn(Shift(lists[List]), List, made, CalledBack)
    BY <1>1, <1>2, <1>3, ShiftInTurn DEF ListOK
  <2>2. Emptied(Shift(lists[List]))
    BY <1>2, <1>6 DEF Emptied
  <2> QED
    BY <2>1, <2>2, <1>2, <1>6 DEF ListOK
<1>9. Paired(Shift(lists[List]), lists[Opposite(List)])
  BY <1>4, <1>7 DEF Paired
<1>10. Innermost(Shifted, Head(calling), Tail(calling))
  <2>1. Head(calling).list = List
    BY DEF List
  <2> QED
    BY <2>1, <1>2, <1>5, <1>6, <1>7, InnermostChanges
<1>11. Running(Shifted, calling) /\ Steady(Shifted, calling)
  <2>1. Running(Shifted, <<Head(calling)>> \o Tail(calling))
    BY <1>10, RunsOn
  <2>2. On(calling) = {List} \cup On(Tail(calling))
    <3>1. On(<<Head(calling)>> \o Tail(calling)) = {Head(calling).list} \cup On(Tail(calling))
      BY <1>2, FramesPushed DEF Innermost
    <3> QED
      BY <3>1, <1>2 DEF List
  <2>3. Steady(Shifted, Tail(calling))
    BY <1>10 DEF Innermost
  <2> QED
    BY <2>1, <2>2, <2>3, <1>2, <1>5, <1>7 DEF Steady
<1>12. /\ calling \in Seq(FrameType) /\ made \in Seq(Slot) /\ CalledBack \subseteq DOMAIN made
       /\ \A k \in Slot : ListOK(lists[k], k, made, CalledBack, threw)
  BY <1>2 DEF World
<1>13. World(Shifted, calling, made, CalledBack, threw)
  BY <1>2, <1>3, <1>8, <1>9, <1>11, <1>12, OneChanges
<1> QED
  BY <1>3, <1>5, <1>7, <1>11, <1>13

-----------------------------------------------------------------------------
(* The other side is dropped. *)

Drop(s) == [s EXCEPT !.cancelled = TRUE, !.callbacks = <<>>]

LEMMA DropIs ==
    ASSUME NEW s \in ListType, Waits(s), ~ s.firing
    PROVE  /\ Drop(s) \in ListType /\ Dropped(Drop(s)) /\ Calm(s, Drop(s))
           /\ Drop(s).firing = FALSE /\ Drop(s).fired = FALSE
<1>1. /\ Drop(s).cancelled = TRUE /\ Drop(s).callbacks = <<>>
      /\ Drop(s).fired = s.fired /\ Drop(s).firing = s.firing
  BY DEF Drop, ListType
<1>2. Drop(s) \in ListType
  <2>0. <<>> \in Seq(CallbackType)
    OBVIOUS
  <2>1. PICK cs \in Seq(CallbackType) : cs = <<>>
    BY <2>0
  <2>2. Drop(s) = [s EXCEPT !.cancelled = TRUE, !.callbacks = cs]
    BY <2>1 DEF Drop
  <2> QED
    BY <2>2 DEF ListType
<1>3. ~ Resolved(s) /\ ~ Began(s) /\ s.fired = FALSE /\ s.firing = FALSE
  BY DEF Waits, Resolved, Began, ListType
<1>4. \A kind : ~ Has(Drop(s), kind)
  BY <1>1 DEF Has
<1>5. OneCount(Drop(s))
  BY <1>1 DEF OneCount
<1> QED
  BY <1>1, <1>2, <1>3, <1>4, <1>5 DEF Calm, Dropped

LEMMA CancelWorld ==
    ASSUME DeferredsInv, Cancel
    PROVE  World(lists', calling, made, CalledBack, threw) /\ \A l \in Slot : Calm(lists[l], lists'[l])
<1>1. calling # <<>> /\ lists[List].callbacks # <<>> /\ CallNext /\ First.kind = "cancel"
  BY DEF Cancel, CallNext, Calls
<1>2. /\ List \in Slot /\ lists \in [Slot -> ListType] /\ lists[List] \in ListType
      /\ lists[List].firing /\ ~ lists[List].fired /\ ~ lists[List].cancelled
      /\ ListOK(lists[List], List, made, CalledBack, threw)
      /\ Innermost(lists, Head(calling), Tail(calling)) /\ calling = <<Head(calling)>> \o Tail(calling)
      /\ World(lists, calling, made, CalledBack, threw)
  BY <1>1, InTheList DEF DeferredsInv
<1>3. /\ Shifted = [lists EXCEPT ![List] = Shift(lists[List])]
      /\ lists[List].callbacks[1].kind = "cancel"
      /\ Waits(lists[List]) /\ Waits(lists[Opposite(List)])
  BY <1>1, FirstIs
<1>4. PICK k \in Slot : k = Opposite(List) /\ k # List
  BY <1>2, Slots
<1>5. lists[k] \in ListType /\ ListOK(lists[k], k, made, CalledBack, threw)
  BY <1>2, <1>4 DEF World
<1>6. ~ lists[k].firing
  <2>1. k # Head(calling).list
    BY <1>4 DEF List
  <2>2. ~ Began(lists[k])
    <3>1. lists[k].callbacks \in Seq(CallbackType) /\ lists[k].callbacks # <<>> /\ lists[k].callbacks[1].kind = "cancel"
      BY <1>3, <1>4, <1>5 DEF ListType, Waits
    <3>2. Has(lists[k], "cancel")
      BY <3>1, TailIs DEF Has
    <3> QED
      BY <3>2 DEF Began
  <2> QED
    BY <2>1, <2>2, <1>2 DEF Innermost, Steady
<1>7. /\ Drop(lists[k]) \in ListType /\ Dropped(Drop(lists[k])) /\ Calm(lists[k], Drop(lists[k]))
      /\ Drop(lists[k]).firing = FALSE /\ Drop(lists[k]).fired = FALSE
  BY <1>3, <1>4, <1>5, <1>6, DropIs
<1>8. lists' = [lists EXCEPT ![List] = Shift(lists[List]), ![k] = Drop(lists[k])]
  <2>1. k = <<List[1], Other(List[2])>>
    BY <1>4 DEF Opposite
  <2>2. lists' = [Shifted EXCEPT ![k].cancelled = TRUE, ![k].callbacks = <<>>]
    BY <2>1 DEF Cancel
  <2>3. Shifted[k] = lists[k]
    BY <1>2, <1>3, <1>4
  <2>4. lists' = [Shifted EXCEPT ![k] = Drop(Shifted[k])]
    BY <2>2, <1>2, <1>3 DEF Drop
  <2> QED
    BY <2>3, <2>4, <1>3
<1>9. PICK then : then = lists'
  OBVIOUS
<1>10. PICK l \in Slot : l = List
  BY <1>2
<1>11. PICK t : t = Shift(lists[l])
  OBVIOUS
<1>12. /\ then[l] = t /\ then[k] = Drop(lists[k]) /\ \A j \in Slot : j # l /\ j # k => then[j] = lists[j]
       /\ then \in [Slot -> ListType]
  <2>1. t \in ListType
    BY <1>1, <1>2, <1>10, <1>11, ShiftIs
  <2> QED
    BY <1>2, <1>4, <1>7, <1>8, <1>9, <1>10, <1>11, <2>1
<1>13. t \in ListType /\ t.firing /\ ~ t.fired /\ ~ t.cancelled
  BY <1>1, <1>2, <1>10, <1>11, ShiftIs
<1>14. Began(t)
  <2>1. ~ Has(t, "cancel")
    <3>1. \A i \in DOMAIN t.callbacks : /\ i \in Nat /\ i > 0 /\ i + 1 \in DOMAIN lists[l].callbacks
                                        /\ t.callbacks[i] = lists[l].callbacks[i + 1]
      BY <1>1, <1>2, <1>10, <1>11, ShiftedAre
    <3>2. \A i \in DOMAIN lists[l].callbacks : i > 1 => lists[l].callbacks[i].kind # "cancel"
      BY <1>3, <1>10 DEF Waits
    <3> QED
      BY <3>1, <3>2 DEF Has
  <2> QED
    BY <2>1, <1>13 DEF Began
<1>15. ListOK(t, l, made, CalledBack, threw)
  <2>1. InTurn(t, l, made, CalledBack)
    <3>1. lists[l].callbacks[1].kind # "page"
      BY <1>3, <1>10
    <3> QED
      BY <3>1, <1>1, <1>2, <1>10, <1>11, ShiftInTurn DEF ListOK
  <2> QED
    BY <2>1, <1>13 DEF ListOK, Emptied
<1>16. ListOK(then[k], k, made, CalledBack, threw)
  <2>1. ~ Began(lists[k])
    BY <1>3, <1>4, <1>6 DEF Began, Waits
  <2>2. InTurn(then[k], k, made, CalledBack)
    BY <2>1, <1>5, <1>7, <1>12 DEF ListOK, InTurn, Dropped
  <2>3. Emptied(then[k])
    BY <1>7, <1>12 DEF Emptied, Dropped
  <2> QED
    BY <2>2, <2>3, <1>7, <1>12 DEF ListOK
<1>17. \A j \in Slot : ListOK(then[j], j, made, CalledBack, threw)
  BY <1>2, <1>12, <1>15, <1>16 DEF World
<1>18. ASSUME NEW j \in Slot PROVE Paired(then[j], then[Opposite(j)])
  <2>1. CASE j = l
    BY <2>1, <1>4, <1>7, <1>10, <1>12, <1>14 DEF Paired
  <2>2. CASE j = k
    <3>1. Opposite(j) = l
      BY <2>2, <1>4, <1>10, Slots
    <3> QED
      BY <2>2, <3>1, <1>7, <1>12, <1>14 DEF Paired
  <2>3. CASE j # l /\ j # k
    <3>1. Opposite(j) \in Slot /\ Opposite(j) # l /\ Opposite(j) # k
      BY <2>3, <1>4, <1>10, Slots
    <3> QED
      BY <2>3, <3>1, <1>2, <1>12 DEF World
  <2> QED
    BY <2>1, <2>2, <2>3
<1>19. Running(then, calling)
  <2>1. Head(calling).list = l
    BY <1>10 DEF List
  <2>2. ~ Began(lists[k])
    BY <1>3, <1>4, <1>6 DEF Began, Waits
  <2>3. \A j \in Slot : j # l => then[j].firing = lists[j].firing /\ (Began(lists[j]) => Began(then[j]))
    <3>1. lists[k].firing = FALSE
      BY <1>5, <1>6 DEF ListType
    <3> QED
      BY <2>2, <3>1, <1>7, <1>12
  <2>4. Innermost(then, Head(calling), Tail(calling))
    BY <2>1, <2>3, <1>2, <1>12, <1>13, <1>14, InnermostChanges
  <2> QED
    BY <2>4, <1>2, RunsOn
<1>20. World(then, calling, made, CalledBack, threw)
  BY <1>2, <1>12, <1>17, <1>18, <1>19 DEF World
<1>21. ASSUME NEW j \in Slot PROVE Calm(lists[j], then[j])
  <2>1. Calm(lists[l], t)
    <3>1. lists[l].callbacks[1].kind \notin {"count", "reject"}
      BY <1>3, <1>10
    <3> QED
      BY <3>1, <1>1, <1>2, <1>10, <1>11, ShiftCalm
  <2> QED
    BY <2>1, <1>7, <1>12, CalmSame
<1> QED
  BY <1>9, <1>20, <1>21

LEMMA MasterSides == <<Master, "done">> \in Slot /\ <<Master, "fail">> \in Slot /\ \A side \in Side : <<Master, side>> \in Slot
BY GivenAre, Slots DEF Side

LEMMA CancelKeeps == ASSUME DeferredsInv, Cancel PROVE DeferredsInv'
<1>1. World(lists', calling, made, CalledBack, threw) /\ \A l \in Slot : Calm(lists[l], lists'[l])
  BY CancelWorld
<1>2. /\ attached' = attached /\ count' = count /\ made' = made /\ called' = called /\ calling' = calling
      /\ acts' = acts /\ threw' = threw
  BY DEF Cancel
<1>3. CalledBack' = CalledBack /\ (InOrder' <=> InOrder)
  BY <1>2 DEF CalledBack, InOrder
<1>4. CallNext /\ First.kind = "cancel" /\ calling # <<>> /\ lists[List].callbacks # <<>>
  BY DEF Cancel, CallNext, Calls
<1>5. lists[List].firing /\ List \in Slot /\ Waits(lists[Opposite(List)])
  BY <1>4, InTheList, FirstIs
<1>6. \A k \in Slot : Resolved(lists'[k]) => Resolved(lists[k])
  <2> SUFFICES ASSUME NEW k \in Slot, Resolved(lists'[k]) PROVE Resolved(lists[k])
    OBVIOUS
  <2>1. CASE k = List
    BY <2>1, <1>5 DEF Resolved
  <2>2. CASE k = Opposite(List)
    <3>1. lists'[k] = [Shifted[k] EXCEPT !.cancelled = TRUE, !.callbacks = <<>>]
      <4>1. k = <<List[1], Other(List[2])>>
        BY <2>2 DEF Opposite
      <4>2. Shifted \in [Slot -> ListType]
        BY <1>4, FirstIs, InTheList
      <4> QED
        BY <4>1, <4>2 DEF Cancel
    <3>2. Shifted[k] = lists[k] /\ lists[k] \in ListType
      BY <1>4, <1>5, <2>2, FirstIs, InTheList, Slots
    <3> QED
      BY <3>1, <3>2 DEF Resolved, ListType
  <2>3. CASE k # List /\ k # Opposite(List)
    <3>1. Shifted[k] = lists[k]
      BY <1>4, <2>3, FirstIs, InTheList
    <3>2. k # <<List[1], Other(List[2])>> /\ Shifted \in [Slot -> ListType]
      BY <1>4, <2>3, FirstIs, InTheList DEF Opposite
    <3>3. lists'[k] = Shifted[k]
      BY <3>2 DEF Cancel
    <3> QED
      BY <3>1, <3>3
  <2> QED
    BY <2>1, <2>2, <2>3
<1>7. Awaits(lists, attached, count, threw) /\ attached \in 0 .. 2 * Given
  BY DEF DeferredsInv, Awaits
<1>8. Awaits(lists', attached, count, threw)
  <2>1. attached <= attached
    BY <1>7, GivenAre
  <2>2. \A side \in Side : Resolved(lists'[<<Master, side>>]) => Resolved(lists[<<Master, side>>])
    BY <1>6, MasterSides
  <2> QED
    BY <1>1, <1>7, <2>1, <2>2, CalmAwaits
<1> QED
  BY <1>1, <1>2, <1>3, <1>8 DEF DeferredsInv

-----------------------------------------------------------------------------
(* The callbacks of when(). *)

\* A change that puts none of them anywhere.
Fewer(s, t) ==
    /\ \A kind \in {"count", "reject"} : Has(t, kind) => Has(s, kind)
    /\ OneCount(s) => OneCount(t)

LEMMA FewerPlaced ==
    ASSUME NEW s, NEW t, Fewer(s, t), NEW l, NEW att, Placed(s, l, att)
    PROVE  Placed(t, l, att)
BY DEF Fewer, Placed

LEMMA ShiftFewer ==
    ASSUME NEW s \in ListType, s.callbacks # <<>>
    PROVE  Fewer(s, Shift(s))
BY ShiftHas, ShiftOneCount DEF Fewer

LEMMA ResolutionFewer ==
    ASSUME NEW ls \in [Slot -> ListType], NEW then, NEW l \in Slot, Resolution(ls, then, l)
    PROVE  \A k \in Slot : Fewer(ls[k], then[k]) /\ (Resolved(ls[k]) => Resolved(then[k]))
BY ResolutionCalm DEF Calm, Fewer

\* How many deferreds were counted.
LEMMA GivenCounted ==
    ASSUME NEW W \in SUBSET (1 .. Given)
    PROVE  /\ IsFiniteSet(W) /\ Cardinality(W) \in 0 .. Given
           /\ Cardinality(W) = Given => W = 1 .. Given
           /\ \A d \in 1 .. Given : d \notin W => Cardinality(W \cup {d}) = Cardinality(W) + 1
<1>1. IsFiniteSet(1 .. Given) /\ Cardinality(1 .. Given) = Given
  BY GivenAre, FS_Interval
<1>2. IsFiniteSet(W) /\ Cardinality(W) <= Given /\ (Cardinality(W) = Given => W = 1 .. Given)
  BY <1>1, FS_Subset
<1>3. Cardinality(W) \in Nat
  BY <1>2, FS_CardinalityType
<1>4. \A d \in 1 .. Given : d \notin W => Cardinality(W \cup {d}) = Cardinality(W) + 1
  BY <1>2, FS_AddElement
<1> QED
  BY <1>2, <1>3, <1>4, GivenAre

\* What is known in the middle of the step, before the deferred of when() is settled.
LEMMA FirstWas ==
    ASSUME DeferredsInv, CallNext, First.kind \in {"count", "reject"}
    PROVE  /\ List \in Slot /\ lists[List] \in ListType /\ lists[List].callbacks # <<>> /\ lists[List].firing
           /\ lists \in [Slot -> ListType] /\ Shifted \in [Slot -> ListType]
           /\ List[1] \in 1 .. Given /\ List = <<List[1], List[2]>>
           /\ First.kind = "count" => List[2] = "done" /\ attached > 2 * (Given - List[1])
           /\ First.kind = "reject" => List[2] = "fail"
           /\ \A k \in Slot : /\ Fewer(lists[k], Shifted[k])
                              /\ Resolved(Shifted[k]) <=> Resolved(lists[k])
           /\ Awaits(lists, attached, count, threw)
<1>1. calling # <<>> /\ lists[List].callbacks # <<>>
  BY DEF CallNext, Calls
<1>2. List \in Slot /\ lists[List] \in ListType /\ lists[List].firing /\ lists \in [Slot -> ListType]
  BY <1>1, InTheList
<1>3. /\ Shifted[List] = Shift(lists[List]) /\ \A k \in Slot : k # List => Shifted[k] = lists[k]
      /\ Began(lists[List]) /\ Shifted \in [Slot -> ListType]
  BY FirstGoes DEF World
<1>4. Has(lists[List], First.kind)
  <2>1. First = lists[List].callbacks[1]
    BY FirstIs
  <2> QED
    BY <2>1, <1>1, <1>2, ShiftHas
<1>5. Placed(lists[List], List, attached) /\ Awaits(lists, attached, count, threw)
  BY <1>2 DEF DeferredsInv, Awaits
<1>6. /\ List[1] \in 1 .. Given
      /\ First.kind = "count" => List[2] = "done" /\ attached > 2 * (Given - List[1])
      /\ First.kind = "reject" => List[2] = "fail"
  BY <1>4, <1>5 DEF Placed
<1>7. ASSUME NEW k \in Slot PROVE Fewer(lists[k], Shifted[k]) /\ (Resolved(Shifted[k]) <=> Resolved(lists[k]))
  <2>1. CASE k = List
    BY <2>1, <1>1, <1>2, <1>3, ShiftFewer, ShiftBegan
  <2>2. CASE k # List
    BY <2>2, <1>3 DEF Fewer
  <2> QED
    BY <2>1, <2>2
<1>8. List = <<List[1], List[2]>>
  BY <1>2, Slots
<1> QED
  BY <1>1, <1>2, <1>3, <1>5, <1>6, <1>7, <1>8

LEMMA CountedNow ==
    ASSUME DeferredsInv, CallNext, First.kind = "count"
    PROVE  /\ count - 1 \in 0 .. Given
           /\ \E W \in SUBSET (1 .. Given) : CountedAre(Shifted, attached, count - 1, threw, W)
<1>1. First.kind \in {"count", "reject"}
  OBVIOUS
<1>2. /\ List \in Slot /\ lists[List] \in ListType /\ lists[List].callbacks # <<>>
      /\ List[1] \in 1 .. Given /\ List = <<List[1], "done">> /\ attached > 2 * (Given - List[1])
      /\ Awaits(lists, attached, count, threw)
  BY <1>1, FirstWas
<1>3. /\ Shifted[List] = Shift(lists[List]) /\ \A k \in Slot : k # List => Shifted[k] = lists[k]
      /\ Began(Shifted[List])
  BY <1>1, FirstGoes
<1>4. Has(lists[List], "count") /\ ~ Has(Shifted[List], "count")
  <2>1. First = lists[List].callbacks[1]
    BY FirstIs
  <2>2. OneCount(lists[List])
    BY <1>2 DEF Awaits, Placed
  <2> QED
    BY <2>1, <2>2, <1>2, <1>3, ShiftHas, ShiftOneCount
<1>5. PICK d \in 1 .. Given : d = List[1]
  BY <1>2
<1>6. List = <<d, "done">> /\ \A e \in 1 .. Given : e # d => <<e, "done">> \in Slot /\ <<e, "done">> # List
  <2>1. List = <<d, "done">>
    BY <1>2, <1>5
  <2>2. \A e \in 1 .. Given : <<e, "done">> \in Slot
    BY GivenAre, Slots DEF Side
  <2>3. \A e : e # d => <<e, "done">> # <<d, "done">>
    OBVIOUS
  <2> QED
    BY <2>1, <2>2, <2>3
<1>7. PICK W \in SUBSET (1 .. Given) : CountedAre(lists, attached, count, threw, W)
  BY <1>2 DEF Awaits
<1>8. d \notin W
  BY <1>4, <1>6, <1>7 DEF CountedAre, Counted
<1>9. /\ Cardinality(W \cup {d}) = Cardinality(W) + 1 /\ W \cup {d} \in SUBSET (1 .. Given)
      /\ Cardinality(W \cup {d}) \in 0 .. Given /\ Cardinality(W) \in 0 .. Given
  <2>1. W \cup {d} \in SUBSET (1 .. Given)
    OBVIOUS
  <2> QED
    BY <2>1, <1>8, GivenCounted
<1>10. count \in 0 .. Given /\ Cardinality(W) = Given - count
  BY <1>2, <1>7 DEF Awaits, CountedAre
<1>11. count - 1 \in 0 .. Given /\ Cardinality(W \cup {d}) = Given - (count - 1)
  BY <1>9, <1>10, GivenAre
<1>12. ASSUME NEW e \in W \cup {d} PROVE Counted(Shifted[<<e, "done">>], e, attached)
  <2>1. CASE e = d
    BY <2>1, <1>2, <1>3, <1>4, <1>5, <1>6 DEF Counted
  <2>2. CASE e # d
    BY <2>2, <1>3, <1>6, <1>7, <1>12 DEF CountedAre
  <2> QED
    BY <2>1, <2>2
<1>13. ASSUME ~ threw, NEW e \in 1 .. Given, NotOwed(Shifted[<<e, "done">>], e, attached) PROVE e \in W \cup {d}
  BY <1>3, <1>6, <1>7, <1>13 DEF CountedAre
<1> QED
  BY <1>9, <1>11, <1>12, <1>13 DEF CountedAre

\* What the last count, or a rejection, does to the deferred of when().
LEMMA MasterAwaits ==
    ASSUME NEW ls \in [Slot -> ListType], NEW att, NEW n, NEW thrown, NEW side \in Side, NEW then,
           att \in 0 .. 2 * Given, n \in 0 .. Given, \A l \in Slot : Placed(ls[l], l, att),
           \E W \in SUBSET (1 .. Given) : CountedAre(ls, att, n, thrown, W),
           Resolution(ls, then, <<Master, side>>), Settled(then),
           Resolved(ls[<<Master, "done">>]) \/ side = "done" => n = 0,
           Resolved(ls[<<Master, "fail">>]) \/ side = "fail" => \E d \in 1 .. Given : Resolved(ls[<<d, "fail">>])
    PROVE  Awaits(then, att, n, thrown)
<1>1. <<Master, side>> \in Slot /\ <<Master, "done">> \in Slot /\ <<Master, "fail">> \in Slot
  BY MasterSides
<1>2. \A k \in Slot : k # <<Master, side>> => then[k] = ls[k]
  BY DEF Resolution
<1>3. \A d \in 1 .. Given : /\ <<d, "done">> \in Slot /\ <<d, "fail">> \in Slot
                            /\ <<d, "done">> # <<Master, side>> /\ <<d, "fail">> # <<Master, side>>
  BY GivenAre, Slots DEF Side
<1>4. \A l \in Slot : Placed(then[l], l, att)
  BY <1>1, ResolutionFewer, FewerPlaced
<1>5. \A W \in SUBSET (1 .. Given) : CountedAre(ls, att, n, thrown, W) => CountedAre(then, att, n, thrown, W)
  BY <1>2, <1>3 DEF CountedAre
<1>6. Resolved(then[<<Master, "done">>]) => n = 0
  BY <1>1, <1>2
<1>7. Resolved(then[<<Master, "fail">>]) => \E d \in 1 .. Given : Resolved(then[<<d, "fail">>])
  BY <1>1, <1>2, <1>3
<1> QED
  BY <1>4, <1>5, <1>6, <1>7 DEF Awaits

LEMMA CountKeeps == ASSUME DeferredsInv, Count PROVE DeferredsInv'
<1>1. CallNext /\ First.kind = "count" /\ First.kind \in {"count", "reject"}
  BY DEF Count
<1>2. /\ attached' = attached /\ made' = made /\ called' = called /\ acts' = acts /\ threw' = threw
      /\ count' = count - 1
  BY DEF Count
<1>3. CalledBack' = CalledBack /\ (InOrder' <=> InOrder)
  BY <1>2 DEF CalledBack, InOrder
<1>4. World(Shifted, calling, made, CalledBack, threw) /\ Steady(Shifted, calling) /\ Shifted \in [Slot -> ListType]
  BY <1>1, FirstGoes, FirstWas
<1>5. /\ count - 1 \in 0 .. Given
      /\ \E W \in SUBSET (1 .. Given) : CountedAre(Shifted, attached, count - 1, threw, W)
  BY <1>1, CountedNow
<1>6. attached \in 0 .. 2 * Given /\ count \in 0 .. Given /\ \A l \in Slot : Placed(Shifted[l], l, attached)
  BY <1>1, FirstWas, FewerPlaced DEF Awaits
<1>7. /\ List = <<List[1], "done">> /\ List[1] \in 1 .. Given
      /\ \A k \in Slot : Resolved(Shifted[k]) <=> Resolved(lists[k])
      /\ Awaits(lists, attached, count, threw)
  BY <1>1, FirstWas
<1>8. Resolved(Shifted[<<Master, "fail">>]) => \E d \in 1 .. Given : Resolved(Shifted[<<d, "fail">>])
  <2>1. \A d \in 1 .. Given : <<d, "fail">> \in Slot
    BY GivenAre, Slots DEF Side
  <2> QED
    BY <2>1, <1>7, MasterSides DEF Awaits
<1>9. CASE count - 1 = 0
  <2>1. resolveWith(Shifted, <<Master, "done">>, calling)
    BY <1>2, <1>9 DEF Count
  <2>2. <<Master, "done">> \in Slot /\ "done" \in Side
    BY MasterSides DEF Side
  <2>3. /\ World(lists', calling', made, CalledBack, threw)
        /\ Resolution(Shifted, lists', <<Master, "done">>)
    BY <2>1, <2>2, <1>4, Resolves DEF resolveWith
  <2>4. Settled(lists')
    BY <2>2, <2>3, <1>4, MasterSettles
  <2>5. Awaits(lists', attached, count - 1, threw)
    BY <2>2, <2>3, <2>4, <1>4, <1>5, <1>6, <1>8, <1>9, MasterAwaits
  <2> QED
    BY <2>3, <2>5, <1>2, <1>3 DEF DeferredsInv
<1>10. CASE count - 1 # 0
  <2>1. lists' = Shifted /\ calling' = calling
    BY <1>2, <1>10 DEF Count
  <2>2. ~ Resolved(Shifted[<<Master, "done">>])
    <3>1. count # 0
      BY <1>5, <1>6
    <3> QED
      BY <3>1, <1>7, MasterSides DEF Awaits
  <2>3. ASSUME ~ threw, NEW d \in 1 .. Given, NotRejected(Shifted[<<d, "fail">>], d, attached) PROVE Settled(Shifted)
    <3>1. <<d, "fail">> \in Slot /\ <<d, "fail">> # List
      BY <1>7, GivenAre, Slots DEF Side
    <3>2. Shifted[<<d, "fail">>] = lists[<<d, "fail">>]
      BY <3>1, <1>1, FirstGoes
    <3>3. Settled(lists)
      BY <3>2, <2>3, <1>7 DEF Awaits
    <3> QED
      BY <3>3, <1>7, MasterSides DEF Settled
  <2>4. Awaits(Shifted, attached, count - 1, threw)
    BY <2>2, <2>3, <1>5, <1>6, <1>8, <1>10 DEF Awaits
  <2> QED
    BY <2>1, <2>4, <1>2, <1>3, <1>4 DEF DeferredsInv
<1> QED
  BY <1>9, <1>10

LEMMA RejectKeeps == ASSUME DeferredsInv, Reject PROVE DeferredsInv'
<1>1. CallNext /\ First.kind = "reject" /\ First.kind \in {"count", "reject"}
  BY DEF Reject
<1>2. /\ attached' = attached /\ made' = made /\ called' = called /\ acts' = acts /\ threw' = threw
      /\ count' = count
  BY DEF Reject
<1>3. CalledBack' = CalledBack /\ (InOrder' <=> InOrder)
  BY <1>2 DEF CalledBack, InOrder
<1>4. World(Shifted, calling, made, CalledBack, threw) /\ Steady(Shifted, calling) /\ Shifted \in [Slot -> ListType]
  BY <1>1, FirstGoes, FirstWas
<1>5. /\ List \in Slot /\ List = <<List[1], "fail">> /\ List[1] \in 1 .. Given /\ lists[List].firing
      /\ \A k \in Slot : Resolved(Shifted[k]) <=> Resolved(lists[k])
      /\ Awaits(lists, attached, count, threw)
      /\ \A k \in Slot : k # List => Shifted[k] = lists[k]
  BY <1>1, FirstWas, FirstGoes
<1>6. attached \in 0 .. 2 * Given /\ count \in 0 .. Given /\ \A l \in Slot : Placed(Shifted[l], l, attached)
  BY <1>1, FirstWas, FewerPlaced DEF Awaits
<1>7. \E W \in SUBSET (1 .. Given) : CountedAre(Shifted, attached, count, threw, W)
  <2>1. PICK W \in SUBSET (1 .. Given) : CountedAre(lists, attached, count, threw, W)
    BY <1>5 DEF Awaits
  <2>2. \A d \in 1 .. Given : <<d, "done">> \in Slot /\ <<d, "done">> # List
    BY <1>5, GivenAre, Slots DEF Side
  <2>3. \A d \in 1 .. Given : Shifted[<<d, "done">>] = lists[<<d, "done">>]
    BY <2>2, <1>5
  <2>4. CountedAre(Shifted, attached, count, threw, W)
    BY <2>1, <2>3 DEF CountedAre
  <2> QED
    BY <2>4
<1>8. \E d \in 1 .. Given : Resolved(Shifted[<<d, "fail">>])
  BY <1>5 DEF Resolved
<1>9. Resolved(Shifted[<<Master, "done">>]) => count = 0
  BY <1>5, MasterSides DEF Awaits
<1>10. "fail" \in Side /\ "fail" # "done"
  BY DEF Side
<1>11. /\ World(lists', calling', made, CalledBack, threw)
       /\ Resolution(Shifted, lists', <<Master, "fail">>)
  <2>1. resolveWith(Shifted, <<Master, "fail">>, calling)
    BY DEF Reject
  <2> QED
    BY <2>1, <1>4, MasterSides, Resolves DEF resolveWith
<1>12. Settled(lists')
  BY <1>4, <1>10, <1>11, MasterSettles
<1>13. Awaits(lists', attached, count, threw)
  BY <1>4, <1>6, <1>7, <1>8, <1>9, <1>10, <1>11, <1>12, MasterAwaits
<1> QED
  BY <1>2, <1>3, <1>11, <1>13 DEF DeferredsInv

-----------------------------------------------------------------------------
(* The callbacks of the page, and the end of a list. *)

LEMMA CallPageKeeps == ASSUME DeferredsInv, CallPage PROVE DeferredsInv'
<1>1. CallNext /\ calling # <<>> /\ lists[List].callbacks # <<>> /\ First.kind = "page"
  BY DEF CallPage, CallNext, Calls
<1>2. /\ attached' = attached /\ made' = made /\ count' = count /\ acts' = acts /\ threw' = threw
      /\ lists' = Shifted /\ called' = Append(called, First.n)
      /\ calling' = <<[Head(calling) EXCEPT !.page = TRUE]>> \o Tail(calling)
  BY DEF CallPage
<1>3. /\ List \in Slot /\ lists \in [Slot -> ListType] /\ lists[List] \in ListType
      /\ lists[List].firing /\ ~ lists[List].fired /\ ~ lists[List].cancelled
      /\ ListOK(lists[List], List, made, CalledBack, threw)
      /\ Innermost(lists, Head(calling), Tail(calling))
      /\ World(lists, calling, made, CalledBack, threw)
  BY <1>1, InTheList DEF DeferredsInv
<1>4. /\ Shifted = [lists EXCEPT ![List] = Shift(lists[List])]
      /\ First = lists[List].callbacks[1] /\ First \in CallbackType
      /\ Began(lists[List]) /\ Dropped(lists[Opposite(List)])
  BY <1>1, FirstIs
<1>5. PICK p \in Nat : p = First.n
  BY <1>4 DEF CallbackType
<1>6. /\ InTurn(Shift(lists[List]), List, made, CalledBack \cup {p})
      /\ p \in DOMAIN made /\ made[p] = List /\ \A n \in CalledBack : made[n] = List => n < p
  <2>1. IsNext(lists[List], List, made, CalledBack, p)
    BY <1>1, <1>3, <1>4, <1>5 DEF IsNext, ListOK
  <2> QED
    BY <2>1, ShiftPage
<1>7. called \in Seq(Nat) /\ called' \in Seq(Nat) /\ CalledBack' = CalledBack \cup {p}
  <2>1. called \in Seq(Nat)
    BY DEF DeferredsInv
  <2>2. /\ called' \in Seq(Nat) /\ called'[Len(called) + 1] = p
        /\ \A i \in DOMAIN called : i \in DOMAIN called' /\ called'[i] = called[i]
        /\ \A i \in DOMAIN called' : i \in Nat /\ (i = Len(called) + 1 \/ i \in DOMAIN called)
        /\ Len(called) + 1 \in DOMAIN called'
    BY <2>1, <1>2, <1>5, AppendIs
  <2> QED
    BY <2>1, <2>2 DEF CalledBack
<1>8. InOrder'
  <2>1. \A i \in DOMAIN called : i < Len(called) + 1
    BY <1>7
  <2>2. /\ called'[Len(called) + 1] = p
        /\ \A i \in DOMAIN called : called'[i] = called[i] /\ called[i] \in CalledBack
        /\ \A i \in DOMAIN called' : i \in Nat /\ (i = Len(called) + 1 \/ i \in DOMAIN called)
    BY <1>2, <1>5, <1>7, AppendIs DEF CalledBack
  <2> SUFFICES ASSUME NEW i \in DOMAIN called', NEW j \in DOMAIN called', i < j,
                      made[called'[i]] = made[called'[j]]
               PROVE  called'[i] < called'[j]
    BY <1>2 DEF InOrder
  <2>3. i \in DOMAIN called
    BY <2>1, <2>2, <1>7
  <2>4. CASE j \in DOMAIN called
    BY <2>2, <2>3, <2>4 DEF DeferredsInv, InOrder
  <2>5. CASE j = Len(called) + 1
    BY <2>2, <2>3, <2>5, <1>6
  <2> QED
    BY <2>2, <2>4, <2>5
<1>9. PICK t : t = Shift(lists[List])
  OBVIOUS
<1>10. /\ t \in ListType /\ t.firing /\ ~ t.fired /\ Began(t) /\ InTurn(t, List, made, CalledBack \cup {p})
       /\ lists' = [lists EXCEPT ![List] = t]
  BY <1>1, <1>2, <1>3, <1>4, <1>6, <1>9, ShiftIs, ShiftBegan
<1>11. ListOK(t, List, made, CalledBack \cup {p}, threw)
  BY <1>10 DEF ListOK, Emptied
<1>12. \A k \in Slot : k # List => ListOK(lists[k], k, made, CalledBack \cup {p}, threw)
  BY <1>3, <1>6, OthersInTurn DEF World, ListOK
<1>13. Paired(t, lists[Opposite(List)])
  BY <1>4, <1>10 DEF Paired
<1>14. lists'[List] = t /\ \A k \in Slot : k # List => lists'[k] = lists[k]
  BY <1>3, <1>10
<1>15. calling' \in Seq(FrameType) /\ Running(lists', calling')
  <2>1. PICK f : f = [Head(calling) EXCEPT !.page = TRUE]
    OBVIOUS
  <2>2. Head(calling) \in FrameType
    BY <1>3 DEF Innermost
  <2>3. f \in FrameType /\ f.list = List
    BY <2>1, <2>2 DEF FrameType, List
  <2>4. Innermost(lists, f, Tail(calling))
    BY <2>3, <1>3, <1>4 DEF Innermost, List
  <2>5. Innermost(lists', f, Tail(calling))
    <3>1. lists'[f.list].firing /\ Began(lists'[f.list])
      BY <2>3, <1>10, <1>14
    <3>2. \A k \in Slot : k # f.list => lists'[k].firing = lists[k].firing /\ (Began(lists[k]) => Began(lists'[k]))
      BY <2>3, <1>14
    <3> QED
      BY <2>4, <3>1, <3>2, InnermostChanges
  <2> QED
    BY <2>1, <2>5, <1>2, RunsOn
<1>16. World(lists', calling', made, CalledBack', threw)
  <2>1. made \in Seq(Slot) /\ CalledBack \cup {p} \subseteq DOMAIN made
    BY <1>3, <1>6 DEF World
  <2>2. World(lists', calling', made, CalledBack \cup {p}, threw)
    BY <2>1, <1>3, <1>10, <1>11, <1>12, <1>13, <1>15, OneChanges
  <2> QED
    BY <2>2, <1>7
<1>17. Awaits(lists', attached, count, threw)
  <2>1. \A k \in Slot : Calm(lists[k], lists'[k])
    <3>1. Calm(lists[List], t)
      BY <1>1, <1>3, <1>4, <1>9, ShiftCalm
    <3> QED
      BY <3>1, <1>14, CalmSame
  <2>2. \A k \in Slot : Resolved(lists'[k]) => Resolved(lists[k])
    BY <1>3, <1>14 DEF Resolved
  <2>3. Awaits(lists, attached, count, threw) /\ attached \in 0 .. 2 * Given /\ attached <= attached
    BY GivenAre DEF DeferredsInv, Awaits
  <2> QED
    BY <2>1, <2>2, <2>3, MasterSides, CalmAwaits
<1>18. acts' \in 0 .. MaxActs /\ threw' \in BOOLEAN
  BY <1>2 DEF DeferredsInv
<1> QED
  BY <1>2, <1>7, <1>8, <1>16, <1>17, <1>18 DEF DeferredsInv

LEMMA PageReturnsKeeps == ASSUME DeferredsInv, PageReturns PROVE DeferredsInv'
<1>1. /\ attached' = attached /\ made' = made /\ count' = count /\ acts' = acts /\ threw' = threw
      /\ lists' = lists /\ called' = called /\ calling # <<>>
      /\ calling' = <<[Head(calling) EXCEPT !.page = FALSE]>> \o Tail(calling)
  BY DEF PageReturns
<1>2. CalledBack' = CalledBack /\ (InOrder' <=> InOrder)
  BY <1>1 DEF CalledBack, InOrder
<1>3. Innermost(lists, Head(calling), Tail(calling))
  BY <1>1, InTheList
<1>4. PICK f : f = [Head(calling) EXCEPT !.page = FALSE]
  OBVIOUS
<1>5. f \in FrameType /\ f.list = Head(calling).list /\ ~ f.page
  BY <1>3, <1>4 DEF Innermost, FrameType
<1>6. Innermost(lists, f, Tail(calling))
  BY <1>3, <1>5 DEF Innermost
<1>7. calling' \in Seq(FrameType) /\ Running(lists, calling')
  BY <1>1, <1>4, <1>6, RunsOn
<1>8. World(lists, calling', made, CalledBack, threw)
  BY <1>7 DEF DeferredsInv, World
<1> QED
  BY <1>1, <1>2, <1>8 DEF DeferredsInv

\* A list that is over was called.
Close(s) == [s EXCEPT !.fired = TRUE, !.firing = FALSE]

LEMMA CloseIs ==
    ASSUME NEW s \in ListType, Began(s), s.firing
    PROVE  /\ Close(s) \in ListType /\ Began(Close(s)) /\ Close(s).firing = FALSE
           /\ Close(s).callbacks = s.callbacks
           /\ Calm(s, Close(s)) /\ (Resolved(Close(s)) <=> Resolved(s))
           /\ \A l, mk, past : InTurn(s, l, mk, past) => InTurn(Close(s), l, mk, past)
           /\ \A o : Paired(s, o) => Paired(Close(s), o)
<1>1. /\ Close(s) \in ListType /\ Close(s).fired = TRUE /\ Close(s).firing = FALSE
      /\ Close(s).callbacks = s.callbacks /\ Close(s).cancelled = s.cancelled
  BY DEF Close, ListType
<1>2. \A kind : Has(Close(s), kind) <=> Has(s, kind)
  BY <1>1 DEF Has
<1>3. Began(Close(s)) /\ ~ s.cancelled
  BY <1>1, <1>2 DEF Began
<1>4. Calm(s, Close(s))
  <2>1. OneCount(s) => OneCount(Close(s))
    BY <1>1 DEF OneCount
  <2> QED
    BY <2>1, <1>1, <1>2, <1>3 DEF Calm, Resolved
<1>5. \A l, mk, past : InTurn(s, l, mk, past) => InTurn(Close(s), l, mk, past)
  BY <1>1, <1>3 DEF InTurn, Page
<1>6. ~ Waits(s)
  <2> SUFFICES ASSUME Waits(s) PROVE FALSE
    OBVIOUS
  <2>1. s.callbacks \in Seq(CallbackType) /\ s.callbacks # <<>> /\ s.callbacks[1].kind = "cancel"
    BY DEF Waits, ListType
  <2>2. Has(s, "cancel")
    BY <2>1, TailIs DEF Has
  <2> QED
    BY <2>2 DEF Began
<1>7. \A o : Paired(s, o) => Paired(Close(s), o)
  BY <1>3, <1>6 DEF Paired, Dropped
<1> QED
  BY <1>1, <1>3, <1>4, <1>5, <1>7 DEF Resolved

LEMMA ListEndsKeeps == ASSUME DeferredsInv, ListEnds PROVE DeferredsInv'
<1>1. calling # <<>> /\ lists[List].callbacks = <<>>
  BY DEF ListEnds, Calls
<1>2. /\ attached' = attached /\ made' = made /\ count' = count /\ acts' = acts /\ threw' = threw
      /\ called' = called /\ calling' = Tail(calling)
  BY DEF ListEnds
<1>3. CalledBack' = CalledBack /\ (InOrder' <=> InOrder)
  BY <1>2 DEF CalledBack, InOrder
<1>4. /\ List \in Slot /\ lists \in [Slot -> ListType] /\ lists[List] \in ListType
      /\ lists[List].firing
      /\ ListOK(lists[List], List, made, CalledBack, threw)
      /\ Innermost(lists, Head(calling), Tail(calling))
      /\ World(lists, calling, made, CalledBack, threw)
  BY <1>1, InTheList DEF DeferredsInv
<1>5. Began(lists[List])
  BY <1>1, InTheList DEF Waits
<1>6. PICK t : t = Close(lists[List])
  OBVIOUS
<1>7. /\ t \in ListType /\ Began(t) /\ t.firing = FALSE /\ t.callbacks = <<>>
      /\ Calm(lists[List], t) /\ (Resolved(t) <=> Resolved(lists[List]))
      /\ InTurn(t, List, made, CalledBack)
      /\ Paired(t, lists[Opposite(List)])
  BY <1>1, <1>4, <1>5, <1>6, CloseIs DEF ListOK, World
<1>8. lists' = [lists EXCEPT ![List] = t]
  BY <1>4, <1>6 DEF ListEnds, Over, Close
<1>9. lists'[List] = t /\ \A k \in Slot : k # List => lists'[k] = lists[k]
  BY <1>4, <1>8
<1>10. ListOK(t, List, made, CalledBack, threw)
  BY <1>7 DEF ListOK, Emptied
<1>11. calling' \in Seq(FrameType) /\ Running(lists', calling')
  <2>1. PICK rest : rest = Tail(calling)
    OBVIOUS
  <2>2. /\ rest \in Seq(FrameType) /\ Once(rest) /\ Steady(lists, rest) /\ List \notin On(rest)
        /\ \A l \in Slot : lists[l].firing <=> l = List \/ l \in On(rest)
        /\ On(rest) \subseteq Slot
    BY <2>1, <1>4, OnSlots DEF Innermost, List
  <2>3. Steady(lists', rest)
    BY <2>2, <1>9 DEF Steady
  <2>4. \A l \in Slot : lists'[l].firing <=> l \in On(rest)
    BY <2>2, <1>7, <1>9
  <2>5. \A i \in DOMAIN rest : Began(lists'[rest[i].list])
    BY <2>3 DEF Steady, On
  <2> QED
    BY <2>1, <2>2, <2>4, <2>5, <1>2 DEF Running
<1>12. World(lists', calling', made, CalledBack, threw)
  <2>1. /\ made \in Seq(Slot) /\ CalledBack \subseteq DOMAIN made
        /\ \A k \in Slot : ListOK(lists[k], k, made, CalledBack, threw)
    BY <1>4 DEF World
  <2> QED
    BY <2>1, <1>4, <1>7, <1>8, <1>10, <1>11, OneChanges
<1>13. Awaits(lists', attached, count, threw)
  <2>1. \A k \in Slot : Calm(lists[k], lists'[k]) /\ (Resolved(lists'[k]) => Resolved(lists[k]))
    BY <1>7, <1>9, CalmSame
  <2>2. Awaits(lists, attached, count, threw) /\ attached \in 0 .. 2 * Given /\ attached <= attached
    BY GivenAre DEF DeferredsInv, Awaits
  <2> QED
    BY <2>1, <2>2, MasterSides, CalmAwaits
<1> QED
  BY <1>2, <1>3, <1>12, <1>13 DEF DeferredsInv

LEMMA PageThrowsKeeps == ASSUME DeferredsInv, PageThrows PROVE DeferredsInv'
<1>1. calling # <<>> /\ Head(calling).page
  BY DEF PageThrows
<1>2. /\ made' = made /\ count' = count /\ called' = called /\ calling' = <<>> /\ threw' = TRUE
      /\ acts' = acts + 1 /\ acts < MaxActs
      /\ attached' = IF attached = 0 THEN 0 ELSE 2 * Given
  BY DEF PageThrows
<1>3. CalledBack' = CalledBack /\ (InOrder' <=> InOrder)
  BY <1>2 DEF CalledBack, InOrder
<1>4. /\ lists \in [Slot -> ListType] /\ calling \in Seq(FrameType) /\ Running(lists, calling)
      /\ World(lists, calling, made, CalledBack, threw)
  BY DEF DeferredsInv, World
<1>5. Steady(lists, calling) /\ \A l \in Slot : lists[l].firing <=> l \in On(calling)
  BY <1>1, <1>4, SteadyUnderPage DEF Running
<1>6. lists' = [l \in Slot |-> IF l \in On(calling) THEN Close(lists[l]) ELSE lists[l]]
  <2>1. \A l \in Slot : Over(lists, l)[l] = Close(lists[l])
    BY <1>4 DEF Over, Close
  <2>2. \A l \in Slot : (\E i \in DOMAIN calling : calling[i].list = l) <=> l \in On(calling)
    BY DEF On
  <2>3. DOMAIN lists = Slot
    BY <1>4
  <2> QED
    BY <2>1, <2>2, <2>3 DEF PageThrows
<1>7. PICK then : then = lists'
  OBVIOUS
<1>8. ASSUME NEW l \in Slot
      PROVE  /\ then[l] \in ListType /\ ~ then[l].firing
             /\ Calm(lists[l], then[l]) /\ (Resolved(then[l]) <=> Resolved(lists[l]))
             /\ ListOK(then[l], l, made, CalledBack, TRUE)
             /\ \A o : Paired(lists[l], o) => Paired(then[l], o)
  <2>1. ListOK(lists[l], l, made, CalledBack, threw) /\ lists[l] \in ListType
    BY <1>4 DEF World
  <2>2. CASE l \in On(calling)
    <3>1. then[l] = Close(lists[l]) /\ Began(lists[l]) /\ lists[l].firing
      BY <2>2, <1>5, <1>6, <1>7 DEF Steady
    <3> QED
      BY <2>1, <3>1, CloseIs DEF ListOK
  <2>3. CASE l \notin On(calling)
    <3>1. then[l] = lists[l] /\ ~ lists[l].firing
      BY <2>3, <1>5, <1>6, <1>7
    <3> QED
      BY <2>1, <3>1, CalmSame DEF ListOK
  <2> QED
    BY <2>2, <2>3
<1>9. then \in [Slot -> ListType]
  <2>1. then = [l \in Slot |-> IF l \in On(calling) THEN Close(lists[l]) ELSE lists[l]]
    BY <1>6, <1>7
  <2>2. \A l \in Slot : then[l] \in ListType
    BY <1>8
  <2> QED
    BY <2>1, <2>2
<1>10. ASSUME NEW l \in Slot PROVE Paired(then[l], then[Opposite(l)])
  <2>1. Opposite(l) \in Slot /\ Paired(lists[l], lists[Opposite(l)])
    BY <1>4, Slots DEF World
  <2>2. Paired(lists[Opposite(l)], then[l])
    BY <2>1, <1>8, PairedTurned
  <2> QED
    BY <2>1, <2>2, <1>8, PairedTurned
<1>11. <<>> \in Seq(FrameType) /\ Running(then, <<>>)
  <2>1. <<>> \in Seq(FrameType) /\ DOMAIN <<>> = {}
    OBVIOUS
  <2>2. On(<<>>) = {}
    BY <2>1 DEF On
  <2> QED
    BY <2>1, <2>2, <1>8 DEF Running, Once
<1>12. World(lists', calling', made, CalledBack, TRUE)
  BY <1>2, <1>4, <1>7, <1>8, <1>9, <1>10, <1>11 DEF World
<1>13. Awaits(lists', attached', count, TRUE)
  <2>1. Awaits(lists, attached, count, threw) /\ attached \in 0 .. 2 * Given
    BY DEF DeferredsInv, Awaits
  <2>2. attached' \in 0 .. 2 * Given /\ attached <= attached'
    BY <2>1, <1>2, GivenAre
  <2> QED
    BY <2>1, <2>2, <1>7, <1>8, MasterSides, CalmAwaits
<1>14. acts' \in 0 .. MaxActs
  BY <1>2, DeferredsAssumption DEF DeferredsInv
<1>15. called' \in Seq(Nat)
  BY <1>2 DEF DeferredsInv
<1> QED
  BY <1>2, <1>3, <1>12, <1>13, <1>14, <1>15 DEF DeferredsInv

-----------------------------------------------------------------------------
(* The page and when(). *)

LEMMA GainMakes ==
    ASSUME NEW s \in ListType, NEW c \in CallbackType
    PROVE  /\ ~ s.fired => Gain(s, c) = [s EXCEPT !.callbacks = Append(@, c), !.fired = FALSE]
           /\ s.fired => Gain(s, c) = [s EXCEPT !.callbacks = Append(@, c), !.fired = FALSE, !.firing = TRUE]
<1>1. s.fired \in BOOLEAN /\ s.firing \in BOOLEAN
  BY DEF ListType
<1>2. CASE s.fired
  <2>1. (s.fired \/ s.firing) = TRUE
    BY <1>1, <1>2
  <2> QED
    BY <2>1, <1>2 DEF Gain
<1>3. CASE ~ s.fired
  <2>1. (s.fired \/ s.firing) = s.firing
    BY <1>1, <1>3
  <2>2. Gain(s, c) = [s EXCEPT !.callbacks = Append(@, c), !.fired = FALSE, !.firing = s.firing]
    BY <2>1 DEF Gain
  <2>3. PICK cs : cs = Append(s.callbacks, c)
    OBVIOUS
  <2>4. [s EXCEPT !.callbacks = cs, !.fired = FALSE, !.firing = s.firing] = [s EXCEPT !.callbacks = cs, !.fired = FALSE]
    BY DEF ListType
  <2> QED
    BY <2>2, <2>3, <2>4, <1>3
<1> QED
  BY <1>2, <1>3

LEMMA Adding ==
    ASSUME DeferredsInv, Steady(lists, calling), NEW l \in Slot, NEW c \in CallbackType, c.kind # "cancel",
           addTo(l, c, calling), NEW more, Makes(made, l, c, more)
    PROVE  World(lists', calling', more, CalledBack, threw) /\ Addition(lists, lists', l, c)
<1> DEFINE put == [lists EXCEPT ![l].callbacks = Append(@, c), ![l].fired = FALSE]
<1>1. /\ World(lists, calling, made, CalledBack, threw) /\ lists \in [Slot -> ListType]
      /\ lists[l] \in ListType /\ ~ (lists[l].fired /\ lists[l].firing)
  BY DEF DeferredsInv, World, ListOK
<1>2. put[l] = [lists[l] EXCEPT !.callbacks = Append(@, c), !.fired = FALSE]
  BY <1>1
<1>3. put[l].fired = FALSE /\ put[l].cancelled = lists[l].cancelled /\ put[l].firing = lists[l].firing
  <2>1. PICK cs : cs = Append(lists[l].callbacks, c)
    OBVIOUS
  <2>2. put[l] = [lists[l] EXCEPT !.callbacks = cs, !.fired = FALSE]
    BY <2>1, <1>2
  <2> HIDE DEF put
  <2> QED
    BY <2>2, <1>1 DEF ListType
<1>4. ASSUME lists[l].cancelled PROVE Added(lists, calling, l, c, lists', calling')
  <2>1. lists' = lists /\ calling' = calling
    BY <1>4 DEF addTo
  <2> QED
    BY <2>1, <1>4 DEF Added
<1>5. ASSUME ~ lists[l].cancelled /\ lists[l].fired PROVE Added(lists, calling, l, c, lists', calling')
  <2>1. resolveWith(put, l, calling)
    BY <1>5 DEF addTo
  <2>2. ~ (put[l].cancelled \/ put[l].fired \/ put[l].firing)
    BY <1>1, <1>3, <1>5
  <2>3. lists' = [put EXCEPT ![l].firing = TRUE] /\ calling' = <<[list |-> l, page |-> FALSE]>> \o calling
    <3> HIDE DEF put
    <3> QED
      BY <2>1, <2>2 DEF resolveWith
  <2>4. lists' = [lists EXCEPT ![l] = [lists[l] EXCEPT !.callbacks = Append(@, c), !.fired = FALSE, !.firing = TRUE]]
    BY <2>3, <1>1
  <2>5. lists' = [lists EXCEPT ![l] = Gain(lists[l], c)]
    BY <2>4, <1>1, <1>5, GainMakes
  <2> QED
    BY <2>3, <2>5, <1>5 DEF Added
<1>6. ASSUME ~ lists[l].cancelled /\ ~ lists[l].fired PROVE Added(lists, calling, l, c, lists', calling')
  <2>1. lists' = put /\ calling' = calling
    BY <1>6 DEF addTo
  <2>2. lists' = [lists EXCEPT ![l] = [lists[l] EXCEPT !.callbacks = Append(@, c), !.fired = FALSE]]
    BY <2>1, <1>1
  <2>3. lists' = [lists EXCEPT ![l] = Gain(lists[l], c)]
    BY <2>2, <1>1, <1>6, GainMakes
  <2> QED
    BY <2>1, <2>3, <1>6 DEF Added
<1>7. Added(lists, calling, l, c, lists', calling')
  BY <1>4, <1>5, <1>6
<1> QED
  BY <1>1, <1>7, Adds

LEMMA PageIsIn ==
    ASSUME DeferredsInv, PageMay
    PROVE  Steady(lists, calling)
<1>1. calling = <<>> \/ Head(calling).page
  BY DEF PageMay
<1> QED
  BY <1>1, SteadyUnderPage DEF DeferredsInv, World

LEMMA ActsCounted ==
    ASSUME DeferredsInv, PageMay, acts' = IF calling = <<>> THEN acts ELSE acts + 1
    PROVE  acts' \in 0 .. MaxActs
BY DeferredsAssumption DEF DeferredsInv, PageMay

LEMMA PageAddsKeeps == ASSUME DeferredsInv, PageAdds PROVE DeferredsInv'
<1>1. PageMay
  BY DEF PageAdds
<1>2. /\ attached' = attached /\ count' = count /\ called' = called /\ threw' = threw
      /\ acts' = IF calling = <<>> THEN acts ELSE acts + 1
  BY DEF PageAdds
<1>3. PICK l \in Slot : made' = Append(made, l) /\ addTo(l, Callback("page", Len(made) + 1), calling)
  BY DEF PageAdds, Slot
<1>4. World(lists, calling, made, CalledBack, threw) /\ made \in Seq(Slot) /\ lists \in [Slot -> ListType]
  BY DEF DeferredsInv, World
<1>5. PICK c : c = Callback("page", Len(made) + 1)
  OBVIOUS
<1>6. c \in CallbackType /\ c.kind = "page" /\ c.n = Len(made) + 1
  <2>1. Len(made) + 1 \in Nat
    BY <1>4
  <2> QED
    BY <2>1, <1>5 DEF Callback, CallbackType
<1>7. World(lists', calling', made', CalledBack, threw) /\ Addition(lists, lists', l, c)
  <2>1. addTo(l, c, calling) /\ Steady(lists, calling)
    BY <1>1, <1>3, <1>5, PageIsIn
  <2>2. c.kind # "cancel" /\ Makes(made, l, c, made')
    BY <1>3, <1>6 DEF Makes
  <2> QED
    BY <2>1, <2>2, <1>6, Adding
<1>8. CalledBack' = CalledBack /\ InOrder'
  <2>1. CalledBack' = CalledBack
    BY <1>2 DEF CalledBack
  <2>2. \A n \in DOMAIN made : made'[n] = made[n]
    BY <1>3, <1>4, AppendIs
  <2>3. \A i \in DOMAIN called : called[i] \in DOMAIN made
    BY <1>4 DEF World, CalledBack
  <2>4. InOrder
    BY DEF DeferredsInv
  <2> QED
    BY <2>1, <2>2, <2>3, <2>4, <1>2 DEF InOrder
<1>9. Awaits(lists', attached, count, threw)
  <2>1. \A k \in Slot : Calm(lists[k], lists'[k])
    BY <1>4, <1>6, <1>7, AdditionCalm
  <2>2. \A k \in Slot : Resolved(lists'[k]) => Resolved(lists[k])
    BY <1>7 DEF Addition
  <2>3. Awaits(lists, attached, count, threw) /\ attached \in 0 .. 2 * Given /\ attached <= attached
    BY GivenAre DEF DeferredsInv, Awaits
  <2> QED
    BY <2>1, <2>2, <2>3, MasterSides, CalmAwaits
<1>10. acts' \in 0 .. MaxActs /\ called' \in Seq(Nat) /\ threw' \in BOOLEAN
  BY <1>1, <1>2, ActsCounted DEF DeferredsInv
<1> QED
  BY <1>2, <1>7, <1>8, <1>9, <1>10 DEF DeferredsInv

LEMMA PageSettlesKeeps == ASSUME DeferredsInv, PageSettles PROVE DeferredsInv'
<1>1. PageMay
  BY DEF PageSettles
<1>2. /\ attached' = attached /\ count' = count /\ called' = called /\ threw' = threw /\ made' = made
      /\ acts' = IF calling = <<>> THEN acts ELSE acts + 1
  BY DEF PageSettles
<1>3. PICK d \in Deferred \ {Master}, side \in Side : resolveWith(lists, <<d, side>>, calling)
  BY DEF PageSettles
<1>4. PICK l \in Slot : l = <<d, side>>
  BY Slots
<1>5. World(lists, calling, made, CalledBack, threw) /\ lists \in [Slot -> ListType] /\ Steady(lists, calling)
  BY <1>1, PageIsIn DEF DeferredsInv, World
<1>6. World(lists', calling', made, CalledBack, threw) /\ Resolution(lists, lists', l)
  <2>1. resolveWith(lists, l, calling)
    BY <1>3, <1>4
  <2> QED
    BY <2>1, <1>5, Resolves DEF resolveWith
<1>7. CalledBack' = CalledBack /\ (InOrder' <=> InOrder)
  BY <1>2 DEF CalledBack, InOrder
<1>8. Awaits(lists', attached, count, threw)
  <2>1. \A k \in Slot : Calm(lists[k], lists'[k])
    BY <1>5, <1>6, ResolutionCalm
  <2>2. \A way \in Side : <<Master, way>> # l /\ <<Master, way>> \in Slot
    BY <1>4, MasterSides
  <2>3. \A way \in Side : Resolved(lists'[<<Master, way>>]) => Resolved(lists[<<Master, way>>])
    BY <2>2, <1>6 DEF Resolution
  <2>4. Awaits(lists, attached, count, threw) /\ attached \in 0 .. 2 * Given /\ attached <= attached
    BY GivenAre DEF DeferredsInv, Awaits
  <2> QED
    BY <2>1, <2>3, <2>4, CalmAwaits
<1>9. acts' \in 0 .. MaxActs /\ called' \in Seq(Nat) /\ threw' \in BOOLEAN
  BY <1>1, <1>2, ActsCounted DEF DeferredsInv
<1> QED
  BY <1>2, <1>6, <1>7, <1>8, <1>9 DEF DeferredsInv

\* when() puts its next callback, which the deferred did not have.
LEMMA PutsNext ==
    ASSUME NEW ls \in [Slot -> ListType], NEW att, NEW n, NEW thrown, Awaits(ls, att, n, thrown),
           att < 2 * Given, NEW l \in Slot, NEW c \in CallbackType,
           \/ att = 2 * (Given - l[1]) /\ l[2] = "done" /\ c.kind = "count"
           \/ att = 2 * (Given - l[1]) + 1 /\ l[2] = "fail" /\ c.kind = "reject",
           l[1] \in 1 .. Given, NEW then, Addition(ls, then, l, c)
    PROVE  Awaits(then, att + 1, n, thrown)
<1>1. /\ att \in Nat /\ att + 1 \in 0 .. 2 * Given /\ Given \in Nat /\ l[1] \in Nat /\ att \in 0 .. 2 * Given
      /\ \A d \in 1 .. Given : d \in Nat /\ <<d, "done">> \in Slot /\ <<d, "fail">> \in Slot
      /\ l = <<l[1], l[2]>>
  BY GivenAre, Slots DEF Awaits, Side
<1>2. \A k \in Slot : k # l => then[k] = ls[k]
  BY DEF Addition
<1>3. \A k \in Slot : Resolved(then[k]) <=> Resolved(ls[k])
  BY <1>2 DEF Addition
<1>4. \A k \in Slot : Placed(ls[k], k, att)
  BY DEF Awaits
<1>5. ~ Has(ls[l], "count") \/ c.kind # "count"
  <2>1. ~ (att > att)
    BY <1>1
  <2> QED
    BY <2>1, <1>4 DEF Placed
<1>6. ASSUME ~ ls[l].cancelled
      PROVE  /\ \A kind : Has(then[l], kind) <=> Has(ls[l], kind) \/ c.kind = kind
             /\ OneCount(then[l]) /\ then[l].cancelled = ls[l].cancelled
  <2>1. Puts(ls[l], c, then[l]) /\ ls[l] \in ListType /\ OneCount(ls[l])
    BY <1>4, <1>6 DEF Addition, Placed
  <2>2. OneCount(then[l])
    BY <2>1, <1>5, PutOneCount
  <2>3. \A kind : Has(then[l], kind) <=> Has(ls[l], kind) \/ c.kind = kind
    BY <2>1, PutsHas
  <2> QED
    BY <2>1, <2>2, <2>3 DEF Puts
<1>7. ls[l].cancelled => then[l] = ls[l]
  BY DEF Addition
<1>8. ASSUME NEW k \in Slot PROVE Placed(then[k], k, att + 1)
  <2>1. k[1] \in 1 .. Given /\ att > 2 * (Given - k[1]) => att + 1 > 2 * (Given - k[1])
    BY <1>1
  <2>2. Placed(ls[k], k, att + 1)
    BY <2>1, <1>4 DEF Placed
  <2>3. CASE k # l \/ ls[l].cancelled
    BY <2>2, <2>3, <1>2, <1>7
  <2>4. CASE k = l /\ ~ ls[l].cancelled
    <3>1. /\ c.kind = "count" => l[2] = "done" /\ att + 1 > 2 * (Given - l[1])
          /\ c.kind = "reject" => l[2] = "fail"
      BY <1>1
    <3> QED
      BY <2>2, <2>4, <3>1, <1>6 DEF Placed
  <2> QED
    BY <2>3, <2>4
<1>9. PICK W \in SUBSET (1 .. Given) : CountedAre(ls, att, n, thrown, W)
  BY DEF Awaits
<1>10. ASSUME NEW d \in W PROVE Counted(then[<<d, "done">>], d, att + 1)
  <2>1. Counted(ls[<<d, "done">>], d, att)
    BY <1>9 DEF CountedAre
  <2>2. <<d, "done">> # l
    <3>1. att > 2 * (Given - d)
      BY <2>1 DEF Counted
    <3>2. d \in 1 .. Given
      OBVIOUS
    <3> QED
      BY <3>1, <3>2, <1>1
  <2>3. then[<<d, "done">>] = ls[<<d, "done">>] /\ d \in Nat
    BY <2>2, <1>1, <1>2
  <2>4. att > 2 * (Given - d) => att + 1 > 2 * (Given - d)
    BY <2>3, <1>1
  <2> QED
    BY <2>1, <2>3, <2>4 DEF Counted
<1>11. ASSUME ~ thrown, NEW d \in 1 .. Given, NotOwed(then[<<d, "done">>], d, att + 1) PROVE d \in W
  <2>1. CASE <<d, "done">> = l
    <3>1. c.kind = "count"
      BY <2>1
    <3> QED
      BY <2>1, <3>1, <1>6, <1>7, <1>11 DEF NotOwed
  <2>2. CASE <<d, "done">> # l
    <3>1. then[<<d, "done">>] = ls[<<d, "done">>]
      BY <2>2, <1>1, <1>2
    <3>2. att > 2 * (Given - d)
      <4>1. att + 1 > 2 * (Given - d)
        BY <1>11 DEF NotOwed
      <4>2. ASSUME att = 2 * (Given - d) PROVE FALSE
        <5>1. l[1] = d /\ l[2] = "done"
          BY <4>2, <1>1
        <5> QED
          BY <5>1, <2>2, <1>1
      <4> QED
        BY <4>1, <4>2, <1>1
    <3> QED
      BY <3>1, <3>2, <1>9, <1>11 DEF CountedAre, NotOwed
  <2> QED
    BY <2>1, <2>2
<1>12. CountedAre(then, att + 1, n, thrown, W)
  BY <1>9, <1>10, <1>11 DEF CountedAre
<1>13. Settled(ls) <=> Settled(then)
  BY <1>3, MasterSides DEF Settled
<1>14. ASSUME ~ thrown, NEW d \in 1 .. Given, NotRejected(then[<<d, "fail">>], d, att + 1) PROVE Settled(then)
  <2>1. CASE <<d, "fail">> = l
    <3>1. c.kind = "reject"
      BY <2>1
    <3> QED
      BY <2>1, <3>1, <1>6, <1>7, <1>14 DEF NotRejected
  <2>2. CASE <<d, "fail">> # l
    <3>1. then[<<d, "fail">>] = ls[<<d, "fail">>]
      BY <2>2, <1>1, <1>2
    <3>2. att > 2 * (Given - d) + 1
      <4>1. att + 1 > 2 * (Given - d) + 1
        BY <1>14 DEF NotRejected
      <4>2. ASSUME att = 2 * (Given - d) + 1 PROVE FALSE
        <5>1. l[1] = d /\ l[2] = "fail"
          BY <4>2, <1>1
        <5> QED
          BY <5>1, <2>2, <1>1
      <4> QED
        BY <4>1, <4>2, <1>1
    <3>3. NotRejected(ls[<<d, "fail">>], d, att)
      BY <3>1, <3>2, <1>14 DEF NotRejected
    <3> QED
      BY <3>3, <1>13, <1>14 DEF Awaits
  <2> QED
    BY <2>1, <2>2
<1>15. \A d \in 1 .. Given : Resolved(then[<<d, "fail">>]) <=> Resolved(ls[<<d, "fail">>])
  BY <1>1, <1>3
<1> QED
  BY <1>1, <1>3, <1>8, <1>12, <1>13, <1>14, <1>15, MasterSides DEF Awaits

LEMMA WhenKeeps == ASSUME DeferredsInv, When PROVE DeferredsInv'
<1>1. /\ calling = <<>> /\ attached < 2 * Given /\ attached' = attached + 1
      /\ count' = count /\ made' = made /\ called' = called /\ acts' = acts /\ threw' = threw
  BY DEF When
<1>2. /\ World(lists, calling, made, CalledBack, threw) /\ lists \in [Slot -> ListType]
      /\ attached \in Nat /\ Awaits(lists, attached, count, threw)
  BY GivenAre DEF DeferredsInv, World, Awaits
<1>3. Steady(lists, calling)
  BY <1>1, <1>2, SteadyUnderPage DEF World
<1>4. PICK d \in 1 .. Given : /\ d = Given - attached \div 2
                              /\ attached % 2 = 0 => attached = 2 * (Given - d)
                              /\ attached % 2 # 0 => attached = 2 * (Given - d) + 1
  BY <1>1, <1>2, GivenAre
<1>5. Callback("count", 0) \in CallbackType /\ Callback("reject", 0) \in CallbackType
      /\ Callback("count", 0).kind = "count" /\ Callback("reject", 0).kind = "reject"
  BY DEF Callback, CallbackType
<1>6. PICK l \in Slot, c \in CallbackType :
         /\ addTo(l, c, calling) /\ l[1] \in 1 .. Given
         /\ \/ attached = 2 * (Given - l[1]) /\ l[2] = "done" /\ c.kind = "count"
            \/ attached = 2 * (Given - l[1]) + 1 /\ l[2] = "fail" /\ c.kind = "reject"
  <2>1. <<d, "done">> \in Slot /\ <<d, "fail">> \in Slot
    BY GivenAre, Slots DEF Side
  <2>2. CASE attached % 2 = 0
    <3>1. addTo(<<d, "done">>, Callback("count", 0), calling)
      BY <2>2, <1>1, <1>4 DEF When
    <3>2. attached = 2 * (Given - d)
      BY <2>2, <1>4
    <3> QED
      BY <2>1, <3>1, <3>2, <1>5
  <2>3. CASE attached % 2 # 0
    <3>1. addTo(<<d, "fail">>, Callback("reject", 0), calling)
      BY <2>3, <1>1, <1>4 DEF When
    <3>2. attached = 2 * (Given - d) + 1
      BY <2>3, <1>4
    <3> QED
      BY <2>1, <3>1, <3>2, <1>5
  <2> QED
    BY <2>2, <2>3
<1>7. World(lists', calling', made, CalledBack, threw) /\ Addition(lists, lists', l, c)
  <2>1. c.kind # "cancel" /\ Makes(made, l, c, made)
    BY <1>6 DEF Makes
  <2> QED
    BY <2>1, <1>3, <1>6, Adding
<1>8. Awaits(lists', attached + 1, count, threw)
  BY <1>1, <1>2, <1>6, <1>7, PutsNext
<1>9. CalledBack' = CalledBack /\ (InOrder' <=> InOrder)
  BY <1>1 DEF CalledBack, InOrder
<1> QED
  BY <1>1, <1>7, <1>8, <1>9 DEF DeferredsInv

-----------------------------------------------------------------------------
(* Every state. *)

LEMMA StartDeferreds == ASSUME DeferredsInit PROVE DeferredsInv
<1>1. /\ attached = 0 /\ count = Given /\ made = <<>> /\ called = <<>> /\ calling = <<>> /\ acts = 0
      /\ threw = FALSE
  BY DEF DeferredsInit
<1>2. PICK cs : cs = <<Callback("cancel", 0)>>
  OBVIOUS
<1>3. /\ cs \in Seq(CallbackType) /\ cs # <<>> /\ cs[1].kind = "cancel" /\ DOMAIN cs = {1}
  <2>1. Callback("cancel", 0) \in CallbackType /\ Callback("cancel", 0).kind = "cancel"
    BY DEF Callback, CallbackType
  <2> QED
    BY <2>1, <1>2
<1>4. PICK s : s = [callbacks |-> cs, fired |-> FALSE, firing |-> FALSE, cancelled |-> FALSE]
  OBVIOUS
<1>5. /\ s \in ListType /\ s.callbacks = cs /\ s.fired = FALSE /\ s.firing = FALSE /\ s.cancelled = FALSE
  BY <1>3, <1>4 DEF ListType
<1>6. lists \in [Slot -> ListType] /\ \A l \in Slot : lists[l] = s
  BY <1>2, <1>4, <1>5 DEF DeferredsInit, Slot
<1>7. Waits(s) /\ \A kind : Has(s, kind) => kind = "cancel"
  <2>1. \A i \in DOMAIN cs : i = 1 /\ ~ (i > 1)
    BY <1>3
  <2> QED
    BY <2>1, <1>3, <1>5 DEF Waits, Has
<1>8. /\ <<>> \in Seq(Slot) /\ <<>> \in Seq(FrameType) /\ <<>> \in Seq(Nat) /\ DOMAIN <<>> = {}
  OBVIOUS
<1>9. CalledBack = {} /\ InOrder /\ On(calling) = {}
  BY <1>1, <1>8 DEF CalledBack, InOrder, On
<1>10. ASSUME NEW l \in Slot PROVE ListOK(lists[l], l, made, CalledBack, threw)
  <2>1. InTurn(s, l, made, CalledBack)
    BY <1>1, <1>3, <1>5, <1>8, <1>9 DEF InTurn, Page
  <2>2. ~ Began(s)
    BY <1>5 DEF Began
  <2> QED
    BY <2>1, <2>2, <1>5, <1>6 DEF ListOK, Emptied
<1>11. \A l \in Slot : Paired(lists[l], lists[Opposite(l)])
  BY <1>6, <1>7, Slots DEF Paired
<1>12. Running(lists, calling)
  BY <1>1, <1>5, <1>6, <1>8, <1>9 DEF Running, Once
<1>13. World(lists, calling, made, CalledBack, threw)
  BY <1>1, <1>6, <1>8, <1>9, <1>10, <1>11, <1>12 DEF World
<1>14. Awaits(lists, attached, count, threw)
  <2>1. \A d \in 1 .. Given : d \in Nat /\ <<d, "done">> \in Slot /\ <<d, "fail">> \in Slot
    BY GivenAre, Slots DEF Side
  <2>2. \A l \in Slot : ~ Has(lists[l], "count") /\ ~ Has(lists[l], "reject") /\ ~ Resolved(lists[l])
    BY <1>5, <1>6, <1>7 DEF Resolved
  <2>3. \A l \in Slot : Placed(lists[l], l, attached)
    <3>1. OneCount(s)
      BY <1>3, <1>5 DEF OneCount
    <3> QED
      BY <2>2, <3>1, <1>6 DEF Placed
  <2>4. {} \in SUBSET (1 .. Given) /\ CountedAre(lists, attached, count, threw, {})
    <3>1. Cardinality({}) = Given - count
      BY <1>1, FS_EmptySet, GivenAre
    <3>2. \A d \in 1 .. Given : ~ (attached > 2 * (Given - d))
      BY <1>1, GivenAre
    <3> QED
      BY <3>1, <3>2 DEF CountedAre, NotOwed
  <2>5. \A d \in 1 .. Given : ~ (attached > 2 * (Given - d) + 1)
    BY <1>1, GivenAre
  <2>6. attached \in 0 .. 2 * Given /\ count \in 0 .. Given /\ count # 0
    BY <1>1, GivenAre
  <2> QED
    BY <2>2, <2>3, <2>4, <2>5, <2>6, MasterSides DEF Awaits, NotRejected
<1>15. called \in Seq(Nat) /\ acts \in 0 .. MaxActs /\ threw \in BOOLEAN
  <2>1. <<>> \in Seq(Nat)
    OBVIOUS
  <2>2. called \in Seq(Nat)
    BY <2>1, <1>1
  <2>3. acts \in 0 .. MaxActs
    BY <1>1, DeferredsAssumption
  <2> QED
    BY <2>2, <2>3, <1>1
<1> QED
  BY <1>9, <1>13, <1>14, <1>15 DEF DeferredsInv

LEMMA StepDeferreds == ASSUME DeferredsInv, [DeferredsNext]_deferredVars PROVE DeferredsInv'
<1>1. CASE UNCHANGED deferredVars
  <2>1. CalledBack' = CalledBack /\ (InOrder' <=> InOrder)
    BY <1>1 DEF deferredVars, CalledBack, InOrder
  <2> QED
    BY <1>1, <2>1 DEF deferredVars, DeferredsInv
<1>2. CASE DeferredsNext
  BY <1>2, CancelKeeps, CountKeeps, RejectKeeps, CallPageKeeps, PageReturnsKeeps, ListEndsKeeps,
     PageThrowsKeeps, WhenKeeps, PageAddsKeeps, PageSettlesKeeps DEF DeferredsNext
<1> QED
  BY <1>1, <1>2

LEMMA TypesOfDeferreds == ASSUME DeferredsInv PROVE DeferredsTypeOK
BY DEF DeferredsInv, World, Awaits, DeferredsTypeOK, Slot

\* Of the two sides of a deferred at most one was or is being called.
LEMMA OneOutcome ==
    ASSUME DeferredsInv, NEW l \in Slot
    PROVE  /\ ~ (Resolved(lists[l]) /\ Resolved(lists[Opposite(l)]))
           /\ ~ (Began(lists[l]) /\ Began(lists[Opposite(l)]))
<1>1. /\ Opposite(l) \in Slot /\ Opposite(l) # l /\ Paired(lists[l], lists[Opposite(l)])
      /\ Running(lists, calling)
  BY Slots DEF DeferredsInv, World
<1>2. ASSUME NEW s \in ListType, Began(s) PROVE ~ Waits(s) /\ ~ Dropped(s)
  <2>1. Waits(s) => Has(s, "cancel")
    <3>1. s.callbacks \in Seq(CallbackType)
      BY DEF ListType
    <3> QED
      BY <3>1, TailIs DEF Waits, Has
  <2> QED
    BY <2>1, <1>2 DEF Began, Dropped
<1>3. lists[l] \in ListType /\ lists[Opposite(l)] \in ListType
  BY <1>1 DEF DeferredsInv, World
<1>4. ~ (Began(lists[l]) /\ Began(lists[Opposite(l)]))
  BY <1>1, <1>2, <1>3 DEF Paired
<1>5. CASE Waits(lists[l]) /\ Waits(lists[Opposite(l)])
  <2> SUFFICES ASSUME lists[l].firing, lists[Opposite(l)].firing PROVE FALSE
    BY <1>4, <1>5 DEF Waits, Resolved
  <2>1. l \in On(calling) /\ Opposite(l) \in On(calling)
    BY <1>1 DEF Running
  <2>2. PICK i \in DOMAIN calling : calling[i].list = l
    BY <2>1 DEF On
  <2>3. PICK j \in DOMAIN calling : calling[j].list = Opposite(l)
    BY <2>1 DEF On
  <2>4. ~ Began(lists[l]) /\ ~ Began(lists[Opposite(l)])
    BY <1>2, <1>3, <1>5
  <2>5. i = 1
    BY <2>2, <2>4, <1>1 DEF Running
  <2>6. j = 1
    BY <2>3, <2>4, <1>1 DEF Running
  <2> QED
    BY <2>2, <2>3, <2>5, <2>6, <1>1
<1>6. CASE Dropped(lists[l]) \/ Dropped(lists[Opposite(l)])
  BY <1>4, <1>6 DEF Dropped, Resolved
<1> QED
  BY <1>1, <1>4, <1>5, <1>6 DEF Paired

LEMMA InOneSide == ASSUME DeferredsInv PROVE OneSide
<1>1. /\ World(lists, calling, made, CalledBack, threw) /\ InOrder /\ made \in Seq(Slot) /\ CalledBack \subseteq DOMAIN made
      /\ \A l \in Slot : ListOK(lists[l], l, made, CalledBack, threw)
      /\ \A l \in Slot : Paired(lists[l], lists[Opposite(l)])
  BY DEF DeferredsInv, World
<1>2. \A n \in DOMAIN made : made[n] \in Slot
  BY <1>1
<1>3. \A n \in CalledBack : made[n] \in Slot /\ Began(lists[made[n]])
  BY <1>1, <1>2 DEF ListOK, InTurn
<1>4. ASSUME NEW d \in Deferred
      PROVE  /\ ~ (isResolved(<<d, "done">>) /\ isResolved(<<d, "fail">>))
             /\ \A m, n \in CalledBack : ~ (made[m] = <<d, "done">> /\ made[n] = <<d, "fail">>)
  <2>1. <<d, "done">> \in Slot /\ Opposite(<<d, "done">>) = <<d, "fail">>
    BY Slots DEF Side
  <2>2. /\ ~ (Resolved(lists[<<d, "done">>]) /\ Resolved(lists[<<d, "fail">>]))
        /\ ~ (Began(lists[<<d, "done">>]) /\ Began(lists[<<d, "fail">>]))
    BY <2>1, OneOutcome
  <2> QED
    BY <2>2, <1>3 DEF isResolved, Resolved
<1>5. ASSUME NEW n \in CalledBack, NEW m \in DOMAIN made, m < n, made[m] = made[n] PROVE m \in CalledBack
  <2>1. PICK l \in Slot : l = made[n]
    BY <1>3
  <2>2. Began(lists[l]) /\ InTurn(lists[l], l, made, CalledBack)
    BY <2>1, <1>1, <1>3 DEF ListOK
  <2>3. ~ lists[l].cancelled
    BY <2>2 DEF Began
  <2> SUFFICES ASSUME m \notin CalledBack PROVE FALSE
    OBVIOUS
  <2>4. PICK i \in DOMAIN lists[l].callbacks : Page(lists[l], i) /\ lists[l].callbacks[i].n = m
    BY <2>1, <2>2, <2>3, <1>5 DEF InTurn
  <2>5. n < m
    BY <2>1, <2>2, <2>4 DEF InTurn
  <2>6. m \in Nat /\ n \in Nat
    <3>1. DOMAIN made = 1 .. Len(made) /\ Len(made) \in Nat
      BY <1>1
    <3> QED
      BY <3>1, <1>1, <1>5
  <2> QED
    BY <2>5, <2>6, <1>5
<1>6. ASSUME calling = <<>>, ~ threw, NEW n \in DOMAIN made, isResolved(made[n]) PROVE n \in CalledBack
  <2>1. PICK l \in Slot : l = made[n]
    BY <1>2
  <2>2. ~ lists[l].firing
    BY <1>1, <1>6 DEF World, Running, On
  <2>3. lists[l].fired
    BY <2>1, <2>2, <1>6 DEF isResolved
  <2>4. Began(lists[l])
    BY <2>3, <1>1 DEF Paired, Waits, Dropped
  <2>5. lists[l].callbacks = <<>> /\ ~ lists[l].cancelled /\ InTurn(lists[l], l, made, CalledBack)
    BY <2>2, <2>4, <1>1, <1>6 DEF ListOK, Emptied, Began
  <2> QED
    BY <2>1, <2>5 DEF InTurn
<1> QED
  BY <1>1, <1>4, <1>5, <1>6 DEF OneSide, InOrder

\* What is on no list and was made, when nothing runs.
LEMMA Quiet ==
    ASSUME DeferredsInv, calling = <<>>, ~ threw, NEW l \in Slot, Resolved(lists[l])
    PROVE  Began(lists[l]) /\ \A kind : ~ Has(lists[l], kind)
<1>1. /\ Paired(lists[l], lists[Opposite(l)]) /\ ListOK(lists[l], l, made, CalledBack, threw)
      /\ Running(lists, calling)
  BY DEF DeferredsInv, World
<1>2. ~ lists[l].firing
  BY <1>1 DEF Running, On
<1>3. Began(lists[l])
  BY <1>1, <1>2 DEF Resolved, Paired, Waits, Dropped
<1>4. lists[l].callbacks = <<>>
  BY <1>1, <1>2, <1>3 DEF ListOK, Emptied
<1> QED
  BY <1>3, <1>4 DEF Has

LEMMA AllCounted ==
    ASSUME NEW W \in SUBSET (1 .. Given), CountedAre(lists, attached, count, threw, W), count \in 0 .. Given
    PROVE  count = 0 <=> W = 1 .. Given
<1>1. /\ Cardinality(W) = Given - count /\ Cardinality(W) \in 0 .. Given /\ Given \in Nat
      /\ Cardinality(W) = Given => W = 1 .. Given
  BY GivenCounted, GivenAre DEF CountedAre
<1>2. W = 1 .. Given => Cardinality(W) = Given
  BY FS_Interval, GivenAre
<1> QED
  BY <1>1, <1>2

LEMMA InWhenWaits == ASSUME DeferredsInv PROVE WhenWaitsForAll
<1>1. Awaits(lists, attached, count, threw)
  BY DEF DeferredsInv
<1>2. PICK W \in SUBSET (1 .. Given) : CountedAre(lists, attached, count, threw, W)
  BY <1>1 DEF Awaits
<1>3. /\ Deferred \ {Master} = 1 .. Given /\ Given \in Nat
      /\ \A l : isResolved(l) <=> Resolved(lists[l])
      /\ \A d \in 1 .. Given : d \in Nat /\ <<d, "done">> \in Slot /\ <<d, "fail">> \in Slot
  BY GivenAre, Slots DEF isResolved, Resolved, Side
<1>4. count = 0 <=> W = 1 .. Given
  BY <1>1, <1>2, AllCounted DEF Awaits
<1>5. \A d \in W : Resolved(lists[<<d, "done">>])
  BY <1>2 DEF CountedAre, Counted, Began, Resolved
<1>6. isResolved(<<Master, "done">>) => \A d \in Deferred \ {Master} : isResolved(<<d, "done">>)
  BY <1>1, <1>3, <1>4, <1>5 DEF Awaits
<1>7. isResolved(<<Master, "fail">>) => \E d \in Deferred \ {Master} : isResolved(<<d, "fail">>)
  BY <1>1, <1>3 DEF Awaits
<1>8. \A d \in 1 .. Given : ~ (Resolved(lists[<<d, "done">>]) /\ Resolved(lists[<<d, "fail">>]))
  <2>1. \A d \in 1 .. Given : Opposite(<<d, "done">>) = <<d, "fail">>
    BY Slots, GivenAre
  <2> QED
    BY <2>1, <1>3, OneOutcome
<1>9. ASSUME calling = <<>>, ~ threw, attached = 2 * Given, \A d \in Deferred \ {Master} : isResolved(<<d, "done">>)
      PROVE  isResolved(<<Master, "done">>)
  <2>1. ASSUME NEW d \in 1 .. Given PROVE d \in W
    <3>1. Began(lists[<<d, "done">>]) /\ ~ Has(lists[<<d, "done">>], "count")
      BY <1>3, <1>9, Quiet
    <3>2. attached > 2 * (Given - d)
      BY <1>3, <1>9
    <3>3. NotOwed(lists[<<d, "done">>], d, attached)
      BY <3>1, <3>2 DEF NotOwed, Began
    <3> QED
      BY <3>3, <1>2, <1>9 DEF CountedAre
  <2>2. count = 0
    BY <2>1, <1>4
  <2>3. Settled(lists)
    BY <2>2, <1>1 DEF Awaits
  <2>4. ~ Resolved(lists[<<Master, "fail">>])
    BY <1>3, <1>7, <1>8, <1>9
  <2> QED
    BY <2>3, <2>4, <1>3 DEF Settled
<1>10. ASSUME calling = <<>>, ~ threw, attached = 2 * Given, NEW d \in Deferred \ {Master}, isResolved(<<d, "fail">>)
       PROVE  isResolved(<<Master, "fail">>)
  <2>1. ~ Has(lists[<<d, "fail">>], "reject") /\ ~ lists[<<d, "fail">>].cancelled
    BY <1>3, <1>10, Quiet DEF Began
  <2>2. attached > 2 * (Given - d) + 1
    BY <1>3, <1>10
  <2>3. Settled(lists)
    BY <2>1, <2>2, <1>1, <1>3, <1>10 DEF NotRejected, Awaits
  <2>4. ~ Resolved(lists[<<Master, "done">>])
    BY <1>3, <1>6, <1>8, <1>10
  <2> QED
    BY <2>3, <2>4, <1>3 DEF Settled
<1> QED
  BY <1>6, <1>7, <1>9, <1>10 DEF WhenWaitsForAll

\* For any number of deferreds and of callbacks, in whatever order the page puts, resolves,
\* rejects and throws, also in the middle of a list: a deferred has one outcome, only
\* the callbacks for that one are called, each once and in the order in which they were put
\* on it, none that is due is left when nothing runs; when() is resolved only with all of its
\* deferreds and rejected only with one of them, and is settled when they are (833-984).
THEOREM PromisesKeptEver == DeferredsSpec => [](DeferredsTypeOK /\ PromisesKept)
<1>1. DeferredsInit => DeferredsInv
  BY StartDeferreds
<1>2. DeferredsInv /\ [DeferredsNext]_deferredVars => DeferredsInv'
  BY StepDeferreds
<1>3. DeferredsInv => DeferredsTypeOK /\ PromisesKept
  BY TypesOfDeferreds, InOneSide, InWhenWaits DEF PromisesKept
<1> QED
  BY <1>1, <1>2, <1>3, PTL DEF DeferredsSpec


-----------------------------------------------------------------------------
(* Animations: their types, for every page. *)

AnimType == [elem : Element, queued : BOOLEAN, props : SUBSET Props, duration : Nat,
             curAnim : SUBSET Props, ended : Nat]
TimerType == [anim : 1 .. MaxAnimations, prop : Props, left : Nat]
LoopType == [fn : {"tick", "stop"}, i : Nat, over : BOOLEAN, elem : Element, toEnd : BOOLEAN]
DequeueType == [fn : {"dequeue"}, elem : Element, array : {"stored", "empty", "full"}]
CompleteType == [fn : {"complete"}, anim : 1 .. MaxAnimations, pc : {"dequeue", "callback", "page"}]

\* What waits, has a timer or ends is an animation that was made.
QueuesTyped(q, n) ==
    /\ q \in [Element -> Seq(Delay .. MaxAnimations)]
    /\ \A e \in Element : \A i \in DOMAIN q[e] : q[e][i] <= n /\ (q[e][i] = InProgress => i = 1)

AnimsTyped(an) ==
    /\ an \in Seq(AnimType) /\ Len(an) <= MaxAnimations
    /\ \A a \in DOMAIN an : an[a].props # {}

TimersTyped(ts, n) ==
    ts \in Seq(TimerType) /\ \A i \in DOMAIN ts : ts[i].anim <= n

FrameTyped(f, n) ==
    /\ f.fn = "complete" => f.anim <= n
    /\ f.fn = "tick" \/ (f.fn = "stop" /\ f.over) => f.i > 0

FramesTyped(fs, n) ==
    fs \in Seq(Frames) /\ \A i \in DOMAIN fs : FrameTyped(fs[i], n)

Typed(q, an, ts, fs, ds) ==
    /\ QueuesTyped(q, Len(an)) /\ AnimsTyped(an) /\ TimersTyped(ts, Len(an)) /\ FramesTyped(fs, Len(an))
    /\ ds \in [Element -> Nat]

\* The interval is only for timers.
IntervalTyped(on) == on \in BOOLEAN /\ (on => Element # {})

TypesInv ==
    /\ manner \in Manners /\ Len(anims) <= manner.animations
    /\ Typed(queue, anims, timers, running, delays)
    /\ IntervalTyped(timerId) /\ delayed \in 0 .. MaxDelays

LEMMA AmongFrames == Frames = LoopType \cup DequeueType \cup CompleteType
BY DEF Frames, LoopType, DequeueType, CompleteType

\* What a call is shows in which one it is.
LEMMA FrameIs ==
    ASSUME NEW f \in Frames
    PROVE  /\ f.fn \in {"tick", "stop"} => f \in LoopType
           /\ f.fn = "dequeue" => f \in DequeueType
           /\ f.fn = "complete" => f \in CompleteType
           /\ f.fn \in {"tick", "stop", "dequeue", "complete"}
<1>1. CASE f \in LoopType
  BY <1>1 DEF LoopType
<1>2. CASE f \in DequeueType
  BY <1>2 DEF DequeueType
<1>3. CASE f \in CompleteType
  BY <1>3 DEF CompleteType
<1> QED
  BY <1>1, <1>2, <1>3, AmongFrames

LEMMA LoopGoesOn ==
    ASSUME NEW f \in LoopType, NEW i \in Nat, NEW over \in BOOLEAN
    PROVE  /\ [f EXCEPT !.over = over] \in LoopType /\ [f EXCEPT !.i = i] \in LoopType
           /\ [f EXCEPT !.over = over, !.i = i] \in LoopType
           /\ [f EXCEPT !.over = over].over = over /\ [f EXCEPT !.i = i].over = f.over
           /\ [f EXCEPT !.over = over, !.i = i].over = over
           /\ [f EXCEPT !.over = over].i = f.i /\ [f EXCEPT !.i = i].i = i
           /\ [f EXCEPT !.over = over, !.i = i].i = i
           /\ \A g \in {[f EXCEPT !.over = over], [f EXCEPT !.i = i], [f EXCEPT !.over = over, !.i = i]} :
                 g.fn = f.fn /\ g.elem = f.elem /\ g.toEnd = f.toEnd
BY DEF LoopType

LEMMA CompleteGoesOn ==
    ASSUME NEW f \in CompleteType, NEW pc \in {"dequeue", "callback", "page"}
    PROVE  /\ [f EXCEPT !.pc = pc] \in CompleteType /\ [f EXCEPT !.pc = pc].pc = pc
           /\ [f EXCEPT !.pc = pc].fn = "complete" /\ [f EXCEPT !.pc = pc].anim = f.anim
BY DEF CompleteType

LEMMA DequeuingIs ==
    ASSUME NEW e \in Element
    PROVE  Dequeuing(e) \in DequeueType /\ Dequeuing(e) \in Frames
           /\ Dequeuing(e).fn = "dequeue" /\ Dequeuing(e).elem = e /\ Dequeuing(e).array = "stored"
BY AmongFrames DEF Dequeuing, DequeueType

LEMMA CompletingIs ==
    ASSUME NEW a \in 1 .. MaxAnimations
    PROVE  Completing(a) \in CompleteType /\ Completing(a) \in Frames
           /\ Completing(a).fn = "complete" /\ Completing(a).anim = a /\ Completing(a).pc = "dequeue"
BY AmongFrames DEF Completing, CompleteType

LEMMA ForgottenIs ==
    ASSUME NEW fs \in Seq(Frames), NEW e \in Element, NEW how \in {"empty", "full"}
    PROVE  /\ Forgotten(fs, e, how) \in Seq(Frames)
           /\ Len(Forgotten(fs, e, how)) = Len(fs) /\ DOMAIN Forgotten(fs, e, how) = DOMAIN fs
           /\ \A i \in DOMAIN fs :
                 /\ fs[i] \in Frames /\ Forgotten(fs, e, how)[i].fn = fs[i].fn
                 /\ fs[i].fn # "dequeue" => Forgotten(fs, e, how)[i] = fs[i]
                 /\ fs[i].fn = "dequeue" =>
                       /\ Forgotten(fs, e, how)[i].elem = fs[i].elem
                       /\ Forgotten(fs, e, how)[i].array = IF fs[i].elem = e /\ fs[i].array = "stored" THEN how
                                                            ELSE fs[i].array
<1> DEFINE gs == Forgotten(fs, e, how)
<1>1. /\ DOMAIN gs = DOMAIN fs /\ Len(fs) \in Nat /\ DOMAIN fs = 1 .. Len(fs)
      /\ \A i \in DOMAIN fs : gs[i] = IF fs[i] = Dequeuing(e) THEN [fs[i] EXCEPT !.array = how] ELSE fs[i]
  BY DEF Forgotten
<1>2. ASSUME NEW i \in DOMAIN fs
      PROVE  /\ fs[i] \in Frames /\ gs[i] \in Frames /\ gs[i].fn = fs[i].fn
             /\ fs[i].fn # "dequeue" => gs[i] = fs[i]
             /\ fs[i].fn = "dequeue" =>
                   /\ gs[i].elem = fs[i].elem
                   /\ gs[i].array = IF fs[i].elem = e /\ fs[i].array = "stored" THEN how ELSE fs[i].array
  <2>1. fs[i] \in Frames
    OBVIOUS
  <2>2. CASE fs[i] = Dequeuing(e)
    <3>1. gs[i] = [Dequeuing(e) EXCEPT !.array = how]
      BY <2>2, <1>1
    <3>2. [Dequeuing(e) EXCEPT !.array = how] = [fn |-> "dequeue", elem |-> e, array |-> how]
      BY DEF Dequeuing
    <3>3. gs[i] \in DequeueType
      BY <3>1, <3>2 DEF DequeueType
    <3> QED
      BY <2>1, <2>2, <3>1, <3>2, <3>3, AmongFrames DEF Dequeuing
  <2>3. CASE fs[i] # Dequeuing(e)
    <3>1. gs[i] = fs[i]
      BY <2>3, <1>1
    <3>2. fs[i].fn = "dequeue" => ~ (fs[i].elem = e /\ fs[i].array = "stored")
      BY <2>1, <2>3, FrameIs DEF DequeueType, Dequeuing
    <3> QED
      BY <2>1, <3>1, <3>2
  <2> QED
    BY <2>2, <2>3
<1>3. gs \in [1 .. Len(fs) -> Frames]
  <2>1. gs = [i \in DOMAIN fs |-> gs[i]]
    BY <1>1 DEF Forgotten
  <2> QED
    BY <2>1, <1>1, <1>2
<1>4. gs \in Seq(Frames) /\ Len(gs) = Len(fs)
  BY <1>1, <1>3
<1> QED
  BY <1>1, <1>2, <1>4

-----------------------------------------------------------------------------
(* Sequences. *)

LEMMA PushIs ==
    ASSUME NEW S, NEW s \in Seq(S), NEW f \in S
    PROVE  /\ <<f>> \o s \in Seq(S) /\ Len(s) \in Nat /\ Len(<<f>> \o s) = Len(s) + 1
           /\ DOMAIN s = 1 .. Len(s) /\ DOMAIN (<<f>> \o s) = 1 .. Len(s) + 1
           /\ <<f>> \o s # <<>> /\ (<<f>> \o s)[1] = f
           /\ \A i \in DOMAIN s : (<<f>> \o s)[i + 1] = s[i]
           /\ \A i \in DOMAIN (<<f>> \o s) : i # 1 => i - 1 \in DOMAIN s /\ (<<f>> \o s)[i] = s[i - 1]
<1> DEFINE t == <<f>> \o s
<1>1. t \in Seq(S) /\ Len(t) = Len(s) + 1 /\ t[1] = f /\ Len(s) \in Nat
      /\ \A i \in 1 .. Len(s) : t[i + 1] = s[i]
  OBVIOUS
<1>2. DOMAIN t = 1 .. Len(s) + 1 /\ DOMAIN s = 1 .. Len(s) /\ t # <<>>
  BY <1>1
<1> HIDE DEF t
<1>3. ASSUME NEW i \in DOMAIN t, i # 1 PROVE i - 1 \in DOMAIN s /\ t[i] = s[i - 1]
  <2>1. i - 1 \in 1 .. Len(s) /\ i = (i - 1) + 1
    BY <1>2, <1>3
  <2> QED
    BY <2>1, <1>1, <1>2
<1>4. t \in Seq(S) /\ Len(t) = Len(s) + 1 /\ t[1] = f /\ Len(s) \in Nat
      /\ (\A i \in DOMAIN s : t[i + 1] = s[i]) /\ DOMAIN t = 1 .. Len(s) + 1 /\ DOMAIN s = 1 .. Len(s) /\ t # <<>>
      /\ \A i \in DOMAIN t : i # 1 => i - 1 \in DOMAIN s /\ t[i] = s[i - 1]
  BY <1>1, <1>2, <1>3
<1> QED
  BY <1>4 DEF t

LEMMA ElementsAre ==
    ASSUME NEW S, NEW s \in Seq(S)
    PROVE  Len(s) \in Nat /\ DOMAIN s = 1 .. Len(s) /\ \A i \in DOMAIN s : i \in Nat /\ s[i] \in S
OBVIOUS

LEMMA ChangeIs ==
    ASSUME NEW S, NEW s \in Seq(S), NEW i \in DOMAIN s, NEW c \in S
    PROVE  /\ [s EXCEPT ![i] = c] \in Seq(S) /\ Len([s EXCEPT ![i] = c]) = Len(s)
           /\ DOMAIN [s EXCEPT ![i] = c] = DOMAIN s
           /\ \A j \in DOMAIN s : [s EXCEPT ![i] = c][j] = IF j = i THEN c ELSE s[j]
OBVIOUS

\* The place of j in what comes behind i.
LEMMA IndexBehind ==
    ASSUME NEW n \in Nat, NEW i \in Nat, i >= 1, i <= n, NEW j \in Int, j >= i, j <= n - 1
    PROVE  j - (i - 1) \in 1 .. (n - i) /\ (i - 1) + (j - (i - 1)) = j
OBVIOUS

\* Without the one at i, the later ones are one place earlier.
LEMMA RemoveAtIs ==
    ASSUME NEW S, NEW s \in Seq(S), NEW i \in DOMAIN s
    PROVE  /\ RemoveAt(s, i) \in Seq(S) /\ Len(s) \in Nat /\ i \in Nat
           /\ DOMAIN RemoveAt(s, i) = 1 .. Len(s) - 1 /\ DOMAIN s = 1 .. Len(s)
           /\ \A j \in DOMAIN RemoveAt(s, i) :
                 /\ j \in Nat /\ j \in DOMAIN s /\ j + 1 \in DOMAIN s
                 /\ RemoveAt(s, i)[j] = IF j < i THEN s[j] ELSE s[j + 1]
<1>1. Len(s) \in Nat /\ DOMAIN s = 1 .. Len(s) /\ i \in 1 .. Len(s) /\ i \in Nat
  OBVIOUS
<1> DEFINE b == SubSeq(s, 1, i - 1)
           c == SubSeq(s, i + 1, Len(s))
           t == b \o c
<1>2. b \in Seq(S) /\ Len(b) = i - 1 /\ \A j \in 1 .. i - 1 : b[j] = s[j]
  BY <1>1
<1>3. c \in Seq(S) /\ Len(c) = Len(s) - i /\ \A j \in 1 .. Len(s) - i : c[j] = s[i + j]
  BY <1>1
<1> HIDE DEF b, c
<1>8. /\ t \in Seq(S) /\ Len(t) = Len(b) + Len(c) /\ Len(b) \in Nat /\ Len(c) \in Nat
      /\ \A j \in 1 .. Len(b) : t[j] = b[j]
      /\ \A j \in 1 .. Len(c) : t[Len(b) + j] = c[j]
  <2>1. b \in Seq(S) /\ c \in Seq(S)
    BY <1>2, <1>3
  <2> QED
    BY <2>1
<1>4. /\ t \in Seq(S) /\ Len(t) = Len(s) - 1
      /\ \A j \in 1 .. i - 1 : t[j] = b[j]
      /\ \A j \in i .. Len(s) - 1 : t[j] = c[j - (i - 1)]
  <2> HIDE DEF t
  <2>1. ASSUME NEW j \in i .. Len(s) - 1 PROVE t[j] = c[j - (i - 1)]
    <3>1. j - (i - 1) \in 1 .. Len(c) /\ Len(b) + (j - (i - 1)) = j
      <4>1. /\ Len(s) \in Nat /\ i \in Nat /\ i >= 1 /\ i <= Len(s) /\ j \in Int /\ j >= i /\ j <= Len(s) - 1
            /\ Len(b) = i - 1 /\ Len(c) = Len(s) - i
        BY <1>1, <1>2, <1>3
      <4>2. j - (i - 1) \in 1 .. (Len(s) - i) /\ (i - 1) + (j - (i - 1)) = j
        BY ONLY <4>1, IndexBehind
      <4> QED
        BY ONLY <4>1, <4>2
    <3> QED
      BY <3>1, <1>8
  <2>2. Len(t) = Len(s) - 1
    BY <1>1, <1>2, <1>3, <1>8
  <2>3. \A j \in 1 .. i - 1 : t[j] = b[j]
    BY <1>2, <1>8
  <2> QED
    BY <2>1, <2>2, <2>3, <1>8
<1>5. RemoveAt(s, i) = t
  BY DEF RemoveAt, b, c
<1> HIDE DEF t
<1>6. ASSUME NEW j \in 1 .. Len(s) - 1 PROVE t[j] = IF j < i THEN s[j] ELSE s[j + 1]
  <2>1. CASE j < i
    BY <2>1, <1>1, <1>2, <1>4
  <2>2. CASE ~ j < i
    <3>1. j \in i .. Len(s) - 1 /\ j - (i - 1) \in 1 .. Len(s) - i /\ i + (j - (i - 1)) = j + 1
      BY <2>2, <1>1
    <3> QED
      BY <2>2, <3>1, <1>3, <1>4
  <2> QED
    BY <2>1, <2>2
<1>7. DOMAIN t = 1 .. Len(s) - 1
  BY <1>1, <1>4
<1> QED
  BY <1>1, <1>4, <1>5, <1>6, <1>7

\* In a sequence of a finite set no element is twice.
LEMMA SetToSeqIs ==
    ASSUME NEW S, IsFiniteSet(S)
    PROVE  /\ SetToSeq(S) \in Seq(S)
           /\ \A i, j \in DOMAIN SetToSeq(S) : SetToSeq(S)[i] = SetToSeq(S)[j] => i = j
           /\ S # {} => 1 \in DOMAIN SetToSeq(S)
<1>1. Cardinality(S) \in Nat /\ ExistsBijection(1 .. Cardinality(S), S)
  BY FS_CardinalityType
<1>2. \E f \in [1 .. Cardinality(S) -> S] : IsInjective(f)
  BY <1>1 DEF ExistsBijection, Bijection, Injection
<1>3. SetToSeq(S) \in [1 .. Cardinality(S) -> S] /\ IsInjective(SetToSeq(S))
  BY <1>2 DEF SetToSeq
<1>4. S # {} => Cardinality(S) # 0
  BY FS_EmptySet
<1> QED
  BY <1>1, <1>3, <1>4 DEF IsInjective

\* What is left of a queue without the mark, and the queue with what is next taken out.
Rest(s) == IF s # <<>> /\ Head(s) = InProgress THEN Tail(s) ELSE s
Taken(s) == <<InProgress>> \o Tail(Rest(s))

LEMMA TakenIs ==
    ASSUME NEW s \in Seq(Delay .. MaxAnimations), Rest(s) # <<>>
    PROVE  /\ Taken(s) \in Seq(Delay .. MaxAnimations) /\ Taken(s) # <<>> /\ Taken(s)[1] = InProgress
           /\ \E o \in {0, 1} :
                 /\ o + 1 \in DOMAIN s /\ Head(Rest(s)) = s[o + 1]
                 /\ o = 1 => s[1] = InProgress
                 /\ o = 0 => s[1] # InProgress
                 /\ \A i \in DOMAIN Taken(s) : i \in Nat /\ (i # 1 => i + o \in DOMAIN s /\ Taken(s)[i] = s[i + o])
<1> DEFINE S == Delay .. MaxAnimations
<1>1. InProgress \in S
  BY EffectsAssumption DEF InProgress, Delay
<1>2. s # <<>> /\ Rest(s) \in Seq(S) /\ Head(s) = s[1] /\ 1 \in DOMAIN s
  BY TailIs DEF Rest
<1>3. PICK o \in {0, 1} : /\ o + 1 \in DOMAIN s /\ (o = 1 => s[1] = InProgress) /\ (o = 0 => s[1] # InProgress)
                          /\ \A i \in DOMAIN Rest(s) : i \in Nat /\ i + o \in DOMAIN s /\ Rest(s)[i] = s[i + o]
  <2>1. CASE s[1] = InProgress
    <3>1. Rest(s) = Tail(s)
      BY <2>1, <1>2 DEF Rest
    <3>2. 1 \in DOMAIN Tail(s)
      BY <3>1, <1>2, TailIs
    <3> QED
      BY <2>1, <3>1, <3>2, <1>2, TailIs
  <2>2. CASE s[1] # InProgress
    <3>1. Rest(s) = s
      BY <2>2, <1>2 DEF Rest
    <3> QED
      BY <2>2, <3>1, <1>2, TailIs
  <2> QED
    BY <2>1, <2>2
<1> DEFINE r == Tail(Rest(s))
<1>4. /\ r \in Seq(S) /\ Head(Rest(s)) = Rest(s)[1] /\ 1 \in DOMAIN Rest(s)
      /\ \A i \in DOMAIN r : i \in Nat /\ i + 1 \in DOMAIN Rest(s) /\ r[i] = Rest(s)[i + 1]
  BY <1>2, TailIs
<1>5. Taken(s) = <<InProgress>> \o r
  BY DEF Taken
<1> HIDE DEF r, S
<1>6. /\ Taken(s) \in Seq(S) /\ Taken(s) # <<>> /\ Taken(s)[1] = InProgress /\ DOMAIN Taken(s) = 1 .. Len(r) + 1 /\ Len(r) \in Nat
      /\ \A i \in DOMAIN Taken(s) : i # 1 => i - 1 \in DOMAIN r /\ Taken(s)[i] = r[i - 1]
  BY <1>1, <1>4, <1>5, PushIs
<1>7. Head(Rest(s)) = s[o + 1]
  BY <1>3, <1>4
<1>8. ASSUME NEW i \in DOMAIN Taken(s), i # 1 PROVE i + o \in DOMAIN s /\ Taken(s)[i] = s[i + o]
  <2>1. i - 1 \in DOMAIN r /\ Taken(s)[i] = r[i - 1] /\ i \in Nat
    BY <1>6, <1>8
  <2>2. (i - 1) + 1 = i
    BY <2>1
  <2>3. i \in DOMAIN Rest(s) /\ r[i - 1] = Rest(s)[i]
    BY <1>4, <2>1, <2>2
  <2> QED
    BY <2>1, <2>3, <1>3
<1> QED
  BY <1>3, <1>6, <1>7, <1>8 DEF S

\* An animation that is over while it starts, and timers for one that is not.
AtOnce(an, a) == [an EXCEPT ![a].curAnim = an[a].props]

Timing(ts, an, a, more) ==
    /\ more \in Seq(TimerType) /\ more # <<>>
    /\ \A i \in DOMAIN ts : i \in DOMAIN more /\ more[i] = ts[i]
    /\ \A i \in DOMAIN more : i \in DOMAIN ts \/ (more[i].anim = a /\ more[i].prop \in an[a].props)
    /\ \A i, j \in DOMAIN more : i \notin DOMAIN ts /\ j \notin DOMAIN ts /\ more[i].prop = more[j].prop => i = j

LEMMA AtOnceIs ==
    ASSUME NEW an \in Seq(AnimType), NEW a \in DOMAIN an
    PROVE  /\ AtOnce(an, a) \in Seq(AnimType) /\ Len(AtOnce(an, a)) = Len(an) /\ DOMAIN AtOnce(an, a) = DOMAIN an
           /\ \A b \in DOMAIN an : b # a => AtOnce(an, a)[b] = an[b]
           /\ AtOnce(an, a)[a] = [an[a] EXCEPT !.curAnim = an[a].props]
           /\ \A b \in DOMAIN an :
                 /\ AtOnce(an, a)[b].elem = an[b].elem /\ AtOnce(an, a)[b].queued = an[b].queued
                 /\ AtOnce(an, a)[b].props = an[b].props /\ AtOnce(an, a)[b].ended = an[b].ended
                 /\ AtOnce(an, a)[b].duration = an[b].duration
           /\ AtOnce(an, a)[a].curAnim = an[a].props
<1>0. \A b \in DOMAIN an : an[b] \in AnimType
  BY ElementsAre
<1>1. an[a] \in AnimType /\ [an[a] EXCEPT !.curAnim = an[a].props] \in AnimType
  BY <1>0 DEF AnimType
<1>2. AtOnce(an, a) = [an EXCEPT ![a] = [an[a] EXCEPT !.curAnim = an[a].props]]
  BY DEF AtOnce
<1>3. AtOnce(an, a) \in Seq(AnimType) /\ Len(AtOnce(an, a)) = Len(an) /\ DOMAIN AtOnce(an, a) = DOMAIN an
  <2>1. PICK c \in AnimType : c = [an[a] EXCEPT !.curAnim = an[a].props]
    BY <1>1
  <2>2. AtOnce(an, a) = [an EXCEPT ![a] = c]
    BY <1>2, <2>1
  <2> QED
    BY <2>2, ChangeIs
<1>4. AtOnce(an, a)[a] = [an[a] EXCEPT !.curAnim = an[a].props] /\ \A b \in DOMAIN an : b # a => AtOnce(an, a)[b] = an[b]
  BY <1>2
<1> QED
  <2>1. /\ [an[a] EXCEPT !.curAnim = an[a].props].elem = an[a].elem
        /\ [an[a] EXCEPT !.curAnim = an[a].props].queued = an[a].queued
        /\ [an[a] EXCEPT !.curAnim = an[a].props].props = an[a].props
        /\ [an[a] EXCEPT !.curAnim = an[a].props].ended = an[a].ended
        /\ [an[a] EXCEPT !.curAnim = an[a].props].duration = an[a].duration
        /\ [an[a] EXCEPT !.curAnim = an[a].props].curAnim = an[a].props
    BY <1>0 DEF AnimType
  <2> QED
    BY <2>1, <1>3, <1>4

LEMMA RunIs ==
    ASSUME NEW begun \in Seq(AnimType), NEW a \in DOMAIN begun, a <= MaxAnimations, begun[a].props # {},
           NEW frames, timers \in Seq(TimerType), Run(a, begun, frames)
    PROVE  /\ begun[a].duration = 0 =>
                 /\ anims' = AtOnce(begun, a) /\ running' = <<Completing(a)>> \o frames
                 /\ timers' = timers /\ timerId' = timerId
           /\ begun[a].duration # 0 =>
                 /\ anims' = begun /\ running' = frames /\ timerId' = TRUE
                 /\ Timing(timers, begun, a, timers')
<1>1. begun[a] \in AnimType /\ a \in 1 .. MaxAnimations
  OBVIOUS
<1>2. ASSUME begun[a].duration = 0
      PROVE  /\ anims' = AtOnce(begun, a) /\ running' = <<Completing(a)>> \o frames
             /\ timers' = timers /\ timerId' = timerId
  BY <1>2 DEF Run, AtOnce
<1>3. ASSUME begun[a].duration # 0
      PROVE  /\ anims' = begun /\ running' = frames /\ timerId' = TRUE
             /\ Timing(timers, begun, a, timers')
  <2> DEFINE props == SetToSeq(begun[a].props)
             new == [k \in DOMAIN props |-> [anim |-> a, prop |-> props[k], left |-> begun[a].duration]]
  <2>1. running' = frames /\ timerId' = TRUE /\ timers' = timers \o new
    BY <1>3 DEF Run
  <2>2. anims' = begun
    <3>1. anims' = [begun EXCEPT ![a] = [begun[a] EXCEPT !.curAnim = begun[a].curAnim]]
      BY <1>3 DEF Run
    <3>2. [begun[a] EXCEPT !.curAnim = begun[a].curAnim] = begun[a]
      BY <1>1 DEF AnimType
    <3> QED
      BY <3>1, <3>2
  <2>3. IsFiniteSet(begun[a].props) /\ begun[a].props \subseteq Props /\ begun[a].duration \in Nat
    BY <1>1, EffectsAssumption, FS_Subset DEF AnimType
  <2>4. /\ props \in Seq(begun[a].props) /\ 1 \in DOMAIN props
        /\ \A i, j \in DOMAIN props : props[i] = props[j] => i = j
    BY <2>3, SetToSeqIs
  <2> HIDE DEF props
  <2>5. /\ Len(props) \in Nat /\ DOMAIN props = 1 .. Len(props)
        /\ \A k \in DOMAIN props : props[k] \in begun[a].props /\ new[k] \in TimerType
                                   /\ new[k].anim = a /\ new[k].prop = props[k]
    BY <1>1, <2>3, <2>4 DEF TimerType
  <2>6. new \in Seq(TimerType) /\ Len(new) = Len(props) /\ DOMAIN new = DOMAIN props
    BY <2>5
  <2> HIDE DEF new
  <2>7. /\ timers' \in Seq(TimerType) /\ Len(timers') = Len(timers) + Len(new)
        /\ Len(timers) \in Nat /\ Len(new) \in Nat /\ DOMAIN timers = 1 .. Len(timers)
        /\ DOMAIN timers' = 1 .. Len(timers) + Len(new)
        /\ \A i \in 1 .. Len(timers) : timers'[i] = timers[i]
        /\ \A k \in 1 .. Len(new) : timers'[Len(timers) + k] = new[k]
    <3>1. PICK n \in Seq(TimerType) : n = new
      BY <2>6
    <3>2. timers' = timers \o n
      BY <2>1, <3>1
    <3>3. /\ timers \o n \in Seq(TimerType) /\ Len(timers \o n) = Len(timers) + Len(n)
          /\ Len(timers) \in Nat /\ Len(n) \in Nat /\ DOMAIN timers = 1 .. Len(timers)
          /\ \A i \in 1 .. Len(timers) : (timers \o n)[i] = timers[i]
          /\ \A k \in 1 .. Len(n) : (timers \o n)[Len(timers) + k] = n[k]
      OBVIOUS
    <3>4. DOMAIN timers' = 1 .. Len(timers')
      BY <3>2, <3>3
    <3> QED
      BY <3>1, <3>2, <3>3, <3>4
  <2>8. \A i \in DOMAIN timers' : i \in DOMAIN timers \/
           (i - Len(timers) \in DOMAIN props /\ timers'[i] = new[i - Len(timers)])
    <3> SUFFICES ASSUME NEW i \in DOMAIN timers', i \notin DOMAIN timers
                 PROVE  i - Len(timers) \in DOMAIN props /\ timers'[i] = new[i - Len(timers)]
      OBVIOUS
    <3>1. i - Len(timers) \in 1 .. Len(new) /\ Len(timers) + (i - Len(timers)) = i
      BY <2>7
    <3> QED
      BY <3>1, <2>5, <2>6, <2>7
  <2>9. timers' # <<>>
    BY <2>4, <2>5, <2>6, <2>7
  <2>10. \A i \in DOMAIN timers : i \in DOMAIN timers' /\ timers'[i] = timers[i]
    BY <2>7
  <2>11. \A i \in DOMAIN timers' : i \in DOMAIN timers \/ (timers'[i].anim = a /\ timers'[i].prop \in begun[a].props)
    BY <2>5, <2>8
  <2>12. ASSUME NEW i \in DOMAIN timers', NEW j \in DOMAIN timers', i \notin DOMAIN timers, j \notin DOMAIN timers,
                timers'[i].prop = timers'[j].prop
         PROVE  i = j
    <3>1. i - Len(timers) = j - Len(timers)
      BY <2>4, <2>5, <2>8, <2>12
    <3> QED
      BY <3>1, <2>7
  <2>13. Timing(timers, begun, a, timers')
    BY <2>7, <2>9, <2>10, <2>11, <2>12 DEF Timing
  <2> QED
    BY <2>1, <2>2, <2>13
<1> QED
  BY <1>2, <1>3

-----------------------------------------------------------------------------
(* Types hold, whatever the page does. *)

LEMMA PushTyped ==
    ASSUME NEW fs, NEW n, FramesTyped(fs, n), NEW f \in Frames, FrameTyped(f, n)
    PROVE  FramesTyped(<<f>> \o fs, n)
<1>1. fs \in Seq(Frames)
  BY DEF FramesTyped
<1>2. /\ <<f>> \o fs \in Seq(Frames) /\ (<<f>> \o fs)[1] = f
      /\ \A i \in DOMAIN (<<f>> \o fs) : i # 1 => i - 1 \in DOMAIN fs /\ (<<f>> \o fs)[i] = fs[i - 1]
  BY <1>1, PushIs
<1> QED
  BY <1>2 DEF FramesTyped

LEMMA PopTyped ==
    ASSUME NEW fs, NEW n, FramesTyped(fs, n), fs # <<>>
    PROVE  /\ FramesTyped(Tail(fs), n) /\ Head(fs) \in Frames
           /\ FrameTyped(Head(fs), n)
<1>1. fs \in Seq(Frames)
  BY DEF FramesTyped
<1>2. /\ Tail(fs) \in Seq(Frames) /\ Head(fs) = fs[1] /\ 1 \in DOMAIN fs
      /\ \A i \in DOMAIN Tail(fs) : i + 1 \in DOMAIN fs /\ Tail(fs)[i] = fs[i + 1]
  BY <1>1, TailIs
<1> QED
  BY <1>1, <1>2, ElementsAre DEF FramesTyped

LEMMA ForgottenTyped ==
    ASSUME NEW fs, NEW n, FramesTyped(fs, n), NEW e \in Element, NEW how \in {"empty", "full"}
    PROVE  FramesTyped(Forgotten(fs, e, how), n)
<1>1. fs \in Seq(Frames)
  BY DEF FramesTyped
<1> DEFINE gs == Forgotten(fs, e, how)
<1>2. /\ gs \in Seq(Frames) /\ DOMAIN gs = DOMAIN fs
      /\ \A i \in DOMAIN fs : gs[i].fn = fs[i].fn /\ (fs[i].fn # "dequeue" => gs[i] = fs[i])
  BY <1>1, ForgottenIs
<1> HIDE DEF gs
<1>3. FramesTyped(gs, n)
  BY <1>2 DEF FramesTyped, FrameTyped
<1> QED
  BY <1>3 DEF gs

LEMMA EmptyTyped == FramesTyped(<<>>, 0) /\ \A n : FramesTyped(<<>>, n)
BY DEF FramesTyped

LEMMA ClearedTyped ==
    ASSUME NEW q, NEW n, QueuesTyped(q, n), NEW e \in Element
    PROVE  QueuesTyped([q EXCEPT ![e] = <<>>], n)
<1>1. <<>> \in Seq(Delay .. MaxAnimations)
  OBVIOUS
<1> QED
  BY <1>1 DEF QueuesTyped

LEMMA QueuesGrow ==
    ASSUME NEW q, NEW n \in Nat, NEW k \in Nat, n <= k, QueuesTyped(q, n)
    PROVE  QueuesTyped(q, k)
<1>1. \A e \in Element : \A i \in DOMAIN q[e] : q[e][i] \in Int
  <2> SUFFICES ASSUME NEW e \in Element, NEW i \in DOMAIN q[e] PROVE q[e][i] \in Int
    OBVIOUS
  <2>1. q[e] \in Seq(Delay .. MaxAnimations)
    BY DEF QueuesTyped
  <2>2. q[e][i] \in Delay .. MaxAnimations
    BY <2>1, ElementsAre
  <2> QED
    BY <2>2, EffectsAssumption DEF Delay
<1> QED
  BY <1>1 DEF QueuesTyped

LEMMA TakenTyped ==
    ASSUME NEW q, NEW n \in Nat, QueuesTyped(q, n), NEW e \in Element, Rest(q[e]) # <<>>
    PROVE  /\ QueuesTyped([q EXCEPT ![e] = Taken(q[e])], n)
           /\ Head(Rest(q[e])) \in Delay .. MaxAnimations /\ Head(Rest(q[e])) <= n
           /\ Head(Rest(q[e])) # InProgress
<1>1. q[e] \in Seq(Delay .. MaxAnimations)
  BY DEF QueuesTyped
<1>2. Taken(q[e]) \in Seq(Delay .. MaxAnimations) /\ Taken(q[e])[1] = InProgress
  BY <1>1, TakenIs
<1>3. PICK o \in {0, 1} : /\ o + 1 \in DOMAIN q[e] /\ Head(Rest(q[e])) = q[e][o + 1]
                          /\ o = 0 => q[e][1] # InProgress
                          /\ \A i \in DOMAIN Taken(q[e]) :
                                i \in Nat /\ (i # 1 => i + o \in DOMAIN q[e] /\ Taken(q[e])[i] = q[e][i + o])
  BY <1>1, TakenIs
<1>4. ASSUME NEW i \in DOMAIN Taken(q[e])
      PROVE  Taken(q[e])[i] <= n /\ (Taken(q[e])[i] = InProgress => i = 1)
  <2>1. CASE i = 1
    BY <2>1, <1>2 DEF InProgress
  <2>2. CASE i # 1
    <3>1. i + o \in DOMAIN q[e] /\ Taken(q[e])[i] = q[e][i + o] /\ i \in Nat
      BY <1>3, <2>2
    <3>2. i \in 1 .. Len(Taken(q[e]))
      BY <1>2, ElementsAre
    <3>3. i + o # 1
      BY <2>2, <3>1, <3>2
    <3> QED
      BY <3>1, <3>3 DEF QueuesTyped
  <2> QED
    BY <2>1, <2>2
<1>5. ASSUME NEW d \in Element, NEW i \in DOMAIN [q EXCEPT ![e] = Taken(q[e])][d]
      PROVE  /\ [q EXCEPT ![e] = Taken(q[e])][d][i] <= n
             /\ [q EXCEPT ![e] = Taken(q[e])][d][i] = InProgress => i = 1
  BY <1>4 DEF QueuesTyped
<1>6. [q EXCEPT ![e] = Taken(q[e])] \in [Element -> Seq(Delay .. MaxAnimations)]
  BY <1>2 DEF QueuesTyped
<1>7. QueuesTyped([q EXCEPT ![e] = Taken(q[e])], n)
  BY <1>5, <1>6 DEF QueuesTyped
<1>8. q[e][o + 1] \in Delay .. MaxAnimations
  BY <1>1, <1>3, ElementsAre
<1>9. q[e][o + 1] <= n /\ q[e][o + 1] # InProgress
  BY <1>3 DEF QueuesTyped
<1> QED
  BY <1>3, <1>7, <1>8, <1>9

LEMMA AppendedTyped ==
    ASSUME NEW q, NEW n \in Nat, QueuesTyped(q, n), NEW e \in Element, NEW what \in Delay .. MaxAnimations, what <= n,
           what # InProgress
    PROVE  QueuesTyped([q EXCEPT ![e] = Append(@, what)], n)
<1>1. q[e] \in Seq(Delay .. MaxAnimations)
  BY DEF QueuesTyped
<1>2. /\ Append(q[e], what) \in Seq(Delay .. MaxAnimations)
      /\ \A i \in DOMAIN Append(q[e], what) :
            Append(q[e], what)[i] <= n /\ (Append(q[e], what)[i] = InProgress => i = 1)
  BY <1>1, AppendIs DEF QueuesTyped
<1> QED
  BY <1>2 DEF QueuesTyped

LEMMA MadeTyped ==
    ASSUME NEW an, AnimsTyped(an), NEW c \in AnimType, c.props # {}, Len(an) < MaxAnimations
    PROVE  AnimsTyped(Append(an, c)) /\ Len(Append(an, c)) = Len(an) + 1 /\ Len(an) \in Nat
<1>1. an \in Seq(AnimType)
  BY DEF AnimsTyped
<1>2. Append(an, c) \in Seq(AnimType) /\ Len(Append(an, c)) = Len(an) + 1 /\ Len(an) \in Nat
  BY <1>1
<1> QED
  BY <1>1, <1>2, AppendIs, EffectsAssumption DEF AnimsTyped

LEMMA AtOnceTyped ==
    ASSUME NEW an, AnimsTyped(an), NEW a \in DOMAIN an
    PROVE  AnimsTyped(AtOnce(an, a)) /\ Len(AtOnce(an, a)) = Len(an)
<1>1. an \in Seq(AnimType) /\ Len(an) <= MaxAnimations /\ \A b \in DOMAIN an : an[b].props # {}
  BY DEF AnimsTyped
<1>2. /\ AtOnce(an, a) \in Seq(AnimType) /\ Len(AtOnce(an, a)) = Len(an) /\ DOMAIN AtOnce(an, a) = DOMAIN an
      /\ \A b \in DOMAIN an :
            /\ AtOnce(an, a)[b].elem = an[b].elem /\ AtOnce(an, a)[b].queued = an[b].queued
            /\ AtOnce(an, a)[b].props = an[b].props /\ AtOnce(an, a)[b].ended = an[b].ended
            /\ AtOnce(an, a)[b].duration = an[b].duration
  <2>1. an \in Seq(AnimType) /\ a \in DOMAIN an
    BY <1>1
  <2> QED
    BY <2>1, AtOnceIs, Zenon
<1>3. \A b \in DOMAIN an : AtOnce(an, a)[b].props = an[b].props
  BY <1>2
<1> QED
  BY <1>1, <1>2, <1>3 DEF AnimsTyped

LEMMA RunTyped ==
    ASSUME NEW q, NEW begun, NEW frames, NEW due, Typed(q, begun, timers, frames, due), IntervalTyped(timerId),
           NEW a \in DOMAIN begun, Run(a, begun, frames)
    PROVE  Typed(q, anims', timers', running', due) /\ Len(anims') = Len(begun) /\ IntervalTyped(timerId')
<1>1. begun \in Seq(AnimType) /\ begun[a].props # {} /\ Len(begun) <= MaxAnimations /\ timers \in Seq(TimerType)
      /\ FramesTyped(frames, Len(begun))
  BY DEF Typed, AnimsTyped, TimersTyped
<1>2. Len(begun) \in Nat /\ a \in Nat /\ a <= Len(begun) /\ a \in 1 .. MaxAnimations /\ a <= MaxAnimations /\ begun[a] \in AnimType
  BY <1>1, ElementsAre, EffectsAssumption
<1>3. begun[a].elem \in Element
  BY <1>2 DEF AnimType
<1>4. CASE begun[a].duration = 0
  <2>1. /\ anims' = AtOnce(begun, a) /\ running' = <<Completing(a)>> \o frames
        /\ timers' = timers /\ timerId' = timerId
    BY <1>1, <1>2, <1>4, RunIs
  <2>2. AnimsTyped(anims') /\ Len(anims') = Len(begun)
    <3>1. AnimsTyped(begun)
      BY DEF Typed
    <3>2. AnimsTyped(AtOnce(begun, a)) /\ Len(AtOnce(begun, a)) = Len(begun)
      BY <3>1, AtOnceTyped
    <3> QED
      BY <2>1, <3>2
  <2>3. FramesTyped(running', Len(begun))
    <3>1. Completing(a) \in Frames /\ FrameTyped(Completing(a), Len(begun))
      BY <1>2, CompletingIs DEF FrameTyped
    <3> QED
      BY <1>1, <2>1, <3>1, PushTyped
  <2> QED
    BY <2>1, <2>2, <2>3 DEF Typed
<1>5. CASE begun[a].duration # 0
  <2>1. anims' = begun /\ running' = frames /\ timerId' = TRUE /\ Timing(timers, begun, a, timers')
    BY <1>1, <1>2, <1>5, RunIs
  <2>2. TimersTyped(timers', Len(begun))
    BY <1>2, <2>1 DEF Typed, TimersTyped, Timing
  <2> QED
    BY <1>3, <2>1, <2>2 DEF Typed, IntervalTyped
<1> QED
  BY <1>4, <1>5

\* dequeue, in three cases.
LEMMA DequeueIs ==
    ASSUME NEW q, NEW e, NEW begun, NEW frames, NEW due, dequeue(q, e, begun, frames, due)
    PROVE  /\ Rest(q[e]) = <<>> =>
                 /\ queue' = [q EXCEPT ![e] = <<>>] /\ running' = Forgotten(frames, e, "empty")
                 /\ anims' = begun /\ delays' = due /\ timers' = timers /\ timerId' = timerId
           /\ Rest(q[e]) # <<>> => queue' = [q EXCEPT ![e] = Taken(q[e])]
           /\ Rest(q[e]) # <<>> /\ Head(Rest(q[e])) = Delay =>
                 /\ delays' = [due EXCEPT ![e] = @ + 1] /\ running' = <<Dequeuing(e)>> \o frames
                 /\ anims' = begun /\ timers' = timers /\ timerId' = timerId
           /\ Rest(q[e]) # <<>> /\ Head(Rest(q[e])) # Delay =>
                 Run(Head(Rest(q[e])), begun, <<Dequeuing(e)>> \o frames) /\ delays' = due
BY DEF dequeue, Rest, Taken

LEMMA DequeueTyped ==
    ASSUME NEW q, NEW e \in Element, NEW begun, NEW frames, NEW due,
           Typed(q, begun, timers, frames, due), IntervalTyped(timerId), dequeue(q, e, begun, frames, due)
    PROVE  Typed(queue', anims', timers', running', delays') /\ Len(anims') = Len(begun) /\ IntervalTyped(timerId')
<1>1. /\ QueuesTyped(q, Len(begun)) /\ AnimsTyped(begun) /\ FramesTyped(frames, Len(begun))
      /\ due \in [Element -> Nat] /\ begun \in Seq(AnimType) /\ Len(begun) \in Nat
  BY DEF Typed, AnimsTyped
<1>0. /\ Rest(q[e]) = <<>> =>
            /\ queue' = [q EXCEPT ![e] = <<>>] /\ running' = Forgotten(frames, e, "empty")
            /\ anims' = begun /\ delays' = due /\ timers' = timers /\ timerId' = timerId
      /\ Rest(q[e]) # <<>> => queue' = [q EXCEPT ![e] = Taken(q[e])]
      /\ Rest(q[e]) # <<>> /\ Head(Rest(q[e])) = Delay =>
            /\ delays' = [due EXCEPT ![e] = @ + 1] /\ running' = <<Dequeuing(e)>> \o frames
            /\ anims' = begun /\ timers' = timers /\ timerId' = timerId
      /\ Rest(q[e]) # <<>> /\ Head(Rest(q[e])) # Delay =>
            Run(Head(Rest(q[e])), begun, <<Dequeuing(e)>> \o frames) /\ delays' = due
  <2>1. dequeue(q, e, begun, frames, due)
    OBVIOUS
  <2> QED
    BY ONLY <2>1, DequeueIs
<1>2. CASE Rest(q[e]) = <<>>
  <2>1. QueuesTyped([q EXCEPT ![e] = <<>>], Len(begun))
    BY <1>1, ClearedTyped
  <2>2. FramesTyped(Forgotten(frames, e, "empty"), Len(begun))
    BY <1>1, ForgottenTyped
  <2>3. TimersTyped(timers, Len(begun))
    BY DEF Typed
  <2> QED
    BY <1>0, <1>1, <1>2, <2>1, <2>2, <2>3 DEF Typed
<1>3. CASE Rest(q[e]) # <<>>
  <2> DEFINE what == Head(Rest(q[e]))
             frames2 == <<Dequeuing(e)>> \o frames
  <2>1. QueuesTyped(queue', Len(begun)) /\ what \in Delay .. MaxAnimations /\ what <= Len(begun) /\ what # InProgress
    <3>1. QueuesTyped([q EXCEPT ![e] = Taken(q[e])], Len(begun))
          /\ what \in Delay .. MaxAnimations /\ what <= Len(begun) /\ what # InProgress
      BY <1>1, <1>3, TakenTyped
    <3> QED
      BY <1>0, <1>3, <3>1
  <2>2. FramesTyped(frames2, Len(begun))
    <3>1. Dequeuing(e) \in Frames /\ FrameTyped(Dequeuing(e), Len(begun))
      BY DequeuingIs DEF FrameTyped
    <3> QED
      BY <1>1, <3>1, PushTyped
  <2>3. CASE what = Delay
    <3>1. delays' \in [Element -> Nat]
      BY <1>1, <1>3, <1>0, <2>3
    <3> QED
      BY <1>1, <1>3, <2>1, <2>2, <2>3, <1>0, <3>1 DEF Typed
  <2>4. CASE what # Delay
    <3>1. Run(what, begun, frames2) /\ delays' = due
      BY <1>3, <1>0, <2>4
    <3>2. Typed(queue', begun, timers, frames2, due)
      BY <1>1, <2>1, <2>2 DEF Typed
    <3> HIDE DEF what, frames2
    <3>3. what \in DOMAIN begun
      BY <1>1, <2>1, <2>4, ElementsAre, EffectsAssumption DEF Delay, InProgress
    <3>4. Typed(queue', anims', timers', running', due) /\ Len(anims') = Len(begun) /\ IntervalTyped(timerId')
      BY <3>1, <3>2, <3>3, RunTyped
    <3> QED
      BY <3>1, <3>4
  <2> QED
    BY <2>3, <2>4
<1> QED
  BY <1>2, <1>3

LEMMA TypedNow ==
    ASSUME TypesInv
    PROVE  /\ manner \in Manners /\ Len(anims) <= manner.animations /\ delayed \in 0 .. MaxDelays
           /\ QueuesTyped(queue, Len(anims)) /\ AnimsTyped(anims) /\ TimersTyped(timers, Len(anims))
           /\ FramesTyped(running, Len(anims)) /\ delays \in [Element -> Nat]
           /\ IntervalTyped(timerId) /\ Typed(queue, anims, timers, running, delays)
           /\ anims \in Seq(AnimType) /\ timers \in Seq(TimerType) /\ running \in Seq(Frames)
           /\ Len(anims) \in Nat /\ Len(anims) <= MaxAnimations
           /\ \A a \in DOMAIN anims : anims[a] \in AnimType /\ a \in 1 .. MaxAnimations
<1>1. anims \in Seq(AnimType) /\ Len(anims) <= MaxAnimations
  BY DEF TypesInv, Typed, AnimsTyped
<1>2. /\ Len(anims) \in Nat
      /\ \A a \in DOMAIN anims : anims[a] \in AnimType /\ a \in 1 .. MaxAnimations
  BY <1>1, ElementsAre, EffectsAssumption
<1> QED
  BY <1>1, <1>2 DEF TypesInv, Typed, TimersTyped, FramesTyped

LEMMA TopIs ==
    ASSUME TypesInv, running # <<>>
    PROVE  /\ TopFrame \in Frames /\ FramesTyped(LowerFrames, Len(anims))
           /\ TopFrame.fn \in {"tick", "stop"} => TopFrame \in LoopType
           /\ TopFrame.fn = "dequeue" => TopFrame \in DequeueType
           /\ TopFrame.fn = "complete" => TopFrame \in CompleteType /\ TopFrame.anim \in DOMAIN anims
           /\ TopFrame = running[1] /\ 1 \in DOMAIN running /\ FrameTyped(TopFrame, Len(anims))
<1>1. FramesTyped(running, Len(anims)) /\ running \in Seq(Frames) /\ anims \in Seq(AnimType)
  BY TypedNow
<1>2. /\ TopFrame \in Frames /\ FramesTyped(LowerFrames, Len(anims))
      /\ FrameTyped(TopFrame, Len(anims))
  BY <1>1, PopTyped DEF TopFrame, LowerFrames
<1>3. TopFrame.fn = "complete" => TopFrame \in CompleteType
  BY <1>2, FrameIs
<1>4. TopFrame.fn = "complete" => TopFrame.anim \in DOMAIN anims
  BY <1>1, <1>2, <1>3, ElementsAre, EffectsAssumption DEF CompleteType, FrameTyped
<1>5. TopFrame = running[1] /\ 1 \in DOMAIN running
  BY <1>1, TailIs DEF TopFrame
<1> QED
  BY <1>2, <1>3, <1>4, <1>5, FrameIs

\* The call on top goes on.
LEMMA OnTopTyped ==
    ASSUME TypesInv, running # <<>>, NEW f \in Frames, FrameTyped(f, Len(anims))
    PROVE  FramesTyped(<<f>> \o LowerFrames, Len(anims))
BY TopIs, PushTyped

LEMMA LoopTyped ==
    ASSUME TypesInv, running # <<>>, TopFrame.fn \in {"tick", "stop"}
    PROVE  /\ TopFrame.i \in Nat /\ (TopFrame.fn = "tick" \/ TopFrame.over => TopFrame.i > 0)
           /\ \A i \in Nat, over \in BOOLEAN :
                 /\ over /\ TopFrame.i > 0 => FramesTyped(<<[TopFrame EXCEPT !.over = over]>> \o LowerFrames, Len(anims))
                 /\ ~ over => FramesTyped(<<[TopFrame EXCEPT !.over = over]>> \o LowerFrames, Len(anims))
                 /\ i > 0 \/ (TopFrame.fn = "stop" /\ ~ TopFrame.over) =>
                       FramesTyped(<<[TopFrame EXCEPT !.i = i]>> \o LowerFrames, Len(anims))
                 /\ i > 0 \/ (TopFrame.fn = "stop" /\ ~ over) =>
                       FramesTyped(<<[TopFrame EXCEPT !.over = over, !.i = i]>> \o LowerFrames, Len(anims))
<1>1. TopFrame \in LoopType /\ FrameTyped(TopFrame, Len(anims))
  BY TopIs
<1>2. ASSUME NEW f \in LoopType, f.i > 0 \/ (f.fn = "stop" /\ ~ f.over)
      PROVE  FramesTyped(<<f>> \o LowerFrames, Len(anims))
  <2>1. f \in Frames /\ FrameTyped(f, Len(anims))
    BY <1>2, AmongFrames DEF LoopType, FrameTyped
  <2> QED
    BY <2>1, OnTopTyped
<1>4. TopFrame.i \in Nat /\ (TopFrame.fn = "tick" \/ TopFrame.over => TopFrame.i > 0)
  BY <1>1 DEF LoopType, FrameTyped
<1>3. ASSUME NEW i \in Nat, NEW over \in BOOLEAN
      PROVE  /\ over /\ TopFrame.i > 0 => FramesTyped(<<[TopFrame EXCEPT !.over = over]>> \o LowerFrames, Len(anims))
             /\ ~ over => FramesTyped(<<[TopFrame EXCEPT !.over = over]>> \o LowerFrames, Len(anims))
             /\ i > 0 \/ (TopFrame.fn = "stop" /\ ~ TopFrame.over) =>
                   FramesTyped(<<[TopFrame EXCEPT !.i = i]>> \o LowerFrames, Len(anims))
             /\ i > 0 \/ (TopFrame.fn = "stop" /\ ~ over) =>
                   FramesTyped(<<[TopFrame EXCEPT !.over = over, !.i = i]>> \o LowerFrames, Len(anims))
  <2>1. /\ [TopFrame EXCEPT !.over = over] \in LoopType /\ [TopFrame EXCEPT !.i = i] \in LoopType
        /\ [TopFrame EXCEPT !.over = over, !.i = i] \in LoopType
        /\ [TopFrame EXCEPT !.over = over].over = over /\ [TopFrame EXCEPT !.i = i].over = TopFrame.over
        /\ [TopFrame EXCEPT !.over = over, !.i = i].over = over
        /\ [TopFrame EXCEPT !.over = over].i = TopFrame.i /\ [TopFrame EXCEPT !.i = i].i = i
        /\ [TopFrame EXCEPT !.over = over, !.i = i].i = i
        /\ [TopFrame EXCEPT !.over = over].fn = TopFrame.fn /\ [TopFrame EXCEPT !.i = i].fn = TopFrame.fn
        /\ [TopFrame EXCEPT !.over = over, !.i = i].fn = TopFrame.fn
    BY <1>1 DEF LoopType
  <2>2. ~ over => [TopFrame EXCEPT !.over = over].i > 0 \/ ([TopFrame EXCEPT !.over = over].fn = "stop" /\ ~ over)
    BY <1>1, <1>4, <2>1 DEF LoopType
  <2> QED
    BY <1>2, <2>1, <2>2
<1> QED
  BY <1>3, <1>4

LEMMA LastStepTyped ==
    ASSUME TypesInv, NEW i \in DOMAIN timers, NEW frames, FramesTyped(frames, Len(anims)), LastStep(i, frames)
    PROVE  AnimsTyped(anims') /\ Len(anims') = Len(anims) /\ FramesTyped(running', Len(anims))
<1> DEFINE a    == timers[i].anim
           done == anims[a].curAnim \cup {timers[i].prop}
           c    == [anims[a] EXCEPT !.curAnim = done]
<1>1. anims' = [anims EXCEPT ![a] = c]
      /\ running' = IF done = anims[a].props THEN <<Completing(a)>> \o frames ELSE frames
  BY DEF LastStep
<1>2. anims \in Seq(AnimType) /\ timers[i] \in TimerType /\ a <= Len(anims) /\ Len(anims) \in Nat
      /\ Len(anims) <= MaxAnimations
  BY TypedNow, ElementsAre DEF TimersTyped
<1>3. a \in DOMAIN anims /\ a \in 1 .. MaxAnimations
  BY <1>2, ElementsAre, EffectsAssumption DEF TimerType
<1>4. anims[a] \in AnimType
  BY <1>3, TypedNow
<1>5. c \in AnimType /\ c.props = anims[a].props
  BY <1>2, <1>4 DEF AnimType, TimerType
<1>6. AnimsTyped(anims') /\ Len(anims') = Len(anims)
  <2>1. /\ anims' \in Seq(AnimType) /\ Len(anims') = Len(anims) /\ DOMAIN anims' = DOMAIN anims
        /\ \A b \in DOMAIN anims : anims'[b] = IF b = a THEN c ELSE anims[b]
    <3> HIDE DEF a, c
    <3> QED
      BY ONLY <1>1, <1>2, <1>3, <1>5, ChangeIs
  <2>2. \A b \in DOMAIN anims : anims[b].props # {}
    BY TypedNow DEF AnimsTyped
  <2> HIDE DEF c
  <2> QED
    BY <2>1, <2>2, <1>2, <1>5 DEF AnimsTyped
<1>7. FramesTyped(<<Completing(a)>> \o frames, Len(anims))
  <2>1. Completing(a) \in Frames /\ FrameTyped(Completing(a), Len(anims))
    BY <1>2, <1>3, CompletingIs DEF FrameTyped
  <2> QED
    BY <2>1, PushTyped
<1> QED
  BY <1>1, <1>6, <1>7

LEMMA SpliceTyped ==
    ASSUME TypesInv, NEW i, Splice(i)
    PROVE  TimersTyped(timers', Len(anims))
<1>1. TimersTyped(timers, Len(anims)) /\ timers \in Seq(TimerType)
  BY TypedNow
<1>2. CASE i \in DOMAIN timers
  <2>1. timers' = RemoveAt(timers, i)
    BY <1>2 DEF Splice
  <2>2. /\ RemoveAt(timers, i) \in Seq(TimerType)
        /\ \A j \in DOMAIN RemoveAt(timers, i) :
              /\ j \in DOMAIN timers /\ j + 1 \in DOMAIN timers
              /\ RemoveAt(timers, i)[j] = IF j < i THEN timers[j] ELSE timers[j + 1]
    BY <1>1, <1>2, RemoveAtIs
  <2> QED
    BY <1>1, <2>1, <2>2 DEF TimersTyped
<1>3. CASE i \notin DOMAIN timers
  BY <1>1, <1>3 DEF Splice
<1> QED
  BY <1>2, <1>3

\* What is the same after a step, and what is typed.
LEMMA TypesFollow ==
    ASSUME TypesInv, manner' = manner, QueuesTyped(queue', Len(anims')), AnimsTyped(anims'),
           TimersTyped(timers', Len(anims')), FramesTyped(running', Len(anims')),
           delays' \in [Element -> Nat], IntervalTyped(timerId'), delayed' \in 0 .. MaxDelays,
           Len(anims') <= manner.animations
    PROVE  TypesInv'
BY DEF TypesInv, Typed

LEMMA DequeuedTyped == ASSUME TypesInv, Dequeued PROVE TypesInv'
<1>1. /\ running # <<>> /\ TopFrame.fn = "dequeue"
      /\ queue' = queue \/ queue' = [queue EXCEPT ![TopFrame.elem] = <<>>]
      /\ running' = LowerFrames \/ running' = Forgotten(LowerFrames, TopFrame.elem, "full")
      /\ UNCHANGED <<manner, anims, timers, timerId, delays, delayed>>
  BY DEF Dequeued, In
<1>2. TopFrame.elem \in Element
  BY <1>1, TopIs DEF DequeueType
<1>3. FramesTyped(LowerFrames, Len(anims))
  BY <1>1, TopIs
<1>4. QueuesTyped(queue', Len(anims))
  <2>1. QueuesTyped(queue, Len(anims))
    BY TypedNow
  <2>2. QueuesTyped([queue EXCEPT ![TopFrame.elem] = <<>>], Len(anims))
    BY <1>2, <2>1, ClearedTyped
  <2> QED
    BY <1>1, <2>1, <2>2
<1>5. FramesTyped(running', Len(anims))
  BY <1>1, <1>2, <1>3, ForgottenTyped
<1> QED
  BY <1>1, <1>4, <1>5, TypedNow, TypesFollow

LEMMA CompleteDequeueTyped == ASSUME TypesInv, CompleteDequeue PROVE TypesInv'
<1> DEFINE a   == TopFrame.anim
           now == <<[TopFrame EXCEPT !.pc = "callback"]>> \o LowerFrames
<1>1. /\ running # <<>> /\ TopFrame.fn = "complete" /\ UNCHANGED <<manner, delayed>>
      /\ IF anims[a].queued THEN dequeue(queue, anims[a].elem, anims, now, delays)
         ELSE running' = now /\ UNCHANGED <<queue, anims, timers, timerId, delays>>
  BY DEF CompleteDequeue, In
<1>2. TopFrame \in CompleteType /\ a \in DOMAIN anims
  BY <1>1, TopIs
<1>3. FramesTyped(now, Len(anims))
  <2>1. [TopFrame EXCEPT !.pc = "callback"] \in CompleteType /\ [TopFrame EXCEPT !.pc = "callback"].anim = a
    BY <1>2, CompleteGoesOn
  <2>2. [TopFrame EXCEPT !.pc = "callback"] \in Frames /\ a <= Len(anims)
    BY <1>2, <2>1, AmongFrames, TypedNow, ElementsAre
  <2>3. FrameTyped([TopFrame EXCEPT !.pc = "callback"], Len(anims))
    BY <2>1, <2>2 DEF FrameTyped, CompleteType
  <2> QED
    BY <1>1, <2>2, <2>3, OnTopTyped
<1>4. CASE anims[a].queued
  <2>1. anims[a].elem \in Element
    BY <1>2, TypedNow DEF AnimType
  <2>2. Typed(queue, anims, timers, now, delays) /\ IntervalTyped(timerId)
    BY <1>3, TypedNow DEF Typed
  <2>3. dequeue(queue, anims[a].elem, anims, now, delays)
    BY <1>1, <1>4
  <2> HIDE DEF a, now
  <2>4. Typed(queue', anims', timers', running', delays') /\ Len(anims') = Len(anims) /\ IntervalTyped(timerId')
    BY <2>1, <2>2, <2>3, DequeueTyped
  <2> QED
    BY <1>1, <2>4, TypedNow DEF TypesInv
<1>5. CASE ~ anims[a].queued
  BY <1>1, <1>3, <1>5, TypedNow, TypesFollow
<1> QED
  BY <1>4, <1>5

\* The callback was called.
Ended(an, a) == [an EXCEPT ![a].ended = an[a].ended + 1]

LEMMA EndedIs ==
    ASSUME NEW an \in Seq(AnimType), NEW a \in DOMAIN an
    PROVE  /\ Ended(an, a) \in Seq(AnimType) /\ Len(Ended(an, a)) = Len(an) /\ DOMAIN Ended(an, a) = DOMAIN an
           /\ \A b \in DOMAIN an : b # a => Ended(an, a)[b] = an[b]
           /\ Ended(an, a)[a].ended = an[a].ended + 1 /\ an[a].ended \in Nat
           /\ \A b \in DOMAIN an :
                 /\ Ended(an, a)[b].elem = an[b].elem /\ Ended(an, a)[b].queued = an[b].queued
                 /\ Ended(an, a)[b].props = an[b].props /\ Ended(an, a)[b].curAnim = an[b].curAnim
                 /\ Ended(an, a)[b].duration = an[b].duration
<1> DEFINE c == [an[a] EXCEPT !.ended = an[a].ended + 1]
<1>1. an[a] \in AnimType
  BY ElementsAre
<1>2. /\ c \in AnimType /\ c.ended = an[a].ended + 1 /\ an[a].ended \in Nat
      /\ c.elem = an[a].elem /\ c.queued = an[a].queued /\ c.props = an[a].props /\ c.curAnim = an[a].curAnim
      /\ c.duration = an[a].duration
  <2>1. an[a].ended \in Nat /\ an[a].ended + 1 \in Nat
    BY <1>1 DEF AnimType
  <2> QED
    BY ONLY <1>1, <2>1 DEF AnimType
<1>3. Ended(an, a) = [an EXCEPT ![a] = c]
  BY DEF Ended
<1> HIDE DEF c
<1>4. /\ Ended(an, a) \in Seq(AnimType) /\ Len(Ended(an, a)) = Len(an) /\ DOMAIN Ended(an, a) = DOMAIN an
      /\ \A b \in DOMAIN an : Ended(an, a)[b] = IF b = a THEN c ELSE an[b]
  BY <1>2, <1>3, ChangeIs
<1> QED
  BY <1>2, <1>4

LEMMA CompleteCallbackTyped == ASSUME TypesInv, CompleteCallback PROVE TypesInv'
<1> DEFINE a   == TopFrame.anim
           now == <<[TopFrame EXCEPT !.pc = "page"]>> \o LowerFrames
<1>1. /\ running # <<>> /\ TopFrame.fn = "complete" /\ anims' = Ended(anims, a) /\ running' = now
      /\ UNCHANGED <<manner, queue, timers, timerId, delays, delayed>>
  BY DEF CompleteCallback, In, Ended
<1>2. TopFrame \in CompleteType /\ a \in DOMAIN anims
  BY <1>1, TopIs
<1>3. FramesTyped(now, Len(anims))
  <2>1. [TopFrame EXCEPT !.pc = "page"] \in CompleteType /\ [TopFrame EXCEPT !.pc = "page"].anim = a
    BY <1>2, CompleteGoesOn
  <2>2. [TopFrame EXCEPT !.pc = "page"] \in Frames /\ a <= Len(anims)
    BY <1>2, <2>1, AmongFrames, TypedNow, ElementsAre
  <2>3. FrameTyped([TopFrame EXCEPT !.pc = "page"], Len(anims))
    BY <2>1, <2>2 DEF FrameTyped, CompleteType
  <2> QED
    BY <1>1, <2>2, <2>3, OnTopTyped
<1>4. /\ Ended(anims, a) \in Seq(AnimType) /\ Len(Ended(anims, a)) = Len(anims)
      /\ DOMAIN Ended(anims, a) = DOMAIN anims
      /\ \A b \in DOMAIN anims : Ended(anims, a)[b].props = anims[b].props
  BY <1>2, TypedNow, EndedIs
<1>5. AnimsTyped(Ended(anims, a)) /\ Len(Ended(anims, a)) = Len(anims)
  BY <1>4, TypedNow DEF AnimsTyped
<1> QED
  BY <1>1, <1>3, <1>5, TypedNow, TypesFollow

LEMMA ReturnTyped == ASSUME TypesInv, CompleteReturn \/ TickEnd PROVE TypesInv'
<1>1. /\ running # <<>> /\ running' = LowerFrames
      /\ UNCHANGED <<manner, queue, anims, timers, delays, delayed>>
      /\ timerId' = timerId \/ timerId' = (timers # <<>>)
  BY DEF CompleteReturn, TickEnd, In
<1>2. FramesTyped(LowerFrames, Len(anims))
  BY <1>1, TopIs
<1>3. timers # <<>> => Element # {}
  <2> SUFFICES ASSUME timers # <<>> PROVE Element # {}
    OBVIOUS
  <2>1. 1 \in DOMAIN timers /\ timers[1] \in TimerType /\ timers[1].anim <= Len(anims)
    BY TypedNow, TailIs, ElementsAre DEF TimersTyped
  <2>2. timers[1].anim \in DOMAIN anims
    BY <2>1, TypedNow, ElementsAre, EffectsAssumption DEF TimerType
  <2>3. anims[timers[1].anim].elem \in Element
    BY <2>2, TypedNow DEF AnimType
  <2> QED
    BY <2>3
<1>4. IntervalTyped(timerId')
  <2>1. CASE timerId' = timerId
    BY <2>1, TypedNow
  <2>2. CASE timerId' = (timers # <<>>)
    <3>1. IntervalTyped(timers # <<>>)
      BY <1>3 DEF IntervalTyped
    <3> QED
      BY <2>2, <3>1
  <2> QED
    BY <1>1, <2>1, <2>2
<1> QED
  BY <1>1, <1>2, <1>4, TypedNow, TypesFollow

LEMMA TickStartTyped == ASSUME TypesInv, TickStart PROVE TypesInv'
<1> DEFINE f == [fn |-> "tick", i |-> 1, over |-> FALSE, elem |-> CHOOSE e \in Element : TRUE, toEnd |-> FALSE]
<1>1. /\ timerId /\ running' = <<f>> /\ UNCHANGED <<manner, queue, anims, timers, timerId, delays, delayed>>
  BY DEF TickStart
<1>2. (CHOOSE e \in Element : TRUE) \in Element
  BY <1>1, TypedNow DEF IntervalTyped
<1>3. f \in Frames /\ FrameTyped(f, Len(anims))
  BY <1>2, AmongFrames DEF LoopType, FrameTyped
<1> HIDE DEF f
<1>4. FramesTyped(<<f>>, Len(anims))
  BY <1>3 DEF FramesTyped
<1> QED
  BY <1>1, <1>4, TypedNow, TypesFollow

LEMMA TickStepTyped == ASSUME TypesInv, TickStep PROVE TypesInv'
<1> DEFINE i == TopFrame.i
<1>1. /\ running # <<>> /\ TopFrame.fn = "tick" /\ i <= Len(timers)
      /\ UNCHANGED <<manner, queue, timerId, delays, delayed>>
      /\ IF timers[i].left > 0
         THEN /\ timers' = [timers EXCEPT ![i].left = @ - 1]
              /\ running' = <<[TopFrame EXCEPT !.i = @ + 1]>> \o LowerFrames
              /\ UNCHANGED anims
         ELSE LastStep(i, <<[TopFrame EXCEPT !.over = TRUE]>> \o LowerFrames) /\ UNCHANGED timers
  BY DEF TickStep, In
<1>2. i \in Nat /\ i > 0 /\ TopFrame \in LoopType
  BY <1>1, TopIs, LoopTyped
<1>3. TimersTyped(timers, Len(anims)) /\ timers \in Seq(TimerType)
  BY TypedNow
<1>4. CASE timers[i].left > 0
  <2>1. FramesTyped(running', Len(anims))
    <3>1. i + 1 \in Nat /\ i + 1 > 0
      BY <1>2
    <3>2. FramesTyped(<<[TopFrame EXCEPT !.i = i + 1]>> \o LowerFrames, Len(anims))
      BY <1>1, <3>1, LoopTyped
    <3> QED
      BY <1>1, <1>4, <3>2
  <2>2. TimersTyped(timers', Len(anims))
    <3>1. CASE i \in DOMAIN timers
      <4>1. timers[i] \in TimerType
        BY <1>3, <3>1, ElementsAre
      <4>2. [timers[i] EXCEPT !.left = @ - 1] \in TimerType /\ [timers[i] EXCEPT !.left = @ - 1].anim = timers[i].anim
        BY <1>4, <4>1 DEF TimerType
      <4>3. timers' = [timers EXCEPT ![i] = [timers[i] EXCEPT !.left = @ - 1]]
        BY <1>1, <1>4
      <4>4. PICK c \in TimerType : c = [timers[i] EXCEPT !.left = @ - 1]
        BY <4>2
      <4>5. timers' = [timers EXCEPT ![i] = c] /\ c.anim = timers[i].anim
        BY <4>2, <4>3, <4>4
      <4>6. /\ timers' \in Seq(TimerType) /\ DOMAIN timers' = DOMAIN timers
            /\ \A j \in DOMAIN timers : timers'[j] = IF j = i THEN c ELSE timers[j]
        BY ONLY <1>3, <3>1, <4>5, c \in TimerType, ChangeIs
      <4> QED
        BY <1>3, <3>1, <4>5, <4>6 DEF TimersTyped
    <3>2. CASE i \notin DOMAIN timers
      <4>1. timers' = [timers EXCEPT ![i] = [timers[i] EXCEPT !.left = @ - 1]]
        BY <1>1, <1>4
      <4>2. timers' = timers
        BY <1>3, <3>2, <4>1
      <4> QED
        BY <1>3, <4>2
    <3> QED
      BY <3>1, <3>2
  <2> QED
    BY <1>1, <1>4, <2>1, <2>2, TypedNow, TypesFollow
<1>5. CASE ~ timers[i].left > 0
  <2>1. FramesTyped(<<[TopFrame EXCEPT !.over = TRUE]>> \o LowerFrames, Len(anims))
    BY <1>1, <1>2, LoopTyped
  <2>2. i \in DOMAIN timers
    BY <1>1, <1>2, <1>3, ElementsAre
  <2>3. AnimsTyped(anims') /\ Len(anims') = Len(anims) /\ FramesTyped(running', Len(anims))
    BY <1>1, <1>5, <2>1, <2>2, LastStepTyped
  <2> QED
    BY <1>1, <1>5, <2>3, TypedNow, TypesFollow
<1> QED
  BY <1>4, <1>5

LEMMA SplicesTyped == ASSUME TypesInv, TickSplice \/ StopSplice PROVE TypesInv'
<1> DEFINE i == TopFrame.i
<1>1. /\ running # <<>> /\ TopFrame.fn \in {"tick", "stop"} /\ TopFrame.over /\ Splice(i)
      /\ UNCHANGED <<manner, queue, anims, timerId, delays, delayed>>
  BY DEF TickSplice, StopSplice, In
<1>2. i \in Nat /\ i > 0 /\ i - 1 \in Nat
  <2>1. i \in Nat /\ i > 0
    BY <1>1, LoopTyped
  <2> QED
    BY <2>1
<1>3. FramesTyped(running', Len(anims))
  <2>1. CASE TickSplice
    <3>1. running' = <<[TopFrame EXCEPT !.over = FALSE]>> \o LowerFrames
      BY <2>1 DEF TickSplice
    <3> QED
      BY <1>1, <1>2, <3>1, LoopTyped
  <2>2. CASE StopSplice
    <3>1. running' = <<[TopFrame EXCEPT !.over = FALSE, !.i = i - 1]>> \o LowerFrames /\ TopFrame.fn = "stop"
      BY <2>2 DEF StopSplice, In
    <3> QED
      BY <1>1, <1>2, <3>1, LoopTyped
  <2> QED
    BY <2>1, <2>2
<1>4. TimersTyped(timers', Len(anims))
  BY <1>1, SpliceTyped
<1> QED
  BY <1>1, <1>3, <1>4, TypedNow, TypesFollow

LEMMA StopStepTyped == ASSUME TypesInv, StopStep PROVE TypesInv'
<1> DEFINE i    == TopFrame.i
           next == <<[TopFrame EXCEPT !.i = i - 1]>> \o LowerFrames
<1>1. /\ running # <<>> /\ TopFrame.fn = "stop" /\ i > 0 /\ ~ TopFrame.over
      /\ UNCHANGED <<manner, queue, timerId, delays, delayed>>
      /\ \/ running' = next /\ UNCHANGED <<anims, timers>>
         \/ i <= Len(timers) /\ LastStep(i, <<[TopFrame EXCEPT !.over = TRUE]>> \o LowerFrames) /\ UNCHANGED timers
         \/ running' = next /\ Splice(i) /\ UNCHANGED anims
  <2>1. i \in DOMAIN timers => i > 0 /\ i <= Len(timers)
    BY TypedNow, ElementsAre
  <2> QED
    BY <2>1 DEF StopStep, In
<1>2. i \in Nat /\ i > 0 /\ i - 1 \in Nat
  <2>1. i \in Nat /\ i > 0
    BY <1>1, LoopTyped
  <2> QED
    BY <2>1
<1>3. FramesTyped(next, Len(anims)) /\ FramesTyped(<<[TopFrame EXCEPT !.over = TRUE]>> \o LowerFrames, Len(anims))
  BY <1>1, <1>2, LoopTyped
<1>4. CASE running' = next /\ UNCHANGED <<anims, timers>>
  BY <1>1, <1>3, <1>4, TypedNow, TypesFollow
<1>5. CASE i <= Len(timers) /\ LastStep(i, <<[TopFrame EXCEPT !.over = TRUE]>> \o LowerFrames) /\ UNCHANGED timers
  <2>1. i \in DOMAIN timers
    BY <1>2, <1>5, TypedNow, ElementsAre
  <2>2. AnimsTyped(anims') /\ Len(anims') = Len(anims) /\ FramesTyped(running', Len(anims))
    BY <1>3, <1>5, <2>1, LastStepTyped
  <2> QED
    BY <1>1, <1>5, <2>2, TypedNow, TypesFollow
<1>6. CASE running' = next /\ Splice(i) /\ UNCHANGED anims
  <2>1. TimersTyped(timers', Len(anims))
    BY <1>6, SpliceTyped
  <2> QED
    BY <1>1, <1>3, <1>6, <2>1, TypedNow, TypesFollow
<1> QED
  BY <1>1, <1>4, <1>5, <1>6

LEMMA StopEndTyped == ASSUME TypesInv, StopEnd PROVE TypesInv'
<1>1. /\ running # <<>> /\ TopFrame.fn = "stop" /\ UNCHANGED <<manner, delayed>>
      /\ IF TopFrame.toEnd THEN running' = LowerFrames /\ UNCHANGED <<queue, anims, timers, timerId, delays>>
         ELSE dequeue(queue, TopFrame.elem, anims, LowerFrames, delays)
  BY DEF StopEnd, In
<1>2. TopFrame.elem \in Element /\ FramesTyped(LowerFrames, Len(anims))
  BY <1>1, TopIs DEF LoopType
<1>3. CASE TopFrame.toEnd
  BY <1>1, <1>2, <1>3, TypedNow, TypesFollow
<1>4. CASE ~ TopFrame.toEnd
  <2>1. dequeue(queue, TopFrame.elem, anims, LowerFrames, delays)
    BY <1>1, <1>4
  <2>2. Typed(queue, anims, timers, LowerFrames, delays) /\ IntervalTyped(timerId)
    BY <1>2, TypedNow DEF Typed
  <2>3. Typed(queue', anims', timers', running', delays') /\ Len(anims') = Len(anims) /\ IntervalTyped(timerId')
    BY <1>2, <2>1, <2>2, DequeueTyped
  <2> QED
    BY <1>1, <2>3, TypedNow DEF TypesInv
<1> QED
  BY <1>3, <1>4

LEMMA EnqueueTyped ==
    ASSUME NEW e \in Element, NEW what, NEW begun, NEW frames,
           Typed(queue, begun, timers, frames, delays), IntervalTyped(timerId),
           what = Delay \/ what \in DOMAIN begun, enqueue(e, what, begun, frames)
    PROVE  Typed(queue', anims', timers', running', delays') /\ Len(anims') = Len(begun) /\ IntervalTyped(timerId')
<1> DEFINE q == [queue EXCEPT ![e] = Append(@, what)]
<1>1. /\ QueuesTyped(queue, Len(begun)) /\ begun \in Seq(AnimType) /\ Len(begun) \in Nat
      /\ Len(begun) <= MaxAnimations
  BY DEF Typed, AnimsTyped
<1>2. what \in Delay .. MaxAnimations /\ what <= Len(begun) /\ what # InProgress
  BY <1>1, ElementsAre, EffectsAssumption DEF Delay, InProgress
<1>3. QueuesTyped(q, Len(begun))
  BY <1>1, <1>2, AppendedTyped
<1>4. Typed(q, begun, timers, frames, delays)
  BY <1>3 DEF Typed
<1>5. CASE dequeue(q, e, begun, frames, delays)
  <2> HIDE DEF q
  <2> QED
    BY <1>4, <1>5, DequeueTyped
<1>6. CASE queue' = q /\ anims' = begun /\ running' = frames /\ UNCHANGED <<timers, timerId, delays>>
  BY <1>4, <1>6
<1> QED
  BY <1>5, <1>6 DEF enqueue

LEMMA MadeIs ==
    ASSUME TypesInv, Len(anims) < manner.animations, NEW e \in Element, NEW queued \in BOOLEAN,
           NEW props \in manner.props, NEW duration \in manner.durations
    PROVE  /\ Typed(queue, Made(e, queued, props, duration), timers, running, delays)
           /\ Len(Made(e, queued, props, duration)) = Len(anims) + 1
           /\ Len(anims) + 1 \in DOMAIN Made(e, queued, props, duration)
           /\ Len(anims) + 1 <= manner.animations
           /\ \E c \in AnimType :
                 /\ c = [elem |-> e, queued |-> queued, props |-> props, duration |-> duration, curAnim |-> {}, ended |-> 0]
                 /\ Made(e, queued, props, duration) = Append(anims, c) /\ c.props # {}
<1> DEFINE c == [elem |-> e, queued |-> queued, props |-> props, duration |-> duration, curAnim |-> {}, ended |-> 0]
<1>1. /\ props \subseteq Props /\ props # {} /\ duration \in Nat /\ manner.animations \in 0 .. MaxAnimations
  BY TypedNow, EffectsAssumption
<1>2. c \in AnimType /\ c.props # {}
  BY <1>1 DEF AnimType
<1>3. Made(e, queued, props, duration) = Append(anims, c)
  BY DEF Made
<1>4. Len(anims) \in Nat /\ Len(anims) + 1 <= manner.animations /\ Len(anims) < MaxAnimations
  BY <1>1, TypedNow, EffectsAssumption
<1> HIDE DEF c
<1>5. AnimsTyped(Append(anims, c)) /\ Len(Append(anims, c)) = Len(anims) + 1
  BY <1>2, <1>4, TypedNow, MadeTyped
<1>6. Len(anims) + 1 \in DOMAIN Append(anims, c)
  BY <1>2, <1>4, TypedNow, AppendIs
<1>7. QueuesTyped(queue, Len(anims) + 1)
  BY <1>4, TypedNow, QueuesGrow
<1>8. TimersTyped(timers, Len(anims) + 1)
  <2>1. timers \in Seq(TimerType) /\ \A i \in DOMAIN timers : timers[i].anim <= Len(anims) /\ timers[i] \in TimerType
    BY TypedNow, ElementsAre DEF TimersTyped
  <2>2. \A i \in DOMAIN timers : timers[i].anim \in Nat
    BY <2>1, EffectsAssumption DEF TimerType
  <2> QED
    BY <1>4, <2>1, <2>2 DEF TimersTyped
<1>9. FramesTyped(running, Len(anims) + 1)
  <2>1. running \in Seq(Frames) /\ \A i \in DOMAIN running : running[i] \in Frames /\ FrameTyped(running[i], Len(anims))
    BY TypedNow, ElementsAre DEF FramesTyped
  <2>2. \A i \in DOMAIN running : running[i].fn = "complete" => running[i].anim \in Nat
    BY <2>1, FrameIs, EffectsAssumption DEF CompleteType
  <2> QED
    BY <1>4, <2>1, <2>2 DEF FramesTyped, FrameTyped
<1>10. Typed(queue, Append(anims, c), timers, running, delays)
  BY <1>5, <1>7, <1>8, <1>9, TypedNow DEF Typed
<1> QED
  BY <1>2, <1>3, <1>4, <1>5, <1>6, <1>10 DEF c

LEMMA AnimateTyped == ASSUME TypesInv, NEW e \in Element, Animate(e) PROVE TypesInv'
<1>1. PICK props \in manner.props, duration \in manner.durations, queued \in BOOLEAN :
         LET begun == Made(e, queued, props, duration) IN
         \/ enqueue(e, Len(anims) + 1, begun, running)
         \/ Run(Len(anims) + 1, begun, running) /\ UNCHANGED <<queue, delays>>
  BY DEF Animate
<1>2. Len(anims) < manner.animations /\ UNCHANGED <<manner, delayed>>
  BY DEF Animate
<1> DEFINE begun == Made(e, queued, props, duration)
           a    == Len(anims) + 1
<1>3. /\ Typed(queue, begun, timers, running, delays) /\ Len(begun) = a /\ a \in DOMAIN begun
      /\ a <= manner.animations
  BY <1>2, MadeIs
<1> HIDE DEF begun
<1>4. Typed(queue', anims', timers', running', delays') /\ Len(anims') = Len(begun) /\ IntervalTyped(timerId')
  <2>1. CASE enqueue(e, a, begun, running)
    BY <1>3, <2>1, EnqueueTyped, TypedNow
  <2>2. CASE Run(a, begun, running) /\ UNCHANGED <<queue, delays>>
    <3>1. Typed(queue, anims', timers', running', delays) /\ Len(anims') = Len(begun) /\ IntervalTyped(timerId')
      BY <1>3, <2>2, RunTyped, TypedNow
    <3> QED
      BY <2>2, <3>1
  <2> QED
    BY <1>1, <2>1, <2>2 DEF begun
<1> QED
  BY <1>2, <1>3, <1>4, TypedNow DEF TypesInv

LEMMA DelayTyped ==
    ASSUME TypesInv, NEW e \in Element, DelayNext(e) \/ DelayOver(e) PROVE TypesInv'
<1>1. manner' = manner
  BY DEF DelayNext, DelayOver
<1>2. CASE DelayNext(e)
  <2>1. enqueue(e, Delay, anims, running) /\ delayed < MaxDelays /\ delayed' = delayed + 1
    BY <1>2 DEF DelayNext
  <2>2. Typed(queue', anims', timers', running', delays') /\ Len(anims') = Len(anims) /\ IntervalTyped(timerId')
    BY <2>1, EnqueueTyped, TypedNow
  <2>3. delayed' \in 0 .. MaxDelays
    BY <2>1, TypedNow, EffectsAssumption
  <2> QED
    BY <1>1, <2>2, <2>3, TypedNow DEF TypesInv
<1>3. CASE DelayOver(e)
  <2> DEFINE due == [delays EXCEPT ![e] = @ - 1]
  <2>1. delays[e] > 0 /\ dequeue(queue, e, anims, <<>>, due) /\ delayed' = delayed
    BY <1>3 DEF DelayOver
  <2>2. due \in [Element -> Nat]
    BY <2>1, TypedNow
  <2>3. Typed(queue, anims, timers, <<>>, due)
    BY <2>2, EmptyTyped, TypedNow DEF Typed
  <2> HIDE DEF due
  <2>4. Typed(queue', anims', timers', running', delays') /\ Len(anims') = Len(anims) /\ IntervalTyped(timerId')
    BY <2>1, <2>3, DequeueTyped, TypedNow
  <2> QED
    BY <1>1, <2>1, <2>4, TypedNow DEF TypesInv
<1> QED
  BY <1>2, <1>3

LEMMA ClearsTyped ==
    ASSUME TypesInv, NEW e \in Element, clearQueue(e) \/ stop(e) PROVE TypesInv'
<1>1. QueuesTyped(queue, Len(anims)) /\ QueuesTyped(Cleared(e), Len(anims))
  BY ClearedTyped, TypedNow DEF Cleared
<1>2. FramesTyped(running, Len(anims)) /\ FramesTyped(Forgotten(running, e, "full"), Len(anims))
  BY ForgottenTyped, TypedNow
<1>3. CASE clearQueue(e)
  BY <1>1, <1>2, <1>3, TypedNow, TypesFollow DEF clearQueue
<1>4. CASE stop(e)
  <2>1. PICK clears \in BOOLEAN, toEnd \in BOOLEAN :
           /\ queue' = IF clears THEN Cleared(e) ELSE queue
           /\ running' = <<[fn |-> "stop", i |-> Len(timers), over |-> FALSE, elem |-> e, toEnd |-> toEnd]>>
                             \o (IF clears THEN Forgotten(running, e, "full") ELSE running)
    BY <1>4 DEF stop
  <2> DEFINE f == [fn |-> "stop", i |-> Len(timers), over |-> FALSE, elem |-> e, toEnd |-> toEnd]
             below == IF clears THEN Forgotten(running, e, "full") ELSE running
  <2>2. f \in Frames /\ FrameTyped(f, Len(anims))
    BY TypedNow, ElementsAre, AmongFrames DEF LoopType, FrameTyped
  <2>3. FramesTyped(below, Len(anims))
    BY <1>2
  <2> HIDE DEF f, below
  <2>4. FramesTyped(<<f>> \o below, Len(anims))
    BY <2>2, <2>3, PushTyped
  <2>5. QueuesTyped(queue', Len(anims)) /\ FramesTyped(running', Len(anims))
    BY <1>1, <2>1, <2>4 DEF f, below
  <2> QED
    BY <1>4, <2>5, TypedNow, TypesFollow DEF stop
<1> QED
  BY <1>3, <1>4

LEMMA TypesStart == EffectsInit => TypesInv
<1> SUFFICES ASSUME EffectsInit PROVE TypesInv
  OBVIOUS
<1>1. /\ manner \in Manners /\ queue = [e \in Element |-> <<>>] /\ anims = <<>> /\ timers = <<>> /\ timerId = FALSE
      /\ delays = [e \in Element |-> 0] /\ delayed = 0 /\ running = <<>>
  BY DEF EffectsInit
<1>2. QueuesTyped(queue, 0)
  BY <1>1 DEF QueuesTyped
<1>3. AnimsTyped(anims) /\ Len(anims) = 0 /\ TimersTyped(timers, 0) /\ FramesTyped(running, 0)
  BY <1>1, EffectsAssumption DEF AnimsTyped, TimersTyped, FramesTyped
<1>4. delays \in [Element -> Nat] /\ IntervalTyped(timerId)
  BY <1>1 DEF IntervalTyped
<1>5. delayed \in 0 .. MaxDelays /\ manner.animations \in Nat
  BY <1>1, EffectsAssumption
<1> QED
  BY <1>1, <1>2, <1>3, <1>4, <1>5 DEF TypesInv, Typed

LEMMA TypesStep == TypesInv /\ [EffectsNext]_effectsVars => TypesInv'
<1> SUFFICES ASSUME TypesInv, [EffectsNext]_effectsVars PROVE TypesInv'
  OBVIOUS
<1>1. CASE GoesOn
  BY <1>1, DequeuedTyped, CompleteDequeueTyped, CompleteCallbackTyped, ReturnTyped, TickStepTyped,
     SplicesTyped,
     StopStepTyped, StopEndTyped DEF GoesOn
<1>2. CASE TickStart
  BY <1>2, TickStartTyped
<1>3. ASSUME NEW e \in Element, Animate(e) \/ DelayNext(e) \/ DelayOver(e) \/ clearQueue(e) \/ stop(e)
      PROVE  TypesInv'
  BY <1>3, AnimateTyped, DelayTyped, ClearsTyped
<1>4. CASE UNCHANGED effectsVars
  BY <1>4, TypedNow, TypesFollow DEF effectsVars
<1> QED
  BY <1>1, <1>2, <1>3, <1>4 DEF EffectsNext

\* What an animation, a queue or a call holds is of its type, for every page (7517-7890).
THEOREM EffectsTypedEver == EffectsSpec => []EffectsTypeOK
<1>1. TypesInv => EffectsTypeOK
  <2> SUFFICES ASSUME TypesInv PROVE EffectsTypeOK
    OBVIOUS
  <2>1. queue \in [Element -> Seq(Delay .. MaxAnimations)] /\ timerId \in BOOLEAN
    BY TypedNow DEF QueuesTyped, IntervalTyped
  <2> QED
    BY <2>1, TypedNow DEF EffectsTypeOK, AnimType, TimerType
<1> QED
  BY <1>1, TypesStart, TypesStep, PTL DEF EffectsSpec

-----------------------------------------------------------------------------
(* One animation of a queue at a time. *)

Does(m) == m.page \cup m.callbacks

\* Pages whose animations come one at a time.
Gentle(m) ==
    /\ "clear" \notin Does(m)
    /\ m.callbacks \cap {"stop", "end"} = {}
    /\ "delay" \in Does(m) => m.page \cap {"stop", "end"} = {}
    /\ 0 \in m.durations => m.callbacks \subseteq {"aside"}
    /\ "aside" \in Does(m) /\ "end" \in m.page => "animate" \notin m.callbacks

\* Whether callbacks put something into a queue.
Enqueues(m) == "animate" \in m.callbacks \/ "delay" \in m.callbacks

Timed(ts, a) == \E i \in DOMAIN ts : ts[i].anim = a
Loops(f) == f.fn \in {"tick", "stop"}

AnimSound(m, anim) ==
    /\ anim.ended <= 1
    /\ anim.ended = 1 => anim.curAnim = anim.props
    /\ "aside" \notin Does(m) => anim.queued
    /\ anim.duration \in m.durations

AnimsSound(m, an) == \A a \in DOMAIN an : AnimSound(m, an[a])

\* What waits was not started, and waits once.
Unstarted(an, ts, e, a) ==
    /\ a \in DOMAIN an /\ an[a].elem = e /\ an[a].queued /\ an[a].curAnim = {}
    /\ ~ Timed(ts, a)

QueueSound(m, s, an, ts, e) ==
    /\ \A i \in DOMAIN s : /\ s[i] > 0 => Unstarted(an, ts, e, s[i])
                           /\ s[i] = Delay => "delay" \in Does(m)
    /\ \A i, j \in DOMAIN s : s[i] = s[j] /\ s[i] > 0 => i = j

QueuesSound(m, q, an, ts) == \A e \in Element : QueueSound(m, q[e], an, ts, e)

\* A timer that is over is taken out by the loop that has called it, before any other.
Finished(an, ts, i) == ts[i].prop \in an[ts[i].anim].curAnim
Handled(fs, i) == fs # <<>> /\ Loops(fs[Len(fs)]) /\ fs[Len(fs)].over /\ fs[Len(fs)].i = i

TimersSound(an, ts, fs) ==
    /\ \A i \in DOMAIN ts : /\ ts[i].prop \in an[ts[i].anim].props
                            /\ Finished(an, ts, i) => Handled(fs, i)
    /\ \A i, j \in DOMAIN ts : ts[i].anim = ts[j].anim /\ ts[i].prop = ts[j].prop => i = j

\* The loops are at the bottom.  Nothing is called inside of dequeue but by a page whose
\* callbacks enqueue nothing, nor inside of a stop without end.
Stops(f) == f.fn = "stop" /\ ~ f.toEnd
CompleteSound(an, f) ==
    /\ an[f.anim].curAnim = an[f.anim].props
    /\ an[f.anim].ended = IF f.pc = "page" THEN 1 ELSE 0

FrameSound(m, q, an, ts, fs, i) ==
    /\ Loops(fs[i]) => i = Len(fs)
    /\ fs[i].fn = "dequeue" => /\ fs[i].array = "stored" \/ (fs[i].array = "empty" /\ q[fs[i].elem] = <<>>)
                               /\ i > 1 => ~ Enqueues(m)
    /\ fs[i].fn = "complete" => CompleteSound(an, fs[i])
    /\ fs[i].fn = "stop" => "delay" \notin Does(m) /\ (fs[i].toEnd => "end" \in m.page)
    /\ Stops(fs[i]) => /\ i = 1 /\ ~ fs[i].over
                       /\ \A j \in DOMAIN ts : an[ts[j].anim].elem = fs[i].elem => j <= fs[i].i

FramesSound(m, q, an, ts, fs) ==
    /\ \A i \in DOMAIN fs : FrameSound(m, q, an, ts, fs, i)
    /\ \A i, j \in DOMAIN fs :
          fs[i].fn = "complete" /\ fs[j].fn = "complete" /\ fs[i].anim = fs[j].anim => i = j

\* What will dequeue: animations that run or are to end.
Ends(f) == f.fn = "complete" /\ f.pc = "dequeue"
Ending(fs, a) == \E i \in DOMAIN fs : Ends(fs[i]) /\ fs[i].anim = a

Going(an, ts, fs, e) ==
    {a \in DOMAIN an : /\ an[a].queued /\ an[a].elem = e
                       /\ (Timed(ts, a) /\ an[a].curAnim # an[a].props) \/ Ending(fs, a)}

Marked(q, e) == q[e] # <<>> /\ q[e][1] = InProgress

\* The queue was cleared by a stop, which will take out what runs before anything is enqueued.
Cut(m, q, an, ts, fs, e) ==
    /\ fs # <<>> /\ fs[Len(fs)].fn = "stop" /\ fs[Len(fs)].elem = e /\ q[e] = <<>>
    /\ \A j \in DOMAIN ts : an[ts[j].anim].queued /\ an[ts[j].anim].elem = e => j <= fs[Len(fs)].i
    /\ \/ "animate" \notin m.callbacks
       \/ Len(fs) = 1
       \/ Len(fs) = 2 /\ Ends(fs[1]) /\ an[fs[1].anim].elem = e

\* One thing at most will dequeue, and while there is one the queue is marked.
Single(m, q, an, ts, fs, ds, e) ==
    /\ \A a, b \in Going(an, ts, fs, e) : a = b
    /\ ds[e] <= 1
    /\ ds[e] > 0 => "delay" \in Does(m) /\ Marked(q, e) /\ Going(an, ts, fs, e) = {}
    /\ Going(an, ts, fs, e) # {} => Marked(q, e) \/ Cut(m, q, an, ts, fs, e)

Sound(m, q, an, ts, fs, ds) ==
    /\ Typed(q, an, ts, fs, ds)
    /\ AnimsSound(m, an) /\ QueuesSound(m, q, an, ts) /\ TimersSound(an, ts, fs)
    /\ FramesSound(m, q, an, ts, fs)
    /\ \A e \in Element : Single(m, q, an, ts, fs, ds, e)

EffectsInv == TypesInv /\ (Gentle(manner) => Sound(manner, queue, anims, timers, running, delays))

-----------------------------------------------------------------------------
(* Calls that are begun and that return. *)

\* The loop at the bottom stays.
SameLoop(fs, gs) == fs # <<>> /\ Loops(fs[Len(fs)]) => gs # <<>> /\ gs[Len(gs)] = fs[Len(fs)]

\* What can be called on top of others.
Ready(m, fs) == fs # <<>> => ~ Stops(fs[1]) /\ (fs[1].fn = "dequeue" => ~ Enqueues(m))

LEMMA PushSound ==
    ASSUME NEW m, NEW q, NEW an, NEW ts, NEW fs \in Seq(Frames), NEW f \in Frames,
           FramesSound(m, q, an, ts, fs), ~ Loops(f), Ready(m, fs),
           f.fn = "dequeue" => f.array = "stored",
           f.fn = "complete" => CompleteSound(an, f),
           f.fn = "complete" => \A i \in DOMAIN fs : fs[i].fn = "complete" => fs[i].anim # f.anim
    PROVE  FramesSound(m, q, an, ts, <<f>> \o fs) /\ SameLoop(fs, <<f>> \o fs)
<1> DEFINE gs == <<f>> \o fs
<1>1. /\ gs \in Seq(Frames) /\ Len(fs) \in Nat /\ Len(gs) = Len(fs) + 1 /\ gs # <<>> /\ gs[1] = f
      /\ DOMAIN fs = 1 .. Len(fs) /\ DOMAIN gs = 1 .. Len(fs) + 1
      /\ \A i \in DOMAIN fs : gs[i + 1] = fs[i]
      /\ \A i \in DOMAIN gs : i # 1 => i - 1 \in DOMAIN fs /\ gs[i] = fs[i - 1]
  BY PushIs
<1> HIDE DEF gs
<1>2. ASSUME NEW i \in DOMAIN gs PROVE FrameSound(m, q, an, ts, gs, i)
  <2>1. CASE i = 1
    <3>1. gs[i] = f
      BY <1>1, <2>1
    <3>2. f.fn # "stop"
      BY DEF Loops
    <3> QED
      BY <2>1, <3>1, <3>2 DEF FrameSound, Stops
  <2>2. CASE i # 1
    <3>1. i - 1 \in DOMAIN fs /\ gs[i] = fs[i - 1] /\ i \in Nat /\ i - 1 \in Nat
      BY <1>1, <2>2
    <3>2. FrameSound(m, q, an, ts, fs, i - 1)
      BY <3>1 DEF FramesSound
    <3>3. Loops(gs[i]) => i = Len(gs)
      BY <1>1, <3>1, <3>2 DEF FrameSound
    <3>4. gs[i].fn = "dequeue" => ~ Enqueues(m)
      <4>1. CASE i - 1 = 1
        <5>1. fs # <<>>
          BY <3>1
        <5> QED
          BY <3>1, <4>1, <5>1 DEF Ready
      <4>2. CASE i - 1 # 1
        <5>1. i - 1 > 1
          BY <1>1, <3>1, <4>2
        <5> QED
          BY <3>1, <3>2, <5>1 DEF FrameSound
      <4> QED
        BY <4>1, <4>2
    <3>5. ~ Stops(gs[i])
      <4> SUFFICES ASSUME Stops(fs[i - 1]) PROVE FALSE
        BY <3>1
      <4>1. i - 1 = 1 /\ fs # <<>>
        BY <3>1, <3>2 DEF FrameSound
      <4> QED
        BY <4>1 DEF Ready
    <3> QED
      BY <3>1, <3>2, <3>3, <3>4, <3>5 DEF FrameSound
  <2> QED
    BY <2>1, <2>2
<1>3. ASSUME NEW i \in DOMAIN gs, NEW j \in DOMAIN gs, gs[i].fn = "complete", gs[j].fn = "complete", gs[i].anim = gs[j].anim
      PROVE  i = j
  <2>1. CASE i = 1 /\ j = 1
    BY <2>1
  <2>2. CASE i = 1 /\ j # 1
    BY <1>1, <1>3, <2>2
  <2>3. CASE i # 1 /\ j = 1
    BY <1>1, <1>3, <2>3
  <2>4. CASE i # 1 /\ j # 1
    <3>1. i - 1 = j - 1
      BY <1>1, <1>3, <2>4 DEF FramesSound
    <3> QED
      BY <1>1, <3>1
  <2> QED
    BY <2>1, <2>2, <2>3, <2>4
<1>4. SameLoop(fs, gs)
  <2> SUFFICES ASSUME fs # <<>> PROVE gs[Len(gs)] = fs[Len(fs)]
    BY <1>1 DEF SameLoop
  <2>1. Len(fs) \in DOMAIN fs
    BY <1>1
  <2> QED
    BY <1>1, <2>1
<1>5. FramesSound(m, q, an, ts, gs)
  BY <1>2, <1>3 DEF FramesSound
<1> QED
  BY <1>4, <1>5 DEF gs

LEMMA PopSound ==
    ASSUME NEW m, NEW q, NEW an, NEW ts, NEW fs \in Seq(Frames), fs # <<>>, FramesSound(m, q, an, ts, fs)
    PROVE  /\ FramesSound(m, q, an, ts, Tail(fs)) /\ Ready(m, Tail(fs))
           /\ ~ Loops(fs[1]) => SameLoop(fs, Tail(fs))
           /\ Loops(fs[1]) => Len(fs) = 1 /\ Tail(fs) = <<>>
           /\ fs[1].fn = "complete" =>
                 \A i \in DOMAIN Tail(fs) : Tail(fs)[i].fn = "complete" => Tail(fs)[i].anim # fs[1].anim
<1> DEFINE gs == Tail(fs)
<1>1. /\ gs \in Seq(Frames) /\ Len(fs) \in Nat /\ Len(fs) > 0 /\ Len(gs) = Len(fs) - 1
      /\ DOMAIN fs = 1 .. Len(fs) /\ DOMAIN gs = 1 .. Len(fs) - 1 /\ 1 \in DOMAIN fs
      /\ \A i \in DOMAIN gs : i \in Nat /\ i > 0 /\ i + 1 \in DOMAIN fs /\ gs[i] = fs[i + 1]
      /\ (Len(fs) = 1 => gs = <<>>) /\ (gs # <<>> => 1 \in DOMAIN gs)
  <2>1. gs \in Seq(Frames) /\ DOMAIN gs = 1 .. Len(fs) - 1 /\ Len(fs) \in Nat /\ Len(fs) > 0
    BY TailIs
  <2>2. Len(gs) = Len(fs) - 1
    BY <2>1, ElementsAre
  <2> QED
    BY <2>1, <2>2, TailIs
<1> HIDE DEF gs
<1>2. ASSUME NEW i \in DOMAIN gs
      PROVE  FrameSound(m, q, an, ts, gs, i) /\ ~ Stops(gs[i]) /\ (gs[i].fn = "dequeue" => ~ Enqueues(m))
  <2>1. FrameSound(m, q, an, ts, fs, i + 1) /\ gs[i] = fs[i + 1] /\ i \in Nat /\ i + 1 > 1
    BY <1>1 DEF FramesSound
  <2>2. Loops(gs[i]) => i = Len(gs)
    BY <1>1, <2>1 DEF FrameSound
  <2>3. ~ Stops(gs[i]) /\ (gs[i].fn = "dequeue" => ~ Enqueues(m))
    BY <2>1 DEF FrameSound
  <2> QED
    BY <2>1, <2>2, <2>3 DEF FrameSound
<1>3. ASSUME NEW i \in DOMAIN gs, NEW j \in DOMAIN gs, gs[i].fn = "complete", gs[j].fn = "complete", gs[i].anim = gs[j].anim
      PROVE  i = j
  <2>1. i + 1 = j + 1
    BY <1>1, <1>3 DEF FramesSound
  <2> QED
    BY <1>1, <2>1
<1>4. FramesSound(m, q, an, ts, gs)
  BY <1>2, <1>3 DEF FramesSound
<1>5. Ready(m, gs)
  BY <1>1, <1>2 DEF Ready
<1>6. ~ Loops(fs[1]) => SameLoop(fs, gs)
  <2> SUFFICES ASSUME ~ Loops(fs[1]), Loops(fs[Len(fs)]) PROVE gs # <<>> /\ gs[Len(gs)] = fs[Len(fs)]
    BY DEF SameLoop
  <2>1. Len(fs) # 1
    OBVIOUS
  <2>2. Len(gs) \in DOMAIN gs /\ Len(gs) + 1 = Len(fs)
    BY <1>1, <2>1
  <2> QED
    BY <1>1, <2>2
<1>7. Loops(fs[1]) => Len(fs) = 1 /\ gs = <<>>
  BY <1>1 DEF FramesSound, FrameSound
<1>8. fs[1].fn = "complete" => \A i \in DOMAIN gs : gs[i].fn = "complete" => gs[i].anim # fs[1].anim
  <2> SUFFICES ASSUME NEW i \in DOMAIN gs, fs[1].fn = "complete", gs[i].fn = "complete", gs[i].anim = fs[1].anim PROVE FALSE
    OBVIOUS
  <2>1. i + 1 = 1
    BY <1>1 DEF FramesSound
  <2> QED
    BY <1>1, <2>1
<1> QED
  BY <1>4, <1>5, <1>6, <1>7, <1>8 DEF gs

\* Which ones will dequeue, by what is called and has returned.
LEMMA PushEnding ==
    ASSUME NEW fs \in Seq(Frames), NEW f \in Frames, NEW a
    PROVE  Ending(<<f>> \o fs, a) <=> Ending(fs, a) \/ (Ends(f) /\ f.anim = a)
<1> DEFINE gs == <<f>> \o fs
<1>1. /\ gs[1] = f /\ DOMAIN gs = 1 .. Len(fs) + 1 /\ DOMAIN fs = 1 .. Len(fs) /\ Len(fs) \in Nat
      /\ \A i \in DOMAIN fs : gs[i + 1] = fs[i]
      /\ \A i \in DOMAIN gs : i # 1 => i - 1 \in DOMAIN fs /\ gs[i] = fs[i - 1]
  BY PushIs
<1> HIDE DEF gs
<1>2. ASSUME Ending(gs, a) PROVE Ending(fs, a) \/ (Ends(f) /\ f.anim = a)
  <2>1. PICK i \in DOMAIN gs : Ends(gs[i]) /\ gs[i].anim = a
    BY <1>2 DEF Ending
  <2> QED
    BY <1>1, <2>1 DEF Ending
<1>3. ASSUME Ending(fs, a) PROVE Ending(gs, a)
  <2>1. PICK i \in DOMAIN fs : Ends(fs[i]) /\ fs[i].anim = a
    BY <1>3 DEF Ending
  <2>2. i + 1 \in DOMAIN gs /\ gs[i + 1] = fs[i]
    BY <1>1, <2>1
  <2> QED
    BY <2>1, <2>2 DEF Ending
<1>4. ASSUME Ends(f), f.anim = a PROVE Ending(gs, a)
  BY <1>1, <1>4 DEF Ending
<1>5. Ending(gs, a) <=> Ending(fs, a) \/ (Ends(f) /\ f.anim = a)
  BY <1>2, <1>3, <1>4
<1> QED
  BY <1>5 DEF gs

LEMMA PopEnding ==
    ASSUME NEW fs \in Seq(Frames), fs # <<>>, NEW a
    PROVE  Ending(fs, a) <=> Ending(Tail(fs), a) \/ (Ends(fs[1]) /\ fs[1].anim = a)
<1>1. Tail(fs) \in Seq(Frames) /\ fs[1] \in Frames /\ fs = <<fs[1]>> \o Tail(fs)
  OBVIOUS
<1> QED
  <2> DEFINE head == fs[1]
             rest == Tail(fs)
  <2>1. head \in Frames /\ rest \in Seq(Frames) /\ fs = <<head>> \o rest
    BY ONLY <1>1
  <2> HIDE DEF head, rest
  <2>2. Ending(<<head>> \o rest, a) <=> Ending(rest, a) \/ (Ends(head) /\ head.anim = a)
    BY ONLY <2>1, PushEnding
  <2>3. Ending(fs, a) <=> Ending(rest, a) \/ (Ends(head) /\ head.anim = a)
    BY ONLY <2>1, <2>2
  <2> QED
    BY ONLY <2>3 DEF head, rest

LEMMA GoingFewer ==
    ASSUME NEW an, NEW ts, NEW fs, NEW ts1, NEW an1, NEW fs1, NEW e, DOMAIN an1 = DOMAIN an,
           \A a \in DOMAIN an : /\ an1[a].queued = an[a].queued /\ an1[a].elem = an[a].elem
                                /\ an1[a].props = an[a].props
                                /\ Timed(ts1, a) /\ an1[a].curAnim # an1[a].props => Timed(ts, a) /\ an[a].curAnim # an[a].props
                                /\ Ending(fs1, a) => Ending(fs, a)
    PROVE  Going(an1, ts1, fs1, e) \subseteq Going(an, ts, fs, e)
BY DEF Going

LEMMA SingleFollows ==
    ASSUME NEW m, NEW q, NEW an, NEW ts, NEW fs, NEW ds, NEW e, Single(m, q, an, ts, fs, ds, e),
           NEW q1, NEW an1, NEW ts1, NEW fs1, NEW ds1, ds1[e] = ds[e] \/ ds1[e] = 0,
           Going(an1, ts1, fs1, e) \subseteq Going(an, ts, fs, e),
           Marked(q, e) => Marked(q1, e),
           Going(an1, ts1, fs1, e) # {} /\ Cut(m, q, an, ts, fs, e) => Marked(q1, e) \/ Cut(m, q1, an1, ts1, fs1, e)
    PROVE  Single(m, q1, an1, ts1, fs1, ds1, e)
<1>1. \A a, b \in Going(an1, ts1, fs1, e) : a = b
  BY DEF Single
<1>2. ds1[e] <= 1 /\ (ds1[e] > 0 => ds[e] > 0)
  BY DEF Single
<1>3. ds[e] > 0 => "delay" \in Does(m) /\ Marked(q1, e) /\ Going(an1, ts1, fs1, e) = {}
  BY DEF Single
<1>4. Going(an1, ts1, fs1, e) # {} => Marked(q1, e) \/ Cut(m, q1, an1, ts1, fs1, e)
  BY DEF Single
<1> QED
  BY <1>1, <1>2, <1>3, <1>4 DEF Single

LEMMA TimersFollow ==
    ASSUME NEW an, NEW ts, NEW fs, NEW fs1, TimersSound(an, ts, fs), SameLoop(fs, fs1)
    PROVE  TimersSound(an, ts, fs1)
<1>1. ASSUME NEW i, Handled(fs, i) PROVE Handled(fs1, i)
  BY <1>1 DEF Handled, SameLoop
<1> QED
  BY <1>1 DEF TimersSound

\* What runs is called by nothing that is to go on with the timers or to dequeue.
Unstopped(fs) == fs # <<>> => ~ Loops(fs[1]) /\ ~ Ends(fs[1])

LEMMA CalmCut ==
    ASSUME NEW m, NEW q, NEW an, NEW ts, NEW fs \in Seq(Frames), NEW e, Unstopped(fs), Cut(m, q, an, ts, fs, e)
    PROVE  "animate" \notin m.callbacks
BY DEF Unstopped, Cut, Loops

LEMMA CutStays ==
    ASSUME NEW m, NEW q, NEW an, NEW ts, NEW fs, NEW e, Cut(m, q, an, ts, fs, e), "animate" \notin m.callbacks,
           NEW q1, NEW an1, NEW ts1, NEW fs1, SameLoop(fs, fs1), q1[e] = <<>>,
           \A j \in DOMAIN ts1 : an1[ts1[j].anim].queued /\ an1[ts1[j].anim].elem = e =>
              j \in DOMAIN ts /\ an[ts[j].anim].queued /\ an[ts[j].anim].elem = e
    PROVE  Cut(m, q1, an1, ts1, fs1, e)
BY DEF Cut, SameLoop, Loops

LEMMA FramesFollow ==
    ASSUME NEW m, NEW q, NEW an, NEW ts, NEW fs, FramesSound(m, q, an, ts, fs), fs # <<>> => ~ Stops(fs[1]),
           NEW q1, NEW an1, NEW ts1,
           \A i \in DOMAIN fs : /\ fs[i].fn = "dequeue" /\ fs[i].array = "empty" => q1[fs[i].elem] = <<>>
                                /\ fs[i].fn = "complete" => CompleteSound(an1, fs[i])
    PROVE  FramesSound(m, q1, an1, ts1, fs)
<1>1. ASSUME NEW i \in DOMAIN fs PROVE FrameSound(m, q1, an1, ts1, fs, i)
  <2>1. FrameSound(m, q, an, ts, fs, i)
    BY DEF FramesSound
  <2>2. ~ Stops(fs[i])
    <3> SUFFICES ASSUME Stops(fs[i]) PROVE FALSE
      OBVIOUS
    <3>1. i = 1
      BY <2>1 DEF FrameSound
    <3>2. fs # <<>>
      OBVIOUS
    <3> QED
      BY <3>1, <3>2
  <2> QED
    BY <2>1, <2>2 DEF FrameSound
<1> QED
  BY <1>1 DEF FramesSound

\* A call that neither loops nor is to dequeue returns.
LEMMA PopKeeps ==
    ASSUME NEW m, NEW q, NEW an, NEW ts, NEW fs, NEW ds, Sound(m, q, an, ts, fs, ds), fs # <<>>,
           ~ Loops(fs[1]), ~ Ends(fs[1])
    PROVE  Sound(m, q, an, ts, Tail(fs), ds) /\ Ready(m, Tail(fs))
<1>1. fs \in Seq(Frames) /\ FramesTyped(fs, Len(an)) /\ FramesSound(m, q, an, ts, fs) /\ TimersSound(an, ts, fs)
  BY DEF Sound, Typed, FramesTyped
<1>2. FramesSound(m, q, an, ts, Tail(fs)) /\ Ready(m, Tail(fs)) /\ SameLoop(fs, Tail(fs))
  BY ONLY <1>1, fs # <<>>, ~ Loops(fs[1]), PopSound
<1>3. TimersSound(an, ts, Tail(fs))
  BY <1>1, <1>2, TimersFollow
<1>4. FramesTyped(Tail(fs), Len(an))
  BY <1>1, PopTyped
<1>5. \A a : Ending(fs, a) <=> Ending(Tail(fs), a)
  BY <1>1, PopEnding
<1>6. ASSUME NEW e \in Element PROVE Single(m, q, an, ts, Tail(fs), ds, e)
  <2>1. Going(an, ts, Tail(fs), e) \subseteq Going(an, ts, fs, e)
    BY <1>5 DEF Going
  <2>2. Cut(m, q, an, ts, fs, e) => Cut(m, q, an, ts, Tail(fs), e)
    <3> SUFFICES ASSUME Cut(m, q, an, ts, fs, e) PROVE Cut(m, q, an, ts, Tail(fs), e)
      OBVIOUS
    <3>1. Unstopped(fs)
      BY DEF Unstopped
    <3>2. "animate" \notin m.callbacks
      BY <1>1, <3>1, CalmCut
    <3>3. q[e] = <<>>
      BY DEF Cut
    <3> QED
      BY <1>2, <3>2, <3>3, CutStays
  <2>3. Single(m, q, an, ts, fs, ds, e)
    BY DEF Sound
  <2> QED
    BY <2>1, <2>2, <2>3, SingleFollows
<1> QED
  BY <1>2, <1>3, <1>4, <1>6 DEF Sound, Typed

\* A call that neither loops nor is to dequeue.
LEMMA PushKeeps ==
    ASSUME NEW m, NEW q, NEW an, NEW ts, NEW fs, NEW ds, Sound(m, q, an, ts, fs, ds), Unstopped(fs), Ready(m, fs),
           NEW f \in Frames, FrameTyped(f, Len(an)), ~ Loops(f), ~ Ends(f),
           f.fn = "dequeue" => f.array = "stored",
           f.fn = "complete" => CompleteSound(an, f),
           f.fn = "complete" => \A i \in DOMAIN fs : fs[i].fn = "complete" => fs[i].anim # f.anim
    PROVE  Sound(m, q, an, ts, <<f>> \o fs, ds) /\ SameLoop(fs, <<f>> \o fs) /\ Unstopped(<<f>> \o fs)
<1>1. fs \in Seq(Frames) /\ FramesTyped(fs, Len(an)) /\ FramesSound(m, q, an, ts, fs) /\ TimersSound(an, ts, fs)
  BY DEF Sound, Typed, FramesTyped
<1> DEFINE gs == <<f>> \o fs
<1>2. FramesSound(m, q, an, ts, gs) /\ SameLoop(fs, gs)
  BY <1>1, PushSound
<1>3. FramesTyped(gs, Len(an))
  BY <1>1, PushTyped
<1>4. \A a : Ending(gs, a) <=> Ending(fs, a)
  BY <1>1, PushEnding
<1>5. Unstopped(gs)
  <2>1. gs[1] = f
    BY <1>1, PushIs
  <2> HIDE DEF gs
  <2> QED
    BY <2>1 DEF Unstopped
<1> HIDE DEF gs
<1>6. TimersSound(an, ts, gs)
  BY <1>1, <1>2, TimersFollow
<1>7. ASSUME NEW e \in Element PROVE Single(m, q, an, ts, gs, ds, e)
  <2>1. Going(an, ts, gs, e) \subseteq Going(an, ts, fs, e)
    BY <1>4 DEF Going
  <2>2. Cut(m, q, an, ts, fs, e) => Cut(m, q, an, ts, gs, e)
    <3> SUFFICES ASSUME Cut(m, q, an, ts, fs, e) PROVE Cut(m, q, an, ts, gs, e)
      OBVIOUS
    <3>2. "animate" \notin m.callbacks
      BY <1>1, CalmCut
    <3>3. q[e] = <<>>
      BY DEF Cut
    <3> QED
      BY <1>2, <3>2, <3>3, CutStays
  <2>3. Single(m, q, an, ts, fs, ds, e)
    BY DEF Sound
  <2> QED
    BY <2>1, <2>2, <2>3, SingleFollows
<1>8. Sound(m, q, an, ts, gs, ds)
  BY <1>2, <1>3, <1>6, <1>7 DEF Sound, Typed
<1> QED
  BY <1>2, <1>5, <1>8 DEF gs

-----------------------------------------------------------------------------
(* dequeue, of an element of which nothing goes on. *)

LEMMA EmptiedKeeps ==
    ASSUME NEW m, NEW q, NEW an, NEW ts, NEW fs, NEW ds, NEW e \in Element, Sound(m, q, an, ts, fs, ds),
           Going(an, ts, fs, e) = {}, ds[e] = 0, fs # <<>> => ~ Stops(fs[1])
    PROVE  Sound(m, [q EXCEPT ![e] = <<>>], an, ts, Forgotten(fs, e, "empty"), ds)
<1> DEFINE q1 == [q EXCEPT ![e] = <<>>]
           gs == Forgotten(fs, e, "empty")
<1>1. /\ fs \in Seq(Frames) /\ FramesTyped(fs, Len(an)) /\ FramesSound(m, q, an, ts, fs) /\ TimersSound(an, ts, fs)
      /\ QueuesTyped(q, Len(an)) /\ QueuesSound(m, q, an, ts)
  BY DEF Sound, Typed, FramesTyped
<1>2. /\ gs \in Seq(Frames) /\ Len(gs) = Len(fs) /\ DOMAIN gs = DOMAIN fs
      /\ \A i \in DOMAIN fs :
            /\ fs[i] \in Frames /\ gs[i].fn = fs[i].fn
            /\ fs[i].fn # "dequeue" => gs[i] = fs[i]
            /\ fs[i].fn = "dequeue" =>
                  /\ gs[i].elem = fs[i].elem
                  /\ gs[i].array = IF fs[i].elem = e /\ fs[i].array = "stored" THEN "empty" ELSE fs[i].array
  BY <1>1, ForgottenIs
<1>3. FramesTyped(gs, Len(an)) /\ QueuesTyped(q1, Len(an))
  BY <1>1, ForgottenTyped, ClearedTyped
<1>4. /\ \A d \in Element : d # e => q1[d] = q[d]
      /\ q1[e] = <<>>
  BY <1>1 DEF QueuesTyped
<1> HIDE DEF gs, q1
<1>5. ASSUME NEW i \in DOMAIN gs PROVE FrameSound(m, q1, an, ts, gs, i)
  <2>1. FrameSound(m, q, an, ts, fs, i)
    BY <1>1, <1>2 DEF FramesSound
  <2>2. CASE fs[i].fn = "dequeue"
    <3>1. fs[i].elem \in Element
      BY <1>2, <2>2, FrameIs DEF DequeueType
    <3>2. gs[i].array = "stored" \/ (gs[i].array = "empty" /\ q1[gs[i].elem] = <<>>)
      BY <1>2, <1>4, <2>1, <2>2, <3>1 DEF FrameSound
    <3> QED
      BY <1>2, <2>1, <2>2, <3>2 DEF FrameSound, Loops, Stops
  <2>3. CASE fs[i].fn # "dequeue"
    <3>1. gs[i] = fs[i]
      BY <1>2, <2>3
    <3> QED
      BY <1>2, <2>1, <2>3, <3>1 DEF FrameSound
  <2> QED
    BY <2>2, <2>3
<1>6. FramesSound(m, q1, an, ts, gs)
  <2> SUFFICES ASSUME NEW i \in DOMAIN gs, NEW j \in DOMAIN gs, gs[i].fn = "complete", gs[j].fn = "complete",
                      gs[i].anim = gs[j].anim
               PROVE  i = j
    BY <1>5 DEF FramesSound
  <2>1. gs[i] = fs[i] /\ gs[j] = fs[j]
    BY <1>2
  <2> QED
    BY <1>1, <1>2, <2>1 DEF FramesSound
<1>7. SameLoop(fs, gs)
  <2> SUFFICES ASSUME fs # <<>>, Loops(fs[Len(fs)]) PROVE gs # <<>> /\ gs[Len(gs)] = fs[Len(fs)]
    BY DEF SameLoop
  <2>1. Len(fs) \in DOMAIN fs
    BY <1>1
  <2> QED
    BY <1>2, <2>1 DEF Loops
<1>8. TimersSound(an, ts, gs)
  BY <1>1, <1>7, TimersFollow
<1>9. QueuesSound(m, q1, an, ts)
  BY <1>1, <1>4 DEF QueuesSound, QueueSound
<1>10. \A a : Ending(gs, a) <=> Ending(fs, a)
  BY <1>2 DEF Ending, Ends
<1>11. \A d \in Element : Going(an, ts, gs, d) = Going(an, ts, fs, d)
  BY <1>10 DEF Going
<1>12. ASSUME NEW d \in Element PROVE Single(m, q1, an, ts, gs, ds, d)
  <2>1. Single(m, q, an, ts, fs, ds, d)
    BY DEF Sound
  <2>2. CASE d = e
    BY <1>11, <2>1, <2>2 DEF Single
  <2>3. CASE d # e
    <3>1. Cut(m, q, an, ts, fs, d) => Cut(m, q1, an, ts, gs, d)
      <4> SUFFICES ASSUME Cut(m, q, an, ts, fs, d) PROVE Cut(m, q1, an, ts, gs, d)
        OBVIOUS
      <4>1. fs # <<>> /\ Len(fs) \in DOMAIN fs /\ 1 \in DOMAIN fs /\ fs[Len(fs)].fn = "stop"
        BY <1>1 DEF Cut
      <4>2. gs # <<>> /\ gs[Len(gs)] = fs[Len(fs)] /\ (Ends(fs[1]) => gs[1] = fs[1])
        BY <1>2, <4>1 DEF Ends
      <4> QED
        BY <1>2, <1>4, <2>3, <4>1, <4>2 DEF Cut
    <3>2. Marked(q, d) => Marked(q1, d)
      BY <1>4, <2>3 DEF Marked
    <3> QED
      BY <1>11, <2>1, <3>1, <3>2, SingleFollows
  <2> QED
    BY <2>2, <2>3
<1>13. Sound(m, q1, an, ts, gs, ds)
  BY <1>3, <1>6, <1>8, <1>9, <1>12 DEF Sound, Typed
<1> QED
  BY <1>13 DEF q1, gs

\* The next one is taken out of the queue, which is marked.
LEMMA TakenKeeps ==
    ASSUME NEW m, NEW q, NEW an, NEW ts, NEW fs, NEW ds, NEW e \in Element, Sound(m, q, an, ts, fs, ds),
           Unstopped(fs), Rest(q[e]) # <<>>, NEW what, what = Head(Rest(q[e]))
    PROVE  /\ Sound(m, [q EXCEPT ![e] = Taken(q[e])], an, ts, fs, ds)
           /\ Marked([q EXCEPT ![e] = Taken(q[e])], e)
           /\ what = Delay => "delay" \in Does(m)
           /\ what # Delay => /\ Unstarted(an, ts, e, what)
                              /\ \A d \in Element : \A i \in DOMAIN [q EXCEPT ![e] = Taken(q[e])][d] :
                                    [q EXCEPT ![e] = Taken(q[e])][d][i] # what
<1> DEFINE q1 == [q EXCEPT ![e] = Taken(q[e])]
<1>1. /\ fs \in Seq(Frames) /\ FramesSound(m, q, an, ts, fs)
      /\ QueuesTyped(q, Len(an)) /\ QueuesSound(m, q, an, ts) /\ Len(an) \in Nat
  BY DEF Sound, Typed, FramesTyped, AnimsTyped
<1>2. q[e] \in Seq(Delay .. MaxAnimations) /\ q \in [Element -> Seq(Delay .. MaxAnimations)]
  BY <1>1 DEF QueuesTyped
<1>3. /\ QueuesTyped(q1, Len(an)) /\ what \in Delay .. MaxAnimations /\ what # InProgress
  BY <1>1, TakenTyped
<1>4. PICK o \in {0, 1} :
         /\ o + 1 \in DOMAIN q[e] /\ what = q[e][o + 1]
         /\ \A i \in DOMAIN Taken(q[e]) : i \in Nat /\ (i # 1 => i + o \in DOMAIN q[e] /\ Taken(q[e])[i] = q[e][i + o])
  BY <1>2, TakenIs
<1>5. Taken(q[e]) # <<>> /\ Taken(q[e])[1] = InProgress
  BY <1>2, TakenIs
<1>6. q1[e] = Taken(q[e]) /\ \A d \in Element : d # e => q1[d] = q[d]
  BY <1>2
<1> HIDE DEF q1
<1>7. Marked(q1, e)
  BY <1>5, <1>6 DEF Marked
<1>8. QueueSound(m, q[e], an, ts, e)
  BY <1>1 DEF QueuesSound
<1>9. QueueSound(m, q1[e], an, ts, e)
  <2>1. ASSUME NEW i \in DOMAIN q1[e]
        PROVE  /\ q1[e][i] > 0 => i # 1 /\ Unstarted(an, ts, e, q1[e][i])
               /\ q1[e][i] = Delay => "delay" \in Does(m)
    BY <1>4, <1>5, <1>6, <1>8, <2>1 DEF QueueSound, InProgress, Delay
  <2>2. ASSUME NEW i \in DOMAIN q1[e], NEW j \in DOMAIN q1[e], q1[e][i] = q1[e][j], q1[e][i] > 0
        PROVE  i = j
    <3>1. i # 1 /\ j # 1
      BY <2>1, <2>2
    <3>2. i \in Nat /\ j \in Nat /\ i + o \in DOMAIN q[e] /\ j + o \in DOMAIN q[e] /\ q1[e][i] = q[e][i + o] /\ q1[e][j] = q[e][j + o]
      BY <1>4, <1>6, <3>1
    <3>3. i + o = j + o
      BY <1>8, <2>2, <3>2 DEF QueueSound
    <3> QED
      BY <3>2, <3>3
  <2> QED
    BY <2>1, <2>2 DEF QueueSound
<1>10. QueuesSound(m, q1, an, ts)
  BY <1>1, <1>6, <1>9 DEF QueuesSound
<1>11. FramesSound(m, q1, an, ts, fs)
  <2>1. fs # <<>> => ~ Stops(fs[1])
    BY DEF Unstopped, Stops, Loops
  <2>2. ASSUME NEW i \in DOMAIN fs
        PROVE  /\ fs[i].fn = "dequeue" /\ fs[i].array = "empty" => q1[fs[i].elem] = <<>>
               /\ fs[i].fn = "complete" => CompleteSound(an, fs[i])
    <3>1. FrameSound(m, q, an, ts, fs, i)
      BY <1>1 DEF FramesSound
    <3>2. fs[i].fn = "dequeue" => fs[i].elem \in Element
      BY <1>1, ElementsAre, FrameIs DEF DequeueType
    <3>3. q[e] # <<>>
      BY DEF Rest
    <3> QED
      BY <1>6, <3>1, <3>2, <3>3 DEF FrameSound
  <2> QED
    BY <1>1, <2>1, <2>2, FramesFollow
<1>12. ASSUME NEW d \in Element PROVE Single(m, q1, an, ts, fs, ds, d)
  <2>1. Single(m, q, an, ts, fs, ds, d)
    BY DEF Sound
  <2>2. Marked(q, d) => Marked(q1, d)
    BY <1>6, <1>7 DEF Marked
  <2>3. Cut(m, q, an, ts, fs, d) => Marked(q1, d) \/ Cut(m, q1, an, ts, fs, d)
    <3>1. CASE d = e
      BY <3>1, <1>7
    <3>2. CASE d # e
      BY <3>2, <1>6 DEF Cut
    <3> QED
      BY <3>1, <3>2
  <2> QED
    BY <2>1, <2>2, <2>3, SingleFollows
<1>13. Sound(m, q1, an, ts, fs, ds)
  BY <1>3, <1>10, <1>11, <1>12 DEF Sound, Typed
<1>14. what = Delay => "delay" \in Does(m)
  BY <1>4, <1>8 DEF QueueSound
<1>15. ASSUME what # Delay
       PROVE  /\ Unstarted(an, ts, e, what)
              /\ \A d \in Element : \A i \in DOMAIN q1[d] : q1[d][i] # what
  <2>1. what > 0
    BY <1>3, <1>15, EffectsAssumption DEF Delay, InProgress
  <2>2. Unstarted(an, ts, e, what)
    BY <1>4, <1>8, <2>1 DEF QueueSound
  <2>3. ASSUME NEW d \in Element, NEW i \in DOMAIN q1[d], q1[d][i] = what PROVE FALSE
    <3>1. CASE d = e
      <4>1. i # 1
        BY <1>3, <1>5, <1>6, <2>3, <3>1
      <4>2. i \in Nat /\ i + o \in DOMAIN q[e] /\ q[e][i + o] = what
        BY <1>4, <1>6, <2>3, <3>1, <4>1
      <4>3. i + o = o + 1
        BY <1>4, <1>8, <2>1, <4>2 DEF QueueSound
      <4> QED
        BY <4>1, <4>2, <4>3
    <3>2. CASE d # e
      <4>1. QueueSound(m, q[d], an, ts, d)
        BY <1>1 DEF QueuesSound
      <4>2. Unstarted(an, ts, d, what)
        BY <1>6, <2>1, <2>3, <3>2, <4>1 DEF QueueSound
      <4> QED
        BY <2>2, <3>2, <4>2 DEF Unstarted
    <3> QED
      BY <3>1, <3>2
  <2> QED
    BY <2>2, <2>3
<1> QED
  BY <1>7, <1>13, <1>14, <1>15 DEF q1

\* An animation starts that did not run and waits no more.
LEMMA TimingKeeps ==
    ASSUME NEW m, NEW q, NEW an, NEW ts, NEW fs, NEW ds, Sound(m, q, an, ts, fs, ds), Unstopped(fs),
           NEW a \in DOMAIN an, an[a].curAnim = {}, ~ Timed(ts, a),
           \A d \in Element : \A i \in DOMAIN q[d] : q[d][i] # a,
           an[a].queued => Going(an, ts, fs, an[a].elem) = {} /\ ds[an[a].elem] = 0 /\ Marked(q, an[a].elem),
           NEW ts1, Timing(ts, an, a, ts1), TimersTyped(ts1, Len(an))
    PROVE  Sound(m, q, an, ts1, fs, ds)
<1>1. /\ fs \in Seq(Frames) /\ FramesSound(m, q, an, ts, fs) /\ TimersSound(an, ts, fs)
      /\ QueuesSound(m, q, an, ts)
  BY DEF Sound, Typed, FramesTyped
<1>2. /\ \A i \in DOMAIN ts : i \in DOMAIN ts1 /\ ts1[i] = ts[i]
      /\ \A i \in DOMAIN ts1 : i \in DOMAIN ts \/ (ts1[i].anim = a /\ ts1[i].prop \in an[a].props)
      /\ \A i, j \in DOMAIN ts1 : i \notin DOMAIN ts /\ j \notin DOMAIN ts /\ ts1[i].prop = ts1[j].prop => i = j
  BY DEF Timing
<1>3. \A b : Timed(ts1, b) => Timed(ts, b) \/ b = a
  BY <1>2 DEF Timed
<1>4. QueuesSound(m, q, an, ts1)
  <2> SUFFICES ASSUME NEW e \in Element PROVE QueueSound(m, q[e], an, ts1, e)
    BY DEF QueuesSound
  <2>1. QueueSound(m, q[e], an, ts, e)
    BY <1>1 DEF QueuesSound
  <2>2. ASSUME NEW i \in DOMAIN q[e], q[e][i] > 0 PROVE Unstarted(an, ts1, e, q[e][i])
    <3>1. Unstarted(an, ts, e, q[e][i]) /\ q[e][i] # a
      BY <2>1, <2>2 DEF QueueSound
    <3> QED
      BY <1>3, <3>1 DEF Unstarted
  <2> QED
    BY <2>1, <2>2 DEF QueueSound
<1>5. TimersSound(an, ts1, fs)
  <2>1. ASSUME NEW i \in DOMAIN ts1
        PROVE  ts1[i].prop \in an[ts1[i].anim].props /\ (Finished(an, ts1, i) => Handled(fs, i))
    <3>1. CASE i \in DOMAIN ts
      <4>1. ts1[i] = ts[i]
        BY <1>2, <3>1
      <4> QED
        BY <1>1, <3>1, <4>1 DEF TimersSound, Finished
    <3>2. CASE i \notin DOMAIN ts
      <4>1. ts1[i].anim = a /\ ts1[i].prop \in an[a].props
        BY <1>2, <3>2
      <4> QED
        BY <4>1 DEF Finished
    <3> QED
      BY <3>1, <3>2
  <2>2. ASSUME NEW i \in DOMAIN ts1, NEW j \in DOMAIN ts1, ts1[i].anim = ts1[j].anim, ts1[i].prop = ts1[j].prop
        PROVE  i = j
    <3>1. CASE i \in DOMAIN ts /\ j \in DOMAIN ts
      BY <1>1, <1>2, <2>2, <3>1 DEF TimersSound
    <3>2. CASE i \notin DOMAIN ts /\ j \notin DOMAIN ts
      BY <1>2, <2>2, <3>2
    <3>3. CASE i \in DOMAIN ts /\ j \notin DOMAIN ts
      BY <1>2, <2>2, <3>3 DEF Timed
    <3>4. CASE i \notin DOMAIN ts /\ j \in DOMAIN ts
      BY <1>2, <2>2, <3>4 DEF Timed
    <3> QED
      BY <3>1, <3>2, <3>3, <3>4
  <2> QED
    BY <2>1, <2>2 DEF TimersSound
<1>6. FramesSound(m, q, an, ts1, fs)
  <2>1. fs # <<>> => ~ Stops(fs[1])
    BY DEF Unstopped, Stops, Loops
  <2>2. ASSUME NEW i \in DOMAIN fs
        PROVE  /\ fs[i].fn = "dequeue" /\ fs[i].array = "empty" => q[fs[i].elem] = <<>>
               /\ fs[i].fn = "complete" => CompleteSound(an, fs[i])
    BY <1>1 DEF FramesSound, FrameSound
  <2> QED
    BY <1>1, <2>1, <2>2, FramesFollow
<1>7. ASSUME NEW e \in Element PROVE Single(m, q, an, ts1, fs, ds, e)
  <2>1. Single(m, q, an, ts, fs, ds, e)
    BY DEF Sound
  <2>2. CASE an[a].queued /\ an[a].elem = e
    <3>1. Going(an, ts1, fs, e) \subseteq {a}
      BY <1>3, <2>2 DEF Going
    <3> QED
      BY <2>1, <2>2, <3>1 DEF Single
  <2>3. CASE ~ (an[a].queued /\ an[a].elem = e)
    <3>1. Going(an, ts1, fs, e) \subseteq Going(an, ts, fs, e)
      BY <1>3, <2>3 DEF Going
    <3>2. Cut(m, q, an, ts, fs, e) => Cut(m, q, an, ts1, fs, e)
      <4> SUFFICES ASSUME Cut(m, q, an, ts, fs, e) PROVE Cut(m, q, an, ts1, fs, e)
        OBVIOUS
      <4>1. "animate" \notin m.callbacks
        BY <1>1, CalmCut
      <4>2. q[e] = <<>> /\ SameLoop(fs, fs)
        BY DEF Cut, SameLoop
      <4>3. \A j \in DOMAIN ts1 : an[ts1[j].anim].queued /\ an[ts1[j].anim].elem = e =>
               j \in DOMAIN ts /\ an[ts[j].anim].queued /\ an[ts[j].anim].elem = e
        BY <1>2, <2>3
      <4> QED
        BY <4>1, <4>2, <4>3, CutStays
    <3> QED
      BY <2>1, <3>1, <3>2, SingleFollows
  <2> QED
    BY <2>2, <2>3
<1> QED
  BY <1>4, <1>5, <1>6, <1>7 DEF Sound, Typed

LEMMA AtOnceKeeps ==
    ASSUME NEW m, NEW q, NEW an, NEW ts, NEW fs, NEW ds, Sound(m, q, an, ts, fs, ds), Unstopped(fs), Ready(m, fs),
           NEW a \in DOMAIN an, an[a].curAnim = {}, ~ Timed(ts, a),
           \A d \in Element : \A i \in DOMAIN q[d] : q[d][i] # a,
           an[a].queued => Going(an, ts, fs, an[a].elem) = {} /\ ds[an[a].elem] = 0 /\ Marked(q, an[a].elem),
           Typed(q, AtOnce(an, a), ts, <<Completing(a)>> \o fs, ds)
    PROVE  Sound(m, q, AtOnce(an, a), ts, <<Completing(a)>> \o fs, ds)
<1> DEFINE an1 == AtOnce(an, a)
           gs  == <<Completing(a)>> \o fs
<1>1. /\ fs \in Seq(Frames) /\ FramesSound(m, q, an, ts, fs) /\ TimersSound(an, ts, fs)
      /\ QueuesSound(m, q, an, ts) /\ AnimsSound(m, an) /\ an \in Seq(AnimType) /\ an[a].props # {}
      /\ Len(an) <= MaxAnimations
  BY DEF Sound, Typed, FramesTyped, AnimsTyped
<1>2. /\ DOMAIN an1 = DOMAIN an /\ an1[a].curAnim = an[a].props
      /\ \A b \in DOMAIN an : b # a => an1[b] = an[b]
      /\ \A b \in DOMAIN an :
            /\ an1[b].elem = an[b].elem /\ an1[b].queued = an[b].queued /\ an1[b].props = an[b].props
            /\ an1[b].ended = an[b].ended /\ an1[b].duration = an[b].duration
  <2>1. an \in Seq(AnimType) /\ a \in DOMAIN an
    BY <1>1
  <2>2. /\ DOMAIN AtOnce(an, a) = DOMAIN an /\ AtOnce(an, a)[a].curAnim = an[a].props
        /\ \A b \in DOMAIN an : b # a => AtOnce(an, a)[b] = an[b]
        /\ \A b \in DOMAIN an :
              /\ AtOnce(an, a)[b].elem = an[b].elem /\ AtOnce(an, a)[b].queued = an[b].queued
              /\ AtOnce(an, a)[b].props = an[b].props /\ AtOnce(an, a)[b].ended = an[b].ended
              /\ AtOnce(an, a)[b].duration = an[b].duration
    BY <2>1, AtOnceIs, Zenon
  <2> QED
    BY <2>2
<1>3. a \in 1 .. MaxAnimations /\ an[a] \in AnimType
  BY <1>1, ElementsAre, EffectsAssumption
<1>4. /\ Completing(a) \in Frames /\ Completing(a).fn = "complete" /\ Completing(a).anim = a
      /\ Completing(a).pc = "dequeue"
  BY <1>3, CompletingIs
<1> HIDE DEF an1
<1>5. an[a].ended = 0
  <2>1. AnimSound(m, an[a])
    BY <1>1 DEF AnimsSound
  <2>2. an[a].ended # 1 /\ an[a].ended \in Nat
    BY <1>1, <1>3, <2>1 DEF AnimSound, AnimType
  <2> QED
    BY <2>1, <2>2 DEF AnimSound
<1>6. AnimsSound(m, an1)
  <2> SUFFICES ASSUME NEW b \in DOMAIN an PROVE AnimSound(m, an1[b])
    BY <1>2 DEF AnimsSound
  <2>1. AnimSound(m, an[b])
    BY <1>1 DEF AnimsSound
  <2> QED
    BY <1>2, <2>1 DEF AnimSound
<1>7. QueuesSound(m, q, an1, ts)
  <2> SUFFICES ASSUME NEW e \in Element PROVE QueueSound(m, q[e], an1, ts, e)
    BY DEF QueuesSound
  <2>1. QueueSound(m, q[e], an, ts, e)
    BY <1>1 DEF QueuesSound
  <2>2. ASSUME NEW i \in DOMAIN q[e], q[e][i] > 0 PROVE Unstarted(an1, ts, e, q[e][i])
    <3>1. Unstarted(an, ts, e, q[e][i]) /\ q[e][i] # a
      BY <2>1, <2>2 DEF QueueSound
    <3> QED
      BY <1>2, <3>1 DEF Unstarted
  <2> QED
    BY <2>1, <2>2 DEF QueueSound
<1>8. TimersSound(an1, ts, fs)
  <2>1. ASSUME NEW i \in DOMAIN ts
        PROVE  ts[i].prop \in an1[ts[i].anim].props /\ (Finished(an1, ts, i) => Handled(fs, i))
    <3>1. ts[i].anim # a
      BY DEF Timed
    <3>2. ts[i].anim \in DOMAIN an
      <4>1. ts \in Seq(TimerType) /\ ts[i].anim <= Len(an)
        BY DEF Sound, Typed, TimersTyped
      <4>2. ts[i] \in TimerType
        BY <4>1, ElementsAre
      <4> QED
        BY <1>1, <4>1, <4>2, ElementsAre, EffectsAssumption DEF TimerType
    <3>3. an1[ts[i].anim] = an[ts[i].anim]
      BY <1>2, <3>1, <3>2
    <3> QED
      BY <1>1, <3>3 DEF TimersSound, Finished
  <2> QED
    BY <1>1, <2>1 DEF TimersSound
<1>9. ASSUME NEW i \in DOMAIN fs, fs[i].fn = "complete" PROVE fs[i].anim # a /\ CompleteSound(an1, fs[i])
  <2>1. CompleteSound(an, fs[i])
    BY <1>1, <1>9 DEF FramesSound, FrameSound
  <2>2. fs[i].anim # a
    BY <1>1, <2>1 DEF CompleteSound
  <2>3. fs[i].anim \in DOMAIN an
    <3>1. fs[i] \in CompleteType /\ fs[i].anim <= Len(an)
      BY <1>1, <1>9, ElementsAre, FrameIs DEF Sound, Typed, FramesTyped, FrameTyped
    <3> QED
      BY <1>1, <3>1, ElementsAre, EffectsAssumption DEF CompleteType
  <2> QED
    BY <1>2, <2>1, <2>2, <2>3 DEF CompleteSound
<1>10. FramesSound(m, q, an1, ts, fs)
  <2>1. fs # <<>> => ~ Stops(fs[1])
    BY DEF Unstopped, Stops, Loops
  <2>2. \A i \in DOMAIN fs :
           /\ fs[i].fn = "dequeue" /\ fs[i].array = "empty" => q[fs[i].elem] = <<>>
           /\ fs[i].fn = "complete" => CompleteSound(an1, fs[i])
    BY <1>1, <1>9 DEF FramesSound, FrameSound
  <2> QED
    BY <1>1, <2>1, <2>2, FramesFollow
<1>11. FramesSound(m, q, an1, ts, gs) /\ SameLoop(fs, gs)
  <2>1. CompleteSound(an1, Completing(a))
    BY <1>2, <1>4, <1>5 DEF CompleteSound
  <2>2. ~ Loops(Completing(a))
    BY <1>4 DEF Loops
  <2> QED
    BY <1>1, <1>4, <1>9, <1>10, <2>1, <2>2, PushSound
<1>12. TimersSound(an1, ts, gs)
  BY <1>8, <1>11, TimersFollow
<1>13. \A b : Ending(gs, b) => Ending(fs, b) \/ b = a
  BY <1>1, <1>4, PushEnding
<1>14. ASSUME NEW e \in Element PROVE Single(m, q, an1, ts, gs, ds, e)
  <2>1. Single(m, q, an, ts, fs, ds, e)
    BY DEF Sound
  <2>2. CASE an[a].queued /\ an[a].elem = e
    <3>1. Going(an1, ts, gs, e) \subseteq {a}
      BY <1>2, <1>13, <2>2 DEF Going
    <3> HIDE DEF gs
    <3> QED
      BY <2>1, <2>2, <3>1 DEF Single
  <2>3. CASE ~ (an[a].queued /\ an[a].elem = e)
    <3>1. Going(an1, ts, gs, e) \subseteq Going(an, ts, fs, e)
      BY <1>2, <1>13, <2>3 DEF Going
    <3>2. Cut(m, q, an, ts, fs, e) => Cut(m, q, an1, ts, gs, e)
      <4> SUFFICES ASSUME Cut(m, q, an, ts, fs, e) PROVE Cut(m, q, an1, ts, gs, e)
        OBVIOUS
      <4>1. "animate" \notin m.callbacks
        BY <1>1, CalmCut
      <4>2. q[e] = <<>>
        BY DEF Cut
      <4>3. \A j \in DOMAIN ts : an1[ts[j].anim].queued /\ an1[ts[j].anim].elem = e =>
               j \in DOMAIN ts /\ an[ts[j].anim].queued /\ an[ts[j].anim].elem = e
        <5> SUFFICES ASSUME NEW j \in DOMAIN ts PROVE ts[j].anim \in DOMAIN an
          BY <1>2
        <5>1. ts \in Seq(TimerType) /\ ts[j].anim <= Len(an)
          BY DEF Sound, Typed, TimersTyped
        <5>2. ts[j] \in TimerType
          BY <5>1, ElementsAre
        <5> QED
          BY <1>1, <5>1, <5>2, ElementsAre, EffectsAssumption DEF TimerType
      <4> HIDE DEF gs
      <4> QED
        BY <1>11, <4>1, <4>2, <4>3, CutStays
    <3> HIDE DEF gs
    <3> QED
      BY <2>1, <3>1, <3>2, SingleFollows
  <2> QED
    BY <2>2, <2>3
<1>15. Typed(q, an1, ts, gs, ds)
  BY DEF an1
<1>16. Sound(m, q, an1, ts, gs, ds)
  <2> HIDE DEF gs
  <2> QED
    BY <1>6, <1>7, <1>11, <1>12, <1>14, <1>15 DEF Sound
<1> QED
  BY <1>16 DEF an1

LEMMA RunKeeps ==
    ASSUME NEW m, NEW q, NEW begun, NEW fs, NEW ds, Sound(m, q, begun, timers, fs, ds), Unstopped(fs), IntervalTyped(timerId),
           NEW a \in DOMAIN begun, begun[a].duration = 0 => Ready(m, fs), begun[a].curAnim = {}, ~ Timed(timers, a),
           \A d \in Element : \A i \in DOMAIN q[d] : q[d][i] # a,
           begun[a].queued => /\ Going(begun, timers, fs, begun[a].elem) = {} /\ ds[begun[a].elem] = 0
                             /\ Marked(q, begun[a].elem),
           Run(a, begun, fs)
    PROVE  Sound(m, q, anims', timers', running', ds)
<1>1. Typed(q, begun, timers, fs, ds)
  BY DEF Sound
<1>2. Typed(q, anims', timers', running', ds) /\ Len(anims') = Len(begun)
  BY ONLY <1>1, IntervalTyped(timerId), a \in DOMAIN begun, Run(a, begun, fs), RunTyped
<1>3. begun \in Seq(AnimType) /\ a <= MaxAnimations /\ begun[a].props # {} /\ timers \in Seq(TimerType)
  <2>1. begun \in Seq(AnimType) /\ Len(begun) <= MaxAnimations /\ begun[a].props # {} /\ timers \in Seq(TimerType)
    BY <1>1 DEF Typed, AnimsTyped, TimersTyped
  <2> QED
    BY <2>1, ElementsAre, EffectsAssumption
<1>4. /\ begun[a].duration = 0 =>
            /\ anims' = AtOnce(begun, a) /\ running' = <<Completing(a)>> \o fs /\ timers' = timers
      /\ begun[a].duration # 0 =>
            /\ anims' = begun /\ running' = fs /\ Timing(timers, begun, a, timers')
  BY ONLY <1>3, a \in DOMAIN begun, Run(a, begun, fs), RunIs
<1>5. CASE begun[a].duration = 0
  <2>1. Typed(q, AtOnce(begun, a), timers, <<Completing(a)>> \o fs, ds)
    BY <1>2, <1>4, <1>5
  <2>2. Sound(m, q, AtOnce(begun, a), timers, <<Completing(a)>> \o fs, ds)
    BY <1>5, <2>1, AtOnceKeeps
  <2> QED
    BY <1>4, <1>5, <2>2
<1>6. CASE begun[a].duration # 0
  <2>1. TimersTyped(timers', Len(begun))
    BY <1>2 DEF Typed
  <2>2. Sound(m, q, begun, timers', fs, ds)
    BY <1>4, <1>6, <2>1, TimingKeeps
  <2> QED
    BY <1>4, <1>6, <2>2
<1> QED
  BY <1>5, <1>6

LEMMA DequeueKeeps ==
    ASSUME NEW m, NEW q, NEW begun, NEW fs, NEW due, Gentle(m), Sound(m, q, begun, timers, fs, due), Unstopped(fs), Ready(m, fs),
           IntervalTyped(timerId), NEW e \in Element, Going(begun, timers, fs, e) = {}, due[e] = 0,
           dequeue(q, e, begun, fs, due)
    PROVE  Sound(m, queue', anims', timers', running', delays')
<1>1. /\ fs \in Seq(Frames) /\ QueuesTyped(q, Len(begun)) /\ due \in [Element -> Nat] /\ begun \in Seq(AnimType)
      /\ AnimsSound(m, begun)
  BY DEF Sound, Typed, FramesTyped, AnimsTyped
<1>2. /\ Rest(q[e]) = <<>> =>
            /\ queue' = [q EXCEPT ![e] = <<>>] /\ running' = Forgotten(fs, e, "empty")
            /\ anims' = begun /\ delays' = due /\ timers' = timers /\ timerId' = timerId
      /\ Rest(q[e]) # <<>> => queue' = [q EXCEPT ![e] = Taken(q[e])]
      /\ Rest(q[e]) # <<>> /\ Head(Rest(q[e])) = Delay =>
            /\ delays' = [due EXCEPT ![e] = @ + 1] /\ running' = <<Dequeuing(e)>> \o fs
            /\ anims' = begun /\ timers' = timers /\ timerId' = timerId
      /\ Rest(q[e]) # <<>> /\ Head(Rest(q[e])) # Delay =>
            Run(Head(Rest(q[e])), begun, <<Dequeuing(e)>> \o fs) /\ delays' = due
  BY ONLY dequeue(q, e, begun, fs, due), DequeueIs
<1>3. CASE Rest(q[e]) = <<>>
  <2>1. fs # <<>> => ~ Stops(fs[1])
    BY DEF Ready
  <2>2. Sound(m, [q EXCEPT ![e] = <<>>], begun, timers, Forgotten(fs, e, "empty"), due)
    BY <2>1, EmptiedKeeps
  <2> QED
    BY <1>2, <1>3, <2>2
<1>4. CASE Rest(q[e]) # <<>>
  <2> DEFINE what == Head(Rest(q[e]))
             q1   == [q EXCEPT ![e] = Taken(q[e])]
             gs   == <<Dequeuing(e)>> \o fs
  <2>1. /\ Sound(m, q1, begun, timers, fs, due) /\ Marked(q1, e)
        /\ what = Delay => "delay" \in Does(m)
        /\ what # Delay => /\ Unstarted(begun, timers, e, what)
                           /\ \A d \in Element : \A i \in DOMAIN q1[d] : q1[d][i] # what
    BY <1>4, TakenKeeps
  <2>2. Dequeuing(e) \in Frames /\ Dequeuing(e).fn = "dequeue" /\ Dequeuing(e).elem = e /\ Dequeuing(e).array = "stored"
    BY DequeuingIs
  <2>3. queue' = q1
    BY <1>2, <1>4
  <2>4. /\ what = Delay =>
              /\ delays' = [due EXCEPT ![e] = @ + 1] /\ running' = gs /\ anims' = begun /\ timers' = timers
        /\ what # Delay => Run(what, begun, gs) /\ delays' = due
    BY <1>2, <1>4
  <2> HIDE DEF what, q1
  <2>5. Sound(m, q1, begun, timers, gs, due) /\ Unstopped(gs)
    <3>1. FrameTyped(Dequeuing(e), Len(begun)) /\ ~ Loops(Dequeuing(e)) /\ ~ Ends(Dequeuing(e))
      BY <2>2 DEF FrameTyped, Loops, Ends
    <3> QED
      BY <2>1, <2>2, <3>1, PushKeeps
  <2>6. Going(begun, timers, gs, e) = {}
    <3>1. \A a : Ending(gs, a) <=> Ending(fs, a)
      BY <1>1, <2>2, PushEnding DEF Ends
    <3> QED
      BY <3>1 DEF Going
  <2>7. ~ Enqueues(m) => Ready(m, gs)
    <3>1. gs[1] = Dequeuing(e)
      BY <1>1, <2>2, PushIs
    <3> HIDE DEF gs
    <3> QED
      BY <2>2, <3>1 DEF Ready, Stops
  <2> HIDE DEF gs
  <2>8. CASE what = Delay
    <3> DEFINE ds == [due EXCEPT ![e] = @ + 1]
    <3>1. ds[e] = 1 /\ ds \in [Element -> Nat] /\ \A d \in Element : d # e => ds[d] = due[d]
      BY <1>1
    <3> HIDE DEF ds
    <3>2. ASSUME NEW d \in Element PROVE Single(m, q1, begun, timers, gs, ds, d)
      <4>1. Single(m, q1, begun, timers, gs, due, d)
        BY <2>5 DEF Sound
      <4>2. CASE d = e
        BY <2>1, <2>6, <2>8, <3>1, <4>2 DEF Single
      <4>3. CASE d # e
        BY <3>1, <4>1, <4>3 DEF Single
      <4> QED
        BY <4>2, <4>3
    <3>3. Sound(m, q1, begun, timers, gs, ds)
      BY <2>5, <3>1, <3>2 DEF Sound, Typed
    <3>4. delays' = ds
      BY <2>4, <2>8 DEF ds
    <3> QED
      BY <2>3, <2>4, <2>8, <3>3, <3>4
  <2>9. CASE what # Delay
    <3>1. /\ what \in DOMAIN begun /\ begun[what].elem = e /\ begun[what].queued /\ begun[what].curAnim = {}
          /\ ~ Timed(timers, what)
      BY <2>1, <2>9 DEF Unstarted
    <3>2. begun[what].duration = 0 => Ready(m, gs)
      <4> SUFFICES ASSUME begun[what].duration = 0 PROVE ~ Enqueues(m)
        BY <2>7
      <4>1. 0 \in m.durations
        BY <1>1, <3>1 DEF AnimsSound, AnimSound
      <4> QED
        BY <4>1 DEF Gentle, Enqueues
    <3>3. Run(what, begun, gs) /\ delays' = due
      BY <2>4, <2>9
    <3>4. \A d \in Element : \A i \in DOMAIN q1[d] : q1[d][i] # what
      BY <2>1, <2>9
    <3>5. Going(begun, timers, gs, begun[what].elem) = {} /\ due[begun[what].elem] = 0 /\ Marked(q1, begun[what].elem)
      BY <2>1, <2>6, <3>1
    <3>6. Sound(m, q1, anims', timers', running', due)
      BY ONLY <2>5, <3>1, <3>2, <3>3, <3>4, <3>5, IntervalTyped(timerId), RunKeeps
    <3> QED
      BY <2>3, <3>3, <3>6
  <2> QED
    BY <2>8, <2>9
<1> QED
  BY <1>3, <1>4

-----------------------------------------------------------------------------
(* enqueue, by a page that may. *)

\* An animation is made, which does not wait yet.
LEMMA MadeKeeps ==
    ASSUME NEW m, NEW q, NEW an, NEW ts, NEW fs, NEW ds, Sound(m, q, an, ts, fs, ds), NEW c \in AnimType,
           c.curAnim = {}, c.ended = 0, c.duration \in m.durations, ~ c.queued => "aside" \in Does(m),
           Typed(q, Append(an, c), ts, fs, ds)
    PROVE  /\ Sound(m, q, Append(an, c), ts, fs, ds)
           /\ ~ Timed(ts, Len(an) + 1) /\ ~ Ending(fs, Len(an) + 1)
           /\ \A e \in Element : \A i \in DOMAIN q[e] : q[e][i] # Len(an) + 1
           /\ \A e \in Element : Going(Append(an, c), ts, fs, e) = Going(an, ts, fs, e)
<1> DEFINE an1 == Append(an, c)
           a   == Len(an) + 1
<1>1. /\ fs \in Seq(Frames) /\ FramesSound(m, q, an, ts, fs) /\ TimersSound(an, ts, fs)
      /\ QueuesSound(m, q, an, ts) /\ AnimsSound(m, an) /\ an \in Seq(AnimType) /\ Len(an) \in Nat
      /\ TimersTyped(ts, Len(an)) /\ FramesTyped(fs, Len(an)) /\ QueuesTyped(q, Len(an))
  BY DEF Sound, Typed, FramesTyped, AnimsTyped
<1>2. /\ DOMAIN an = 1 .. Len(an) /\ DOMAIN an1 = 1 .. Len(an) + 1 /\ an1[a] = c
      /\ \A b \in DOMAIN an : b \in DOMAIN an1 /\ an1[b] = an[b] /\ b # a
      /\ \A b \in DOMAIN an1 : b = a \/ b \in DOMAIN an
  BY <1>1, AppendIs
<1> HIDE DEF an1
<1>3. \A j \in DOMAIN ts : ts[j].anim \in DOMAIN an
  <2> SUFFICES ASSUME NEW j \in DOMAIN ts PROVE ts[j].anim \in DOMAIN an
    OBVIOUS
  <2>1. ts[j].anim <= Len(an) /\ ts[j] \in TimerType
    BY <1>1, ElementsAre DEF TimersTyped
  <2> QED
    BY <1>1, <1>2, <2>1, EffectsAssumption DEF TimerType
<1>4. \A i \in DOMAIN fs : fs[i].fn = "complete" => fs[i].anim \in DOMAIN an
  <2> SUFFICES ASSUME NEW i \in DOMAIN fs, fs[i].fn = "complete" PROVE fs[i].anim \in DOMAIN an
    OBVIOUS
  <2>1. fs[i].anim <= Len(an) /\ fs[i] \in CompleteType
    BY <1>1, ElementsAre, FrameIs DEF FramesTyped, FrameTyped
  <2> QED
    BY <1>1, <1>2, <2>1, EffectsAssumption DEF CompleteType
<1>5. \A e \in Element : \A i \in DOMAIN q[e] : q[e][i] # a
  <2> SUFFICES ASSUME NEW e \in Element, NEW i \in DOMAIN q[e] PROVE q[e][i] # a
    OBVIOUS
  <2>1. q[e][i] <= Len(an)
    BY <1>1 DEF QueuesTyped
  <2> QED
    BY <1>1, <2>1
<1>6. ~ Timed(ts, a) /\ ~ Ending(fs, a)
  BY <1>2, <1>3, <1>4 DEF Timed, Ending, Ends
<1>7. AnimsSound(m, an1)
  <2> SUFFICES ASSUME NEW b \in DOMAIN an1 PROVE AnimSound(m, an1[b])
    BY DEF AnimsSound
  <2>1. CASE b = a
    <3>1. AnimSound(m, c)
      BY DEF AnimSound
    <3> QED
      BY <1>2, <2>1, <3>1
  <2>2. CASE b \in DOMAIN an
    BY <1>1, <1>2, <2>2 DEF AnimsSound
  <2> QED
    BY <1>2, <2>1, <2>2
<1>8. QueuesSound(m, q, an1, ts)
  <2> SUFFICES ASSUME NEW e \in Element PROVE QueueSound(m, q[e], an1, ts, e)
    BY DEF QueuesSound
  <2>1. QueueSound(m, q[e], an, ts, e)
    BY <1>1 DEF QueuesSound
  <2>2. ASSUME NEW i \in DOMAIN q[e], q[e][i] > 0 PROVE Unstarted(an1, ts, e, q[e][i])
    <3>1. Unstarted(an, ts, e, q[e][i])
      BY <2>1, <2>2 DEF QueueSound
    <3> QED
      BY <1>2, <3>1 DEF Unstarted
  <2> QED
    BY <2>1, <2>2 DEF QueueSound
<1>9. TimersSound(an1, ts, fs)
  <2>1. \A i \in DOMAIN ts : an1[ts[i].anim] = an[ts[i].anim]
    BY <1>2, <1>3
  <2> QED
    BY <1>1, <2>1 DEF TimersSound, Finished
<1>10. FramesSound(m, q, an1, ts, fs)
  <2>1. ASSUME NEW i \in DOMAIN fs PROVE FrameSound(m, q, an1, ts, fs, i)
    <3>1. FrameSound(m, q, an, ts, fs, i)
      BY <1>1 DEF FramesSound
    <3>2. fs[i].fn = "complete" => CompleteSound(an1, fs[i])
      BY <1>2, <1>4, <3>1 DEF FrameSound, CompleteSound
    <3>3. \A j \in DOMAIN ts : an1[ts[j].anim] = an[ts[j].anim]
      BY <1>2, <1>3
    <3> QED
      BY <3>1, <3>2, <3>3 DEF FrameSound
  <2> QED
    BY <1>1, <2>1 DEF FramesSound
<1>11. \A e \in Element : Going(an1, ts, fs, e) = Going(an, ts, fs, e)
  BY <1>2, <1>6 DEF Going
<1>12. ASSUME NEW e \in Element PROVE Single(m, q, an1, ts, fs, ds, e)
  <2>1. Single(m, q, an, ts, fs, ds, e)
    BY DEF Sound
  <2>2. Cut(m, q, an, ts, fs, e) => Cut(m, q, an1, ts, fs, e)
    <3> SUFFICES ASSUME Cut(m, q, an, ts, fs, e) PROVE Cut(m, q, an1, ts, fs, e)
      OBVIOUS
    <3>1. \A j \in DOMAIN ts : an1[ts[j].anim] = an[ts[j].anim]
      BY <1>2, <1>3
    <3>2. 1 \in DOMAIN fs
      BY <1>1, TailIs DEF Cut
    <3>3. Ends(fs[1]) => an1[fs[1].anim] = an[fs[1].anim]
      BY <1>2, <1>4, <3>2 DEF Ends
    <3> QED
      BY <3>1, <3>3 DEF Cut
  <2> QED
    BY <1>11, <2>1, <2>2, SingleFollows
<1>13. Typed(q, an1, ts, fs, ds)
  BY DEF an1
<1>14. Sound(m, q, an1, ts, fs, ds)
  BY <1>7, <1>8, <1>9, <1>10, <1>12, <1>13 DEF Sound
<1> QED
  BY <1>5, <1>6, <1>11, <1>14 DEF an1

\* Where code of the page runs.
PageRuns(fs) == fs # <<>> => fs[1].fn = "complete" /\ fs[1].pc = "page"

\* What waits is put into the queue.
LEMMA AppendedKeeps ==
    ASSUME NEW m, NEW q, NEW an, NEW ts, NEW fs, NEW ds, Gentle(m), Sound(m, q, an, ts, fs, ds), PageRuns(fs),
           fs # <<>> => Enqueues(m),
           NEW e \in Element, NEW what,
           \/ what = Delay /\ "delay" \in Does(m)
           \/ /\ what \in DOMAIN an /\ Unstarted(an, ts, e, what)
              /\ \A i \in DOMAIN q[e] : q[e][i] # what
    PROVE  /\ Sound(m, [q EXCEPT ![e] = Append(@, what)], an, ts, fs, ds)
           /\ ~ Marked([q EXCEPT ![e] = Append(@, what)], e) => Going(an, ts, fs, e) = {} /\ ds[e] = 0
<1> DEFINE q1 == [q EXCEPT ![e] = Append(@, what)]
<1>1. /\ fs \in Seq(Frames) /\ FramesSound(m, q, an, ts, fs) /\ TimersSound(an, ts, fs)
      /\ QueuesSound(m, q, an, ts) /\ AnimsSound(m, an) /\ an \in Seq(AnimType) /\ Len(an) \in Nat
      /\ TimersTyped(ts, Len(an)) /\ FramesTyped(fs, Len(an)) /\ QueuesTyped(q, Len(an)) /\ Len(an) <= MaxAnimations
      /\ ds \in [Element -> Nat]
  BY DEF Sound, Typed, FramesTyped, AnimsTyped
<1>2. q[e] \in Seq(Delay .. MaxAnimations) /\ q \in [Element -> Seq(Delay .. MaxAnimations)]
  BY <1>1 DEF QueuesTyped
<1>3. what \in Delay .. MaxAnimations /\ what <= Len(an) /\ what # InProgress
  BY <1>1, ElementsAre, EffectsAssumption DEF Delay, InProgress, Unstarted
<1>4. QueuesTyped(q1, Len(an))
  BY <1>1, <1>3, AppendedTyped
<1>5. q1[e] = Append(q[e], what) /\ \A d \in Element : d # e => q1[d] = q[d]
  BY <1>2
<1>6. /\ q1[e] # <<>> /\ Len(q[e]) \in Nat /\ q1[e][Len(q[e]) + 1] = what /\ DOMAIN q1[e] = 1 .. Len(q[e]) + 1
      /\ \A i \in DOMAIN q[e] : i \in DOMAIN q1[e] /\ q1[e][i] = q[e][i] /\ i # Len(q[e]) + 1
      /\ \A i \in DOMAIN q1[e] : i \in Nat /\ (i = Len(q[e]) + 1 \/ i \in DOMAIN q[e])
  <2> DEFINE w == q[e]  after == Append(w, what)
  <2>1. w \in Seq(Delay .. MaxAnimations)
    BY <1>2
  <2>2. /\ after # <<>> /\ Len(w) \in Nat /\ DOMAIN w = 1 .. Len(w) /\ DOMAIN after = 1 .. Len(w) + 1
        /\ after[Len(w) + 1] = what
        /\ \A i \in DOMAIN w : i \in DOMAIN after /\ after[i] = w[i] /\ i # Len(w) + 1
        /\ \A i \in DOMAIN after : i \in Nat /\ (i = Len(w) + 1 \/ i \in DOMAIN w)
    <3> HIDE DEF w
    <3> QED
      BY <2>1, <1>3, AppendIs
  <2> QED
    BY <2>2, <1>5
<1> HIDE DEF q1
<1>7. QueueSound(m, q1[e], an, ts, e)
  <2>1. QueueSound(m, q[e], an, ts, e)
    BY <1>1 DEF QueuesSound
  <2>2. ASSUME NEW i \in DOMAIN q1[e]
        PROVE  /\ q1[e][i] > 0 => Unstarted(an, ts, e, q1[e][i])
               /\ q1[e][i] = Delay => "delay" \in Does(m)
    <3>1. CASE i = Len(q[e]) + 1
      BY <1>3, <1>6, <3>1, ElementsAre, <1>1 DEF Delay, Unstarted
    <3>2. CASE i \in DOMAIN q[e]
      BY <1>6, <2>1, <3>2 DEF QueueSound
    <3> QED
      BY <1>6, <3>1, <3>2
  <2>3. ASSUME NEW i \in DOMAIN q1[e], NEW j \in DOMAIN q1[e], q1[e][i] = q1[e][j], q1[e][i] > 0 PROVE i = j
    <3>1. what > 0 => \A k \in DOMAIN q[e] : q[e][k] # what
      BY DEF Delay
    <3> QED
      BY <1>6, <2>1, <2>3, <3>1 DEF QueueSound
  <2> QED
    BY <2>2, <2>3 DEF QueueSound
<1>8. QueuesSound(m, q1, an, ts)
  BY <1>1, <1>5, <1>7 DEF QueuesSound
<1>9. Unstopped(fs)
  BY DEF Unstopped, PageRuns, Loops, Ends
<1>10. FramesSound(m, q1, an, ts, fs)
  <2>1. fs # <<>> => ~ Stops(fs[1])
    BY <1>9 DEF Unstopped, Stops, Loops
  <2>2. ASSUME NEW i \in DOMAIN fs
        PROVE  /\ fs[i].fn = "dequeue" /\ fs[i].array = "empty" => q1[fs[i].elem] = <<>>
               /\ fs[i].fn = "complete" => CompleteSound(an, fs[i])
    <3>1. FrameSound(m, q, an, ts, fs, i)
      BY <1>1 DEF FramesSound
    <3>2. fs[i].fn # "dequeue"
      <4> SUFFICES ASSUME fs[i].fn = "dequeue" PROVE FALSE
        OBVIOUS
      <4>1. fs # <<>> /\ i \in Nat /\ i > 0
        BY <1>1
      <4>2. ~ (i > 1)
        BY <3>1, <4>1 DEF FrameSound
      <4>3. i = 1
        BY <4>1, <4>2
      <4> QED
        BY <4>1, <4>3 DEF PageRuns
    <3> QED
      BY <3>1, <3>2 DEF FrameSound
  <2> QED
    BY <1>1, <2>1, <2>2, FramesFollow
<1>11. ~ Cut(m, q, an, ts, fs, e) \/ Going(an, ts, fs, e) = {}
  <2> SUFFICES ASSUME Cut(m, q, an, ts, fs, e) PROVE FALSE
    OBVIOUS
  <2>1. "animate" \notin m.callbacks
    BY <1>1, <1>9, CalmCut
  <2>2. fs # <<>> /\ fs[Len(fs)].fn = "stop" /\ Len(fs) \in DOMAIN fs
    BY <1>1 DEF Cut
  <2>3. "delay" \in Does(m)
    BY <2>1, <2>2 DEF Enqueues, Does
  <2>4. FrameSound(m, q, an, ts, fs, Len(fs))
    BY <1>1, <2>2 DEF FramesSound
  <2> QED
    BY <2>2, <2>3, <2>4 DEF FrameSound
<1>12. Marked(q, e) => Marked(q1, e)
  <2> SUFFICES ASSUME Marked(q, e) PROVE Marked(q1, e)
    OBVIOUS
  <2>1. 1 \in DOMAIN q[e]
    BY <1>2, TailIs DEF Marked
  <2> QED
    BY <1>6, <2>1 DEF Marked
<1>13. ASSUME NEW d \in Element PROVE Single(m, q1, an, ts, fs, ds, d)
  <2>1. Single(m, q, an, ts, fs, ds, d)
    BY DEF Sound
  <2>2. CASE d = e
    BY <1>11, <1>12, <2>1, <2>2 DEF Single
  <2>3. CASE d # e
    BY <1>5, <2>1, <2>3 DEF Single, Marked, Cut
  <2> QED
    BY <2>2, <2>3
<1>14. Sound(m, q1, an, ts, fs, ds)
  BY <1>4, <1>8, <1>10, <1>13 DEF Sound, Typed
<1>15. ASSUME ~ Marked(q1, e) PROVE Going(an, ts, fs, e) = {} /\ ds[e] = 0
  <2>1. Single(m, q, an, ts, fs, ds, e) /\ ds[e] \in Nat
    BY <1>1 DEF Sound
  <2> QED
    BY <1>11, <1>12, <1>15, <2>1 DEF Single
<1> QED
  BY <1>14, <1>15 DEF q1

LEMMA EnqueueKeeps ==
    ASSUME NEW m, NEW begun, NEW fs, Gentle(m), Sound(m, queue, begun, timers, fs, delays), PageRuns(fs),
           fs # <<>> => Enqueues(m), IntervalTyped(timerId),
           NEW e \in Element, NEW what,
           \/ what = Delay /\ "delay" \in Does(m)
           \/ /\ what \in DOMAIN begun /\ Unstarted(begun, timers, e, what)
              /\ \A i \in DOMAIN queue[e] : queue[e][i] # what,
           enqueue(e, what, begun, fs)
    PROVE  Sound(m, queue', anims', timers', running', delays')
<1> DEFINE q1 == [queue EXCEPT ![e] = Append(@, what)]
<1>1. /\ Sound(m, q1, begun, timers, fs, delays)
      /\ ~ Marked(q1, e) => Going(begun, timers, fs, e) = {} /\ delays[e] = 0
  BY AppendedKeeps
<1>2. IF Head(q1[e]) # InProgress THEN dequeue(q1, e, begun, fs, delays)
      ELSE queue' = q1 /\ anims' = begun /\ running' = fs /\ UNCHANGED <<timers, timerId, delays>>
  BY DEF enqueue
<1>3. Unstopped(fs) /\ Ready(m, fs)
  BY DEF Unstopped, Ready, PageRuns, Loops, Ends, Stops
<1> HIDE DEF q1
<1>4. CASE Head(q1[e]) # InProgress
  <2>1. ~ Marked(q1, e)
    <3>1. q1[e] \in Seq(Delay .. MaxAnimations)
      BY <1>1 DEF Sound, Typed, QueuesTyped
    <3> QED
      BY <1>4, <3>1, TailIs DEF Marked
  <2> QED
    BY <1>1, <1>2, <1>3, <1>4, <2>1, DequeueKeeps
<1>5. CASE Head(q1[e]) = InProgress
  BY <1>1, <1>2, <1>5
<1> QED
  BY <1>4, <1>5

-----------------------------------------------------------------------------
(* The actions, of a gentle page. *)

AllSound == TypesInv /\ Gentle(manner) /\ Sound(manner, queue, anims, timers, running, delays)
SoundNext == Sound(manner, queue', anims', timers', running', delays')

LEMMA SoundNow ==
    ASSUME AllSound
    PROVE  /\ TypesInv /\ Gentle(manner) /\ Sound(manner, queue, anims, timers, running, delays)
           /\ AnimsSound(manner, anims) /\ QueuesSound(manner, queue, anims, timers)
           /\ TimersSound(anims, timers, running) /\ FramesSound(manner, queue, anims, timers, running)
           /\ \A e \in Element : Single(manner, queue, anims, timers, running, delays, e)
           /\ \A i \in DOMAIN running : FrameSound(manner, queue, anims, timers, running, i)
           /\ running # <<>> => /\ FrameSound(manner, queue, anims, timers, running, 1)
                                /\ TopFrame = running[1] /\ LowerFrames = Tail(running) /\ 1 \in DOMAIN running
<1>1. running # <<>> => TopFrame = running[1] /\ 1 \in DOMAIN running
  BY TopIs DEF AllSound
<1> QED
  BY <1>1 DEF AllSound, Sound, FramesSound, LowerFrames

\* A timer is one of an animation that was made, and so is a call that ends one.
LEMMA MadeBefore ==
    ASSUME TypesInv
    PROVE  /\ \A j \in DOMAIN timers : timers[j].anim \in DOMAIN anims /\ timers[j] \in TimerType
           /\ \A i \in DOMAIN running : running[i].fn = "complete" => running[i].anim \in DOMAIN anims
<1>1. TimersTyped(timers, Len(anims)) /\ FramesTyped(running, Len(anims)) /\ DOMAIN anims = 1 .. Len(anims)
  BY TypedNow, ElementsAre
<1>2. ASSUME NEW j \in DOMAIN timers PROVE timers[j].anim \in DOMAIN anims /\ timers[j] \in TimerType
  <2>1. timers[j].anim <= Len(anims) /\ timers[j] \in TimerType
    BY <1>1, ElementsAre DEF TimersTyped
  <2> QED
    BY <1>1, <2>1, EffectsAssumption DEF TimerType
<1>3. ASSUME NEW i \in DOMAIN running, running[i].fn = "complete" PROVE running[i].anim \in DOMAIN anims
  <2>1. running[i].anim <= Len(anims) /\ running[i] \in CompleteType
    BY <1>1, <1>3, ElementsAre, FrameIs DEF FramesTyped, FrameTyped
  <2> QED
    BY <1>1, <2>1, EffectsAssumption DEF CompleteType
<1> QED
  BY <1>2, <1>3

LEMMA DequeuedSound == ASSUME AllSound, Dequeued PROVE SoundNext
<1>1. running # <<>> /\ TopFrame.fn = "dequeue"
  BY DEF Dequeued, In
<1>2. TopFrame.elem \in Element /\ TopFrame = running[1]
  BY <1>1, TopIs, SoundNow DEF DequeueType
<1>3. TopFrame.array = "empty" => queue[TopFrame.elem] = <<>>
  BY <1>1, <1>2, SoundNow DEF FrameSound
<1>4. [queue EXCEPT ![TopFrame.elem] = queue[TopFrame.elem]] = queue
  BY SoundNow, TypedNow DEF QueuesTyped
<1>5. queue' = queue /\ running' = Tail(running) /\ UNCHANGED <<anims, timers, delays>>
  BY <1>3, <1>4 DEF Dequeued, LowerFrames
<1>6. ~ Loops(running[1]) /\ ~ Ends(running[1])
  BY <1>1, <1>2 DEF Loops, Ends
<1>7. Sound(manner, queue, anims, timers, Tail(running), delays)
  BY <1>1, <1>6, SoundNow, PopKeeps
<1> QED
  BY <1>5, <1>7 DEF SoundNext

LEMMA CompleteReturnSound == ASSUME AllSound, CompleteReturn PROVE SoundNext
<1>1. running # <<>> /\ TopFrame.fn = "complete" /\ TopFrame.pc = "page"
      /\ running' = Tail(running) /\ UNCHANGED <<queue, anims, timers, delays>>
  BY DEF CompleteReturn, In, LowerFrames
<1>2. ~ Loops(running[1]) /\ ~ Ends(running[1])
  BY <1>1, SoundNow DEF Loops, Ends
<1>3. Sound(manner, queue, anims, timers, Tail(running), delays)
  BY <1>1, <1>2, SoundNow, PopKeeps
<1> QED
  BY <1>1, <1>3 DEF SoundNext

\* An animation that is complete goes on, or the next one if it waits for it.
LEMMA CompleteDequeueSound == ASSUME AllSound, CompleteDequeue PROVE SoundNext
<1> DEFINE a   == TopFrame.anim
           f   == [TopFrame EXCEPT !.pc = "callback"]
           now == <<f>> \o LowerFrames
           e   == anims[a].elem
<1>1. /\ running # <<>> /\ TopFrame.fn = "complete" /\ TopFrame.pc = "dequeue"
      /\ IF anims[a].queued THEN dequeue(queue, e, anims, now, delays)
         ELSE running' = now /\ UNCHANGED <<queue, anims, timers, timerId, delays>>
  BY DEF CompleteDequeue, In
<1>2. TopFrame \in CompleteType /\ a \in DOMAIN anims /\ TopFrame = running[1] /\ TypesInv /\ running \in Seq(Frames)
  BY <1>1, TopIs, SoundNow, TypedNow
<1>3. f \in CompleteType /\ f.anim = a /\ f.pc = "callback" /\ f.fn = "complete"
  BY <1>2, CompleteGoesOn
<1>4. f \in Frames /\ FrameTyped(f, Len(anims)) /\ ~ Loops(f) /\ ~ Ends(f)
  BY <1>2, <1>3, AmongFrames, TypedNow, ElementsAre DEF FrameTyped, Loops, Ends
<1>5. e \in Element
  BY <1>2, TypedNow DEF AnimType
<1>6. CompleteSound(anims, TopFrame)
  BY <1>1, <1>2, SoundNow DEF FrameSound
<1>7. CompleteSound(anims, f)
  BY <1>1, <1>3, <1>6 DEF CompleteSound
<1>8. LowerFrames = Tail(running)
  BY DEF LowerFrames
<1> HIDE DEF f
<1>9. /\ FramesSound(manner, queue, anims, timers, LowerFrames) /\ Ready(manner, LowerFrames)
      /\ SameLoop(running, LowerFrames) /\ LowerFrames \in Seq(Frames)
      /\ \A i \in DOMAIN LowerFrames : LowerFrames[i].fn = "complete" => LowerFrames[i].anim # a
  <2>1. FramesSound(manner, queue, anims, timers, running) /\ ~ Loops(running[1]) /\ running[1].fn = "complete"
    BY <1>1, <1>2, SoundNow DEF Loops
  <2>2. /\ FramesSound(manner, queue, anims, timers, Tail(running)) /\ Ready(manner, Tail(running))
        /\ SameLoop(running, Tail(running))
        /\ \A i \in DOMAIN Tail(running) : Tail(running)[i].fn = "complete" => Tail(running)[i].anim # running[1].anim
    BY ONLY <1>1, <1>2, <2>1, PopSound
  <2> QED
    BY <1>1, <1>2, <1>8, <2>2, TailIs
<1>10. /\ FramesSound(manner, queue, anims, timers, now) /\ SameLoop(LowerFrames, now)
  BY <1>3, <1>4, <1>7, <1>9, PushSound
<1>11. FramesTyped(now, Len(anims))
  BY <1>1, <1>2, <1>4, OnTopTyped
<1>12. /\ \A b : Ending(running, b) <=> Ending(LowerFrames, b) \/ b = a
       /\ \A b : Ending(now, b) <=> Ending(LowerFrames, b)
       /\ ~ Ending(LowerFrames, a)
  <2>1. \A b : Ending(running, b) <=> Ending(LowerFrames, b) \/ b = a
    BY <1>1, <1>2, <1>8, PopEnding DEF Ends
  <2>2. \A b : Ending(now, b) <=> Ending(LowerFrames, b)
    BY <1>4, <1>9, PushEnding
  <2> QED
    BY <1>9, <2>1, <2>2 DEF Ending, Ends
<1>13. now[1] = f
  BY <1>4, <1>9, PushIs
<1> HIDE DEF now
<1>14. Unstopped(now) /\ Ready(manner, now)
  BY <1>3, <1>4, <1>13 DEF Unstopped, Ready, Stops
<1>15. TimersSound(anims, timers, now)
  <2>1. SameLoop(running, now)
    BY <1>9, <1>10 DEF SameLoop
  <2> QED
    BY <2>1, SoundNow, TimersFollow
<1>16. \A d \in Element : Going(anims, timers, now, d) \subseteq Going(anims, timers, running, d) \ {a}
  BY <1>6, <1>12 DEF Going, CompleteSound
<1>17. anims[a].queued => a \in Going(anims, timers, running, e)
  BY <1>2, <1>12 DEF Going
<1>18. ASSUME NEW d \in Element PROVE Single(manner, queue, anims, timers, now, delays, d)
  <2>1. Single(manner, queue, anims, timers, running, delays, d)
    BY SoundNow
  <2>2. ASSUME Going(anims, timers, now, d) # {}, Cut(manner, queue, anims, timers, running, d)
        PROVE  Cut(manner, queue, anims, timers, now, d)
    <3>1. running[Len(running)].fn = "stop" /\ Len(running) \in DOMAIN running /\ queue[d] = <<>>
      BY <1>1, <1>2, <2>2 DEF Cut
    <3>2. "animate" \notin manner.callbacks
      <4> SUFFICES ASSUME "animate" \in manner.callbacks PROVE FALSE
        OBVIOUS
      <4>1. Len(running) # 1
        BY <1>1, <1>2, <3>1
      <4>2. Len(running) = 2 /\ e = d
        BY <1>2, <2>2, <4>1 DEF Cut
      <4>3. anims[a].queued => Going(anims, timers, running, d) \subseteq {a}
        BY <1>17, <2>1, <4>2 DEF Single
      <4>4. ~ anims[a].queued
        BY <1>16, <2>2, <4>3
      <4>5. "aside" \in Does(manner)
        BY <1>2, <4>4, SoundNow DEF AnimsSound, AnimSound
      <4>6. FrameSound(manner, queue, anims, timers, running, 2) /\ running[2].fn = "stop"
        BY <3>1, <4>2, SoundNow
      <4>7. ~ Stops(running[2])
        BY <4>6 DEF FrameSound
      <4>8. "end" \in manner.page
        BY <4>6, <4>7 DEF FrameSound, Stops
      <4> QED
        BY <4>5, <4>8, SoundNow DEF Gentle
    <3>3. SameLoop(running, now)
      BY <1>9, <1>10 DEF SameLoop
    <3> QED
      BY <2>2, <3>1, <3>2, <3>3, CutStays
  <2>3. Going(anims, timers, now, d) \subseteq Going(anims, timers, running, d)
    BY <1>16
  <2> QED
    BY <2>1, <2>2, <2>3, SingleFollows
<1>19. Sound(manner, queue, anims, timers, now, delays)
  BY <1>10, <1>11, <1>15, <1>18, SoundNow, TypedNow DEF Sound, Typed
<1>20. CASE anims[a].queued
  <2>1. Going(anims, timers, now, e) = {} /\ delays[e] = 0
    <3>1. Single(manner, queue, anims, timers, running, delays, e)
      BY <1>5, SoundNow
    <3>2. delays[e] \in Nat
      BY <1>2, <1>5, TypedNow
    <3> QED
      BY <1>5, <1>16, <1>17, <1>20, <3>1, <3>2 DEF Single
  <2>2. dequeue(queue, e, anims, now, delays) /\ IntervalTyped(timerId)
    BY <1>1, <1>2, <1>20, TypedNow
  <2> HIDE DEF e
  <2> QED
    BY <1>5, <1>14, <1>19, <2>1, <2>2, SoundNow, DequeueKeeps DEF SoundNext
<1>21. CASE ~ anims[a].queued
  BY <1>1, <1>19, <1>21 DEF SoundNext
<1> QED
  BY <1>20, <1>21

\* The callback of the page is called, once.
LEMMA CompleteCallbackSound == ASSUME AllSound, CompleteCallback PROVE SoundNext
<1> DEFINE a   == TopFrame.anim
           f   == [TopFrame EXCEPT !.pc = "page"]
           now == <<f>> \o LowerFrames
           an1 == Ended(anims, a)
<1>1. /\ running # <<>> /\ TopFrame.fn = "complete" /\ TopFrame.pc = "callback"
      /\ anims' = an1 /\ running' = now /\ UNCHANGED <<manner, queue, timers, timerId, delays, delayed>>
  BY DEF CompleteCallback, In, Ended
<1>2. TopFrame \in CompleteType /\ a \in DOMAIN anims /\ TopFrame = running[1] /\ TypesInv /\ running \in Seq(Frames)
      /\ anims \in Seq(AnimType)
  BY <1>1, TopIs, SoundNow, TypedNow
<1>3. f \in CompleteType /\ f.anim = a /\ f.pc = "page" /\ f.fn = "complete"
  BY <1>2, CompleteGoesOn
<1>4. f \in Frames /\ ~ Loops(f) /\ ~ Ends(f)
  BY <1>2, <1>3, AmongFrames DEF Loops, Ends
<1>5. /\ DOMAIN an1 = DOMAIN anims
      /\ \A b \in DOMAIN anims : b # a => an1[b] = anims[b]
      /\ an1[a].ended = anims[a].ended + 1
      /\ \A b \in DOMAIN anims :
            /\ an1[b].elem = anims[b].elem /\ an1[b].queued = anims[b].queued
            /\ an1[b].props = anims[b].props /\ an1[b].curAnim = anims[b].curAnim
            /\ an1[b].duration = anims[b].duration
  BY <1>2, EndedIs, Zenon
<1>6. CompleteSound(anims, TopFrame)
  BY <1>1, <1>2, SoundNow DEF FrameSound
<1>7. anims[a].ended = 0 /\ anims[a].curAnim = anims[a].props
  BY <1>1, <1>6 DEF CompleteSound
<1>8. Typed(queue, an1, timers, now, delays)
  <2>1. TypesInv'
    BY <1>2, CompleteCallbackTyped
  <2> QED
    BY <1>1, <2>1 DEF TypesInv
<1>9. LowerFrames = Tail(running)
  BY DEF LowerFrames
<1> HIDE DEF f, an1
<1>10. CompleteSound(an1, f)
  BY <1>2, <1>3, <1>5, <1>7 DEF CompleteSound
<1>11. /\ FramesSound(manner, queue, anims, timers, LowerFrames) /\ Ready(manner, LowerFrames)
       /\ SameLoop(running, LowerFrames) /\ LowerFrames \in Seq(Frames)
       /\ \A i \in DOMAIN LowerFrames : LowerFrames[i].fn = "complete" => LowerFrames[i].anim # a
       /\ \A i \in DOMAIN LowerFrames : i + 1 \in DOMAIN running /\ LowerFrames[i] = running[i + 1]
  <2>1. FramesSound(manner, queue, anims, timers, running) /\ ~ Loops(running[1]) /\ running[1].fn = "complete"
    BY <1>1, <1>2, SoundNow DEF Loops
  <2>2. /\ FramesSound(manner, queue, anims, timers, Tail(running)) /\ Ready(manner, Tail(running))
        /\ SameLoop(running, Tail(running))
        /\ \A i \in DOMAIN Tail(running) : Tail(running)[i].fn = "complete" => Tail(running)[i].anim # running[1].anim
    BY ONLY <1>1, <1>2, <2>1, PopSound
  <2>3. Tail(running) \in Seq(Frames) /\ \A i \in DOMAIN Tail(running) : i + 1 \in DOMAIN running /\ Tail(running)[i] = running[i + 1]
    BY <1>1, <1>2, TailIs
  <2> QED
    BY <1>2, <1>9, <2>2, <2>3
<1>12. FramesSound(manner, queue, an1, timers, LowerFrames)
  <2>1. LowerFrames # <<>> => ~ Stops(LowerFrames[1])
    BY <1>11 DEF Ready
  <2>2. ASSUME NEW i \in DOMAIN LowerFrames
        PROVE  /\ LowerFrames[i].fn = "dequeue" /\ LowerFrames[i].array = "empty" => queue[LowerFrames[i].elem] = <<>>
               /\ LowerFrames[i].fn = "complete" => CompleteSound(an1, LowerFrames[i])
    <3>1. FrameSound(manner, queue, anims, timers, LowerFrames, i)
      BY <1>11 DEF FramesSound
    <3>2. LowerFrames[i].fn = "complete" => LowerFrames[i].anim \in DOMAIN anims /\ LowerFrames[i].anim # a
      BY <1>2, <1>11, MadeBefore
    <3> QED
      BY <1>5, <3>1, <3>2 DEF FrameSound, CompleteSound
  <2> QED
    BY <1>11, <2>1, <2>2, FramesFollow
<1>13. FramesSound(manner, queue, an1, timers, now) /\ SameLoop(LowerFrames, now)
  BY <1>3, <1>4, <1>10, <1>11, <1>12, PushSound
<1>14. /\ \A b : Ending(running, b) <=> Ending(LowerFrames, b)
       /\ \A b : Ending(now, b) <=> Ending(LowerFrames, b)
  <2>1. \A b : Ending(running, b) <=> Ending(LowerFrames, b)
    BY <1>1, <1>2, <1>9, PopEnding DEF Ends
  <2>2. \A b : Ending(now, b) <=> Ending(LowerFrames, b)
    BY <1>4, <1>11, PushEnding
  <2> QED
    BY <2>1, <2>2
<1> HIDE DEF now
<1>15. TimersSound(an1, timers, now)
  <2>1. SameLoop(running, now)
    BY <1>11, <1>13 DEF SameLoop
  <2>2. TimersSound(anims, timers, now)
    BY <2>1, SoundNow, TimersFollow
  <2>3. \A j \in DOMAIN timers : an1[timers[j].anim].props = anims[timers[j].anim].props
                                 /\ an1[timers[j].anim].curAnim = anims[timers[j].anim].curAnim
    BY <1>2, <1>5, MadeBefore
  <2> QED
    BY <2>2, <2>3 DEF TimersSound, Finished
<1>16. AnimsSound(manner, an1)
  <2> SUFFICES ASSUME NEW b \in DOMAIN anims PROVE AnimSound(manner, an1[b])
    BY <1>5 DEF AnimsSound
  <2>1. AnimSound(manner, anims[b])
    BY SoundNow DEF AnimsSound
  <2> QED
    BY <1>5, <1>7, <2>1 DEF AnimSound
<1>17. QueuesSound(manner, queue, an1, timers)
  BY <1>5, SoundNow DEF QueuesSound, QueueSound, Unstarted
<1>18. \A d \in Element : Going(an1, timers, now, d) = Going(anims, timers, running, d)
  BY <1>5, <1>14 DEF Going
<1>19. ASSUME NEW d \in Element PROVE Single(manner, queue, an1, timers, now, delays, d)
  <2>1. Single(manner, queue, anims, timers, running, delays, d)
    BY SoundNow
  <2>2. Cut(manner, queue, anims, timers, running, d) => Cut(manner, queue, an1, timers, now, d)
    <3> SUFFICES ASSUME Cut(manner, queue, anims, timers, running, d) PROVE Cut(manner, queue, an1, timers, now, d)
      OBVIOUS
    <3>1. Unstopped(running)
      BY <1>1, <1>2 DEF Unstopped, Loops, Ends
    <3>2. "animate" \notin manner.callbacks
      BY <1>2, <3>1, CalmCut
    <3>3. SameLoop(running, now) /\ queue[d] = <<>>
      BY <1>11, <1>13 DEF SameLoop, Cut
    <3>4. \A j \in DOMAIN timers : an1[timers[j].anim].queued = anims[timers[j].anim].queued
                                   /\ an1[timers[j].anim].elem = anims[timers[j].anim].elem
      BY <1>2, <1>5, MadeBefore
    <3> QED
      BY <3>2, <3>3, <3>4, CutStays
  <2> QED
    BY <1>18, <2>1, <2>2, SingleFollows
<1>20. Sound(manner, queue, an1, timers, now, delays)
  BY <1>8, <1>13, <1>15, <1>16, <1>17, <1>19 DEF Sound
<1> QED
  BY <1>1, <1>20 DEF SoundNext, now

-----------------------------------------------------------------------------
(* Loops over the timers. *)

\* A loop runs by itself.
LEMMA LoopIs ==
    ASSUME AllSound, running # <<>>, TopFrame.fn \in {"tick", "stop"}
    PROVE  /\ running = <<TopFrame>> /\ LowerFrames = <<>> /\ TopFrame \in LoopType /\ TopFrame.i \in Nat
           /\ TopFrame.fn = "tick" \/ TopFrame.over => TopFrame.i > 0
           /\ FrameSound(manner, queue, anims, timers, running, 1) /\ running[1] = TopFrame
           /\ \A i \in DOMAIN timers : Finished(anims, timers, i) => TopFrame.over /\ i = TopFrame.i
           /\ \A e \in Element : Cut(manner, queue, anims, timers, running, e) =>
                 /\ TopFrame.fn = "stop" /\ TopFrame.elem = e /\ queue[e] = <<>>
                 /\ \A j \in DOMAIN timers :
                       anims[timers[j].anim].queued /\ anims[timers[j].anim].elem = e => j <= TopFrame.i
           /\ \A a : ~ Ending(running, a)
<1>1. running \in Seq(Frames) /\ TopFrame = running[1] /\ TopFrame \in LoopType /\ 1 \in DOMAIN running
  BY TopIs, SoundNow, TypedNow
<1>2. Len(running) = 1
  <2>1. FrameSound(manner, queue, anims, timers, running, 1)
    BY SoundNow
  <2> QED
    BY <1>1, <2>1 DEF FrameSound, Loops
<1>3. running = <<TopFrame>> /\ LowerFrames = <<>>
  <2> DEFINE f == TopFrame
  <2>1. f \in Frames /\ running[1] = f /\ running \in Seq(Frames) /\ Len(running) = 1
    BY <1>1, <1>2
  <2> HIDE DEF f
  <2>2. running = <<f>>
    BY ONLY <2>1
  <2>3. Tail(running) = <<>>
    <3>1. running # <<>>
      OBVIOUS
    <3>2. Tail(running) \in Seq(Frames) /\ DOMAIN Tail(running) = 1 .. 0
      BY ONLY <2>1, <3>1, TailIs
    <3> QED
      BY ONLY <3>2
  <2> QED
    BY <2>2, <2>3 DEF LowerFrames, f
<1>4. \A i \in DOMAIN timers : Finished(anims, timers, i) => TopFrame.over /\ i = TopFrame.i
  BY <1>1, <1>2, SoundNow DEF TimersSound, Handled
<1>5. ASSUME NEW e \in Element, Cut(manner, queue, anims, timers, running, e)
      PROVE  /\ TopFrame.fn = "stop" /\ TopFrame.elem = e /\ queue[e] = <<>>
             /\ \A j \in DOMAIN timers :
                   anims[timers[j].anim].queued /\ anims[timers[j].anim].elem = e => j <= TopFrame.i
  BY <1>1, <1>2, <1>5 DEF Cut
<1>6. \A a : ~ Ending(running, a)
  <2>1. \A i \in DOMAIN running : i = 1
    BY <1>1, <1>2
  <2> QED
    BY <1>1, <2>1 DEF Ending, Ends
<1>7. TopFrame.i \in Nat /\ (TopFrame.fn = "tick" \/ TopFrame.over => TopFrame.i > 0)
  BY LoopTyped, SoundNow
<1> QED
  BY <1>1, <1>3, <1>4, <1>5, <1>6, <1>7, SoundNow

\* A loop by itself, which is typed.
LEMMA LoopAlone ==
    ASSUME NEW m, NEW q, NEW an, NEW ts, NEW L \in LoopType,
           L.fn = "stop" => "delay" \notin Does(m) /\ (L.toEnd => "end" \in m.page),
           Stops(L) => ~ L.over /\ \A j \in DOMAIN ts : an[ts[j].anim].elem = L.elem => j <= L.i
    PROVE  /\ FramesSound(m, q, an, ts, <<L>>) /\ <<L>> \in Seq(Frames)
           /\ \A a : ~ Ending(<<L>>, a)
           /\ \A e : L.fn = "stop" /\ L.elem = e /\ q[e] = <<>>
                     /\ (\A j \in DOMAIN ts : an[ts[j].anim].queued /\ an[ts[j].anim].elem = e => j <= L.i)
                     => Cut(m, q, an, ts, <<L>>, e)
<1> DEFINE fs == <<L>>
<1>1. L \in Frames /\ L.fn \in {"tick", "stop"}
  BY AmongFrames DEF LoopType
<1>2. fs \in Seq(Frames) /\ Len(fs) = 1 /\ fs[1] = L /\ fs # <<>> /\ DOMAIN fs = {1}
  BY <1>1
<1> HIDE DEF fs
<1>3. FramesSound(m, q, an, ts, fs)
  BY <1>1, <1>2 DEF FramesSound, FrameSound, Loops, Stops
<1>4. \A a : ~ Ending(fs, a)
  BY <1>1, <1>2 DEF Ending, Ends
<1>5. ASSUME NEW e, L.fn = "stop", L.elem = e, q[e] = <<>>,
             \A j \in DOMAIN ts : an[ts[j].anim].queued /\ an[ts[j].anim].elem = e => j <= L.i
      PROVE  Cut(m, q, an, ts, fs, e)
  BY <1>2, <1>5 DEF Cut
<1> QED
  BY <1>2, <1>3, <1>4, <1>5 DEF fs

LEMMA TickStartSound == ASSUME AllSound, TickStart PROVE SoundNext
<1> DEFINE f == [fn |-> "tick", i |-> 1, over |-> FALSE, elem |-> CHOOSE e \in Element : TRUE, toEnd |-> FALSE]
<1>1. /\ timerId /\ running = <<>> /\ running' = <<f>>
      /\ UNCHANGED <<manner, queue, anims, timers, timerId, delays, delayed>>
  BY DEF TickStart
<1>2. TypesInv' /\ TypesInv
  BY TickStartTyped, SoundNow
<1>3. Typed(queue, anims, timers, <<f>>, delays)
  BY <1>1, <1>2 DEF TypesInv
<1>4. f \in LoopType /\ f.fn = "tick" /\ ~ f.over
  BY <1>1, <1>2, TypedNow DEF IntervalTyped, LoopType
<1> HIDE DEF f
<1>5. FramesSound(manner, queue, anims, timers, <<f>>) /\ \A a : ~ Ending(<<f>>, a)
  BY <1>4, LoopAlone DEF Stops
<1>6. TimersSound(anims, timers, <<f>>)
  BY <1>1, SoundNow DEF TimersSound, Handled
<1>7. ASSUME NEW e \in Element PROVE Single(manner, queue, anims, timers, <<f>>, delays, e)
  <2>1. Single(manner, queue, anims, timers, running, delays, e)
    BY SoundNow
  <2>2. ~ Cut(manner, queue, anims, timers, running, e)
    BY <1>1 DEF Cut
  <2>3. Going(anims, timers, <<f>>, e) \subseteq Going(anims, timers, running, e)
    BY <1>5 DEF Going
  <2> QED
    BY <2>1, <2>2, <2>3, SingleFollows
<1>8. Sound(manner, queue, anims, timers, <<f>>, delays)
  BY <1>3, <1>5, <1>6, <1>7, SoundNow DEF Sound
<1> QED
  BY <1>1, <1>8 DEF SoundNext

\* The last step of a timer, by the loop that will take it out.
LEMMA LastStepSound ==
    ASSUME AllSound, running # <<>>, TopFrame.fn \in {"tick", "stop"}, ~ TopFrame.over,
           NEW i \in DOMAIN timers, i = TopFrame.i,
           TopFrame.fn = "stop" => TopFrame.toEnd /\ anims[timers[i].anim].elem = TopFrame.elem,
           LastStep(i, <<[TopFrame EXCEPT !.over = TRUE]>> \o LowerFrames),
           UNCHANGED <<queue, timers, delays>>
    PROVE  SoundNext
<1> DEFINE a    == timers[i].anim
           done == anims[a].curAnim \cup {timers[i].prop}
           c    == [anims[a] EXCEPT !.curAnim = done]
           an1  == [anims EXCEPT ![a] = c]
           L    == [TopFrame EXCEPT !.over = TRUE]
           all  == done = anims[a].props
           gs   == IF all THEN <<Completing(a)>> \o <<L>> ELSE <<L>>
<1>1. /\ running = <<TopFrame>> /\ LowerFrames = <<>> /\ TopFrame \in LoopType
      /\ FrameSound(manner, queue, anims, timers, running, 1) /\ running[1] = TopFrame
      /\ \A j \in DOMAIN timers : ~ Finished(anims, timers, j)
      /\ \A e \in Element : Cut(manner, queue, anims, timers, running, e) =>
            /\ TopFrame.fn = "stop" /\ TopFrame.elem = e /\ queue[e] = <<>>
            /\ \A j \in DOMAIN timers :
                  anims[timers[j].anim].queued /\ anims[timers[j].anim].elem = e => j <= TopFrame.i
      /\ \A b : ~ Ending(running, b)
  BY LoopIs
<1>2. L \in LoopType /\ L.over /\ L.fn = TopFrame.fn /\ L.elem = TopFrame.elem /\ L.toEnd = TopFrame.toEnd /\ L.i = i
  BY <1>1, LoopGoesOn
<1>3. a \in DOMAIN anims /\ anims[a] \in AnimType /\ a \in 1 .. MaxAnimations /\ TypesInv /\ anims \in Seq(AnimType)
      /\ timers[i] \in TimerType
  BY SoundNow, MadeBefore, TypedNow
<1>4. TypesInv /\ FramesTyped(<<L>> \o LowerFrames, Len(anims))
  <2>1. TopFrame.i > 0
    BY SoundNow, TypedNow, ElementsAre
  <2> QED
    BY <2>1, SoundNow, LoopTyped
<1>5. AnimsTyped(anims') /\ Len(anims') = Len(anims) /\ FramesTyped(running', Len(anims))
  BY <1>4, LastStepTyped
<1>6. <<L>> \o LowerFrames = <<L>>
  <2>1. L \in Frames
    BY <1>2, AmongFrames
  <2> HIDE DEF L
  <2> QED
    BY <1>1, <2>1
<1>7. anims' = an1 /\ running' = gs
  BY <1>6 DEF LastStep
<1>8. Typed(queue, an1, timers, gs, delays)
  <2> HIDE DEF an1, gs
  <2> QED
    BY <1>3, <1>5, <1>7, TypedNow DEF Typed
<1>9. /\ c.curAnim = done /\ c.elem = anims[a].elem /\ c.queued = anims[a].queued /\ c.props = anims[a].props
      /\ c.ended = anims[a].ended /\ c.duration = anims[a].duration /\ c \in AnimType
  BY <1>3 DEF AnimType, TimerType
<1> HIDE DEF L, c
<1>10. /\ DOMAIN an1 = DOMAIN anims /\ an1[a] = c
       /\ \A b \in DOMAIN anims : b # a => an1[b] = anims[b]
  BY <1>3
<1> HIDE DEF an1
<1>11. /\ \A b \in DOMAIN anims :
             /\ an1[b].elem = anims[b].elem /\ an1[b].queued = anims[b].queued
             /\ an1[b].props = anims[b].props /\ an1[b].ended = anims[b].ended
             /\ an1[b].duration = anims[b].duration
  BY <1>9, <1>10, Zenon
<1>12. /\ timers[i].prop \in anims[a].props /\ timers[i].prop \notin anims[a].curAnim
       /\ Timed(timers, a)
  BY <1>1, SoundNow DEF TimersSound, Finished, Timed
<1>13. anims[a].ended = 0
  <2>1. AnimSound(manner, anims[a])
    BY <1>3, SoundNow DEF AnimsSound
  <2>2. anims[a].ended # 1 /\ anims[a].ended \in Nat
    BY <1>3, <1>12, <2>1 DEF AnimSound, AnimType
  <2> QED
    BY <2>1, <2>2 DEF AnimSound
<1>14. AnimsSound(manner, an1)
  <2> SUFFICES ASSUME NEW b \in DOMAIN anims PROVE AnimSound(manner, an1[b])
    BY <1>10 DEF AnimsSound
  <2>1. AnimSound(manner, anims[b])
    BY SoundNow DEF AnimsSound
  <2>2. CASE b = a
    BY <1>9, <1>10, <1>13, <2>1, <2>2 DEF AnimSound
  <2>3. CASE b # a
    BY <1>10, <2>1, <2>3
  <2> QED
    BY <2>2, <2>3
<1>15. QueuesSound(manner, queue, an1, timers)
  <2> SUFFICES ASSUME NEW e \in Element PROVE QueueSound(manner, queue[e], an1, timers, e)
    BY DEF QueuesSound
  <2>1. QueueSound(manner, queue[e], anims, timers, e)
    BY SoundNow DEF QueuesSound
  <2>2. ASSUME NEW k \in DOMAIN queue[e], queue[e][k] > 0 PROVE Unstarted(an1, timers, e, queue[e][k])
    <3>1. Unstarted(anims, timers, e, queue[e][k])
      BY <2>1, <2>2 DEF QueueSound
    <3>2. queue[e][k] # a
      BY <1>12, <3>1 DEF Unstarted
    <3> QED
      BY <1>10, <3>1, <3>2 DEF Unstarted
  <2> QED
    BY <2>1, <2>2 DEF QueueSound
<1>16. /\ FramesSound(manner, queue, an1, timers, <<L>>) /\ <<L>> \in Seq(Frames)
       /\ \A b : ~ Ending(<<L>>, b)
       /\ \A e : L.fn = "stop" /\ L.elem = e /\ queue[e] = <<>>
                 /\ (\A j \in DOMAIN timers : an1[timers[j].anim].queued /\ an1[timers[j].anim].elem = e => j <= L.i)
                 => Cut(manner, queue, an1, timers, <<L>>, e)
  <2>1. L.fn = "stop" => "delay" \notin Does(manner) /\ (L.toEnd => "end" \in manner.page)
    BY <1>1, <1>2 DEF FrameSound
  <2>2. ~ Stops(L)
    BY <1>2 DEF Stops
  <2> QED
    BY <1>2, <2>1, <2>2, LoopAlone
<1>17. Len(<<L>>) = 1 /\ <<L>>[1] = L /\ <<L>> # <<>>
  OBVIOUS
<1>18. TimersSound(an1, timers, <<L>>)
  <2>1. ASSUME NEW j \in DOMAIN timers
        PROVE  timers[j].prop \in an1[timers[j].anim].props /\ (Finished(an1, timers, j) => Handled(<<L>>, j))
    <3>1. timers[j].anim \in DOMAIN anims
      BY <1>3, MadeBefore
    <3>2. timers[j].prop \in an1[timers[j].anim].props
      BY <1>11, <3>1, SoundNow DEF TimersSound
    <3>3. ASSUME Finished(an1, timers, j) PROVE j = i
      <4>1. timers[j].anim = a
        BY <1>1, <1>10, <3>1, <3>3 DEF Finished
      <4>2. timers[j].prop = timers[i].prop
        BY <1>1, <1>9, <1>10, <3>3, <4>1 DEF Finished
      <4> QED
        BY <4>1, <4>2, SoundNow DEF TimersSound
    <3>4. Handled(<<L>>, i)
      BY <1>2, <1>17 DEF Handled, Loops
    <3> QED
      BY <3>2, <3>3, <3>4
  <2> QED
    BY <2>1, SoundNow DEF TimersSound
<1>19. /\ Completing(a) \in Frames /\ Completing(a).fn = "complete" /\ Completing(a).anim = a
       /\ Completing(a).pc = "dequeue"
  BY <1>3, CompletingIs
<1>20. CASE all
  <2> DEFINE hs == <<Completing(a)>> \o <<L>>
  <2>1. FramesSound(manner, queue, an1, timers, hs) /\ SameLoop(<<L>>, hs)
    <3>1. CompleteSound(an1, Completing(a)) /\ ~ Loops(Completing(a))
      <4>1. CompleteSound(an1, Completing(a))
        <5>1. an1[a].curAnim = an1[a].props /\ an1[a].ended = 0
          BY <1>9, <1>10, <1>13, <1>20
        <5> QED
          BY ONLY <1>19, <5>1 DEF CompleteSound
      <4>2. ~ Loops(Completing(a))
        BY ONLY <1>19 DEF Loops
      <4> QED
        BY <4>1, <4>2
    <3>2. Ready(manner, <<L>>)
      BY <1>2, <1>17 DEF Ready, Stops, LoopType
    <3>3. \A k \in DOMAIN <<L>> : <<L>>[k].fn # "complete"
      BY <1>2 DEF LoopType
    <3> QED
      BY <1>16, <1>19, <3>1, <3>2, <3>3, PushSound
  <2>2. TimersSound(an1, timers, hs)
    BY <1>18, <2>1, TimersFollow
  <2>3. \A b : Ending(hs, b) => b = a
    <3> SUFFICES ASSUME NEW b, Ending(hs, b) PROVE b = a
      OBVIOUS
    <3>1. ~ Ending(<<L>>, b) /\ <<L>> \in Seq(Frames)
      BY <1>16
    <3>2. Ending(hs, b) <=> Ending(<<L>>, b) \/ (Ends(Completing(a)) /\ Completing(a).anim = b)
      BY ONLY <1>19, <3>1, PushEnding
    <3> QED
      BY ONLY <1>19, <3>1, <3>2, Ending(hs, b)
  <2>4. Len(hs) = 2 /\ hs[1] = Completing(a) /\ hs[2] = L /\ hs # <<>>
    OBVIOUS
  <2> HIDE DEF hs
  <2>5. ASSUME NEW e \in Element PROVE Single(manner, queue, an1, timers, hs, delays, e)
    <3>1. Single(manner, queue, anims, timers, running, delays, e)
      BY SoundNow
    <3>2. Going(an1, timers, hs, e) \subseteq Going(anims, timers, running, e)
      <4> SUFFICES ASSUME NEW b \in Going(an1, timers, hs, e) PROVE b \in Going(anims, timers, running, e)
        OBVIOUS
      <4>1. CASE b = a
        BY <1>3, <1>11, <1>12, <4>1 DEF Going
      <4>2. CASE b # a
        BY <1>10, <2>3, <4>2 DEF Going
      <4> QED
        BY <4>1, <4>2
    <3>3. Cut(manner, queue, anims, timers, running, e) => Cut(manner, queue, an1, timers, hs, e)
      <4> SUFFICES ASSUME Cut(manner, queue, anims, timers, running, e) PROVE Cut(manner, queue, an1, timers, hs, e)
        OBVIOUS
      <4>1. TopFrame.fn = "stop" /\ TopFrame.elem = e /\ queue[e] = <<>>
        BY <1>1
      <4>2. \A j \in DOMAIN timers : an1[timers[j].anim].queued /\ an1[timers[j].anim].elem = e => j <= L.i
        BY <1>1, <1>2, <1>3, <1>11, MadeBefore
      <4>3. Ends(hs[1]) /\ an1[hs[1].anim].elem = e
        BY <1>3, <1>11, <1>19, <2>4, <4>1 DEF Ends
      <4> QED
        BY <1>2, <2>4, <4>1, <4>2, <4>3 DEF Cut
    <3> QED
      BY <3>1, <3>2, <3>3, SingleFollows
  <2>6. Typed(queue, an1, timers, hs, delays)
    BY <1>8, <1>20 DEF hs
  <2>7. Sound(manner, queue, an1, timers, hs, delays)
    BY <1>14, <1>15, <2>1, <2>2, <2>5, <2>6 DEF Sound
  <2>8. running' = hs
    BY <1>7, <1>20 DEF hs
  <2> QED
    BY <1>7, <2>7, <2>8 DEF SoundNext
<1>21. CASE ~ all
  <2>1. ASSUME NEW e \in Element PROVE Single(manner, queue, an1, timers, <<L>>, delays, e)
    <3>1. Single(manner, queue, anims, timers, running, delays, e)
      BY SoundNow
    <3>2. Going(an1, timers, <<L>>, e) \subseteq Going(anims, timers, running, e)
      <4> SUFFICES ASSUME NEW b \in Going(an1, timers, <<L>>, e) PROVE b \in Going(anims, timers, running, e)
        OBVIOUS
      <4>1. CASE b = a
        BY <1>3, <1>11, <1>12, <4>1 DEF Going
      <4>2. CASE b # a
        BY <1>10, <1>16, <4>2 DEF Going
      <4> QED
        BY <4>1, <4>2
    <3>3. Cut(manner, queue, anims, timers, running, e) => Cut(manner, queue, an1, timers, <<L>>, e)
      <4> SUFFICES ASSUME Cut(manner, queue, anims, timers, running, e) PROVE Cut(manner, queue, an1, timers, <<L>>, e)
        OBVIOUS
      <4>1. TopFrame.fn = "stop" /\ TopFrame.elem = e /\ queue[e] = <<>>
        BY <1>1
      <4>2. \A j \in DOMAIN timers : an1[timers[j].anim].queued /\ an1[timers[j].anim].elem = e => j <= L.i
        BY <1>1, <1>2, <1>3, <1>11, MadeBefore
      <4> QED
        BY <1>2, <1>16, <4>1, <4>2
    <3> QED
      BY <3>1, <3>2, <3>3, SingleFollows
  <2>2. Typed(queue, an1, timers, <<L>>, delays)
    BY <1>8, <1>21
  <2>3. Sound(manner, queue, an1, timers, <<L>>, delays)
    BY <1>14, <1>15, <1>16, <1>18, <2>1, <2>2 DEF Sound
  <2> QED
    BY <1>7, <1>21, <2>3 DEF SoundNext
<1> QED
  BY <1>20, <1>21

\* A loop goes on, with the timers that it has left.
LEMMA LoopKeeps ==
    ASSUME AllSound, running # <<>>, TopFrame.fn \in {"tick", "stop"},
           NEW L \in LoopType, L.fn = TopFrame.fn, L.elem = TopFrame.elem, L.toEnd = TopFrame.toEnd, ~ L.over,
           L.fn = "tick" => L.i > 0,
           TimersTyped(timers', Len(anims)),
           \A j \in DOMAIN timers' : \E k \in DOMAIN timers :
              /\ timers'[j].anim = timers[k].anim /\ timers'[j].prop = timers[k].prop
              /\ ~ Finished(anims, timers, k)
              /\ TopFrame.fn = "stop" /\ anims[timers[k].anim].elem = TopFrame.elem /\ k <= TopFrame.i => j <= L.i,
           \A j, k \in DOMAIN timers' :
              timers'[j].anim = timers'[k].anim /\ timers'[j].prop = timers'[k].prop => j = k,
           running' = <<L>>, UNCHANGED <<queue, anims, delays>>
    PROVE  SoundNext
<1>1. /\ running = <<TopFrame>> /\ TopFrame \in LoopType /\ TypesInv
      /\ FrameSound(manner, queue, anims, timers, running, 1) /\ running[1] = TopFrame
      /\ \A e \in Element : Cut(manner, queue, anims, timers, running, e) =>
            /\ TopFrame.fn = "stop" /\ TopFrame.elem = e /\ queue[e] = <<>>
            /\ \A j \in DOMAIN timers :
                  anims[timers[j].anim].queued /\ anims[timers[j].anim].elem = e => j <= TopFrame.i
      /\ \A b : ~ Ending(running, b)
  BY LoopIs, SoundNow
<1>2. /\ FramesSound(manner, queue, anims, timers', <<L>>) /\ <<L>> \in Seq(Frames)
      /\ \A b : ~ Ending(<<L>>, b)
      /\ \A e : L.fn = "stop" /\ L.elem = e /\ queue[e] = <<>>
                /\ (\A j \in DOMAIN timers' : anims[timers'[j].anim].queued /\ anims[timers'[j].anim].elem = e => j <= L.i)
                => Cut(manner, queue, anims, timers', <<L>>, e)
  <2>1. L.fn = "stop" => "delay" \notin Does(manner) /\ (L.toEnd => "end" \in manner.page)
    BY <1>1 DEF FrameSound
  <2>2. ASSUME Stops(L), NEW j \in DOMAIN timers', anims[timers'[j].anim].elem = L.elem PROVE j <= L.i
    <3>1. PICK k \in DOMAIN timers :
             /\ timers'[j].anim = timers[k].anim
             /\ TopFrame.fn = "stop" /\ anims[timers[k].anim].elem = TopFrame.elem /\ k <= TopFrame.i => j <= L.i
      OBVIOUS
    <3>2. Stops(TopFrame)
      BY <2>2 DEF Stops
    <3>3. k <= TopFrame.i
      BY <1>1, <2>2, <3>1, <3>2 DEF FrameSound
    <3> QED
      BY <2>2, <3>1, <3>2, <3>3 DEF Stops
  <2> QED
    BY <2>1, <2>2, LoopAlone
<1>3. TimersSound(anims, timers', <<L>>)
  <2>1. ASSUME NEW j \in DOMAIN timers'
        PROVE  timers'[j].prop \in anims[timers'[j].anim].props /\ ~ Finished(anims, timers', j)
    <3>1. PICK k \in DOMAIN timers :
             /\ timers'[j].anim = timers[k].anim /\ timers'[j].prop = timers[k].prop
             /\ ~ Finished(anims, timers, k)
      OBVIOUS
    <3> QED
      BY <3>1, SoundNow DEF TimersSound, Finished
  <2> QED
    BY <2>1 DEF TimersSound
<1>4. \A a : Timed(timers', a) => Timed(timers, a)
  BY DEF Timed
<1>5. QueuesSound(manner, queue, anims, timers')
  BY <1>4, SoundNow DEF QueuesSound, QueueSound, Unstarted
<1>6. ASSUME NEW e \in Element PROVE Single(manner, queue, anims, timers', <<L>>, delays, e)
  <2>1. Single(manner, queue, anims, timers, running, delays, e)
    BY SoundNow
  <2>2. Going(anims, timers', <<L>>, e) \subseteq Going(anims, timers, running, e)
    BY <1>2, <1>4 DEF Going
  <2>3. Cut(manner, queue, anims, timers, running, e) => Cut(manner, queue, anims, timers', <<L>>, e)
    <3> SUFFICES ASSUME Cut(manner, queue, anims, timers, running, e)
                 PROVE  Cut(manner, queue, anims, timers', <<L>>, e)
      OBVIOUS
    <3>1. /\ TopFrame.fn = "stop" /\ TopFrame.elem = e /\ queue[e] = <<>>
          /\ \A j \in DOMAIN timers : anims[timers[j].anim].queued /\ anims[timers[j].anim].elem = e => j <= TopFrame.i
      BY <1>1
    <3>2. ASSUME NEW j \in DOMAIN timers', anims[timers'[j].anim].queued, anims[timers'[j].anim].elem = e
          PROVE  j <= L.i
      BY <3>1, <3>2
    <3> QED
      BY <1>2, <3>1, <3>2
  <2> QED
    BY <2>1, <2>2, <2>3, SingleFollows
<1>7. Typed(queue, anims, timers', <<L>>, delays)
  <2>1. L \in Frames /\ FrameTyped(L, Len(anims))
    BY <1>1, AmongFrames DEF FrameTyped, LoopType
  <2>2. FramesTyped(<<L>>, Len(anims))
    BY <2>1 DEF FramesTyped
  <2> QED
    BY <1>1, <2>2, TypedNow DEF Typed
<1>8. Sound(manner, queue, anims, timers', <<L>>, delays)
  BY <1>2, <1>3, <1>5, <1>6, <1>7, SoundNow DEF Sound
<1> QED
  BY <1>8 DEF SoundNext

\* A timer that has something left goes on with less.
LEMMA LessIsLeft ==
    ASSUME NEW timer \in TimerType, timer.left > 0
    PROVE  LET less == [timer EXCEPT !.left = @ - 1]
           IN  less \in TimerType /\ less.anim = timer.anim /\ less.prop = timer.prop
<1>1. timer.left - 1 \in Nat
  BY DEF TimerType
<1> QED
  BY <1>1 DEF TimerType

LEMMA TickStepSound == ASSUME AllSound, TickStep PROVE SoundNext
<1> DEFINE i == TopFrame.i
           L == [TopFrame EXCEPT !.i = i + 1]
<1>1. /\ running # <<>> /\ TopFrame.fn = "tick" /\ i <= Len(timers) /\ ~ TopFrame.over
      /\ UNCHANGED <<manner, queue, timerId, delays, delayed>>
      /\ IF timers[i].left > 0
         THEN /\ timers' = [timers EXCEPT ![i].left = @ - 1]
              /\ running' = <<L>> \o LowerFrames
              /\ UNCHANGED anims
         ELSE LastStep(i, <<[TopFrame EXCEPT !.over = TRUE]>> \o LowerFrames) /\ UNCHANGED timers
  BY DEF TickStep, In
<1>2. /\ i \in Nat /\ i > 0 /\ TopFrame \in LoopType /\ LowerFrames = <<>> /\ TypesInv
      /\ \A j \in DOMAIN timers : ~ Finished(anims, timers, j)
  BY <1>1, LoopIs, SoundNow
<1>3. i \in DOMAIN timers /\ timers \in Seq(TimerType) /\ timers[i] \in TimerType
  BY <1>1, <1>2, TypedNow, ElementsAre
<1>4. CASE timers[i].left > 0
  <2> DEFINE c == [timers[i] EXCEPT !.left = @ - 1]
  <2>1. c \in TimerType /\ c.anim = timers[i].anim /\ c.prop = timers[i].prop
    BY ONLY <1>3, <1>4, LessIsLeft
  <2>2. timers' = [timers EXCEPT ![i] = c]
    BY <1>1, <1>4
  <2> HIDE DEF c
  <2>3. /\ timers' \in Seq(TimerType) /\ DOMAIN timers' = DOMAIN timers
        /\ \A j \in DOMAIN timers : timers'[j] = IF j = i THEN c ELSE timers[j]
    BY ONLY <1>3, <2>1, <2>2, ChangeIs
  <2>4. \A j \in DOMAIN timers : timers'[j].anim = timers[j].anim /\ timers'[j].prop = timers[j].prop
    BY <2>1, <2>3
  <2>5. TimersTyped(timers', Len(anims))
    BY <1>2, <2>3, <2>4, TypedNow DEF TimersTyped
  <2>6. \A j, k \in DOMAIN timers' :
           timers'[j].anim = timers'[k].anim /\ timers'[j].prop = timers'[k].prop => j = k
    BY <2>3, <2>4, SoundNow DEF TimersSound
  <2>7. L \in LoopType /\ L.fn = TopFrame.fn /\ L.elem = TopFrame.elem /\ L.toEnd = TopFrame.toEnd /\ ~ L.over /\ L.i = i + 1
    <3>1. i + 1 \in Nat /\ TopFrame \in LoopType
      BY <1>2
    <3> QED
      BY <1>1, <3>1 DEF LoopType
  <2> HIDE DEF L
  <2>8. running' = <<L>>
    <3>1. L \in Frames
      BY <2>7, AmongFrames
    <3> QED
      BY <1>1, <1>2, <1>4, <3>1
  <2>9. L.fn = "tick" => L.i > 0
    BY <1>2, <2>7
  <2>10. \A j \in DOMAIN timers' : \E k \in DOMAIN timers :
            /\ timers'[j].anim = timers[k].anim /\ timers'[j].prop = timers[k].prop
            /\ ~ Finished(anims, timers, k)
            /\ TopFrame.fn = "stop" /\ anims[timers[k].anim].elem = TopFrame.elem /\ k <= TopFrame.i => j <= L.i
    BY <1>1, <1>2, <2>3, <2>4
  <2> QED
    BY <1>1, <1>4, <2>5, <2>6, <2>7, <2>8, <2>9, <2>10, LoopKeeps
<1>5. CASE ~ timers[i].left > 0
  <2>1. LastStep(i, <<[TopFrame EXCEPT !.over = TRUE]>> \o LowerFrames) /\ UNCHANGED <<queue, timers, delays>>
    BY <1>1, <1>5
  <2> HIDE DEF L
  <2> QED
    BY <1>1, <1>3, <2>1, LastStepSound
<1> QED
  BY <1>4, <1>5

\* What is left when one is taken out.
LEMMA SpliceLeaves ==
    ASSUME TypesInv, NEW i \in Nat, i > 0, Splice(i)
    PROVE  /\ \A j \in DOMAIN timers' : \E k \in DOMAIN timers :
                 /\ timers'[j] = timers[k] /\ j \in Nat /\ k \in Nat /\ k # i
                 /\ IF j < i THEN k = j ELSE k = j + 1
           /\ TimersSound(anims, timers, running) =>
                 \A j, k \in DOMAIN timers' :
                    timers'[j].anim = timers'[k].anim /\ timers'[j].prop = timers'[k].prop => j = k
<1>1. timers \in Seq(TimerType)
  BY TypedNow
<1>2. \A j \in DOMAIN timers' : \E k \in DOMAIN timers :
         /\ timers'[j] = timers[k] /\ j \in Nat /\ k \in Nat /\ k # i
         /\ IF j < i THEN k = j ELSE k = j + 1
  <2>1. CASE i \in DOMAIN timers
    <3>1. timers' = RemoveAt(timers, i)
      BY <2>1 DEF Splice
    <3>2. \A j \in DOMAIN RemoveAt(timers, i) :
             /\ j \in Nat /\ j \in DOMAIN timers /\ j + 1 \in DOMAIN timers
             /\ RemoveAt(timers, i)[j] = IF j < i THEN timers[j] ELSE timers[j + 1]
      BY <1>1, <2>1, RemoveAtIs
    <3> SUFFICES ASSUME NEW j \in DOMAIN timers'
                 PROVE  \E k \in DOMAIN timers :
                           /\ timers'[j] = timers[k] /\ j \in Nat /\ k \in Nat /\ k # i
                           /\ IF j < i THEN k = j ELSE k = j + 1
      OBVIOUS
    <3>3. j \in Nat /\ j \in DOMAIN timers /\ j + 1 \in DOMAIN timers
          /\ timers'[j] = IF j < i THEN timers[j] ELSE timers[j + 1]
      BY <3>1, <3>2
    <3>4. CASE j < i
      <4>1. timers'[j] = timers[j] /\ j # i
        BY <3>3, <3>4
      <4> QED
        BY <3>3, <3>4, <4>1
    <3>5. CASE ~ j < i
      <4>1. timers'[j] = timers[j + 1] /\ j + 1 # i /\ j + 1 \in Nat
        BY <3>3, <3>5
      <4> QED
        BY <3>3, <3>5, <4>1
    <3> QED
      BY <3>4, <3>5
  <2>2. CASE i \notin DOMAIN timers
    <3>1. timers' = timers
      BY <2>2 DEF Splice
    <3>2. \A j \in DOMAIN timers : j \in Nat /\ j < i
      BY <1>1, <2>2, ElementsAre
    <3>3. \A j \in DOMAIN timers : j # i
      BY <3>2
    <3> QED
      BY <3>1, <3>2, <3>3
  <2> QED
    BY <2>1, <2>2
<1>3. ASSUME TimersSound(anims, timers, running), NEW j \in DOMAIN timers', NEW k \in DOMAIN timers',
             timers'[j].anim = timers'[k].anim, timers'[j].prop = timers'[k].prop
      PROVE  j = k
  <2>1. PICK jj \in DOMAIN timers : /\ timers'[j] = timers[jj] /\ j \in Nat /\ jj \in Nat /\ jj # i
                                    /\ IF j < i THEN jj = j ELSE jj = j + 1
    BY <1>2
  <2>2. PICK kk \in DOMAIN timers : /\ timers'[k] = timers[kk] /\ k \in Nat /\ kk \in Nat /\ kk # i
                                    /\ IF k < i THEN kk = k ELSE kk = k + 1
    BY <1>2
  <2>3. jj = kk
    BY <1>3, <2>1, <2>2 DEF TimersSound
  <2> QED
    BY <2>1, <2>2, <2>3
<1> QED
  BY <1>2, <1>3

\* A loop takes out the timer that it is at.
LEMMA SpliceSound ==
    ASSUME AllSound, running # <<>>, TopFrame.fn \in {"tick", "stop"}, TopFrame.i > 0,
           NEW L \in LoopType, L.fn = TopFrame.fn, L.elem = TopFrame.elem, L.toEnd = TopFrame.toEnd, ~ L.over,
           L.i = IF TopFrame.fn = "tick" THEN TopFrame.i ELSE TopFrame.i - 1,
           Splice(TopFrame.i), running' = <<L>> \o LowerFrames, UNCHANGED <<queue, anims, delays>>
    PROVE  SoundNext
<1> DEFINE i == TopFrame.i
<1>1. /\ i \in Nat /\ i > 0 /\ LowerFrames = <<>> /\ TypesInv
      /\ \A j \in DOMAIN timers : Finished(anims, timers, j) => j = i
  BY LoopIs, SoundNow
<1>2. \A j \in DOMAIN timers' : \E k \in DOMAIN timers :
         /\ timers'[j] = timers[k] /\ j \in Nat /\ k \in Nat /\ k # i
         /\ IF j < i THEN k = j ELSE k = j + 1
  BY <1>1, SpliceLeaves
<1>3. TimersTyped(timers', Len(anims))
  BY <1>1, SpliceTyped
<1>4. \A j, k \in DOMAIN timers' :
         timers'[j].anim = timers'[k].anim /\ timers'[j].prop = timers'[k].prop => j = k
  BY <1>1, SoundNow, SpliceLeaves
<1>5. \A j \in DOMAIN timers' : \E k \in DOMAIN timers :
         /\ timers'[j].anim = timers[k].anim /\ timers'[j].prop = timers[k].prop
         /\ ~ Finished(anims, timers, k)
         /\ TopFrame.fn = "stop" /\ anims[timers[k].anim].elem = TopFrame.elem /\ k <= TopFrame.i => j <= L.i
  <2> SUFFICES ASSUME NEW j \in DOMAIN timers'
               PROVE  \E k \in DOMAIN timers :
                         /\ timers'[j].anim = timers[k].anim /\ timers'[j].prop = timers[k].prop
                         /\ ~ Finished(anims, timers, k)
                         /\ TopFrame.fn = "stop" /\ anims[timers[k].anim].elem = TopFrame.elem /\ k <= TopFrame.i => j <= L.i
    OBVIOUS
  <2>1. PICK k \in DOMAIN timers : /\ timers'[j] = timers[k] /\ j \in Nat /\ k \in Nat /\ k # i
                                   /\ IF j < i THEN k = j ELSE k = j + 1
    BY <1>2
  <2>2. ~ Finished(anims, timers, k)
    BY <1>1, <2>1
  <2>3. TopFrame.fn = "stop" /\ k <= i => j <= L.i
    BY <1>1, <2>1
  <2> QED
    BY <2>1, <2>2, <2>3
<1>6. running' = <<L>>
  <2>1. L \in Frames
    BY AmongFrames
  <2> QED
    BY <1>1, <2>1
<1>7. L.fn = "tick" => L.i > 0
  OBVIOUS
<1> QED
  BY <1>3, <1>4, <1>5, <1>6, <1>7, LoopKeeps

LEMMA SplicesSound == ASSUME AllSound, TickSplice \/ StopSplice PROVE SoundNext
<1> DEFINE i == TopFrame.i
<1>1. /\ running # <<>> /\ TopFrame.fn \in {"tick", "stop"} /\ TopFrame.over /\ Splice(i)
      /\ UNCHANGED <<queue, anims, delays>>
  BY DEF TickSplice, StopSplice, In
<1>2. i \in Nat /\ i > 0 /\ TopFrame \in LoopType /\ i - 1 \in Nat
  <2>1. i \in Nat /\ i > 0 /\ TopFrame \in LoopType
    BY <1>1, LoopIs
  <2> QED
    BY <2>1
<1>3. CASE TickSplice
  <2> DEFINE L == [TopFrame EXCEPT !.over = FALSE]
  <2>1. running' = <<L>> \o LowerFrames /\ TopFrame.fn = "tick"
    BY <1>3 DEF TickSplice, In
  <2>2. L \in LoopType /\ L.fn = TopFrame.fn /\ L.elem = TopFrame.elem /\ L.toEnd = TopFrame.toEnd /\ ~ L.over /\ L.i = i
    BY <1>2 DEF LoopType
  <2> HIDE DEF L
  <2> QED
    BY <1>1, <1>2, <2>1, <2>2, SpliceSound
<1>4. CASE StopSplice
  <2> DEFINE L == [TopFrame EXCEPT !.over = FALSE, !.i = i - 1]
  <2>1. running' = <<L>> \o LowerFrames /\ TopFrame.fn = "stop"
    BY <1>4 DEF StopSplice, In
  <2>2. L \in LoopType /\ L.fn = TopFrame.fn /\ L.elem = TopFrame.elem /\ L.toEnd = TopFrame.toEnd /\ ~ L.over /\ L.i = i - 1
    BY <1>2 DEF LoopType
  <2> HIDE DEF L
  <2> QED
    BY <1>1, <1>2, <2>1, <2>2, SpliceSound
<1> QED
  BY <1>3, <1>4

LEMMA StopStepSound == ASSUME AllSound, StopStep PROVE SoundNext
<1> DEFINE i == TopFrame.i
           L == [TopFrame EXCEPT !.i = i - 1]
           other == anims[timers[i].anim].elem # TopFrame.elem
<1>1. /\ running # <<>> /\ TopFrame.fn = "stop" /\ i \in DOMAIN timers /\ i > 0 /\ ~ TopFrame.over
      /\ UNCHANGED <<manner, queue, timerId, delays, delayed>>
      /\ other => running' = <<L>> \o LowerFrames /\ UNCHANGED <<anims, timers>>
      /\ ~ other /\ TopFrame.toEnd =>
            LastStep(i, <<[TopFrame EXCEPT !.over = TRUE]>> \o LowerFrames) /\ UNCHANGED timers
      /\ ~ other /\ ~ TopFrame.toEnd => running' = <<L>> \o LowerFrames /\ Splice(i) /\ UNCHANGED anims
  <2>1. i \in DOMAIN timers => i > 0
    BY TypedNow, SoundNow, ElementsAre
  <2> QED
    BY <2>1 DEF StopStep, In
<1>2. /\ i \in Nat /\ TopFrame \in LoopType /\ LowerFrames = <<>> /\ TypesInv
      /\ \A j \in DOMAIN timers : ~ Finished(anims, timers, j)
  BY <1>1, LoopIs, SoundNow
<1>3. i - 1 \in Nat
  BY <1>1, <1>2
<1>4. L \in LoopType /\ L.fn = TopFrame.fn /\ L.elem = TopFrame.elem /\ L.toEnd = TopFrame.toEnd /\ ~ L.over /\ L.i = i - 1
  BY <1>1, <1>2, <1>3 DEF LoopType
<1> HIDE DEF L
<1>5. CASE other
  <2>1. running' = <<L>>
    <3>1. L \in Frames
      BY <1>4, AmongFrames
    <3> QED
      BY <1>1, <1>2, <1>5, <3>1
  <2>2. timers' = timers /\ TimersTyped(timers', Len(anims)) /\ DOMAIN timers = 1 .. Len(timers) /\ Len(timers) \in Nat
    BY <1>1, <1>2, <1>5, TypedNow, ElementsAre
  <2>3. \A j, k \in DOMAIN timers' :
           timers'[j].anim = timers'[k].anim /\ timers'[j].prop = timers'[k].prop => j = k
    BY <2>2, SoundNow DEF TimersSound
  <2>4. \A j \in DOMAIN timers : anims[timers[j].anim].elem = TopFrame.elem /\ j <= i => j <= i - 1
    BY <1>2, <1>5, <2>2
  <2>5. \A j \in DOMAIN timers' : \E k \in DOMAIN timers :
           /\ timers'[j].anim = timers[k].anim /\ timers'[j].prop = timers[k].prop
           /\ ~ Finished(anims, timers, k)
           /\ TopFrame.fn = "stop" /\ anims[timers[k].anim].elem = TopFrame.elem /\ k <= TopFrame.i => j <= L.i
    BY <1>2, <1>4, <2>2, <2>4
  <2> HIDE DEF other
  <2> QED
    BY <1>1, <1>4, <1>5, <2>1, <2>2, <2>3, <2>5, LoopKeeps
<1>6. CASE ~ other /\ TopFrame.toEnd
  <2>1. LastStep(i, <<[TopFrame EXCEPT !.over = TRUE]>> \o LowerFrames) /\ UNCHANGED <<queue, timers, delays>>
    BY <1>1, <1>6
  <2>2. i \in DOMAIN timers /\ anims[timers[i].anim].elem = TopFrame.elem
    BY <1>1, <1>2, <1>6, TypedNow, ElementsAre
  <2> QED
    BY <1>1, <1>6, <2>1, <2>2, LastStepSound
<1>7. CASE ~ other /\ ~ TopFrame.toEnd
  <2>1. Splice(i) /\ running' = <<L>> \o LowerFrames /\ UNCHANGED <<queue, anims, delays>>
    BY <1>1, <1>7
  <2> HIDE DEF other
  <2> QED
    BY <1>1, <1>2, <1>4, <2>1, SpliceSound
<1> QED
  BY <1>5, <1>6, <1>7

\* A loop has gone through all of the timers.
LEMMA LeaveKeeps ==
    ASSUME AllSound, running # <<>>, TopFrame.fn \in {"tick", "stop"}, ~ TopFrame.over,
           TopFrame.fn = "stop" => TopFrame.i = 0
    PROVE  Sound(manner, queue, anims, timers, <<>>, delays)
<1>1. /\ TypesInv
      /\ \A j \in DOMAIN timers : j \in Nat /\ j > 0 /\ ~ Finished(anims, timers, j)
      /\ \A e \in Element : Cut(manner, queue, anims, timers, running, e) =>
            /\ TopFrame.fn = "stop"
            /\ \A j \in DOMAIN timers :
                  anims[timers[j].anim].queued /\ anims[timers[j].anim].elem = e => j <= TopFrame.i
  <2>1. /\ TypesInv
        /\ \A j \in DOMAIN timers : ~ Finished(anims, timers, j)
        /\ \A e \in Element : Cut(manner, queue, anims, timers, running, e) =>
              /\ TopFrame.fn = "stop"
              /\ \A j \in DOMAIN timers :
                    anims[timers[j].anim].queued /\ anims[timers[j].anim].elem = e => j <= TopFrame.i
    BY LoopIs, SoundNow
  <2>2. \A j \in DOMAIN timers : j \in Nat /\ j > 0
    BY <2>1, TypedNow, ElementsAre
  <2> QED
    BY <2>1, <2>2
<1>2. FramesSound(manner, queue, anims, timers, <<>>)
  BY DEF FramesSound
<1>3. TimersSound(anims, timers, <<>>)
  BY <1>1, SoundNow DEF TimersSound
<1>4. ASSUME NEW e \in Element PROVE Single(manner, queue, anims, timers, <<>>, delays, e)
  <2>1. Single(manner, queue, anims, timers, running, delays, e)
    BY SoundNow
  <2>2. Going(anims, timers, <<>>, e) \subseteq Going(anims, timers, running, e)
    BY DEF Going, Ending
  <2>3. Cut(manner, queue, anims, timers, running, e) => Going(anims, timers, <<>>, e) = {}
    <3> SUFFICES ASSUME Cut(manner, queue, anims, timers, running, e), NEW a \in Going(anims, timers, <<>>, e) PROVE FALSE
      OBVIOUS
    <3>1. PICK j \in DOMAIN timers : timers[j].anim = a
      BY DEF Going, Ending, Timed
    <3>2. anims[a].queued /\ anims[a].elem = e
      BY DEF Going
    <3>3. j <= 0 /\ j \in Nat /\ j > 0
      BY <1>1, <3>1, <3>2
    <3> QED
      BY <3>3
  <2> QED
    BY <2>1, <2>2, <2>3, SingleFollows
<1>5. Typed(queue, anims, timers, <<>>, delays)
  BY <1>1, EmptyTyped, TypedNow DEF Typed
<1> QED
  BY <1>2, <1>3, <1>4, <1>5, SoundNow DEF Sound

LEMMA TickEndSound == ASSUME AllSound, TickEnd PROVE SoundNext
<1>1. /\ running # <<>> /\ TopFrame.fn = "tick" /\ ~ TopFrame.over /\ running' = LowerFrames
      /\ UNCHANGED <<queue, anims, timers, delays>>
  BY DEF TickEnd, In
<1>2. LowerFrames = <<>>
  BY <1>1, LoopIs
<1>3. Sound(manner, queue, anims, timers, <<>>, delays)
  BY <1>1, LeaveKeeps
<1> QED
  BY <1>1, <1>2, <1>3 DEF SoundNext

LEMMA StopEndSound == ASSUME AllSound, StopEnd PROVE SoundNext
<1> DEFINE e == TopFrame.elem
<1>1. /\ running # <<>> /\ TopFrame.fn = "stop" /\ TopFrame.i = 0
      /\ IF TopFrame.toEnd THEN running' = LowerFrames /\ UNCHANGED <<queue, anims, timers, timerId, delays>>
         ELSE dequeue(queue, e, anims, LowerFrames, delays)
  BY DEF StopEnd, In
<1>2. /\ LowerFrames = <<>> /\ TopFrame \in LoopType /\ TypesInv /\ ~ TopFrame.over
      /\ FrameSound(manner, queue, anims, timers, running, 1) /\ running[1] = TopFrame
  <2>1. TopFrame.over => TopFrame.i > 0
    BY <1>1, LoopIs
  <2>2. ~ TopFrame.over
    BY <1>1, <2>1
  <2> QED
    BY <1>1, <2>2, LoopIs, SoundNow
<1>3. Sound(manner, queue, anims, timers, <<>>, delays)
  BY <1>1, <1>2, LeaveKeeps
<1>4. CASE TopFrame.toEnd
  BY <1>1, <1>2, <1>3, <1>4 DEF SoundNext
<1>5. CASE ~ TopFrame.toEnd
  <2>1. e \in Element
    BY <1>2 DEF LoopType
  <2>2. Going(anims, timers, <<>>, e) = {}
    <3> SUFFICES ASSUME NEW a \in Going(anims, timers, <<>>, e) PROVE FALSE
      OBVIOUS
    <3>1. PICK j \in DOMAIN timers : timers[j].anim = a
      BY DEF Going, Ending, Timed
    <3>2. anims[a].elem = e
      BY DEF Going
    <3>3. Stops(TopFrame)
      BY <1>1, <1>5 DEF Stops
    <3>4. j <= 0
      BY <1>1, <1>2, <3>1, <3>2, <3>3 DEF FrameSound
    <3>5. j \in Nat /\ j > 0
      BY <1>2, TypedNow, ElementsAre
    <3> QED
      BY <3>4, <3>5
  <2>3. delays[e] = 0
    <3>1. "delay" \notin Does(manner)
      BY <1>1, <1>2 DEF FrameSound
    <3>2. Single(manner, queue, anims, timers, running, delays, e)
      BY <2>1, SoundNow
    <3>3. delays[e] \in Nat
      BY <1>2, <2>1, TypedNow
    <3> QED
      BY <3>1, <3>2, <3>3 DEF Single
  <2>4. dequeue(queue, e, anims, <<>>, delays)
    BY <1>1, <1>2, <1>5
  <2>5. Unstopped(<<>>) /\ Ready(manner, <<>>) /\ Gentle(manner) /\ IntervalTyped(timerId)
    BY SoundNow, TypedNow DEF Unstopped, Ready
  <2> HIDE DEF e
  <2>6. Sound(manner, queue', anims', timers', running', delays')
    BY ONLY <1>3, <2>1, <2>2, <2>3, <2>4, <2>5, DequeueKeeps
  <2> QED
    BY <2>6 DEF SoundNext
<1> QED
  BY <1>4, <1>5

-----------------------------------------------------------------------------
(* What the page does, and the theorems. *)

LEMMA MayIs ==
    ASSUME NEW act, May(act)
    PROVE  /\ act \in Does(manner) /\ PageRuns(running) /\ Unstopped(running) /\ Ready(manner, running)
           /\ running = <<>> => act \in manner.page
           /\ running # <<>> => act \in manner.callbacks /\ (act \in {"animate", "delay"} => Enqueues(manner))
<1>1. running # <<>> => TopFrame = running[1]
  BY DEF TopFrame
<1>2. PageRuns(running)
  BY <1>1 DEF May, In, PageRuns
<1>3. Unstopped(running) /\ Ready(manner, running)
  BY <1>2 DEF PageRuns, Unstopped, Ready, Loops, Ends, Stops
<1> QED
  BY <1>2, <1>3 DEF May, Does, Enqueues

LEMMA AnimateSound == ASSUME AllSound, NEW e \in Element, Animate(e) PROVE SoundNext
<1>1. PICK props \in manner.props, duration \in manner.durations :
         \/ May("animate") /\ enqueue(e, Len(anims) + 1, Made(e, TRUE, props, duration), running)
         \/ May("aside") /\ Run(Len(anims) + 1, Made(e, FALSE, props, duration), running) /\ UNCHANGED <<queue, delays>>
  BY DEF Animate
<1>2. Len(anims) < manner.animations /\ TypesInv /\ IntervalTyped(timerId) /\ anims \in Seq(AnimType)
      /\ Sound(manner, queue, anims, timers, running, delays) /\ Gentle(manner)
  BY SoundNow, TypedNow DEF Animate
<1> DEFINE a == Len(anims) + 1
<1>3. ASSUME NEW queued \in BOOLEAN, ~ queued => May("aside")
      PROVE  LET begun == Made(e, queued, props, duration) IN
             /\ Sound(manner, queue, begun, timers, running, delays)
             /\ a \in DOMAIN begun /\ begun[a].elem = e /\ begun[a].queued = queued /\ begun[a].curAnim = {}
             /\ ~ Timed(timers, a)
             /\ \A d \in Element : \A i \in DOMAIN queue[d] : queue[d][i] # a
  <2> DEFINE begun == Made(e, queued, props, duration)
  <2>1. /\ Typed(queue, begun, timers, running, delays) /\ a \in DOMAIN begun
        /\ \E c \in AnimType :
              /\ c = [elem |-> e, queued |-> queued, props |-> props, duration |-> duration, curAnim |-> {}, ended |-> 0]
              /\ begun = Append(anims, c)
    BY <1>2, MadeIs
  <2> HIDE DEF begun
  <2>2. PICK c \in AnimType :
              /\ c = [elem |-> e, queued |-> queued, props |-> props, duration |-> duration, curAnim |-> {}, ended |-> 0]
              /\ begun = Append(anims, c)
    BY <2>1
  <2>3. c.elem = e /\ c.queued = queued /\ c.curAnim = {} /\ c.ended = 0 /\ c.duration \in manner.durations
    BY <2>2
  <2>4. ~ c.queued => "aside" \in Does(manner)
    BY <1>3, <2>3, MayIs
  <2>5. Typed(queue, Append(anims, c), timers, running, delays)
    BY <2>1, <2>2
  <2>6. /\ Sound(manner, queue, Append(anims, c), timers, running, delays)
        /\ ~ Timed(timers, Len(anims) + 1)
        /\ \A d \in Element : \A i \in DOMAIN queue[d] : queue[d][i] # Len(anims) + 1
    BY ONLY <1>2, <2>3, <2>4, <2>5, c \in AnimType, MadeKeeps
  <2>7. Append(anims, c)[a] = c
    BY <1>2, AppendIs
  <2>8. begun[a].elem = e /\ begun[a].queued = queued /\ begun[a].curAnim = {}
    BY <2>2, <2>3, <2>7
  <2> QED
    BY <2>1, <2>2, <2>6, <2>8 DEF begun
<1>4. CASE May("animate") /\ enqueue(e, a, Made(e, TRUE, props, duration), running)
  <2> DEFINE begun == Made(e, TRUE, props, duration)
  <2>1. /\ Sound(manner, queue, begun, timers, running, delays)
        /\ a \in DOMAIN begun /\ begun[a].elem = e /\ begun[a].queued = TRUE /\ begun[a].curAnim = {}
        /\ ~ Timed(timers, a)
        /\ \A d \in Element : \A i \in DOMAIN queue[d] : queue[d][i] # a
    BY <1>3
  <2>2. PageRuns(running) /\ (running # <<>> => Enqueues(manner))
    BY <1>4, MayIs
  <2>3. enqueue(e, a, begun, running)
    BY <1>4
  <2> HIDE DEF begun
  <2>4. Unstarted(begun, timers, e, a)
    BY <2>1 DEF Unstarted
  <2>5. Sound(manner, queue', anims', timers', running', delays')
    BY ONLY <1>2, <2>1, <2>2, <2>3, <2>4, e \in Element, EnqueueKeeps
  <2> QED
    BY <2>5 DEF SoundNext
<1>5. CASE May("aside") /\ Run(a, Made(e, FALSE, props, duration), running) /\ UNCHANGED <<queue, delays>>
  <2> DEFINE begun == Made(e, FALSE, props, duration)
  <2>1. /\ Sound(manner, queue, begun, timers, running, delays)
        /\ a \in DOMAIN begun /\ begun[a].elem = e /\ begun[a].queued = FALSE /\ begun[a].curAnim = {}
        /\ ~ Timed(timers, a)
        /\ \A d \in Element : \A i \in DOMAIN queue[d] : queue[d][i] # a
    BY <1>3, <1>5
  <2>2. Unstopped(running) /\ Ready(manner, running)
    BY <1>5, MayIs
  <2>3. Run(a, begun, running) /\ queue' = queue /\ delays' = delays
    BY <1>5
  <2> HIDE DEF begun
  <2>4. Sound(manner, queue, anims', timers', running', delays)
    BY ONLY <1>2, <2>1, <2>2, <2>3, RunKeeps
  <2> QED
    BY <2>3, <2>4 DEF SoundNext
<1> QED
  BY <1>1, <1>4, <1>5

LEMMA DelaySound == ASSUME AllSound, NEW e \in Element, DelayNext(e) \/ DelayOver(e) PROVE SoundNext
<1>1. /\ Sound(manner, queue, anims, timers, running, delays) /\ Gentle(manner) /\ IntervalTyped(timerId)
      /\ TypesInv /\ delays \in [Element -> Nat]
  BY SoundNow, TypedNow
<1>2. CASE DelayNext(e)
  <2>1. May("delay") /\ enqueue(e, Delay, anims, running)
    BY <1>2 DEF DelayNext
  <2>2. PageRuns(running) /\ (running # <<>> => Enqueues(manner)) /\ "delay" \in Does(manner)
    BY <2>1, MayIs
  <2>3. Sound(manner, queue', anims', timers', running', delays')
    BY <1>1, <2>1, <2>2, EnqueueKeeps
  <2> QED
    BY <2>3 DEF SoundNext
<1>3. CASE DelayOver(e)
  <2> DEFINE due == [delays EXCEPT ![e] = @ - 1]
  <2>1. running = <<>> /\ delays[e] > 0 /\ dequeue(queue, e, anims, <<>>, due)
    BY <1>3 DEF DelayOver
  <2>2. Single(manner, queue, anims, timers, running, delays, e)
    BY SoundNow
  <2>3. due[e] = 0 /\ due \in [Element -> Nat] /\ \A d \in Element : d # e => due[d] = delays[d]
    BY <1>1, <2>1, <2>2 DEF Single
  <2>4. Going(anims, timers, <<>>, e) = {}
    BY <2>1, <2>2 DEF Single
  <2> HIDE DEF due
  <2>5. ASSUME NEW d \in Element PROVE Single(manner, queue, anims, timers, <<>>, due, d)
    <3>1. Single(manner, queue, anims, timers, <<>>, delays, d)
      BY <2>1, SoundNow
    <3> QED
      BY <2>3, <3>1, SingleFollows
  <2>6. Sound(manner, queue, anims, timers, <<>>, due)
    BY <1>1, <2>1, <2>3, <2>5 DEF Sound, Typed
  <2>7. Unstopped(<<>>) /\ Ready(manner, <<>>)
    BY DEF Unstopped, Ready
  <2>8. Sound(manner, queue', anims', timers', running', delays')
    BY ONLY <1>1, <2>1, <2>3, <2>4, <2>6, <2>7, e \in Element, DequeueKeeps
  <2> QED
    BY <2>8 DEF SoundNext
<1> QED
  BY <1>2, <1>3

LEMMA StopSound == ASSUME AllSound, NEW e \in Element, stop(e) PROVE SoundNext
<1>1. PICK clears \in BOOLEAN, toEnd \in BOOLEAN :
         /\ May(IF toEnd THEN "end" ELSE "stop")
         /\ queue' = IF clears THEN Cleared(e) ELSE queue
         /\ running' = <<[fn |-> "stop", i |-> Len(timers), over |-> FALSE, elem |-> e, toEnd |-> toEnd]>>
                           \o (IF clears THEN Forgotten(running, e, "full") ELSE running)
  BY DEF stop
<1> DEFINE L == [fn |-> "stop", i |-> Len(timers), over |-> FALSE, elem |-> e, toEnd |-> toEnd]
<1>2. UNCHANGED <<manner, anims, timers, delays>> /\ TypesInv /\ Gentle(manner)
  BY SoundNow DEF stop
<1>3. /\ running = <<>> /\ (toEnd => "end" \in manner.page) /\ "delay" \notin Does(manner)
  <2>1. running = <<>>
    <3> SUFFICES ASSUME running # <<>> PROVE FALSE
      OBVIOUS
    <3>1. "stop" \in manner.callbacks \/ "end" \in manner.callbacks
      BY <1>1, MayIs
    <3> QED
      BY <1>2, <3>1 DEF Gentle
  <2>2. (toEnd => "end" \in manner.page) /\ (~ toEnd => "stop" \in manner.page)
    BY <1>1, <2>1, MayIs
  <2> QED
    BY <1>2, <2>1, <2>2 DEF Gentle
<1>4. Len(timers) \in Nat /\ DOMAIN timers = 1 .. Len(timers) /\ queue \in [Element -> Seq(Delay .. MaxAnimations)]
  BY <1>2, TypedNow, ElementsAre DEF QueuesTyped
<1>5. L \in LoopType /\ L.fn = "stop" /\ ~ L.over /\ L.i = Len(timers) /\ L.elem = e /\ L.toEnd = toEnd /\ L \in Frames
  BY <1>4, AmongFrames DEF LoopType
<1>6. running' = <<L>>
  <2>1. (IF clears THEN Forgotten(running, e, "full") ELSE running) = <<>>
    <3>1. running \in Seq(Frames) /\ Len(running) = 0
      BY <1>3
    <3>2. Forgotten(running, e, "full") \in Seq(Frames) /\ Len(Forgotten(running, e, "full")) = 0
      BY <3>1, ForgottenIs
    <3>3. Forgotten(running, e, "full") = <<>>
      BY <3>2
    <3> QED
      BY <1>3, <3>3
  <2> HIDE DEF L
  <2>2. running' = <<L>> \o <<>>
    BY <1>1, <2>1 DEF L
  <2> QED
    BY <1>5, <2>2
<1>7. Typed(queue', anims, timers, <<L>>, delays)
  <2>1. TypesInv'
    BY <1>2, ClearsTyped
  <2> HIDE DEF L
  <2> QED
    BY <1>2, <1>6, <2>1 DEF TypesInv
<1> HIDE DEF L
<1>8. \A d \in Element : queue'[d] = queue[d] \/ (d = e /\ queue'[d] = <<>>)
  BY <1>1, <1>4 DEF Cleared
<1>9. /\ FramesSound(manner, queue', anims, timers, <<L>>)
      /\ \A a : ~ Ending(<<L>>, a)
      /\ \A d : L.fn = "stop" /\ L.elem = d /\ queue'[d] = <<>>
                /\ (\A j \in DOMAIN timers : anims[timers[j].anim].queued /\ anims[timers[j].anim].elem = d => j <= L.i)
                => Cut(manner, queue', anims, timers, <<L>>, d)
  <2>1. \A j \in DOMAIN timers : j <= L.i
    BY <1>4, <1>5
  <2> QED
    BY <1>3, <1>5, <2>1, LoopAlone
<1>10. QueuesSound(manner, queue', anims, timers)
  <2> SUFFICES ASSUME NEW d \in Element PROVE QueueSound(manner, queue'[d], anims, timers, d)
    BY DEF QueuesSound
  <2>1. QueueSound(manner, queue[d], anims, timers, d) /\ QueueSound(manner, <<>>, anims, timers, d)
    BY SoundNow DEF QueuesSound, QueueSound
  <2> QED
    BY <1>8, <2>1
<1>11. TimersSound(anims, timers, <<L>>)
  BY <1>3, SoundNow DEF TimersSound, Handled
<1>12. ASSUME NEW d \in Element PROVE Single(manner, queue', anims, timers, <<L>>, delays, d)
  <2>1. Single(manner, queue, anims, timers, running, delays, d) /\ delays[d] \in Nat
    BY <1>2, SoundNow, TypedNow
  <2>2. Going(anims, timers, <<L>>, d) \subseteq Going(anims, timers, running, d)
    BY <1>9 DEF Going
  <2>3. ~ Cut(manner, queue, anims, timers, running, d)
    BY <1>3 DEF Cut
  <2>4. CASE queue'[d] = queue[d]
    <3>1. Marked(queue, d) => Marked(queue', d)
      BY <2>4 DEF Marked
    <3> QED
      BY <2>1, <2>2, <2>3, <3>1, SingleFollows
  <2>5. CASE d = e /\ queue'[d] = <<>>
    <3>1. Cut(manner, queue', anims, timers, <<L>>, d)
      BY <1>4, <1>5, <1>9, <2>5
    <3>2. delays[d] = 0
      BY <1>3, <2>1 DEF Single
    <3> QED
      BY <2>1, <2>2, <3>1, <3>2 DEF Single
  <2> QED
    BY <1>8, <2>4, <2>5
<1>13. Sound(manner, queue', anims, timers, <<L>>, delays)
  BY <1>7, <1>9, <1>10, <1>11, <1>12, SoundNow DEF Sound
<1> QED
  BY <1>2, <1>6, <1>13 DEF SoundNext

LEMMA NothingCleared == ASSUME AllSound, NEW e \in Element, clearQueue(e) PROVE FALSE
BY SoundNow, MayIs DEF clearQueue, Gentle

LEMMA EffectsStart == EffectsInit => EffectsInv
<1> SUFFICES ASSUME EffectsInit PROVE EffectsInv
  OBVIOUS
<1>1. TypesInv
  BY TypesStart
<1>2. /\ queue = [e \in Element |-> <<>>] /\ anims = <<>> /\ timers = <<>>
      /\ delays = [e \in Element |-> 0] /\ running = <<>>
  BY DEF EffectsInit
<1>3. AnimsSound(manner, anims) /\ TimersSound(anims, timers, running) /\ FramesSound(manner, queue, anims, timers, running)
  BY <1>2 DEF AnimsSound, TimersSound, FramesSound
<1>4. QueuesSound(manner, queue, anims, timers)
  BY <1>2 DEF QueuesSound, QueueSound
<1>5. ASSUME NEW e \in Element PROVE Single(manner, queue, anims, timers, running, delays, e)
  BY <1>2 DEF Single, Going
<1>6. Sound(manner, queue, anims, timers, running, delays)
  BY <1>1, <1>3, <1>4, <1>5, TypedNow DEF Sound
<1> QED
  BY <1>1, <1>6 DEF EffectsInv

LEMMA EffectsStep == EffectsInv /\ [EffectsNext]_effectsVars => EffectsInv'
<1> SUFFICES ASSUME EffectsInv, [EffectsNext]_effectsVars PROVE EffectsInv'
  OBVIOUS
<1>1. TypesInv'
  BY TypesStep DEF EffectsInv
<1>2. manner' = manner
  BY DEF EffectsNext, GoesOn, effectsVars, Dequeued, CompleteDequeue, CompleteCallback, CompleteReturn,
     TickStart, TickStep,
     TickSplice, TickEnd, StopStep, StopSplice, StopEnd, Animate, DelayNext, DelayOver, clearQueue, stop
<1>3. ASSUME Gentle(manner) PROVE SoundNext
  <2>1. AllSound
    BY <1>3 DEF EffectsInv, AllSound
  <2>2. CASE GoesOn
    BY <2>1, <2>2, DequeuedSound, CompleteDequeueSound, CompleteCallbackSound, CompleteReturnSound,
       TickStepSound,
       SplicesSound, TickEndSound, StopStepSound, StopEndSound DEF GoesOn
  <2>3. CASE TickStart
    BY <2>1, <2>3, TickStartSound
  <2>4. ASSUME NEW e \in Element, Animate(e) \/ DelayNext(e) \/ DelayOver(e) \/ clearQueue(e) \/ stop(e)
        PROVE  SoundNext
    BY <2>1, <2>4, AnimateSound, DelaySound, StopSound, NothingCleared
  <2>5. CASE UNCHANGED effectsVars
    BY <2>1, <2>5 DEF AllSound, SoundNext, effectsVars
  <2> QED
    BY <2>2, <2>3, <2>4, <2>5 DEF EffectsNext
<1> QED
  BY <1>1, <1>2, <1>3 DEF EffectsInv, SoundNext

\* The pages of which one animation of a queue runs at a time: they animate once, or gently.
Orderly(m) == m.animations <= 1 \/ Gentle(m)

\* Of the animations of an element that wait for each other one runs at a time (1639-1730,
\* 7517-7890), for every page that makes one animation, and for every one that clears no queue,
\* stops nothing in a callback, nor anything that is delayed, and whose animations are not over
\* at once while callbacks enqueue.
THEOREM OneAtATimeEver == EffectsSpec => [](Orderly(manner) => OneAtATime)
<1>1. EffectsInv => (Orderly(manner) => OneAtATime)
  <2> SUFFICES ASSUME EffectsInv, Orderly(manner), NEW a \in DOMAIN anims, NEW b \in DOMAIN anims, Runs(a), Runs(b),
                      anims[a].queued, anims[b].queued, anims[a].elem = anims[b].elem
               PROVE  a = b
    BY DEF OneAtATime
  <2>1. TypesInv
    BY DEF EffectsInv
  <2>2. CASE manner.animations <= 1
    <3>1. Len(anims) <= 1 /\ DOMAIN anims = 1 .. Len(anims) /\ Len(anims) \in Nat
      <4>1. Len(anims) <= manner.animations /\ Len(anims) \in Nat /\ manner.animations \in Nat
        BY <2>1, TypedNow, EffectsAssumption
      <4>2. DOMAIN anims = 1 .. Len(anims)
        BY <2>1, TypedNow, ElementsAre
      <4> QED
        BY <2>2, <4>1, <4>2
    <3> QED
      BY <3>1
  <2>3. CASE Gentle(manner)
    <3> DEFINE e == anims[a].elem
    <3>1. a \in Going(anims, timers, running, e) /\ b \in Going(anims, timers, running, e)
      BY DEF Going, Runs, HasTimer, Timed
    <3>2. e \in Element
      BY <2>1, TypedNow DEF AnimType
    <3>3. Single(manner, queue, anims, timers, running, delays, e)
      BY <2>3, <3>2 DEF EffectsInv, Sound
    <3> QED
      BY <3>1, <3>3 DEF Single
  <2> QED
    BY <2>2, <2>3 DEF Orderly
<1> QED
  BY <1>1, EffectsStart, EffectsStep, PTL DEF EffectsSpec

\* An animation calls its callback once at most (7697-7704, 7797-7838), and when nothing runs
\* it has no timer left then, for every gentle page.
THEOREM EndsOnceEver == EffectsSpec => [](Gentle(manner) => EndsOnce)
<1>1. EffectsInv => (Gentle(manner) => EndsOnce)
  <2> SUFFICES ASSUME EffectsInv, Gentle(manner), NEW a \in DOMAIN anims
               PROVE  /\ anims[a].ended <= 1
                      /\ running = <<>> /\ anims[a].ended = 1 => ~ HasTimer(a)
    BY DEF EndsOnce
  <2>1. /\ AnimSound(manner, anims[a]) /\ TimersSound(anims, timers, running)
    BY DEF EffectsInv, Sound, AnimsSound
  <2>2. ASSUME running = <<>>, anims[a].ended = 1, HasTimer(a) PROVE FALSE
    <3>1. PICK i \in DOMAIN timers : timers[i].anim = a
      BY <2>2 DEF HasTimer
    <3>2. Finished(anims, timers, i)
      BY <2>1, <2>2, <3>1 DEF AnimSound, TimersSound, Finished
    <3> QED
      BY <2>1, <2>2, <3>1, <3>2 DEF TimersSound, Handled
  <2> QED
    BY <2>1, <2>2 DEF AnimSound
<1> QED
  BY <1>1, EffectsStart, EffectsStep, PTL DEF EffectsSpec

=============================================================================
