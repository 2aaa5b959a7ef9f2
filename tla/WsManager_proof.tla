--------------------------- MODULE WsManager_proof ---------------------------
(***************************************************************************)
(* Lemmas about the operations of the connection manager: ids made from    *)
(* ports of one width differ, and attach and detach keep the linked list a *)
(* list, whose elements a walk from the head visits.                       *)
(***************************************************************************)
EXTENDS WsManager, FiniteSetTheorems, TLAPS

-----------------------------------------------------------------------------
\* A nonempty set of numbers has a least element; this stands in for
\* induction over the positions of the list.
LEMMA LeastNumber ==
    ASSUME NEW T \in SUBSET Nat, T # {}
    PROVE  \E n \in T : \A m \in T : n <= m
<1> DEFINE initial == {1 .. n : n \in T}
<1>1. initial \subseteq FiniteSubsetsOf(Nat)
  <2>1. \A n \in Nat : 1 .. n \subseteq Nat /\ IsFiniteSet(1 .. n)
    BY FS_Interval
  <2> QED
    BY <2>1 DEF FiniteSubsetsOf
<1>2. IsWellFoundedOn(StrictSubsetOrdering(Nat), FiniteSubsetsOf(Nat))
  BY FS_StrictSubsetOrderingWellFounded
<1>3. initial # {}
  OBVIOUS
<1>4. \E X \in initial : \A Y \in initial : ~ (<<Y, X>> \in StrictSubsetOrdering(Nat))
  <2> HIDE DEF initial
  <2> QED
    BY <1>1, <1>2, <1>3, WFMin
<1>5. PICK n \in T : \A m \in T : ~ (<<1 .. m, 1 .. n>> \in StrictSubsetOrdering(Nat))
  BY <1>4
<1>6. ASSUME NEW m \in T, m < n
      PROVE  FALSE
  <2>1. /\ 1 .. m \subseteq Nat /\ 1 .. n \subseteq Nat
        /\ 1 .. m \subseteq 1 .. n /\ n \in 1 .. n /\ n \notin 1 .. m
    BY <1>6
  <2>2. <<1 .. m, 1 .. n>> \in StrictSubsetOrdering(Nat)
    BY <2>1, 1 .. m # 1 .. n DEF StrictSubsetOrdering
  <2> QED
    BY <2>2, <1>5
<1> QED
  BY <1>6

\* With ports of one width, the counter can be read back from the id
\* (manager.js:39-41), so different counters give different ids.
LEMMA IdsDiffer ==
    ASSUME SameWidthPorts,
           NEW p \in Port, NEW q \in Port, NEW m \in Counters, NEW n \in Counters,
           Decimal(p) \o Decimal(m) = Decimal(q) \o Decimal(n)
    PROVE  m = n
<1> DEFINE w == Len(Decimal(p))
<1>1. /\ Decimal(p) \in Seq(0 .. 9) /\ Decimal(q) \in Seq(0 .. 9)
      /\ Decimal(m) \in Seq(0 .. 9) /\ Decimal(n) \in Seq(0 .. 9)
  BY DecimalAssumption
<1>2. Len(Decimal(q)) = w /\ w \in Nat
  BY <1>1 DEF SameWidthPorts
<1>3. Len(Decimal(m)) = Len(Decimal(n))
  <2>1. Len(Decimal(p) \o Decimal(m)) = w + Len(Decimal(m))
    BY <1>1
  <2>2. Len(Decimal(q) \o Decimal(n)) = w + Len(Decimal(n))
    BY <1>1, <1>2
  <2> QED
    BY <1>1, <1>2, <2>1, <2>2
<1>4. \A i \in 1 .. Len(Decimal(m)) : Decimal(m)[i] = Decimal(n)[i]
  <2> SUFFICES ASSUME NEW i \in 1 .. Len(Decimal(m))
               PROVE  Decimal(m)[i] = Decimal(n)[i]
    OBVIOUS
  <2>1. (Decimal(p) \o Decimal(m))[w + i] = Decimal(m)[i]
    BY <1>1, <1>2
  <2>2. (Decimal(q) \o Decimal(n))[w + i] = Decimal(n)[i]
    BY <1>1, <1>2, <1>3
  <2> QED
    BY <2>1, <2>2
<1>5. Decimal(m) = Decimal(n)
  BY <1>1, <1>3, <1>4
<1> QED
  BY <1>5, DecimalAssumption

-----------------------------------------------------------------------------
\* s is what a walk from the head comes by, n nodes, whatever the length and the tail say:
\* all that is left of a list when ids collide.
IsChain(s, n) ==
    /\ n \in Nat /\ s \in [1 .. n -> Conn]
    /\ \A i, j \in 1 .. n : s[i] = s[j] => i = j
    /\ head = IF n = 0 THEN Null ELSE s[1]
    /\ nxt \in [Conn -> Conn \cup {Null}]
    /\ \A i \in 1 .. n : nxt[s[i]] = IF i = n THEN Null ELSE s[i + 1]

LEMMA ListIsChain == ASSUME NEW s, IsList(s) PROVE IsChain(s, length)
BY DEF IsList, IsChain

\* A walk never leaves the chain.
LEMMA WalkStaysInChain ==
    ASSUME NEW s, NEW n, IsChain(s, n), NEW Pass
    PROVE  Walk(Pass) \subseteq Elems(s)
<1>1. Elems(s) \in SUBSET Conn
  BY DEF IsChain, Elems
<1>2. WalkClosed(Elems(s), Pass)
  <2>1. head # Null => head \in Elems(s)
    BY DEF IsChain, Elems
  <2>2. ASSUME NEW c \in Elems(s), nxt[c] # Null
        PROVE  nxt[c] \in Elems(s)
    <3>1. PICK i \in 1 .. n : c = s[i]
      BY DEF IsChain, Elems
    <3>2. i # n /\ nxt[c] = s[i + 1]
      BY <2>2, <3>1 DEF IsChain
    <3> QED
      BY <3>1, <3>2 DEF IsChain, Elems
  <2> QED
    BY <2>1, <2>2 DEF WalkClosed
<1> QED
  BY <1>1, <1>2 DEF Walk

LEMMA WalkStaysInList ==
    ASSUME NEW s, IsList(s), NEW Pass
    PROVE  Walk(Pass) \subseteq Elems(s)
BY ListIsChain, WalkStaysInChain

\* A walk reaches a position if it may go on from all those before it.
LEMMA ChainIsWalked ==
    ASSUME NEW s, NEW n, IsChain(s, n), NEW Pass, NEW i \in 1 .. n,
           \A j \in 1 .. n : j < i => s[j] \in Pass
    PROVE  s[i] \in Walk(Pass)
<1> SUFFICES ASSUME NEW S \in SUBSET Conn, WalkClosed(S, Pass), s[i] \notin S
             PROVE  FALSE
  BY DEF Walk, IsChain
<1> DEFINE missed == {j \in 1 .. n : j <= i /\ s[j] \notin S}
<1>1. missed \in SUBSET Nat /\ i \in missed
  BY DEF IsChain
<1>2. PICK m \in missed : \A j \in missed : m <= j
  <2> HIDE DEF missed
  <2> QED
    BY <1>1, LeastNumber
<1>3. CASE m = 1
  BY <1>3, <1>2, NullAssumption DEF IsChain, WalkClosed
<1>4. CASE m # 1
  <2>1. m - 1 \in 1 .. n /\ m - 1 < i /\ m - 1 \notin missed /\ n \in Nat
    BY <1>2, <1>4 DEF IsChain
  <2>2. s[m - 1] \in S \cap Pass
    BY <2>1
  <2>3. nxt[s[m - 1]] = s[m] /\ s[m] # Null
    BY <2>1, <1>2, NullAssumption DEF IsChain
  <2> QED
    BY <2>2, <2>3, <1>2 DEF WalkClosed
<1> QED
  BY <1>3, <1>4

LEMMA WalkReaches ==
    ASSUME NEW s, IsList(s), NEW Pass, NEW n \in 1 .. length,
           \A j \in 1 .. length : j < n => s[j] \in Pass
    PROVE  s[n] \in Walk(Pass)
BY ListIsChain, ChainIsWalked

\* What forEach visits is the list.
LEMMA ListedIsList ==
    ASSUME NEW s, IsList(s)
    PROVE  Listed = Elems(s)
<1>1. Listed \subseteq Elems(s)
  BY WalkStaysInList DEF Listed
<1>2. ASSUME NEW c \in Elems(s)
      PROVE  c \in Listed
  <2>1. PICK i \in 1 .. length : c = s[i]
    BY DEF Elems, IsList
  <2> QED
    BY <2>1, WalkReaches DEF Listed, IsList
<1> QED
  BY <1>1, <1>2

\* attach puts a new node at the end of the list.
LEMMA AttachExtendsList ==
    ASSUME NEW s, IsList(s), NEW c \in Conn, c \notin Elems(s), AttachNode(c)
    PROVE  \E t : /\ IsList(t)' /\ Elems(t) = Elems(s) \cup {c}
                  /\ t = [i \in 1 .. length + 1 |-> IF i = length + 1 THEN c ELSE s[i]]
<1>0. PICK t : t = [i \in 1 .. length + 1 |-> IF i = length + 1 THEN c ELSE s[i]]
  OBVIOUS
<1>1. /\ length' = length + 1 /\ length \in Nat
      /\ t \in [1 .. length' -> Conn]
  BY <1>0 DEF AttachNode, IsList
<1>2. \A i, j \in 1 .. length' : t[i] = t[j] => i = j
  BY <1>0, <1>1 DEF IsList, Elems
<1>3. /\ head' = t[1] /\ length' # 0
      /\ tail' = t[length']
      /\ tail' \in Conn
  BY <1>0, <1>1 DEF AttachNode, IsList
<1>4. /\ nxt' \in [Conn -> Conn \cup {Null}]
      /\ \A i \in 1 .. length' :
            nxt'[t[i]] = IF i = length' THEN Null ELSE t[i + 1]
  <2>1. CASE length = 0
    BY <2>1, <1>0, <1>1 DEF AttachNode, IsList
  <2>2. CASE length # 0
    <3>1. /\ tail = s[length] /\ length \in 1 .. length /\ tail \in Conn /\ tail # c
          /\ nxt' = [nxt EXCEPT ![c] = Null, ![tail] = c]
      BY <2>2, <1>1 DEF AttachNode, IsList, Elems
    <3>2. nxt' \in [Conn -> Conn \cup {Null}]
      BY <3>1 DEF IsList
    <3>3. ASSUME NEW i \in 1 .. length'
          PROVE  nxt'[t[i]] = IF i = length' THEN Null ELSE t[i + 1]
      <4>1. CASE i = length'
        BY <4>1, <3>1, <1>0, <1>1 DEF IsList
      <4>2. CASE i = length
        BY <4>2, <3>1, <1>0, <1>1 DEF IsList
      <4>3. CASE i < length
        <5>1. i \in 1 .. length /\ t[i] = s[i] /\ t[i + 1] = s[i + 1]
          BY <4>3, <1>0, <1>1
        <5>2. s[i] # c /\ s[i] # tail /\ s[i] \in Conn
          <6>1. length \in Nat /\ DOMAIN s = 1 .. length /\ s[i] \in Conn
            BY <5>1 DEF IsList
          <6>2. s[i] # c
            BY <5>1, <6>1 DEF Elems
          <6>3. i # length
            BY <4>3, <5>1, <6>1
          <6>4. s[i] # s[length]
            BY <5>1, <6>3, <3>1 DEF IsList
          <6> QED
            BY <6>1, <6>2, <6>4, <3>1
        <5> QED
          BY <5>1, <5>2, <4>3, <3>1, <1>1 DEF IsList
      <4> QED
        BY <4>1, <4>2, <4>3, <1>1
    <3> QED
      BY <3>2, <3>3
  <2> QED
    BY <2>1, <2>2
<1>5. IsList(t)'
  BY <1>1, <1>2, <1>3, <1>4 DEF IsList
<1>6. Elems(t) = Elems(s) \cup {c}
  <2>1. DOMAIN s = 1 .. length /\ DOMAIN t = 1 .. length + 1
    BY <1>0 DEF IsList
  <2>2. \A i \in 1 .. length : t[i] = s[i] /\ i \in 1 .. length + 1
    BY <1>0, <1>1
  <2>3. t[length + 1] = c /\ length + 1 \in 1 .. length + 1
    BY <1>0, <1>1
  <2>4. \A i \in 1 .. length + 1 : i \in 1 .. length \/ i = length + 1
    BY <1>1
  <2> QED
    BY <2>1, <2>2, <2>3, <2>4 DEF Elems
<1> QED
  BY <1>0, <1>5, <1>6

\* A list without its k-th node.
Shorter(s, k) == [i \in 1 .. length - 1 |-> IF i < k THEN s[i] ELSE s[i + 1]]

\* detach takes the node with the id it looks for out of the list, when the
\* list has one and no other node has that id, and else leaves it alone.
LEMMA DetachShrinksList ==
    ASSUME NEW s, IsList(s), NEW c \in Conn, NEW w,
           \A d \in Elems(s) : id[d] = w <=> d = c,
           DetachNode(w)
    PROVE  \E t : /\ IsList(t)' /\ Elems(t) = Elems(s) \ {c}
                  /\ IF c \in Elems(s) THEN \E k \in 1 .. length : s[k] = c /\ t = Shorter(s, k)
                     ELSE t = s
<1> DEFINE Pass == {d \in Conn : id[d] # w}
<1>1. Visited(w) \subseteq Elems(s)
  BY WalkStaysInList DEF Visited
<1>2. DOMAIN s = 1 .. length /\ length \in Nat /\ Elems(s) \subseteq Conn
  BY DEF IsList, Elems
<1>3. ASSUME Found(w) = {}, UNCHANGED listVars
      PROVE  IsList(s)' /\ Elems(s) = Elems(s) \ {c} /\ c \notin Elems(s)
  <2>1. ASSUME NEW k \in 1 .. length, s[k] = c
        PROVE  FALSE
    <3>1. \A j \in 1 .. length : j < k => s[j] \in Pass
      BY <2>1, <1>2 DEF IsList, Elems
    <3>2. c \in Visited(w)
      BY <3>1, <2>1, WalkReaches DEF Visited
    <3>3. c \in Elems(s)
      BY <2>1, <1>2 DEF Elems
    <3> QED
      BY <3>2, <3>3, <1>3 DEF Found
  <2>2. c \notin Elems(s)
    BY <2>1, <1>2 DEF Elems
  <2>3. IsList(s)'
    BY <1>3 DEF IsList, listVars
  <2> QED
    BY <2>2, <2>3
<1>4. ASSUME NEW current \in Found(w), NEW previous \in Visited(w),
             IF current = head THEN previous = head ELSE nxt[previous] = current,
             Unlink(previous, current, w)
      PROVE  \E t : /\ IsList(t)' /\ Elems(t) = Elems(s) \ {c} /\ c \in Elems(s)
                    /\ \E k \in 1 .. length : s[k] = c /\ t = Shorter(s, k)
  <2>1. current = c /\ c \in Elems(s) /\ id[c] = w
    BY <1>1 DEF Found
  <2>2. PICK k \in 1 .. length : c = s[k]
    BY <2>1, <1>2 DEF Elems
  <2>3. PICK t : t = [i \in 1 .. length - 1 |-> IF i < k THEN s[i] ELSE s[i + 1]]
    OBVIOUS
  <2>4. /\ length' = length - 1 /\ length' \in Nat
        /\ t \in [1 .. length' -> Conn]
    BY <2>2, <2>3, <1>2, <1>4 DEF Unlink, IsList
  <2>5. \A i, j \in 1 .. length' : t[i] = t[j] => i = j
    BY <2>2, <2>3, <2>4, <1>2 DEF IsList
  <2>6. IF k = 1 THEN previous = c ELSE previous = s[k - 1]
    <3>1. PICK j \in 1 .. length : previous = s[j]
      BY <1>1, <1>2 DEF Elems
    <3>2. CASE k = 1
      BY <3>2, <2>1, <2>2, <1>4, <1>2 DEF IsList
    <3>3. CASE k # 1
      <4>1. c # head
        BY <3>3, <2>2, <1>2 DEF IsList
      <4>2. j # length /\ s[j + 1] = c
        BY <4>1, <3>1, <2>1, <1>4, NullAssumption DEF IsList
      <4>3. j + 1 = k
        BY <4>2, <2>2, <1>2 DEF IsList
      <4> QED
        BY <4>3, <3>1, <3>3, <2>2, <1>2
    <3> QED
      BY <3>2, <3>3
  <2>7. head' = IF k = 1 THEN nxt[c] ELSE head
    <3>1. head = s[1] /\ s[1] \in Elems(s)
      BY <2>2, <1>2 DEF IsList, Elems
    <3>2. w = id[head] <=> k = 1
      BY <3>1, <2>2, <1>2 DEF IsList
    <3> QED
      BY <3>2, <2>1, <1>4 DEF Unlink
  <2>8. tail' = IF k = length THEN previous ELSE tail
    <3>1. tail = s[length] /\ s[length] \in Elems(s)
      BY <2>2, <1>2 DEF IsList, Elems
    <3>2. w = id[tail] <=> k = length
      BY <3>1, <2>2, <1>2 DEF IsList
    <3> QED
      BY <3>2, <1>4 DEF Unlink
  <2>9. nxt' = [nxt EXCEPT ![previous] = nxt[c]] /\ nxt[c] \in Conn \cup {Null}
        /\ nxt[c] = IF k = length THEN Null ELSE s[k + 1]
    BY <2>1, <2>2, <1>2, <1>4 DEF Unlink, IsList
  <2>10. head' = IF length' = 0 THEN Null ELSE t[1]
    BY <2>2, <2>3, <2>4, <2>7, <2>9, <1>2 DEF IsList
  <2>11. /\ tail' \in Conn \cup {Null}
         /\ length' > 0 => tail' = t[length']
    BY <2>2, <2>3, <2>4, <2>6, <2>8, <1>2 DEF IsList
  <2>12. nxt' \in [Conn -> Conn \cup {Null}]
    BY <2>9 DEF IsList
  <2>13. ASSUME NEW i \in 1 .. length'
         PROVE  nxt'[t[i]] = IF i = length' THEN Null ELSE t[i + 1]
    <3>1. CASE i < k - 1
      <4>1. /\ i \in 1 .. length /\ i + 1 \in 1 .. length /\ i # length
            /\ t[i] = s[i] /\ t[i + 1] = s[i + 1] /\ i # length'
        BY <3>1, <2>2, <2>3, <2>4, <1>2
      <4>2. s[i] # previous /\ s[i] \in Conn
        BY <4>1, <3>1, <2>2, <2>6, <1>2 DEF IsList
      <4> QED
        BY <4>1, <4>2, <2>9 DEF IsList
    <3>2. CASE i = k - 1
      <4>1. k # 1 /\ previous = s[i] /\ t[i] = s[i] /\ previous \in Conn
        BY <3>2, <2>2, <2>3, <2>4, <2>6, <1>2 DEF IsList
      <4>2. nxt'[t[i]] = nxt[c]
        BY <4>1, <2>9 DEF IsList
      <4> QED
        BY <4>2, <3>2, <2>2, <2>3, <2>4, <2>9, <1>2
    <3>3. CASE i >= k
      <4>1. /\ t[i] = s[i + 1] /\ i + 1 \in 1 .. length /\ s[i + 1] \in Conn
            /\ i = length' <=> i + 1 = length
            /\ i # length' => t[i + 1] = s[i + 2]
        BY <3>3, <2>2, <2>3, <2>4, <1>2 DEF IsList
      <4>2. s[i + 1] # previous
        BY <4>1, <3>3, <2>2, <2>6, <1>2 DEF IsList
      <4> QED
        BY <4>1, <4>2, <2>9, <1>2 DEF IsList
    <3> QED
      BY <3>1, <3>2, <3>3, <2>2, <2>4, <1>2
  <2>14. IsList(t)'
    BY <2>4, <2>5, <2>10, <2>11, <2>12, <2>13 DEF IsList
  <2>15. Elems(t) = Elems(s) \ {c}
    <3>1. DOMAIN t = 1 .. length - 1
      BY <2>3
    <3>2. ASSUME NEW i \in 1 .. length - 1
          PROVE  t[i] \in Elems(s) \ {c}
      BY <2>2, <2>3, <1>2 DEF IsList, Elems
    <3>3. ASSUME NEW i \in 1 .. length, s[i] # c
          PROVE  \E j \in 1 .. length - 1 : t[j] = s[i]
      <4>1. CASE i < k
        BY <4>1, <2>2, <2>3, <1>2
      <4>2. CASE i > k
        <5>1. i - 1 \in 1 .. length - 1 /\ t[i - 1] = s[i]
          BY <4>2, <2>2, <2>3, <1>2
        <5> QED
          BY <5>1
      <4> QED
        BY <4>1, <4>2, <3>3, <2>2, <1>2
    <3>4. \A x : x \in Elems(t) <=> \E i \in 1 .. length - 1 : t[i] = x
      BY <3>1 DEF Elems
    <3>5. \A x : x \in Elems(s) <=> \E i \in 1 .. length : s[i] = x
      BY <1>2 DEF Elems
    <3> QED
      BY <3>2, <3>3, <3>4, <3>5
  <2> QED
    BY <2>1, <2>2, <2>3, <2>14, <2>15 DEF Shorter
<1> QED
  BY <1>3, <1>4 DEF DetachNode

\* The list is one sequence and no other: two of them would differ at a first
\* position, which is where the head points to or the node before.
LEMMA ListUnique ==
    ASSUME NEW s, NEW t, IsList(s), IsList(t)
    PROVE  s = t
<1> DEFINE differ == {i \in 1 .. length : s[i] # t[i]}
<1>1. length \in Nat /\ s \in [1 .. length -> Conn] /\ t \in [1 .. length -> Conn]
  BY DEF IsList
<1>2. ASSUME differ # {} PROVE FALSE
  <2>1. PICK k \in differ : \A i \in differ : k <= i
    <3>1. differ \in SUBSET Nat
      BY <1>1
    <3> HIDE DEF differ
    <3> QED
      BY <1>2, <3>1, LeastNumber
  <2>2. CASE k = 1
    BY <2>1, <2>2 DEF IsList
  <2>3. CASE k # 1
    <3>1. k - 1 \in 1 .. length /\ k - 1 # length /\ k \in 1 .. length /\ s[k] # t[k]
      BY <1>1, <2>1, <2>3
    <3>2. s[k - 1] = t[k - 1]
      BY <1>1, <2>1, <2>3
    <3>3. nxt[s[k - 1]] = s[k] /\ nxt[t[k - 1]] = t[k]
      BY <3>1 DEF IsList
    <3> QED
      BY <3>1, <3>2, <3>3
  <2> QED
    BY <2>2, <2>3
<1> QED
  BY <1>1, <1>2

\* A list without repetitions counts what is in it.
LEMMA ListLength ==
    ASSUME NEW s, IsList(s)
    PROVE  Cardinality(Elems(s)) = length
<1>1. length \in Nat /\ s \in [1 .. length -> Elems(s)]
  BY DEF IsList, Elems
<1>2. s \in Bijection(1 .. length, Elems(s))
  BY <1>1 DEF Bijection, Injection, Surjection, IsInjective, IsList, Elems
<1> QED
  BY <1>1, <1>2, FS_CountingElements DEF ExistsBijection

\* The list holds what its elements are.
LEMMA ListHoldsElems ==
    ASSUME NEW s, IsList(s)
    PROVE  ListHolds(Elems(s)) /\ ListTypeOK
<1>1. Listed = Elems(s) /\ length = Cardinality(Elems(s))
  BY ListedIsList, ListLength
<1>2. length \in Nat /\ DOMAIN s = 1 .. length /\ Elems(s) \subseteq Conn
  BY DEF IsList, Elems
<1>3. (length = 0) <=> (head = Null)
  BY <1>2, NullAssumption DEF IsList
<1>4. ASSUME length > 0
      PROVE  tail \in Listed /\ nxt[tail] = Null
  <2>1. length \in 1 .. length /\ tail = s[length]
    BY <1>2, <1>4 DEF IsList
  <2> QED
    BY <1>1, <1>2, <2>1 DEF IsList, Elems
<1>5. ListTypeOK
  BY <1>2 DEF IsList, ListTypeOK
<1> QED
  BY <1>1, <1>3, <1>4, <1>5 DEF ListHolds


-----------------------------------------------------------------------------
(* What is left of the list when ids collide. *)

\* attach behind a tail that is in the chain cuts it off there, behind one that is not it
\* changes nothing that a walk could see.
LEMMA AttachKeepsChain ==
    ASSUME NEW s, NEW n, IsChain(s, n), n <= length, length \in Nat, length > 0 => tail \in Conn,
           NEW c \in Conn, c \notin Elems(s), AttachNode(c)
    PROVE  \E t, m : IsChain(t, m)' /\ m <= length + 1 /\ Elems(t) \subseteq Elems(s) \cup {c}
<1>1. CASE length = 0
  <2>1. PICK t : t = [i \in 1 .. 1 |-> c]
    OBVIOUS
  <2>2. IsChain(t, 1)'
    BY <1>1, <2>1 DEF IsChain, AttachNode
  <2>3. Elems(t) \subseteq {c}
    BY <2>1 DEF Elems
  <2> QED
    BY <1>1, <2>2, <2>3
<1>2. CASE length # 0 /\ \E k \in 1 .. n : tail = s[k]
  <2>1. PICK k \in 1 .. n : tail = s[k]
    BY <1>2
  <2>2. PICK t : t = [i \in 1 .. k + 1 |-> IF i = k + 1 THEN c ELSE s[i]]
    OBVIOUS
  <2>3. /\ head' = head /\ nxt' = [nxt EXCEPT ![c] = Null, ![s[k]] = c]
        /\ n \in Nat /\ k + 1 \in Nat /\ k <= n
    BY <1>2, <2>1 DEF AttachNode, IsChain
  <2>4. \A i \in 1 .. n : s[i] # c /\ s[i] \in Conn
    BY DEF IsChain, Elems
  <2>5. nxt' \in [Conn -> Conn \cup {Null}] /\ t \in [1 .. k + 1 -> Conn]
    BY <2>2, <2>3, <2>4 DEF IsChain
  <2>6. \A i, j \in 1 .. k + 1 : t[i] = t[j] => i = j
    BY <2>2, <2>3, <2>4 DEF IsChain
  <2>7. head' = t[1] /\ k + 1 # 0
    BY <2>2, <2>3 DEF IsChain
  <2>8. ASSUME NEW i \in 1 .. k + 1 PROVE nxt'[t[i]] = IF i = k + 1 THEN Null ELSE t[i + 1]
    <3>1. CASE i = k + 1
      BY <3>1, <2>2, <2>3, <2>4 DEF IsChain
    <3>2. CASE i = k
      BY <3>2, <2>2, <2>3, <2>4 DEF IsChain
    <3>3. CASE i < k
      <4>1. i \in 1 .. n /\ i # n /\ t[i] = s[i] /\ t[i + 1] = s[i + 1] /\ s[i] # s[k]
        BY <3>3, <2>2, <2>3 DEF IsChain
      <4> QED
        BY <4>1, <3>3, <2>3, <2>4 DEF IsChain
    <3> QED
      BY <3>1, <3>2, <3>3, <2>3
  <2>9. IsChain(t, k + 1)'
    BY <2>3, <2>5, <2>6, <2>7, <2>8 DEF IsChain
  <2>10. Elems(t) \subseteq Elems(s) \cup {c}
    BY <2>2, <2>3 DEF Elems, IsChain
  <2> QED
    BY <2>3, <2>9, <2>10
<1>3. CASE length # 0 /\ ~ \E k \in 1 .. n : tail = s[k]
  <2>1. /\ head' = head /\ nxt' = [nxt EXCEPT ![c] = Null, ![tail] = c] /\ tail \in Conn
    BY <1>3 DEF AttachNode
  <2>2. \A i \in 1 .. n : s[i] # c /\ s[i] # tail /\ s[i] \in Conn
    BY <1>3 DEF IsChain, Elems
  <2>3. nxt' \in [Conn -> Conn \cup {Null}] /\ \A i \in 1 .. n : nxt'[s[i]] = nxt[s[i]]
    BY <2>1, <2>2 DEF IsChain
  <2>4. IsChain(s, n)'
    BY <2>1, <2>3 DEF IsChain
  <2>5. n <= length + 1
    BY DEF IsChain
  <2> QED
    BY <2>4, <2>5
<1> QED
  BY <1>1, <1>2, <1>3

\* detach takes the first node with the id out of the chain, whatever becomes of the tail.
LEMMA DetachKeepsChain ==
    ASSUME NEW s, NEW n, IsChain(s, n), n <= length, length \in Nat, length > 0 => tail \in Conn,
           NEW w, DetachNode(w)
    PROVE  \E t, m : /\ IsChain(t, m)' /\ m <= length' /\ length' \in Nat
                     /\ length' > 0 => tail' \in Conn
                     /\ Elems(t) \subseteq Elems(s)
<1>1. CASE UNCHANGED listVars
  BY <1>1 DEF listVars, IsChain
<1>2. CASE \E current \in Found(w), previous \in Visited(w) :
             /\ IF current = head THEN previous = head ELSE nxt[previous] = current
             /\ Unlink(previous, current, w)
  <2>1. PICK current \in Found(w), previous \in Visited(w) :
             /\ IF current = head THEN previous = head ELSE nxt[previous] = current
             /\ Unlink(previous, current, w)
    BY <1>2
  <2>2. current \in Elems(s) /\ previous \in Elems(s) /\ id[current] = w
    BY <2>1, WalkStaysInChain DEF Found, Visited
  <2>3. PICK k \in 1 .. n : current = s[k]
    BY <2>2 DEF Elems, IsChain
  <2>4. PICK j \in 1 .. n : previous = s[j]
    BY <2>2 DEF Elems, IsChain
  <2>5. \A i \in 1 .. n : s[i] \in Conn /\ s[i] # Null
    BY NullAssumption DEF IsChain
  <2>6. n \in Nat /\ n # 0 /\ head = s[1] /\ 1 \in 1 .. n
    BY <2>3 DEF IsChain
  <2>7. /\ nxt' = [nxt EXCEPT ![previous] = nxt[current]]
        /\ head' = IF w = id[head] THEN nxt[current] ELSE head
        /\ tail' = IF w = id[tail] THEN previous ELSE tail
        /\ length' = length - 1
    BY <2>1 DEF Unlink
  <2>8. /\ nxt' \in [Conn -> Conn \cup {Null}]
        /\ length' \in Nat /\ n - 1 \in Nat /\ n - 1 <= length'
        /\ length > 0 /\ tail' \in Conn
    <3>1. length' \in Nat /\ n - 1 \in Nat /\ n - 1 <= length' /\ length > 0
      BY <2>6, <2>7
    <3>2. nxt' \in [Conn -> Conn \cup {Null}]
      BY <2>3, <2>4, <2>5, <2>7 DEF IsChain
    <3> QED
      BY <3>1, <3>2, <2>4, <2>5, <2>7
  <2>9. PICK t : t = [i \in 1 .. n - 1 |-> IF i < k THEN s[i] ELSE s[i + 1]]
    OBVIOUS
  <2>10. /\ t \in [1 .. n - 1 -> Conn] /\ \A i, l \in 1 .. n - 1 : t[i] = t[l] => i = l
    BY <2>5, <2>6, <2>9 DEF IsChain
  <2>11. Elems(t) \subseteq Elems(s)
    BY <2>6, <2>9 DEF Elems, IsChain
  <2>12. CASE current = head
    <3>1. k = 1 /\ previous = current
      BY <2>1, <2>3, <2>6, <2>12 DEF IsChain
    <3>2. nxt' = nxt /\ head' = nxt[s[1]]
      BY <3>1, <2>2, <2>3, <2>5, <2>7, <2>12 DEF IsChain
    <3>3. head' = IF n - 1 = 0 THEN Null ELSE t[1]
      BY <3>1, <3>2, <2>6, <2>9 DEF IsChain
    <3>4. \A i \in 1 .. n - 1 : nxt'[t[i]] = IF i = n - 1 THEN Null ELSE t[i + 1]
      BY <3>1, <3>2, <2>6, <2>9 DEF IsChain
    <3> QED
      BY <2>8, <2>10, <2>11, <3>3, <3>4 DEF IsChain
  <2>13. CASE current # head
    <3>1. id[head] # w
      <4> SUFFICES ASSUME id[head] = w PROVE FALSE
        OBVIOUS
      <4>1. {head} \in SUBSET Conn /\ WalkClosed({head}, {d \in Conn : id[d] # w})
        BY <2>5, <2>6 DEF WalkClosed
      <4>2. Visited(w) \subseteq {head}
        BY <4>1 DEF Visited, Walk
      <4> QED
        BY <4>2, <2>1, <2>13 DEF Found
    <3>2. nxt[s[j]] = s[k]
      BY <2>1, <2>3, <2>4, <2>13
    <3>3. j # n /\ s[j + 1] = s[k] /\ j + 1 \in 1 .. n
      BY <3>2, <2>5, <2>6 DEF IsChain
    <3>4. k = j + 1
      BY <3>3 DEF IsChain
    <3>5. head' = s[1] /\ nxt' = [nxt EXCEPT ![s[j]] = nxt[s[k]]]
      BY <3>1, <2>3, <2>4, <2>6, <2>7
    <3>6. n - 1 # 0 /\ head' = t[1]
      BY <3>4, <3>5, <2>6, <2>9
    <3>7. ASSUME NEW i \in 1 .. n - 1 PROVE nxt'[t[i]] = IF i = n - 1 THEN Null ELSE t[i + 1]
      <4>1. CASE i < j
        <5>1. t[i] = s[i] /\ t[i + 1] = s[i + 1] /\ i \in 1 .. n /\ i # n /\ s[i] # s[j] /\ i # n - 1
          BY <4>1, <3>3, <3>4, <2>6, <2>9 DEF IsChain
        <5> QED
          BY <5>1, <3>5, <2>5 DEF IsChain
      <4>2. CASE i = j
        <5>1. t[i] = s[j] /\ nxt'[s[j]] = nxt[s[k]]
          BY <4>2, <3>4, <3>5, <2>5, <2>9 DEF IsChain
        <5>2. nxt[s[k]] = IF k = n THEN Null ELSE s[k + 1]
          BY DEF IsChain
        <5>3. i # n - 1 => t[i + 1] = s[k + 1] /\ k # n
          BY <4>2, <3>4, <2>6, <2>9
        <5> QED
          BY <5>1, <5>2, <5>3, <4>2, <3>4, <2>6
      <4>3. CASE i > j
        <5>1. t[i] = s[i + 1] /\ i + 1 \in 1 .. n /\ s[i + 1] # s[j]
          BY <4>3, <3>4, <2>6, <2>9 DEF IsChain
        <5>2. i # n - 1 => t[i + 1] = s[i + 2]
          BY <4>3, <3>4, <2>6, <2>9
        <5> QED
          BY <5>1, <5>2, <3>5, <2>5, <2>6 DEF IsChain
      <4> QED
        BY <4>1, <4>2, <4>3
    <3> QED
      BY <2>8, <2>10, <2>11, <3>6, <3>7 DEF IsChain
  <2> QED
    BY <2>12, <2>13
<1> QED
  BY <1>1, <1>2 DEF DetachNode

\* A walk of a chain that is no longer than the length ends.
LEMMA ChainEnds ==
    ASSUME NEW s, NEW n, IsChain(s, n), n <= length, length \in Nat
    PROVE  WalkEnds
<1>1. Listed = Elems(s)
  <2>1. Listed \subseteq Elems(s)
    BY WalkStaysInChain DEF Listed
  <2>2. \A i \in 1 .. n : s[i] \in Listed
    BY ChainIsWalked DEF Listed, IsChain
  <2> QED
    BY <2>1, <2>2 DEF Elems, IsChain
<1>2. Listed # {} => s[n] \in Listed /\ nxt[s[n]] = Null
  BY <1>1 DEF Elems, IsChain
<1>3. IsFiniteSet(1 .. n) /\ Cardinality(1 .. n) = n
  BY FS_Interval DEF IsChain
<1>4. s \in Surjection(1 .. n, Elems(s))
  BY DEF Surjection, Elems, IsChain
<1>5. Cardinality(Elems(s)) <= n
  BY <1>3, <1>4, FS_Surjection
<1>6. Cardinality(Elems(s)) \in Nat
  BY <1>3, <1>4, FS_Surjection, FS_CardinalityType
<1> QED
  BY <1>1, <1>2, <1>5, <1>6 DEF WalkEnds, IsChain
=============================================================================
