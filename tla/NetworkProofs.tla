--------------------------- MODULE NetworkProofs ---------------------------
(***************************************************************************)
(* The two sites of Lab7, for every number of datagrams, any clocks and    *)
(* whatever lies behind the request lists: no datagram is lost or doubled, *)
(* and one that waits for an address has been asked for.                   *)
(***************************************************************************)
EXTENDS Lab7, FiniteSetTheorems, WellFoundedInduction, TLAPS

USE SMTT(20), ZenonT(20)

-----------------------------------------------------------------------------
(* Induction over natural numbers, for a set in the place of a predicate. *)

\* Every non-empty set of natural numbers has a least element.
LEMMA NatMin ==
  ASSUME NEW T, T \subseteq Nat, T # {}
  PROVE  \E x \in T : \A y \in T : x <= y
<1> DEFINE R == OpToRel(<, Nat)
<1>1. IsWellFoundedOn(R, Nat)
  BY Zenon, NatLessThanWellFounded
<1>2. \A x, y \in Nat : x < y => <<x, y>> \in R
  BY DEF OpToRel
<1> HIDE DEF R
<1>3. PICK x \in T : \A y \in T : ~ (<<y, x>> \in R)
  BY Zenon, <1>1, WFMin
<1>4. ASSUME NEW y \in T PROVE x <= y
  <2>1. x \in Nat /\ y \in Nat
    OBVIOUS
  <2>2. ~(y < x)
    BY Zenon, <2>1, <1>2, <1>3
  <2> QED BY <2>1, <2>2
<1> QED BY <1>4

\* Induction up to a bound.
LEMMA InductUpTo ==
  ASSUME NEW N \in Nat, NEW S, 0 \in S, \A n \in 0 .. N - 1 : n \in S => n + 1 \in S
  PROVE  0 .. N \subseteq S
<1> DEFINE T == (0 .. N) \ S
<1> SUFFICES ASSUME T # {} PROVE FALSE
  OBVIOUS
<1>1. PICK x \in T : \A y \in T : x <= y
  <2>1. T \subseteq Nat
    OBVIOUS
  <2> HIDE DEF T
  <2> QED BY Zenon, <2>1, NatMin
<1>2. x # 0 /\ x - 1 \in 0 .. N - 1 /\ x - 1 \notin T
  BY <1>1
<1>3. x - 1 \in S
  BY <1>2
<1>4. (x - 1) + 1 \in S
  BY <1>2, <1>3
<1>5. (x - 1) + 1 = x
  BY <1>1
<1> QED BY <1>1, <1>4, <1>5

-----------------------------------------------------------------------------
(* Counting the entries of a list. *)

One(b) == IF b THEN 1 ELSE 0

\* It is a number.
LEMMA OneType == ASSUME NEW b PROVE One(b) \in Nat
BY DEF One

\* A count is a number.
LEMMA CountType ==
  ASSUME NEW T, NEW q \in Seq(T), NEW S
  PROVE  IsFiniteSet({i \in DOMAIN q : q[i] \in S}) /\ Count(q, S) \in Nat
<1> DEFINE P == {i \in DOMAIN q : q[i] \in S}
<1>1. Len(q) \in Nat /\ DOMAIN q = 1 .. Len(q)
  OBVIOUS
<1>2. IsFiniteSet(DOMAIN q)
  BY <1>1, FS_Interval
<1>3. P \in SUBSET DOMAIN q
  OBVIOUS
<1>4. IsFiniteSet(P)
  BY Zenon, <1>2, <1>3, FS_Subset
<1> QED BY Zenon, <1>4, FS_CardinalityType DEF Count

\* There is nothing in an empty list.
LEMMA CountNone == ASSUME NEW S PROVE Count(<<>>, S) = 0
<1>1. {i \in DOMAIN <<>> : <<>>[i] \in S} = {}
  OBVIOUS
<1> QED BY Zenon, <1>1, FS_EmptySet DEF Count

\* An entry is added.
LEMMA CountAppend ==
  ASSUME NEW T, NEW q \in Seq(T), NEW x \in T, NEW S
  PROVE  Count(Append(q, x), S) = Count(q, S) + One(x \in S)
<1> DEFINE P == {i \in DOMAIN q : q[i] \in S}
           r == Append(q, x)
           n == Len(q) + 1
           R == {i \in DOMAIN r : r[i] \in S}
<1>1. /\ Len(q) \in Nat /\ DOMAIN q = 1 .. Len(q) /\ r \in Seq(T) /\ DOMAIN r = 1 .. n
      /\ r[n] = x /\ \A i \in 1 .. Len(q) : r[i] = q[i]
  OBVIOUS
<1>2. IsFiniteSet(P) /\ Cardinality(P) \in Nat
  BY Zenon, CountType DEF Count
<1> HIDE DEF r
<1>3. n \notin P
  BY <1>1
<1>4. CASE x \in S
  <2>1. R = P \cup {n}
    BY <1>1, <1>4
  <2> HIDE DEF P, n, R
  <2>2. Cardinality(R) = Cardinality(P) + 1
    BY Zenon, <1>2, <1>3, <2>1, FS_AddElement
  <2> QED BY Zenon, <1>4, <2>2 DEF Count, One, P, R, r
<1>5. CASE x \notin S
  <2>1. R = P
    BY <1>1, <1>5
  <2> HIDE DEF P, R
  <2>2. Cardinality(R) = Cardinality(P) + 0
    BY <1>2, <2>1
  <2> QED BY Zenon, <1>5, <2>2 DEF Count, One, P, R, r
<1> QED BY <1>4, <1>5

\* One entry more of the second of two lists.
LEMMA CountMore ==
  ASSUME NEW T, NEW a \in Seq(T), NEW c \in Seq(T), NEW x \in T, NEW S
  PROVE  /\ Count(a \o Append(c, x), S) = Count(a \o c, S) + One(x \in S)
         /\ Count(Append(c, x), S) = Count(c, S) + One(x \in S)
         /\ Count(a, S) \in Nat /\ Count(c, S) \in Nat /\ One(x \in S) \in Nat
<1>1. a \o c \in Seq(T) /\ a \o Append(c, x) = Append(a \o c, x)
  OBVIOUS
<1>2. Count(a \o Append(c, x), S) = Count(a \o c, S) + One(x \in S)
  BY ZenonT(40), <1>1, CountAppend
<1>3. Count(Append(c, x), S) = Count(c, S) + One(x \in S)
  BY Zenon, CountAppend
<1>4. Count(a, S) \in Nat /\ Count(c, S) \in Nat
  BY Zenon, CountType
<1>5. One(x \in S) \in Nat
  BY DEF One
<1> QED BY Zenon, <1>2, <1>3, <1>4, <1>5

\* Two lists are put together.
LEMMA CountConcat ==
  ASSUME NEW T, NEW a \in Seq(T), NEW b \in Seq(T), NEW S
  PROVE  Count(a \o b, S) = Count(a, S) + Count(b, S)
<1> DEFINE N == Len(b)
           c == [n \in 0 .. N |-> SubSeq(b, 1, n)]
           M == {n \in 0 .. N : Count(a \o c[n], S) = Count(a, S) + Count(c[n], S)}
<1>1. N \in Nat
  OBVIOUS
<1>2. c[0] = <<>> /\ c[N] = b /\ 0 \in 0 .. N /\ N \in 0 .. N
  OBVIOUS
<1>3. ASSUME NEW n \in 0 .. N - 1
      PROVE  /\ n + 1 \in 0 .. N /\ c[n] \in Seq(T) /\ b[n + 1] \in T
             /\ c[n + 1] = Append(c[n], b[n + 1])
  OBVIOUS
<1> HIDE DEF c, N
<1>4. 0 \in M
  <2>1. a \o c[0] = a
    BY <1>2
  <2>2. Count(c[0], S) = 0 /\ Count(a, S) \in Nat
    BY Zenon, <1>2, CountNone, CountType
  <2>3. \A x \in Nat : x = x + 0
    OBVIOUS
  <2> QED BY Zenon, <1>2, <2>1, <2>2, <2>3
<1>5. ASSUME NEW n \in 0 .. N - 1, n \in M PROVE n + 1 \in M
  <2>1. Count(a \o c[n], S) = Count(a, S) + Count(c[n], S)
    BY Zenon, <1>5
  <2>2. a \in Seq(T) /\ c[n] \in Seq(T) /\ b[n + 1] \in T
    BY Zenon, <1>3
  <2>3. /\ Count(a \o Append(c[n], b[n + 1]), S) = Count(a \o c[n], S) + One(b[n + 1] \in S)
        /\ Count(Append(c[n], b[n + 1]), S) = Count(c[n], S) + One(b[n + 1] \in S)
        /\ Count(a, S) \in Nat /\ Count(c[n], S) \in Nat /\ One(b[n + 1] \in S) \in Nat
    BY ONLY Zenon, <2>2, CountMore
  <2> DEFINE A == Count(a, S)
             C == Count(c[n], S)
             y == One(b[n + 1] \in S)
             t == Count(a \o Append(c[n], b[n + 1]), S)
             v == Count(Append(c[n], b[n + 1]), S)
  <2>4. A \in Nat /\ C \in Nat /\ y \in Nat /\ t = (A + C) + y /\ v = C + y
    BY Zenon, <2>1, <2>3
  <2> HIDE DEF A, C, y, t, v
  <2>5. t = A + v
    BY <2>4
  <2> QED BY Zenon, <1>3, <2>5 DEF A, t, v
<1> HIDE DEF M
<1>6. 0 .. N \subseteq M
  BY Zenon, <1>1, <1>4, <1>5, InductUpTo
<1> QED BY Zenon, <1>2, <1>6 DEF M

\* The first entry is taken off.
LEMMA CountTail ==
  ASSUME NEW T, NEW q \in Seq(T), q # <<>>, NEW S
  PROVE  /\ Head(q) \in T /\ Tail(q) \in Seq(T)
         /\ Count(q, S) = One(Head(q) \in S) + Count(Tail(q), S)
<1> DEFINE x == Head(q)
           r == Tail(q)
           e == Append(<<>>, x)
<1>1. x \in T /\ r \in Seq(T) /\ <<>> \in Seq(T) /\ e \in Seq(T) /\ q = e \o r
  OBVIOUS
<1> HIDE DEF x, r, e
<1>2. Count(q, S) = Count(e, S) + Count(r, S)
  BY Zenon, <1>1, CountConcat
<1>3. Count(e, S) = Count(<<>>, S) + One(x \in S)
  BY Zenon, <1>1, CountAppend DEF e
<1>4. Count(<<>>, S) = 0 /\ One(x \in S) \in Nat
  BY CountNone DEF One
<1>5. Count(e, S) = One(x \in S)
  BY <1>3, <1>4
<1> QED BY Zenon, <1>1, <1>2, <1>5 DEF x, r

-----------------------------------------------------------------------------
(* The lists of an interface whose one neighbour is b. *)

\* When all entries are kept, the list is.
LEMMA KeptAll ==
  ASSUME NEW T, NEW q \in Seq(T)
  PROVE  Kept(q, DOMAIN q) = q
<1> DEFINE N == Len(q)
           g == [i \in 0 .. N |-> SubSeq(q, 1, i)]
           F == CHOOSE f : f = [i \in 0 .. N |->
                                  IF i = 0 THEN <<>>
                                  ELSE IF i \in DOMAIN q THEN Append(f[i - 1], q[i]) ELSE f[i - 1]]
<1>1. N \in Nat /\ DOMAIN q = 1 .. N
  OBVIOUS
<1>2. Kept(q, DOMAIN q) = F[N]
  BY DEF Kept
<1>3. ASSUME NEW i \in 0 .. N
      PROVE  g[i] = IF i = 0 THEN <<>>
                    ELSE IF i \in DOMAIN q THEN Append(g[i - 1], q[i]) ELSE g[i - 1]
  <2>1. CASE i = 0
    BY <2>1
  <2>2. CASE i # 0
    <3>1. i \in DOMAIN q /\ i - 1 \in 0 .. N
      BY <1>1, <2>2
    <3>2. SubSeq(q, 1, i) = Append(SubSeq(q, 1, i - 1), q[i])
      BY <1>1, <2>2
    <3> QED BY Zenon, <2>2, <3>1, <3>2
  <2> QED BY <2>1, <2>2
<1>4. g[N] = q /\ N \in 0 .. N
  BY <1>1
<1>5. g = [i \in 0 .. N |-> g[i]]
  BY Zenon
<1> HIDE DEF g
<1>6. g = [i \in 0 .. N |-> IF i = 0 THEN <<>>
                            ELSE IF i \in DOMAIN q THEN Append(g[i - 1], q[i]) ELSE g[i - 1]]
  BY Zenon, <1>3, <1>5
<1>7. F = [i \in 0 .. N |-> IF i = 0 THEN <<>>
                            ELSE IF i \in DOMAIN q THEN Append(F[i - 1], q[i]) ELSE F[i - 1]]
  BY Zenon, <1>6
<1> HIDE DEF F, N
<1> DEFINE S == {i \in 0 .. N : F[i] = g[i]}
<1>8. 0 \in S
  <2>1. 0 \in 0 .. N
    BY <1>1
  <2> QED BY Zenon, <1>3, <1>7, <2>1
<1>9. ASSUME NEW i \in 0 .. N - 1, i \in S PROVE i + 1 \in S
  <2>1. i + 1 \in 0 .. N /\ i + 1 # 0 /\ (i + 1) - 1 = i
    BY <1>1
  <2> QED BY ZenonT(40), <1>3, <1>7, <1>9, <2>1
<1> HIDE DEF S
<1>10. 0 .. N \subseteq S
  BY Zenon, <1>1, <1>8, <1>9, InductUpTo
<1> QED BY Zenon, <1>2, <1>4, <1>10 DEF S

\* When none is, nothing is left.
LEMMA KeptNone ==
  ASSUME NEW T, NEW q \in Seq(T)
  PROVE  Kept(q, {}) = <<>>
<1> DEFINE N == Len(q)
           g == [i \in 0 .. N |-> <<>>]
           F == CHOOSE f : f = [i \in 0 .. N |->
                                  IF i = 0 THEN <<>>
                                  ELSE IF i \in {} THEN Append(f[i - 1], q[i]) ELSE f[i - 1]]
<1>1. N \in Nat
  OBVIOUS
<1>2. Kept(q, {}) = F[N]
  BY DEF Kept
<1>3. ASSUME NEW i \in 0 .. N
      PROVE  g[i] = IF i = 0 THEN <<>>
                    ELSE IF i \in {} THEN Append(g[i - 1], q[i]) ELSE g[i - 1]
  <2>1. i # 0 => i - 1 \in 0 .. N
    BY <1>1
  <2> QED BY Zenon, <2>1
<1>4. g = [i \in 0 .. N |-> g[i]]
  BY Zenon
<1>5. \A i \in 0 .. N : g[i] = <<>>
  BY Zenon
<1> HIDE DEF g
<1>6. g = [i \in 0 .. N |-> IF i = 0 THEN <<>>
                            ELSE IF i \in {} THEN Append(g[i - 1], q[i]) ELSE g[i - 1]]
  BY Zenon, <1>3, <1>4
<1>7. F = [i \in 0 .. N |-> IF i = 0 THEN <<>>
                            ELSE IF i \in {} THEN Append(F[i - 1], q[i]) ELSE F[i - 1]]
  BY Zenon, <1>6
<1> HIDE DEF F, N
<1> DEFINE S == {i \in 0 .. N : F[i] = <<>>}
<1>8. 0 \in S
  <2>1. 0 \in 0 .. N
    BY <1>1
  <2> QED BY Zenon, <1>7, <2>1
<1>9. ASSUME NEW i \in 0 .. N - 1, i \in S PROVE i + 1 \in S
  <2>1. i + 1 \in 0 .. N /\ i + 1 # 0 /\ (i + 1) - 1 = i
    BY <1>1
  <2> QED BY Zenon, <1>7, <1>9, <2>1
<1> HIDE DEF S
<1>10. 0 .. N \subseteq S
  BY Zenon, <1>1, <1>8, <1>9, InductUpTo
<1>11. N \in 0 .. N
  BY <1>1
<1> QED BY Zenon, <1>2, <1>10, <1>11 DEF S

\* So all of a list is for its only address.
LEMMA OneAddress ==
  ASSUME NEW T, NEW q \in Seq(T), NEW b, \A x \in T : x.ip = b
  PROVE  /\ Entries(q, b) = q /\ Others(q, b) = <<>>
         /\ For(q, b) = DOMAIN q
<1>1. \A i \in DOMAIN q : q[i] \in T
  OBVIOUS
<1>2. For(q, b) = DOMAIN q
  BY Zenon, <1>1 DEF For
<1>3. DOMAIN q \ For(q, b) = {}
  BY Zenon, <1>2
<1> QED BY Zenon, <1>2, <1>3, KeptAll, KeptNone DEF Entries, Others

-----------------------------------------------------------------------------
(* An interface with address a whose one neighbour has address b.  B is {b} once the    *)
(* neighbour can have been heard of, and D the datagrams it is given to send.           *)

Link(a, b, B) == a \in Int /\ b \in Int /\ B \in SUBSET {b}

Eth(ip) == Broadcast + 1 + ip

\* What it sends: ARP messages about itself, frames with nothing in them, and datagrams.
ArpFrames(a) ==
    [src : {Eth(a)}, dst : Int, type : {"ARP"},
     payload : [opcode : {"request", "reply"}, sender_ip : {a}, sender_eth : {Eth(a)},
                target_ip : Int]]
BlankFrames(a) == [src : {Eth(a)}, dst : {Zero}, type : {"none"}, payload : {<<>>}]
DataFrames(a, B, D) == [src : {Eth(a)}, dst : {Eth(b) : b \in B}, type : {"IPv4"}, payload : D]
Frames(a, B, D) == ArpFrames(a) \cup BlankFrames(a) \cup DataFrames(a, B, D)

Waiters(b, D) == [dgram : D, ip : {b}]
Requests(b) == [ip : {b}, age : Int]
Maps(b, B) == UNION {[X -> [eth : {Eth(b)}, age : Int]] : X \in SUBSET B}

Interfaces(a, b, B, D) ==
    [eth : {Eth(a)}, ip : {a}, frames_out : Seq(Frames(a, B, D)), unsent : Seq(Waiters(b, D)),
     arp_req : Seq(Requests(b)), map : Maps(b, B), beyond : Int, datagrams_out : {<<>>}]

\* What AskedUnlessBeyond says of an interface with t behind its list at the start, and why:
\* what lies there only gets older.
WellAsked(n, t) ==
    t > ArpWait => n.beyond >= t /\ \A i \in DOMAIN n.unsent : Asked(n, n.unsent[i].ip)

\* The fields of an interface.
LEMMA InterfaceFields ==
  ASSUME NEW a, NEW b, NEW B, NEW D, NEW n \in Interfaces(a, b, B, D)
  PROVE  /\ n.eth = Eth(a) /\ n.ip = a /\ n.frames_out \in Seq(Frames(a, B, D))
         /\ n.unsent \in Seq(Waiters(b, D)) /\ n.arp_req \in Seq(Requests(b))
         /\ n.map \in Maps(b, B) /\ n.beyond \in Int /\ n.datagrams_out = <<>>
BY DEF Interfaces

\* The datagrams of E at an interface can be counted.
LEMMA LoadType ==
  ASSUME NEW a, NEW b, NEW B, NEW D, NEW n \in Interfaces(a, b, B, D), NEW E
  PROVE  /\ Count(n.unsent, WaitingFor(E)) \in Nat /\ Count(n.frames_out, Carrying(E)) \in Nat
         /\ Load(n, E) \in Nat
<1>1. n.unsent \in Seq(Waiters(b, D)) /\ n.frames_out \in Seq(Frames(a, B, D))
  BY Zenon, InterfaceFields
<1>2. Count(n.unsent, WaitingFor(E)) \in Nat /\ Count(n.frames_out, Carrying(E)) \in Nat
  BY ONLY Zenon, <1>1, CountType
<1> QED BY <1>2 DEF Load

\* Only what carries a datagram of E is counted.
LEMMA WhatCarries ==
  ASSUME NEW a, NEW b, NEW B, NEW D, Link(a, b, B), NEW E
  PROVE  /\ \A f \in ArpFrames(a) \cup BlankFrames(a) : f \notin Carrying(E)
         /\ \A f \in DataFrames(a, B, D) : f \in Carrying(E) <=> f.payload \in E
         /\ \A w \in Waiters(b, D) : w \in WaitingFor(E) <=> w.dgram \in E
<1>1. Eth(a) \in Int /\ Eth(b) \in Int /\ B \in SUBSET {b} /\ b \in Int
  BY DEF Eth, Broadcast, Link
<1>2. \A f \in ArpFrames(a) \cup BlankFrames(a) : f \notin Carrying(E)
  <2>1. \A f \in ArpFrames(a) \cup BlankFrames(a) : f.type # "IPv4"
    BY DEF ArpFrames, BlankFrames
  <2>2. \A f \in Carrying(E) : f.type = "IPv4"
    BY DEF Carrying
  <2> QED BY Zenon, <2>1, <2>2
<1>3. ASSUME NEW f \in DataFrames(a, B, D) PROVE f \in Carrying(E) <=> f.payload \in E
  <2>1. {Eth(x) : x \in B} \subseteq Int
    BY Zenon, <1>1
  <2>2. /\ f = [src |-> f.src, dst |-> f.dst, type |-> f.type, payload |-> f.payload]
        /\ f.src \in Int /\ f.dst \in Int /\ f.type = "IPv4"
    BY <1>1, <2>1 DEF DataFrames
  <2> QED BY <2>2 DEF Carrying
<1>4. ASSUME NEW w \in Waiters(b, D) PROVE w \in WaitingFor(E) <=> w.dgram \in E
  BY <1>1 DEF Waiters, WaitingFor
<1> QED BY Zenon, <1>2, <1>3, <1>4

\* There is one more copy of datagram d, of what frame f carries; there is none.
OneMore(n, m, d) == \A E : Load(m, E) = Load(n, E) + One(d \in E)
Carries(n, m, f) == \A E : Load(m, E) = Load(n, E) + One(f \in Carrying(E))
NoMore(n, m) == \A E : Load(m, E) = Load(n, E)

\* A datagram waits, and a request is noted.
Waits(n, d, b) == [n EXCEPT !.unsent = Append(@, [dgram |-> d, ip |-> b])]
Asks(n, b) == [n EXCEPT !.arp_req = Append(@, [ip |-> b, age |-> 0])]

\* A frame is queued, and nothing else changes.
Pushed(n, f, m, a, b, B, D) ==
    /\ m \in Interfaces(a, b, B, D)
    /\ m.unsent = n.unsent /\ m.arp_req = n.arp_req /\ m.beyond = n.beyond
    /\ Carries(n, m, f)

\* That is what Push does.
LEMMA PushOK ==
  ASSUME NEW a, NEW b, NEW B, NEW D, Link(a, b, B),
         NEW n \in Interfaces(a, b, B, D), NEW f \in Frames(a, B, D)
  PROVE  Pushed(n, f, Push(n, f), a, b, B, D)
<1> DEFINE F == Frames(a, B, D)
           m == Push(n, f)
<1>1. n.frames_out \in Seq(F)
  BY Zenon, InterfaceFields
<1>2. Append(n.frames_out, f) \in Seq(F)
  <2> HIDE DEF F
  <2>1. f \in F
    BY DEF F
  <2> QED BY <1>1, <2>1
<1>3. /\ m \in Interfaces(a, b, B, D) /\ m.frames_out = Append(n.frames_out, f)
      /\ m.unsent = n.unsent /\ m.arp_req = n.arp_req /\ m.beyond = n.beyond
  BY Zenon, <1>2 DEF Push, Interfaces
<1> HIDE DEF m
<1>4. ASSUME NEW E PROVE Load(m, E) = Load(n, E) + One(f \in Carrying(E))
  <2> DEFINE w == Count(n.unsent, WaitingFor(E))
             c == Count(n.frames_out, Carrying(E))
             y == One(f \in Carrying(E))
  <2>1. Count(m.frames_out, Carrying(E)) = c + y
    <3>1. n.frames_out \in Seq(F) /\ f \in F
      BY Zenon, <1>1
    <3> HIDE DEF F
    <3>2. Count(Append(n.frames_out, f), Carrying(E))
          = Count(n.frames_out, Carrying(E)) + One(f \in Carrying(E))
      BY ONLY Zenon, <3>1, CountAppend
    <3> QED BY Zenon, <1>3, <3>2
  <2>2. w \in Nat /\ c \in Nat
    BY Zenon, LoadType
  <2>3. y \in Nat
    BY Zenon, OneType
  <2>4. Load(m, E) = w + (c + y) /\ Load(n, E) = w + c
    BY Zenon, <1>3, <2>1 DEF Load
  <2> HIDE DEF w, c, y
  <2>5. w + (c + y) = (w + c) + y
    BY <2>2, <2>3
  <2> QED BY Zenon, <2>4, <2>5 DEF y
<1> QED BY Zenon, <1>3, <1>4 DEF m, Carries, Pushed

\* A datagram is put to those that wait.
LEMMA WaitOK ==
  ASSUME NEW a, NEW b, NEW B, NEW D, Link(a, b, B),
         NEW n \in Interfaces(a, b, B, D), NEW d \in D
  PROVE  LET m == Waits(n, d, b)
         IN  /\ m \in Interfaces(a, b, B, D)
             /\ m.unsent = Append(n.unsent, [dgram |-> d, ip |-> b])
             /\ m.arp_req = n.arp_req /\ m.beyond = n.beyond
             /\ OneMore(n, m, d)
<1> DEFINE x == [dgram |-> d, ip |-> b]
           m == Waits(n, d, b)
           W == Waiters(b, D)
<1>1. n.unsent \in Seq(W) /\ x \in W /\ x.dgram = d
  BY InterfaceFields DEF Waiters
<1> HIDE DEF x
<1>2. Append(n.unsent, x) \in Seq(W)
  <2> HIDE DEF W
  <2> QED BY <1>1
<1>3. /\ m \in Interfaces(a, b, B, D) /\ m.frames_out = n.frames_out
      /\ m.unsent = Append(n.unsent, x) /\ m.arp_req = n.arp_req /\ m.beyond = n.beyond
  BY Zenon, <1>2 DEF Interfaces, Waits, x
<1> HIDE DEF m
<1>4. ASSUME NEW E PROVE Load(m, E) = Load(n, E) + One(d \in E)
  <2> DEFINE w == Count(n.unsent, WaitingFor(E))
             c == Count(n.frames_out, Carrying(E))
             y == One(d \in E)
  <2>1. Count(m.unsent, WaitingFor(E)) = w + y
    <3>1. x \in WaitingFor(E) <=> d \in E
      BY Zenon, <1>1, WhatCarries
    <3>2. One(x \in WaitingFor(E)) = One(d \in E)
      BY Zenon, <3>1 DEF One
    <3> HIDE DEF W
    <3>3. Count(Append(n.unsent, x), WaitingFor(E))
          = Count(n.unsent, WaitingFor(E)) + One(x \in WaitingFor(E))
      BY ONLY Zenon, <1>1, CountAppend
    <3> QED BY Zenon, <1>3, <3>2, <3>3
  <2>2. w \in Nat /\ c \in Nat
    BY Zenon, LoadType
  <2>3. y \in Nat
    BY Zenon, OneType
  <2>4. Load(m, E) = (w + y) + c /\ Load(n, E) = w + c
    BY Zenon, <1>3, <2>1 DEF Load
  <2> HIDE DEF w, c, y
  <2>5. (w + y) + c = (w + c) + y
    BY <2>2, <2>3
  <2> QED BY Zenon, <2>4, <2>5 DEF y
<1> QED BY Zenon, <1>3, <1>4 DEF m, x, OneMore

\* A request is noted.
LEMMA AskOK ==
  ASSUME NEW a, NEW b, NEW B, NEW D, Link(a, b, B),
         NEW n \in Interfaces(a, b, B, D)
  PROVE  LET m == Asks(n, b)
         IN  /\ m \in Interfaces(a, b, B, D)
             /\ m.unsent = n.unsent /\ m.beyond = n.beyond /\ Asked(m, b)
             /\ NoMore(n, m)
<1> DEFINE x == [ip |-> b, age |-> 0]
           m == Asks(n, b)
<1>1. n.arp_req \in Seq(Requests(b)) /\ x \in Requests(b) /\ x.ip = b
  <2>1. n.arp_req \in Seq(Requests(b))
    BY Zenon, InterfaceFields
  <2> QED BY <2>1 DEF Requests
<1> HIDE DEF x
<1>2. /\ Append(n.arp_req, x) \in Seq(Requests(b))
      /\ Len(n.arp_req) + 1 \in DOMAIN Append(n.arp_req, x)
      /\ Append(n.arp_req, x)[Len(n.arp_req) + 1] = x
  BY <1>1
<1>3. /\ m \in Interfaces(a, b, B, D) /\ m.frames_out = n.frames_out
      /\ m.unsent = n.unsent /\ m.arp_req = Append(n.arp_req, x) /\ m.beyond = n.beyond
  BY Zenon, <1>2 DEF Interfaces, Asks, x
<1> HIDE DEF m
<1>4. Asked(m, b)
  BY Zenon, <1>1, <1>2, <1>3 DEF Asked, For
<1>5. \A E : Load(m, E) = Load(n, E)
  BY Zenon, <1>3 DEF Load
<1> QED BY Zenon, <1>3, <1>4, <1>5 DEF m, x, NoMore

\* With a request under way everything that waits has been asked for.
LEMMA AskedAll ==
  ASSUME NEW a, NEW b, NEW B, NEW D, NEW n \in Interfaces(a, b, B, D), Asked(n, b)
  PROVE  \A t \in Int : (t > ArpWait => n.beyond >= t) => WellAsked(n, t)
<1>1. n.unsent \in Seq(Waiters(b, D))
  BY Zenon, InterfaceFields
<1>2. \A i \in DOMAIN n.unsent : n.unsent[i] \in Waiters(b, D)
  BY <1>1
<1>3. \A w \in Waiters(b, D) : w.ip = b
  BY DEF Waiters
<1> QED BY Zenon, <1>2, <1>3 DEF WellAsked

\* A datagram is handed to an interface.
Handed(n, m, d, a, b, B, D) ==
    /\ m \in Interfaces(a, b, B, D) /\ m.beyond = n.beyond /\ OneMore(n, m, d)
    /\ \A t \in Int : WellAsked(n, t) => WellAsked(m, t)

\* send_datagram sends the datagram or lets it wait, once; and if it waits, and nothing behind
\* the list passes for a request, it has been asked for.
LEMMA SendOK ==
  ASSUME NEW a, NEW b, NEW B, NEW D, Link(a, b, B),
         NEW n \in Interfaces(a, b, B, D), NEW d \in D
  PROVE  Handed(n, send_datagram(n, d, b), d, a, b, B, D)
<1> DEFINE m == send_datagram(n, d, b)
           waiting == Waits(n, d, b)
<1> SUFFICES /\ m \in Interfaces(a, b, B, D) /\ m.beyond = n.beyond
             /\ OneMore(n, m, d)
             /\ \A t \in Int : WellAsked(n, t) => WellAsked(m, t)
  BY Zenon DEF Handed
<1>1. /\ n.eth = Eth(a) /\ n.ip = a /\ n.map \in Maps(b, B) /\ n.unsent \in Seq(Waiters(b, D))
      /\ n.arp_req \in Seq(Requests(b)) /\ n.beyond \in Int /\ Eth(a) \in Int /\ b \in Int
      /\ Link(a, b, B)
  BY InterfaceFields DEF Eth, Broadcast, Link
<1>2. /\ waiting \in Interfaces(a, b, B, D)
      /\ waiting.unsent = Append(n.unsent, [dgram |-> d, ip |-> b])
      /\ waiting.arp_req = n.arp_req /\ waiting.beyond = n.beyond
      /\ OneMore(n, waiting, d)
  BY Zenon, WaitOK
<1> HIDE DEF waiting
<1>4. CASE Known(n, b)
  <2> DEFINE f == IPv4Frame(n, n.map[b].eth, d)
  <2>1. b \in B /\ n.map[b].eth = Eth(b)
    BY <1>1, <1>4 DEF Known, Maps
  <2>2. f \in DataFrames(a, B, D) /\ f.payload = d
    BY <1>1, <2>1 DEF IPv4Frame, Frame, DataFrames
  <2>3. f \in Frames(a, B, D)
    BY Zenon, <2>2 DEF Frames
  <2>4. m = Push(n, f)
    BY Zenon, <1>4 DEF send_datagram
  <2> HIDE DEF f
  <2>5. /\ m \in Interfaces(a, b, B, D)
        /\ m.unsent = n.unsent /\ m.arp_req = n.arp_req /\ m.beyond = n.beyond
        /\ Carries(n, m, f)
    <3>1. Pushed(n, f, Push(n, f), a, b, B, D)
      BY Zenon, <2>3, PushOK
    <3> QED BY Zenon, <2>4, <3>1 DEF Pushed
  <2>6. \A E : f \in Carrying(E) <=> d \in E
    BY Zenon, <2>2, WhatCarries
  <2>7. \A E : One(f \in Carrying(E)) = One(d \in E)
    BY Zenon, <2>6 DEF One
  <2>8. \A t \in Int : WellAsked(n, t) => WellAsked(m, t)
    BY Zenon, <2>5 DEF WellAsked, Asked
  <2> HIDE DEF m
  <2>9. OneMore(n, m, d)
    BY Zenon, <2>5, <2>7 DEF OneMore, Carries
  <2> QED BY Zenon, <2>5, <2>8, <2>9 DEF m
<1>5. CASE ~Known(n, b) /\ ~Recent(RequestAge(n, b))
  <2> DEFINE asked == Asks(waiting, b)
             f == ArpFrame(n, Broadcast, "request", b)
  <2>1. f \in ArpFrames(a)
    BY <1>1 DEF ArpFrame, Frame, ArpFrames, Broadcast
  <2>2. f \in Frames(a, B, D)
    BY Zenon, <2>1 DEF Frames
  <2>3. m = Push(asked, f)
    BY Zenon, <1>5 DEF send_datagram, waiting, Waits, Asks
  <2>4. /\ asked \in Interfaces(a, b, B, D)
        /\ asked.unsent = waiting.unsent /\ asked.beyond = waiting.beyond /\ Asked(asked, b)
        /\ NoMore(waiting, asked)
    BY Zenon, <1>2, AskOK
  <2> HIDE DEF asked, f
  <2>5. /\ m \in Interfaces(a, b, B, D) /\ m.arp_req = asked.arp_req /\ m.beyond = asked.beyond
        /\ Carries(asked, m, f)
    <3>1. Link(a, b, B) /\ asked \in Interfaces(a, b, B, D)
      BY Zenon, <2>4
    <3>2. Pushed(asked, f, Push(asked, f), a, b, B, D)
      BY ONLY Zenon, <2>2, <3>1, PushOK
    <3> QED BY Zenon, <2>3, <3>2 DEF Pushed
  <2> HIDE DEF m
  <2>6. ASSUME NEW E PROVE Load(m, E) = Load(n, E) + One(d \in E)
    <3>1. f \notin Carrying(E)
      BY Zenon, <2>1, WhatCarries
    <3>2. One(f \in Carrying(E)) = 0
      BY Zenon, <3>1 DEF One
    <3>3. Load(asked, E) \in Nat /\ Load(asked, E) = Load(n, E) + One(d \in E)
      BY Zenon, <1>2, <2>4, LoadType DEF OneMore, NoMore
    <3>4. \A x \in Nat : x + 0 = x
      OBVIOUS
    <3> QED BY Zenon, <2>5, <3>2, <3>3, <3>4 DEF Carries
  <2>7. Asked(m, b)
    BY Zenon, <2>4, <2>5 DEF Asked
  <2>8. OneMore(n, m, d)
    BY Zenon, <2>6 DEF OneMore
  <2>9. m.beyond = n.beyond
    BY Zenon, <1>2, <2>4, <2>5
  <2>10. \A t \in Int : WellAsked(n, t) => WellAsked(m, t)
    BY Zenon, <2>5, <2>7, <2>9, AskedAll DEF WellAsked
  <2> QED BY Zenon, <2>5, <2>8, <2>9, <2>10 DEF m
<1>6. CASE ~Known(n, b) /\ Recent(RequestAge(n, b)) /\ Asked(n, b)
  <2>1. m = waiting
    BY Zenon, <1>6 DEF send_datagram, waiting, Waits
  <2>2. Asked(waiting, b)
    BY Zenon, <1>2, <1>6 DEF Asked
  <2>3. \A t \in Int : WellAsked(n, t) => WellAsked(waiting, t)
    BY Zenon, <1>2, <2>2, AskedAll DEF WellAsked
  <2> QED BY Zenon, <1>2, <2>1, <2>3
<1>7. CASE ~Known(n, b) /\ Recent(RequestAge(n, b)) /\ ~Asked(n, b)
  <2> DEFINE f == BlankFrame(n)
  <2>1. f \in BlankFrames(a)
    BY <1>1 DEF BlankFrame, Frame, BlankFrames, Zero
  <2>2. f \in Frames(a, B, D)
    BY Zenon, <2>1 DEF Frames
  <2>3. m = Push(waiting, f)
    BY Zenon, <1>7 DEF send_datagram, waiting, Waits
  <2> HIDE DEF f
  <2>4. /\ m \in Interfaces(a, b, B, D) /\ m.beyond = waiting.beyond
        /\ Carries(waiting, m, f)
    <3>1. Link(a, b, B) /\ waiting \in Interfaces(a, b, B, D)
      BY Zenon, <1>2
    <3>2. Pushed(waiting, f, Push(waiting, f), a, b, B, D)
      BY ONLY Zenon, <2>2, <3>1, PushOK
    <3> QED BY Zenon, <2>3, <3>2 DEF Pushed
  <2> HIDE DEF m
  <2>5. ASSUME NEW E PROVE Load(m, E) = Load(n, E) + One(d \in E)
    <3>1. f \notin Carrying(E)
      BY Zenon, <2>1, WhatCarries
    <3>2. One(f \in Carrying(E)) = 0
      BY Zenon, <3>1 DEF One
    <3>3. Load(waiting, E) \in Nat /\ Load(waiting, E) = Load(n, E) + One(d \in E)
      BY Zenon, <1>2, LoadType DEF OneMore
    <3>4. \A x \in Nat : x + 0 = x
      OBVIOUS
    <3> QED BY Zenon, <2>4, <3>2, <3>3, <3>4 DEF Carries
  <2>6. Recent(n.beyond)
    BY Zenon, <1>7 DEF RequestAge
  <2>7. ASSUME NEW t \in Int PROVE ~(t > ArpWait /\ n.beyond >= t)
    BY <1>1, <2>6, InterfaceAssumption DEF Recent
  <2>8. \A t \in Int : WellAsked(n, t) => WellAsked(m, t)
    BY Zenon, <2>7 DEF WellAsked
  <2>9. OneMore(n, m, d)
    BY Zenon, <2>5 DEF OneMore
  <2> QED BY Zenon, <1>2, <2>4, <2>8, <2>9 DEF m
<1> QED BY Zenon, <1>4, <1>5, <1>6, <1>7

\* What a frame from the neighbour leaves behind: nothing that waits is lost or doubled, and
\* what still waits is still asked for.
Handled(n, m, a, b, B, D) ==
    /\ m \in Interfaces(a, b, B, D) /\ m.beyond = n.beyond /\ NoMore(n, m)
    /\ \A t \in Int : WellAsked(n, t) => WellAsked(m, t)

\* The neighbour's address is learnt.
LEMMA LearnOK ==
  ASSUME NEW a, NEW b, NEW B, NEW D, Link(a, b, B), b \in B, NEW n \in Interfaces(a, b, B, D),
         NEW msg, msg.sender_ip = b, msg.sender_eth = Eth(b)
  PROVE  /\ Handled(n, Learn(n, msg), a, b, B, D)
         /\ Learn(n, msg).unsent = n.unsent /\ Learn(n, msg).arp_req = n.arp_req
<1> DEFINE m == Learn(n, msg)
           R == [eth : {Eth(b)}, age : Int]
           map == [ip \in DOMAIN n.map \cup {b} |->
                      IF ip = b THEN [eth |-> Eth(b), age |-> 0] ELSE n.map[ip]]
<1>1. PICK X \in SUBSET B : n.map \in [X -> R]
  <2>1. n.map \in Maps(b, B)
    BY InterfaceFields
  <2> QED BY Zenon, <2>1 DEF Maps
<1>2. X \cup {b} \in SUBSET B
  OBVIOUS
<1>3. map \in [X \cup {b} -> R]
  <2>1. [eth |-> Eth(b), age |-> 0] \in R
    OBVIOUS
  <2> HIDE DEF R
  <2> QED BY <1>1, <2>1
<1>4. map \in Maps(b, B)
  BY Zenon, <1>2, <1>3 DEF Maps
<1>5. m = [n EXCEPT !.map = map]
  BY Zenon DEF Learn
<1> HIDE DEF map
<1>6. /\ m \in Interfaces(a, b, B, D) /\ m.beyond = n.beyond /\ m.frames_out = n.frames_out
      /\ m.unsent = n.unsent /\ m.arp_req = n.arp_req
  BY <1>4, <1>5 DEF Interfaces
<1> HIDE DEF m
<1>7. NoMore(n, m)
  BY Zenon, <1>6 DEF NoMore, Load
<1>8. \A t \in Int : WellAsked(n, t) => WellAsked(m, t)
  BY Zenon, <1>6 DEF WellAsked, Asked
<1> QED BY Zenon, <1>6, <1>7, <1>8 DEF Handled, m

\* What waited for the neighbour is sent to it.
LEMMA ReleaseOK ==
  ASSUME NEW a, NEW b, NEW B, NEW D, Link(a, b, B), b \in B, NEW n \in Interfaces(a, b, B, D),
         NEW msg, msg.sender_ip = b, msg.sender_eth = Eth(b)
  PROVE  Handled(n, Release(n, msg), a, b, B, D)
<1> DEFINE m == Release(n, msg)
           F == Frames(a, B, D)
           W == Waiters(b, D)
           new == [i \in 1 .. Len(n.unsent) |-> IPv4Frame(n, Eth(b), n.unsent[i].dgram)]
<1>1. /\ n.eth = Eth(a) /\ n.frames_out \in Seq(F) /\ n.unsent \in Seq(W)
      /\ n.arp_req \in Seq(Requests(b))
  BY InterfaceFields
<1>2. /\ Entries(n.unsent, b) = n.unsent /\ Others(n.unsent, b) = <<>>
      /\ Others(n.arp_req, b) = <<>>
  <2>1. \A w \in W : w.ip = b
    BY DEF Waiters
  <2>2. \A r \in Requests(b) : r.ip = b
    BY DEF Requests
  <2>3. n.unsent \in Seq(W) /\ n.arp_req \in Seq(Requests(b))
    BY Zenon, <1>1
  <2> HIDE DEF W
  <2>4. Entries(n.unsent, b) = n.unsent /\ Others(n.unsent, b) = <<>>
    BY ONLY ZenonT(40), <2>1, <2>3, OneAddress
  <2>5. Others(n.arp_req, b) = <<>>
    BY ONLY Zenon, <2>2, <2>3, OneAddress
  <2> QED BY Zenon, <2>4, <2>5
<1>3. m = [n EXCEPT !.frames_out = @ \o new, !.unsent = <<>>, !.arp_req = <<>>]
  BY Zenon, <1>2 DEF Release
<1>4. ASSUME NEW i \in 1 .. Len(n.unsent)
      PROVE  /\ n.unsent[i] \in W /\ new[i] = IPv4Frame(n, Eth(b), n.unsent[i].dgram)
             /\ new[i] \in DataFrames(a, B, D) /\ new[i].payload = n.unsent[i].dgram
  <2>1. n.unsent[i] \in W
    <3> HIDE DEF W
    <3> QED BY <1>1
  <2>2. n.unsent[i].dgram \in D
    BY <2>1 DEF Waiters
  <2>3. Eth(b) \in {Eth(x) : x \in B}
    BY Zenon
  <2> QED BY <1>1, <2>1, <2>2, <2>3 DEF DataFrames, IPv4Frame, Frame
<1>5. new \in Seq(F) /\ Len(new) = Len(n.unsent)
  <2>1. \A i \in 1 .. Len(n.unsent) : new[i] \in F
    BY Zenon, <1>4 DEF Frames
  <2>2. Len(n.unsent) \in Nat
    <3> HIDE DEF W
    <3> QED BY <1>1
  <2>3. new = [i \in 1 .. Len(n.unsent) |-> new[i]]
    BY Zenon
  <2> HIDE DEF new, F
  <2> QED BY <2>1, <2>2, <2>3
<1> HIDE DEF new
<1>6. n.frames_out \o new \in Seq(F)
  <2> HIDE DEF F
  <2> QED BY <1>1, <1>5
<1>7. /\ m \in Interfaces(a, b, B, D) /\ m.beyond = n.beyond
      /\ m.frames_out = n.frames_out \o new /\ m.unsent = <<>>
  <2> DEFINE out == n.frames_out \o new
  <2>1. out \in Seq(F) /\ m = [n EXCEPT !.frames_out = out, !.unsent = <<>>, !.arp_req = <<>>]
    BY Zenon, <1>3, <1>6
  <2>2. <<>> \in Seq(Waiters(b, D)) /\ <<>> \in Seq(Requests(b))
    OBVIOUS
  <2> HIDE DEF out, m
  <2>3. /\ m \in Interfaces(a, b, B, D) /\ m.beyond = n.beyond
        /\ m.frames_out = out /\ m.unsent = <<>>
    BY Zenon, <2>1, <2>2 DEF Interfaces
  <2> QED BY Zenon, <2>3 DEF out
<1> HIDE DEF m
<1>8. ASSUME NEW E PROVE Load(m, E) = Load(n, E)
  <2> DEFINE w == Count(n.unsent, WaitingFor(E))
             c == Count(n.frames_out, Carrying(E))
  <2>1. Count(new, Carrying(E)) = w
    <3>1. \A i \in 1 .. Len(n.unsent) : new[i] \in Carrying(E) <=> n.unsent[i] \in WaitingFor(E)
      <4> TAKE i \in 1 .. Len(n.unsent)
      <4>1. n.unsent[i] \in Waiters(b, D) /\ new[i] \in DataFrames(a, B, D) /\ Link(a, b, B)
        BY Zenon, <1>4
      <4>2. new[i] \in Carrying(E) <=> new[i].payload \in E
        BY ONLY Zenon, <4>1, WhatCarries
      <4>3. n.unsent[i] \in WaitingFor(E) <=> n.unsent[i].dgram \in E
        <5> DEFINE x == n.unsent[i]
        <5>1. x \in Waiters(b, D) /\ Link(a, b, B)
          BY Zenon, <4>1
        <5> HIDE DEF x
        <5>2. x \in WaitingFor(E) <=> x.dgram \in E
          BY ONLY Zenon, <5>1, WhatCarries
        <5> QED BY Zenon, <5>2 DEF x
      <4>4. new[i].payload = n.unsent[i].dgram
        BY Zenon, <1>4
      <4> QED BY Zenon, <4>2, <4>3, <4>4
    <3>2. DOMAIN new = 1 .. Len(n.unsent) /\ DOMAIN n.unsent = 1 .. Len(n.unsent)
      <4> HIDE DEF F, W
      <4> QED BY <1>1, <1>5
    <3>3. {i \in DOMAIN new : new[i] \in Carrying(E)}
          = {i \in DOMAIN n.unsent : n.unsent[i] \in WaitingFor(E)}
      BY Zenon, <3>1, <3>2
    <3> QED BY Zenon, <3>3 DEF Count
  <2>2. Count(m.frames_out, Carrying(E)) = c + Count(new, Carrying(E))
    <3>1. n.frames_out \in Seq(F) /\ new \in Seq(F)
      BY Zenon, <1>1, <1>5
    <3> HIDE DEF F
    <3>2. Count(n.frames_out \o new, Carrying(E))
          = Count(n.frames_out, Carrying(E)) + Count(new, Carrying(E))
      BY ONLY Zenon, <3>1, CountConcat
    <3> QED BY Zenon, <1>7, <3>2
  <2>3. Count(m.unsent, WaitingFor(E)) = 0
    BY Zenon, <1>7, CountNone
  <2>4. Load(m, E) = 0 + (c + w) /\ Load(n, E) = w + c
    BY Zenon, <2>1, <2>2, <2>3 DEF Load
  <2>5. w \in Nat /\ c \in Nat
    BY Zenon, LoadType
  <2> HIDE DEF w, c
  <2> QED BY <2>4, <2>5
<1>9. \A t \in Int : WellAsked(n, t) => WellAsked(m, t)
  <2>1. DOMAIN m.unsent = {}
    BY <1>7
  <2> QED BY Zenon, <1>7, <2>1 DEF WellAsked
<1> QED BY Zenon, <1>7, <1>8, <1>9 DEF Handled, NoMore, m

\* One change after another.
LEMMA HandledTwice ==
  ASSUME NEW a, NEW b, NEW B, NEW D, NEW n, NEW l, NEW m,
         Handled(n, l, a, b, B, D), Handled(l, m, a, b, B, D)
  PROVE  Handled(n, m, a, b, B, D)
BY Zenon DEF Handled, NoMore

\* A pushed frame without a datagram changes no count.
LEMMA PushEmpty ==
  ASSUME NEW a, NEW b, NEW B, NEW D, Link(a, b, B), NEW n \in Interfaces(a, b, B, D),
         NEW f \in ArpFrames(a)
  PROVE  Handled(n, Push(n, f), a, b, B, D)
<1> DEFINE m == Push(n, f)
<1>1. f \in Frames(a, B, D)
  BY Zenon DEF Frames
<1>2. Pushed(n, f, m, a, b, B, D)
  BY Zenon, <1>1, PushOK
<1> HIDE DEF m
<1>3. /\ m \in Interfaces(a, b, B, D) /\ m.beyond = n.beyond
      /\ m.unsent = n.unsent /\ m.arp_req = n.arp_req
  BY Zenon, <1>2 DEF Pushed
<1>4. ASSUME NEW E PROVE Load(m, E) = Load(n, E)
  <2>1. f \notin Carrying(E)
    BY Zenon, WhatCarries
  <2>2. One(f \in Carrying(E)) = 0
    BY Zenon, <2>1 DEF One
  <2>3. Load(n, E) \in Nat
    BY Zenon, LoadType
  <2>4. \A x \in Nat : x + 0 = x
    OBVIOUS
  <2> QED BY Zenon, <1>2, <2>2, <2>3, <2>4 DEF Carries, Pushed
<1>5. \A t \in Int : WellAsked(n, t) => WellAsked(m, t)
  BY Zenon, <1>3 DEF WellAsked, Asked
<1> QED BY Zenon, <1>3, <1>4, <1>5 DEF Handled, NoMore, m

\* recv_frame on a frame from the neighbour, whatever it holds.
LEMMA RecvOK ==
  ASSUME NEW a, NEW b, NEW B, NEW D, Link(a, b, B), b \in B, NEW n \in Interfaces(a, b, B, D),
         NEW C, NEW In, NEW f \in Frames(b, C, In)
  PROVE  Handled(n, recv_frame(n, f), a, b, B, D)
<1> DEFINE msg == f.payload
           l == Learn(n, msg)
<1>1. CASE ~ForMe(n, f) \/ f.type # "ARP"
  <2>1. recv_frame(n, f) = n
    BY Zenon, <1>1 DEF recv_frame
  <2> QED BY Zenon, <2>1 DEF Handled, NoMore
<1>2. CASE ForMe(n, f) /\ f.type = "ARP"
  <2>1. f \in ArpFrames(b)
    BY <1>2 DEF Frames, BlankFrames, DataFrames
  <2>2. /\ msg.sender_ip = b /\ msg.sender_eth = Eth(b) /\ f.src = Eth(b)
    BY <2>1 DEF ArpFrames
  <2>3. Eth(b) \in Int /\ b \in Int
    BY DEF Link, Eth, Broadcast
  <2>4. Handled(n, l, a, b, B, D)
    BY Zenon, <2>2, LearnOK
  <2>5. l \in Interfaces(a, b, B, D)
    BY Zenon, <2>4 DEF Handled
  <2>6. CASE msg.opcode = "request" /\ msg.target_ip = n.ip
    <3> DEFINE g == ArpFrame(l, f.src, "reply", f.payload.sender_ip)
    <3>1. recv_frame(n, f) = Push(l, g)
      BY Zenon, <1>2, <2>6 DEF recv_frame, Reply
    <3>2. l.eth = Eth(a) /\ l.ip = a
      BY <2>5, InterfaceFields
    <3>3. g = ArpFrame(l, Eth(b), "reply", b)
      BY Zenon, <2>2
    <3> HIDE DEF l, msg, g
    <3>4. g \in ArpFrames(a)
      BY <2>3, <3>2, <3>3 DEF ArpFrame, Frame, ArpFrames
    <3>5. Handled(l, Push(l, g), a, b, B, D)
      BY Zenon, <2>5, <3>4, PushEmpty
    <3> QED BY Zenon, <2>4, <3>1, <3>5, HandledTwice
  <2>7. CASE ~(msg.opcode = "request" /\ msg.target_ip = n.ip) /\ msg.opcode = "reply"
    <3>1. recv_frame(n, f) = Release(l, msg)
      BY Zenon, <1>2, <2>7 DEF recv_frame
    <3> HIDE DEF l, msg
    <3>2. Handled(l, Release(l, msg), a, b, B, D)
      BY Zenon, <2>2, <2>5, ReleaseOK
    <3> QED BY Zenon, <2>4, <3>1, <3>2, HandledTwice
  <2>8. CASE ~(msg.opcode = "request" /\ msg.target_ip = n.ip) /\ msg.opcode # "reply"
    <3>1. recv_frame(n, f) = l
      BY Zenon, <1>2, <2>8 DEF recv_frame
    <3> QED BY Zenon, <2>4, <3>1
  <2> QED BY Zenon, <2>6, <2>7, <2>8
<1> QED BY Zenon, <1>1, <1>2

\* What it returns is the frame's datagram, and all that the frame carries.
Gives(n, f, In) ==
    \/ f.type # "IPv4" /\ Returned(n, f) = <<>> /\ \A E : f \notin Carrying(E)
    \/ /\ f.payload \in In /\ Returned(n, f) = <<f.payload>>
       /\ \A E : f \in Carrying(E) <=> f.payload \in E

\* recv_frame returns a datagram that came in an IPv4 frame to its address, and nothing else.
LEMMA ReturnedOK ==
  ASSUME NEW a, NEW b, NEW B, NEW D, Link(a, b, B), NEW n \in Interfaces(a, b, B, D),
         NEW C \in SUBSET {a}, NEW In, NEW f \in Frames(b, C, In)
  PROVE  Gives(n, f, In)
<1>1. Link(b, a, C) /\ n.eth = Eth(a)
  BY InterfaceFields DEF Link
<1>2. CASE f \in ArpFrames(b) \cup BlankFrames(b)
  <2>1. f.type # "IPv4"
    BY <1>2 DEF ArpFrames, BlankFrames
  <2>2. \A E : f \notin Carrying(E)
    BY ONLY Zenon, <1>1, <1>2, WhatCarries
  <2>3. Returned(n, f) = <<>>
    BY Zenon, <2>1 DEF Returned
  <2> QED BY Zenon, <2>1, <2>2, <2>3 DEF Gives
<1>3. CASE f \in DataFrames(b, C, In)
  <2>1. f.type = "IPv4" /\ f.payload \in In /\ f.dst \in {Eth(x) : x \in C}
    BY <1>3 DEF DataFrames
  <2>2. f.dst = Eth(a)
    BY Zenon, <2>1
  <2>3. \A E : f \in Carrying(E) <=> f.payload \in E
    BY ONLY Zenon, <1>1, <1>3, WhatCarries
  <2>4. Returned(n, f) = <<f.payload>>
    BY Zenon, <1>1, <2>1, <2>2 DEF Returned, ForMe
  <2> QED BY Zenon, <2>1, <2>3, <2>4 DEF Gives
<1> QED BY Zenon, <1>2, <1>3 DEF Frames

\* Time passes at an interface.
Aged(n, m, a, b, B, D) ==
    /\ m \in Interfaces(a, b, B, D) /\ NoMore(n, m) /\ m.frames_out = n.frames_out
    /\ \A t \in Int : WellAsked(n, t) => WellAsked(m, t)

\* That is what tick_interface does.
LEMMA TickOK ==
  ASSUME NEW a, NEW b, NEW B, NEW D, Link(a, b, B), NEW n \in Interfaces(a, b, B, D)
  PROVE  Aged(n, tick_interface(n, 1), a, b, B, D)
<1> DEFINE m == tick_interface(n, 1)
           R == [eth : {Eth(b)}, age : Int]
           map == [ip \in DOMAIN n.map |-> Older(n.map[ip], 1, MapLife)]
           req == [i \in DOMAIN n.arp_req |-> Older(n.arp_req[i], 1, ArpWait)]
<1>1. /\ n.map \in Maps(b, B) /\ n.arp_req \in Seq(Requests(b)) /\ n.beyond \in Int
  BY InterfaceFields
<1>2. MapLife \in Int /\ ArpWait \in Int
  BY InterfaceAssumption
<1>3. map \in Maps(b, B)
  <2>1. PICK X \in SUBSET B : n.map \in [X -> R]
    BY Zenon, <1>1 DEF Maps
  <2>2. \A r \in R : Older(r, 1, MapLife) \in R
    BY <1>2 DEF Older
  <2> HIDE DEF R
  <2>3. map \in [X -> R]
    BY <2>1, <2>2
  <2> QED BY Zenon, <2>1, <2>3 DEF Maps, R
<1>4. /\ req \in Seq(Requests(b)) /\ DOMAIN req = DOMAIN n.arp_req
      /\ \A i \in DOMAIN req : req[i].ip = n.arp_req[i].ip
  <2> DEFINE T == Requests(b)
  <2>1. \A r \in T : Older(r, 1, ArpWait) \in T /\ Older(r, 1, ArpWait).ip = r.ip
    BY <1>2 DEF Requests, Older
  <2>2. n.arp_req \in Seq(T)
    BY Zenon, <1>1
  <2> HIDE DEF T
  <2>3. DOMAIN n.arp_req = 1 .. Len(n.arp_req) /\ Len(n.arp_req) \in Nat
    BY <2>2
  <2>4. \A i \in DOMAIN n.arp_req : n.arp_req[i] \in T
    BY <2>2
  <2>5. \A i \in DOMAIN req : req[i] \in T /\ req[i].ip = n.arp_req[i].ip
    BY Zenon, <2>1, <2>4
  <2>6. req \in Seq(T)
    <3>1. req = [i \in 1 .. Len(n.arp_req) |-> req[i]] /\ DOMAIN req = 1 .. Len(n.arp_req)
      BY Zenon, <2>3
    <3> HIDE DEF req
    <3> QED BY <2>3, <2>5, <3>1
  <2> QED BY Zenon, <2>5, <2>6 DEF T
<1>5. m = [n EXCEPT !.map = map, !.arp_req = req, !.beyond = n.beyond + 1]
  BY Zenon DEF tick_interface
<1> HIDE DEF map, req
<1>6. /\ m \in Interfaces(a, b, B, D) /\ m.frames_out = n.frames_out /\ m.unsent = n.unsent
      /\ m.arp_req = req /\ m.beyond = n.beyond + 1
  <2> DEFINE next == n.beyond + 1
  <2>1. next \in Int /\ req \in Seq(Requests(b))
    BY <1>1, <1>4
  <2>2. m = [n EXCEPT !.map = map, !.arp_req = req, !.beyond = next]
    BY Zenon, <1>5
  <2> HIDE DEF m, next
  <2>3. /\ m \in Interfaces(a, b, B, D) /\ m.frames_out = n.frames_out /\ m.unsent = n.unsent
        /\ m.arp_req = req /\ m.beyond = next
    BY Zenon, <1>3, <2>1, <2>2 DEF Interfaces
  <2> QED BY Zenon, <2>3 DEF next
<1> HIDE DEF m
<1>7. NoMore(n, m)
  BY Zenon, <1>6 DEF NoMore, Load
<1>8. ASSUME NEW ip PROVE Asked(n, ip) => Asked(m, ip)
  BY Zenon, <1>4, <1>6 DEF Asked, For
<1>9. ASSUME NEW t \in Int, WellAsked(n, t) PROVE WellAsked(m, t)
  <2>1. n.beyond >= t => m.beyond >= t
    BY <1>1, <1>6
  <2> QED BY Zenon, <1>6, <1>8, <1>9, <2>1 DEF WellAsked
<1> QED BY Zenon, <1>6, <1>7, <1>9 DEF m, Aged

-----------------------------------------------------------------------------
(* The routers, and the routes they choose. *)

\* A prefix of two bits of an address of four: addresses are divided by the number of
\* subsets of a set of two.
LEMMA TwoOfFour == \A x : HighBits(x, 2) = x \div 4
<1> DEFINE A == {{}, {1}}
           B == A \cup {{2}}
           C == B \cup {{1, 2}}
<1>1. Cardinality({1}) = 1 /\ IsFiniteSet({1}) /\ Cardinality({{}}) = 1 /\ IsFiniteSet({{}})
  BY Zenon, FS_Singleton
<1>2. Cardinality({1} \cup {2}) = 1 + 1 /\ IsFiniteSet({1} \cup {2})
  <2>1. 2 \notin {1}
    OBVIOUS
  <2> QED BY ONLY Zenon, <1>1, <2>1, FS_AddElement
<1>3. Cardinality(SUBSET ({1} \cup {2})) = 2 ^ (1 + 1)
  BY Zenon, <1>2, FS_SUBSET
<1>4. {1} # {} /\ {2} \notin A /\ {1, 2} \notin B /\ A = {{}} \cup {{1}}
  OBVIOUS
<1>5. Cardinality(A) = 1 + 1 /\ IsFiniteSet(A)
  <2>1. {1} \notin {{}}
    BY <1>4
  <2>2. Cardinality({{}} \cup {{1}}) = 1 + 1 /\ IsFiniteSet({{}} \cup {{1}})
    BY ONLY Zenon, <1>1, <2>1, FS_AddElement
  <2> QED BY Zenon, <1>4, <2>2
<1>6. Cardinality(B) = (1 + 1) + 1 /\ IsFiniteSet(B)
  <2>1. {2} \notin A /\ B = A \cup {{2}}
    BY Zenon, <1>4
  <2> HIDE DEF A, B
  <2>2. Cardinality(A \cup {{2}}) = (1 + 1) + 1 /\ IsFiniteSet(A \cup {{2}})
    BY ONLY Zenon, <1>5, <2>1, FS_AddElement
  <2> QED BY Zenon, <2>1, <2>2
<1>7. Cardinality(C) = ((1 + 1) + 1) + 1
  <2>1. {1, 2} \notin B
    BY Zenon, <1>4
  <2> HIDE DEF B
  <2> QED BY ONLY Zenon, <1>6, <2>1, FS_AddElement DEF C
<1>8. SUBSET ({1} \cup {2}) = C
  <2>1. ASSUME NEW X \in SUBSET ({1} \cup {2}) PROVE X \in C
    <3>1. CASE 1 \in X /\ 2 \in X
      <4>1. X = {1, 2}
        BY Zenon, <3>1
      <4> QED BY Zenon, <4>1
    <3>2. CASE 1 \in X /\ 2 \notin X
      <4>1. X = {1}
        BY Zenon, <3>2
      <4> QED BY Zenon, <4>1
    <3>3. CASE 1 \notin X /\ 2 \in X
      <4>1. X = {2}
        BY Zenon, <3>3
      <4> QED BY Zenon, <4>1
    <3>4. CASE 1 \notin X /\ 2 \notin X
      <4>1. X = {}
        BY <3>4
      <4> QED BY Zenon, <4>1
    <3> QED BY Zenon, <3>1, <3>2, <3>3, <3>4
  <2>2. \A X \in C : X \in SUBSET ({1} \cup {2})
    BY Zenon
  <2> HIDE DEF C
  <2> QED BY Zenon, <2>1, <2>2
<1>9. 2 ^ (1 + 1) = ((1 + 1) + 1) + 1
  BY Zenon, <1>3, <1>7, <1>8
<1>10. AddressBits - 2 = 1 + 1 /\ ((1 + 1) + 1) + 1 = 4 /\ 2 > 0
  BY Lab7Assumption
<1>11. 2 ^ (AddressBits - 2) = 4
  BY Zenon, <1>9, <1>10
<1> QED BY <1>10, <1>11 DEF HighBits

\* The routes that SiteRouter adds.
Entry(prefix, hop, num) ==
    [route_prefix |-> prefix, prefix_length |-> 2, next_hop |-> hop, interface_num |-> num]
Table(s) ==
    <<Entry(Net(s), NoHop, host_side), Entry(0, NoHop, internet_side),
      Entry(Net(Peer(s)), InternetSide(Peer(s)), internet_side)>>

\* A router of site s with the interfaces c and e.
Rt(s, c, e) == [interfaces |-> <<c, e>>, routing_table |-> Table(s)]

\* The sites' names and addresses.
LEMMA SiteFacts ==
  ASSUME NEW s \in Sites
  PROVE  /\ Peer(s) \in Sites /\ Peer(s) # s /\ Peer(Peer(s)) = s /\ Sites = {s, Peer(s)}
         /\ HostIP(s) \in Int /\ HostSide(s) \in Int /\ InternetSide(s) \in Int
         /\ InternetSide(s) # NoHop
BY Lab7Assumption DEF Sites, Peer, HostIP, HostSide, InternetSide, Net, NoHop

\* Which of its routes match the address of a host.
LEMMA WhichMatch ==
  ASSUME NEW s \in Sites
  PROVE  LET t == Table(s)
         IN  /\ Len(t) = 3
             /\ Matches(t[1], HostIP(s)) /\ ~Matches(t[2], HostIP(s)) /\ ~Matches(t[3], HostIP(s))
             /\ ~Matches(t[1], HostIP(Peer(s))) /\ ~Matches(t[2], HostIP(Peer(s)))
             /\ Matches(t[3], HostIP(Peer(s)))
<1>1. /\ Table(s)[1].route_prefix = Net(s) /\ Table(s)[1].prefix_length = 2
      /\ Table(s)[2].route_prefix = 0 /\ Table(s)[2].prefix_length = 2
      /\ Table(s)[3].route_prefix = Net(Peer(s)) /\ Table(s)[3].prefix_length = 2
      /\ Len(Table(s)) = 3
  BY DEF Table, Entry
<1>2. \/ Net(s) = 12 /\ Net(Peer(s)) = 8
      \/ Net(s) = 8 /\ Net(Peer(s)) = 12
  BY Lab7Assumption DEF Sites, Peer, Net
<1>3. HostIP(s) = Net(s) + 1 /\ HostIP(Peer(s)) = Net(Peer(s)) + 1
  BY DEF HostIP
<1>4. /\ HighBits(Net(s), 2) = HighBits(HostIP(s), 2)
      /\ HighBits(0, 2) # HighBits(HostIP(s), 2)
      /\ HighBits(Net(Peer(s)), 2) # HighBits(HostIP(s), 2)
      /\ HighBits(Net(s), 2) # HighBits(HostIP(Peer(s)), 2)
      /\ HighBits(0, 2) # HighBits(HostIP(Peer(s)), 2)
      /\ HighBits(Net(Peer(s)), 2) = HighBits(HostIP(Peer(s)), 2)
  BY <1>2, <1>3, TwoOfFour
<1> QED BY <1>1, <1>4 DEF Matches

\* The route to a host: to the site's own over the first, to the other's over the third.
LEMMA MatchOK ==
  ASSUME NEW s \in Sites
  PROVE  /\ longest_prefix_match(Table(s), HostIP(s)) = 1
         /\ longest_prefix_match(Table(s), HostIP(Peer(s))) = 3
<1> DEFINE t == Table(s)
<1>1. ASSUME NEW dst, NEW k \in {1, 3}, Len(t) = 3,
             \A i \in 1 .. 3 : Matches(t[i], dst) <=> i = k
      PROVE  longest_prefix_match(t, dst) = k
  <2> DEFINE P(f, i) == IF i = 0 THEN 0 ELSE IF Better(t, dst, f[i - 1], i) THEN i ELSE f[i - 1]
             F == CHOOSE f : f = [i \in 0 .. 3 |-> P(f, i)]
             g == [i \in 0 .. 3 |-> IF i < k THEN 0 ELSE k]
  <2>1. longest_prefix_match(t, dst) = F[3]
    BY <1>1 DEF longest_prefix_match
  <2>2. ASSUME NEW i \in 0 .. 3 PROVE g[i] = P(g, i)
    <3>1. CASE i = 0
      BY <3>1
    <3>2. CASE i # 0
      <4>1. i \in 1 .. 3 /\ i - 1 \in 0 .. 3 /\ k \in Int
        BY <3>2
      <4>2. g[i] = (IF i < k THEN 0 ELSE k) /\ g[i - 1] = (IF i - 1 < k THEN 0 ELSE k)
        BY Zenon, <4>1
      <4>3. Better(t, dst, g[i - 1], i) <=> i = k
        <5>1. CASE i # k
          BY Zenon, <1>1, <4>1, <5>1 DEF Better
        <5>2. CASE i = k
          <6>1. g[i - 1] = 0
            BY <4>1, <4>2, <5>2
          <6> QED BY Zenon, <1>1, <4>1, <5>2, <6>1 DEF Better
        <5> QED BY Zenon, <5>1, <5>2
      <4> HIDE DEF g
      <4> QED BY <3>2, <4>1, <4>2, <4>3
    <3> QED BY Zenon, <3>1, <3>2
  <2>3. g = [i \in 0 .. 3 |-> P(g, i)]
    <3>1. g = [i \in 0 .. 3 |-> g[i]]
      BY Zenon
    <3> HIDE DEF g, P
    <3> QED BY Zenon, <2>2, <3>1
  <2>4. F = [i \in 0 .. 3 |-> P(F, i)]
    <3> HIDE DEF g, P
    <3> QED BY Zenon, <2>3
  <2> HIDE DEF F
  <2>5. /\ F[0] = P(F, 0) /\ F[1] = P(F, 1) /\ F[2] = P(F, 2) /\ F[3] = P(F, 3)
    <3> HIDE DEF P
    <3>1. 0 \in 0 .. 3 /\ 1 \in 0 .. 3 /\ 2 \in 0 .. 3 /\ 3 \in 0 .. 3
      OBVIOUS
    <3> QED BY Zenon, <2>4, <3>1
  <2>6. \A i \in 1 .. 3 : i # k => ~Better(t, dst, F[i - 1], i)
    BY Zenon, <1>1 DEF Better
  <2>7. F[k - 1] = 0 => Better(t, dst, F[k - 1], k)
    <3>1. k \in 1 .. 3
      OBVIOUS
    <3> QED BY Zenon, <1>1, <3>1 DEF Better
  <2> HIDE DEF t
  <2>8. F[3] = k
    BY <2>5, <2>6, <2>7
  <2> QED BY Zenon, <2>1, <2>8
<1>2. /\ Len(t) = 3
      /\ \A i \in 1 .. 3 : Matches(t[i], HostIP(s)) <=> i = 1
      /\ \A i \in 1 .. 3 : Matches(t[i], HostIP(Peer(s))) <=> i = 3
  <2> HIDE DEF t
  <2>1. \A i \in 1 .. 3 : i = 1 \/ i = 2 \/ i = 3
    OBVIOUS
  <2>2. 1 # 2 /\ 1 # 3 /\ 2 # 3
    OBVIOUS
  <2> QED BY Zenon, <2>1, <2>2, WhichMatch DEF t
<1> HIDE DEF t
<1> QED BY Zenon, <1>1, <1>2 DEF t

\* The datagrams the host of site s sends.
Dg(s) == {Datagram(s, i) : i \in Nat}

\* A datagram goes out on the side its receiver is on.
Forwards(s, c, e, d) ==
    /\ d \in Dg(s) => route_one_datagram(Rt(s, c, e), d)
                      = Rt(s, c, send_datagram(e, d, InternetSide(Peer(s))))
    /\ d \in Dg(Peer(s)) => route_one_datagram(Rt(s, c, e), d)
                            = Rt(s, send_datagram(c, d, HostIP(s)), e)

\* That is what route_one_datagram does.
LEMMA RouteOneOK ==
  ASSUME NEW s \in Sites, NEW c, NEW e, NEW d
  PROVE  Forwards(s, c, e, d)
<1> DEFINE r == Rt(s, c, e)
<1>1. /\ r.routing_table = Table(s) /\ r.interfaces = <<c, e>>
      /\ \A x : [r EXCEPT !.interfaces[1] = x] = Rt(s, x, e)
      /\ \A x : [r EXCEPT !.interfaces[2] = x] = Rt(s, c, x)
  BY DEF Rt
<1>2. /\ Table(s)[1].interface_num = 1 /\ Table(s)[1].next_hop = NoHop
      /\ Table(s)[3].interface_num = 2 /\ Table(s)[3].next_hop = InternetSide(Peer(s))
  BY DEF Table, Entry, host_side, internet_side
<1>3. InternetSide(Peer(s)) # NoHop /\ Peer(Peer(s)) = s
  BY Zenon, SiteFacts
<1>4. <<c, e>>[1] = c /\ <<c, e>>[2] = e
  OBVIOUS
<1>5. ASSUME NEW x \in Sites, d \in Dg(x)
      PROVE  d.dst = HostIP(Peer(x)) /\ ~(d.ttl = 0 \/ d.ttl - 1 = 0)
  BY <1>5 DEF Dg, Datagram
<1>6. /\ longest_prefix_match(r.routing_table, HostIP(s)) = 1
      /\ longest_prefix_match(r.routing_table, HostIP(Peer(s))) = 3
  BY Zenon, <1>1, MatchOK
<1>7. 1 # 0 /\ 3 # 0
  OBVIOUS
<1> HIDE DEF r
<1>8. ASSUME d \in Dg(s)
      PROVE  route_one_datagram(r, d) = Rt(s, c, send_datagram(e, d, InternetSide(Peer(s))))
  <2>1. d.dst = HostIP(Peer(s)) /\ ~(d.ttl = 0 \/ d.ttl - 1 = 0)
    BY Zenon, <1>5, <1>8
  <2>2. route_one_datagram(r, d)
        = [r EXCEPT !.interfaces[2] = send_datagram(r.interfaces[2], d, InternetSide(Peer(s)))]
    <3> DEFINE x == r.routing_table[3]
    <3>1. x.interface_num = 2 /\ x.next_hop = InternetSide(Peer(s)) /\ x.next_hop # NoHop
      BY Zenon, <1>1, <1>2, <1>3
    <3>2. longest_prefix_match(r.routing_table, d.dst) = 3
      BY Zenon, <1>6, <2>1
    <3>3. route_one_datagram(r, d)
          = [r EXCEPT !.interfaces[x.interface_num] =
               send_datagram(@, d, IF x.next_hop = NoHop THEN d.dst ELSE x.next_hop)]
      BY ONLY Zenon, <1>7, <2>1, <3>2 DEF route_one_datagram, x
    <3> HIDE DEF x
    <3> QED BY Zenon, <3>1, <3>3
  <2> QED BY Zenon, <1>1, <1>4, <2>2
<1>9. ASSUME d \in Dg(Peer(s))
      PROVE  route_one_datagram(r, d) = Rt(s, send_datagram(c, d, HostIP(s)), e)
  <2>1. d.dst = HostIP(s) /\ ~(d.ttl = 0 \/ d.ttl - 1 = 0)
    <3>1. Peer(s) \in Sites
      BY Zenon, SiteFacts
    <3>2. d.dst = HostIP(Peer(Peer(s))) /\ ~(d.ttl = 0 \/ d.ttl - 1 = 0)
      BY Zenon, <1>5, <1>9, <3>1
    <3> QED BY Zenon, <1>3, <3>2
  <2>2. route_one_datagram(r, d)
        = [r EXCEPT !.interfaces[1] = send_datagram(r.interfaces[1], d, HostIP(s))]
    BY Zenon, <1>1, <1>2, <1>6, <1>7, <2>1 DEF route_one_datagram
  <2> QED BY Zenon, <1>1, <1>4, <2>2
<1> QED BY Zenon, <1>8, <1>9 DEF r, Forwards

\* Two lists one after the other.
LEMMA ConcatTwo ==
  ASSUME NEW L, Len(L) = 2
  PROVE  concatenate(L) = (<<>> \o L[1]) \o L[2]
<1> DEFINE P(f, i) == IF i = 0 THEN <<>> ELSE f[i - 1] \o L[i]
           F == CHOOSE f : f = [i \in 0 .. 2 |-> P(f, i)]
           one == <<>> \o L[1]
           two == one \o L[2]
           g == [i \in 0 .. 2 |-> IF i = 0 THEN <<>> ELSE IF i = 1 THEN one ELSE two]
<1>1. concatenate(L) = F[2]
  BY DEF concatenate
<1>2. \A i \in 0 .. 2 : i = 0 \/ i = 1 \/ i = 2
  OBVIOUS
<1>3. /\ 1 # 0 /\ 2 # 0 /\ 2 # 1 /\ 1 - 1 = 0 /\ 2 - 1 = 1
      /\ 0 \in 0 .. 2 /\ 1 \in 0 .. 2 /\ 2 \in 0 .. 2
  OBVIOUS
<1>4. g[0] = <<>> /\ g[1] = one /\ g[2] = two
  <2> HIDE DEF one, two
  <2> QED BY <1>3
<1>5. ASSUME NEW i \in 0 .. 2 PROVE g[i] = P(g, i)
  <2>1. P(g, 0) = <<>> /\ P(g, 1) = g[0] \o L[1] /\ P(g, 2) = g[1] \o L[2]
    <3> HIDE DEF g
    <3> QED BY Zenon, <1>3
  <2> HIDE DEF g, P
  <2> QED BY Zenon, <1>2, <1>4, <2>1 DEF one, two
<1>6. g = [i \in 0 .. 2 |-> P(g, i)]
  <2>1. g = [i \in 0 .. 2 |-> g[i]]
    BY Zenon
  <2> HIDE DEF g, P
  <2> QED BY Zenon, <1>5, <2>1
<1>7. F = [i \in 0 .. 2 |-> P(F, i)]
  <2> HIDE DEF g, P
  <2> QED BY Zenon, <1>6
<1> HIDE DEF F
<1>8. F[0] = <<>> /\ F[1] = F[0] \o L[1] /\ F[2] = F[1] \o L[2]
  BY Zenon, <1>3, <1>7
<1> QED BY Zenon, <1>1, <1>8

\* An interface that has received datagrams, and one from which they have been taken.
With(n, o) == [n EXCEPT !.datagrams_out = o]
Plain(n) ==
    n.datagrams_out = <<>> /\ With(n, <<>>) = n
    /\ \A o : With(n, o).datagrams_out = o /\ With(With(n, o), <<>>) = n

\* They are as the interfaces of the model are.
LEMMA PlainCards ==
  ASSUME NEW a, NEW b, NEW B, NEW D, NEW n \in Interfaces(a, b, B, D)
  PROVE  Plain(n)
BY Zenon DEF Plain, With, Interfaces

\* Whether r is what a router with the interfaces c and e becomes when it routes held, which
\* is a datagram or none.
Routes(r, s, c, e, held) ==
    /\ held = <<>> => r = Rt(s, c, e)
    /\ \A d : held = <<d>> => r = route_one_datagram(Rt(s, c, e), d)

\* Route with what one interface or none has received.
LEMMA RouteOK ==
  ASSUME NEW s, NEW c, NEW e, Plain(c), Plain(e), NEW o, NEW p
  PROVE  Routes(Route(Rt(s, With(c, o), With(e, p))), s, c, e, (<<>> \o o) \o p)
<1> DEFINE x == With(c, o)
           y == With(e, p)
           r == Rt(s, x, y)
           L == [i \in 1 .. Len(r.interfaces) |-> r.interfaces[i].datagrams_out]
           held == concatenate(L)
           taken == [r EXCEPT !.interfaces =
                       [i \in DOMAIN @ |-> [@[i] EXCEPT !.datagrams_out = <<>>]]]
           P(f, i) == IF i = 0 THEN taken ELSE route_one_datagram(f[i - 1], held[i])
           F == CHOOSE f : f = [i \in 0 .. Len(held) |-> P(f, i)]
<1>1. Route(r) = F[Len(held)]
  BY DEF Route
<1>2. /\ x.datagrams_out = o /\ y.datagrams_out = p
      /\ [x EXCEPT !.datagrams_out = <<>>] = c /\ [y EXCEPT !.datagrams_out = <<>>] = e
  BY Zenon DEF Plain, With
<1> HIDE DEF x, y
<1>3. r.interfaces = <<x, y>> /\ Len(<<x, y>>) = 2 /\ <<x, y>>[1] = x /\ <<x, y>>[2] = y
  BY DEF Rt
<1>4. held = (<<>> \o o) \o p
  <2>1. L = [i \in 1 .. 2 |-> <<x, y>>[i].datagrams_out]
    BY Zenon, <1>3
  <2>2. L[1] = o /\ L[2] = p /\ Len(L) = 2
    BY <1>2, <1>3, <2>1
  <2> HIDE DEF L
  <2> QED BY Zenon, <2>2, ConcatTwo
<1>5. taken = Rt(s, c, e)
  <2>1. [i \in {1, 2} |-> [<<x, y>>[i] EXCEPT !.datagrams_out = <<>>]] = <<c, e>>
    BY <1>2, <1>3
  <2>2. DOMAIN <<x, y>> = {1, 2}
    OBVIOUS
  <2>3. taken = [r EXCEPT !.interfaces = <<c, e>>]
    BY Zenon, <1>3, <2>1, <2>2
  <2> QED BY <2>3 DEF Rt
<1> HIDE DEF r, held, taken
<1>6. CASE held = <<>>
  <2> DEFINE g == [i \in 0 .. 0 |-> taken]
  <2>1. Len(held) = 0 /\ 0 .. 0 = {0}
    BY <1>6
  <2>2. g = [i \in 0 .. 0 |-> P(g, i)]
    BY Zenon, <2>1
  <2>3. F = [i \in 0 .. Len(held) |-> P(F, i)]
    <3> HIDE DEF g, P
    <3> QED BY Zenon, <2>1, <2>2
  <2> HIDE DEF F
  <2>4. F[0] = taken
    BY Zenon, <2>1, <2>3
  <2>5. Route(r) = Rt(s, c, e)
    BY Zenon, <1>1, <1>5, <2>1, <2>4
  <2>6. \A d : held # <<d>>
    BY <1>6
  <2> QED BY Zenon, <1>4, <2>5, <2>6 DEF r, x, y, Routes
<1>7. ASSUME NEW d, held = <<d>> PROVE Route(r) = route_one_datagram(Rt(s, c, e), d)
  <2> DEFINE z == route_one_datagram(taken, d)
             g == [i \in 0 .. 1 |-> IF i = 0 THEN taken ELSE z]
  <2>1. /\ Len(held) = 1 /\ held[1] = d /\ 1 # 0 /\ 1 - 1 = 0 /\ 0 \in 0 .. 1 /\ 1 \in 0 .. 1
        /\ \A i \in 0 .. 1 : i = 0 \/ i = 1
    BY <1>7
  <2>2. ASSUME NEW i \in 0 .. 1 PROVE g[i] = P(g, i)
    <3>1. g[0] = taken /\ g[1] = z
      <4> HIDE DEF z
      <4> QED BY <2>1
    <3> HIDE DEF g
    <3>2. P(g, 0) = taken /\ P(g, 1) = route_one_datagram(g[0], held[1])
      BY Zenon, <2>1
    <3> HIDE DEF P
    <3> QED BY Zenon, <2>1, <3>1, <3>2 DEF z
  <2>3. g = [i \in 0 .. 1 |-> P(g, i)]
    <3>1. g = [i \in 0 .. 1 |-> g[i]]
      BY Zenon
    <3> HIDE DEF g, P
    <3> QED BY Zenon, <2>2, <3>1
  <2>4. F = [i \in 0 .. 1 |-> P(F, i)]
    <3> HIDE DEF g, P
    <3> QED BY Zenon, <2>1, <2>3
  <2> HIDE DEF F
  <2>5. F[0] = taken /\ F[1] = route_one_datagram(F[0], held[1])
    BY Zenon, <2>1, <2>4
  <2> QED BY Zenon, <1>1, <1>5, <2>1, <2>5
<1>8. CASE held # <<>>
  BY Zenon, <1>4, <1>7, <1>8 DEF r, x, y, Routes
<1> QED BY Zenon, <1>6, <1>8

\* A frame at the router: the datagram in it, if there is one, is routed once.
LEMMA AcceptedOK ==
  ASSUME NEW s, NEW c, NEW e, NEW f, Plain(c), Plain(e)
  PROVE  /\ Plain(recv_frame(c, f))
            => Routes(Accepted(Rt(s, c, e), host_side, f), s, recv_frame(c, f), e, Returned(c, f))
         /\ Plain(recv_frame(e, f))
            => Routes(Accepted(Rt(s, c, e), internet_side, f), s, c, recv_frame(e, f), Returned(e, f))
<1> DEFINE Odd(o) == <<>> \o o
<1>1. /\ Odd(Odd(<<>>)) \o <<>> = <<>> /\ Odd(<<>>) \o Odd(<<>>) = <<>>
      /\ \A d : Odd(Odd(<<d>>)) \o <<>> = <<d>> /\ Odd(<<>>) \o Odd(<<d>>) = <<d>>
  <2>1. <<>> \in Seq({}) /\ \A d : <<d>> \in Seq({d}) /\ <<>> \in Seq({d})
    OBVIOUS
  <2>2. \A T : \A o \in Seq(T) : <<>> \o o = o /\ o \o <<>> = o
    OBVIOUS
  <2>3. Odd(Odd(<<>>)) \o <<>> = <<>> /\ Odd(<<>>) \o Odd(<<>>) = <<>>
    OBVIOUS
  <2>4. ASSUME NEW d PROVE Odd(Odd(<<d>>)) \o <<>> = <<d>> /\ Odd(<<>>) \o Odd(<<d>>) = <<d>>
    <3> DEFINE x == <<d>>
    <3>1. x \in Seq({d}) /\ <<>> \o x = x /\ x \o <<>> = x
      BY Zenon, <2>1, <2>2
    <3>2. <<>> \o <<>> = <<>>
      OBVIOUS
    <3> HIDE DEF x
    <3>3. Odd(Odd(x)) \o <<>> = x /\ Odd(<<>>) \o Odd(x) = x
      BY Zenon, <3>1, <3>2
    <3> QED BY Zenon, <3>3 DEF x
  <2> QED BY Zenon, <2>3, <2>4
<1>2. /\ \A x : [Rt(s, c, e) EXCEPT !.interfaces[1] = x] = Rt(s, x, e)
      /\ \A x : [Rt(s, c, e) EXCEPT !.interfaces[2] = x] = Rt(s, c, x)
      /\ Rt(s, c, e).interfaces[1] = c /\ Rt(s, c, e).interfaces[2] = e
  BY DEF Rt
<1>3. With(c, <<>>) = c /\ With(e, <<>>) = e
  BY Zenon DEF Plain
<1>4. ASSUME Plain(recv_frame(c, f))
      PROVE  Routes(Accepted(Rt(s, c, e), host_side, f), s, recv_frame(c, f), e, Returned(c, f))
  <2> DEFINE m == recv_frame(c, f)
             o == Odd(Returned(c, f))
             r == Route(Rt(s, With(m, o), With(e, <<>>)))
  <2>1. Accepted(Rt(s, c, e), host_side, f) = Route(Rt(s, async_recv_frame(c, f), e))
    BY Zenon, <1>2 DEF Accepted, host_side
  <2>2. async_recv_frame(c, f) = With(m, o)
    BY Zenon, <1>4 DEF async_recv_frame, With, Plain
  <2>3. Accepted(Rt(s, c, e), host_side, f) = r
    BY Zenon, <1>3, <2>1, <2>2
  <2>4. Plain(m) /\ Plain(e)
    BY Zenon, <1>4
  <2> HIDE DEF m
  <2>5. Routes(r, s, m, e, (<<>> \o o) \o <<>>)
    <3> HIDE DEF o
    <3> QED BY Zenon, <2>4, RouteOK
  <2> HIDE DEF r
  <2>6. Routes(r, s, m, e, Returned(c, f))
    BY Zenon, <1>1, <2>5 DEF Routes
  <2> QED BY Zenon, <2>3, <2>6 DEF m
<1>5. ASSUME Plain(recv_frame(e, f))
      PROVE  Routes(Accepted(Rt(s, c, e), internet_side, f), s, c, recv_frame(e, f), Returned(e, f))
  <2> DEFINE m == recv_frame(e, f)
             o == Odd(Returned(e, f))
             r == Route(Rt(s, With(c, <<>>), With(m, o)))
  <2>1. Accepted(Rt(s, c, e), internet_side, f) = Route(Rt(s, c, async_recv_frame(e, f)))
    BY Zenon, <1>2 DEF Accepted, internet_side
  <2>2. async_recv_frame(e, f) = With(m, o)
    BY Zenon, <1>5 DEF async_recv_frame, With, Plain
  <2>3. Accepted(Rt(s, c, e), internet_side, f) = r
    BY Zenon, <1>3, <2>1, <2>2
  <2>4. Plain(m) /\ Plain(c)
    BY Zenon, <1>5
  <2> HIDE DEF m
  <2>5. Routes(r, s, c, m, (<<>> \o <<>>) \o o)
    <3> HIDE DEF o
    <3> QED BY Zenon, <2>4, RouteOK
  <2> HIDE DEF r
  <2>6. Routes(r, s, c, m, Returned(e, f))
    BY Zenon, <1>1, <2>5 DEF Routes
  <2> QED BY Zenon, <2>3, <2>6 DEF m
<1> QED BY Zenon, <1>4, <1>5

-----------------------------------------------------------------------------
(* What a frame does to a router. *)

\* The interfaces of the router of site s.  B has the address of the other site's router when
\* something it sent can have come through.
Ports(s, B, c, e) ==
    /\ c \in Interfaces(HostSide(s), HostIP(s), {HostIP(s)}, Dg(Peer(s)))
    /\ e \in Interfaces(InternetSide(s), InternetSide(Peer(s)), B, Dg(s))
    /\ B \in SUBSET {InternetSide(Peer(s))}

\* c and e became x and y with frame f, and what was in it is there once.
Took(c, e, f, x, y) ==
    /\ \A E : Load(x, E) + Load(y, E) = (Load(c, E) + Load(e, E)) + One(f \in Carrying(E))
    /\ \A t \in Int : WellAsked(c, t) /\ WellAsked(e, t) => WellAsked(x, t) /\ WellAsked(y, t)

\* A frame from the host.
LEMMA FromHost ==
  ASSUME NEW s \in Sites, NEW B, NEW c, NEW e, Ports(s, B, c, e),
         NEW f \in Frames(HostIP(s), {HostSide(s)}, Dg(s))
  PROVE  \E x, y : /\ Accepted(Rt(s, c, e), host_side, f) = Rt(s, x, y)
                   /\ Ports(s, B, x, y) /\ Took(c, e, f, x, y)
<1> DEFINE m == recv_frame(c, f)
           r == Accepted(Rt(s, c, e), host_side, f)
           h == HostSide(s)
           hp == HostIP(s)
           i == InternetSide(s)
           ip == InternetSide(Peer(s))
           D == Dg(s)
           G == Dg(Peer(s))
<1>1. /\ c \in Interfaces(h, hp, {hp}, G) /\ e \in Interfaces(i, ip, B, D)
      /\ Link(h, hp, {hp}) /\ Link(i, ip, B)
      /\ Plain(c) /\ Plain(e)
  <2>1. c \in Interfaces(h, hp, {hp}, G) /\ e \in Interfaces(i, ip, B, D) /\ B \in SUBSET {ip}
    BY Zenon DEF Ports
  <2>2. h \in Int /\ hp \in Int /\ i \in Int /\ ip \in Int
    BY Zenon, SiteFacts
  <2> HIDE DEF h, hp, i, ip
  <2>3. Link(h, hp, {hp}) /\ Link(i, ip, B)
    BY Zenon, <2>1, <2>2 DEF Link
  <2> QED BY Zenon, <2>1, <2>3, PlainCards
<1>2. f \in Frames(hp, {h}, D) /\ hp \in {hp}
  BY Zenon
<1> HIDE DEF h, hp, i, ip, D, G
<1>3. Handled(c, m, h, hp, {hp}, G)
  BY ONLY Zenon, <1>1, <1>2, RecvOK
<1>4. m \in Interfaces(h, hp, {hp}, G)
  BY Zenon, <1>3 DEF Handled
<1>5. Plain(m)
  BY Zenon, <1>4, PlainCards
<1>6. Gives(c, f, D)
  <2>1. {h} \in SUBSET {h}
    OBVIOUS
  <2> QED BY ONLY Zenon, <1>1, <1>2, <2>1, ReturnedOK
<1>7. Routes(r, s, m, e, Returned(c, f))
  BY Zenon, <1>1, <1>5, AcceptedOK
<1> HIDE DEF m, r
<1>8. CASE Returned(c, f) = <<>> /\ \A E : f \notin Carrying(E)
  <2>1. r = Rt(s, m, e)
    BY Zenon, <1>7, <1>8 DEF Routes
  <2>2. Took(c, e, f, m, e)
    <3>1. ASSUME NEW E
          PROVE  Load(m, E) + Load(e, E) = (Load(c, E) + Load(e, E)) + One(f \in Carrying(E))
      <4> DEFINE u == Load(c, E)
                 v == Load(e, E)
      <4>1. u \in Nat /\ v \in Nat
        BY Zenon, <1>1, LoadType
      <4>2. Load(m, E) = Load(c, E)
        BY Zenon, <1>3 DEF Handled, NoMore
      <4>3. One(f \in Carrying(E)) = 0
        BY Zenon, <1>8 DEF One
      <4> HIDE DEF u, v
      <4>4. u + v = (u + v) + 0
        BY <4>1
      <4> QED BY Zenon, <4>2, <4>3, <4>4 DEF u, v
    <3>2. \A t \in Int : WellAsked(c, t) => WellAsked(m, t)
      BY Zenon, <1>3 DEF Handled
    <3> QED BY Zenon, <3>1, <3>2 DEF Took
  <2>3. Ports(s, B, m, e)
    BY Zenon, <1>1, <1>4 DEF Ports, h, hp, i, ip, D, G
  <2> QED BY Zenon, <2>1, <2>2, <2>3 DEF r
<1>9. ASSUME f.payload \in D, Returned(c, f) = <<f.payload>>,
             \A E : f \in Carrying(E) <=> f.payload \in E
      PROVE  \E x, y : r = Rt(s, x, y) /\ Ports(s, B, x, y) /\ Took(c, e, f, x, y)
  <2> DEFINE d == f.payload
             new == send_datagram(e, d, ip)
  <2>1. r = route_one_datagram(Rt(s, m, e), d) /\ Forwards(s, m, e, d)
    BY Zenon, <1>7, <1>9, RouteOneOK DEF Routes
  <2>2. d \in D
    BY Zenon, <1>9
  <2> HIDE DEF d
  <2>3. r = Rt(s, m, new)
    BY Zenon, <2>1, <2>2 DEF Forwards, D, G, ip, hp
  <2>4. Handed(e, new, d, i, ip, B, D)
    BY ONLY Zenon, <1>1, <2>2, SendOK
  <2> HIDE DEF new
  <2>5. Took(c, e, f, m, new)
    <3>1. ASSUME NEW E
          PROVE  Load(m, E) + Load(new, E) = (Load(c, E) + Load(e, E)) + One(f \in Carrying(E))
      <4> DEFINE u == Load(c, E)
                 v == Load(e, E)
                 w == One(d \in E)
      <4>1. u \in Nat /\ v \in Nat /\ w \in Nat
        BY Zenon, <1>1, LoadType, OneType
      <4>2. Load(m, E) = Load(c, E) /\ Load(new, E) = Load(e, E) + One(d \in E)
        BY Zenon, <1>3, <2>4 DEF Handled, NoMore, Handed, OneMore
      <4>3. One(f \in Carrying(E)) = One(d \in E)
        BY Zenon, <1>9 DEF One, d
      <4> HIDE DEF u, v, w
      <4>4. u + (v + w) = (u + v) + w
        BY <4>1
      <4> QED BY Zenon, <4>2, <4>3, <4>4 DEF u, v, w
    <3>2. /\ \A t \in Int : WellAsked(c, t) => WellAsked(m, t)
          /\ \A t \in Int : WellAsked(e, t) => WellAsked(new, t)
      BY Zenon, <1>3, <2>4 DEF Handled, Handed
    <3> QED BY Zenon, <3>1, <3>2 DEF Took
  <2>6. Ports(s, B, m, new)
    BY Zenon, <1>1, <1>4, <2>4 DEF Ports, Handed, h, hp, i, ip, D, G
  <2> QED BY Zenon, <2>3, <2>5, <2>6
<1> QED BY Zenon, <1>6, <1>8, <1>9 DEF Gives, r

\* A frame from the other site.
LEMMA FromInternet ==
  ASSUME NEW s \in Sites, NEW B, NEW c, NEW e, Ports(s, B, c, e), InternetSide(Peer(s)) \in B,
         NEW f \in Frames(InternetSide(Peer(s)), {InternetSide(s)}, Dg(Peer(s)))
  PROVE  \E x, y : /\ Accepted(Rt(s, c, e), internet_side, f) = Rt(s, x, y)
                   /\ Ports(s, B, x, y) /\ Took(c, e, f, x, y)
<1> DEFINE m == recv_frame(e, f)
           r == Accepted(Rt(s, c, e), internet_side, f)
           h == HostSide(s)
           hp == HostIP(s)
           i == InternetSide(s)
           ip == InternetSide(Peer(s))
           D == Dg(s)
           G == Dg(Peer(s))
<1>1. /\ c \in Interfaces(h, hp, {hp}, G) /\ e \in Interfaces(i, ip, B, D)
      /\ Link(h, hp, {hp}) /\ Link(i, ip, B)
      /\ Plain(c) /\ Plain(e)
  <2>1. c \in Interfaces(h, hp, {hp}, G) /\ e \in Interfaces(i, ip, B, D) /\ B \in SUBSET {ip}
    BY Zenon DEF Ports
  <2>2. h \in Int /\ hp \in Int /\ i \in Int /\ ip \in Int
    BY Zenon, SiteFacts
  <2> HIDE DEF h, hp, i, ip
  <2>3. Link(h, hp, {hp}) /\ Link(i, ip, B)
    BY Zenon, <2>1, <2>2 DEF Link
  <2> QED BY Zenon, <2>1, <2>3, PlainCards
<1>2. f \in Frames(ip, {i}, G) /\ ip \in B
  BY Zenon
<1> HIDE DEF h, hp, i, ip, D, G
<1>3. Handled(e, m, i, ip, B, D)
  BY ONLY Zenon, <1>1, <1>2, RecvOK
<1>4. m \in Interfaces(i, ip, B, D)
  BY Zenon, <1>3 DEF Handled
<1>5. Plain(m)
  BY Zenon, <1>4, PlainCards
<1>6. Gives(e, f, G)
  <2>1. {i} \in SUBSET {i}
    OBVIOUS
  <2> QED BY ONLY Zenon, <1>1, <1>2, <2>1, ReturnedOK
<1>7. Routes(r, s, c, m, Returned(e, f))
  BY Zenon, <1>1, <1>5, AcceptedOK
<1> HIDE DEF m, r
<1>8. CASE Returned(e, f) = <<>> /\ \A E : f \notin Carrying(E)
  <2>1. r = Rt(s, c, m)
    BY Zenon, <1>7, <1>8 DEF Routes
  <2>2. Took(c, e, f, c, m)
    <3>1. ASSUME NEW E
          PROVE  Load(c, E) + Load(m, E) = (Load(c, E) + Load(e, E)) + One(f \in Carrying(E))
      <4> DEFINE u == Load(c, E)
                 v == Load(e, E)
      <4>1. u \in Nat /\ v \in Nat
        BY Zenon, <1>1, LoadType
      <4>2. Load(m, E) = Load(e, E)
        BY Zenon, <1>3 DEF Handled, NoMore
      <4>3. One(f \in Carrying(E)) = 0
        BY Zenon, <1>8 DEF One
      <4> HIDE DEF u, v
      <4>4. u + v = (u + v) + 0
        BY <4>1
      <4> QED BY Zenon, <4>2, <4>3, <4>4 DEF u, v
    <3>2. \A t \in Int : WellAsked(e, t) => WellAsked(m, t)
      BY Zenon, <1>3 DEF Handled
    <3> QED BY Zenon, <3>1, <3>2 DEF Took
  <2>3. Ports(s, B, c, m)
    BY Zenon, <1>1, <1>4 DEF Ports, h, hp, i, ip, D, G
  <2> QED BY Zenon, <2>1, <2>2, <2>3 DEF r
<1>9. ASSUME f.payload \in G, Returned(e, f) = <<f.payload>>,
             \A E : f \in Carrying(E) <=> f.payload \in E
      PROVE  \E x, y : r = Rt(s, x, y) /\ Ports(s, B, x, y) /\ Took(c, e, f, x, y)
  <2> DEFINE d == f.payload
             new == send_datagram(c, d, hp)
  <2>1. r = route_one_datagram(Rt(s, c, m), d) /\ Forwards(s, c, m, d)
    BY Zenon, <1>7, <1>9, RouteOneOK DEF Routes
  <2>2. d \in G
    BY Zenon, <1>9
  <2> HIDE DEF d
  <2>3. r = Rt(s, new, m)
    BY Zenon, <2>1, <2>2 DEF Forwards, D, G, ip, hp
  <2>4. Handed(c, new, d, h, hp, {hp}, G)
    BY ONLY Zenon, <1>1, <2>2, SendOK
  <2> HIDE DEF new
  <2>5. Took(c, e, f, new, m)
    <3>1. ASSUME NEW E
          PROVE  Load(new, E) + Load(m, E) = (Load(c, E) + Load(e, E)) + One(f \in Carrying(E))
      <4> DEFINE u == Load(c, E)
                 v == Load(e, E)
                 w == One(d \in E)
      <4>1. u \in Nat /\ v \in Nat /\ w \in Nat
        BY Zenon, <1>1, LoadType, OneType
      <4>2. Load(m, E) = Load(e, E) /\ Load(new, E) = Load(c, E) + One(d \in E)
        BY Zenon, <1>3, <2>4 DEF Handled, NoMore, Handed, OneMore
      <4>3. One(f \in Carrying(E)) = One(d \in E)
        BY Zenon, <1>9 DEF One, d
      <4> HIDE DEF u, v, w
      <4>4. (u + w) + v = (u + v) + w
        BY <4>1
      <4> QED BY Zenon, <4>2, <4>3, <4>4 DEF u, v, w
    <3>2. /\ \A t \in Int : WellAsked(e, t) => WellAsked(m, t)
          /\ \A t \in Int : WellAsked(c, t) => WellAsked(new, t)
      BY Zenon, <1>3, <2>4 DEF Handled, Handed
    <3> QED BY Zenon, <3>1, <3>2 DEF Took
  <2>6. Ports(s, B, new, m)
    BY Zenon, <1>1, <1>4, <2>4 DEF Ports, Handed, h, hp, i, ip, D, G
  <2> QED BY Zenon, <2>3, <2>5, <2>6
<1> QED BY Zenon, <1>6, <1>8, <1>9 DEF Gives, r

-----------------------------------------------------------------------------
(* The parts of a site with t behind its lists, and how each is changed. *)

\* The frames from the host, to the host, and to the other site.
Up(s) == Frames(HostIP(s), {HostSide(s)}, Dg(s))
Down(s) == Frames(HostSide(s), {HostIP(s)}, Dg(Peer(s)))
Out(s, B) == Frames(InternetSide(s), B, Dg(s))

HostOK(s, t, h) ==
    /\ h \in Interfaces(HostIP(s), HostSide(s), {HostSide(s)}, Dg(s))
    /\ h.frames_out = <<>> /\ WellAsked(h, t)

RouterOK(s, B, t, r) ==
    \E c, e : r = Rt(s, c, e) /\ Ports(s, B, c, e) /\ WellAsked(c, t) /\ WellAsked(e, t)

\* The datagrams of E at a router, and the frames with one in a queue.
Held(r, E) == Load(r.interfaces[host_side], E) + Load(r.interfaces[internet_side], E)
Under(q, E) == Count(q, Carrying(E))

\* What HostBecomes does with the frames of a host.
Emptied(m) == [m EXCEPT !.frames_out = <<>>]
Flushed(s, t, m, q) ==
    /\ HostOK(s, t, Emptied(m)) /\ q \o m.frames_out \in Seq(Up(s))
    /\ \A E : Load(Emptied(m), E) + Under(q \o m.frames_out, E) = Load(m, E) + Under(q, E)

\* They are all in the queue, and nothing else has changed.
LEMMA FlushOK ==
  ASSUME NEW s \in Sites, NEW t, NEW q \in Seq(Up(s)), NEW m, WellAsked(m, t),
         m \in Interfaces(HostIP(s), HostSide(s), {HostSide(s)}, Dg(s))
  PROVE  Flushed(s, t, m, q)
<1> DEFINE n == Emptied(m)
           F == Up(s)
           a == HostIP(s)
           b == HostSide(s)
           B == {HostSide(s)}
           D == Dg(s)
<1>1. m \in Interfaces(a, b, B, D) /\ F = Frames(a, B, D)
  BY Zenon DEF Up
<1> HIDE DEF a, b, B, D, F
<1>2. m.frames_out \in Seq(F)
  <2>1. m.frames_out \in Seq(Frames(a, B, D))
    BY <1>1, InterfaceFields
  <2> QED BY Zenon, <1>1, <2>1
<1>3. /\ n \in Interfaces(a, b, B, D) /\ n.frames_out = <<>> /\ n.unsent = m.unsent
      /\ n.arp_req = m.arp_req /\ n.beyond = m.beyond
  <2>1. <<>> \in Seq(Frames(a, B, D))
    OBVIOUS
  <2> QED BY Zenon, <1>1, <2>1 DEF Interfaces, Emptied
<1> HIDE DEF n
<1>4. WellAsked(n, t)
  BY Zenon, <1>3 DEF WellAsked, Asked
<1>5. q \o m.frames_out \in Seq(F)
  <2>1. q \in Seq(F)
    BY DEF F
  <2> QED BY <1>2, <2>1
<1>6. ASSUME NEW E PROVE Load(n, E) + Under(q \o m.frames_out, E) = Load(m, E) + Under(q, E)
  <2> DEFINE w == Count(m.unsent, WaitingFor(E))
             c == Count(m.frames_out, Carrying(E))
             u == Under(q, E)
  <2>1. q \in Seq(F) /\ m.frames_out \in Seq(F)
    BY Zenon, <1>2 DEF F
  <2>2. Under(q \o m.frames_out, E) = u + c
    BY ONLY Zenon, <2>1, CountConcat DEF Under, u, c
  <2>3. u \in Nat /\ c \in Nat
    BY ONLY Zenon, <2>1, CountType DEF Under, u, c
  <2>4. w \in Nat
    BY Zenon, <1>1, LoadType
  <2>5. Load(n, E) = w + 0 /\ Load(m, E) = w + c
    BY Zenon, <1>3, CountNone DEF Load
  <2> HIDE DEF w, c, u
  <2>6. (w + 0) + (u + c) = (w + c) + u
    BY <2>3, <2>4
  <2> QED BY Zenon, <2>2, <2>5, <2>6 DEF u
<1>7. HostOK(s, t, n)
  BY Zenon, <1>3, <1>4 DEF HostOK, a, b, B, D
<1> QED BY Zenon, <1>5, <1>6, <1>7 DEF Flushed, n, F

\* The host has a datagram to send.
Wrote(s, t, h, q, d) ==
    LET m == send_datagram(h, d, HostSide(s))
    IN  /\ HostOK(s, t, Emptied(m)) /\ q \o m.frames_out \in Seq(Up(s))
        /\ \A E : Load(Emptied(m), E) + Under(q \o m.frames_out, E)
                  = (Load(h, E) + Under(q, E)) + One(d \in E)

\* Then there is one more.
LEMMA WriteOK ==
  ASSUME NEW s \in Sites, NEW t \in Int, NEW h, HostOK(s, t, h), NEW q \in Seq(Up(s)),
         NEW d \in Dg(s)
  PROVE  Wrote(s, t, h, q, d)
<1> DEFINE m == send_datagram(h, d, HostSide(s))
           a == HostIP(s)
           b == HostSide(s)
           B == {HostSide(s)}
           D == Dg(s)
<1>1. h \in Interfaces(a, b, B, D) /\ WellAsked(h, t) /\ d \in D
  BY Zenon DEF HostOK
<1>2. Link(a, b, B)
  <2>1. a \in Int /\ b \in Int
    BY Zenon, SiteFacts
  <2> QED BY Zenon, <2>1 DEF Link
<1> HIDE DEF a, B, D
<1>3. Handed(h, m, d, a, b, B, D)
  <2> HIDE DEF b
  <2>1. Handed(h, send_datagram(h, d, b), d, a, b, B, D)
    BY ONLY Zenon, <1>1, <1>2, SendOK
  <2> QED BY Zenon, <2>1 DEF b
<1> HIDE DEF m, b
<1>4. m \in Interfaces(a, b, B, D) /\ WellAsked(m, t) /\ OneMore(h, m, d)
  BY Zenon, <1>1, <1>3 DEF Handed
<1>5. Flushed(s, t, m, q)
  BY Zenon, <1>4, FlushOK DEF a, b, B, D
<1>6. ASSUME NEW E
      PROVE  Load(Emptied(m), E) + Under(q \o m.frames_out, E)
             = (Load(h, E) + Under(q, E)) + One(d \in E)
  <2> DEFINE l == Load(h, E)
             u == Under(q, E)
             x == One(d \in E)
  <2>1. Load(Emptied(m), E) + Under(q \o m.frames_out, E) = (l + x) + u
    BY Zenon, <1>4, <1>5 DEF Flushed, OneMore
  <2>2. l \in Nat /\ x \in Nat
    BY Zenon, <1>1, LoadType, OneType
  <2>3. u \in Nat
    BY Zenon, CountType DEF Under
  <2> HIDE DEF l, u, x
  <2>4. (l + x) + u = (l + u) + x
    BY <2>2, <2>3
  <2> QED BY Zenon, <2>1, <2>4 DEF l, u, x
<1> QED BY Zenon, <1>5, <1>6 DEF Flushed, Wrote, m

\* The host takes what a frame gives it.
GotMore(n, f, g, In) ==
    /\ g \o Returned(n, f) \in Seq(In)
    /\ \A E : Count(g \o Returned(n, f), E) = Count(g, E) + One(f \in Carrying(E))

\* It is what the frame carried.
LEMMA GotOK ==
  ASSUME NEW n, NEW f, NEW In, Gives(n, f, In), NEW g \in Seq(In)
  PROVE  GotMore(n, f, g, In)
<1>1. CASE Returned(n, f) = <<>> /\ \A E : f \notin Carrying(E)
  <2>1. g \o Returned(n, f) = g
    BY <1>1
  <2>2. ASSUME NEW E PROVE Count(g, E) = Count(g, E) + One(f \in Carrying(E))
    <3>1. One(f \in Carrying(E)) = 0
      BY Zenon, <1>1 DEF One
    <3>2. Count(g, E) \in Nat
      BY Zenon, CountType
    <3>3. \A x \in Nat : x = x + 0
      OBVIOUS
    <3> QED BY Zenon, <3>1, <3>2, <3>3
  <2> QED BY Zenon, <2>1, <2>2 DEF GotMore
<1>2. ASSUME f.payload \in In, Returned(n, f) = <<f.payload>>,
             \A E : f \in Carrying(E) <=> f.payload \in E
      PROVE  GotMore(n, f, g, In)
  <2> DEFINE d == f.payload
  <2>1. d \in In /\ Returned(n, f) = <<d>>
    BY Zenon, <1>2
  <2>2. \A E : One(f \in Carrying(E)) = One(d \in E)
    BY Zenon, <1>2 DEF One
  <2> HIDE DEF d
  <2>3. g \o <<d>> = Append(g, d) /\ Append(g, d) \in Seq(In)
    BY <2>1
  <2>4. \A E : Count(Append(g, d), E) = Count(g, E) + One(d \in E)
    BY Zenon, <2>1, CountAppend
  <2> QED BY Zenon, <2>1, <2>2, <2>3, <2>4 DEF GotMore
<1> QED BY Zenon, <1>1, <1>2 DEF Gives

\* The first frame of a queue is taken from it.
TakenFrom(q, F) ==
    /\ Head(q) \in F /\ Tail(q) \in Seq(F)
    /\ \A E : Under(q, E) = One(Head(q) \in Carrying(E)) + Under(Tail(q), E)

\* The others stay.
LEMMA TakeOK ==
  ASSUME NEW F, NEW q \in Seq(F), q # <<>>
  PROVE  TakenFrom(q, F)
<1>1. Head(q) \in F /\ Tail(q) \in Seq(F)
  OBVIOUS
<1>2. \A E : Count(q, Carrying(E)) = One(Head(q) \in Carrying(E)) + Count(Tail(q), Carrying(E))
  BY Zenon, CountTail
<1> QED BY Zenon, <1>1, <1>2 DEF TakenFrom, Under

\* The host reads a frame.
HasRead(s, t, h, q, down, g) ==
    LET f == Head(down)
        m == recv_frame(h, f)
    IN  /\ HostOK(s, t, Emptied(m)) /\ q \o m.frames_out \in Seq(Up(s))
        /\ Tail(down) \in Seq(Down(s)) /\ g \o Returned(h, f) \in Seq(Dg(Peer(s)))
        /\ \A E : ((Load(Emptied(m), E) + Under(q \o m.frames_out, E)) + Under(Tail(down), E))
                  + Count(g \o Returned(h, f), E)
                  = ((Load(h, E) + Under(q, E)) + Under(down, E)) + Count(g, E)

\* What was in it goes to TCP, what waited for it goes out.
LEMMA ReadOK ==
  ASSUME NEW s \in Sites, NEW t \in Int, NEW h, HostOK(s, t, h), NEW q \in Seq(Up(s)),
         NEW down \in Seq(Down(s)), down # <<>>, NEW g \in Seq(Dg(Peer(s)))
  PROVE  HasRead(s, t, h, q, down, g)
<1> DEFINE f == Head(down)
           m == recv_frame(h, f)
           a == HostIP(s)
           b == HostSide(s)
           B == {HostSide(s)}
           D == Dg(s)
           In == Dg(Peer(s))
<1>1. h \in Interfaces(a, b, B, D) /\ WellAsked(h, t) /\ b \in B
  BY Zenon DEF HostOK
<1>2. Link(a, b, B)
  <2>1. a \in Int /\ b \in Int
    BY Zenon, SiteFacts
  <2> QED BY Zenon, <2>1 DEF Link
<1>3. TakenFrom(down, Down(s))
  BY Zenon, TakeOK
<1>4. f \in Frames(b, {a}, In)
  BY Zenon, <1>3 DEF TakenFrom, Down
<1> HIDE DEF f, a, b, B, D, In
<1>5. Handled(h, m, a, b, B, D)
  BY ONLY Zenon, <1>1, <1>2, <1>4, RecvOK
<1>6. GotMore(h, f, g, In)
  <2>1. {a} \in SUBSET {a}
    OBVIOUS
  <2>2. Gives(h, f, In)
    BY ONLY Zenon, <1>1, <1>2, <1>4, <2>1, ReturnedOK
  <2>3. g \in Seq(In)
    BY Zenon DEF In
  <2> QED BY ONLY Zenon, <2>2, <2>3, GotOK
<1> HIDE DEF m
<1>7. m \in Interfaces(a, b, B, D) /\ WellAsked(m, t) /\ NoMore(h, m)
  BY Zenon, <1>1, <1>5 DEF Handled
<1>8. Flushed(s, t, m, q)
  BY Zenon, <1>7, FlushOK DEF a, b, B, D
<1>9. ASSUME NEW E
      PROVE  ((Load(Emptied(m), E) + Under(q \o m.frames_out, E)) + Under(Tail(down), E))
             + Count(g \o Returned(h, f), E)
             = ((Load(h, E) + Under(q, E)) + Under(down, E)) + Count(g, E)
  <2> DEFINE k == Load(Emptied(m), E) + Under(q \o m.frames_out, E)
             l == Load(h, E)
             u == Under(q, E)
             x == One(f \in Carrying(E))
             y == Under(Tail(down), E)
             z == Count(g, E)
  <2>1. k = l + u
    BY Zenon, <1>7, <1>8 DEF Flushed, NoMore
  <2>2. Under(down, E) = x + y /\ Count(g \o Returned(h, f), E) = z + x
    BY Zenon, <1>3, <1>6 DEF TakenFrom, GotMore, f
  <2>3. l \in Nat /\ x \in Nat
    BY Zenon, <1>1, LoadType, OneType
  <2>4. Tail(down) \in Seq(Down(s))
    BY Zenon, <1>3 DEF TakenFrom
  <2>5. u \in Nat /\ y \in Nat /\ z \in Nat
    BY Zenon, <2>4, CountType DEF Under
  <2> HIDE DEF k, l, u, x, y, z
  <2>6. (k + y) + (z + x) = ((l + u) + (x + y)) + z
    BY <2>1, <2>3, <2>5
  <2> QED BY Zenon, <2>2, <2>6 DEF k, l, u, y, z
<1>10. Tail(down) \in Seq(Down(s)) /\ g \o Returned(h, f) \in Seq(Dg(Peer(s)))
  BY Zenon, <1>3, <1>6 DEF TakenFrom, GotMore, In
<1> QED BY Zenon, <1>8, <1>9, <1>10 DEF Flushed, HasRead, m, f

\* What a router with two interfaces holds.
LEMMA HeldOK ==
  ASSUME NEW s, NEW c, NEW e, NEW E
  PROVE  Held(Rt(s, c, e), E) = Load(c, E) + Load(e, E)
<1>1. Rt(s, c, e).interfaces[1] = c /\ Rt(s, c, e).interfaces[2] = e
  BY DEF Rt
<1> QED BY Zenon, <1>1 DEF Held, host_side, internet_side

\* The router becomes v with the first frame of a queue.
Took1(s, B, t, r, v, q, F) ==
    /\ RouterOK(s, B, t, v) /\ Tail(q) \in Seq(F)
    /\ \A E : Held(v, E) + Under(Tail(q), E) = Held(r, E) + Under(q, E)

\* That of the host.
LEMMA UpOK ==
  ASSUME NEW s \in Sites, NEW B, NEW t \in Int, NEW r, RouterOK(s, B, t, r),
         NEW q \in Seq(Up(s)), q # <<>>
  PROVE  Took1(s, B, t, r, Accepted(r, host_side, Head(q)), q, Up(s))
<1> DEFINE F == Up(s)
           f == Head(q)
           v == Accepted(r, host_side, f)
<1>1. TakenFrom(q, F)
  BY Zenon, TakeOK
<1>2. PICK c, e : r = Rt(s, c, e) /\ Ports(s, B, c, e) /\ WellAsked(c, t) /\ WellAsked(e, t)
  BY Zenon DEF RouterOK
<1>3. f \in F
  BY Zenon, <1>1 DEF TakenFrom
<1>4. PICK x, y : /\ Accepted(Rt(s, c, e), host_side, f) = Rt(s, x, y)
                  /\ Ports(s, B, x, y) /\ Took(c, e, f, x, y)
  <2> HIDE DEF f
  <2> QED BY Zenon, <1>2, <1>3, FromHost DEF Up, Out
<1>5. v = Rt(s, x, y)
  BY Zenon, <1>2, <1>4
<1> HIDE DEF f, v
<1>6. RouterOK(s, B, t, v)
  BY Zenon, <1>2, <1>4, <1>5 DEF RouterOK, Took
<1>7. ASSUME NEW E PROVE Held(v, E) + Under(Tail(q), E) = Held(r, E) + Under(q, E)
  <2> DEFINE i == Load(c, E)
             j == Load(e, E)
             k == Load(x, E)
             l == Load(y, E)
             o == One(f \in Carrying(E))
             u == Under(Tail(q), E)
  <2>1. Held(v, E) = k + l /\ Held(r, E) = i + j
    <3>1. Held(Rt(s, x, y), E) = Load(x, E) + Load(y, E)
      BY ONLY HeldOK
    <3>2. Held(Rt(s, c, e), E) = Load(c, E) + Load(e, E)
      BY ONLY HeldOK
    <3> QED BY Zenon, <1>2, <1>5, <3>1, <3>2
  <2>2. k + l = (i + j) + o
    BY Zenon, <1>4 DEF Took
  <2>3. Under(q, E) = o + u
    BY Zenon, <1>1 DEF TakenFrom, f
  <2>4. i \in Nat /\ j \in Nat
    <3>1. /\ c \in Interfaces(HostSide(s), HostIP(s), {HostIP(s)}, Dg(Peer(s)))
          /\ e \in Interfaces(InternetSide(s), InternetSide(Peer(s)), B, Dg(s))
      BY Zenon, <1>2 DEF Ports
    <3> QED BY ONLY Zenon, <3>1, LoadType DEF i, j
  <2>5. o \in Nat
    BY Zenon, OneType
  <2>6. u \in Nat
    BY Zenon, <1>1, CountType DEF TakenFrom, Under
  <2> HIDE DEF i, j, k, l, o, u
  <2>7. (k + l) + u = (i + j) + (o + u)
    BY <2>2, <2>4, <2>5, <2>6
  <2> QED BY Zenon, <2>1, <2>3, <2>7 DEF u
<1> QED BY Zenon, <1>1, <1>6, <1>7 DEF Took1, TakenFrom, v, f

\* That of the other site.
LEMMA InOK ==
  ASSUME NEW s \in Sites, NEW B, NEW t \in Int, NEW r, RouterOK(s, B, t, r), InternetSide(Peer(s)) \in B,
         NEW q \in Seq(Out(Peer(s), {InternetSide(s)})), q # <<>>
  PROVE  Took1(s, B, t, r, Accepted(r, internet_side, Head(q)), q, Out(Peer(s), {InternetSide(s)}))
<1> DEFINE F == Out(Peer(s), {InternetSide(s)})
           f == Head(q)
           v == Accepted(r, internet_side, f)
<1>1. TakenFrom(q, F)
  BY Zenon, TakeOK
<1>2. PICK c, e : r = Rt(s, c, e) /\ Ports(s, B, c, e) /\ WellAsked(c, t) /\ WellAsked(e, t)
  BY Zenon DEF RouterOK
<1>3. f \in F
  BY Zenon, <1>1 DEF TakenFrom
<1>4. PICK x, y : /\ Accepted(Rt(s, c, e), internet_side, f) = Rt(s, x, y)
                  /\ Ports(s, B, x, y) /\ Took(c, e, f, x, y)
  <2> HIDE DEF f
  <2> QED BY Zenon, <1>2, <1>3, FromInternet DEF Up, Out
<1>5. v = Rt(s, x, y)
  BY Zenon, <1>2, <1>4
<1> HIDE DEF f, v
<1>6. RouterOK(s, B, t, v)
  BY Zenon, <1>2, <1>4, <1>5 DEF RouterOK, Took
<1>7. ASSUME NEW E PROVE Held(v, E) + Under(Tail(q), E) = Held(r, E) + Under(q, E)
  <2> DEFINE i == Load(c, E)
             j == Load(e, E)
             k == Load(x, E)
             l == Load(y, E)
             o == One(f \in Carrying(E))
             u == Under(Tail(q), E)
  <2>1. Held(v, E) = k + l /\ Held(r, E) = i + j
    <3>1. Held(Rt(s, x, y), E) = Load(x, E) + Load(y, E)
      BY ONLY HeldOK
    <3>2. Held(Rt(s, c, e), E) = Load(c, E) + Load(e, E)
      BY ONLY HeldOK
    <3> QED BY Zenon, <1>2, <1>5, <3>1, <3>2
  <2>2. k + l = (i + j) + o
    BY Zenon, <1>4 DEF Took
  <2>3. Under(q, E) = o + u
    BY Zenon, <1>1 DEF TakenFrom, f
  <2>4. i \in Nat /\ j \in Nat
    <3>1. /\ c \in Interfaces(HostSide(s), HostIP(s), {HostIP(s)}, Dg(Peer(s)))
          /\ e \in Interfaces(InternetSide(s), InternetSide(Peer(s)), B, Dg(s))
      BY Zenon, <1>2 DEF Ports
    <3> QED BY ONLY Zenon, <3>1, LoadType DEF i, j
  <2>5. o \in Nat
    BY Zenon, OneType
  <2>6. u \in Nat
    BY Zenon, <1>1, CountType DEF TakenFrom, Under
  <2> HIDE DEF i, j, k, l, o, u
  <2>7. (k + l) + u = (i + j) + (o + u)
    BY <2>2, <2>4, <2>5, <2>6
  <2> QED BY Zenon, <2>1, <2>3, <2>7 DEF u
<1> QED BY Zenon, <1>1, <1>6, <1>7 DEF Took1, TakenFrom, v, f

\* An interface sends its first frame.
Drop(n) == [n EXCEPT !.frames_out = Tail(@)]
Dropped(n, a, b, B, D) ==
    /\ Drop(n) \in Interfaces(a, b, B, D) /\ Head(n.frames_out) \in Frames(a, B, D)
    /\ \A t : WellAsked(n, t) => WellAsked(Drop(n), t)
    /\ \A E : Load(n, E) = Load(Drop(n), E) + One(Head(n.frames_out) \in Carrying(E))

\* It keeps the others.
LEMMA DropOK ==
  ASSUME NEW a, NEW b, NEW B, NEW D, NEW n \in Interfaces(a, b, B, D), n.frames_out # <<>>
  PROVE  Dropped(n, a, b, B, D)
<1> DEFINE F == Frames(a, B, D)
           q == n.frames_out
           m == Drop(n)
<1>1. q \in Seq(F) /\ q # <<>>
  BY InterfaceFields
<1>2. TakenFrom(q, F)
  <2> HIDE DEF q, F
  <2> QED BY Zenon, <1>1, TakeOK
<1>3. Head(q) \in F /\ Tail(q) \in Seq(F)
  BY Zenon, <1>2 DEF TakenFrom
<1>4. /\ m \in Interfaces(a, b, B, D) /\ m.frames_out = Tail(q) /\ m.unsent = n.unsent
      /\ m.arp_req = n.arp_req /\ m.beyond = n.beyond
  <2> DEFINE o == Tail(q)
  <2>1. m = [n EXCEPT !.frames_out = o] /\ o \in Seq(F)
    BY Zenon, <1>3 DEF Drop
  <2> HIDE DEF m, o
  <2>2. /\ m \in Interfaces(a, b, B, D) /\ m.frames_out = o /\ m.unsent = n.unsent
        /\ m.arp_req = n.arp_req /\ m.beyond = n.beyond
    BY Zenon, <2>1 DEF Interfaces
  <2> QED BY Zenon, <2>2 DEF o
<1> HIDE DEF m
<1>5. \A t : WellAsked(n, t) => WellAsked(m, t)
  BY Zenon, <1>4 DEF WellAsked, Asked
<1>6. ASSUME NEW E PROVE Load(n, E) = Load(m, E) + One(Head(q) \in Carrying(E))
  <2> DEFINE w == Count(n.unsent, WaitingFor(E))
             c == Count(Tail(q), Carrying(E))
             o == One(Head(q) \in Carrying(E))
  <2>1. Load(n, E) = w + Count(q, Carrying(E)) /\ Load(m, E) = w + c
    BY Zenon, <1>4 DEF Load
  <2>2. Count(q, Carrying(E)) = o + c
    BY Zenon, <1>2 DEF TakenFrom, Under
  <2>3. w \in Nat /\ o \in Nat
    BY Zenon, LoadType, OneType
  <2>4. c \in Nat
    BY Zenon, <1>3, CountType
  <2> HIDE DEF w, c, o
  <2>5. w + (o + c) = (w + c) + o
    BY <2>3, <2>4
  <2> QED BY Zenon, <2>1, <2>2, <2>5 DEF o
<1> QED BY Zenon, <1>3, <1>4, <1>5, <1>6 DEF Dropped, m

\* The router becomes v and puts frame f in a queue.
Gave(s, B, t, r, v, q, f, F) ==
    /\ RouterOK(s, B, t, v) /\ Append(q, f) \in Seq(F)
    /\ \A E : Held(v, E) + Under(Append(q, f), E) = Held(r, E) + Under(q, E)

\* That to the host.
LEMMA DownOK ==
  ASSUME NEW s \in Sites, NEW B, NEW t, NEW r, RouterOK(s, B, t, r), NEW q \in Seq(Down(s)),
         r.interfaces[host_side].frames_out # <<>>
  PROVE  Gave(s, B, t, r, [r EXCEPT !.interfaces[host_side].frames_out = Tail(@)], q,
              Head(r.interfaces[host_side].frames_out), Down(s))
<1> DEFINE F == Down(s)
           f == Head(r.interfaces[host_side].frames_out)
           v == [r EXCEPT !.interfaces[host_side].frames_out = Tail(@)]
<1>1. PICK c, e : r = Rt(s, c, e) /\ Ports(s, B, c, e) /\ WellAsked(c, t) /\ WellAsked(e, t)
  BY Zenon DEF RouterOK
<1>2. r.interfaces[host_side] = c
  BY <1>1 DEF Rt, host_side
<1>3. v = Rt(s, Drop(c), e)
  <2>1. v = [r EXCEPT !.interfaces[1] = Drop(c)]
    BY Zenon, <1>2 DEF Drop, host_side
  <2>2. \A z : [Rt(s, c, e) EXCEPT !.interfaces[1] = z] = Rt(s, z, e)
    BY DEF Rt
  <2> QED BY Zenon, <1>1, <2>1, <2>2
<1>4. /\ c \in Interfaces(HostSide(s), HostIP(s), {HostIP(s)}, Dg(Peer(s)))
      /\ e \in Interfaces(InternetSide(s), InternetSide(Peer(s)), B, Dg(s))
      /\ c.frames_out # <<>> /\ B \in SUBSET {InternetSide(Peer(s))}
  BY Zenon, <1>1, <1>2 DEF Ports
<1>5. Dropped(c, HostSide(s), HostIP(s), {HostIP(s)}, Dg(Peer(s)))
  BY ONLY Zenon, <1>4, DropOK
<1>6. f \in F /\ q \in Seq(F) /\ f = Head(c.frames_out)
  BY Zenon, <1>2, <1>5 DEF Dropped, Down
<1> HIDE DEF F, f, v
<1>7. Append(q, f) \in Seq(F)
  BY <1>6
<1>8. RouterOK(s, B, t, v)
  <2>1. Ports(s, B, Drop(c), e)
    BY Zenon, <1>4, <1>5 DEF Ports, Dropped
  <2>2. WellAsked(Drop(c), t)
    BY Zenon, <1>1, <1>5 DEF Dropped
  <2> QED BY Zenon, <1>1, <1>3, <2>1, <2>2 DEF RouterOK
<1>9. ASSUME NEW E PROVE Held(v, E) + Under(Append(q, f), E) = Held(r, E) + Under(q, E)
  <2> DEFINE i == Load(Drop(c), E)
             j == Load(e, E)
             o == One(f \in Carrying(E))
             u == Under(q, E)
  <2>1. /\ Held(v, E) = i + j
        /\ Held(r, E) = Load(c, E) + j
    <3>1. Held(Rt(s, Drop(c), e), E) = Load(Drop(c), E) + Load(e, E)
      BY ONLY HeldOK
    <3>2. Held(Rt(s, c, e), E) = Load(c, E) + Load(e, E)
      BY ONLY HeldOK
    <3> QED BY Zenon, <1>1, <1>3, <3>1, <3>2
  <2>2. Load(c, E) = i + o
    BY Zenon, <1>5, <1>6 DEF Dropped
  <2>3. Under(Append(q, f), E) = u + o
    BY ONLY Zenon, <1>6, CountAppend DEF Under, u, o
  <2>4. i \in Nat
    <3>1. Drop(c) \in Interfaces(HostSide(s), HostIP(s), {HostIP(s)}, Dg(Peer(s)))
      BY Zenon, <1>5 DEF Dropped
    <3> QED BY ONLY Zenon, <3>1, LoadType DEF i
  <2>5. j \in Nat
    BY ONLY Zenon, <1>4, LoadType DEF j
  <2>6. o \in Nat /\ u \in Nat
    BY ONLY Zenon, <1>6, OneType, CountType DEF Under, o, u
  <2> HIDE DEF i, j, o, u
  <2>7. (i + j) + (u + o) = ((i + o) + j) + u
    BY <2>4, <2>5, <2>6
  <2> QED BY Zenon, <2>1, <2>2, <2>3, <2>7 DEF u
<1> QED BY Zenon, <1>7, <1>8, <1>9 DEF Gave, F, f, v

\* That to the other site, where the first datagrams were empty.
LEMMA OutOK ==
  ASSUME NEW s \in Sites, NEW B, NEW t, NEW r, RouterOK(s, B, t, r), NEW q \in Seq(Out(s, B) \cup {Hello}),
         r.interfaces[internet_side].frames_out # <<>>
  PROVE  Gave(s, B, t, r, [r EXCEPT !.interfaces[internet_side].frames_out = Tail(@)], q,
              Head(r.interfaces[internet_side].frames_out), Out(s, B) \cup {Hello})
<1> DEFINE F == Out(s, B) \cup {Hello}
           f == Head(r.interfaces[internet_side].frames_out)
           v == [r EXCEPT !.interfaces[internet_side].frames_out = Tail(@)]
<1>1. PICK c, e : r = Rt(s, c, e) /\ Ports(s, B, c, e) /\ WellAsked(c, t) /\ WellAsked(e, t)
  BY Zenon DEF RouterOK
<1>2. r.interfaces[internet_side] = e
  BY <1>1 DEF Rt, internet_side
<1>3. v = Rt(s, c, Drop(e))
  <2>1. v = [r EXCEPT !.interfaces[2] = Drop(e)]
    BY Zenon, <1>2 DEF Drop, internet_side
  <2>2. \A z : [Rt(s, c, e) EXCEPT !.interfaces[2] = z] = Rt(s, c, z)
    BY DEF Rt
  <2> QED BY Zenon, <1>1, <2>1, <2>2
<1>4. /\ c \in Interfaces(HostSide(s), HostIP(s), {HostIP(s)}, Dg(Peer(s)))
      /\ e \in Interfaces(InternetSide(s), InternetSide(Peer(s)), B, Dg(s))
      /\ e.frames_out # <<>> /\ B \in SUBSET {InternetSide(Peer(s))}
  BY Zenon, <1>1, <1>2 DEF Ports
<1>5. Dropped(e, InternetSide(s), InternetSide(Peer(s)), B, Dg(s))
  BY ONLY Zenon, <1>4, DropOK
<1>6. f \in F /\ q \in Seq(F) /\ f = Head(e.frames_out)
  BY Zenon, <1>2, <1>5 DEF Dropped, Out
<1> HIDE DEF F, f, v
<1>7. Append(q, f) \in Seq(F)
  BY <1>6
<1>8. RouterOK(s, B, t, v)
  <2>1. Ports(s, B, c, Drop(e))
    BY Zenon, <1>4, <1>5 DEF Ports, Dropped
  <2>2. WellAsked(Drop(e), t)
    BY Zenon, <1>1, <1>5 DEF Dropped
  <2> QED BY Zenon, <1>1, <1>3, <2>1, <2>2 DEF RouterOK
<1>9. ASSUME NEW E PROVE Held(v, E) + Under(Append(q, f), E) = Held(r, E) + Under(q, E)
  <2> DEFINE i == Load(Drop(e), E)
             j == Load(c, E)
             o == One(f \in Carrying(E))
             u == Under(q, E)
  <2>1. /\ Held(v, E) = j + i
        /\ Held(r, E) = j + Load(e, E)
    <3>1. Held(Rt(s, c, Drop(e)), E) = Load(c, E) + Load(Drop(e), E)
      BY ONLY HeldOK
    <3>2. Held(Rt(s, c, e), E) = Load(c, E) + Load(e, E)
      BY ONLY HeldOK
    <3> QED BY Zenon, <1>1, <1>3, <3>1, <3>2
  <2>2. Load(e, E) = i + o
    BY Zenon, <1>5, <1>6 DEF Dropped
  <2>3. Under(Append(q, f), E) = u + o
    BY ONLY Zenon, <1>6, CountAppend DEF Under, u, o
  <2>4. i \in Nat
    <3>1. Drop(e) \in Interfaces(InternetSide(s), InternetSide(Peer(s)), B, Dg(s))
      BY Zenon, <1>5 DEF Dropped
    <3> QED BY ONLY Zenon, <3>1, LoadType DEF i
  <2>5. j \in Nat
    BY ONLY Zenon, <1>4, LoadType DEF j
  <2>6. o \in Nat /\ u \in Nat
    BY ONLY Zenon, <1>6, OneType, CountType DEF Under, o, u
  <2> HIDE DEF i, j, o, u
  <2>7. (j + i) + (u + o) = (j + (i + o)) + u
    BY <2>4, <2>5, <2>6
  <2> QED BY Zenon, <2>1, <2>2, <2>3, <2>7 DEF u
<1> QED BY Zenon, <1>7, <1>8, <1>9 DEF Gave, F, f, v

\* The frames that can be sent when more has been heard of.
LEMMA MoreFrames ==
  ASSUME NEW a, NEW B, NEW C, B \subseteq C, NEW D
  PROVE  Frames(a, B, D) \subseteq Frames(a, C, D)
<1>1. {Eth(x) : x \in B} \subseteq {Eth(x) : x \in C}
  BY Zenon
<1>2. DataFrames(a, B, D) \subseteq DataFrames(a, C, D)
  BY <1>1 DEF DataFrames
<1> QED BY Zenon, <1>2 DEF Frames

\* The lists of them.
LEMMA MoreLists ==
  ASSUME NEW S, NEW T, S \subseteq T, NEW q \in Seq(S)
  PROVE  q \in Seq(T)
OBVIOUS

\* The interfaces.
LEMMA MoreCards ==
  ASSUME NEW a, NEW b, NEW B, NEW C, B \subseteq C, NEW D, NEW n \in Interfaces(a, b, B, D)
  PROVE  n \in Interfaces(a, b, C, D)
<1>1. n.frames_out \in Seq(Frames(a, B, D)) /\ n.map \in Maps(b, B)
  BY InterfaceFields
<1>2. Frames(a, B, D) \subseteq Frames(a, C, D)
  BY Zenon, MoreFrames
<1>3. n.frames_out \in Seq(Frames(a, C, D))
  BY ONLY Zenon, <1>1, <1>2, MoreLists
<1>4. n.map \in Maps(b, C)
  BY Zenon, <1>1 DEF Maps
<1> QED BY <1>3, <1>4 DEF Interfaces

\* The routers.
LEMMA MoreRouters ==
  ASSUME NEW s \in Sites, NEW B, NEW C, B \subseteq C, C \in SUBSET {InternetSide(Peer(s))},
         NEW t, NEW r, RouterOK(s, B, t, r)
  PROVE  RouterOK(s, C, t, r)
<1>1. PICK c, e : r = Rt(s, c, e) /\ Ports(s, B, c, e) /\ WellAsked(c, t) /\ WellAsked(e, t)
  BY Zenon DEF RouterOK
<1>2. e \in Interfaces(InternetSide(s), InternetSide(Peer(s)), B, Dg(s))
  BY Zenon, <1>1 DEF Ports
<1>3. e \in Interfaces(InternetSide(s), InternetSide(Peer(s)), C, Dg(s))
  BY Zenon, <1>2, MoreCards
<1>4. Ports(s, C, c, e)
  BY Zenon, <1>1, <1>3 DEF Ports
<1> QED BY Zenon, <1>1, <1>4 DEF RouterOK

\* What the relay does not pass on has no datagram in it.
LEMMA CarriesNothing ==
  ASSUME NEW s \in Sites, NEW B, NEW f \in Out(s, B) \cup {Hello}, f = Hello \/ B = {}, NEW E
  PROVE  f \notin Carrying(E)
<1>1. CASE f = Hello
  <2>1. \A g \in Carrying(E) : g.type = "IPv4" /\ DOMAIN g = {"src", "dst", "type", "payload"}
    BY DEF Carrying
  <2>2. DOMAIN <<>> # {"src", "dst", "type", "payload"}
    OBVIOUS
  <2> QED BY Zenon, <1>1, <2>1, <2>2 DEF Hello
<1>2. CASE f # Hello
  <2> DEFINE a == InternetSide(s)
  <2>1. B = {} /\ f \in Frames(a, B, Dg(s))
    BY Zenon, <1>2 DEF Out
  <2>2. f \notin DataFrames(a, B, Dg(s))
    BY <2>1 DEF DataFrames
  <2>3. f \in ArpFrames(a) \cup BlankFrames(a)
    BY Zenon, <2>1, <2>2 DEF Frames
  <2>4. Link(a, a, B)
    BY <2>1, SiteFacts DEF Link
  <2> HIDE DEF a
  <2> QED BY ONLY Zenon, <2>3, <2>4, WhatCarries
<1> QED BY Zenon, <1>1, <1>2

\* Time passes for the host.
HostAged(s, t, h) ==
    /\ HostOK(s, t, tick_interface(h, 1))
    /\ \A E : Load(tick_interface(h, 1), E) = Load(h, E)

\* Nothing else happens.
LEMMA HostTickOK ==
  ASSUME NEW s \in Sites, NEW t \in Int, NEW h, HostOK(s, t, h)
  PROVE  HostAged(s, t, h)
<1> DEFINE a == HostIP(s)
           b == HostSide(s)
           B == {HostSide(s)}
           D == Dg(s)
<1>1. h \in Interfaces(a, b, B, D) /\ h.frames_out = <<>> /\ WellAsked(h, t)
  BY Zenon DEF HostOK
<1>2. Link(a, b, B)
  <2>1. a \in Int /\ b \in Int
    BY Zenon, SiteFacts
  <2> QED BY Zenon, <2>1 DEF Link
<1> HIDE DEF a, b, B, D
<1>3. Aged(h, tick_interface(h, 1), a, b, B, D)
  BY ONLY Zenon, <1>1, <1>2, TickOK
<1> QED BY Zenon, <1>1, <1>3 DEF HostAged, HostOK, Aged, NoMore, a, b, B, D

\* And for a router.
TickRouter(r) == [r EXCEPT !.interfaces = [i \in DOMAIN @ |-> tick_interface(@[i], 1)]]
RouterAged(s, B, t, r) ==
    RouterOK(s, B, t, TickRouter(r)) /\ \A E : Held(TickRouter(r), E) = Held(r, E)

\* Nothing else happens.
LEMMA RouterTickOK ==
  ASSUME NEW s \in Sites, NEW B, NEW t \in Int, NEW r, RouterOK(s, B, t, r)
  PROVE  RouterAged(s, B, t, r)
<1>1. PICK c, e : r = Rt(s, c, e) /\ Ports(s, B, c, e) /\ WellAsked(c, t) /\ WellAsked(e, t)
  BY Zenon DEF RouterOK
<1> DEFINE h == HostSide(s)
           hp == HostIP(s)
           i == InternetSide(s)
           ip == InternetSide(Peer(s))
           D == Dg(s)
           G == Dg(Peer(s))
           x == tick_interface(c, 1)
           y == tick_interface(e, 1)
<1>2. c \in Interfaces(h, hp, {hp}, G) /\ e \in Interfaces(i, ip, B, D) /\ B \in SUBSET {ip}
  BY Zenon, <1>1 DEF Ports
<1>3. Link(h, hp, {hp}) /\ Link(i, ip, B)
  <2>1. h \in Int /\ hp \in Int /\ i \in Int /\ ip \in Int
    BY Zenon, SiteFacts
  <2> QED BY Zenon, <1>2, <2>1 DEF Link
<1>4. TickRouter(r) = Rt(s, x, y)
  <2> HIDE DEF x, y
  <2>1. r.interfaces = <<c, e>> /\ DOMAIN <<c, e>> = {1, 2} /\ <<c, e>>[1] = c /\ <<c, e>>[2] = e
    BY <1>1 DEF Rt
  <2>3. [j \in {1, 2} |-> tick_interface(<<c, e>>[j], 1)] = <<x, y>>
    BY <2>1 DEF x, y
  <2>4. TickRouter(r) = [r EXCEPT !.interfaces = <<x, y>>]
    BY Zenon, <2>1, <2>3 DEF TickRouter
  <2> QED BY <1>1, <2>4 DEF Rt
<1> HIDE DEF h, hp, i, ip, D, G
<1>5. Aged(c, x, h, hp, {hp}, G) /\ Aged(e, y, i, ip, B, D)
  BY ONLY Zenon, <1>2, <1>3, TickOK
<1> HIDE DEF x, y
<1>6. RouterOK(s, B, t, TickRouter(r))
  <2>1. Ports(s, B, x, y)
    BY Zenon, <1>2, <1>5 DEF Ports, Aged, h, hp, i, ip, D, G
  <2>2. WellAsked(x, t) /\ WellAsked(y, t)
    BY Zenon, <1>1, <1>5 DEF Aged
  <2> QED BY Zenon, <1>4, <2>1, <2>2 DEF RouterOK
<1>7. ASSUME NEW E PROVE Held(TickRouter(r), E) = Held(r, E)
  <2>1. Held(Rt(s, x, y), E) = Load(x, E) + Load(y, E)
    BY ONLY HeldOK
  <2>2. Held(Rt(s, c, e), E) = Load(c, E) + Load(e, E)
    BY ONLY HeldOK
  <2> QED BY Zenon, <1>1, <1>4, <1>5, <2>1, <2>2 DEF Aged, NoMore
<1> QED BY Zenon, <1>6, <1>7 DEF RouterAged

-----------------------------------------------------------------------------
(* The invariant. *)

\* What the router of a site can have heard of, once the relay knows the sites of P: before it
\* knows the other one it passes nothing on to that one, which therefore answers nothing.
Heard(s, P) == IF Peer(s) \in P THEN {InternetSide(Peer(s))} ELSE {}

SiteOK(s, P, t, h, r, up, down, out, in, g, n) ==
    /\ HostOK(s, t, h) /\ RouterOK(s, Heard(s, P), t, r)
    /\ up \in Seq(Up(s)) /\ down \in Seq(Down(s))
    /\ out \in Seq(Out(s, Heard(s, P)) \cup {Hello})
    /\ in \in Seq(Out(Peer(s), {InternetSide(s)})) /\ (in # <<>> => Peer(s) \in P)
    /\ g \in Seq(Dg(Peer(s))) /\ n \in Nat

NetInv ==
    /\ behind \in Int
    /\ DOMAIN host = Sites /\ DOMAIN router = Sites
    /\ DOMAIN to_router = Sites /\ DOMAIN to_host = Sites
    /\ DOMAIN to_relay = Sites /\ DOMAIN from_relay = Sites
    /\ DOMAIN got = Sites /\ DOMAIN sent = Sites
    /\ \A s \in Sites : SiteOK(s, peers, behind, host[s], router[s], to_router[s], to_host[s],
                               to_relay[s], from_relay[s], got[s], sent[s])

\* The sum of CopiesAt, with the two interfaces of the router together.
Total(h, r, up, down, out, in, g, E) ==
    (((((Load(h, E) + Held(r, E)) + Under(up, E)) + Under(down, E)) + Under(out, E))
     + Under(in, E)) + Count(g, E)

\* Its summands are numbers.
Summed(h, r, up, down, out, in, g, E) ==
    /\ Load(h, E) \in Nat /\ Held(r, E) \in Nat /\ Under(up, E) \in Nat /\ Under(down, E) \in Nat
    /\ Under(out, E) \in Nat /\ Under(in, E) \in Nat /\ Count(g, E) \in Nat
    /\ Load(r.interfaces[host_side], E) \in Nat /\ Load(r.interfaces[internet_side], E) \in Nat

\* The number of datagrams in every list and queue of a site is a natural number.
LEMMA SumType ==
  ASSUME NEW s, NEW P, NEW t, NEW h, NEW r, NEW up, NEW down, NEW out, NEW in, NEW g, NEW n,
         SiteOK(s, P, t, h, r, up, down, out, in, g, n), NEW E
  PROVE  Summed(h, r, up, down, out, in, g, E)
<1>1. Load(h, E) \in Nat
  <2>1. h \in Interfaces(HostIP(s), HostSide(s), {HostSide(s)}, Dg(s))
    BY Zenon DEF SiteOK, HostOK
  <2> QED BY ONLY Zenon, <2>1, LoadType
<1>2. /\ Load(r.interfaces[host_side], E) \in Nat /\ Load(r.interfaces[internet_side], E) \in Nat
      /\ Held(r, E) \in Nat
  <2>1. PICK c, e : r = Rt(s, c, e) /\ Ports(s, Heard(s, P), c, e)
    BY Zenon DEF SiteOK, RouterOK
  <2>2. /\ c \in Interfaces(HostSide(s), HostIP(s), {HostIP(s)}, Dg(Peer(s)))
        /\ e \in Interfaces(InternetSide(s), InternetSide(Peer(s)), Heard(s, P), Dg(s))
    BY Zenon, <2>1 DEF Ports
  <2>3. Load(c, E) \in Nat /\ Load(e, E) \in Nat
    BY ONLY Zenon, <2>2, LoadType
  <2>4. r.interfaces[host_side] = c /\ r.interfaces[internet_side] = e
    BY <2>1 DEF Rt, host_side, internet_side
  <2> QED BY <2>3, <2>4 DEF Held
<1>3. Under(up, E) \in Nat
  <2>1. up \in Seq(Up(s))
    BY Zenon DEF SiteOK
  <2> QED BY ONLY Zenon, <2>1, CountType DEF Under
<1>4. Under(down, E) \in Nat
  <2>1. down \in Seq(Down(s))
    BY Zenon DEF SiteOK
  <2> QED BY ONLY Zenon, <2>1, CountType DEF Under
<1>5. Under(out, E) \in Nat
  <2>1. out \in Seq(Out(s, Heard(s, P)) \cup {Hello})
    BY Zenon DEF SiteOK
  <2> QED BY ONLY Zenon, <2>1, CountType DEF Under
<1>6. Under(in, E) \in Nat
  <2>1. in \in Seq(Out(Peer(s), {InternetSide(s)}))
    BY Zenon DEF SiteOK
  <2> QED BY ONLY Zenon, <2>1, CountType DEF Under
<1>7. Count(g, E) \in Nat
  <2>1. g \in Seq(Dg(Peer(s)))
    BY Zenon DEF SiteOK
  <2> QED BY ONLY Zenon, <2>1, CountType
<1> QED BY Zenon, <1>1, <1>2, <1>3, <1>4, <1>5, <1>6, <1>7 DEF Summed

\* The sum is the one of CopiesAt.
SumIs(h, r, up, down, out, in, g, E) ==
    /\ Total(h, r, up, down, out, in, g, E) \in Nat
    /\ Load(h, E) + Load(r.interfaces[host_side], E) + Load(r.interfaces[internet_side], E)
       + Count(up, Carrying(E)) + Count(down, Carrying(E)) + Count(out, Carrying(E))
       + Count(in, Carrying(E)) + Count(g, E)
       = Total(h, r, up, down, out, in, g, E)

\* CopiesAt, which adds the two interfaces of the router one by one, is Total.
LEMMA SumOK ==
  ASSUME NEW h, NEW r, NEW up, NEW down, NEW out, NEW in, NEW g, NEW E,
         Summed(h, r, up, down, out, in, g, E)
  PROVE  SumIs(h, r, up, down, out, in, g, E)
<1> DEFINE a == Load(h, E)
           b == Load(r.interfaces[host_side], E)
           c == Load(r.interfaces[internet_side], E)
           i == Under(up, E)
           j == Under(down, E)
           k == Under(out, E)
           l == Under(in, E)
           m == Count(g, E)
<1>1. /\ a \in Nat /\ b \in Nat /\ c \in Nat /\ i \in Nat /\ j \in Nat /\ k \in Nat
      /\ l \in Nat /\ m \in Nat
  BY Zenon DEF Summed
<1>2. Total(h, r, up, down, out, in, g, E) = (((((a + (b + c)) + i) + j) + k) + l) + m
  BY Zenon DEF Total, Held
<1>3. /\ Count(up, Carrying(E)) = i /\ Count(down, Carrying(E)) = j
      /\ Count(out, Carrying(E)) = k /\ Count(in, Carrying(E)) = l
  BY Zenon DEF Under
<1> HIDE DEF a, b, c, i, j, k, l, m
<1>4. /\ (((((a + (b + c)) + i) + j) + k) + l) + m \in Nat
      /\ a + b + c + i + j + k + l + m = (((((a + (b + c)) + i) + j) + k) + l) + m
  BY <1>1
<1> QED BY Zenon, <1>2, <1>3, <1>4 DEF a, b, c, i, j, k, l, m, SumIs

\* What has not changed at the other site.
Apart(f, g, s) == DOMAIN g = Sites /\ g[Peer(s)] = f[Peer(s)]

\* A function changed at site s.
LEMMA ExceptAt ==
  ASSUME NEW s \in Sites, NEW f, DOMAIN f = Sites, NEW x
  PROVE  Apart(f, [f EXCEPT ![s] = x], s) /\ [f EXCEPT ![s] = x][s] = x
<1>1. Peer(s) \in Sites /\ Peer(s) # s
  BY Zenon, SiteFacts
<1> QED BY <1>1 DEF Apart

\* A step at site s only.
Local(s) ==
    /\ behind' = behind /\ peers' = peers
    /\ Apart(host, host', s) /\ Apart(router, router', s)
    /\ Apart(to_router, to_router', s) /\ Apart(to_host, to_host', s)
    /\ Apart(to_relay, to_relay', s) /\ Apart(from_relay, from_relay', s)
    /\ Apart(got, got', s) /\ Apart(sent, sent', s)

\* It adds the datagrams of X.
Adds(X) == \A E : Copies(E)' = Copies(E) + One(X \cap E # {})

\* The sums of the two sites.
LEMMA CopiesOK ==
  ASSUME NetInv, NEW s \in Sites, NEW E
  PROVE  /\ SumIs(host[s], router[s], to_router[s], to_host[s], to_relay[s], from_relay[s],
                  got[s], E)
         /\ SumIs(host'[s], router'[s], to_router'[s], to_host'[s], to_relay'[s],
                  from_relay'[s], got'[s], E)
            => CopiesAt(s, E)' = Total(host'[s], router'[s], to_router'[s], to_host'[s],
                                       to_relay'[s], from_relay'[s], got'[s], E)
         /\ CopiesAt(s, E) = Total(host[s], router[s], to_router[s], to_host[s], to_relay[s],
                                   from_relay[s], got[s], E)
<1>1. Summed(host[s], router[s], to_router[s], to_host[s], to_relay[s], from_relay[s], got[s], E)
  BY Zenon, SumType DEF NetInv
<1>2. SumIs(host[s], router[s], to_router[s], to_host[s], to_relay[s], from_relay[s], got[s], E)
  BY Zenon, <1>1, SumOK
<1> QED BY Zenon, <1>2 DEF SumIs, CopiesAt

\* What a step at one site does to all.
LEMMA StepAt ==
  ASSUME NetInv, NEW s \in Sites, Local(s), NEW X,
         SiteOK(s, peers, behind, host'[s], router'[s], to_router'[s], to_host'[s], to_relay'[s],
                from_relay'[s], got'[s], sent'[s]),
         \A E : Total(host'[s], router'[s], to_router'[s], to_host'[s], to_relay'[s],
                      from_relay'[s], got'[s], E)
                = Total(host[s], router[s], to_router[s], to_host[s], to_relay[s],
                        from_relay[s], got[s], E) + One(X \cap E # {})
  PROVE  NetInv' /\ Adds(X)
<1> DEFINE p == Peer(s)
<1>1. p \in Sites /\ Sites = {s, p}
  BY Zenon, SiteFacts
<1>2. /\ host'[p] = host[p] /\ router'[p] = router[p] /\ to_router'[p] = to_router[p]
      /\ to_host'[p] = to_host[p] /\ to_relay'[p] = to_relay[p] /\ from_relay'[p] = from_relay[p]
      /\ got'[p] = got[p] /\ sent'[p] = sent[p]
  BY Zenon DEF Local, Apart
<1>3. SiteOK(p, peers, behind, host[p], router[p], to_router[p], to_host[p], to_relay[p],
             from_relay[p], got[p], sent[p])
  BY Zenon, <1>1 DEF NetInv
<1> HIDE DEF p
<1>4. NetInv'
  <2>1. \A x \in Sites : SiteOK(x, peers', behind', host'[x], router'[x], to_router'[x], to_host'[x],
                                to_relay'[x], from_relay'[x], got'[x], sent'[x])
    <3>1. behind' = behind /\ peers' = peers
      BY Zenon DEF Local
    <3>2. SiteOK(p, peers', behind', host'[p], router'[p], to_router'[p], to_host'[p],
                 to_relay'[p], from_relay'[p], got'[p], sent'[p])
      BY Zenon, <1>2, <1>3, <3>1
    <3>3. SiteOK(s, peers', behind', host'[s], router'[s], to_router'[s], to_host'[s],
                 to_relay'[s], from_relay'[s], got'[s], sent'[s])
      BY Zenon, <3>1
    <3> QED BY Zenon, <1>1, <3>2, <3>3
  <2> QED BY Zenon, <2>1 DEF NetInv, Local, Apart
<1>5. ASSUME NEW E PROVE Copies(E)' = Copies(E) + One(X \cap E # {})
  <2> DEFINE i == CopiesAt(s, E)
             j == CopiesAt(p, E)
             o == One(X \cap E # {})
  <2>1. /\ i = Total(host[s], router[s], to_router[s], to_host[s], to_relay[s],
                     from_relay[s], got[s], E)
        /\ i \in Nat
    <3>1. SumIs(host[s], router[s], to_router[s], to_host[s], to_relay[s], from_relay[s],
                got[s], E)
      BY Zenon, CopiesOK
    <3>2. i = Total(host[s], router[s], to_router[s], to_host[s], to_relay[s],
                    from_relay[s], got[s], E)
      BY Zenon, CopiesOK
    <3> QED BY Zenon, <3>1, <3>2 DEF SumIs
  <2>2. /\ j = Total(host[p], router[p], to_router[p], to_host[p], to_relay[p],
                     from_relay[p], got[p], E)
        /\ j \in Nat
    <3>1. SumIs(host[p], router[p], to_router[p], to_host[p], to_relay[p], from_relay[p],
                got[p], E)
      BY Zenon, <1>1, CopiesOK
    <3>2. j = Total(host[p], router[p], to_router[p], to_host[p], to_relay[p],
                    from_relay[p], got[p], E)
      BY Zenon, <1>1, CopiesOK
    <3> QED BY Zenon, <3>1, <3>2 DEF SumIs
  <2>3. i' = i + o
    <3>1. Summed(host'[s], router'[s], to_router'[s], to_host'[s], to_relay'[s], from_relay'[s],
                 got'[s], E)
      BY Zenon, SumType
    <3>2. SumIs(host'[s], router'[s], to_router'[s], to_host'[s], to_relay'[s], from_relay'[s],
                got'[s], E)
      BY Zenon, <3>1, SumOK
    <3>3. i' = Total(host'[s], router'[s], to_router'[s], to_host'[s], to_relay'[s],
                     from_relay'[s], got'[s], E)
      BY Zenon, <3>2, CopiesOK
    <3> QED BY Zenon, <2>1, <3>3
  <2>4. j' = j
    BY Zenon, <1>2 DEF CopiesAt
  <2>5. o \in Nat
    BY Zenon, OneType
  <2>6. \/ Copies(E) = i + j /\ Copies(E)' = i' + j'
        \/ Copies(E) = j + i /\ Copies(E)' = j' + i'
    <3>1. \/ s = Client /\ p = Server
          \/ s = Server /\ p = Client
      BY Zenon, Lab7Assumption DEF p, Peer, Sites
    <3> QED BY Zenon, <3>1 DEF Copies
  <2> HIDE DEF i, j, o
  <2>7. (i + o) + j = (i + j) + o /\ j + (i + o) = (j + i) + o
    BY <2>1, <2>2, <2>5
  <2> QED BY Zenon, <2>3, <2>4, <2>6, <2>7 DEF o
<1> QED BY Zenon, <1>4, <1>5 DEF Adds

-----------------------------------------------------------------------------
(* The steps. *)

\* The router takes a frame of the host.
LEMMA HostToRouterStep ==
  ASSUME NetInv, NEW s \in Sites, HostToRouter(s)
  PROVE  NetInv' /\ Adds({})
<1> DEFINE v == Accepted(router[s], host_side, Head(to_router[s]))
<1>1. SiteOK(s, peers, behind, host[s], router[s], to_router[s], to_host[s], to_relay[s],
             from_relay[s], got[s], sent[s])
  BY Zenon DEF NetInv
<1>2. /\ Apart(router, router', s) /\ router'[s] = v
      /\ Apart(to_router, to_router', s) /\ to_router'[s] = Tail(to_router[s])
  <2>1. DOMAIN router = Sites /\ DOMAIN to_router = Sites
    BY Zenon DEF NetInv
  <2>2. /\ router' = [router EXCEPT ![s] = v]
        /\ to_router' = [to_router EXCEPT ![s] = Tail(to_router[s])]
    BY Zenon DEF HostToRouter
  <2> HIDE DEF v
  <2>3. Apart(router, router', s) /\ router'[s] = v
    BY ONLY Zenon, <2>1, <2>2, ExceptAt, s \in Sites
  <2>4. Apart(to_router, to_router', s) /\ to_router'[s] = Tail(to_router[s])
    BY ONLY Zenon, <2>1, <2>2, ExceptAt, s \in Sites
  <2> QED BY Zenon, <2>3, <2>4
<1>3. /\ Apart(host, host', s) /\ host'[s] = host[s]
      /\ Apart(to_host, to_host', s) /\ to_host'[s] = to_host[s]
      /\ Apart(to_relay, to_relay', s) /\ to_relay'[s] = to_relay[s]
      /\ Apart(from_relay, from_relay', s) /\ from_relay'[s] = from_relay[s]
      /\ Apart(got, got', s) /\ got'[s] = got[s]
      /\ Apart(sent, sent', s) /\ sent'[s] = sent[s]
      /\ behind' = behind /\ peers' = peers
  BY Zenon DEF NetInv, Apart, HostToRouter
<1>4. Local(s)
  BY Zenon, <1>2, <1>3 DEF Local
<1>5. Took1(s, Heard(s, peers), behind, router[s], v, to_router[s], Up(s))
  <2>1. /\ RouterOK(s, Heard(s, peers), behind, router[s]) /\ to_router[s] \in Seq(Up(s))
        /\ to_router[s] # <<>> /\ behind \in Int
    BY Zenon, <1>1 DEF SiteOK, NetInv, HostToRouter
  <2> QED BY ONLY Zenon, <2>1, s \in Sites, UpOK DEF v
<1> HIDE DEF v
<1>6. SiteOK(s, peers, behind, host'[s], router'[s], to_router'[s], to_host'[s], to_relay'[s],
             from_relay'[s], got'[s], sent'[s])
  BY Zenon, <1>1, <1>2, <1>3, <1>5 DEF SiteOK, Took1
<1>7. ASSUME NEW E
      PROVE  Total(host'[s], router'[s], to_router'[s], to_host'[s], to_relay'[s],
                   from_relay'[s], got'[s], E)
             = Total(host[s], router[s], to_router[s], to_host[s], to_relay[s],
                     from_relay[s], got[s], E) + One({} \cap E # {})
  <2> DEFINE a == Load(host[s], E)
             b == Held(router[s], E)
             c == Under(to_router[s], E)
             d == Under(to_host[s], E)
             e == Under(to_relay[s], E)
             f == Under(from_relay[s], E)
             g == Count(got[s], E)
             b2 == Held(router'[s], E)
             c2 == Under(to_router'[s], E)
             x == One({} \cap E # {})
  <2>1. Summed(host[s], router[s], to_router[s], to_host[s], to_relay[s], from_relay[s], got[s], E)
    BY Zenon, <1>1, SumType
  <2>2. Summed(host'[s], router'[s], to_router'[s], to_host'[s], to_relay'[s], from_relay'[s],
               got'[s], E)
    BY Zenon, <1>6, SumType
  <2>3. a \in Nat /\ b \in Nat /\ c \in Nat /\ d \in Nat /\ e \in Nat /\ f \in Nat /\ g \in Nat
    BY Zenon, <2>1 DEF Summed
  <2>4. b2 \in Nat /\ c2 \in Nat
    BY Zenon, <2>2 DEF Summed
  <2>5. b2 + c2 = b + c
    BY Zenon, <1>2, <1>5 DEF Took1
  <2>6. x = 0
    <3>1. ~({} \cap E # {})
      BY Zenon
    <3> QED BY Zenon, <3>1 DEF One
  <2>7. /\ Total(host[s], router[s], to_router[s], to_host[s], to_relay[s], from_relay[s], got[s], E)
           = (((((a + b) + c) + d) + e) + f) + g
        /\ Total(host'[s], router'[s], to_router'[s], to_host'[s], to_relay'[s], from_relay'[s],
                 got'[s], E)
           = (((((a + b2) + c2) + d) + e) + f) + g
    BY Zenon, <1>3 DEF Total
  <2> HIDE DEF a, b, c, d, e, f, g, b2, c2, x
  <2>9. (((((a + b2) + c2) + d) + e) + f) + g = ((((((a + b) + c) + d) + e) + f) + g) + x
    BY <2>3, <2>4, <2>5, <2>6
  <2> QED BY Zenon, <2>7, <2>9 DEF x
<1> QED BY Zenon, <1>4, <1>6, <1>7, StepAt

\* The router takes a frame of the other site.
LEMMA InternetToRouterStep ==
  ASSUME NetInv, NEW s \in Sites, InternetToRouter(s)
  PROVE  NetInv' /\ Adds({})
<1> DEFINE v == Accepted(router[s], internet_side, Head(from_relay[s]))
<1>1. SiteOK(s, peers, behind, host[s], router[s], to_router[s], to_host[s], to_relay[s],
             from_relay[s], got[s], sent[s])
  BY Zenon DEF NetInv
<1>2. /\ Apart(router, router', s) /\ router'[s] = v
      /\ Apart(from_relay, from_relay', s) /\ from_relay'[s] = Tail(from_relay[s])
  <2>1. DOMAIN router = Sites /\ DOMAIN from_relay = Sites
    BY Zenon DEF NetInv
  <2>2. /\ router' = [router EXCEPT ![s] = v]
        /\ from_relay' = [from_relay EXCEPT ![s] = Tail(from_relay[s])]
    BY Zenon DEF InternetToRouter
  <2> HIDE DEF v
  <2>3. Apart(router, router', s) /\ router'[s] = v
    BY ONLY Zenon, <2>1, <2>2, ExceptAt, s \in Sites
  <2>4. Apart(from_relay, from_relay', s) /\ from_relay'[s] = Tail(from_relay[s])
    BY ONLY Zenon, <2>1, <2>2, ExceptAt, s \in Sites
  <2> QED BY Zenon, <2>3, <2>4
<1>3. /\ Apart(host, host', s) /\ host'[s] = host[s]
      /\ Apart(to_router, to_router', s) /\ to_router'[s] = to_router[s]
      /\ Apart(to_host, to_host', s) /\ to_host'[s] = to_host[s]
      /\ Apart(to_relay, to_relay', s) /\ to_relay'[s] = to_relay[s]
      /\ Apart(got, got', s) /\ got'[s] = got[s]
      /\ Apart(sent, sent', s) /\ sent'[s] = sent[s]
      /\ behind' = behind /\ peers' = peers
  BY Zenon DEF NetInv, Apart, InternetToRouter
<1>4. Local(s)
  BY Zenon, <1>2, <1>3 DEF Local
<1>5. Took1(s, Heard(s, peers), behind, router[s], v, from_relay[s], Out(Peer(s), {InternetSide(s)}))
  <2>1. /\ RouterOK(s, Heard(s, peers), behind, router[s])
        /\ from_relay[s] \in Seq(Out(Peer(s), {InternetSide(s)}))
        /\ from_relay[s] # <<>> /\ behind \in Int /\ Peer(s) \in peers
    BY Zenon, <1>1 DEF SiteOK, NetInv, InternetToRouter
  <2>2. InternetSide(Peer(s)) \in Heard(s, peers)
    BY Zenon, <2>1 DEF Heard
  <2> QED BY ONLY Zenon, <2>1, <2>2, s \in Sites, InOK DEF v
<1> HIDE DEF v
<1>6. SiteOK(s, peers, behind, host'[s], router'[s], to_router'[s], to_host'[s], to_relay'[s],
             from_relay'[s], got'[s], sent'[s])
  <2>1. Peer(s) \in peers
    BY Zenon, <1>1 DEF SiteOK, InternetToRouter
  <2> QED BY Zenon, <1>1, <1>2, <1>3, <1>5, <2>1 DEF SiteOK, Took1
<1>7. ASSUME NEW E
      PROVE  Total(host'[s], router'[s], to_router'[s], to_host'[s], to_relay'[s],
                   from_relay'[s], got'[s], E)
             = Total(host[s], router[s], to_router[s], to_host[s], to_relay[s],
                     from_relay[s], got[s], E) + One({} \cap E # {})
  <2> DEFINE a == Load(host[s], E)
             b == Held(router[s], E)
             c == Under(to_router[s], E)
             d == Under(to_host[s], E)
             e == Under(to_relay[s], E)
             f == Under(from_relay[s], E)
             g == Count(got[s], E)
             b2 == Held(router'[s], E)
             f2 == Under(from_relay'[s], E)
             x == One({} \cap E # {})
  <2>1. Summed(host[s], router[s], to_router[s], to_host[s], to_relay[s], from_relay[s], got[s], E)
    BY Zenon, <1>1, SumType
  <2>2. Summed(host'[s], router'[s], to_router'[s], to_host'[s], to_relay'[s], from_relay'[s],
               got'[s], E)
    BY Zenon, <1>6, SumType
  <2>3. a \in Nat /\ b \in Nat /\ c \in Nat /\ d \in Nat /\ e \in Nat /\ f \in Nat /\ g \in Nat
    BY Zenon, <2>1 DEF Summed
  <2>4. b2 \in Nat /\ f2 \in Nat
    BY Zenon, <2>2 DEF Summed
  <2>5. b2 + f2 = b + f
    BY Zenon, <1>2, <1>5 DEF Took1
  <2>6. x = 0
    <3>1. ~({} \cap E # {})
      BY Zenon
    <3> QED BY Zenon, <3>1 DEF One
  <2>7. /\ Total(host[s], router[s], to_router[s], to_host[s], to_relay[s], from_relay[s], got[s], E)
           = (((((a + b) + c) + d) + e) + f) + g
        /\ Total(host'[s], router'[s], to_router'[s], to_host'[s], to_relay'[s], from_relay'[s],
                 got'[s], E)
           = (((((a + b2) + c) + d) + e) + f2) + g
    BY Zenon, <1>3 DEF Total
  <2> HIDE DEF a, b, c, d, e, f, g, b2, f2, x
  <2>9. (((((a + b2) + c) + d) + e) + f2) + g = ((((((a + b) + c) + d) + e) + f) + g) + x
    BY <2>3, <2>4, <2>5, <2>6
  <2> QED BY Zenon, <2>7, <2>9 DEF x
<1> QED BY Zenon, <1>4, <1>6, <1>7, StepAt

\* The router sends a frame to the host.
LEMMA RouterToHostStep ==
  ASSUME NetInv, NEW s \in Sites, RouterToHost(s)
  PROVE  NetInv' /\ Adds({})
<1> DEFINE y == Head(router[s].interfaces[host_side].frames_out)
           v == [router[s] EXCEPT !.interfaces[host_side].frames_out = Tail(@)]
<1>1. SiteOK(s, peers, behind, host[s], router[s], to_router[s], to_host[s], to_relay[s],
             from_relay[s], got[s], sent[s])
  BY Zenon DEF NetInv
<1>2. /\ Apart(router, router', s) /\ router'[s] = v
      /\ Apart(to_host, to_host', s) /\ to_host'[s] = Append(to_host[s], y)
  <2>1. DOMAIN router = Sites /\ DOMAIN to_host = Sites
    BY Zenon DEF NetInv
  <2>2. /\ router' = [router EXCEPT ![s] = v]
        /\ to_host' = [to_host EXCEPT ![s] = Append(to_host[s], y)]
    BY Zenon DEF RouterToHost, Queued, Dequeue
  <2> HIDE DEF y, v
  <2>3. Apart(router, router', s) /\ router'[s] = v
    BY ONLY Zenon, <2>1, <2>2, ExceptAt, s \in Sites
  <2>4. Apart(to_host, to_host', s) /\ to_host'[s] = Append(to_host[s], y)
    BY ONLY Zenon, <2>1, <2>2, ExceptAt, s \in Sites
  <2> QED BY Zenon, <2>3, <2>4
<1>3. /\ Apart(host, host', s) /\ host'[s] = host[s]
      /\ Apart(to_router, to_router', s) /\ to_router'[s] = to_router[s]
      /\ Apart(to_relay, to_relay', s) /\ to_relay'[s] = to_relay[s]
      /\ Apart(from_relay, from_relay', s) /\ from_relay'[s] = from_relay[s]
      /\ Apart(got, got', s) /\ got'[s] = got[s]
      /\ Apart(sent, sent', s) /\ sent'[s] = sent[s]
      /\ behind' = behind /\ peers' = peers
  BY Zenon DEF NetInv, Apart, RouterToHost, Queued, Dequeue
<1>4. Local(s)
  BY Zenon, <1>2, <1>3 DEF Local
<1>5. Gave(s, Heard(s, peers), behind, router[s], v, to_host[s], y, Down(s))
  <2>1. /\ RouterOK(s, Heard(s, peers), behind, router[s]) /\ to_host[s] \in Seq(Down(s))
        /\ router[s].interfaces[host_side].frames_out # <<>>
    BY Zenon, <1>1 DEF SiteOK, RouterToHost, Queued
  <2> QED BY ONLY Zenon, <2>1, s \in Sites, DownOK DEF v, y
<1> HIDE DEF y, v
<1>6. SiteOK(s, peers, behind, host'[s], router'[s], to_router'[s], to_host'[s], to_relay'[s],
             from_relay'[s], got'[s], sent'[s])
  BY Zenon, <1>1, <1>2, <1>3, <1>5 DEF SiteOK, Gave
<1>7. ASSUME NEW E
      PROVE  Total(host'[s], router'[s], to_router'[s], to_host'[s], to_relay'[s],
                   from_relay'[s], got'[s], E)
             = Total(host[s], router[s], to_router[s], to_host[s], to_relay[s],
                     from_relay[s], got[s], E) + One({} \cap E # {})
  <2> DEFINE a == Load(host[s], E)
             b == Held(router[s], E)
             c == Under(to_router[s], E)
             d == Under(to_host[s], E)
             e == Under(to_relay[s], E)
             f == Under(from_relay[s], E)
             g == Count(got[s], E)
             b2 == Held(router'[s], E)
             d2 == Under(to_host'[s], E)
             x == One({} \cap E # {})
  <2>1. Summed(host[s], router[s], to_router[s], to_host[s], to_relay[s], from_relay[s], got[s], E)
    BY Zenon, <1>1, SumType
  <2>2. Summed(host'[s], router'[s], to_router'[s], to_host'[s], to_relay'[s], from_relay'[s],
               got'[s], E)
    BY Zenon, <1>6, SumType
  <2>3. a \in Nat /\ b \in Nat /\ c \in Nat /\ d \in Nat /\ e \in Nat /\ f \in Nat /\ g \in Nat
    BY Zenon, <2>1 DEF Summed
  <2>4. b2 \in Nat /\ d2 \in Nat
    BY Zenon, <2>2 DEF Summed
  <2>5. b2 + d2 = b + d
    BY Zenon, <1>2, <1>5 DEF Gave
  <2>6. x = 0
    <3>1. ~({} \cap E # {})
      BY Zenon
    <3> QED BY Zenon, <3>1 DEF One
  <2>7. /\ Total(host[s], router[s], to_router[s], to_host[s], to_relay[s], from_relay[s], got[s], E)
           = (((((a + b) + c) + d) + e) + f) + g
        /\ Total(host'[s], router'[s], to_router'[s], to_host'[s], to_relay'[s], from_relay'[s],
                 got'[s], E)
           = (((((a + b2) + c) + d2) + e) + f) + g
    BY Zenon, <1>3 DEF Total
  <2> HIDE DEF a, b, c, d, e, f, g, b2, d2, x
  <2>9. (((((a + b2) + c) + d2) + e) + f) + g = ((((((a + b) + c) + d) + e) + f) + g) + x
    BY <2>3, <2>4, <2>5, <2>6
  <2> QED BY Zenon, <2>7, <2>9 DEF x
<1> QED BY Zenon, <1>4, <1>6, <1>7, StepAt

\* The router sends a frame to the other site.
LEMMA RouterToInternetStep ==
  ASSUME NetInv, NEW s \in Sites, RouterToInternet(s)
  PROVE  NetInv' /\ Adds({})
<1> DEFINE y == Head(router[s].interfaces[internet_side].frames_out)
           v == [router[s] EXCEPT !.interfaces[internet_side].frames_out = Tail(@)]
<1>1. SiteOK(s, peers, behind, host[s], router[s], to_router[s], to_host[s], to_relay[s],
             from_relay[s], got[s], sent[s])
  BY Zenon DEF NetInv
<1>2. /\ Apart(router, router', s) /\ router'[s] = v
      /\ Apart(to_relay, to_relay', s) /\ to_relay'[s] = Append(to_relay[s], y)
  <2>1. DOMAIN router = Sites /\ DOMAIN to_relay = Sites
    BY Zenon DEF NetInv
  <2>2. /\ router' = [router EXCEPT ![s] = v]
        /\ to_relay' = [to_relay EXCEPT ![s] = Append(to_relay[s], y)]
    BY Zenon DEF RouterToInternet, Queued, Dequeue
  <2> HIDE DEF y, v
  <2>3. Apart(router, router', s) /\ router'[s] = v
    BY ONLY Zenon, <2>1, <2>2, ExceptAt, s \in Sites
  <2>4. Apart(to_relay, to_relay', s) /\ to_relay'[s] = Append(to_relay[s], y)
    BY ONLY Zenon, <2>1, <2>2, ExceptAt, s \in Sites
  <2> QED BY Zenon, <2>3, <2>4
<1>3. /\ Apart(host, host', s) /\ host'[s] = host[s]
      /\ Apart(to_router, to_router', s) /\ to_router'[s] = to_router[s]
      /\ Apart(to_host, to_host', s) /\ to_host'[s] = to_host[s]
      /\ Apart(from_relay, from_relay', s) /\ from_relay'[s] = from_relay[s]
      /\ Apart(got, got', s) /\ got'[s] = got[s]
      /\ Apart(sent, sent', s) /\ sent'[s] = sent[s]
      /\ behind' = behind /\ peers' = peers
  BY Zenon DEF NetInv, Apart, RouterToInternet, Queued, Dequeue
<1>4. Local(s)
  BY Zenon, <1>2, <1>3 DEF Local
<1>5. Gave(s, Heard(s, peers), behind, router[s], v, to_relay[s], y, Out(s, Heard(s, peers)) \cup {Hello})
  <2>1. /\ RouterOK(s, Heard(s, peers), behind, router[s]) /\ to_relay[s] \in Seq(Out(s, Heard(s, peers)) \cup {Hello})
        /\ router[s].interfaces[internet_side].frames_out # <<>>
    BY Zenon, <1>1 DEF SiteOK, RouterToInternet, Queued
  <2> QED BY ONLY Zenon, <2>1, s \in Sites, OutOK DEF v, y
<1> HIDE DEF y, v
<1>6. SiteOK(s, peers, behind, host'[s], router'[s], to_router'[s], to_host'[s], to_relay'[s],
             from_relay'[s], got'[s], sent'[s])
  BY Zenon, <1>1, <1>2, <1>3, <1>5 DEF SiteOK, Gave
<1>7. ASSUME NEW E
      PROVE  Total(host'[s], router'[s], to_router'[s], to_host'[s], to_relay'[s],
                   from_relay'[s], got'[s], E)
             = Total(host[s], router[s], to_router[s], to_host[s], to_relay[s],
                     from_relay[s], got[s], E) + One({} \cap E # {})
  <2> DEFINE a == Load(host[s], E)
             b == Held(router[s], E)
             c == Under(to_router[s], E)
             d == Under(to_host[s], E)
             e == Under(to_relay[s], E)
             f == Under(from_relay[s], E)
             g == Count(got[s], E)
             b2 == Held(router'[s], E)
             e2 == Under(to_relay'[s], E)
             x == One({} \cap E # {})
  <2>1. Summed(host[s], router[s], to_router[s], to_host[s], to_relay[s], from_relay[s], got[s], E)
    BY Zenon, <1>1, SumType
  <2>2. Summed(host'[s], router'[s], to_router'[s], to_host'[s], to_relay'[s], from_relay'[s],
               got'[s], E)
    BY Zenon, <1>6, SumType
  <2>3. a \in Nat /\ b \in Nat /\ c \in Nat /\ d \in Nat /\ e \in Nat /\ f \in Nat /\ g \in Nat
    BY Zenon, <2>1 DEF Summed
  <2>4. b2 \in Nat /\ e2 \in Nat
    BY Zenon, <2>2 DEF Summed
  <2>5. b2 + e2 = b + e
    BY Zenon, <1>2, <1>5 DEF Gave
  <2>6. x = 0
    <3>1. ~({} \cap E # {})
      BY Zenon
    <3> QED BY Zenon, <3>1 DEF One
  <2>7. /\ Total(host[s], router[s], to_router[s], to_host[s], to_relay[s], from_relay[s], got[s], E)
           = (((((a + b) + c) + d) + e) + f) + g
        /\ Total(host'[s], router'[s], to_router'[s], to_host'[s], to_relay'[s], from_relay'[s],
                 got'[s], E)
           = (((((a + b2) + c) + d) + e2) + f) + g
    BY Zenon, <1>3 DEF Total
  <2> HIDE DEF a, b, c, d, e, f, g, b2, e2, x
  <2>9. (((((a + b2) + c) + d) + e2) + f) + g = ((((((a + b) + c) + d) + e) + f) + g) + x
    BY <2>3, <2>4, <2>5, <2>6
  <2> QED BY Zenon, <2>7, <2>9 DEF x
<1> QED BY Zenon, <1>4, <1>6, <1>7, StepAt

\* The host reads a frame.
LEMMA ReadStep ==
  ASSUME NetInv, NEW s \in Sites, Read(s)
  PROVE  NetInv' /\ Adds({})
<1> DEFINE m == recv_frame(host[s], Head(to_host[s]))
           ret == Returned(host[s], Head(to_host[s]))
<1>1. SiteOK(s, peers, behind, host[s], router[s], to_router[s], to_host[s], to_relay[s],
             from_relay[s], got[s], sent[s])
  BY Zenon DEF NetInv
<1>2. /\ Apart(host, host', s) /\ host'[s] = Emptied(m)
      /\ Apart(to_router, to_router', s) /\ to_router'[s] = to_router[s] \o m.frames_out
      /\ Apart(to_host, to_host', s) /\ to_host'[s] = Tail(to_host[s])
      /\ Apart(got, got', s) /\ got'[s] = got[s] \o ret
  <2>1. DOMAIN host = Sites /\ DOMAIN to_router = Sites /\ DOMAIN to_host = Sites /\ DOMAIN got = Sites
    BY Zenon DEF NetInv
  <2>2. /\ host' = [host EXCEPT ![s] = Emptied(m)]
        /\ to_router' = [to_router EXCEPT ![s] = to_router[s] \o m.frames_out]
        /\ to_host' = [to_host EXCEPT ![s] = Tail(to_host[s])]
        /\ got' = [got EXCEPT ![s] = got[s] \o ret]
    BY Zenon DEF Read, HostBecomes, Emptied
  <2> HIDE DEF m, ret
  <2>3. Apart(host, host', s) /\ host'[s] = Emptied(m)
    BY ONLY Zenon, <2>1, <2>2, ExceptAt, s \in Sites
  <2>4. Apart(to_router, to_router', s) /\ to_router'[s] = to_router[s] \o m.frames_out
    BY ONLY Zenon, <2>1, <2>2, ExceptAt, s \in Sites
  <2>5. Apart(to_host, to_host', s) /\ to_host'[s] = Tail(to_host[s])
    BY ONLY Zenon, <2>1, <2>2, ExceptAt, s \in Sites
  <2>6. Apart(got, got', s) /\ got'[s] = got[s] \o ret
    BY ONLY Zenon, <2>1, <2>2, ExceptAt, s \in Sites
  <2> QED BY Zenon, <2>3, <2>4, <2>5, <2>6
<1>3. /\ Apart(router, router', s) /\ router'[s] = router[s]
      /\ Apart(to_relay, to_relay', s) /\ to_relay'[s] = to_relay[s]
      /\ Apart(from_relay, from_relay', s) /\ from_relay'[s] = from_relay[s]
      /\ Apart(sent, sent', s) /\ sent'[s] = sent[s]
      /\ behind' = behind /\ peers' = peers
  BY Zenon DEF NetInv, Apart, Read, HostBecomes, Emptied
<1>4. Local(s)
  BY Zenon, <1>2, <1>3 DEF Local
<1>5. HasRead(s, behind, host[s], to_router[s], to_host[s], got[s])
  <2>1. /\ HostOK(s, behind, host[s]) /\ to_router[s] \in Seq(Up(s)) /\ to_host[s] \in Seq(Down(s))
        /\ to_host[s] # <<>> /\ got[s] \in Seq(Dg(Peer(s))) /\ behind \in Int
    BY Zenon, <1>1 DEF SiteOK, Read, NetInv
  <2> QED BY ONLY Zenon, <2>1, s \in Sites, ReadOK
<1> HIDE DEF m, ret
<1>6. SiteOK(s, peers, behind, host'[s], router'[s], to_router'[s], to_host'[s], to_relay'[s],
             from_relay'[s], got'[s], sent'[s])
  BY Zenon, <1>1, <1>2, <1>3, <1>5 DEF SiteOK, HasRead, m, ret
<1>7. ASSUME NEW E
      PROVE  Total(host'[s], router'[s], to_router'[s], to_host'[s], to_relay'[s],
                   from_relay'[s], got'[s], E)
             = Total(host[s], router[s], to_router[s], to_host[s], to_relay[s],
                     from_relay[s], got[s], E) + One({} \cap E # {})
  <2> DEFINE a == Load(host[s], E)
             b == Held(router[s], E)
             c == Under(to_router[s], E)
             d == Under(to_host[s], E)
             e == Under(to_relay[s], E)
             f == Under(from_relay[s], E)
             g == Count(got[s], E)
             a2 == Load(host'[s], E)
             c2 == Under(to_router'[s], E)
             d2 == Under(to_host'[s], E)
             g2 == Count(got'[s], E)
             x == One({} \cap E # {})
  <2>1. Summed(host[s], router[s], to_router[s], to_host[s], to_relay[s], from_relay[s], got[s], E)
    BY Zenon, <1>1, SumType
  <2>2. Summed(host'[s], router'[s], to_router'[s], to_host'[s], to_relay'[s], from_relay'[s],
               got'[s], E)
    BY Zenon, <1>6, SumType
  <2>3. a \in Nat /\ b \in Nat /\ c \in Nat /\ d \in Nat /\ e \in Nat /\ f \in Nat /\ g \in Nat
    BY Zenon, <2>1 DEF Summed
  <2>4. a2 \in Nat /\ c2 \in Nat /\ d2 \in Nat /\ g2 \in Nat
    BY Zenon, <2>2 DEF Summed
  <2>5. ((a2 + c2) + d2) + g2 = ((a + c) + d) + g
    BY Zenon, <1>2, <1>5 DEF HasRead, m, ret
  <2>6. x = 0
    <3>1. ~({} \cap E # {})
      BY Zenon
    <3> QED BY Zenon, <3>1 DEF One
  <2>7. /\ Total(host[s], router[s], to_router[s], to_host[s], to_relay[s], from_relay[s], got[s], E)
           = (((((a + b) + c) + d) + e) + f) + g
        /\ Total(host'[s], router'[s], to_router'[s], to_host'[s], to_relay'[s], from_relay'[s],
                 got'[s], E)
           = (((((a2 + b) + c2) + d2) + e) + f) + g2
    BY Zenon, <1>3 DEF Total
  <2> HIDE DEF a, b, c, d, e, f, g, a2, c2, d2, g2, x
  <2>9. (((((a2 + b) + c2) + d2) + e) + f) + g2 = ((((((a + b) + c) + d) + e) + f) + g) + x
    BY <2>3, <2>4, <2>5, <2>6
  <2> QED BY Zenon, <2>7, <2>9 DEF x
<1> QED BY Zenon, <1>4, <1>6, <1>7, StepAt

\* The host has a datagram to send.
LEMMA WriteStep ==
  ASSUME NetInv, NEW s \in Sites, Write(s)
  PROVE  NetInv' /\ Adds({Datagram(s, sent[s] + 1)})
<1> DEFINE z == Datagram(s, sent[s] + 1)
           m == send_datagram(host[s], z, HostSide(s))
<1>1. SiteOK(s, peers, behind, host[s], router[s], to_router[s], to_host[s], to_relay[s],
             from_relay[s], got[s], sent[s])
  BY Zenon DEF NetInv
<1>2. /\ Apart(host, host', s) /\ host'[s] = Emptied(m)
      /\ Apart(to_router, to_router', s) /\ to_router'[s] = to_router[s] \o m.frames_out
      /\ Apart(sent, sent', s) /\ sent'[s] = sent[s] + 1
  <2>1. DOMAIN host = Sites /\ DOMAIN to_router = Sites /\ DOMAIN sent = Sites
    BY Zenon DEF NetInv
  <2>2. /\ host' = [host EXCEPT ![s] = Emptied(m)]
        /\ to_router' = [to_router EXCEPT ![s] = to_router[s] \o m.frames_out]
        /\ sent' = [sent EXCEPT ![s] = sent[s] + 1]
    <3>1. sent' = [sent EXCEPT ![s] = sent[s] + 1] /\ DOMAIN sent = Sites
      BY Zenon DEF Write, NetInv
    <3>2. sent'[s] = sent[s] + 1
      BY ONLY Zenon, <3>1, s \in Sites, ExceptAt
    <3> QED BY Zenon, <3>1, <3>2 DEF Write, HostBecomes, Emptied
  <2> HIDE DEF z, m
  <2>3. Apart(host, host', s) /\ host'[s] = Emptied(m)
    BY ONLY Zenon, <2>1, <2>2, ExceptAt, s \in Sites
  <2>4. Apart(to_router, to_router', s) /\ to_router'[s] = to_router[s] \o m.frames_out
    BY ONLY Zenon, <2>1, <2>2, ExceptAt, s \in Sites
  <2>5. Apart(sent, sent', s) /\ sent'[s] = sent[s] + 1
    BY ONLY Zenon, <2>1, <2>2, ExceptAt, s \in Sites
  <2> QED BY Zenon, <2>3, <2>4, <2>5
<1>3. /\ Apart(router, router', s) /\ router'[s] = router[s]
      /\ Apart(to_host, to_host', s) /\ to_host'[s] = to_host[s]
      /\ Apart(to_relay, to_relay', s) /\ to_relay'[s] = to_relay[s]
      /\ Apart(from_relay, from_relay', s) /\ from_relay'[s] = from_relay[s]
      /\ Apart(got, got', s) /\ got'[s] = got[s]
      /\ behind' = behind /\ peers' = peers
  BY Zenon DEF NetInv, Apart, Write, HostBecomes, Emptied
<1>4. Local(s)
  BY Zenon, <1>2, <1>3 DEF Local
<1>5. Wrote(s, behind, host[s], to_router[s], z)
  <2>1. /\ HostOK(s, behind, host[s]) /\ to_router[s] \in Seq(Up(s)) /\ behind \in Int /\ sent[s] \in Nat
    BY Zenon, <1>1 DEF SiteOK, NetInv
  <2>2. sent[s] + 1 \in Nat
    BY <2>1
  <2>3. z \in Dg(s)
    BY Zenon, <2>2 DEF Dg
  <2> HIDE DEF z
  <2> QED BY ONLY Zenon, <2>1, <2>3, s \in Sites, WriteOK
<1> HIDE DEF z, m
<1>6. SiteOK(s, peers, behind, host'[s], router'[s], to_router'[s], to_host'[s], to_relay'[s],
             from_relay'[s], got'[s], sent'[s])
  <2>1. sent[s] \in Nat
    BY Zenon, <1>1 DEF SiteOK
  <2>2. sent[s] + 1 \in Nat
    BY <2>1
  <2> QED BY Zenon, <1>1, <1>2, <1>3, <1>5, <2>2 DEF SiteOK, Wrote, m, z
<1>7. ASSUME NEW E
      PROVE  Total(host'[s], router'[s], to_router'[s], to_host'[s], to_relay'[s],
                   from_relay'[s], got'[s], E)
             = Total(host[s], router[s], to_router[s], to_host[s], to_relay[s],
                     from_relay[s], got[s], E) + One({Datagram(s, sent[s] + 1)} \cap E # {})
  <2> DEFINE a == Load(host[s], E)
             b == Held(router[s], E)
             c == Under(to_router[s], E)
             d == Under(to_host[s], E)
             e == Under(to_relay[s], E)
             f == Under(from_relay[s], E)
             g == Count(got[s], E)
             a2 == Load(host'[s], E)
             c2 == Under(to_router'[s], E)
             x == One({Datagram(s, sent[s] + 1)} \cap E # {})
  <2>1. Summed(host[s], router[s], to_router[s], to_host[s], to_relay[s], from_relay[s], got[s], E)
    BY Zenon, <1>1, SumType
  <2>2. Summed(host'[s], router'[s], to_router'[s], to_host'[s], to_relay'[s], from_relay'[s],
               got'[s], E)
    BY Zenon, <1>6, SumType
  <2>3. a \in Nat /\ b \in Nat /\ c \in Nat /\ d \in Nat /\ e \in Nat /\ f \in Nat /\ g \in Nat
    BY Zenon, <2>1 DEF Summed
  <2>4. a2 \in Nat /\ c2 \in Nat
    BY Zenon, <2>2 DEF Summed
  <2>5. a2 + c2 = (a + c) + One(Datagram(s, sent[s] + 1) \in E)
    BY Zenon, <1>2, <1>5 DEF Wrote, m, z
  <2>6. x = One(Datagram(s, sent[s] + 1) \in E) /\ x \in Nat
    BY Zenon, OneType DEF One
  <2>7. /\ Total(host[s], router[s], to_router[s], to_host[s], to_relay[s], from_relay[s], got[s], E)
           = (((((a + b) + c) + d) + e) + f) + g
        /\ Total(host'[s], router'[s], to_router'[s], to_host'[s], to_relay'[s], from_relay'[s],
                 got'[s], E)
           = (((((a2 + b) + c2) + d) + e) + f) + g
    BY Zenon, <1>3 DEF Total
  <2> HIDE DEF a, b, c, d, e, f, g, a2, c2, x
  <2>8. a2 + c2 = (a + c) + x
    BY Zenon, <2>5, <2>6
  <2>9. (((((a2 + b) + c2) + d) + e) + f) + g = ((((((a + b) + c) + d) + e) + f) + g) + x
    BY <2>3, <2>4, <2>8, <2>6
  <2> QED BY Zenon, <2>7, <2>9 DEF x
<1> QED BY Zenon, <1>4, <1>6, <1>7, StepAt

\* A step at both sites.
SiteAt(s) == SiteOK(s, peers, behind, host[s], router[s], to_router[s], to_host[s], to_relay[s],
                    from_relay[s], got[s], sent[s])
TotalAt(s, E) == Total(host[s], router[s], to_router[s], to_host[s], to_relay[s], from_relay[s],
                       got[s], E)
Everywhere ==
    /\ behind \in Int
    /\ DOMAIN host = Sites /\ DOMAIN router = Sites
    /\ DOMAIN to_router = Sites /\ DOMAIN to_host = Sites
    /\ DOMAIN to_relay = Sites /\ DOMAIN from_relay = Sites
    /\ DOMAIN got = Sites /\ DOMAIN sent = Sites

\* If both sites are well afterwards and have as many datagrams between them, none is lost
\* or doubled.
LEMMA StepBoth ==
  ASSUME NetInv, NEW s \in Sites, Everywhere', SiteAt(s)', SiteAt(Peer(s))',
         \A E : TotalAt(s, E)' + TotalAt(Peer(s), E)' = TotalAt(s, E) + TotalAt(Peer(s), E)
  PROVE  NetInv' /\ Adds({})
<1> DEFINE p == Peer(s)
<1>1. p \in Sites /\ Sites = {s, p}
  BY Zenon, SiteFacts
<1> HIDE DEF p
<1>2. SiteAt(s)' /\ SiteAt(p)'
  BY Zenon DEF p
<1>3. NetInv'
  <2>1. \A x \in Sites : SiteOK(x, peers', behind', host'[x], router'[x], to_router'[x], to_host'[x],
                                to_relay'[x], from_relay'[x], got'[x], sent'[x])
    BY Zenon, <1>1, <1>2 DEF SiteAt
  <2> QED BY Zenon, <2>1 DEF NetInv, Everywhere
<1>4. ASSUME NEW E PROVE Copies(E)' = Copies(E) + One({} \cap E # {})
  <2>1. ASSUME NEW x \in Sites, SiteAt(x)'
        PROVE  /\ CopiesAt(x, E) = TotalAt(x, E) /\ CopiesAt(x, E)' = TotalAt(x, E)'
               /\ TotalAt(x, E) \in Nat /\ TotalAt(x, E)' \in Nat
    <3>1. SiteOK(x, peers', behind', host'[x], router'[x], to_router'[x], to_host'[x],
                 to_relay'[x], from_relay'[x], got'[x], sent'[x])
      BY Zenon, <2>1 DEF SiteAt
    <3>2. Summed(host'[x], router'[x], to_router'[x], to_host'[x], to_relay'[x], from_relay'[x],
                 got'[x], E)
      BY Zenon, <3>1, SumType
    <3>3. SumIs(host'[x], router'[x], to_router'[x], to_host'[x], to_relay'[x], from_relay'[x],
                got'[x], E)
      BY Zenon, <3>2, SumOK
    <3>4. SumIs(host[x], router[x], to_router[x], to_host[x], to_relay[x], from_relay[x],
                got[x], E)
      BY Zenon, CopiesOK
    <3>5. CopiesAt(x, E) = TotalAt(x, E) /\ CopiesAt(x, E)' = TotalAt(x, E)'
      BY Zenon, <3>3, CopiesOK DEF TotalAt
    <3> QED BY Zenon, <3>3, <3>4, <3>5 DEF SumIs, TotalAt
  <2> DEFINE i == TotalAt(s, E)
             j == TotalAt(p, E)
             k == TotalAt(s, E)'
             l == TotalAt(p, E)'
  <2>2. /\ CopiesAt(s, E) = i /\ CopiesAt(s, E)' = k /\ i \in Nat /\ k \in Nat
        /\ CopiesAt(p, E) = j /\ CopiesAt(p, E)' = l /\ j \in Nat /\ l \in Nat
    BY Zenon, <1>1, <1>2, <2>1
  <2>3. k + l = i + j
    BY Zenon DEF p
  <2>4. One({} \cap E # {}) = 0
    <3>1. ~({} \cap E # {})
      BY Zenon
    <3> QED BY Zenon, <3>1 DEF One
  <2>5. \/ Copies(E) = i + j /\ Copies(E)' = k + l
        \/ Copies(E) = j + i /\ Copies(E)' = l + k
    <3>1. \/ s = Client /\ p = Server
          \/ s = Server /\ p = Client
      BY Zenon, Lab7Assumption DEF p, Peer, Sites
    <3> QED BY Zenon, <2>2, <3>1 DEF Copies
  <2> HIDE DEF i, j, k, l
  <2>6. k + l = (i + j) + 0 /\ l + k = (j + i) + 0
    <3>1. i \in Nat /\ j \in Nat /\ k \in Nat /\ l \in Nat
      BY ONLY Zenon, <2>2
    <3> QED BY ONLY <2>3, <3>1
  <2> QED BY Zenon, <2>4, <2>5, <2>6
<1> QED BY Zenon, <1>3, <1>4 DEF Adds

\* Nothing is added.
LEMMA NoneAdded ==
  ASSUME NEW E, NEW x \in Nat
  PROVE  x = x + One({} \cap E # {})
<1>1. ~({} \cap E # {})
  BY Zenon
<1>2. One({} \cap E # {}) = 0
  BY Zenon, <1>1 DEF One
<1> QED BY <1>2

\* An interface with no frames to write.
LEMMA AlreadyEmpty ==
  ASSUME NEW s, NEW t, NEW h, HostOK(s, t, h)
  PROVE  Emptied(h) = h
<1>1. h.frames_out = <<>> /\ h \in Interfaces(HostIP(s), HostSide(s), {HostSide(s)}, Dg(s))
  BY Zenon DEF HostOK
<1> QED BY Zenon, <1>1 DEF Emptied, Interfaces

\* Time passes for the host of a site.
LEMMA HostTickStep ==
  ASSUME NetInv, NEW s \in Sites, HostTick(s)
  PROVE  NetInv' /\ Adds({})
<1> DEFINE m == tick_interface(host[s], 1)
<1>1. SiteOK(s, peers, behind, host[s], router[s], to_router[s], to_host[s], to_relay[s],
             from_relay[s], got[s], sent[s])
  BY Zenon DEF NetInv
<1>2. HostAged(s, behind, host[s])
  BY Zenon, <1>1, HostTickOK DEF SiteOK, NetInv
<1>3. HostOK(s, behind, m) /\ \A E : Load(m, E) = Load(host[s], E)
  BY Zenon, <1>2 DEF HostAged
<1>4. m.frames_out = <<>> /\ Emptied(m) = m /\ to_router[s] \o <<>> = to_router[s]
  <2>1. to_router[s] \in Seq(Up(s))
    BY Zenon, <1>1 DEF SiteOK
  <2>2. to_router[s] \o <<>> = to_router[s]
    BY <2>1
  <2> HIDE DEF m
  <2> QED BY Zenon, <1>3, <2>2, AlreadyEmpty DEF HostOK
<1>5. /\ Apart(host, host', s) /\ host'[s] = m
      /\ Apart(to_router, to_router', s) /\ to_router'[s] = to_router[s]
  <2>1. DOMAIN host = Sites /\ DOMAIN to_router = Sites
    BY Zenon DEF NetInv
  <2>2. /\ host' = [host EXCEPT ![s] = Emptied(m)]
        /\ to_router' = [to_router EXCEPT ![s] = to_router[s] \o m.frames_out]
    BY Zenon DEF HostTick, HostBecomes, Emptied
  <2> HIDE DEF m
  <2>3. Apart(host, host', s) /\ host'[s] = Emptied(m)
    BY ONLY Zenon, <2>1, <2>2, ExceptAt, s \in Sites
  <2>4. Apart(to_router, to_router', s) /\ to_router'[s] = to_router[s] \o m.frames_out
    BY ONLY Zenon, <2>1, <2>2, ExceptAt, s \in Sites
  <2> QED BY Zenon, <1>4, <2>3, <2>4
<1> HIDE DEF m
<1>6. /\ Apart(router, router', s) /\ router'[s] = router[s]
      /\ Apart(to_host, to_host', s) /\ to_host'[s] = to_host[s]
      /\ Apart(to_relay, to_relay', s) /\ to_relay'[s] = to_relay[s]
      /\ Apart(from_relay, from_relay', s) /\ from_relay'[s] = from_relay[s]
      /\ Apart(got, got', s) /\ got'[s] = got[s]
      /\ Apart(sent, sent', s) /\ sent'[s] = sent[s]
      /\ behind' = behind /\ peers' = peers
  BY Zenon DEF NetInv, Apart, HostTick
<1>7. Local(s)
  BY Zenon, <1>5, <1>6 DEF Local
<1>8. SiteOK(s, peers, behind, host'[s], router'[s], to_router'[s], to_host'[s], to_relay'[s],
             from_relay'[s], got'[s], sent'[s])
  BY Zenon, <1>1, <1>3, <1>5, <1>6 DEF SiteOK
<1>9. ASSUME NEW E
      PROVE  Total(host'[s], router'[s], to_router'[s], to_host'[s], to_relay'[s],
                   from_relay'[s], got'[s], E)
             = Total(host[s], router[s], to_router[s], to_host[s], to_relay[s],
                     from_relay[s], got[s], E) + One({} \cap E # {})
  <2> DEFINE x == Total(host[s], router[s], to_router[s], to_host[s], to_relay[s],
                        from_relay[s], got[s], E)
  <2>1. SumIs(host[s], router[s], to_router[s], to_host[s], to_relay[s], from_relay[s],
              got[s], E)
    BY ONLY Zenon, NetInv, s \in Sites, CopiesOK
  <2>2. x \in Nat
    BY ONLY Zenon, <2>1 DEF SumIs
  <2>3. Total(host'[s], router'[s], to_router'[s], to_host'[s], to_relay'[s],
              from_relay'[s], got'[s], E) = x
    BY Zenon, <1>3, <1>5, <1>6 DEF Total
  <2> HIDE DEF x
  <2>4. x = x + One({} \cap E # {})
    BY ONLY Zenon, <2>2, NoneAdded
  <2> QED BY Zenon, <2>3, <2>4 DEF x
<1> QED BY Zenon, <1>7, <1>8, <1>9, StepAt

\* Time passes for the router of a site.
LEMMA RouterTickStep ==
  ASSUME NetInv, NEW s \in Sites, RouterTick(s)
  PROVE  NetInv' /\ Adds({})
<1> DEFINE m == TickRouter(router[s])
<1>1. SiteOK(s, peers, behind, host[s], router[s], to_router[s], to_host[s], to_relay[s],
             from_relay[s], got[s], sent[s])
  BY Zenon DEF NetInv
<1>2. RouterAged(s, Heard(s, peers), behind, router[s])
  BY Zenon, <1>1, RouterTickOK DEF SiteOK, NetInv
<1>3. RouterOK(s, Heard(s, peers), behind, m) /\ \A E : Held(m, E) = Held(router[s], E)
  BY Zenon, <1>2 DEF RouterAged
<1>4. Apart(router, router', s) /\ router'[s] = m
  <2>1. DOMAIN router = Sites
    BY Zenon DEF NetInv
  <2>2. router' = [router EXCEPT ![s] = m]
    BY Zenon DEF RouterTick, TickRouter
  <2> HIDE DEF m
  <2> QED BY ONLY Zenon, <2>1, <2>2, ExceptAt, s \in Sites
<1> HIDE DEF m
<1>5. /\ Apart(host, host', s) /\ host'[s] = host[s]
      /\ Apart(to_router, to_router', s) /\ to_router'[s] = to_router[s]
      /\ Apart(to_host, to_host', s) /\ to_host'[s] = to_host[s]
      /\ Apart(to_relay, to_relay', s) /\ to_relay'[s] = to_relay[s]
      /\ Apart(from_relay, from_relay', s) /\ from_relay'[s] = from_relay[s]
      /\ Apart(got, got', s) /\ got'[s] = got[s]
      /\ Apart(sent, sent', s) /\ sent'[s] = sent[s]
      /\ behind' = behind /\ peers' = peers
  BY Zenon DEF NetInv, Apart, RouterTick
<1>6. Local(s)
  BY Zenon, <1>4, <1>5 DEF Local
<1>7. SiteOK(s, peers, behind, host'[s], router'[s], to_router'[s], to_host'[s], to_relay'[s],
             from_relay'[s], got'[s], sent'[s])
  BY Zenon, <1>1, <1>3, <1>4, <1>5 DEF SiteOK
<1>8. ASSUME NEW E
      PROVE  Total(host'[s], router'[s], to_router'[s], to_host'[s], to_relay'[s],
                   from_relay'[s], got'[s], E)
             = Total(host[s], router[s], to_router[s], to_host[s], to_relay[s],
                     from_relay[s], got[s], E) + One({} \cap E # {})
  <2> DEFINE x == Total(host[s], router[s], to_router[s], to_host[s], to_relay[s],
                        from_relay[s], got[s], E)
  <2>1. SumIs(host[s], router[s], to_router[s], to_host[s], to_relay[s], from_relay[s],
              got[s], E)
    BY ONLY Zenon, NetInv, s \in Sites, CopiesOK
  <2>2. x \in Nat
    BY ONLY Zenon, <2>1 DEF SumIs
  <2>3. Total(host'[s], router'[s], to_router'[s], to_host'[s], to_relay'[s],
              from_relay'[s], got'[s], E) = x
    BY Zenon, <1>3, <1>4, <1>5 DEF Total
  <2> HIDE DEF x
  <2>4. x = x + One({} \cap E # {})
    BY ONLY Zenon, <2>2, NoneAdded
  <2> QED BY Zenon, <2>3, <2>4 DEF x
<1> QED BY Zenon, <1>6, <1>7, <1>8, StepAt

\* The relay takes a frame of site s, and passes it on or not.
LEMMA RelayStep ==
  ASSUME NetInv, NEW s \in Sites, Relay(s)
  PROVE  NetInv' /\ Adds({})
<1> DEFINE p == Peer(s)
           f == Head(to_relay[s])
           B == Heard(s, peers)
           F == Out(s, B) \cup {Hello}
           passed == p \in peers /\ f # Hello
           q == IF passed THEN Append(from_relay[p], f) ELSE from_relay[p]
<1>1. p \in Sites /\ p # s /\ Peer(p) = s
  BY Zenon, SiteFacts
<1>2. SiteAt(s) /\ SiteAt(p)
  BY Zenon, <1>1 DEF NetInv, SiteAt
<1>3. /\ to_relay'[s] = Tail(to_relay[s]) /\ to_relay'[p] = to_relay[p]
      /\ from_relay'[p] = q /\ from_relay'[s] = from_relay[s]
      /\ DOMAIN to_relay' = Sites /\ DOMAIN from_relay' = Sites
  <2>1. DOMAIN to_relay = Sites /\ DOMAIN from_relay = Sites
    BY Zenon DEF NetInv
  <2>2. /\ to_relay' = [to_relay EXCEPT ![s] = Tail(to_relay[s])]
        /\ from_relay' = [from_relay EXCEPT ![p] = q]
    BY Zenon DEF Relay
  <2> HIDE DEF q
  <2>3. Apart(to_relay, to_relay', s) /\ to_relay'[s] = Tail(to_relay[s])
    BY ONLY Zenon, <2>1, <2>2, ExceptAt, s \in Sites
  <2>4. Apart(from_relay, from_relay', p) /\ from_relay'[p] = q
    BY ONLY Zenon, <1>1, <2>1, <2>2, ExceptAt
  <2> QED BY Zenon, <1>1, <2>3, <2>4 DEF Apart
<1>4. /\ host' = host /\ router' = router /\ to_router' = to_router /\ to_host' = to_host
      /\ got' = got /\ sent' = sent /\ behind' = behind /\ peers' = peers \cup {s}
  BY Zenon DEF Relay
<1>5. Everywhere'
  BY Zenon, <1>3, <1>4 DEF Everywhere, NetInv
<1>6. /\ RouterOK(s, B, behind, router[s]) /\ to_relay[s] \in Seq(F) /\ to_relay[s] # <<>>
      /\ RouterOK(p, Heard(p, peers), behind, router[p])
      /\ to_relay[p] \in Seq(Out(p, Heard(p, peers)) \cup {Hello})
      /\ from_relay[p] \in Seq(Out(s, {InternetSide(p)}))
  BY Zenon, <1>1, <1>2 DEF SiteAt, SiteOK, Relay
<1>7. TakenFrom(to_relay[s], F)
  <2> HIDE DEF F
  <2> QED BY Zenon, <1>6, TakeOK
<1>8. f \in F /\ Tail(to_relay[s]) \in Seq(F)
  BY Zenon, <1>7 DEF TakenFrom
<1>9. SiteAt(s)'
  <2>1. Heard(s, peers') = Heard(s, peers)
    BY Zenon, <1>1, <1>4 DEF Heard
  <2>2. from_relay[s] # <<>> => Peer(s) \in peers'
    BY Zenon, <1>2, <1>4 DEF SiteAt, SiteOK
  <2> QED BY Zenon, <1>2, <1>3, <1>4, <1>8, <2>1, <2>2 DEF SiteAt, SiteOK
<1>10. q \in Seq(Out(s, {InternetSide(p)}))
  <2> DEFINE G == Out(s, {InternetSide(p)})
  <2>1. CASE ~passed
    BY Zenon, <1>6, <2>1
  <2>2. CASE passed
    <3>1. B = {InternetSide(p)}
      BY Zenon, <2>2 DEF Heard
    <3>2. f \in G /\ from_relay[p] \in Seq(G)
      BY Zenon, <1>6, <1>8, <2>2, <3>1
    <3> HIDE DEF G, f
    <3>3. Append(from_relay[p], f) \in Seq(G)
      BY <3>2
    <3> QED BY Zenon, <2>2, <3>3 DEF G
  <2> QED BY Zenon, <2>1, <2>2
<1>11. SiteAt(p)'
  <2> DEFINE C == Heard(p, peers')
  <2>1. C = {InternetSide(s)} /\ Heard(p, peers) \subseteq C /\ Peer(p) \in peers'
    BY Zenon, <1>1, <1>4 DEF Heard
  <2>2. C \in SUBSET {InternetSide(Peer(p))}
    BY Zenon, <1>1, <2>1
  <2> HIDE DEF C, p
  <2>3. RouterOK(p, C, behind, router[p])
    BY ONLY Zenon, <1>1, <1>6, <2>1, <2>2, MoreRouters
  <2>4. Out(p, Heard(p, peers)) \cup {Hello} \subseteq Out(p, C) \cup {Hello}
    <3>1. Out(p, Heard(p, peers)) \subseteq Out(p, C)
      BY ONLY Zenon, <2>1, MoreFrames DEF Out
    <3> QED BY ONLY Zenon, <3>1
  <2>5. to_relay[p] \in Seq(Out(p, C) \cup {Hello})
    <3> DEFINE S == Out(p, Heard(p, peers)) \cup {Hello}
               T == Out(p, C) \cup {Hello}
    <3>1. to_relay[p] \in Seq(S) /\ S \subseteq T
      BY ONLY Zenon, <1>6, <2>4
    <3> HIDE DEF S, T
    <3>2. to_relay[p] \in Seq(T)
      BY ONLY <3>1, MoreLists
    <3> QED BY ONLY Zenon, <3>2 DEF T
  <2>6. SiteOK(p, peers', behind', host'[p], router'[p], to_router'[p], to_host'[p], to_relay'[p],
               from_relay'[p], got'[p], sent'[p])
    <3> HIDE DEF q
    <3> QED BY Zenon, <1>1, <1>2, <1>3, <1>4, <1>10, <2>1, <2>3, <2>5 DEF SiteAt, SiteOK, C
  <2> QED BY Zenon, <2>6 DEF SiteAt
<1>12. ASSUME NEW E
       PROVE  TotalAt(s, E)' + TotalAt(p, E)' = TotalAt(s, E) + TotalAt(p, E)
  <2> DEFINE x == One(f \in Carrying(E))
             a1 == ((Load(host[s], E) + Held(router[s], E)) + Under(to_router[s], E)) + Under(to_host[s], E)
             o1 == Under(Tail(to_relay[s]), E)
             i1 == Under(from_relay[s], E)
             g1 == Count(got[s], E)
             a2 == (((Load(host[p], E) + Held(router[p], E)) + Under(to_router[p], E)) + Under(to_host[p], E))
                   + Under(to_relay[p], E)
             i2 == Under(from_relay[p], E)
             g2 == Count(got[p], E)
  <2>1. Under(to_relay[s], E) = x + o1
    BY Zenon, <1>7 DEF TakenFrom
  <2>2. Under(q, E) = i2 + x
    <3>1. CASE passed
      <4>1. f \in F /\ from_relay[p] \in Seq(F)
        <5>1. B = {InternetSide(p)}
          BY Zenon, <3>1 DEF Heard
        <5>2. Out(s, {InternetSide(p)}) \subseteq F
          BY Zenon, <5>1
        <5> HIDE DEF F
        <5>3. from_relay[p] \in Seq(F)
          BY ONLY Zenon, <1>6, <5>2, MoreLists
        <5> QED BY Zenon, <1>8, <5>3
      <4>2. q = Append(from_relay[p], f)
        BY Zenon, <3>1
      <4> HIDE DEF F, f, q
      <4>3. Count(Append(from_relay[p], f), Carrying(E))
            = Count(from_relay[p], Carrying(E)) + One(f \in Carrying(E))
        BY ONLY Zenon, <4>1, CountAppend
      <4> QED BY Zenon, <4>2, <4>3 DEF Under
    <3>2. CASE ~passed
      <4>1. f = Hello \/ B = {}
        BY Zenon, <3>2 DEF Heard
      <4>2. f \notin Carrying(E)
        <5>1. f \in Out(s, B) \cup {Hello}
          BY Zenon, <1>8
        <5> HIDE DEF f, B
        <5> QED BY ONLY Zenon, <4>1, <5>1, s \in Sites, CarriesNothing
      <4>3. x = 0
        BY Zenon, <4>2 DEF One
      <4>4. i2 \in Nat
        BY ONLY Zenon, <1>6, CountType DEF i2, Under
      <4>5. i2 + 0 = i2
        <5> HIDE DEF i2
        <5> QED BY <4>4
      <4> QED BY Zenon, <3>2, <4>3, <4>5
    <3> QED BY Zenon, <3>1, <3>2
  <2>3. /\ a1 \in Nat /\ i1 \in Nat /\ g1 \in Nat /\ a2 \in Nat /\ i2 \in Nat /\ g2 \in Nat
    <3>1. Summed(host[s], router[s], to_router[s], to_host[s], to_relay[s], from_relay[s], got[s], E)
      BY Zenon, <1>2, SumType DEF SiteAt
    <3>2. Summed(host[p], router[p], to_router[p], to_host[p], to_relay[p], from_relay[p], got[p], E)
      BY Zenon, <1>2, SumType DEF SiteAt
    <3>3. \A i, j \in Nat : i + j \in Nat
      OBVIOUS
    <3> HIDE DEF p
    <3> QED BY Zenon, <3>1, <3>2, <3>3 DEF Summed
  <2>4. o1 \in Nat
    <3> HIDE DEF F
    <3> QED BY Zenon, <1>8, CountType DEF Under
  <2>5. x \in Nat
    BY Zenon, OneType
  <2>6. /\ TotalAt(s, E) = ((a1 + (x + o1)) + i1) + g1
        /\ TotalAt(p, E) = (a2 + i2) + g2
    BY Zenon, <2>1 DEF TotalAt, Total
  <2>7. /\ TotalAt(s, E)' = ((a1 + o1) + i1) + g1
        /\ TotalAt(p, E)' = (a2 + (i2 + x)) + g2
    <3> HIDE DEF q, p, x
    <3> QED BY Zenon, <1>3, <1>4, <2>2 DEF TotalAt, Total
  <2> HIDE DEF x, a1, o1, i1, g1, a2, i2, g2
  <2>8. (((a1 + o1) + i1) + g1) + ((a2 + (i2 + x)) + g2)
        = (((a1 + (x + o1)) + i1) + g1) + ((a2 + i2) + g2)
    BY <2>3, <2>4, <2>5
  <2> QED BY Zenon, <2>6, <2>7, <2>8
<1> QED BY Zenon, <1>5, <1>9, <1>11, <1>12, StepBoth

-----------------------------------------------------------------------------
\* An interface with nothing in it.
Fresh(n, t, a, b, B, D) ==
    /\ n \in Interfaces(a, b, B, D) /\ n.frames_out = <<>>
    /\ WellAsked(n, t)
    /\ \A E : Load(n, E) = 0

\* What NewCard makes is one.
LEMMA NewCardOK ==
  ASSUME NEW a, NEW b, NEW B, NEW D, NEW beyond \in Int
  PROVE  Fresh(NewCard(a, beyond), beyond, a, b, B, D)
<1> DEFINE n == NewCard(a, beyond)
           m == [ip \in {} |-> [eth |-> Zero, age |-> 0]]
<1>1. m \in Maps(b, B)
  <2>1. m \in [{} -> [eth : {Eth(b)}, age : Int]]
    BY Zenon
  <2>2. {} \in SUBSET B
    BY Zenon
  <2> HIDE DEF m
  <2> QED BY Zenon, <2>1, <2>2 DEF Maps
<1>2. n = [eth |-> Eth(a), ip |-> a, frames_out |-> <<>>, unsent |-> <<>>, arp_req |-> <<>>,
           map |-> m, beyond |-> beyond, datagrams_out |-> <<>>]
  BY ZenonT(40) DEF NewCard, NewInterface, Eth
<1> HIDE DEF m, n
<1>3. n \in Interfaces(a, b, B, D)
  BY <1>1, <1>2 DEF Interfaces
<1>4. n.frames_out = <<>> /\ n.unsent = <<>>
  BY <1>2
<1>5. WellAsked(n, beyond)
  <2>1. DOMAIN n.unsent = {}
    BY <1>4
  <2>2. n.beyond >= beyond
    BY <1>2
  <2> QED BY Zenon, <2>1, <2>2 DEF WellAsked
<1>6. \A E : Load(n, E) = 0
  <2>1. 0 + 0 = 0
    OBVIOUS
  <2> QED BY Zenon, <1>4, <2>1, CountNone DEF Load
<1>7. Fresh(n, beyond, a, b, B, D)
  BY Zenon, <1>3, <1>4, <1>5, <1>6 DEF Fresh
<1> QED BY Zenon, <1>7 DEF n

\* Lists of the same length with the same entries.
LEMMA SameLists ==
  ASSUME NEW T, NEW q \in Seq(T), NEW l \in Seq(T), Len(q) = Len(l),
         \A i \in 1 .. Len(q) : q[i] = l[i]
  PROVE  q = l
OBVIOUS

\* A list of three entries.
LEMMA ThreeEntries ==
  ASSUME NEW x, NEW y, NEW z
  PROVE  Append(Append(<<x>>, y), z) = <<x, y, z>>
<1> DEFINE T == {x, y, z}
           q == Append(Append(<<x>>, y), z)
           l == <<x, y, z>>
<1>1. q \in Seq(T) /\ Len(q) = 3 /\ q[1] = x /\ q[2] = y /\ q[3] = z
  OBVIOUS
<1>2. l \in Seq(T) /\ Len(l) = 3 /\ l[1] = x /\ l[2] = y /\ l[3] = z
  OBVIOUS
<1> HIDE DEF T, q, l
<1>3. \A i \in 1 .. Len(q) : q[i] = l[i]
  BY <1>1, <1>2
<1>4. q = l
  BY ONLY <1>1, <1>2, <1>3, SameLists
<1> QED BY Zenon, <1>4 DEF q, l

\* The routes of lab7.cc give every router its table.
LEMMA NewRouterOK ==
  ASSUME NEW s, NEW beyond
  PROVE  SiteRouter(s, beyond)
         = Rt(s, NewCard(HostSide(s), beyond), NewCard(InternetSide(s), beyond))
<1> DEFINE c == NewCard(HostSide(s), beyond)
           e == NewCard(InternetSide(s), beyond)
<1> HIDE DEF c, e
<1>1. SiteRouter(s, beyond) = Rt(s, c, e)
  <2> DEFINE R(t) == [interfaces |-> <<c, e>>, routing_table |-> t]
             x == Entry(Net(s), NoHop, host_side)
             y == Entry(0, NoHop, internet_side)
             z == Entry(Net(Peer(s)), InternetSide(Peer(s)), internet_side)
  <2>1. \A t, prefix, hop, num :
            add_route(R(t), prefix, 2, hop, num) = R(Append(t, Entry(prefix, hop, num)))
    <3> DEFINE cards == <<c, e>>
    <3> HIDE DEF cards
    <3>1. \A t, u : [[interfaces |-> cards, routing_table |-> t] EXCEPT !.routing_table = u]
                    = [interfaces |-> cards, routing_table |-> u]
      BY ONLY TRUE
    <3>2. \A t, u : [R(t) EXCEPT !.routing_table = u] = R(u)
      BY Zenon, <3>1 DEF cards
    <3> TAKE t, prefix, hop, num
    <3> DEFINE x1 == Entry(prefix, hop, num)
    <3>3. add_route(R(t), prefix, 2, hop, num) = [R(t) EXCEPT !.routing_table = Append(@, x1)]
      BY Zenon DEF add_route, Entry
    <3>4. R(t).routing_table = t
      BY Zenon
    <3> HIDE DEF R, x1
    <3>5. [R(t) EXCEPT !.routing_table = Append(@, x1)] = R(Append(t, x1))
      <4>1. [R(t) EXCEPT !.routing_table = Append(R(t).routing_table, x1)]
            = R(Append(R(t).routing_table, x1))
        BY Zenon, <3>2
      <4> QED BY Zenon, <3>4, <4>1
    <3> QED BY Zenon, <3>3, <3>5 DEF x1
  <2>2. NewRouter(<<c, e>>) = R(<<>>)
    BY Zenon DEF NewRouter
  <2>3. Append(Append(Append(<<>>, x), y), z) = <<x, y, z>>
    <3> HIDE DEF x, y, z
    <3>1. Append(<<>>, x) = <<x>>
      OBVIOUS
    <3> QED BY Zenon, <3>1, ThreeEntries
  <2>4. Rt(s, c, e) = R(<<x, y, z>>)
    BY Zenon DEF Rt, Table
  <2> HIDE DEF R
  <2>5. SiteRouter(s, beyond) = R(Append(Append(Append(<<>>, x), y), z))
    <3>1. SiteRouter(s, beyond)
          = add_route(add_route(add_route(NewRouter(<<c, e>>), Net(s), 2, NoHop, host_side),
                                0, 2, NoHop, internet_side),
                      Net(Peer(s)), 2, InternetSide(Peer(s)), internet_side)
      BY Zenon DEF SiteRouter, c, e
    <3>2. add_route(R(<<>>), Net(s), 2, NoHop, host_side) = R(Append(<<>>, x))
      BY Zenon, <2>1
    <3>3. add_route(R(Append(<<>>, x)), 0, 2, NoHop, internet_side) = R(Append(Append(<<>>, x), y))
      BY Zenon, <2>1
    <3>4. add_route(R(Append(Append(<<>>, x), y)), Net(Peer(s)), 2, InternetSide(Peer(s)), internet_side)
          = R(Append(Append(Append(<<>>, x), y), z))
      BY Zenon, <2>1
    <3> HIDE DEF x, y, z
    <3> QED BY Zenon, <2>2, <3>1, <3>2, <3>3, <3>4
  <2> QED BY Zenon, <2>3, <2>4, <2>5
<1> QED BY Zenon, <1>1 DEF c, e

\* The first datagrams to the relay carry nothing.
LEMMA HellosOK ==
  ASSUME NEW s \in Sites, NEW B, NEW E
  PROVE  LET q == [i \in 1 .. Hellos |-> Hello]
         IN  q \in Seq(Out(s, B) \cup {Hello}) /\ Under(q, E) = 0
<1> DEFINE q == [i \in 1 .. Hellos |-> Hello]
           T == Out(s, B) \cup {Hello}
<1>1. Hello \in T /\ Hellos \in Nat
  BY Zenon, Lab7Assumption
<1>2. Hello \notin Carrying(E)
  BY Zenon, <1>1, CarriesNothing
<1> HIDE DEF T
<1>3. q \in Seq(T)
  BY <1>1
<1>4. {i \in DOMAIN q : q[i] \in Carrying(E)} = {}
  BY Zenon, <1>2
<1>5. Under(q, E) = 0
  BY Zenon, <1>4, FS_EmptySet DEF Under, Count
<1> QED BY Zenon, <1>3, <1>5 DEF T

\* At the start there is no datagram.
LEMMA InitOK ==
  ASSUME Init
  PROVE  NetInv /\ \A E : Copies(E) = 0
<1>1. /\ behind \in Beyond
      /\ host = [s \in Sites |-> NewCard(HostIP(s), behind)]
      /\ router = [s \in Sites |-> SiteRouter(s, behind)]
  BY Zenon DEF Init
<1>2. /\ to_router = [s \in Sites |-> <<>>] /\ to_host = [s \in Sites |-> <<>>]
      /\ to_relay = [s \in Sites |-> [i \in 1 .. Hellos |-> Hello]]
      /\ from_relay = [s \in Sites |-> <<>>] /\ peers = {}
      /\ sent = [s \in Sites |-> 0] /\ got = [s \in Sites |-> <<>>]
  BY Zenon DEF Init
<1>3. behind \in Int
  BY Zenon, <1>1, Lab7Assumption
<1>4. ASSUME NEW s \in Sites
      PROVE  SiteAt(s) /\ \A E : TotalAt(s, E) = 0
  <2> DEFINE h == NewCard(HostIP(s), behind)
             c == NewCard(HostSide(s), behind)
             e == NewCard(InternetSide(s), behind)
             B == Heard(s, peers)
             q == [i \in 1 .. Hellos |-> Hello]
  <2>1. /\ host[s] = h /\ router[s] = Rt(s, c, e) /\ to_router[s] = <<>> /\ to_host[s] = <<>>
        /\ to_relay[s] = q /\ from_relay[s] = <<>> /\ sent[s] = 0 /\ got[s] = <<>>
    BY Zenon, <1>1, <1>2, NewRouterOK
  <2>2. /\ Fresh(h, behind, HostIP(s), HostSide(s), {HostSide(s)}, Dg(s))
        /\ Fresh(c, behind, HostSide(s), HostIP(s), {HostIP(s)}, Dg(Peer(s)))
        /\ Fresh(e, behind, InternetSide(s), InternetSide(Peer(s)), B, Dg(s))
    BY Zenon, <1>3, NewCardOK
  <2>3. q \in Seq(Out(s, B) \cup {Hello}) /\ \A E : Under(q, E) = 0
    BY Zenon, HellosOK
  <2> HIDE DEF h, c, e, q
  <2>4. B \in SUBSET {InternetSide(Peer(s))}
    BY Zenon DEF Heard
  <2> HIDE DEF B
  <2>5. HostOK(s, behind, h)
    BY Zenon, <2>2 DEF HostOK, Fresh
  <2>6. RouterOK(s, B, behind, Rt(s, c, e))
    BY Zenon, <2>2, <2>4 DEF RouterOK, Ports, Fresh
  <2>7. /\ <<>> \in Seq(Up(s)) /\ <<>> \in Seq(Down(s))
        /\ <<>> \in Seq(Out(Peer(s), {InternetSide(s)})) /\ <<>> \in Seq(Dg(Peer(s))) /\ 0 \in Nat
    OBVIOUS
  <2>8. SiteAt(s)
    BY Zenon, <2>1, <2>3, <2>5, <2>6, <2>7 DEF SiteAt, SiteOK, B
  <2>9. ASSUME NEW E PROVE TotalAt(s, E) = 0
    <3>1. Load(h, E) = 0 /\ Load(c, E) = 0 /\ Load(e, E) = 0
      BY Zenon, <2>2 DEF Fresh
    <3>2. 0 + 0 = 0
      OBVIOUS
    <3>3. Held(Rt(s, c, e), E) = Load(c, E) + Load(e, E)
      BY ONLY HeldOK
    <3>4. Count(<<>>, E) = 0 /\ Under(<<>>, E) = 0
      BY Zenon, CountNone DEF Under
    <3> QED BY Zenon, <2>1, <2>3, <3>1, <3>2, <3>3, <3>4 DEF TotalAt, Total
  <2> QED BY Zenon, <2>8, <2>9
<1>5. NetInv
  <2>1. behind \in Int
    BY Zenon, <1>3
  <2>2. /\ DOMAIN host = Sites /\ DOMAIN router = Sites
        /\ DOMAIN to_router = Sites /\ DOMAIN to_host = Sites
        /\ DOMAIN to_relay = Sites /\ DOMAIN from_relay = Sites
        /\ DOMAIN got = Sites /\ DOMAIN sent = Sites
    BY Zenon, <1>1, <1>2
  <2>3. \A s \in Sites : SiteAt(s)
    BY Zenon, <1>4
  <2> QED BY Zenon, <2>1, <2>2, <2>3 DEF NetInv, SiteAt
<1>6. ASSUME NEW E PROVE Copies(E) = 0
  <2>1. ASSUME NEW s \in Sites PROVE CopiesAt(s, E) = 0
    <3>1. CopiesAt(s, E) = TotalAt(s, E)
      BY Zenon, <1>5, CopiesOK DEF TotalAt
    <3> QED BY Zenon, <1>4, <3>1
  <2>2. CopiesAt(Client, E) = 0 /\ CopiesAt(Server, E) = 0
    BY Zenon, <2>1 DEF Sites
  <2> QED BY ONLY <2>2 DEF Copies
<1> QED BY Zenon, <1>5, <1>6

-----------------------------------------------------------------------------
\* How often there is each datagram, sent or not, and how many there are.
AnyDatagram == [src : Int, dst : Int, ttl : Int, id : Int]
Tally ==
    /\ \A s \in Sites : \A i \in Nat \ {0} : Copies({Datagram(s, i)}) = One(i <= sent[s])
    /\ Copies(AnyDatagram) = sent[Client] + sent[Server]

\* Datagram i of site s is datagram j of site t only if they are the same.
Differ(s, i, t, j) ==
    /\ Datagram(s, i) = Datagram(t, j) <=> s = t /\ i = j
    /\ Datagram(s, i) \in AnyDatagram

\* The hosts' datagrams can be told apart.
LEMMA DatagramsDiffer ==
  ASSUME NEW s \in Sites, NEW i \in Nat, NEW t \in Sites, NEW j \in Nat
  PROVE  Differ(s, i, t, j)
<1>1. HostIP(s) = HostIP(t) => s = t
  BY Lab7Assumption DEF Sites, HostIP, Net
<1>2. HostIP(s) \in Int /\ HostIP(Peer(s)) \in Int
  BY Zenon, SiteFacts
<1>3. Datagram(s, i) = Datagram(t, j) => HostIP(s) = HostIP(t) /\ i = j
  <2>1. /\ Datagram(s, i).src = HostIP(s) /\ Datagram(t, j).src = HostIP(t)
        /\ Datagram(s, i).id = i /\ Datagram(t, j).id = j
    BY DEF Datagram
  <2> QED BY Zenon, <2>1
<1>4. Datagram(s, i) \in AnyDatagram
  BY <1>2 DEF Datagram, AnyDatagram
<1> QED BY Zenon, <1>1, <1>3, <1>4 DEF Differ

\* The numbers of a step that sends nothing.
LEMMA TallyKept ==
  ASSUME NetInv, Tally, Adds({}), sent' = sent
  PROVE  Tally'
<1>1. ASSUME NEW E, Copies(E) \in Nat PROVE Copies(E)' = Copies(E)
  <2>1. Copies(E)' = Copies(E) + One({} \cap E # {})
    BY Zenon DEF Adds
  <2>2. One({} \cap E # {}) = 0
    <3>1. ~({} \cap E # {})
      BY Zenon
    <3> QED BY Zenon, <3>1 DEF One
  <2>3. Copies(E) + 0 = Copies(E)
    BY ONLY <1>1
  <2> QED BY Zenon, <2>1, <2>2, <2>3
<1>2. ASSUME NEW s \in Sites, NEW i \in Nat \ {0}
      PROVE  Copies({Datagram(s, i)})' = One(i <= sent'[s])
  <2>1. Copies({Datagram(s, i)}) = One(i <= sent[s]) /\ One(i <= sent[s]) \in Nat
    BY Zenon, OneType DEF Tally
  <2> QED BY Zenon, <1>1, <2>1
<1>3. Copies(AnyDatagram)' = sent'[Client] + sent'[Server]
  <2>1. sent[Client] \in Nat /\ sent[Server] \in Nat
    BY Zenon DEF NetInv, SiteOK, Sites
  <2>2. sent[Client] + sent[Server] \in Nat
    BY ONLY <2>1
  <2>3. Copies(AnyDatagram) \in Nat
    BY Zenon, <2>2 DEF Tally
  <2> QED BY Zenon, <1>1, <2>3 DEF Tally
<1>4. \A s \in Sites : \A i \in Nat \ {0} : Copies({Datagram(s, i)})' = One(i <= sent'[s])
  BY Zenon, <1>2
<1> QED BY Zenon, <1>3, <1>4 DEF Tally, AnyDatagram, Datagram, HostIP, Net

\* And of one that sends a datagram.
LEMMA TallyWrite ==
  ASSUME NetInv, Tally, NEW s \in Sites, Adds({Datagram(s, sent[s] + 1)}),
         sent' = [sent EXCEPT ![s] = @ + 1]
  PROVE  Tally'
<1> DEFINE n == sent[s]
           z == Datagram(s, n + 1)
<1>1. DOMAIN sent = Sites /\ \A t \in Sites : sent[t] \in Nat
  BY Zenon DEF NetInv, SiteOK
<1>2. sent'[s] = n + 1 /\ n \in Nat /\ n + 1 \in Nat /\ \A t \in Sites : t # s => sent'[t] = sent[t]
  BY <1>1
<1>3. \A E : Copies(E)' = Copies(E) + One({z} \cap E # {})
  BY Zenon DEF Adds
<1>4. ASSUME NEW t \in Sites, NEW i \in Nat \ {0}
      PROVE  Copies({Datagram(t, i)})' = One(i <= sent'[t])
  <2>1. Copies({Datagram(t, i)}) = One(i <= sent[t])
    BY Zenon DEF Tally
  <2>2. i \in Nat
    BY Zenon
  <2> HIDE DEF n
  <2>3. z = Datagram(t, i) <=> s = t /\ n + 1 = i
    <3>1. Differ(s, n + 1, t, i)
      BY Zenon, <1>2, <2>2, DatagramsDiffer
    <3> QED BY Zenon, <3>1 DEF Differ
  <2>4. {z} \cap {Datagram(t, i)} # {} <=> s = t /\ n + 1 = i
    <3> HIDE DEF z
    <3> QED BY ONLY Zenon, <2>3
  <2>5. Copies({Datagram(t, i)})' = One(i <= sent[t]) + One(s = t /\ n + 1 = i)
    <3>1. One({z} \cap {Datagram(t, i)} # {}) = One(s = t /\ n + 1 = i)
      BY Zenon, <2>4 DEF One
    <3> QED BY Zenon, <1>3, <2>1, <3>1
  <2>6. sent[t] \in Nat
    BY Zenon, <1>1
  <2>7. One(i <= sent[t]) + One(s = t /\ n + 1 = i) = One(i <= sent'[t])
    <3>1. CASE t # s
      <4>1. sent'[t] = sent[t]
        BY Zenon, <1>2, <3>1
      <4> QED BY <3>1, <4>1 DEF One
    <3>2. CASE t = s
      <4>1. sent'[t] = n + 1 /\ sent[t] = n
        BY Zenon, <1>2, <3>2 DEF n
      <4> QED BY <1>2, <2>2, <3>2, <4>1 DEF One
    <3> QED BY Zenon, <3>1, <3>2
  <2> QED BY Zenon, <2>5, <2>7
<1>5. Copies(AnyDatagram)' = sent'[Client] + sent'[Server]
  <2>1. z \in AnyDatagram
    <3>1. Differ(s, n + 1, s, n + 1)
      BY Zenon, <1>2, DatagramsDiffer
    <3> QED BY Zenon, <3>1 DEF Differ
  <2>2. One({z} \cap AnyDatagram # {}) = 1
    <3> HIDE DEF z
    <3>1. {z} \cap AnyDatagram # {}
      BY ONLY Zenon, <2>1
    <3> QED BY ONLY Zenon, <3>1 DEF One
  <2>3. Copies(AnyDatagram)' = (sent[Client] + sent[Server]) + 1
    BY Zenon, <1>3, <2>2 DEF Tally
  <2>4. /\ sent[Client] \in Nat /\ sent[Server] \in Nat
        /\ \/ sent'[Client] = sent[Client] + 1 /\ sent'[Server] = sent[Server]
           \/ sent'[Client] = sent[Client] /\ sent'[Server] = sent[Server] + 1
    <3>1. Client \in Sites /\ Server \in Sites /\ Client # Server
      BY Zenon, Lab7Assumption DEF Sites
    <3>2. s = Client \/ s = Server
      BY Zenon DEF Sites
    <3> QED BY Zenon, <1>1, <1>2, <3>1, <3>2
  <2> QED BY ONLY <2>3, <2>4
<1>6. \A t \in Sites : \A i \in Nat \ {0} : Copies({Datagram(t, i)})' = One(i <= sent'[t])
  BY Zenon, <1>4
<1> QED BY Zenon, <1>5, <1>6 DEF Tally, AnyDatagram, Datagram, HostIP, Net

-----------------------------------------------------------------------------
\* Every step of the network keeps both.
LEMMA NextOK ==
  ASSUME NetInv, Tally, [Next]_vars
  PROVE  NetInv' /\ Tally'
<1>1. CASE UNCHANGED vars
  <2>1. /\ host' = host /\ router' = router /\ to_router' = to_router /\ to_host' = to_host
        /\ to_relay' = to_relay /\ from_relay' = from_relay /\ peers' = peers /\ sent' = sent
        /\ got' = got /\ behind' = behind
    BY Zenon, <1>1 DEF vars
  <2>2. NetInv'
    BY Zenon, <2>1 DEF NetInv
  <2>3. \A E : Copies(E)' = Copies(E)
    BY Zenon, <2>1 DEF Copies, CopiesAt
  <2>4. Tally'
    BY Zenon, <2>1, <2>3 DEF Tally, AnyDatagram, Datagram, HostIP, Net
  <2> QED BY Zenon, <2>2, <2>4
<1>2. ASSUME NEW s \in Sites, Write(s) PROVE NetInv' /\ Tally'
  <2>1. NetInv' /\ Adds({Datagram(s, sent[s] + 1)})
    BY Zenon, <1>2, WriteStep
  <2>2. sent' = [sent EXCEPT ![s] = @ + 1]
    BY Zenon, <1>2 DEF Write
  <2> QED BY Zenon, <2>1, <2>2, TallyWrite
<1>3. ASSUME NetInv' /\ Adds({}), sent' = sent PROVE NetInv' /\ Tally'
  BY Zenon, <1>3, TallyKept
<1>4. ASSUME NEW s \in Sites, Read(s) PROVE NetInv' /\ Tally'
  <2>1. sent' = sent
    BY Zenon, <1>4 DEF Read
  <2> QED BY Zenon, <1>3, <1>4, <2>1, ReadStep
<1>5. ASSUME NEW s \in Sites, HostToRouter(s) PROVE NetInv' /\ Tally'
  <2>1. sent' = sent
    BY Zenon, <1>5 DEF HostToRouter
  <2> QED BY Zenon, <1>3, <1>5, <2>1, HostToRouterStep
<1>6. ASSUME NEW s \in Sites, RouterToHost(s) PROVE NetInv' /\ Tally'
  <2>1. sent' = sent
    BY Zenon, <1>6 DEF RouterToHost
  <2> QED BY Zenon, <1>3, <1>6, <2>1, RouterToHostStep
<1>7. ASSUME NEW s \in Sites, RouterToInternet(s) PROVE NetInv' /\ Tally'
  <2>1. sent' = sent
    BY Zenon, <1>7 DEF RouterToInternet
  <2> QED BY Zenon, <1>3, <1>7, <2>1, RouterToInternetStep
<1>8. ASSUME NEW s \in Sites, Relay(s) PROVE NetInv' /\ Tally'
  <2>1. sent' = sent
    BY Zenon, <1>8 DEF Relay
  <2> QED BY Zenon, <1>3, <1>8, <2>1, RelayStep
<1>9. ASSUME NEW s \in Sites, InternetToRouter(s) PROVE NetInv' /\ Tally'
  <2>1. sent' = sent
    BY Zenon, <1>9 DEF InternetToRouter
  <2> QED BY Zenon, <1>3, <1>9, <2>1, InternetToRouterStep
<1>10. ASSUME NEW s \in Sites, HostTick(s) PROVE NetInv' /\ Tally'
  <2>1. sent' = sent
    BY Zenon, <1>10 DEF HostTick
  <2> QED BY Zenon, <1>3, <1>10, <2>1, HostTickStep
<1>11. ASSUME NEW s \in Sites, RouterTick(s) PROVE NetInv' /\ Tally'
  <2>1. sent' = sent
    BY Zenon, <1>11 DEF RouterTick
  <2> QED BY Zenon, <1>3, <1>11, <2>1, RouterTickStep
<1> QED BY Zenon, <1>1, <1>2, <1>4, <1>5, <1>6, <1>7, <1>8, <1>9, <1>10, <1>11 DEF Next

\* The inductive invariant of lab7: every interface, router and queue of the two sites has
\* only the frames, entries and datagrams that can be there, and the datagrams are counted.
THEOREM NetworkInvariant == Spec => [](NetInv /\ Tally)
<1>1. Init => NetInv /\ Tally
  <2> SUFFICES ASSUME Init PROVE NetInv /\ Tally
    OBVIOUS
  <2>1. NetInv /\ \A E : Copies(E) = 0
    BY Zenon, InitOK
  <2>2. sent = [s \in Sites |-> 0]
    BY Zenon DEF Init
  <2>3. ASSUME NEW s \in Sites, NEW i \in Nat \ {0} PROVE One(i <= sent[s]) = 0
    <3>1. ~(i <= sent[s])
      BY <2>2
    <3> QED BY Zenon, <3>1 DEF One
  <2>4. sent[Client] + sent[Server] = 0
    BY <2>2 DEF Sites
  <2> QED BY Zenon, <2>1, <2>3, <2>4 DEF Tally
<1>2. NetInv /\ Tally /\ [Next]_vars => (NetInv /\ Tally)'
  BY Zenon, NextOK
<1> QED BY <1>1, <1>2, PTL DEF Spec

\* Of every datagram the hosts have sent there is exactly one copy in the lists and queues
\* of the interfaces, the routers, the relay and the hosts, and there are no others: what
\* waits for an address is neither lost nor sent twice, however often the address is asked
\* for, found, forgotten and found again, for any number of datagrams, any clocks and
\* whatever lies behind the request lists.
THEOREM LabKeepsDatagrams == Spec => []OneCopyOfEach
<1>1. NetInv /\ Tally => OneCopyOfEach
  <2> SUFFICES ASSUME NetInv, Tally PROVE OneCopyOfEach
    OBVIOUS
  <2>1. ASSUME NEW s \in Sites, NEW i \in 1 .. sent[s] PROVE Copies({Datagram(s, i)}) = 1
    <3>1. sent[s] \in Nat
      BY Zenon DEF NetInv, SiteOK
    <3>2. i \in Nat \ {0} /\ i <= sent[s]
      BY <3>1
    <3>3. Copies({Datagram(s, i)}) = One(i <= sent[s])
      BY Zenon, <3>2 DEF Tally
    <3> QED BY Zenon, <3>2, <3>3 DEF One
  <2> QED BY Zenon, <2>1 DEF OneCopyOfEach, Tally, AnyDatagram
<1> QED BY <1>1, NetworkInvariant, PTL

\* Where nothing behind the request list passes for a recent request, every datagram that
\* waits at an interface waits for an address its interface has asked for.
THEOREM LabAsks == Spec => []AskedUnlessBeyond
<1>1. NetInv => AskedUnlessBeyond
  <2> SUFFICES ASSUME NetInv, NEW n \in Cards PROVE WellAsked(n, behind)
    BY Zenon DEF AskedUnlessBeyond, WellAsked
  <2>1. ASSUME NEW s \in Sites
        PROVE  /\ WellAsked(host[s], behind)
               /\ \A i \in {1, 2} : WellAsked(router[s].interfaces[i], behind)
    <3>1. HostOK(s, behind, host[s]) /\ RouterOK(s, Heard(s, peers), behind, router[s])
      BY Zenon DEF NetInv, SiteOK
    <3>2. PICK c, e : router[s] = Rt(s, c, e) /\ WellAsked(c, behind) /\ WellAsked(e, behind)
      BY Zenon, <3>1 DEF RouterOK
    <3>3. router[s].interfaces[1] = c /\ router[s].interfaces[2] = e
      BY <3>2 DEF Rt
    <3> QED BY Zenon, <3>1, <3>2, <3>3 DEF HostOK
  <2>2. \/ \E s \in Sites : n = host[s]
        \/ \E s \in Sites, i \in {1, 2} : n = router[s].interfaces[i]
    BY DEF Cards
  <2>3. \A s \in Sites, i \in {1, 2} : WellAsked(router[s].interfaces[i], behind)
    BY Zenon, <2>1
  <2> QED BY Zenon, <2>1, <2>2, <2>3
<1> QED BY <1>1, NetworkInvariant, PTL
=============================================================================
