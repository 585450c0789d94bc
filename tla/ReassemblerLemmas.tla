------------------------- MODULE ReassemblerLemmas -------------------------
(***************************************************************************)
(* Every operation of StreamReassembler keeps the store sorted, with the   *)
(* bytes its indices name.                                                 *)
(***************************************************************************)
EXTENDS ReassemblerInvariant, FiniteSetTheorems, WellFoundedInduction, TLAPS

USE SMTT(20), ZenonT(20)

-----------------------------------------------------------------------------
(* Induction and recursion over natural numbers.  The library's induction theorems     *)
(* have an operator for the predicate, which no backend instantiates; these have a set. *)

\* Every non-empty set of natural numbers has a least element.
LEMMA NatMin ==
  ASSUME NEW T, T \subseteq Nat, T # {}
  PROVE  \E x \in T : \A y \in T : x <= y
<1> DEFINE R == OpToRel(<, Nat)
<1>1. IsWellFoundedOn(R, Nat)
  BY Zenon, NatLessThanWellFounded
<1>2. \A x, y \in Nat : x < y => <<x, y>> \in R
  BY DEF OpToRel
<1> HIDE DEF R
<1>3. PICK x \in T : \A y \in T : ~ (<<y, x>> \in R)
  BY Zenon, <1>1, WFMin
<1>4. ASSUME NEW y \in T PROVE x <= y
  <2>1. x \in Nat /\ y \in Nat
    OBVIOUS
  <2>2. ~(y < x)
    BY Zenon, <2>1, <1>2, <1>3
  <2> QED BY <2>1, <2>2
<1> QED BY <1>4

\* Induction up to a bound, for a set in the place of a predicate.
LEMMA InductUpTo ==
  ASSUME NEW N \in Nat, NEW S, 0 \in S, \A n \in 0 .. N - 1 : n \in S => n + 1 \in S
  PROVE  0 .. N \subseteq S
<1> DEFINE T == (0 .. N) \ S
<1> SUFFICES ASSUME T # {} PROVE FALSE
  OBVIOUS
<1>1. PICK x \in T : \A y \in T : x <= y
  <2>1. T \subseteq Nat
    OBVIOUS
  <2> HIDE DEF T
  <2> QED BY Zenon, <2>1, NatMin
<1>2. x # 0 /\ x - 1 \in 0 .. N - 1 /\ x - 1 \notin T
  BY <1>1
<1>3. x - 1 \in S
  BY <1>2
<1>4. (x - 1) + 1 \in S
  BY <1>2, <1>3
<1>5. (x - 1) + 1 = x
  BY <1>1
<1> QED BY <1>1, <1>4, <1>5

\* g has the first value a and, up to N, takes the next value from h.
Recursion(g, N, V, a, h) ==
    /\ g \in [0 .. N -> V] /\ g[0] = a
    /\ \A i \in 1 .. N : g[i] = h[<<g[i - 1], i>>]

\* A function can be defined by recursion up to a bound: from its first value and what
\* takes each value to the next.
LEMMA RecurseUpTo ==
  ASSUME NEW N \in Nat, NEW V, NEW a, NEW h, a \in V, h \in [V \X (1 .. N) -> V]
  PROVE  \E g : Recursion(g, N, V, a, h)
<1> DEFINE Defined(g, n) == g[0] = a /\ \A i \in 1 .. n : g[i] = h[<<g[i - 1], i>>]
           S == {n \in 0 .. N : \E g \in [0 .. n -> V] : Defined(g, n)}
<1>1. 0 \in S
  <2> DEFINE g == [i \in 0 .. 0 |-> a]
  <2>1. g \in [0 .. 0 -> V] /\ g[0] = a /\ 0 \in 0 .. N
    OBVIOUS
  <2> HIDE DEF g
  <2>2. Defined(g, 0)
    BY <2>1
  <2> QED BY <2>1, <2>2
<1>2. ASSUME NEW n \in 0 .. N - 1, n \in S PROVE n + 1 \in S
  <2>1. PICK g \in [0 .. n -> V] : Defined(g, n)
    BY <1>2
  <2> DEFINE f == [i \in 0 .. n + 1 |-> IF i = n + 1 THEN h[<<g[n], n + 1>>] ELSE g[i]]
  <2>2. n + 1 \in 1 .. N /\ g[n] \in V
    BY <1>2
  <2>3. h[<<g[n], n + 1>>] \in V
    BY <2>2
  <2>4. f \in [0 .. n + 1 -> V]
    BY <2>3
  <2>5. f[0] = a
    BY <2>1
  <2>6. ASSUME NEW i \in 1 .. n + 1 PROVE f[i] = h[<<f[i - 1], i>>]
    <3>1. CASE i = n + 1
      <4>1. f[i] = h[<<g[n], i>>] /\ f[i - 1] = g[n]
        BY <3>1
      <4> QED BY Zenon, <4>1
    <3>2. CASE i # n + 1
      <4>1. f[i] = g[i] /\ f[i - 1] = g[i - 1] /\ i \in 1 .. n
        BY <3>2
      <4> QED BY <4>1, <2>1
    <3> QED BY <3>1, <3>2
  <2> HIDE DEF f
  <2>7. n + 1 \in 0 .. N
    BY <1>2
  <2> QED BY <2>4, <2>5, <2>6, <2>7
<1>3. N \in S
  <2> HIDE DEF S
  <2>1. 0 .. N \subseteq S
    BY <1>1, <1>2, InductUpTo
  <2> QED BY <2>1
<1> QED BY <1>3 DEF Recursion

\* The part of a sequence after its first m elements and up to its n-th.
LEMMA SliceAt ==
  ASSUME NEW S, NEW q \in Seq(S), NEW m \in Nat, NEW n \in Nat, m <= n, n <= Len(q)
  PROVE  /\ SubSeq(q, m + 1, n) \in Seq(S)
         /\ Len(SubSeq(q, m + 1, n)) = n - m
         /\ \A j \in 1 .. n - m : SubSeq(q, m + 1, n)[j] = q[m + j]
OBVIOUS

-----------------------------------------------------------------------------
(* One stored piece and the new one. *)

\* size_t does not wrap for numbers below SizeMod.
LEMMA SizeIsSame ==
  ASSUME NEW m \in Nat, SizeMod \in Nat, m < SizeMod
  PROVE  Size(m) = m
<1>1. m \in 0 .. SizeMod - 1 /\ m = SizeMod * 0 + m /\ SizeMod > 0
  OBVIOUS
<1> QED BY <1>1 DEF Size

\* A good piece is not empty and ends where its data ends.
LEMMA GoodPieceFacts ==
  ASSUME NEW n \in Nat, NEW t, GoodPiece(t, n)
  PROVE  /\ t.first \in Nat /\ t.last \in Nat /\ t.first <= t.last /\ t.last < n
         /\ Len(t.data) = t.last + 1 - t.first
<1>1. t.first \in Nat /\ t.last \in Nat /\ t.data \in Seq(Nat) /\ t.data # <<>>
      /\ t.last = t.first + Len(t.data) - 1 /\ t.last < n
  BY DEF GoodPiece, Pieces
<1>2. Len(t.data) \in Nat /\ Len(t.data) # 0
  BY <1>1
<1> QED BY <1>1, <1>2

\* Its data are a sequence of numbers.
LEMMA GoodPieceData ==
  ASSUME NEW n \in Nat, NEW t, GoodPiece(t, n)
  PROVE  t.data \in Seq(Nat) /\ \A j \in 1 .. Len(t.data) : t.data[j] = t.first + j - 1
BY DEF GoodPiece, Pieces

\* Precedes and Follows mean what they say.
LEMMA PrecedesFollows ==
  ASSUME NEW n \in Nat, SizeMod \in Nat, n < SizeMod, NEW t, NEW p,
         GoodPiece(t, n), GoodPiece(p, n)
  PROVE  (Precedes(t, p) <=> Apart(t, p)) /\ (Follows(t, p) <=> Apart(p, t))
<1>1. /\ t.first \in Nat /\ t.last \in Nat
      /\ Len(t.data) = t.last + 1 - t.first /\ t.last < n
      /\ p.last \in Nat /\ p.last < n
  BY GoodPieceFacts
<1>2. Size(t.first + Len(t.data)) = t.last + 1
  <2>1. t.first + Len(t.data) = t.last + 1 /\ t.last + 1 \in Nat /\ t.last + 1 < SizeMod
    BY <1>1
  <2> QED BY <2>1, SizeIsSame
<1>3. Size(p.last + 1) = p.last + 1
  <2>1. p.last + 1 \in Nat /\ p.last + 1 < SizeMod
    BY <1>1
  <2> QED BY <2>1, SizeIsSame
<1> QED BY <1>2, <1>3 DEF Precedes, Follows, Apart

\* Two pieces, the second of which starts inside or right behind the first and ends no
\* earlier, put together.
LEMMA GlueGood ==
  ASSUME NEW n \in Nat, NEW t, NEW p, GoodPiece(t, n), GoodPiece(p, n),
         t.first <= p.first, p.first <= t.last + 1, t.last <= p.last
  PROVE  LET g == Piece(t.first, p.last, t.data \o suffix(p.data, t.last + 1 - p.first))
         IN  /\ t.last + 1 - p.first \in 0 .. Len(p.data)
             /\ GoodPiece(g, n)
             /\ Span(g) = Span(t) \cup Span(p)
<1> DEFINE k == t.last + 1 - p.first
           d == suffix(p.data, k)
           g == Piece(t.first, p.last, t.data \o d)
           x == Len(t.data)
           y == Len(p.data)
<1>1. /\ t.first \in Nat /\ t.last \in Nat /\ t.first <= t.last
      /\ p.first \in Nat /\ p.last \in Nat /\ p.first <= p.last /\ p.last < n
      /\ x = t.last + 1 - t.first /\ y = p.last + 1 - p.first
  BY GoodPieceFacts
<1>2. t.data \in Seq(Nat) /\ p.data \in Seq(Nat)
  BY GoodPieceData
<1> HIDE DEF x, y
<1>3. k = t.last + 1 - p.first /\ k \in 0 .. y /\ x \in Nat /\ y \in Nat
  BY <1>1
<1> HIDE DEF k
<1>4. d \in Seq(Nat) /\ Len(d) = y - k /\ \A j \in 1 .. y - k : d[j] = p.data[k + j]
  <2>1. k \in Nat /\ k <= y /\ y <= Len(p.data) /\ y \in Nat
    BY <1>3 DEF y
  <2>2. d = SubSeq(p.data, k + 1, y)
    BY DEF suffix, y
  <2> HIDE DEF d
  <2> QED BY <1>2, <2>1, <2>2, SliceAt
<1>5. g.first = t.first /\ g.last = p.last
  BY DEF Piece
<1>6. g.data = t.data \o d
  BY Zenon DEF Piece
<1> DEFINE z == Len(d)
<1> HIDE DEF d
<1>7. /\ t.data \o d \in Seq(Nat) /\ Len(t.data \o d) = Len(t.data) + Len(d)
      /\ \A j \in 1 .. Len(t.data) + Len(d) :
            (t.data \o d)[j] = IF j <= Len(t.data) THEN t.data[j] ELSE d[j - Len(t.data)]
  <2>1. t.data \in Seq(Nat) /\ d \in Seq(Nat)
    BY <1>2, <1>4
  <2> QED BY ONLY <2>1
<1>8. /\ g.data \in Seq(Nat) /\ Len(g.data) = x + z
      /\ \A j \in 1 .. x + z : g.data[j] = IF j <= x THEN t.data[j] ELSE d[j - x]
  <2>1. g.data = t.data \o d
    BY <1>6
  <2> HIDE DEF g
  <2> QED BY <1>7, <2>1 DEF x
<1>9. g \in Pieces
  <2>1. t.data \o d \in Seq(Nat)
    BY <1>7
  <2> QED BY <1>1, <2>1 DEF Piece, Pieces
<1> HIDE DEF g
<1>10. z = y - k
  BY <1>4
<1> HIDE DEF z
<1>11. x + z = p.last + 1 - t.first
  BY <1>1, <1>3, <1>10
<1>12. g.data # <<>> /\ g.last = g.first + Len(g.data) - 1 /\ g.last < n
  <2>1. x + z > 0 /\ p.last = t.first + (x + z) - 1
    BY <1>1, <1>11
  <2>2. g.data # <<>>
    BY <2>1, <1>8
  <2> QED BY <2>1, <2>2, <1>1, <1>5, <1>8
<1>13. p.first + k = t.first + x
  BY <1>1, <1>3
<1>14. ASSUME NEW j \in 1 .. x + z PROVE g.data[j] = g.first + j - 1
  <2>1. j \in 1 .. x + z /\ j \in Int
    BY <1>3, <1>10
  <2>2. CASE j <= x
    <3>1. j \in 1 .. x
      BY <1>3, <2>1, <2>2
    <3>2. g.data[j] = t.data[j]
      BY <2>1, <2>2, <1>8
    <3>3. t.data[j] = t.first + j - 1
      BY <3>1, GoodPieceData DEF x
    <3> QED BY <3>2, <3>3, <1>5
  <2>3. CASE ~(j <= x)
    <3> DEFINE i == j - x
    <3>1. i \in 1 .. y - k /\ k + i \in 1 .. y /\ p.first + (k + i) - 1 = t.first + j - 1
      <4>1. x \in Nat /\ y \in Nat /\ k \in 0 .. y
        BY <1>3
      <4>2. i \in Int /\ i >= 1 /\ i <= z /\ z \in Int
        BY <4>1, <1>10, <2>1, <2>3
      <4>3. i \in 1 .. y - k
        BY <4>2, <1>10
      <4>4. k + i \in 1 .. y
        BY <4>1, <4>3
      <4>5. p.first + (k + i) - 1 = t.first + j - 1
        <5>1. k \in Int /\ p.first \in Int /\ t.first \in Int
          BY <4>1, <1>1
        <5> QED BY <4>1, <5>1, <1>13, <2>1
      <4> QED BY <4>3, <4>4, <4>5
    <3>2. g.data[j] = d[i]
      BY <2>1, <2>3, <1>8
    <3> HIDE DEF i
    <3>3. d[i] = p.data[k + i]
      BY <1>4, <3>1
    <3>4. p.data[k + i] = p.first + (k + i) - 1
      BY <3>1, GoodPieceData DEF y
    <3> QED BY <3>1, <3>2, <3>3, <3>4, <1>5
  <2> QED BY <2>2, <2>3
<1>15. GoodPiece(g, n)
  BY <1>8, <1>9, <1>12, <1>14 DEF GoodPiece
<1>16. Span(g) = Span(t) \cup Span(p)
  BY <1>1, <1>5 DEF Span
<1> QED BY <1>3, <1>15, <1>16 DEF g, d, k, y

\* Join: the union of two pieces that touch, computed without a bad substr.
LEMMA JoinGood ==
  ASSUME NEW n \in Nat, SizeMod \in Nat, n < SizeMod, NEW t, NEW p,
         GoodPiece(t, n), GoodPiece(p, n), ~Apart(t, p), ~Apart(p, t)
  PROVE  /\ GoodPiece(Join(t, p), n)
         /\ Span(Join(t, p)) = Span(t) \cup Span(p)
         /\ ~JoinThrows(t, p)
<1>1. /\ t.first \in Nat /\ t.last \in Nat /\ t.first <= t.last /\ t.last < n
      /\ p.first \in Nat /\ p.last \in Nat /\ p.first <= p.last /\ p.last < n
  BY GoodPieceFacts
<1>2. p.first <= t.last + 1 /\ t.first <= p.last + 1
  BY <1>1 DEF Apart
<1>3. CASE t.first <= p.first /\ t.last >= p.last
  <2>1. Join(t, p) = t /\ ~JoinThrows(t, p)
    BY <1>3 DEF Join, JoinThrows
  <2>2. Span(t) = Span(t) \cup Span(p)
    BY <1>1, <1>3 DEF Span
  <2> QED BY <2>1, <2>2
<1>4. CASE t.first <= p.first /\ ~(t.last >= p.last)
  <2> DEFINE k == t.last + 1 - p.first
  <2>1. k \in Nat /\ k < SizeMod /\ t.last <= p.last
    BY <1>1, <1>2, <1>4
  <2>2. Size(k) = k
    BY <2>1, SizeIsSame
  <2>3. Join(t, p) = Piece(t.first, p.last, t.data \o suffix(p.data, k))
    BY <1>4, <2>1, <2>2 DEF Join
  <2>4. /\ k \in 0 .. Len(p.data)
        /\ GoodPiece(Piece(t.first, p.last, t.data \o suffix(p.data, k)), n)
        /\ Span(Piece(t.first, p.last, t.data \o suffix(p.data, k))) = Span(t) \cup Span(p)
    BY <1>2, <1>4, <2>1, GlueGood
  <2>5. ~JoinThrows(t, p)
    <3>1. ~(k > Len(p.data)) /\ ~(t.first > p.first)
      BY <2>4, <1>1, <1>4
    <3> QED BY <3>1, <2>2 DEF JoinThrows
  <2> QED BY <2>3, <2>4, <2>5
<1>5. CASE ~(t.first <= p.first) /\ t.last >= p.last
  <2> DEFINE k == p.last + 1 - t.first
  <2>1. k \in Nat /\ k < SizeMod /\ p.first <= t.first
    BY <1>1, <1>2, <1>5
  <2>2. Size(k) = k
    BY <2>1, SizeIsSame
  <2>3. Join(t, p) = Piece(p.first, t.last, p.data \o suffix(t.data, k))
    BY <1>1, <1>5, <2>1, <2>2 DEF Join
  <2>4. p.last <= t.last
    BY <1>1, <1>5
  <2>5. /\ k \in 0 .. Len(t.data)
        /\ GoodPiece(Piece(p.first, t.last, p.data \o suffix(t.data, k)), n)
        /\ Span(Piece(p.first, t.last, p.data \o suffix(t.data, k))) = Span(p) \cup Span(t)
    BY <1>2, <2>1, <2>4, GlueGood
  <2>6. ~JoinThrows(t, p)
    <3>1. ~(k > Len(t.data))
      BY <2>5, <1>1
    <3> QED BY <3>1, <2>2, <1>5 DEF JoinThrows
  <2> QED BY <2>3, <2>5, <2>6
<1>6. CASE ~(t.first <= p.first) /\ ~(t.last >= p.last)
  <2>1. Join(t, p) = p
    BY <1>1, <1>6 DEF Join
  <2>2. ~JoinThrows(t, p)
    BY <1>6 DEF JoinThrows
  <2>3. Span(p) = Span(t) \cup Span(p)
    BY <1>1, <1>6 DEF Span
  <2> QED BY <2>1, <2>2, <2>3
<1> QED BY <1>3, <1>4, <1>5, <1>6

-----------------------------------------------------------------------------
(* Stores. *)

\* A piece appended to a store from which it lies apart.
LEMMA AppendGood ==
  ASSUME NEW n \in Nat, NEW q, GoodList(q, n), NEW t, GoodPiece(t, n),
         \A k \in 1 .. Len(q) : Apart(q[k], t)
  PROVE  GoodList(Append(q, t), n) /\ Cover(Append(q, t)) = Cover(q) \cup Span(t)
<1> DEFINE w == Append(q, t)
           m == Len(q)
<1>1. q \in Seq(Pieces) /\ t \in Pieces
  BY DEF GoodList, GoodPiece
<1>2. w \in Seq(Pieces) /\ Len(w) = m + 1 /\ m \in Nat
  BY <1>1
<1>3. \A i \in 1 .. m : w[i] = q[i]
  BY <1>1
<1>4. w[m + 1] = t
  BY <1>1
<1> HIDE DEF w
<1>5. \A i \in 1 .. m : GoodPiece(q[i], n)
  BY DEF GoodList
<1>6. \A i, j \in 1 .. m : i < j => Apart(q[i], q[j])
  BY DEF GoodList
<1> HIDE DEF m
<1>7. ASSUME NEW i \in 1 .. m + 1 PROVE GoodPiece(w[i], n)
  BY <1>2, <1>3, <1>4, <1>5
<1>8. ASSUME NEW i \in 1 .. m + 1, NEW j \in 1 .. m + 1, i < j PROVE Apart(w[i], w[j])
  <2>1. i \in 1 .. m
    BY <1>2, <1>8
  <2>2. CASE j = m + 1
    <3>1. Apart(q[i], t)
      BY <2>1 DEF m
    <3> QED BY <2>1, <2>2, <3>1, <1>3, <1>4
  <2>3. CASE j # m + 1
    <3>1. j \in 1 .. m
      BY <1>2, <2>3
    <3> QED BY <2>1, <3>1, <1>3, <1>6, <1>8
  <2> QED BY <2>2, <2>3
<1>9. GoodList(w, n)
  BY <1>2, <1>7, <1>8 DEF GoodList
<1>10. Cover(w) = Cover(q) \cup Span(t)
  <2>1. 1 .. m + 1 = (1 .. m) \cup {m + 1}
    BY <1>2
  <2>2. Cover(q) = UNION {Span(q[k]) : k \in 1 .. m}
    BY DEF Cover, CoverPart, m
  <2>3. Cover(w) = UNION {Span(w[k]) : k \in 1 .. m + 1}
    BY <1>2 DEF Cover, CoverPart
  <2>4. \A k \in 1 .. m : Span(w[k]) = Span(q[k])
    BY <1>3
  <2>5. Span(w[m + 1]) = Span(t)
    BY <1>4
  <2>6. {Span(w[k]) : k \in 1 .. m + 1} = {Span(q[k]) : k \in 1 .. m} \cup {Span(t)}
    BY <2>1, <2>4, <2>5
  <2> QED BY Zenon, <2>2, <2>3, <2>6
<1> QED BY <1>9, <1>10 DEF w

\* An index of a store's pieces is an index of one of them.
LEMMA CoverElement ==
  ASSUME NEW q, NEW i, NEW j, NEW x
  PROVE  x \in CoverPart(q, i, j) <=> \E k \in i .. j : x \in Span(q[k])
BY DEF CoverPart

\* The indices of pieces below n are a finite set.
LEMMA CoverBound ==
  ASSUME NEW n \in Nat, NEW q, GoodList(q, n), NEW i \in Nat, i >= 1, NEW j \in Int, j <= Len(q)
  PROVE  CoverPart(q, i, j) \subseteq 0 .. n - 1
<1> SUFFICES ASSUME NEW k \in i .. j, NEW x \in Span(q[k]) PROVE x \in 0 .. n - 1
  BY CoverElement
<1>1. Len(q) \in Nat
  BY DEF GoodList
<1>2. k \in 1 .. Len(q)
  BY <1>1
<1>3. GoodPiece(q[k], n)
  BY <1>2 DEF GoodList
<1>4. q[k].first \in Nat /\ q[k].last \in Nat /\ q[k].last < n
  BY <1>3, GoodPieceFacts
<1>5. x \in q[k].first .. q[k].last
  BY DEF Span
<1> QED BY <1>4, <1>5

\* A piece takes one index for each of its bytes.
LEMMA SpanSize ==
  ASSUME NEW n \in Nat, NEW t, GoodPiece(t, n)
  PROVE  IsFiniteSet(Span(t)) /\ Cardinality(Span(t)) = Len(t.data)
<1> DEFINE x == t.first
           y == t.last
<1>1. x \in Nat /\ y \in Nat /\ x <= y /\ Len(t.data) = y + 1 - x
  BY GoodPieceFacts
<1>2. Span(t) = x .. y
  BY DEF Span
<1> HIDE DEF x, y
<1>3. x \in Int /\ y \in Int /\ ~(x > y) /\ y - x + 1 = y + 1 - x
  BY <1>1
<1>4. IsFiniteSet(x .. y) /\ Cardinality(x .. y) = y - x + 1
  BY <1>3, FS_Interval
<1> QED BY <1>1, <1>2, <1>3, <1>4

\* The bytes of a piece count once.
LEMMA CountSpan ==
  ASSUME NEW n \in Nat, NEW t, GoodPiece(t, n), NEW S \in SUBSET (0 .. n - 1), S \cap Span(t) = {}
  PROVE  /\ Cardinality(S \cup Span(t)) = Cardinality(S) + Len(t.data)
         /\ Cardinality(S) \in Nat /\ Len(t.data) \in Nat
<1>1. IsFiniteSet(0 .. n - 1)
  BY FS_Interval
<1>2. IsFiniteSet(S)
  BY Zenon, <1>1, FS_Subset
<1>3. IsFiniteSet(Span(t)) /\ Cardinality(Span(t)) = Len(t.data)
  BY SpanSize
<1>4. Cardinality(S) \in Nat /\ Cardinality(Span(t)) \in Nat
  BY <1>2, <1>3, FS_CardinalityType
<1>5. Cardinality(S \cup Span(t)) = Cardinality(S) + Cardinality(Span(t)) - Cardinality(S \cap Span(t))
  BY <1>2, <1>3, FS_Union
<1>6. Cardinality(S \cap Span(t)) = 0
  BY FS_EmptySet
<1> QED BY <1>3, <1>4, <1>5, <1>6

-----------------------------------------------------------------------------
(* The loop over the store. *)

Accs == [list : Seq(Pieces), piece : Pieces, is_inserted : BOOLEAN, bytes : Int, threw : BOOLEAN]

\* What holds when the first i pieces of the store q have been visited: the list is sorted
\* and lies before the rest of q; the list and the piece still to be placed cover what was
\* visited and the new piece p; bytes counts the list and the rest.
LoopInv(q, p, n, i, a) ==
    /\ a \in Accs /\ ~a.threw
    /\ GoodList(a.list, n) /\ GoodPiece(a.piece, n)
    /\ ~a.is_inserted => \A k \in 1 .. Len(a.list) : Apart(a.list[k], a.piece)
    /\ \A k \in 1 .. Len(a.list), j \in i + 1 .. Len(q) : Apart(a.list[k], q[j])
    /\ Cover(a.list) \cup (IF a.is_inserted THEN {} ELSE Span(a.piece))
         = CoverPart(q, 1, i) \cup Span(p)
    /\ a.bytes = Cardinality(Cover(a.list) \cup CoverPart(q, i + 1, Len(q)))

\* Apart pieces share no index.
LEMMA ApartDisjoint ==
  ASSUME NEW n \in Nat, NEW t, NEW u, GoodPiece(t, n), GoodPiece(u, n), Apart(t, u) \/ Apart(u, t)
  PROVE  Span(t) \cap Span(u) = {}
<1>1. /\ t.first \in Nat /\ t.last \in Nat /\ t.first <= t.last
      /\ u.first \in Nat /\ u.last \in Nat /\ u.first <= u.last
  BY GoodPieceFacts
<1> QED BY <1>1 DEF Span, Apart

\* A piece and what follows what it lies before are apart.
LEMMA ApartTrans ==
  ASSUME NEW n \in Nat, NEW t, NEW u, NEW v, GoodPiece(t, n), GoodPiece(u, n), GoodPiece(v, n),
         Apart(t, u), Apart(u, v)
  PROVE  Apart(t, v)
<1>1. /\ t.last \in Nat /\ u.first \in Nat /\ u.last \in Nat /\ u.first <= u.last /\ v.first \in Nat
  BY GoodPieceFacts
<1> QED BY <1>1 DEF Apart

\* The indices of the pieces from i on are those of piece i and of the pieces after it.
LEMMA CoverFirst ==
  ASSUME NEW q, NEW i \in Nat, NEW m \in Nat, i <= m
  PROVE  CoverPart(q, i, m) = Span(q[i]) \cup CoverPart(q, i + 1, m)
<1>1. i .. m = {i} \cup (i + 1 .. m)
  OBVIOUS
<1>2. {Span(q[k]) : k \in i .. m} = {Span(q[i])} \cup {Span(q[k]) : k \in i + 1 .. m}
  BY <1>1
<1> QED BY <1>2 DEF CoverPart

\* And those up to i are those up to i - 1 and of piece i.
LEMMA CoverLast ==
  ASSUME NEW q, NEW i \in Nat, i >= 1
  PROVE  CoverPart(q, 1, i) = CoverPart(q, 1, i - 1) \cup Span(q[i])
<1>1. 1 .. i = (1 .. i - 1) \cup {i}
  OBVIOUS
<1>2. {Span(q[k]) : k \in 1 .. i} = {Span(q[k]) : k \in 1 .. i - 1} \cup {Span(q[i])}
  BY <1>1
<1> QED BY <1>2 DEF CoverPart

\* Two elements put behind a sequence are two appended one by one.
LEMMA AppendTwo ==
  ASSUME NEW S, NEW q \in Seq(S), NEW u \in S, NEW t \in S
  PROVE  q \o <<u, t>> = Append(Append(q, u), t)
OBVIOUS

\* One turn of the loop keeps its invariant.
LEMMA PlaceStep ==
  ASSUME NEW n \in Nat, SizeMod \in Nat, n < SizeMod, NEW q, GoodList(q, n),
         NEW p, GoodPiece(p, n), NEW i \in 1 .. Len(q), NEW a, LoopInv(q, p, n, i - 1, a)
  PROVE  LoopInv(q, p, n, i, Place(a, q[i]))
<1> DEFINE t == q[i]
           b == Place(a, t)
           m == Len(q)
           Rest == CoverPart(q, i + 1, m)
<1>1. m \in Nat /\ i \in Nat /\ i >= 1 /\ i <= m /\ (i - 1) + 1 = i
  <2>1. Len(q) \in Nat
    BY DEF GoodList
  <2> QED BY <2>1
<1>2. GoodPiece(t, n) /\ \A j \in i + 1 .. m : GoodPiece(q[j], n) /\ Apart(t, q[j])
  <2>1. \A j \in i + 1 .. m : j \in 1 .. Len(q) /\ i < j
    BY <1>1
  <2> QED BY <2>1 DEF GoodList
<1>3. /\ a \in Accs /\ ~a.threw /\ GoodList(a.list, n) /\ GoodPiece(a.piece, n)
      /\ ~a.is_inserted => \A k \in 1 .. Len(a.list) : Apart(a.list[k], a.piece)
  BY DEF LoopInv
<1>4. \A k \in 1 .. Len(a.list), j \in i .. m : Apart(a.list[k], q[j])
  BY <1>1 DEF LoopInv
<1>5. Cover(a.list) \cup (IF a.is_inserted THEN {} ELSE Span(a.piece))
        = CoverPart(q, 1, i - 1) \cup Span(p)
  BY DEF LoopInv
<1>6. a.bytes = Cardinality(Cover(a.list) \cup CoverPart(q, i, m))
  BY <1>1 DEF LoopInv
<1>7. CoverPart(q, i, m) = Span(t) \cup Rest
  BY <1>1, CoverFirst
<1>8. CoverPart(q, 1, i) = CoverPart(q, 1, i - 1) \cup Span(t)
  BY <1>1, CoverLast
<1>9. Cover(a.list) \subseteq 0 .. n - 1 /\ Rest \subseteq 0 .. n - 1
  <2>1. i + 1 \in Nat /\ i + 1 >= 1 /\ m \in Int /\ m <= Len(q)
    BY <1>1
  <2>2. Len(a.list) \in Nat
    BY <1>3 DEF GoodList
  <2>3. 1 \in Nat /\ 1 >= 1 /\ Len(a.list) \in Int /\ Len(a.list) <= Len(a.list)
    BY <2>2
  <2> HIDE DEF m
  <2>4. Rest \subseteq 0 .. n - 1
    BY <2>1, CoverBound
  <2>5. CoverPart(a.list, 1, Len(a.list)) \subseteq 0 .. n - 1
    BY <2>3, <1>3, CoverBound
  <2> QED BY <2>4, <2>5 DEF Cover
<1>10. ASSUME NEW u, GoodPiece(u, n), \A j \in i + 1 .. m : Apart(u, q[j])
       PROVE  Rest \cap Span(u) = {}
  <2> SUFFICES ASSUME NEW j \in i + 1 .. m PROVE Span(q[j]) \cap Span(u) = {}
    BY CoverElement
  <2> QED BY <1>2, <1>10, ApartDisjoint
<1>11. ASSUME NEW u, GoodPiece(u, n), \A k \in 1 .. Len(a.list) : Apart(a.list[k], u)
       PROVE  Cover(a.list) \cap Span(u) = {}
  <2> SUFFICES ASSUME NEW k \in 1 .. Len(a.list) PROVE Span(a.list[k]) \cap Span(u) = {}
    BY CoverElement DEF Cover
  <2>1. GoodPiece(a.list[k], n)
    BY <1>3 DEF GoodList
  <2> QED BY <1>11, <2>1, ApartDisjoint
<1>12. Precedes(t, a.piece) <=> Apart(t, a.piece)
  BY <1>2, <1>3, PrecedesFollows
<1>13. Follows(t, a.piece) <=> Apart(a.piece, t)
  BY <1>2, <1>3, PrecedesFollows
<1>14. /\ a.list \in Seq(Pieces) /\ a.piece \in Pieces /\ a.is_inserted \in BOOLEAN
       /\ a.bytes \in Int /\ a.threw \in BOOLEAN /\ t \in Pieces
  BY <1>2, <1>3 DEF Accs, GoodPiece
<1>15. /\ GoodList(Append(a.list, t), n) /\ Cover(Append(a.list, t)) = Cover(a.list) \cup Span(t)
  <2>1. \A k \in 1 .. Len(a.list) : Apart(a.list[k], t)
    BY <1>4, <1>1
  <2> QED BY <2>1, <1>2, <1>3, AppendGood
<1> HIDE DEF t, m, Rest
<1>16. ASSUME NEW l, GoodList(l, n), NEW u, GoodPiece(u, n), NEW x \in Seq(Pieces),
              x = Append(l, u),
              \A k \in 1 .. Len(l), j \in i + 1 .. m : Apart(l[k], q[j]),
              \A j \in i + 1 .. m : Apart(u, q[j])
       PROVE  \A k \in 1 .. Len(x), j \in i + 1 .. m : Apart(x[k], q[j])
  <2>1. l \in Seq(Pieces) /\ u \in Pieces
    BY <1>16 DEF GoodList, GoodPiece
  <2>2. Len(x) = Len(l) + 1 /\ Len(l) \in Nat
    BY <1>16, <2>1
  <2>3. \A k \in 1 .. Len(l) : x[k] = l[k]
    BY <1>16, <2>1
  <2>4. x[Len(l) + 1] = u
    BY <1>16, <2>1
  <2>5. ASSUME NEW k \in 1 .. Len(x) PROVE k \in 1 .. Len(l) \/ k = Len(l) + 1
    BY <2>2
  <2> QED BY <1>16, <2>3, <2>4, <2>5
<1>17. CASE a.is_inserted \/ Apart(t, a.piece)
  <2>1. b = [a EXCEPT !.list = Append(a.list, t)]
    BY <1>12, <1>17 DEF Place
  <2> HIDE DEF b
  <2>2. /\ b \in Accs /\ b.list = Append(a.list, t) /\ b.piece = a.piece
        /\ b.is_inserted = a.is_inserted /\ b.bytes = a.bytes /\ b.threw = a.threw
    <3>1. Append(a.list, t) \in Seq(Pieces)
      BY <1>14
    <3> QED BY Zenon, <2>1, <3>1, <1>3, <1>14 DEF Accs
  <2>3. ~b.is_inserted => \A k \in 1 .. Len(b.list) : Apart(b.list[k], b.piece)
    <3> SUFFICES ASSUME ~a.is_inserted, NEW k \in 1 .. Len(b.list) PROVE Apart(b.list[k], a.piece)
      BY <2>2
    <3>1. Len(b.list) = Len(a.list) + 1 /\ Len(a.list) \in Nat
      BY <2>2, <1>14
    <3>2. CASE k = Len(a.list) + 1
      <4>1. b.list[k] = t
        BY <2>2, <1>14, <3>2
      <4> QED BY <4>1, <1>17
    <3>3. CASE k # Len(a.list) + 1
      <4>1. k \in 1 .. Len(a.list)
        BY <3>1, <3>3
      <4>2. b.list[k] = a.list[k]
        BY <2>2, <1>14, <4>1
      <4> QED BY <4>1, <4>2, <1>3
    <3> QED BY <3>2, <3>3
  <2>4. \A k \in 1 .. Len(b.list), j \in i + 1 .. m : Apart(b.list[k], q[j])
    <3>1. \A k \in 1 .. Len(a.list), j \in i + 1 .. m : Apart(a.list[k], q[j])
      BY <1>1, <1>4
    <3>2. b.list \in Seq(Pieces)
      BY <2>2, <1>14
    <3> QED BY <3>1, <3>2, <2>2, <1>2, <1>3, <1>16
  <2>5. Cover(b.list) \cup (IF b.is_inserted THEN {} ELSE Span(b.piece))
          = CoverPart(q, 1, i) \cup Span(p)
    BY <2>2, <1>5, <1>8, <1>15
  <2>6. b.bytes = Cardinality(Cover(b.list) \cup Rest)
    <3>1. Cover(a.list) \cup (Span(t) \cup Rest) = (Cover(a.list) \cup Span(t)) \cup Rest
      OBVIOUS
    <3> QED BY Zenon, <3>1, <2>2, <1>6, <1>7, <1>15
  <2> QED BY <2>2, <2>3, <2>4, <2>5, <2>6, <1>3, <1>15 DEF LoopInv, t, b, m, Rest
<1>18. CASE ~a.is_inserted /\ ~Apart(t, a.piece) /\ Apart(a.piece, t)
  <2> DEFINE u == a.piece
             l == Append(a.list, u)
             w == Append(l, t)
  <2>1. b = [a EXCEPT !.list = a.list \o <<u, t>>, !.is_inserted = TRUE,
                      !.bytes = @ + Len(u.data)]
    BY <1>12, <1>13, <1>18 DEF Place
  <2>2. a.list \o <<u, t>> = w
    BY <1>14, AppendTwo
  <2>3. w \in Seq(Pieces) /\ Len(u.data) \in Int
    <3>1. u.data \in Seq(Nat)
      BY <1>3, GoodPieceData
    <3> QED BY <1>14, <3>1
  <2>4. \A j \in i + 1 .. m : Apart(u, q[j])
    BY <1>2, <1>3, <1>18, ApartTrans
  <2>5. GoodList(l, n) /\ Cover(l) = Cover(a.list) \cup Span(u)
    BY Zenon, <1>3, <1>18, AppendGood
  <2>6. \A k \in 1 .. Len(l), j \in i + 1 .. m : Apart(l[k], q[j])
    <3>1. \A k \in 1 .. Len(a.list), j \in i + 1 .. m : Apart(a.list[k], q[j])
      BY <1>1, <1>4
    <3>2. l \in Seq(Pieces)
      BY <1>14
    <3> QED BY <3>1, <3>2, <2>4, <1>3, <1>16
  <2>7. \A k \in 1 .. Len(l) : Apart(l[k], t)
    <3> SUFFICES ASSUME NEW k \in 1 .. Len(l) PROVE Apart(l[k], t)
      OBVIOUS
    <3>1. Len(l) = Len(a.list) + 1 /\ Len(a.list) \in Nat
      BY <1>14
    <3>2. CASE k = Len(a.list) + 1
      <4>1. l[k] = u
        BY <1>14, <3>2
      <4> QED BY <4>1, <1>18
    <3>3. CASE k # Len(a.list) + 1
      <4>1. k \in 1 .. Len(a.list)
        BY <3>1, <3>3
      <4>2. l[k] = a.list[k]
        BY <1>14, <4>1
      <4>3. Apart(a.list[k], t)
        BY <1>1, <1>4, <4>1 DEF t
      <4> QED BY <4>2, <4>3
    <3> QED BY <3>2, <3>3
  <2> HIDE DEF l, b
  <2>8. GoodList(w, n) /\ Cover(w) = Cover(l) \cup Span(t)
    BY <2>5, <2>7, <1>2, AppendGood
  <2>9. \A k \in 1 .. Len(w), j \in i + 1 .. m : Apart(w[k], q[j])
    BY <2>3, <2>5, <2>6, <1>2, <1>16
  <2> HIDE DEF w, u
  <2>10. /\ b \in Accs /\ b.list = w /\ b.piece = u /\ b.is_inserted
         /\ b.bytes = a.bytes + Len(u.data) /\ b.threw = a.threw
    <3>1. a.bytes + Len(u.data) \in Int
      BY <2>3, <1>14
    <3>2. b = [a EXCEPT !.list = w, !.is_inserted = TRUE, !.bytes = a.bytes + Len(u.data)]
      BY Zenon, <2>1, <2>2
    <3>3. a.piece = u
      BY DEF u
    <3> QED BY Zenon, <3>1, <3>2, <3>3, <2>3, <1>3 DEF Accs
  <2>11. Cover(b.list) = CoverPart(q, 1, i) \cup Span(p)
    BY <2>10, <2>8, <2>5, <1>5, <1>8, <1>18 DEF u
  <2>12. b.bytes = Cardinality(Cover(b.list) \cup Rest)
    <3> DEFINE S == Cover(a.list) \cup CoverPart(q, i, m)
    <3>1. GoodPiece(u, n)
      BY <1>3 DEF u
    <3>2. GoodPiece(t, n) /\ Span(t) \subseteq 0 .. n - 1
      <4>1. t.first \in Nat /\ t.last \in Nat /\ t.last < n
        BY <1>2, GoodPieceFacts
      <4> QED BY <4>1, <1>2 DEF Span
    <3>3. S \in SUBSET (0 .. n - 1)
      BY Zenon, <3>2, <1>7, <1>9
    <3>4. Rest \cap Span(u) = {} /\ Cover(a.list) \cap Span(u) = {} /\ Span(t) \cap Span(u) = {}
      <4>1. Rest \cap Span(u) = {}
        BY <2>4, <3>1, <1>10
      <4>2. Cover(a.list) \cap Span(u) = {}
        BY <3>1, <1>3, <1>11, <1>18 DEF u
      <4>3. Span(t) \cap Span(u) = {}
        BY <3>1, <3>2, <1>18, ApartDisjoint DEF u
      <4> QED BY <4>1, <4>2, <4>3
    <3>5. S \cap Span(u) = {}
      BY <3>4, <1>7
    <3>6. Cover(b.list) \cup Rest = S \cup Span(u)
      BY <2>10, <2>8, <2>5, <1>7
    <3> HIDE DEF S
    <3>7. Cardinality(S \cup Span(u)) = Cardinality(S) + Len(u.data)
      BY <3>1, <3>3, <3>5, CountSpan
    <3> QED BY Zenon, <3>6, <3>7, <2>10, <1>6 DEF S
  <2> QED BY <2>10, <2>8, <2>9, <2>11, <2>12, <1>3 DEF LoopInv, t, b, m, Rest, u
<1>19. CASE ~a.is_inserted /\ ~Apart(t, a.piece) /\ ~Apart(a.piece, t)
  <2> DEFINE u == Join(t, a.piece)
  <2>1. GoodPiece(u, n) /\ Span(u) = Span(t) \cup Span(a.piece) /\ ~JoinThrows(t, a.piece)
    BY <1>2, <1>3, <1>19, JoinGood
  <2>2. b = [a EXCEPT !.piece = u, !.bytes = @ - Len(t.data), !.threw = @ \/ JoinThrows(t, a.piece)]
    BY <1>12, <1>13, <1>19 DEF Place
  <2> HIDE DEF u, b
  <2>3. Len(t.data) \in Int /\ u \in Pieces
    <3>1. t.data \in Seq(Nat)
      BY <1>2, GoodPieceData
    <3> QED BY <3>1, <2>1 DEF GoodPiece
  <2>4. /\ b \in Accs /\ b.list = a.list /\ b.piece = u /\ b.is_inserted = a.is_inserted
        /\ b.bytes = a.bytes - Len(t.data) /\ ~b.threw
    <3>1. b = [a EXCEPT !.piece = u, !.bytes = a.bytes - Len(t.data), !.threw = FALSE]
      BY Zenon, <2>1, <2>2, <1>3
    <3>2. a.bytes - Len(t.data) \in Int
      BY <2>3, <1>14
    <3> QED BY Zenon, <3>1, <3>2, <2>3, <1>3, <1>14 DEF Accs
  <2>5. ASSUME NEW k \in 1 .. Len(a.list) PROVE Apart(a.list[k], u)
    <3> DEFINE c == a.list[k]
    <3>1. Apart(c, t) /\ Apart(c, a.piece) /\ GoodPiece(c, n)
      BY <1>1, <1>3, <1>4, <1>19 DEF GoodList, t
    <3> HIDE DEF c
    <3>2. u.first \in Nat /\ u.last \in Nat /\ u.first <= u.last /\ c.last \in Nat
      BY <2>1, <3>1, GoodPieceFacts
    <3>3. u.first \in Span(t) \cup Span(a.piece)
      BY <2>1, <3>2 DEF Span
    <3>4. /\ t.first \in Nat /\ t.last \in Nat /\ a.piece.first \in Nat /\ a.piece.last \in Nat
      BY <1>2, <1>3, GoodPieceFacts
    <3>5. u.first >= t.first \/ u.first >= a.piece.first
      BY <3>3, <3>4 DEF Span
    <3>6. c.last + 1 < t.first /\ c.last + 1 < a.piece.first
      BY <3>1 DEF Apart
    <3>7. c.last + 1 < u.first
      BY <3>2, <3>4, <3>5, <3>6
    <3> QED BY <3>7 DEF Apart, c
  <2>6. \A k \in 1 .. Len(a.list), j \in i + 1 .. m : Apart(a.list[k], q[j])
    BY <1>1, <1>4
  <2>7. Cover(a.list) \cup Span(u) = CoverPart(q, 1, i) \cup Span(p)
    BY <2>1, <1>5, <1>8, <1>19
  <2>8. b.bytes = Cardinality(Cover(a.list) \cup Rest)
    <3> DEFINE S == Cover(a.list) \cup Rest
    <3>1. S \in SUBSET (0 .. n - 1)
      BY Zenon, <1>9
    <3>2. S \cap Span(t) = {}
      <4>1. Rest \cap Span(t) = {}
        BY <1>2, <1>10
      <4>2. \A k \in 1 .. Len(a.list) : Apart(a.list[k], t)
        BY <1>1, <1>4 DEF t
      <4>3. Cover(a.list) \cap Span(t) = {}
        BY <4>2, <1>2, <1>11
      <4> QED BY <4>1, <4>3
    <3>3. Cover(a.list) \cup CoverPart(q, i, m) = S \cup Span(t)
      BY <1>7
    <3> HIDE DEF S
    <3>4. /\ Cardinality(S \cup Span(t)) = Cardinality(S) + Len(t.data)
          /\ Cardinality(S) \in Nat /\ Len(t.data) \in Nat
      BY <3>1, <3>2, <1>2, CountSpan
    <3>5. a.bytes = Cardinality(S) + Len(t.data)
      BY Zenon, <3>3, <3>4, <1>6
    <3>6. b.bytes = Cardinality(S)
      BY <3>4, <3>5, <2>4
    <3> QED BY <3>6 DEF S
  <2> QED BY <2>1, <2>4, <2>5, <2>6, <2>7, <2>8, <1>3, <1>19 DEF LoopInv, t, b, m, Rest
<1> QED BY <1>17, <1>18, <1>19

\* The loop over the whole store ends in its invariant.
LEMMA VisitedInv ==
  ASSUME NEW n \in Nat, SizeMod \in Nat, n < SizeMod, NEW s, GoodList(s.storelist, n),
         s.unassembled = Cardinality(Cover(s.storelist)), NEW p, GoodPiece(p, n)
  PROVE  LoopInv(s.storelist, p, n, Len(s.storelist), Visited(s, p))
<1> DEFINE q == s.storelist
           N == Len(q)
           a == [list |-> <<>>, piece |-> p, is_inserted |-> FALSE,
                 bytes |-> s.unassembled, threw |-> FALSE]
           F == CHOOSE f : f = [i \in 0 .. N |-> IF i = 0 THEN a ELSE Place(f[i - 1], q[i])]
           V == {v \in Accs : \E i \in 0 .. N : LoopInv(q, p, n, i, v)}
           h == [x \in V \X (1 .. N) |->
                   IF LoopInv(q, p, n, x[2] - 1, x[1]) THEN Place(x[1], q[x[2]]) ELSE a]
<1>1. N \in Nat
  BY DEF GoodList
<1>2. Visited(s, p) = F[N]
  BY DEF Visited
<1>3. LoopInv(q, p, n, 0, a)
  <2>1. Cover(<<>>) = {} /\ CoverPart(q, 1, 0) = {}
    BY DEF Cover, CoverPart
  <2>2. GoodList(<<>>, n)
    BY DEF GoodList
  <2>3. s.unassembled \in Int
    <3>1. 1 \in Nat /\ 1 >= 1 /\ N \in Int /\ N <= Len(q)
      BY <1>1
    <3>2. Cover(q) \in SUBSET (0 .. n - 1)
      BY <3>1, CoverBound DEF Cover
    <3>3. IsFiniteSet(0 .. n - 1)
      BY FS_Interval
    <3>4. Cardinality(Cover(q)) \in Nat
      BY <3>2, <3>3, FS_Subset, FS_CardinalityType
    <3> QED BY <3>4
  <2>4. p \in Pieces /\ <<>> \in Seq(Pieces)
    BY DEF GoodPiece
  <2>5. /\ a \in Accs /\ a.list = <<>> /\ a.piece = p /\ ~a.is_inserted
        /\ a.bytes = s.unassembled /\ ~a.threw
    BY <2>3, <2>4 DEF Accs
  <2> HIDE DEF a
  <2>6. 1 .. Len(a.list) = {}
    BY <2>5
  <2>7. a.bytes = Cardinality(Cover(a.list) \cup CoverPart(q, 0 + 1, Len(q)))
    <3>1. 0 + 1 = 1
      OBVIOUS
    <3>2. Cover(a.list) \cup CoverPart(q, 1, Len(q)) = Cover(q)
      BY <2>1, <2>5 DEF Cover
    <3> QED BY Zenon, <3>1, <3>2, <2>5
  <2> QED BY <2>1, <2>2, <2>5, <2>6, <2>7 DEF LoopInv
<1> HIDE DEF N, a
<1>4. a \in V
  <2>1. 0 \in 0 .. N
    BY <1>1
  <2> QED BY Zenon, <1>3, <2>1 DEF LoopInv
<1>5. h \in [V \X (1 .. N) -> V]
  <2> SUFFICES ASSUME NEW v \in V, NEW i \in 1 .. N, LoopInv(q, p, n, i - 1, v)
               PROVE  Place(v, q[i]) \in V
    BY <1>4
  <2>1. LoopInv(q, p, n, i, Place(v, q[i]))
    BY PlaceStep DEF N
  <2>2. i \in 0 .. N
    BY <1>1
  <2> QED BY Zenon, <2>1, <2>2 DEF LoopInv
<1>6. PICK g \in [0 .. N -> V] : g[0] = a /\ \A i \in 1 .. N : g[i] = h[<<g[i - 1], i>>]
  <2> HIDE DEF V, h, F, q
  <2>1. \E g : Recursion(g, N, V, a, h)
    BY <1>1, <1>4, <1>5, RecurseUpTo
  <2> QED BY Zenon, <2>1 DEF Recursion
<1>7. \A i \in 1 .. N : LoopInv(q, p, n, i - 1, g[i - 1]) => g[i] = Place(g[i - 1], q[i])
  <2> SUFFICES ASSUME NEW i \in 1 .. N, LoopInv(q, p, n, i - 1, g[i - 1])
               PROVE  g[i] = Place(g[i - 1], q[i])
    OBVIOUS
  <2>1. g[i - 1] \in V
    <3>1. i - 1 \in 0 .. N
      BY <1>1
    <3> QED BY <3>1
  <2>2. <<g[i - 1], i>> \in V \X (1 .. N)
    BY <2>1
  <2> QED BY Zenon, <2>2, <1>6
<1> DEFINE S == {i \in 0 .. N : LoopInv(q, p, n, i, g[i])}
<1>8. 0 .. N \subseteq S
  <2>1. 0 \in S
    BY <1>1, <1>3, <1>6
  <2>2. ASSUME NEW i \in 0 .. N - 1, i \in S PROVE i + 1 \in S
    <3>1. i + 1 \in 1 .. N /\ (i + 1) - 1 = i /\ i + 1 \in 0 .. N
      BY <1>1
    <3>2. LoopInv(q, p, n, i, g[i])
      BY <2>2
    <3>3. g[i + 1] = Place(g[i], q[i + 1])
      BY <3>1, <3>2, <1>7
    <3>4. LoopInv(q, p, n, i + 1, Place(g[i], q[i + 1]))
      BY <3>1, <3>2, PlaceStep DEF N
    <3> QED BY <3>1, <3>3, <3>4
  <2> HIDE DEF S
  <2> QED BY Zenon, <1>1, <2>1, <2>2, InductUpTo
<1>9. g = [i \in 0 .. N |-> IF i = 0 THEN a ELSE Place(g[i - 1], q[i])]
  <2>1. \A i \in 0 .. N : g[i] = IF i = 0 THEN a ELSE Place(g[i - 1], q[i])
    <3> SUFFICES ASSUME NEW i \in 0 .. N, i # 0 PROVE g[i] = Place(g[i - 1], q[i])
      BY <1>6
    <3>1. i \in 1 .. N /\ i - 1 \in 0 .. N
      BY <1>1
    <3> QED BY <3>1, <1>7, <1>8
  <2> QED BY <2>1, <1>6
<1>10. F = [i \in 0 .. N |-> IF i = 0 THEN a ELSE Place(F[i - 1], q[i])]
  BY Zenon, <1>9
<1> HIDE DEF F
<1> DEFINE T == {i \in 0 .. N : LoopInv(q, p, n, i, F[i])}
<1>11. 0 .. N \subseteq T
  <2>1. 0 \in T
    BY <1>1, <1>3, <1>10
  <2>2. ASSUME NEW i \in 0 .. N - 1, i \in T PROVE i + 1 \in T
    <3>1. i + 1 \in 1 .. N /\ (i + 1) - 1 = i /\ i + 1 \in 0 .. N /\ i + 1 # 0
      BY <1>1
    <3>2. LoopInv(q, p, n, i, F[i])
      BY <2>2
    <3>3. F[i + 1] = Place(F[i], q[i + 1])
      BY Zenon, <3>1, <1>10
    <3>4. LoopInv(q, p, n, i + 1, Place(F[i], q[i + 1]))
      BY Zenon, <3>1, <3>2, PlaceStep DEF N
    <3> QED BY <3>1, <3>3, <3>4
  <2> HIDE DEF T
  <2> QED BY Zenon, <1>1, <2>1, <2>2, InductUpTo
<1>12. N \in T
  BY <1>1, <1>11
<1> QED BY <1>2, <1>12 DEF N
-----------------------------------------------------------------------------
(* The parts of push_substring. *)

\* The indices of a store are below n, and there are finitely many.
LEMMA CoverFinite ==
  ASSUME NEW n \in Nat, NEW q, GoodList(q, n)
  PROVE  /\ Cover(q) \in SUBSET (0 .. n - 1) /\ IsFiniteSet(Cover(q))
         /\ Cardinality(Cover(q)) \in Nat /\ Len(q) \in Nat
<1>1. Len(q) \in Nat
  BY DEF GoodList
<1>2. 1 \in Nat /\ 1 >= 1 /\ Len(q) \in Int /\ Len(q) <= Len(q)
  BY <1>1
<1>3. Cover(q) \in SUBSET (0 .. n - 1)
  BY <1>2, CoverBound DEF Cover
<1>4. IsFiniteSet(0 .. n - 1)
  BY FS_Interval
<1> QED BY <1>1, <1>3, <1>4, FS_Subset, FS_CardinalityType

\* The store that Insert makes of the one of s and the piece p.
Inserted(s, p, n, L) ==
    /\ GoodList(L, n) /\ Cover(L) = Cover(s.storelist) \cup Span(p)
    /\ Insert(s, p) = [s EXCEPT !.storelist = L, !.threw = FALSE, !.unassembled = Cardinality(Cover(L))]

\* The loop and the push_back after it put the piece into the store.
LEMMA InsertGood ==
  ASSUME NEW n \in Nat, SizeMod \in Nat, n < SizeMod, NEW s, GoodList(s.storelist, n),
         s.unassembled = Cardinality(Cover(s.storelist)), NEW p, GoodPiece(p, n)
  PROVE  \E L : Inserted(s, p, n, L)
<1> DEFINE q == s.storelist
           N == Len(q)
           a == Visited(s, p)
           all == IF a.is_inserted THEN a ELSE
                  [a EXCEPT !.list = Append(@, a.piece), !.bytes = @ + Len(a.piece.data)]
<1>1. LoopInv(q, p, n, N, a)
  BY VisitedInv
<1>2. Insert(s, p) = [s EXCEPT !.storelist = all.list, !.unassembled = all.bytes, !.threw = a.threw]
  BY DEF Insert
<1>3. N \in Nat /\ Cover(q) = CoverPart(q, 1, N)
  BY CoverFinite DEF Cover
<1> HIDE DEF a, N
<1>4. /\ a \in Accs /\ a.threw = FALSE /\ GoodList(a.list, n) /\ GoodPiece(a.piece, n)
      /\ ~a.is_inserted => \A k \in 1 .. Len(a.list) : Apart(a.list[k], a.piece)
      /\ Cover(a.list) \cup (IF a.is_inserted THEN {} ELSE Span(a.piece)) = Cover(q) \cup Span(p)
  BY <1>1, <1>3 DEF LoopInv, Accs
<1>5. a.bytes = Cardinality(Cover(a.list))
  <2>1. CoverPart(q, N + 1, N) = {}
    BY <1>3 DEF CoverPart
  <2>2. a.bytes = Cardinality(Cover(a.list) \cup CoverPart(q, N + 1, N))
    BY <1>1 DEF LoopInv, N
  <2> QED BY <2>1, <2>2
<1>6. CASE a.is_inserted
  <2>1. all = a
    BY <1>6
  <2> HIDE DEF all
  <2>2. Insert(s, p) = [s EXCEPT !.storelist = a.list, !.threw = FALSE,
                                 !.unassembled = Cardinality(Cover(a.list))]
    BY Zenon, <2>1, <1>2, <1>4, <1>5
  <2>3. GoodList(a.list, n) /\ Cover(a.list) = Cover(q) \cup Span(p)
    BY <1>4, <1>6
  <2>4. Inserted(s, p, n, a.list)
    BY <2>2, <2>3 DEF Inserted
  <2> QED BY <2>4
<1>7. CASE ~a.is_inserted
  <2> DEFINE L == Append(a.list, a.piece)
  <2>1. GoodList(L, n) /\ Cover(L) = Cover(a.list) \cup Span(a.piece)
    BY <1>4, <1>7, AppendGood
  <2>2. all = [a EXCEPT !.list = L, !.bytes = a.bytes + Len(a.piece.data)]
    BY <1>7
  <2>3. all.list = L /\ all.bytes = a.bytes + Len(a.piece.data)
    BY Zenon, <2>2, <1>4 DEF Accs
  <2>4. Cardinality(Cover(L)) = Cardinality(Cover(a.list)) + Len(a.piece.data)
    <3>1. Cover(a.list) \in SUBSET (0 .. n - 1)
      BY <1>4, CoverFinite
    <3>2. Cover(a.list) \cap Span(a.piece) = {}
      <4> SUFFICES ASSUME NEW k \in 1 .. Len(a.list) PROVE Span(a.list[k]) \cap Span(a.piece) = {}
        BY CoverElement DEF Cover
      <4>1. GoodPiece(a.list[k], n)
        BY <1>4 DEF GoodList
      <4> QED BY <4>1, <1>4, <1>7, ApartDisjoint
    <3> QED BY <3>1, <3>2, <2>1, <1>4, CountSpan
  <2> HIDE DEF L, all
  <2>5. all.bytes = Cardinality(Cover(L))
    BY <2>3, <2>4, <1>5
  <2>6. Inserted(s, p, n, L)
    BY Zenon, <2>1, <2>3, <2>5, <1>2, <1>4, <1>7 DEF Inserted
  <2> QED BY <2>6
<1> QED BY <1>6, <1>7

\* What is left of a piece when its first k bytes are cut off.
LEMMA SuffixGood ==
  ASSUME NEW n \in Nat, NEW t, GoodPiece(t, n), NEW k \in 0 .. Len(t.data) - 1
  PROVE  /\ GoodPiece(Piece(t.first + k, t.last, suffix(t.data, k)), n)
         /\ Len(suffix(t.data, k)) = Len(t.data) - k
<1> DEFINE d == suffix(t.data, k)
           x == Len(t.data)
           f == t.first
           l == t.last
<1>1. f \in Nat /\ l \in Nat /\ f <= l /\ l < n /\ x = l + 1 - f
  BY GoodPieceFacts
<1>2. t.data \in Seq(Nat) /\ \A j \in 1 .. x : t.data[j] = f + j - 1
  BY GoodPieceData
<1>3. k \in Nat /\ x \in Nat /\ k < x /\ x - k \in Nat /\ x - k # 0 /\ f + k \in Nat
  BY <1>1
<1>4. d \in Seq(Nat) /\ Len(d) = x - k /\ \A j \in 1 .. x - k : d[j] = t.data[k + j]
  <2>1. k \in Nat /\ x \in Nat /\ k <= x /\ x <= Len(t.data) /\ t.data \in Seq(Nat)
    BY <1>2, <1>3
  <2>2. d = SubSeq(t.data, k + 1, x)
    BY DEF suffix
  <2> HIDE DEF d, x
  <2> QED BY <2>1, <2>2, SliceAt
<1> HIDE DEF d, x, f, l
<1>5. ASSUME NEW j \in 1 .. x - k PROVE d[j] = (f + k) + j - 1
  <2>1. k + j \in 1 .. x
    BY <1>3
  <2>2. d[j] = f + (k + j) - 1
    BY Zenon, <2>1, <1>2, <1>4
  <2> QED BY <2>2, <1>1, <1>3
<1>6. l = (f + k) + (x - k) - 1
  BY <1>1, <1>3
<1>7. d # <<>>
  BY <1>3, <1>4
<1> DEFINE g == Piece(f + k, l, d)
<1>8. g \in Pieces /\ g.first = f + k /\ g.last = l /\ g.data = d
  BY <1>1, <1>3, <1>4 DEF Piece, Pieces
<1> HIDE DEF g
<1>9. GoodPiece(g, n)
  BY <1>1, <1>4, <1>5, <1>6, <1>7, <1>8 DEF GoodPiece
<1> QED BY <1>4, <1>9 DEF g, d, x, f, l

\* A store without its first piece.
LEMMA TailGood ==
  ASSUME NEW n \in Nat, NEW q, GoodList(q, n), q # <<>>
  PROVE  /\ GoodPiece(q[1], n) /\ Head(q) = q[1]
         /\ GoodList(Tail(q), n) /\ Cover(q) = Span(q[1]) \cup Cover(Tail(q))
         /\ \A k \in 1 .. Len(Tail(q)) : Apart(q[1], Tail(q)[k])
         /\ \A x \in Cover(Tail(q)) : x > q[1].last + 1
<1> DEFINE r == Tail(q)
           m == Len(q)
<1>1. q \in Seq(Pieces) /\ m \in Nat /\ m # 0
  BY DEF GoodList
<1>2. r \in Seq(Pieces) /\ Len(r) = m - 1 /\ Head(q) = q[1]
  BY <1>1
<1>3. \A k \in 1 .. m - 1 : r[k] = q[k + 1]
  BY <1>1
<1> HIDE DEF r, m
<1>4. \A k \in 1 .. m - 1 : k + 1 \in 1 .. m /\ 1 < k + 1 /\ 1 \in 1 .. m
  BY <1>1
<1>5. GoodPiece(q[1], n)
  <2>1. 1 \in 1 .. m
    BY <1>1
  <2> QED BY <2>1 DEF GoodList, m
<1>6. \A k \in 1 .. m - 1 : GoodPiece(r[k], n) /\ Apart(q[1], r[k])
  BY <1>3, <1>4 DEF GoodList, m
<1>7. \A i, j \in 1 .. m - 1 : i < j => Apart(r[i], r[j])
  <2> SUFFICES ASSUME NEW i \in 1 .. m - 1, NEW j \in 1 .. m - 1, i < j PROVE Apart(r[i], r[j])
    OBVIOUS
  <2>1. i + 1 < j + 1
    BY <1>1
  <2>2. Apart(q[i + 1], q[j + 1])
    BY <2>1, <1>4 DEF GoodList, m
  <2> QED BY <2>2, <1>3
<1>8. GoodList(r, n)
  BY <1>2, <1>6, <1>7 DEF GoodList
<1>9. Cover(r) = CoverPart(q, 2, m)
  <2>1. {Span(r[k]) : k \in 1 .. m - 1} = {Span(q[k]) : k \in 2 .. m}
    <3>1. \A k \in 2 .. m : k - 1 \in 1 .. m - 1 /\ (k - 1) + 1 = k
      BY <1>1
    <3>2. \A k \in 2 .. m : k - 1 \in 1 .. m - 1 /\ r[k - 1] = q[k]
      BY <3>1, <1>3
    <3>3. \A k \in 1 .. m - 1 : k + 1 \in 2 .. m
      BY <1>1
    <3> QED BY <3>2, <3>3, <1>3
  <2> QED BY Zenon, <2>1, <1>2 DEF Cover, CoverPart
<1>10. Cover(q) = Span(q[1]) \cup CoverPart(q, 2, m)
  <2>1. 1 \in Nat /\ 1 <= m /\ 1 + 1 = 2
    BY <1>1
  <2> QED BY <2>1, <1>1, CoverFirst DEF Cover, m
<1>11. ASSUME NEW x \in Cover(r) PROVE x > q[1].last + 1
  <2>1. PICK k \in 1 .. m - 1 : x \in Span(r[k])
    BY <1>2 DEF Cover, CoverPart
  <2>2. r[k].first \in Nat /\ r[k].last \in Nat /\ q[1].last \in Nat
    BY <1>5, <1>6, GoodPieceFacts
  <2>3. q[1].last + 1 < r[k].first
    BY <1>6 DEF Apart
  <2>4. x \in Nat /\ x >= r[k].first
    BY <2>1, <2>2 DEF Span
  <2> QED BY <2>2, <2>3, <2>4
<1> QED BY Zenon, <1>2, <1>5, <1>6, <1>8, <1>9, <1>10, <1>11 DEF r

\* A piece put before a store.
LEMMA ConsGood ==
  ASSUME NEW n \in Nat, NEW q, GoodList(q, n), NEW t, GoodPiece(t, n),
         \A k \in 1 .. Len(q) : Apart(t, q[k])
  PROVE  GoodList(<<t>> \o q, n) /\ Cover(<<t>> \o q) = Span(t) \cup Cover(q)
<1> DEFINE s == <<t>> \o q
           m == Len(q)
<1>1. q \in Seq(Pieces) /\ t \in Pieces /\ m \in Nat
  BY DEF GoodList, GoodPiece
<1>2. s \in Seq(Pieces) /\ Len(s) = m + 1 /\ s[1] = t
  BY <1>1
<1>3. \A k \in 1 .. m : s[k + 1] = q[k]
  BY <1>1
<1> HIDE DEF s, m
<1>4. \A k \in 1 .. m + 1 : k = 1 \/ (k - 1 \in 1 .. m /\ (k - 1) + 1 = k)
  BY <1>1
<1>5. \A k \in 1 .. m : GoodPiece(q[k], n) /\ Apart(t, q[k])
  BY DEF GoodList, m
<1>6. \A k \in 1 .. m + 1 : GoodPiece(s[k], n)
  BY <1>2, <1>3, <1>4, <1>5
<1>7. \A i, j \in 1 .. m + 1 : i < j => Apart(s[i], s[j])
  <2> SUFFICES ASSUME NEW i \in 1 .. m + 1, NEW j \in 1 .. m + 1, i < j PROVE Apart(s[i], s[j])
    OBVIOUS
  <2>1. j - 1 \in 1 .. m /\ (j - 1) + 1 = j
    BY <1>1
  <2>2. s[j] = q[j - 1]
    BY <2>1, <1>3
  <2>3. CASE i = 1
    BY <2>1, <2>2, <2>3, <1>2, <1>5
  <2>4. CASE i # 1
    <3>1. i - 1 \in 1 .. m /\ (i - 1) + 1 = i /\ i - 1 < j - 1
      BY <2>4, <1>1
    <3>2. s[i] = q[i - 1]
      BY <3>1, <1>3
    <3>3. Apart(q[i - 1], q[j - 1])
      BY <2>1, <3>1 DEF GoodList, m
    <3> QED BY <2>2, <3>2, <3>3
  <2> QED BY <2>3, <2>4
<1>8. {Span(s[k]) : k \in 1 .. m + 1} = {Span(t)} \cup {Span(q[k]) : k \in 1 .. m}
  <2>1. \A k \in 1 .. m : k + 1 \in 1 .. m + 1
    BY <1>1
  <2>2. 1 \in 1 .. m + 1
    BY <1>1
  <2> QED BY <2>1, <2>2, <1>2, <1>3, <1>4
<1>9. Cover(s) = Span(t) \cup Cover(q)
  BY Zenon, <1>2, <1>8 DEF Cover, CoverPart, m
<1> QED BY <1>2, <1>6, <1>7, <1>9 DEF GoodList, s
\* The first piece replaced by one that ends where it ended.
LEMMA HeadReplaced ==
  ASSUME NEW n \in Nat, NEW q, GoodList(q, n), q # <<>>, NEW u, GoodPiece(u, n), u.last = q[1].last
  PROVE  /\ [q EXCEPT ![1] = u] = <<u>> \o Tail(q)
         /\ GoodList(<<u>> \o Tail(q), n) /\ Cover(<<u>> \o Tail(q)) = Span(u) \cup Cover(Tail(q))
<1>1. q \in Seq(Pieces) /\ u \in Pieces
  BY DEF GoodList, GoodPiece
<1>2. [q EXCEPT ![1] = u] = <<u>> \o Tail(q)
  <2> DEFINE a == [q EXCEPT ![1] = u]
             b == <<u>> \o Tail(q)
  <2>1. a \in Seq(Pieces) /\ Len(a) = Len(q) /\ Len(q) \in Nat
    BY <1>1
  <2>2. b \in Seq(Pieces) /\ Len(b) = Len(q)
    BY <1>1
  <2>3. \A k \in 1 .. Len(q) : a[k] = b[k]
    BY <1>1
  <2> HIDE DEF a, b
  <2>4. a = b
    BY <2>1, <2>2, <2>3
  <2> QED BY <2>4 DEF a, b
<1>3. GoodList(Tail(q), n) /\ \A k \in 1 .. Len(Tail(q)) : Apart(u, Tail(q)[k])
  BY TailGood DEF Apart
<1> QED BY Zenon, <1>2, <1>3, ConsGood

\* A store that starts at f or later has no index below f.
LEMMA CoverFrom ==
  ASSUME NEW n \in Nat, NEW q, GoodList(q, n), NEW f \in Nat, q # <<>> => q[1].first >= f
  PROVE  \A x \in Cover(q) : x \in Nat /\ x >= f
<1>1. CASE q = <<>>
  BY <1>1 DEF Cover, CoverPart
<1>2. CASE q # <<>>
  <2>1. /\ Cover(q) = Span(q[1]) \cup Cover(Tail(q)) /\ GoodPiece(q[1], n)
        /\ \A x \in Cover(Tail(q)) : x > q[1].last + 1
    BY <1>2, TailGood
  <2>2. q[1].first \in Nat /\ q[1].last \in Nat /\ q[1].first <= q[1].last
    BY <2>1, GoodPieceFacts
  <2>3. Cover(q) \in SUBSET (0 .. n - 1)
    BY CoverFinite
  <2>4. ASSUME NEW x \in Cover(q) PROVE x \in Nat /\ x >= f
    <3>1. x \in Nat
      BY <2>3
    <3>2. x >= q[1].first \/ x > q[1].last + 1
      BY <2>1, <2>2 DEF Span
    <3> QED BY <3>1, <3>2, <2>2, <1>2
  <2> QED BY <2>4
<1> QED BY <1>1, <1>2

\* TrimFront drops from the store what is below firstindex, if its first piece is not all
\* below.
LEMMA TrimFrontGood ==
  ASSUME NEW n \in Nat, NEW s \in Reassemblers, GoodList(s.storelist, n), s.storelist # <<>>,
         s.storelist[1].last >= s.firstindex, s.unassembled = Cardinality(Cover(s.storelist)),
         s.threw = FALSE
  PROVE  \E L : /\ GoodList(L, n) /\ L # <<>> /\ L[1].first >= s.firstindex
                /\ Cover(L) = Cover(s.storelist) \ (0 .. s.firstindex - 1)
                /\ TrimFront(s) = [s EXCEPT !.storelist = L, !.unassembled = Cardinality(Cover(L))]
<1> DEFINE q == s.storelist
           f == s.firstindex
           p == q[1]
           T == Cover(Tail(q))
<1>1. /\ GoodPiece(p, n) /\ Head(q) = p /\ GoodList(Tail(q), n) /\ Cover(q) = Span(p) \cup T
      /\ \A x \in T : x > p.last + 1
  BY TailGood
<1>2. /\ p.first \in Nat /\ p.last \in Nat /\ p.first <= p.last /\ p.last < n
      /\ Len(p.data) = p.last + 1 - p.first
  BY <1>1, GoodPieceFacts
<1>3. f \in Nat /\ p.last >= f
  BY DEF Reassemblers
<1>4. T \in SUBSET (0 .. n - 1)
  BY <1>1, CoverFinite
<1> HIDE DEF p, f, T
<1>5. CASE p.first >= f
  <2>1. TrimFront(s) = s
    BY <1>1, <1>5 DEF TrimFront, f
  <2>2. s = [s EXCEPT !.storelist = q, !.unassembled = Cardinality(Cover(q))]
    BY Zenon DEF Reassemblers
  <2>3. \A x \in Cover(q) : x \in Nat /\ x >= f
    BY <1>3, <1>5, CoverFrom DEF p
  <2>4. Cover(q) = Cover(q) \ (0 .. f - 1)
    BY <2>3, <1>3
  <2> QED BY Zenon, <2>1, <2>2, <2>4, <1>5 DEF p, f
<1>6. CASE p.first < f
  <2> DEFINE k == f - p.first
             cut == suffix(p.data, k)
             u == Piece(p.first + k, p.last, cut)
             L == <<u>> \o Tail(q)
  <2>1. k \in 0 .. Len(p.data) - 1 /\ p.first + k = f /\ k \in Nat /\ ~(k > Len(p.data))
    BY <1>2, <1>3, <1>6
  <2>2. GoodPiece(u, n) /\ Len(cut) = Len(p.data) - k
    <3> HIDE DEF k
    <3> QED BY <2>1, <1>1, SuffixGood
  <2>3. u.first = f /\ u.last = p.last /\ u.data = cut
    BY <2>1 DEF Piece
  <2>4. [p EXCEPT !.data = cut, !.first = f] = u
    <3> DEFINE v == [p EXCEPT !.data = cut, !.first = f]
    <3>1. p \in Pieces /\ u \in Pieces /\ cut \in Seq(Nat)
      BY <2>2, <2>3, <1>1, GoodPieceData DEF GoodPiece
    <3> HIDE DEF cut, k, u
    <3>2. v \in Pieces /\ v.first = f /\ v.last = p.last /\ v.data = cut
      BY Zenon, <3>1, <1>3 DEF Pieces
    <3> HIDE DEF v
    <3>3. v = u
      BY <3>1, <3>2, <2>3 DEF Pieces
    <3> QED BY <3>3 DEF v
  <2> HIDE DEF u, cut, k
  <2>5. /\ [q EXCEPT ![1] = u] = L /\ GoodList(L, n) /\ Cover(L) = Span(u) \cup T
    BY <2>2, <2>3, HeadReplaced DEF p, T
  <2>6. L # <<>> /\ L[1] = u
    <3>1. Tail(q) \in Seq(Pieces)
      BY <1>1 DEF GoodList
    <3> QED BY <3>1
  <2>7. Cover(L) = Cover(q) \ (0 .. f - 1)
    <3>1. Span(u) = Span(p) \ (0 .. f - 1)
      BY <2>3, <1>2, <1>3, <1>6 DEF Span
    <3>2. T = T \ (0 .. f - 1)
      BY <1>1, <1>2, <1>3, <1>4
    <3> QED BY <3>1, <3>2, <2>5, <1>1
  <2> HIDE DEF L, T
  <2>8. Cardinality(Cover(L)) = Cardinality(Cover(q)) - Len(p.data) + Len(cut)
    <3>1. T \cap Span(p) = {} /\ T \cap Span(u) = {}
      BY <2>3, <1>1, <1>2, <1>3, <1>4 DEF Span
    <3>2. /\ Cardinality(T \cup Span(p)) = Cardinality(T) + Len(p.data)
          /\ Cardinality(T) \in Nat /\ Len(p.data) \in Nat
      BY <3>1, <1>1, <1>4, CountSpan
    <3>3. /\ Cardinality(T \cup Span(u)) = Cardinality(T) + Len(u.data) /\ Len(u.data) \in Nat
      BY Zenon, <3>1, <2>2, <1>4, CountSpan
    <3>4. T \cup Span(p) = Cover(q) /\ T \cup Span(u) = Cover(L)
      BY <2>5, <1>1
    <3> DEFINE a == Cardinality(T)
               b == Len(p.data)
               c == Len(u.data)
    <3>5. Cardinality(Cover(q)) = a + b /\ Cardinality(Cover(L)) = a + c
      BY Zenon, <3>2, <3>3, <3>4
    <3>6. a \in Nat /\ b \in Nat /\ c \in Nat
      BY <3>2, <3>3
    <3> HIDE DEF a, b, c
    <3>7. a + c = (a + b) - b + c
      BY <3>6
    <3> QED BY <3>5, <3>7, <2>3 DEF b, c
  <2>9. TrimFront(s) = [s EXCEPT !.storelist[1] = [p EXCEPT !.data = cut, !.first = f],
                                 !.unassembled = @ - Len(p.data) + Len(cut),
                                 !.threw = @ \/ k > Len(p.data)]
    <3>1. ~(p.first >= f)
      BY <1>2, <1>3, <1>6
    <3> QED BY Zenon, <3>1, <1>1 DEF TrimFront, k, cut, f
  <2>10. TrimFront(s) = [s EXCEPT !.storelist = L, !.unassembled = Cardinality(Cover(L))]
    <3>1. TrimFront(s) = [s EXCEPT !.storelist = L, !.unassembled = Cardinality(Cover(L)),
                                   !.threw = FALSE]
      BY Zenon, <2>9, <2>1, <2>4, <2>5, <2>8
    <3> QED BY Zenon, <3>1 DEF Reassemblers
  <2>11. u.first >= f
    BY <2>3, <1>3
  <2> QED BY Zenon, <2>5, <2>6, <2>7, <2>10, <2>11 DEF f
<1>7. p.first >= f \/ p.first < f
  BY <1>2, <1>3
<1> QED BY Zenon, <1>5, <1>6, <1>7

\* TrimBack cuts nothing off a store that ends before the limit.
LEMMA TrimBackSame ==
  ASSUME NEW n \in Nat, NEW s \in Reassemblers, GoodList(s.storelist, n), s.storelist # <<>>,
         SizeMod \in Nat, Limit(s) \in Nat, Limit(s) < SizeMod,
         \A x \in Cover(s.storelist) : x < Limit(s)
  PROVE  TrimBack(s) = s
<1> DEFINE q == s.storelist
           m == Len(q)
           p == q[m]
           k == Limit(s)
           cut == substr(p.data, 0, Size(k - p.first))
<1>1. q \in Seq(Pieces) /\ m \in Nat /\ m \in 1 .. m
  BY DEF GoodList
<1>2. GoodPiece(p, n)
  BY <1>1 DEF GoodList
<1> HIDE DEF m, p, k
<1>3. /\ p.first \in Nat /\ p.last \in Nat /\ p.first <= p.last /\ Len(p.data) = p.last + 1 - p.first
  BY <1>2, GoodPieceFacts
<1>4. k \in Nat /\ k < SizeMod /\ p.last < k
  <2>1. p.last \in Span(p)
    BY <1>3 DEF Span
  <2>2. p.last \in Cover(q)
    BY <2>1, <1>1 DEF Cover, CoverPart, p, m
  <2> QED BY <2>2 DEF k
<1>5. Size(p.last + 1) = p.last + 1
  <2>1. p.last + 1 \in Nat /\ p.last + 1 < SizeMod
    BY <1>3, <1>4
  <2> QED BY <2>1, SizeIsSame
<1>6. CASE p.last + 1 < k
  BY <1>5, <1>6 DEF TrimBack, p, m, k
<1>7. CASE p.last + 1 = k
  <2>1. p.last = k - 1 /\ k - p.first = Len(p.data) /\ ~(p.last + 1 < k)
    BY <1>3, <1>4, <1>7
  <2>2. Size(k - p.first) = Len(p.data)
    <3>1. Len(p.data) \in Nat /\ Len(p.data) < SizeMod
      BY <2>1, <1>3, <1>4
    <3> QED BY <3>1, <2>1, SizeIsSame
  <2>3. cut = p.data
    <3>1. p.data \in Seq(Nat)
      BY <1>2, GoodPieceData
    <3>2. cut = SubSeq(p.data, 0 + 1, Lesser(0 + Len(p.data), Len(p.data)))
      BY Zenon, <2>2 DEF substr
    <3>3. Lesser(0 + Len(p.data), Len(p.data)) = Len(p.data)
      BY <3>1 DEF Lesser
    <3> HIDE DEF cut
    <3>4. cut = SubSeq(p.data, 1, Len(p.data))
      BY <3>2, <3>3
    <3> QED BY <3>1, <3>4
  <2>4. [p EXCEPT !.data = p.data, !.last = p.last] = p
    <3>1. p \in Pieces
      BY <1>2 DEF GoodPiece
    <3> DEFINE v == [p EXCEPT !.data = p.data, !.last = p.last]
    <3>2. v \in Pieces /\ v.first = p.first /\ v.last = p.last /\ v.data = p.data
      BY Zenon, <3>1 DEF Pieces
    <3> HIDE DEF v
    <3>3. v = p
      BY <3>1, <3>2 DEF Pieces
    <3> QED BY <3>3 DEF v
  <2>5. TrimBack(s) = [s EXCEPT !.storelist[m] = [p EXCEPT !.data = cut, !.last = k - 1],
                                !.unassembled = @ - Len(p.data) + Len(cut)]
    BY <2>1, <1>5 DEF TrimBack, p, m, k
  <2> HIDE DEF cut
  <2>6. TrimBack(s) = [s EXCEPT !.storelist[m] = p, !.unassembled = @ - Len(p.data) + Len(p.data)]
    BY Zenon, <2>1, <2>3, <2>4, <2>5
  <2>7. [q EXCEPT ![m] = p] = q
    BY <1>1 DEF p
  <2>8. s.unassembled - Len(p.data) + Len(p.data) = s.unassembled
    <3>1. s.unassembled \in Int /\ Len(p.data) \in Int
      BY <1>3 DEF Reassemblers
    <3> QED BY <3>1
  <2>9. TrimBack(s) = [s EXCEPT !.storelist = q, !.unassembled = s.unassembled]
    BY Zenon, <2>6, <2>7, <2>8
  <2> QED BY Zenon, <2>9 DEF Reassemblers
<1>8. p.last + 1 < k \/ p.last + 1 = k
  BY <1>3, <1>4
<1> QED BY <1>6, <1>7, <1>8

\* Writing the bytes that come next, as far as there is room.
LEMMA WriteGood ==
  ASSUME NEW b \in ByteStreams, GoodOutput(b), NEW d \in Seq(Nat),
         Len(d) <= remaining_capacity(b), \A i \in 1 .. Len(d) : d[i] = b.alwritten + i - 1
  PROVE  /\ write(b, d) \in ByteStreams /\ GoodOutput(write(b, d))
         /\ write(b, d).alwritten = b.alwritten + Len(d)
         /\ write(b, d).alread = b.alread /\ write(b, d).max = b.max
         /\ write(b, d).end = b.end /\ write(b, d).error = b.error
<1> DEFINE c == b.content
           x == Len(c)
           y == Len(d)
           w == write(b, d)
           e == c \o d
<1>1. /\ c \in Seq(Nat) /\ b.alread \in Nat /\ b.alwritten \in Nat /\ b.max \in Nat
      /\ x \in Nat /\ y \in Nat
  BY DEF ByteStreams
<1>2. b.alwritten = b.alread + x /\ \A i \in 1 .. x : c[i] = b.alread + i - 1
  BY DEF GoodOutput
<1>3. x + y <= b.max
  BY <1>1 DEF remaining_capacity
<1>4. e \in Seq(Nat) /\ Len(e) = x + y
  BY <1>1
<1>5. \A i \in 1 .. x : e[i] = c[i]
  BY <1>1
<1>6. \A i \in 1 .. y : e[x + i] = d[i]
  BY <1>1
<1>7. Lesser(remaining_capacity(b), y) = y
  BY <1>1, <1>3 DEF Lesser, remaining_capacity
<1>8. SubSeq(d, 1, y) = d
  OBVIOUS
<1>9. w = [b EXCEPT !.content = e, !.alwritten = b.alwritten + y]
  BY Zenon, <1>7, <1>8 DEF write
<1> HIDE DEF x, y, e, w
<1>10. /\ w \in ByteStreams /\ w.content = e /\ w.alwritten = b.alwritten + y
       /\ w.alread = b.alread /\ w.max = b.max /\ w.end = b.end /\ w.error = b.error
  <2>1. b.alwritten + y \in Nat
    BY <1>1
  <2> QED BY Zenon, <2>1, <1>4, <1>9 DEF ByteStreams
<1>11. ASSUME NEW i \in 1 .. x + y PROVE e[i] = b.alread + i - 1
  <2>1. CASE i <= x
    <3>1. i \in 1 .. x
      BY <2>1, <1>1
    <3> QED BY <3>1, <1>2, <1>5
  <2>2. CASE i > x
    <3>1. i - x \in 1 .. y /\ x + (i - x) = i
      BY <2>2, <1>1
    <3>2. e[i] = b.alwritten + (i - x) - 1
      BY <3>1, <1>6 DEF y
    <3> QED BY <3>1, <3>2, <1>1, <1>2
  <2> QED BY <2>1, <2>2, <1>1
<1>12. b.alwritten + y = b.alread + (x + y)
  BY <1>1, <1>2
<1>13. GoodOutput(w)
  BY <1>3, <1>4, <1>10, <1>11, <1>12 DEF GoodOutput
<1> QED BY <1>10, <1>13 DEF w, y

\* The first m bytes of a piece.
LEMMA PrefixGood ==
  ASSUME NEW n \in Nat, NEW p, GoodPiece(p, n), NEW m \in 0 .. Len(p.data)
  PROVE  /\ SubSeq(p.data, 1, m) \in Seq(Nat) /\ Len(SubSeq(p.data, 1, m)) = m
         /\ \A j \in 1 .. m : SubSeq(p.data, 1, m)[j] = p.first + j - 1
<1> DEFINE x == Len(p.data)
           d == SubSeq(p.data, 1, m)
<1>1. p.data \in Seq(Nat) /\ \A j \in 1 .. x : p.data[j] = p.first + j - 1
  BY GoodPieceData
<1>2. x \in Nat /\ m \in Nat /\ m <= x
  BY <1>1
<1>3. d \in Seq(Nat) /\ Len(d) = m - 0 /\ \A j \in 1 .. m - 0 : d[j] = p.data[0 + j]
  <2>1. 0 \in Nat /\ 0 <= m /\ m <= Len(p.data) /\ d = SubSeq(p.data, 0 + 1, m)
    BY <1>2
  <2> HIDE DEF d
  <2> QED BY <2>1, <1>1, <1>2, SliceAt
<1> HIDE DEF d, x
<1>4. ASSUME NEW j \in 1 .. m PROVE d[j] = p.first + j - 1
  <2>1. j \in 1 .. m - 0 /\ 0 + j = j /\ j \in 1 .. x
    BY <1>2
  <2> QED BY Zenon, <2>1, <1>1, <1>3
<1>5. m - 0 = m
  BY <1>2
<1> QED BY <1>3, <1>4, <1>5 DEF d

\* What is left of the store q when the first m bytes of its first piece have been written.
Left(q, m) ==
    IF m < Len(q[1].data)
    THEN <<Piece(q[1].first + m, q[1].last, suffix(q[1].data, m))>> \o Tail(q)
    ELSE Tail(q)

\* It is the store without those bytes.
LEMMA LeftGood ==
  ASSUME NEW n \in Nat, NEW q, GoodList(q, n), q # <<>>, NEW m \in 0 .. Len(q[1].data)
  PROVE  /\ GoodList(Left(q, m), n)
         /\ Cover(Left(q, m)) = Cover(q) \ (q[1].first .. q[1].first + m - 1)
         /\ Cardinality(Cover(Left(q, m))) = Cardinality(Cover(q)) - m
         /\ \A x \in Cover(Left(q, m)) : x >= q[1].first + m
<1> DEFINE L == Left(q, m)
           p == q[1]
           c == Len(p.data)
           f == p.first
           l == p.last
           T == Cover(Tail(q))
           u == Piece(f + m, l, suffix(p.data, m))
<1>1. /\ GoodPiece(p, n) /\ GoodList(Tail(q), n) /\ Cover(q) = Span(p) \cup T
      /\ \A x \in T : x > l + 1
  BY TailGood
<1>2. f \in Nat /\ l \in Nat /\ f <= l /\ l < n /\ c = l + 1 - f
  BY <1>1, GoodPieceFacts
<1>3. T \in SUBSET (0 .. n - 1)
  BY <1>1, CoverFinite
<1>4. m \in Nat /\ m <= c /\ c \in Nat
  BY <1>2
<1>5. L = IF m < c THEN <<u>> \o Tail(q) ELSE Tail(q)
  BY DEF Left
<1>6. m < c => GoodPiece(u, n) /\ Len(suffix(p.data, m)) = c - m
  <2> SUFFICES ASSUME m < c PROVE GoodPiece(u, n) /\ Len(suffix(p.data, m)) = c - m
    OBVIOUS
  <2>1. m \in 0 .. c - 1
    BY <1>4
  <2> HIDE DEF p
  <2> QED BY <2>1, <1>1, SuffixGood
<1>7. u.first = f + m /\ u.last = l /\ u.data = suffix(p.data, m)
  BY DEF Piece
<1>8. m < c => GoodList(<<u>> \o Tail(q), n) /\ Cover(<<u>> \o Tail(q)) = Span(u) \cup T
  <2> HIDE DEF u
  <2> QED BY <1>6, <1>7, HeadReplaced
<1>9. Span(p) = f .. l /\ Span(u) = f + m .. l
  BY <1>7 DEF Span
<1> HIDE DEF p, c, f, l, T, u, L
<1>10. Cardinality(Cover(q)) = Cardinality(T) + c /\ Cardinality(T) \in Nat
  <2>1. T \cap Span(p) = {}
    BY <1>1, <1>2, <1>3, <1>9
  <2>2. T \cup Span(p) = Cover(q)
    BY <1>1
  <2> QED BY <2>1, <2>2, <1>1, <1>3, CountSpan DEF c
<1> DEFINE Goal == /\ GoodList(L, n) /\ Cover(L) = Cover(q) \ (f .. f + m - 1)
                   /\ Cardinality(Cover(L)) = Cardinality(Cover(q)) - m
                   /\ \A x \in Cover(L) : x >= f + m
<1>11. ASSUME m < c PROVE Goal
  <2>1. GoodPiece(u, n) /\ Len(u.data) = c - m /\ L = <<u>> \o Tail(q)
    BY <1>5, <1>6, <1>7, <1>11
  <2>2. GoodList(L, n) /\ Cover(L) = Span(u) \cup T
    BY <2>1, <1>8, <1>11
  <2>3. Cover(L) = Cover(q) \ (f .. f + m - 1)
    <3>1. Span(u) = Span(p) \ (f .. f + m - 1)
      BY <1>2, <1>4, <1>9
    <3>2. T = T \ (f .. f + m - 1)
      BY <1>1, <1>2, <1>3, <1>4
    <3> QED BY <3>1, <3>2, <2>2, <1>1
  <2>4. Cardinality(Cover(L)) = Cardinality(Cover(q)) - m
    <3>1. T \cap Span(u) = {}
      BY <1>1, <1>2, <1>3, <1>4, <1>9
    <3>2. T \cup Span(u) = Cover(L)
      BY <2>2
    <3>3. Cardinality(Cover(L)) = Cardinality(T) + (c - m)
      BY <3>1, <3>2, <2>1, <1>3, CountSpan
    <3> QED BY <3>3, <1>4, <1>10
  <2>5. \A x \in Cover(L) : x >= f + m
    <3>1. \A x \in Span(u) : x >= f + m
      BY <1>2, <1>4, <1>9
    <3>2. \A x \in T : x >= f + m
      BY <1>1, <1>2, <1>3, <1>4, <1>11
    <3> QED BY <3>1, <3>2, <2>2
  <2> QED BY <2>2, <2>3, <2>4, <2>5
<1>12. ASSUME m = c PROVE Goal
  <2>1. L = Tail(q) /\ f + m = l + 1
    BY <1>2, <1>4, <1>5, <1>12
  <2>2. Cover(L) = T /\ GoodList(L, n)
    BY <2>1, <1>1 DEF T
  <2>3. T = Cover(q) \ (f .. f + m - 1)
    BY <2>1, <1>1, <1>2, <1>3, <1>9
  <2>4. Cardinality(T) = Cardinality(Cover(q)) - m
    BY <1>4, <1>10, <1>12
  <2>5. \A x \in T : x >= f + m
    BY <2>1, <1>1, <1>2, <1>3
  <2> QED BY <2>2, <2>3, <2>4, <2>5
<1>13. m < c \/ m = c
  BY <1>4
<1>14. Goal
  BY <1>11, <1>12, <1>13
<1> QED BY <1>14 DEF f, p, L

\* What a step from s to t of a reassembler of n bytes does: it forgets no byte and takes
\* none back, and changes no more of the output than a write does.
Advances(s, t, n) ==
    /\ GoodState(t, n) /\ t.firstindex >= s.firstindex /\ t.checkeof = s.checkeof
    /\ (0 .. t.firstindex - 1) \cup Cover(t.storelist) = (0 .. s.firstindex - 1) \cup Cover(s.storelist)
    /\ t.output.max = s.output.max /\ t.output.alread = s.output.alread
    /\ t.output.error = s.output.error

\* WriteFront writes the front of the store, and ends the output when that was all of it
\* and the end is known.
LEMMA WriteFrontGood ==
  ASSUME NEW n \in Nat, NEW s, GoodState(s, n), s.storelist # <<>>
  PROVE  /\ Advances(s, WriteFront(s), n)
         /\ WriteFront(s).output.end = (s.output.end \/ (s.checkeof /\ WriteFront(s).storelist = <<>>))
<1> DEFINE q == s.storelist
           p == q[1]
           c == Len(p.data)
           f == s.firstindex
           b == s.output
           rc == remaining_capacity(b)
           m == Lesser(rc, c)
           send == SubSeq(p.data, 1, m)
           L == Left(q, m)
           w == WriteFront(s)
<1>1. /\ s \in Reassemblers /\ s.threw = FALSE /\ GoodOutput(b) /\ f = b.alwritten /\ f <= n
      /\ GoodList(q, n) /\ s.unassembled = Cardinality(Cover(q))
  BY DEF GoodState
<1>2. \A x \in Cover(q) : x >= f
  BY DEF GoodState
<1>3. GoodPiece(p, n) /\ Head(q) = p /\ Cover(q) = Span(p) \cup Cover(Tail(q))
  BY <1>1, TailGood
<1> HIDE DEF p
<1>4. p.first \in Nat /\ p.last \in Nat /\ p.first <= p.last /\ p.last < n /\ c = p.last + 1 - p.first
  BY <1>3, GoodPieceFacts
<1>5. /\ b \in ByteStreams /\ f \in Nat /\ s.checkeof \in BOOLEAN
  BY <1>1 DEF Reassemblers
<1>6. rc \in Nat
  BY <1>1, <1>5 DEF ByteStreams, GoodOutput, remaining_capacity
<1>7. c \in Nat /\ c # 0
  BY <1>4
<1> HIDE DEF c, rc, f, b, q
<1>8. CASE p.first # f
  <2>1. w = s
    BY <1>3, <1>8 DEF WriteFront, f, q
  <2>2. Advances(s, s, n)
    <3>1. s.firstindex >= s.firstindex
      BY <1>5 DEF f
    <3> QED BY <3>1 DEF Advances
  <2>3. s.output.end = (s.output.end \/ (s.checkeof /\ s.storelist = <<>>))
    <3>1. s.output.end \in BOOLEAN
      BY <1>5 DEF ByteStreams, b
    <3> QED BY <3>1
  <2> QED BY <2>1, <2>2, <2>3
<1>9. CASE p.first = f
  <2>1. m \in 0 .. c /\ m \in Nat /\ m <= rc /\ (m < c <=> rc < c) /\ (rc < c => m = rc) /\ (~(rc < c) => m = c)
    BY <1>6, <1>7 DEF Lesser
  <2> HIDE DEF m
  <2>2. send \in Seq(Nat) /\ Len(send) = m /\ \A j \in 1 .. m : send[j] = f + j - 1
    BY <2>1, <1>3, <1>9, PrefixGood DEF c
  <2>3. substr(p.data, 0, rc) = send
    <3>1. 0 + rc = rc /\ 0 + 1 = 1
      BY <1>6
    <3> QED BY Zenon, <3>1 DEF substr, m, c
  <2> HIDE DEF send
  <2>4. /\ write(b, send) \in ByteStreams /\ GoodOutput(write(b, send))
        /\ write(b, send).alwritten = f + m
        /\ write(b, send).alread = b.alread /\ write(b, send).max = b.max
        /\ write(b, send).end = b.end /\ write(b, send).error = b.error
    BY <2>1, <2>2, <1>1, <1>5, WriteGood DEF rc
  <2> DEFINE o == write(b, send)
             t == [s EXCEPT !.output = o, !.unassembled = s.unassembled - m,
                            !.firstindex = f + m, !.storelist = L]
  <2>5. /\ GoodList(L, n) /\ Cover(L) = Cover(q) \ (f .. f + m - 1)
        /\ Cardinality(Cover(L)) = Cardinality(Cover(q)) - m
        /\ \A x \in Cover(L) : x >= f + m
    <3>1. m \in 0 .. Len(q[1].data) /\ q[1].first = f /\ q # <<>>
      BY <2>1, <1>9 DEF c, p, q
    <3> HIDE DEF L
    <3> QED BY <3>1, <1>1, LeftGood DEF L
  <2>6. w = [t EXCEPT !.output = IF empty(t) /\ t.checkeof THEN end_input(@) ELSE @]
    <3>1. (IF rc < c THEN p.first + rc ELSE p.last + 1) = f + m
      BY <2>1, <1>4, <1>6, <1>7, <1>9
    <3>2. (IF rc < c THEN <<Piece(p.first + rc, p.last, suffix(p.data, rc))>> \o Tail(q) ELSE Tail(q)) = L
      BY <2>1 DEF Left, c, p
    <3> DEFINE v == [s EXCEPT
                       !.output = write(@, substr(p.data, 0, rc)),
                       !.unassembled = @ - Len(substr(p.data, 0, rc)),
                       !.firstindex = IF rc < Len(p.data) THEN p.first + rc ELSE p.last + 1,
                       !.storelist = IF rc < Len(p.data)
                                     THEN <<Piece(p.first + rc, p.last, suffix(p.data, rc))>> \o Tail(@)
                                     ELSE Tail(@)]
    <3>3. w = [v EXCEPT !.output = IF empty(v) /\ v.checkeof THEN end_input(@) ELSE @]
      BY Zenon, <1>3, <1>9 DEF WriteFront, f, q, rc, b
    <3>4. v = t
      BY Zenon, <3>1, <3>2, <2>2, <2>3 DEF c, q, b
    <3> HIDE DEF v, t, w
    <3> QED BY <3>3, <3>4
  <2> HIDE DEF L, o
  <2>7. /\ t \in Reassemblers /\ t.output = o /\ t.firstindex = f + m /\ t.storelist = L
        /\ t.unassembled = s.unassembled - m /\ t.checkeof = s.checkeof /\ t.threw = FALSE
    <3>1. f + m \in Nat /\ s.unassembled - m \in Int
      BY <2>1, <1>1, <1>5 DEF Reassemblers
    <3>2. L \in Seq(Pieces) /\ o \in ByteStreams
      BY <2>4, <2>5 DEF GoodList, o
    <3> QED BY Zenon, <3>1, <3>2, <1>1 DEF Reassemblers
  <2>8. empty(t) <=> L = <<>>
    <3>1. Cardinality(Cover(<<>>)) = 0
      <4>1. Cover(<<>>) = {}
        BY DEF Cover, CoverPart
      <4> QED BY <4>1, FS_EmptySet
    <3>2. t.unassembled = Cardinality(Cover(L))
      BY <2>5, <2>7, <1>1
    <3> HIDE DEF t
    <3> QED BY Zenon, <3>1, <3>2, <2>7 DEF empty
  <2> HIDE DEF t, w
  <2> DEFINE z == IF L = <<>> /\ s.checkeof THEN end_input(o) ELSE o
  <2>9. w = [t EXCEPT !.output = z]
    BY <2>6, <2>7, <2>8
  <2>10. /\ z \in ByteStreams /\ GoodOutput(z) /\ z.alwritten = f + m
         /\ z.alread = b.alread /\ z.max = b.max /\ z.error = b.error
         /\ z.end = (b.end \/ (s.checkeof /\ L = <<>>))
    <3>1. /\ o \in ByteStreams /\ GoodOutput(o) /\ o.alwritten = f + m
          /\ o.alread = b.alread /\ o.max = b.max /\ o.end = b.end /\ o.error = b.error
      BY <2>4 DEF o
    <3>2. CASE L = <<>> /\ s.checkeof
      <4>1. z = [o EXCEPT !.end = TRUE]
        BY <3>2 DEF end_input
      <4> HIDE DEF z
      <4>2. /\ z \in ByteStreams /\ z.content = o.content /\ z.alwritten = o.alwritten /\ z.end = TRUE
            /\ z.alread = o.alread /\ z.max = o.max /\ z.error = o.error
        BY Zenon, <4>1, <3>1 DEF ByteStreams
      <4>3. GoodOutput(z)
        BY <4>2, <3>1 DEF GoodOutput
      <4> QED BY Zenon, <4>2, <4>3, <3>1, <3>2
    <3>3. CASE ~(L = <<>> /\ s.checkeof)
      <4>1. z = o
        BY <3>3
      <4>2. b.end \in BOOLEAN
        BY <1>5 DEF ByteStreams
      <4> QED BY <4>1, <4>2, <3>1, <3>3
    <3> QED BY <3>2, <3>3
  <2> HIDE DEF z
  <2>11. /\ w \in Reassemblers /\ w.output = z /\ w.firstindex = f + m /\ w.storelist = L
         /\ w.unassembled = s.unassembled - m /\ w.checkeof = s.checkeof /\ w.threw = FALSE
    BY <2>7, <2>9, <2>10 DEF Reassemblers
  <2>12. w.unassembled = Cardinality(Cover(L))
    BY <2>5, <2>11, <1>1
  <2>13. f + m <= n
    BY <2>1, <1>4, <1>9
  <2>14. GoodState(w, n)
    BY Zenon, <2>5, <2>10, <2>11, <2>12, <2>13 DEF GoodState
  <2>15. (0 .. f + m - 1) \cup Cover(L) = (0 .. f - 1) \cup Cover(q)
    <3>1. f .. f + m - 1 \subseteq Cover(q)
      BY <2>1, <1>3, <1>4, <1>9 DEF Span
    <3>2. 0 .. f + m - 1 = (0 .. f - 1) \cup (f .. f + m - 1)
      BY <2>1, <1>5
    <3> QED BY <3>1, <3>2, <2>5
  <2>16. f + m >= f
    BY <2>1, <1>5
  <2>17. Advances(s, w, n)
    <3>1. w.firstindex >= s.firstindex
      BY <2>11, <2>16 DEF f
    <3>2. (0 .. w.firstindex - 1) \cup Cover(w.storelist)
            = (0 .. s.firstindex - 1) \cup Cover(s.storelist)
      <4>1. Cover(w.storelist) = Cover(L)
        BY <2>11
      <4>2. 0 .. w.firstindex - 1 = 0 .. f + m - 1
        <5> DEFINE i == w.firstindex
        <5>1. i = f + m
          BY <2>11
        <5> HIDE DEF i
        <5>2. 0 .. i - 1 = 0 .. f + m - 1
          BY <5>1, <2>1, <1>5
        <5> QED BY <5>2 DEF i
      <4> QED BY Zenon, <4>1, <4>2, <2>15 DEF f, q
    <3>3. /\ w.output.max = s.output.max /\ w.output.alread = s.output.alread
          /\ w.output.error = s.output.error
      BY <2>10, <2>11 DEF b
    <3> QED BY <3>1, <3>2, <3>3, <2>11, <2>14 DEF Advances
  <2>18. w.output.end = (s.output.end \/ (s.checkeof /\ w.storelist = <<>>))
    BY <2>10, <2>11 DEF b
  <2> QED BY <2>17, <2>18 DEF w
<1> QED BY <1>8, <1>9

\* t is s but for the flag, which is c.
Flagged(s, c, t, n) ==
    /\ GoodState(t, n) /\ t.checkeof = c /\ t.firstindex = s.firstindex
    /\ t.storelist = s.storelist /\ t.output = s.output /\ t.threw = FALSE

\* The flag alone.
LEMMA FlagGood ==
  ASSUME NEW n \in Nat, NEW s, GoodState(s, n), NEW c \in BOOLEAN
  PROVE  Flagged(s, c, [s EXCEPT !.checkeof = c], n)
<1> DEFINE t == [s EXCEPT !.checkeof = c]
<1>1. s \in Reassemblers
  BY DEF GoodState
<1>2. /\ t \in Reassemblers /\ t.checkeof = c /\ t.firstindex = s.firstindex
      /\ t.storelist = s.storelist /\ t.output = s.output /\ t.threw = s.threw
      /\ t.unassembled = s.unassembled
  BY <1>1 DEF Reassemblers
<1> HIDE DEF t
<1>3. GoodState(t, n)
  BY <1>2 DEF GoodState
<1>4. s.threw = FALSE
  BY DEF GoodState
<1>5. Flagged(s, c, t, n)
  BY <1>2, <1>3, <1>4 DEF Flagged
<1> QED BY <1>5 DEF t

\* A push without data.
LEMMA PushEmptyGood ==
  ASSUME NEW n \in Nat, NEW s, GoodState(s, n), NEW index, NEW fin \in BOOLEAN
  PROVE  PushedEmpty(s, index, fin, push_substring(s, <<>>, index, fin), n)
<1> DEFINE c == s.checkeof \/ fin
           r == [s EXCEPT !.checkeof = c]
           b == s.output
           o == IF c /\ s.firstindex = index THEN end_input(b) ELSE b
           t == push_substring(s, <<>>, index, fin)
<1>1. s \in Reassemblers
  BY DEF GoodState
<1>2. b \in ByteStreams /\ s.checkeof \in BOOLEAN /\ b.end \in BOOLEAN
  BY <1>1 DEF Reassemblers, ByteStreams
<1>3. c \in BOOLEAN
  BY <1>2
<1>4. /\ GoodState(r, n) /\ r.checkeof = c /\ r.firstindex = s.firstindex
      /\ r.storelist = s.storelist /\ r.output = b /\ r.threw = FALSE
  <2>1. Flagged(s, c, r, n)
    <3> HIDE DEF c
    <3> QED BY <1>3, FlagGood
  <2> HIDE DEF r, c
  <2> QED BY <2>1 DEF Flagged
<1>5. t = [r EXCEPT !.output = IF r.checkeof /\ r.firstindex = index THEN end_input(@) ELSE @]
  BY DEF push_substring, EofSeen
<1> HIDE DEF r, c, t
<1>6. t = [r EXCEPT !.output = o]
  BY <1>4, <1>5
<1>7. /\ o \in ByteStreams /\ o.content = b.content /\ o.alread = b.alread /\ o.max = b.max
      /\ o.error = b.error /\ o.alwritten = b.alwritten
      /\ o.end = (b.end \/ (c /\ s.firstindex = index))
  <2>1. CASE c /\ s.firstindex = index
    <3>1. o = [b EXCEPT !.end = TRUE]
      BY <2>1 DEF end_input
    <3> HIDE DEF o, b
    <3>2. /\ o \in ByteStreams /\ o.content = b.content /\ o.alread = b.alread /\ o.max = b.max
          /\ o.error = b.error /\ o.alwritten = b.alwritten /\ o.end = TRUE
      BY Zenon, <3>1, <1>2 DEF ByteStreams
    <3> QED BY Zenon, <2>1, <3>2
  <2>2. CASE ~(c /\ s.firstindex = index)
    BY <2>2, <1>2
  <2> QED BY <2>1, <2>2
<1> HIDE DEF o
<1>8. r \in Reassemblers
  BY <1>4 DEF GoodState
<1>9. /\ t \in Reassemblers /\ t.output = o /\ t.checkeof = c /\ t.firstindex = s.firstindex
      /\ t.storelist = s.storelist /\ t.threw = FALSE /\ t.unassembled = r.unassembled
  BY <1>4, <1>6, <1>7, <1>8 DEF Reassemblers
<1>10. GoodOutput(o)
  <2>1. GoodOutput(b)
    BY DEF GoodState
  <2> QED BY <2>1, <1>7 DEF GoodOutput
<1>11. GoodState(t, n)
  <2>1. r.unassembled = Cardinality(Cover(s.storelist))
    BY <1>4 DEF GoodState
  <2>2. /\ s.firstindex = b.alwritten /\ s.firstindex <= n /\ GoodList(s.storelist, n)
        /\ \A x \in Cover(s.storelist) : x >= s.firstindex
    BY DEF GoodState
  <2> QED BY <2>1, <2>2, <1>7, <1>9, <1>10 DEF GoodState
<1> QED BY <1>7, <1>9, <1>11 DEF t, c, PushedEmpty

\* The first piece of a store into which a piece that reaches f has been put reaches f.
LEMMA HeadReaches ==
  ASSUME NEW n \in Nat, NEW f \in Nat, NEW q, NEW p, GoodPiece(p, n), p.last >= f,
         \A x \in Cover(q) : x >= f, NEW L, GoodList(L, n), Cover(L) = Cover(q) \cup Span(p)
  PROVE  L # <<>> /\ L[1].last >= f
<1>1. p.first \in Nat /\ p.last \in Nat /\ p.first <= p.last
  BY GoodPieceFacts
<1>2. p.last \in Cover(L)
  BY <1>1 DEF Span
<1>3. L # <<>>
  BY <1>2 DEF Cover, CoverPart
<1> DEFINE h == L[1]
<1>4. /\ GoodPiece(h, n) /\ Cover(L) = Span(h) \cup Cover(Tail(L))
      /\ \A x \in Cover(Tail(L)) : x > h.last + 1
  BY <1>3, TailGood
<1> HIDE DEF h
<1>5. h.first \in Nat /\ h.last \in Nat /\ h.first <= h.last
  BY <1>4, GoodPieceFacts
<1>6. ASSUME h.last < f PROVE FALSE
  <2>1. h.last \in Cover(L) /\ ~(h.last >= f)
    BY <1>4, <1>5, <1>6 DEF Span
  <2>2. h.last \in Span(p)
    BY <2>1
  <2>3. h.last + 1 \in Span(p)
    BY <2>2, <1>1, <1>5, <1>6 DEF Span
  <2>4. h.last + 1 \in Span(h) \/ h.last + 1 > h.last + 1
    BY <2>3, <1>4
  <2> QED BY <2>4, <1>5 DEF Span
<1>7. h.last >= f
  BY <1>5, <1>6
<1> QED BY <1>3, <1>7 DEF h

\* A push of a piece with data that ends before the limit.
LEMMA PushDataGood ==
  ASSUME NEW n \in Nat, NEW s, GoodState(s, n), NEW p, GoodPiece(p, n), NEW fin \in BOOLEAN,
         SizeMod \in Nat, n < SizeMod, Limit(s) < SizeMod, p.last < Limit(s),
         \A x \in Cover(s.storelist) : x < Limit(s)
  PROVE  PushedData(s, p, fin, push_substring(s, p.data, p.first, fin), n)
<1> DEFINE c == s.checkeof \/ fin
           r == [s EXCEPT !.checkeof = c]
           f == s.firstindex
           q == s.storelist
           k == Limit(s)
           w == push_substring(s, p.data, p.first, fin)
           Known(v) == (0 .. v.firstindex - 1) \cup Cover(v.storelist)
           Goal(t) == /\ GoodState(t, n) /\ t.checkeof = c /\ t.firstindex >= f
                      /\ Known(t) = Known(s) \cup Span(p)
                      /\ t.output.max = s.output.max /\ t.output.alread = s.output.alread
                      /\ t.output.error = s.output.error
                      /\ p.last < f => t.firstindex = f
                      /\ t.output.end = (s.output.end \/ (c /\ p.last >= f /\ t.storelist = <<>>))
<1>1. s \in Reassemblers /\ GoodList(q, n) /\ \A x \in Cover(q) : x >= f
  BY DEF GoodState
<1>2. /\ f \in Nat /\ s.checkeof \in BOOLEAN /\ s.output.end \in BOOLEAN
      /\ s.output.max \in Nat /\ k = f + s.output.max /\ k \in Nat
  BY <1>1 DEF Reassemblers, ByteStreams, Limit
<1>3. c \in BOOLEAN
  BY <1>2
<1>4. /\ GoodState(r, n) /\ r.checkeof = c /\ r.firstindex = f
      /\ r.storelist = q /\ r.output = s.output /\ r.threw = FALSE
  <2>1. Flagged(s, c, r, n)
    <3> HIDE DEF c
    <3> QED BY <1>3, FlagGood
  <2> HIDE DEF r, c
  <2> QED BY <2>1 DEF Flagged
<1>5. p.first \in Nat /\ p.last \in Nat /\ p.first <= p.last /\ p.last < n
      /\ Len(p.data) = p.last + 1 - p.first
  BY GoodPieceFacts
<1>6. Piece(p.first, Size(p.first + Len(p.data) - 1), p.data) = p
  <2>1. p.first + Len(p.data) - 1 = p.last /\ p.last < SizeMod
    BY <1>5
  <2>2. Size(p.last) = p.last
    BY <2>1, <1>5, SizeIsSame
  <2>3. p \in Pieces
    BY DEF GoodPiece
  <2>4. p = [first |-> p.first, last |-> p.last, data |-> p.data]
    BY <2>3 DEF Pieces
  <2> QED BY <2>1, <2>2, <2>4 DEF Piece
<1>7. w = IF p.last < f THEN r
          ELSE IF Insert(r, p).threw \/ TrimFront(Insert(r, p)).threw THEN [r EXCEPT !.threw = TRUE]
          ELSE WriteFront(TrimBack(TrimFront(Insert(r, p))))
  <2>1. p.data # <<>>
    BY DEF GoodPiece
  <2>2. w = LET P == Piece(p.first, Size(p.first + Len(p.data) - 1), p.data)
                t == Insert(r, P)
            IN  IF P.last < r.firstindex THEN r
                ELSE IF t.threw \/ TrimFront(t).threw THEN [r EXCEPT !.threw = TRUE]
                ELSE WriteFront(TrimBack(TrimFront(t)))
    BY <2>1 DEF push_substring, EofSeen
  <2> HIDE DEF w, r
  <2> QED BY <2>2, <1>4, <1>6
<1> HIDE DEF w, r, c, f, q, k
<1>8. ASSUME p.last < f PROVE Goal(w)
  <2>1. w = r
    BY <1>7, <1>8
  <2>2. Span(p) \subseteq 0 .. f - 1
    BY <1>2, <1>5, <1>8 DEF Span
  <2>3. Known(r) = Known(s) \cup Span(p)
    BY <2>2, <1>4 DEF f, q
  <2>4. ~(p.last >= f) /\ f >= f
    BY <1>2, <1>5, <1>8
  <2> QED BY <2>1, <2>3, <2>4, <1>2, <1>4
<1>9. ASSUME p.last >= f PROVE Goal(w)
  <2>1. GoodList(r.storelist, n) /\ r.unassembled = Cardinality(Cover(r.storelist)) /\ r \in Reassemblers
    BY <1>4 DEF GoodState
  <2>2. PICK L : /\ GoodList(L, n) /\ Cover(L) = Cover(q) \cup Span(p)
                 /\ Insert(r, p) = [r EXCEPT !.storelist = L, !.threw = FALSE,
                                             !.unassembled = Cardinality(Cover(L))]
    <3>1. \E L : Inserted(r, p, n, L)
      BY <2>1, InsertGood
    <3> QED BY Zenon, <3>1, <1>4 DEF Inserted
  <2> DEFINE t == Insert(r, p)
  <2>3. /\ t \in Reassemblers /\ t.storelist = L /\ t.threw = FALSE /\ t.firstindex = f
        /\ t.unassembled = Cardinality(Cover(L)) /\ t.checkeof = c /\ t.output = s.output
    <3>1. L \in Seq(Pieces) /\ Cardinality(Cover(L)) \in Int
      <4>1. Cardinality(Cover(L)) \in Nat
        BY Zenon, <2>2, CoverFinite
      <4>2. L \in Seq(Pieces)
        BY <2>2 DEF GoodList
      <4> QED BY <4>1, <4>2
    <3> QED BY Zenon, <3>1, <2>1, <2>2, <1>4 DEF Reassemblers
  <2> HIDE DEF t
  <2>4. L # <<>> /\ L[1].last >= f
    BY <2>2, <1>1, <1>2, <1>9, HeadReaches DEF f
  <2>5. PICK M : /\ GoodList(M, n) /\ M # <<>> /\ M[1].first >= f
                 /\ Cover(M) = Cover(L) \ (0 .. f - 1)
                 /\ TrimFront(t) = [t EXCEPT !.storelist = M, !.unassembled = Cardinality(Cover(M))]
    <3>1. /\ t \in Reassemblers /\ GoodList(t.storelist, n) /\ t.storelist # <<>>
          /\ t.storelist[1].last >= t.firstindex /\ t.threw = FALSE
          /\ t.unassembled = Cardinality(Cover(t.storelist))
      BY Zenon, <2>2, <2>3, <2>4
    <3>2. \E M : /\ GoodList(M, n) /\ M # <<>> /\ M[1].first >= t.firstindex
                 /\ Cover(M) = Cover(t.storelist) \ (0 .. t.firstindex - 1)
                 /\ TrimFront(t) = [t EXCEPT !.storelist = M, !.unassembled = Cardinality(Cover(M))]
      BY Zenon, <3>1, TrimFrontGood
    <3> QED BY Zenon, <3>2, <2>3
  <2> DEFINE u == TrimFront(t)
  <2>6. /\ u \in Reassemblers /\ u.storelist = M /\ u.threw = FALSE /\ u.firstindex = f
        /\ u.unassembled = Cardinality(Cover(M)) /\ u.checkeof = c /\ u.output = s.output
    <3>1. M \in Seq(Pieces) /\ Cardinality(Cover(M)) \in Int
      <4>1. Cardinality(Cover(M)) \in Nat
        BY Zenon, <2>5, CoverFinite
      <4>2. M \in Seq(Pieces)
        BY <2>5 DEF GoodList
      <4> QED BY <4>1, <4>2
    <3> QED BY Zenon, <3>1, <2>3, <2>5 DEF Reassemblers
  <2> HIDE DEF u
  <2>7. \A x \in Cover(M) : x \in Nat /\ x >= f /\ x < k
    <3>1. \A x \in Cover(M) : x \in Nat /\ x >= f
      BY <2>5, <1>2, CoverFrom
    <3>2. \A x \in Cover(q) : x < k
      BY DEF q, k
    <3>3. \A x \in Span(p) : x < k
      BY <1>2, <1>5 DEF Span, k
    <3> QED BY <3>1, <3>2, <3>3, <2>2, <2>5
  <2>8. TrimBack(u) = u
    <3>1. Limit(u) = k
      BY <2>6 DEF Limit, k, f
    <3>2. k \in Nat /\ k < SizeMod
      BY <1>2 DEF k
    <3> QED BY <3>1, <3>2, <2>5, <2>6, <2>7, TrimBackSame
  <2>9. GoodState(u, n)
    <3>1. GoodOutput(s.output) /\ f = s.output.alwritten /\ f <= n
      BY DEF GoodState, f
    <3> QED BY Zenon, <3>1, <2>5, <2>6, <2>7 DEF GoodState
  <2>10. w = WriteFront(u)
    <3>1. ~(p.last < f)
      BY <1>2, <1>5, <1>9
    <3>2. ~t.threw /\ ~u.threw
      BY <2>3, <2>6
    <3> QED BY <3>1, <3>2, <2>8, <1>7 DEF t, u
  <2>11. Advances(u, w, n) /\ w.output.end = (u.output.end \/ (u.checkeof /\ w.storelist = <<>>))
    BY <2>5, <2>6, <2>9, <2>10, WriteFrontGood
  <2>12. Known(u) = Known(s) \cup Span(p)
    <3>1. (0 .. f - 1) \cup Cover(M) = (0 .. f - 1) \cup Cover(q) \cup Span(p)
      BY <2>2, <2>5
    <3> QED BY <3>1, <2>6 DEF f, q
  <2>13. Known(w) = Known(u)
    BY <2>11 DEF Advances
  <2>14. /\ GoodState(w, n) /\ w.firstindex >= f /\ w.checkeof = c
         /\ w.output.max = s.output.max /\ w.output.alread = s.output.alread
         /\ w.output.error = s.output.error
    BY <2>6, <2>11 DEF Advances
  <2>15. w.output.end = (s.output.end \/ (c /\ p.last >= f /\ w.storelist = <<>>))
    BY <2>6, <2>11, <1>9
  <2>16. ~(p.last < f)
    BY <1>2, <1>5, <1>9
  <2> QED BY <2>12, <2>13, <2>14, <2>15, <2>16
<1>10. Goal(w)
  <2>1. p.last < f \/ p.last >= f
    BY <1>2, <1>5
  <2> QED BY <2>1, <1>8, <1>9
<1>11. \A x \in Cover(w.storelist) : x < Limit(w)
  <2>1. w \in Reassemblers /\ w.firstindex >= f /\ w.output.max = s.output.max
    BY <1>10 DEF GoodState
  <2>2. w.firstindex \in Nat
    BY <2>1 DEF Reassemblers
  <2>3. Limit(w) \in Nat /\ Limit(w) >= k /\ k >= f
    BY <2>1, <2>2, <1>2 DEF Limit
  <2>4. ASSUME NEW x \in Cover(w.storelist) PROVE x < Limit(w)
    <3>1. x \in (0 .. f - 1) \cup Cover(q) \cup Span(p)
      BY <1>10 DEF f, q
    <3>2. x \in Nat
      <4>1. GoodList(w.storelist, n)
        BY <1>10 DEF GoodState
      <4>2. Cover(w.storelist) \in SUBSET (0 .. n - 1)
        BY <4>1, CoverFinite
      <4> QED BY <4>2
    <3>3. x < k
      <4>1. \A y \in Cover(q) : y < k
        BY DEF q, k
      <4>2. \A y \in Span(p) : y < k
        BY <1>2, <1>5 DEF Span, k
      <4>3. \A y \in 0 .. f - 1 : y < k
        BY <2>3, <1>2
      <4> QED BY <3>1, <4>1, <4>2, <4>3
    <3> QED BY <3>2, <3>3, <2>3, <1>2
  <2> QED BY <2>4
<1> QED BY Zenon, <1>10, <1>11 DEF w, c, f, PushedData

\* Reading takes bytes off the front of the output and changes nothing else.
LEMMA ReadGood ==
  ASSUME NEW n \in Nat, NEW s, GoodState(s, n), NEW m \in Nat, m <= buffer_size(s.output)
  PROVE  ReadBytes(s, m, [s EXCEPT !.output = pop_output(@, m)], n)
<1> DEFINE b == s.output
           x == Len(b.content)
           o == pop_output(b, m)
           d == SubSeq(b.content, m + 1, x)
           t == [s EXCEPT !.output = pop_output(@, m)]
<1>1. s \in Reassemblers /\ GoodOutput(b)
  BY DEF GoodState
<1>2. b \in ByteStreams
  BY <1>1 DEF Reassemblers
<1>3. b.content \in Seq(Nat) /\ x \in Nat /\ b.alread \in Nat /\ b.max \in Nat /\ m <= x
  BY <1>2 DEF ByteStreams, buffer_size
<1>4. d \in Seq(Nat) /\ Len(d) = x - m /\ \A j \in 1 .. x - m : d[j] = b.content[m + j]
  <2>1. x <= Len(b.content)
    BY <1>3
  <2> HIDE DEF x
  <2> QED BY <2>1, <1>3, SliceAt
<1>5. o = [b EXCEPT !.content = d, !.alread = b.alread + m]
  <2>1. Lesser(buffer_size(b), m) = m
    BY <1>3 DEF Lesser, buffer_size
  <2> QED BY <2>1 DEF pop_output
<1>6. b.alwritten = b.alread + x /\ x <= b.max /\ \A i \in 1 .. x : b.content[i] = b.alread + i - 1
  BY <1>1 DEF GoodOutput
<1> HIDE DEF x, o, d, b
<1>7. /\ o \in ByteStreams /\ o.content = d /\ o.alread = b.alread + m /\ o.alwritten = b.alwritten
      /\ o.max = b.max /\ o.end = b.end /\ o.error = b.error
  <2>1. b.alread + m \in Nat
    BY <1>3
  <2> QED BY Zenon, <2>1, <1>2, <1>4, <1>5 DEF ByteStreams
<1>8. ASSUME NEW i \in 1 .. x - m PROVE d[i] = (b.alread + m) + i - 1
  <2>1. m + i \in 1 .. x
    BY <1>3
  <2>2. d[i] = b.alread + (m + i) - 1
    BY <2>1, <1>4, <1>6
  <2> QED BY <2>2, <1>3
<1>9. b.alwritten = (b.alread + m) + (x - m) /\ x - m <= b.max
  BY <1>3, <1>6
<1>10. GoodOutput(o)
  BY <1>4, <1>7, <1>8, <1>9 DEF GoodOutput
<1>11. /\ t \in Reassemblers /\ t.output = o /\ t.checkeof = s.checkeof /\ t.firstindex = s.firstindex
       /\ t.storelist = s.storelist /\ t.threw = s.threw /\ t.unassembled = s.unassembled
  BY <1>1, <1>7 DEF Reassemblers, o, b
<1> HIDE DEF t
<1>12. GoodState(t, n)
  <2>1. /\ s.firstindex = b.alwritten /\ s.firstindex <= n /\ GoodList(s.storelist, n)
        /\ \A y \in Cover(s.storelist) : y >= s.firstindex
        /\ s.unassembled = Cardinality(Cover(s.storelist))
    BY DEF GoodState, b
  <2>2. s.threw = FALSE
    BY DEF GoodState
  <2> QED BY <2>1, <2>2, <1>7, <1>10, <1>11 DEF GoodState
<1> QED BY <1>7, <1>11, <1>12 DEF t, b, ReadBytes

\* A new reassembler has written and stored nothing.
LEMMA NewReassemblerGood ==
  ASSUME NEW n \in Nat, NEW capacity \in Nat
  PROVE  LET r == NewReassembler(capacity)
         IN  /\ GoodState(r, n) /\ r.storelist = <<>> /\ r.firstindex = 0
             /\ r.checkeof = FALSE /\ r.output = NewByteStream(capacity)
<1> DEFINE r == NewReassembler(capacity)
<1>1. /\ r.output = NewByteStream(capacity) /\ r.storelist = <<>> /\ r.unassembled = 0
      /\ r.firstindex = 0 /\ r.threw = FALSE /\ r.checkeof = FALSE
  BY DEF NewReassembler
<1>2. /\ r.output \in ByteStreams /\ r.output.content = <<>> /\ r.output.alread = 0
      /\ r.output.alwritten = 0 /\ r.output.max = capacity
  BY <1>1 DEF NewByteStream, ByteStreams
<1>3. r \in Reassemblers
  <2>1. NewByteStream(capacity) \in ByteStreams
    BY <1>1, <1>2
  <2> QED BY <2>1 DEF Reassemblers, NewReassembler
<1> HIDE DEF r
<1>4. GoodOutput(r.output)
  BY <1>2 DEF GoodOutput
<1>5. Cover(<<>>) = {} /\ GoodList(<<>>, n)
  BY DEF Cover, CoverPart, GoodList
<1>6. r.unassembled = Cardinality(Cover(r.storelist))
  BY <1>1, <1>5, FS_EmptySet
<1>7. GoodState(r, n)
  BY <1>1, <1>2, <1>3, <1>4, <1>5, <1>6 DEF GoodState
<1> QED BY <1>1, <1>7 DEF r
=============================================================================
