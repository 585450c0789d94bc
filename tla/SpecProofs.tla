----------------------------- MODULE SpecProofs -----------------------------
(***************************************************************************)
(* What Algorithms says of unwrap, of the router's choice of a route, of   *)
(* remove_prefix and of the checksum, what ReliableStream promises and     *)
(* what holds of the reassembler, for every value of their constants.      *)
(***************************************************************************)
EXTENDS Algorithms, ReliableStream, ReassemblerSpec, ReassemblerLemmas

USE SMTT(20), ZenonT(20)

-----------------------------------------------------------------------------
(* Remainders. *)

\* Quotient and remainder.
LEMMA DivMod ==
  ASSUME NEW a \in Int, NEW b \in Nat, b > 0
  PROVE  /\ a \div b \in Int /\ a % b \in 0 .. b - 1
         /\ a = b * (a \div b) + (a % b)
OBVIOUS

\* A remainder is the only one.
LEMMA ModUnique ==
  ASSUME NEW a \in Int, NEW b \in Nat, b > 0, NEW q \in Int, NEW c \in 0 .. b - 1,
         a = b * q + c
  PROVE  a % b = c
OBVIOUS

-----------------------------------------------------------------------------
(* unwrap returns the closest number. *)

\* The numbers that wrap to w lie one sequence space apart, d1 above the checkpoint.
LEMMA UnwrapNearest ==
  ASSUME NEW w \in 0 .. SeqSpace - 1, NEW isn \in Nat, NEW c \in Nat
  PROVE  LET u == unwrap(w, isn, c)
         IN  /\ u \in Nat /\ wrap(u, isn) = w
             /\ \A m \in Nat : wrap(m, isn) = w => Distance(u, c) <= Distance(m, c)
<1> DEFINE S == SeqSpace
           x == wrap(c, isn)
           q == (c + isn) \div S
           d1 == (w - x) % S
           d2 == (x - w) % S
           u == unwrap(w, isn, c)
<1>1. S \in Nat /\ S > 0 /\ w \in 0 .. S - 1
  BY SeqSpaceAssumption
<1>2. x \in 0 .. S - 1 /\ q \in Int /\ c + isn = S * q + x
  BY <1>1, DivMod DEF wrap
<1>3. u = IF d1 > d2 /\ c >= d2 THEN c - d2 ELSE c + d1
  BY DEF unwrap
<1> HIDE DEF x, q, S
<1>4. /\ d1 = IF w >= x THEN w - x ELSE w - x + S
      /\ d2 = IF x >= w THEN x - w ELSE x - w + S
  <2>1. /\ w >= x => w - x = S * 0 + (w - x) /\ w - x \in 0 .. S - 1
        /\ ~(w >= x) => w - x = S * (-1) + (w - x + S) /\ w - x + S \in 0 .. S - 1
        /\ x >= w => x - w = S * 0 + (x - w) /\ x - w \in 0 .. S - 1
        /\ ~(x >= w) => x - w = S * (-1) + (x - w + S) /\ x - w + S \in 0 .. S - 1
        /\ w - x \in Int /\ x - w \in Int
    BY <1>1, <1>2
  <2>2. /\ w >= x => d1 = w - x
        /\ ~(w >= x) => d1 = w - x + S
    BY <1>1, <2>1, ModUnique
  <2>3. /\ x >= w => d2 = x - w
        /\ ~(x >= w) => d2 = x - w + S
    BY <1>1, <2>1, ModUnique
  <2> QED BY <2>2, <2>3
<1> HIDE DEF d1, d2, u
<1>5. /\ d1 \in 0 .. S - 1 /\ d2 \in 0 .. S - 1
      /\ (d1 = 0 /\ d2 = 0) \/ d1 + d2 = S
  BY <1>1, <1>2, <1>4
<1>6. u \in Nat
  BY <1>3, <1>5, <1>1
<1>7. wrap(u, isn) = w
  <2>1. PICK k \in Int : u + isn = S * k + w
    <3>1. \/ u + isn = S * q + w
          \/ u + isn = S * q + w + S
          \/ u + isn = S * q + w - S
      <4> DEFINE z == S * q
      <4>1. z \in Int /\ c + isn = z + x
        BY <1>1, <1>2
      <4> HIDE DEF z
      <4>2. u + isn = z + w \/ u + isn = z + w + S \/ u + isn = z + w - S
        BY <1>1, <1>2, <1>3, <1>4, <1>5, <4>1
      <4> QED BY <4>2 DEF z
    <3>2. S * (q + 1) = S * q + S /\ S * (q - 1) = S * q - S /\ S * q \in Int
      BY <1>1, <1>2
    <3>3. u + isn = S * q + w \/ u + isn = S * (q + 1) + w \/ u + isn = S * (q - 1) + w
      BY <1>1, <3>1, <3>2
    <3>4. q \in Int /\ q + 1 \in Int /\ q - 1 \in Int
      BY <1>2
    <3> QED BY <3>3, <3>4
  <2>2. u + isn \in Int
    BY <1>6
  <2> QED BY Zenon, <1>1, <2>1, <2>2, ModUnique DEF wrap, S
<1>8. ASSUME NEW m \in Nat, wrap(m, isn) = w
      PROVE  Distance(u, c) <= Distance(m, c)
  <2> DEFINE p == (m + isn) \div S
  <2>1. p \in Int /\ m + isn = S * p + w
    BY <1>1, <1>8, DivMod DEF wrap, S
  <2> HIDE DEF p
  <2> DEFINE j == p - q
             z == S * j
  <2>2. j \in Int /\ m - c = z + (w - x)
    BY <1>1, <1>2, <2>1
  <2> HIDE DEF j
  <2>3. z \in Int /\ (j = 0 => z = 0) /\ (j >= 1 => z >= S) /\ (j <= -1 => z <= -S)
    <3>1. j >= 1 => S * j >= S
      BY <1>1, <2>2
    <3>2. j <= -1 => S * j <= -S
      BY <1>1, <2>2
    <3> QED BY <1>1, <2>2, <3>1, <3>2
  <2> HIDE DEF z
  <2>4. j = 0 \/ j >= 1 \/ j <= -1
    BY <2>2
  <2>5. z = 0 \/ z >= S \/ z <= -S
    BY <2>3, <2>4
  <2> QED BY <1>1, <1>2, <1>3, <1>4, <1>5, <2>2, <2>3, <2>5 DEF Distance
<1> QED BY <1>6, <1>7, <1>8 DEF u

\* Every call of unwrap returns the number its declaration promises.
THEOREM UnwrapCorrect == AlgorithmsSpec => []UnwrapIsClosest
<1> DEFINE Good == \E n, isn \in 0 .. SeqSpace - 1, c \in Nat : call = Call(n, isn, c)
<1>1. AlgorithmsInit => Good
  <2>1. 0 \in 0 .. SeqSpace - 1 /\ 0 \in Nat
    BY SeqSpaceAssumption
  <2> QED BY <2>1 DEF AlgorithmsInit, NoCall
<1>2. Good /\ [AlgorithmsNext]_algorithm_vars => Good'
  <2> SUFFICES ASSUME Good, [AlgorithmsNext]_algorithm_vars PROVE Good'
    OBVIOUS
  <2>1. CASE Unwrap
    <3>1. 0 .. MaxCheckpoint \subseteq Nat
      BY AlgorithmsAssumption
    <3> QED BY <2>1, <3>1 DEF Unwrap
  <2>2. CASE UNCHANGED call
    BY <2>2
  <2> QED BY <2>1, <2>2 DEF AlgorithmsNext, AddRoute, AppendPiece, algorithm_vars
<1>3. Good => UnwrapIsClosest
  <2> SUFFICES ASSUME NEW n \in 0 .. SeqSpace - 1, NEW isn \in 0 .. SeqSpace - 1, NEW c \in Nat,
                      call = Call(n, isn, c)
               PROVE  UnwrapIsClosest
    OBVIOUS
  <2>1. call.n = n /\ call.isn = isn /\ call.checkpoint = c /\ call.result = unwrap(n, isn, c)
    BY DEF Call
  <2>2. isn \in Nat /\ 0 .. c + SeqSpace \subseteq Nat
    BY SeqSpaceAssumption
  <2>3. /\ call.result \in Nat /\ wrap(call.result, isn) = n
        /\ \A m \in Nat : wrap(m, isn) = n => Distance(call.result, c) <= Distance(m, c)
    BY <2>1, <2>2, UnwrapNearest
  <2> QED BY <2>1, <2>2, <2>3 DEF UnwrapIsClosest
<1> HIDE DEF Good
<1> QED BY <1>1, <1>2, <1>3, PTL DEF AlgorithmsSpec

-----------------------------------------------------------------------------
(* The router takes the first of the most specific routes. *)

\* A power of two is positive: it counts the subsets of a set.
LEMMA PowerPositive ==
  ASSUME NEW n \in Nat
  PROVE  2 ^ n \in Nat /\ 2 ^ n > 0
<1> DEFINE S == 1 .. n
           A == SUBSET S
<1>1. IsFiniteSet(S) /\ Cardinality(S) = n
  BY FS_Interval
<1>2. IsFiniteSet(A) /\ Cardinality(A) = 2 ^ n
  BY Zenon, <1>1, FS_SUBSET
<1>3. A # {}
  BY Zenon
<1> HIDE DEF A
<1>4. Cardinality(A) \in Nat /\ Cardinality(A) # 0
  BY Zenon, <1>2, <1>3, FS_CardinalityType, FS_EmptySet
<1> DEFINE k == 2 ^ n
<1>5. k \in Nat /\ k # 0
  BY Zenon, <1>2, <1>4
<1> HIDE DEF k
<1>6. k > 0
  BY <1>5
<1> QED BY Zenon, <1>5, <1>6 DEF k

\* The routes that add_route is given.
Routes == [route_prefix : Addresses, prefix_length : 0 .. AddressBits, next_hop : {NoHop},
           interface_num : Nat]

\* Comparing the first bits decides whether an address is in a route's network.
LEMMA MatchesIsNetwork ==
  ASSUME NEW route \in Routes, NEW dst \in Addresses
  PROVE  Matches(route, dst) <=> dst \in Network(route)
<1> DEFINE p == route.route_prefix
           n == route.prefix_length
           size == 2 ^ (AddressBits - n)
           all == 2 ^ AddressBits
<1>1. n \in Nat /\ AddressBits \in Nat /\ AddressBits - n \in Nat
  BY RouterAssumption DEF Routes
<1>2. p \in 0 .. all - 1 /\ dst \in 0 .. all - 1
  BY Zenon DEF Routes, Addresses
<1>3. all \in Nat /\ all > 0 /\ size \in Nat /\ size > 0
  BY Zenon, <1>1, PowerPositive
<1>4. Network(route) = (p - (p % size)) .. (p - (p % size)) + size - 1
  BY Zenon DEF Network
<1>5. Matches(route, dst) <=> (n > 0 => p \div size = dst \div size)
  BY <1>1 DEF Matches, HighBits
<1>6. n = 0 => size = all
  <2>1. AddressBits - 0 = AddressBits
    BY <1>1
  <2> QED BY Zenon, <2>1
<1> HIDE DEF size, all, p, n
<1>7. CASE n = 0
  <2>1. p % all = p
    <3>1. p \in Int /\ p = all * 0 + p /\ 0 \in Int
      BY <1>2, <1>3
    <3> QED BY <1>2, <1>3, <3>1, ModUnique
  <2>2. Network(route) = 0 .. all - 1
    BY <1>2, <1>3, <1>4, <1>6, <1>7, <2>1
  <2> QED BY <1>2, <1>5, <1>7, <2>2
<1>8. CASE n > 0
  <2> DEFINE u == p \div size
             v == dst \div size
             x == p % size
             y == dst % size
  <2>1. /\ u \in Int /\ x \in 0 .. size - 1 /\ p = size * u + x
        /\ v \in Int /\ y \in 0 .. size - 1 /\ dst = size * v + y
    BY <1>2, <1>3, DivMod
  <2>2. Network(route) = (p - x) .. (p - x) + size - 1
    BY Zenon, <1>4
  <2> HIDE DEF u, v, x, y
  <2>3. dst \in Network(route) <=> size * u <= size * v + y /\ size * v + y <= size * u + size - 1
    <3> DEFINE a == size * u
               b == size * v
    <3>1. a \in Int /\ b \in Int
      BY <1>3, <2>1
    <3> HIDE DEF a, b
    <3>2. dst \in Network(route) <=> a <= b + y /\ b + y <= a + size - 1
      BY <1>3, <2>1, <2>2, <3>1 DEF a, b
    <3> QED BY <3>2 DEF a, b
  <2>4. u = v => size * u <= size * v + y /\ size * v + y <= size * u + size - 1
    BY <1>3, <2>1
  <2>5. u < v => ~(size * v + y <= size * u + size - 1)
    <3>1. u < v => size * v >= size * (u + 1)
      BY <1>3, <2>1
    <3>2. size * (u + 1) = size * u + size /\ size * u \in Int /\ size * v \in Int
      BY <1>3, <2>1
    <3> QED BY <1>3, <2>1, <3>1, <3>2
  <2>6. v < u => ~(size * u <= size * v + y)
    <3>1. v < u => size * u >= size * (v + 1)
      BY <1>3, <2>1
    <3>2. size * (v + 1) = size * v + size /\ size * u \in Int /\ size * v \in Int
      BY <1>3, <2>1
    <3> QED BY <1>3, <2>1, <3>1, <3>2
  <2>7. u = v <=> dst \in Network(route)
    BY <2>1, <2>3, <2>4, <2>5, <2>6
  <2> QED BY <1>5, <1>8, <2>7 DEF u, v
<1> QED BY <1>1, <1>7, <1>8

\* Of the routes 1 .. i, b is the first of the longest that match, or 0 if none does.
Best(table, dst, i, b) ==
    LET matching == {j \in 1 .. i : Matches(table[j], dst)}
    IN  IF matching = {} THEN b = 0
        ELSE /\ b \in matching
             /\ \A j \in matching \ {b} :
                  \/ table[j].prefix_length < table[b].prefix_length
                  \/ table[j].prefix_length = table[b].prefix_length /\ b < j

\* One turn of the loop over the table.
Turn(table, dst, b, i) == IF Better(table, dst, b, i) THEN i ELSE b

\* A turn keeps the best route so far.
LEMMA TurnBest ==
  ASSUME NEW table \in Seq(Routes), NEW dst, NEW i \in 1 .. Len(table), NEW b,
         Best(table, dst, i - 1, b)
  PROVE  Best(table, dst, i, Turn(table, dst, b, i))
<1> DEFINE old == {j \in 1 .. i - 1 : Matches(table[j], dst)}
           new == {j \in 1 .. i : Matches(table[j], dst)}
           c == Turn(table, dst, b, i)
<1>1. i \in Nat /\ i >= 1
  OBVIOUS
<1>2. new = IF Matches(table[i], dst) THEN old \cup {i} ELSE old
  BY <1>1
<1>3. \A j \in 1 .. i : table[j].prefix_length \in Nat
  <2>1. \A j \in 1 .. Len(table) : table[j] \in Routes
    OBVIOUS
  <2>2. \A j \in 1 .. i : j \in 1 .. Len(table)
    OBVIOUS
  <2>3. \A route \in Routes : route.prefix_length \in Nat
    BY RouterAssumption DEF Routes
  <2> QED BY Zenon, <2>1, <2>2, <2>3
<1>4. old \subseteq 1 .. i - 1
  OBVIOUS
<1>5. IF old = {} THEN b = 0
      ELSE /\ b \in old
           /\ \A j \in old \ {b} :
                \/ table[j].prefix_length < table[b].prefix_length
                \/ table[j].prefix_length = table[b].prefix_length /\ b < j
  BY Zenon DEF Best
<1>6. c = IF Matches(table[i], dst)
             /\ (b = 0 \/ table[b].prefix_length < table[i].prefix_length) THEN i ELSE b
  BY Zenon DEF Turn, Better
<1> SUFFICES IF new = {} THEN c = 0
             ELSE /\ c \in new
                  /\ \A j \in new \ {c} :
                       \/ table[j].prefix_length < table[c].prefix_length
                       \/ table[j].prefix_length = table[c].prefix_length /\ c < j
  BY Zenon DEF Best
<1> HIDE DEF old, new, c
<1>7. CASE ~Matches(table[i], dst)
  BY Zenon, <1>2, <1>5, <1>6, <1>7
<1>8. CASE Matches(table[i], dst) /\ old = {}
  <2>1. c = i /\ new = {i}
    BY Zenon, <1>2, <1>5, <1>6, <1>8
  <2> QED BY Zenon, <2>1
<1>9. CASE Matches(table[i], dst) /\ old # {}
  <2>0. b \in old /\ b \in 1 .. i - 1 /\ new = old \cup {i}
    BY Zenon, <1>2, <1>4, <1>5, <1>9
  <2>1. b \in old /\ b \in 1 .. i - 1 /\ b # 0 /\ new = old \cup {i}
    BY <2>0
  <2>2. CASE table[b].prefix_length < table[i].prefix_length
    <3>1. c = i
      BY <1>6, <1>9, <2>2
    <3>2. ASSUME NEW j \in old PROVE table[j].prefix_length < table[i].prefix_length
      <4>1. table[j].prefix_length <= table[b].prefix_length
        <5>1. j \in 1 .. i /\ b \in 1 .. i
          BY <1>1, <1>4, <2>1
        <5> QED BY <1>3, <1>5, <2>1, <5>1
      <4>2. /\ table[j].prefix_length \in Nat /\ table[b].prefix_length \in Nat
            /\ table[i].prefix_length \in Nat
        BY <1>1, <1>3, <1>4, <2>1
      <4> QED BY <2>2, <4>1, <4>2
    <3> QED BY Zenon, <2>1, <3>1, <3>2
  <2>3. CASE ~(table[b].prefix_length < table[i].prefix_length)
    <3>1. c = b
      BY Zenon, <1>6, <2>1, <2>3
    <3>2. \/ table[i].prefix_length < table[b].prefix_length
          \/ table[i].prefix_length = table[b].prefix_length /\ b < i
      <4>1. table[b].prefix_length \in Nat /\ table[i].prefix_length \in Nat /\ b < i
        BY <1>1, <1>3, <2>1
      <4> QED BY <2>3, <4>1
    <3> QED BY Zenon, <1>5, <2>1, <3>1, <3>2
  <2> QED BY <2>2, <2>3
<1> QED BY <1>7, <1>8, <1>9

\* The loop returns the best of all routes.
LEMMA MatchIsBest ==
  ASSUME NEW table \in Seq(Routes), NEW dst
  PROVE  Best(table, dst, Len(table), longest_prefix_match(table, dst))
<1> DEFINE N == Len(table)
           V == 0 .. N
           h == [x \in V \X (1 .. N) |-> Turn(table, dst, x[1], x[2])]
           F == CHOOSE f : f = [i \in 0 .. N |->
                                  IF i = 0 THEN 0
                                  ELSE IF Better(table, dst, f[i - 1], i) THEN i ELSE f[i - 1]]
<1>1. N \in Nat
  OBVIOUS
<1>2. longest_prefix_match(table, dst) = F[N]
  BY DEF longest_prefix_match
<1>3. 0 \in V /\ h \in [V \X (1 .. N) -> V]
  <2>1. ASSUME NEW b \in V, NEW i \in 1 .. N PROVE Turn(table, dst, b, i) \in V
    BY <1>1 DEF Turn
  <2> QED BY <1>1, <2>1
<1>4. PICK g : Recursion(g, N, V, 0, h)
  <2> HIDE DEF N, V, h
  <2> QED BY Zenon, <1>1, <1>3, RecurseUpTo
<1>5. g \in [0 .. N -> V] /\ g[0] = 0 /\ \A i \in 1 .. N : g[i] = h[<<g[i - 1], i>>]
  BY Zenon, <1>4 DEF Recursion
<1>6. \A i \in 1 .. N : g[i] = Turn(table, dst, g[i - 1], i)
  <2> SUFFICES ASSUME NEW i \in 1 .. N PROVE g[i] = Turn(table, dst, g[i - 1], i)
    OBVIOUS
  <2>1. i - 1 \in 0 .. N
    BY <1>1
  <2>2. <<g[i - 1], i>> \in V \X (1 .. N)
    BY Zenon, <1>5, <2>1
  <2> QED BY Zenon, <1>5, <2>2
<1>7. g = [i \in 0 .. N |-> IF i = 0 THEN 0
                            ELSE IF Better(table, dst, g[i - 1], i) THEN i ELSE g[i - 1]]
  <2>1. \A i \in 0 .. N : i # 0 => i \in 1 .. N
    BY <1>1
  <2>2. \A i \in 0 .. N : g[i] = IF i = 0 THEN 0
                                 ELSE IF Better(table, dst, g[i - 1], i) THEN i ELSE g[i - 1]
    BY Zenon, <1>5, <1>6, <2>1 DEF Turn
  <2>3. g = [i \in 0 .. N |-> g[i]]
    BY Zenon, <1>5
  <2> QED BY Zenon, <2>2, <2>3
<1>8. F = [i \in 0 .. N |-> IF i = 0 THEN 0
                            ELSE IF Better(table, dst, F[i - 1], i) THEN i ELSE F[i - 1]]
  BY Zenon, <1>7
<1> HIDE DEF F
<1> DEFINE S == {i \in 0 .. N : Best(table, dst, i, F[i])}
<1>9. 0 \in S
  <2>1. 0 \in 0 .. N /\ 1 .. 0 = {}
    BY <1>1
  <2>2. F[0] = 0
    BY Zenon, <1>8, <2>1
  <2> QED BY Zenon, <2>1, <2>2 DEF Best
<1>10. ASSUME NEW i \in 0 .. N - 1, i \in S PROVE i + 1 \in S
  <2>1. i + 1 \in 1 .. N /\ i + 1 \in 0 .. N /\ (i + 1) - 1 = i /\ i + 1 # 0
    BY <1>1
  <2>2. F[i + 1] = Turn(table, dst, F[i], i + 1)
    BY Zenon, <1>8, <2>1 DEF Turn
  <2>3. Best(table, dst, (i + 1) - 1, F[i])
    BY Zenon, <1>10, <2>1
  <2> QED BY Zenon, <2>1, <2>2, <2>3, TurnBest
<1>11. 0 .. N \subseteq S
  <2> HIDE DEF S, N
  <2> QED BY Zenon, <1>1, <1>9, <1>10, InductUpTo
<1>12. N \in 0 .. N
  BY <1>1
<1> QED BY Zenon, <1>2, <1>11, <1>12

\* Whatever routes are added and in whatever order, every address is matched by the first of
\* the most specific routes whose network holds it: router.cc's loop, for addresses of any
\* width and tables of any length.
THEOREM RouterCorrect == AlgorithmsSpec => []TakesLongestMatch
<1> DEFINE Good == router \in [interfaces : {<<>>}, routing_table : Seq(Routes)]
<1>1. AlgorithmsInit => Good
  BY DEF AlgorithmsInit, NewRouter
<1>2. Good /\ [AlgorithmsNext]_algorithm_vars => Good'
  <2> SUFFICES ASSUME Good, [AlgorithmsNext]_algorithm_vars PROVE Good'
    OBVIOUS
  <2>1. CASE AddRoute
    <3>1. PICK prefix \in Addresses, length \in 0 .. AddressBits :
            router' = add_route(router, prefix, length, NoHop, Len(router.routing_table) + 1)
      BY <2>1 DEF AddRoute
    <3> DEFINE route == [route_prefix |-> prefix, prefix_length |-> length, next_hop |-> NoHop,
                         interface_num |-> Len(router.routing_table) + 1]
    <3>2. router.routing_table \in Seq(Routes) /\ Len(router.routing_table) + 1 \in Nat
      OBVIOUS
    <3>3. route \in Routes
      BY Zenon, <3>2 DEF Routes
    <3>4. router' = [router EXCEPT !.routing_table = Append(@, route)]
      BY Zenon, <3>1 DEF add_route
    <3> HIDE DEF route
    <3>5. Append(router.routing_table, route) \in Seq(Routes)
      BY ONLY <3>2, <3>3
    <3> QED BY <3>4, <3>5
  <2>2. CASE UNCHANGED router
    BY <2>2
  <2> QED BY <2>1, <2>2 DEF AlgorithmsNext, Unwrap, AppendPiece, algorithm_vars
<1>3. Good => TakesLongestMatch
  <2> SUFFICES ASSUME Good, NEW dst \in Addresses
               PROVE  LET table == router.routing_table
                          match == longest_prefix_match(table, dst)
                          candidates == {i \in DOMAIN table : dst \in Network(table[i])}
                      IN  IF candidates = {} THEN match = 0
                          ELSE /\ match \in candidates
                               /\ \A i \in candidates \ {match} :
                                    \/ table[i].prefix_length < table[match].prefix_length
                                    \/ /\ table[i].prefix_length = table[match].prefix_length
                                       /\ match < i
    BY Zenon DEF TakesLongestMatch
  <2> DEFINE table == router.routing_table
             candidates == {i \in DOMAIN table : dst \in Network(table[i])}
  <2>1. table \in Seq(Routes)
    OBVIOUS
  <2> HIDE DEF table
  <2>2. DOMAIN table = 1 .. Len(table) /\ \A i \in 1 .. Len(table) : table[i] \in Routes
    BY ONLY <2>1
  <2>3. candidates = {i \in 1 .. Len(table) : Matches(table[i], dst)}
    BY Zenon, <2>2, MatchesIsNetwork
  <2>4. Best(table, dst, Len(table), longest_prefix_match(table, dst))
    BY Zenon, <2>1, MatchIsBest
  <2> QED BY Zenon, <2>3, <2>4 DEF Best, table
<1> HIDE DEF Good
<1> QED BY <1>1, <1>2, <1>3, PTL DEF AlgorithmsSpec

\* Two functions on 0 .. N begin alike and go on alike.
Alike(N, f, g) ==
    /\ N \in Nat /\ f = [i \in 0 .. N |-> f[i]] /\ g = [i \in 0 .. N |-> g[i]]
    /\ f[0] = g[0] /\ \A i \in 0 .. N - 1 : f[i] = g[i] => f[i + 1] = g[i + 1]

\* They are the same.
LEMMA SameUpTo ==
  ASSUME NEW N, NEW f, NEW g, Alike(N, f, g)
  PROVE  f = g
<1> SUFFICES ASSUME N \in Nat, f = [i \in 0 .. N |-> f[i]], g = [i \in 0 .. N |-> g[i]],
                    f[0] = g[0], \A i \in 0 .. N - 1 : f[i] = g[i] => f[i + 1] = g[i + 1]
             PROVE  f = g
  BY Zenon DEF Alike
<1> DEFINE S == {i \in 0 .. N : f[i] = g[i]}
<1>1. 0 \in S
  <2>1. 0 \in 0 .. N
    OBVIOUS
  <2> QED BY Zenon, <2>1
<1>2. ASSUME NEW i \in 0 .. N - 1, i \in S PROVE i + 1 \in S
  <2>1. i + 1 \in 0 .. N
    OBVIOUS
  <2> QED BY Zenon, <1>2, <2>1
<1>3. 0 .. N \subseteq S
  <2> HIDE DEF S
  <2> QED BY Zenon, <1>1, <1>2, InductUpTo
<1>4. \A i \in 0 .. N : f[i] = g[i]
  BY Zenon, <1>3
<1> QED BY Zenon, <1>4

-----------------------------------------------------------------------------
(* Strings in pieces. *)

Strings == Seq(Nat)

\* Two sequences with the same elements are the same.
LEMMA SameSeq ==
  ASSUME NEW S, NEW x \in Seq(S), NEW z \in Seq(S), Len(x) = Len(z),
         \A i \in 1 .. Len(x) : x[i] = z[i]
  PROVE  x = z
<1>1. DOMAIN x = 1 .. Len(x) /\ DOMAIN z = 1 .. Len(z)
  OBVIOUS
<1>2. x = [i \in DOMAIN x |-> x[i]] /\ z = [i \in DOMAIN z |-> z[i]]
  OBVIOUS
<1> QED BY ONLY Zenon, <1>1, <1>2, Len(x) = Len(z), \A i \in 1 .. Len(x) : x[i] = z[i]

\* A sequence put after another.
LEMMA ConcatAt ==
  ASSUME NEW S, NEW q \in Seq(S), NEW h \in Seq(S)
  PROVE  /\ q \o h \in Seq(S) /\ Len(q \o h) = Len(q) + Len(h)
         /\ \A i \in 1 .. Len(q) + Len(h) : (q \o h)[i] = IF i <= Len(q) THEN q[i] ELSE h[i - Len(q)]
OBVIOUS

\* The part of a sequence after its first m elements.
LEMMA RestAt ==
  ASSUME NEW S, NEW q \in Seq(S), NEW m \in Nat, m <= Len(q)
  PROVE  /\ SubSeq(q, m + 1, Len(q)) \in Seq(S)
         /\ Len(SubSeq(q, m + 1, Len(q))) = Len(q) - m
         /\ \A j \in 1 .. Len(q) - m : SubSeq(q, m + 1, Len(q))[j] = q[m + j]
OBVIOUS

\* It does not matter which of three strings are put together first.
LEMMA ConcatAssoc ==
  ASSUME NEW x \in Strings, NEW y \in Strings, NEW z \in Strings
  PROVE  (x \o y) \o z = x \o (y \o z)
<1> DEFINE a == (x \o y) \o z
           b == x \o (y \o z)
           l == Len(x)
           m == Len(y)
           n == Len(z)
<1>1. l \in Nat /\ m \in Nat /\ n \in Nat
  BY DEF Strings
<1>2. /\ x \o y \in Strings /\ Len(x \o y) = l + m
      /\ \A i \in 1 .. l + m : (x \o y)[i] = IF i <= l THEN x[i] ELSE y[i - l]
  BY ConcatAt DEF Strings
<1>3. /\ y \o z \in Strings /\ Len(y \o z) = m + n
      /\ \A i \in 1 .. m + n : (y \o z)[i] = IF i <= m THEN y[i] ELSE z[i - m]
  BY ConcatAt DEF Strings
<1> DEFINE xy == x \o y
           yz == y \o z
<1> HIDE DEF xy, yz
<1>4. /\ a \in Strings /\ Len(a) = (l + m) + n
      /\ \A i \in 1 .. (l + m) + n : a[i] = IF i <= l + m THEN xy[i] ELSE z[i - (l + m)]
  <2>1. xy \in Strings /\ Len(xy) = l + m /\ a = xy \o z
    BY Zenon, <1>2 DEF xy
  <2>2. /\ xy \o z \in Strings /\ Len(xy \o z) = Len(xy) + Len(z)
        /\ \A i \in 1 .. Len(xy) + Len(z) :
             (xy \o z)[i] = IF i <= Len(xy) THEN xy[i] ELSE z[i - Len(xy)]
    <3>1. xy \in Strings /\ z \in Strings
      BY Zenon, <2>1
    <3> QED BY ONLY <3>1 DEF Strings
  <2> HIDE DEF a, l, m
  <2> QED BY Zenon, <2>1, <2>2
<1>5. /\ b \in Strings /\ Len(b) = l + (m + n)
      /\ \A i \in 1 .. l + (m + n) : b[i] = IF i <= l THEN x[i] ELSE yz[i - l]
  <2>1. yz \in Strings /\ Len(yz) = m + n /\ b = x \o yz
    BY Zenon, <1>3 DEF yz
  <2>2. /\ x \o yz \in Strings /\ Len(x \o yz) = Len(x) + Len(yz)
        /\ \A i \in 1 .. Len(x) + Len(yz) :
             (x \o yz)[i] = IF i <= Len(x) THEN x[i] ELSE yz[i - Len(x)]
    <3>1. x \in Strings /\ yz \in Strings
      BY Zenon, <2>1
    <3> QED BY ONLY <3>1 DEF Strings
  <2> HIDE DEF b, m, n
  <2> QED BY Zenon, <2>1, <2>2
<1> HIDE DEF a, b, l, m, n
<1>6. Len(a) = Len(b) /\ Len(a) = (l + m) + n
  BY <1>1, <1>4, <1>5
<1>7. ASSUME NEW i \in 1 .. Len(a) PROVE a[i] = b[i]
  <2>1. i \in Nat /\ i >= 1 /\ i <= (l + m) + n /\ i \in 1 .. (l + m) + n /\ i \in 1 .. l + (m + n)
    BY <1>1, <1>6
  <2>2. CASE i <= l
    <3>1. i <= l + m /\ i \in 1 .. l + m
      BY <1>1, <2>1, <2>2
    <3> QED BY Zenon, <1>2, <1>4, <1>5, <2>1, <2>2, <3>1 DEF xy
  <2>3. CASE ~(i <= l) /\ i <= l + m
    <3>1. i \in 1 .. l + m /\ i - l \in 1 .. m + n /\ i - l <= m
      BY <1>1, <2>1, <2>3
    <3> QED BY Zenon, <1>2, <1>3, <1>4, <1>5, <2>1, <2>3, <3>1 DEF xy, yz
  <2>4. CASE ~(i <= l) /\ ~(i <= l + m)
    <3>1. i - l \in 1 .. m + n /\ ~(i - l <= m) /\ (i - l) - m = i - (l + m)
      BY <1>1, <2>1, <2>4
    <3>2. a[i] = z[i - (l + m)] /\ b[i] = yz[i - l]
      BY Zenon, <1>4, <1>5, <2>1, <2>4
    <3>3. yz[i - l] = z[(i - l) - m]
      BY Zenon, <1>3, <3>1 DEF yz
    <3> QED BY Zenon, <3>1, <3>2, <3>3
  <2> QED BY Zenon, <2>2, <2>3, <2>4
<1>8. a = b
  BY Zenon, <1>4, <1>5, <1>6, <1>7, SameSeq DEF Strings
<1> QED BY Zenon, <1>8 DEF a, b

\* ret is the string in front of each piece of a list.
Joins(list, ret) ==
    /\ ret \in [0 .. Len(list) -> Strings] /\ ret[0] = <<>>
    /\ \A i \in 1 .. Len(list) : ret[i] = ret[i - 1] \o list[i]

\* concatenate appends one piece after the other.
LEMMA ConcatenateIs ==
  ASSUME NEW list \in Seq(Strings)
  PROVE  \E ret : Joins(list, ret) /\ concatenate(list) = ret[Len(list)]
<1> DEFINE N == Len(list)
           V == Strings
           h == [x \in V \X (1 .. N) |-> x[1] \o list[x[2]]]
           F == CHOOSE f : f = [i \in 0 .. N |-> IF i = 0 THEN <<>> ELSE f[i - 1] \o list[i]]
<1>1. N \in Nat /\ \A i \in 1 .. N : list[i] \in V
  OBVIOUS
<1>2. concatenate(list) = F[N]
  BY DEF concatenate
<1>3. <<>> \in V /\ h \in [V \X (1 .. N) -> V]
  <2>1. <<>> \in V
    BY DEF Strings
  <2>2. ASSUME NEW x \in V \X (1 .. N) PROVE x[1] \o list[x[2]] \in V
    <3>1. x[1] \in V /\ x[2] \in 1 .. N
      BY Zenon
    <3>2. list[x[2]] \in V
      BY Zenon, <1>1, <3>1
    <3> DEFINE y == x[1]
               z == list[x[2]]
    <3> HIDE DEF y, z
    <3>3. y \in V /\ z \in V
      BY Zenon, <3>1, <3>2 DEF y, z
    <3>4. y \o z \in V
      BY ONLY <3>3 DEF Strings
    <3> QED BY Zenon, <3>4 DEF y, z
  <2> HIDE DEF V
  <2> QED BY Zenon, <2>1, <2>2
<1> HIDE DEF V
<1>4. PICK g : Recursion(g, N, V, <<>>, h)
  <2> HIDE DEF N, h
  <2> QED BY Zenon, <1>1, <1>3, RecurseUpTo
<1>5. g \in [0 .. N -> V] /\ g[0] = <<>> /\ \A i \in 1 .. N : g[i] = h[<<g[i - 1], i>>]
  BY Zenon, <1>4 DEF Recursion
<1>6. ASSUME NEW i \in 1 .. N PROVE g[i] = g[i - 1] \o list[i]
  <2>1. i - 1 \in 0 .. N
    BY <1>1
  <2>2. <<g[i - 1], i>> \in V \X (1 .. N)
    BY Zenon, <1>5, <1>6, <2>1
  <2>3. h[<<g[i - 1], i>>] = <<g[i - 1], i>>[1] \o list[<<g[i - 1], i>>[2]]
    BY Zenon, <2>2
  <2>4. <<g[i - 1], i>>[1] = g[i - 1] /\ <<g[i - 1], i>>[2] = i
    OBVIOUS
  <2> QED BY Zenon, <1>5, <1>6, <2>3, <2>4
<1>7. g = [i \in 0 .. N |-> IF i = 0 THEN <<>> ELSE g[i - 1] \o list[i]]
  <2>1. \A i \in 0 .. N : i # 0 => i \in 1 .. N
    BY <1>1
  <2>2. \A i \in 0 .. N : g[i] = IF i = 0 THEN <<>> ELSE g[i - 1] \o list[i]
    BY Zenon, <1>5, <1>6, <2>1
  <2>3. g = [i \in 0 .. N |-> g[i]]
    BY Zenon, <1>5
  <2> QED BY Zenon, <2>2, <2>3
<1>8. F = g
  <2>1. F = [i \in 0 .. N |-> IF i = 0 THEN <<>> ELSE F[i - 1] \o list[i]]
    BY Zenon, <1>7
  <2> HIDE DEF F
  <2>2. F[0] = g[0]
    <3>1. 0 \in 0 .. N
      BY <1>1
    <3> QED BY Zenon, <1>5, <2>1, <3>1
  <2>3. ASSUME NEW i \in 0 .. N - 1, F[i] = g[i] PROVE F[i + 1] = g[i + 1]
    <3>1. i + 1 \in 0 .. N /\ i + 1 \in 1 .. N /\ (i + 1) - 1 = i /\ i + 1 # 0
      BY <1>1
    <3> QED BY Zenon, <1>6, <2>1, <2>3, <3>1
  <2>4. F = [i \in 0 .. N |-> F[i]] /\ g = [i \in 0 .. N |-> g[i]]
    <3>1. DOMAIN F = 0 .. N /\ F = [i \in DOMAIN F |-> F[i]]
      BY Zenon, <2>1
    <3> QED BY Zenon, <1>5, <3>1
  <2>5. F = [i \in 0 .. N |-> F[i]] /\ g = [i \in 0 .. N |-> g[i]] /\ N \in Nat
    BY Zenon, <1>1, <2>4
  <2>6. \A i \in 0 .. N - 1 : F[i] = g[i] => F[i + 1] = g[i + 1]
    BY Zenon, <2>3
  <2> HIDE DEF N
  <2>7. Alike(N, F, g)
    BY ONLY Zenon, <2>2, <2>5, <2>6 DEF Alike
  <2> QED BY ONLY Zenon, <2>7, SameUpTo
<1> HIDE DEF F
<1>9. Joins(list, g)
  BY Zenon, <1>5, <1>6 DEF Joins, V, N
<1> QED BY Zenon, <1>2, <1>8, <1>9

\* The first piece of a list and the rest of it.
LEMMA ConcatenateFirst ==
  ASSUME NEW list \in Seq(Strings), list # <<>>
  PROVE  /\ list[1] \in Strings /\ Tail(list) \in Seq(Strings)
         /\ concatenate(Tail(list)) \in Strings
         /\ concatenate(list) = list[1] \o concatenate(Tail(list))
<1> DEFINE rest == Tail(list)
           N == Len(rest)
           x == list[1]
<1>1. /\ rest \in Seq(Strings) /\ N \in Nat /\ Len(list) = N + 1 /\ x \in Strings
      /\ \A i \in 1 .. N : rest[i] = list[i + 1] /\ rest[i] \in Strings
  OBVIOUS
<1> HIDE DEF rest, N, x
<1>2. PICK a : Joins(list, a) /\ concatenate(list) = a[Len(list)]
  BY Zenon, ConcatenateIs
<1>3. PICK b : Joins(rest, b) /\ concatenate(rest) = b[Len(rest)]
  BY Zenon, <1>1, ConcatenateIs
<1>4. /\ a \in [0 .. N + 1 -> Strings] /\ a[0] = <<>>
      /\ \A i \in 1 .. N + 1 : a[i] = a[i - 1] \o list[i]
  BY Zenon, <1>1, <1>2 DEF Joins
<1>5. /\ b \in [0 .. N -> Strings] /\ b[0] = <<>>
      /\ \A i \in 1 .. N : b[i] = b[i - 1] \o rest[i]
  BY Zenon, <1>3 DEF Joins, N
<1> DEFINE S == {i \in 0 .. N : a[i + 1] = x \o b[i]}
<1>6. 0 \in S
  <2>1. 0 \in 0 .. N /\ 0 + 1 = 1 /\ 1 \in 1 .. N + 1 /\ 1 - 1 = 0
    BY <1>1
  <2>2. a[1] = <<>> \o x
    BY Zenon, <1>4, <2>1 DEF x
  <2>3. <<>> \o x = x /\ x \o <<>> = x
    BY <1>1 DEF Strings
  <2> QED BY Zenon, <1>5, <2>1, <2>2, <2>3
<1>7. ASSUME NEW i \in 0 .. N - 1, i \in S PROVE i + 1 \in S
  <2>1. /\ i + 1 \in 0 .. N /\ i + 1 \in 1 .. N /\ i \in 0 .. N /\ (i + 1) - 1 = i
        /\ (i + 1) + 1 \in 1 .. N + 1 /\ ((i + 1) + 1) - 1 = i + 1
    BY <1>1
  <2>2. a[(i + 1) + 1] = (x \o b[i]) \o rest[i + 1]
    BY Zenon, <1>1, <1>4, <1>7, <2>1
  <2>3. b[i + 1] = b[i] \o rest[i + 1] /\ b[i] \in Strings /\ rest[i + 1] \in Strings
    BY Zenon, <1>1, <1>5, <2>1
  <2>4. (x \o b[i]) \o rest[i + 1] = x \o (b[i] \o rest[i + 1])
    BY Zenon, <1>1, <2>3, ConcatAssoc
  <2> QED BY Zenon, <2>1, <2>2, <2>3, <2>4
<1>8. N \in S /\ N \in 0 .. N
  <2>1. 0 .. N \subseteq S
    <3> HIDE DEF S
    <3> QED BY Zenon, <1>1, <1>6, <1>7, InductUpTo
  <2>2. N \in 0 .. N
    BY <1>1
  <2> QED BY Zenon, <2>1, <2>2
<1>9. concatenate(list) = x \o concatenate(rest) /\ concatenate(rest) \in Strings
  BY Zenon, <1>1, <1>2, <1>3, <1>5, <1>8 DEF N
<1> QED BY Zenon, <1>1, <1>9 DEF rest, x

\* A list of no pieces is the empty string, and every list is a string.
LEMMA ConcatenateNone ==
  ASSUME NEW list \in Seq(Strings)
  PROVE  concatenate(list) \in Strings /\ (list = <<>> => concatenate(list) = <<>>)
<1>1. PICK a : Joins(list, a) /\ concatenate(list) = a[Len(list)]
  BY Zenon, ConcatenateIs
<1>2. Len(list) \in 0 .. Len(list) /\ (list = <<>> => Len(list) = 0)
  OBVIOUS
<1> QED BY Zenon, <1>1, <1>2 DEF Joins

Lists == [list : Seq(Strings), n : Nat]

\* With s.n bytes still to go of the n to remove from whole: the pieces that are left.
Removing(s, whole, n) ==
    /\ s \in Lists /\ s.n <= n /\ n - s.n <= Len(whole)
    /\ concatenate(s.list) = SubSeq(whole, (n - s.n) + 1, Len(whole))

\* A string without its first m + k characters.
LEMMA RestOfRest ==
  ASSUME NEW w \in Strings, NEW m \in Nat, NEW k \in Nat, m + k <= Len(w)
  PROVE  /\ SubSeq(w, m + 1, Len(w)) \in Strings /\ Len(SubSeq(w, m + 1, Len(w))) = Len(w) - m
         /\ SubSeq(SubSeq(w, m + 1, Len(w)), k + 1, Len(w) - m) = SubSeq(w, (m + k) + 1, Len(w))
<1> DEFINE l == Len(w)
           p == SubSeq(w, m + 1, l)
           x == SubSeq(p, k + 1, Len(p))
           z == SubSeq(w, (m + k) + 1, l)
<1>1. l \in Nat /\ m <= l /\ m + k \in Nat /\ m + k <= l
  BY DEF Strings
<1>2. p \in Strings /\ Len(p) = l - m /\ \A j \in 1 .. l - m : p[j] = w[m + j]
  BY Zenon, <1>1, RestAt DEF Strings
<1>3. z \in Strings /\ Len(z) = l - (m + k) /\ \A j \in 1 .. l - (m + k) : z[j] = w[(m + k) + j]
  BY Zenon, <1>1, RestAt DEF Strings
<1> HIDE DEF l, p, z
<1>4. k <= Len(p)
  BY <1>1, <1>2
<1>5. x \in Strings /\ Len(x) = Len(p) - k /\ \A j \in 1 .. Len(p) - k : x[j] = p[k + j]
  BY Zenon, <1>2, <1>4, RestAt DEF Strings
<1> HIDE DEF x
<1>6. Len(x) = Len(z) /\ Len(x) = l - (m + k) /\ Len(p) = l - m
  BY <1>1, <1>2, <1>3, <1>5
<1>7. ASSUME NEW j \in 1 .. Len(x) PROVE x[j] = z[j]
  <2>1. j \in 1 .. Len(p) - k /\ k + j \in 1 .. l - m /\ m + (k + j) = (m + k) + j
    BY <1>1, <1>6
  <2>2. j \in 1 .. l - (m + k)
    BY Zenon, <1>6
  <2> QED BY Zenon, <1>2, <1>3, <1>5, <2>1, <2>2
<1>8. x = z
  BY Zenon, <1>3, <1>5, <1>6, <1>7, SameSeq DEF Strings
<1> QED BY Zenon, <1>2, <1>6, <1>8 DEF l, p, x, z

\* Removing the beginning of the first of two strings put together.
LEMMA RestOfJoin ==
  ASSUME NEW x \in Strings, NEW y \in Strings, NEW k \in Nat, k <= Len(x)
  PROVE  /\ SubSeq(x, k + 1, Len(x)) \in Strings
         /\ SubSeq(x \o y, k + 1, Len(x \o y)) = SubSeq(x, k + 1, Len(x)) \o y
<1> DEFINE w == x \o y
           l == Len(x)
           m == Len(y)
           p == SubSeq(x, k + 1, l)
           a == SubSeq(w, k + 1, Len(w))
           b == p \o y
<1>1. l \in Nat /\ m \in Nat /\ k <= l
  BY DEF Strings
<1>2. /\ w \in Strings /\ Len(w) = l + m
      /\ \A i \in 1 .. l + m : w[i] = IF i <= l THEN x[i] ELSE y[i - l]
  BY Zenon, ConcatAt DEF Strings
<1>3. p \in Strings /\ Len(p) = l - k /\ \A j \in 1 .. l - k : p[j] = x[k + j]
  BY Zenon, <1>1, RestAt DEF Strings
<1> HIDE DEF w, l, m, p
<1>4. k <= Len(w)
  BY <1>1, <1>2
<1>5. a \in Strings /\ Len(a) = Len(w) - k /\ \A j \in 1 .. Len(w) - k : a[j] = w[k + j]
  BY Zenon, <1>2, <1>4, RestAt DEF Strings
<1>6. /\ b \in Strings /\ Len(b) = Len(p) + m
      /\ \A i \in 1 .. Len(p) + m : b[i] = IF i <= Len(p) THEN p[i] ELSE y[i - Len(p)]
  BY Zenon, <1>3, ConcatAt DEF Strings, m
<1> HIDE DEF a, b
<1>7. Len(a) = Len(b) /\ Len(a) = (l - k) + m /\ Len(w) - k = (l - k) + m /\ Len(p) = l - k
  BY <1>1, <1>2, <1>3, <1>5, <1>6
<1>8. ASSUME NEW j \in 1 .. Len(a) PROVE a[j] = b[j]
  <2>1. j \in 1 .. Len(w) - k /\ j \in 1 .. Len(p) + m /\ k + j \in 1 .. l + m
    BY <1>1, <1>7
  <2>2. CASE j <= l - k
    <3>1. k + j <= l /\ j \in 1 .. l - k
      BY <1>1, <2>1, <2>2
    <3> QED BY Zenon, <1>2, <1>3, <1>5, <1>6, <1>7, <2>1, <2>2, <3>1
  <2>3. CASE ~(j <= l - k)
    <3>1. ~(k + j <= l) /\ (k + j) - l = j - (l - k)
      BY <1>1, <2>1, <2>3
    <3>2. a[j] = y[(k + j) - l]
      BY Zenon, <1>2, <1>5, <2>1, <3>1
    <3>3. b[j] = y[j - (l - k)]
      BY Zenon, <1>6, <1>7, <2>1, <2>3
    <3> QED BY Zenon, <3>1, <3>2, <3>3
  <2> QED BY Zenon, <2>2, <2>3
<1>9. a = b
  BY Zenon, <1>5, <1>6, <1>7, <1>8, SameSeq DEF Strings
<1> QED BY Zenon, <1>3, <1>9 DEF a, b, w, p, l

\* One turn of remove_prefix's loop.
LEMMA ShortenStep ==
  ASSUME NEW s \in Lists
  PROVE  /\ Shorten(s) \in Lists
         /\ s.n = 0 \/ s.list = <<>> => Shorten(s) = s
         /\ s.n # 0 /\ s.list # <<>> => Shorten(s).n = 0 \/ Len(Shorten(s).list) = Len(s.list) - 1
         /\ \A whole \in Strings : \A n \in Nat :
              Removing(s, whole, n) => Removing(Shorten(s), whole, n)
<1> DEFINE t == Shorten(s)
           front == s.list[1]
           rest == Tail(s.list)
           k == s.n
           cut == SubSeq(front, k + 1, Len(front))
<1>1. s.list \in Seq(Strings) /\ k \in Nat
  BY DEF Lists
<1>2. CASE k = 0 \/ s.list = <<>>
  <2>1. t = s
    BY Zenon, <1>2 DEF Shorten
  <2> QED BY Zenon, <1>2, <2>1
<1>3. CASE k # 0 /\ s.list # <<>>
  <2>1. /\ front \in Strings /\ rest \in Seq(Strings) /\ concatenate(rest) \in Strings
        /\ concatenate(s.list) = front \o concatenate(rest)
    BY Zenon, <1>1, <1>3, ConcatenateFirst
  <2>2. Head(s.list) = front /\ Len(rest) = Len(s.list) - 1
    BY <1>1, <1>3
  <2> DEFINE y == concatenate(rest)
             c == concatenate(s.list)
             f == Len(front)
  <2>3. f \in Nat /\ c \in Strings /\ Len(c) = f + Len(y) /\ Len(y) \in Nat
    <3>1. c \in Strings /\ Len(c) = f + Len(y)
      BY Zenon, <2>1, ConcatAt DEF Strings
    <3> QED BY <2>1, <3>1 DEF Strings
  <2>4. t = IF k < f THEN [list |-> <<cut>> \o rest, n |-> 0] ELSE [list |-> rest, n |-> k - f]
    BY Zenon, <1>3, <2>2 DEF Shorten
  <2> HIDE DEF t, front, rest, k, y, c, f
  <2>5. ASSUME NEW whole \in Strings, NEW n \in Nat, Removing(s, whole, n), NEW i \in Nat,
               i <= k, i <= f
        PROVE  /\ k - i <= n /\ n - (k - i) <= Len(whole)
               /\ SubSeq(c, i + 1, Len(c)) = SubSeq(whole, (n - (k - i)) + 1, Len(whole))
    <3> DEFINE m == n - k
               l == Len(whole)
    <3>1. m \in Nat /\ m <= l /\ l \in Nat /\ c = SubSeq(whole, m + 1, l) /\ k <= n
      <4>1. k <= n /\ n - k <= Len(whole) /\ c = SubSeq(whole, (n - k) + 1, Len(whole))
        BY Zenon, <2>5 DEF Removing, k, c
      <4> QED BY <1>1, <4>1 DEF Strings
    <3> HIDE DEF l
    <3>2. Len(c) = l - m
      BY Zenon, <3>1, RestAt DEF Strings, l
    <3>3. m + i <= l /\ n - (k - i) = m + i /\ k - i <= n
      <4> HIDE DEF m
      <4>1. m + i <= l
        BY <2>3, <2>5, <3>1, <3>2
      <4> QED BY <1>1, <2>5, <3>1, <4>1 DEF m
    <3> HIDE DEF m
    <3>4. SubSeq(c, i + 1, l - m) = SubSeq(whole, (m + i) + 1, l)
      BY Zenon, <2>5, <3>1, <3>3, RestOfRest DEF l
    <3> QED BY Zenon, <3>2, <3>3, <3>4 DEF l
  <2>6. CASE k < f
    <3> DEFINE list == <<cut>> \o rest
    <3>1. t = [list |-> list, n |-> 0] /\ k <= f
      BY <1>1, <2>3, <2>4, <2>6
    <3>2. cut \in Strings /\ SubSeq(c, k + 1, Len(c)) = cut \o y
      <4>1. front \in Strings /\ y \in Strings /\ k \in Nat /\ k <= Len(front) /\ c = front \o y
        BY Zenon, <1>1, <2>1, <3>1 DEF c, y, f
      <4> QED BY ONLY Zenon, <4>1, RestOfJoin
    <3> HIDE DEF cut
    <3>3. list \in Seq(Strings) /\ list # <<>> /\ list[1] = cut /\ Tail(list) = rest
      <4>1. rest \in Seq(Strings) /\ cut \in Strings
        BY Zenon, <2>1, <3>2
      <4> HIDE DEF rest
      <4>2. /\ list \in Seq(Strings) /\ Len(list) = 1 + Len(rest) /\ list[1] = cut
            /\ \A i \in 1 .. Len(rest) : list[i + 1] = rest[i]
            /\ Len(rest) \in Nat
        BY ONLY <4>1
      <4> HIDE DEF list
      <4>3. list # <<>>
        BY <4>2
      <4>4. /\ Tail(list) \in Seq(Strings) /\ Len(Tail(list)) = Len(rest)
            /\ \A i \in 1 .. Len(rest) : Tail(list)[i] = list[i + 1]
        BY ONLY <4>2, <4>3
      <4>5. Tail(list) = rest
        BY Zenon, <4>1, <4>2, <4>4, SameSeq
      <4> QED BY Zenon, <4>2, <4>3, <4>5
    <3> HIDE DEF list
    <3>4. concatenate(list) = cut \o y
      BY Zenon, <3>3, ConcatenateFirst DEF y
    <3>5. t.list = list /\ t.n = 0
      BY <3>1
    <3>6. t \in Lists
      BY <3>1, <3>3 DEF Lists
    <3>7. ASSUME NEW whole \in Strings, NEW n \in Nat, Removing(s, whole, n)
          PROVE  Removing(t, whole, n)
      <4>1. k - k = 0 /\ k <= k
        BY <1>1
      <4>2. /\ 0 <= n /\ n - 0 <= Len(whole)
            /\ SubSeq(c, k + 1, Len(c)) = SubSeq(whole, (n - 0) + 1, Len(whole))
        BY Zenon, <1>1, <2>5, <3>1, <3>7, <4>1
      <4> QED BY Zenon, <3>2, <3>4, <3>5, <3>6, <4>2 DEF Removing
    <3> QED BY Zenon, <1>3, <3>5, <3>6, <3>7 DEF t, k
  <2>7. CASE ~(k < f)
    <3>1. t = [list |-> rest, n |-> k - f] /\ f <= k /\ k - f \in Nat /\ f <= f
      BY <1>1, <2>3, <2>4, <2>7
    <3>2. t.list = rest /\ t.n = k - f /\ t \in Lists
      BY <2>1, <3>1 DEF Lists
    <3>3. y = SubSeq(c, f + 1, Len(c))
      <4>1. SubSeq(c, f + 1, Len(c)) = SubSeq(front, f + 1, Len(front)) \o y
        <5>1. c = front \o y /\ y \in Strings /\ f <= Len(front) /\ f \in Nat
          BY Zenon, <2>1, <2>3, <3>1 DEF c, y, f
        <5> QED BY Zenon, <2>1, <5>1, RestOfJoin
      <4>2. SubSeq(front, f + 1, Len(front)) = <<>>
        BY <2>1, <2>3 DEF f, Strings
      <4>3. <<>> \o y = y
        BY <2>1 DEF Strings, y
      <4> QED BY Zenon, <4>1, <4>2, <4>3
    <3>4. ASSUME NEW whole \in Strings, NEW n \in Nat, Removing(s, whole, n)
          PROVE  Removing(t, whole, n)
      <4>1. /\ k - f <= n /\ n - (k - f) <= Len(whole)
            /\ SubSeq(c, f + 1, Len(c)) = SubSeq(whole, (n - (k - f)) + 1, Len(whole))
        BY Zenon, <2>3, <2>5, <3>1, <3>4
      <4> QED BY Zenon, <3>2, <3>3, <4>1 DEF Removing, y
    <3> QED BY Zenon, <1>3, <2>2, <3>2, <3>4 DEF t, k
  <2> QED BY Zenon, <2>6, <2>7 DEF t
<1> QED BY Zenon, <1>2, <1>3

\* turn is what is left after each turn of remove_prefix's loop.
Turns(list, n, turn) ==
    /\ turn \in [0 .. Len(list) -> Lists] /\ turn[0] = [list |-> list, n |-> n]
    /\ \A i \in 1 .. Len(list) : turn[i] = Shorten(turn[i - 1])

\* remove_prefix takes one turn after the other.
LEMMA RemoveIs ==
  ASSUME NEW list \in Seq(Strings), NEW n \in Nat
  PROVE  \E turn : Turns(list, n, turn) /\ remove_prefix(list, n) = turn[Len(list)]
<1> DEFINE N == Len(list)
           a == [list |-> list, n |-> n]
           h == [x \in Lists \X (1 .. N) |-> Shorten(x[1])]
           F == CHOOSE f : f = [i \in 0 .. N |-> IF i = 0 THEN a ELSE Shorten(f[i - 1])]
<1>1. N \in Nat
  OBVIOUS
<1>2. remove_prefix(list, n) = F[N]
  BY DEF remove_prefix
<1>3. a \in Lists /\ h \in [Lists \X (1 .. N) -> Lists]
  <2>1. a \in Lists
    BY DEF Lists
  <2>2. ASSUME NEW x \in Lists \X (1 .. N) PROVE Shorten(x[1]) \in Lists
    <3>1. x[1] \in Lists
      BY Zenon
    <3> QED BY Zenon, <3>1, ShortenStep
  <2> QED BY Zenon, <2>1, <2>2
<1> HIDE DEF a
<1>4. PICK g : Recursion(g, N, Lists, a, h)
  <2> HIDE DEF N, h
  <2> QED BY Zenon, <1>1, <1>3, RecurseUpTo
<1>5. g \in [0 .. N -> Lists] /\ g[0] = a /\ \A i \in 1 .. N : g[i] = h[<<g[i - 1], i>>]
  BY Zenon, <1>4 DEF Recursion
<1>6. ASSUME NEW i \in 1 .. N PROVE g[i] = Shorten(g[i - 1])
  <2>1. i - 1 \in 0 .. N
    BY <1>1
  <2>2. <<g[i - 1], i>> \in Lists \X (1 .. N)
    BY Zenon, <1>5, <1>6, <2>1
  <2>3. h[<<g[i - 1], i>>] = Shorten(<<g[i - 1], i>>[1])
    BY Zenon, <2>2
  <2>4. <<g[i - 1], i>>[1] = g[i - 1]
    OBVIOUS
  <2> QED BY Zenon, <1>5, <1>6, <2>3, <2>4
<1>7. g = [i \in 0 .. N |-> IF i = 0 THEN a ELSE Shorten(g[i - 1])]
  <2>1. \A i \in 0 .. N : i # 0 => i \in 1 .. N
    BY <1>1
  <2>2. \A i \in 0 .. N : g[i] = IF i = 0 THEN a ELSE Shorten(g[i - 1])
    BY Zenon, <1>5, <1>6, <2>1
  <2>3. g = [i \in 0 .. N |-> g[i]]
    BY Zenon, <1>5
  <2> QED BY Zenon, <2>2, <2>3
<1>8. F = g
  <2>1. F = [i \in 0 .. N |-> IF i = 0 THEN a ELSE Shorten(F[i - 1])]
    BY Zenon, <1>7
  <2> HIDE DEF F
  <2>2. F[0] = g[0]
    <3>1. 0 \in 0 .. N
      BY <1>1
    <3> QED BY Zenon, <1>5, <2>1, <3>1
  <2>3. ASSUME NEW i \in 0 .. N - 1, F[i] = g[i] PROVE F[i + 1] = g[i + 1]
    <3>1. i + 1 \in 0 .. N /\ i + 1 \in 1 .. N /\ (i + 1) - 1 = i /\ i + 1 # 0
      BY <1>1
    <3> QED BY Zenon, <1>6, <2>1, <2>3, <3>1
  <2>4. F = [i \in 0 .. N |-> F[i]] /\ g = [i \in 0 .. N |-> g[i]]
    <3>1. DOMAIN F = 0 .. N /\ F = [i \in DOMAIN F |-> F[i]]
      BY Zenon, <2>1
    <3> QED BY Zenon, <1>5, <3>1
  <2>5. F = [i \in 0 .. N |-> F[i]] /\ g = [i \in 0 .. N |-> g[i]] /\ N \in Nat
    BY Zenon, <1>1, <2>4
  <2>6. \A i \in 0 .. N - 1 : F[i] = g[i] => F[i + 1] = g[i + 1]
    BY Zenon, <2>3
  <2> HIDE DEF N
  <2>7. Alike(N, F, g)
    BY ONLY Zenon, <2>2, <2>5, <2>6 DEF Alike
  <2> QED BY ONLY Zenon, <2>7, SameUpTo
<1> HIDE DEF F
<1>9. Turns(list, n, g)
  BY Zenon, <1>5, <1>6 DEF Turns, N, a
<1> QED BY Zenon, <1>2, <1>8, <1>9

\* Whatever the pieces and wherever the prefix ends, remove_prefix leaves the rest of the
\* string, and bytes still to go only if the string is shorter.
LEMMA RemoveCorrect ==
  ASSUME NEW list \in Seq(Strings), NEW n \in Nat
  PROVE  LET whole == concatenate(list)
             left == remove_prefix(list, n)
         IN  IF n > Len(whole) THEN left.n > 0
             ELSE left.n = 0 /\ concatenate(left.list) = SubSeq(whole, n + 1, Len(whole))
<1> DEFINE whole == concatenate(list)
           left == remove_prefix(list, n)
           N == Len(list)
           l == Len(whole)
<1>1. N \in Nat /\ whole \in Strings /\ l \in Nat
  <2>1. whole \in Strings
    BY Zenon, ConcatenateNone
  <2> QED BY <2>1 DEF Strings
<1>2. PICK turn : Turns(list, n, turn) /\ left = turn[N]
  BY Zenon, RemoveIs
<1>3. /\ turn \in [0 .. N -> Lists] /\ turn[0] = [list |-> list, n |-> n]
      /\ \A i \in 1 .. N : turn[i] = Shorten(turn[i - 1])
  BY Zenon, <1>2 DEF Turns
<1> DEFINE Few(s, i) == s.n = 0 \/ s.list = <<>> \/ Len(s.list) <= N - i
           S == {i \in 0 .. N : Removing(turn[i], whole, n) /\ Few(turn[i], i)}
<1>4. 0 \in S
  <2>1. 0 \in 0 .. N /\ N <= N - 0 /\ n - n = 0 /\ n <= n /\ 0 <= l
    BY <1>1
  <2>2. turn[0].list = list /\ turn[0].n = n /\ turn[0] \in Lists
    BY <1>3, <2>1
  <2>3. SubSeq(whole, 0 + 1, Len(whole)) = whole
    BY <1>1 DEF Strings
  <2> HIDE DEF whole
  <2>4. Removing(turn[0], whole, n)
    BY Zenon, <2>1, <2>2, <2>3 DEF Removing, l, whole
  <2> QED BY Zenon, <2>1, <2>2, <2>4
<1> HIDE DEF whole, l
<1>5. ASSUME NEW i \in 0 .. N - 1, i \in S PROVE i + 1 \in S
  <2> DEFINE s == turn[i]
             t == turn[i + 1]
  <2>1. /\ i + 1 \in 0 .. N /\ i + 1 \in 1 .. N /\ (i + 1) - 1 = i /\ i \in Nat
        /\ i \in 0 .. N
    BY <1>1
  <2>2. t = Shorten(s) /\ s \in Lists /\ t \in Lists /\ Removing(s, whole, n) /\ Few(s, i)
    BY Zenon, <1>3, <1>5, <2>1
  <2>3. Removing(t, whole, n)
    BY Zenon, <1>1, <2>2, ShortenStep
  <2>4. Few(t, i + 1)
    <3> HIDE DEF s, t
    <3>1. CASE s.n = 0 \/ s.list = <<>>
      BY Zenon, <2>2, <3>1, ShortenStep
    <3>2. CASE ~(s.n = 0 \/ s.list = <<>>)
      <4>1. t.n = 0 \/ Len(t.list) = Len(s.list) - 1
        BY Zenon, <2>2, <3>2, ShortenStep
      <4>2. Len(s.list) <= N - i
        BY Zenon, <2>2, <3>2
      <4>3. Len(s.list) \in Nat
        BY <2>2 DEF Lists
      <4>4. CASE Len(t.list) = Len(s.list) - 1
        <5>1. Len(t.list) <= N - (i + 1)
          <6> HIDE DEF N
          <6> QED BY <1>1, <2>1, <4>2, <4>3, <4>4
        <5> QED BY Zenon, <5>1
      <4> QED BY Zenon, <4>1, <4>4
    <3> QED BY Zenon, <3>1, <3>2
  <2> QED BY Zenon, <2>1, <2>3, <2>4
<1>6. N \in S /\ N \in 0 .. N
  <2>1. 0 .. N \subseteq S
    <3> HIDE DEF S, N
    <3> QED BY Zenon, <1>1, <1>4, <1>5, InductUpTo
  <2>2. N \in 0 .. N
    BY <1>1
  <2> QED BY Zenon, <2>1, <2>2
<1> HIDE DEF left
<1>7. /\ left \in Lists /\ left.n <= n /\ n - left.n <= l
      /\ concatenate(left.list) = SubSeq(whole, (n - left.n) + 1, l)
      /\ left.n = 0 \/ left.list = <<>>
  <2>1. Removing(left, whole, n) /\ Few(left, N) /\ left \in Lists
    BY Zenon, <1>2, <1>3, <1>6
  <2>2. Len(left.list) <= N - N => left.list = <<>>
    <3>1. left.list \in Seq(Strings)
      BY <2>1 DEF Lists
    <3> HIDE DEF N
    <3> QED BY <1>1, <3>1
  <2> QED BY Zenon, <2>1, <2>2 DEF Removing, l
<1>8. left.n \in Nat /\ left.list \in Seq(Strings)
  BY <1>7 DEF Lists
<1>9. CASE n > l
  <2>1. left.n > 0
    BY <1>1, <1>7, <1>8, <1>9
  <2> QED BY Zenon, <1>9, <2>1 DEF whole, left, l
<1>10. CASE ~(n > l)
  <2>1. left.n = 0
    <3>1. CASE left.list = <<>>
      <4>1. concatenate(left.list) = <<>>
        BY Zenon, <1>8, <3>1, ConcatenateNone
      <4>2. n - left.n \in Nat
        BY <1>7, <1>8
      <4>3. Len(SubSeq(whole, (n - left.n) + 1, l)) = l - (n - left.n)
        BY Zenon, <1>1, <1>7, <4>2, RestAt DEF Strings, l
      <4>4. Len(SubSeq(whole, (n - left.n) + 1, l)) = 0
        <5>1. Len(<<>>) = 0
          OBVIOUS
        <5> QED BY Zenon, <1>7, <4>1, <5>1
      <4> QED BY <1>1, <1>8, <1>10, <4>2, <4>3, <4>4
    <3> QED BY Zenon, <1>7, <3>1
  <2>2. n - 0 = n
    OBVIOUS
  <2>3. concatenate(left.list) = SubSeq(whole, n + 1, l)
    BY Zenon, <1>7, <2>1, <2>2
  <2> QED BY Zenon, <1>10, <2>1, <2>3 DEF whole, left, l
<1> QED BY Zenon, <1>9, <1>10

-----------------------------------------------------------------------------
(* The checksum of strings in pieces. *)

Checksums == [sum : Nat, parity : BOOLEAN]

\* What the i-th byte added to a checksum counts for.
Weight(i, parity) == IF (i % 2 = 1) # parity THEN 256 ELSE 1

Sums(c, data, sum) ==
    /\ sum \in [0 .. Len(data) -> Nat] /\ sum[0] = c.sum
    /\ \A i \in 1 .. Len(data) : sum[i] = sum[i - 1] + data[i] * Weight(i, c.parity)

\* add takes one byte after the other.
LEMMA AddIs ==
  ASSUME NEW c \in Checksums, NEW data \in Strings
  PROVE  \E sum : /\ Sums(c, data, sum)
                  /\ add(c, data) = [sum |-> sum[Len(data)],
                                     parity |-> c.parity # (Len(data) % 2 = 1)]
<1> DEFINE N == Len(data)
           a == c.sum
           h == [x \in Nat \X (1 .. N) |-> x[1] + data[x[2]] * Weight(x[2], c.parity)]
           F == CHOOSE f : f = [i \in 0 .. N |->
                  IF i = 0 THEN a ELSE f[i - 1] + data[i] * Weight(i, c.parity)]
<1>1. N \in Nat /\ a \in Nat /\ \A i \in 1 .. N : data[i] \in Nat
  BY DEF Strings, Checksums
<1>2. add(c, data) = [sum |-> F[N], parity |-> c.parity # (N % 2 = 1)]
  BY Zenon DEF add, Weight
<1>3. h \in [Nat \X (1 .. N) -> Nat]
  <2>1. ASSUME NEW x \in Nat \X (1 .. N) PROVE x[1] + data[x[2]] * Weight(x[2], c.parity) \in Nat
    <3>1. x[1] \in Nat /\ x[2] \in 1 .. N
      BY Zenon
    <3>2. data[x[2]] \in Nat /\ Weight(x[2], c.parity) \in Nat
      <4>1. Weight(x[2], c.parity) \in Nat
        BY DEF Weight
      <4> QED BY Zenon, <1>1, <3>1, <4>1
    <3> DEFINE u == data[x[2]]
               v == Weight(x[2], c.parity)
    <3> HIDE DEF u, v
    <3>3. u \in Nat /\ v \in Nat
      BY Zenon, <3>2 DEF u, v
    <3>4. u * v \in Nat
      BY ONLY <3>3
    <3>5. x[1] + u * v \in Nat
      BY <3>1, <3>4
    <3> QED BY Zenon, <3>5 DEF u, v
  <2> QED BY Zenon, <2>1
<1> HIDE DEF a
<1>4. PICK g : Recursion(g, N, Nat, a, h)
  <2> HIDE DEF N, h
  <2> QED BY Zenon, <1>1, <1>3, RecurseUpTo
<1>5. g \in [0 .. N -> Nat] /\ g[0] = a /\ \A i \in 1 .. N : g[i] = h[<<g[i - 1], i>>]
  BY Zenon, <1>4 DEF Recursion
<1>6. ASSUME NEW i \in 1 .. N PROVE g[i] = g[i - 1] + data[i] * Weight(i, c.parity)
  <2>1. i - 1 \in 0 .. N
    BY <1>1
  <2> DEFINE x == <<g[i - 1], i>>
  <2>2. x \in Nat \X (1 .. N)
    BY Zenon, <1>5, <1>6, <2>1
  <2>3. x[1] = g[i - 1] /\ x[2] = i
    OBVIOUS
  <2> HIDE DEF x
  <2>4. h[x] = x[1] + data[x[2]] * Weight(x[2], c.parity)
    BY Zenon, <2>2
  <2>5. g[i] = h[x]
    BY Zenon, <1>5, <1>6 DEF x
  <2> QED BY Zenon, <2>3, <2>4, <2>5
<1>7. g = [i \in 0 .. N |-> IF i = 0 THEN a ELSE g[i - 1] + data[i] * Weight(i, c.parity)]
  <2>1. \A i \in 0 .. N : i # 0 => i \in 1 .. N
    BY <1>1
  <2>2. \A i \in 0 .. N : g[i] = IF i = 0 THEN a ELSE g[i - 1] + data[i] * Weight(i, c.parity)
    BY Zenon, <1>5, <1>6, <2>1
  <2>3. g = [i \in 0 .. N |-> g[i]]
    BY Zenon, <1>5
  <2> QED BY Zenon, <2>2, <2>3
<1>8. F = g
  <2>1. F = [i \in 0 .. N |-> IF i = 0 THEN a ELSE F[i - 1] + data[i] * Weight(i, c.parity)]
    BY Zenon, <1>7
  <2> HIDE DEF F
  <2>2. F[0] = g[0]
    <3>1. 0 \in 0 .. N
      BY <1>1
    <3> QED BY Zenon, <1>5, <2>1, <3>1
  <2>3. ASSUME NEW i \in 0 .. N - 1, F[i] = g[i] PROVE F[i + 1] = g[i + 1]
    <3>1. i + 1 \in 0 .. N /\ i + 1 \in 1 .. N /\ (i + 1) - 1 = i /\ i + 1 # 0
      BY <1>1
    <3> QED BY Zenon, <1>6, <2>1, <2>3, <3>1
  <2>4. DOMAIN F = 0 .. N /\ F = [i \in DOMAIN F |-> F[i]]
    BY Zenon, <2>1
  <2>5. F = [i \in 0 .. N |-> F[i]] /\ g = [i \in 0 .. N |-> g[i]] /\ N \in Nat
    BY Zenon, <1>1, <1>5, <2>4
  <2>6. \A i \in 0 .. N - 1 : F[i] = g[i] => F[i + 1] = g[i + 1]
    BY Zenon, <2>3
  <2> HIDE DEF N
  <2>7. Alike(N, F, g)
    BY ONLY Zenon, <2>2, <2>5, <2>6 DEF Alike
  <2> QED BY ONLY Zenon, <2>7, SameUpTo
<1> HIDE DEF F
<1>9. Sums(c, data, g)
  BY Zenon, <1>5, <1>6 DEF Sums, N, a
<1> QED BY Zenon, <1>2, <1>8, <1>9

\* The positions of a string put after another, odd or even.
LEMMA OddSum ==
  ASSUME NEW l \in Nat, NEW m \in Nat, NEW p \in BOOLEAN
  PROVE  /\ ((l + m) % 2 = 1) = ((l % 2 = 1) # (m % 2 = 1))
         /\ Weight(l + m, p) = Weight(m, p # (l % 2 = 1))
         /\ (p # (l % 2 = 1)) # (m % 2 = 1) <=> p # ((l + m) % 2 = 1)
<1>1. l % 2 \in {0, 1} /\ m % 2 \in {0, 1}
  OBVIOUS
<1>2. (l + m) % 2 = 1 <=> (l % 2) # (m % 2)
  OBVIOUS
<1>3. ((l + m) % 2 = 1) = ((l % 2 = 1) # (m % 2 = 1))
  BY <1>1, <1>2
<1> DEFINE x == l % 2 = 1
           y == m % 2 = 1
           z == (l + m) % 2 = 1
<1>4. x \in BOOLEAN /\ y \in BOOLEAN /\ z \in BOOLEAN /\ z = (x # y)
  BY <1>3
<1> HIDE DEF x, y, z
<1>5. (y # (p # x)) <=> (z # p)
  BY ONLY <1>4, p \in BOOLEAN
<1>6. ((p # x) # y) <=> (p # z)
  BY ONLY <1>4, p \in BOOLEAN
<1>7. Weight(l + m, p) = IF z # p THEN 256 ELSE 1
  BY Zenon DEF Weight, z
<1>8. Weight(m, p # x) = IF y # (p # x) THEN 256 ELSE 1
  BY Zenon DEF Weight, y
<1> QED BY Zenon, <1>3, <1>5, <1>6, <1>7, <1>8 DEF x, y, z

\* A string added after another is the two added as one.
LEMMA AddJoin ==
  ASSUME NEW c \in Checksums, NEW x \in Strings, NEW y \in Strings
  PROVE  add(c, x) \in Checksums /\ add(add(c, x), y) = add(c, x \o y)
<1> DEFINE l == Len(x)
           m == Len(y)
           z == x \o y
           p == c.parity
           q == p # (l % 2 = 1)
           k == add(c, x)
<1>1. l \in Nat /\ m \in Nat /\ p \in BOOLEAN
  BY DEF Strings, Checksums
<1>2. z \in Strings /\ Len(z) = l + m
      /\ \A i \in 1 .. l + m : z[i] = IF i <= l THEN x[i] ELSE y[i - l]
  BY Zenon, ConcatAt DEF Strings
<1>3. PICK a : Sums(c, x, a) /\ k = [sum |-> a[l], parity |-> q]
  BY Zenon, AddIs
<1>4. a \in [0 .. l -> Nat] /\ a[0] = c.sum
      /\ \A i \in 1 .. l : a[i] = a[i - 1] + x[i] * Weight(i, p)
  BY Zenon, <1>3 DEF Sums
<1>5. k \in Checksums /\ k.sum = a[l] /\ k.parity = q
  <2>1. l \in 0 .. l /\ q \in BOOLEAN
    BY <1>1
  <2>2. a[l] \in Nat
    BY Zenon, <1>4, <2>1
  <2> HIDE DEF q, l, k
  <2> QED BY <1>3, <2>1, <2>2 DEF Checksums
<1> HIDE DEF z, k
<1>6. PICK b : Sums(k, y, b) /\ add(k, y) = [sum |-> b[m], parity |-> k.parity # (m % 2 = 1)]
  BY Zenon, <1>5, AddIs
<1>7. b \in [0 .. m -> Nat] /\ b[0] = a[l]
      /\ \A i \in 1 .. m : b[i] = b[i - 1] + y[i] * Weight(i, q)
  BY Zenon, <1>5, <1>6 DEF Sums
<1>8. PICK d : Sums(c, z, d) /\ add(c, z) = [sum |-> d[Len(z)], parity |-> p # (Len(z) % 2 = 1)]
  BY Zenon, <1>2, AddIs
<1>9. d \in [0 .. l + m -> Nat] /\ d[0] = c.sum
      /\ \A i \in 1 .. l + m : d[i] = d[i - 1] + z[i] * Weight(i, p)
  BY Zenon, <1>2, <1>8 DEF Sums
<1>10. d[l] = a[l]
  <2> DEFINE S == {i \in 0 .. l : d[i] = a[i]}
  <2>1. 0 \in S
    BY <1>1, <1>4, <1>9
  <2>2. ASSUME NEW i \in 0 .. l - 1, i \in S PROVE i + 1 \in S
    <3>1. i + 1 \in 1 .. l /\ i + 1 \in 1 .. l + m /\ i + 1 \in 0 .. l /\ (i + 1) - 1 = i /\ i + 1 <= l
      BY <1>1
    <3>2. z[i + 1] = x[i + 1]
      BY Zenon, <1>2, <3>1
    <3>3. d[i + 1] = d[i] + z[i + 1] * Weight(i + 1, p)
      BY Zenon, <1>9, <3>1
    <3>4. a[i + 1] = a[i] + x[i + 1] * Weight(i + 1, p)
      BY Zenon, <1>4, <3>1
    <3> QED BY Zenon, <2>2, <3>1, <3>2, <3>3, <3>4
  <2> HIDE DEF S
  <2>3. 0 .. l \subseteq S
    BY Zenon, <1>1, <2>1, <2>2, InductUpTo
  <2>4. l \in S
    BY <1>1, <2>3
  <2> QED BY Zenon, <2>4 DEF S
<1>11. d[l + m] = b[m]
  <2> DEFINE S == {i \in 0 .. m : d[l + i] = b[i]}
  <2>1. 0 \in S
    BY <1>1, <1>7, <1>10
  <2>2. ASSUME NEW i \in 0 .. m - 1, i \in S PROVE i + 1 \in S
    <3> DEFINE j == i + 1
               t == l + j
    <3>1. j \in 1 .. m /\ t \in 1 .. l + m /\ j \in 0 .. m /\ j - 1 = i /\ ~ (t <= l)
          /\ t - l = j /\ t - 1 = l + i /\ j \in Nat
      BY <1>1
    <3>2. Weight(t, p) = Weight(j, q)
      <4> HIDE DEF j
      <4> QED BY Zenon, <1>1, <3>1, OddSum
    <3> HIDE DEF j, t
    <3>3. z[t] = y[j]
      BY Zenon, <1>2, <3>1
    <3>4. d[t] = d[l + i] + z[t] * Weight(t, p)
      BY Zenon, <1>9, <3>1
    <3>5. b[j] = b[i] + y[j] * Weight(j, q)
      BY Zenon, <1>7, <3>1
    <3>6. d[t] = b[j]
      BY Zenon, <2>2, <3>2, <3>3, <3>4, <3>5
    <3> QED BY Zenon, <3>1, <3>6 DEF j, t
  <2> HIDE DEF S
  <2>3. 0 .. m \subseteq S
    BY <1>1, <2>1, <2>2, InductUpTo
  <2>4. m \in S
    BY <1>1, <2>3
  <2> QED BY Zenon, <2>4 DEF S
<1>12. (q # (m % 2 = 1)) = (p # ((l + m) % 2 = 1))
  <2>1. (q # (m % 2 = 1)) <=> (p # ((l + m) % 2 = 1))
    BY Zenon, <1>1, OddSum
  <2> QED BY ONLY <2>1
<1> HIDE DEF q
<1>13. add(k, y) = [sum |-> b[m], parity |-> q # (m % 2 = 1)]
  BY Zenon, <1>5, <1>6
<1>14. add(c, z) = [sum |-> d[l + m], parity |-> p # ((l + m) % 2 = 1)]
  BY Zenon, <1>2, <1>8
<1>15. add(k, y) = add(c, z)
  BY Zenon, <1>11, <1>12, <1>13, <1>14
<1> QED BY Zenon, <1>5, <1>15 DEF k, z

\* Nothing added leaves the checksum as it was.
LEMMA AddNothing == /\ Checksum(0) \in Checksums
                    /\ \A c \in Checksums : add(c, <<>>) = c
<1>1. Checksum(0) \in Checksums
  BY DEF Checksum, Checksums
<1>2. ASSUME NEW c \in Checksums PROVE add(c, <<>>) = c
  <2>1. <<>> \in Strings /\ Len(<<>>) = 0
    BY DEF Strings
  <2>2. PICK s : Sums(c, <<>>, s)
                 /\ add(c, <<>>) = [sum |-> s[Len(<<>>)], parity |-> c.parity # (Len(<<>>) % 2 = 1)]
    BY Zenon, <2>1, AddIs
  <2>3. s[0] = c.sum
    BY Zenon, <2>2 DEF Sums
  <2>4. c.parity \in BOOLEAN /\ c = [sum |-> c.sum, parity |-> c.parity]
    BY DEF Checksums
  <2>5. (c.parity # (0 % 2 = 1)) = c.parity
    <3>1. (0 % 2 = 1) = FALSE
      OBVIOUS
    <3> QED BY <2>4, <3>1
  <2> QED BY Zenon, <2>1, <2>2, <2>3, <2>4, <2>5
<1> QED BY Zenon, <1>1, <1>2

\* Added piece by piece, a string is added as the whole.
LEMMA PiecesJoin ==
  ASSUME NEW list \in Seq(Strings)
  PROVE  AddPieces(list) = add(Checksum(0), concatenate(list))
<1> DEFINE N == Len(list)
           c == Checksum(0)
           F == CHOOSE f : f = [i \in 0 .. N |-> IF i = 0 THEN c ELSE add(f[i - 1], list[i])]
<1>1. N \in Nat /\ \A i \in 1 .. N : list[i] \in Strings
  OBVIOUS
<1>2. AddPieces(list) = F[N]
  BY Zenon DEF AddPieces
<1>3. PICK ret : Joins(list, ret) /\ concatenate(list) = ret[N]
  BY Zenon, ConcatenateIs
<1>4. ret \in [0 .. N -> Strings] /\ ret[0] = <<>> /\ \A i \in 1 .. N : ret[i] = ret[i - 1] \o list[i]
  BY Zenon, <1>3 DEF Joins
<1> DEFINE g == [i \in 0 .. N |-> add(c, ret[i])]
<1> HIDE DEF c
<1>5. c \in Checksums /\ add(c, <<>>) = c
  BY Zenon, AddNothing DEF c
<1>6. ASSUME NEW i \in 1 .. N PROVE i - 1 \in 0 .. N /\ i \in 0 .. N /\ i # 0
                                    /\ add(c, ret[i]) = add(add(c, ret[i - 1]), list[i])
  <2>1. i - 1 \in 0 .. N /\ i \in 0 .. N /\ i # 0
    BY <1>1
  <2>2. ret[i - 1] \in Strings /\ list[i] \in Strings
    BY Zenon, <1>1, <1>4, <2>1
  <2>3. add(add(c, ret[i - 1]), list[i]) = add(c, ret[i - 1] \o list[i])
    BY Zenon, <1>5, <2>2, AddJoin
  <2> QED BY Zenon, <1>4, <2>1, <2>3
<1>7. \A i \in 0 .. N : i # 0 => i \in 1 .. N
  BY <1>1
<1>8. ASSUME NEW i \in 0 .. N PROVE add(c, ret[i]) = IF i = 0 THEN c ELSE add(g[i - 1], list[i])
  <2>1. CASE i = 0
    BY Zenon, <1>4, <1>5, <2>1
  <2>2. CASE i # 0
    <3>1. i \in 1 .. N
      BY Zenon, <1>7, <2>2
    <3>2. g[i - 1] = add(c, ret[i - 1])
      BY Zenon, <1>6, <3>1
    <3> QED BY Zenon, <1>6, <2>2, <3>1, <3>2
  <2> QED BY Zenon, <2>1, <2>2
<1>9. g = [i \in 0 .. N |-> IF i = 0 THEN c ELSE add(g[i - 1], list[i])]
  BY Zenon, <1>8
<1>10. F = [i \in 0 .. N |-> IF i = 0 THEN c ELSE add(F[i - 1], list[i])]
  <2> HIDE DEF g
  <2> QED BY Zenon, <1>9
<1> HIDE DEF F
<1>11. F = g
  <2>1. 0 \in 0 .. N
    BY <1>1
  <2>2. F[0] = g[0]
    BY Zenon, <1>4, <1>5, <1>10, <2>1
  <2>3. ASSUME NEW i \in 0 .. N - 1, F[i] = g[i] PROVE F[i + 1] = g[i + 1]
    <3> DEFINE j == i + 1
    <3>1. j \in 0 .. N /\ j - 1 = i /\ j # 0
      BY <1>1
    <3> HIDE DEF g, j
    <3>2. F[j] = add(F[j - 1], list[j])
      BY Zenon, <1>10, <3>1
    <3>3. g[j] = add(g[j - 1], list[j])
      BY Zenon, <1>9, <3>1
    <3>4. F[j] = g[j]
      BY Zenon, <2>3, <3>1, <3>2, <3>3
    <3> QED BY Zenon, <3>4 DEF j
  <2>4. DOMAIN F = 0 .. N /\ F = [i \in DOMAIN F |-> F[i]]
    BY Zenon, <1>10
  <2>5. F = [i \in 0 .. N |-> F[i]] /\ g = [i \in 0 .. N |-> g[i]] /\ N \in Nat
    BY Zenon, <1>1, <2>4
  <2>6. \A i \in 0 .. N - 1 : F[i] = g[i] => F[i + 1] = g[i + 1]
    BY Zenon, <2>3
  <2> HIDE DEF N, g
  <2>7. Alike(N, F, g)
    BY ONLY Zenon, <2>2, <2>5, <2>6 DEF Alike
  <2> QED BY ONLY Zenon, <2>7, SameUpTo
<1>12. N \in 0 .. N
  BY <1>1
<1>13. F[N] = add(c, ret[N])
  BY Zenon, <1>11, <1>12
<1> QED BY Zenon, <1>2, <1>3, <1>13 DEF c

\* The sum of the words is that of the bytes, each with what it counts for in its word.
LEMMA WordSumIs ==
  ASSUME NEW data \in Strings
  PROVE  WordSum(data) = add(Checksum(0), data).sum
<1> DEFINE N == Len(data)
           word(i) == data[i] * 256 + (IF i < N THEN data[i + 1] ELSE 0)
           F == CHOOSE f : f = [i \in 0 .. N |->
                  IF i = 0 THEN 0 ELSE IF i % 2 = 1 THEN f[i - 1] + word(i) ELSE f[i - 1]]
<1>1. N \in Nat /\ \A i \in 1 .. N : data[i] \in Nat
  BY DEF Strings
<1>2. WordSum(data) = F[N]
  BY Zenon DEF WordSum
<1>3. Checksum(0) \in Checksums /\ Checksum(0).sum = 0 /\ Checksum(0).parity = FALSE
  BY DEF Checksum, Checksums
<1>4. PICK s : Sums(Checksum(0), data, s)
               /\ add(Checksum(0), data) = [sum |-> s[N], parity |-> Checksum(0).parity # (N % 2 = 1)]
  BY Zenon, <1>3, AddIs
<1>5. s \in [0 .. N -> Nat] /\ s[0] = 0 /\ \A i \in 1 .. N : s[i] = s[i - 1] + data[i] * Weight(i, FALSE)
  BY Zenon, <1>3, <1>4 DEF Sums
<1>6. add(Checksum(0), data).sum = s[N]
  BY <1>4
<1> DEFINE G(i) == IF i % 2 = 1 /\ i < N THEN s[i] + data[i + 1] ELSE s[i]
           g == [i \in 0 .. N |-> G(i)]
<1>7. ASSUME NEW i \in 1 .. N
      PROVE  /\ i - 1 \in 0 .. N
             /\ G(i) = IF i % 2 = 1 THEN G(i - 1) + word(i) ELSE G(i - 1)
  <2>1. i - 1 \in 0 .. N /\ i \in 0 .. N /\ i - 1 < N /\ (i - 1) + 1 = i
    BY <1>1
  <2>2. s[i - 1] \in Nat /\ s[i] \in Nat /\ data[i] \in Nat
    BY Zenon, <1>1, <1>5, <2>1
  <2>3. CASE i % 2 = 1
    <3>1. (i - 1) % 2 # 1
      BY <2>3
    <3>2. Weight(i, FALSE) = 256
      BY Zenon, <2>3 DEF Weight
    <3>3. s[i] = s[i - 1] + data[i] * 256
      <4>1. s[i] = s[i - 1] + data[i] * Weight(i, FALSE)
        BY Zenon, <1>5
      <4> QED BY ONLY Zenon, <3>2, <4>1
    <3>4. G(i - 1) = s[i - 1]
      BY Zenon, <3>1
    <3>5. CASE i < N
      <4>1. data[i + 1] \in Nat
        BY <1>1, <3>5
      <4>2. G(i) = s[i] + data[i + 1] /\ word(i) = data[i] * 256 + data[i + 1]
        BY Zenon, <2>3, <3>5
      <4> HIDE DEF G, word
      <4> QED BY <2>1, <2>2, <2>3, <3>3, <3>4, <4>1, <4>2
    <3>6. CASE ~ (i < N)
      <4>1. G(i) = s[i] /\ word(i) = data[i] * 256 + 0
        BY Zenon, <3>6
      <4> HIDE DEF G, word
      <4> QED BY <2>1, <2>2, <2>3, <3>3, <3>4, <4>1
    <3> QED BY Zenon, <3>5, <3>6
  <2>4. CASE i % 2 # 1
    <3>1. (i - 1) % 2 = 1
      BY <2>4
    <3>2. Weight(i, FALSE) = 1
      BY Zenon, <2>4 DEF Weight
    <3>3. s[i] = s[i - 1] + data[i] * 1
      BY Zenon, <1>5, <3>2
    <3>4. s[i] = s[i - 1] + data[i]
      BY <2>2, <3>3
    <3>5. G(i - 1) = s[i - 1] + data[i] /\ G(i) = s[i]
      BY Zenon, <2>1, <2>4, <3>1
    <3> HIDE DEF G, word
    <3> QED BY Zenon, <2>1, <2>4, <3>4, <3>5
  <2> QED BY Zenon, <2>3, <2>4
<1>8. G(0) = 0
  <2>1. 0 % 2 # 1
    OBVIOUS
  <2> QED BY Zenon, <1>5, <2>1
<1>9. G(N) = s[N]
  <2>1. ~ (N < N)
    BY <1>1
  <2> QED BY Zenon, <2>1
<1> HIDE DEF G, word
<1>10. \A i \in 0 .. N : i # 0 => i \in 1 .. N
  BY <1>1
<1>11. ASSUME NEW i \in 0 .. N
       PROVE  G(i) = IF i = 0 THEN 0 ELSE IF i % 2 = 1 THEN g[i - 1] + word(i) ELSE g[i - 1]
  <2>1. CASE i = 0
    BY Zenon, <1>8, <2>1
  <2>2. CASE i # 0
    <3>1. i \in 1 .. N
      BY Zenon, <1>10, <2>2
    <3>2. g[i - 1] = G(i - 1)
      BY Zenon, <1>7, <3>1
    <3>3. G(i) = IF i % 2 = 1 THEN G(i - 1) + word(i) ELSE G(i - 1)
      BY Zenon, <1>7, <3>1
    <3> QED BY Zenon, <2>2, <3>2, <3>3
  <2> QED BY Zenon, <2>1, <2>2
<1>12. g = [i \in 0 .. N |-> IF i = 0 THEN 0 ELSE IF i % 2 = 1 THEN g[i - 1] + word(i) ELSE g[i - 1]]
  BY Zenon, <1>11
<1>13. F = [i \in 0 .. N |-> IF i = 0 THEN 0 ELSE IF i % 2 = 1 THEN F[i - 1] + word(i) ELSE F[i - 1]]
  <2> HIDE DEF g
  <2> QED BY Zenon, <1>12
<1> HIDE DEF F
<1>14. F = g
  <2>1. 0 \in 0 .. N
    BY <1>1
  <2>2. F[0] = g[0]
    BY Zenon, <1>8, <1>13, <2>1
  <2>3. ASSUME NEW i \in 0 .. N - 1, F[i] = g[i] PROVE F[i + 1] = g[i + 1]
    <3> DEFINE j == i + 1
    <3>1. j \in 0 .. N /\ j - 1 = i /\ j # 0
      BY <1>1
    <3> HIDE DEF g, j
    <3>2. F[j] = IF j % 2 = 1 THEN F[j - 1] + word(j) ELSE F[j - 1]
      BY Zenon, <1>13, <3>1
    <3>3. g[j] = IF j % 2 = 1 THEN g[j - 1] + word(j) ELSE g[j - 1]
      BY Zenon, <1>12, <3>1
    <3>4. F[j - 1] = g[j - 1]
      BY Zenon, <2>3, <3>1
    <3>5. F[j] = g[j]
      BY ONLY <3>2, <3>3, <3>4
    <3> QED BY Zenon, <3>5 DEF j
  <2>4. DOMAIN F = 0 .. N /\ F = [i \in DOMAIN F |-> F[i]]
    BY Zenon, <1>13
  <2>5. F = [i \in 0 .. N |-> F[i]] /\ g = [i \in 0 .. N |-> g[i]] /\ N \in Nat
    BY Zenon, <1>1, <2>4
  <2>6. \A i \in 0 .. N - 1 : F[i] = g[i] => F[i + 1] = g[i + 1]
    BY Zenon, <2>3
  <2> HIDE DEF N, g
  <2>7. Alike(N, F, g)
    BY ONLY Zenon, <2>2, <2>5, <2>6 DEF Alike
  <2> QED BY ONLY Zenon, <2>7, SameUpTo
<1>15. N \in 0 .. N
  BY <1>1
<1>16. F[N] = G(N)
  BY Zenon, <1>14, <1>15
<1> QED BY Zenon, <1>2, <1>6, <1>9, <1>16

\* A string's bytes add up to no more than its length allows.
LEMMA SumBound ==
  ASSUME NEW data \in Strings, \A i \in 1 .. Len(data) : data[i] <= 255
  PROVE  add(Checksum(0), data).sum \in 0 .. 65280 * Len(data)
<1> DEFINE N == Len(data)
           K == 65280
<1>1. N \in Nat /\ \A i \in 1 .. N : data[i] \in Nat /\ data[i] <= 255
  BY DEF Strings
<1>2. Checksum(0) \in Checksums /\ Checksum(0).sum = 0
  BY DEF Checksum, Checksums
<1> DEFINE p == Checksum(0).parity
<1>3. PICK s : Sums(Checksum(0), data, s)
               /\ add(Checksum(0), data) = [sum |-> s[N], parity |-> p # (N % 2 = 1)]
  BY Zenon, <1>2, AddIs
<1>4. s \in [0 .. N -> Nat] /\ s[0] = 0 /\ \A i \in 1 .. N : s[i] = s[i - 1] + data[i] * Weight(i, p)
  BY Zenon, <1>2, <1>3 DEF Sums
<1>5. add(Checksum(0), data).sum = s[N]
  BY <1>3
<1> HIDE DEF p, K
<1> DEFINE W == 256
<1>a. K \in Nat /\ W \in Nat /\ K = 255 * W /\ W >= 1
  BY DEF K
<1>b. \A i : Weight(i, p) = W \/ Weight(i, p) = 1
  BY DEF Weight
<1> HIDE DEF W
<1> DEFINE S == {i \in 0 .. N : s[i] <= K * i}
<1>6. 0 \in S
  BY <1>1, <1>4, <1>a
<1>7. ASSUME NEW i \in 0 .. N - 1, i \in S PROVE i + 1 \in S
  <2> DEFINE j == i + 1
  <2>1. j \in 1 .. N /\ j \in 0 .. N /\ j - 1 = i /\ i \in 0 .. N
    BY <1>1
  <2> HIDE DEF j
  <2>2. s[i] \in Nat /\ s[i] <= K * i
    BY Zenon, <1>4, <1>7, <2>1
  <2>3. data[j] \in Nat /\ data[j] <= 255
    BY Zenon, <1>1, <2>1
  <2>4. s[j] = s[i] + data[j] * Weight(j, p)
    BY Zenon, <1>4, <2>1
  <2>5. Weight(j, p) = W \/ Weight(j, p) = 1
    BY Zenon, <1>b
  <2>6. s[j] <= s[i] + K
    <3>1. CASE Weight(j, p) = W
      <4>1. s[j] = s[i] + data[j] * W
        BY Zenon, <2>4, <3>1
      <4>2. data[j] * W <= K
        BY <1>a, <2>3
      <4>3. data[j] * W \in Nat
        BY <1>a, <2>3
      <4> DEFINE d == data[j] * W
      <4> HIDE DEF d
      <4>4. s[j] = s[i] + d /\ d <= K /\ d \in Nat
        BY Zenon, <4>1, <4>2, <4>3 DEF d
      <4> QED BY <1>a, <2>2, <4>4
    <3>2. CASE Weight(j, p) = 1
      <4>1. s[j] = s[i] + data[j] * 1
        BY Zenon, <2>4, <3>2
      <4> QED BY <1>a, <2>2, <2>3, <4>1
    <3> QED BY Zenon, <2>5, <3>1, <3>2
  <2>7. s[j] \in Nat
    BY Zenon, <1>4, <2>1
  <2>8. s[j] <= K * j
    <3>1. K * j = K * i + K
      BY <1>a, <2>1
    <3> DEFINE u == K * i
               v == K * j
    <3>2. u \in Nat /\ v \in Nat
      BY <1>a, <2>1
    <3> HIDE DEF u, v
    <3>3. s[i] <= u /\ v = u + K
      BY Zenon, <2>2, <3>1 DEF u, v
    <3>4. s[j] <= v
      BY <1>a, <2>2, <2>6, <2>7, <3>2, <3>3
    <3> QED BY Zenon, <3>4 DEF v
  <2> QED BY Zenon, <2>1, <2>8 DEF j
<1> HIDE DEF S
<1>8. 0 .. N \subseteq S
  BY Zenon, <1>1, <1>6, <1>7, InductUpTo
<1>9. N \in S /\ N \in 0 .. N
  BY <1>1, <1>8
<1>10. s[N] \in Nat /\ s[N] <= K * N
  BY Zenon, <1>4, <1>9 DEF S
<1>11. add(Checksum(0), data).sum \in Nat /\ add(Checksum(0), data).sum <= K * N
  BY Zenon, <1>5, <1>10
<1> QED BY <1>1, <1>11 DEF K

\* With its checksum, a sum that fits 32 bits is a multiple of 65535: two carries are enough.
LEMMA ValueCompletes ==
  ASSUME NEW c \in Checksums, c.sum < 65536 * 65536
  PROVE  (c.sum + value(c)) % 65535 = 0
<1> DEFINE n == c.sum
           q1 == n \div 65536
           m == q1 + (n % 65536)
           q2 == m \div 65536
           k == q2 + (m % 65536)
<1>1. n \in Nat /\ n < 65536 * 65536
  BY DEF Checksums
<1>2. value(c) = 65535 - k
  BY DEF value
<1> HIDE DEF n
<1>3. q1 \in Nat /\ m \in Nat /\ n = 65535 * q1 + m
  BY <1>1
<1> HIDE DEF q1, m
<1>4. q2 \in Nat /\ k \in Nat /\ m = 65535 * q2 + k
  BY <1>3
<1> HIDE DEF q2, k
<1> DEFINE a == n + (65535 - k)
           q == q1 + q2 + 1
<1>5. a \in Int /\ q \in Int /\ a = 65535 * q + 0
  BY <1>1, <1>3, <1>4
<1> HIDE DEF a, q
<1>6. a % 65535 = 0
  BY <1>5, ModUnique
<1> QED BY <1>2, <1>6 DEF a, n

\* The pieces append is given.
Appended == {x \in Strings : Len(x) <= MaxPiece /\ \A i \in 1 .. Len(x) : x[i] <= 255}

\* What pieces are put together to: a string of bytes, no longer than they are together.
LEMMA WholeBound ==
  ASSUME NEW list \in Seq(Appended)
  PROVE  LET whole == concatenate(list)
         IN  /\ whole \in Strings /\ \A i \in 1 .. Len(whole) : whole[i] <= 255
             /\ Len(whole) <= Len(list) * MaxPiece
<1> DEFINE N == Len(list)
           Good(w, i) == /\ w \in Strings /\ \A j \in 1 .. Len(w) : w[j] <= 255
                         /\ Len(w) <= i * MaxPiece
<1>1. N \in Nat /\ MaxPiece \in Nat /\ list \in Seq(Strings)
      /\ \A i \in 1 .. N : list[i] \in Appended
  <2>1. Appended \subseteq Strings
    BY DEF Appended
  <2> QED BY <2>1, AlgorithmsAssumption
<1>2. PICK ret : Joins(list, ret) /\ concatenate(list) = ret[N]
  BY Zenon, <1>1, ConcatenateIs
<1>3. ret \in [0 .. N -> Strings] /\ ret[0] = <<>> /\ \A i \in 1 .. N : ret[i] = ret[i - 1] \o list[i]
  BY Zenon, <1>2 DEF Joins
<1> DEFINE S == {i \in 0 .. N : Good(ret[i], i)}
<1>4. 0 \in S
  <2>1. Good(<<>>, 0)
    BY <1>1 DEF Strings
  <2>2. 0 \in 0 .. N
    BY <1>1
  <2> HIDE DEF Good
  <2> QED BY Zenon, <1>3, <2>1, <2>2
<1>5. ASSUME NEW i \in 0 .. N - 1, i \in S PROVE i + 1 \in S
  <2> DEFINE k == i + 1
             u == ret[i]
             v == list[k]
             w == u \o v
  <2>1. k \in 1 .. N /\ k \in 0 .. N /\ k - 1 = i /\ i \in Nat /\ k \in Nat /\ k * MaxPiece = i * MaxPiece + MaxPiece
    BY <1>1
  <2> HIDE DEF k
  <2>2. u \in Strings /\ Len(u) <= i * MaxPiece /\ \A j \in 1 .. Len(u) : u[j] <= 255
    BY Zenon, <1>5
  <2>3. v \in Strings /\ Len(v) <= MaxPiece /\ \A j \in 1 .. Len(v) : v[j] <= 255
    BY Zenon, <1>1, <2>1 DEF Appended
  <2>4. ret[k] = w
    BY Zenon, <1>3, <2>1
  <2> HIDE DEF u, v
  <2>5. /\ w \in Strings /\ Len(w) = Len(u) + Len(v)
        /\ \A j \in 1 .. Len(u) + Len(v) : w[j] = IF j <= Len(u) THEN u[j] ELSE v[j - Len(u)]
    <3>1. u \in Strings /\ v \in Strings
      BY Zenon, <2>2, <2>3
    <3> QED BY Zenon, <3>1, ConcatAt DEF Strings
  <2> HIDE DEF w
  <2> DEFINE a == Len(u)
             b == Len(v)
             m == i * MaxPiece
             t == k * MaxPiece
  <2>6. a \in Nat /\ b \in Nat /\ m \in Nat /\ t = m + MaxPiece
    BY <1>1, <2>1, <2>2, <2>3 DEF Strings
  <2>7. ASSUME NEW j \in 1 .. Len(w) PROVE w[j] <= 255
    <3>1. j \in 1 .. a + b
      BY Zenon, <2>5
    <3>2. CASE j <= a
      <4>1. j \in 1 .. a
        BY <2>6, <3>1, <3>2
      <4>2. w[j] = u[j] /\ u[j] <= 255
        BY Zenon, <2>2, <2>5, <3>1, <3>2, <4>1
      <4> QED BY ONLY <4>2
    <3>3. CASE ~ (j <= a)
      <4>1. j - a \in 1 .. b
        BY <2>6, <3>1, <3>3
      <4>2. w[j] = v[j - a] /\ v[j - a] <= 255
        BY Zenon, <2>3, <2>5, <3>1, <3>3, <4>1
      <4> QED BY ONLY <4>2
    <3> QED BY Zenon, <3>2, <3>3
  <2>8. Len(w) <= k * MaxPiece
    <3>1. a <= m /\ b <= MaxPiece /\ Len(w) = a + b
      BY Zenon, <2>2, <2>3, <2>5
    <3> HIDE DEF a, b, m, t
    <3>2. Len(w) <= t
      BY <1>1, <2>6, <3>1
    <3> QED BY Zenon, <3>2 DEF t
  <2>9. Good(w, k)
    BY Zenon, <2>5, <2>7, <2>8
  <2> HIDE DEF Good
  <2> QED BY Zenon, <2>1, <2>4, <2>9 DEF k
<1> HIDE DEF S
<1>6. 0 .. N \subseteq S
  BY Zenon, <1>1, <1>4, <1>5, InductUpTo
<1>7. N \in S
  BY <1>1, <1>6
<1>8. Good(concatenate(list), N)
  <2> HIDE DEF Good
  <2> QED BY Zenon, <1>2, <1>7 DEF S
<1> QED BY Zenon, <1>8

GoodPieces == pieces \in Seq(Appended) /\ Len(pieces) <= MaxPieces

\* append keeps to pieces of bytes, as many and as long as the bounds allow.
LEMMA PiecesStayGood == AlgorithmsSpec => []GoodPieces
<1>1. AlgorithmsInit => GoodPieces
  BY AlgorithmsAssumption DEF AlgorithmsInit, GoodPieces
<1>2. GoodPieces /\ [AlgorithmsNext]_algorithm_vars => GoodPieces'
  <2> SUFFICES ASSUME GoodPieces, [AlgorithmsNext]_algorithm_vars PROVE GoodPieces'
    OBVIOUS
  <2>1. CASE AppendPiece
    <3> PICK n \in 0 .. MaxPiece : \E piece \in [1 .. n -> Bytes] : pieces' = Append(pieces, piece)
      BY Zenon, <2>1 DEF AppendPiece
    <3>1. PICK piece \in [1 .. n -> Bytes] : pieces' = Append(pieces, piece)
      OBVIOUS
    <3>2. Len(pieces) < MaxPieces
      BY Zenon, <2>1 DEF AppendPiece
    <3>3. MaxPiece \in Nat /\ MaxPieces \in Nat /\ Bytes \subseteq 0 .. 255
      BY AlgorithmsAssumption
    <3>4. piece \in Seq(Nat) /\ Len(piece) = n /\ \A i \in 1 .. n : piece[i] <= 255
      <4>1. n \in Nat /\ \A x \in Bytes : x \in Nat /\ x <= 255
        BY ONLY <3>3, n \in 0 .. MaxPiece
      <4>2. \A i \in 1 .. n : piece[i] \in Nat /\ piece[i] <= 255
        BY Zenon, <4>1
      <4>3. piece \in [1 .. n -> Nat]
        BY Zenon, <4>1, <4>2
      <4>4. piece \in Seq(Nat) /\ Len(piece) = n
        BY ONLY <4>1, <4>3
      <4> QED BY Zenon, <4>2, <4>4
    <3>5. piece \in Appended
      BY <3>3, <3>4 DEF Appended, Strings
    <3>6. pieces \in Seq(Appended)
      BY Zenon DEF GoodPieces
    <3>7. pieces' \in Seq(Appended) /\ Len(pieces') = Len(pieces) + 1 /\ Len(pieces) \in Nat
      BY ONLY <3>1, <3>5, <3>6
    <3>8. Len(pieces') <= MaxPieces
      BY ONLY <3>2, <3>3, <3>7
    <3> QED BY Zenon, <3>7, <3>8 DEF GoodPieces
  <2>2. CASE Unwrap \/ AddRoute \/ UNCHANGED algorithm_vars
    BY <2>2 DEF Unwrap, AddRoute, algorithm_vars, GoodPieces
  <2> QED BY Zenon, <2>1, <2>2 DEF AlgorithmsNext
<1> QED BY <1>1, <1>2, PTL DEF AlgorithmsSpec

\* remove_prefix leaves the rest of the string, for strings in any pieces and prefixes of any
\* length, and has bytes still to go exactly when the string is shorter (buffer.cc).
THEOREM PrefixRemoved == AlgorithmsSpec => []RemovesThePrefix
<1>1. GoodPieces => RemovesThePrefix
  <2> SUFFICES ASSUME GoodPieces PROVE RemovesThePrefix
    OBVIOUS
  <2> DEFINE whole == concatenate(pieces)
  <2>1. pieces \in Seq(Appended)
    BY Zenon DEF GoodPieces
  <2>2. pieces \in Seq(Strings)
    <3>1. Appended \subseteq Strings
      BY DEF Appended
    <3> QED BY <2>1, <3>1
  <2>3. whole \in Strings
    BY Zenon, <2>1, WholeBound
  <2> HIDE DEF whole
  <2>4. \A n \in 0 .. Len(whole) + 1 : n \in Nat
    BY <2>3 DEF Strings
  <2>5. ASSUME NEW n \in 0 .. Len(whole) + 1
        PROVE  LET left == remove_prefix(pieces, n)
               IN  IF n > Len(whole) THEN left.n > 0
                   ELSE left.n = 0 /\ concatenate(left.list) = SubSeq(whole, n + 1, Len(whole))
    BY Zenon, <2>2, <2>4, RemoveCorrect DEF whole
  <2> QED BY Zenon, <2>5 DEF RemovesThePrefix, whole
<1> QED BY <1>1, PiecesStayGood, PTL

\* A checksum added piece by piece is that of the whole string and completes its words to a
\* multiple of 65535, for every string of up to 65535 bytes in any pieces (util.cc).
THEOREM ChecksumCorrect == AlgorithmsSpec => []ChecksumOfPieces
<1>1. GoodPieces => ChecksumOfPieces
  <2> SUFFICES ASSUME GoodPieces PROVE ChecksumOfPieces
    OBVIOUS
  <2> DEFINE whole == concatenate(pieces)
             l == Len(whole)
             N == Len(pieces)
             c == add(Checksum(0), whole)
  <2>1. pieces \in Seq(Appended) /\ N <= MaxPieces
    BY Zenon DEF GoodPieces
  <2>2. pieces \in Seq(Strings) /\ N \in Nat
    <3>1. Appended \subseteq Strings
      BY DEF Appended
    <3> QED BY <2>1, <3>1
  <2>3. /\ whole \in Strings /\ \A i \in 1 .. l : whole[i] <= 255
        /\ l <= N * MaxPiece
    BY Zenon, <2>1, WholeBound
  <2>4. AddPieces(pieces) = c
    BY Zenon, <2>2, PiecesJoin
  <2> HIDE DEF whole
  <2>5. WordSum(whole) = c.sum
    BY Zenon, <2>3, WordSumIs
  <2>6. c \in Checksums
    BY Zenon, <2>3, AddNothing, AddJoin
  <2>7. c.sum \in 0 .. 65280 * l
    BY <2>3, SumBound
  <2>8. l \in Nat /\ l <= 65535
    <3>1. MaxPiece \in Nat /\ MaxPieces \in Nat /\ MaxPieces * MaxPiece <= 65535
      BY AlgorithmsAssumption
    <3>2. l \in Nat
      BY <2>3 DEF Strings
    <3> HIDE DEF l, N
    <3>3. N * MaxPiece <= MaxPieces * MaxPiece
      BY <2>1, <2>2, <3>1
    <3>4. N * MaxPiece \in Nat /\ MaxPieces * MaxPiece \in Nat
      BY <2>2, <3>1
    <3> QED BY <2>3, <3>1, <3>2, <3>3, <3>4
  <2> HIDE DEF l, c
  <2>9. c.sum < 65536 * 65536
    BY <2>7, <2>8
  <2>10. (c.sum + value(c)) % 65535 = 0
    BY <2>6, <2>9, ValueCompletes
  <2> QED BY <2>4, <2>5, <2>10 DEF ChecksumOfPieces, whole, c
<1> QED BY <1>1, PiecesStayGood, PTL

-----------------------------------------------------------------------------
(* The streams a connection promises.  Whatever implements them inherits it. *)

StreamInv == TypeOK /\ InOrder

\* A write only moves the end of the written bytes away from what has arrived, and none
\* comes after the end.
LEMMA WritePreserves ==
    ASSUME StreamInv, NEW d \in Writers, Write(d)
    PROVE  StreamInv'
<1> USE DEF StreamInv, Write, Arrived
<1>1. TypeOK' BY Zenon DEF TypeOK
<1>2. ASSUME NEW e \in Writers PROVE written'[e] >= written[e] /\ (e # d => written'[e] = written[e])
      BY <1>2 DEF TypeOK
<1>3. InOrder' BY <1>2 DEF TypeOK, InOrder
<1> QED BY <1>1, <1>3

\* Ending a stream changes nothing else.
LEMMA ClosePreserves ==
    ASSUME StreamInv, NEW d \in Writers, Close(d)
    PROVE  StreamInv'
BY DEF StreamInv, Close, Arrived, TypeOK, InOrder

\* The bytes that arrive continue those that wait.
LEMMA ArrivePreserves ==
    ASSUME StreamInv, NEW d \in Writers, NEW n \in 0 .. written[d] - Arrived(d), Arrive(d, n)
    PROVE  StreamInv'
<1> DEFINE more == [i \in 1 .. n |-> Arrived(d) + i - 1]
<1> USE DEF StreamInv
<1>1. Arrived(d) \in Nat /\ n \in Nat /\ Len(buffer[d]) \in Nat BY DEF TypeOK, Arrived
<1>2. more \in Seq(Nat) /\ Len(more) = n BY <1>1
<1>3. buffer' = [buffer EXCEPT ![d] = @ \o more] BY DEF Arrive
<1>4. TypeOK'
  <2>1. buffer[d] \in Seq(Nat) BY DEF TypeOK
  <2> HIDE DEF more
  <2>2. buffer[d] \o more \in Seq(Nat) BY <2>1, <1>2
  <2>3. buffer' \in [Writers -> Seq(Nat)] BY <2>2, <1>3 DEF TypeOK
  <2>4. finished' \in [Writers -> BOOLEAN] BY Zenon DEF TypeOK, Arrive
  <2> QED BY <2>3, <2>4 DEF TypeOK, Arrive
<1>5. Len(buffer'[d]) = Len(buffer[d]) + n /\ Arrived(d)' = Arrived(d) + n
  <2>1. buffer[d] \in Seq(Nat) /\ taken[d] \in Nat BY DEF TypeOK
  <2> HIDE DEF more
  <2>2. buffer'[d] = buffer[d] \o more BY <1>3 DEF TypeOK
  <2>3. Len(buffer'[d]) = Len(buffer[d]) + n BY Zenon, <2>1, <2>2, <1>2, ConcatAt
  <2>4. taken'[d] = taken[d] BY DEF Arrive
  <2> QED BY <2>1, <2>3, <2>4, <1>1 DEF Arrived
<1>6. ASSUME NEW i \in 1 .. Len(buffer'[d]) PROVE buffer'[d][i] = taken[d] + i - 1
  <2> HIDE DEF more
  <2>1. buffer'[d] = buffer[d] \o more BY <1>3 DEF TypeOK
  <2>2. CASE i <= Len(buffer[d])
    <3>1. buffer'[d][i] = buffer[d][i] BY <2>1, <2>2, <1>1, <1>2, <1>5 DEF TypeOK
    <3> QED BY <3>1, <2>2, <1>1 DEF InOrder
  <2>3. CASE i > Len(buffer[d])
    <3>1. i - Len(buffer[d]) \in 1 .. n BY <2>3, <1>1, <1>5
    <3>2. buffer'[d][i] = more[i - Len(buffer[d])] BY <2>1, <2>3, <1>1, <1>2, <1>5 DEF TypeOK
    <3>3. more[i - Len(buffer[d])] = Arrived(d) + (i - Len(buffer[d])) - 1 BY <3>1 DEF more
    <3> QED BY <3>1, <3>2, <3>3, <1>1 DEF Arrived, TypeOK
  <2> QED BY <2>2, <2>3, <1>1, <1>5
<1>7. ASSUME NEW e \in Writers, e # d
      PROVE  buffer'[e] = buffer[e] /\ Arrived(e)' = Arrived(e) /\ finished'[e] = finished[e]
      BY <1>7, <1>3 DEF TypeOK, Arrived, Arrive
<1>8. finished'[d] => closed[d] /\ Arrived(d)' = written[d]
      BY <1>5 DEF TypeOK, Arrive
<1>9. UNCHANGED <<written, closed, taken>> BY DEF Arrive
<1>10. InOrder'
  <2> SUFFICES ASSUME NEW e \in Writers
               PROVE  /\ Arrived(e)' <= written[e]
                      /\ \A i \in 1 .. Len(buffer'[e]) : buffer'[e][i] = taken[e] + i - 1
                      /\ finished'[e] => closed[e] /\ Arrived(e)' = written[e]
      BY <1>9 DEF InOrder
  <2>1. CASE e = d
    <3>1. Arrived(d)' <= written[d]
      BY <1>1, <1>5 DEF TypeOK
    <3>2. \A i \in 1 .. Len(buffer'[d]) : buffer'[d][i] = taken[d] + i - 1
      BY <1>6
    <3> QED BY Zenon, <2>1, <3>1, <3>2, <1>8
  <2>2. CASE e # d BY <2>2, <1>7 DEF InOrder
  <2> QED BY <2>1, <2>2
<1> QED BY <1>4, <1>10

\* What is read comes off the front, and is counted.
LEMMA TakePreserves ==
    ASSUME StreamInv, NEW d \in Writers, NEW n \in 1 .. Len(buffer[d]), Take(d, n)
    PROVE  StreamInv'
<1> USE DEF StreamInv
<1>1. Len(buffer[d]) \in Nat /\ n \in Nat /\ n <= Len(buffer[d]) /\ buffer[d] \in Seq(Nat) BY DEF TypeOK
<1> DEFINE rest == SubSeq(buffer[d], n + 1, Len(buffer[d]))
<1>2. rest \in Seq(Nat) /\ Len(rest) = Len(buffer[d]) - n BY <1>1
<1>3. \A i \in 1 .. Len(buffer[d]) - n : rest[i] = buffer[d][n + i] BY <1>1
<1>4. buffer' = [buffer EXCEPT ![d] = rest] /\ taken' = [taken EXCEPT ![d] = @ + n]
      /\ UNCHANGED <<written, closed, finished>>
      BY DEF Take
<1> HIDE DEF rest
<1>5. TypeOK'
  <2>1. buffer' \in [Writers -> Seq(Nat)] BY <1>2, <1>4 DEF TypeOK
  <2>2. taken' \in [Writers -> Nat] BY <1>1, <1>4 DEF TypeOK
  <2> QED BY <2>1, <2>2, <1>4 DEF TypeOK
<1>6. buffer'[d] = rest /\ taken'[d] = taken[d] + n BY <1>4 DEF TypeOK
<1>7. Arrived(d)' = Arrived(d)
  <2>1. taken[d] \in Nat BY DEF TypeOK
  <2>2. taken[d] + n + (Len(buffer[d]) - n) = taken[d] + Len(buffer[d]) BY <2>1, <1>1
  <2>3. Arrived(d)' = taken[d] + n + Len(rest) BY <1>6 DEF Arrived
  <2> QED BY <2>2, <2>3, <1>2 DEF Arrived
<1>8. ASSUME NEW i \in 1 .. Len(rest) PROVE rest[i] = taken'[d] + i - 1
  <2>1. n + i \in 1 .. Len(buffer[d]) BY <1>1, <1>2
  <2>2. buffer[d][n + i] = taken[d] + (n + i) - 1 BY <2>1 DEF InOrder
  <2>3. rest[i] = buffer[d][n + i] BY <1>2, <1>3
  <2>4. taken[d] \in Nat /\ i \in Nat BY <1>1, <1>2 DEF TypeOK
  <2>5. taken[d] + (n + i) - 1 = (taken[d] + n) + i - 1 BY <2>4, <1>1
  <2> QED BY <2>2, <2>3, <2>5, <1>6
<1>9. ASSUME NEW e \in Writers, e # d
      PROVE  buffer'[e] = buffer[e] /\ taken'[e] = taken[e] /\ Arrived(e)' = Arrived(e)
      BY <1>9, <1>4 DEF TypeOK, Arrived
<1>10. InOrder'
  <2> SUFFICES ASSUME NEW e \in Writers
               PROVE  /\ Arrived(e)' <= written[e]
                      /\ \A i \in 1 .. Len(buffer'[e]) : buffer'[e][i] = taken'[e] + i - 1
                      /\ finished[e] => closed[e] /\ Arrived(e)' = written[e]
      BY <1>4 DEF InOrder
  <2>1. CASE e = d BY <2>1, <1>6, <1>7, <1>8 DEF InOrder
  <2>2. CASE e # d BY <2>2, <1>9 DEF InOrder
  <2> QED BY <2>1, <2>2
<1> QED BY <1>5, <1>10

\* In every behaviour of the abstract streams the bytes come in order, none before it is
\* written, and the end after the last one: what ImplementsStreams lets the two TCP
\* connections inherit.
THEOREM StreamsInOrder == Spec => []InOrder
<1>1. Init => StreamInv BY DEF Init, StreamInv, TypeOK, InOrder, Arrived
<1>2. StreamInv /\ [Next]_vars => StreamInv'
  <2> SUFFICES ASSUME StreamInv, [Next]_vars PROVE StreamInv' OBVIOUS
  <2>1. CASE UNCHANGED vars BY <2>1 DEF vars, StreamInv, TypeOK, InOrder, Arrived
  <2>2. CASE Next
    <3>1. PICK d \in Writers :
            \/ Write(d) \/ Close(d)
            \/ \E n \in 0 .. written[d] - Arrived(d) : Arrive(d, n)
            \/ \E n \in 1 .. Len(buffer[d]) : Take(d, n)
          BY <2>2 DEF Next
    <3> QED BY <3>1, WritePreserves, ClosePreserves, ArrivePreserves, TakePreserves
  <2> QED BY <2>1, <2>2
<1>3. StreamInv => InOrder BY DEF StreamInv
<1> QED BY <1>1, <1>2, <1>3, PTL DEF Spec
-----------------------------------------------------------------------------
(* The reassembler, for streams and capacities of any size. *)

\* What is written and stored is what was pushed, and the store ends before the limit.
StoreInv ==
    /\ GoodState(r, StreamLen) /\ r.output.max = Capacity
    /\ \A x \in Cover(r.storelist) : x < Limit(r)
    /\ pushed \subseteq 0 .. StreamLen
    /\ pushed \ {StreamLen} = (0 .. r.firstindex - 1) \cup Cover(r.storelist)
    /\ fitting \subseteq pushed \ {StreamLen}
    /\ r.checkeof <=> StreamLen \in pushed
    /\ lonefin \in BOOLEAN

\* How the FIN arrives: with the last byte, or alone and then last.
FinInv ==
    /\ ~lonefin /\ StreamLen > 0 => (StreamLen \in pushed <=> StreamLen - 1 \in pushed)
    /\ lonefin /\ StreamLen \in pushed => r.firstindex = StreamLen
    /\ ~lonefin /\ StreamLen = 0 => StreamLen \notin pushed
    /\ EndsAtTheEnd
-----------------------------------------------------------------------------
(* The steps. *)

\* The bytes a segment carries are a good piece.
LEMMA SegmentPiece ==
  ASSUME NEW n \in Nat, NEW index \in Nat, NEW len \in Nat, len > 0, index + len <= n
  PROVE  LET p == Piece(index, index + len - 1, [i \in 1 .. len |-> index + i - 1])
         IN  /\ GoodPiece(p, n) /\ p.first = index /\ p.last = index + len - 1
             /\ p.data = [i \in 1 .. len |-> index + i - 1]
             /\ Span(p) = index .. index + len - 1
<1> DEFINE d == [i \in 1 .. len |-> index + i - 1]
           p == Piece(index, index + len - 1, d)
<1>1. d \in Seq(Nat) /\ Len(d) = len
  OBVIOUS
<1>2. \A j \in 1 .. len : d[j] = index + j - 1
  OBVIOUS
<1> HIDE DEF d
<1>3. d # <<>>
  BY <1>1
<1>4. index + len - 1 \in Nat /\ index + len - 1 < n
  OBVIOUS
<1>5. p.first = index /\ p.last = index + len - 1 /\ p.data = d /\ p \in Pieces
  BY <1>1, <1>4 DEF Piece, Pieces
<1> HIDE DEF p
<1>6. GoodPiece(p, n)
  BY <1>1, <1>2, <1>3, <1>4, <1>5 DEF GoodPiece
<1> QED BY <1>5, <1>6 DEF Span, p, d

\* The right edge of the window does not exceed the limit.
LEMMA EdgeBelowLimit ==
  ASSUME StoreInv
  PROVE  /\ RightEdge \in Nat /\ RightEdge <= Limit(r) /\ Limit(r) \in Nat
         /\ Limit(r) < SizeMod /\ StreamLen < SizeMod /\ StreamLen \in Nat /\ SizeMod \in Nat
         /\ r.firstindex \in Nat /\ r.firstindex <= StreamLen
<1>1. /\ r \in Reassemblers /\ GoodOutput(r.output) /\ r.firstindex <= StreamLen
      /\ r.output.max = Capacity
  BY DEF StoreInv, GoodState
<1>2. r.firstindex \in Nat /\ r.output \in ByteStreams
  BY <1>1 DEF Reassemblers
<1> DEFINE x == Len(r.output.content)
           f == r.firstindex
<1>3. x \in Nat /\ x <= Capacity
  BY <1>1, <1>2 DEF ByteStreams, GoodOutput
<1>4. RightEdge = f + (IF Capacity - x > 0 THEN Capacity - x ELSE 1) /\ Limit(r) = f + Capacity
  BY <1>1 DEF RightEdge, Limit, remaining_capacity
<1>5. f \in Nat /\ f <= StreamLen
  BY <1>1, <1>2
<1> HIDE DEF x, f
<1> QED BY <1>3, <1>4, <1>5, ReassemblerAssumption DEF f

\* A segment with data.
LEMMA PushDataStep ==
  ASSUME StoreInv, NEW index \in 0 .. StreamLen - 1, NEW len \in 1 .. StreamLen - index,
         NEW fin \in BOOLEAN, fin => index + len = StreamLen, Push(index, len, fin)
  PROVE  /\ StoreInv' /\ r'.firstindex >= r.firstindex
         /\ pushed' = pushed \cup (index .. index + len - 1) \cup (IF fin THEN {StreamLen} ELSE {})
         /\ r'.checkeof = (r.checkeof \/ fin)
         /\ index + len - 1 < r.firstindex => r'.firstindex = r.firstindex
         /\ r'.output.end = (\/ r.output.end
                             \/ /\ r.checkeof \/ fin
                                /\ index + len - 1 >= r.firstindex /\ r'.storelist = <<>>)
<1> DEFINE p == Piece(index, index + len - 1, [i \in 1 .. len |-> index + i - 1])
           n == StreamLen
<1>1. /\ Limit(r) < SizeMod /\ n < SizeMod /\ n \in Nat /\ SizeMod \in Nat
      /\ RightEdge \in Nat /\ RightEdge <= Limit(r) /\ Limit(r) \in Nat
      /\ r.firstindex \in Nat /\ r.firstindex <= n
  BY EdgeBelowLimit
<1>2. index \in Nat /\ len \in Nat /\ len > 0 /\ index + len <= n /\ index + len \in Nat
  BY <1>1
<1>3. /\ GoodPiece(p, n) /\ p.first = index /\ p.last = index + len - 1
      /\ p.data = [i \in 1 .. len |-> index + i - 1]
      /\ Span(p) = index .. index + len - 1
  BY <1>1, <1>2, SegmentPiece
<1> HIDE DEF p
<1>4. r' = push_substring(r, p.data, p.first, fin)
  BY <1>3 DEF Push
<1>5. p.last < Limit(r)
  <2>1. index + len <= RightEdge
    BY DEF Push
  <2> QED BY <2>1, <1>1, <1>2, <1>3
<1>6. /\ GoodState(r, n) /\ r.output.max = Capacity /\ \A x \in Cover(r.storelist) : x < Limit(r)
      /\ pushed \subseteq 0 .. n /\ fitting \subseteq pushed \ {n} /\ lonefin \in BOOLEAN
      /\ pushed \ {n} = (0 .. r.firstindex - 1) \cup Cover(r.storelist)
      /\ r.checkeof <=> n \in pushed
  BY DEF StoreInv
<1>7. /\ GoodState(r', n) /\ r'.checkeof = (r.checkeof \/ fin)
      /\ r'.firstindex >= r.firstindex /\ \A x \in Cover(r'.storelist) : x < Limit(r')
      /\ (0 .. r'.firstindex - 1) \cup Cover(r'.storelist)
           = (0 .. r.firstindex - 1) \cup Cover(r.storelist) \cup Span(p)
      /\ r'.output.max = r.output.max
      /\ p.last < r.firstindex => r'.firstindex = r.firstindex
      /\ r'.output.end = (\/ r.output.end
                          \/ /\ r.checkeof \/ fin
                             /\ p.last >= r.firstindex /\ r'.storelist = <<>>)
  <2>1. /\ n \in Nat /\ GoodState(r, n) /\ GoodPiece(p, n) /\ SizeMod \in Nat /\ n < SizeMod
        /\ Limit(r) < SizeMod /\ p.last < Limit(r)
        /\ \A x \in Cover(r.storelist) : x < Limit(r)
    BY Zenon, <1>1, <1>3, <1>5, <1>6
  <2>2. PushedData(r, p, fin, push_substring(r, p.data, p.first, fin), n)
    BY ONLY Zenon, <2>1, fin \in BOOLEAN, PushDataGood
  <2> QED BY Zenon, <2>2, <1>4 DEF PushedData
<1>8. pushed' = pushed \cup (index .. index + len - 1) \cup (IF fin THEN {n} ELSE {})
  <2>1. pushed' = pushed \cup (index .. index + len - 1 + (IF fin THEN 1 ELSE 0))
    BY DEF Push
  <2>2. index .. index + len - 1 + (IF fin THEN 1 ELSE 0)
          = (index .. index + len - 1) \cup (IF fin THEN {n} ELSE {})
    BY <1>2
  <2> QED BY <2>1, <2>2
<1>9. pushed' \subseteq 0 .. n
  BY <1>1, <1>2, <1>6, <1>8
<1>10. pushed' \ {n} = (0 .. r'.firstindex - 1) \cup Cover(r'.storelist)
  <2>1. n \notin index .. index + len - 1
    BY <1>2
  <2>2. pushed' \ {n} = (pushed \ {n}) \cup (index .. index + len - 1)
    BY <2>1, <1>8
  <2> QED BY <2>2, <1>3, <1>6, <1>7
<1>11. r'.checkeof <=> n \in pushed'
  <2>1. n \notin index .. index + len - 1
    BY <1>2
  <2>2. n \in pushed' <=> n \in pushed \/ fin
    BY <2>1, <1>8
  <2> QED BY Zenon, <2>2, <1>6, <1>7
<1>12. fitting' \subseteq pushed' \ {n}
  <2>1. n \notin index .. index + len - 1
    BY <1>2
  <2>2. fitting' = fitting \cup {i \in index .. index + len - 1 : i < CapacityEnd}
    BY Zenon DEF Push
  <2> QED BY Zenon, <2>1, <2>2, <1>6, <1>8
<1>13. StoreInv'
  BY Zenon, <1>6, <1>7, <1>9, <1>10, <1>11, <1>12 DEF StoreInv, Push
<1> QED BY <1>3, <1>7, <1>8, <1>13

\* A segment without data, with or without FIN.
LEMMA PushEmptyStep ==
  ASSUME StoreInv, NEW index \in 0 .. StreamLen, NEW fin \in BOOLEAN, fin => index = StreamLen,
         Push(index, 0, fin)
  PROVE  /\ StoreInv' /\ r'.firstindex = r.firstindex
         /\ pushed' = pushed \cup (IF fin THEN {StreamLen} ELSE {})
         /\ r'.output.end = (r.output.end \/ ((r.checkeof \/ fin) /\ r.firstindex = index))
<1> DEFINE n == StreamLen
<1>1. n \in Nat /\ index \in Nat
  BY ReassemblerAssumption
<1>2. /\ GoodState(r, n) /\ r.output.max = Capacity /\ \A x \in Cover(r.storelist) : x < Limit(r)
      /\ pushed \subseteq 0 .. n /\ fitting \subseteq pushed \ {n} /\ lonefin \in BOOLEAN
      /\ pushed \ {n} = (0 .. r.firstindex - 1) \cup Cover(r.storelist)
      /\ r.checkeof <=> n \in pushed
  BY DEF StoreInv
<1>3. r' = push_substring(r, <<>>, index, fin)
  <2>1. [i \in 1 .. 0 |-> index + i - 1] = <<>>
    OBVIOUS
  <2> QED BY <2>1 DEF Push
<1>4. PushedEmpty(r, index, fin, r', n)
  <2>1. PushedEmpty(r, index, fin, push_substring(r, <<>>, index, fin), n)
    BY <1>1, <1>2, PushEmptyGood
  <2> QED BY <2>1, <1>3
<1>5. pushed' = pushed \cup (IF fin THEN {n} ELSE {})
  <2>1. pushed' = pushed \cup (index .. index + 0 - 1 + (IF fin THEN 1 ELSE 0))
    BY DEF Push
  <2>2. index .. index + 0 - 1 + (IF fin THEN 1 ELSE 0) = (IF fin THEN {n} ELSE {})
    <3>1. CASE fin
      BY <3>1, <1>1
    <3>2. CASE ~fin
      BY <3>2, <1>1
    <3> QED BY <3>1, <3>2
  <2> QED BY <2>1, <2>2
<1>6. Limit(r') = Limit(r)
  BY <1>4 DEF Limit, PushedEmpty
<1>7. pushed' \subseteq 0 .. n /\ pushed' \ {n} = pushed \ {n} /\ (n \in pushed' <=> n \in pushed \/ fin)
  BY <1>1, <1>2, <1>5
<1>8. StoreInv'
  <2>1. \A x \in Cover(r'.storelist) : x < Limit(r')
    BY <1>2, <1>4, <1>6 DEF PushedEmpty
  <2>2. r'.checkeof <=> n \in pushed'
    BY Zenon, <1>2, <1>4, <1>7 DEF PushedEmpty
  <2>3. pushed' \ {n} = (0 .. r'.firstindex - 1) \cup Cover(r'.storelist)
    BY <1>2, <1>4, <1>7 DEF PushedEmpty
  <2>4. fitting' \subseteq pushed' \ {n}
    <3>1. fitting' = fitting \cup {i \in index .. index + 0 - 1 : i < CapacityEnd}
      BY Zenon DEF Push
    <3>2. index .. index + 0 - 1 = {}
      BY <1>1
    <3> QED BY Zenon, <3>1, <3>2, <1>2, <1>7
  <2> QED BY <2>1, <2>2, <2>3, <2>4, <1>2, <1>4, <1>7 DEF StoreInv, PushedEmpty, Push
<1> QED BY <1>4, <1>5, <1>8 DEF PushedEmpty

\* The reader.
LEMMA ReadStep ==
  ASSUME StoreInv, NEW m \in 1 .. Capacity, Read(m)
  PROVE  StoreInv' /\ r'.firstindex = r.firstindex /\ r'.output.end = r.output.end /\ pushed' = pushed
<1>1. /\ StreamLen \in Nat /\ m \in Nat /\ m <= buffer_size(r.output) /\ GoodState(r, StreamLen)
      /\ r' = [r EXCEPT !.output = pop_output(@, m)] /\ UNCHANGED <<pushed, fitting, lonefin>>
  BY ReassemblerAssumption DEF StoreInv, Read
<1>2. ReadBytes(r, m, r', StreamLen)
  <2>1. ReadBytes(r, m, [r EXCEPT !.output = pop_output(@, m)], StreamLen)
    BY <1>1, ReadGood
  <2> QED BY <2>1, <1>1
<1>3. Limit(r') = Limit(r)
  BY <1>2 DEF Limit, ReadBytes
<1>4. \A x \in Cover(r'.storelist) : x < Limit(r')
  BY <1>2, <1>3 DEF StoreInv, ReadBytes
<1>5. StoreInv'
  BY <1>1, <1>2, <1>4 DEF StoreInv, ReadBytes
<1> QED BY <1>1, <1>2, <1>5 DEF ReadBytes

\* Initially nothing is written, stored or pushed.
LEMMA InitIInv ==
  ASSUME ReassemblerInit PROVE StoreInv
<1>1. /\ r = NewReassembler(Capacity) /\ pushed = {} /\ fitting = {} /\ lonefin \in BOOLEAN
      /\ StreamLen \in Nat /\ Capacity \in Nat
  BY ReassemblerAssumption DEF ReassemblerInit
<1>2. /\ GoodState(r, StreamLen) /\ r.storelist = <<>> /\ r.firstindex = 0
      /\ r.checkeof = FALSE /\ r.output = NewByteStream(Capacity)
  BY Zenon, <1>1, NewReassemblerGood
<1>3. Cover(<<>>) = {} /\ 0 .. r.firstindex - 1 = {}
  BY <1>2 DEF Cover, CoverPart
<1>4. r.output.max = Capacity /\ r.output.content = <<>> /\ r.output.end = FALSE
  BY <1>2 DEF NewByteStream
<1> QED BY <1>1, <1>2, <1>3, <1>4 DEF StoreInv

\* Every step keeps StoreInv.
LEMMA NextIInv ==
  ASSUME StoreInv, [ReassemblerNext]_reassembler_vars PROVE StoreInv'
<1>1. StreamLen \in Nat
  BY ReassemblerAssumption
<1>2. CASE PushData
  <2>1. PICK index \in 0 .. StreamLen - 1 : \E len \in 1 .. StreamLen - index :
          Push(index, len, index + len = StreamLen /\ ~lonefin)
    BY <1>2 DEF PushData
  <2>2. PICK len \in 1 .. StreamLen - index : Push(index, len, index + len = StreamLen /\ ~lonefin)
    BY <2>1
  <2> DEFINE fin == index + len = StreamLen /\ ~lonefin
  <2>3. fin \in BOOLEAN /\ (fin => index + len = StreamLen)
    OBVIOUS
  <2>4. Push(index, len, fin)
    BY <2>2
  <2> HIDE DEF fin
  <2> QED BY Zenon, <2>3, <2>4, PushDataStep
<1>3. CASE PushEmpty
  <2>1. PICK index \in 0 .. StreamLen : Push(index, 0, FALSE)
    BY Zenon, <1>3 DEF PushEmpty
  <2> QED BY Zenon, <2>1, PushEmptyStep
<1>4. CASE PushFin
  <2>1. StreamLen \in 0 .. StreamLen
    BY <1>1
  <2>2. Push(StreamLen, 0, TRUE)
    BY Zenon, <1>4 DEF PushFin
  <2> QED BY Zenon, <2>1, <2>2, PushEmptyStep
<1>5. ASSUME NEW m \in 1 .. Capacity, Read(m) PROVE StoreInv'
  BY <1>5, ReadStep
<1>6. CASE UNCHANGED reassembler_vars
  BY <1>6 DEF reassembler_vars, StoreInv
<1> QED BY <1>2, <1>3, <1>4, <1>5, <1>6 DEF ReassemblerNext

\* The invariant.
LEMMA Reachable == ReassemblerBehaviour => []StoreInv
<1>1. ReassemblerInit => StoreInv
  BY InitIInv
<1>2. StoreInv /\ [ReassemblerNext]_reassembler_vars => StoreInv'
  BY NextIInv
<1> QED BY <1>1, <1>2, PTL DEF ReassemblerBehaviour

-----------------------------------------------------------------------------
(* What it means. *)

\* The output is the stream in order, whatever the order in which its pieces arrive, however
\* they overlap and however often they are repeated.
THEOREM OutputIsInOrder == ReassemblerBehaviour => []OutputInOrder
<1>1. StoreInv => OutputInOrder
  BY DEF StoreInv, GoodState, GoodOutput, OutputInOrder
<1> QED BY <1>1, Reachable, PTL

\* The store is sorted, without overlaps and without pieces that touch.
THEOREM StoreIsWellFormed == ReassemblerBehaviour => []StoreWellFormed
<1>1. ASSUME StoreInv PROVE StoreWellFormed
  <2> DEFINE q == r.storelist
             n == StreamLen
  <2>1. /\ GoodList(q, n) /\ \A x \in Cover(q) : x >= r.firstindex
    BY <1>1 DEF StoreInv, GoodState
  <2>2. Len(q) \in Nat /\ n \in Nat
    BY <2>1, ReassemblerAssumption, CoverFinite
  <2> HIDE DEF q
  <2> SUFFICES ASSUME NEW i \in 1 .. Len(q)
               PROVE  /\ q[i].data # <<>> /\ q[i].last = q[i].first + Len(q[i].data) - 1
                      /\ \A j \in 1 .. Len(q[i].data) : q[i].data[j] = q[i].first + j - 1
                      /\ q[i].first >= (IF i = 1 THEN r.firstindex ELSE q[i - 1].last + 2)
    BY DEF StoreWellFormed, q
  <2>3. GoodPiece(q[i], n)
    BY <2>1 DEF GoodList
  <2>4. q[i].first \in Nat /\ q[i].last \in Nat /\ q[i].first <= q[i].last
    BY <2>2, <2>3, GoodPieceFacts
  <2>5. CASE i = 1
    <3>1. q[i].first \in Cover(q)
      <4>1. q[i].first \in Span(q[i])
        BY <2>4 DEF Span
      <4> QED BY <4>1 DEF Cover, CoverPart
    <3>2. q[i].first >= r.firstindex
      BY <3>1, <2>1
    <3> QED BY <3>2, <2>3, <2>5 DEF GoodPiece
  <2>6. CASE i # 1
    <3>1. i - 1 \in 1 .. Len(q) /\ i - 1 < i
      BY <2>2, <2>6
    <3>2. Apart(q[i - 1], q[i]) /\ GoodPiece(q[i - 1], n)
      BY <3>1, <2>1 DEF GoodList
    <3>3. q[i - 1].last \in Nat
      BY <3>2, <2>2, GoodPieceFacts
    <3>4. q[i].first >= q[i - 1].last + 2
      BY <3>2, <3>3, <2>4 DEF Apart
    <3> QED BY <3>4, <2>3, <2>6 DEF GoodPiece
  <2> QED BY <2>5, <2>6
<1>2. StoreInv => StoreWellFormed
  BY <1>1
<1> QED BY <1>2, Reachable, PTL

\* No byte that arrives within the capacity is lost, nothing is stored that did not arrive, and
\* unassembled_bytes counts each stored byte once.
THEOREM NothingIsLost == ReassemblerBehaviour => []NothingLost
<1>1. ASSUME StoreInv PROVE NothingLost
  <2>1. Stored = Cover(r.storelist)
    BY DEF Stored, Cover, CoverPart, Span
  <2> QED BY <1>1, <2>1 DEF StoreInv, GoodState, NothingLost
<1>2. StoreInv => NothingLost
  BY <1>1
<1> QED BY <1>2, Reachable, PTL

\* No push makes substr throw.
THEOREM ThrowsNever == ReassemblerBehaviour => []NeverThrows
<1>1. StoreInv => NeverThrows
  BY DEF StoreInv, GoodState, NeverThrows
<1> QED BY <1>1, Reachable, PTL
-----------------------------------------------------------------------------
(* The end of the stream. *)

\* A store all of whose indices are at n or beyond is empty.
LEMMA NothingBeyond ==
  ASSUME NEW n \in Nat, NEW q, GoodList(q, n), \A x \in Cover(q) : x >= n
  PROVE  q = <<>> /\ Cover(q) = {}
<1>1. Cover(q) = {}
  <2>1. Cover(q) \in SUBSET (0 .. n - 1)
    BY CoverFinite
  <2> QED BY <2>1
<1>2. ASSUME q # <<>> PROVE FALSE
  <2>1. GoodPiece(q[1], n) /\ Cover(q) = Span(q[1]) \cup Cover(Tail(q))
    BY <1>2, TailGood
  <2>2. q[1].first \in Span(q[1])
    BY <2>1, GoodPieceFacts DEF Span
  <2> QED BY <2>1, <2>2, <1>1
<1> QED BY <1>1, <1>2

\* Where the bytes known are those written, the last byte is known only when all are written.
LEMMA KnownUpTo ==
  ASSUME StoreInv
  PROVE  /\ r.firstindex = StreamLen => r.storelist = <<>>
         /\ r.firstindex = StreamLen /\ StreamLen > 0 => StreamLen - 1 \in pushed
         /\ r.storelist = <<>> /\ StreamLen > 0 /\ StreamLen - 1 \in pushed => r.firstindex = StreamLen
<1> DEFINE n == StreamLen
           f == r.firstindex
<1>1. f \in Nat /\ f <= n /\ n \in Nat
  BY EdgeBelowLimit
<1>2. /\ GoodList(r.storelist, n) /\ \A x \in Cover(r.storelist) : x >= f
      /\ pushed \ {n} = (0 .. f - 1) \cup Cover(r.storelist)
  BY DEF StoreInv, GoodState
<1> HIDE DEF f, n
<1>3. f = n => r.storelist = <<>>
  BY <1>1, <1>2, NothingBeyond
<1>4. f = n /\ n > 0 => n - 1 \in pushed
  <2>1. n > 0 => n - 1 \in 0 .. n - 1
    BY <1>1
  <2> QED BY <2>1, <1>2
<1>5. r.storelist = <<>> /\ n > 0 /\ n - 1 \in pushed => f = n
  <2> SUFFICES ASSUME r.storelist = <<>>, n > 0, n - 1 \in pushed PROVE f = n
    OBVIOUS
  <2>1. Cover(r.storelist) = {}
    BY DEF Cover, CoverPart
  <2>2. n - 1 # n
    BY <1>1
  <2>3. n - 1 \in 0 .. f - 1
    BY <2>1, <2>2, <1>2
  <2> QED BY <2>3, <1>1
<1> QED BY <1>3, <1>4, <1>5 DEF f, n

\* A segment with data ends the output when it completes the stream.
LEMMA EndWithData ==
  ASSUME StoreInv, FinInv, NEW index \in 0 .. StreamLen - 1, NEW len \in 1 .. StreamLen - index,
         Push(index, len, index + len = StreamLen /\ ~lonefin)
  PROVE  FinInv'
<1> DEFINE n == StreamLen
           f == r.firstindex
           fin == index + len = n /\ ~lonefin
           l == index + len - 1
<1>1. fin \in BOOLEAN /\ (fin => index + len = n) /\ Push(index, len, fin)
  OBVIOUS
<1> HIDE DEF fin
<1>2. /\ StoreInv' /\ r'.firstindex >= f
      /\ pushed' = pushed \cup (index .. l) \cup (IF fin THEN {n} ELSE {})
      /\ r'.checkeof = (r.checkeof \/ fin)
      /\ l < f => r'.firstindex = f
      /\ r'.output.end = (r.output.end \/ ((r.checkeof \/ fin) /\ l >= f /\ r'.storelist = <<>>))
  BY Zenon, <1>1, PushDataStep
<1>3. lonefin' = lonefin /\ lonefin \in BOOLEAN
  BY DEF Push, StoreInv
<1>4. /\ f \in Nat /\ f <= n /\ n \in Nat /\ index \in Nat /\ len \in Nat /\ len > 0
      /\ index + len <= n /\ l \in Nat /\ n > 0
  BY EdgeBelowLimit
<1>5. r'.firstindex \in Nat /\ r'.firstindex <= n
  BY <1>2 DEF StoreInv, GoodState, Reassemblers
<1>6. /\ r'.firstindex = n => r'.storelist = <<>>
      /\ r'.storelist = <<>> /\ n - 1 \in pushed' => r'.firstindex = n
  <2>1. (/\ r.firstindex = StreamLen => r.storelist = <<>>
         /\ r.storelist = <<>> /\ StreamLen > 0 /\ StreamLen - 1 \in pushed => r.firstindex = StreamLen)'
    BY <1>2, KnownUpTo, PTL
  <2> QED BY <2>1, <1>4
<1>7. f = n => n - 1 \in pushed
  BY <1>4, KnownUpTo
<1>8. r.checkeof = (n \in pushed) /\ r.checkeof \in BOOLEAN
  BY DEF StoreInv, GoodState, Reassemblers
<1>9. (n \in pushed' <=> n \in pushed \/ fin) /\ (n - 1 \in pushed' <=> n - 1 \in pushed \/ index + len = n)
  <2>1. n \notin index .. l /\ n - 1 # n /\ (n - 1 \in index .. l <=> index + len = n)
    BY <1>4
  <2>2. fin => index + len = n
    BY <1>1
  <2> QED BY <2>1, <2>2, <1>2
<1>10. /\ ~lonefin => (n \in pushed <=> n - 1 \in pushed)
       /\ lonefin /\ n \in pushed => f = n
       /\ r.output.end <=> n \in pushed /\ f = n
  BY <1>4 DEF FinInv, EndsAtTheEnd
<1>11. ~lonefin => (n \in pushed' <=> n - 1 \in pushed')
  BY <1>9, <1>10 DEF fin
<1>12. lonefin /\ n \in pushed' => n \in pushed /\ f = n /\ r'.firstindex = n
  <2>1. lonefin => ~fin
    BY DEF fin
  <2>2. f = n => r'.firstindex = n
    BY <1>2, <1>4, <1>5
  <2> QED BY <2>1, <2>2, <1>9, <1>10
<1>13. ASSUME r'.output.end PROVE n \in pushed' /\ r'.firstindex = n
  <2>1. CASE r.output.end
    <3>1. n \in pushed /\ f = n
      BY <2>1, <1>10
    <3> QED BY <3>1, <1>2, <1>4, <1>5, <1>9
  <2>2. CASE (r.checkeof \/ fin) /\ l >= f /\ r'.storelist = <<>>
    <3>1. n \in pushed'
      BY Zenon, <2>2, <1>8, <1>9
    <3>2. CASE lonefin
      BY <3>1, <3>2, <1>12
    <3>3. CASE ~lonefin
      BY <3>1, <3>3, <2>2, <1>6, <1>11
    <3> QED BY <3>1, <3>2, <3>3
  <2> QED BY Zenon, <2>1, <2>2, <1>2, <1>13
<1>14. ASSUME n \in pushed', r'.firstindex = n PROVE r'.output.end
  <2>1. CASE n \in pushed /\ f = n
    BY Zenon, <2>1, <1>2, <1>10
  <2>2. CASE ~(n \in pushed /\ f = n)
    <3>1. ~lonefin
      BY <2>2, <1>12, <1>14
    <3>2. f # n
      BY <3>1, <2>2, <1>7, <1>10
    <3>3. l >= f
      BY <3>2, <1>2, <1>4, <1>14
    <3>4. r'.storelist = <<>>
      BY <1>6, <1>14
    <3>5. r.checkeof \/ fin
      BY Zenon, <1>8, <1>9, <1>14
    <3> QED BY Zenon, <3>3, <3>4, <3>5, <1>2
  <2> QED BY <2>1, <2>2
<1>15. EndsAtTheEnd'
  <2>1. r'.output.end \in BOOLEAN
    BY <1>2 DEF StoreInv, GoodState, Reassemblers, ByteStreams
  <2> QED BY <2>1, <1>13, <1>14 DEF EndsAtTheEnd
<1> QED BY <1>3, <1>4, <1>11, <1>12, <1>15 DEF FinInv

\* The other steps: a segment without data changes nothing unless it is the FIN, which then
\* comes when all bytes are written.
LEMMA NextFinInv ==
  ASSUME ~EmptyReordered, StoreInv, FinInv, [ReassemblerNext]_reassembler_vars PROVE FinInv'
<1>1. CASE PushData
  <2>1. PICK index \in 0 .. StreamLen - 1 : \E len \in 1 .. StreamLen - index :
          Push(index, len, index + len = StreamLen /\ ~lonefin)
    BY <1>1 DEF PushData
  <2> QED BY <2>1, EndWithData
<1>2. CASE PushEmpty
  <2>1. ~r.checkeof
    BY <1>2 DEF PushEmpty
  <2>2. PICK index \in 0 .. StreamLen : Push(index, 0, FALSE)
    BY Zenon, <1>2 DEF PushEmpty
  <2>3. /\ r'.firstindex = r.firstindex /\ pushed' = pushed \cup {}
        /\ r'.output.end = (r.output.end \/ ((r.checkeof \/ FALSE) /\ r.firstindex = index))
    BY Zenon, <2>2, PushEmptyStep
  <2>4. r.output.end \in BOOLEAN
    BY DEF StoreInv, GoodState, Reassemblers, ByteStreams
  <2>5. r'.output.end = r.output.end /\ pushed' = pushed /\ lonefin' = lonefin
    BY Zenon, <2>1, <2>2, <2>3, <2>4 DEF Push
  <2> QED BY <2>3, <2>5 DEF FinInv, EndsAtTheEnd
<1>3. CASE PushFin
  <2>1. lonefin /\ r.firstindex = StreamLen /\ Push(StreamLen, 0, TRUE)
    BY Zenon, <1>3 DEF PushFin
  <2>2. StreamLen \in 0 .. StreamLen
    BY ReassemblerAssumption
  <2>3. /\ r'.firstindex = r.firstindex /\ pushed' = pushed \cup {StreamLen}
        /\ r'.output.end = (r.output.end \/ ((r.checkeof \/ TRUE) /\ r.firstindex = StreamLen))
    BY Zenon, <2>1, <2>2, PushEmptyStep
  <2>4. r'.output.end /\ StreamLen \in pushed' /\ lonefin' /\ r'.firstindex = StreamLen
    BY Zenon, <2>1, <2>3 DEF Push
  <2> QED BY <2>4 DEF FinInv, EndsAtTheEnd
<1>4. ASSUME NEW m \in 1 .. Capacity, Read(m) PROVE FinInv'
  <2>1. r'.firstindex = r.firstindex /\ r'.output.end = r.output.end /\ pushed' = pushed
    BY <1>4, ReadStep
  <2>2. lonefin' = lonefin
    BY <1>4 DEF Read
  <2> QED BY <2>1, <2>2 DEF FinInv, EndsAtTheEnd
<1>5. CASE UNCHANGED reassembler_vars
  BY <1>5 DEF reassembler_vars, FinInv, EndsAtTheEnd
<1> QED BY <1>1, <1>2, <1>3, <1>4, <1>5 DEF ReassemblerNext

\* The output ends exactly when all is written and the FIN has arrived, as long as segments
\* without data keep their place: the reader neither misses the last bytes nor waits for
\* ever.
THEOREM EndsExactlyAtTheEnd ==
  ASSUME ~EmptyReordered PROVE ReassemblerBehaviour => []EndsAtTheEnd
<1>1. ReassemblerInit => FinInv
  <2> SUFFICES ASSUME ReassemblerInit PROVE FinInv
    OBVIOUS
  <2>1. pushed = {} /\ r.output.end = FALSE
    BY DEF ReassemblerInit, NewReassembler, NewByteStream
  <2> QED BY <2>1, ReassemblerAssumption DEF FinInv, EndsAtTheEnd
<1>2. StoreInv /\ FinInv /\ [ReassemblerNext]_reassembler_vars => FinInv'
  BY NextFinInv
<1>3. FinInv => EndsAtTheEnd
  BY DEF FinInv
<1> QED BY <1>1, <1>2, <1>3, Reachable, PTL DEF ReassemblerBehaviour
=============================================================================
