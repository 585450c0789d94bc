----------------------------- MODULE Algorithms -----------------------------
(***************************************************************************)
(* The pure algorithms, each against a definition of what it computes:     *)
(* unwrap of any number from the wire, with any initial sequence number    *)
(* and any checkpoint; the router's choice of a route for every table      *)
(* add_route can build; and the checksum and remove_prefix of every string *)
(* append can put together from pieces.                                    *)
(***************************************************************************)
EXTENDS WrappingIntegers, RoutingTable, Buffers

CONSTANTS MaxCheckpoint, MaxRoutes, Bytes, MaxPiece, MaxPieces     \* bounds on the inputs

\* The longest string that is summed is a datagram, whose length field has 16 bits.
ASSUME AlgorithmsAssumption ==
    /\ MaxCheckpoint \in Nat /\ Bytes \subseteq 0 .. 255
    /\ MaxPiece \in Nat /\ MaxPieces \in Nat /\ MaxPieces * MaxPiece <= 65535

VARIABLES call,         \* the arguments of the last call of unwrap and what it returned
          router, pieces

algorithm_vars == <<call, router, pieces>>

Call(n, isn, checkpoint) ==
    [n |-> n, isn |-> isn, checkpoint |-> checkpoint,
     result |-> unwrap(n, isn, checkpoint)]

NoCall == Call(0, 0, 0)

AlgorithmsInit == call = NoCall /\ router = NewRouter(<<>>) /\ pieces = <<>>

Unwrap ==
    /\ router.routing_table = <<>> /\ pieces = <<>>
    /\ \E n, isn \in 0 .. SeqSpace - 1, checkpoint \in 0 .. MaxCheckpoint :
         call' = Call(n, isn, checkpoint)
    /\ UNCHANGED <<router, pieces>>

Addresses == 0 .. 2 ^ AddressBits - 1

\* The route's number stands for where it leads.
AddRoute ==
    /\ call = NoCall /\ pieces = <<>> /\ Len(router.routing_table) < MaxRoutes
    /\ \E prefix \in Addresses, length \in 0 .. AddressBits :
         router' = add_route(router, prefix, length, NoHop, Len(router.routing_table) + 1)
    /\ UNCHANGED <<call, pieces>>

AppendPiece ==
    /\ call = NoCall /\ router.routing_table = <<>> /\ Len(pieces) < MaxPieces
    /\ \E n \in 0 .. MaxPiece : \E piece \in [1 .. n -> Bytes] : pieces' = Append(pieces, piece)
    /\ UNCHANGED <<call, router>>

AlgorithmsNext == Unwrap \/ AddRoute \/ AppendPiece

AlgorithmsSpec == AlgorithmsInit /\ [][AlgorithmsNext]_algorithm_vars

-----------------------------------------------------------------------------
Distance(a, b) == IF a <= b THEN b - a ELSE a - b

\* "the 64-bit sequence number that wraps to n and is closest to checkpoint"
\* (wrapping_integers.cc): every other natural number that wraps to n is at least as
\* far away.  The bound leaves out numbers further away than one sequence space.
UnwrapIsClosest ==
    /\ call.result \in Nat /\ wrap(call.result, call.isn) = call.n
    /\ \A m \in 0 .. call.checkpoint + SeqSpace :
           wrap(m, call.isn) = call.n =>
               Distance(call.result, call.checkpoint) <= Distance(m, call.checkpoint)

\* The addresses a route is for: those that share its first bits.
Network(route) ==
    LET size == 2 ^ (AddressBits - route.prefix_length)
        first == route.route_prefix - (route.route_prefix % size)
    IN  first .. first + size - 1

\* Whatever the order routes were added in, a datagram takes the first of the most specific
\* routes whose network holds its destination, and none only if none does: router.cc's loop,
\* the default route and routes with bits set past their prefix included.
TakesLongestMatch ==
    \A dst \in Addresses :
        LET table == router.routing_table
            match == longest_prefix_match(table, dst)
            candidates == {i \in DOMAIN table : dst \in Network(table[i])}
        IN  IF candidates = {} THEN match = 0
            ELSE /\ match \in candidates
                 /\ \A i \in candidates \ {match} :
                      \/ table[i].prefix_length < table[match].prefix_length
                      \/ table[i].prefix_length = table[match].prefix_length /\ match < i

\* The sum of a string's 16-bit words, the last one filled up with a zero byte.
WordSum(bytes) ==
    LET word(i) == bytes[i] * 256 + (IF i < Len(bytes) THEN bytes[i + 1] ELSE 0)
        sum[i \in 0 .. Len(bytes)] ==
            IF i = 0 THEN 0 ELSE IF i % 2 = 1 THEN sum[i - 1] + word(i) ELSE sum[i - 1]
    IN  sum[Len(bytes)]

\* A string added to a checksum piece by piece.
AddPieces(list) ==
    LET sum[i \in 0 .. Len(list)] == IF i = 0 THEN Checksum(0) ELSE add(sum[i - 1], list[i])
    IN  sum[Len(list)]

\* The checksum of a string added piece by piece is that of the whole: with it the words sum
\* to a multiple of 65535, wherever the pieces end.  tcp_segment.cc adds the header and
\* the payload apart and checks them as one buffer.
ChecksumOfPieces ==
    LET whole == concatenate(pieces)
        check == value(AddPieces(pieces))
    IN  /\ (WordSum(whole) + check) % 65535 = 0
        /\ check = value(add(Checksum(0), whole))

\* Removing a prefix leaves the rest of the string, however it is cut into pieces and wherever
\* the prefix ends, and fails only if the string is shorter: what FileDescriptor::write relies
\* on when a write takes only part of what it was given.
RemovesThePrefix ==
    LET whole == concatenate(pieces)
    IN  \A n \in 0 .. Len(whole) + 1 :
          LET left == remove_prefix(pieces, n)
          IN  IF n > Len(whole) THEN left.n > 0
              ELSE left.n = 0 /\ concatenate(left.list) = SubSeq(whole, n + 1, Len(whole))
=============================================================================
