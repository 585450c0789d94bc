------------------------------ MODULE Buffers ------------------------------
(***************************************************************************)
(* libsponge/util/buffer, strings in pieces, and the checksum of           *)
(* libsponge/util/util.  A byte is a number below 256.                     *)
(***************************************************************************)
EXTENDS Integers, Sequences

\* BufferList and BufferViewList: a string in pieces.

concatenate(list) ==
    LET ret[i \in 0 .. Len(list)] == IF i = 0 THEN <<>> ELSE ret[i - 1] \o list[i]
    IN  ret[Len(list)]

\* Mutant: what a whole piece held is not taken off the count.
MutantShorten(s) ==
    LET front == Head(s.list)
    IN  IF s.n = 0 \/ s.list = <<>> THEN s
        ELSE IF s.n < Len(front)
        THEN [list |-> <<SubSeq(front, s.n + 1, Len(front))>> \o Tail(s.list), n |-> 0]
        ELSE [list |-> Tail(s.list), n |-> s.n]

\* One turn of the loop, with n bytes still to go.
Shorten(s) ==
    LET front == Head(s.list)
    IN  IF s.n = 0 \/ s.list = <<>> THEN s
        ELSE IF s.n < Len(front)
        THEN [list |-> <<SubSeq(front, s.n + 1, Len(front))>> \o Tail(s.list), n |-> 0]
        ELSE [list |-> Tail(s.list), n |-> s.n - Len(front)]

\* Every turn but the last removes a piece.  With bytes still to go it throws.
remove_prefix(list, n) ==
    LET turn[i \in 0 .. Len(list)] ==
            IF i = 0 THEN [list |-> list, n |-> n] ELSE Shorten(turn[i - 1])
    IN  turn[Len(list)]

-----------------------------------------------------------------------------
\* InternetChecksum.  The parity carries over from one piece of data to the next.

Checksum(initial_sum) == [sum |-> initial_sum, parity |-> FALSE]

\* Mutant: every piece is added from an even position.
MutantAdd(c, data) ==
    LET sum[i \in 0 .. Len(data)] ==
            IF i = 0 THEN c.sum ELSE sum[i - 1] + data[i] * (IF i % 2 = 1 THEN 256 ELSE 1)
    IN  [sum |-> sum[Len(data)], parity |-> FALSE]

add(c, data) ==
    LET odd(i) == (i % 2 = 1) # c.parity
        sum[i \in 0 .. Len(data)] ==
            IF i = 0 THEN c.sum ELSE sum[i - 1] + data[i] * (IF odd(i) THEN 256 ELSE 1)
    IN  [sum |-> sum[Len(data)], parity |-> c.parity # (Len(data) % 2 = 1)]

\* The end-around carries, as often as a 32-bit sum can need them, and the complement.
value(c) ==
    LET carry(n) == (n \div 65536) + (n % 65536)
    IN  65535 - carry(carry(c.sum))
=============================================================================
