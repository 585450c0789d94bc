--------------------------- MODULE ReliableStream ---------------------------
(***************************************************************************)
(* What a TCP connection promises its two applications: two streams of     *)
(* bytes, each of which arrives in order, once, and ends where its writer  *)
(* ended it.  The i-th byte of a stream is the number i - 1.               *)
(***************************************************************************)
EXTENDS Integers, Sequences

CONSTANT Writers

VARIABLES written,      \* how many bytes each writer has written
          closed,       \* whether it has ended its stream
          buffer,       \* the bytes that have arrived and have not been read
          taken,        \* how many have been read
          finished      \* whether the reader has been told of the end

vars == <<written, closed, buffer, taken, finished>>

Init ==
    /\ written = [d \in Writers |-> 0] /\ taken = [d \in Writers |-> 0]
    /\ closed = [d \in Writers |-> FALSE] /\ finished = [d \in Writers |-> FALSE]
    /\ buffer = [d \in Writers |-> <<>>]

Arrived(d) == taken[d] + Len(buffer[d])

Write(d) ==
    /\ ~closed[d]
    /\ written'[d] \in Nat /\ written'[d] > written[d]
    /\ written' = [written EXCEPT ![d] = written'[d]]
    /\ UNCHANGED <<closed, buffer, taken, finished>>

Close(d) ==
    /\ closed' = [closed EXCEPT ![d] = TRUE]
    /\ UNCHANGED <<written, buffer, taken, finished>>

\* The next n bytes arrive, and with the last ones perhaps the end.
Arrive(d, n) ==
    /\ ~finished[d]
    /\ buffer' = [buffer EXCEPT ![d] = @ \o [i \in 1 .. n |-> Arrived(d) + i - 1]]
    /\ finished' \in {finished, [finished EXCEPT ![d] = closed[d] /\ Arrived(d) + n = written[d]]}
    /\ UNCHANGED <<written, closed, taken>>

\* The first n bytes are read.
Take(d, n) ==
    /\ buffer' = [buffer EXCEPT ![d] = SubSeq(@, n + 1, Len(@))]
    /\ taken' = [taken EXCEPT ![d] = @ + n]
    /\ UNCHANGED <<written, closed, finished>>

Next ==
    \E d \in Writers :
        \/ Write(d) \/ Close(d)
        \/ \E n \in 0 .. written[d] - Arrived(d) : Arrive(d, n)
        \/ \E n \in 1 .. Len(buffer[d]) : Take(d, n)

Spec == Init /\ [][Next]_vars

-----------------------------------------------------------------------------
TypeOK ==
    /\ written \in [Writers -> Nat] /\ taken \in [Writers -> Nat]
    /\ closed \in [Writers -> BOOLEAN] /\ finished \in [Writers -> BOOLEAN]
    /\ buffer \in [Writers -> Seq(Nat)]

\* Nothing arrives that was not written.  What waits to be read is what follows the bytes
\* read before it, in order and without a gap.  The end comes after the last byte of a stream
\* that its writer ended, and is not followed by another.
InOrder ==
    \A d \in Writers :
        /\ Arrived(d) <= written[d]
        /\ \A i \in 1 .. Len(buffer[d]) : buffer[d][i] = taken[d] + i - 1
        /\ finished[d] => closed[d] /\ Arrived(d) = written[d]
=============================================================================
