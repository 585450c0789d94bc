------------------------- MODULE StreamReassembler -------------------------
(***************************************************************************)
(* libsponge/stream_reassembler: puts substrings that arrive in any order  *)
(* back together and writes them to a ByteStream.                          *)
(*                                                                         *)
(* A stored piece is the code's inforsubstr: first and last index and the  *)
(* bytes.  Indices are size_t; SizeMod stands for 2^64.  threw records     *)
(* that a substr was called with a position past the end of its string,    *)
(* which raises std::out_of_range.                                         *)
(***************************************************************************)
EXTENDS ByteStream

CONSTANT SizeMod

Size(n) == n % SizeMod

NewReassembler(capacity) ==
    [unassembled |-> 0, checkeof |-> FALSE, storelist |-> <<>>, firstindex |-> 0,
     output |-> NewByteStream(capacity), threw |-> FALSE]

Piece(first, last, data) == [first |-> first, last |-> last, data |-> data]

substr(s, pos, n) == SubSeq(s, pos + 1, Lesser(pos + n, Len(s)))
suffix(s, pos) == SubSeq(s, pos + 1, Len(s))

-----------------------------------------------------------------------------
(* The loop over storelist: acc holds the list so far and the piece to be   *)
(* placed, which grows as it swallows the pieces it touches.                *)

\* The overlap off by one: the last byte both pieces have is kept twice.
MutantJoin(t, p) ==
    IF t.first <= p.first /\ t.last >= p.last THEN t
    ELSE IF t.first <= p.first /\ t.last <= p.last
    THEN Piece(t.first, p.last, t.data \o suffix(p.data, Size(t.last - p.first)))
    ELSE IF t.first >= p.first /\ t.last >= p.last
    THEN Piece(p.first, t.last, p.data \o suffix(t.data, Size(p.last + 1 - t.first)))
    ELSE p

\* The union of a stored piece t and the new piece p, which overlap or touch.
Join(t, p) ==
    IF t.first <= p.first /\ t.last >= p.last THEN t
    ELSE IF t.first <= p.first /\ t.last <= p.last
    THEN Piece(t.first, p.last, t.data \o suffix(p.data, Size(t.last + 1 - p.first)))
    ELSE IF t.first >= p.first /\ t.last >= p.last
    THEN Piece(p.first, t.last, p.data \o suffix(t.data, Size(p.last + 1 - t.first)))
    ELSE p

JoinThrows(t, p) ==
    /\ ~(t.first <= p.first /\ t.last >= p.last)
    /\ \/ /\ t.first <= p.first /\ t.last <= p.last
          /\ Size(t.last + 1 - p.first) > Len(p.data)
       \/ /\ t.first > p.first /\ t.last >= p.last
          /\ Size(p.last + 1 - t.first) > Len(t.data)

\* A gap of one byte taken for no gap.
MutantPrecedes(t, p) == Size(t.first + Len(t.data)) + 1 < p.first

\* The stored piece t ends before the piece p and does not touch it.
Precedes(t, p) == Size(t.first + Len(t.data)) < p.first

\* A piece that touches the next one taken to lie apart from it.
MutantFollows(t, p) == Size(p.last) < t.first

Follows(t, p) == Size(p.last + 1) < t.first

Place(acc, t) ==
    LET p == acc.piece
    IN  IF acc.is_inserted \/ Precedes(t, p)
        THEN [acc EXCEPT !.list = Append(@, t)]
        ELSE IF Follows(t, p)
        THEN [acc EXCEPT !.list = @ \o <<p, t>>, !.is_inserted = TRUE,
                         !.bytes = @ + Len(p.data)]
        ELSE [acc EXCEPT !.piece = Join(t, p), !.bytes = @ - Len(t.data),
                         !.threw = @ \/ JoinThrows(t, p)]

\* The loop.
Visited(r, p) ==
    LET q == r.storelist
        acc[i \in 0 .. Len(q)] ==
            IF i = 0 THEN [list |-> <<>>, piece |-> p, is_inserted |-> FALSE,
                           bytes |-> r.unassembled, threw |-> FALSE]
            ELSE Place(acc[i - 1], q[i])
    IN  acc[Len(q)]

\* The loop and the push_back after it.
Insert(r, p) ==
    LET acc == Visited(r, p)
        all == IF acc.is_inserted THEN acc ELSE
               [acc EXCEPT !.list = Append(@, acc.piece), !.bytes = @ + Len(acc.piece.data)]
    IN  [r EXCEPT !.storelist = all.list, !.unassembled = all.bytes, !.threw = acc.threw]

-----------------------------------------------------------------------------

\* Cuts what was already written off the first piece.
TrimFront(r) ==
    LET p   == Head(r.storelist)
        pos == r.firstindex - p.first
        cut == suffix(p.data, pos)
    IN  IF p.first >= r.firstindex THEN r
        ELSE [r EXCEPT !.storelist[1] = [p EXCEPT !.data = cut, !.first = r.firstindex],
                       !.unassembled = @ - Len(p.data) + Len(cut),
                       !.threw = @ \/ pos > Len(p.data)]

\* The limit one byte too low.
MutantLimit(r) == r.firstindex + r.output.max - 1

\* Where storing ends, counted from the first byte not written rather than from the
\* first byte not read.
Limit(r) == r.firstindex + r.output.max

\* Cuts the last piece off at the limit.
TrimBack(r) ==
    LET n     == Len(r.storelist)
        p     == r.storelist[n]
        cut   == substr(p.data, 0, Size(Limit(r) - p.first))
    IN  IF Size(p.last + 1) < Limit(r) THEN r
        ELSE [r EXCEPT !.storelist[n] = [p EXCEPT !.data = cut, !.last = Limit(r) - 1],
                       !.unassembled = @ - Len(p.data) + Len(cut)]

empty(r) == r.storelist = <<>> /\ r.unassembled = 0

\* Writes the first piece, or what the output has room for, once it is next.
WriteFront(r) ==
    LET p    == Head(r.storelist)
        rc   == remaining_capacity(r.output)
        send == substr(p.data, 0, rc)
        rest == Piece(p.first + rc, p.last, suffix(p.data, rc))
        t    == [r EXCEPT
                    !.output = write(@, send), !.unassembled = @ - Len(send),
                    !.firstindex = IF rc < Len(p.data) THEN p.first + rc ELSE p.last + 1,
                    !.storelist = IF rc < Len(p.data) THEN <<rest>> \o Tail(@) ELSE Tail(@)]
    IN  IF p.first # r.firstindex THEN r
        ELSE [t EXCEPT !.output = IF empty(t) /\ t.checkeof THEN end_input(@) ELSE @]

\* A push without the flag clears it.
MutantEofSeen(r, eof_) == eof_

EofSeen(r, eof_) == r.checkeof \/ eof_

push_substring(r0, data, index, eof_) ==
    LET r == [r0 EXCEPT !.checkeof = EofSeen(r0, eof_)]
        p == Piece(index, Size(index + Len(data) - 1), data)
        t == Insert(r, p)
    IN  IF data = <<>>
        THEN [r EXCEPT !.output = IF r.checkeof /\ r.firstindex = index
                                  THEN end_input(@) ELSE @]
        ELSE IF p.last < r.firstindex THEN r
        ELSE IF t.threw \/ TrimFront(t).threw THEN [r EXCEPT !.threw = TRUE]
        ELSE WriteFront(TrimBack(TrimFront(t)))
=============================================================================
