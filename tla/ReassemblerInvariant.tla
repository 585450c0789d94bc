------------------------ MODULE ReassemblerInvariant ------------------------
(***************************************************************************)
(* A StreamReassembler whose store is sorted and holds the bytes its       *)
(* indices name, and what a call makes of it.  ReassemblerLemmas shows     *)
(* that every operation keeps it so.  The byte at index i is the number i. *)
(***************************************************************************)
EXTENDS StreamReassembler, FiniteSets

Pieces == [first : Nat, last : Nat, data : Seq(Nat)]

\* A piece that holds the bytes its indices name, all of them below n.
GoodPiece(t, n) ==
    /\ t \in Pieces
    /\ t.data # <<>> /\ t.last = t.first + Len(t.data) - 1
    /\ \A j \in 1 .. Len(t.data) : t.data[j] = t.first + j - 1
    /\ t.last < n

\* t ends before u starts and does not touch it.
Apart(t, u) == t.last + 1 < u.first

\* A store: good pieces, any two of them in order and apart.  That neighbours are apart
\* would say the same, but only by induction.
GoodList(q, n) ==
    /\ q \in Seq(Pieces)
    /\ \A i \in 1 .. Len(q) : GoodPiece(q[i], n)
    /\ \A i, j \in 1 .. Len(q) : i < j => Apart(q[i], q[j])

Span(t) == t.first .. t.last

\* The indices of the pieces number i to j, and of all of them.
CoverPart(q, i, j) == UNION {Span(q[k]) : k \in i .. j}
Cover(q) == CoverPart(q, 1, Len(q))

Reassemblers == [unassembled : Int, checkeof : BOOLEAN, storelist : Seq(Pieces),
                 firstindex : Nat, output : ByteStreams, threw : BOOLEAN]

\* A stream whose buffered bytes are those between the ones read and the ones written.
GoodOutput(b) ==
    /\ b.alwritten = b.alread + Len(b.content) /\ Len(b.content) <= b.max
    /\ \A i \in 1 .. Len(b.content) : b.content[i] = b.alread + i - 1

\* A reassembler of a stream of n bytes between two calls: what is written is the start of
\* the stream, and the store holds bytes from there on.
GoodState(s, n) ==
    /\ s \in Reassemblers /\ s.threw = FALSE
    /\ GoodOutput(s.output) /\ s.firstindex = s.output.alwritten /\ s.firstindex <= n
    /\ GoodList(s.storelist, n) /\ \A x \in Cover(s.storelist) : x >= s.firstindex
    /\ s.unassembled = Cardinality(Cover(s.storelist))

\* t is what s becomes when nothing is pushed at index, with or without the end.
PushedEmpty(s, index, fin, t, n) ==
    /\ GoodState(t, n) /\ t.checkeof = (s.checkeof \/ fin)
    /\ t.firstindex = s.firstindex /\ t.storelist = s.storelist
    /\ t.output.max = s.output.max /\ t.output.alread = s.output.alread
    /\ t.output.content = s.output.content /\ t.output.error = s.output.error
    /\ t.output.end = (s.output.end \/ ((s.checkeof \/ fin) /\ s.firstindex = index))

\* t is what s becomes when the piece p with data is pushed, and fin says that the stream
\* ends there.  All of the piece is written, stored or known already.
PushedData(s, p, fin, t, n) ==
    /\ GoodState(t, n) /\ t.checkeof = (s.checkeof \/ fin)
    /\ t.firstindex >= s.firstindex /\ \A x \in Cover(t.storelist) : x < Limit(t)
    /\ (0 .. t.firstindex - 1) \cup Cover(t.storelist)
         = (0 .. s.firstindex - 1) \cup Cover(s.storelist) \cup Span(p)
    /\ t.output.max = s.output.max /\ t.output.alread = s.output.alread
    /\ t.output.error = s.output.error
    /\ p.last < s.firstindex => t.firstindex = s.firstindex
    /\ t.output.end = (\/ s.output.end
                       \/ /\ s.checkeof \/ fin
                          /\ p.last >= s.firstindex /\ t.storelist = <<>>)

\* t is what s becomes when m bytes are read.
ReadBytes(s, m, t, n) ==
    /\ GoodState(t, n) /\ t.checkeof = s.checkeof /\ t.firstindex = s.firstindex
    /\ t.storelist = s.storelist /\ t.output.max = s.output.max
    /\ t.output.end = s.output.end /\ t.output.error = s.output.error
    /\ t.output.alread = s.output.alread + m
=============================================================================
