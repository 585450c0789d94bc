--------------------------- MODULE EndpointLemmas ---------------------------
(***************************************************************************)
(* One connection of a pair whose streams stay open, over a network that   *)
(* loses, repeats and reorders segments as it likes: what it knows of the  *)
(* other side, and that every operation of TCPConnection keeps it so.      *)
(***************************************************************************)
EXTENDS TCPConnection, SenderInvariant, ReassemblerInvariant, TLAPS

USE SMTT(20), ZenonT(20)

-----------------------------------------------------------------------------
(* The inductive invariant.  An endpoint is seen with its initial sequence number isn,  *)
(* the other's, peer, the lengths n and m of its own and the other's stream, how many   *)
(* numbers the other side has sent, and how many of its own it has got, acked.          *)

Receivers == [isn : Nat, isnset : BOOLEAN, finset : BOOLEAN, reassembler : Reassemblers]

Connections == [sender : Senders, receiver : Receivers, linger : BOOLEAN, rst : BOOLEAN,
                idle : Nat, segments_out : Seq(Segment)]

\* How many of the other side's numbers a receiver acknowledges.
AckPoint(v) == IF v.isnset THEN 1 + bytes_written(v) ELSE 0

SenderOK(s, isn, n, acked) ==
    /\ Inv(s) /\ s.isn = isn /\ s.stream.end = FALSE /\ s.stream.alwritten <= n
    /\ InFlight(s, RecvCapacity) /\ s.byte_received <= acked

\* Of the other side's stream only what was sent is known, and the store keeps to its limit.
ReassemblerOK(r, m, sent) ==
    /\ GoodState(r, m) /\ r.output.max = RecvCapacity
    /\ r.checkeof = FALSE /\ r.output.end = FALSE
    /\ \A x \in (0 .. r.firstindex - 1) \cup Cover(r.storelist) : x + 2 <= sent
    /\ \A x \in Cover(r.storelist) : x < Limit(r)

ReceiverOK(v, peer, m, sent) ==
    /\ v \in Receivers /\ v.finset = FALSE
    /\ ReassemblerOK(v.reassembler, m, sent)
    /\ v.isnset => v.isn = peer /\ sent >= 1
    /\ ~v.isnset => v.reassembler.firstindex = 0

\* A segment of the side with isn: its bytes are those its number names, and have been
\* sent; it has no FIN; what it acknowledges has been received.
SegmentOK(g, isn, sent, peer, acked) ==
    /\ g \in Segment /\ g.fin = FALSE /\ g.seqno = wrap(g.abs, isn) /\ End(g) <= sent
    /\ \A j \in 1 .. Len(g.payload) : g.payload[j] = g.abs + Bit(g.syn) + j - 2
    /\ g.syn <=> g.abs = 0 /\ length_in_sequence_space(g) > 0
    /\ g.ack => /\ \E a \in 0 .. acked : g.ackno = wrap(a, peer)
                /\ g.win <= RecvCapacity

SegmentsOK(q, isn, sent, peer, acked) ==
    /\ q \in Seq(Segment)
    /\ \A i \in 1 .. Len(q) : SegmentOK(q[i], isn, sent, peer, acked)

Endpoint(c, isn, peer, n, m, sent, acked) ==
    /\ c \in Connections
    /\ SenderOK(c.sender, isn, n, acked) /\ ReceiverOK(c.receiver, peer, m, sent)
    /\ SegmentsOK(c.segments_out, isn, c.sender.byte_sent, peer, AckPoint(c.receiver))

-----------------------------------------------------------------------------
(* What the lemmas below use of the sender and of the reassembler.  SenderLemmas and    *)
(* ReassemblerLemmas prove it and PairProofs puts it together; here and in PairLemmas   *)
(* it is assumed, as Parts, so that a connection is reasoned about without what its     *)
(* parts are made of.                                                                   *)

SegmentPart ==
    \A g \in Segment : /\ g.abs \in Nat /\ length_in_sequence_space(g) \in Nat
                       /\ End(g) = g.abs + length_in_sequence_space(g) /\ End(g) \in Nat

WrapPart ==
    /\ \A n, isn \in Nat : wrap(n, isn) \in 0 .. SeqSpace - 1
    /\ \A n, c, isn \in Nat :
         2 * (n - c) < SeqSpace /\ 2 * (c - n) < SeqSpace => unwrap(wrap(n, isn), isn, c) = n

FillPart ==
    \A s : Inv(s) => /\ Inv(fill_window(s)) /\ Moves(s, fill_window(s))
                     /\ fill_window(s).byte_received = s.byte_received
                     /\ \A w \in Nat : w > 0 /\ InFlight(s, w) => InFlight(fill_window(s), w)

StaysPart ==
    \A s, t : Inv(s) /\ Stays(s, t) =>
        Moves(s, t) /\ \A w \in Nat : InFlight(s, w) => InFlight(t, w)

AckPart ==
    \A s, a, win :
        Inv(s) /\ a \in 0 .. SeqSpace - 1 /\ win \in 0 .. MaxWindow =>
            LET t == ack_received(s, a, win)
            IN  /\ Inv(t) /\ Moves(s, t)
                /\ t.byte_received = s.byte_received \/ t.byte_received = AbsAck(s, a)
                /\ \A w \in Nat : w > 0 /\ win <= w /\ InFlight(s, w) => InFlight(t, w)

StreamPart ==
    /\ \A s : \A c \in ByteStreams :
         /\ Inv(s) /\ StreamInv(c) /\ c.alread = s.stream.alread
         /\ s.stream.end => /\ c.end /\ c.content = s.stream.content
                            /\ c.alwritten = s.stream.alwritten
         => Inv([s EXCEPT !.stream = c])
    /\ \A b \in ByteStreams, n \in Nat :
         StreamInv(b) =>
            LET c == write(b, NextBytes(b, n))
            IN  /\ c \in ByteStreams /\ StreamInv(c) /\ c.alread = b.alread
                /\ c.alwritten = b.alwritten + Lesser(remaining_capacity(b), n)
                /\ c.end = b.end /\ c.error = b.error

QueuePart ==
    \A s : Inv(s) =>
        /\ \A q \in Seq(Segment) : q = <<>> => Inv([s EXCEPT !.segments_out = q])
        /\ Inv(send_empty_segment(s)) /\ Stays(s, send_empty_segment(s))
        /\ s.segments_out # <<>> => LET t == [s EXCEPT !.segments_out = Tail(@)]
                                    IN  Inv(t) /\ Stays(s, t)

TickPart ==
    \A s : \A ms \in Nat : Inv(s) => Inv(tick(s, ms)) /\ Stays(s, tick(s, ms))

PiecePart ==
    \A n \in Nat :
        /\ \A t : GoodPiece(t, n) =>
             /\ t.first \in Nat /\ t.last \in Nat /\ t.first <= t.last /\ t.last < n
             /\ Len(t.data) = t.last + 1 - t.first
        /\ \A q : GoodList(q, n) =>
             /\ Cover(q) \in SUBSET (0 .. n - 1) /\ IsFiniteSet(Cover(q))
             /\ Cardinality(Cover(q)) \in Nat /\ Len(q) \in Nat

SizePart == \A m \in Nat : SizeMod \in Nat /\ m < SizeMod => Size(m) = m

PushPart ==
    \A n \in Nat, fin \in BOOLEAN : \A s : GoodState(s, n) =>
        /\ \A index : PushedEmpty(s, index, fin, push_substring(s, <<>>, index, fin), n)
        /\ \A p : /\ GoodPiece(p, n) /\ SizeMod \in Nat /\ n < SizeMod
                  /\ Limit(s) < SizeMod /\ p.last < Limit(s)
                  /\ \A x \in Cover(s.storelist) : x < Limit(s)
                  => PushedData(s, p, fin, push_substring(s, p.data, p.first, fin), n)

ReadPart ==
    \A n, m \in Nat : \A s : GoodState(s, n) /\ m <= buffer_size(s.output) =>
        ReadBytes(s, m, [s EXCEPT !.output = pop_output(@, m)], n)

NewPart ==
    /\ \A isn \in 0 .. SeqSpace - 1, capacity \in Nat : Inv(NewSender(isn, capacity))
    /\ \A n, capacity \in Nat :
         LET r == NewReassembler(capacity)
         IN  /\ GoodState(r, n) /\ r.storelist = <<>> /\ r.firstindex = 0
             /\ r.checkeof = FALSE /\ r.output = NewByteStream(capacity)

Parts ==
    /\ SegmentPart /\ WrapPart /\ FillPart /\ StaysPart /\ AckPart /\ StreamPart
    /\ QueuePart /\ TickPart /\ PiecePart /\ SizePart /\ PushPart /\ ReadPart /\ NewPart

-----------------------------------------------------------------------------
(* The sender. *)

\* The constants are numbers.
LEMMA Numbers ==
  /\ SeqSpace \in Nat /\ SeqSpace > 0 /\ MaxWindow \in Nat /\ 2 * MaxWindow < SeqSpace
  /\ RecvCapacity \in Nat /\ RecvCapacity > 0 /\ RecvCapacity <= MaxWindow
  /\ SizeMod \in Nat /\ SeqSpace <= SizeMod
<1>1. RecvCapacity \in Nat /\ RecvCapacity > 0 /\ RecvCapacity <= MaxWindow
  BY ConnectionAssumption, SenderAssumption
<1> QED BY <1>1, SenderAssumption, SeqSpaceAssumption, ReceiverAssumption

\* What a sender's invariant says of its numbers while its stream is open.
LEMMA SenderFacts ==
  ASSUME NEW n \in Nat, NEW acked \in Nat, NEW isn, NEW s, SenderOK(s, isn, n, acked)
  PROVE  /\ s \in Senders /\ isn \in Nat /\ isn \in 0 .. SeqSpace - 1
         /\ s.byte_sent \in Nat /\ s.byte_received \in Nat
         /\ s.byte_received <= s.byte_sent /\ s.byte_received <= acked
         /\ s.eof = FALSE /\ s.byte_sent <= s.stream.alwritten + 1 /\ s.byte_sent <= n + 1
         /\ s.byte_sent <= acked + RecvCapacity
         /\ s.stream.alwritten \in Nat
<1> DEFINE b == s.stream
<1>1. /\ s \in Senders /\ s.isn = isn /\ CountInv(s) /\ StreamInv(b) /\ b.end = FALSE
      /\ b.alwritten <= n /\ InFlight(s, RecvCapacity) /\ s.byte_received <= acked
  BY DEF SenderOK, Inv
<1>2. /\ s.isn \in 0 .. SeqSpace - 1 /\ s.byte_sent \in Nat /\ s.byte_received \in Nat
      /\ b \in ByteStreams /\ s.eof \in BOOLEAN
  BY <1>1 DEF Senders
<1>3. s.eof = FALSE
  BY <1>1, <1>2 DEF CountInv
<1>4. /\ b.alwritten \in Nat /\ b.alread \in Nat /\ b.alread <= b.alwritten
  <2>1. b.alwritten \in Nat /\ b.alread \in Nat /\ Len(b.content) \in Nat
    BY <1>2 DEF ByteStreams
  <2>2. b.alwritten = b.alread + Len(b.content)
    BY <1>1 DEF StreamInv
  <2> HIDE DEF b
  <2> QED BY <2>1, <2>2
<1>5. s.byte_sent <= b.alread + 1
  <2>1. s.byte_sent = Bit(s.byte_sent > 0) + b.alread + Bit(FALSE)
    BY Zenon, <1>1, <1>3 DEF CountInv
  <2> HIDE DEF b
  <2> QED BY <1>2, <1>4, <2>1 DEF Bit
<1>6. s.byte_received <= s.byte_sent /\ s.byte_sent - s.byte_received <= RecvCapacity
  BY <1>1 DEF CountInv, InFlight
<1>7. s.byte_sent <= acked + RecvCapacity
  BY <1>1, <1>2, <1>6, Numbers
<1>8. isn \in Nat
  BY <1>1, <1>2, Numbers
<1> HIDE DEF b
<1> QED BY <1>1, <1>2, <1>3, <1>4, <1>5, <1>6, <1>7, <1>8 DEF b

\* A sender that moves, keeps its invariant and does not take more for acknowledged than was.
LEMMA SenderMoves ==
  ASSUME NEW n \in Nat, NEW acked \in Nat, NEW isn, NEW s, SenderOK(s, isn, n, acked),
         NEW t, Inv(t), Moves(s, t), InFlight(t, RecvCapacity), t.byte_received <= acked
  PROVE  SenderOK(t, isn, n, acked)
BY DEF SenderOK, Moves

\* fill_window of a sender whose stream is open.
LEMMA SenderFill ==
  ASSUME Parts, NEW n \in Nat, NEW acked \in Nat, NEW isn, NEW s, SenderOK(s, isn, n, acked)
  PROVE  SenderOK(fill_window(s), isn, n, acked) /\ Moves(s, fill_window(s))
<1>1. Inv(s) /\ InFlight(s, RecvCapacity) /\ s.byte_received <= acked
  BY DEF SenderOK
<1>2. /\ Inv(fill_window(s)) /\ Moves(s, fill_window(s))
      /\ InFlight(fill_window(s), RecvCapacity)
      /\ fill_window(s).byte_received = s.byte_received
  BY <1>1, Numbers DEF Parts, FillPart
<1> QED BY <1>1, <1>2, SenderMoves

\* The operations that send a segment and count nothing.
LEMMA SenderStays ==
  ASSUME Parts, NEW n \in Nat, NEW acked \in Nat, NEW isn, NEW s, SenderOK(s, isn, n, acked),
         NEW t, Inv(t), Stays(s, t)
  PROVE  SenderOK(t, isn, n, acked) /\ Moves(s, t)
<1>1. Inv(s) /\ InFlight(s, RecvCapacity) /\ s.byte_received <= acked
  BY DEF SenderOK
<1>2. Moves(s, t) /\ InFlight(t, RecvCapacity)
  BY <1>1, Numbers DEF Parts, StaysPart
<1>3. t.byte_received <= acked
  BY <1>1 DEF Stays
<1> QED BY <1>1, <1>2, <1>3, SenderMoves

\* ack_received with the acknowledgment of what the other side has, or had earlier: near
\* enough for unwrap, it is taken for what it is.
LEMMA SenderAck ==
  ASSUME Parts, NEW n \in Nat, NEW acked \in Nat, acked <= n + 1, 2 * (n + 2) < SeqSpace,
         NEW isn, NEW s, SenderOK(s, isn, n, acked),
         NEW a \in 0 .. acked, NEW win \in 0 .. RecvCapacity
  PROVE  LET t == ack_received(s, wrap(a, isn), win)
         IN  SenderOK(t, isn, n, acked) /\ Moves(s, t)
<1> DEFINE x == wrap(a, isn)
           t == ack_received(s, x, win)
<1>1. Inv(s) /\ InFlight(s, RecvCapacity) /\ s.isn = isn
  BY DEF SenderOK
<1>2. /\ isn \in Nat /\ s.byte_received \in Nat /\ s.byte_received <= acked
      /\ a \in Nat /\ a <= acked
  <2>1. a \in Nat /\ a <= acked
    OBVIOUS
  <2> QED BY Zenon, <2>1, SenderFacts
<1>3. x \in 0 .. SeqSpace - 1
  BY Zenon, <1>2 DEF Parts, WrapPart
<1>4. win \in 0 .. MaxWindow /\ win <= RecvCapacity
  BY Numbers
<1>5. AbsAck(s, x) = a
  <2>1. 2 * (a - s.byte_received) < SeqSpace /\ 2 * (s.byte_received - a) < SeqSpace
    BY <1>2, Numbers
  <2> QED BY Zenon, <1>1, <1>2, <2>1 DEF Parts, WrapPart, AbsAck
<1> HIDE DEF x
<1>6. /\ Inv(t) /\ Moves(s, t) /\ InFlight(t, RecvCapacity)
      /\ t.byte_received = s.byte_received \/ t.byte_received = a
  BY <1>1, <1>3, <1>4, <1>5, Numbers DEF Parts, AckPart
<1>7. t.byte_received <= acked
  BY <1>2, <1>6
<1> HIDE DEF t
<1>8. SenderOK(t, isn, n, acked)
  BY <1>6, <1>7, SenderMoves
<1> QED BY <1>6, <1>8 DEF t, x

\* The sender t is s with the open stream c, of which as much was read.
Restreamed(s, t, c, n) ==
    /\ c \in ByteStreams /\ StreamInv(c) /\ c.alread = s.stream.alread /\ c.end = FALSE
    /\ c.alwritten <= n /\ t = [s EXCEPT !.stream = c]

\* A change of the stream leaves the sender good.
LEMMA SenderStream ==
  ASSUME Parts, NEW n \in Nat, NEW acked \in Nat, NEW isn, NEW s, SenderOK(s, isn, n, acked),
         NEW c, NEW t, Restreamed(s, t, c, n)
  PROVE  SenderOK(t, isn, n, acked) /\ t.stream = c /\ t.byte_sent = s.byte_sent
<1>1. /\ Inv(s) /\ s.stream.end = FALSE /\ s \in Senders
      /\ c \in ByteStreams /\ StreamInv(c) /\ c.alread = s.stream.alread /\ c.end = FALSE
      /\ c.alwritten <= n /\ t = [s EXCEPT !.stream = c]
  BY DEF SenderOK, Inv, Restreamed
<1>2. Inv(t)
  BY <1>1 DEF Parts, StreamPart
<1>3. /\ t.stream = c /\ t.byte_sent = s.byte_sent
      /\ t.byte_received = s.byte_received /\ t.isn = s.isn /\ t.window_size = s.window_size
  BY <1>1 DEF Senders
<1>4. SenderOK(t, isn, n, acked)
  BY <1>1, <1>2, <1>3 DEF SenderOK, InFlight
<1> QED BY <1>3, <1>4

\* set_error changes the flag only.
LEMMA ErrorStream ==
  ASSUME NEW b \in ByteStreams
  PROVE  LET c == set_error(b)
         IN  /\ c \in ByteStreams /\ c.content = b.content /\ c.end = b.end /\ c.max = b.max
             /\ c.alread = b.alread /\ c.alwritten = b.alwritten /\ c.error = TRUE
BY Zenon DEF ByteStreams, set_error
-----------------------------------------------------------------------------
(* The receiver. *)

\* What is left of a push when the stream stays open.
Pushed(r, t, m, sent) ==
    /\ ReassemblerOK(t, m, sent) /\ t.firstindex >= r.firstindex
    /\ t.output.alread = r.output.alread

\* A push without data changes nothing that matters.
LEMMA PushNothing ==
  ASSUME Parts, NEW m \in Nat, NEW sent \in Nat, NEW r, ReassemblerOK(r, m, sent), NEW index
  PROVE  Pushed(r, push_substring(r, <<>>, index, FALSE), m, sent)
<1> DEFINE t == push_substring(r, <<>>, index, FALSE)
<1>1. GoodState(r, m) /\ r.checkeof = FALSE /\ r.output.end = FALSE /\ r.output.max = RecvCapacity
  BY DEF ReassemblerOK
<1>2. PushedEmpty(r, index, FALSE, t, m)
  BY Zenon, <1>1 DEF Parts, PushPart
<1> HIDE DEF t
<1>3. /\ GoodState(t, m) /\ t.checkeof = FALSE /\ t.output.end = FALSE
      /\ t.firstindex = r.firstindex /\ t.storelist = r.storelist
      /\ t.output.max = r.output.max /\ t.output.alread = r.output.alread
  BY Zenon, <1>1, <1>2 DEF PushedEmpty
<1>4. Limit(t) = Limit(r)
  BY <1>3 DEF Limit
<1>5. ReassemblerOK(t, m, sent)
  BY <1>3, <1>4 DEF ReassemblerOK
<1>6. r.firstindex \in Nat
  BY <1>1 DEF GoodState, Reassemblers
<1>7. t.firstindex >= r.firstindex
  BY <1>3, <1>6
<1> QED BY Zenon, <1>3, <1>5, <1>7 DEF Pushed, t

\* A push of bytes that were sent, within the limit.
LEMMA PushSent ==
  ASSUME Parts, NEW m \in Nat, NEW sent \in Nat, NEW r, ReassemblerOK(r, m, sent),
         NEW p, GoodPiece(p, m), p.last + 2 <= sent, p.last < Limit(r), 2 * (m + 2) < SeqSpace
  PROVE  Pushed(r, push_substring(r, p.data, p.first, FALSE), m, sent)
<1> DEFINE t == push_substring(r, p.data, p.first, FALSE)
           k == Limit(r)
<1>1. /\ GoodState(r, m) /\ r.checkeof = FALSE /\ r.output.end = FALSE
      /\ r.output.max = RecvCapacity
      /\ \A x \in (0 .. r.firstindex - 1) \cup Cover(r.storelist) : x + 2 <= sent
      /\ \A x \in Cover(r.storelist) : x < k
  BY DEF ReassemblerOK
<1>2. r.firstindex \in Nat /\ r.firstindex <= m
  BY <1>1 DEF GoodState, Reassemblers
<1>3. k < SizeMod /\ m < SizeMod /\ SizeMod \in Nat
  <2>1. k = r.firstindex + RecvCapacity
    BY <1>1 DEF Limit
  <2> HIDE DEF k
  <2> QED BY <1>2, <2>1, Numbers
<1>4. PushedData(r, p, FALSE, t, m)
  <2> HIDE DEF t
  <2> QED BY Zenon, <1>1, <1>3 DEF Parts, PushPart, t
<1> HIDE DEF t, k
<1>5. /\ GoodState(t, m) /\ t.checkeof = FALSE /\ t.output.end = FALSE
      /\ t.firstindex >= r.firstindex /\ \A x \in Cover(t.storelist) : x < Limit(t)
      /\ t.output.max = RecvCapacity /\ t.output.alread = r.output.alread
  BY Zenon, <1>1, <1>4 DEF PushedData
<1>6. ASSUME NEW x \in (0 .. t.firstindex - 1) \cup Cover(t.storelist)
      PROVE  x + 2 <= sent
  <2>1. x \in (0 .. r.firstindex - 1) \cup Cover(r.storelist) \cup Span(p)
    BY <1>4 DEF PushedData
  <2>2. CASE x \in Span(p)
    <3>1. p.first \in Nat /\ p.last \in Nat
      BY DEF Parts, PiecePart
    <3> QED BY <2>2, <3>1 DEF Span
  <2> QED BY Zenon, <1>1, <2>1, <2>2
<1>7. ReassemblerOK(t, m, sent)
  BY <1>5, <1>6 DEF ReassemblerOK
<1> QED BY Zenon, <1>5, <1>7 DEF Pushed, t

\* The piece a segment holds.
PieceOf(g) == Piece(g.abs + Bit(g.syn) - 1, End(g) - 2, g.payload)

\* The numbers of a segment without a FIN.
LEMMA SegmentFacts ==
  ASSUME NEW sent \in Nat, NEW isn, NEW peer, NEW acked, NEW g, SegmentOK(g, isn, sent, peer, acked)
  PROVE  /\ g \in Segment /\ g.abs \in Nat /\ g.abs <= sent /\ g.payload \in Seq(Nat)
         /\ Len(g.payload) \in Nat /\ Bit(g.syn) \in {0, 1}
         /\ End(g) = g.abs + Len(g.payload) + Bit(g.syn) /\ End(g) <= sent
         /\ g.payload # <<>> => g.abs + Bit(g.syn) >= 1
         /\ g.syn => g.abs = 0 /\ sent >= 1
<1> DEFINE d == g.payload
           y == Bit(g.syn)
<1>1. /\ g \in Segment /\ g.fin = FALSE /\ End(g) <= sent
      /\ g.syn <=> g.abs = 0 /\ length_in_sequence_space(g) > 0
  BY DEF SegmentOK
<1>2. g.abs \in Nat /\ d \in Seq(Nat) /\ g.syn \in BOOLEAN
  BY <1>1 DEF Segment
<1>3. Len(d) \in Nat /\ y \in {0, 1} /\ (g.syn <=> y = 1) /\ (d # <<>> => Len(d) > 0)
  BY <1>2 DEF Bit
<1>4. length_in_sequence_space(g) = Len(d) + y
  <2>1. length_in_sequence_space(g) = Len(d) + y + Bit(FALSE)
    BY Zenon, <1>1 DEF length_in_sequence_space
  <2> HIDE DEF d, y
  <2> QED BY <1>3, <2>1 DEF Bit
<1> HIDE DEF d, y
<1>5. End(g) = g.abs + (Len(d) + y)
  BY <1>4 DEF End
<1>6. End(g) = g.abs + Len(d) + y /\ g.abs <= sent
  BY <1>1, <1>2, <1>3, <1>5
<1>7. d # <<>> => g.abs + y >= 1
  BY <1>1, <1>2, <1>3, <1>4
<1>8. g.syn => g.abs = 0 /\ sent >= 1
  BY <1>1, <1>2, <1>3, <1>6
<1> QED BY <1>1, <1>2, <1>3, <1>6, <1>7, <1>8 DEF d, y

\* A segment with data is a good piece of a stream of m bytes.
LEMMA SegmentPiece ==
  ASSUME NEW m \in Nat, NEW sent \in Nat, sent <= m + 1, NEW isn, NEW peer, NEW acked,
         NEW g, SegmentOK(g, isn, sent, peer, acked), g.payload # <<>>
  PROVE  /\ GoodPiece(PieceOf(g), m) /\ PieceOf(g).data = g.payload
         /\ PieceOf(g).first = g.abs + Bit(g.syn) - 1 /\ PieceOf(g).last + 2 <= sent
<1> DEFINE d == g.payload
           y == Bit(g.syn)
           f == g.abs + y - 1
           l == End(g) - 2
           p == PieceOf(g)
<1>1. /\ g.abs \in Nat /\ d \in Seq(Nat) /\ Len(d) \in Nat /\ y \in {0, 1}
      /\ End(g) = g.abs + Len(d) + y /\ End(g) <= sent /\ g.abs + y >= 1
  BY SegmentFacts
<1>2. d # <<>> /\ \A j \in 1 .. Len(d) : d[j] = g.abs + y + j - 2
  BY DEF SegmentOK
<1>3. p = [first |-> f, last |-> l, data |-> d]
  BY DEF PieceOf, Piece
<1>4. Len(d) > 0
  BY <1>1, <1>2
<1> HIDE DEF d, y, p
<1>5. f \in Nat /\ l \in Nat /\ l = f + Len(d) - 1 /\ l < m /\ l + 2 <= sent
  <2> DEFINE a == g.abs
             e == End(g)
             x == Len(d)
  <2>1. /\ a \in Nat /\ x \in Nat /\ y \in {0, 1} /\ e = a + x + y /\ e <= sent /\ a + y >= 1
        /\ x > 0 /\ f = a + y - 1 /\ l = e - 2 /\ sent <= m + 1
    BY <1>1, <1>4
  <2> HIDE DEF a, e, x, f, l
  <2>2. f \in Nat /\ l \in Nat /\ l = f + x - 1 /\ l < m /\ l + 2 <= sent
    BY <2>1
  <2> QED BY <2>2 DEF x
<1>6. ASSUME NEW j \in 1 .. Len(d) PROVE d[j] = f + j - 1
  <2> DEFINE a == g.abs
  <2>1. a \in Nat /\ y \in {0, 1} /\ j \in Nat /\ d[j] = a + y + j - 2 /\ f = a + y - 1
    BY <1>1, <1>2
  <2> HIDE DEF a, f
  <2> QED BY <2>1
<1> HIDE DEF f, l
<1>7. p \in Pieces /\ p.first = f /\ p.last = l /\ p.data = d
  BY <1>1, <1>3, <1>5 DEF Pieces
<1>8. GoodPiece(p, m)
  BY <1>2, <1>5, <1>6, <1>7 DEF GoodPiece
<1> QED BY <1>5, <1>7, <1>8 DEF p, d, f, y

\* What a receiver's invariant says of its numbers.
LEMMA ReceiverFacts ==
  ASSUME NEW m \in Nat, NEW sent \in Nat, NEW peer, NEW v, ReceiverOK(v, peer, m, sent)
  PROVE  /\ v \in Receivers /\ v.reassembler \in Reassemblers
         /\ v.reassembler.output \in ByteStreams
         /\ bytes_written(v) \in Nat /\ v.reassembler.firstindex = bytes_written(v)
         /\ bytes_written(v) <= m
         /\ AckPoint(v) \in Nat /\ AckPoint(v) <= m + 1 /\ AckPoint(v) <= sent
         /\ window_size(v) \in 0 .. RecvCapacity
<1> DEFINE r == v.reassembler
           b == r.output
           k == bytes_written(v)
<1>1. /\ v \in Receivers /\ ReassemblerOK(r, m, sent)
      /\ v.isnset => sent >= 1
  BY DEF ReceiverOK
<1>2. GoodState(r, m) /\ b.max = RecvCapacity
      /\ \A x \in (0 .. r.firstindex - 1) \cup Cover(r.storelist) : x + 2 <= sent
  BY <1>1 DEF ReassemblerOK
<1>3. r \in Reassemblers /\ r.firstindex = k /\ r.firstindex <= m /\ GoodOutput(b)
  BY <1>2 DEF GoodState, bytes_written
<1>4. b \in ByteStreams /\ r.firstindex \in Nat
  BY <1>3 DEF Reassemblers
<1>5. b.content \in Seq(Nat) /\ Len(b.content) \in Nat /\ Len(b.content) <= b.max
  BY <1>3, <1>4 DEF ByteStreams, GoodOutput
<1>6. window_size(v) \in 0 .. RecvCapacity
  <2>1. window_size(v) = RecvCapacity - Len(b.content)
    BY <1>2 DEF window_size, remaining_capacity
  <2> HIDE DEF b
  <2> QED BY <1>2, <1>5, <2>1, Numbers
<1>7. k > 0 => k + 1 <= sent
  <2>1. ASSUME k > 0 PROVE (k - 1) + 2 <= sent
    <3>1. k - 1 \in 0 .. r.firstindex - 1
      BY <1>3, <1>4, <2>1
    <3> HIDE DEF k
    <3> QED BY <1>2, <3>1
  <2>2. k \in Nat
    BY <1>3, <1>4
  <2> HIDE DEF k
  <2> QED BY <2>1, <2>2
<1>8. AckPoint(v) \in Nat /\ AckPoint(v) <= m + 1 /\ AckPoint(v) <= sent
  <2>1. AckPoint(v) = IF v.isnset THEN 1 + k ELSE 0
    BY DEF AckPoint
  <2>2. k \in Nat /\ k <= m
    BY <1>3, <1>4
  <2> HIDE DEF k
  <2> QED BY <1>1, <1>7, <2>1, <2>2
<1> QED BY <1>1, <1>3, <1>4, <1>6, <1>8

\* What a step of a receiver may do.
Receives(v, w, peer, m, sent) ==
    /\ ReceiverOK(w, peer, m, sent) /\ AckPoint(v) <= AckPoint(w)
    /\ w.reassembler.output.alread = v.reassembler.output.alread
    /\ bytes_written(v) <= bytes_written(w)

\* A receiver that knows the other side's initial sequence number, with the reassembler r.
LEMMA ReceiverWith ==
  ASSUME NEW m \in Nat, NEW sent \in Nat, sent >= 1, NEW peer \in Nat,
         NEW v, ReceiverOK(v, peer, m, sent),
         NEW r, Pushed(v.reassembler, r, m, sent),
         NEW w, w = [isn |-> peer, isnset |-> TRUE, finset |-> FALSE, reassembler |-> r]
  PROVE  Receives(v, w, peer, m, sent)
<1> DEFINE q == v.reassembler
<1>1. /\ ReassemblerOK(r, m, sent) /\ r.firstindex >= q.firstindex
      /\ r.output.alread = q.output.alread
  BY DEF Pushed
<1>2. GoodState(r, m)
  BY <1>1 DEF ReassemblerOK
<1>3. r \in Reassemblers /\ r.firstindex = r.output.alwritten
  BY <1>2 DEF GoodState
<1>4. r.firstindex \in Nat
  BY <1>3 DEF Reassemblers
<1>5. /\ w \in Receivers /\ w.isn = peer /\ w.isnset = TRUE /\ w.finset = FALSE
      /\ w.reassembler = r
  BY <1>3 DEF Receivers
<1>6. ReceiverOK(w, peer, m, sent)
  BY <1>1, <1>5 DEF ReceiverOK
<1>7. bytes_written(w) = r.firstindex
  BY <1>3, <1>5 DEF bytes_written
<1>8. bytes_written(v) \in Nat /\ q.firstindex = bytes_written(v)
  BY ReceiverFacts
<1>9. bytes_written(v) <= bytes_written(w)
  BY <1>1, <1>4, <1>7, <1>8
<1>10. AckPoint(v) <= AckPoint(w)
  BY <1>4, <1>5, <1>7, <1>8, <1>9 DEF AckPoint
<1> QED BY <1>1, <1>5, <1>6, <1>9, <1>10 DEF Receives

\* receive, of a segment of the other side that may be late or a duplicate.
LEMMA ReceiveOK ==
  ASSUME Parts, NEW m \in Nat, NEW sent \in Nat, sent <= m + 1, 2 * (m + 2) < SeqSpace,
         NEW peer \in 0 .. SeqSpace - 1, NEW v, ReceiverOK(v, peer, m, sent),
         sent <= AckPoint(v) + RecvCapacity,
         NEW isn, NEW acked, NEW g, SegmentOK(g, peer, sent, isn, acked)
  PROVE  Receives(v, receive(v, g), peer, m, sent)
<1> DEFINE r == v.reassembler
           k == bytes_written(v)
           d == g.payload
           y == Bit(g.syn)
           f == g.abs + y - 1
           p == PieceOf(g)
<1>1. /\ v \in Receivers /\ r \in Reassemblers /\ k \in Nat /\ r.firstindex = k /\ k <= m
  BY ReceiverFacts
<1>2. /\ g \in Segment /\ g.abs \in Nat /\ g.abs <= sent /\ y \in {0, 1}
      /\ d # <<>> => g.abs + y >= 1
      /\ g.syn => g.abs = 0 /\ sent >= 1
  BY SegmentFacts
<1>3. /\ ReassemblerOK(r, m, sent) /\ v.finset = FALSE
      /\ v.isnset => v.isn = peer /\ sent >= 1
      /\ ~v.isnset => r.firstindex = 0
  BY DEF ReceiverOK
<1>4. g.seqno = wrap(g.abs, peer) /\ g.fin = FALSE /\ g.syn \in BOOLEAN
  BY <1>2 DEF SegmentOK, Segment
<1>5. r.output.max = RecvCapacity /\ Limit(r) = k + RecvCapacity
  BY <1>1, <1>3 DEF ReassemblerOK, Limit
<1>6. v.isnset \in BOOLEAN /\ v.isn \in Nat /\ peer \in Nat
  BY <1>1, Numbers DEF Receivers
<1>7. ASSUME v.isnset \/ g.syn, NEW index, d # <<>> => index = f
      PROVE  Pushed(r, push_substring(r, d, index, FALSE), m, sent)
  <2>1. CASE d = <<>>
    BY Zenon, <1>3, <2>1, PushNothing
  <2>2. CASE d # <<>>
    <3>1. /\ GoodPiece(p, m) /\ p.data = d /\ p.first = f /\ p.last + 2 <= sent
      BY <2>2, SegmentPiece
    <3>2. p.last \in Nat
      BY <3>1 DEF Parts, PiecePart
    <3>3. AckPoint(v) <= 1 + k /\ AckPoint(v) \in Nat
      BY <1>1 DEF AckPoint
    <3>4. p.last < Limit(r)
      <4> HIDE DEF p, k
      <4> QED BY <1>1, <1>5, <3>1, <3>2, <3>3, Numbers
    <3>5. Pushed(r, push_substring(r, p.data, p.first, FALSE), m, sent)
      <4> HIDE DEF p
      <4> QED BY Zenon, <1>3, <3>1, <3>4, PushSent
    <3> HIDE DEF p, f
    <3> QED BY Zenon, <1>7, <2>2, <3>1, <3>5
  <2> QED BY Zenon, <2>1, <2>2
<1>8. CASE v.isnset
  <2> DEFINE i == StreamIndex(v, g)
             t == push_substring(r, d, i, FALSE)
             w == receive(v, g)
  <2>1. AbsSeqno(v, g) = g.abs
    <3>1. 2 * (g.abs - k) < SeqSpace /\ 2 * (k - g.abs) < SeqSpace
      <4> HIDE DEF k
      <4>1. k \in Nat /\ k <= m /\ g.abs \in Nat /\ g.abs <= sent
        BY Zenon, <1>1, <1>2
      <4> HIDE DEF d, y, r
      <4> QED BY <4>1, Numbers
    <3>2. unwrap(wrap(g.abs, peer), peer, k) = g.abs
      <4> HIDE DEF k
      <4> QED BY Zenon, <1>1, <1>2, <1>6, <3>1 DEF Parts, WrapPart
    <3> QED BY Zenon, <1>3, <1>4, <1>8, <3>2 DEF AbsSeqno
  <2>2. d # <<>> => i = f
    <3>1. ASSUME d # <<>> PROVE i = f
      <4>1. Bit(~g.syn) = 1 - y
        BY <1>4 DEF Bit
      <4>2. g.abs - Bit(~g.syn) = f
        <5> HIDE DEF y
        <5> QED BY <1>2, <4>1
      <4>3. f \in Nat /\ f < SizeMod
        <5> HIDE DEF y, d
        <5> QED BY <1>2, <3>1, Numbers
      <4> HIDE DEF f
      <4> QED BY <2>1, <4>2, <4>3, Numbers DEF Parts, SizePart, StreamIndex
    <3> QED BY <3>1
  <2> HIDE DEF i
  <2>3. Pushed(r, t, m, sent)
    BY Zenon, <1>7, <1>8, <2>2
  <2>4. w = [v EXCEPT !.reassembler = t, !.finset = FALSE]
    BY Zenon, <1>3, <1>4, <1>8 DEF receive, i
  <2> HIDE DEF t, w
  <2>5. w = [isn |-> peer, isnset |-> TRUE, finset |-> FALSE, reassembler |-> t]
    BY Zenon, <1>1, <1>3, <1>6, <1>8, <2>4 DEF Receivers
  <2> QED BY <1>3, <1>6, <1>8, <2>3, <2>5, ReceiverWith DEF w
<1>9. CASE ~v.isnset /\ g.syn
  <2> DEFINE t == push_substring(r, d, 0, FALSE)
             w == receive(v, g)
  <2>1. y = 1 /\ g.abs = 0
    BY <1>2, <1>9 DEF Bit
  <2>2. d # <<>> => 0 = f
    BY <2>1
  <2>3. Pushed(r, t, m, sent)
    BY Zenon, <1>7, <1>9, <2>2
  <2>4. g.seqno \in Nat
    BY <1>2, Numbers DEF Segment
  <2>5. w = [v EXCEPT !.isn = g.seqno, !.isnset = TRUE, !.finset = FALSE, !.reassembler = t]
    BY Zenon, <1>4, <1>9 DEF receive
  <2> HIDE DEF t, w
  <2>6. w = [isn |-> g.seqno, isnset |-> TRUE, finset |-> FALSE, reassembler |-> t]
    BY Zenon, <1>1, <2>5 DEF Receivers
  <2>7. g.seqno = peer
    <3>1. SeqSpace \in Nat /\ peer \in 0 .. SeqSpace - 1 /\ 0 + peer = peer
      BY <1>6, Numbers
    <3>2. (0 + peer) % SeqSpace = peer
      BY ONLY <3>1
    <3> QED BY <1>4, <2>1, <3>2 DEF wrap
  <2> QED BY Zenon, <1>2, <1>6, <1>9, <2>3, <2>6, <2>7, ReceiverWith DEF w
<1>10. CASE ~v.isnset /\ ~g.syn
  <2>1. receive(v, g) = v
    BY <1>10 DEF receive
  <2> QED BY <1>1, <2>1 DEF Receives, AckPoint
<1> QED BY <1>6, <1>8, <1>9, <1>10
-----------------------------------------------------------------------------
(* Segments. *)

\* A segment stays good while more is sent and received.
LEMMA SegmentLater ==
  ASSUME Parts, NEW g, NEW isn, NEW peer, NEW sent \in Nat, NEW acked \in Nat, NEW sent2 \in Nat,
         NEW acked2 \in Nat, sent <= sent2, acked <= acked2, SegmentOK(g, isn, sent, peer, acked)
  PROVE  SegmentOK(g, isn, sent2, peer, acked2)
<1>1. End(g) <= sent /\ End(g) \in Nat
  BY DEF Parts, SegmentPart, SegmentOK
<1>2. End(g) <= sent2
  BY <1>1
<1>3. 0 .. acked \subseteq 0 .. acked2
  OBVIOUS
<1> QED BY <1>2, <1>3 DEF SegmentOK

\* So do the segments of a queue.
LEMMA SegmentsLater ==
  ASSUME Parts, NEW q, NEW isn, NEW peer, NEW sent \in Nat, NEW acked \in Nat, NEW sent2 \in Nat,
         NEW acked2 \in Nat, sent <= sent2, acked <= acked2, SegmentsOK(q, isn, sent, peer, acked)
  PROVE  SegmentsOK(q, isn, sent2, peer, acked2)
BY SegmentLater DEF SegmentsOK

\* Two queues of good segments one after the other.
LEMMA SegmentsConcat ==
  ASSUME NEW q, NEW h, NEW isn, NEW peer, NEW sent, NEW acked,
         SegmentsOK(q, isn, sent, peer, acked), SegmentsOK(h, isn, sent, peer, acked)
  PROVE  SegmentsOK(q \o h, isn, sent, peer, acked)
<1> DEFINE Good(g) == SegmentOK(g, isn, sent, peer, acked)
<1>1. q \in Seq(Segment) /\ h \in Seq(Segment)
  BY DEF SegmentsOK
<1>2. (\A i \in 1 .. Len(q) : Good(q[i])) /\ (\A i \in 1 .. Len(h) : Good(h[i]))
  BY DEF SegmentsOK
<1>3. q \o h \in Seq(Segment) /\ Len(q) \in Nat /\ Len(h) \in Nat
  BY <1>1
<1> HIDE DEF Good
<1>4. ASSUME NEW i \in 1 .. Len(q \o h) PROVE Good((q \o h)[i])
  <2>1. /\ Len(q \o h) = Len(q) + Len(h)
        /\ (q \o h)[i] = IF i <= Len(q) THEN q[i] ELSE h[i - Len(q)]
    BY <1>1
  <2>2. CASE i <= Len(q)
    <3>1. i \in 1 .. Len(q)
      BY <1>3, <2>2
    <3> QED BY <1>2, <2>1, <2>2, <3>1
  <2>3. CASE ~(i <= Len(q))
    <3>1. i - Len(q) \in 1 .. Len(h)
      BY <1>3, <2>1, <2>3
    <3> QED BY <1>2, <2>1, <2>3, <3>1
  <2> QED BY <2>2, <2>3
<1> QED BY <1>3, <1>4 DEF SegmentsOK, Good

\* A queue of one segment.
LEMMA SegmentsOne ==
  ASSUME NEW g, NEW isn, NEW peer, NEW sent, NEW acked, SegmentOK(g, isn, sent, peer, acked)
  PROVE  SegmentsOK(<<g>>, isn, sent, peer, acked)
<1>1. g \in Segment
  BY DEF SegmentOK
<1> QED BY <1>1 DEF SegmentsOK

\* Part of a queue of good segments.
LEMMA SegmentsPart ==
  ASSUME NEW q, NEW h \in Seq(Segment), NEW isn, NEW peer, NEW sent, NEW acked,
         SegmentsOK(q, isn, sent, peer, acked),
         \A i \in 1 .. Len(h) : \E j \in 1 .. Len(q) : h[i] = q[j]
  PROVE  SegmentsOK(h, isn, sent, peer, acked)
BY DEF SegmentsOK

\* A segment made a RST is as good as it was.
LEMMA SegmentRst ==
  ASSUME NEW g, NEW isn, NEW peer, NEW sent, NEW acked, SegmentOK(g, isn, sent, peer, acked)
  PROVE  SegmentOK([g EXCEPT !.rst = TRUE], isn, sent, peer, acked)
<1> DEFINE h == [g EXCEPT !.rst = TRUE]
<1>1. g \in Segment
  BY DEF SegmentOK
<1>2. /\ h \in Segment /\ h.seqno = g.seqno /\ h.ackno = g.ackno /\ h.win = g.win
      /\ h.syn = g.syn /\ h.fin = g.fin /\ h.ack = g.ack /\ h.payload = g.payload
      /\ h.abs = g.abs
  BY Zenon, <1>1 DEF Segment
<1> HIDE DEF h
<1>3. length_in_sequence_space(h) = length_in_sequence_space(g) /\ End(h) = End(g)
  BY <1>2 DEF length_in_sequence_space, End
<1>4. SegmentOK(h, isn, sent, peer, acked)
  BY <1>2, <1>3 DEF SegmentOK
<1> QED BY <1>4 DEF h

\* receiver_info: a segment of the sender leaves with what its receiver has got.
LEMMA InfoOK ==
  ASSUME Parts, NEW m \in Nat, NEW sent \in Nat, NEW peer, NEW c, ReceiverOK(c.receiver, peer, m, sent),
         NEW isn, NEW b, NEW mine, NEW g \in Segment, Carries(isn, b, FALSE, g), End(g) <= mine
  PROVE  SegmentOK(receiver_info(c, g), isn, mine, peer, AckPoint(c.receiver))
<1> DEFINE v == c.receiver
           k == AckPoint(v)
           h == receiver_info(c, g)
           x == ackno(v)
           z == window_size(v)
<1>1. /\ g.seqno = wrap(g.abs, isn) /\ g.fin = FALSE /\ g.ack = FALSE
      /\ \A j \in 1 .. Len(g.payload) : g.payload[j] = g.abs + Bit(g.syn) + j - 2
      /\ g.syn <=> g.abs = 0 /\ length_in_sequence_space(g) > 0
  <2>1. g.fin \in BOOLEAN /\ g.ack \in BOOLEAN
    BY DEF Segment
  <2> QED BY <2>1 DEF Carries
<1>2. CASE ~v.isnset
  <2>1. h = g
    BY <1>2 DEF receiver_info
  <2> QED BY <1>1, <2>1 DEF SegmentOK
<1>3. CASE v.isnset
  <2>1. k \in Nat /\ z \in 0 .. RecvCapacity /\ bytes_written(v) \in Nat /\ k = 1 + bytes_written(v)
    BY <1>3, ReceiverFacts DEF AckPoint
  <2>2. v.isn = peer /\ v.finset = FALSE /\ v.isn \in Nat
    BY <1>3 DEF ReceiverOK, Receivers
  <2>3. x = wrap(k, peer)
    <3>1. x = wrap(1 + bytes_written(v) + Bit(FALSE), peer)
      BY Zenon, <2>2 DEF ackno
    <3>2. 1 + bytes_written(v) + Bit(FALSE) = k
      BY <2>1 DEF Bit
    <3> QED BY Zenon, <3>1, <3>2
  <2>4. x \in Nat /\ z \in Nat /\ z <= RecvCapacity /\ k \in 0 .. k
    <3>1. wrap(k, peer) \in 0 .. SeqSpace - 1
      BY <2>1, <2>2 DEF Parts, WrapPart
    <3>2. wrap(k, peer) \in Nat
      BY <3>1, Numbers
    <3> HIDE DEF x, z, k
    <3> QED BY <2>1, <2>3, <3>2, Numbers
  <2>5. h = [g EXCEPT !.ack = TRUE, !.ackno = x, !.win = z]
    BY <1>3 DEF receiver_info
  <2> HIDE DEF x, z, h, k
  <2>6. /\ h \in Segment /\ h.seqno = g.seqno /\ h.ackno = x /\ h.win = z
        /\ h.syn = g.syn /\ h.fin = g.fin /\ h.ack = TRUE /\ h.payload = g.payload
        /\ h.abs = g.abs
    BY Zenon, <2>4, <2>5 DEF Segment
  <2>7. length_in_sequence_space(h) = length_in_sequence_space(g) /\ End(h) = End(g)
    BY <2>6 DEF length_in_sequence_space, End
  <2>8. \E a \in 0 .. k : h.ackno = wrap(a, peer)
    BY <2>3, <2>4, <2>6
  <2>9. SegmentOK(h, isn, mine, peer, k)
    BY <1>1, <2>4, <2>6, <2>7, <2>8 DEF SegmentOK
  <2> QED BY <2>9 DEF h, k
<1> QED BY <1>2, <1>3
-----------------------------------------------------------------------------
(* The connection.  Steps says what an operation makes of an endpoint. *)

Steps(c, d, isn, peer, n, m, sent, acked) ==
    /\ Endpoint(d, isn, peer, n, m, sent, acked)
    /\ c.sender.byte_sent <= d.sender.byte_sent
    /\ AckPoint(c.receiver) <= AckPoint(d.receiver)
    /\ inbound_stream(d).alread = inbound_stream(c).alread
    /\ bytes_written(c.receiver) <= bytes_written(d.receiver)

\* The numbers in whose terms an endpoint is seen: the streams fit the sequence space, no
\* more was sent than written, and no more acknowledged than received.
Bounds(n, m, sent, acked, peer) ==
    /\ n \in Nat /\ m \in Nat /\ sent \in Nat /\ acked \in Nat /\ peer \in 0 .. SeqSpace - 1
    /\ 2 * (n + 2) < SeqSpace /\ 2 * (m + 2) < SeqSpace
    /\ sent <= m + 1 /\ acked <= n + 1

\* The numbers of an endpoint.
LEMMA EndpointFacts ==
  ASSUME NEW isn, NEW peer, NEW n \in Nat, NEW m \in Nat, NEW sent \in Nat, NEW acked \in Nat,
         NEW c, Endpoint(c, isn, peer, n, m, sent, acked)
  PROVE  /\ c \in Connections /\ c.sender \in Senders /\ c.receiver \in Receivers
         /\ c.segments_out \in Seq(Segment)
         /\ SenderOK(c.sender, isn, n, acked) /\ ReceiverOK(c.receiver, peer, m, sent)
         /\ c.sender.byte_sent \in Nat /\ AckPoint(c.receiver) \in Nat
         /\ bytes_written(c.receiver) \in Nat
<1>1. /\ c \in Connections /\ SenderOK(c.sender, isn, n, acked)
      /\ ReceiverOK(c.receiver, peer, m, sent)
  BY DEF Endpoint
<1>2. c.sender \in Senders /\ c.receiver \in Receivers /\ c.segments_out \in Seq(Segment)
  BY <1>1 DEF Connections
<1>3. c.sender.byte_sent \in Nat
  BY Zenon, <1>1, SenderFacts
<1>4. AckPoint(c.receiver) \in Nat /\ bytes_written(c.receiver) \in Nat
  BY <1>1, ReceiverFacts
<1> QED BY <1>1, <1>2, <1>3, <1>4

\* An endpoint whose sender and receiver have gone on, and have put out good segments.
LEMMA EndpointWith ==
  ASSUME Parts, NEW isn, NEW peer, NEW n \in Nat, NEW m \in Nat, NEW sent \in Nat, NEW acked \in Nat,
         NEW c, Endpoint(c, isn, peer, n, m, sent, acked),
         NEW d \in Connections, SenderOK(d.sender, isn, n, acked),
         c.sender.byte_sent <= d.sender.byte_sent,
         Receives(c.receiver, d.receiver, peer, m, sent),
         NEW h, SegmentsOK(h, isn, d.sender.byte_sent, peer, AckPoint(d.receiver)),
         d.segments_out = c.segments_out \o h
  PROVE  Steps(c, d, isn, peer, n, m, sent, acked)
<1> DEFINE s == c.sender.byte_sent
           t == d.sender.byte_sent
           a == AckPoint(c.receiver)
           b == AckPoint(d.receiver)
           q == c.segments_out
<1>1. s \in Nat /\ a \in Nat /\ q \in Seq(Segment)
  BY EndpointFacts
<1>2. ReceiverOK(d.receiver, peer, m, sent) /\ a <= b
  BY DEF Receives
<1>3. t \in Nat /\ b \in Nat /\ s <= t
  BY Zenon, <1>2, SenderFacts, ReceiverFacts
<1>4. SegmentsOK(q, isn, s, peer, a)
  BY DEF Endpoint
<1> HIDE DEF s, t, a, b, q
<1>5. SegmentsOK(q, isn, t, peer, b)
  BY <1>1, <1>2, <1>3, <1>4, SegmentsLater
<1>6. SegmentsOK(q \o h, isn, t, peer, b)
  BY <1>5, SegmentsConcat DEF t, b
<1>7. Endpoint(d, isn, peer, n, m, sent, acked)
  BY <1>2, <1>6 DEF Endpoint, t, b, q
<1> QED BY <1>2, <1>3, <1>7 DEF Steps, Receives, inbound_stream, s, t, a, b

\* The same when nothing is put out.
LEMMA EndpointQuiet ==
  ASSUME Parts, NEW isn, NEW peer, NEW n \in Nat, NEW m \in Nat, NEW sent \in Nat, NEW acked \in Nat,
         NEW c, Endpoint(c, isn, peer, n, m, sent, acked),
         NEW d \in Connections, SenderOK(d.sender, isn, n, acked),
         c.sender.byte_sent <= d.sender.byte_sent,
         Receives(c.receiver, d.receiver, peer, m, sent),
         d.segments_out = c.segments_out
  PROVE  Steps(c, d, isn, peer, n, m, sent, acked)
<1> DEFINE h == <<>>
<1>1. SegmentsOK(h, isn, d.sender.byte_sent, peer, AckPoint(d.receiver))
  BY DEF SegmentsOK
<1>2. d.segments_out = c.segments_out \o h
  <2>1. c.segments_out \in Seq(Segment)
    BY EndpointFacts
  <2>2. c.segments_out \o <<>> = c.segments_out
    BY <2>1
  <2> QED BY <2>2
<1> HIDE DEF h
<1> QED BY Zenon, <1>1, <1>2, EndpointWith

\* A receiver that stays as it is.
LEMMA ReceivesSame ==
  ASSUME NEW peer, NEW m \in Nat, NEW sent \in Nat, NEW v, ReceiverOK(v, peer, m, sent)
  PROVE  Receives(v, v, peer, m, sent)
<1>1. AckPoint(v) \in Nat /\ bytes_written(v) \in Nat
  BY ReceiverFacts
<1> QED BY <1>1 DEF Receives

\* Steps follow each other.
LEMMA StepsOn ==
  ASSUME NEW isn, NEW peer, NEW n \in Nat, NEW m \in Nat, NEW sent \in Nat, NEW acked \in Nat,
         NEW c, Endpoint(c, isn, peer, n, m, sent, acked),
         NEW d, Steps(c, d, isn, peer, n, m, sent, acked),
         NEW e, Steps(d, e, isn, peer, n, m, sent, acked)
  PROVE  Steps(c, e, isn, peer, n, m, sent, acked)
<1>1. Endpoint(d, isn, peer, n, m, sent, acked) /\ Endpoint(e, isn, peer, n, m, sent, acked)
  BY DEF Steps
<1>2. /\ c.sender.byte_sent \in Nat /\ AckPoint(c.receiver) \in Nat
      /\ bytes_written(c.receiver) \in Nat
      /\ d.sender.byte_sent \in Nat /\ AckPoint(d.receiver) \in Nat
      /\ bytes_written(d.receiver) \in Nat
      /\ e.sender.byte_sent \in Nat /\ AckPoint(e.receiver) \in Nat
      /\ bytes_written(e.receiver) \in Nat
  BY <1>1, EndpointFacts
<1>3. c.sender.byte_sent <= e.sender.byte_sent
  BY <1>2 DEF Steps
<1>4. AckPoint(c.receiver) <= AckPoint(e.receiver)
  BY <1>2 DEF Steps
<1>5. bytes_written(c.receiver) <= bytes_written(e.receiver)
  BY <1>2 DEF Steps
<1> QED BY <1>1, <1>3, <1>4, <1>5 DEF Steps

\* The segments a sender has put out, as they leave.
LEMMA OutOK ==
  ASSUME Parts, NEW isn, NEW peer, NEW n \in Nat, NEW m \in Nat, NEW sent \in Nat, NEW acked \in Nat,
         NEW c, ReceiverOK(c.receiver, peer, m, sent),
         NEW s, SenderOK(s, isn, n, acked), NEW i \in 1 .. Len(s.segments_out)
  PROVE  SegmentOK(receiver_info(c, s.segments_out[i]), isn, s.byte_sent, peer,
                   AckPoint(c.receiver))
<1> DEFINE g == s.segments_out[i]
<1>1. s \in Senders /\ s.eof = FALSE
  BY Zenon, SenderFacts
<1>2. s.segments_out \in Seq(Segment)
  BY <1>1 DEF Senders
<1>3. g \in Segment
  BY <1>2
<1>4. Carries(isn, s.stream, FALSE, g) /\ End(g) <= s.byte_sent
  BY Zenon, <1>1 DEF SenderOK, Inv, Below
<1> HIDE DEF g
<1>5. SegmentOK(receiver_info(c, g), isn, s.byte_sent, peer, AckPoint(c.receiver))
  BY Zenon, <1>3, <1>4, InfoOK
<1> QED BY <1>5 DEF g

\* Neither stream has got more bytes.
SameBytes(c, d) ==
    /\ d.sender.stream.alwritten = c.sender.stream.alwritten
    /\ bytes_written(d.receiver) = bytes_written(c.receiver)

\* _segment_out.
LEMMA FlushOK ==
  ASSUME Parts, NEW isn, NEW peer, NEW n \in Nat, NEW m \in Nat, NEW sent \in Nat, NEW acked \in Nat,
         NEW c, Endpoint(c, isn, peer, n, m, sent, acked)
  PROVE  Steps(c, Flush(c), isn, peer, n, m, sent, acked) /\ SameBytes(c, Flush(c))
<1> DEFINE s == c.sender
           q == s.segments_out
           h == [i \in 1 .. Len(q) |-> receiver_info(c, q[i])]
           t == [s EXCEPT !.segments_out = <<>>]
           o == c.segments_out \o h
           d == [c EXCEPT !.sender = t, !.segments_out = o]
<1>1. /\ c \in Connections /\ s \in Senders /\ c.segments_out \in Seq(Segment)
      /\ SenderOK(s, isn, n, acked) /\ ReceiverOK(c.receiver, peer, m, sent)
      /\ s.byte_sent \in Nat
  BY EndpointFacts
<1>2. q \in Seq(Segment) /\ Len(q) \in Nat
  BY <1>1 DEF Senders
<1>3. \A i \in 1 .. Len(q) : SegmentOK(h[i], isn, s.byte_sent, peer, AckPoint(c.receiver))
  BY Zenon, <1>1, OutOK
<1>4. \A i \in 1 .. Len(q) : h[i] \in Segment
  <2> HIDE DEF h
  <2> QED BY <1>3 DEF SegmentOK
<1>5. h \in Seq(Segment) /\ Len(h) = Len(q)
  <2> HIDE DEF q
  <2> QED BY <1>2, <1>4
<1> HIDE DEF h
<1>6. SegmentsOK(h, isn, s.byte_sent, peer, AckPoint(c.receiver))
  BY <1>3, <1>5 DEF SegmentsOK
<1>7. Inv(s) /\ Inv(t)
  <2>1. Inv(s) /\ <<>> \in Seq(Segment)
    BY <1>1 DEF SenderOK
  <2> QED BY Zenon, <2>1 DEF Parts, QueuePart
<1>8. Stays(s, t) /\ t \in Senders
  <2> DEFINE e == <<>>
  <2>1. e \in Seq(Segment) /\ t = [s EXCEPT !.segments_out = e]
    OBVIOUS
  <2> HIDE DEF e, t, s
  <2> QED BY Zenon, <1>1, <2>1 DEF Stays, Senders
<1> HIDE DEF t
<1>9. SenderOK(t, isn, n, acked)
  BY <1>1, <1>7, <1>8, SenderStays
<1>10. o \in Seq(Segment)
  BY <1>1, <1>5
<1>11. /\ d \in Connections /\ d.sender = t /\ d.segments_out = o /\ d.receiver = c.receiver
  <2>1. c \in Connections /\ t \in Senders /\ o \in Seq(Segment)
    BY <1>1, <1>8, <1>10
  <2> HIDE DEF o
  <2> QED BY Zenon, <2>1 DEF Connections
<1>12. Flush(c) = d
  BY Zenon, <1>1 DEF Flush, t, h, Connections
<1> HIDE DEF d
<1>13. t.byte_sent = s.byte_sent /\ t.stream = s.stream
  BY <1>8 DEF Stays
<1>14. Receives(c.receiver, d.receiver, peer, m, sent)
  BY <1>1, <1>11, ReceivesSame
<1>15. s.byte_sent <= t.byte_sent
  BY <1>1, <1>13
<1>16. Steps(c, d, isn, peer, n, m, sent, acked)
  BY Zenon, <1>6, <1>9, <1>11, <1>13, <1>14, <1>15, EndpointWith
<1>17. SameBytes(c, d)
  BY <1>11, <1>13 DEF SameBytes
<1> QED BY <1>12, <1>16, <1>17

\* A reassembler whose output is in error.
LEMMA ErrorReassembler ==
  ASSUME NEW m \in Nat, NEW sent \in Nat, NEW r, ReassemblerOK(r, m, sent)
  PROVE  LET t == [r EXCEPT !.output = set_error(@)]
         IN  /\ ReassemblerOK(t, m, sent) /\ t.firstindex = r.firstindex
             /\ t.output.alread = r.output.alread /\ t.output.alwritten = r.output.alwritten
<1> DEFINE b == r.output
           o == set_error(b)
           t == [r EXCEPT !.output = o]
<1>1. GoodState(r, m)
  BY DEF ReassemblerOK
<1>2. r \in Reassemblers /\ GoodOutput(b) /\ r.threw = FALSE
  BY <1>1 DEF GoodState
<1>3. b \in ByteStreams
  BY <1>2 DEF Reassemblers
<1>4. /\ o \in ByteStreams /\ o.content = b.content /\ o.end = b.end /\ o.max = b.max
      /\ o.alread = b.alread /\ o.alwritten = b.alwritten
  BY Zenon, <1>3, ErrorStream
<1> HIDE DEF o, b
<1>5. /\ t \in Reassemblers /\ t.output = o /\ t.checkeof = r.checkeof
      /\ t.firstindex = r.firstindex /\ t.storelist = r.storelist /\ t.threw = r.threw
      /\ t.unassembled = r.unassembled
  BY <1>2, <1>4 DEF Reassemblers
<1> HIDE DEF t
<1>6. GoodOutput(o)
  BY <1>2, <1>4 DEF GoodOutput
<1>7. GoodState(t, m)
  BY <1>1, <1>2, <1>4, <1>5, <1>6 DEF GoodState, b
<1>8. Limit(t) = Limit(r)
  BY <1>4, <1>5 DEF Limit, b
<1>9. ReassemblerOK(t, m, sent)
  BY <1>4, <1>5, <1>7, <1>8 DEF ReassemblerOK, b
<1> QED BY <1>4, <1>5, <1>9 DEF t, o, b

\* A receiver whose stream is in error.
LEMMA ErrorReceiver ==
  ASSUME NEW m \in Nat, NEW sent \in Nat, NEW peer, NEW v, ReceiverOK(v, peer, m, sent)
  PROVE  LET w == [v EXCEPT !.reassembler = [v.reassembler EXCEPT !.output = set_error(@)]]
         IN  /\ w \in Receivers /\ Receives(v, w, peer, m, sent)
             /\ bytes_written(w) = bytes_written(v)
<1> DEFINE r == v.reassembler
           t == [r EXCEPT !.output = set_error(@)]
           w == [v EXCEPT !.reassembler = t]
<1>1. /\ v \in Receivers /\ ReassemblerOK(r, m, sent)
  BY DEF ReceiverOK
<1>2. /\ ReassemblerOK(t, m, sent) /\ t.firstindex = r.firstindex
      /\ t.output.alread = r.output.alread /\ t.output.alwritten = r.output.alwritten
  BY <1>1, ErrorReassembler
<1>3. t \in Reassemblers
  BY <1>2 DEF ReassemblerOK, GoodState
<1> HIDE DEF t
<1>4. /\ w \in Receivers /\ w.isn = v.isn /\ w.isnset = v.isnset /\ w.finset = v.finset
      /\ w.reassembler = t
  BY <1>1, <1>3 DEF Receivers
<1> HIDE DEF w
<1>5. ReceiverOK(w, peer, m, sent)
  BY <1>2, <1>4 DEF ReceiverOK
<1>6. bytes_written(w) = bytes_written(v) /\ AckPoint(w) = AckPoint(v)
  BY <1>2, <1>4 DEF bytes_written, AckPoint
<1>7. bytes_written(v) \in Nat /\ AckPoint(v) \in Nat
  BY ReceiverFacts
<1>8. Receives(v, w, peer, m, sent)
  BY <1>2, <1>4, <1>5, <1>6, <1>7 DEF Receives
<1> QED BY <1>4, <1>6, <1>8 DEF w, t

\* Both streams in error and the connection dead.
LEMMA KillOK ==
  ASSUME Parts, NEW isn, NEW peer, NEW n \in Nat, NEW m \in Nat, NEW sent \in Nat, NEW acked \in Nat,
         NEW c, Endpoint(c, isn, peer, n, m, sent, acked)
  PROVE  Steps(c, Kill(c), isn, peer, n, m, sent, acked) /\ SameBytes(c, Kill(c))
<1> DEFINE s == c.sender
           b == s.stream
           e == set_error(b)
           t == [s EXCEPT !.stream = e]
           v == c.receiver
           w == [v EXCEPT !.reassembler = [v.reassembler EXCEPT !.output = set_error(@)]]
           d == [c EXCEPT !.rst = TRUE, !.sender = t, !.receiver = w]
<1>1. /\ c \in Connections /\ s \in Senders /\ v \in Receivers
      /\ SenderOK(s, isn, n, acked) /\ ReceiverOK(v, peer, m, sent) /\ s.byte_sent \in Nat
  BY EndpointFacts
<1>2. b \in ByteStreams /\ StreamInv(b) /\ b.end = FALSE /\ b.alwritten <= n
  BY <1>1 DEF SenderOK, Inv, Senders
<1>3. /\ e \in ByteStreams /\ e.content = b.content /\ e.end = b.end /\ e.max = b.max
      /\ e.alread = b.alread /\ e.alwritten = b.alwritten
  BY Zenon, <1>2, ErrorStream
<1>4. Kill(c) = d
  BY <1>1 DEF Kill, Connections, Senders, Receivers, Reassemblers
<1> HIDE DEF e
<1>5. StreamInv(e)
  BY <1>2, <1>3 DEF StreamInv
<1>6. SenderOK(t, isn, n, acked) /\ t.stream = e /\ t.byte_sent = s.byte_sent
  <2>1. Restreamed(s, t, e, n)
    BY <1>2, <1>3, <1>5 DEF Restreamed
  <2> HIDE DEF s, t
  <2> QED BY <1>1, <2>1, SenderStream
<1>7. t \in Senders
  BY <1>6 DEF SenderOK, Inv
<1>8. w \in Receivers /\ Receives(v, w, peer, m, sent) /\ bytes_written(w) = bytes_written(v)
  BY <1>1, ErrorReceiver
<1> HIDE DEF t, w
<1>9. /\ d \in Connections /\ d.sender = t /\ d.segments_out = c.segments_out /\ d.receiver = w
  BY Zenon, <1>1, <1>7, <1>8 DEF Connections
<1> HIDE DEF d
<1>10. s.byte_sent <= d.sender.byte_sent
  BY <1>1, <1>6, <1>9
<1>11. Steps(c, d, isn, peer, n, m, sent, acked)
  BY <1>6, <1>8, <1>9, <1>10, EndpointQuiet
<1>12. SameBytes(c, d)
  BY <1>3, <1>6, <1>8, <1>9 DEF SameBytes
<1> QED BY <1>4, <1>11, <1>12

\* send_empty_segment puts a segment on its way out.
LEMMA EmptyOK ==
  ASSUME Parts, NEW isn, NEW n \in Nat, NEW acked \in Nat, NEW s, SenderOK(s, isn, n, acked)
  PROVE  LET t == send_empty_segment(s)
         IN  /\ SenderOK(t, isn, n, acked) /\ Stays(s, t) /\ t \in Senders
             /\ t.segments_out # <<>>
<1> DEFINE t == send_empty_segment(s)
           g == [BlankSegment EXCEPT !.abs = s.byte_sent, !.seqno = wrap(s.byte_sent, s.isn)]
           q == s.segments_out
<1>1. Inv(s) /\ s \in Senders
  BY DEF SenderOK, Inv
<1>2. q \in Seq(Segment)
  BY <1>1 DEF Senders
<1>3. t = [s EXCEPT !.segments_out = Append(q, g)]
  BY <1>1 DEF send_empty_segment
<1>4. Inv(t) /\ Stays(s, t)
  BY Zenon, <1>1 DEF Parts, QueuePart
<1>5. SenderOK(t, isn, n, acked)
  BY <1>4, SenderStays
<1>6. Append(q, g) # <<>>
  <2> HIDE DEF q, g
  <2>1. Len(Append(q, g)) = Len(q) + 1 /\ Len(q) \in Nat
    BY <1>2
  <2> QED BY <2>1
<1>7. t.segments_out # <<>>
  <2> DEFINE a == Append(q, g)
  <2>1. t = [s EXCEPT !.segments_out = a] /\ a # <<>>
    BY <1>3, <1>6
  <2> HIDE DEF a, t
  <2> QED BY <1>1, <2>1 DEF Senders
<1> QED BY <1>4, <1>5, <1>7 DEF Inv

\* _rst_segment.
LEMMA RstOK ==
  ASSUME Parts, NEW isn, NEW peer, NEW n \in Nat, NEW m \in Nat, NEW sent \in Nat, NEW acked \in Nat,
         NEW c, Endpoint(c, isn, peer, n, m, sent, acked)
  PROVE  Steps(c, RstSegment(c), isn, peer, n, m, sent, acked) /\ SameBytes(c, RstSegment(c))
<1> DEFINE s == IF c.sender.segments_out = <<>> THEN send_empty_segment(c.sender) ELSE c.sender
           q == s.segments_out
           g == [receiver_info(c, Head(q)) EXCEPT !.rst = TRUE]
           t == [s EXCEPT !.segments_out = Tail(@)]
           o == Append(c.segments_out, g)
           d == [c EXCEPT !.sender = t, !.segments_out = o]
<1>1. /\ c \in Connections /\ c.sender \in Senders /\ c.segments_out \in Seq(Segment)
      /\ SenderOK(c.sender, isn, n, acked) /\ ReceiverOK(c.receiver, peer, m, sent)
      /\ c.sender.byte_sent \in Nat
  BY EndpointFacts
<1>2. Stays(c.sender, c.sender)
  BY DEF Stays
<1>3. SenderOK(s, isn, n, acked) /\ Stays(c.sender, s) /\ q # <<>>
  BY Zenon, <1>1, <1>2, EmptyOK
<1>4. RstSegment(c) = d
  BY Zenon, <1>1 DEF RstSegment, Connections
<1> HIDE DEF s
<1>5. Inv(s) /\ s \in Senders /\ q \in Seq(Segment)
  BY <1>3 DEF SenderOK, Inv, Senders
<1>6. 1 \in 1 .. Len(q) /\ Head(q) = q[1]
  <2> HIDE DEF q
  <2> QED BY <1>3, <1>5
<1>7. SegmentOK(g, isn, s.byte_sent, peer, AckPoint(c.receiver))
  <2>1. SegmentOK(receiver_info(c, q[1]), isn, s.byte_sent, peer, AckPoint(c.receiver))
    BY Zenon, <1>1, <1>3, <1>6, OutOK
  <2> HIDE DEF q
  <2> QED BY <1>6, <2>1, SegmentRst
<1>8. Inv(t) /\ Stays(s, t) /\ t \in Senders
  <2>1. Inv(t) /\ Stays(s, t)
    BY Zenon, <1>3, <1>5 DEF Parts, QueuePart
  <2> QED BY <2>1 DEF Inv
<1> HIDE DEF g, t
<1>9. o = c.segments_out \o <<g>> /\ o \in Seq(Segment)
  <2>1. g \in Segment
    BY <1>7 DEF SegmentOK
  <2> QED BY <1>1, <2>1
<1> HIDE DEF o
<1>10. /\ d \in Connections /\ d.sender = t /\ d.segments_out = o /\ d.receiver = c.receiver
  BY Zenon, <1>1, <1>8, <1>9 DEF Connections
<1> HIDE DEF d
<1>11. t.byte_sent = c.sender.byte_sent /\ t.stream = c.sender.stream /\ t.byte_sent = s.byte_sent
  BY <1>3, <1>8 DEF Stays
<1>12. SenderOK(t, isn, n, acked)
  BY <1>3, <1>8, SenderStays
<1>13. Receives(c.receiver, d.receiver, peer, m, sent)
  BY <1>1, <1>10, ReceivesSame
<1>14. SegmentsOK(<<g>>, isn, d.sender.byte_sent, peer, AckPoint(d.receiver))
  BY <1>7, <1>10, <1>11, SegmentsOne
<1>15. c.sender.byte_sent <= d.sender.byte_sent
  BY <1>1, <1>10, <1>11
<1>16. d.segments_out = c.segments_out \o <<g>> /\ SenderOK(d.sender, isn, n, acked)
  BY <1>9, <1>10, <1>12
<1>17. Steps(c, d, isn, peer, n, m, sent, acked)
  BY Zenon, <1>10, <1>13, <1>14, <1>15, <1>16, EndpointWith
<1>18. SameBytes(c, d)
  BY <1>10, <1>11 DEF SameBytes
<1> QED BY <1>4, <1>17, <1>18

\* A step of the sender alone.
LEMMA SenderStep ==
  ASSUME Parts, NEW isn, NEW peer, NEW n \in Nat, NEW m \in Nat, NEW sent \in Nat, NEW acked \in Nat,
         NEW c, Endpoint(c, isn, peer, n, m, sent, acked),
         NEW t, SenderOK(t, isn, n, acked), c.sender.byte_sent <= t.byte_sent
  PROVE  /\ Steps(c, [c EXCEPT !.sender = t], isn, peer, n, m, sent, acked)
         /\ [c EXCEPT !.sender = t].sender = t /\ [c EXCEPT !.sender = t].receiver = c.receiver
<1> DEFINE d == [c EXCEPT !.sender = t]
<1>1. c \in Connections /\ ReceiverOK(c.receiver, peer, m, sent)
  BY EndpointFacts
<1>2. t \in Senders
  BY DEF SenderOK, Inv
<1>3. /\ d \in Connections /\ d.sender = t /\ d.receiver = c.receiver
      /\ d.segments_out = c.segments_out
  BY <1>1, <1>2 DEF Connections
<1> HIDE DEF d
<1>4. Receives(c.receiver, d.receiver, peer, m, sent)
  BY <1>1, <1>3, ReceivesSame
<1>5. SenderOK(d.sender, isn, n, acked) /\ c.sender.byte_sent <= d.sender.byte_sent
  BY <1>3
<1>6. Steps(c, d, isn, peer, n, m, sent, acked)
  BY <1>3, <1>4, <1>5, EndpointQuiet
<1> QED BY <1>3, <1>6 DEF d

\* The sender becomes t, and what it has put out is sent.
FlushWith(c, t) == Flush([c EXCEPT !.sender = t])

Flushed(c, t, d, isn, peer, n, m, sent, acked) ==
    /\ Steps(c, d, isn, peer, n, m, sent, acked)
    /\ d.sender.stream.alwritten = t.stream.alwritten
    /\ bytes_written(d.receiver) = bytes_written(c.receiver)

\* It is an endpoint again.
LEMMA FlushStep ==
  ASSUME Parts, NEW isn, NEW peer, NEW n \in Nat, NEW m \in Nat, NEW sent \in Nat, NEW acked \in Nat,
         NEW c, Endpoint(c, isn, peer, n, m, sent, acked),
         NEW t, SenderOK(t, isn, n, acked), c.sender.byte_sent <= t.byte_sent
  PROVE  Flushed(c, t, FlushWith(c, t), isn, peer, n, m, sent, acked)
<1> DEFINE e == [c EXCEPT !.sender = t]
           d == FlushWith(c, t)
<1>1. /\ Steps(c, e, isn, peer, n, m, sent, acked) /\ e.sender = t /\ e.receiver = c.receiver
  BY SenderStep
<1> HIDE DEF e
<1>2. Endpoint(e, isn, peer, n, m, sent, acked)
  BY <1>1 DEF Steps
<1>3. Steps(e, d, isn, peer, n, m, sent, acked) /\ SameBytes(e, d)
  BY <1>2, FlushOK DEF e, FlushWith
<1> HIDE DEF d
<1>4. Steps(c, d, isn, peer, n, m, sent, acked)
  BY <1>1, <1>3, StepsOn
<1>5. /\ d.sender.stream.alwritten = t.stream.alwritten
      /\ bytes_written(d.receiver) = bytes_written(c.receiver)
  BY <1>1, <1>3 DEF SameBytes
<1> QED BY <1>4, <1>5 DEF Flushed, d

\* connect.
LEMMA ConnectOK ==
  ASSUME Parts, NEW isn, NEW peer, NEW n \in Nat, NEW m \in Nat, NEW sent \in Nat, NEW acked \in Nat,
         NEW c, Endpoint(c, isn, peer, n, m, sent, acked)
  PROVE  Steps(c, connect(c), isn, peer, n, m, sent, acked) /\ SameBytes(c, connect(c))
<1> DEFINE t == fill_window(c.sender)
           d == connect(c)
<1>1. c \in Connections /\ SenderOK(c.sender, isn, n, acked)
  BY EndpointFacts
<1>2. SenderOK(t, isn, n, acked) /\ Moves(c.sender, t)
  BY <1>1, SenderFill
<1>3. d = FlushWith(c, t)
  BY <1>1 DEF connect, FlushWith
<1> HIDE DEF t, d
<1>4. c.sender.byte_sent <= t.byte_sent /\ t.stream.alwritten = c.sender.stream.alwritten
  BY <1>2 DEF Moves
<1>5. Flushed(c, t, d, isn, peer, n, m, sent, acked)
  BY <1>2, <1>3, <1>4, FlushStep
<1> QED BY <1>4, <1>5 DEF SameBytes, d, Flushed

\* d is c after a write of k bytes.
Writes(c, k, d, isn, peer, n, m, sent, acked) ==
    /\ Steps(c, d, isn, peer, n, m, sent, acked)
    /\ d.sender.stream.alwritten = c.sender.stream.alwritten + k
    /\ bytes_written(d.receiver) = bytes_written(c.receiver)

\* write, of k bytes for which there is room.
LEMMA WriteOK ==
  ASSUME Parts, NEW isn, NEW peer, NEW n \in Nat, NEW m \in Nat, NEW sent \in Nat, NEW acked \in Nat,
         NEW c, Endpoint(c, isn, peer, n, m, sent, acked), NEW k \in Nat,
         k <= remaining_capacity(c.sender.stream), c.sender.stream.alwritten + k <= n
  PROVE  Writes(c, k, write_out(c, NextBytes(c.sender.stream, k)), isn, peer, n, m, sent, acked)
<1> DEFINE s == c.sender
           b == s.stream
           e == write(b, NextBytes(b, k))
           u == [s EXCEPT !.stream = e]
           t == fill_window(u)
           d == write_out(c, NextBytes(b, k))
<1>1. c \in Connections /\ SenderOK(s, isn, n, acked) /\ s.byte_sent \in Nat /\ s \in Senders
  BY EndpointFacts
<1>2. b \in ByteStreams /\ StreamInv(b) /\ b.end = FALSE
  BY <1>1 DEF SenderOK, Inv, Senders
<1>3. Lesser(remaining_capacity(b), k) = k
  <2>1. b.max \in Nat /\ Len(b.content) \in Nat
    BY <1>2 DEF ByteStreams
  <2> HIDE DEF b
  <2>2. remaining_capacity(b) \in Int
    BY <2>1 DEF remaining_capacity
  <2>3. k <= remaining_capacity(b)
    BY DEF b
  <2> QED BY <2>2, <2>3 DEF Lesser
<1>4. /\ e \in ByteStreams /\ StreamInv(e) /\ e.alread = b.alread
      /\ e.alwritten = b.alwritten + k /\ e.end = b.end
  <2> HIDE DEF b
  <2>1. StreamPart
    BY Zenon DEF Parts
  <2>2. LET w == write(b, NextBytes(b, k))
        IN  /\ w \in ByteStreams /\ StreamInv(w) /\ w.alread = b.alread
            /\ w.alwritten = b.alwritten + Lesser(remaining_capacity(b), k)
            /\ w.end = b.end /\ w.error = b.error
    BY ONLY Zenon, <1>2, <2>1, k \in Nat DEF StreamPart
  <2> QED BY Zenon, <1>3, <2>2
<1>5. d = FlushWith(c, t)
  BY <1>1 DEF write_out, FlushWith
<1> HIDE DEF e
<1>6. Restreamed(s, u, e, n)
  BY <1>2, <1>4 DEF Restreamed
<1> HIDE DEF u
<1>7. SenderOK(u, isn, n, acked) /\ u.stream = e /\ u.byte_sent = s.byte_sent
  <2> HIDE DEF s
  <2>1. SenderOK(s, isn, n, acked)
    BY Zenon, <1>1
  <2>2. ASSUME NEW v, NEW w, Restreamed(s, v, w, n)
        PROVE  SenderOK(v, isn, n, acked) /\ v.stream = w /\ v.byte_sent = s.byte_sent
    BY ONLY Parts, n \in Nat, acked \in Nat, <2>1, <2>2, SenderStream
  <2> QED BY Zenon, <1>6, <2>2
<1>8. SenderOK(t, isn, n, acked) /\ Moves(u, t)
  BY Zenon, <1>7, SenderFill
<1> HIDE DEF t, d
<1>9. s.byte_sent <= t.byte_sent /\ t.stream.alwritten = b.alwritten + k
  BY <1>4, <1>7, <1>8 DEF Moves
<1>10. Flushed(c, t, d, isn, peer, n, m, sent, acked)
  BY <1>5, <1>8, <1>9, FlushStep
<1> QED BY <1>9, <1>10 DEF d, Flushed, Writes

\* tick, with the reset after too many retransmissions.
LEMMA TickOK ==
  ASSUME Parts, NEW isn, NEW peer, NEW n \in Nat, NEW m \in Nat, NEW sent \in Nat, NEW acked \in Nat,
         NEW c, Endpoint(c, isn, peer, n, m, sent, acked), NEW ms \in Nat
  PROVE  /\ Steps(c, tick_connection(c, ms), isn, peer, n, m, sent, acked)
         /\ SameBytes(c, tick_connection(c, ms))
<1> DEFINE s == c.sender
           t == tick(s, ms)
           i == Lesser(c.idle + ms, LingerTime)
           d == [c EXCEPT !.sender = t, !.idle = i]
           e == IF d.sender.consecutive_retrans > MAX_RETX_ATTEMPTS
                THEN RstSegment(Kill(d)) ELSE d
           Goal(x) == Steps(c, x, isn, peer, n, m, sent, acked) /\ SameBytes(c, x)
<1>1. /\ c \in Connections /\ SenderOK(s, isn, n, acked) /\ ReceiverOK(c.receiver, peer, m, sent)
      /\ s.byte_sent \in Nat
  BY EndpointFacts
<1>2. Inv(t) /\ Stays(s, t)
  <2>1. Inv(s)
    BY <1>1 DEF SenderOK
  <2> QED BY <2>1 DEF Parts, TickPart
<1>3. SenderOK(t, isn, n, acked) /\ t \in Senders
  BY Zenon, <1>1, <1>2, SenderStays DEF Inv
<1>4. i \in Nat
  <2>1. c.idle \in Nat
    BY <1>1 DEF Connections
  <2> QED BY <2>1, ConnectionAssumption DEF Lesser
<1>5. tick_connection(c, ms) = Flush(e)
  BY <1>1 DEF tick_connection
<1> HIDE DEF t, i
<1>6. /\ d \in Connections /\ d.sender = t /\ d.receiver = c.receiver
      /\ d.segments_out = c.segments_out
  BY Zenon, <1>1, <1>3, <1>4 DEF Connections
<1> HIDE DEF d
<1>7. t.byte_sent = s.byte_sent /\ t.stream = s.stream
  BY <1>2 DEF Stays
<1>8. Receives(c.receiver, d.receiver, peer, m, sent)
  BY <1>1, <1>6, ReceivesSame
<1>9. SenderOK(d.sender, isn, n, acked) /\ s.byte_sent <= d.sender.byte_sent
  BY <1>1, <1>3, <1>6, <1>7
<1>10. Goal(d)
  <2>1. Steps(c, d, isn, peer, n, m, sent, acked)
    BY <1>6, <1>8, <1>9, EndpointQuiet
  <2> QED BY <2>1, <1>6, <1>7 DEF SameBytes
<1>11. ASSUME NEW x, NEW y, Goal(x), Steps(x, y, isn, peer, n, m, sent, acked), SameBytes(x, y)
       PROVE  Goal(y)
  <2>1. Steps(c, y, isn, peer, n, m, sent, acked)
    BY <1>11, StepsOn
  <2> QED BY <2>1, <1>11 DEF SameBytes
<1>12. \A x : Goal(x) => Endpoint(x, isn, peer, n, m, sent, acked)
  BY DEF Steps
<1> HIDE DEF Goal
<1>13. Goal(Kill(d))
  BY <1>10, <1>11, <1>12, KillOK
<1>14. Goal(RstSegment(Kill(d)))
  BY <1>11, <1>12, <1>13, RstOK
<1>15. Goal(e)
  BY <1>10, <1>14
<1> HIDE DEF e
<1>16. Goal(Flush(e))
  BY <1>11, <1>12, <1>15, FlushOK
<1> QED BY <1>5, <1>16 DEF Goal

\* The receiver goes on and the sender takes the acknowledgment or fills the window.
LEMMA ProcessOK ==
  ASSUME Parts, NEW isn, NEW peer, NEW n, NEW m, NEW sent, NEW acked, Bounds(n, m, sent, acked, peer),
         NEW c, Endpoint(c, isn, peer, n, m, sent, acked),
         sent <= AckPoint(c.receiver) + RecvCapacity,
         NEW g, SegmentOK(g, peer, sent, isn, acked)
  PROVE  /\ Steps(c, Process(c, g), isn, peer, n, m, sent, acked)
         /\ Process(c, g).sender.stream.alwritten = c.sender.stream.alwritten
<1> DEFINE s == c.sender
           t == IF g.ack THEN ack_received(s, g.ackno, g.win) ELSE fill_window(s)
           w == receive(c.receiver, g)
           l == c.linger /\ ~(inbound_stream(c).end /\ ~s.eof)
           d == [c EXCEPT !.linger = l, !.sender = t, !.receiver = w]
<1>1. /\ n \in Nat /\ m \in Nat /\ sent \in Nat /\ acked \in Nat /\ peer \in 0 .. SeqSpace - 1
      /\ 2 * (n + 2) < SeqSpace /\ 2 * (m + 2) < SeqSpace /\ sent <= m + 1 /\ acked <= n + 1
  BY DEF Bounds
<1>2. /\ c \in Connections /\ SenderOK(s, isn, n, acked) /\ ReceiverOK(c.receiver, peer, m, sent)
  BY <1>1, EndpointFacts
<1>3. g \in Segment /\ g.win \in Nat /\ g.ack \in BOOLEAN
      /\ (g.ack => g.win <= RecvCapacity /\ \E a \in 0 .. acked : g.ackno = wrap(a, isn))
  BY DEF SegmentOK, Segment
<1>4. SenderOK(t, isn, n, acked) /\ Moves(s, t)
  <2>1. CASE g.ack
    <3>1. PICK a \in 0 .. acked : g.ackno = wrap(a, isn)
      BY <1>3, <2>1
    <3>2. g.win \in 0 .. RecvCapacity
      BY <1>3, <2>1, Numbers
    <3>3. /\ SenderOK(ack_received(s, wrap(a, isn), g.win), isn, n, acked)
          /\ Moves(s, ack_received(s, wrap(a, isn), g.win))
      BY <1>1, <1>2, <3>2, SenderAck
    <3> QED BY <2>1, <3>1, <3>3
  <2>2. CASE ~g.ack
    BY <1>1, <1>2, <2>2, SenderFill
  <2> QED BY <2>1, <2>2
<1>5. Receives(c.receiver, w, peer, m, sent)
  BY <1>1, <1>2, ReceiveOK
<1>6. t \in Senders /\ w \in Receivers /\ l \in BOOLEAN
  <2>1. t \in Senders
    BY Zenon, <1>4 DEF SenderOK, Inv
  <2>2. w \in Receivers
    BY Zenon, <1>5 DEF Receives, ReceiverOK
  <2>3. l \in BOOLEAN
    BY <1>2 DEF Connections
  <2> QED BY <2>1, <2>2, <2>3
<1>7. Process(c, g) = d
  BY <1>2 DEF Process
<1> HIDE DEF t, w, l
<1>8. /\ d \in Connections /\ d.sender = t /\ d.receiver = w /\ d.segments_out = c.segments_out
  BY Zenon, <1>2, <1>6 DEF Connections
<1> HIDE DEF d
<1>9. s.byte_sent <= t.byte_sent /\ t.stream.alwritten = s.stream.alwritten
  BY <1>4 DEF Moves
<1>10. Steps(c, d, isn, peer, n, m, sent, acked)
  <2>1. /\ SenderOK(d.sender, isn, n, acked) /\ s.byte_sent <= d.sender.byte_sent
        /\ Receives(c.receiver, d.receiver, peer, m, sent)
    BY <1>4, <1>5, <1>8, <1>9
  <2> QED BY <1>1, <1>8, <2>1, EndpointQuiet
<1> QED BY <1>7, <1>8, <1>9, <1>10

\* The answer, if there is one.
LEMMA AnsweredOK ==
  ASSUME Parts, NEW isn, NEW peer, NEW n \in Nat, NEW m \in Nat, NEW sent \in Nat, NEW acked \in Nat,
         NEW c, Endpoint(c, isn, peer, n, m, sent, acked), NEW quiet
  PROVE  /\ Steps(c, Answered(c, quiet), isn, peer, n, m, sent, acked)
         /\ SameBytes(c, Answered(c, quiet))
<1> DEFINE s == c.sender
           t == send_empty_segment(s)
<1>1. /\ c \in Connections /\ SenderOK(s, isn, n, acked) /\ ReceiverOK(c.receiver, peer, m, sent)
      /\ s.byte_sent \in Nat /\ AckPoint(c.receiver) \in Nat /\ bytes_written(c.receiver) \in Nat
  BY EndpointFacts
<1>2. Steps(c, c, isn, peer, n, m, sent, acked) /\ SameBytes(c, c)
  BY <1>1 DEF Steps, SameBytes
<1>3. Steps(c, Flush(c), isn, peer, n, m, sent, acked) /\ SameBytes(c, Flush(c))
  BY FlushOK
<1>4. /\ Steps(c, FlushWith(c, t), isn, peer, n, m, sent, acked)
      /\ SameBytes(c, FlushWith(c, t))
  <2> DEFINE d == FlushWith(c, t)
  <2>1. SenderOK(t, isn, n, acked) /\ Stays(s, t)
    BY <1>1, EmptyOK
  <2>2. s.byte_sent <= t.byte_sent /\ t.stream = s.stream
    BY <1>1, <2>1 DEF Stays
  <2> HIDE DEF t
  <2>3. d = FlushWith(c, t)
    OBVIOUS
  <2> HIDE DEF d
  <2>4. Flushed(c, t, d, isn, peer, n, m, sent, acked)
    BY <2>1, <2>2, <2>3, FlushStep
  <2> QED BY <2>2, <2>4 DEF SameBytes, d, Flushed
<1>5. Answered(c, quiet) = IF quiet THEN c ELSE
        IF s.segments_out = <<>> /\ c.receiver.isnset THEN FlushWith(c, t) ELSE Flush(c)
  BY <1>1 DEF Answered, Answer, FlushWith
<1> HIDE DEF t
<1> QED BY <1>2, <1>3, <1>4, <1>5

\* segment_received.
LEMMA ReceivedOK ==
  ASSUME Parts, NEW isn, NEW peer, NEW n, NEW m, NEW sent, NEW acked, Bounds(n, m, sent, acked, peer),
         NEW c, Endpoint(c, isn, peer, n, m, sent, acked),
         sent <= AckPoint(c.receiver) + RecvCapacity,
         NEW g, SegmentOK(g, peer, sent, isn, acked)
  PROVE  LET d == segment_received(c, g)
         IN  /\ Steps(c, d, isn, peer, n, m, sent, acked)
             /\ d.sender.stream.alwritten = c.sender.stream.alwritten
<1> DEFINE e == [c EXCEPT !.idle = 0]
           f == Process(e, g)
           q == Quiet(e, g)
           Goal(x) == /\ Steps(c, x, isn, peer, n, m, sent, acked)
                      /\ x.sender.stream.alwritten = c.sender.stream.alwritten
<1>1. n \in Nat /\ m \in Nat /\ sent \in Nat /\ acked \in Nat
  BY DEF Bounds
<1>2. /\ c \in Connections /\ SenderOK(c.sender, isn, n, acked)
      /\ ReceiverOK(c.receiver, peer, m, sent) /\ c.sender.byte_sent \in Nat
  BY <1>1, EndpointFacts
<1>3. segment_received(c, g) = IF g.rst THEN Kill(e) ELSE IF Ignored(e, g) THEN e
                               ELSE Answered(f, q)
  BY DEF segment_received
<1>4. /\ e \in Connections /\ e.sender = c.sender /\ e.receiver = c.receiver
      /\ e.segments_out = c.segments_out
  BY <1>2 DEF Connections
<1> HIDE DEF e
<1>5. Goal(e)
  <2>1. Receives(c.receiver, e.receiver, peer, m, sent)
    BY <1>1, <1>2, <1>4, ReceivesSame
  <2>2. SenderOK(e.sender, isn, n, acked) /\ c.sender.byte_sent <= e.sender.byte_sent
    BY <1>2, <1>4
  <2>3. Steps(c, e, isn, peer, n, m, sent, acked)
    BY <1>1, <1>4, <2>1, <2>2, EndpointQuiet
  <2> QED BY <1>4, <2>3
<1>6. ASSUME NEW x, NEW y, Goal(x), Steps(x, y, isn, peer, n, m, sent, acked),
             y.sender.stream.alwritten = x.sender.stream.alwritten
      PROVE  Goal(y)
  BY <1>1, <1>6, StepsOn
<1>7. \A x : Goal(x) => Endpoint(x, isn, peer, n, m, sent, acked)
  BY DEF Steps
<1> HIDE DEF Goal
<1>8. Goal(Kill(e))
  BY <1>1, <1>5, <1>6, <1>7, KillOK DEF SameBytes
<1>9. Goal(f)
  <2>1. sent <= AckPoint(e.receiver) + RecvCapacity
    BY <1>4
  <2> QED BY <1>5, <1>6, <1>7, <2>1, ProcessOK
<1> HIDE DEF f, q
<1>10. Goal(Answered(f, q))
  BY Zenon, <1>1, <1>6, <1>7, <1>9, AnsweredOK DEF SameBytes
<1>11. Goal(segment_received(c, g))
  BY <1>3, <1>5, <1>8, <1>10
<1> QED BY <1>11 DEF Goal

\* d is what the endpoint c becomes when its application reads all there is.
Reads(c, d, isn, peer, n, m, sent, acked) ==
    LET b == inbound_stream(c)
        o == inbound_stream(d)
    IN  /\ Endpoint(d, isn, peer, n, m, sent, acked) /\ d.sender = c.sender
        /\ d.segments_out = c.segments_out /\ AckPoint(d.receiver) = AckPoint(c.receiver)
        /\ o.content = SubSeq(b.content, Len(b.content) + 1, Len(b.content))
        /\ o.alread = b.alread + Len(b.content)

ReadAll(c) ==
    [c EXCEPT !.receiver.reassembler.output = pop_output(@, Len(inbound_stream(c).content))]

\* Reading keeps an endpoint, and takes nothing but what is read.
LEMMA ReadOK ==
  ASSUME Parts, NEW isn, NEW peer, NEW n \in Nat, NEW m \in Nat, NEW sent \in Nat, NEW acked \in Nat,
         NEW c, Endpoint(c, isn, peer, n, m, sent, acked)
  PROVE  Reads(c, ReadAll(c), isn, peer, n, m, sent, acked)
<1> DEFINE v == c.receiver
           r == v.reassembler
           b == r.output
           k == Len(b.content)
           o == pop_output(b, k)
           t == [r EXCEPT !.output = pop_output(@, k)]
           w == [v EXCEPT !.reassembler = t]
           d == [c EXCEPT !.receiver = w]
<1>1. /\ c \in Connections /\ v \in Receivers /\ ReceiverOK(v, peer, m, sent)
      /\ SenderOK(c.sender, isn, n, acked) /\ c.sender \in Senders
  BY EndpointFacts
<1>2. r \in Reassemblers /\ b \in ByteStreams /\ k \in Nat
  <2>1. r \in Reassemblers /\ b \in ByteStreams
    BY <1>1, ReceiverFacts
  <2> QED BY <2>1 DEF ByteStreams
<1>3. ReadAll(c) = d
  BY <1>1 DEF ReadAll, inbound_stream, Connections, Receivers, Reassemblers
<1>4. ReassemblerOK(r, m, sent) /\ v.finset = FALSE
      /\ (v.isnset => v.isn = peer /\ sent >= 1) /\ (~v.isnset => r.firstindex = 0)
  BY <1>1 DEF ReceiverOK
<1>5. GoodState(r, m)
  BY <1>4 DEF ReassemblerOK
<1>6. o.content = SubSeq(b.content, k + 1, k) /\ o.alread = b.alread + k /\ t.output = o
  <2>1. Lesser(buffer_size(b), k) = k
    BY <1>2 DEF Lesser, buffer_size
  <2>2. o = [b EXCEPT !.content = SubSeq(b.content, k + 1, k), !.alread = b.alread + k]
    BY <2>1 DEF pop_output
  <2> QED BY Zenon, <1>2, <2>2 DEF ByteStreams, Reassemblers
<1>7. ReadBytes(r, k, t, m)
  <2>1. k <= buffer_size(r.output)
    BY <1>2 DEF buffer_size
  <2> HIDE DEF k, r
  <2> QED BY <1>2, <1>5, <2>1 DEF Parts, ReadPart
<1> HIDE DEF t, o
<1>8. /\ GoodState(t, m) /\ t.checkeof = r.checkeof /\ t.firstindex = r.firstindex
      /\ t.storelist = r.storelist /\ t.output.max = b.max /\ t.output.end = b.end
      /\ t.output.alread = b.alread + k
  BY <1>7 DEF ReadBytes
<1>9. t \in Reassemblers /\ t.firstindex = t.output.alwritten /\ r.firstindex = b.alwritten
  BY <1>5, <1>8 DEF GoodState<1>10. Limit(t) = Limit(r)
  BY <1>8 DEF Limit
<1>11. ReassemblerOK(t, m, sent)
  BY <1>4, <1>8, <1>10 DEF ReassemblerOK
<1>12. /\ w \in Receivers /\ w.isn = v.isn /\ w.isnset = v.isnset /\ w.finset = v.finset
       /\ w.reassembler = t
  BY <1>1, <1>9 DEF Receivers
<1> HIDE DEF w
<1>13. ReceiverOK(w, peer, m, sent)
  BY <1>4, <1>8, <1>11, <1>12 DEF ReceiverOK
<1>14. AckPoint(w) = AckPoint(v)
  BY Zenon, <1>8, <1>9, <1>12 DEF AckPoint, bytes_written
<1>15. /\ d \in Connections /\ d.sender = c.sender /\ d.receiver = w
       /\ d.segments_out = c.segments_out
  BY <1>1, <1>12 DEF Connections
<1> HIDE DEF d
<1>16. Endpoint(d, isn, peer, n, m, sent, acked)
  BY <1>1, <1>13, <1>14, <1>15 DEF Endpoint
<1>17. inbound_stream(d) = o /\ inbound_stream(c) = b
  BY <1>6, <1>12, <1>15 DEF inbound_stream
<1>18. Reads(c, d, isn, peer, n, m, sent, acked)
  BY Zenon, <1>6, <1>14, <1>15, <1>16, <1>17 DEF Reads
<1> QED BY <1>3, <1>18

\* A new endpoint.
LEMMA NewOK ==
  ASSUME Parts, NEW isn \in 0 .. SeqSpace - 1, NEW peer, NEW n \in Nat, NEW m \in Nat
  PROVE  LET c == NewConnection(isn)
         IN  /\ Endpoint(c, isn, peer, n, m, 0, 0) /\ c.segments_out = <<>>
             /\ c.sender.byte_sent = 0 /\ AckPoint(c.receiver) = 0
             /\ c.sender.stream = NewByteStream(SendCapacity)
             /\ inbound_stream(c) = NewByteStream(RecvCapacity)
<1> DEFINE s == NewSender(isn, SendCapacity)
           r == NewReassembler(RecvCapacity)
           v == NewReceiver(RecvCapacity)
           e == <<>>
           c == NewConnection(isn)
<1>1. SendCapacity \in Nat /\ RecvCapacity \in Nat /\ RecvCapacity > 0
  BY Numbers, ConnectionAssumption
<1>2. Inv(s)
  BY <1>1 DEF Parts, NewPart
<1>3. /\ s.isn = isn /\ s.byte_sent = 0 /\ s.byte_received = 0 /\ s.window_size = 1
      /\ s.stream = NewByteStream(SendCapacity)
  BY DEF NewSender
<1>4. s.stream.end = FALSE /\ s.stream.alwritten = 0
  BY <1>3 DEF NewByteStream
<1> HIDE DEF s
<1>5. SenderOK(s, isn, n, 0) /\ s \in Senders
  <2>1. InFlight(s, RecvCapacity)
    BY <1>1, <1>3 DEF InFlight
  <2> QED BY <1>2, <1>3, <1>4, <2>1 DEF SenderOK, Inv
<1>6. /\ GoodState(r, m) /\ r.storelist = <<>> /\ r.firstindex = 0
      /\ r.checkeof = FALSE /\ r.output = NewByteStream(RecvCapacity)
  BY Zenon, <1>1 DEF Parts, NewPart
<1> HIDE DEF r
<1>7. r.output.max = RecvCapacity /\ r.output.end = FALSE /\ r.output.alwritten = 0
  BY <1>6 DEF NewByteStream
<1>8. ReassemblerOK(r, m, 0) /\ r \in Reassemblers
  <2>1. Cover(r.storelist) = {} /\ 0 .. r.firstindex - 1 = {}
    BY <1>6 DEF Cover, CoverPart
  <2> QED BY <1>6, <1>7, <2>1 DEF ReassemblerOK, GoodState
<1>9. v = [isn |-> 0, isnset |-> FALSE, finset |-> FALSE, reassembler |-> r]
  BY DEF NewReceiver, r
<1>10. v \in Receivers /\ v.finset = FALSE /\ v.isnset = FALSE /\ v.reassembler = r
  BY <1>8, <1>9 DEF Receivers
<1> HIDE DEF v
<1>11. ReceiverOK(v, peer, m, 0) /\ AckPoint(v) = 0
  BY <1>6, <1>8, <1>10 DEF ReceiverOK, AckPoint
<1>12. e \in Seq(Segment) /\ e = <<>>
  OBVIOUS
<1>13. SegmentsOK(e, isn, s.byte_sent, peer, AckPoint(v))
  BY DEF SegmentsOK
<1>14. c = [sender |-> s, receiver |-> v, linger |-> TRUE, rst |-> FALSE, idle |-> 0,
            segments_out |-> e]
  BY DEF NewConnection, s, v
<1> HIDE DEF e
<1>15. c \in Connections /\ c.sender = s /\ c.receiver = v /\ c.segments_out = e
  BY <1>5, <1>10, <1>12, <1>14 DEF Connections
<1> HIDE DEF c
<1>16. Endpoint(c, isn, peer, n, m, 0, 0)
  BY <1>5, <1>11, <1>13, <1>15 DEF Endpoint
<1> QED BY <1>3, <1>6, <1>10, <1>11, <1>12, <1>15, <1>16 DEF c, inbound_stream

\* An endpoint stays one while the other side sends and receives more.
LEMMA EndpointLater ==
  ASSUME Parts, NEW isn, NEW peer, NEW n \in Nat, NEW m \in Nat, NEW sent \in Nat, NEW acked \in Nat,
         NEW c, Endpoint(c, isn, peer, n, m, sent, acked),
         NEW sent2 \in Nat, NEW acked2 \in Nat, sent <= sent2, acked <= acked2
  PROVE  Endpoint(c, isn, peer, n, m, sent2, acked2)
<1> DEFINE s == c.sender
           v == c.receiver
           r == v.reassembler
           K == (0 .. r.firstindex - 1) \cup Cover(r.storelist)
<1>1. SenderOK(s, isn, n, acked) /\ ReceiverOK(v, peer, m, sent)
  BY EndpointFacts
<1>2. SenderOK(s, isn, n, acked2)
  <2>1. s.byte_received \in Nat /\ s.byte_received <= acked
    BY Zenon, <1>1, SenderFacts
  <2>2. s.byte_received <= acked2
    BY <2>1
  <2> QED BY <1>1, <2>2 DEF SenderOK
<1>3. ReassemblerOK(r, m, sent)
  BY <1>1 DEF ReceiverOK
<1>4. ASSUME NEW x \in K PROVE x + 2 <= sent2
  <2>1. x + 2 <= sent
    BY <1>3 DEF ReassemblerOK
  <2>2. GoodList(r.storelist, m) /\ r \in Reassemblers
    BY <1>3 DEF ReassemblerOK, GoodState
  <2>3. Cover(r.storelist) \in SUBSET (0 .. m - 1) /\ r.firstindex \in Nat
    BY <2>2 DEF Parts, PiecePart, Reassemblers
  <2>4. x \in Int
    BY <2>3
  <2> HIDE DEF K
  <2> QED BY <2>1, <2>4
<1>5. ReassemblerOK(r, m, sent2)
  BY <1>3, <1>4 DEF ReassemblerOK
<1>6. ReceiverOK(v, peer, m, sent2)
  BY <1>1, <1>5 DEF ReceiverOK
<1> QED BY <1>2, <1>6 DEF Endpoint
=============================================================================
