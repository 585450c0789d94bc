----------------------------- MODULE PairLemmas -----------------------------
(***************************************************************************)
(* Two connections whose streams stay open and the network between them:   *)
(* the inductive invariant, that every step keeps it, and what a step is   *)
(* for the two reliable streams.                                           *)
(***************************************************************************)
EXTENDS TCPPair, EndpointLemmas

USE SMTT(20), ZenonT(20)

\* The settings the theorems are about: no side ends its stream, and a stream is shorter
\* than half of the sequence space, so that a segment that is delivered late, however late,
\* is not taken for a new one.
StreamsStayOpen ==
    \A st \in Settings :
        /\ st.Closes = {}
        /\ \A p \in Peers : 2 * (st.StreamLen[p] + 2) < SeqSpace

PairInv ==
    /\ setting \in Settings
    /\ conn \in [Peers -> Connections] /\ net \in [Peers -> Seq(Segment)]
    /\ \A p \in Peers :
        LET o == Other(p)
        IN  /\ Endpoint(conn[p], Isn[p], Isn[o], setting.StreamLen[p], setting.StreamLen[o],
                        conn[o].sender.byte_sent, AckPoint(conn[o].receiver))
            /\ conn[p].segments_out = <<>>
            /\ SegmentsOK(net[p], Isn[o], conn[o].sender.byte_sent, Isn[p],
                          AckPoint(conn[o].receiver))

-----------------------------------------------------------------------------
(* The pair. *)

\* The two sides.
LEMMA Sides ==
  ASSUME NEW p \in Peers
  PROVE  /\ Other(p) \in Peers /\ Other(p) # p /\ Other(Other(p)) = p
         /\ Peers = {p, Other(p)}
BY PairAssumption DEF Peers, Other

\* An endpoint of the pair.
EndpointOf(p) ==
    Endpoint(conn[p], Isn[p], Isn[Other(p)], setting.StreamLen[p], setting.StreamLen[Other(p)],
             conn[Other(p)].sender.byte_sent, AckPoint(conn[Other(p)].receiver))

BoundsOf(p) ==
    Bounds(setting.StreamLen[p], setting.StreamLen[Other(p)], conn[Other(p)].sender.byte_sent,
           AckPoint(conn[Other(p)].receiver), Isn[Other(p)])

NetOf(p, q) ==
    SegmentsOK(q, Isn[Other(p)], conn[Other(p)].sender.byte_sent, Isn[p],
               AckPoint(conn[Other(p)].receiver))

\* What the invariant says of a side and of what is known of the other.
LEMMA PairFacts ==
  ASSUME StreamsStayOpen, PairInv, NEW p \in Peers
  PROVE  /\ EndpointOf(p) /\ BoundsOf(p) /\ NetOf(p, net[p])
         /\ conn[p].segments_out = <<>> /\ conn[p].sender.byte_sent \in Nat
         /\ AckPoint(conn[p].receiver) \in Nat
         /\ conn[Other(p)].sender.byte_sent <= AckPoint(conn[p].receiver) + RecvCapacity
<1> DEFINE o == Other(p)
           n == setting.StreamLen[p]
           m == setting.StreamLen[o]
           s == conn[p].sender.byte_sent
           a == AckPoint(conn[p].receiver)
           t == conn[o].sender.byte_sent
           b == AckPoint(conn[o].receiver)
<1>1. /\ EndpointOf(p) /\ NetOf(p, net[p]) /\ conn[p].segments_out = <<>>
  BY DEF PairInv, EndpointOf, NetOf
<1>2. o \in Peers /\ Other(o) = p
  BY Sides
<1>3. EndpointOf(o)
  BY <1>2 DEF PairInv, EndpointOf
<1>4. /\ n \in Nat /\ m \in Nat /\ 2 * (n + 2) < SeqSpace /\ 2 * (m + 2) < SeqSpace
  <2>1. setting \in Settings
    BY DEF PairInv
  <2>2. setting \in Setting
    BY <2>1, PairAssumption
  <2>3. setting.StreamLen \in [Peers -> Nat]
    BY <2>2 DEF Setting
  <2>4. \A q \in Peers : 2 * (setting.StreamLen[q] + 2) < SeqSpace
    BY <2>1 DEF StreamsStayOpen
  <2> QED BY <1>2, <2>3, <2>4
<1>5. Isn[o] \in 0 .. SeqSpace - 1
  BY <1>2, PairAssumption
<1>6. /\ Endpoint(conn[p], Isn[p], Isn[o], n, m, t, b)
      /\ Endpoint(conn[o], Isn[o], Isn[p], m, n, s, a)
  BY <1>1, <1>2, <1>3 DEF EndpointOf
<1>7. ASSUME NEW q \in Peers
      PROVE  conn[q].sender.byte_sent \in Nat /\ AckPoint(conn[q].receiver) \in Nat
  <2>1. conn[q] \in Connections
    BY DEF PairInv
  <2>2. conn[q].sender \in Senders /\ conn[q].receiver \in Receivers
    BY <2>1 DEF Connections
  <2>3. conn[q].receiver.reassembler.output \in ByteStreams
    BY <2>2 DEF Receivers, Reassemblers
  <2>4. bytes_written(conn[q].receiver) \in Nat
    BY <2>3 DEF ByteStreams, bytes_written
  <2> QED BY <2>2, <2>4 DEF Senders, AckPoint
<1>8. s \in Nat /\ a \in Nat /\ t \in Nat /\ b \in Nat
  BY <1>2, <1>7
<1> HIDE DEF n, m, s, a, t, b
<1>9. SenderOK(conn[o].sender, Isn[o], m, a) /\ ReceiverOK(conn[o].receiver, Isn[p], n, s)
  BY <1>4, <1>6, <1>8, EndpointFacts
<1>10. t <= m + 1 /\ t <= a + RecvCapacity
  BY Zenon, <1>4, <1>8, <1>9, SenderFacts DEF t
<1>11. b <= n + 1
  BY <1>4, <1>8, <1>9, ReceiverFacts DEF b
<1>12. Bounds(n, m, t, b, Isn[o])
  BY <1>4, <1>5, <1>8, <1>10, <1>11 DEF Bounds
<1>13. BoundsOf(p)
  BY <1>12 DEF BoundsOf, n, m, t, b
<1> QED BY <1>1, <1>8, <1>10, <1>13 DEF s, a, t

\* A side becomes d, and the queues of the network hold good segments.
LEMMA PairWith ==
  ASSUME Parts, StreamsStayOpen, PairInv, NEW p \in Peers, NEW d, setting' = setting,
         conn' = [conn EXCEPT ![p] = d], d.segments_out = <<>>,
         Endpoint(d, Isn[p], Isn[Other(p)], setting.StreamLen[p], setting.StreamLen[Other(p)],
                  conn[Other(p)].sender.byte_sent, AckPoint(conn[Other(p)].receiver)),
         conn[p].sender.byte_sent <= d.sender.byte_sent,
         AckPoint(conn[p].receiver) <= AckPoint(d.receiver),
         net' \in [Peers -> Seq(Segment)], NetOf(p, net'[p]),
         SegmentsOK(net'[Other(p)], Isn[p], d.sender.byte_sent, Isn[Other(p)],
                    AckPoint(d.receiver))
  PROVE  PairInv'
<1> DEFINE o == Other(p)
           c == conn[o]
           n == setting.StreamLen[p]
           m == setting.StreamLen[o]
           s == conn[p].sender.byte_sent
           a == AckPoint(conn[p].receiver)
           s2 == d.sender.byte_sent
           a2 == AckPoint(d.receiver)
           t == c.sender.byte_sent
           b == AckPoint(c.receiver)
<1>1. o \in Peers /\ o # p /\ Other(o) = p /\ Peers = {p, o}
  BY Sides
<1>2. conn \in [Peers -> Connections] /\ setting \in Settings
  BY DEF PairInv
<1>3. d \in Connections
  BY DEF Endpoint
<1>4. conn' \in [Peers -> Connections] /\ conn'[p] = d /\ conn'[o] = c
  BY <1>1, <1>2, <1>3
<1>5. /\ BoundsOf(p) /\ EndpointOf(o) /\ s \in Nat /\ a \in Nat /\ c.segments_out = <<>>
  BY <1>1, PairFacts
<1>6. n \in Nat /\ m \in Nat /\ t \in Nat /\ b \in Nat
  BY <1>5 DEF BoundsOf, Bounds
<1>7. s2 \in Nat /\ a2 \in Nat
  <2> HIDE DEF n, m, t, b
  <2>1. Endpoint(d, Isn[p], Isn[o], n, m, t, b)
    BY DEF n, m, t, b
  <2> QED BY <1>6, <2>1, EndpointFacts
<1>8. Endpoint(c, Isn[o], Isn[p], m, n, s, a)
  BY <1>1, <1>5 DEF EndpointOf
<1>9. s <= s2 /\ a <= a2
  OBVIOUS
<1>10. /\ Endpoint(d, Isn[p], Isn[o], n, m, t, b) /\ SegmentsOK(net'[p], Isn[o], t, Isn[p], b)
       /\ SegmentsOK(net'[o], Isn[p], s2, Isn[o], a2) /\ d.segments_out = <<>>
  BY DEF NetOf
<1> HIDE DEF n, m, s, a, s2, a2, t, b, c
<1>11. Endpoint(c, Isn[o], Isn[p], m, n, s2, a2)
  BY <1>6, <1>7, <1>8, <1>9, <1>5, EndpointLater DEF s, a
<1> DEFINE Good(q) ==
             /\ Endpoint(conn'[q], Isn[q], Isn[Other(q)], setting.StreamLen[q],
                         setting.StreamLen[Other(q)], conn'[Other(q)].sender.byte_sent,
                         AckPoint(conn'[Other(q)].receiver))
             /\ conn'[q].segments_out = <<>>
             /\ SegmentsOK(net'[q], Isn[Other(q)], conn'[Other(q)].sender.byte_sent, Isn[q],
                           AckPoint(conn'[Other(q)].receiver))
<1>12. Good(p)
  BY <1>4, <1>10 DEF n, m, t, b
<1>13. Good(o)
  BY <1>1, <1>4, <1>5, <1>10, <1>11 DEF n, m, s2, a2, c
<1>14. \A q \in Peers : Good(q)
  BY <1>1, <1>12, <1>13
<1> QED BY Zenon, <1>2, <1>4, <1>14 DEF PairInv, AckPoint, bytes_written

\* The endpoints stay and the network changes.
LEMMA PairNet ==
  ASSUME PairInv, setting' = setting, conn' = conn, net' \in [Peers -> Seq(Segment)],
         \A p \in Peers : NetOf(p, net'[p])
  PROVE  PairInv'
BY DEF PairInv, NetOf, AckPoint, bytes_written

\* What the side p may become.
StepsOf(p, c) ==
    Steps(conn[p], c, Isn[p], Isn[Other(p)], setting.StreamLen[p], setting.StreamLen[Other(p)],
          conn[Other(p)].sender.byte_sent, AckPoint(conn[Other(p)].receiver))

\* A side takes a step, and what it has put out goes onto the network.
LEMMA BecomeInv ==
  ASSUME Parts, StreamsStayOpen, PairInv, NEW p \in Peers, NEW c, StepsOf(p, c),
         NEW rest \in [Peers -> Seq(Segment)], \A q \in Peers : NetOf(q, rest[q]),
         Become(p, c, rest)
  PROVE  PairInv'
<1> DEFINE o == Other(p)
           n == setting.StreamLen[p]
           m == setting.StreamLen[o]
           s == conn[p].sender.byte_sent
           a == AckPoint(conn[p].receiver)
           t == conn[o].sender.byte_sent
           b == AckPoint(conn[o].receiver)
           e == <<>>
           d == [c EXCEPT !.segments_out = e]
           h == c.segments_out
           s2 == d.sender.byte_sent
           a2 == AckPoint(d.receiver)
<1>1. o \in Peers /\ o # p /\ Other(o) = p /\ Peers = {p, o}
  BY Sides
<1>2. /\ Endpoint(c, Isn[p], Isn[o], n, m, t, b) /\ s <= c.sender.byte_sent
      /\ a <= AckPoint(c.receiver)
  BY DEF StepsOf, Steps
<1>3. /\ c \in Connections /\ SenderOK(c.sender, Isn[p], n, b) /\ ReceiverOK(c.receiver, Isn[o], m, t)
      /\ SegmentsOK(h, Isn[p], c.sender.byte_sent, Isn[o], AckPoint(c.receiver))
  BY <1>2 DEF Endpoint
<1>4. d \in Connections /\ d.sender = c.sender /\ d.receiver = c.receiver /\ d.segments_out = <<>>
  <2>1. e \in Seq(Segment) /\ e = <<>>
    OBVIOUS
  <2>2. c \in Connections
    BY <1>3
  <2> HIDE DEF e
  <2>3. d \in Connections /\ d.sender = c.sender /\ d.receiver = c.receiver /\ d.segments_out = e
    BY ONLY Zenon, <2>1, <2>2 DEF Connections
  <2> QED BY <2>1, <2>3
<1>5. /\ conn' = [conn EXCEPT ![p] = d] /\ net' = [rest EXCEPT ![o] = @ \o h] /\ setting' = setting
  BY DEF Become
<1> HIDE DEF d
<1>6. Endpoint(d, Isn[p], Isn[o], n, m, t, b)
  <2>1. SegmentsOK(<<>>, Isn[p], d.sender.byte_sent, Isn[o], AckPoint(d.receiver))
    BY DEF SegmentsOK
  <2> QED BY <1>3, <1>4, <2>1 DEF Endpoint
<1>7. h \in Seq(Segment)
  BY <1>3 DEF SegmentsOK
<1>8. net' \in [Peers -> Seq(Segment)] /\ net'[p] = rest[p] /\ net'[o] = rest[o] \o h
  <2>1. rest[o] \o h \in Seq(Segment)
    BY <1>1, <1>7
  <2> QED BY <1>1, <1>5, <2>1
<1>9. SegmentsOK(rest[o], Isn[p], s, Isn[o], a)
  BY <1>1 DEF NetOf
<1>10. s \in Nat /\ a \in Nat /\ BoundsOf(p)
  BY PairFacts
<1>11. n \in Nat /\ m \in Nat /\ t \in Nat /\ b \in Nat
  BY <1>10 DEF BoundsOf, Bounds
<1>12. s <= s2 /\ a <= a2
  BY <1>2, <1>4
<1>13. SegmentsOK(h, Isn[p], s2, Isn[o], a2)
  BY <1>3, <1>4
<1>14. s2 \in Nat /\ a2 \in Nat
  <2> HIDE DEF n, m, t, b
  <2> QED BY <1>6, <1>11, EndpointFacts
<1>15. SegmentsOK(rest[o] \o h, Isn[p], s2, Isn[o], a2)
  <2> HIDE DEF s, a, s2, a2, h
  <2>1. SegmentsOK(rest[o], Isn[p], s2, Isn[o], a2)
    BY <1>9, <1>10, <1>12, <1>14, SegmentsLater
  <2> QED BY <1>13, <2>1, SegmentsConcat
<1>16. NetOf(p, net'[p])
  BY <1>8
<1> HIDE DEF h
<1> QED BY Zenon, <1>4, <1>5, <1>6, <1>8, <1>12, <1>15, <1>16, PairWith

\* A queue of the network as it is.
LEMMA NetGood ==
  ASSUME StreamsStayOpen, PairInv
  PROVE  net \in [Peers -> Seq(Segment)] /\ \A q \in Peers : NetOf(q, net[q])
BY PairFacts DEF PairInv

\* A segment taken out of a queue leaves the others.
LEMMA RemoveGood ==
  ASSUME NEW q, NEW i \in 1 .. Len(q), NEW isn, NEW peer, NEW sent, NEW acked,
         SegmentsOK(q, isn, sent, peer, acked)
  PROVE  Without(q, i) \in Seq(Segment) /\ SegmentsOK(Without(q, i), isn, sent, peer, acked)
<1> DEFINE x == Len(q)
           f == SubSeq(q, 1, i - 1)
           l == SubSeq(q, i + 1, x)
<1>1. q \in Seq(Segment)
  BY DEF SegmentsOK
<1>2. x \in Nat /\ i \in Nat /\ i >= 1 /\ i <= x
  BY <1>1
<1> HIDE DEF x
<1>3. f \in Seq(Segment) /\ Len(f) = i - 1 /\ \A j \in 1 .. i - 1 : f[j] = q[j]
  <2>1. i - 1 \in Nat /\ 0 <= i - 1 /\ i - 1 <= Len(q) /\ (i - 1) - 0 = i - 1 /\ 0 + 1 = 1
    BY <1>2 DEF x
  <2>2. /\ SubSeq(q, 0 + 1, i - 1) \in Seq(Segment) /\ Len(SubSeq(q, 0 + 1, i - 1)) = (i - 1) - 0
        /\ \A j \in 1 .. (i - 1) - 0 : SubSeq(q, 0 + 1, i - 1)[j] = q[0 + j]
    BY <1>1, <2>1
  <2> QED BY <1>2, <2>1, <2>2
<1>4. l \in Seq(Segment) /\ Len(l) = x - i /\ \A j \in 1 .. x - i : l[j] = q[i + j]
  BY <1>1, <1>2 DEF x
<1> HIDE DEF f, l
<1>5. SegmentsOK(f, isn, sent, peer, acked)
  <2>1. \A j \in 1 .. Len(f) : \E k \in 1 .. Len(q) : f[j] = q[k]
    BY <1>2, <1>3 DEF x
  <2> QED BY <1>3, <2>1, SegmentsPart
<1>6. SegmentsOK(l, isn, sent, peer, acked)
  <2>1. ASSUME NEW j \in 1 .. Len(l) PROVE \E k \in 1 .. Len(q) : l[j] = q[k]
    <3>1. i + j \in 1 .. x /\ j \in 1 .. x - i
      BY <1>2, <1>4
    <3> QED BY <1>4, <3>1 DEF x
  <2> QED BY Zenon, <1>4, <2>1, SegmentsPart
<1>7. Without(q, i) = f \o l
  BY DEF Without, f, l, x
<1>8. SegmentsOK(f \o l, isn, sent, peer, acked)
  BY <1>5, <1>6, SegmentsConcat
<1> QED BY <1>7, <1>8 DEF SegmentsOK

\* Initially the invariant holds.
LEMMA InitPair ==
  ASSUME Parts, Init PROVE PairInv
<1>1. setting \in Settings /\ setting.StreamLen \in [Peers -> Nat]
  BY PairAssumption DEF Init, Setting
<1>2. ASSUME NEW p \in Peers
      PROVE  /\ conn[p] \in Connections /\ net[p] = <<>> /\ conn[p].segments_out = <<>>
             /\ conn[p].sender.byte_sent = 0 /\ AckPoint(conn[p].receiver) = 0
             /\ Endpoint(conn[p], Isn[p], Isn[Other(p)], setting.StreamLen[p],
                         setting.StreamLen[Other(p)], 0, 0)
  <2>1. Isn[p] \in 0 .. SeqSpace - 1 /\ Other(p) \in Peers
    BY PairAssumption, Sides
  <2>2. setting.StreamLen[p] \in Nat /\ setting.StreamLen[Other(p)] \in Nat
    BY <1>1, <2>1
  <2>3. conn[p] = NewConnection(Isn[p]) /\ net[p] = <<>>
    BY DEF Init
  <2> QED BY Zenon, <2>1, <2>2, <2>3, NewOK DEF Endpoint
<1>3. conn \in [Peers -> Connections] /\ net \in [Peers -> Seq(Segment)]
  <2>1. <<>> \in Seq(Segment)
    OBVIOUS
  <2>2. \A p \in Peers : conn[p] \in Connections
    BY <1>2
  <2> QED BY <2>1, <2>2 DEF Init
<1>4. \A isn, sent, peer, acked : SegmentsOK(<<>>, isn, sent, peer, acked)
  BY DEF SegmentsOK
<1> QED BY <1>1, <1>2, <1>3, <1>4, Sides DEF PairInv

\* What a step of the side p makes of it.
LEMMA StartInv ==
  ASSUME Parts, StreamsStayOpen, PairInv, NEW p \in Peers, NEW c, StepsOf(p, c), Start(p, c)
  PROVE  PairInv'
BY BecomeInv, NetGood DEF Start

\* connect, write and tick are steps of an endpoint.
LEMMA StartsOK ==
  ASSUME Parts, StreamsStayOpen, PairInv, NEW p \in Peers
  PROVE  /\ StepsOf(p, connect(conn[p])) /\ SameBytes(conn[p], connect(conn[p]))
         /\ StepsOf(p, tick_connection(conn[p], 1))
         /\ SameBytes(conn[p], tick_connection(conn[p], 1))
         /\ \A n \in Nat : CanWrite(p, n) =>
                /\ StepsOf(p, Written(p, n))
                /\ Written(p, n).sender.stream.alwritten = conn[p].sender.stream.alwritten + n
                /\ bytes_written(Written(p, n).receiver) = bytes_written(conn[p].receiver)
<1> DEFINE o == Other(p)
           c == conn[p]
           x == setting.StreamLen[p]
           y == setting.StreamLen[o]
           t == conn[o].sender.byte_sent
           b == AckPoint(conn[o].receiver)
<1>1. EndpointOf(p) /\ BoundsOf(p)
  BY PairFacts
<1>2. Endpoint(c, Isn[p], Isn[o], x, y, t, b) /\ x \in Nat /\ y \in Nat /\ t \in Nat /\ b \in Nat
  BY <1>1 DEF EndpointOf, BoundsOf, Bounds
<1>3. \A d : Steps(c, d, Isn[p], Isn[o], x, y, t, b) => StepsOf(p, d)
  BY DEF StepsOf
<1>4. ASSUME NEW n \in Nat, CanWrite(p, n)
      PROVE  /\ n <= remaining_capacity(c.sender.stream) /\ c.sender.stream.alwritten + n <= x
             /\ Written(p, n) = write_out(c, NextBytes(c.sender.stream, n))
  BY <1>4 DEF CanWrite, Written
<1> HIDE DEF c, x, y, t, b
<1>5. /\ Steps(c, connect(c), Isn[p], Isn[o], x, y, t, b) /\ SameBytes(c, connect(c))
  BY <1>2, ConnectOK
<1>6. /\ Steps(c, tick_connection(c, 1), Isn[p], Isn[o], x, y, t, b)
      /\ SameBytes(c, tick_connection(c, 1))
  BY <1>2, TickOK
<1>7. ASSUME NEW n \in Nat, CanWrite(p, n)
      PROVE  /\ Steps(c, Written(p, n), Isn[p], Isn[o], x, y, t, b)
             /\ Written(p, n).sender.stream.alwritten = c.sender.stream.alwritten + n
             /\ bytes_written(Written(p, n).receiver) = bytes_written(c.receiver)
  <2> DEFINE d == Written(p, n)
  <2>1. /\ n <= remaining_capacity(c.sender.stream) /\ c.sender.stream.alwritten + n <= x
        /\ d = write_out(c, NextBytes(c.sender.stream, n))
    BY <1>4, <1>7
  <2> HIDE DEF d
  <2>2. Writes(c, n, d, Isn[p], Isn[o], x, y, t, b)
    BY <1>2, <2>1, WriteOK
  <2> QED BY <2>2 DEF d, Writes
<1> QED BY <1>3, <1>5, <1>6, <1>7 DEF c

\* So is what an arriving segment sets off.
LEMMA DeliverOK ==
  ASSUME Parts, StreamsStayOpen, PairInv, NEW p \in Peers, NEW i \in 1 .. Len(net[p])
  PROVE  LET d == segment_received(conn[p], net[p][i])
         IN  StepsOf(p, d) /\ d.sender.stream.alwritten = conn[p].sender.stream.alwritten
<1> DEFINE o == Other(p)
           c == conn[p]
           x == setting.StreamLen[p]
           y == setting.StreamLen[o]
           t == conn[o].sender.byte_sent
           b == AckPoint(conn[o].receiver)
           g == net[p][i]
           d == segment_received(c, g)
<1>1. EndpointOf(p) /\ BoundsOf(p) /\ NetOf(p, net[p]) /\ t <= AckPoint(c.receiver) + RecvCapacity
  BY PairFacts
<1>2. Endpoint(c, Isn[p], Isn[o], x, y, t, b) /\ Bounds(x, y, t, b, Isn[o])
  BY <1>1 DEF EndpointOf, BoundsOf
<1>3. SegmentOK(g, Isn[o], t, Isn[p], b)
  BY <1>1 DEF NetOf, SegmentsOK
<1>4. Steps(c, d, Isn[p], Isn[o], x, y, t, b) => StepsOf(p, d)
  BY DEF StepsOf
<1> HIDE DEF c, x, y, t, b, g
<1>5. /\ Steps(c, d, Isn[p], Isn[o], x, y, t, b)
      /\ d.sender.stream.alwritten = c.sender.stream.alwritten
  BY <1>1, <1>2, <1>3, ReceivedOK
<1> QED BY <1>4, <1>5 DEF c, g

\* The application of an endpoint reads.
LEMMA ReadStep ==
  ASSUME Parts, StreamsStayOpen, PairInv, NEW p \in Peers, Read(p)
  PROVE  /\ conn' = [conn EXCEPT ![p] = ReadAll(conn[p])]
         /\ Reads(conn[p], ReadAll(conn[p]), Isn[p], Isn[Other(p)], setting.StreamLen[p],
                  setting.StreamLen[Other(p)], conn[Other(p)].sender.byte_sent,
                  AckPoint(conn[Other(p)].receiver))
<1> DEFINE o == Other(p)
           c == conn[p]
           x == setting.StreamLen[p]
           y == setting.StreamLen[o]
           t == conn[o].sender.byte_sent
           b == AckPoint(conn[o].receiver)
<1>1. EndpointOf(p) /\ BoundsOf(p)
  BY PairFacts
<1>2. Endpoint(c, Isn[p], Isn[o], x, y, t, b) /\ x \in Nat /\ y \in Nat /\ t \in Nat /\ b \in Nat
  BY <1>1 DEF EndpointOf, BoundsOf, Bounds
<1>3. conn' = [conn EXCEPT ![p] = ReadAll(conn[p])]
  <2>1. conn \in [Peers -> Connections] /\ conn[p] \in Connections
    BY DEF PairInv
  <2> QED BY <2>1 DEF Read, ReadAll, inbound_stream, Connections
<1> HIDE DEF c, x, y, t, b
<1>4. Reads(c, ReadAll(c), Isn[p], Isn[o], x, y, t, b)
  BY <1>2, ReadOK
<1> QED BY <1>3, <1>4 DEF c, x, y, t, b

\* Every step keeps the invariant.
LEMMA NextPair ==
  ASSUME Parts, StreamsStayOpen, PairInv, [Next]_vars PROVE PairInv'
<1>1. ASSUME Connect PROVE PairInv'
  <2>1. Client \in Peers
    BY DEF Peers
  <2> QED BY <1>1, <2>1, StartsOK, StartInv DEF Connect
<1>2. ASSUME NEW p \in Peers, NEW n \in 1 .. setting.StreamLen[p], Write(p, n) PROVE PairInv'
  <2>1. n \in Nat
    <3>1. setting.StreamLen[p] \in Nat
      BY PairFacts DEF BoundsOf, Bounds
    <3> QED BY <3>1
  <2>2. CanWrite(p, n) /\ Start(p, Written(p, n))
    BY <1>2 DEF Write
  <2>3. StepsOf(p, Written(p, n))
    BY <2>1, <2>2, StartsOK
  <2> QED BY <2>2, <2>3, StartInv
<1>3. ASSUME NEW p \in Peers PROVE ~EndInput(p)
  BY DEF EndInput, CanEnd, StreamsStayOpen, PairInv
<1>4. ASSUME NEW p \in Peers, Read(p) PROVE PairInv'
  <2> DEFINE d == ReadAll(conn[p])
             o == Other(p)
  <2>1. /\ conn' = [conn EXCEPT ![p] = d] /\ d.sender = conn[p].sender
        /\ d.segments_out = conn[p].segments_out /\ AckPoint(d.receiver) = AckPoint(conn[p].receiver)
        /\ Endpoint(d, Isn[p], Isn[o], setting.StreamLen[p], setting.StreamLen[o],
                    conn[o].sender.byte_sent, AckPoint(conn[o].receiver))
    BY Zenon, <1>4, ReadStep DEF Reads
  <2>2. net' = net /\ setting' = setting
    BY <1>4 DEF Read
  <2>3. conn[p].segments_out = <<>> /\ conn[p].sender.byte_sent \in Nat /\ AckPoint(conn[p].receiver) \in Nat
    BY PairFacts
  <2>4. o \in Peers /\ Other(o) = p
    BY Sides
  <2>5. net' \in [Peers -> Seq(Segment)] /\ NetOf(p, net'[p]) /\ NetOf(o, net'[o])
    BY <2>2, <2>4, NetGood
  <2>6. SegmentsOK(net'[o], Isn[p], d.sender.byte_sent, Isn[o], AckPoint(d.receiver))
    BY <2>1, <2>4, <2>5 DEF NetOf
  <2> HIDE DEF d
  <2>7. /\ conn[p].sender.byte_sent <= d.sender.byte_sent
        /\ AckPoint(conn[p].receiver) <= AckPoint(d.receiver)
    BY <2>1, <2>3
  <2> QED BY Zenon, <2>1, <2>2, <2>3, <2>5, <2>6, <2>7, PairWith
<1>5. ASSUME NEW p \in Peers, Tick(p) PROVE PairInv'
  BY <1>5, StartsOK, StartInv DEF Tick
<1>6. ASSUME NEW p \in Peers, NEW q, NetOf(p, q), net' = [net EXCEPT ![p] = q],
             conn' = conn, setting' = setting
      PROVE  PairInv'
  <2>1. q \in Seq(Segment)
    BY <1>6 DEF NetOf, SegmentsOK
  <2>2. net \in [Peers -> Seq(Segment)] /\ \A r \in Peers : NetOf(r, net[r])
    BY NetGood
  <2>3. net' \in [Peers -> Seq(Segment)] /\ \A r \in Peers : NetOf(r, net'[r])
    BY <1>6, <2>1, <2>2
  <2> QED BY <1>6, <2>3, PairNet
<1>7. ASSUME NEW p \in Peers, NEW i \in 1 .. Len(net[p])
      PROVE  NetOf(p, Without(net[p], i)) /\ NetOf(p, Append(net[p], net[p][i]))
  <2>1. NetOf(p, net[p]) /\ net[p] \in Seq(Segment)
    BY NetGood
  <2>2. NetOf(p, Without(net[p], i))
    BY <2>1, RemoveGood DEF NetOf
  <2>3. NetOf(p, <<net[p][i]>>)
    BY <2>1, SegmentsOne DEF NetOf, SegmentsOK
  <2>4. NetOf(p, net[p] \o <<net[p][i]>>)
    BY <2>1, <2>3, SegmentsConcat DEF NetOf
  <2>5. Append(net[p], net[p][i]) = net[p] \o <<net[p][i]>>
    BY <2>1
  <2> QED BY <2>2, <2>4, <2>5
<1>8. ASSUME NEW p \in Peers, Discard(p) PROVE PairInv'
  <2>1. NetOf(p, <<>>)
    BY DEF NetOf, SegmentsOK
  <2> QED BY Zenon, <1>6, <1>8, <2>1 DEF Discard
<1>9. ASSUME NEW p \in Peers, NEW i \in 1 .. Len(net[p]), Deliver(p, i) PROVE PairInv'
  <2> DEFINE rest == [net EXCEPT ![p] = Without(@, i)]
             d == segment_received(conn[p], net[p][i])
  <2>1. NetOf(p, Without(net[p], i))
    BY <1>7
  <2>2. Without(net[p], i) \in Seq(Segment)
    BY <2>1 DEF NetOf, SegmentsOK
  <2>3. rest \in [Peers -> Seq(Segment)] /\ \A q \in Peers : NetOf(q, rest[q])
    BY <2>1, <2>2, NetGood
  <2>4. StepsOf(p, d)
    BY DeliverOK
  <2>5. Become(p, d, rest)
    BY <1>9 DEF Deliver
  <2> HIDE DEF d, rest
  <2> QED BY <2>3, <2>4, <2>5, BecomeInv
<1>10. ASSUME NEW p \in Peers, NEW i \in 1 .. Len(net[p]), Lose(p, i) PROVE PairInv'
  BY Zenon, <1>6, <1>7, <1>10 DEF Lose
<1>11. ASSUME NEW p \in Peers, NEW i \in 1 .. Len(net[p]), Duplicate(p, i) PROVE PairInv'
  BY Zenon, <1>6, <1>7, <1>11 DEF Duplicate
<1>12. ASSUME UNCHANGED vars PROVE PairInv'
  BY <1>12 DEF vars, PairInv, AckPoint, bytes_written
<1> QED BY <1>1, <1>2, <1>3, <1>4, <1>5, <1>8, <1>9, <1>10, <1>11, <1>12 DEF Next

\* In a state of the invariant what a sender has counted as received is.
LEMMA InvAcked ==
  ASSUME PairInv
  PROVE  AckedIsReceived
<1>1. ASSUME NEW p \in Peers
      PROVE  LET v == Receiver(Other(p))
             IN  Sender(p).byte_received <=
                   IF v.isnset
                   THEN 1 + bytes_written(v) + Bit(v.finset /\ Inbound(Other(p)).end)
                   ELSE 0
  <2> DEFINE o == Other(p)
             v == conn[o].receiver
  <2>1. o \in Peers
    BY Sides
  <2>2. conn[p].sender.byte_received <= AckPoint(v)
    BY DEF PairInv, Endpoint, SenderOK
  <2>3. v.finset = FALSE
    BY <2>1 DEF PairInv, Endpoint, ReceiverOK
  <2>4. bytes_written(v) \in Nat
    <3>1. conn[o] \in Connections
      BY <2>1 DEF PairInv
    <3>2. v.reassembler.output \in ByteStreams
      BY <3>1 DEF Connections, Receivers, Reassemblers
    <3> QED BY <3>2 DEF ByteStreams, bytes_written
  <2>5. AckPoint(v) = IF v.isnset
                      THEN 1 + bytes_written(v) + Bit(v.finset /\ Inbound(o).end) ELSE 0
    <3>1. Bit(v.finset /\ Inbound(o).end) = 0
      BY <2>3 DEF Bit
    <3> HIDE DEF v
    <3> QED BY <2>4, <3>1 DEF AckPoint
  <2> QED BY <2>2, <2>5 DEF Sender, Receiver
<1> QED BY <1>1 DEF AckedIsReceived

-----------------------------------------------------------------------------
(* The refinement. *)

\* What has been written to a stream and not read is determined by how much of either.
LEMMA ContentOn ==
  ASSUME NEW b \in ByteStreams, GoodOutput(b), NEW c \in ByteStreams, GoodOutput(c),
         c.alread = b.alread, b.alwritten <= c.alwritten
  PROVE  /\ c.alwritten - b.alwritten \in Nat /\ b.alread + Len(b.content) = b.alwritten
         /\ c.content = b.content \o [i \in 1 .. c.alwritten - b.alwritten |->
                                        b.alread + Len(b.content) + i - 1]
<1> DEFINE q == b.content
           x == Len(q)
           h == c.content
           y == Len(h)
           a == b.alread
           k == c.alwritten - b.alwritten
           e == [i \in 1 .. k |-> a + x + i - 1]
<1>1. /\ q \in Seq(Nat) /\ h \in Seq(Nat) /\ x \in Nat /\ y \in Nat /\ a \in Nat
      /\ b.alwritten \in Nat /\ c.alwritten \in Nat
  BY DEF ByteStreams
<1>2. /\ b.alwritten = a + x /\ c.alwritten = a + y
      /\ \A i \in 1 .. x : q[i] = a + i - 1
      /\ \A i \in 1 .. y : h[i] = a + i - 1
  BY DEF GoodOutput
<1>3. k \in Nat /\ y = x + k
  <2> DEFINE u == b.alwritten
             w == c.alwritten
  <2>1. u \in Nat /\ w \in Nat /\ u <= w /\ u = a + x /\ w = a + y /\ k = w - u
    BY <1>1, <1>2
  <2> HIDE DEF k, a, x, y, u, w
  <2> QED BY ONLY <1>1, <2>1
<1> HIDE DEF k, a, x, y, q, h
<1>4. e \in Seq(Nat) /\ Len(e) = k /\ \A i \in 1 .. k : e[i] = a + x + i - 1
  <2>1. \A i \in 1 .. k : a + x + i - 1 \in Nat
    BY <1>1, <1>3
  <2>2. e \in [1 .. k -> Nat]
    BY <2>1
  <2> QED BY <1>3, <2>2
<1> HIDE DEF e
<1>5. q \o e \in Seq(Nat) /\ Len(q \o e) = y
  <2>1. q \o e \in Seq(Nat) /\ Len(q \o e) = Len(q) + Len(e)
    <3>1. q \in Seq(Nat) /\ e \in Seq(Nat)
      BY <1>1, <1>4
    <3> QED BY ONLY <3>1
  <2> QED BY <1>3, <1>4, <2>1 DEF x
<1>6. ASSUME NEW i \in 1 .. y PROVE h[i] = (q \o e)[i]
  <2>1. CASE i <= x
    <3>1. (q \o e)[i] = q[i]
      BY <1>1, <1>4, <2>1 DEF x
    <3> QED BY <1>1, <1>2, <2>1, <3>1
  <2>2. CASE i > x
    <3>1. i - x \in 1 .. k /\ i \in Nat
      BY <1>1, <1>3, <2>2
    <3>2. (q \o e)[i] = e[i - x]
      BY <1>1, <1>3, <1>4, <2>2, <3>1 DEF x
    <3>3. e[i - x] = a + x + (i - x) - 1
      BY <1>4, <3>1
    <3> QED BY <1>1, <1>2, <3>1, <3>2, <3>3
  <2>3. i <= x \/ i > x
    BY <1>1
  <2> QED BY Zenon, <2>1, <2>2, <2>3
<1>7. h = q \o e
  <2> DEFINE w == q \o e
  <2>1. /\ h \in Seq(Nat) /\ w \in Seq(Nat) /\ Len(h) = Len(w)
        /\ \A i \in 1 .. Len(h) : h[i] = w[i]
    BY Zenon, <1>1, <1>5, <1>6 DEF y
  <2> HIDE DEF w
  <2>2. DOMAIN h = 1 .. Len(h) /\ DOMAIN w = 1 .. Len(w)
    BY ONLY <2>1
  <2>3. h = [i \in DOMAIN h |-> h[i]] /\ w = [i \in DOMAIN w |-> w[i]]
    BY ONLY <2>1
  <2>4. h = w
    BY ONLY Zenon, <2>1, <2>2, <2>3
  <2> QED BY <2>4 DEF w
<1> QED BY Zenon, <1>2, <1>3, <1>7 DEF e, k, a, x, q, h

\* The two streams of an endpoint.
StreamsOf(c, sent) ==
    LET b == inbound_stream(c)
    IN  /\ b \in ByteStreams /\ GoodOutput(b) /\ b.end = FALSE
        /\ b.alwritten = bytes_written(c.receiver) /\ b.alwritten \in Nat
        /\ b.alwritten = 0 \/ b.alwritten + 1 <= sent
        /\ c.sender.stream.end = FALSE /\ c.sender.stream.alwritten \in Nat
        /\ c.sender.byte_sent \in Nat /\ c.sender.byte_sent <= c.sender.stream.alwritten + 1

\* The output holds a part of the other side's stream, and nothing was sent that was not
\* written.
LEMMA EndpointStreams ==
  ASSUME NEW isn, NEW peer, NEW n \in Nat, NEW m \in Nat, NEW sent \in Nat, NEW acked \in Nat,
         NEW c, Endpoint(c, isn, peer, n, m, sent, acked)
  PROVE  StreamsOf(c, sent)
<1> DEFINE v == c.receiver
           b == v.reassembler.output
<1>1. SenderOK(c.sender, isn, n, acked) /\ ReceiverOK(v, peer, m, sent)
  BY EndpointFacts
<1>2. /\ c.sender.stream.alwritten \in Nat /\ c.sender.byte_sent \in Nat
      /\ c.sender.byte_sent <= c.sender.stream.alwritten + 1
  BY Zenon, <1>1, SenderFacts
<1>3. c.sender.stream.end = FALSE
  BY <1>1 DEF SenderOK
<1>4. /\ b \in ByteStreams /\ bytes_written(v) \in Nat /\ AckPoint(v) <= sent
      /\ v.reassembler.firstindex = bytes_written(v)
  BY <1>1, ReceiverFacts
<1>5. GoodOutput(b) /\ b.end = FALSE
  BY <1>1 DEF ReceiverOK, ReassemblerOK, GoodState
<1>6. bytes_written(v) = 0 \/ bytes_written(v) + 1 <= sent
  <2>1. CASE v.isnset
    BY <1>4, <2>1 DEF AckPoint
  <2>2. CASE ~v.isnset
    BY <1>1, <1>4, <2>2 DEF ReceiverOK
  <2> QED BY <2>1, <2>2
<1>7. b.alwritten = bytes_written(v) /\ inbound_stream(c) = b
  BY DEF bytes_written, inbound_stream
<1> HIDE DEF b
<1> QED BY <1>2, <1>3, <1>4, <1>5, <1>6, <1>7 DEF StreamsOf

\* Those of a side of the pair.
LEMMA PairStreams ==
  ASSUME StreamsStayOpen, PairInv, NEW p \in Peers
  PROVE  StreamsOf(conn[p], conn[Other(p)].sender.byte_sent)
<1> DEFINE o == Other(p)
           x == setting.StreamLen[p]
           y == setting.StreamLen[o]
           t == conn[o].sender.byte_sent
           b == AckPoint(conn[o].receiver)
<1>1. EndpointOf(p) /\ BoundsOf(p)
  BY PairFacts
<1>2. /\ Endpoint(conn[p], Isn[p], Isn[o], x, y, t, b)
      /\ x \in Nat /\ y \in Nat /\ t \in Nat /\ b \in Nat
  BY <1>1 DEF EndpointOf, BoundsOf, Bounds
<1> HIDE DEF x, y, t, b
<1>3. StreamsOf(conn[p], t)
  BY <1>2, EndpointStreams
<1> QED BY <1>3 DEF t

\* Those of what a side becomes.
LEMMA StepStreams ==
  ASSUME StreamsStayOpen, PairInv, NEW p \in Peers, NEW d, StepsOf(p, d)
  PROVE  /\ StreamsOf(d, conn[Other(p)].sender.byte_sent)
         /\ inbound_stream(d).alread = inbound_stream(conn[p]).alread
         /\ bytes_written(conn[p].receiver) <= bytes_written(d.receiver)
<1> DEFINE o == Other(p)
           x == setting.StreamLen[p]
           y == setting.StreamLen[o]
           t == conn[o].sender.byte_sent
           b == AckPoint(conn[o].receiver)
<1>1. BoundsOf(p)
  BY PairFacts
<1>2. /\ Endpoint(d, Isn[p], Isn[o], x, y, t, b)
      /\ inbound_stream(d).alread = inbound_stream(conn[p]).alread
      /\ bytes_written(conn[p].receiver) <= bytes_written(d.receiver)
  BY DEF StepsOf, Steps
<1>3. x \in Nat /\ y \in Nat /\ t \in Nat /\ b \in Nat
  BY <1>1 DEF BoundsOf, Bounds
<1> HIDE DEF x, y, t, b
<1>4. StreamsOf(d, t)
  BY <1>2, <1>3, EndpointStreams
<1> QED BY <1>2, <1>4 DEF t

\* What the other streams look like after a step of the side p.
Becomes(p, d) ==
    /\ conn'[p].sender = d.sender /\ conn'[p].receiver = d.receiver
    /\ conn'[Other(p)] = conn[Other(p)]

\* Bytes arrive.
LEMMA ArriveStep ==
  ASSUME StreamsStayOpen, PairInv, NEW p \in Peers, NEW d, StepsOf(p, d), Becomes(p, d),
         d.sender.stream.alwritten = conn[p].sender.stream.alwritten
  PROVE  Streams!Next
<1> DEFINE o == Other(p)
           b == inbound_stream(conn[p])
           c == inbound_stream(d)
           k == c.alwritten - b.alwritten
           w == conn[o].sender.stream.alwritten
<1>1. o \in Peers /\ o # p /\ Other(o) = p /\ Peers = {p, o}
  BY Sides
<1>2. /\ b \in ByteStreams /\ GoodOutput(b) /\ b.end = FALSE /\ b.alwritten \in Nat
      /\ b.alwritten = bytes_written(conn[p].receiver) /\ conn[p].sender.stream.end = FALSE
  BY Zenon, PairStreams DEF StreamsOf
<1>3. /\ c \in ByteStreams /\ GoodOutput(c) /\ c.end = FALSE /\ c.alwritten \in Nat
      /\ c.alwritten = bytes_written(d.receiver) /\ d.sender.stream.end = FALSE
      /\ c.alwritten = 0 \/ c.alwritten + 1 <= conn[o].sender.byte_sent
      /\ c.alread = b.alread /\ bytes_written(conn[p].receiver) <= bytes_written(d.receiver)
  BY Zenon, StepStreams DEF StreamsOf
<1>4. /\ w \in Nat /\ conn[o].sender.byte_sent \in Nat /\ conn[o].sender.byte_sent <= w + 1
      /\ conn[o].sender.stream.end = FALSE /\ inbound_stream(conn[o]).end = FALSE
  BY Zenon, <1>1, PairStreams DEF StreamsOf
<1>5. k \in 0 .. w - b.alwritten
  <2> DEFINE u == b.alwritten
             z == c.alwritten
             s == conn[o].sender.byte_sent
  <2>1. u \in Nat /\ z \in Nat /\ s \in Nat /\ w \in Nat /\ u <= z /\ s <= w + 1
        /\ (z = 0 \/ z + 1 <= s) /\ k = z - u
    BY <1>2, <1>3, <1>4
  <2> HIDE DEF u, z, s, w, k
  <2>2. k \in 0 .. w - u
    BY ONLY <2>1
  <2> QED BY <2>2 DEF u
<1>6. /\ b.alread + Len(b.content) = b.alwritten
      /\ c.content = b.content \o [i \in 1 .. k |-> b.alread + Len(b.content) + i - 1]
  <2>1. b.alwritten <= c.alwritten
    BY <1>2, <1>3
  <2> HIDE DEF b, c
  <2> QED BY Zenon, <1>2, <1>3, <2>1, ContentOn<1>7. \A q \in Peers : q = p \/ q = o
  BY <1>1
<1>8. /\ conn'[p].sender = d.sender /\ conn'[p].receiver = d.receiver /\ conn'[o] = conn[o]
      /\ inbound_stream(conn'[p]) = c
  BY DEF Becomes, inbound_stream
<1>9. /\ Streams!Arrived(o) = b.alwritten /\ Streams!Arrived(o) = b.alread + Len(b.content)
  BY <1>1, <1>6 DEF Streams!Arrived, Inbound
<1>10. Streams!Arrive(o, k)
  <2>1. [q \in Peers |-> Sender(q).stream.alwritten]' = [q \in Peers |-> Sender(q).stream.alwritten]
    BY <1>7, <1>8 DEF Sender
  <2>2. [q \in Peers |-> Sender(q).stream.end]' = [q \in Peers |-> Sender(q).stream.end]
    BY Zenon, <1>2, <1>3, <1>7, <1>8 DEF Sender
  <2>3. [q \in Peers |-> Inbound(Other(q)).alread]' = [q \in Peers |-> Inbound(Other(q)).alread]
    BY <1>1, <1>3, <1>7, <1>8 DEF Inbound
  <2>4. [q \in Peers |-> Inbound(Other(q)).end]' = [q \in Peers |-> Inbound(Other(q)).end]
    BY Zenon, <1>1, <1>2, <1>3, <1>7, <1>8 DEF Inbound
  <2>5. [q \in Peers |-> Inbound(Other(q)).content]' =
          [[q \in Peers |-> Inbound(Other(q)).content] EXCEPT ![o] =
             @ \o [i \in 1 .. k |-> Streams!Arrived(o) + i - 1]]
    BY Zenon, <1>1, <1>6, <1>7, <1>8, <1>9 DEF Inbound
  <2>6. ~[q \in Peers |-> Inbound(Other(q)).end][o]
    BY <1>1, <1>2 DEF Inbound
  <2> QED BY Zenon, <2>1, <2>2, <2>3, <2>4, <2>5, <2>6 DEF Streams!Arrive
<1>11. k \in 0 .. [q \in Peers |-> Sender(q).stream.alwritten][o] - Streams!Arrived(o)
  BY <1>1, <1>5, <1>9 DEF Sender
<1> QED BY <1>1, <1>10, <1>11 DEF Streams!Next

\* Bytes are written.
LEMMA WrittenStep ==
  ASSUME StreamsStayOpen, PairInv, NEW p \in Peers, NEW d, StepsOf(p, d), Becomes(p, d),
         NEW n \in Nat, n > 0, bytes_written(d.receiver) = bytes_written(conn[p].receiver),
         d.sender.stream.alwritten = conn[p].sender.stream.alwritten + n
  PROVE  Streams!Next
<1> DEFINE o == Other(p)
           b == inbound_stream(conn[p])
           c == inbound_stream(d)
           w == conn[p].sender.stream.alwritten
<1>1. o \in Peers /\ o # p /\ Other(o) = p /\ Peers = {p, o}
  BY Sides
<1>2. /\ b \in ByteStreams /\ GoodOutput(b) /\ b.end = FALSE /\ b.alwritten \in Nat
      /\ b.alwritten = bytes_written(conn[p].receiver) /\ conn[p].sender.stream.end = FALSE
      /\ w \in Nat
  BY Zenon, PairStreams DEF StreamsOf
<1>3. /\ c \in ByteStreams /\ GoodOutput(c) /\ c.end = FALSE
      /\ c.alwritten = bytes_written(d.receiver) /\ d.sender.stream.end = FALSE
      /\ c.alread = b.alread
  BY Zenon, StepStreams DEF StreamsOf
<1>4. c.content = b.content
  <2>1. b.alwritten <= c.alwritten /\ c.alwritten - b.alwritten = 0 /\ b.content \in Seq(Nat)
    BY <1>2, <1>3 DEF ByteStreams
  <2> HIDE DEF b, c
  <2>2. c.content = b.content \o [i \in 1 .. c.alwritten - b.alwritten |->
                                    b.alread + Len(b.content) + i - 1]
    BY <1>2, <1>3, <2>1, ContentOn
  <2>3. [i \in 1 .. 0 |-> b.alread + Len(b.content) + i - 1] = <<>>
    OBVIOUS
  <2>4. b.content \o <<>> = b.content
    BY <2>1
  <2> QED BY <2>1, <2>2, <2>3, <2>4
<1>5. \A q \in Peers : q = p \/ q = o
  BY <1>1
<1>6. /\ conn'[p].sender = d.sender /\ conn'[p].receiver = d.receiver /\ conn'[o] = conn[o]
      /\ inbound_stream(conn'[p]) = c
  BY DEF Becomes, inbound_stream
<1>7. Streams!Write(p)
  <2>1. /\ [q \in Peers |-> Sender(q).stream.alwritten]'[p] = w + n
        /\ [q \in Peers |-> Sender(q).stream.alwritten][p] = w
    BY <1>6 DEF Sender
  <2>2. w + n \in Nat /\ w + n > w
    BY <1>2
  <2>3. [q \in Peers |-> Sender(q).stream.alwritten]' =
          [[q \in Peers |-> Sender(q).stream.alwritten] EXCEPT
             ![p] = [q \in Peers |-> Sender(q).stream.alwritten]'[p]]
    BY Zenon, <1>1, <1>5, <1>6 DEF Sender
  <2>4. /\ [q \in Peers |-> Sender(q).stream.end]' = [q \in Peers |-> Sender(q).stream.end]
        /\ ~[q \in Peers |-> Sender(q).stream.end][p]
    BY Zenon, <1>2, <1>3, <1>5, <1>6 DEF Sender
  <2>5. /\ [q \in Peers |-> Inbound(Other(q)).alread]' = [q \in Peers |-> Inbound(Other(q)).alread]
        /\ [q \in Peers |-> Inbound(Other(q)).end]' = [q \in Peers |-> Inbound(Other(q)).end]
        /\ [q \in Peers |-> Inbound(Other(q)).content]' = [q \in Peers |-> Inbound(Other(q)).content]
    BY Zenon, <1>1, <1>2, <1>3, <1>4, <1>5, <1>6 DEF Inbound
  <2> QED BY Zenon, <2>1, <2>2, <2>3, <2>4, <2>5 DEF Streams!Write
<1> QED BY <1>7 DEF Streams!Next

\* The bytes there are are read.
LEMMA TakenStep ==
  ASSUME Parts, StreamsStayOpen, PairInv, PairInv', NEW p \in Peers, Read(p)
  PROVE  Streams!Next
<1> DEFINE o == Other(p)
           d == ReadAll(conn[p])
           b == inbound_stream(conn[p])
           c == inbound_stream(d)
           k == Len(b.content)
<1>1. o \in Peers /\ o # p /\ Other(o) = p /\ Peers = {p, o}
  BY Sides
<1>2. /\ conn' = [conn EXCEPT ![p] = d] /\ d.sender = conn[p].sender
      /\ c.content = SubSeq(b.content, k + 1, k) /\ c.alread = b.alread + k
  BY Zenon, ReadStep DEF Reads
<1>3. conn \in [Peers -> Connections]
  BY DEF PairInv
<1>4. conn'[p] = d /\ conn'[o] = conn[o]
  BY <1>1, <1>2, <1>3
<1>5. b \in ByteStreams /\ b.end = FALSE
  BY Zenon, PairStreams DEF StreamsOf
<1>6. c.end = FALSE
  <2>1. conn'[p].receiver.reassembler.output.end = FALSE
    BY Zenon DEF PairInv, Endpoint, ReceiverOK, ReassemblerOK
  <2> QED BY <1>4, <2>1 DEF inbound_stream
<1>7. k \in 1 .. k
  <2>1. b.content # <<>> /\ b.content \in Seq(Nat)
    BY <1>5 DEF Read, ByteStreams
  <2> HIDE DEF b
  <2> QED BY <2>1
<1>8. \A q \in Peers : q = p \/ q = o
  BY <1>1
<1> HIDE DEF d
<1>9. Streams!Take(o, k)
  <2>1. /\ [q \in Peers |-> Sender(q).stream.alwritten]' = [q \in Peers |-> Sender(q).stream.alwritten]
        /\ [q \in Peers |-> Sender(q).stream.end]' = [q \in Peers |-> Sender(q).stream.end]
    BY <1>2, <1>4, <1>8 DEF Sender
  <2>2. [q \in Peers |-> Inbound(Other(q)).end]' = [q \in Peers |-> Inbound(Other(q)).end]
    BY Zenon, <1>1, <1>4, <1>5, <1>6, <1>8 DEF Inbound
  <2>3. [q \in Peers |-> Inbound(Other(q)).alread]' =
          [[q \in Peers |-> Inbound(Other(q)).alread] EXCEPT ![o] = @ + k]
    <3> DEFINE z == b.alread + k
    <3>1. inbound_stream(conn'[p]).alread = z
      BY <1>2, <1>4
    <3>2. [q \in Peers |-> Inbound(Other(q)).alread][o] + k = z
      BY <1>1 DEF Inbound
    <3> HIDE DEF z, k
    <3> QED BY Zenon, <1>1, <1>4, <1>8, <3>1, <3>2 DEF Inbound
  <2>4. [q \in Peers |-> Inbound(Other(q)).content]' =
          [[q \in Peers |-> Inbound(Other(q)).content] EXCEPT ![o] = SubSeq(@, k + 1, Len(@))]
    <3> DEFINE z == SubSeq(b.content, k + 1, k)
               x == [q \in Peers |-> Inbound(Other(q)).content][o]
               y == SubSeq(x, k + 1, Len(x))
    <3>1. inbound_stream(conn'[p]).content = z
      BY Zenon, <1>2, <1>4
    <3>2. x = b.content
      BY <1>1 DEF Inbound
    <3>3. y = z
      BY Zenon, <3>2
    <3> HIDE DEF z, y
    <3>4. [q \in Peers |-> Inbound(Other(q)).content]' =
            [[q \in Peers |-> Inbound(Other(q)).content] EXCEPT ![o] = y]
      BY ONLY Zenon, <1>1, <1>4, <1>8, <3>1, <3>3, p \in Peers DEF Inbound
    <3> QED BY <3>4 DEF y
  <2> QED BY <2>1, <2>2, <2>3, <2>4 DEF Streams!Take
<1>10. [q \in Peers |-> Inbound(Other(q)).content][o] = b.content
  BY <1>1 DEF Inbound
<1> QED BY <1>1, <1>7, <1>9, <1>10 DEF Streams!Next

\* A side that becomes c takes its streams along.
LEMMA BecomeStreams ==
  ASSUME PairInv, NEW p \in Peers, NEW c, NEW rest, StepsOf(p, c), Become(p, c, rest)
  PROVE  Becomes(p, c)
<1>1. Other(p) \in Peers /\ Other(p) # p
  BY Sides
<1>2. conn \in [Peers -> Connections]
  BY DEF PairInv
<1>3. c \in Connections
  BY DEF StepsOf, Steps, Endpoint
<1>4. conn' = [conn EXCEPT ![p] = [c EXCEPT !.segments_out = <<>>]]
  BY DEF Become
<1>5. conn'[p] = [c EXCEPT !.segments_out = <<>>] /\ conn'[Other(p)] = conn[Other(p)]
  BY <1>1, <1>2, <1>4
<1> QED BY <1>3, <1>5 DEF Becomes, Connections

\* Initially the streams are empty.
LEMMA InitStreams ==
  ASSUME Parts, Init PROVE Streams!Init
<1>1. ASSUME NEW p \in Peers
      PROVE  /\ Sender(p).stream = NewByteStream(SendCapacity)
             /\ Inbound(Other(p)) = NewByteStream(RecvCapacity)
  <2>1. Other(p) \in Peers
    BY Sides
  <2>2. \A q \in Peers : conn[q] = NewConnection(Isn[q])
    BY DEF Init
  <2>3. \A q \in Peers : Isn[q] \in 0 .. SeqSpace - 1
    BY PairAssumption
  <2>4. 0 \in Nat
    OBVIOUS
  <2>5. \A q \in Peers : /\ conn[q].sender.stream = NewByteStream(SendCapacity)
                        /\ inbound_stream(conn[q]) = NewByteStream(RecvCapacity)
    <3>1. ASSUME NEW isn \in 0 .. SeqSpace - 1
          PROVE  LET c == NewConnection(isn)
                 IN  /\ c.sender.stream = NewByteStream(SendCapacity)
                     /\ inbound_stream(c) = NewByteStream(RecvCapacity)
      BY <2>4, NewOK
    <3> QED BY Zenon, <2>2, <2>3, <3>1
  <2> QED BY <2>1, <2>5 DEF Sender, Inbound
<1>2. ASSUME NEW k
      PROVE  /\ NewByteStream(k).alwritten = 0 /\ NewByteStream(k).alread = 0
             /\ NewByteStream(k).end = FALSE /\ NewByteStream(k).content = <<>>
  BY DEF NewByteStream
<1> QED BY Zenon, <1>1, <1>2 DEF Streams!Init

\* Every step of the pair is a step of the streams.
LEMMA NextStreams ==
  ASSUME Parts, StreamsStayOpen, PairInv, PairInv', [Next]_vars
  PROVE  Streams!Next \/ UNCHANGED Streams!vars
<1>1. ASSUME NEW p \in Peers, NEW c, NEW rest, StepsOf(p, c), SameBytes(conn[p], c),
             Become(p, c, rest)
      PROVE  Streams!Next
  <2>1. Becomes(p, c)
    BY <1>1, BecomeStreams
  <2> QED BY <1>1, <2>1, ArriveStep DEF SameBytes
<1>2. ASSUME Connect PROVE Streams!Next
  <2>1. Client \in Peers
    BY DEF Peers
  <2> QED BY <1>1, <1>2, <2>1, StartsOK DEF Connect, Start
<1>3. ASSUME NEW p \in Peers, NEW n \in 1 .. setting.StreamLen[p], Write(p, n)
      PROVE  Streams!Next
  <2> DEFINE d == Written(p, n)
  <2>1. n \in Nat /\ n > 0
    <3>1. setting.StreamLen[p] \in Nat
      BY PairFacts DEF BoundsOf, Bounds
    <3> QED BY <3>1
  <2>2. CanWrite(p, n) /\ Become(p, d, net)
    BY <1>3 DEF Write, Start
  <2>3. /\ StepsOf(p, d) /\ d.sender.stream.alwritten = conn[p].sender.stream.alwritten + n
        /\ bytes_written(d.receiver) = bytes_written(conn[p].receiver)
    BY <2>1, <2>2, StartsOK
  <2> HIDE DEF d
  <2>4. Becomes(p, d)
    BY <2>2, <2>3, BecomeStreams
  <2> QED BY <2>1, <2>3, <2>4, WrittenStep
<1>4. ASSUME NEW p \in Peers PROVE ~EndInput(p)
  BY Zenon DEF EndInput, CanEnd, StreamsStayOpen, PairInv
<1>5. ASSUME NEW p \in Peers, Tick(p) PROVE Streams!Next
  BY Zenon, <1>1, <1>5, StartsOK DEF Tick, Start
<1>6. ASSUME NEW p \in Peers, NEW i \in 1 .. Len(net[p]), Deliver(p, i) PROVE Streams!Next
  <2> DEFINE d == segment_received(conn[p], net[p][i])
             rest == [net EXCEPT ![p] = Without(@, i)]
  <2>1. StepsOf(p, d) /\ d.sender.stream.alwritten = conn[p].sender.stream.alwritten
    BY DeliverOK
  <2>2. Become(p, d, rest)
    BY <1>6 DEF Deliver
  <2> HIDE DEF d, rest
  <2>3. Becomes(p, d)
    BY <2>1, <2>2, BecomeStreams
  <2> QED BY <2>1, <2>3, ArriveStep
<1>7. ASSUME conn' = conn PROVE UNCHANGED Streams!vars
  BY <1>7 DEF Streams!vars, Sender, Inbound
<1>8. ASSUME NEW p \in Peers, Discard(p) PROVE conn' = conn
  BY <1>8 DEF Discard
<1>9. ASSUME NEW p \in Peers, NEW i \in 1 .. Len(net[p]), Lose(p, i) \/ Duplicate(p, i)
      PROVE  conn' = conn
  BY <1>9 DEF Lose, Duplicate
<1>10. ASSUME UNCHANGED vars PROVE conn' = conn
  BY <1>10 DEF vars
<1>11. ASSUME NEW p \in Peers, Read(p) PROVE Streams!Next
  BY <1>11, TakenStep
<1>12. ASSUME Next
       PROVE  Streams!Next \/ conn' = conn
  <2>1. \/ Connect
        \/ \E p \in Peers :
            \/ \E n \in 1 .. setting.StreamLen[p] : Write(p, n)
            \/ EndInput(p) \/ Read(p) \/ Tick(p) \/ Discard(p)
            \/ \E i \in 1 .. Len(net[p]) : Deliver(p, i) \/ Lose(p, i) \/ Duplicate(p, i)
    BY <1>12 DEF Next
  <2> QED BY <1>2, <1>3, <1>4, <1>5, <1>6, <1>8, <1>9, <1>11, <2>1
<1> QED BY <1>7, <1>10, <1>12
=============================================================================
