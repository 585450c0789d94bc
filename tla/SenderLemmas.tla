---------------------------- MODULE SenderLemmas ----------------------------
(***************************************************************************)
(* Every operation of a TCPSender keeps the invariant, for every window,   *)
(* payload size, buffer size and sequence space.                           *)
(***************************************************************************)
EXTENDS SenderInvariant, WellFoundedInduction, TLAPS

USE SMTT(20), ZenonT(20)

-----------------------------------------------------------------------------
(* Arithmetic and sequences. *)

\* Quotient and remainder.
LEMMA DivMod ==
  ASSUME NEW a \in Int, NEW b \in Nat, b > 0
  PROVE  /\ a \div b \in Int /\ a % b \in 0 .. b - 1
         /\ a = b * (a \div b) + (a % b)
OBVIOUS

\* A remainder is the only one.
LEMMA ModUnique ==
  ASSUME NEW a \in Int, NEW b \in Nat, b > 0, NEW q \in Int, NEW r \in 0 .. b - 1,
         a = b * q + r
  PROVE  a % b = r
OBVIOUS

\* A quotient of a natural number by a positive one.
LEMMA DivNat ==
  ASSUME NEW a \in Nat, NEW b \in Nat, b > 0
  PROVE  /\ a \div b \in Nat
         /\ (a \div b) * b <= a
         /\ a < (a \div b) * b + b
OBVIOUS

\* Multiplication keeps the order.
LEMMA MulMono ==
  ASSUME NEW a \in Nat, NEW b \in Nat, NEW m \in Nat, a <= b
  PROVE  a * m \in Nat /\ b * m \in Nat /\ a * m <= b * m
OBVIOUS

\* The part of a sequence after its first m elements and up to its n-th.
LEMMA SubSeqAt ==
  ASSUME NEW S, NEW q \in Seq(S), NEW m \in Nat, NEW n \in Nat, m <= n, n <= Len(q)
  PROVE  /\ SubSeq(q, m + 1, n) \in Seq(S)
         /\ Len(SubSeq(q, m + 1, n)) = n - m
         /\ \A j \in 1 .. n - m : SubSeq(q, m + 1, n)[j] = q[m + j]
OBVIOUS

\* A sequence put after another.
LEMMA ConcatAt ==
  ASSUME NEW S, NEW q \in Seq(S), NEW h \in Seq(S)
  PROVE  /\ q \o h \in Seq(S) /\ Len(q \o h) = Len(q) + Len(h)
         /\ \A i \in 1 .. Len(q) + Len(h) : (q \o h)[i] = IF i <= Len(q) THEN q[i] ELSE h[i - Len(q)]
OBVIOUS

-----------------------------------------------------------------------------
(* Sequence numbers. *)

\* wrap: a sequence number fits the wire.
LEMMA WrapType ==
  ASSUME NEW n \in Nat, NEW isn \in Nat
  PROVE  wrap(n, isn) \in 0 .. SeqSpace - 1
BY DivMod, SeqSpaceAssumption DEF wrap

\* The wire numbers of n and c differ by n - c, modulo the sequence space.
LEMMA WrapDifference ==
  ASSUME NEW n \in Nat, NEW c \in Nat, NEW isn \in Nat, NEW d \in 0 .. SeqSpace - 1,
         NEW k \in Int, n - c = d + k * SeqSpace
  PROVE  (wrap(n, isn) - wrap(c, isn)) % SeqSpace = d
<1> DEFINE x == (n + isn) \div SeqSpace
           y == (c + isn) \div SeqSpace
<1>1. /\ x \in Int /\ y \in Int
      /\ n + isn = SeqSpace * x + wrap(n, isn)
      /\ c + isn = SeqSpace * y + wrap(c, isn)
      /\ wrap(n, isn) \in Int /\ wrap(c, isn) \in Int
  BY DivMod, SeqSpaceAssumption DEF wrap
<1> HIDE DEF x, y
<1>2. wrap(n, isn) - wrap(c, isn) = SeqSpace * (k + y - x) + d
  BY <1>1, SeqSpaceAssumption
<1> DEFINE a == wrap(n, isn) - wrap(c, isn)
           q == k + y - x
<1>3. a \in Int /\ q \in Int /\ a = SeqSpace * q + d
  BY <1>1, <1>2
<1> HIDE DEF a, q
<1>4. a % SeqSpace = d
  BY <1>3, ModUnique, SeqSpaceAssumption
<1> QED BY <1>4 DEF a

\* unwrap undoes wrap for every number less than half of the sequence space away
\* from the checkpoint, behind it or ahead of it.
THEOREM UnwrapWrap ==
  ASSUME NEW n \in Nat, NEW c \in Nat, NEW isn \in Nat,
         2 * (n - c) < SeqSpace, 2 * (c - n) < SeqSpace
  PROVE  unwrap(wrap(n, isn), isn, c) = n
<1> DEFINE d1 == (wrap(n, isn) - wrap(c, isn)) % SeqSpace
           d2 == (wrap(c, isn) - wrap(n, isn)) % SeqSpace
<1>0. SeqSpace \in Nat /\ SeqSpace > 0
  BY SeqSpaceAssumption
<1>1. CASE n = c
  <2>1. d1 = 0 /\ d2 = 0
    <3>1. n - c = 0 + 0 * SeqSpace /\ c - n = 0 + 0 * SeqSpace /\ 0 \in 0 .. SeqSpace - 1
      BY <1>0, <1>1
    <3> QED BY <3>1, WrapDifference
  <2> QED BY <2>1, <1>1 DEF unwrap
<1>2. CASE n > c
  <2>1. d1 = n - c
    <3>1. n - c = (n - c) + 0 * SeqSpace /\ n - c \in 0 .. SeqSpace - 1
      BY <1>0, <1>2
    <3> QED BY <3>1, WrapDifference
  <2>2. d2 = SeqSpace - (n - c)
    <3>1. c - n = (SeqSpace - (n - c)) + (-1) * SeqSpace /\ SeqSpace - (n - c) \in 0 .. SeqSpace - 1
      BY <1>0, <1>2
    <3> QED BY <3>1, WrapDifference
  <2>3. ~(d1 > d2)
    BY <2>1, <2>2, <1>0
  <2> QED BY <2>1, <2>3 DEF unwrap
<1>3. CASE n < c
  <2>1. d2 = c - n
    <3>1. c - n = (c - n) + 0 * SeqSpace /\ c - n \in 0 .. SeqSpace - 1
      BY <1>0, <1>3
    <3> QED BY <3>1, WrapDifference
  <2>2. d1 = SeqSpace - (c - n)
    <3>1. n - c = (SeqSpace - (c - n)) + (-1) * SeqSpace /\ SeqSpace - (c - n) \in 0 .. SeqSpace - 1
      BY <1>0, <1>3
    <3> QED BY <3>1, WrapDifference
  <2>3. d1 > d2 /\ c >= d2
    BY <2>1, <2>2, <1>0, <1>3
  <2> QED BY <2>1, <2>3 DEF unwrap
<1> QED BY <1>1, <1>2, <1>3

-----------------------------------------------------------------------------
(* What fill_window sends. *)

\* PayloadSize and SegmentCount: the payload is in the buffer and, with the SYN and
\* the FIN, in the window, and the segments are as many as it takes.
LEMMA FillSizes ==
  ASSUME NEW s, Inv(s), CanFill(s)
  PROVE  /\ PayloadSize(s) \in Nat /\ PayloadSize(s) <= Len(s.stream.content)
         /\ SegmentCount(s) \in Nat /\ SegmentCount(s) >= 1
         /\ (SegmentCount(s) - 1) * M <= PayloadSize(s)
         /\ PayloadSize(s) <= SegmentCount(s) * M
         /\ PayloadSize(s) > 0 => (SegmentCount(s) - 1) * M < PayloadSize(s)
         /\ PayloadSize(s) = 0 => SegmentCount(s) = 1 /\ (SendsSyn(s) \/ SendsFin(s))
         /\ Bit(SendsSyn(s)) + PayloadSize(s) + Bit(SendsFin(s)) <= Room(s)
<1>1. /\ s.byte_sent \in Nat /\ s.byte_received \in Nat /\ s.window_size \in 0 .. MaxWindow
      /\ s.stream.content \in Seq(Nat)
  BY DEF Inv, Senders, ByteStreams
<1>2. Room(s) \in Int /\ Room(s) > 0 /\ SegmentCount(s) > 0
  BY <1>1, SenderAssumption DEF CanFill, Room, Window, bytes_in_flight
<1>3. Len(s.stream.content) \in Nat
  BY <1>1
<1>4. /\ PayloadSize(s) \in Nat /\ PayloadSize(s) <= Len(s.stream.content)
      /\ Bit(SendsSyn(s)) + PayloadSize(s) <= Room(s)
  BY <1>2, <1>3 DEF PayloadSize, Lesser, buffer_size, Bit
<1>5. Bit(SendsSyn(s)) + PayloadSize(s) + Bit(SendsFin(s)) <= Room(s)
  BY <1>2, <1>4 DEF SendsFin, Bit
<1>6. CASE PayloadSize(s) = 0
  BY <1>2, <1>4, <1>5, <1>6, SenderAssumption DEF SegmentCount, Bit, M
<1>7. CASE PayloadSize(s) > 0
  <2> DEFINE k == (PayloadSize(s) - 1) \div M
  <2>1. k \in Nat /\ k * M <= PayloadSize(s) - 1 /\ PayloadSize(s) - 1 < k * M + M
    BY <1>4, <1>7, DivNat, SenderAssumption DEF M
  <2>2. SegmentCount(s) = k + 1
    BY <1>7, <1>4 DEF SegmentCount, M
  <2> HIDE DEF k
  <2>3. (k + 1) * M = k * M + M /\ k * M \in Nat /\ M \in Nat
    BY <2>1, SenderAssumption DEF M
  <2> QED BY <1>4, <1>5, <1>7, <2>1, <2>2, <2>3
<1> QED BY <1>4, <1>6, <1>7

\* SegmentAt: the i-th segment starts where the ones before it end, the last one ends
\* with the FIN, and each carries its bytes.
LEMMA FillSegment ==
  ASSUME NEW s, Inv(s), CanFill(s), NEW i \in 1 .. SegmentCount(s)
  PROVE  LET g == SegmentAt(s, i)
         IN  /\ g \in Segment
             /\ g.abs = s.byte_sent + (i - 1) * M + Bit(SendsSyn(s) /\ i > 1)
             /\ i < SegmentCount(s) => End(g) = s.byte_sent + Bit(SendsSyn(s)) + i * M
             /\ i = SegmentCount(s) =>
                    End(g) = s.byte_sent + Bit(SendsSyn(s)) + PayloadSize(s) + Bit(SendsFin(s))
             /\ length_in_sequence_space(g) > 0
             /\ length_in_sequence_space(g) <= M + 2
             /\ Carries(s.isn, s.stream, SendsFin(s), g)
<1> DEFINE n == SegmentCount(s)
           P == PayloadSize(s)
           before == (i - 1) * M
           last == Lesser(before + M, P)
           syn == SendsSyn(s) /\ i = 1
           fin == SendsFin(s) /\ i = n
           abs == s.byte_sent + before + Bit(SendsSyn(s) /\ i > 1)
           payload == SubSeq(s.stream.content, before + 1, last)
           g == SegmentAt(s, i)
<1>1. /\ s.byte_sent \in Nat /\ s.byte_received \in Nat
      /\ s.stream.content \in Seq(Nat) /\ s.stream.alread \in Nat
      /\ s.isn \in Nat /\ s.eof = FALSE
  BY SenderAssumption, SeqSpaceAssumption DEF Inv, Senders, ByteStreams, CountInv, CanFill
<1>2. /\ n \in Nat /\ n >= 1 /\ P \in Nat /\ P <= Len(s.stream.content)
      /\ (n - 1) * M <= P /\ P <= n * M
      /\ P > 0 => (n - 1) * M < P
      /\ P = 0 => n = 1 /\ (SendsSyn(s) \/ SendsFin(s))
  BY FillSizes
<1>3. M \in Nat /\ M > 0 /\ i \in Nat /\ i >= 1 /\ i <= n
  BY <1>2, SenderAssumption DEF M
<1>4. g = [seqno |-> wrap(abs, s.isn), ackno |-> 0, win |-> 0, syn |-> syn, fin |-> fin,
           ack |-> FALSE, rst |-> FALSE, payload |-> payload, abs |-> abs]
  <2>1. g = [BlankSegment EXCEPT !.abs = abs, !.seqno = wrap(abs, s.isn), !.syn = syn,
                                 !.fin = fin, !.payload = payload]
    BY Zenon DEF SegmentAt, M
  <2> HIDE DEF abs, syn, fin, payload, g
  <2> QED BY Zenon, <2>1, <1>1 DEF BlankSegment
<1> HIDE DEF n, P, abs, syn, fin, payload, g
<1>5. /\ before \in Nat /\ before <= P
      /\ P > 0 => before < P
      /\ i < n => i * M <= P
      /\ i * M = before + M
  <2>1. (i - 1) * M <= (n - 1) * M /\ (i - 1) * M \in Nat
    BY <1>2, <1>3, MulMono
  <2>2. i < n => i * M <= (n - 1) * M
    BY <1>2, <1>3, MulMono
  <2>3. i * M = (i - 1) * M + M /\ (n - 1) * M \in Int /\ i * M \in Int
    BY <1>2, <1>3
  <2> QED BY <1>2, <1>3, <2>1, <2>2, <2>3
<1>6. i = n => P <= before + M
  BY <1>2, <1>5
<1> HIDE DEF before
<1>7. Len(s.stream.content) \in Nat
  BY <1>1
<1>8. /\ last \in Nat /\ last <= Len(s.stream.content) /\ last >= before
      /\ i < n => last = before + M
      /\ i = n => last = P
  BY <1>2, <1>3, <1>5, <1>6, <1>7 DEF Lesser
<1> HIDE DEF last
<1>9. /\ payload \in Seq(Nat) /\ Len(payload) = last - before
      /\ \A j \in 1 .. Len(payload) : payload[j] = s.stream.content[before + j]
  <2>1. /\ payload \in Seq(Nat) /\ Len(payload) = last - before
        /\ \A j \in 1 .. last - before : payload[j] = s.stream.content[before + j]
    <3> DEFINE c == s.stream.content
    <3>1. c \in Seq(Nat) /\ before \in Nat /\ last \in Nat /\ before <= last /\ last <= Len(c)
      BY <1>1, <1>5, <1>8
    <3> HIDE DEF c
    <3>2. /\ SubSeq(c, before + 1, last) \in Seq(Nat)
          /\ Len(SubSeq(c, before + 1, last)) = last - before
          /\ \A j \in 1 .. last - before : SubSeq(c, before + 1, last)[j] = c[before + j]
      BY Zenon, <3>1, SubSeqAt
    <3> QED BY <3>2 DEF c, payload
  <2> QED BY <2>1
<1> DEFINE y  == Bit(SendsSyn(s))
           y0 == Bit(syn)
           y1 == Bit(SendsSyn(s) /\ i > 1)
           f  == Bit(SendsFin(s))
           f0 == Bit(fin)
           sent == s.byte_sent
           read == s.stream.alread
<1>10. /\ y \in Nat /\ y0 \in Nat /\ y1 \in Nat /\ f \in Nat /\ f0 \in Nat
       /\ y0 <= 1 /\ f0 <= 1
       /\ y0 + y1 = y
       /\ i = 1 => y1 = 0
       /\ SendsSyn(s) <=> y = 1
       /\ syn <=> y0 = 1
       /\ i < n => f0 = 0
       /\ i = n => f0 = f
       /\ fin <=> f0 = 1
  BY <1>2, <1>3 DEF Bit, syn, fin
<1>11. abs = sent + before + y1
  BY DEF abs
<1>12. sent + y = read + 1
  BY <1>1, <1>10 DEF Inv, CountInv, SendsSyn, Bit
<1>12a. sent \in Nat /\ read \in Nat
  BY <1>1
<1> HIDE DEF y, y0, y1, f, f0, sent, read
<1>13. abs \in Nat /\ wrap(abs, s.isn) \in 0 .. SeqSpace - 1
  <2>1. abs \in Nat
    BY <1>12a, <1>5, <1>10, <1>11
  <2> QED BY Zenon, <2>1, <1>1, WrapType
<1>14. g \in Segment
  BY <1>4, <1>9, <1>13 DEF Segment, syn, fin
<1>15. /\ length_in_sequence_space(g) = (last - before) + y0 + f0
       /\ End(g) = abs + ((last - before) + y0 + f0)
  BY <1>4, <1>9 DEF length_in_sequence_space, End, y0, f0
<1>17. /\ i < n => End(g) = sent + y + i * M
       /\ i = n => End(g) = sent + y + P + f
  <2>1. End(g) = sent + before + y1 + ((last - before) + y0 + f0)
    BY <1>11, <1>15
  <2>2. End(g) = sent + last + y + f0
    BY <1>5, <1>8, <1>10, <1>12a, <2>1
  <2>3. i < n => last = i * M /\ f0 = 0
    BY <1>5, <1>8, <1>10
  <2> QED BY <1>8, <1>10, <1>12a, <2>2, <2>3
<1>18. /\ length_in_sequence_space(g) > 0
       /\ length_in_sequence_space(g) <= M + 2
  <2>1. last - before <= M
    BY <1>2, <1>3, <1>5, <1>6, <1>8
  <2>2. P > 0 => last - before > 0
    BY <1>2, <1>3, <1>5, <1>8
  <2>3. P = 0 => syn \/ fin
    BY <1>2, <1>3 DEF syn, fin, n, P
  <2> QED BY <1>2, <1>3, <1>5, <1>8, <1>10, <1>15, <2>1, <2>2, <2>3
<1>19. Carries(s.isn, s.stream, SendsFin(s), g)
  <2>1. g.seqno = wrap(g.abs, s.isn) /\ g.abs = abs /\ g.payload = payload
    BY <1>4
  <2>2. ASSUME NEW j \in 1 .. Len(g.payload)
        PROVE  g.payload[j] = g.abs + Bit(g.syn) + j - 2
    <3>1. /\ g.payload[j] = s.stream.content[before + j]
          /\ before + j \in 1 .. Len(s.stream.content)
      BY <1>5, <1>7, <1>8, <1>9, <2>1
    <3>2. g.payload[j] = read + (before + j) - 1
      BY <3>1 DEF Inv, StreamInv, read
    <3>3. Bit(g.syn) = y0
      BY <1>4 DEF y0
    <3>4. j \in Nat
      BY <1>8, <1>5, <1>9, <2>1
    <3>5. read + (before + j) - 1 = (sent + before + y1) + y0 + j - 2
      BY <1>5, <1>10, <1>12, <1>12a, <3>4
    <3> QED BY <1>11, <2>1, <3>2, <3>3, <3>5
  <2>3. g.syn <=> g.abs = 0 /\ length_in_sequence_space(g) > 0
    <3>1. g.syn <=> syn
      BY <1>4
    <3>2. SendsSyn(s) <=> sent = 0
      BY DEF SendsSyn, sent
    <3>3. i = 1 => before = 0
      BY <1>3 DEF before
    <3>4. i > 1 => before > 0
      BY <1>3, <1>5 DEF before
    <3>5. syn <=> SendsSyn(s) /\ i = 1
      BY DEF syn
    <3>6. syn <=> abs = 0
      BY <1>3, <1>5, <1>10, <1>11, <1>12a, <3>2, <3>3, <3>4, <3>5
    <3> QED BY <1>18, <2>1, <3>1, <3>6
  <2>4. g.fin => SendsFin(s) /\ End(g) = s.stream.alwritten + 2
    <3>1. g.fin => SendsFin(s) /\ i = n /\ f = 1
      BY Zenon, <1>4 DEF fin, f, Bit
    <3>2. SendsFin(s) => P = Len(s.stream.content)
      BY DEF SendsFin, P, buffer_size
    <3>3. s.stream.alwritten = read + Len(s.stream.content)
      BY DEF Inv, StreamInv, read
    <3> DEFINE len == Len(s.stream.content)
               all == s.stream.alwritten
               e == End(g)
    <3>4. /\ SendsFin(s) => P = len
          /\ all = read + len /\ len \in Nat
          /\ i = n => e = sent + y + P + f
      BY <1>7, <1>17, <3>2, <3>3
    <3> HIDE DEF len, all, e
    <3>5. SendsFin(s) /\ i = n /\ f = 1 => e = all + 2
      BY <1>10, <1>12, <1>12a, <3>4
    <3> QED BY <3>1, <3>5 DEF e, all
  <2>5. g.ack = FALSE
    BY <1>4
  <2> QED BY <2>1, <2>2, <2>3, <2>4, <2>5 DEF Carries
<1> QED BY <1>4, <1>11, <1>14, <1>17, <1>18, <1>19 DEF before, n, P, g, y, y1, f, sent

-----------------------------------------------------------------------------
(* Queues of segments. *)

\* The numbers of a segment.
LEMMA SegmentNumbers ==
  ASSUME NEW g \in Segment
  PROVE  /\ g.abs \in Nat
         /\ length_in_sequence_space(g) \in Nat
         /\ End(g) = g.abs + length_in_sequence_space(g)
         /\ End(g) \in Nat
<1>1. g.abs \in Nat /\ g.payload \in Seq(Nat)
  BY DEF Segment
<1>2. Len(g.payload) \in Nat
  BY <1>1
<1>3. length_in_sequence_space(g) \in Nat
  <2>1. Bit(g.syn) \in Nat /\ Bit(g.fin) \in Nat
    BY DEF Bit
  <2> QED BY <1>2, <2>1 DEF length_in_sequence_space
<1>4. End(g) = g.abs + length_in_sequence_space(g)
  BY DEF End
<1> QED BY <1>1, <1>3, <1>4

\* A run of segments that covers the numbers from sent to new.
Run(h, sent, new) ==
    /\ h # <<>> /\ h[1].abs = sent /\ End(h[Len(h)]) = new
    /\ \A i \in 1 .. Len(h) : i < Len(h) => End(h[i]) = h[i + 1].abs
    /\ \A i, j \in 1 .. Len(h) : i < j => End(h[i]) <= h[j].abs
    /\ \A i \in 1 .. Len(h) : /\ length_in_sequence_space(h[i]) > 0
                              /\ length_in_sequence_space(h[i]) <= M + 2
                              /\ sent <= h[i].abs /\ End(h[i]) <= new

\* Sending a run after a queue makes a queue.
LEMMA QueueAppend ==
  ASSUME NEW q \in Seq(Segment), NEW h \in Seq(Segment),
         NEW rcvd \in Nat, NEW sent \in Nat, NEW new \in Nat,
         rcvd <= sent, sent < new, QueueInv(q, rcvd, sent), Run(h, sent, new)
  PROVE  QueueInv(q \o h, rcvd, new)
<1> DEFINE a == Len(q)
           b == Len(h)
           w == q \o h
<1>1. a \in Nat /\ b \in Nat /\ b > 0 /\ (q = <<>> <=> a = 0)
  BY DEF Run
<1>2. /\ w \in Seq(Segment) /\ Len(w) = a + b
      /\ \A i \in 1 .. a + b : w[i] = IF i <= a THEN q[i] ELSE h[i - a]
  BY ConcatAt
<1>3. /\ \A i \in 1 .. a : w[i] = q[i] /\ q[i] \in Segment
      /\ \A k \in 1 .. b : w[a + k] = h[k] /\ h[k] \in Segment
  <2>1. ASSUME NEW k \in 1 .. b PROVE w[a + k] = h[k]
    <3>1. a + k \in 1 .. a + b /\ ~(a + k <= a) /\ (a + k) - a = k
      BY <1>1
    <3> QED BY <1>2, <3>1
  <2> QED BY <1>1, <1>2, <2>1
<1> HIDE DEF w
<1>4. /\ \A i \in 1 .. a : /\ End(q[i]) \in Nat /\ q[i].abs \in Nat
                           /\ q[i].abs < End(q[i]) /\ End(q[i]) <= sent
      /\ \A i \in 1 .. b : /\ End(h[i]) \in Nat /\ h[i].abs \in Nat
                           /\ h[i].abs < End(h[i]) /\ sent <= h[i].abs /\ End(h[i]) <= new
  <2>1. ASSUME NEW i \in 1 .. a
        PROVE  /\ End(q[i]) \in Nat /\ q[i].abs \in Nat
               /\ q[i].abs < End(q[i]) /\ End(q[i]) <= sent
    <3>1. length_in_sequence_space(q[i]) > 0 /\ End(q[i]) <= sent
      BY DEF QueueInv
    <3> QED BY <1>3, <3>1, SegmentNumbers
  <2>2. ASSUME NEW i \in 1 .. b
        PROVE  /\ End(h[i]) \in Nat /\ h[i].abs \in Nat
               /\ h[i].abs < End(h[i]) /\ sent <= h[i].abs /\ End(h[i]) <= new
    <3>1. length_in_sequence_space(h[i]) > 0 /\ sent <= h[i].abs /\ End(h[i]) <= new
      BY DEF Run
    <3> QED BY <1>3, <3>1, SegmentNumbers, SMTT(30)
  <2> QED BY <2>1, <2>2
<1>5. w # <<>> /\ rcvd # new
  BY <1>1, <1>2
<1>6. /\ w[1].abs <= rcvd /\ rcvd < End(w[1])
      /\ End(w[Len(w)]) = new
  <2>1. CASE a = 0
    <3>1. w[1] = h[1] /\ rcvd = sent
      BY <1>1, <1>3, <2>1 DEF QueueInv
    <3>2. w[1].abs <= rcvd /\ rcvd < End(w[1])
      BY <1>1, <1>4, <3>1 DEF Run
    <3>3. w[Len(w)] = h[b]
      BY <1>1, <1>2, <1>3, <2>1
    <3> QED BY <3>2, <3>3 DEF Run
  <2>2. CASE a > 0
    <3>1. w[1] = q[1] /\ q # <<>>
      BY <1>1, <1>3, <2>2
    <3>2. w[1].abs <= rcvd /\ rcvd < End(w[1])
      BY <3>1 DEF QueueInv
    <3>3. w[Len(w)] = h[b]
      BY <1>1, <1>2, <1>3
    <3> QED BY <3>2, <3>3 DEF Run
  <2> QED BY <1>1, <2>1, <2>2
<1>7. ASSUME NEW i \in 1 .. Len(w), i < Len(w)
      PROVE  End(w[i]) = w[i + 1].abs
  <2>1. CASE i < a
    <3>1. w[i] = q[i] /\ w[i + 1] = q[i + 1]
      BY <1>1, <1>2, <1>3, <2>1
    <3> QED BY <1>1, <2>1, <3>1, <1>2 DEF QueueInv
  <2>2. CASE i = a
    <3>1. w[i] = q[a] /\ w[i + 1] = h[1] /\ q # <<>>
      BY <1>1, <1>2, <1>3, <2>2
    <3> QED BY <3>1 DEF QueueInv, Run
  <2>3. CASE i > a
    <3>1. PICK k \in 1 .. b : i = a + k /\ k < b
      <4> HIDE DEF a, b
      <4>1. i - a \in 1 .. b /\ i = a + (i - a) /\ i - a < b
        BY <1>1, <1>2, <1>7, <2>3
      <4> QED BY <4>1
    <3>2. w[i] = h[k]
      BY <1>3, <3>1
    <3>3. k + 1 \in 1 .. b /\ i + 1 = a + (k + 1)
      BY <1>1, <3>1
    <3>4. w[i + 1] = h[k + 1]
      BY <1>3, <3>3
    <3> QED BY <3>1, <3>2, <3>4 DEF Run
  <2> QED BY <1>1, <1>2, <2>1, <2>2, <2>3
<1>8. ASSUME NEW i \in 1 .. Len(w), NEW j \in 1 .. Len(w), i < j
      PROVE  End(w[i]) <= w[j].abs
  <2>1. CASE j <= a
    <3>1. i \in 1 .. a /\ j \in 1 .. a
      <4> HIDE DEF a, b
      <4> QED BY <1>1, <1>2, <1>8, <2>1
    <3>2. w[i] = q[i] /\ w[j] = q[j]
      BY <1>3, <3>1
    <3>3. End(q[i]) <= q[j].abs
      BY <1>8, <3>1 DEF QueueInv
    <3> QED BY <3>2, <3>3
  <2>2. CASE i <= a /\ a < j
    <3>1. w[i] = q[i] /\ i \in 1 .. a
      BY <1>1, <1>2, <1>3, <2>2
    <3>2. PICK k \in 1 .. b : j = a + k
      <4>1. j - a \in 1 .. b /\ j = a + (j - a)
        BY <1>1, <1>2, <2>2
      <4> QED BY Zenon, <4>1
    <3>3. w[j] = h[k]
      BY <1>3, <3>2
    <3>4. End(q[i]) <= sent /\ sent <= h[k].abs /\ End(q[i]) \in Nat /\ h[k].abs \in Nat
      BY <1>4, <3>1
    <3> QED BY <3>1, <3>3, <3>4
  <2>3. CASE a < i
    <3>1. PICK k \in 1 .. b, l \in 1 .. b : i = a + k /\ j = a + l /\ k < l
      <4> HIDE DEF a, b
      <4>1. i - a \in 1 .. b /\ i = a + (i - a) /\ j - a \in 1 .. b /\ j = a + (j - a) /\ i - a < j - a
        BY <1>1, <1>2, <1>8, <2>3
      <4> QED BY <4>1
    <3>2. w[i] = h[k] /\ w[j] = h[l]
      BY <1>3, <3>1
    <3> QED BY <3>1, <3>2 DEF Run
  <2> QED BY <1>1, <1>2, <2>1, <2>2, <2>3
<1>9. ASSUME NEW i \in 1 .. Len(w)
      PROVE  /\ length_in_sequence_space(w[i]) > 0
             /\ length_in_sequence_space(w[i]) <= M + 2
             /\ End(w[i]) <= new
  <2>1. CASE i <= a
    <3>1. w[i] = q[i] /\ i \in 1 .. a
      BY <1>1, <1>2, <1>3, <2>1
    <3>2. End(q[i]) <= sent /\ End(q[i]) \in Nat
      BY <1>4, <3>1
    <3>3. End(q[i]) <= new
      BY <3>2
    <3> QED BY <3>1, <3>3 DEF QueueInv
  <2>2. CASE i > a
    <3>1. PICK k \in 1 .. b : i = a + k
      <4>1. i - a \in 1 .. b /\ i = a + (i - a)
        BY <1>1, <1>2, <2>2
      <4> QED BY Zenon, <4>1
    <3>2. w[i] = h[k]
      BY <1>3, <3>1
    <3> QED BY <3>2 DEF Run
  <2> QED BY <1>1, <1>2, <2>1, <2>2
<1> QED BY Zenon, <1>5, <1>6, <1>7, <1>8, <1>9 DEF QueueInv, w

-----------------------------------------------------------------------------
(* fill_window keeps the invariant. *)

\* The segments one call of fill_window sends, and the number after them.
Sends(s) == [i \in 1 .. SegmentCount(s) |-> SegmentAt(s, i)]
NextSent(s) == s.byte_sent + Bit(SendsSyn(s)) + PayloadSize(s) + Bit(SendsFin(s))

\* What fill_window sends is a run that starts at byte_sent.
LEMMA FillRun ==
  ASSUME NEW s, Inv(s), CanFill(s)
  PROVE  /\ Sends(s) \in Seq(Segment) /\ Len(Sends(s)) = SegmentCount(s)
         /\ \A i \in 1 .. Len(Sends(s)) : Carries(s.isn, s.stream, SendsFin(s), Sends(s)[i])
         /\ Run(Sends(s), s.byte_sent, NextSent(s))
<1> DEFINE h == Sends(s)
           n == SegmentCount(s)
           P == PayloadSize(s)
           y == Bit(SendsSyn(s))
           f == Bit(SendsFin(s))
           sent == s.byte_sent
           new == NextSent(s)
<1>1. /\ n \in Nat /\ n >= 1 /\ P \in Nat
      /\ (n - 1) * M <= P
  BY FillSizes
<1>2. M \in Nat
  BY SenderAssumption DEF M
<1>3. sent \in Nat
  BY DEF Inv, Senders
<1>4. y \in Nat /\ f \in Nat /\ y <= 1
  BY DEF Bit
<1>5. new = sent + y + P + f
  BY DEF NextSent
<1>6. ASSUME NEW i \in 1 .. n
      PROVE  /\ h[i] \in Segment
             /\ h[i].abs = sent + (i - 1) * M + Bit(SendsSyn(s) /\ i > 1)
             /\ i < n => End(h[i]) = sent + y + i * M
             /\ i = n => End(h[i]) = new
             /\ length_in_sequence_space(h[i]) > 0
             /\ length_in_sequence_space(h[i]) <= M + 2
             /\ Carries(s.isn, s.stream, SendsFin(s), h[i])
  <2>1. h[i] = SegmentAt(s, i)
    BY DEF Sends
  <2> HIDE DEF h
  <2> QED BY <2>1, <1>5, FillSegment
<1>7. h \in Seq(Segment) /\ Len(h) = n
  <2>1. h = [i \in 1 .. n |-> SegmentAt(s, i)] /\ \A i \in 1 .. n : SegmentAt(s, i) \in Segment
    BY <1>6 DEF Sends
  <2> HIDE DEF h, n
  <2> QED BY <1>1, <2>1
<1> HIDE DEF h, n, P, y, f, sent, new
<1>8. ASSUME NEW i \in 1 .. n
      PROVE  /\ h[i].abs \in Nat /\ End(h[i]) \in Nat
             /\ i = 1 => h[i].abs = sent
             /\ i > 1 => h[i].abs = sent + y + (i - 1) * M
             /\ sent <= h[i].abs
             /\ End(h[i]) = h[i].abs + length_in_sequence_space(h[i])
  <2>1. h[i] \in Segment /\ h[i].abs = sent + (i - 1) * M + Bit(SendsSyn(s) /\ i > 1)
    BY <1>6
  <2>2. (i - 1) * M \in Nat /\ (i = 1 => (i - 1) * M = 0)
    BY <1>1, <1>2, MulMono
  <2>3. /\ i = 1 => Bit(SendsSyn(s) /\ i > 1) = 0
        /\ i > 1 => Bit(SendsSyn(s) /\ i > 1) = y
    BY DEF Bit, y
  <2>4. i \in Nat /\ i >= 1
    BY <1>1
  <2> QED BY <1>3, <1>4, <2>1, <2>2, <2>3, <2>4, SegmentNumbers
<1>9. ASSUME NEW i \in 1 .. n, NEW j \in 1 .. n, i < j
      PROVE  /\ End(h[i]) <= h[j].abs
             /\ j = i + 1 => End(h[i]) = h[j].abs
  <2>1. i \in Nat /\ j \in Nat /\ i < n /\ j > 1 /\ i <= j - 1 /\ j - 1 \in Nat
    BY <1>1, <1>9
  <2>2. End(h[i]) = sent + y + i * M /\ h[j].abs = sent + y + (j - 1) * M
    BY <1>6, <1>8, <2>1
  <2>3. i * M <= (j - 1) * M /\ i * M \in Nat /\ (j - 1) * M \in Nat
    BY <1>2, <2>1, MulMono
  <2>4. j = i + 1 => j - 1 = i
    BY <2>1
  <2> QED BY <1>3, <1>4, <2>2, <2>3, <2>4
<1>10. ASSUME NEW i \in 1 .. n
       PROVE  End(h[i]) <= new
  <2>1. i \in Nat /\ (i < n \/ i = n)
    BY <1>1
  <2>2. CASE i = n
    BY <1>6, <1>8, <2>2
  <2>3. CASE i < n
    <3>1. i <= n - 1 /\ n - 1 \in Nat
      BY <1>1, <2>1, <2>3
    <3>2. i * M <= (n - 1) * M /\ i * M \in Nat /\ (n - 1) * M \in Nat
      BY <1>2, <2>1, <3>1, MulMono
    <3>3. End(h[i]) = sent + y + i * M
      BY <1>6, <2>3
    <3> QED BY <1>1, <1>3, <1>4, <1>5, <3>2, <3>3
  <2> QED BY <2>1, <2>2, <2>3
<1>11. Run(h, sent, new)
  <2>1. h # <<>> /\ 1 \in 1 .. n /\ n \in 1 .. n
    BY <1>1, <1>7
  <2>2. h[1].abs = sent /\ End(h[Len(h)]) = new
    BY <1>6, <1>7, <1>8, <2>1
  <2>3. ASSUME NEW i \in 1 .. Len(h), i < Len(h)
        PROVE  End(h[i]) = h[i + 1].abs
    <3>1. i \in 1 .. n /\ i + 1 \in 1 .. n /\ i < i + 1
      BY <1>1, <1>7, <2>3
    <3> QED BY <1>9, <3>1
  <2> QED BY <1>6, <1>7, <1>8, <1>9, <1>10, <2>1, <2>2, <2>3 DEF Run
<1> QED BY <1>6, <1>7, <1>11 DEF h, n, sent, new

\* pop_output: reading takes bytes off the front of the buffer.
LEMMA PopStream ==
  ASSUME NEW b \in ByteStreams, StreamInv(b), NEW P \in Nat, P <= Len(b.content)
  PROVE  LET c == pop_output(b, P)
         IN  /\ c \in ByteStreams /\ StreamInv(c)
             /\ c.alread = b.alread + P /\ c.alwritten = b.alwritten /\ c.end = b.end
             /\ Len(c.content) = Len(b.content) - P
<1> DEFINE q == b.content
           rest == SubSeq(q, P + 1, Len(q))
           c == pop_output(b, P)
<1>1. q \in Seq(Nat) /\ b.alread \in Nat /\ b.alwritten \in Nat /\ b.end \in BOOLEAN
  BY DEF ByteStreams
<1>2. Len(q) \in Nat
  BY <1>1
<1>3. Lesser(buffer_size(b), P) = P
  BY <1>2 DEF Lesser, buffer_size
<1>4. c = [b EXCEPT !.content = rest, !.alread = @ + P]
  BY <1>3 DEF pop_output
<1>5. /\ rest \in Seq(Nat) /\ Len(rest) = Len(q) - P
      /\ \A j \in 1 .. Len(q) - P : rest[j] = q[P + j]
  <2> HIDE DEF q
  <2> QED BY <1>1, <1>2, SubSeqAt DEF q
<1> HIDE DEF rest, c
<1>6. /\ c \in ByteStreams
      /\ c.content = rest /\ c.alread = b.alread + P
      /\ c.alwritten = b.alwritten /\ c.end = b.end /\ c.max = b.max
  <2> DEFINE r == b.alread + P
  <2>1. r \in Nat /\ c = [b EXCEPT !.content = rest, !.alread = r]
    BY <1>1, <1>4
  <2> HIDE DEF r
  <2>2. c \in ByteStreams
    BY Zenon, <1>5, <2>1 DEF ByteStreams
  <2>3. /\ c.content = rest /\ c.alread = r
        /\ c.alwritten = b.alwritten /\ c.end = b.end /\ c.max = b.max
    BY <2>1 DEF ByteStreams
  <2> QED BY <2>2, <2>3 DEF r
<1>7. StreamInv(c)
  <2> DEFINE r == b.alread
             len == Len(q)
  <2>1. b.alwritten = r + len /\ \A j \in 1 .. len : q[j] = r + j - 1
    BY DEF StreamInv
  <2>2. r \in Nat /\ len \in Nat
    BY <1>1, <1>2
  <2> HIDE DEF r, len, q
  <2>3. ASSUME NEW j \in 1 .. len - P
        PROVE  rest[j] = (r + P) + j - 1
    <3>1. P + j \in 1 .. len /\ j \in Nat
      BY <2>2
    <3>2. rest[j] = q[P + j]
      BY <1>5 DEF len
    <3>3. q[P + j] = r + (P + j) - 1
      BY <2>1, <3>1
    <3> QED BY <2>2, <3>1, <3>2, <3>3
  <2>4. c.alwritten = (r + P) + (len - P)
    BY <1>6, <2>1, <2>2
  <2>5. Len(rest) = len - P
    BY <1>5 DEF len
  <2>6. c.content = rest /\ c.alread = r + P
    BY <1>6 DEF r
  <2>7. len - P <= c.max
    <3>1. len <= b.max /\ b.max \in Nat /\ P <= len
      BY DEF StreamInv, ByteStreams, len, q
    <3> QED BY <1>6, <2>2, <3>1
  <2> QED BY <2>3, <2>4, <2>5, <2>6, <2>7 DEF StreamInv
<1> QED BY <1>5, <1>6, <1>7 DEF c

\* The fields of the sender after fill_window has sent something.
LEMMA FillFields ==
  ASSUME NEW s \in Senders, CanFill(s)
  PROVE  LET t == fill_window(s)
         IN  /\ t.isn = s.isn /\ t.window_size = s.window_size
             /\ t.byte_received = s.byte_received
             /\ t.consecutive_retrans = s.consecutive_retrans
             /\ t.segments_out = s.segments_out \o Sends(s)
             /\ t.unacked = s.unacked \o Sends(s)
             /\ t.byte_sent = NextSent(s)
             /\ t.stream = pop_output(s.stream, PayloadSize(s))
             /\ t.eof = SendsFin(s)
             /\ t.sendtimer = IF s.sendtimer.active THEN s.sendtimer
                              ELSE start(rto_reset(s.sendtimer))
             /\ t = [isn |-> t.isn, segments_out |-> t.segments_out, unacked |-> t.unacked,
                     stream |-> t.stream, consecutive_retrans |-> t.consecutive_retrans,
                     sendtimer |-> t.sendtimer, window_size |-> t.window_size,
                     byte_sent |-> t.byte_sent, byte_received |-> t.byte_received,
                     eof |-> t.eof]
<1> DEFINE h == Sends(s)
           p == pop_output(s.stream, PayloadSize(s))
           e == SendsFin(s)
           m == IF s.sendtimer.active THEN s.sendtimer ELSE start(rto_reset(s.sendtimer))
           n == NextSent(s)
<1>1. fill_window(s) = [s EXCEPT !.segments_out = @ \o h, !.unacked = @ \o h,
                                 !.byte_sent = n, !.stream = p, !.eof = e, !.sendtimer = m]
  BY DEF fill_window, Sends, NextSent
<1> HIDE DEF h, p, e, m, n
<1> QED BY Zenon, <1>1 DEF Senders, h, p, e, m, n

\* Carries looks only at the number of bytes written, and at whether a FIN was sent
\* only to allow one.
LEMMA CarriesLater ==
  ASSUME NEW g, NEW isn, NEW b, NEW c, NEW d, NEW e,
         Carries(isn, b, d, g), c.alwritten = b.alwritten, d => e
  PROVE  Carries(isn, c, e, g)
BY DEF Carries

\* What holds of the elements of two sequences holds of those of both together.
LEMMA CarriesConcat ==
  ASSUME NEW q \in Seq(Segment), NEW h \in Seq(Segment), NEW isn, NEW b, NEW e,
         \A i \in 1 .. Len(q) : Carries(isn, b, e, q[i]),
         \A i \in 1 .. Len(h) : Carries(isn, b, e, h[i])
  PROVE  \A i \in 1 .. Len(q \o h) : Carries(isn, b, e, (q \o h)[i])
<1>1. Len(q) \in Nat /\ Len(h) \in Nat
  OBVIOUS
<1>2. ASSUME NEW i \in 1 .. Len(q \o h)
      PROVE  Carries(isn, b, e, (q \o h)[i])
  <2>1. /\ Len(q \o h) = Len(q) + Len(h)
        /\ (q \o h)[i] = IF i <= Len(q) THEN q[i] ELSE h[i - Len(q)]
    BY ConcatAt
  <2>2. CASE i <= Len(q)
    BY <1>1, <2>1, <2>2
  <2>3. CASE ~(i <= Len(q))
    <3>1. i - Len(q) \in 1 .. Len(h)
      BY <1>1, <2>1, <2>3
    <3> QED BY <2>1, <2>3, <3>1
  <2> QED BY <2>2, <2>3
<1> QED BY <1>2

\* The same of the numbers they hold.
LEMMA BelowConcat ==
  ASSUME NEW q \in Seq(Segment), NEW h \in Seq(Segment), NEW sent \in Nat, NEW new \in Nat,
         sent <= new, Below(q, sent), Below(h, new)
  PROVE  Below(q \o h, new)
<1>1. Len(q) \in Nat /\ Len(h) \in Nat
  OBVIOUS
<1>2. ASSUME NEW i \in 1 .. Len(q \o h)
      PROVE  End((q \o h)[i]) <= new
  <2>1. /\ Len(q \o h) = Len(q) + Len(h)
        /\ (q \o h)[i] = IF i <= Len(q) THEN q[i] ELSE h[i - Len(q)]
    BY ConcatAt
  <2>2. CASE i <= Len(q)
    <3>1. i \in 1 .. Len(q) /\ (q \o h)[i] = q[i] /\ q[i] \in Segment
      BY <1>1, <2>1, <2>2
    <3>2. End(q[i]) <= sent /\ End(q[i]) \in Nat
      <4>1. End(q[i]) \in Nat
        BY <3>1, SegmentNumbers
      <4> QED BY <3>1, <4>1 DEF Below
    <3> QED BY <3>1, <3>2
  <2>3. CASE ~(i <= Len(q))
    <3>1. i - Len(q) \in 1 .. Len(h)
      BY <1>1, <2>1, <2>3
    <3> QED BY <2>1, <2>3, <3>1 DEF Below
  <2> QED BY <2>2, <2>3
<1> QED BY <1>2 DEF Below

\* The timer, restarted with the initial timeout.
LEMMA Restarted ==
  ASSUME NEW t \in Timers
  PROVE  /\ rto_reset(t) \in Timers /\ rto_reset(t).active = FALSE
         /\ start(rto_reset(t)) \in Timers /\ start(rto_reset(t)).active = TRUE
<1>1. rto_reset(t) \in Timers /\ rto_reset(t).active = FALSE
  BY Zenon, SenderAssumption DEF Timers, rto_reset
<1> DEFINE u == rto_reset(t)
<1> HIDE DEF u
<1>2. start(u) \in Timers /\ start(u).active = TRUE
  BY Zenon, <1>1 DEF Timers, start, u
<1> QED BY <1>1, <1>2 DEF u

\* fill_window keeps the invariant.
LEMMA FillInv ==
  ASSUME NEW s, Inv(s)
  PROVE  Inv(fill_window(s))
<1>1. CASE ~CanFill(s)
  BY <1>1 DEF fill_window
<1>2. CASE CanFill(s)
  <2> DEFINE t == fill_window(s)
             h == Sends(s)
             P == PayloadSize(s)
             y == Bit(SendsSyn(s))
             f == Bit(SendsFin(s))
             sent == s.byte_sent
             rcvd == s.byte_received
             read == s.stream.alread
             new == NextSent(s)
             room == Room(s)
  <2>1. s \in Senders /\ CountInv(s) /\ StreamInv(s.stream)
    BY DEF Inv
  <2>2. /\ t.isn = s.isn /\ t.window_size = s.window_size
        /\ t.byte_received = rcvd
        /\ t.consecutive_retrans = s.consecutive_retrans
        /\ t.segments_out = s.segments_out \o h
        /\ t.unacked = s.unacked \o h
        /\ t.byte_sent = new
        /\ t.stream = pop_output(s.stream, P)
        /\ t.eof = SendsFin(s)
        /\ t.sendtimer = IF s.sendtimer.active THEN s.sendtimer
                         ELSE start(rto_reset(s.sendtimer))
        /\ t = [isn |-> t.isn, segments_out |-> t.segments_out, unacked |-> t.unacked,
                stream |-> t.stream, consecutive_retrans |-> t.consecutive_retrans,
                sendtimer |-> t.sendtimer, window_size |-> t.window_size,
                byte_sent |-> t.byte_sent, byte_received |-> t.byte_received,
                eof |-> t.eof]
    BY <1>2, <2>1, FillFields
  <2>3. /\ P \in Nat /\ P <= Len(s.stream.content)
        /\ P = 0 => SendsSyn(s) \/ SendsFin(s)
        /\ y + P + f <= room
    BY <1>2, FillSizes
  <2>4. /\ h \in Seq(Segment)
        /\ \A i \in 1 .. Len(h) : Carries(s.isn, s.stream, SendsFin(s), h[i])
        /\ Run(h, sent, new)
    BY <1>2, FillRun
  <2>5. /\ s.isn \in 0 .. SeqSpace - 1 /\ s.window_size \in 0 .. MaxWindow
        /\ s.segments_out \in Seq(Segment) /\ s.unacked \in Seq(Segment)
        /\ s.consecutive_retrans \in Nat /\ s.sendtimer \in Timers
        /\ s.stream \in ByteStreams /\ s.eof = FALSE
    BY <1>2, <2>1 DEF Senders, CanFill
  <2>6. /\ sent \in Nat /\ rcvd \in Nat /\ read \in Nat
    BY <2>1, <2>5 DEF Senders, ByteStreams
  <2>7. y \in Nat /\ f \in Nat /\ (SendsSyn(s) => y = 1) /\ (SendsFin(s) => f = 1)
    BY DEF Bit
  <2>8. sent + y = read + 1
    BY <2>1, <2>5, <2>6 DEF CountInv, SendsSyn, Bit
  <2>9. new = sent + y + P + f
    BY DEF NextSent
  <2>10. /\ t.stream \in ByteStreams /\ StreamInv(t.stream)
         /\ t.stream.alread = read + P /\ t.stream.alwritten = s.stream.alwritten
         /\ t.stream.end = s.stream.end
         /\ Len(t.stream.content) = Len(s.stream.content) - P
    <3>1. t.stream = pop_output(s.stream, P)
      BY <2>2
    <3>2. LET c == pop_output(s.stream, P)
          IN  /\ c \in ByteStreams /\ StreamInv(c)
              /\ c.alread = read + P /\ c.alwritten = s.stream.alwritten
              /\ c.end = s.stream.end
              /\ Len(c.content) = Len(s.stream.content) - P
      BY <2>1, <2>3, <2>5, PopStream
    <3> QED BY <3>1, <3>2
  <2>11. rcvd <= sent /\ room \in Int /\ room + (sent - rcvd) <= MaxWindow
    <3> DEFINE w == Window(s)
    <3>1. room = w - (sent - rcvd)
      BY DEF Room, bytes_in_flight
    <3>2. w \in Int /\ w <= MaxWindow
      BY <2>5, SenderAssumption DEF Window
    <3>3. rcvd <= sent
      BY <2>1 DEF CountInv
    <3> HIDE DEF w, room, sent, rcvd
    <3> QED BY <2>6, <3>1, <3>2, <3>3, SenderAssumption
  <2> HIDE DEF t, h, P, y, f, sent, rcvd, read, new, room
  <2>12. /\ new \in Nat /\ sent < new /\ rcvd <= new /\ new - rcvd <= MaxWindow
         /\ new = 1 + (read + P) + f
    BY <2>3, <2>6, <2>7, <2>8, <2>9, <2>11, SenderAssumption
  <2>13. t \in Senders
    <3>1. t.segments_out \in Seq(Segment) /\ t.unacked \in Seq(Segment)
      BY <2>2, <2>4, <2>5, ConcatAt
    <3>2. t.sendtimer \in Timers
      BY Zenon, <2>2, <2>5, Restarted
    <3>3. t.eof \in BOOLEAN
      BY <2>2 DEF SendsFin
    <3>4. t.byte_sent \in Nat /\ t.byte_received \in Nat
      BY <2>2, <2>6, <2>12
    <3> QED BY Zenon, <2>2, <2>5, <2>10, <3>1, <3>2, <3>3, <3>4 DEF Senders
  <2>14. CountInv(t)
    <3>1. t.byte_sent = Bit(t.byte_sent > 0) + t.stream.alread + Bit(t.eof)
      <4>1. Bit(new > 0) = 1
        BY <2>6, <2>12 DEF Bit
      <4>2. Bit(t.eof) = f
        BY <2>2 DEF f
      <4> QED BY <2>2, <2>10, <2>12, <4>1, <4>2
    <3>2. t.eof => t.stream.end /\ t.stream.content = <<>>
      <4>1. SendsFin(s) => s.stream.end /\ P = Len(s.stream.content)
        BY DEF SendsFin, buffer_size, P
      <4>2. Len(s.stream.content) \in Nat /\ t.stream.content \in Seq(Nat)
        BY <2>5, <2>10 DEF ByteStreams
      <4>3. SendsFin(s) => Len(t.stream.content) = 0
        BY <2>10, <4>1, <4>2
      <4> QED BY <2>2, <2>10, <4>1, <4>2, <4>3, SMTT(30)
    <3> QED BY <2>2, <2>12, <3>1, <3>2 DEF CountInv
  <2>15. QueueInv(t.unacked, t.byte_received, t.byte_sent)
    <3>1. QueueInv(s.unacked, rcvd, sent)
      BY DEF Inv, rcvd, sent
    <3>2. QueueInv(s.unacked \o h, rcvd, new)
      BY <2>4, <2>5, <2>6, <2>11, <2>12, <3>1, QueueAppend
    <3> QED BY <2>2, <3>2
  <2>16. t.sendtimer.active <=> t.unacked # <<>>
    <3>1. t.unacked # <<>>
      <4>1. rcvd # new
        BY <2>6, <2>11, <2>12
      <4> QED BY <2>2, <2>15, <4>1 DEF QueueInv
    <3>2. t.sendtimer.active
      BY Zenon, <2>2, <2>5, Restarted
    <3> QED BY <3>1, <3>2
  <2>17. /\ \A i \in 1 .. Len(t.unacked) : Carries(t.isn, t.stream, t.eof, t.unacked[i])
         /\ \A i \in 1 .. Len(t.segments_out) : Carries(t.isn, t.stream, t.eof, t.segments_out[i])
    <3>0. t.isn = s.isn
      BY <2>2
    <3>1. \A i \in 1 .. Len(h) : Carries(t.isn, t.stream, t.eof, h[i])
      BY <2>2, <2>4, <2>10, CarriesLater
    <3>2. \A i \in 1 .. Len(s.unacked) : Carries(t.isn, t.stream, t.eof, s.unacked[i])
      BY <2>5, <2>10, <3>0, CarriesLater DEF Inv
    <3>3. \A i \in 1 .. Len(s.segments_out) : Carries(t.isn, t.stream, t.eof, s.segments_out[i])
      BY <2>5, <2>10, <3>0, CarriesLater DEF Inv
    <3> QED BY Zenon, <2>2, <2>4, <2>5, <3>1, <3>2, <3>3, CarriesConcat
  <2>18. Below(t.segments_out, t.byte_sent)
    <3>1. Below(h, new)
      BY <2>4 DEF Run, Below
    <3>2. Below(s.segments_out, sent) /\ sent <= new
      BY <2>6, <2>12 DEF Inv, sent
    <3> QED BY <2>2, <2>4, <2>5, <2>6, <2>12, <3>1, <3>2, BelowConcat
  <2> QED BY <2>10, <2>13, <2>14, <2>15, <2>16, <2>17, <2>18 DEF Inv, t
<1> QED BY <1>1, <1>2

-----------------------------------------------------------------------------
(* Acknowledgments. *)

\* Segments dropped up to the first that is not wholly acknowledged leave a queue
\* that starts where the acknowledgment falls.
LEMMA QueueDrop ==
  ASSUME NEW q \in Seq(Segment), NEW rcvd \in Nat, NEW sent \in Nat, NEW abs \in Nat,
         QueueInv(q, rcvd, sent), rcvd < abs, abs <= sent,
         NEW k \in 0 .. Len(q),
         \A i \in 1 .. k : End(q[i]) <= abs,
         k < Len(q) => ~(End(q[k + 1]) <= abs)
  PROVE  QueueInv(SubSeq(q, k + 1, Len(q)), abs, sent)
<1> DEFINE n == Len(q)
           r == SubSeq(q, k + 1, n)
<1>1. n \in Nat /\ k \in Nat /\ k <= n
  OBVIOUS
<1>2. /\ r \in Seq(Segment) /\ Len(r) = n - k
      /\ \A j \in 1 .. n - k : r[j] = q[k + j]
  BY <1>1, SubSeqAt
<1>3. \A i \in 1 .. n : /\ q[i].abs \in Nat /\ End(q[i]) \in Nat
  BY SegmentNumbers, SMTT(30)
<1>4. r = <<>> <=> n - k = 0
  <2> HIDE DEF r, n
  <2>1. r = <<>> <=> Len(r) = 0
    BY <1>2
  <2> QED BY <1>2, <2>1
<1>5. /\ q = <<>> <=> rcvd = sent
      /\ q # <<>> => /\ q[1].abs <= rcvd /\ rcvd < End(q[1])
                     /\ End(q[n]) = sent
      /\ \A i \in 1 .. n : i < n => End(q[i]) = q[i + 1].abs
      /\ \A i, j \in 1 .. n : i < j => End(q[i]) <= q[j].abs
      /\ \A i \in 1 .. n : /\ length_in_sequence_space(q[i]) > 0
                           /\ length_in_sequence_space(q[i]) <= M + 2
                           /\ End(q[i]) <= sent
  BY DEF QueueInv
<1>6. n > 0
  <2>1. rcvd # sent
    OBVIOUS
  <2> QED BY <1>1, <1>5, <2>1
<1>7. q # <<>>
  BY <1>6
<1>8. \A i \in 1 .. k : End(q[i]) <= abs
  OBVIOUS
<1>9. k < n => abs < End(q[k + 1])
  <2>1. k < n => k + 1 \in 1 .. n
    BY <1>1
  <2>2. k < n => End(q[k + 1]) \in Nat
    BY <1>3, <2>1
  <2> QED BY <2>2
<1> HIDE DEF n, r
<1>10. r = <<>> <=> abs = sent
  <2>1. CASE k = n
    <3>1. n \in 1 .. k
      BY <1>1, <1>6, <2>1
    <3> QED BY <1>4, <1>5, <1>7, <1>8, <1>1, <2>1, <3>1
  <2>2. CASE k < n
    <3>1. k + 1 \in 1 .. n
      BY <1>1, <2>2
    <3>2. End(q[k + 1]) <= sent /\ abs < End(q[k + 1]) /\ End(q[k + 1]) \in Nat
      BY <1>3, <1>5, <1>9, <2>2, <3>1
    <3> QED BY <1>1, <1>4, <2>2, <3>2
  <2> QED BY <1>1, <2>1, <2>2
<1>11. ASSUME r # <<>>
       PROVE  r[1].abs <= abs /\ abs < End(r[1]) /\ End(r[Len(r)]) = sent
  <2>1. k < n
    BY <1>1, <1>4, <1>11
  <2>2. 1 \in 1 .. n - k /\ n - k \in 1 .. n - k /\ k + (n - k) = n
    BY <1>1, <2>1
  <2>3. r[1] = q[k + 1] /\ r[Len(r)] = q[n]
    BY <1>2, <2>2
  <2>4. q[k + 1].abs <= abs
    <3>1. CASE k = 0
      BY <1>3, <1>5, <1>6, <1>7, <1>1, <3>1
    <3>2. CASE k > 0
      <4>1. k \in 1 .. n /\ k < n /\ k \in 1 .. k
        BY <1>1, <2>1, <3>2
      <4> QED BY <1>5, <1>8, <4>1
    <3> QED BY <1>1, <3>1, <3>2
  <2> QED BY <1>5, <1>7, <1>9, <2>1, <2>3, <2>4
<1>12. ASSUME NEW i \in 1 .. Len(r)
       PROVE  /\ length_in_sequence_space(r[i]) > 0
              /\ length_in_sequence_space(r[i]) <= M + 2
              /\ End(r[i]) <= sent
              /\ i < Len(r) => End(r[i]) = r[i + 1].abs
  <2>1. k + i \in 1 .. n /\ r[i] = q[k + i] /\ i \in Nat
    <3> HIDE DEF r, n
    <3>1. i \in Nat /\ 1 <= i /\ i <= n - k
      BY <1>1, <1>2
    <3>2. k + i \in 1 .. n
      BY <1>1, <3>1
    <3>3. r[i] = q[k + i]
      BY <1>1, <1>2, <3>1
    <3> QED BY <3>1, <3>2, <3>3
  <2>2. i < Len(r) => k + i < n /\ r[i + 1] = q[(k + i) + 1]
    <3>1. i < Len(r) => i + 1 \in 1 .. n - k /\ k + (i + 1) = (k + i) + 1 /\ k + i < n
      BY <1>1, <1>2, <2>1
    <3> QED BY <1>2, <3>1
  <2> QED BY Zenon, <1>5, <2>1, <2>2
<1>13. ASSUME NEW i \in 1 .. Len(r), NEW j \in 1 .. Len(r), i < j
       PROVE  End(r[i]) <= r[j].abs
  <2>1. /\ k + i \in 1 .. n /\ r[i] = q[k + i]
        /\ k + j \in 1 .. n /\ r[j] = q[k + j] /\ k + i < k + j
    BY <1>1, <1>2, <1>13
  <2> QED BY <1>5, <2>1
<1> QED BY Zenon, <1>10, <1>11, <1>12, <1>13 DEF QueueInv, r, n

\* Near the sent numbers unwrap finds a segment's absolute number again.
LEMMA AckedIsEnd ==
  ASSUME NEW g \in Segment, NEW abs \in Nat, NEW isn \in Nat, g.seqno = wrap(g.abs, isn),
         2 * (g.abs - abs) < SeqSpace, 2 * (abs - g.abs) < SeqSpace
  PROVE  Acked(g, isn, abs) <=> End(g) <= abs
<1>1. g.abs \in Nat
  BY DEF Segment
<1>2. unwrap(wrap(g.abs, isn), isn, abs) = g.abs
  BY <1>1, UnwrapWrap
<1> QED BY <1>2 DEF Acked, End

\* Every segment of the queue is near enough.
LEMMA QueueNear ==
  ASSUME NEW q \in Seq(Segment), NEW rcvd \in Nat, NEW sent \in Nat, NEW abs \in Nat,
         QueueInv(q, rcvd, sent), rcvd < abs, abs <= sent, sent - rcvd <= MaxWindow,
         NEW i \in 1 .. Len(q)
  PROVE  2 * (q[i].abs - abs) < SeqSpace /\ 2 * (abs - q[i].abs) < SeqSpace
<1> DEFINE a == q[1].abs
           l == length_in_sequence_space(q[1])
           b == q[i].abs
           m == length_in_sequence_space(q[i])
<1>1. 1 \in 1 .. Len(q) /\ q # <<>>
  OBVIOUS
<1>2. a \in Nat /\ l \in Nat /\ b \in Nat /\ m \in Nat /\ End(q[1]) = a + l /\ End(q[i]) = b + m
  <2>1. q[1] \in Segment /\ q[i] \in Segment
    BY <1>1
  <2> QED BY Zenon, <2>1, SegmentNumbers
<1>3. rcvd < End(q[1]) /\ l <= M + 2 /\ End(q[i]) <= sent
  BY <1>1 DEF QueueInv
<1>4. b = a \/ End(q[1]) <= b
  <2>1. CASE i = 1
    BY <2>1
  <2>2. CASE i # 1
    <3>1. 1 < i
      BY <2>2
    <3> QED BY <1>1, <3>1 DEF QueueInv
  <2> QED BY <2>1, <2>2
<1> HIDE DEF a, b, l, m
<1>5. 2 * (b - abs) < SeqSpace /\ 2 * (abs - b) < SeqSpace
  BY <1>2, <1>3, <1>4, SenderAssumption, SeqSpaceAssumption DEF M
<1> QED BY <1>5 DEF b

\* The loop that drops acknowledged segments stops at a definite place.
LEMMA AckedPrefixExists ==
  ASSUME NEW q \in Seq(Segment), NEW isn, NEW abs
  PROVE  LET k == AckedPrefix(q, isn, abs)
         IN  /\ k \in 0 .. Len(q)
             /\ \A i \in 1 .. k : Acked(q[i], isn, abs)
             /\ k < Len(q) => ~Acked(q[k + 1], isn, abs)
<1> DEFINE n == Len(q)
           P(i) == Acked(q[i], isn, abs)
           T == {i \in 1 .. n : ~P(i)}
           Stop(k) == /\ \A i \in 1 .. k : P(i)
                      /\ k < n => ~P(k + 1)
<1>1. n \in Nat
  OBVIOUS
<1> HIDE DEF n, P
<1>2. \E k \in 0 .. n : Stop(k)
  <2>1. CASE T = {}
    <3>1. Stop(n) /\ n \in 0 .. n
      BY <1>1, <2>1
    <3> QED BY <3>1
  <2>2. CASE T # {}
    <3>1. T \subseteq Nat
      BY <1>1
    <3>2. PICK x \in T : \A y \in T : x <= y
      <4> HIDE DEF T
      <4> DEFINE R == OpToRel(<, Nat)
      <4>1. IsWellFoundedOn(R, Nat)
        BY Zenon, NatLessThanWellFounded
      <4>2. \A y, z \in Nat : y < z => <<y, z>> \in R
        BY DEF OpToRel
      <4> HIDE DEF R
      <4>3. PICK x \in T : \A y \in T : ~ (<<y, x>> \in R)
        BY Zenon, <2>2, <3>1, <4>1, WFMin
      <4>4. \A y \in T : y \in Nat /\ x \in Nat /\ ~(y < x)
        BY Zenon, <3>1, <4>2, <4>3
      <4>5. \A y \in T : x <= y
        BY <4>4
      <4> QED BY <4>5
    <3>3. x - 1 \in 0 .. n /\ (x - 1) + 1 = x /\ x \in 1 .. n
      BY <1>1, <3>2
    <3>4. \A i \in 1 .. x - 1 : i \in 1 .. n /\ ~(x <= i)
      BY <1>1, <3>3
    <3>5. \A i \in 1 .. x - 1 : P(i)
      BY <3>2, <3>4
    <3>6. Stop(x - 1)
      BY <3>2, <3>3, <3>5
    <3> QED BY <3>3, <3>6
  <2> QED BY <2>1, <2>2
<1>3. AckedPrefix(q, isn, abs) = CHOOSE k \in 0 .. n : Stop(k)
  BY DEF AckedPrefix, P, n
<1> HIDE DEF Stop
<1>4. AckedPrefix(q, isn, abs) \in 0 .. n /\ Stop(AckedPrefix(q, isn, abs))
  BY <1>2, <1>3
<1> QED BY <1>4 DEF Stop, P, n

-----------------------------------------------------------------------------
(* One lemma for every step of the sender. *)

\* The window, and the queue the owner empties, are free to change.
LEMMA WindowInv ==
  ASSUME NEW s, Inv(s), NEW win \in 0 .. MaxWindow
  PROVE  Inv([s EXCEPT !.window_size = win])
<1> DEFINE t == [s EXCEPT !.window_size = win]
<1>1. /\ t \in Senders
      /\ t.isn = s.isn /\ t.segments_out = s.segments_out /\ t.unacked = s.unacked
      /\ t.stream = s.stream /\ t.sendtimer = s.sendtimer /\ t.byte_sent = s.byte_sent
      /\ t.byte_received = s.byte_received /\ t.eof = s.eof
  BY DEF Inv, Senders
<1> HIDE DEF t
<1>2. Inv(t)
  BY <1>1 DEF Inv, CountInv
<1> QED BY <1>2 DEF t

\* Taking the segments out of segments_out, as _segment_out does, keeps the invariant.
LEMMA DrainedInv ==
  ASSUME NEW s, Inv(s), NEW q \in Seq(Segment), q = <<>>
  PROVE  Inv([s EXCEPT !.segments_out = q])
<1> DEFINE t == [s EXCEPT !.segments_out = q]
<1>1. /\ t \in Senders
      /\ t.isn = s.isn /\ t.segments_out = q /\ t.unacked = s.unacked
      /\ t.stream = s.stream /\ t.sendtimer = s.sendtimer /\ t.byte_sent = s.byte_sent
      /\ t.byte_received = s.byte_received /\ t.eof = s.eof
  BY Zenon DEF Inv, Senders
<1> HIDE DEF t
<1>2. /\ \A i \in 1 .. Len(t.segments_out) : Carries(t.isn, t.stream, t.eof, t.segments_out[i])
      /\ Below(t.segments_out, t.byte_sent)
  BY <1>1 DEF Below
<1>3. Inv(t)
  BY <1>1, <1>2 DEF Inv, CountInv
<1> QED BY <1>3 DEF t

\* One more segment on its way out.
LEMMA SendInv ==
  ASSUME NEW s, Inv(s), NEW g \in Segment, Carries(s.isn, s.stream, s.eof, g),
         End(g) <= s.byte_sent, NEW timer \in Timers, timer.active <=> s.sendtimer.active, NEW n \in Nat
  PROVE  Inv([s EXCEPT !.segments_out = Append(@, g), !.consecutive_retrans = n,
                       !.sendtimer = timer])
<1> DEFINE q == s.segments_out
           o == Append(q, g)
           t == [s EXCEPT !.segments_out = Append(@, g), !.consecutive_retrans = n,
                          !.sendtimer = timer]
<1>1. q \in Seq(Segment)
  BY DEF Inv, Senders
<1>2. /\ o \in Seq(Segment) /\ Len(o) = Len(q) + 1
      /\ \A i \in 1 .. Len(o) : o[i] = IF i <= Len(q) THEN q[i] ELSE g
  <2> HIDE DEF q
  <2> QED BY <1>1
<1>3. t = [s EXCEPT !.segments_out = o, !.consecutive_retrans = n, !.sendtimer = timer]
  OBVIOUS
<1>4. \A i \in 1 .. Len(o) : Carries(s.isn, s.stream, s.eof, o[i])
  <2>1. \A i \in 1 .. Len(q) : Carries(s.isn, s.stream, s.eof, q[i])
    BY DEF Inv
  <2>2. Len(q) \in Nat
    BY <1>1
  <2> HIDE DEF q, o
  <2>3. ASSUME NEW i \in 1 .. Len(o)
        PROVE  Carries(s.isn, s.stream, s.eof, o[i])
    <3>1. CASE i <= Len(q)
      <4>1. i \in 1 .. Len(q)
        BY <2>2, <3>1
      <4> QED BY <1>2, <2>1, <3>1, <4>1
    <3>2. CASE ~(i <= Len(q))
      BY <1>2, <3>2
    <3> QED BY <3>1, <3>2
  <2> QED BY <2>3
<1>4a. Below(o, s.byte_sent)
  <2>1. Below(q, s.byte_sent) /\ Len(q) \in Nat
    BY <1>1 DEF Inv
  <2> HIDE DEF q, o
  <2>2. ASSUME NEW i \in 1 .. Len(o)
        PROVE  End(o[i]) <= s.byte_sent
    <3>1. CASE i <= Len(q)
      <4>1. i \in 1 .. Len(q)
        BY <2>1, <3>1
      <4> QED BY <1>2, <2>1, <3>1, <4>1 DEF Below
    <3>2. CASE ~(i <= Len(q))
      BY <1>2, <3>2
    <3> QED BY <3>1, <3>2
  <2> QED BY <2>2 DEF Below
<1> HIDE DEF o, t
<1>5. /\ t \in Senders
      /\ t.isn = s.isn /\ t.segments_out = o /\ t.unacked = s.unacked
      /\ t.stream = s.stream /\ t.sendtimer = timer /\ t.byte_sent = s.byte_sent
      /\ t.byte_received = s.byte_received /\ t.eof = s.eof
  BY Zenon, <1>2, <1>3 DEF Inv, Senders
<1>6. Inv(t)
  BY <1>4, <1>4a, <1>5 DEF Inv, CountInv
<1> QED BY <1>6 DEF t

\* send_empty_segment.
LEMMA EmptyInv ==
  ASSUME NEW s, Inv(s)
  PROVE  Inv(send_empty_segment(s))
<1> DEFINE g == [BlankSegment EXCEPT !.abs = s.byte_sent, !.seqno = wrap(s.byte_sent, s.isn)]
<1>1. /\ s.byte_sent \in Nat /\ s.isn \in Nat /\ s \in Senders
      /\ s.consecutive_retrans \in Nat /\ s.sendtimer \in Timers
  <2>1. s \in Senders /\ CountInv(s)
    BY DEF Inv
  <2>2. s.byte_sent \in Nat /\ s.consecutive_retrans \in Nat /\ s.sendtimer \in Timers
    BY <2>1 DEF Senders
  <2>3. s.isn \in Nat
    BY <2>1, SeqSpaceAssumption DEF Senders
  <2> QED BY <2>1, <2>2, <2>3
<1>2. wrap(s.byte_sent, s.isn) \in 0 .. SeqSpace - 1
  BY Zenon, <1>1, WrapType
<1>3. /\ g \in Segment /\ g.abs = s.byte_sent /\ g.seqno = wrap(s.byte_sent, s.isn)
      /\ g.syn = FALSE /\ g.fin = FALSE /\ g.payload = <<>> /\ g.ack = FALSE
  <2> DEFINE a == s.byte_sent
             w == wrap(s.byte_sent, s.isn)
             p == <<>>
  <2>1. p \in Seq(Nat)
    OBVIOUS
  <2>2. w = wrap(s.byte_sent, s.isn) /\ a \in Nat /\ w \in 0 .. SeqSpace - 1
    BY <1>1, <1>2
  <2>3. g = [seqno |-> w, ackno |-> 0, win |-> 0, syn |-> FALSE, fin |-> FALSE,
             ack |-> FALSE, rst |-> FALSE, payload |-> p, abs |-> a]
    <3>1. g = [BlankSegment EXCEPT !.abs = a, !.seqno = w]
      OBVIOUS
    <3>2. p = <<>>
      OBVIOUS
    <3> HIDE DEF a, w, g, p
    <3> QED BY Zenon, <3>1, <3>2 DEF BlankSegment
  <2> HIDE DEF a, w, p, g
  <2>4. /\ g \in Segment /\ g.abs = a /\ g.seqno = w
        /\ g.syn = FALSE /\ g.fin = FALSE /\ g.payload = p /\ g.ack = FALSE
    BY <2>1, <2>2, <2>3 DEF Segment
  <2> QED BY <2>2, <2>4 DEF a, p
<1> HIDE DEF g
<1>4. length_in_sequence_space(g) = 0
  BY <1>3 DEF length_in_sequence_space, Bit
<1>5. Carries(s.isn, s.stream, s.eof, g) /\ End(g) <= s.byte_sent
  BY <1>1, <1>3, <1>4 DEF Carries, End
<1> DEFINE t == [s EXCEPT !.segments_out = Append(@, g), !.consecutive_retrans = s.consecutive_retrans,
                          !.sendtimer = s.sendtimer]
<1>6. Inv(t)
  BY Zenon, <1>1, <1>3, <1>5, SendInv
<1>7. t = [s EXCEPT !.segments_out = Append(@, g)]
  BY Zenon, <1>1 DEF Senders
<1>8. send_empty_segment(s) = [s EXCEPT !.segments_out = Append(@, g)]
  BY DEF send_empty_segment, g
<1> HIDE DEF t
<1> QED BY <1>6, <1>7, <1>8

\* tick: nothing, time alone, or a retransmission of the oldest segment.
LEMMA TickInv ==
  ASSUME NEW s, Inv(s), NEW ms \in Nat
  PROVE  Inv(tick(s, ms))
<1> DEFINE u == [s.sendtimer EXCEPT !.elapsed = @ + ms]
<1>1. /\ s \in Senders /\ s.sendtimer \in Timers /\ s.consecutive_retrans \in Nat
      /\ s.unacked \in Seq(Segment)
  BY DEF Inv, Senders
<1>2. u \in Timers /\ u.active = s.sendtimer.active
  <2> DEFINE v == s.sendtimer
  <2>1. v \in Timers
    BY <1>1
  <2> HIDE DEF v
  <2>2. [v EXCEPT !.elapsed = @ + ms] \in Timers /\ [v EXCEPT !.elapsed = @ + ms].active = v.active
    BY <2>1 DEF Timers
  <2> QED BY <2>2 DEF v
<1>3. tick(s, ms) = IF ~u.active THEN s
                    ELSE IF ~timeout(u) THEN [s EXCEPT !.sendtimer = u]
                    ELSE [s EXCEPT !.segments_out = Append(@, Head(s.unacked)),
                                   !.consecutive_retrans = s.consecutive_retrans + 1,
                                   !.sendtimer = start(rto_double(u))]
  BY <1>1 DEF tick, Senders
<1> HIDE DEF u
<1>4. CASE ~u.active
  BY <1>3, <1>4
<1>5. CASE u.active /\ ~timeout(u)
  <2> DEFINE t == [s EXCEPT !.sendtimer = u]
  <2>1. /\ t \in Senders
        /\ t.isn = s.isn /\ t.segments_out = s.segments_out /\ t.unacked = s.unacked
        /\ t.stream = s.stream /\ t.sendtimer = u /\ t.byte_sent = s.byte_sent
        /\ t.byte_received = s.byte_received /\ t.eof = s.eof
    BY <1>1, <1>2 DEF Senders
  <2> HIDE DEF t
  <2>2. Inv(t)
    BY <1>2, <2>1 DEF Inv, CountInv
  <2> QED BY <1>3, <1>5, <2>2 DEF t
<1>6. CASE u.active /\ timeout(u)
  <2> DEFINE g == Head(s.unacked)
             v == start(rto_double(u))
             n == s.consecutive_retrans + 1
  <2>1. s.unacked # <<>>
    BY <1>2, <1>6 DEF Inv
  <2>2. g \in Segment /\ g = s.unacked[1] /\ 1 \in 1 .. Len(s.unacked)
    BY <1>1, <2>1
  <2>3. Carries(s.isn, s.stream, s.eof, g) /\ End(g) <= s.byte_sent
    BY <2>2 DEF Inv, QueueInv
  <2>4. v \in Timers /\ v.active = TRUE
    <3> DEFINE w == rto_double(u)
    <3>1. w \in Timers
      BY <1>2 DEF Timers, rto_double
    <3> HIDE DEF w
    <3>2. start(w) \in Timers /\ start(w).active = TRUE
      BY Zenon, <3>1 DEF Timers, start
    <3> QED BY <3>2 DEF w
  <2>5. n \in Nat
    BY <1>1
  <2>6. v.active <=> s.sendtimer.active
    BY <1>2, <1>6, <2>4
  <2> HIDE DEF g, v, n
  <2>7. Inv([s EXCEPT !.segments_out = Append(@, g), !.consecutive_retrans = n,
                      !.sendtimer = v])
    BY Zenon, <2>2, <2>3, <2>4, <2>5, <2>6, SendInv
  <2> QED BY <1>3, <1>6, <2>7 DEF g, v, n
<1> QED BY <1>4, <1>5, <1>6

\* What ack_received does to a new acknowledgment, before it fills the window.
LEMMA NewAckInv ==
  ASSUME NEW s, Inv(s), NEW abs \in Nat, s.byte_received < abs, abs <= s.byte_sent
  PROVE  Inv(NewAck(s, abs))
<1> DEFINE q == s.unacked
           isn == s.isn
           rcvd == s.byte_received
           sent == s.byte_sent
           k == AckedPrefix(q, isn, abs)
           r == SubSeq(q, k + 1, Len(q))
           u == rto_reset(s.sendtimer)
           v == IF r = <<>> THEN u ELSE start(u)
           t == NewAck(s, abs)
<1>1. /\ s \in Senders /\ isn \in Nat /\ q \in Seq(Segment) /\ rcvd \in Nat /\ sent \in Nat
      /\ s.sendtimer \in Timers /\ sent - rcvd <= MaxWindow /\ QueueInv(q, rcvd, sent)
      /\ \A i \in 1 .. Len(q) : Carries(isn, s.stream, s.eof, q[i])
  BY SeqSpaceAssumption DEF Inv, Senders, CountInv
<1>2. /\ k \in 0 .. Len(q)
      /\ \A i \in 1 .. k : Acked(q[i], isn, abs)
      /\ k < Len(q) => ~Acked(q[k + 1], isn, abs)
  <2> HIDE DEF q
  <2> QED BY <1>1, AckedPrefixExists
<1>3. v \in Timers /\ (v.active <=> r # <<>>)
  BY Zenon, <1>1, Restarted
<1>4. t = [s EXCEPT !.byte_received = abs, !.unacked = r, !.consecutive_retrans = 0,
                    !.sendtimer = v]
  BY <1>1 DEF NewAck, PopAcked
<1>5. rcvd < abs /\ abs <= sent
  OBVIOUS
<1> HIDE DEF q, isn, k, r, v, t, rcvd, sent
<1>6. Len(q) \in Nat /\ k \in Nat /\ k <= Len(q)
  BY <1>1, <1>2
<1>7. \A i \in 1 .. Len(q) : Acked(q[i], isn, abs) <=> End(q[i]) <= abs
  <2>1. ASSUME NEW i \in 1 .. Len(q)
        PROVE  Acked(q[i], isn, abs) <=> End(q[i]) <= abs
    <3>1. 2 * (q[i].abs - abs) < SeqSpace /\ 2 * (abs - q[i].abs) < SeqSpace
      BY <1>1, <1>5, QueueNear
    <3>2. q[i] \in Segment /\ q[i].seqno = wrap(q[i].abs, isn) /\ isn \in Nat
      <4>1. q[i] \in Segment /\ isn \in Nat
        BY <1>1
      <4>2. Carries(isn, s.stream, s.eof, q[i])
        BY <1>1
      <4> QED BY <4>1, <4>2 DEF Carries
    <3> QED BY <3>1, <3>2, AckedIsEnd
  <2> QED BY <2>1
<1>8. QueueInv(r, abs, sent)
  <2>1. \A i \in 1 .. k : End(q[i]) <= abs
    <3>1. \A i \in 1 .. k : i \in 1 .. Len(q)
      BY <1>6
    <3> QED BY <1>2, <1>7, <3>1
  <2>2. k < Len(q) => ~(End(q[k + 1]) <= abs)
    <3>1. k < Len(q) => k + 1 \in 1 .. Len(q)
      BY <1>6
    <3> QED BY <1>2, <1>7, <3>1
  <2> QED BY <1>1, <1>2, <1>5, <2>1, <2>2, QueueDrop DEF r
<1>9. /\ r \in Seq(Segment)
      /\ \A j \in 1 .. Len(r) : Carries(isn, s.stream, s.eof, r[j])
  <2>1. /\ r \in Seq(Segment) /\ Len(r) = Len(q) - k
        /\ \A j \in 1 .. Len(q) - k : r[j] = q[k + j]
    BY <1>1, <1>6, SubSeqAt DEF r
  <2>2. \A j \in 1 .. Len(q) - k : k + j \in 1 .. Len(q)
    BY <1>6
  <2> QED BY <1>1, <2>1, <2>2
<1>10. /\ t \in Senders
       /\ t.isn = s.isn /\ t.segments_out = s.segments_out /\ t.unacked = r
       /\ t.stream = s.stream /\ t.sendtimer = v /\ t.byte_sent = s.byte_sent
       /\ t.byte_received = abs /\ t.eof = s.eof
  BY Zenon, <1>1, <1>3, <1>4, <1>9 DEF Senders
<1>11. abs <= sent /\ sent - abs <= MaxWindow
  BY <1>1, <1>5, SenderAssumption
<1>12. CountInv(t)
  BY <1>10, <1>11 DEF Inv, CountInv, sent
<1> QED BY <1>3, <1>8, <1>9, <1>10, <1>12 DEF Inv, t, sent, isn

\* unwrap never goes below zero.
LEMMA UnwrapType ==
  ASSUME NEW n \in Nat, NEW isn \in Nat, NEW c \in Nat
  PROVE  unwrap(n, isn, c) \in Nat
<1> DEFINE w == wrap(c, isn)
           d1 == (n - w) % SeqSpace
           d2 == (w - n) % SeqSpace
<1>1. w \in Int
  BY WrapType
<1> HIDE DEF w
<1>2. d1 \in Nat /\ d2 \in Nat
  BY <1>1, SeqSpaceAssumption
<1>3. unwrap(n, isn, c) = IF d1 > d2 /\ c >= d2 THEN c - d2 ELSE c + d1
  BY DEF unwrap, w
<1> HIDE DEF d1, d2
<1> QED BY <1>2, <1>3

\* ack_received keeps the invariant, whatever the peer acknowledges.
LEMMA AckInv ==
  ASSUME NEW s, Inv(s), NEW ackno \in 0 .. SeqSpace - 1, NEW win \in 0 .. MaxWindow
  PROVE  Inv(ack_received(s, ackno, win))
<1> DEFINE abs == AbsAck(s, ackno)
           t == [s EXCEPT !.window_size = win]
<1>1. /\ s.byte_received \in Nat /\ s.byte_sent \in Nat /\ s.isn \in Nat
      /\ t.byte_received = s.byte_received /\ t.byte_sent = s.byte_sent
  BY SeqSpaceAssumption DEF Inv, Senders
<1>2. abs \in Nat
  <2>1. ackno \in Nat
    BY SeqSpaceAssumption
  <2> QED BY <1>1, <2>1, UnwrapType DEF AbsAck
<1>3. Inv(t)
  BY WindowInv
<1>4. ack_received(s, ackno, win) =
        IF abs > s.byte_sent \/ abs < s.byte_received THEN t
        ELSE IF abs = s.byte_received THEN fill_window(t)
        ELSE fill_window(NewAck(t, abs))
  BY DEF ack_received
<1> HIDE DEF abs, t
<1>5. CASE abs > s.byte_sent \/ abs < s.byte_received
  BY <1>3, <1>4, <1>5
<1>6. CASE ~(abs > s.byte_sent \/ abs < s.byte_received) /\ abs = s.byte_received
  BY <1>3, <1>4, <1>6, FillInv
<1>7. CASE ~(abs > s.byte_sent \/ abs < s.byte_received) /\ abs # s.byte_received
  <2>1. t.byte_received < abs /\ abs <= t.byte_sent
    BY <1>1, <1>2, <1>7
  <2>2. Inv(NewAck(t, abs))
    BY <1>2, <1>3, <2>1, NewAckInv
  <2> QED BY <1>4, <1>7, <2>2, FillInv
<1> QED BY <1>5, <1>6, <1>7

\* Another outbound stream, with more bytes or ended, as long as no FIN fixed its end.
LEMMA StreamChangeInv ==
  ASSUME NEW s, Inv(s), NEW c \in ByteStreams, StreamInv(c), c.alread = s.stream.alread,
         s.stream.end => c.end /\ c.content = s.stream.content /\ c.alwritten = s.stream.alwritten
  PROVE  Inv([s EXCEPT !.stream = c])
<1> DEFINE t == [s EXCEPT !.stream = c]
<1>1. /\ t \in Senders
      /\ t.isn = s.isn /\ t.segments_out = s.segments_out /\ t.unacked = s.unacked
      /\ t.stream = c /\ t.sendtimer = s.sendtimer /\ t.byte_sent = s.byte_sent
      /\ t.byte_received = s.byte_received /\ t.eof = s.eof
  BY DEF Inv, Senders
<1> HIDE DEF t
<1>2. CountInv(t)
  BY <1>1 DEF Inv, CountInv
<1>3. ASSUME NEW g, Carries(s.isn, s.stream, s.eof, g)
      PROVE  Carries(s.isn, c, s.eof, g)
  <2>1. s.eof => s.stream.end
    BY DEF Inv, CountInv
  <2> QED BY <1>3, <2>1 DEF Carries
<1>4. Inv(t)
  BY <1>1, <1>2, <1>3 DEF Inv
<1> QED BY <1>4 DEF t

\* write appends the next bytes, as many as there is room for.
LEMMA WriteStream ==
  ASSUME NEW b \in ByteStreams, StreamInv(b), NEW n \in Nat
  PROVE  LET c == write(b, NextBytes(b, n))
         IN  /\ c \in ByteStreams /\ StreamInv(c) /\ c.alread = b.alread
             /\ c.alwritten = b.alwritten + Lesser(remaining_capacity(b), n)
             /\ c.end = b.end /\ c.error = b.error
<1> DEFINE q == b.content
           d == NextBytes(b, n)
           k == Lesser(remaining_capacity(b), Len(d))
           p == SubSeq(d, 1, k)
           w == b.alwritten
           r == b.alread
           m == w + k
           o == q \o p
           c == write(b, d)
<1>1. /\ q \in Seq(Nat) /\ Len(q) \in Nat /\ w \in Nat /\ r \in Nat /\ b.max \in Nat
      /\ Len(q) <= b.max /\ w = r + Len(q)
      /\ \A j \in 1 .. Len(q) : q[j] = r + j - 1
  <2>1. q \in Seq(Nat) /\ w \in Nat /\ r \in Nat /\ b.max \in Nat
    BY DEF ByteStreams
  <2>2. Len(q) <= b.max /\ w = r + Len(q) /\ \A j \in 1 .. Len(q) : q[j] = r + j - 1
    BY DEF StreamInv
  <2> HIDE DEF q, w, r
  <2> QED BY <2>1, <2>2
<1>2. d \in Seq(Nat) /\ Len(d) = n /\ \A j \in 1 .. n : d[j] = w + j - 1
  <2>1. d = [i \in 1 .. n |-> w + i - 1]
    BY DEF NextBytes
  <2>2. \A i \in 1 .. n : w + i - 1 \in Nat
    BY <1>1
  <2> HIDE DEF d, w
  <2> QED BY <2>1, <2>2
<1>3. k \in Nat /\ k <= n /\ k <= b.max - Len(q)
  <2> DEFINE a == b.max - Len(q)
             l == Len(d)
  <2>1. a \in Nat /\ l = n /\ k = Lesser(a, l)
    BY <1>1, <1>2 DEF remaining_capacity
  <2> HIDE DEF a, l, k, q, d
  <2>2. k \in Nat /\ k <= n /\ k <= a
    BY <2>1 DEF Lesser
  <2> QED BY <2>2 DEF a
<1>4. c = [b EXCEPT !.content = o, !.alwritten = m]
  BY DEF write
<1> HIDE DEF d, k, c, q
<1>5. p \in Seq(Nat) /\ Len(p) = k /\ \A j \in 1 .. k : p[j] = d[j]
  <2>1. /\ SubSeq(d, 0 + 1, k) \in Seq(Nat) /\ Len(SubSeq(d, 0 + 1, k)) = k - 0
        /\ \A j \in 1 .. k - 0 : SubSeq(d, 0 + 1, k)[j] = d[0 + j]
    BY <1>2, <1>3, SubSeqAt
  <2>2. k - 0 = k /\ 0 + 1 = 1 /\ \A j \in 1 .. k : 0 + j = j
    BY <1>3
  <2> QED BY <2>1, <2>2
<1> HIDE DEF p
<1>6. /\ o \in Seq(Nat) /\ Len(o) = Len(q) + k
      /\ \A j \in 1 .. Len(q) + k : o[j] = IF j <= Len(q) THEN q[j] ELSE p[j - Len(q)]
  <2>1. /\ o \in Seq(Nat) /\ Len(o) = Len(q) + Len(p)
        /\ \A j \in 1 .. Len(q) + Len(p) : o[j] = IF j <= Len(q) THEN q[j] ELSE p[j - Len(q)]
    <3>1. q \in Seq(Nat) /\ p \in Seq(Nat)
      BY <1>1, <1>5
    <3> QED BY ONLY <3>1, ConcatAt
  <2> HIDE DEF o
  <2> QED BY <1>5, <2>1
<1> HIDE DEF o, m
<1>7. m \in Nat /\ m = r + (Len(q) + k) /\ Len(q) + k <= b.max
  <2> HIDE DEF w, r
  <2> QED BY <1>1, <1>3 DEF m
<1>8. /\ c \in ByteStreams /\ c.content = o /\ c.alwritten = m
      /\ c.alread = b.alread /\ c.max = b.max /\ c.end = b.end /\ c.error = b.error
  BY Zenon, <1>4, <1>6, <1>7 DEF ByteStreams
<1>9. ASSUME NEW j \in 1 .. Len(q) + k
      PROVE  o[j] = r + j - 1
  <2> DEFINE l == Len(q)
             e == j - l
  <2> HIDE DEF w, r, l
  <2>1. l \in Nat /\ w \in Nat /\ r \in Nat /\ w = r + l /\ j \in Nat
    BY <1>1, <1>3 DEF l
  <2>2. CASE j <= l
    <3>1. j \in 1 .. l
      BY <2>1, <2>2
    <3> QED BY Zenon, <1>1, <1>6, <2>2, <3>1 DEF l
  <2>3. CASE ~(j <= l)
    <3>1. e \in 1 .. k /\ e \in 1 .. n /\ w + e - 1 = r + j - 1
      BY <1>3, <2>1, <2>3 DEF l
    <3>2. o[j] = p[e]
      BY <1>6, <2>3 DEF l
    <3> HIDE DEF e
    <3> QED BY <1>2, <1>5, <3>1, <3>2
  <2> QED BY <2>2, <2>3
<1>10. StreamInv(c)
  BY <1>6, <1>7, <1>8, <1>9 DEF StreamInv
<1>11. m = b.alwritten + Lesser(remaining_capacity(b), n)
  BY <1>2 DEF m, k, w
<1> QED BY <1>8, <1>10, <1>11 DEF c, d
-----------------------------------------------------------------------------
(* What the operations of a sender change. *)

\* Moves is reflexive.
LEMMA MovesSame ==
  ASSUME NEW s, Inv(s)
  PROVE  Moves(s, s)
<1>1. s.byte_sent \in Nat /\ s.byte_received \in Nat
  BY DEF Inv, Senders
<1> QED BY <1>1 DEF Moves

\* Moves is transitive.
LEMMA MovesOn ==
  ASSUME NEW s, NEW t, NEW u, Inv(s), Inv(t), Inv(u), Moves(s, t), Moves(t, u)
  PROVE  Moves(s, u)
<1>1. /\ s.byte_sent \in Nat /\ s.byte_received \in Nat /\ t.byte_sent \in Nat
      /\ t.byte_received \in Nat /\ u.byte_sent \in Nat /\ u.byte_received \in Nat
  BY DEF Inv, Senders
<1> QED BY <1>1 DEF Moves

\* fill_window sends what the window has room for.
LEMMA FillMoves ==
  ASSUME NEW s, Inv(s)
  PROVE  /\ Moves(s, fill_window(s)) /\ fill_window(s).byte_received = s.byte_received
         /\ \A w \in Nat : w > 0 /\ InFlight(s, w) => InFlight(fill_window(s), w)
<1>1. CASE ~CanFill(s)
  <2>1. fill_window(s) = s
    BY <1>1 DEF fill_window
  <2> QED BY <2>1, MovesSame
<1>2. CASE CanFill(s)
  <2> DEFINE t == fill_window(s)
             x == Bit(SendsSyn(s)) + PayloadSize(s) + Bit(SendsFin(s))
             sent == s.byte_sent
             rcvd == s.byte_received
             b == s.stream
             c == pop_output(b, PayloadSize(s))
  <2>1. s \in Senders /\ b \in ByteStreams /\ StreamInv(b) /\ sent \in Nat /\ rcvd \in Nat
        /\ s.window_size \in Nat /\ s.eof = FALSE
    BY <1>2 DEF Inv, Senders, CanFill
  <2>2. /\ PayloadSize(s) \in Nat /\ PayloadSize(s) <= Len(b.content) /\ x <= Room(s)
    BY <1>2, FillSizes
  <2>3. x \in Nat
    BY <2>2 DEF Bit
  <2>4. /\ t.isn = s.isn /\ t.window_size = s.window_size /\ t.byte_received = rcvd
        /\ t.byte_sent = NextSent(s) /\ t.stream = c
    BY <1>2, <2>1, FillFields
  <2>5. NextSent(s) = sent + x
    <3> DEFINE y == Bit(SendsSyn(s))
               f == Bit(SendsFin(s))
               P == PayloadSize(s)
    <3>1. y \in Nat /\ f \in Nat /\ P \in Nat
      BY <2>2 DEF Bit
    <3>2. NextSent(s) = sent + y + P + f /\ x = y + P + f
      BY DEF NextSent
    <3> HIDE DEF y, f, P, x, sent
    <3> QED BY <2>1, <3>1, <3>2
  <2>6. c.alwritten = b.alwritten /\ c.end = b.end
    BY <2>1, <2>2, PopStream
  <2>7. c.error = b.error
    <3> DEFINE k == Lesser(buffer_size(b), PayloadSize(s))
               d == SubSeq(b.content, k + 1, Len(b.content))
               r == b.alread + k
    <3>1. c = [b EXCEPT !.content = d, !.alread = r]
      BY DEF pop_output
    <3> HIDE DEF d, r, c, b
    <3> QED BY <2>1, <3>1 DEF ByteStreams
  <2> HIDE DEF t, x, c, b
  <2>8. Moves(s, t)
    BY <2>1, <2>3, <2>4, <2>5, <2>6, <2>7 DEF Moves, b
  <2>9. ASSUME NEW w \in Nat, w > 0, InFlight(s, w) PROVE InFlight(t, w)
    <3>1. Room(s) = Window(s) - (sent - rcvd) /\ Window(s) \in Nat /\ Window(s) <= w
      BY <2>1, <2>9 DEF Room, Window, bytes_in_flight, InFlight
    <3>2. sent + x - rcvd <= w
      BY <2>1, <2>2, <2>3, <3>1
    <3>3. s.window_size <= w
      BY <2>9 DEF InFlight
    <3>4. t.byte_sent - t.byte_received <= w
      BY <2>1, <2>3, <2>4, <2>5, <3>2
    <3>5. t.window_size <= w
      BY <2>4, <3>3
    <3> QED BY <3>4, <3>5 DEF InFlight
  <2> QED BY <2>4, <2>8, <2>9 DEF t
<1> QED BY <1>1, <1>2

\* What is kept moves and stays in flight.
LEMMA StaysMoves ==
  ASSUME NEW s, NEW t, Inv(s), Stays(s, t)
  PROVE  Moves(s, t) /\ \A w \in Nat : InFlight(s, w) => InFlight(t, w)
<1>1. s.byte_sent \in Nat /\ s.byte_received \in Nat
  BY DEF Inv, Senders
<1> QED BY <1>1 DEF Moves, Stays, InFlight

\* tick: a retransmission counts nothing as sent.
LEMMA TickStays ==
  ASSUME NEW s, Inv(s), NEW ms
  PROVE  Stays(s, tick(s, ms))
<1> DEFINE u == [s.sendtimer EXCEPT !.elapsed = @ + ms]
           q == Append(s.segments_out, Head(s.unacked))
           n == s.consecutive_retrans + 1
           v == start(rto_double(u))
<1>1. s \in Senders
  BY DEF Inv
<1>2. tick(s, ms) = IF ~u.active THEN s
                    ELSE IF ~timeout(u) THEN [s EXCEPT !.sendtimer = u]
                    ELSE [s EXCEPT !.segments_out = q, !.consecutive_retrans = n,
                                   !.sendtimer = v]
  BY <1>1 DEF tick, Senders
<1> HIDE DEF u, q, n, v
<1> QED BY <1>1, <1>2 DEF Stays, Senders

\* send_empty_segment counts nothing as sent.
LEMMA EmptyStays ==
  ASSUME NEW s, Inv(s)
  PROVE  Stays(s, send_empty_segment(s))
<1> DEFINE q == Append(s.segments_out, [BlankSegment EXCEPT !.abs = s.byte_sent,
                                               !.seqno = wrap(s.byte_sent, s.isn)])
<1>1. s \in Senders
  BY DEF Inv
<1>2. send_empty_segment(s) = [s EXCEPT !.segments_out = q]
  BY <1>1 DEF send_empty_segment
<1> HIDE DEF q
<1> QED BY <1>1, <1>2 DEF Stays, Senders

\* ack_received takes over the window, and the acknowledgment or nothing.
LEMMA AckMoves ==
  ASSUME NEW s, Inv(s), NEW ackno \in 0 .. SeqSpace - 1, NEW win \in 0 .. MaxWindow
  PROVE  LET t == ack_received(s, ackno, win)
         IN  /\ Moves(s, t)
             /\ t.byte_received = s.byte_received \/ t.byte_received = AbsAck(s, ackno)
             /\ \A w \in Nat : w > 0 /\ win <= w /\ InFlight(s, w) => InFlight(t, w)
<1> DEFINE abs == AbsAck(s, ackno)
           r == [s EXCEPT !.window_size = win]
           Goal(t) == /\ Moves(s, t)
                      /\ t.byte_received = s.byte_received \/ t.byte_received = abs
                      /\ \A w \in Nat : w > 0 /\ win <= w /\ InFlight(s, w) => InFlight(t, w)
<1>1. /\ s \in Senders /\ s.isn \in Nat /\ s.byte_received \in Nat /\ s.byte_sent \in Nat
      /\ s.byte_received <= s.byte_sent
  BY SeqSpaceAssumption DEF Inv, Senders, CountInv
<1>2. abs \in Nat
  <2>1. ackno \in Nat
    BY SeqSpaceAssumption
  <2> QED BY Zenon, <1>1, <2>1, UnwrapType DEF AbsAck
<1>3. Inv(r)
  BY WindowInv
<1>4. /\ r.isn = s.isn /\ r.stream = s.stream /\ r.eof = s.eof /\ r.window_size = win
      /\ r.byte_sent = s.byte_sent /\ r.byte_received = s.byte_received
  BY <1>1 DEF Senders
<1>5. ack_received(s, ackno, win) =
        IF abs > s.byte_sent \/ abs < s.byte_received THEN r
        ELSE IF abs = s.byte_received THEN fill_window(r)
        ELSE fill_window(NewAck(r, abs))
  BY DEF ack_received
<1> HIDE DEF abs, r
<1>6. Goal(r)
  BY <1>1, <1>4 DEF Moves, InFlight
<1>7. Goal(fill_window(r))
  <2>1. /\ Moves(r, fill_window(r)) /\ fill_window(r).byte_received = r.byte_received
        /\ \A w \in Nat : w > 0 /\ InFlight(r, w) => InFlight(fill_window(r), w)
    BY <1>3, FillMoves
  <2>2. Moves(s, fill_window(r))
    BY <1>3, <1>6, <2>1, FillInv, MovesOn
  <2> QED BY <1>4, <1>6, <2>1, <2>2
<1>8. ASSUME abs > s.byte_received, abs <= s.byte_sent
      PROVE  Goal(fill_window(NewAck(r, abs)))
  <2> DEFINE a == NewAck(r, abs)
             t == fill_window(a)
             k == PopAcked(r.unacked, r.isn, abs)
             v == IF k = <<>> THEN rto_reset(r.sendtimer) ELSE start(rto_reset(r.sendtimer))
  <2>1. Inv(a)
    <3>1. r.byte_received < abs /\ abs <= r.byte_sent
      BY <1>1, <1>2, <1>4, <1>8
    <3> QED BY <1>2, <1>3, <3>1, NewAckInv
  <2>2. a = [r EXCEPT !.byte_received = abs, !.unacked = k, !.consecutive_retrans = 0,
                      !.sendtimer = v]
    BY DEF NewAck
  <2>3. r \in Senders
    BY <1>3 DEF Inv
  <2> HIDE DEF a, k, v
  <2>4. /\ a.isn = r.isn /\ a.stream = r.stream /\ a.eof = r.eof /\ a.byte_sent = r.byte_sent
        /\ a.byte_received = abs /\ a.window_size = r.window_size
    BY <2>2, <2>3 DEF Senders
  <2>5. /\ Moves(a, t) /\ t.byte_received = a.byte_received
        /\ \A w \in Nat : w > 0 /\ InFlight(a, w) => InFlight(t, w)
    BY <2>1, FillMoves
  <2>6. Moves(s, a)
    BY <1>1, <1>2, <1>4, <1>8, <2>4 DEF Moves
  <2>7. Moves(s, t)
    BY <2>1, <2>5, <2>6, FillInv, MovesOn
  <2>8. ASSUME NEW w \in Nat, win <= w, InFlight(s, w) PROVE InFlight(a, w)
    <3>1. s.byte_sent - abs <= w
      BY <1>1, <1>2, <1>8, <2>8 DEF InFlight
    <3> QED BY <1>4, <2>4, <2>8, <3>1 DEF InFlight
  <2> QED BY <2>4, <2>5, <2>7, <2>8 DEF a
<1>9. Goal(ack_received(s, ackno, win))
  BY <1>1, <1>2, <1>5, <1>6, <1>7, <1>8
<1> QED BY <1>9 DEF abs

\* Taking the first segment out of segments_out, as _rst_segment does.
LEMMA TailInv ==
  ASSUME NEW s, Inv(s), s.segments_out # <<>>
  PROVE  LET t == [s EXCEPT !.segments_out = Tail(@)]
         IN  Inv(t) /\ Stays(s, t)
<1> DEFINE q == s.segments_out
           r == Tail(q)
           t == [s EXCEPT !.segments_out = r]
<1>1. s \in Senders /\ q \in Seq(Segment) /\ q # <<>>
  BY DEF Inv, Senders
<1>2. /\ r \in Seq(Segment) /\ Len(q) \in Nat /\ Len(r) = Len(q) - 1
      /\ \A i \in 1 .. Len(r) : r[i] = q[i + 1]
  <2> HIDE DEF q
  <2> QED BY <1>1
<1>3. \A i \in 1 .. Len(r) : i + 1 \in 1 .. Len(q) /\ r[i] = q[i + 1]
  <2> HIDE DEF q, r
  <2> QED BY <1>2
<1> HIDE DEF r
<1>4. /\ t \in Senders /\ t.segments_out = r /\ t.unacked = s.unacked /\ t.sendtimer = s.sendtimer
      /\ Stays(s, t)
  BY Zenon, <1>1, <1>2 DEF Senders, Stays
<1> HIDE DEF t
<1>5. /\ \A i \in 1 .. Len(r) : Carries(s.isn, s.stream, s.eof, r[i])
      /\ Below(r, s.byte_sent)
  BY <1>3 DEF Inv, Below
<1>6. CountInv(s) /\ CountInv(t)
  BY <1>4 DEF Inv, CountInv, Stays
<1>7. Inv(t)
  BY <1>4, <1>5, <1>6 DEF Inv, Stays
<1> QED BY <1>4, <1>7 DEF t, r

\* A new sender satisfies the invariant.
LEMMA NewSenderInv ==
  ASSUME NEW isn \in 0 .. SeqSpace - 1, NEW capacity \in Nat
  PROVE  Inv(NewSender(isn, capacity))
<1> DEFINE e == <<>>
           b == NewByteStream(capacity)
           v == [active |-> FALSE, elapsed |-> 0, rto |-> RT_TIMEOUT]
           s == [isn |-> isn, segments_out |-> e, unacked |-> e, stream |-> b,
                 consecutive_retrans |-> 0, sendtimer |-> v, window_size |-> 1,
                 byte_sent |-> 0, byte_received |-> 0, eof |-> FALSE]
<1>1. NewSender(isn, capacity) = s
  BY DEF NewSender
<1>2. e \in Seq(Segment) /\ e \in Seq(Nat) /\ Len(e) = 0 /\ e = <<>>
  OBVIOUS
<1>3. v \in Timers /\ v.active = FALSE
  BY SenderAssumption DEF Timers
<1>4. b = [content |-> e, end |-> FALSE, error |-> FALSE, alread |-> 0, alwritten |-> 0,
           max |-> capacity]
  BY DEF NewByteStream
<1> HIDE DEF e, b, v
<1>5. b \in ByteStreams /\ b.content = e /\ b.alread = 0 /\ b.alwritten = 0 /\ b.max = capacity
  BY <1>2, <1>4 DEF ByteStreams
<1>6. StreamInv(b)
  BY <1>2, <1>5 DEF StreamInv
<1>7. /\ s \in Senders
      /\ s.isn = isn /\ s.segments_out = e /\ s.unacked = e /\ s.stream = b
      /\ s.sendtimer = v /\ s.byte_sent = 0 /\ s.byte_received = 0 /\ s.eof = FALSE
  <2>1. isn \in 0 .. SeqSpace - 1 /\ 1 \in 0 .. MaxWindow
    BY SenderAssumption
  <2>2. s \in Senders
    BY <1>2, <1>3, <1>5, <2>1 DEF Senders
  <2> QED BY <2>2
<1> HIDE DEF s
<1>8. CountInv(s)
  BY <1>5, <1>7, SenderAssumption DEF CountInv, Bit
<1>9. QueueInv(e, 0, 0)
  BY <1>2 DEF QueueInv
<1>10. Inv(s)
  BY <1>2, <1>3, <1>6, <1>7, <1>8, <1>9 DEF Inv, Below
<1> QED BY <1>1, <1>10
=============================================================================
