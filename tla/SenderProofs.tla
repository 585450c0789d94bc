---------------------------- MODULE SenderProofs ----------------------------
(***************************************************************************)
(* The properties of SenderSpec for every value of its constants, from the *)
(* invariant of SenderLemmas; and that the closed form of fill_window is   *)
(* the recursion of the code.                                              *)
(***************************************************************************)
EXTENDS FillWindow, SenderLemmas, FiniteSetTheorems

USE SMTT(20), ZenonT(20)

-----------------------------------------------------------------------------
(* The invariant. *)

\* A new sender satisfies the invariant.
LEMMA InitInv == Init => Inv(sender)
BY NewSenderInv, SenderSpecAssumption DEF Init

\* Every step keeps it.
LEMMA StepInv == Inv(sender) /\ [Next]_vars => Inv(sender)'
<1> SUFFICES ASSUME Inv(sender), [Next]_vars PROVE Inv(sender')
  OBVIOUS
<1> DEFINE d == Drained
           b == sender.stream
<1>1. Inv(d) /\ d.stream = b
  <2>1. <<>> \in Seq(Segment)
    OBVIOUS
  <2>2. d.stream = b
    BY DEF Drained, Inv, Senders
  <2> QED BY Zenon, <2>1, <2>2, DrainedInv DEF Drained
<1>2. b \in ByteStreams /\ StreamInv(b)
  BY DEF Inv, Senders
<1> HIDE DEF d
<1>3. ASSUME NEW n \in 1 .. MaxStream, Write(n)
      PROVE  Inv(sender')
  <2> DEFINE c == write(b, NextBytes(b, n))
  <2>1. ~b.end /\ sender' = fill_window([d EXCEPT !.stream = c])
    BY <1>1, <1>3 DEF Write, d, Drained, Inv, Senders
  <2>2. n \in Nat
    BY SenderSpecAssumption
  <2>3. c \in ByteStreams /\ StreamInv(c) /\ c.alread = b.alread
    BY <1>2, <2>2, WriteStream
  <2> HIDE DEF b, c
  <2>4. Inv([d EXCEPT !.stream = c])
    BY <1>1, <2>1, <2>3, StreamChangeInv
  <2> QED BY <2>1, <2>4, FillInv
<1>4. CASE EndInput
  <2> DEFINE c == end_input(b)
  <2>1. sender' = fill_window([d EXCEPT !.stream = c])
    BY <1>1, <1>4 DEF EndInput, d, Drained, Inv, Senders
  <2>2. /\ c \in ByteStreams /\ c.end /\ c.content = b.content /\ c.alread = b.alread
        /\ c.alwritten = b.alwritten /\ c.max = b.max
    <3> HIDE DEF b
    <3> QED BY Zenon, <1>2 DEF end_input, ByteStreams
  <2>3. StreamInv(c)
    BY <1>2, <2>2 DEF StreamInv
  <2> HIDE DEF b, c
  <2>4. Inv([d EXCEPT !.stream = c])
    BY <1>1, <2>2, <2>3, StreamChangeInv
  <2> QED BY <2>1, <2>4, FillInv
<1>5. CASE FillWindow
  BY <1>1, <1>5, FillInv DEF FillWindow, d
<1>6. ASSUME NEW ackno \in 0 .. SeqSpace - 1, NEW win \in 0 .. MaxWindow,
             AckReceived(ackno, win)
      PROVE  Inv(sender')
  BY <1>1, <1>6, AckInv DEF AckReceived, d
<1>7. ASSUME NEW ms \in TickSizes, Tick(ms)
      PROVE  Inv(sender')
  <2>1. ms \in Nat
    BY SenderSpecAssumption
  <2> QED BY <1>1, <1>7, <2>1, TickInv DEF Tick, d
<1>8. CASE SendEmpty
  BY <1>1, <1>8, EmptyInv DEF SendEmpty, d
<1>9. CASE UNCHANGED vars
  BY <1>9 DEF vars
<1> QED BY <1>3, <1>4, <1>5, <1>6, <1>7, <1>8, <1>9 DEF Next

\* The invariant holds in every state the sender reaches.
THEOREM Invariance == Spec => []Inv(sender)
<1>1. Init => Inv(sender)
  BY InitInv
<1>2. Inv(sender) /\ [Next]_vars => Inv(sender)'
  BY StepInv
<1> QED BY <1>1, <1>2, PTL DEF Spec

-----------------------------------------------------------------------------
(* What it says of every state. *)

\* Types, and bytes_in_flight never wraps below zero.
THEOREM TypeCorrect == Spec => []TypeOK
<1>1. Inv(sender) => TypeOK
  BY DEF Inv, CountInv, TypeOK, Senders, bytes_in_flight
<1> QED BY <1>1, Invariance, PTL

\* The timer runs exactly while something is in flight.
THEOREM TimerCorrect == Spec => []TimerTracksFlight
<1>1. Inv(sender) => TimerTracksFlight
  BY DEF Inv, CountInv, QueueInv, TimerTracksFlight, Senders, bytes_in_flight
<1> QED BY <1>1, Invariance, PTL

\* The unacknowledged segments tile the numbers in flight.
THEOREM QueueCorrect == Spec => []UnackedTiles
<1>1. Inv(sender) => UnackedTiles
  <2> SUFFICES ASSUME Inv(sender) PROVE UnackedTiles
    OBVIOUS
  <2> DEFINE q == sender.unacked
  <2>1. /\ q # <<>> => /\ q[1].abs <= sender.byte_received /\ sender.byte_received < End(q[1])
                       /\ End(q[Len(q)]) = sender.byte_sent
        /\ \A i \in 1 .. Len(q) : i < Len(q) => End(q[i]) = q[i + 1].abs
        /\ Len(q) \in Nat
    BY DEF Inv, QueueInv, Senders
  <2>2. ASSUME NEW i \in 1 .. Len(q)
        PROVE  End(q[i]) = IF i < Len(q) THEN q[i + 1].abs ELSE sender.byte_sent
    <3>1. q # <<>> /\ (~(i < Len(q)) => i = Len(q))
      BY <2>1
    <3> QED BY <2>1, <3>1
  <2> QED BY <2>1, <2>2 DEF UnackedTiles
<1> QED BY <1>1, Invariance, PTL

\* byte_sent counts the SYN, the bytes read and the FIN, and the FIN comes last.
THEOREM SequenceSpaceCorrect == Spec => []SequenceSpaceAccounted
<1>1. Inv(sender) => SequenceSpaceAccounted
  <2> SUFFICES ASSUME Inv(sender) PROVE SequenceSpaceAccounted
    OBVIOUS
  <2> DEFINE b == sender.stream
  <2>1. /\ sender.byte_sent = Bit(sender.byte_sent > 0) + b.alread + Bit(sender.eof)
        /\ sender.eof => b.end /\ b.content = <<>>
        /\ b.alwritten = b.alread + Len(b.content) /\ b.alread \in Nat
    BY DEF Inv, CountInv, StreamInv, Senders, ByteStreams
  <2>2. sender.eof => b.alwritten = b.alread
    <3>1. sender.eof => Len(b.content) = 0
      BY <2>1
    <3> HIDE DEF b
    <3> QED BY <2>1, <3>1
  <2> QED BY <2>1, <2>2 DEF SequenceSpaceAccounted, eof
<1> QED BY <1>1, Invariance, PTL

\* Every segment carries the bytes its number names, and the FIN the last number.
THEOREM SegmentsCorrect == Spec => []SegmentsCarryTheirBytes
<1>1. Inv(sender) => SegmentsCarryTheirBytes
  BY SMTT(30) DEF Inv, CountInv, Carries, SegmentsCarryTheirBytes
<1> QED BY <1>1, Invariance, PTL

\* No more is in flight than the largest window.
THEOREM FlightCorrect == Spec => []FlightBounded
<1>1. Inv(sender) => FlightBounded
  BY DEF Inv, CountInv, FlightBounded, bytes_in_flight
<1> QED BY <1>1, Invariance, PTL

-----------------------------------------------------------------------------
(* What a step may send. *)

\* t differs from s by having filled the window, or by no new numbers.
SendsFrom(s, t) ==
    /\ t.byte_sent # s.byte_sent => bytes_in_flight(t) <= Window(t)
    /\ \A i \in 1 .. Len(t.segments_out) :
           \/ t.segments_out[i].abs >= s.byte_sent
           \/ /\ t.segments_out[i].abs <= s.byte_received
              /\ s.byte_received < End(t.segments_out[i])

\* fill_window stays in the window and sends numbers that were never sent.
LEMMA FillSends ==
  ASSUME NEW s, Inv(s), s.segments_out = <<>>, NEW o, o.byte_sent = s.byte_sent
  PROVE  SendsFrom(o, fill_window(s))
<1> DEFINE t == fill_window(s)
           h == Sends(s)
<1>1. CASE ~CanFill(s)
  BY <1>1 DEF fill_window, SendsFrom
<1>2. CASE CanFill(s)
  <2>1. /\ s \in Senders /\ t.window_size = s.window_size
        /\ t.byte_received = s.byte_received /\ t.byte_sent = NextSent(s)
        /\ t.segments_out = s.segments_out \o h
    BY Zenon, <1>2, FillFields DEF Inv
  <2>2. t.segments_out = h
    <3>1. h \in Seq(Segment)
      BY <1>2, FillRun
    <3> HIDE DEF h
    <3> QED BY <2>1, <3>1
  <2>3. \A i \in 1 .. Len(h) : h[i].abs >= s.byte_sent
    <3>1. h \in Seq(Segment) /\ \A i \in 1 .. Len(h) : s.byte_sent <= h[i].abs
      BY <1>2, FillRun DEF Run
    <3>2. \A i \in 1 .. Len(h) : h[i].abs \in Nat
      <4> HIDE DEF h
      <4> QED BY <3>1, SegmentNumbers
    <3>3. s.byte_sent \in Nat
      BY <2>1 DEF Senders
    <3> HIDE DEF h
    <3> QED BY <3>1, <3>2, <3>3
  <2>4. bytes_in_flight(t) <= Window(t)
    <3> DEFINE P == PayloadSize(s)
               y == Bit(SendsSyn(s))
               f == Bit(SendsFin(s))
               sent == s.byte_sent
               rcvd == s.byte_received
               w == Window(s)
    <3>1. P \in Nat /\ y + P + f <= w - (sent - rcvd)
      BY <1>2, FillSizes DEF Room, bytes_in_flight
    <3>2. sent \in Nat /\ rcvd \in Nat /\ w \in Int
      BY <2>1, SenderAssumption DEF Senders, Window
    <3>3. y \in Nat /\ f \in Nat
      BY DEF Bit
    <3>4. bytes_in_flight(t) = sent + y + P + f - rcvd
      <4>1. t.byte_sent = sent + y + P + f /\ t.byte_received = rcvd
        BY <2>1 DEF NextSent
      <4> HIDE DEF P, y, f, sent, rcvd, w, t
      <4> QED BY <3>1, <3>2, <3>3, <4>1 DEF bytes_in_flight
    <3>5. Window(t) = w
      BY <2>1 DEF Window
    <3> HIDE DEF P, y, f, sent, rcvd, w, t
    <3> QED BY <3>1, <3>2, <3>3, <3>4, <3>5
  <2> QED BY <2>2, <2>3, <2>4 DEF SendsFrom
<1> QED BY <1>1, <1>2

\* A step that takes no new numbers and sends at most one segment.
LEMMA OneSend ==
  ASSUME NEW s, NEW t, t.byte_sent = s.byte_sent, NEW g, t.segments_out = <<g>>,
         \/ g.abs >= s.byte_sent
         \/ g.abs <= s.byte_received /\ s.byte_received < End(g)
  PROVE  SendsFrom(s, t)
<1>1. Len(t.segments_out) = 1 /\ t.segments_out[1] = g
  OBVIOUS
<1>2. \A i \in 1 .. Len(t.segments_out) : t.segments_out[i] = g
  BY <1>1
<1> QED BY <1>2 DEF SendsFrom

\* t is s after a change that sends nothing and fill_window, or s with neither a byte
\* more in its stream nor a number more acknowledged.
Refills(s, t) ==
    \E m : /\ Inv(m) /\ m.segments_out = <<>> /\ m.byte_sent = s.byte_sent
           /\ t = fill_window(m)

Keeps(s, t) ==
    SendsFrom(s, t) /\ t.stream = s.stream /\ t.byte_received = s.byte_received

\* Every step of the owner is of one of the two kinds.
LEMMA StepKinds == Inv(sender) /\ Next => Refills(sender, sender') \/ Keeps(sender, sender')
<1> SUFFICES ASSUME Inv(sender), Next PROVE Refills(sender, sender') \/ Keeps(sender, sender')
  OBVIOUS
<1> DEFINE d == Drained
           b == sender.stream
           Base(m) == Inv(m) /\ m.segments_out = <<>> /\ m.byte_sent = sender.byte_sent
<1>1. /\ Inv(d) /\ d \in Senders /\ d.stream = b /\ d.segments_out = <<>>
      /\ d.byte_sent = sender.byte_sent /\ d.byte_received = sender.byte_received
      /\ d.unacked = sender.unacked
  <2>1. <<>> \in Seq(Segment)
    OBVIOUS
  <2>2. Inv(d)
    BY Zenon, <2>1, DrainedInv DEF Drained
  <2>3. /\ d.stream = b /\ d.segments_out = <<>> /\ d.byte_sent = sender.byte_sent
        /\ d.byte_received = sender.byte_received /\ d.unacked = sender.unacked
    BY DEF Drained, Inv, Senders
  <2> QED BY <2>2, <2>3 DEF Inv
<1>2. b \in ByteStreams /\ StreamInv(b)
  BY DEF Inv, Senders
<1> HIDE DEF d
<1>3. ASSUME NEW m, Base(m), sender' = fill_window(m)
      PROVE  Refills(sender, sender') \/ Keeps(sender, sender')
  BY <1>3 DEF Refills
<1>4. ASSUME NEW c, Inv([d EXCEPT !.stream = c])
      PROVE  Base([d EXCEPT !.stream = c])
  BY <1>1, <1>4 DEF Senders
<1>5. ASSUME NEW n \in 1 .. MaxStream, Write(n)
      PROVE  Refills(sender, sender') \/ Keeps(sender, sender')
  <2> DEFINE c == write(b, NextBytes(b, n))
  <2>1. ~b.end /\ sender' = fill_window([d EXCEPT !.stream = c])
    BY <1>1, <1>5 DEF Write, d, Drained, Inv, Senders
  <2>2. n \in Nat
    BY SenderSpecAssumption
  <2>3. c \in ByteStreams /\ StreamInv(c) /\ c.alread = b.alread
    BY <1>2, <2>2, WriteStream
  <2> HIDE DEF b, c, Base
  <2>4. Inv([d EXCEPT !.stream = c])
    BY <1>1, <2>1, <2>3, StreamChangeInv
  <2> QED BY <1>3, <1>4, <2>1, <2>4

<1>6. CASE EndInput
  <2> DEFINE c == end_input(b)
  <2>1. sender' = fill_window([d EXCEPT !.stream = c])
    BY <1>1, <1>6 DEF EndInput, d, Drained, Inv, Senders
  <2>2. /\ c \in ByteStreams /\ c.end /\ c.content = b.content /\ c.alread = b.alread
        /\ c.alwritten = b.alwritten /\ c.max = b.max
    <3> HIDE DEF b
    <3> QED BY Zenon, <1>2 DEF end_input, ByteStreams
  <2>3. StreamInv(c)
    BY <1>2, <2>2 DEF StreamInv
  <2> HIDE DEF b, c, Base
  <2>4. Inv([d EXCEPT !.stream = c])
    BY <1>1, <2>2, <2>3, StreamChangeInv
  <2> QED BY <1>3, <1>4, <2>1, <2>4
<1>7. CASE FillWindow
  BY <1>1, <1>3, <1>7 DEF FillWindow, d
<1>8. ASSUME NEW ackno \in 0 .. SeqSpace - 1, NEW win \in 0 .. MaxWindow,
             AckReceived(ackno, win)
      PROVE  Refills(sender, sender') \/ Keeps(sender, sender')
  <2> DEFINE t == [d EXCEPT !.window_size = win]
             abs == AbsAck(d, ackno)
  <2>1. /\ Inv(t) /\ t.segments_out = <<>> /\ t.byte_sent = sender.byte_sent
        /\ t.byte_received = d.byte_received /\ t \in Senders
    <3>1. Inv(t)
      BY <1>1, WindowInv
    <3> QED BY <1>1, <3>1 DEF Senders, Inv
  <2>2. sender' = IF abs > d.byte_sent \/ abs < d.byte_received THEN t
                  ELSE IF abs = d.byte_received THEN fill_window(t)
                  ELSE fill_window(NewAck(t, abs))
    BY <1>8 DEF AckReceived, ack_received, d
  <2>3. abs \in Nat /\ d.byte_sent \in Nat /\ d.byte_received \in Nat
    <3>1. d.isn \in Nat /\ d.byte_sent \in Nat /\ d.byte_received \in Nat /\ ackno \in Nat
      BY <1>1, SeqSpaceAssumption DEF Senders
    <3> QED BY Zenon, <3>1, UnwrapType DEF AbsAck
  <2> HIDE DEF t, abs
  <2>4. CASE abs > d.byte_sent \/ abs < d.byte_received
    <3>1. t.stream = sender.stream /\ t.byte_received = sender.byte_received
      BY <1>1, <2>1 DEF t, Senders
    <3> QED BY <2>1, <2>2, <2>4, <3>1 DEF SendsFrom, Keeps
  <2>5. CASE ~(abs > d.byte_sent \/ abs < d.byte_received) /\ abs = d.byte_received
    BY <1>3, <2>1, <2>2, <2>5
  <2>6. CASE ~(abs > d.byte_sent \/ abs < d.byte_received) /\ abs # d.byte_received
    <3>1. t.byte_received < abs /\ abs <= t.byte_sent
      BY <1>1, <2>1, <2>3, <2>6
    <3>2. Inv(NewAck(t, abs))
      BY <2>1, <2>3, <3>1, NewAckInv
    <3>3. NewAck(t, abs).segments_out = <<>> /\ NewAck(t, abs).byte_sent = sender.byte_sent
      BY <2>1 DEF NewAck, Senders
    <3>4. Base(NewAck(t, abs))
      BY <3>2, <3>3
    <3> HIDE DEF Base
    <3> QED BY <1>3, <2>2, <2>6, <3>4
  <2> QED BY <2>4, <2>5, <2>6
<1>9. ASSUME NEW ms \in TickSizes, Tick(ms)
      PROVE  Refills(sender, sender') \/ Keeps(sender, sender')
  <2> DEFINE u == [d.sendtimer EXCEPT !.elapsed = @ + ms]
             g == Head(d.unacked)
  <2>1. sender' = IF ~u.active THEN d
                  ELSE IF ~timeout(u) THEN [d EXCEPT !.sendtimer = u]
                  ELSE [d EXCEPT !.segments_out = Append(@, g),
                                 !.consecutive_retrans = @ + 1,
                                 !.sendtimer = start(rto_double(u))]
    BY <1>9 DEF Tick, tick, d
  <2>2. u.active = d.sendtimer.active
    <3> DEFINE v == d.sendtimer
    <3>1. v \in Timers
      BY <1>1 DEF Senders
    <3> HIDE DEF v
    <3>2. [v EXCEPT !.elapsed = @ + ms].active = v.active
      BY <3>1 DEF Timers
    <3> QED BY <3>2 DEF v
  <2> HIDE DEF u
  <2>3. CASE ~u.active \/ ~timeout(u)
    <3>1. /\ sender'.segments_out = <<>> /\ sender'.byte_sent = sender.byte_sent
          /\ sender'.stream = sender.stream /\ sender'.byte_received = sender.byte_received
      BY <1>1, <2>1, <2>3 DEF Senders
    <3> QED BY <3>1 DEF SendsFrom, Keeps
  <2>4. CASE u.active /\ timeout(u)
    <3>1. d.unacked # <<>> /\ QueueInv(d.unacked, d.byte_received, d.byte_sent)
      BY <1>1, <2>2, <2>4 DEF Inv
    <3>2. g = d.unacked[1]
      BY <1>1, <3>1 DEF Senders
    <3>3. g.abs <= sender.byte_received /\ sender.byte_received < End(g)
      BY <1>1, <3>1, <3>2 DEF QueueInv
    <3> HIDE DEF g
    <3>4. /\ sender'.segments_out = <<g>> /\ sender'.byte_sent = sender.byte_sent
          /\ sender'.stream = sender.stream /\ sender'.byte_received = sender.byte_received
      BY <1>1, <2>1, <2>4 DEF Senders
    <3> QED BY <3>3, <3>4, OneSend DEF Keeps
  <2> QED BY <2>3, <2>4
<1>10. CASE SendEmpty
  <2> DEFINE g == [BlankSegment EXCEPT !.abs = d.byte_sent, !.seqno = wrap(d.byte_sent, d.isn)]
  <2>1. sender' = [d EXCEPT !.segments_out = Append(@, g)]
    BY <1>10 DEF SendEmpty, send_empty_segment, d
  <2>2. g.abs = sender.byte_sent
    BY <1>1 DEF BlankSegment
  <2>3. sender.byte_sent \in Nat
    BY DEF Inv, Senders
  <2> HIDE DEF g
  <2>4. /\ sender'.segments_out = <<g>> /\ sender'.byte_sent = sender.byte_sent
        /\ sender'.stream = sender.stream /\ sender'.byte_received = sender.byte_received
    BY <1>1, <2>1 DEF Senders
  <2> QED BY <2>2, <2>3, <2>4, OneSend DEF Keeps
<1> QED BY <1>5, <1>6, <1>7, <1>8, <1>9, <1>10 DEF Next

\* Every step of the owner sends only what is new, the oldest, or empty.
LEMMA StepSends == Inv(sender) /\ Next => SendsFrom(sender, sender')
<1> SUFFICES ASSUME Inv(sender), Next PROVE SendsFrom(sender, sender')
  OBVIOUS
<1>1. CASE Keeps(sender, sender')
  BY <1>1 DEF Keeps
<1>2. CASE Refills(sender, sender')
  <2> PICK m : /\ Inv(m) /\ m.segments_out = <<>> /\ m.byte_sent = sender.byte_sent
               /\ sender' = fill_window(m)
    BY <1>2 DEF Refills
  <2> QED BY FillSends
<1> QED BY <1>1, <1>2, StepKinds

\* New numbers are sent only inside the window.
THEOREM WindowRespected == Spec => SendsWithinWindow
<1>1. Inv(sender) /\ [Next]_vars =>
        [sender'.byte_sent # sender.byte_sent => bytes_in_flight(sender') <= Window(sender')]_vars
  BY StepSends DEF SendsFrom
<1> QED BY <1>1, Invariance, PTL DEF Spec, SendsWithinWindow

\* A segment that is sent is new, the oldest outstanding one, or empty.
THEOREM SendsCorrect == Spec => SendsNewOrOldest
<1>1. Inv(sender) /\ [Next]_vars =>
        [\A i \in 1 .. Len(sender'.segments_out) :
           LET seg == sender'.segments_out[i]
           IN  \/ seg.abs >= sender.byte_sent
               \/ seg.abs <= sender.byte_received /\ sender.byte_received < End(seg)]_vars
  BY StepSends DEF SendsFrom
<1> QED BY <1>1, Invariance, PTL DEF Spec, SendsNewOrOldest

-----------------------------------------------------------------------------
(* How much a step sends. *)

\* fill_window leaves nothing that it could send.
LEMMA FillFills ==
  ASSUME NEW s, Inv(s)
  PROVE  Filled(fill_window(s))
<1> DEFINE t == fill_window(s)
           q == s.stream.content
           len == Len(q)
           P == PayloadSize(s)
           y == Bit(SendsSyn(s))
           f == Bit(SendsFin(s))
           room == Room(s)
           sent == s.byte_sent
<1>1. /\ s \in Senders /\ s.stream \in ByteStreams /\ StreamInv(s.stream)
      /\ q \in Seq(Nat) /\ sent \in Nat /\ s.byte_received \in Nat /\ s.window_size \in Nat
  BY SenderAssumption DEF Inv, Senders, ByteStreams
<1>2. len \in Nat /\ (len = 0 => q = <<>>)
  BY <1>1
<1>3. room \in Int /\ y \in {0, 1} /\ f \in {0, 1}
  BY <1>1 DEF Room, Window, bytes_in_flight, Bit
<1>4. P = IF len <= room - y THEN len ELSE room - y
  <2>1. P = IF buffer_size(s.stream) <= room - y THEN buffer_size(s.stream) ELSE room - y
    BY DEF PayloadSize, Lesser
  <2>2. buffer_size(s.stream) = len
    BY DEF buffer_size
  <2> HIDE DEF P, room, y, len
  <2> QED BY <2>1, <2>2
<1>5. /\ y = 0 <=> sent # 0
      /\ f = 1 <=> SendsFin(s)
      /\ SendsFin(s) <=> s.stream.end /\ P = len /\ room > y + P
  BY DEF Bit, SendsSyn, SendsFin, buffer_size
<1>6. CASE ~CanFill(s)
  <2>1. t = s
    BY <1>6 DEF fill_window
  <2>2. s.eof \/ room <= 0 \/ ~(SegmentCount(s) > 0)
    BY <1>3, <1>6 DEF CanFill
  <2>3. ASSUME ~(SegmentCount(s) > 0), room > 0
        PROVE  sent > 0 /\ q = <<>> /\ ~s.stream.end
    <3>1. P \in Nat
      <4> HIDE DEF P, y, len, room
      <4> QED BY <1>2, <1>3, <1>4, <2>3
    <3>2. P = 0
      <4>1. CASE P > 0
        <5>1. (P - 1) \div M \in Nat
          BY <3>1, <4>1, DivNat, SenderAssumption DEF M
        <5>2. SegmentCount(s) = (P - 1) \div M + 1
          BY <4>1, <3>1 DEF SegmentCount, M
        <5> HIDE DEF P
        <5> QED BY <2>3, <5>1, <5>2
      <4> HIDE DEF P
      <4> QED BY <3>1, <4>1
    <3>3. y = 0 /\ f = 0
      <4>1. SegmentCount(s) = Bit(SendsSyn(s) \/ SendsFin(s))
        BY <3>2 DEF SegmentCount
      <4> QED BY <2>3, <4>1 DEF Bit
    <3>4. len = 0 /\ sent > 0
      <4> HIDE DEF P, y, len, room, f, sent
      <4> QED BY <1>1, <1>2, <1>3, <1>4, <1>5, <2>3, <3>2, <3>3
    <3>5. ~s.stream.end
      <4> HIDE DEF P, y, len, room, f, sent
      <4> QED BY <1>3, <1>5, <2>3, <3>2, <3>3, <3>4
    <3> QED BY <1>2, <3>4, <3>5
  <2> QED BY <1>3, <2>1, <2>2, <2>3 DEF Filled
<1>7. CASE CanFill(s)
  <2>1. /\ t.window_size = s.window_size /\ t.byte_received = s.byte_received
        /\ t.byte_sent = sent + y + P + f /\ t.stream = pop_output(s.stream, P)
        /\ t.eof = SendsFin(s)
    BY <1>1, <1>7, FillFields DEF NextSent
  <2>2. /\ P \in Nat /\ P <= len
    BY <1>7, FillSizes
  <2>3. Room(t) = room - (y + P + f)
    <3> DEFINE w == Window(s)
               rcvd == s.byte_received
    <3>1. w \in Int /\ rcvd \in Int /\ sent \in Int
      BY <1>1 DEF Window
    <3>2. room = w - (sent - rcvd)
      BY DEF Room, bytes_in_flight
    <3>3. Room(t) = w - (sent + y + P + f - rcvd)
      <4>1. Room(t) = Window(t) - (t.byte_sent - t.byte_received) /\ Window(t) = w
        BY <2>1 DEF Room, bytes_in_flight, Window
      <4>2. t.byte_sent = sent + y + P + f /\ t.byte_received = rcvd
        BY <2>1
      <4> HIDE DEF t, P, y, f, sent, w, rcvd
      <4> QED BY <1>3, <2>2, <3>1, <4>1, <4>2
    <3> HIDE DEF t, P, y, f, sent, room, w, rcvd
    <3> QED BY <1>3, <2>2, <3>1, <3>2, <3>3
  <2>4. PICK c : c = t.stream
    OBVIOUS
  <2>5. /\ c \in ByteStreams /\ StreamInv(c) /\ c.alread = s.stream.alread + P
        /\ c.alwritten = s.stream.alwritten /\ c.end = s.stream.end
    BY <1>1, <2>1, <2>2, <2>4, PopStream
  <2>6. Len(c.content) = len - P /\ (Len(c.content) = 0 => c.content = <<>>)
    <3> DEFINE k == Len(c.content)
               a == s.stream.alread
    <3>1. k \in Nat /\ (k = 0 => c.content = <<>>) /\ c.alwritten = c.alread + k
      BY <2>5 DEF ByteStreams, StreamInv
    <3>2. s.stream.alwritten = a + len /\ a \in Nat
      BY <1>1 DEF StreamInv, ByteStreams
    <3>3. a + len = a + P + k
      BY Zenon, <2>5, <3>1, <3>2
    <3>4. k = len - P
      <4> HIDE DEF len, P, k, a
      <4> QED BY <1>2, <2>2, <3>1, <3>2, <3>3
    <3> QED BY <3>1, <3>4
  <2>7. CASE SendsFin(s)
    BY <2>1, <2>7 DEF Filled
  <2>8. CASE ~SendsFin(s) /\ P = room - y
    <3>1. Room(t) <= 0
      <4> HIDE DEF P, y, len, room, f, sent, t
      <4> QED BY <1>3, <1>5, <2>2, <2>3, <2>8
    <3> QED BY <3>1 DEF Filled
  <2>9. CASE ~SendsFin(s) /\ P = len /\ len < room - y
    <3>1. ~s.stream.end
      <4> HIDE DEF P, y, len, room, f, sent
      <4> QED BY <1>2, <1>3, <1>5, <2>9
    <3>2. Len(c.content) = 0
      <4> HIDE DEF P, len
      <4> QED BY <1>2, <2>2, <2>6, <2>9
    <3>3. t.byte_sent > 0
      <4> HIDE DEF P, y, f, sent, t
      <4> QED BY <1>1, <1>3, <1>5, <2>1, <2>2
    <3> QED BY <2>4, <2>5, <2>6, <3>1, <3>2, <3>3 DEF Filled
  <2>10. P = room - y \/ (P = len /\ len < room - y)
    <3> HIDE DEF P, y, len, room
    <3> QED BY <1>2, <1>3, <1>4
  <2> QED BY <2>7, <2>8, <2>9, <2>10
<1> QED BY <1>6, <1>7

\* A repeated acknowledgment is recognised as one.
LEMMA RepeatedAck ==
  ASSUME Inv(sender), NEW win \in 0 .. MaxWindow,
         AckReceived(wrap(sender.byte_received, sender.isn), win)
  PROVE  Filled(sender')
<1> DEFINE d == Drained
           t == [d EXCEPT !.window_size = win]
           n == wrap(sender.byte_received, sender.isn)
<1>1. /\ Inv(d) /\ d \in Senders /\ d.isn = sender.isn
      /\ d.byte_sent = sender.byte_sent /\ d.byte_received = sender.byte_received
  <2>1. <<>> \in Seq(Segment)
    OBVIOUS
  <2>2. Inv(d)
    BY Zenon, <2>1, DrainedInv DEF Drained
  <2> QED BY <2>2 DEF Drained, Inv, Senders
<1>2. /\ sender.isn \in Nat /\ sender.byte_received \in Nat /\ sender.byte_sent \in Nat
      /\ sender.byte_received <= sender.byte_sent
  BY SeqSpaceAssumption DEF Inv, CountInv, Senders
<1> HIDE DEF d
<1>3. AbsAck(d, n) = sender.byte_received
  <2>1. 2 * (sender.byte_received - sender.byte_received) < SeqSpace
    BY <1>2, SeqSpaceAssumption
  <2> QED BY <1>1, <1>2, <2>1, UnwrapWrap DEF AbsAck
<1> HIDE DEF n
<1>4. sender' = fill_window(t)
  BY <1>1, <1>2, <1>3 DEF AckReceived, ack_received, d, n
<1>5. Inv(t)
  BY <1>1, WindowInv
<1> QED BY <1>4, <1>5, FillFills

\* A step after which there is something new to send has sent what the window allows.
THEOREM WindowFilled == Spec => FillsTheWindow
<1> DEFINE New == \/ sender'.stream # sender.stream
                  \/ sender'.byte_received # sender.byte_received
                  \/ AckReceived(wrap(sender.byte_received, sender.isn), sender'.window_size)
<1>1. Inv(sender) /\ Inv(sender)' /\ [Next]_vars => [New => Filled(sender')]_vars
  <2> SUFFICES ASSUME Inv(sender), Inv(sender'), Next, New PROVE Filled(sender')
    OBVIOUS
  <2>1. sender'.window_size \in 0 .. MaxWindow
    BY DEF Inv, Senders
  <2>2. CASE AckReceived(wrap(sender.byte_received, sender.isn), sender'.window_size)
    BY <2>1, <2>2, RepeatedAck
  <2>3. CASE Refills(sender, sender')
    BY <2>3, FillFills DEF Refills
  <2>4. CASE Keeps(sender, sender')
    BY <2>2, <2>4 DEF Keeps
  <2> QED BY <2>3, <2>4, StepKinds
<1> QED BY <1>1, Invariance, PTL DEF Spec, FillsTheWindow
-----------------------------------------------------------------------------
(* Induction and recursion over natural numbers.  The library's induction theorems     *)
(* have an operator for the predicate, which no backend instantiates; these have a set. *)

\* Every non-empty set of natural numbers has a least element.
LEMMA NatMin ==
  ASSUME NEW T, T \subseteq Nat, T # {}
  PROVE  \E x \in T : \A y \in T : x <= y
<1> DEFINE R == OpToRel(<, Nat)
<1>1. IsWellFoundedOn(R, Nat)
  BY Zenon, NatLessThanWellFounded
<1>2. \A x, y \in Nat : x < y => <<x, y>> \in R
  BY DEF OpToRel
<1> HIDE DEF R
<1>3. PICK x \in T : \A y \in T : ~ (<<y, x>> \in R)
  BY Zenon, <1>1, WFMin
<1>4. ASSUME NEW y \in T PROVE x <= y
  <2>1. x \in Nat /\ y \in Nat
    OBVIOUS
  <2>2. ~(y < x)
    BY Zenon, <2>1, <1>2, <1>3
  <2> QED BY <2>1, <2>2
<1> QED BY <1>4

\* Induction up to a bound, for a set in the place of a predicate.
LEMMA InductUpTo ==
  ASSUME NEW N \in Nat, NEW S, 0 \in S, \A n \in 0 .. N - 1 : n \in S => n + 1 \in S
  PROVE  0 .. N \subseteq S
<1> DEFINE T == (0 .. N) \ S
<1> SUFFICES ASSUME T # {} PROVE FALSE
  OBVIOUS
<1>1. PICK x \in T : \A y \in T : x <= y
  <2>1. T \subseteq Nat
    OBVIOUS
  <2> HIDE DEF T
  <2> QED BY Zenon, <2>1, NatMin
<1>2. x # 0 /\ x - 1 \in 0 .. N - 1 /\ x - 1 \notin T
  BY <1>1
<1>3. x - 1 \in S
  BY <1>2
<1>4. (x - 1) + 1 \in S
  BY <1>2, <1>3
<1>5. (x - 1) + 1 = x
  BY <1>1
<1> QED BY <1>1, <1>4, <1>5

\* g has the first value a and, up to N, takes the next value from h.
Recursion(g, N, V, a, h) ==
    /\ g \in [0 .. N -> V] /\ g[0] = a
    /\ \A i \in 1 .. N : g[i] = h[<<g[i - 1], i>>]

\* A function can be defined by recursion up to a bound: from its first value and what
\* takes each value to the next.
LEMMA RecurseUpTo ==
  ASSUME NEW N \in Nat, NEW V, NEW a, NEW h, a \in V, h \in [V \X (1 .. N) -> V]
  PROVE  \E g : Recursion(g, N, V, a, h)
<1> DEFINE Defined(g, n) == g[0] = a /\ \A i \in 1 .. n : g[i] = h[<<g[i - 1], i>>]
           S == {n \in 0 .. N : \E g \in [0 .. n -> V] : Defined(g, n)}
<1>1. 0 \in S
  <2> DEFINE g == [i \in 0 .. 0 |-> a]
  <2>1. g \in [0 .. 0 -> V] /\ g[0] = a /\ 0 \in 0 .. N
    OBVIOUS
  <2> HIDE DEF g
  <2>2. Defined(g, 0)
    BY <2>1
  <2> QED BY <2>1, <2>2
<1>2. ASSUME NEW n \in 0 .. N - 1, n \in S PROVE n + 1 \in S
  <2>1. PICK g \in [0 .. n -> V] : Defined(g, n)
    BY <1>2
  <2> DEFINE f == [i \in 0 .. n + 1 |-> IF i = n + 1 THEN h[<<g[n], n + 1>>] ELSE g[i]]
  <2>2. n + 1 \in 1 .. N /\ g[n] \in V
    BY <1>2
  <2>3. h[<<g[n], n + 1>>] \in V
    BY <2>2
  <2>4. f \in [0 .. n + 1 -> V]
    BY <2>3
  <2>5. f[0] = a
    BY <2>1
  <2>6. ASSUME NEW i \in 1 .. n + 1 PROVE f[i] = h[<<f[i - 1], i>>]
    <3>1. CASE i = n + 1
      <4>1. f[i] = h[<<g[n], i>>] /\ f[i - 1] = g[n]
        BY <3>1
      <4> QED BY Zenon, <4>1
    <3>2. CASE i # n + 1
      <4>1. f[i] = g[i] /\ f[i - 1] = g[i - 1] /\ i \in 1 .. n
        BY <3>2
      <4> QED BY <4>1, <2>1
    <3> QED BY <3>1, <3>2
  <2> HIDE DEF f
  <2>7. n + 1 \in 0 .. N
    BY <1>2
  <2> QED BY <2>4, <2>5, <2>6, <2>7
<1>3. N \in S
  <2> HIDE DEF S
  <2>1. 0 .. N \subseteq S
    BY <1>1, <1>2, InductUpTo
  <2> QED BY <2>1
<1> QED BY <1>3 DEF Recursion

-----------------------------------------------------------------------------
(* The closed form of fill_window is the code's recursion. *)

\* The quotient is the only one.
LEMMA DivUnique ==
  ASSUME NEW a \in Int, NEW b \in Nat, b > 0, NEW q \in Int, NEW r \in 0 .. b - 1,
         a = b * q + r
  PROVE  a \div b = q
OBVIOUS

\* The payload of the first segment, and whether it carries the FIN.
First(s) == Lesser(PayloadSize(s), M)
FirstFin(s) == SendsFin(s) /\ SegmentCount(s) = 1

\* The sender after the first segment.
Once(s) ==
    [s EXCEPT !.segments_out = Append(@, SegmentAt(s, 1)),
              !.unacked = Append(@, SegmentAt(s, 1)),
              !.stream = pop_output(@, First(s)), !.eof = FirstFin(s),
              !.byte_sent = @ + Bit(SendsSyn(s)) + First(s) + Bit(FirstFin(s)),
              !.sendtimer = IF @.active THEN @ ELSE start(rto_reset(@))]

\* How much there is to send, and how much of it goes first.
LEMMA FirstSizes ==
  ASSUME NEW s, Inv(s), CanFill(s)
  PROVE  /\ M \in Nat /\ M > 0 /\ First(s) \in Nat /\ First(s) <= Len(s.stream.content)
         /\ SegmentCount(s) = 1 => First(s) = PayloadSize(s)
         /\ SegmentCount(s) # 1 => First(s) = M /\ M < PayloadSize(s)
         /\ SegmentCount(s) = 1 <=> PayloadSize(s) <= M
<1> DEFINE P == PayloadSize(s)
           k == SegmentCount(s)
           len == Len(s.stream.content)
<1>1. /\ P \in Nat /\ P <= len /\ k \in Nat /\ k >= 1
      /\ (k - 1) * M <= P /\ P <= k * M /\ (P > 0 => (k - 1) * M < P) /\ (P = 0 => k = 1)
  BY FillSizes
<1>2. M \in Nat /\ M > 0 /\ len \in Nat
  BY SenderAssumption DEF M, Inv, Senders, ByteStreams
<1>3. First(s) = IF P <= M THEN P ELSE M
  BY DEF First, Lesser
<1> HIDE DEF P, k, len, M
<1>4. k = 1 => P <= M
  <2>1. 1 * M = M
    BY <1>2
  <2> QED BY <1>1, <2>1
<1>5. k # 1 => M < P
  <2>1. k # 1 => 1 <= k - 1 /\ k - 1 \in Nat /\ P > 0 /\ P \in Nat
    BY <1>1
  <2>2. k # 1 => 1 * M <= (k - 1) * M /\ (k - 1) * M \in Nat
    BY <1>2, <2>1, MulMono
  <2>3. 1 * M = M
    BY <1>2
  <2> QED BY <1>1, <1>2, <2>1, <2>2, <2>3
<1>6. /\ First(s) \in Nat /\ First(s) <= len
      /\ k = 1 => First(s) = P
      /\ k # 1 => First(s) = M /\ M < P
      /\ k = 1 <=> P <= M
  BY <1>1, <1>2, <1>3, <1>4, <1>5
<1> QED BY Zenon, <1>2, <1>6 DEF P, k, len

\* One call of the code's function sends the first segment, or nothing.
LEMMA OnceIs ==
  ASSUME NEW s, Inv(s)
  PROVE  FillOnce(s) = IF CanFill(s) THEN Once(s) ELSE s
<1> DEFINE b == s.stream
           q == b.content
           len == Len(q)
           P == PayloadSize(s)
           y == Bit(SendsSyn(s))
           room == Room(s)
           w == Window(s)
           fl == bytes_in_flight(s)
           payload == Lesser(Lesser(w - fl - y, len), MAX_PAYLOAD_SIZE)
           stop == \/ s.eof
                   \/ fl + y > w \/ fl >= w
                   \/ ~eof(b) /\ y + payload = 0
           stream == pop_output(b, payload)
           fin == w > fl + y + payload /\ eof(stream)
           seg == [BlankSegment EXCEPT !.syn = SendsSyn(s), !.fin = fin,
                       !.payload = peek_output(b, payload),
                       !.abs = s.byte_sent, !.seqno = wrap(s.byte_sent, s.isn)]
<1>1. /\ s \in Senders /\ b \in ByteStreams /\ StreamInv(b) /\ q \in Seq(Nat)
      /\ s.byte_sent \in Nat /\ s.byte_received \in Nat /\ s.window_size \in Nat
      /\ s.eof \in BOOLEAN
  BY SenderAssumption DEF Inv, Senders, ByteStreams
<1>2. /\ len \in Nat /\ (len = 0 <=> q = <<>>) /\ w \in Nat /\ w > 0 /\ fl \in Int
      /\ y \in {0, 1} /\ room = w - fl /\ M \in Nat /\ M > 0
  BY <1>1, SenderAssumption DEF Window, bytes_in_flight, Bit, Room, M
<1>3. P = IF len <= room - y THEN len ELSE room - y
  BY DEF PayloadSize, Lesser, buffer_size
<1>4. FillOnce(s) = IF stop THEN s
                    ELSE [s EXCEPT !.segments_out = Append(@, seg), !.unacked = Append(@, seg),
                                   !.stream = stream, !.eof = fin,
                                   !.byte_sent = @ + length_in_sequence_space(seg),
                                   !.sendtimer = IF @.active THEN @ ELSE start(rto_reset(@))]
  BY Zenon DEF FillOnce, Window, buffer_size
<1>5. /\ SendsFin(s) <=> b.end /\ P = len /\ room > y + P
      /\ eof(b) <=> b.end /\ len = 0
  BY <1>2 DEF SendsFin, eof, buffer_size
<1>6. payload = IF (IF room - y <= len THEN room - y ELSE len) <= M
                THEN IF room - y <= len THEN room - y ELSE len ELSE M
  BY <1>2 DEF Lesser, M
<1>7. room > 0 => P \in Nat /\ payload \in Nat /\ payload = First(s)
  <2>1. First(s) = IF P <= M THEN P ELSE M
    BY DEF First, Lesser
  <2> HIDE DEF P, payload, len, room, y, M, w, fl
  <2> QED BY <1>2, <1>3, <1>6, <2>1
<1>8. SegmentCount(s) = IF P = 0 THEN Bit(SendsSyn(s) \/ SendsFin(s)) ELSE (P - 1) \div M + 1
  BY DEF SegmentCount, M
<1>9. ASSUME room > 0 PROVE SegmentCount(s) > 0 <=> P > 0 \/ SendsSyn(s) \/ SendsFin(s)
  <2>1. P \in Nat /\ (P > 0 => (P - 1) \div M \in Nat)
    <3> HIDE DEF P, M
    <3> QED BY <1>2, <1>7, <1>9, DivNat
  <2> HIDE DEF P
  <2> QED BY <1>8, <2>1 DEF Bit
<1>10. stop <=> ~CanFill(s)
  <2>1. CASE room <= 0
    <3> HIDE DEF payload
    <3>1. fl >= w
      BY <1>2, <2>1
    <3> QED BY <3>1, <2>1, <1>2 DEF CanFill
  <2>2. CASE room > 0
    <3>1. ~(fl + y > w) /\ ~(fl >= w)
      <4> HIDE DEF fl, w, y, room
      <4> QED BY <1>2, <2>2
    <3>2. (~eof(b) /\ y + payload = 0) <=> ~(P > 0 \/ SendsSyn(s) \/ SendsFin(s))
      <4>1. y = 0 <=> ~SendsSyn(s)
        BY DEF Bit
      <4>2. payload = 0 <=> P = 0
        <5>1. First(s) = IF P <= M THEN P ELSE M
          BY DEF First, Lesser
        <5> HIDE DEF P, payload, M
        <5> QED BY <1>2, <1>7, <2>2, <5>1
      <4>3. P = 0 /\ y = 0 => (SendsFin(s) <=> eof(b))
        <5> HIDE DEF P, len, y, room, b
        <5> QED BY <1>2, <1>3, <1>5, <2>2
      <4> HIDE DEF P, payload, y, b
      <4> QED BY <1>2, <1>7, <2>2, <4>1, <4>2, <4>3
    <3>3. CanFill(s) <=> ~s.eof /\ SegmentCount(s) > 0
      BY <2>2 DEF CanFill
    <3> HIDE DEF fl, w, y, room, payload, b
    <3> QED BY <1>9, <2>2, <3>1, <3>2, <3>3
  <2>3. room <= 0 \/ room > 0
    BY <1>2
  <2> QED BY <2>1, <2>2, <2>3
<1>11. ASSUME CanFill(s)
       PROVE  /\ payload = First(s) /\ (fin <=> FirstFin(s))
              /\ seg = SegmentAt(s, 1)
              /\ length_in_sequence_space(seg) = y + First(s) + Bit(FirstFin(s))
  <2>1. /\ room > 0 /\ payload = First(s) /\ First(s) \in Nat /\ First(s) <= len
        /\ SegmentCount(s) = 1 => First(s) = P
        /\ SegmentCount(s) # 1 => First(s) = M /\ M < P
        /\ SegmentCount(s) = 1 <=> P <= M
    BY <1>7, <1>11, FirstSizes DEF CanFill
  <2>2. stream \in ByteStreams /\ stream.end = b.end /\ Len(stream.content) = len - First(s)
    BY ZenonT(30), <1>1, <2>1, PopStream
  <2>3. eof(stream) <=> b.end /\ First(s) = len
    <3>1. stream.content \in Seq(Nat)
      BY <2>2 DEF ByteStreams
    <3>2. stream.content = <<>> <=> Len(stream.content) = 0
      BY <3>1
    <3> HIDE DEF stream, len, b
    <3> QED BY <1>2, <2>1, <2>2, <3>2 DEF eof
  <2>4. fin <=> FirstFin(s)
    <3>1. w > fl + y + payload <=> room > y + First(s)
      <4> HIDE DEF w, fl, y, room, payload
      <4> QED BY <1>2, <2>1
    <3> HIDE DEF w, fl, y, room, payload, P, len, stream, b
    <3> QED BY <1>2, <1>3, <1>5, <1>7, <2>1, <2>3, <3>1 DEF FirstFin
  <2>5. seg = SegmentAt(s, 1)
    <3>1. peek_output(b, payload) = SubSeq(q, 1, First(s))
      <4>1. Lesser(len, payload) = First(s)
        BY <1>2, <2>1 DEF Lesser
      <4> QED BY Zenon, <4>1 DEF peek_output, buffer_size
    <3>2. /\ (1 - 1) * MAX_PAYLOAD_SIZE = 0 /\ 0 + 1 = 1 /\ ~(1 > 1)
          /\ s.byte_sent + 0 + 0 = s.byte_sent /\ 0 + MAX_PAYLOAD_SIZE = MAX_PAYLOAD_SIZE
      BY <1>1, <1>2 DEF M
    <3>3. /\ Bit(SendsSyn(s) /\ 1 > 1) = 0
          /\ (SendsSyn(s) /\ 1 = 1) = SendsSyn(s)
          /\ (SendsFin(s) /\ 1 = SegmentCount(s)) = FirstFin(s)
      <4>1. Bit(SendsSyn(s) /\ 1 > 1) = 0
        BY <3>2 DEF Bit
      <4>2. SendsSyn(s) \in BOOLEAN /\ SendsFin(s) \in BOOLEAN
        BY DEF SendsSyn, SendsFin
      <4>3. (SendsFin(s) /\ 1 = SegmentCount(s)) = FirstFin(s)
        BY Zenon, <4>2 DEF FirstFin
      <4> QED BY Zenon, <4>1, <4>2, <4>3
    <3>4. Lesser(MAX_PAYLOAD_SIZE, P) = First(s)
      <4>1. First(s) = IF P <= M THEN P ELSE M
        BY DEF First, Lesser
      <4>2. P \in Nat
        BY <1>7, <2>1
      <4> HIDE DEF P
      <4> QED BY <1>2, <4>1, <4>2 DEF Lesser, M
    <3>5. SegmentAt(s, 1) =
            [BlankSegment EXCEPT !.abs = s.byte_sent, !.seqno = wrap(s.byte_sent, s.isn),
                                 !.syn = SendsSyn(s), !.fin = FirstFin(s),
                                 !.payload = SubSeq(q, 1, First(s))]
      BY Zenon, <3>2, <3>3, <3>4 DEF SegmentAt
    <3>6. fin = FirstFin(s)
      BY Zenon, <2>4 DEF FirstFin, SendsFin
    <3> QED BY Zenon, <3>1, <3>5, <3>6 DEF BlankSegment
  <2>6. length_in_sequence_space(seg) = y + First(s) + Bit(FirstFin(s))
    <3>1. seg.syn = SendsSyn(s) /\ seg.fin = fin /\ seg.payload = peek_output(b, payload)
      BY Zenon DEF BlankSegment
    <3>2. Len(peek_output(b, payload)) = First(s)
      <4>1. Lesser(len, payload) = First(s)
        BY <1>2, <2>1 DEF Lesser
      <4>2. peek_output(b, payload) = SubSeq(q, 1, First(s))
        BY Zenon, <4>1 DEF peek_output, buffer_size
      <4> HIDE DEF q
      <4> QED BY <1>1, <2>1, <4>2
    <3>3. Bit(fin) = Bit(FirstFin(s)) /\ Bit(fin) \in Nat
      BY <2>4 DEF Bit
    <3> HIDE DEF seg, fin
    <3> QED BY <1>2, <2>1, <3>1, <3>2, <3>3 DEF length_in_sequence_space
  <2> QED BY <2>1, <2>4, <2>5, <2>6
<1>12. CASE ~CanFill(s)
  BY Zenon, <1>4, <1>10, <1>12
<1>13. CASE CanFill(s)
  <2>1. fin = FirstFin(s)
    BY Zenon, <1>11, <1>13 DEF FirstFin, SendsFin
  <2>2. s.byte_sent + (y + First(s) + Bit(FirstFin(s))) = s.byte_sent + y + First(s) + Bit(FirstFin(s))
    <3>1. First(s) \in Nat /\ Bit(FirstFin(s)) \in Nat
      BY <1>13, FirstSizes DEF Bit
    <3> HIDE DEF y
    <3> QED BY <1>1, <1>2, <3>1
  <2>3. FillOnce(s) = [s EXCEPT !.segments_out = Append(@, seg), !.unacked = Append(@, seg),
                                !.stream = stream, !.eof = fin,
                                !.byte_sent = @ + length_in_sequence_space(seg),
                                !.sendtimer = IF @.active THEN @ ELSE start(rto_reset(@))]
    BY Zenon, <1>4, <1>10, <1>13
  <2>4. seg = SegmentAt(s, 1) /\ stream = pop_output(b, First(s))
        /\ s.byte_sent + length_in_sequence_space(seg)
           = s.byte_sent + y + First(s) + Bit(FirstFin(s))
    BY Zenon, <1>11, <1>13, <2>2
  <2> HIDE DEF seg, fin, stream
  <2> QED BY Zenon, <1>13, <2>1, <2>3, <2>4 DEF Once
<1> QED BY <1>12, <1>13

\* Sequences of one length with the same elements are one.
LEMMA SameSeq ==
  ASSUME NEW S, NEW x \in Seq(S), NEW z \in Seq(S), Len(x) = Len(z),
         \A i \in 1 .. Len(x) : x[i] = z[i]
  PROVE  x = z
<1>1. /\ DOMAIN x = 1 .. Len(x) /\ DOMAIN z = 1 .. Len(z)
      /\ x = [i \in DOMAIN x |-> x[i]] /\ z = [i \in DOMAIN z |-> z[i]]
  OBVIOUS
<1> QED BY ONLY Zenon, <1>1, Len(x) = Len(z), \A i \in 1 .. Len(x) : x[i] = z[i]

\* Appending the first element of h and then the others appends h.
LEMMA AppendRest ==
  ASSUME NEW S, NEW q \in Seq(S), NEW h \in Seq(S), NEW rest \in Seq(S), h # <<>>,
         Len(h) = Len(rest) + 1, \A i \in 1 .. Len(rest) : rest[i] = h[i + 1]
  PROVE  Append(q, h[1]) \o rest = q \o h
<1> DEFINE p == Append(q, h[1])
           x == p \o rest
           z == q \o h
<1>1. Len(q) \in Nat /\ Len(rest) \in Nat /\ h[1] \in S
  OBVIOUS
<1>2. /\ p \in Seq(S) /\ Len(p) = Len(q) + 1 /\ p[Len(q) + 1] = h[1]
      /\ \A i \in 1 .. Len(q) : p[i] = q[i]
  BY <1>1
<1> HIDE DEF p
<1>3. /\ x \in Seq(S) /\ Len(x) = Len(p) + Len(rest)
      /\ \A i \in 1 .. Len(p) + Len(rest) : x[i] = IF i <= Len(p) THEN p[i] ELSE rest[i - Len(p)]
  BY <1>2, ConcatAt
<1>4. /\ z \in Seq(S) /\ Len(z) = Len(q) + Len(h)
      /\ \A i \in 1 .. Len(q) + Len(h) : z[i] = IF i <= Len(q) THEN q[i] ELSE h[i - Len(q)]
  BY Zenon, ConcatAt
<1> HIDE DEF x, z
<1>5. Len(x) = Len(z)
  BY <1>1, <1>2, <1>3, <1>4
<1>6. ASSUME NEW i \in 1 .. Len(x) PROVE x[i] = z[i]
  <2>1. CASE i <= Len(q)
    <3>1. /\ i \in 1 .. Len(q) /\ i <= Len(p) /\ i \in 1 .. Len(p) + Len(rest)
          /\ i \in 1 .. Len(q) + Len(h)
      BY <1>1, <1>2, <1>3, <2>1
    <3>2. x[i] = p[i] /\ z[i] = q[i] /\ p[i] = q[i]
      BY Zenon, <1>2, <1>3, <1>4, <2>1, <3>1
    <3> QED BY <3>2
  <2>2. CASE i = Len(q) + 1
    <3>1. x[i] = p[i] /\ z[i] = h[1]
      <4>1. i - Len(q) = 1 /\ ~(i <= Len(q)) /\ i <= Len(p)
        BY <1>1, <1>2, <2>2
      <4> QED BY <1>1, <1>2, <1>3, <1>4, <1>5, <4>1
    <3> QED BY <1>2, <2>2, <3>1
  <2>3. CASE i > Len(q) + 1
    <3> DEFINE j == i - Len(p)
    <3>1. j \in 1 .. Len(rest) /\ i - Len(q) = j + 1 /\ ~(i <= Len(q)) /\ ~(i <= Len(p))
      BY <1>1, <1>2, <1>3, <2>3
    <3>2. x[i] = rest[j] /\ z[i] = h[j + 1]
      BY <1>1, <1>2, <1>3, <1>4, <1>5, <3>1
    <3> QED BY Zenon, <3>1, <3>2
  <2> QED BY <1>1, <2>1, <2>2, <2>3
<1>7. x = z
  BY Zenon, <1>3, <1>4, <1>5, <1>6, SameSeq
<1> QED BY Zenon, <1>7 DEF x, z, p

\* The fields after the first segment.
LEMMA OnceFields ==
  ASSUME NEW s \in Senders
  PROVE  LET t == Once(s)
         IN  /\ t.isn = s.isn /\ t.window_size = s.window_size
             /\ t.byte_received = s.byte_received
             /\ t.consecutive_retrans = s.consecutive_retrans
             /\ t.segments_out = Append(s.segments_out, SegmentAt(s, 1))
             /\ t.unacked = Append(s.unacked, SegmentAt(s, 1))
             /\ t.byte_sent = s.byte_sent + Bit(SendsSyn(s)) + First(s) + Bit(FirstFin(s))
             /\ t.stream = pop_output(s.stream, First(s))
             /\ t.eof = FirstFin(s)
             /\ t.sendtimer = IF s.sendtimer.active THEN s.sendtimer
                              ELSE start(rto_reset(s.sendtimer))
             /\ t = [isn |-> t.isn, segments_out |-> t.segments_out, unacked |-> t.unacked,
                     stream |-> t.stream, consecutive_retrans |-> t.consecutive_retrans,
                     sendtimer |-> t.sendtimer, window_size |-> t.window_size,
                     byte_sent |-> t.byte_sent, byte_received |-> t.byte_received,
                     eof |-> t.eof]
<1> DEFINE g == SegmentAt(s, 1)
           p == pop_output(s.stream, First(s))
           e == FirstFin(s)
           m == IF s.sendtimer.active THEN s.sendtimer ELSE start(rto_reset(s.sendtimer))
           n == s.byte_sent + Bit(SendsSyn(s)) + First(s) + Bit(FirstFin(s))
<1>1. Once(s) = [s EXCEPT !.segments_out = Append(@, g), !.unacked = Append(@, g),
                          !.stream = p, !.eof = e, !.byte_sent = n, !.sendtimer = m]
  BY DEF Once
<1> HIDE DEF g, p, e, m, n
<1> QED BY Zenon, <1>1 DEF Senders, g, p, e, m, n

\* The queues after one segment of one are those after all.
LEMMA OneSegment ==
  ASSUME NEW s, Inv(s), CanFill(s), SegmentCount(s) = 1, NEW q \in Seq(Segment)
  PROVE  Append(q, SegmentAt(s, 1)) = q \o Sends(s)
<1> DEFINE h == Sends(s)
           none == <<>>
<1>1. h \in Seq(Segment) /\ Len(h) = 1
  BY Zenon, FillRun
<1>2. h[1] = SegmentAt(s, 1)
  BY DEF Sends
<1> HIDE DEF h
<1>3. /\ none \in Seq(Segment) /\ 1 .. Len(none) = {} /\ Len(h) = Len(none) + 1
      /\ h # <<>>
  <2>1. Len(none) = 0 /\ none \in Seq(Segment) /\ 1 .. 0 = {} /\ 1 = 0 + 1 /\ 1 # 0
    OBVIOUS
  <2> QED BY Zenon, <1>1, <2>1
<1>4. Append(q, h[1]) \in Seq(Segment)
  BY <1>1
<1>5. Append(q, h[1]) \o none = Append(q, h[1])
  BY ONLY <1>4
<1>6. Append(q, h[1]) \o none = q \o h
  <2> HIDE DEF none
  <2> QED BY Zenon, <1>1, <1>3, AppendRest
<1> QED BY Zenon, <1>2, <1>5, <1>6 DEF h

\* When there is one segment to send, one call does everything.
LEMMA LastCall ==
  ASSUME NEW s, Inv(s), CanFill(s), SegmentCount(s) = 1
  PROVE  Once(s) = fill_window(s)
<1> DEFINE t == Once(s)
           u == fill_window(s)
<1>1. s \in Senders /\ s.segments_out \in Seq(Segment) /\ s.unacked \in Seq(Segment)
  BY DEF Inv, Senders
<1>2. First(s) = PayloadSize(s)
  BY Zenon, FirstSizes
<1>3. FirstFin(s) = SendsFin(s)
  BY Zenon DEF FirstFin, SendsFin
<1>4. /\ t.isn = u.isn /\ t.window_size = u.window_size /\ t.byte_received = u.byte_received
      /\ t.consecutive_retrans = u.consecutive_retrans
      /\ t.segments_out = u.segments_out /\ t.unacked = u.unacked
      /\ t.byte_sent = u.byte_sent /\ t.stream = u.stream /\ t.eof = u.eof
      /\ t.sendtimer = u.sendtimer
  <2>1. /\ Append(s.segments_out, SegmentAt(s, 1)) = s.segments_out \o Sends(s)
        /\ Append(s.unacked, SegmentAt(s, 1)) = s.unacked \o Sends(s)
    BY Zenon, <1>1, OneSegment
  <2>2. /\ t.isn = s.isn /\ t.window_size = s.window_size /\ t.byte_received = s.byte_received
        /\ t.consecutive_retrans = s.consecutive_retrans
        /\ t.segments_out = Append(s.segments_out, SegmentAt(s, 1))
        /\ t.unacked = Append(s.unacked, SegmentAt(s, 1))
        /\ t.byte_sent = s.byte_sent + Bit(SendsSyn(s)) + First(s) + Bit(FirstFin(s))
        /\ t.stream = pop_output(s.stream, First(s)) /\ t.eof = FirstFin(s)
        /\ t.sendtimer = IF s.sendtimer.active THEN s.sendtimer ELSE start(rto_reset(s.sendtimer))
    BY Zenon, <1>1, OnceFields
  <2>3. /\ u.isn = s.isn /\ u.window_size = s.window_size /\ u.byte_received = s.byte_received
        /\ u.consecutive_retrans = s.consecutive_retrans
        /\ u.segments_out = s.segments_out \o Sends(s) /\ u.unacked = s.unacked \o Sends(s)
        /\ u.byte_sent = NextSent(s)
        /\ u.stream = pop_output(s.stream, PayloadSize(s)) /\ u.eof = SendsFin(s)
        /\ u.sendtimer = IF s.sendtimer.active THEN s.sendtimer ELSE start(rto_reset(s.sendtimer))
    BY Zenon, <1>1, FillFields
  <2>4. NextSent(s) = s.byte_sent + Bit(SendsSyn(s)) + First(s) + Bit(FirstFin(s))
    BY Zenon, <1>2, <1>3 DEF NextSent
  <2> HIDE DEF t, u
  <2> QED BY ONLY Zenon, <1>2, <1>3, <2>1, <2>2, <2>3, <2>4
<1>5. /\ t = [isn |-> t.isn, segments_out |-> t.segments_out, unacked |-> t.unacked,
              stream |-> t.stream, consecutive_retrans |-> t.consecutive_retrans,
              sendtimer |-> t.sendtimer, window_size |-> t.window_size,
              byte_sent |-> t.byte_sent, byte_received |-> t.byte_received, eof |-> t.eof]
      /\ u = [isn |-> u.isn, segments_out |-> u.segments_out, unacked |-> u.unacked,
              stream |-> u.stream, consecutive_retrans |-> u.consecutive_retrans,
              sendtimer |-> u.sendtimer, window_size |-> u.window_size,
              byte_sent |-> u.byte_sent, byte_received |-> u.byte_received, eof |-> u.eof]
  BY Zenon, <1>1, OnceFields, FillFields
<1> HIDE DEF t, u
<1>6. t = u
  BY Zenon, <1>4, <1>5
<1> QED BY <1>6 DEF t, u

\* What is left to send after the first of several segments.
LEMMA RestSizes ==
  ASSUME NEW s, Inv(s), CanFill(s), SegmentCount(s) # 1
  PROVE  LET t == Once(s)
         IN  /\ CanFill(t) /\ SendsSyn(t) = FALSE /\ SendsFin(t) = SendsFin(s)
             /\ PayloadSize(t) = PayloadSize(s) - M
             /\ SegmentCount(t) = SegmentCount(s) - 1
             /\ t.byte_sent = s.byte_sent + Bit(SendsSyn(s)) + M
             /\ Room(t) = Room(s) - Bit(SendsSyn(s)) - M
             /\ t.eof = FALSE /\ t.stream = pop_output(s.stream, M)
<1> DEFINE t == Once(s)
           P == PayloadSize(s)
           k == SegmentCount(s)
           y == Bit(SendsSyn(s))
           b == s.stream
           c == t.stream
           len == Len(b.content)
           room == Room(s)
           w == Window(s)
<1>1. /\ s \in Senders /\ b \in ByteStreams /\ StreamInv(b) /\ b.content \in Seq(Nat)
      /\ s.byte_sent \in Nat /\ s.byte_received \in Nat /\ s.window_size \in Nat
  BY SenderAssumption DEF Inv, Senders, ByteStreams
<1>2. /\ M \in Nat /\ M > 0 /\ First(s) = M /\ M < P /\ M <= len
      /\ P \in Nat /\ P <= len /\ k \in Nat
  BY FirstSizes, FillSizes
<1>3. FirstFin(s) = FALSE /\ Bit(FirstFin(s)) = 0 /\ y \in {0, 1}
  BY DEF FirstFin, Bit
<1>4. /\ t.window_size = s.window_size /\ t.byte_received = s.byte_received
      /\ t.byte_sent = s.byte_sent + y + M + 0 /\ c = pop_output(b, M) /\ t.eof = FALSE
  BY Zenon, <1>1, <1>2, <1>3, OnceFields
<1>5. t.byte_sent = s.byte_sent + y + M /\ t.byte_sent > 0
  <2> HIDE DEF t, y
  <2> QED BY <1>1, <1>2, <1>3, <1>4
<1>6. c \in ByteStreams /\ c.end = b.end /\ Len(c.content) = len - M
  BY <1>1, <1>2, <1>4, PopStream
<1>7. w \in Nat /\ room = w - (s.byte_sent - s.byte_received) /\ room > 0 /\ ~s.eof
  BY <1>1, SenderAssumption DEF Room, Window, bytes_in_flight, CanFill
<1>8. Room(t) = room - y - M
  <2>1. Room(t) = w - (t.byte_sent - t.byte_received)
    BY Zenon, <1>4 DEF Room, bytes_in_flight, Window
  <2> HIDE DEF t, y, w, room
  <2>2. /\ s.byte_sent \in Nat /\ s.byte_received \in Nat /\ M \in Nat /\ y \in {0, 1} /\ w \in Nat
        /\ room = w - (s.byte_sent - s.byte_received)
        /\ Room(t) = w - ((s.byte_sent + y + M) - s.byte_received)
    BY Zenon, <1>1, <1>2, <1>3, <1>4, <1>5, <1>7, <2>1
  <2> QED BY ONLY <2>2
<1>9. SendsSyn(t) = FALSE /\ Bit(SendsSyn(t)) = 0
  <2>1. ~(t.byte_sent = 0)
    <3> HIDE DEF t
    <3> QED BY <1>1, <1>5
  <2> QED BY <2>1 DEF SendsSyn, Bit
<1>10. P = IF len <= room - y THEN len ELSE room - y
  BY DEF PayloadSize, Lesser, buffer_size
<1>11. PayloadSize(t) = P - M
  <2>1. PayloadSize(t) = IF len - M <= Room(t) - 0 THEN len - M ELSE Room(t) - 0
    BY Zenon, <1>6, <1>9 DEF PayloadSize, Lesser, buffer_size
  <2>2. len \in Nat /\ room \in Int
    BY <1>1, <1>7
  <2> HIDE DEF t, y, w, room, len, P
  <2> QED BY <1>2, <1>3, <1>8, <1>10, <2>1, <2>2
<1>12. SendsFin(t) = SendsFin(s)
  <2>1. SendsFin(t) <=> b.end /\ P - M = len - M /\ room - y - M > 0 + (P - M)
    BY Zenon, <1>6, <1>8, <1>9, <1>11 DEF SendsFin, buffer_size
  <2>2. SendsFin(s) <=> b.end /\ P = len /\ room > y + P
    BY DEF SendsFin, buffer_size
  <2>3. len \in Nat /\ room \in Int
    BY <1>1, <1>7
  <2>4. (P - M = len - M <=> P = len) /\ (room - y - M > 0 + (P - M) <=> room > y + P)
    <3> HIDE DEF y, room, len, P
    <3> QED BY <1>2, <1>3, <2>3
  <2>5. SendsFin(t) <=> SendsFin(s)
    BY Zenon, <2>1, <2>2, <2>4
  <2> QED BY Zenon, <2>5 DEF SendsFin
<1>13. SegmentCount(t) = k - 1
  <2> DEFINE a == (P - 1) \div M
             x == (P - 1) % M
  <2>1. k = a + 1
    <3> HIDE DEF P
    <3> QED BY <1>2 DEF SegmentCount, M, P
  <2>2. a \in Int /\ x \in 0 .. M - 1 /\ P - 1 = M * a + x
    <3> HIDE DEF P
    <3> QED BY <1>2, DivMod
  <2> HIDE DEF a, x
  <2>3. P - M - 1 = M * (a - 1) + x /\ a - 1 \in Int /\ P - M - 1 \in Int
    <3>1. M * (a - 1) = M * a - M /\ M * a \in Int
      BY <1>2, <2>2
    <3> HIDE DEF P
    <3> QED BY <1>2, <2>2, <3>1
  <2>4. (P - M - 1) \div M = a - 1
    <3> HIDE DEF P
    <3> QED BY <1>2, <2>2, <2>3, DivUnique
  <2>5. SegmentCount(t) = (P - M - 1) \div M + 1
    <3>1. P - M # 0
      BY <1>2
    <3> QED BY Zenon, <1>11, <3>1 DEF SegmentCount, M
  <2> HIDE DEF t, k
  <2> QED BY <1>2, <2>1, <2>2, <2>4, <2>5
<1>14. CanFill(t)
  <2>1. k - 1 > 0
    <3>1. k >= 1
      BY FillSizes
    <3> HIDE DEF k
    <3> QED BY <1>2, <3>1 DEF k
  <2>2. Room(t) > 0
    <3>1. room \in Int /\ len \in Nat
      BY <1>1, <1>7
    <3> HIDE DEF t, y, room, len, P
    <3> QED BY <1>2, <1>3, <1>8, <1>10, <3>1
  <2> QED BY Zenon, <1>4, <1>13, <2>1, <2>2 DEF CanFill
<1> QED BY Zenon, <1>4, <1>5, <1>8, <1>9, <1>11, <1>12, <1>13, <1>14

\* Reading from a stream in two goes is reading in one.
LEMMA PopTwice ==
  ASSUME NEW b \in ByteStreams, NEW m \in Nat, NEW n \in Nat, m <= n, n <= Len(b.content)
  PROVE  /\ pop_output(pop_output(b, m), n - m) = pop_output(b, n)
         /\ pop_output(b, m).content = SubSeq(b.content, m + 1, Len(b.content))
<1> DEFINE q == b.content
           len == Len(q)
           p == SubSeq(q, m + 1, len)
           x == SubSeq(p, (n - m) + 1, Len(p))
           z == SubSeq(q, n + 1, len)
           c == pop_output(b, m)
<1>1. q \in Seq(Nat) /\ b.alread \in Nat /\ len \in Nat /\ m <= len /\ n <= len
  BY DEF ByteStreams
<1>2. c = [b EXCEPT !.content = p, !.alread = @ + m]
  <2>1. Lesser(buffer_size(b), m) = m
    BY <1>1 DEF Lesser, buffer_size
  <2> QED BY <2>1 DEF pop_output
<1>3. c.content = p /\ c.alread = b.alread + m
  <2> HIDE DEF c, p
  <2> QED BY <1>2 DEF ByteStreams
<1>4. p \in Seq(Nat) /\ Len(p) = len - m /\ \A j \in 1 .. len - m : p[j] = q[m + j]
  <2> HIDE DEF q
  <2> QED BY <1>1, SubSeqAt
<1>5. z \in Seq(Nat) /\ Len(z) = len - n /\ \A j \in 1 .. len - n : z[j] = q[n + j]
  <2> HIDE DEF q
  <2> QED BY <1>1, SubSeqAt
<1> HIDE DEF p, z, q
<1>6. /\ x \in Seq(Nat) /\ Len(x) = Len(p) - (n - m)
      /\ \A j \in 1 .. Len(p) - (n - m) : x[j] = p[(n - m) + j]
  <2>1. n - m \in Nat /\ n - m <= Len(p) /\ Len(p) \in Nat
    BY <1>1, <1>4
  <2> QED BY <1>4, <2>1, SubSeqAt
<1> HIDE DEF x
<1>7. x = z
  <2>1. Len(x) = Len(z) /\ Len(x) = len - n
    BY <1>1, <1>4, <1>5, <1>6
  <2>2. ASSUME NEW j \in 1 .. Len(x) PROVE x[j] = z[j]
    <3>1. /\ (n - m) + j \in 1 .. len - m /\ m + ((n - m) + j) = n + j /\ j \in 1 .. len - n
          /\ j \in 1 .. Len(p) - (n - m)
      BY <1>1, <1>4, <2>1
    <3> QED BY Zenon, <1>4, <1>5, <1>6, <3>1
  <2> QED BY Zenon, <1>5, <1>6, <2>1, <2>2, SameSeq
<1>8. pop_output(c, n - m) = [c EXCEPT !.content = x, !.alread = @ + (n - m)]
  <2>1. Lesser(buffer_size(c), n - m) = n - m
    BY <1>1, <1>3, <1>4 DEF Lesser, buffer_size
  <2> QED BY Zenon, <1>3, <2>1 DEF pop_output, x
<1>9. pop_output(b, n) = [b EXCEPT !.content = z, !.alread = @ + n]
  <2>1. Lesser(buffer_size(b), n) = n
    BY <1>1 DEF Lesser, buffer_size, q
  <2> QED BY <2>1 DEF pop_output, z, q
<1>10. (b.alread + m) + (n - m) = b.alread + n
  BY <1>1
<1>11. pop_output(c, n - m) = pop_output(b, n)
  <2> HIDE DEF c
  <2> QED BY Zenon, <1>2, <1>3, <1>7, <1>8, <1>9, <1>10 DEF ByteStreams
<1> QED BY <1>3, <1>11 DEF p, q

\* The segments that are left are the ones after the first.
LEMMA RestSegments ==
  ASSUME NEW s, Inv(s), CanFill(s), SegmentCount(s) # 1,
         NEW i \in 1 .. SegmentCount(s) - 1
  PROVE  SegmentAt(Once(s), i) = SegmentAt(s, i + 1)
<1> DEFINE t == Once(s)
           P == PayloadSize(s)
           k == SegmentCount(s)
           y == Bit(SendsSyn(s))
           q == s.stream.content
           p == t.stream.content
           before == (i - 1) * M
           last == IF before + M <= P - M THEN before + M ELSE P - M
           after == i * M
           end == IF after + M <= P THEN after + M ELSE P
<1>1. /\ s \in Senders /\ s.stream \in ByteStreams /\ q \in Seq(Nat) /\ s.byte_sent \in Nat
  BY DEF Inv, Senders, ByteStreams
<1>2. /\ SendsSyn(t) = FALSE /\ SendsFin(t) = SendsFin(s) /\ PayloadSize(t) = P - M
      /\ SegmentCount(t) = k - 1 /\ t.byte_sent = s.byte_sent + y + M
      /\ t.stream = pop_output(s.stream, M)
  BY Zenon, RestSizes
<1>3. /\ M \in Nat /\ M > 0 /\ M < P /\ P \in Nat /\ P <= Len(q) /\ k \in Nat
      /\ (k - 1) * M <= P /\ (P > 0 => (k - 1) * M < P)
  BY FirstSizes, FillSizes
<1>4. Len(q) \in Nat /\ y \in {0, 1} /\ i \in Nat /\ i >= 1 /\ i <= k - 1
  BY <1>1, <1>3 DEF Bit
<1>5. t.isn = s.isn
  BY Zenon, <1>1, OnceFields
<1>6. p = SubSeq(q, M + 1, Len(q))
  <2>1. M \in Nat /\ M <= M /\ M <= Len(q)
    BY <1>3, <1>4
  <2> QED BY Zenon, <1>1, <1>2, <2>1, PopTwice
<1>7. /\ after \in Nat /\ before \in Nat /\ before = after - M /\ after < P
      /\ ((i + 1) - 1) * M = after
  <2>1. after \in Nat /\ before \in Nat /\ before = after - M
    <3>1. (i - 1) * M = i * M - M /\ i - 1 \in Nat
      BY <1>3, <1>4
    <3> QED BY <1>3, <1>4, <3>1
  <2>2. after <= (k - 1) * M /\ (k - 1) * M \in Nat
    <3>1. k - 1 \in Nat
      BY <1>3, <1>4
    <3> QED BY Zenon, <1>3, <1>4, <3>1, MulMono
  <2>3. (i + 1) - 1 = i
    BY <1>4
  <2> HIDE DEF after, before
  <2> QED BY <1>3, <2>1, <2>2, <2>3 DEF after
<1> HIDE DEF t, P, k, y, q, p, before, after
<1>8. SubSeq(p, before + 1, last) = SubSeq(q, after + 1, end)
  <2> DEFINE x == SubSeq(p, before + 1, last)
             z == SubSeq(q, after + 1, end)
  <2>1. p \in Seq(Nat) /\ Len(p) = Len(q) - M /\ \A j \in 1 .. Len(q) - M : p[j] = q[M + j]
    BY <1>1, <1>3, <1>4, <1>6, SubSeqAt
  <2>2. /\ last \in Nat /\ end \in Nat /\ last = end - M /\ before <= last /\ last <= Len(p)
        /\ after <= end /\ end <= Len(q)
    BY <1>3, <1>4, <1>7, <2>1
  <2> HIDE DEF last, end
  <2>3. x \in Seq(Nat) /\ Len(x) = last - before /\ \A j \in 1 .. last - before : x[j] = p[before + j]
    <3>1. p \in Seq(Nat) /\ before \in Nat /\ last \in Nat /\ before <= last /\ last <= Len(p)
      BY Zenon, <1>7, <2>1, <2>2
    <3> QED BY Zenon, <3>1, SubSeqAt
  <2>4. z \in Seq(Nat) /\ Len(z) = end - after /\ \A j \in 1 .. end - after : z[j] = q[after + j]
    <3>1. q \in Seq(Nat) /\ after \in Nat /\ end \in Nat /\ after <= end /\ end <= Len(q)
      BY Zenon, <1>1, <1>7, <2>2
    <3> QED BY ZenonT(30), <3>1, SubSeqAt
  <2> HIDE DEF x, z
  <2>5. Len(x) = Len(z) /\ Len(x) = last - before /\ Len(x) = end - after
    BY <1>3, <1>7, <2>2, <2>3, <2>4
  <2>6. ASSUME NEW j \in 1 .. Len(x) PROVE x[j] = z[j]
    <3>1. /\ before + j \in 1 .. Len(q) - M /\ M + (before + j) = after + j
      BY <1>3, <1>4, <1>7, <2>1, <2>2, <2>5
    <3>2. x[j] = p[before + j] /\ z[j] = q[after + j]
      BY Zenon, <2>3, <2>4, <2>5, <2>6
    <3> QED BY Zenon, <2>1, <3>1, <3>2
  <2>7. x = z
    BY Zenon, <2>3, <2>4, <2>5, <2>6, SameSeq
  <2> QED BY Zenon, <2>7 DEF x, z
<1>9. SegmentAt(t, i) = [BlankSegment EXCEPT
          !.abs = s.byte_sent + y + M + before + 0, !.seqno = wrap(s.byte_sent + y + M + before + 0, s.isn),
          !.syn = FALSE, !.fin = SendsFin(s) /\ i = k - 1, !.payload = SubSeq(p, before + 1, last)]
  <2>1. (SendsSyn(t) /\ i = 1) = FALSE /\ Bit(SendsSyn(t) /\ i > 1) = 0
    BY <1>2 DEF Bit
  <2> QED BY Zenon, <1>2, <1>5, <2>1 DEF SegmentAt, Lesser, M, before, p
<1>10. SegmentAt(s, i + 1) = [BlankSegment EXCEPT
          !.abs = s.byte_sent + after + y, !.seqno = wrap(s.byte_sent + after + y, s.isn),
          !.syn = FALSE, !.fin = SendsFin(s) /\ i + 1 = k, !.payload = SubSeq(q, after + 1, end)]
  <2>1. /\ (SendsSyn(s) /\ i + 1 = 1) = FALSE
        /\ Bit(SendsSyn(s) /\ i + 1 > 1) = y
    <3>1. i + 1 > 1 /\ ~(i + 1 = 1)
      BY <1>4
    <3> QED BY <3>1 DEF Bit, y
  <2> QED BY Zenon, <1>7, <2>1 DEF SegmentAt, Lesser, M, P, k, q
<1>11. s.byte_sent + y + M + before + 0 = s.byte_sent + after + y
  BY <1>1, <1>3, <1>4, <1>7
<1>12. (SendsFin(s) /\ i = k - 1) = (SendsFin(s) /\ i + 1 = k)
  <2>1. i = k - 1 <=> i + 1 = k
    BY <1>3, <1>4
  <2> QED BY <2>1
<1> QED BY Zenon, <1>8, <1>9, <1>10, <1>11, <1>12 DEF t

\* The first segment is what a smaller window would allow, so the sender stays good.
LEMMA OnceInv ==
  ASSUME NEW s, Inv(s), CanFill(s), SegmentCount(s) # 1
  PROVE  Inv(Once(s))
<1> DEFINE y == Bit(SendsSyn(s))
           fl == bytes_in_flight(s)
           win == fl + y + M
           u == [s EXCEPT !.window_size = win]
           P == PayloadSize(s)
           len == Len(s.stream.content)
<1>1. /\ s \in Senders /\ s.byte_sent \in Nat /\ s.byte_received \in Nat
      /\ s.window_size \in 0 .. MaxWindow /\ MaxWindow \in Nat /\ MaxWindow > 0
      /\ s.byte_received <= s.byte_sent
  BY SenderAssumption DEF Inv, Senders, CountInv
<1>2. /\ M \in Nat /\ M > 0 /\ First(s) = M /\ M < P /\ P \in Nat /\ P <= len
      /\ y + P + Bit(SendsFin(s)) <= Room(s)
  BY FirstSizes, FillSizes
<1>3. y \in {0, 1} /\ Bit(SendsFin(s)) \in Nat /\ fl \in Nat
  BY <1>1 DEF Bit, bytes_in_flight
<1>4. Room(s) = Window(s) - fl /\ Window(s) \in Nat /\ Window(s) <= MaxWindow
  BY <1>1 DEF Room, Window
<1>5. win \in 0 .. MaxWindow /\ win > 0
  <2> HIDE DEF fl, y, P
  <2> QED BY <1>1, <1>2, <1>3, <1>4
<1>6. Inv(u)
  <2> HIDE DEF win
  <2> QED BY Zenon, <1>5, WindowInv
<1> HIDE DEF win
<1>7. /\ u.isn = s.isn /\ u.segments_out = s.segments_out /\ u.unacked = s.unacked
      /\ u.stream = s.stream /\ u.sendtimer = s.sendtimer /\ u.byte_sent = s.byte_sent
      /\ u.byte_received = s.byte_received /\ u.eof = s.eof /\ u.window_size = win
      /\ u \in Senders
  <2>1. u \in Senders
    BY Zenon, <1>6 DEF Inv
  <2> QED BY Zenon, <1>1, <2>1 DEF Senders
<1> HIDE DEF u
<1>8. /\ SendsSyn(u) = SendsSyn(s) /\ Room(u) = y + M
      /\ PayloadSize(u) = M /\ SendsFin(u) = FALSE
  <2>1. SendsSyn(u) = SendsSyn(s)
    BY Zenon, <1>7 DEF SendsSyn
  <2>2. Room(u) = y + M
    <3>1. Room(u) = win - fl
      BY <1>5, <1>7 DEF Room, Window, bytes_in_flight
    <3> HIDE DEF fl, y
    <3> QED BY <1>2, <1>3, <3>1 DEF win
  <2>3. PayloadSize(u) = Lesser(len, (y + M) - y)
    <3>1. buffer_size(u.stream) = len /\ Bit(SendsSyn(u)) = y
      BY Zenon, <1>7, <2>1 DEF buffer_size
    <3> HIDE DEF len, y
    <3> QED BY Zenon, <2>2, <3>1 DEF PayloadSize
  <2>4. len \in Nat
    BY <1>1 DEF Senders, ByteStreams
  <2>5. PayloadSize(u) = M /\ M # len
    <3> HIDE DEF len, y, P
    <3> QED BY <1>2, <1>3, <2>3, <2>4 DEF Lesser
  <2>6. ~SendsFin(u)
    BY Zenon, <1>7, <2>5 DEF SendsFin, buffer_size
  <2> QED BY Zenon, <2>1, <2>2, <2>5, <2>6 DEF SendsFin
<1>9. SegmentCount(u) = 1
  <2>1. (M - 1) \div M = 0
    <3>1. M - 1 \in Int /\ M - 1 = M * 0 + (M - 1) /\ M - 1 \in 0 .. M - 1 /\ 0 \in Int
      BY <1>2
    <3> QED BY <1>2, <3>1, DivUnique
  <2>2. SegmentCount(u) = (M - 1) \div M + 1
    BY <1>2, <1>8 DEF SegmentCount, M
  <2> QED BY <2>1, <2>2
<1>10. CanFill(u)
  <2>1. y + M > 0 /\ 1 > 0
    BY <1>2, <1>3
  <2> QED BY Zenon, <1>7, <1>8, <1>9, <2>1 DEF CanFill
<1>11. Inv(Once(u))
  BY Zenon, <1>6, <1>9, <1>10, LastCall, FillInv
<1> DEFINE v == [Once(u) EXCEPT !.window_size = s.window_size]
<1>12. Inv(v)
  BY Zenon, <1>1, <1>11, WindowInv
<1>13. v = Once(s)
  <2>1. First(u) = First(s)
    <3>1. First(u) = M
      BY Zenon, <1>2, <1>6, <1>8, <1>9, <1>10, FirstSizes
    <3> QED BY <1>2, <3>1
  <2>2. FirstFin(u) = FALSE /\ FirstFin(s) = FALSE
    BY Zenon, <1>8 DEF FirstFin
  <2>3. SegmentAt(u, 1) = SegmentAt(s, 1)
    <3>1. (1 - 1) * MAX_PAYLOAD_SIZE + MAX_PAYLOAD_SIZE = M
      BY <1>2 DEF M
    <3>2. Lesser(M, PayloadSize(u)) = M /\ Lesser(M, P) = M
      <4> HIDE DEF P
      <4> QED BY <1>2, <1>8 DEF Lesser
    <3>3. /\ (SendsFin(u) /\ 1 = SegmentCount(u)) = FALSE
          /\ (SendsFin(s) /\ 1 = SegmentCount(s)) = FALSE
      BY Zenon, <1>8
    <3> QED BY Zenon, <1>7, <1>8, <3>1, <3>2, <3>3 DEF SegmentAt
  <2>4. /\ Once(u).isn = Once(s).isn
        /\ Once(u).byte_received = Once(s).byte_received
        /\ Once(u).consecutive_retrans = Once(s).consecutive_retrans
        /\ Once(u).segments_out = Once(s).segments_out /\ Once(u).unacked = Once(s).unacked
        /\ Once(u).byte_sent = Once(s).byte_sent /\ Once(u).stream = Once(s).stream
        /\ Once(u).eof = Once(s).eof /\ Once(u).sendtimer = Once(s).sendtimer
        /\ Once(s).window_size = s.window_size
    <3>1. u.consecutive_retrans = s.consecutive_retrans
      BY Zenon, <1>1 DEF Senders, u
    <3> DEFINE F(t, o) ==
          /\ o.isn = t.isn /\ o.window_size = t.window_size
          /\ o.byte_received = t.byte_received
          /\ o.consecutive_retrans = t.consecutive_retrans
          /\ o.segments_out = Append(t.segments_out, SegmentAt(t, 1))
          /\ o.unacked = Append(t.unacked, SegmentAt(t, 1))
          /\ o.byte_sent = t.byte_sent + Bit(SendsSyn(t)) + First(t) + Bit(FirstFin(t))
          /\ o.stream = pop_output(t.stream, First(t))
          /\ o.eof = FirstFin(t)
          /\ o.sendtimer = IF t.sendtimer.active THEN t.sendtimer
                           ELSE start(rto_reset(t.sendtimer))
    <3>2. F(s, Once(s)) /\ F(u, Once(u))
      BY Zenon, <1>1, <1>7, OnceFields
    <3> QED BY ONLY Zenon, <1>7, <1>8, <2>1, <2>2, <2>3, <3>1, <3>2
  <2>5. /\ Once(u) = [isn |-> Once(u).isn, segments_out |-> Once(u).segments_out,
              unacked |-> Once(u).unacked, stream |-> Once(u).stream,
              consecutive_retrans |-> Once(u).consecutive_retrans,
              sendtimer |-> Once(u).sendtimer, window_size |-> Once(u).window_size,
              byte_sent |-> Once(u).byte_sent, byte_received |-> Once(u).byte_received,
              eof |-> Once(u).eof]
        /\ Once(s) = [isn |-> Once(s).isn, segments_out |-> Once(s).segments_out,
              unacked |-> Once(s).unacked, stream |-> Once(s).stream,
              consecutive_retrans |-> Once(s).consecutive_retrans,
              sendtimer |-> Once(s).sendtimer, window_size |-> Once(s).window_size,
              byte_sent |-> Once(s).byte_sent, byte_received |-> Once(s).byte_received,
              eof |-> Once(s).eof]
    BY Zenon, <1>1, <1>7, OnceFields
  <2> QED BY ONLY Zenon, <2>4, <2>5 DEF v
<1> QED BY Zenon, <1>12, <1>13

\* The calls that follow the first send what is left.
LEMMA NotLastCall ==
  ASSUME NEW s, Inv(s), CanFill(s), SegmentCount(s) # 1
  PROVE  fill_window(Once(s)) = fill_window(s)
<1> DEFINE t == Once(s)
           u == fill_window(t)
           v == fill_window(s)
           h == Sends(s)
           rest == Sends(t)
           y == Bit(SendsSyn(s))
           P == PayloadSize(s)
           f == Bit(SendsFin(s))
<1>1. /\ s \in Senders /\ s.segments_out \in Seq(Segment) /\ s.unacked \in Seq(Segment)
      /\ s.stream \in ByteStreams /\ s.byte_sent \in Nat /\ s.sendtimer \in Timers
  BY DEF Inv, Senders
<1>2. Inv(t) /\ t \in Senders
  BY Zenon, OnceInv DEF Inv
<1>3. /\ CanFill(t) /\ SendsSyn(t) = FALSE /\ SendsFin(t) = SendsFin(s)
      /\ PayloadSize(t) = P - M /\ SegmentCount(t) = SegmentCount(s) - 1
      /\ t.byte_sent = s.byte_sent + y + M /\ t.stream = pop_output(s.stream, M)
  BY Zenon, RestSizes
<1>4. /\ M \in Nat /\ M < P /\ P \in Nat /\ P <= Len(s.stream.content) /\ First(s) = M
  BY FirstSizes, FillSizes
<1>5. /\ h \in Seq(Segment) /\ Len(h) = SegmentCount(s) /\ SegmentCount(s) \in Nat
      /\ rest \in Seq(Segment) /\ Len(rest) = SegmentCount(s) - 1
  <2>1. h \in Seq(Segment) /\ Len(h) = SegmentCount(s)
    BY Zenon, FillRun
  <2>2. rest \in Seq(Segment) /\ Len(rest) = SegmentCount(s) - 1
    <3> HIDE DEF t
    <3> QED BY Zenon, <1>2, <1>3, FillRun
  <2> QED BY <2>1, <2>2, FillSizes
<1>6. SegmentCount(s) > 1
  <2>1. SegmentCount(s) > 0
    BY Zenon DEF CanFill
  <2> QED BY <1>5, <2>1
<1>7. h[1] = SegmentAt(s, 1)
  BY <1>5, <1>6 DEF Sends
<1>8. ASSUME NEW i \in 1 .. Len(rest) PROVE rest[i] = h[i + 1]
  <2>1. /\ i \in 1 .. SegmentCount(t) /\ i \in 1 .. SegmentCount(s) - 1
        /\ i + 1 \in 1 .. SegmentCount(s)
    BY <1>3, <1>5, <1>8
  <2>2. rest[i] = SegmentAt(t, i) /\ h[i + 1] = SegmentAt(s, i + 1)
    <3> HIDE DEF t
    <3> QED BY <2>1 DEF Sends
  <2> QED BY ZenonT(30), <2>1, <2>2, RestSegments
<1>9. ASSUME NEW q \in Seq(Segment) PROVE Append(q, SegmentAt(s, 1)) \o rest = q \o h
  <2>1. Len(h) = Len(rest) + 1 /\ h # <<>>
    <3> HIDE DEF h, rest
    <3> QED BY <1>5, <1>6
  <2> HIDE DEF h, rest
  <2> QED BY Zenon, <1>5, <1>7, <1>8, <2>1, AppendRest
<1> DEFINE F(x, o) ==
      /\ o.isn = x.isn /\ o.window_size = x.window_size
      /\ o.byte_received = x.byte_received
      /\ o.consecutive_retrans = x.consecutive_retrans
      /\ o.segments_out = x.segments_out \o Sends(x)
      /\ o.unacked = x.unacked \o Sends(x)
      /\ o.byte_sent = NextSent(x)
      /\ o.stream = pop_output(x.stream, PayloadSize(x))
      /\ o.eof = SendsFin(x)
      /\ o.sendtimer = IF x.sendtimer.active THEN x.sendtimer
                       ELSE start(rto_reset(x.sendtimer))
      /\ o = [isn |-> o.isn, segments_out |-> o.segments_out, unacked |-> o.unacked,
              stream |-> o.stream, consecutive_retrans |-> o.consecutive_retrans,
              sendtimer |-> o.sendtimer, window_size |-> o.window_size,
              byte_sent |-> o.byte_sent, byte_received |-> o.byte_received, eof |-> o.eof]
<1>10. F(s, v)
  BY Zenon, <1>1, FillFields
<1>11. F(t, u)
  <2> HIDE DEF t
  <2> QED BY Zenon, <1>2, <1>3, FillFields
<1>12. /\ t.isn = s.isn /\ t.window_size = s.window_size
       /\ t.byte_received = s.byte_received
       /\ t.consecutive_retrans = s.consecutive_retrans
       /\ t.segments_out = Append(s.segments_out, SegmentAt(s, 1))
       /\ t.unacked = Append(s.unacked, SegmentAt(s, 1))
       /\ t.sendtimer = IF s.sendtimer.active THEN s.sendtimer
                        ELSE start(rto_reset(s.sendtimer))
  BY Zenon, <1>1, OnceFields
<1>13. t.sendtimer.active
  <2>1. start(rto_reset(s.sendtimer)).active
    BY <1>1 DEF start, rto_reset, Timers
  <2> HIDE DEF t
  <2> QED BY Zenon, <1>12, <2>1
<1>14. NextSent(t) = NextSent(s)
  <2>1. NextSent(t) = (s.byte_sent + y + M) + 0 + (P - M) + f
    <3>1. Bit(SendsSyn(t)) = 0 /\ Bit(SendsFin(t)) = f
      BY Zenon, <1>3 DEF Bit
    <3> HIDE DEF t, y, P, f
    <3> QED BY Zenon, <1>3, <3>1 DEF NextSent
  <2>2. NextSent(s) = s.byte_sent + y + P + f
    BY Zenon DEF NextSent
  <2>3. y \in Nat /\ f \in Nat
    BY DEF Bit
  <2> HIDE DEF t, y, P, f
  <2>4. s.byte_sent \in Nat /\ M \in Nat /\ P \in Nat
    BY Zenon, <1>1, <1>4
  <2> QED BY ONLY <2>1, <2>2, <2>3, <2>4
<1>15. pop_output(t.stream, PayloadSize(t)) = pop_output(s.stream, P)
  <2>1. M <= P
    <3> HIDE DEF P
    <3> QED BY <1>4
  <2> HIDE DEF t, P
  <2>2. pop_output(pop_output(s.stream, M), P - M) = pop_output(s.stream, P)
    BY Zenon, <1>1, <1>4, <2>1, PopTwice
  <2> QED BY Zenon, <1>3, <2>2
<1>16. t.segments_out \o rest = s.segments_out \o h /\ t.unacked \o rest = s.unacked \o h
  <2> HIDE DEF t, h, rest
  <2> QED BY Zenon, <1>1, <1>9, <1>12
<1> HIDE DEF t, u, v
<1>17. /\ u.isn = v.isn /\ u.window_size = v.window_size /\ u.byte_received = v.byte_received
       /\ u.consecutive_retrans = v.consecutive_retrans
       /\ u.segments_out = v.segments_out /\ u.unacked = v.unacked
       /\ u.byte_sent = v.byte_sent /\ u.stream = v.stream /\ u.eof = v.eof
       /\ u.sendtimer = v.sendtimer
  BY ONLY ZenonT(30), <1>3, <1>10, <1>11, <1>12, <1>13, <1>14, <1>15, <1>16
<1>18. u = v
  BY ONLY Zenon, <1>10, <1>11, <1>17
<1> QED BY Zenon, <1>18 DEF t, u, v

\* A call keeps the sender good and what the calls amount to, and either has nothing to
\* do or leaves less room in the window.
LEMMA FillUnfold ==
  ASSUME NEW s, Inv(s)
  PROVE  LET t == FillOnce(s)
         IN  /\ Inv(t) /\ fill_window(t) = fill_window(s)
             /\ ~CanFill(s) => t = s
             /\ CanFill(s) => ~CanFill(t) \/ Room(t) < Room(s)
<1> DEFINE t == FillOnce(s)
<1>1. t = IF CanFill(s) THEN Once(s) ELSE s
  BY Zenon, OnceIs
<1> HIDE DEF t
<1>2. CASE ~CanFill(s)
  BY Zenon, <1>1, <1>2 DEF t
<1>3. CASE CanFill(s) /\ SegmentCount(s) = 1
  <2>1. t = fill_window(s)
    BY Zenon, <1>1, <1>3, LastCall
  <2>2. Inv(t) /\ Filled(t)
    BY Zenon, <2>1, FillInv, FillFills
  <2>3. ~CanFill(t)
    <3>1. CASE Room(t) <= 0
      <4>1. Room(t) \in Int
        BY <2>2, SenderAssumption DEF Inv, Senders, Room, Window, bytes_in_flight
      <4> QED BY <3>1, <4>1 DEF CanFill
    <3>2. CASE t.eof
      BY Zenon, <3>2 DEF CanFill
    <3>3. CASE t.byte_sent > 0 /\ t.stream.content = <<>> /\ ~t.stream.end
      <4>1. /\ t.byte_sent \in Nat /\ Len(t.stream.content) = 0
            /\ Room(t) \in Int
        BY <2>2, <3>3, SenderAssumption DEF Inv, Senders, Room, Window, bytes_in_flight
      <4>2. ~SendsSyn(t) /\ ~SendsFin(t)
        BY <3>3, <4>1 DEF SendsSyn, SendsFin
      <4>3. CASE Room(t) > 0
        <5>1. PayloadSize(t) = 0
          BY <4>1, <4>2, <4>3 DEF PayloadSize, Lesser, buffer_size, Bit
        <5>2. SegmentCount(t) = 0
          BY <4>2, <5>1 DEF SegmentCount, Bit
        <5> QED BY <5>2 DEF CanFill
      <4>4. CASE ~(Room(t) > 0)
        BY Zenon, <4>4 DEF CanFill
      <4> QED BY <4>3, <4>4
    <3> QED BY Zenon, <2>2, <3>1, <3>2, <3>3 DEF Filled
  <2>4. fill_window(t) = t
    BY Zenon, <2>3 DEF fill_window
  <2> QED BY Zenon, <1>3, <2>1, <2>2, <2>3, <2>4 DEF t
<1>4. CASE CanFill(s) /\ SegmentCount(s) # 1
  <2>1. t = Once(s)
    BY Zenon, <1>1, <1>4
  <2>2. Inv(t) /\ fill_window(t) = fill_window(s)
    BY Zenon, <1>4, <2>1, OnceInv, NotLastCall
  <2>3. Room(t) = Room(s) - Bit(SendsSyn(s)) - M
    BY Zenon, <1>4, <2>1, RestSizes
  <2>4. M \in Nat /\ M > 0 /\ Bit(SendsSyn(s)) \in Nat
    BY <1>4, FirstSizes DEF Bit
  <2>5. Room(s) \in Int
    BY SenderAssumption DEF Inv, Senders, Room, Window, bytes_in_flight
  <2>6. Room(t) < Room(s)
    BY <2>3, <2>4, <2>5
  <2> QED BY Zenon, <1>4, <2>2, <2>6 DEF t
<1> QED BY Zenon, <1>2, <1>3, <1>4

\* After k calls: the sender is good, the rest of the calls amount to what all of them do,
\* and there is nothing left to do unless the room is no more than the window less k.
AfterCalls(s, k, x) ==
    /\ Inv(x) /\ fill_window(x) = fill_window(s)
    /\ ~CanFill(x) \/ Room(x) <= Window(s) - k

\* One more call.
LEMMA OneMoreCall ==
  ASSUME NEW s, Inv(s), NEW k \in Nat, NEW x, AfterCalls(s, k, x)
  PROVE  AfterCalls(s, k + 1, FillOnce(x))
<1> DEFINE z == FillOnce(x)
<1>1. /\ Inv(x) /\ fill_window(x) = fill_window(s)
      /\ ~CanFill(x) \/ Room(x) <= Window(s) - k
  BY Zenon DEF AfterCalls
<1>2. /\ Inv(z) /\ fill_window(z) = fill_window(s)
      /\ ~CanFill(x) => z = x
      /\ CanFill(x) => ~CanFill(z) \/ Room(z) < Room(x)
  BY Zenon, <1>1, FillUnfold
<1> HIDE DEF z
<1>3. ~CanFill(z) \/ Room(z) <= Window(s) - (k + 1)
  <2>1. Room(x) \in Int /\ Room(z) \in Int /\ Window(s) \in Int
    <3>1. x \in Senders /\ z \in Senders /\ s \in Senders
      BY Zenon, <1>1, <1>2 DEF Inv
    <3>2. \A e \in Senders : Room(e) \in Int /\ Window(e) \in Int
      BY SenderAssumption DEF Senders, Room, Window, bytes_in_flight
    <3> QED BY Zenon, <3>1, <3>2
  <2>2. CASE CanFill(x) /\ Room(z) < Room(x)
    BY <1>1, <2>1, <2>2
  <2> QED BY Zenon, <1>2, <2>2
<1> QED BY Zenon, <1>2, <1>3 DEF AfterCalls, z

\* fill_window's recursion, called until it returns at once, is the closed form.
LEMMA FillLoopIs ==
  ASSUME NEW s, Inv(s)
  PROVE  fill_window(s) = FillLoop(s)
<1> DEFINE N == Window(s)
           V == {x \in Senders : Inv(x)}
           h == [z \in V \X (1 .. N) |-> FillOnce(z[1])]
           F == CHOOSE f : f = [k \in 0 .. N |-> IF k = 0 THEN s ELSE FillOnce(f[k - 1])]
<1>1. /\ s \in Senders /\ N \in Nat
  BY SenderAssumption DEF Inv, Senders, Window
<1>2. FillLoop(s) = F[N]
  BY DEF FillLoop
<1>3. s \in V /\ h \in [V \X (1 .. N) -> V]
  <2>1. ASSUME NEW x \in V PROVE FillOnce(x) \in V
    <3>1. Inv(FillOnce(x))
      BY Zenon, <2>1, FillUnfold
    <3>2. FillOnce(x) \in Senders
      BY Zenon, <3>1 DEF Inv
    <3> QED BY Zenon, <3>1, <3>2
  <2>2. s \in V
    BY Zenon, <1>1
  <2>3. ASSUME NEW z \in V \X (1 .. N) PROVE FillOnce(z[1]) \in V
    <3>1. z[1] \in V
      BY Zenon
    <3> QED BY Zenon, <2>1, <3>1
  <2> HIDE DEF V
  <2> QED BY Zenon, <2>2, <2>3
<1> HIDE DEF V
<1>4. PICK g : Recursion(g, N, V, s, h)
  <2> HIDE DEF N, h
  <2> QED BY Zenon, <1>1, <1>3, RecurseUpTo
<1>5. g \in [0 .. N -> V] /\ g[0] = s /\ \A k \in 1 .. N : g[k] = h[<<g[k - 1], k>>]
  BY Zenon, <1>4 DEF Recursion
<1>6. ASSUME NEW k \in 1 .. N PROVE g[k] = FillOnce(g[k - 1])
  <2>1. k - 1 \in 0 .. N
    <3> HIDE DEF N
    <3> QED BY <1>1
  <2>2. <<g[k - 1], k>> \in V \X (1 .. N)
    BY Zenon, <1>5, <1>6, <2>1
  <2>3. h[<<g[k - 1], k>>] = FillOnce(<<g[k - 1], k>>[1])
    BY Zenon, <2>2
  <2> QED BY Zenon, <1>5, <1>6, <2>3
<1>7. g = [k \in 0 .. N |-> IF k = 0 THEN s ELSE FillOnce(g[k - 1])]
  <2>1. \A k \in 0 .. N : k # 0 => k \in 1 .. N
    <3> HIDE DEF N
    <3> QED BY <1>1
  <2>2. \A k \in 0 .. N : g[k] = IF k = 0 THEN s ELSE FillOnce(g[k - 1])
    BY Zenon, <1>5, <1>6, <2>1
  <2>3. g = [k \in 0 .. N |-> g[k]]
    BY Zenon, <1>5
  <2> QED BY Zenon, <2>2, <2>3
<1>8. F = [k \in 0 .. N |-> IF k = 0 THEN s ELSE FillOnce(F[k - 1])]
  BY Zenon, <1>7
<1> HIDE DEF F
<1> DEFINE S == {k \in 0 .. N : AfterCalls(s, k, F[k])}
<1>9. 0 \in S
  <2>1. 0 \in 0 .. N
    <3> HIDE DEF N
    <3> QED BY <1>1
  <2>2. F[0] = s
    BY Zenon, <1>8, <2>1
  <2>3. Room(s) <= Window(s) - 0
    BY <1>1, SenderAssumption DEF Inv, Senders, CountInv, Room, Window, bytes_in_flight
  <2>4. AfterCalls(s, 0, s)
    BY Zenon, <2>3 DEF AfterCalls
  <2> QED BY Zenon, <2>1, <2>2, <2>4
<1>10. ASSUME NEW k \in 0 .. N - 1, k \in S PROVE k + 1 \in S
  <2>1. k + 1 \in 0 .. N /\ (k + 1) - 1 = k /\ k + 1 # 0 /\ k \in Nat
    <3> HIDE DEF N
    <3> QED BY <1>1
  <2>2. F[k + 1] = FillOnce(F[k])
    BY Zenon, <1>8, <2>1
  <2>3. AfterCalls(s, k + 1, FillOnce(F[k]))
    BY Zenon, <1>10, <2>1, OneMoreCall
  <2> QED BY Zenon, <2>1, <2>2, <2>3
<1>11. 0 .. N \subseteq S
  <2> HIDE DEF S, N
  <2> QED BY Zenon, <1>1, <1>9, <1>10, InductUpTo
<1>12. N \in 0 .. N
  <2> HIDE DEF N
  <2> QED BY <1>1
<1>13. AfterCalls(s, N, F[N])
  BY Zenon, <1>11, <1>12
<1> DEFINE x == F[N]
<1>14. Inv(x) /\ fill_window(x) = fill_window(s) /\ (~CanFill(x) \/ Room(x) <= N - N)
  BY Zenon, <1>13 DEF AfterCalls
<1>15. ~CanFill(x)
  <2>1. Room(x) \in Int
    <3> HIDE DEF x
    <3> QED BY <1>14, SenderAssumption DEF Inv, Senders, Room, Window, bytes_in_flight
  <2> HIDE DEF x, N
  <2> QED BY <1>1, <1>14, <2>1 DEF CanFill
<1>16. fill_window(x) = x
  BY Zenon, <1>15 DEF fill_window
<1> QED BY Zenon, <1>2, <1>14, <1>16

\* From every state the sender reaches, whatever is written first, whether or not the stream
\* is ended and whatever the window, the closed form of fill_window is what the code's
\* recursion computes: for every payload limit, window and capacity.
THEOREM ClosedFormCorrect == Spec => []ClosedFormIsTheLoop
<1>1. Inv(sender) => ClosedFormIsTheLoop
  <2> SUFFICES ASSUME Inv(sender), NEW win \in 0 .. MaxWindow, NEW end \in BOOLEAN,
                      NEW n \in 0 .. IF sender.stream.end THEN 0
                                     ELSE MaxStream - sender.stream.alwritten
               PROVE  LET b == write(sender.stream, NextBytes(sender.stream, n))
                          s == [sender EXCEPT !.window_size = win,
                                              !.stream = IF end THEN end_input(b) ELSE b]
                      IN  fill_window(s) = FillLoop(s)
    BY Zenon DEF ClosedFormIsTheLoop
  <2> DEFINE a == sender.stream
             b == write(a, NextBytes(a, n))
             c == IF end THEN end_input(b) ELSE b
             v == [sender EXCEPT !.window_size = win]
             s == [v EXCEPT !.stream = c]
  <2>1. n \in Nat /\ (a.end => n = 0)
    BY SenderSpecAssumption DEF Inv, Senders, ByteStreams
  <2>2. a \in ByteStreams /\ StreamInv(a)
    BY DEF Inv, Senders
  <2>3. /\ b \in ByteStreams /\ StreamInv(b) /\ b.alread = a.alread
        /\ b.alwritten = a.alwritten + Lesser(remaining_capacity(a), n)
        /\ b.end = a.end
    <3> HIDE DEF a
    <3> QED BY Zenon, <2>1, <2>2, WriteStream
  <2>4. a.end => b.content = a.content /\ b.alwritten = a.alwritten
    <3> HAVE a.end
    <3>1. b.alwritten = a.alwritten
      <4>1. Lesser(remaining_capacity(a), n) = 0
        <5> HIDE DEF a
        <5> QED BY <2>1, <2>2 DEF ByteStreams, StreamInv, Lesser, remaining_capacity
      <4> HIDE DEF a, b
      <4> QED BY <2>2, <2>3, <4>1 DEF ByteStreams
    <3>2. /\ a.content \in Seq(Nat) /\ b.content \in Seq(Nat) /\ a.alread \in Nat
          /\ Len(b.content) = Len(a.content)
      <4> HIDE DEF a, b
      <4> QED BY <2>2, <2>3, <3>1 DEF ByteStreams, StreamInv
    <3>3. ASSUME NEW j \in 1 .. Len(b.content) PROVE b.content[j] = a.content[j]
      <4> HIDE DEF a, b
      <4> QED BY <2>2, <2>3, <3>2 DEF StreamInv
    <3> HIDE DEF a, b
    <3>4. b.content = a.content
      BY Zenon, <3>2, <3>3, SameSeq
    <3> QED BY Zenon, <3>1, <3>4
  <2>5. /\ c \in ByteStreams /\ StreamInv(c) /\ c.alread = a.alread
        /\ a.end => c.end /\ c.content = a.content /\ c.alwritten = a.alwritten
    <3> HIDE DEF a, b
    <3>1. CASE ~end
      BY Zenon, <2>3, <2>4, <3>1
    <3>2. CASE end
      <4>1. /\ c \in ByteStreams /\ c.end /\ c.content = b.content /\ c.alread = b.alread
            /\ c.alwritten = b.alwritten /\ c.max = b.max
        BY Zenon, <2>3, <3>2 DEF end_input, ByteStreams
      <4> HIDE DEF c
      <4>2. StreamInv(c)
        BY Zenon, <2>3, <4>1 DEF StreamInv
      <4> QED BY Zenon, <2>3, <2>4, <4>1, <4>2
    <3> QED BY Zenon, <3>1, <3>2
  <2>6. Inv(v) /\ v.stream = a
    <3>1. v.stream = a
      BY DEF Inv, Senders
    <3> QED BY Zenon, <3>1, WindowInv
  <2>7. Inv(s)
    <3> HIDE DEF a, b, c, v
    <3> QED BY Zenon, <2>5, <2>6, StreamChangeInv
  <2>8. s = [sender EXCEPT !.window_size = win, !.stream = c]
    <3> HIDE DEF c
    <3> QED BY DEF Inv, Senders
  <2> HIDE DEF s
  <2>9. fill_window(s) = FillLoop(s)
    BY Zenon, <2>7, FillLoopIs
  <2> QED BY Zenon, <2>8, <2>9
<1> QED BY Invariance, <1>1, PTL

-----------------------------------------------------------------------------
(* The timeout. *)

\* The powers of two, as the numbers of subsets of 1 .. n.
LEMMA PowerOfTwo ==
  ASSUME NEW n \in Nat
  PROVE  2 ^ n \in Nat /\ 2 ^ (n + 1) = 2 * 2 ^ n
<1> DEFINE S == 1 .. n
           x == n + 1
           A == SUBSET S
           B == {X \cup {x} : X \in A}
           f == [X \in A |-> X \cup {x}]
<1>1. IsFiniteSet(S) /\ Cardinality(S) = n /\ x \notin S
  BY FS_Interval
<1>2. IsFiniteSet(A) /\ Cardinality(A) = 2 ^ n
  BY Zenon, <1>1, FS_SUBSET
<1>3. IsFiniteSet(S \cup {x}) /\ Cardinality(S \cup {x}) = n + 1
  BY Zenon, <1>1, FS_AddElement
<1>4. Cardinality(SUBSET (S \cup {x})) = 2 ^ (n + 1)
  BY <1>3, FS_SUBSET
<1> HIDE DEF S, x
<1>5. SUBSET (S \cup {x}) = A \cup B
  <2>1. ASSUME NEW X \in SUBSET (S \cup {x}) PROVE X \in A \cup B
    <3>1. X \ {x} \in A
      OBVIOUS
    <3>2. x \in X => X = (X \ {x}) \cup {x}
      OBVIOUS
    <3>3. x \notin X => X = X \ {x}
      OBVIOUS
    <3> QED BY Zenon, <3>1, <3>2, <3>3
  <2> QED BY <2>1
<1>6. A \cap B = {}
  BY <1>1
<1>7. ExistsBijection(A, B)
  <2>1. f \in [A -> B]
    OBVIOUS
  <2>2. ASSUME NEW X \in A, NEW Y \in A, f[X] = f[Y] PROVE X = Y
    <3>1. X \cup {x} = Y \cup {x}
      BY <2>2
    <3> QED BY <1>1, <3>1
  <2>3. \A Y \in B : \E X \in A : f[X] = Y
    BY Zenon
  <2> HIDE DEF f, A, B
  <2>4. f \in Injection(A, B)
    BY <2>1, <2>2 DEF Injection, IsInjective
  <2>5. f \in Surjection(A, B)
    BY <2>1, <2>3 DEF Surjection
  <2> QED BY <2>4, <2>5 DEF ExistsBijection, Bijection
<1> HIDE DEF A, B
<1>8. IsFiniteSet(B) /\ Cardinality(B) = Cardinality(A)
  BY <1>2, <1>7, FS_Bijection
<1>9. Cardinality(A \cup B) = Cardinality(A) + Cardinality(B) - Cardinality(A \cap B)
  BY <1>2, <1>8, FS_Union
<1>10. Cardinality(A \cap B) = 0 /\ Cardinality(A) \in Nat
  BY <1>2, <1>6, FS_EmptySet, FS_CardinalityType
<1> DEFINE k == 2 ^ n
           m == 2 ^ (n + 1)
<1>11. m = Cardinality(A \cup B) /\ k = Cardinality(A)
  BY Zenon, <1>2, <1>4, <1>5
<1> HIDE DEF k, m
<1>12. k \in Nat /\ m = 2 * k
  BY <1>8, <1>9, <1>10, <1>11
<1> QED BY <1>12 DEF k, m

\* The timeout has been doubled as often as was sent again, and not at all while the timer
\* does not run.
Backoff(s) ==
    /\ s.sendtimer.rto = RT_TIMEOUT * 2 ^ s.consecutive_retrans
    /\ s.sendtimer.active \/ s.consecutive_retrans = 0

\* A sender with a timer that has been reset.
LEMMA ResetBackoff ==
  ASSUME NEW s, s.sendtimer.rto = RT_TIMEOUT, s.consecutive_retrans = 0
  PROVE  Backoff(s)
<1>1. RT_TIMEOUT * 2 ^ 0 = RT_TIMEOUT
  <2>1. 2 ^ 0 = 1
    OBVIOUS
  <2> QED BY <2>1, SenderAssumption
<1> QED BY <1>1 DEF Backoff

\* fill_window starts the timer with the initial timeout if it does not run.
LEMMA FillBackoff ==
  ASSUME NEW s \in Senders, Backoff(s)
  PROVE  Backoff(fill_window(s))
<1> DEFINE t == fill_window(s)
<1>1. CASE ~CanFill(s)
  BY <1>1 DEF fill_window
<1>2. CASE CanFill(s)
  <2>1. /\ t.consecutive_retrans = s.consecutive_retrans
        /\ t.sendtimer = IF s.sendtimer.active THEN s.sendtimer ELSE start(rto_reset(s.sendtimer))
    BY <1>2, FillFields
  <2> HIDE DEF t
  <2>2. CASE s.sendtimer.active
    <3>1. Backoff(t)
      BY <2>1, <2>2 DEF Backoff
    <3> QED BY <3>1 DEF t
  <2>3. CASE ~s.sendtimer.active
    <3>1. s.consecutive_retrans = 0
      BY <2>3 DEF Backoff
    <3>2. start(rto_reset(s.sendtimer)).rto = RT_TIMEOUT
      <4>1. s.sendtimer \in Timers
        BY DEF Senders
      <4> QED BY <4>1 DEF Timers, start, rto_reset
    <3>3. Backoff(t)
      BY <2>1, <2>3, <3>1, <3>2, ResetBackoff
    <3> QED BY <3>3 DEF t
  <2> QED BY <2>2, <2>3 DEF t
<1> QED BY <1>1, <1>2

\* An acknowledgment of something new resets the timer.
LEMMA NewAckBackoff ==
  ASSUME NEW s \in Senders, NEW abs
  PROVE  Backoff(NewAck(s, abs))
<1> DEFINE v == PopAcked(s.unacked, s.isn, abs)
           u == rto_reset(s.sendtimer)
           w == IF v = <<>> THEN u ELSE start(u)
           t == [s EXCEPT !.byte_received = abs, !.unacked = v, !.consecutive_retrans = 0,
                          !.sendtimer = w]
<1>1. NewAck(s, abs) = t
  BY DEF NewAck
<1>2. w.rto = RT_TIMEOUT
  <2>1. s.sendtimer \in Timers
    BY DEF Senders
  <2> QED BY <2>1 DEF Timers, start, rto_reset
<1> HIDE DEF w, v
<1>3. t.sendtimer = w /\ t.consecutive_retrans = 0
  BY DEF Senders
<1> HIDE DEF t
<1> QED BY <1>1, <1>2, <1>3, ResetBackoff

\* tick doubles the timeout when it sends again.
LEMMA TickBackoff ==
  ASSUME NEW s \in Senders, Backoff(s), NEW ms \in Nat
  PROVE  Backoff(tick(s, ms))
<1> DEFINE u == [s.sendtimer EXCEPT !.elapsed = @ + ms]
           n == s.consecutive_retrans
           k == s.sendtimer.rto
           w == start(rto_double(u))
           h == Append(s.segments_out, Head(s.unacked))
           t == [s EXCEPT !.segments_out = h, !.consecutive_retrans = n + 1, !.sendtimer = w]
<1>1. s.sendtimer \in Timers /\ n \in Nat /\ k \in Nat
  BY DEF Senders, Timers
<1>2. u.active = s.sendtimer.active /\ u.rto = k /\ w.rto = 2 * k /\ w.active = TRUE
  BY <1>1 DEF Timers, start, rto_double
<1>3. tick(s, ms) = IF ~u.active THEN s ELSE IF ~timeout(u) THEN [s EXCEPT !.sendtimer = u] ELSE t
  BY DEF tick
<1> HIDE DEF u, w, h
<1>4. CASE u.active /\ ~timeout(u)
  <2> DEFINE x == [s EXCEPT !.sendtimer = u]
  <2>1. x.sendtimer = u /\ x.consecutive_retrans = n
    BY DEF Senders
  <2> HIDE DEF x
  <2>2. Backoff(x)
    BY <1>2, <2>1 DEF Backoff
  <2> QED BY <1>3, <1>4, <2>2 DEF x
<1>5. CASE u.active /\ timeout(u)
  <2>1. t.sendtimer = w /\ t.consecutive_retrans = n + 1
    BY DEF Senders
  <2>2. k = RT_TIMEOUT * 2 ^ n
    BY DEF Backoff
  <2>3. 2 ^ n \in Nat /\ 2 ^ (n + 1) = 2 * 2 ^ n
    BY <1>1, PowerOfTwo
  <2> DEFINE a == 2 ^ n
             b == 2 ^ (n + 1)
  <2>4. 2 * k = RT_TIMEOUT * b
    <3>1. k = RT_TIMEOUT * a /\ a \in Nat /\ b = 2 * a /\ RT_TIMEOUT \in Nat
      BY <2>2, <2>3, SenderAssumption
    <3> HIDE DEF a, b, k
    <3> QED BY ONLY <3>1
  <2> HIDE DEF t
  <2>5. Backoff(t)
    BY <1>2, <2>1, <2>4 DEF Backoff
  <2> QED BY <1>3, <1>5, <2>5
<1>6. CASE ~u.active
  BY <1>3, <1>6
<1> QED BY <1>4, <1>5, <1>6
\* A step of the owner keeps it.
LEMMA StepBackoff == Inv(sender) /\ Backoff(sender) /\ [Next]_vars => Backoff(sender)'
<1> SUFFICES ASSUME Inv(sender), Backoff(sender), [Next]_vars PROVE Backoff(sender')
  BY DEF Backoff
<1> DEFINE d == Drained
<1>1. /\ Inv(d) /\ d \in Senders /\ d.sendtimer = sender.sendtimer
      /\ d.consecutive_retrans = sender.consecutive_retrans
  <2>1. <<>> \in Seq(Segment)
    OBVIOUS
  <2>2. Inv(d)
    BY Zenon, <2>1, DrainedInv DEF Drained
  <2>3. sender \in Senders
    BY DEF Inv
  <2> QED BY <2>2, <2>3 DEF Inv, Drained, Senders
<1> HIDE DEF d
<1>2. Backoff(d)
  BY <1>1 DEF Backoff
<1>3. ASSUME NEW c, c \in ByteStreams, sender' = fill_window([d EXCEPT !.stream = c])
      PROVE  Backoff(sender')
  <2> DEFINE e == [d EXCEPT !.stream = c]
  <2>1. e \in Senders /\ e.sendtimer = d.sendtimer /\ e.consecutive_retrans = d.consecutive_retrans
    BY <1>1, <1>3 DEF Senders
  <2>2. sender' = fill_window(e)
    BY <1>3
  <2> HIDE DEF e
  <2>3. Backoff(e)
    BY <1>2, <2>1 DEF Backoff
  <2> QED BY <2>1, <2>2, <2>3, FillBackoff
<1>4. ASSUME NEW n \in 1 .. MaxStream, Write(n) PROVE Backoff(sender')
  <2> DEFINE b == d.stream
             c == write(b, NextBytes(b, n))
  <2>1. sender' = fill_window([d EXCEPT !.stream = c])
    BY <1>1, <1>4 DEF Write, d, Senders
  <2>2. b = sender.stream /\ n \in Nat
    BY SenderSpecAssumption DEF d, Drained, Inv, Senders
  <2>3. b \in ByteStreams /\ StreamInv(b)
    BY <2>2 DEF Inv, Senders
  <2>4. c \in ByteStreams
    BY <2>2, <2>3, WriteStream
  <2> HIDE DEF c
  <2> QED BY <1>3, <2>1, <2>4
<1>5. ASSUME EndInput PROVE Backoff(sender')
  <2> DEFINE b == d.stream
             c == end_input(b)
  <2>1. sender' = fill_window([d EXCEPT !.stream = c])
    BY <1>1, <1>5 DEF EndInput, d, Senders
  <2>2. b \in ByteStreams
    BY <1>1 DEF Senders
  <2>3. c \in ByteStreams
    BY Zenon, <2>2 DEF end_input, ByteStreams
  <2> HIDE DEF c
  <2> QED BY <1>3, <2>1, <2>3
<1>6. ASSUME FillWindow PROVE Backoff(sender')
  BY <1>1, <1>2, <1>6, FillBackoff DEF FillWindow, d
<1>7. ASSUME NEW ackno \in 0 .. SeqSpace - 1, NEW win \in 0 .. MaxWindow,
             AckReceived(ackno, win)
      PROVE  Backoff(sender')
  <2> DEFINE t == [d EXCEPT !.window_size = win]
             abs == AbsAck(d, ackno)
  <2>1. t \in Senders /\ t.sendtimer = d.sendtimer /\ t.consecutive_retrans = d.consecutive_retrans
    BY <1>1 DEF Senders
  <2>2. sender' = IF abs > d.byte_sent \/ abs < d.byte_received THEN t
                  ELSE IF abs = d.byte_received THEN fill_window(t)
                  ELSE fill_window(NewAck(t, abs))
    BY <1>7 DEF AckReceived, ack_received, d
  <2> HIDE DEF t, abs
  <2>3. Backoff(t) /\ Backoff(fill_window(t))
    BY <1>2, <2>1, FillBackoff DEF Backoff
  <2>4. ASSUME ~(abs > d.byte_sent \/ abs < d.byte_received), abs # d.byte_received
        PROVE  Backoff(fill_window(NewAck(t, abs)))
    <3>1. d.isn \in Nat /\ d.byte_sent \in Nat /\ d.byte_received \in Nat /\ ackno \in Nat
      BY <1>1, SeqSpaceAssumption DEF Senders
    <3>2. abs \in Nat
      BY Zenon, <3>1, UnwrapType DEF AbsAck, abs
    <3>3. d.byte_received < abs /\ abs <= d.byte_sent
      BY <2>4, <3>1, <3>2
    <3>4. Inv(t) /\ t.byte_received = d.byte_received /\ t.byte_sent = d.byte_sent
      BY <1>1, WindowInv DEF t, Senders
    <3>5. NewAck(t, abs) \in Senders
      BY <3>2, <3>3, <3>4, NewAckInv DEF Inv
    <3> QED BY <2>1, <3>5, NewAckBackoff, FillBackoff
  <2> QED BY <2>2, <2>3, <2>4
<1>8. ASSUME NEW ms \in TickSizes, Tick(ms) PROVE Backoff(sender')
  BY <1>1, <1>2, <1>8, TickBackoff, SenderSpecAssumption DEF Tick, d
<1>9. ASSUME SendEmpty PROVE Backoff(sender')
  <2>1. sender'.sendtimer = d.sendtimer /\ sender'.consecutive_retrans = d.consecutive_retrans
    BY <1>1, <1>9 DEF SendEmpty, send_empty_segment, d, Senders
  <2> QED BY <1>2, <2>1 DEF Backoff
<1>10. ASSUME UNCHANGED vars PROVE Backoff(sender')
  BY <1>10 DEF vars
<1> QED BY <1>4, <1>5, <1>6, <1>7, <1>8, <1>9, <1>10 DEF Next

\* What a step does to the count of retransmissions: nothing, or it sends once more, or
\* something new has been acknowledged.
Counted(s, t) ==
    \/ t.consecutive_retrans = s.consecutive_retrans
    \/ t.consecutive_retrans = s.consecutive_retrans + 1
    \/ t.consecutive_retrans = 0 /\ t.byte_received > s.byte_received

\* fill_window counts nothing.
LEMMA FillCounted ==
  ASSUME NEW s \in Senders
  PROVE  /\ fill_window(s).consecutive_retrans = s.consecutive_retrans
         /\ fill_window(s).byte_received = s.byte_received
<1>1. CASE ~CanFill(s)
  BY <1>1 DEF fill_window
<1>2. CASE CanFill(s)
  BY <1>2, FillFields
<1> QED BY <1>1, <1>2

\* A step of the owner.
LEMMA StepCounted ==
  ASSUME Inv(sender), [Next]_vars
  PROVE  Counted(sender, sender')
<1> DEFINE d == Drained
           n == sender.consecutive_retrans
           k == sender.byte_received
<1>1. /\ Inv(d) /\ d \in Senders /\ d.consecutive_retrans = n /\ d.byte_received = k
      /\ n \in Nat /\ k \in Nat
  <2>1. <<>> \in Seq(Segment)
    OBVIOUS
  <2>2. Inv(d)
    BY Zenon, <2>1, DrainedInv DEF Drained
  <2>3. sender \in Senders
    BY DEF Inv
  <2> QED BY <2>2, <2>3 DEF Inv, Drained, Senders
<1> HIDE DEF d
<1>2. ASSUME NEW e \in Senders, e.consecutive_retrans = n, sender' = fill_window(e)
      PROVE  Counted(sender, sender')
  BY <1>2, FillCounted DEF Counted
<1>3. ASSUME NEW c, c \in ByteStreams, sender' = fill_window([d EXCEPT !.stream = c])
      PROVE  Counted(sender, sender')
  <2> DEFINE e == [d EXCEPT !.stream = c]
  <2>1. e \in Senders /\ e.consecutive_retrans = n
    BY <1>1, <1>3 DEF Senders
  <2> HIDE DEF e
  <2> QED BY Zenon, <1>2, <1>3, <2>1 DEF e
<1>4. ASSUME NEW m \in 1 .. MaxStream, Write(m) PROVE Counted(sender, sender')
  <2> DEFINE b == d.stream
             c == write(b, NextBytes(b, m))
  <2>1. sender' = fill_window([d EXCEPT !.stream = c])
    BY <1>1, <1>4 DEF Write, d, Senders
  <2>2. b = sender.stream /\ m \in Nat
    BY SenderSpecAssumption DEF d, Drained, Inv, Senders
  <2>3. b \in ByteStreams /\ StreamInv(b)
    BY <2>2 DEF Inv, Senders
  <2>4. c \in ByteStreams
    BY <2>2, <2>3, WriteStream
  <2> HIDE DEF c
  <2> QED BY <1>3, <2>1, <2>4
<1>5. ASSUME EndInput PROVE Counted(sender, sender')
  <2> DEFINE b == d.stream
             c == end_input(b)
  <2>1. sender' = fill_window([d EXCEPT !.stream = c])
    BY <1>1, <1>5 DEF EndInput, d, Senders
  <2>2. b \in ByteStreams
    BY <1>1 DEF Senders
  <2>3. c \in ByteStreams
    BY Zenon, <2>2 DEF end_input, ByteStreams
  <2> HIDE DEF c
  <2> QED BY <1>3, <2>1, <2>3
<1>6. ASSUME FillWindow PROVE Counted(sender, sender')
  BY Zenon, <1>1, <1>2, <1>6 DEF FillWindow, d
<1>7. ASSUME NEW ackno \in 0 .. SeqSpace - 1, NEW win \in 0 .. MaxWindow,
             AckReceived(ackno, win)
      PROVE  Counted(sender, sender')
  <2> DEFINE t == [d EXCEPT !.window_size = win]
             abs == AbsAck(d, ackno)
  <2>1. t \in Senders /\ t.consecutive_retrans = n
    BY <1>1 DEF Senders
  <2>2. sender' = IF abs > d.byte_sent \/ abs < d.byte_received THEN t
                  ELSE IF abs = d.byte_received THEN fill_window(t)
                  ELSE fill_window(NewAck(t, abs))
    BY <1>7 DEF AckReceived, ack_received, d
  <2>3. d.isn \in Nat /\ d.byte_sent \in Nat /\ d.byte_received \in Nat /\ ackno \in Nat
    BY <1>1, SeqSpaceAssumption DEF Senders
  <2>4. Inv(t) /\ t.byte_received = d.byte_received /\ t.byte_sent = d.byte_sent
    BY <1>1, WindowInv DEF Senders
  <2>5. abs \in Nat
    BY Zenon, <2>3, UnwrapType DEF AbsAck
  <2> HIDE DEF t, abs
  <2>6. ASSUME sender' = t PROVE Counted(sender, sender')
    BY <2>1, <2>6 DEF Counted
  <2>7. ASSUME sender' = fill_window(t) PROVE Counted(sender, sender')
    BY Zenon, <1>2, <2>1, <2>7
  <2>8. ASSUME ~(abs > d.byte_sent \/ abs < d.byte_received), abs # d.byte_received,
               sender' = fill_window(NewAck(t, abs))
        PROVE  Counted(sender, sender')
    <3>1. d.byte_received < abs /\ abs <= d.byte_sent
      BY <2>3, <2>5, <2>8
    <3>2. NewAck(t, abs) \in Senders
      BY <2>4, <2>5, <3>1, NewAckInv DEF Inv
    <3>3. NewAck(t, abs).consecutive_retrans = 0 /\ NewAck(t, abs).byte_received = abs
      BY <2>1 DEF NewAck, Senders
    <3> QED BY <1>1, <2>8, <3>1, <3>2, <3>3, FillCounted DEF Counted
  <2> QED BY Zenon, <2>2, <2>6, <2>7, <2>8
<1>8. ASSUME NEW ms \in TickSizes, Tick(ms) PROVE Counted(sender, sender')
  <2> DEFINE u == [d.sendtimer EXCEPT !.elapsed = @ + ms]
             w == start(rto_double(u))
             h == Append(d.segments_out, Head(d.unacked))
  <2>1. sender' = IF ~u.active THEN d ELSE IF ~timeout(u) THEN [d EXCEPT !.sendtimer = u]
                  ELSE [d EXCEPT !.segments_out = h, !.consecutive_retrans = @ + 1, !.sendtimer = w]
    BY <1>8 DEF Tick, tick, d
  <2> HIDE DEF u, w, h
  <2> QED BY <1>1, <2>1 DEF Counted, Senders
<1>9. ASSUME SendEmpty PROVE Counted(sender, sender')
  BY <1>1, <1>9 DEF SendEmpty, send_empty_segment, d, Senders, Counted
<1>10. ASSUME UNCHANGED vars PROVE Counted(sender, sender')
  BY <1>10 DEF vars, Counted
<1> QED BY <1>4, <1>5, <1>6, <1>7, <1>8, <1>9, <1>10 DEF Next

\* The retransmission timeout follows the count of retransmissions, whatever acknowledgments
\* and windows arrive in between: initial at none, doubled by one into an open window, and
\* changed by nothing else but an acknowledgment of something new.  The invariant behind it
\* is a closed form: the timeout has been doubled as often as was sent again.
THEOREM BackoffCorrect == Spec => BackoffMatchesRetries
<1>1. Init => Backoff(sender)
  BY ResetBackoff DEF Init, NewSender
<1>2. Inv(sender) /\ Backoff(sender) /\ [Next]_vars => Backoff(sender)'
  BY StepBackoff
<1> DEFINE rto == sender.sendtimer.rto
           new_rto == sender'.sendtimer.rto
           again == sender'.consecutive_retrans > sender.consecutive_retrans
           Follows == /\ sender'.consecutive_retrans = 0 => new_rto = RT_TIMEOUT
                      /\ again /\ sender.window_size > 0 => new_rto = 2 * rto
                      /\ new_rto # rto => again \/ sender'.byte_received > sender.byte_received
<1>3. Inv(sender) /\ Backoff(sender) /\ Backoff(sender)' /\ [Next]_vars => [Follows]_vars
  <2> SUFFICES ASSUME Inv(sender), Backoff(sender), Backoff(sender'), [Next]_vars PROVE Follows
    BY DEF Backoff
  <2> DEFINE n == sender.consecutive_retrans
             m == sender'.consecutive_retrans
             a == 2 ^ n
             b == 2 ^ (n + 1)
  <2>1. n \in Nat /\ RT_TIMEOUT \in Nat
    BY SenderAssumption DEF Inv, Senders
  <2>2. rto = RT_TIMEOUT * 2 ^ n /\ new_rto = RT_TIMEOUT * 2 ^ m
    BY Zenon DEF Backoff
  <2>3. a \in Nat /\ b = 2 * a /\ 2 ^ 0 = 1
    BY <2>1, PowerOfTwo
  <2>4. \/ m = n \/ m = n + 1
        \/ m = 0 /\ sender'.byte_received > sender.byte_received
    BY Zenon, StepCounted DEF Counted
  <2>5. m = 0 => new_rto = RT_TIMEOUT
    <3>1. RT_TIMEOUT * 1 = RT_TIMEOUT
      BY <2>1
    <3> QED BY Zenon, <2>2, <2>3, <3>1
  <2>6. m = n + 1 => new_rto = 2 * rto
    <3>1. m = n + 1 => new_rto = RT_TIMEOUT * b
      BY Zenon, <2>2
    <3>2. rto = RT_TIMEOUT * a
      BY Zenon, <2>2
    <3> HIDE DEF a, b, m, n, rto, new_rto
    <3> QED BY ONLY <2>1, <2>3, <3>1, <3>2
  <2>7. m = n => new_rto = rto
    BY Zenon, <2>2
  <2> HIDE DEF a, b, rto, new_rto
  <2> QED BY <2>1, <2>4, <2>5, <2>6, <2>7
<1>4. Spec => []Inv(sender)
  BY Invariance
<1> QED BY <1>1, <1>2, <1>3, <1>4, PTL DEF Spec, BackoffMatchesRetries
====
