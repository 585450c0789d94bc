----------------------------- MODULE TCPSender -----------------------------
(***************************************************************************)
(* libsponge/tcp_sender: cuts the outbound stream into segments, keeps the *)
(* ones that are not acknowledged and retransmits the oldest on a timeout. *)
(* A method is an operator from the object's fields to its fields.         *)
(*                                                                         *)
(* Times are kept as differences: sendtimer.elapsed is the code's          *)
(* _current_time - _start_time, the only way either is used.               *)
(***************************************************************************)
EXTENDS WrappingIntegers, ByteStream, TCPSegment

CONSTANTS MAX_PAYLOAD_SIZE,     \* TCPConfig::MAX_PAYLOAD_SIZE
          RT_TIMEOUT,           \* TCPConfig::rt_timeout
          MaxWindow             \* the largest window a header can hold, 2^16 - 1

ASSUME SenderAssumption ==
    /\ MAX_PAYLOAD_SIZE \in Nat /\ MAX_PAYLOAD_SIZE > 0
    /\ RT_TIMEOUT \in Nat /\ RT_TIMEOUT > 0
    /\ MaxWindow \in Nat /\ MaxWindow > 0
    /\ 2 * (MaxWindow + MAX_PAYLOAD_SIZE + 2) < SeqSpace

-----------------------------------------------------------------------------
(* Timer *)

\* rto_reset that leaves the backed-off timeout in place.
MutantRtoReset(t) == [t EXCEPT !.active = FALSE]

rto_reset(t) == [t EXCEPT !.rto = RT_TIMEOUT, !.active = FALSE]
rto_double(t) == [t EXCEPT !.rto = 2 * @]

\* start that restarts the count but forgets to arm the timer.
MutantStart(t) == [t EXCEPT !.elapsed = 0]

start(t) == [t EXCEPT !.elapsed = 0, !.active = TRUE]
timeout(t) == t.active /\ t.elapsed >= t.rto

Segment ==
    [seqno : 0 .. SeqSpace - 1, ackno : Nat, win : Nat, syn : BOOLEAN, fin : BOOLEAN,
     ack : BOOLEAN, rst : BOOLEAN, payload : Seq(Nat), abs : Nat]

Timers == [active : BOOLEAN, elapsed : Nat, rto : Nat]

Senders ==
    [isn : 0 .. SeqSpace - 1, segments_out : Seq(Segment), unacked : Seq(Segment),
     stream : ByteStreams, consecutive_retrans : Nat, sendtimer : Timers,
     window_size : 0 .. MaxWindow, byte_sent : Nat, byte_received : Nat, eof : BOOLEAN]

NewSender(isn, capacity) ==
    [isn |-> isn, segments_out |-> <<>>, unacked |-> <<>>,
     stream |-> NewByteStream(capacity), consecutive_retrans |-> 0,
     sendtimer |-> [active |-> FALSE, elapsed |-> 0, rto |-> RT_TIMEOUT],
     window_size |-> 1, byte_sent |-> 0, byte_received |-> 0, eof |-> FALSE]

-----------------------------------------------------------------------------
(***************************************************************************)
(* fill_window calls itself until nothing more can be sent.  Its effect is *)
(* given here in closed form: how many payload bytes the calls read        *)
(* together, whether a FIN follows them, and the segments they are cut     *)
(* into.  Module FillWindow holds the recursion itself and compares.       *)
(***************************************************************************)

bytes_in_flight(s) == s.byte_sent - s.byte_received

\* A zero window is probed as if it were one.
Window(s) == IF s.window_size > 0 THEN s.window_size ELSE 1

\* The room computed from the window alone.
MutantRoom(s) == Window(s)

Room(s) == Window(s) - bytes_in_flight(s)
SendsSyn(s) == s.byte_sent = 0

\* The payload without the sequence number that the SYN takes.
MutantPayloadSize(s) == Lesser(buffer_size(s.stream), Room(s))

PayloadSize(s) == Lesser(buffer_size(s.stream), Room(s) - Bit(SendsSyn(s)))

\* A FIN whenever the buffer is empty, ended or not.
MutantSendsFin(s) ==
    /\ PayloadSize(s) = buffer_size(s.stream)
    /\ Room(s) > Bit(SendsSyn(s)) + PayloadSize(s)

SendsFin(s) ==
    /\ s.stream.end
    /\ PayloadSize(s) = buffer_size(s.stream)
    /\ Room(s) > Bit(SendsSyn(s)) + PayloadSize(s)

\* One segment more when the payload is a multiple of the largest.
MutantSegmentCount(s) == PayloadSize(s) \div MAX_PAYLOAD_SIZE + 1

SegmentCount(s) ==
    IF PayloadSize(s) = 0
    THEN Bit(SendsSyn(s) \/ SendsFin(s))
    ELSE (PayloadSize(s) - 1) \div MAX_PAYLOAD_SIZE + 1

\* The i-th segment with the sequence number of the first.
MutantSegmentAt(s, i) ==
    LET before == (i - 1) * MAX_PAYLOAD_SIZE
        syn    == SendsSyn(s) /\ i = 1
        abs    == s.byte_sent + before + Bit(SendsSyn(s) /\ i > 1)
    IN  [BlankSegment EXCEPT
            !.abs = abs, !.seqno = wrap(s.byte_sent, s.isn), !.syn = syn,
            !.fin = SendsFin(s) /\ i = SegmentCount(s),
            !.payload = SubSeq(s.stream.content, before + 1,
                               Lesser(before + MAX_PAYLOAD_SIZE, PayloadSize(s)))]

SegmentAt(s, i) ==
    LET before == (i - 1) * MAX_PAYLOAD_SIZE
        syn    == SendsSyn(s) /\ i = 1
        abs    == s.byte_sent + before + Bit(SendsSyn(s) /\ i > 1)
    IN  [BlankSegment EXCEPT
            !.abs = abs, !.seqno = wrap(abs, s.isn), !.syn = syn,
            !.fin = SendsFin(s) /\ i = SegmentCount(s),
            !.payload = SubSeq(s.stream.content, before + 1,
                               Lesser(before + MAX_PAYLOAD_SIZE, PayloadSize(s)))]

CanFill(s) == ~s.eof /\ Room(s) > 0 /\ SegmentCount(s) > 0

fill_window(s) ==
    IF ~CanFill(s) THEN s
    ELSE LET segs == [i \in 1 .. SegmentCount(s) |-> SegmentAt(s, i)]
         IN  [s EXCEPT
                 !.segments_out = @ \o segs,
                 !.unacked = @ \o segs,
                 !.byte_sent = @ + Bit(SendsSyn(s)) + PayloadSize(s) + Bit(SendsFin(s)),
                 !.stream = pop_output(@, PayloadSize(s)),
                 !.eof = SendsFin(s),
                 !.sendtimer = IF @.active THEN @ ELSE start(rto_reset(@))]

-----------------------------------------------------------------------------

\* A segment counts as acknowledged as soon as its first number is.
MutantAcked(seg, isn, abs_ack_no) ==
    unwrap(seg.seqno, isn, abs_ack_no) < abs_ack_no

Acked(seg, isn, abs_ack_no) ==
    unwrap(seg.seqno, isn, abs_ack_no) + length_in_sequence_space(seg) <= abs_ack_no

\* The pop loop: drops segments from the front up to the first unacknowledged one.
AckedPrefix(q, isn, abs_ack_no) ==
    CHOOSE k \in 0 .. Len(q) :
        /\ \A i \in 1 .. k : Acked(q[i], isn, abs_ack_no)
        /\ k < Len(q) => ~Acked(q[k + 1], isn, abs_ack_no)

PopAcked(q, isn, abs_ack_no) ==
    SubSeq(q, AckedPrefix(q, isn, abs_ack_no) + 1, Len(q))

AbsAck(s, ackno) == unwrap(ackno, s.isn, s.byte_received)

\* What ack_received returns.
ack_valid(s, ackno) == AbsAck(s, ackno) <= s.byte_sent

\* The branch for an acknowledgment of something new, before fill_window.
NewAck(s, abs_ack_no) ==
    LET left  == PopAcked(s.unacked, s.isn, abs_ack_no)
        timer == rto_reset(s.sendtimer)
    IN  [s EXCEPT !.byte_received = abs_ack_no, !.unacked = left,
                  !.consecutive_retrans = 0,
                  !.sendtimer = IF left = <<>> THEN timer ELSE start(timer)]

\* ack_received that believes an acknowledgment of what was never sent.
MutantAckReceived(s, ackno, win) ==
    LET abs == AbsAck(s, ackno)
        t   == [s EXCEPT !.window_size = win]
    IN  IF abs < s.byte_received THEN t
        ELSE IF abs = s.byte_received THEN fill_window(t)
        ELSE fill_window(NewAck(t, abs))

\* ack_received that takes an old acknowledgment for a new one.
MutantAckOld(s, ackno, win) ==
    LET abs == AbsAck(s, ackno)
        t   == [s EXCEPT !.window_size = win]
    IN  IF abs > s.byte_sent THEN t
        ELSE IF abs = s.byte_received THEN fill_window(t)
        ELSE fill_window(NewAck(t, abs))

\* ack_received that does nothing with a repeated acknowledgment but take its window.
MutantAckRepeated(s, ackno, win) ==
    LET abs == AbsAck(s, ackno)
        t   == [s EXCEPT !.window_size = win]
    IN  IF abs > s.byte_sent \/ abs <= s.byte_received THEN t
        ELSE fill_window(NewAck(t, abs))

\* The window is taken over before the acknowledgment is looked at.
ack_received(s, ackno, win) ==
    LET abs == AbsAck(s, ackno)
        t   == [s EXCEPT !.window_size = win]
    IN  IF abs > s.byte_sent \/ abs < s.byte_received THEN t
        ELSE IF abs = s.byte_received THEN fill_window(t)
        ELSE fill_window(NewAck(t, abs))

\* tick that retransmits the newest outstanding segment.
MutantTick(s, ms) ==
    LET t == [s.sendtimer EXCEPT !.elapsed = @ + ms]
    IN  IF ~t.active THEN s
        ELSE IF ~timeout(t) THEN [s EXCEPT !.sendtimer = t]
        ELSE [s EXCEPT !.segments_out = Append(@, s.unacked[Len(s.unacked)]),
                       !.consecutive_retrans = @ + 1,
                       !.sendtimer = start(rto_double(t))]

tick(s, ms) ==
    LET t == [s.sendtimer EXCEPT !.elapsed = @ + ms]
    IN  IF ~t.active THEN s
        ELSE IF ~timeout(t) THEN [s EXCEPT !.sendtimer = t]
        ELSE [s EXCEPT !.segments_out = Append(@, Head(s.unacked)),
                       !.consecutive_retrans = @ + 1,
                       !.sendtimer = start(rto_double(t))]

send_empty_segment(s) ==
    [s EXCEPT !.segments_out =
        Append(@, [BlankSegment EXCEPT !.abs = s.byte_sent,
                                       !.seqno = wrap(s.byte_sent, s.isn)])]
=============================================================================
