--------------------------- MODULE TCPConnection ---------------------------
(***************************************************************************)
(* libsponge/tcp_connection: one endpoint, a TCPSender and a TCPReceiver.  *)
(*                                                                         *)
(* idle is the code's time_since_last_segment_received, kept up to the     *)
(* linger time it is compared with.                                        *)
(***************************************************************************)
EXTENDS TCPSender, TCPReceiver

CONSTANTS MAX_RETX_ATTEMPTS,    \* TCPConfig::MAX_RETX_ATTEMPTS
          LingerTime,           \* 10 * rt_timeout
          SendCapacity, RecvCapacity    \* TCPConfig::send_capacity and recv_capacity

ASSUME ConnectionAssumption ==
    /\ MAX_RETX_ATTEMPTS \in Nat /\ LingerTime \in Nat
    /\ SendCapacity \in Nat /\ RecvCapacity \in 1 .. MaxWindow

NewConnection(isn) ==
    [sender |-> NewSender(isn, SendCapacity), receiver |-> NewReceiver(RecvCapacity),
     linger |-> TRUE, rst |-> FALSE, idle |-> 0, segments_out |-> <<>>]

inbound_stream(c) == c.receiver.reassembler.output

\* A FIN that was sent taken to be acknowledged.
MutantFinAcked(s) == s.eof

fin_acked(s) == s.eof /\ s.unacked = <<>>

\* active that lingers for ever.
MutantActive(c) == ~c.rst /\ (~fin_acked(c.sender) \/ ~inbound_stream(c).end \/ c.linger)

active(c) ==
    /\ ~c.rst
    /\ \/ ~fin_acked(c.sender)
       \/ ~inbound_stream(c).end
       \/ c.linger /\ c.idle < LingerTime

-----------------------------------------------------------------------------

\* Segments sent before the peer's SYN is known carry no acknowledgment.
receiver_info(c, seg) ==
    IF ~c.receiver.isnset THEN seg
    ELSE [seg EXCEPT !.ack = TRUE, !.ackno = ackno(c.receiver),
                     !.win = window_size(c.receiver)]

\* _segment_out.
Flush(c) ==
    LET q == c.sender.segments_out
    IN  [c EXCEPT !.segments_out = @ \o [i \in 1 .. Len(q) |-> receiver_info(c, q[i])],
                  !.sender.segments_out = <<>>]

\* _rst_segment: the first segment on its way out, or an empty one, becomes the RST.
RstSegment(c) ==
    LET s == IF c.sender.segments_out = <<>> THEN send_empty_segment(c.sender) ELSE c.sender
    IN  [c EXCEPT !.segments_out = Append(@, [receiver_info(c, Head(s.segments_out))
                                                 EXCEPT !.rst = TRUE]),
                  !.sender = [s EXCEPT !.segments_out = Tail(@)]]

\* Mutant: the outbound stream is left as it was.
MutantKill(c) == [c EXCEPT !.rst = TRUE, !.receiver.reassembler.output = set_error(@)]

\* Both streams in error and the connection dead.
Kill(c) ==
    [c EXCEPT !.rst = TRUE, !.sender.stream = set_error(@),
              !.receiver.reassembler.output = set_error(@)]

Ignored(c, seg) == ~c.receiver.isnset /\ length_in_sequence_space(seg) = 0

\* segment_received after the RST and the early return, before anything is sent.
Process(c, seg) ==
    [c EXCEPT !.linger = @ /\ ~(inbound_stream(c).end /\ ~c.sender.eof),
              !.sender = IF seg.ack THEN ack_received(@, seg.ackno, seg.win)
                         ELSE fill_window(@),
              !.receiver = receive(@, seg)]

\* A segment that takes no sequence number and is acceptable is not answered.  The
\* code returns before _segment_out: what ack_received queued waits for the next call.
Quiet(c, seg) ==
    /\ length_in_sequence_space(seg) = 0
    /\ in_window(c.receiver, seg)
    /\ seg.ack => ack_valid(c.sender, seg.ackno)

Answer(c) ==
    Flush(IF c.sender.segments_out = <<>> /\ c.receiver.isnset
          THEN [c EXCEPT !.sender = send_empty_segment(@)] ELSE c)

Answered(c, quiet) == IF quiet THEN c ELSE Answer(c)

segment_received(c0, seg) ==
    LET c == [c0 EXCEPT !.idle = 0]
    IN  IF seg.rst THEN Kill(c)
        ELSE IF Ignored(c, seg) THEN c
        ELSE Answered(Process(c, seg), Quiet(c, seg))

connect(c) == Flush([c EXCEPT !.sender = fill_window(@)])

write_out(c, data) ==
    Flush([c EXCEPT !.sender = fill_window([c.sender EXCEPT !.stream = write(@, data)])])

end_input_stream(c) ==
    Flush([c EXCEPT !.sender = fill_window([c.sender EXCEPT !.stream = end_input(@)])])

tick_connection(c, ms) ==
    LET d == [c EXCEPT !.sender = tick(@, ms), !.idle = Lesser(@ + ms, LingerTime)]
    IN  Flush(IF d.sender.consecutive_retrans > MAX_RETX_ATTEMPTS
              THEN RstSegment(Kill(d)) ELSE d)
=============================================================================
