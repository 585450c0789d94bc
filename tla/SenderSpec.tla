----------------------------- MODULE SenderSpec -----------------------------
(***************************************************************************)
(* A TCPSender on its own.  Its owner writes and ends the outbound stream, *)
(* lets time pass and passes on whatever acknowledgment and window the     *)
(* peer sends, old, repeated and impossible ones included.                 *)
(*                                                                         *)
(* The owner empties segments_out between two calls, as                    *)
(* TCPConnection::_segment_out does, so after a step the queue holds what  *)
(* that call sent.  The k-th byte of the stream is the number k.           *)
(***************************************************************************)
EXTENDS TCPSender

CONSTANTS ISN, SendCapacity,
          MAX_RETX_ATTEMPTS,    \* TCPConnection stops the clock above it
          MaxStream,            \* bound: bytes the owner writes
          TickSizes             \* milliseconds between two ticks

ASSUME SenderSpecAssumption ==
    /\ ISN \in 0 .. SeqSpace - 1
    /\ SendCapacity \in Nat /\ MaxStream \in Nat /\ MAX_RETX_ATTEMPTS \in Nat
    /\ TickSizes \subseteq Nat

VARIABLE sender

vars == <<sender>>

Init == sender = NewSender(ISN, SendCapacity)

Drained == [sender EXCEPT !.segments_out = <<>>]

\* TCPConnection::write.
Write(n) ==
    /\ ~sender.stream.end
    /\ sender.stream.alwritten + n <= MaxStream
    /\ sender' = fill_window([Drained EXCEPT !.stream = write(@, NextBytes(@, n))])

\* TCPConnection::end_input_stream.
EndInput == sender' = fill_window([Drained EXCEPT !.stream = end_input(@)])

\* TCPConnection::connect, and segment_received without an ACK.
FillWindow == sender' = fill_window(Drained)

AckReceived(ackno, win) == sender' = ack_received(Drained, ackno, win)

Tick(ms) ==
    /\ sender.consecutive_retrans <= MAX_RETX_ATTEMPTS
    /\ sender' = tick(Drained, ms)

SendEmpty == sender' = send_empty_segment(Drained)

Next ==
    \/ \E n \in 1 .. MaxStream : Write(n)
    \/ EndInput
    \/ FillWindow
    \/ \E ackno \in 0 .. SeqSpace - 1, win \in 0 .. MaxWindow : AckReceived(ackno, win)
    \/ \E ms \in TickSizes : Tick(ms)
    \/ SendEmpty

Spec == Init /\ [][Next]_vars

-----------------------------------------------------------------------------
\* The fields of the sender keep their types, and the unsigned subtraction in
\* bytes_in_flight never wraps.
TypeOK == sender \in Senders /\ bytes_in_flight(sender) \in Nat

\* The timer runs exactly while something is unacknowledged, which is what makes
\* unacked.front() in tick defined, and that is exactly while bytes are in flight.
TimerTracksFlight ==
    /\ sender.sendtimer.active <=> sender.unacked # <<>>
    /\ sender.unacked # <<>> <=> bytes_in_flight(sender) > 0

\* The unacknowledged segments cover the sequence space without gap or overlap
\* up to byte_sent, and the first of them is the one byte_received falls into:
\* ack_received never drops a segment too many nor keeps one too many.
UnackedTiles ==
    LET q == sender.unacked
    IN  /\ \A i \in 1 .. Len(q) : End(q[i]) = IF i < Len(q) THEN q[i + 1].abs
                                              ELSE sender.byte_sent
        /\ q # <<>> => q[1].abs <= sender.byte_received /\ sender.byte_received < End(q[1])

\* byte_sent counts the SYN, the bytes read from the stream and the FIN, so that
\* nothing is skipped or sent twice under a new number, and the FIN comes after the
\* last byte.
SequenceSpaceAccounted ==
    LET b == sender.stream
    IN  /\ sender.byte_sent = Bit(sender.byte_sent > 0) + b.alread + Bit(sender.eof)
        /\ sender.eof => eof(b) /\ b.alread = b.alwritten

\* A byte travels under the sequence number of its place in the stream, in every
\* segment that is kept for retransmission and in every segment on its way out.
SegmentsCarryTheirBytes ==
    \A q \in {sender.unacked, sender.segments_out} : \A i \in 1 .. Len(q) :
        /\ q[i].seqno = wrap(q[i].abs, sender.isn)
        /\ \A j \in 1 .. Len(q[i].payload) :
               q[i].payload[j] = q[i].abs + Bit(q[i].syn) + j - 2
        /\ q[i].syn <=> q[i].abs = 0 /\ length_in_sequence_space(q[i]) > 0
        /\ q[i].fin => End(q[i]) = sender.stream.alwritten + 2

\* What is in flight fits the largest window, and so stays far from half of the
\* sequence space: the distance unwrap needs to tell old numbers from new ones.
FlightBounded == bytes_in_flight(sender) <= MaxWindow

\* New sequence numbers are sent only inside the window that is in force.
SendsWithinWindow ==
    [][sender'.byte_sent # sender.byte_sent =>
         bytes_in_flight(sender') <= Window(sender')]_vars

\* Whatever a step sends is new, starts at the oldest unacknowledged number, or is
\* an empty segment at the next number.
SendsNewOrOldest ==
    [][\A i \in 1 .. Len(sender'.segments_out) :
         LET seg == sender'.segments_out[i]
         IN  \/ seg.abs >= sender.byte_sent
             \/ seg.abs <= sender.byte_received /\ sender.byte_received < End(seg)]_vars

\* The timeout follows the retransmissions, through whatever order of timeouts, writes and
\* acknowledgments.  It is the initial one as long as nothing has been sent again; sending
\* again into an open window doubles it; and nothing but sending again and an
\* acknowledgment of something new changes it.
BackoffMatchesRetries ==
    [][LET rto     == sender.sendtimer.rto
           new_rto == sender'.sendtimer.rto
           again   == sender'.consecutive_retrans > sender.consecutive_retrans
       IN  /\ sender'.consecutive_retrans = 0 => new_rto = RT_TIMEOUT
           /\ again /\ sender.window_size > 0 => new_rto = 2 * rto
           /\ new_rto # rto => again \/ sender'.byte_received > sender.byte_received]_vars

\* Nothing more may be sent now: the window is full, the FIN is out, or the stream
\* is empty and open.
Filled(s) ==
    \/ Room(s) <= 0
    \/ s.eof
    \/ s.byte_sent > 0 /\ s.stream.content = <<>> /\ ~s.stream.end

\* A write, the end of the stream, a new acknowledgment and a repeated one that
\* moves the window all send as much as the window allows.
FillsTheWindow ==
    [][(\/ sender'.stream # sender.stream
        \/ sender'.byte_received # sender.byte_received
        \/ AckReceived(wrap(sender.byte_received, sender.isn), sender'.window_size))
       => Filled(sender')]_vars
=============================================================================
