-------------------------- MODULE SenderInvariant --------------------------
(***************************************************************************)
(* An invariant of a TCPSender, on its record, and what an operation may   *)
(* change.  SenderLemmas shows that every operation keeps it.              *)
(***************************************************************************)
EXTENDS TCPSender

M == MAX_PAYLOAD_SIZE

\* A segment carries the bytes its number names; a FIN follows the last byte.  The
\* acknowledgment is put in when the segment leaves the connection.
Carries(isn, b, fin_sent, g) ==
    /\ g.seqno = wrap(g.abs, isn)
    /\ \A j \in 1 .. Len(g.payload) : g.payload[j] = g.abs + Bit(g.syn) + j - 2
    /\ g.syn <=> g.abs = 0 /\ length_in_sequence_space(g) > 0
    /\ g.fin => fin_sent /\ End(g) = b.alwritten + 2
    /\ ~g.ack

\* The stream's buffer holds the bytes after the ones read, within its capacity.
StreamInv(b) ==
    /\ Len(b.content) <= b.max
    /\ b.alwritten = b.alread + Len(b.content)
    /\ \A j \in 1 .. Len(b.content) : b.content[j] = b.alread + j - 1

CountInv(s) ==
    /\ s.byte_received <= s.byte_sent
    /\ s.byte_sent - s.byte_received <= MaxWindow
    /\ s.byte_sent = Bit(s.byte_sent > 0) + s.stream.alread + Bit(s.eof)
    /\ s.eof => s.stream.end /\ s.stream.content = <<>>

\* The queue q of unacknowledged segments covers the numbers up to sent, and its
\* first segment the number rcvd.  Any two segments are in order, which follows from
\* their being adjacent only by induction and is therefore part of the invariant.
QueueInv(q, rcvd, sent) ==
    /\ q = <<>> <=> rcvd = sent
    /\ q # <<>> => /\ q[1].abs <= rcvd /\ rcvd < End(q[1])
                   /\ End(q[Len(q)]) = sent
    /\ \A i \in 1 .. Len(q) : i < Len(q) => End(q[i]) = q[i + 1].abs
    /\ \A i, j \in 1 .. Len(q) : i < j => End(q[i]) <= q[j].abs
    /\ \A i \in 1 .. Len(q) : /\ length_in_sequence_space(q[i]) > 0
                              /\ length_in_sequence_space(q[i]) <= M + 2
                              /\ End(q[i]) <= sent

\* The segments of q hold no number that was not sent.
Below(q, sent) == \A i \in 1 .. Len(q) : End(q[i]) <= sent

Inv(s) ==
    /\ s \in Senders
    /\ CountInv(s)
    /\ StreamInv(s.stream)
    /\ QueueInv(s.unacked, s.byte_received, s.byte_sent)
    /\ s.sendtimer.active <=> s.unacked # <<>>
    /\ \A i \in 1 .. Len(s.unacked) : Carries(s.isn, s.stream, s.eof, s.unacked[i])
    /\ \A i \in 1 .. Len(s.segments_out) : Carries(s.isn, s.stream, s.eof, s.segments_out[i])
    /\ Below(s.segments_out, s.byte_sent)

\* From s to t a sender counts on, and its stream keeps what was written to it; once the
\* FIN is sent nothing more is.
Moves(s, t) ==
    /\ t.isn = s.isn
    /\ s.byte_sent <= t.byte_sent /\ s.byte_received <= t.byte_received
    /\ t.stream.alwritten = s.stream.alwritten
    /\ t.stream.end = s.stream.end /\ t.stream.error = s.stream.error
    /\ s.eof => t.eof /\ t.byte_sent = s.byte_sent

\* What is in flight, and the window, are at most w.
InFlight(s, w) == s.window_size <= w /\ s.byte_sent - s.byte_received <= w

\* The operations that only put a segment on its way out leave everything that counts.
Stays(s, t) ==
    /\ t.isn = s.isn /\ t.stream = s.stream /\ t.eof = s.eof /\ t.window_size = s.window_size
    /\ t.byte_sent = s.byte_sent /\ t.byte_received = s.byte_received
=============================================================================
