----------------------------- MODULE FillWindow -----------------------------
(***************************************************************************)
(* TCPSender::fill_window as the code has it, one segment and a recursive  *)
(* call, against the closed form that module TCPSender uses.               *)
(***************************************************************************)
EXTENDS SenderSpec

\* One call of the code's function without its last line; s itself when it returns early.
FillOnce(s) ==
    LET syn     == SendsSyn(s)
        window  == IF s.window_size > 0 THEN s.window_size ELSE 1
        payload == Lesser(Lesser(window - bytes_in_flight(s) - Bit(syn),
                                 buffer_size(s.stream)), MAX_PAYLOAD_SIZE)
        data    == peek_output(s.stream, payload)
        stream  == pop_output(s.stream, payload)
        fin     == window > bytes_in_flight(s) + Bit(syn) + payload /\ eof(stream)
        seg     == [BlankSegment EXCEPT !.syn = syn, !.fin = fin, !.payload = data,
                       !.abs = s.byte_sent, !.seqno = wrap(s.byte_sent, s.isn)]
    IN  IF \/ s.eof
           \/ bytes_in_flight(s) + Bit(syn) > window \/ bytes_in_flight(s) >= window
           \/ ~eof(s.stream) /\ Bit(syn) + payload = 0
        THEN s
        ELSE [s EXCEPT !.segments_out = Append(@, seg), !.unacked = Append(@, seg),
                       !.stream = stream, !.eof = fin,
                       !.byte_sent = @ + length_in_sequence_space(seg),
                       !.sendtimer = IF @.active THEN @ ELSE start(rto_reset(@))]

\* The calls one after the other.  Each but the last sends something and so takes a number
\* of the window, and after the last nothing would change.
FillLoop(s) ==
    LET call[k \in 0 .. Window(s)] == IF k = 0 THEN s ELSE FillOnce(call[k - 1])
    IN  call[Window(s)]

-----------------------------------------------------------------------------
\* From every state a sender reaches, whatever is written, whether or not the
\* stream is ended and whatever window is in force when fill_window is called, the
\* closed form sends the segments the recursion sends and leaves the same state.
ClosedFormIsTheLoop ==
    \A win \in 0 .. MaxWindow, end \in BOOLEAN :
    \A n \in 0 .. IF sender.stream.end THEN 0 ELSE MaxStream - sender.stream.alwritten :
        LET b == write(sender.stream, NextBytes(sender.stream, n))
            s == [sender EXCEPT !.window_size = win,
                                !.stream = IF end THEN end_input(b) ELSE b]
        IN  fill_window(s) = FillLoop(s)
=============================================================================
