----------------------------- MODULE StreamCopy -----------------------------
(***************************************************************************)
(* apps/bidirectional_stream_copy: the rules of the loop that copies stdin *)
(* to a socket and the socket to stdout.  w.copy holds its two ByteStreams *)
(* and flags.                                                              *)
(***************************************************************************)
EXTENDS FileDescriptor, ByteStream

CONSTANT CopyBuffer     \* buffer_size

NewCopy ==
    [outbound |-> NewByteStream(CopyBuffer), inbound |-> NewByteStream(CopyBuffer),
     outbound_shutdown |-> FALSE, inbound_shutdown |-> FALSE]

CopyRules == <<"stdin", "to socket", "from socket", "stdout">>

CopyFd(r) == CASE r = "stdin" -> "stdin" [] r = "stdout" -> "stdout" [] OTHER -> "sock"
CopyDirection(r) == IF r \in {"stdin", "from socket"} THEN "In" ELSE "Out"

\* A stream with bytes to pass on, or an end that has not been passed on.
Pending(b, shut) == b.content # <<>> \/ (eof(b) /\ ~shut)

CopyInterest(w, r) ==
    LET c == w.copy
    IN  CASE r = "stdin"       -> /\ ~c.outbound.error /\ remaining_capacity(c.outbound) > 0
                                  /\ ~c.inbound.error
          [] r = "to socket"   -> Pending(c.outbound, c.outbound_shutdown)
          [] r = "from socket" -> /\ ~c.inbound.error /\ remaining_capacity(c.inbound) > 0
                                  /\ ~c.outbound.error
          [] r = "stdout"      -> Pending(c.inbound, c.inbound_shutdown)

\* What is read from f goes into the stream b, and so does the end of it.
Filled(w, f, b) ==
    LET limit == remaining_capacity(b)
        data == write(b, Readable(w, f, limit))
    IN  IF f \in fd_read(w, f, limit).eof THEN end_input(data) ELSE data

\* Mutants: the bytes written are not taken off the stream, or all of them are.
MutantDrainedNone(w, f, b) == b
MutantDrainedAll(w, f, b) == pop_output(b, Len(b.content))

Drained(w, f, b) == pop_output(b, Writable(w, f, b.content))

CopyCallback(w, r) ==
    LET c == w.copy
        left == IF r = "stdout" THEN Drained(w, "stdout", c.inbound)
                ELSE Drained(w, "sock", c.outbound)
    IN  CASE r = "stdin" ->
                [fd_read(w, "stdin", remaining_capacity(c.outbound))
                    EXCEPT !.copy.outbound = Filled(w, "stdin", @)]
          [] r = "from socket" ->
                [fd_read(w, "sock", remaining_capacity(c.inbound))
                    EXCEPT !.copy.inbound = Filled(w, "sock", @)]
          [] r = "to socket" ->
                LET v == [fd_write(w, "sock", c.outbound.content) EXCEPT !.copy.outbound = left]
                IN  IF ~eof(left) THEN v
                    ELSE [shutdown_write(v, "sock") EXCEPT !.copy.outbound_shutdown = TRUE]
          [] r = "stdout" ->
                LET v == [fd_write(w, "stdout", c.inbound.content) EXCEPT !.copy.inbound = left]
                IN  IF ~eof(left) THEN v
                    ELSE [fd_close(v, "stdout") EXCEPT !.copy.inbound_shutdown = TRUE]

CopyCancel(w, r) ==
    IF r \in {"stdin", "to socket"} THEN [w EXCEPT !.copy.outbound = end_input(@)]
    ELSE [w EXCEPT !.copy.inbound = end_input(@)]

CopyReady(w, r) ==
    IF CopyDirection(r) = "In" THEN CanRead(w, CopyFd(r)) ELSE CanWrite(w, CopyFd(r))
CopyHup(w, r) == HungUp(w, CopyFd(r))
=============================================================================
