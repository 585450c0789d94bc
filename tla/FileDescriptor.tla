--------------------------- MODULE FileDescriptor ---------------------------
(***************************************************************************)
(* libsponge/util/file_descriptor and the streams of the kernel behind it. *)
(* The operators act on a record w that has, among other fields,           *)
(*   chan    the bytes in each kernel buffer, and whether no more may be   *)
(*           written to it,                                                *)
(*   eof, closed   the descriptors whose flags are set,                    *)
(*   served  the descriptors and directions read or written since a rule's *)
(*           callback began: what the read and write counts tell,          *)
(*   fault   the exception or signal that ends the program.                *)
(*                                                                         *)
(* "sock" and "thread" are the two ends of a socketpair.                   *)
(***************************************************************************)
EXTENDS Integers, Sequences

CONSTANT PipeSize       \* bytes a buffer of the socketpair holds

ASSUME PipeAssumption == PipeSize \in Nat \ {0}

LOCAL Smaller(m, n) == IF m <= n THEN m ELSE n

\* The buffers a descriptor reads from and writes to.
Source(f) == CASE f = "sock" -> "up" [] f = "thread" -> "down" [] f = "stdin" -> "stdin"
Sink(f) == CASE f = "sock" -> "down" [] f = "thread" -> "up" [] f = "stdout" -> "stdout"

\* stdout takes whatever is written to it.
Space(w, f, n) ==
    IF f = "stdout" THEN n ELSE Smaller(n, PipeSize - Len(w.chan[Sink(f)].bytes))

Fault(w, what) == [w EXCEPT !.fault = what]

register_read(w, f) == [w EXCEPT !.served = @ \cup {<<f, "In">>}]
register_write(w, f) == [w EXCEPT !.served = @ \cup {<<f, "Out">>}]

\* The bytes a read with this limit returns.
Readable(w, f, limit) ==
    LET bytes == w.chan[Source(f)].bytes IN SubSeq(bytes, 1, Smaller(limit, Len(bytes)))

\* A read that finds nothing has reached the end, or fails where the end is still open.
fd_read(w, f, limit) ==
    LET data == Readable(w, f, limit)
        rest == [w EXCEPT !.chan[Source(f)].bytes = SubSeq(@, Len(data) + 1, Len(@)),
                          !.eof = IF limit > 0 /\ data = <<>> THEN @ \cup {f} ELSE @]
    IN  IF limit > 0 /\ data = <<>> /\ ~w.chan[Source(f)].ended THEN Fault(w, "EAGAIN")
        ELSE register_read(rest, f)

\* How much of data a write that need not write all of it writes.
Writable(w, f, data) == Space(w, f, Len(data))

fd_write(w, f, data) ==
    IF data = <<>> THEN register_write(w, f)
    ELSE IF w.chan[Sink(f)].ended THEN Fault(w, "EPIPE")
    ELSE IF Writable(w, f, data) = 0 THEN Fault(w, "EAGAIN")
    ELSE register_write([w EXCEPT !.chan[Sink(f)].bytes = @ \o SubSeq(data, 1, Writable(w, f, data))], f)

fd_close(w, f) == [w EXCEPT !.eof = @ \cup {f}, !.closed = @ \cup {f}]

\* Socket::shutdown.  An end that reads no more makes the other's writes fail.
shutdown_write(w, f) == register_write([w EXCEPT !.chan[Sink(f)].ended = TRUE], f)

shutdown_both(w, f) ==
    register_read(shutdown_write([w EXCEPT !.chan[Source(f)].ended = TRUE], f), f)

\* What poll reports.  The end of a pipe is a hangup and nothing else, that of a socket
\* makes it readable; a socket has hung up when both directions are shut down.
CanRead(w, f) ==
    \/ w.chan[Source(f)].bytes # <<>>
    \/ f # "stdin" /\ w.chan[Source(f)].ended
CanWrite(w, f) == f = "stdout" \/ Len(w.chan[Sink(f)].bytes) < PipeSize
HungUp(w, f) ==
    CASE f = "stdin"  -> w.chan["stdin"].ended
      [] f = "stdout" -> FALSE
      [] OTHER        -> w.chan["up"].ended /\ w.chan["down"].ended
=============================================================================
