---------------------------- MODULE SpongeSocket ----------------------------
(***************************************************************************)
(* libsponge/tcp_helpers/tcp_sponge_socket: the rules by which the event   *)
(* loop of a TCPSpongeSocket runs a TCPConnection between its end of the   *)
(* socketpair and the datagram adapter.  w.conn is the connection, w.inbox *)
(* the segments the adapter can read and w.net those it has written.       *)
(***************************************************************************)
EXTENDS FileDescriptor, TCPState

\* The rules in the order in which _initialize_TCP adds them.
TcpRules == <<"segment", "outbound", "inbound", "send">>

TcpFd(r) == IF r \in {"segment", "send"} THEN "adapter" ELSE "thread"
TcpDirection(r) == IF r \in {"segment", "outbound"} THEN "In" ELSE "Out"

outbound_capacity(w) == remaining_capacity(w.conn.sender.stream)
Inbound(w) == inbound_stream(w.conn)

\* The inbound stream has ended or failed.
InboundOver(b) == eof(b) \/ b.error

TcpInterest(w, r) ==
    CASE r = "segment"  -> active(w.conn)
      [] r = "outbound" -> active(w.conn) /\ ~w.outbound_shutdown /\ outbound_capacity(w) > 0
      [] r = "inbound"  -> Inbound(w).content # <<>> \/ (InboundOver(Inbound(w)) /\ ~w.inbound_shutdown)
      [] r = "send"     -> w.conn.segments_out # <<>>

\* rule 2's end, in its callback and when it is cancelled.
TcpCancel(w, r) ==
    IF r # "outbound" THEN w
    ELSE [w EXCEPT !.conn = end_input_stream(@), !.outbound_shutdown = TRUE]

ReadSegment(w) ==
    register_read([w EXCEPT !.conn = segment_received(@, Head(w.inbox)), !.inbox = Tail(@)],
                  "adapter")

ReadOutbound(w) ==
    LET data == Readable(w, "thread", outbound_capacity(w))
        v == [fd_read(w, "thread", outbound_capacity(w)) EXCEPT !.conn = write_out(@, data)]
    IN  IF v.conn.sender.stream.alwritten # w.conn.sender.stream.alwritten + Len(data)
        THEN Fault(v, "accepted less than advertised")
        ELSE IF "thread" \in v.eof THEN TcpCancel(v, "outbound") ELSE v

\* Mutant: the end of the inbound stream shuts down both directions.
MutantWriteInbound(w) ==
    LET left == pop_output(Inbound(w), Writable(w, "thread", Inbound(w).content))
        v == [fd_write(w, "thread", Inbound(w).content)
                EXCEPT !.conn.receiver.reassembler.output = left]
    IN  IF ~InboundOver(left) THEN v
        ELSE [shutdown_both(v, "thread") EXCEPT !.inbound_shutdown = TRUE]

WriteInbound(w) ==
    LET left == pop_output(Inbound(w), Writable(w, "thread", Inbound(w).content))
        v == [fd_write(w, "thread", Inbound(w).content)
                EXCEPT !.conn.receiver.reassembler.output = left]
    IN  IF ~InboundOver(left) THEN v
        ELSE [shutdown_write(v, "thread") EXCEPT !.inbound_shutdown = TRUE]

SendSegments(w) ==
    register_write([w EXCEPT !.net = @ \o w.conn.segments_out, !.conn.segments_out = <<>>],
                   "adapter")

TcpCallback(w, r) ==
    CASE r = "segment"  -> ReadSegment(w)
      [] r = "outbound" -> ReadOutbound(w)
      [] r = "inbound"  -> WriteInbound(w)
      [] r = "send"     -> SendSegments(w)

\* The adapter can always be written to.
TcpReady(w, r) ==
    CASE r = "segment"  -> w.inbox # <<>>
      [] r = "outbound" -> CanRead(w, "thread")
      [] r = "inbound"  -> CanWrite(w, "thread")
      [] r = "send"     -> TRUE
TcpHup(w, r) == TcpFd(r) = "thread" /\ HungUp(w, "thread")

\* The rest of an iteration of _tcp_loop: a live connection gets the time that has passed.
TickLoop(w, ms) == IF active(w.conn) THEN [w EXCEPT !.conn = tick_connection(@, ms)] ELSE w

\* Whether connect() or listen_and_accept() stays in its loop.
Connecting(w, listens) ==
    \E state \in IF listens THEN {"LISTEN", "SYN_RCVD", "SYN_SENT"} ELSE {"SYN_SENT"} :
        Summary(w.conn) = Official(state)
=============================================================================
