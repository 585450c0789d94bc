------------------------------ MODULE TCPPair ------------------------------
(***************************************************************************)
(* Two TCPConnections and the network between them: a client that calls    *)
(* connect() and a server that listens.  Each side's application writes    *)
(* its stream, may end it, and reads the other's.                          *)
(*                                                                         *)
(* The network is first-in first-out and reliable but for the segments it  *)
(* may lose and duplicate, and unless the setting says that it delivers in    *)
(* any order.  While it is full nothing is sent but answers.  The i-th     *)
(* byte of a stream is the number i - 1.                                   *)
(***************************************************************************)
EXTENDS TCPState

CONSTANTS Client, Server, Isn,
          Settings          \* what the applications and the network may be like

Peers == {Client, Server}
Other(p) == IF p = Client THEN Server ELSE Client

\* A setting says how many bytes each side writes and which sides end their stream, how
\* many segments may be under way to a side, answers aside, how many the network loses
\* and duplicates, whether it delivers in any order, and whether delivery and reading
\* outrun the clock.  The numbers are bounds.
Setting == [StreamLen : [Peers -> Nat], Closes : SUBSET Peers, MaxNet : Nat, MaxLoss : Nat,
            MaxDup : Nat, Reorders : BOOLEAN, Prompt : BOOLEAN]

ASSUME PairAssumption ==
    /\ Client # Server /\ Isn \in [Peers -> 0 .. SeqSpace - 1]
    /\ Settings \subseteq Setting

VARIABLES conn,             \* the two endpoints
          net,              \* segments on their way to each side
          lost, dup,        \* how many the network has lost and duplicated
          setting

vars == <<conn, net, lost, dup, setting>>

Init ==
    /\ conn = [p \in Peers |-> NewConnection(Isn[p])]
    /\ net = [p \in Peers |-> <<>>]
    /\ lost = 0 /\ dup = 0 /\ setting \in Settings

Sender(p) == conn[p].sender
Receiver(p) == conn[p].receiver

Inbound(p) == inbound_stream(conn[p])

\* The network has room for what p sends when it becomes c.
Fits(p, c) == Len(net[Other(p)]) + Len(c.segments_out) <= setting.MaxNet

\* The endpoint p becomes c, and what it has queued goes onto the network.
Become(p, c, rest) ==
    /\ conn' = [conn EXCEPT ![p] = [c EXCEPT !.segments_out = <<>>]]
    /\ net' = [rest EXCEPT ![Other(p)] = @ \o c.segments_out]
    /\ UNCHANGED <<lost, dup, setting>>

\* A step that no segment has set off.
Start(p, c) == Fits(p, c) /\ Become(p, c, net)

Connect ==
    /\ conn[Client].sender.byte_sent = 0
    /\ Start(Client, connect(conn[Client]))

Established(c) == c.receiver.isnset /\ c.sender.byte_received > 0

\* The application may still write or end its stream.
Open(p) ==
    active(conn[p]) /\ Established(conn[p]) /\ ~conn[p].sender.stream.end

\* TCPConnection::write with the next n bytes of the application.
Written(p, n) ==
    write_out(conn[p], NextBytes(conn[p].sender.stream, n))

CanWrite(p, n) ==
    /\ Open(p)
    /\ n <= remaining_capacity(conn[p].sender.stream)
    /\ conn[p].sender.stream.alwritten + n <= setting.StreamLen[p]

Write(p, n) == CanWrite(p, n) /\ Start(p, Written(p, n))

CanEnd(p) == Open(p) /\ p \in setting.Closes /\ conn[p].sender.stream.alwritten = setting.StreamLen[p]

EndInput(p) == CanEnd(p) /\ Start(p, end_input_stream(conn[p]))

\* The application reads all there is.
Read(p) ==
    LET b == inbound_stream(conn[p])
    IN  /\ b.content # <<>>
        /\ conn' = [conn EXCEPT ![p].receiver.reassembler.output = pop_output(@, Len(b.content))]
        /\ UNCHANGED <<net, lost, dup, setting>>

\* Nothing is under way or waiting to be read.
Quiescent == \A p \in Peers : net[p] = <<>> /\ inbound_stream(conn[p]).content = <<>>

CanTick(p) == active(conn[p]) /\ (setting.Prompt => Quiescent)

Tick(p) == CanTick(p) /\ Start(p, tick_connection(conn[p], 1))

\* A queue without its i-th segment.
Without(q, i) == SubSeq(q, 1, i - 1) \o SubSeq(q, i + 1, Len(q))

\* A segment arrives.
Deliver(p, i) ==
    /\ active(conn[p])
    /\ i = 1 \/ setting.Reorders
    /\ Become(p, segment_received(conn[p], net[p][i]), [net EXCEPT ![p] = Without(@, i)])

\* Nobody reads for an endpoint whose connection is over.
Discard(p) ==
    /\ ~active(conn[p]) /\ net[p] # <<>>
    /\ net' = [net EXCEPT ![p] = <<>>]
    /\ UNCHANGED <<conn, lost, dup, setting>>

Lose(p, i) ==
    /\ lost < setting.MaxLoss
    /\ net' = [net EXCEPT ![p] = Without(@, i)]
    /\ lost' = lost + 1
    /\ UNCHANGED <<conn, dup, setting>>

Duplicate(p, i) ==
    /\ dup < setting.MaxDup /\ Len(net[p]) < setting.MaxNet
    /\ net' = [net EXCEPT ![p] = Append(@, net[p][i])]
    /\ dup' = dup + 1
    /\ UNCHANGED <<conn, lost, setting>>

Next ==
    \/ Connect
    \/ \E p \in Peers :
        \/ \E n \in 1 .. setting.StreamLen[p] : Write(p, n)
        \/ EndInput(p)
        \/ Read(p)
        \/ Tick(p)
        \/ Discard(p)
        \/ \E i \in 1 .. Len(net[p]) : Deliver(p, i) \/ Lose(p, i) \/ Duplicate(p, i)

Spec == Init /\ [][Next]_vars

\* The event loop of each side keeps running (it polls and ticks), the applications
\* keep writing and reading, and the network keeps delivering.  These are weak
\* fairness conditions with the condition under which the action can change the
\* state spelled out, because TLC takes exponential time over its ENABLED.
Fairness ==
    /\ WF_vars(Connect)
    /\ \A p \in Peers :
        /\ \/ []<>~(CanWrite(p, 1) /\ Fits(p, Written(p, 1)))
           \/ []<><<Write(p, 1)>>_vars
        /\ \/ []<>~(CanEnd(p) /\ Fits(p, end_input_stream(conn[p])))
           \/ []<><<EndInput(p)>>_vars
        /\ WF_vars(Read(p))
        /\ \/ []<>~(/\ CanTick(p) /\ tick_connection(conn[p], 1) # conn[p]
                   /\ Fits(p, tick_connection(conn[p], 1)))
           \/ []<><<Tick(p)>>_vars
        /\ WF_vars(Discard(p))
        /\ \/ []<>~(net[p] # <<>> /\ active(conn[p]))
           \/ []<><<net[p] # <<>> /\ Deliver(p, 1)>>_vars

FairSpec == Spec /\ Fairness

-----------------------------------------------------------------------------
Streams == INSTANCE ReliableStream WITH
    Writers  <- Peers,
    written  <- [p \in Peers |-> Sender(p).stream.alwritten],
    closed   <- [p \in Peers |-> Sender(p).stream.end],
    buffer   <- [p \in Peers |-> Inbound(Other(p)).content],
    taken    <- [p \in Peers |-> Inbound(Other(p)).alread],
    finished <- [p \in Peers |-> Inbound(Other(p)).end]

\* The two connections implement two reliable streams: whatever the network loses,
\* repeats and reorders, the bytes an application reads are the other's, in order and
\* each once, nothing is added to a stream that has ended, and a stream ends only where
\* its writer ended it.
ImplementsStreams == Streams!Spec

\* What a sender takes for acknowledged has been written to the receiver's stream:
\* no byte is dropped from unacked that the other side has not got.
AckedIsReceived ==
    \A p \in Peers :
        LET s == Sender(p)
            v == Receiver(Other(p))
        IN  s.byte_received <=
                IF v.isnset THEN 1 + bytes_written(v) + Bit(v.finset /\ Inbound(Other(p)).end)
                ELSE 0

\* Nothing travels beyond the room the receiver has: the stream positions of a
\* segment lie within its capacity after what has been read, but for the one
\* position with which a full window is probed.
WithinCapacity ==
    \A p \in Peers : \A i \in 1 .. Len(net[p]) :
        LET seg == net[p][i]
        IN  length_in_sequence_space(seg) > 0 =>
                seg.abs + length_in_sequence_space(seg) <=
                    2 + Inbound(p).alread + RecvCapacity

\* A sender keeps to the receiver's window where acknowledgments arrive in order; where
\* they overtake each other an old window may replace a newer one.
FlowControl == ~setting.Reorders => WithinCapacity

\* The connection is over and was not reset.
Done(p) == ~active(conn[p]) /\ ~conn[p].rst

\* An endpoint that is done has got the whole of the other side's stream, and the
\* other side has got the whole of its own.
DoneMeansDelivered ==
    \A p, q \in Peers :
        Done(p) => Inbound(q).end /\ bytes_written(Receiver(q)) = setting.StreamLen[Other(q)]

\* However slow the network is, a connection both sides close comes to an end, and when
\* delivery outruns the clock it ends without a reset.
EventuallyOver ==
    <>(\A p \in Peers : ~active(conn[p]) /\ (setting.Prompt => Done(p)))

\* The summary of a connection is always that of an official state, resets included, but
\* for CLOSE_WAIT, in which the linger flag is still set until the segment after the FIN.
OfficialButForLinger ==
    \A p \in Peers :
        \/ \E state \in States : Summary(conn[p]) = Official(state)
        \/ Summary(conn[p]) = [Official("CLOSE_WAIT") EXCEPT !.linger = TRUE]

\* The order in which the two halves of a connection go through their states.
Order == [sender   |-> <<"CLOSED", "SYN_SENT", "SYN_ACKED", "FIN_SENT", "FIN_ACKED", "ERROR">>,
          receiver |-> <<"LISTEN", "SYN_RECV", "FIN_RECV", "ERROR">>]

\* Neither half of a connection ever goes back to an earlier state, whatever arrives
\* late or twice, and an endpoint that has become inactive stays so.
StatesOnlyAdvance ==
    [][\A p \in Peers :
         LET now == Summary(conn[p])
             nxt == Summary(conn'[p])
         IN  /\ \A h \in {"sender", "receiver"} : \E i \in DOMAIN Order[h] :
                    Order[h][i] = now[h] /\ \E j \in i .. Len(Order[h]) : Order[h][j] = nxt[h]
             /\ nxt.active => now.active]_vars
=============================================================================
