--------------------------- MODULE SocketProgram ---------------------------
(***************************************************************************)
(* The programs that are built from these parts (apps/tcp_udp, tcp_ipv4,   *)
(* tcp_ip_ethernet, lab7): the owner connects a TCPSpongeSocket or accepts *)
(* on it, copies stdin and stdout through it with                          *)
(* bidirectional_stream_copy, and waits for the connection to close, while *)
(* the socket's own thread runs the connection.  Or the owner destroys the *)
(* socket early.  The peer is a TCPConnection behind a reliable network.   *)
(*                                                                         *)
(* w is what the two event loops act upon (see FileDescriptor, StreamCopy  *)
(* and SpongeSocket).  A loop is interrupted by the other thread between   *)
(* its call of poll and each callback.                                     *)
(***************************************************************************)
EXTENDS EventLoop

CONSTANTS StdinBytes, PeerBytes,    \* how many bytes each side sends
          OwnIsn, PeerIsn

ASSUME ProgramAssumption ==
    /\ StdinBytes \in Nat /\ PeerBytes \in Nat /\ CopyBuffer \in Nat \ {0}
    /\ {OwnIsn, PeerIsn} \subseteq 0 .. SeqSpace - 1

VARIABLES w,
          tcp_loop, app_loop,   \* the event loops of the socket and of the owner
          thread,               \* "connecting" (run by the owner), "running", "ended"
          owner,                \* "connecting", "copying", "waiting", "destroying", "done"
          abort,                \* the socket's _abort
          peer, heard,          \* the connection at the other end, and the bytes read from it
          scene,                \* the owner "connects" or "listens"; or it connects and
                                \* "quits", or the peer may "reset" the connection
          cut                   \* whether the socket was destroyed with the connection open

listens == scene = "listens"

vars == <<w, tcp_loop, app_loop, thread, owner, abort, peer, heard, scene, cut>>

Buffer(bytes, ended) == [bytes |-> bytes, ended |-> ended]

\* connect() and listen_and_accept() before their loop.
NewWorld(accepts) ==
    LET c == NewConnection(OwnIsn)
    IN  [chan |-> [stdin |-> Buffer([i \in 1 .. StdinBytes |-> i - 1], TRUE),
                   stdout |-> Buffer(<<>>, FALSE), up |-> Buffer(<<>>, FALSE),
                   down |-> Buffer(<<>>, FALSE)],
         eof |-> {}, closed |-> {}, served |-> {}, fault |-> "none",
         conn |-> IF accepts THEN c ELSE connect(c), inbox |-> <<>>, net |-> <<>>,
         outbound_shutdown |-> FALSE, inbound_shutdown |-> FALSE, copy |-> NewCopy]

Init ==
    /\ scene \in {"connects", "listens", "quits", "reset"}
    /\ w = NewWorld(listens)
    /\ tcp_loop = NewLoop(TcpRules) /\ app_loop = NewLoop(CopyRules)
    /\ thread = "connecting" /\ owner = "connecting" /\ abort = FALSE /\ cut = FALSE
    /\ peer = NewConnection(PeerIsn) /\ heard = <<>>

-----------------------------------------------------------------------------
\* The socket's thread.

Running == w.fault = "none" /\ thread # "ended"
InLoop == thread = "running" \/ Connecting(w, listens)
Prepared == SetUp(tcp_loop, w)

\* The connection, if it is open, queues a RST as it is destroyed, and what it has queued
\* goes with it.
Destructed(c) == [(IF active(c) THEN RstSegment(c) ELSE c) EXCEPT !.segments_out = <<>>]

\* _tcp_loop is left in the state s: connect() or listen_and_accept() starts the thread,
\* or _tcp_main ends.
Leave(s) ==
    /\ tcp_loop' = [s.loop EXCEPT !.polled = <<>>]
    /\ IF thread = "connecting"
       THEN /\ w' = s.w /\ thread' = "running" /\ owner' = "copying"
            /\ UNCHANGED cut
       ELSE /\ w' = [shutdown_both(s.w, "sock") EXCEPT !.conn = Destructed(@), !.served = {},
                                                       !.inbox = <<>>]
            /\ thread' = "ended" /\ cut' = active(s.w.conn)
            /\ UNCHANGED owner

\* An iteration of _tcp_loop ends in the state s, ms after the last one.
Iterate(s, ms) ==
    IF abort THEN Leave(s)
    ELSE /\ tcp_loop' = [s.loop EXCEPT !.polled = <<>>]
         /\ w' = TickLoop(s.w, ms)
         /\ UNCHANGED <<thread, owner, cut>>

Stop ==
    /\ Running /\ tcp_loop.polled = <<>>
    /\ \/ ~InLoop /\ Leave(State(tcp_loop, w))
       \/ InLoop /\ \E s \in {Prepared} : Outcome(s) = "Exit" /\ Leave(s)
    /\ UNCHANGED <<app_loop, abort, peer, heard, scene>>

TcpPoll ==
    /\ Running /\ tcp_loop.polled = <<>> /\ InLoop
    /\ Outcome(Prepared) = "Success"
    /\ \E s \in {Poll(Prepared)} : tcp_loop' = s.loop /\ w' = s.w
    /\ UNCHANGED <<app_loop, thread, owner, abort, peer, heard, scene, cut>>

TcpDispatch ==
    /\ Running /\ tcp_loop.polled # <<>>
    /\ \E s \in {Dispatch(tcp_loop, w)} :
           IF s.loop.polled = <<>> /\ s.w.fault = "none" THEN Iterate(s, 0)
           ELSE /\ tcp_loop' = s.loop /\ w' = s.w
                /\ UNCHANGED <<thread, owner, cut>>
    /\ UNCHANGED <<app_loop, abort, peer, heard, scene>>

\* The clock is slower than the rest: neither loop has anything to do, and nothing is
\* under way.
Idle ==
    /\ w.fault = "none"
    /\ w.net = <<>> /\ tcp_loop.polled = <<>>
    /\ thread # "ended" => InLoop /\ Outcome(Prepared) = "Timeout"
    /\ owner = "copying" =>
            app_loop.polled = <<>> /\ Outcome(SetUp(app_loop, w)) = "Timeout"

TcpTimeout ==
    /\ Running /\ Idle
    /\ \E s \in {Prepared} : Iterate(s, 1)
    /\ UNCHANGED <<app_loop, abort, peer, heard, scene>>

-----------------------------------------------------------------------------
\* The owner's thread.

Copying == w.fault = "none" /\ owner = "copying"
AppPrepared == SetUp(app_loop, w)

AppPoll ==
    /\ Copying /\ app_loop.polled = <<>> /\ Outcome(AppPrepared) = "Success"
    /\ \E s \in {Poll(AppPrepared)} : app_loop' = s.loop /\ w' = s.w
    /\ UNCHANGED <<tcp_loop, thread, owner, abort, peer, heard, scene, cut>>

AppDispatch ==
    /\ Copying /\ app_loop.polled # <<>>
    /\ \E s \in {Dispatch(app_loop, w)} : app_loop' = s.loop /\ w' = s.w
    /\ UNCHANGED <<tcp_loop, thread, owner, abort, peer, heard, scene, cut>>

\* bidirectional_stream_copy returns, and wait_until_closed shuts the socket down.
AppExit ==
    /\ Copying /\ app_loop.polled = <<>> /\ Outcome(AppPrepared) = "Exit"
    /\ app_loop' = AppPrepared.loop
    /\ w' = [shutdown_both(AppPrepared.w, "sock") EXCEPT !.served = {}]
    /\ owner' = "waiting"
    /\ UNCHANGED <<tcp_loop, thread, abort, peer, heard, scene, cut>>

\* Mutant: the destructor joins the thread without telling it to stop.
MutantDestroy ==
    /\ Copying /\ scene = "quits"
    /\ owner' = "destroying"
    /\ UNCHANGED <<w, tcp_loop, app_loop, thread, abort, peer, heard, scene, cut>>

\* The owner destroys the socket instead.
Destroy ==
    /\ Copying /\ scene = "quits"
    /\ abort' = TRUE /\ owner' = "destroying"
    /\ UNCHANGED <<w, tcp_loop, app_loop, thread, peer, heard, scene, cut>>

JoinThread ==
    /\ w.fault = "none" /\ owner \in {"waiting", "destroying"} /\ thread = "ended"
    /\ owner' = "done"
    /\ UNCHANGED <<w, tcp_loop, app_loop, thread, abort, peer, heard, scene, cut>>

-----------------------------------------------------------------------------
\* The peer.

\* The peer becomes c, and what it has queued reaches a socket that is still there.
PeerBecomes(c, v) ==
    /\ peer' = [c EXCEPT !.segments_out = <<>>]
    /\ w' = IF thread = "ended" THEN v ELSE [v EXCEPT !.inbox = @ \o c.segments_out]
    /\ UNCHANGED <<tcp_loop, app_loop, thread, owner, abort, scene, cut>>

PeerOpen == active(peer) /\ peer.receiver.isnset /\ peer.sender.byte_received > 0 /\ ~peer.sender.stream.end

PeerConnect ==
    /\ listens /\ peer.sender.byte_sent = 0
    /\ PeerBecomes(connect(peer), w)
    /\ UNCHANGED heard

\* What reaches the peer is read at once.
PeerSegment ==
    /\ w.net # <<>>
    /\ \E c \in {IF active(peer) THEN segment_received(peer, Head(w.net)) ELSE peer} :
       LET data == inbound_stream(c).content
       IN  /\ heard' = heard \o data
           /\ PeerBecomes([c EXCEPT !.receiver.reassembler.output = pop_output(@, Len(data))],
                          [w EXCEPT !.net = Tail(@)])

PeerWrite ==
    /\ PeerOpen /\ peer.sender.stream.alwritten < PeerBytes
    /\ remaining_capacity(peer.sender.stream) > 0
    /\ PeerBecomes(write_out(peer, <<peer.sender.stream.alwritten>>), w)
    /\ UNCHANGED heard

PeerEnd ==
    /\ PeerOpen /\ peer.sender.stream.alwritten = PeerBytes
    /\ PeerBecomes(end_input_stream(peer), w)
    /\ UNCHANGED heard

\* The peer gives up.
PeerReset ==
    /\ scene = "reset" /\ active(peer) /\ peer.receiver.isnset
    /\ PeerBecomes(RstSegment(Kill(peer)), w)
    /\ UNCHANGED heard

PeerTick ==
    /\ active(peer) /\ Idle
    /\ PeerBecomes(tick_connection(peer, 1), w)
    /\ UNCHANGED heard

Next ==
    \/ Stop \/ TcpPoll \/ TcpDispatch \/ TcpTimeout
    \/ AppPoll \/ AppDispatch \/ AppExit \/ Destroy \/ JoinThread
    \/ PeerConnect \/ PeerSegment \/ PeerWrite \/ PeerEnd \/ PeerReset \/ PeerTick

Spec == Init /\ [][Next]_vars

\* No thread has a step to take, no segment is under way, the peer has said and ended
\* what it had to, and no clock has anything left to do.
Over ==
    /\ w.net = <<>> /\ ~PeerOpen
    /\ ~(listens /\ peer.sender.byte_sent = 0)
    /\ active(peer) => tick_connection(peer, 1) = peer
    /\ \/ w.fault # "none"
       \/ /\ Idle
          /\ ~(owner \in {"waiting", "destroying"} /\ thread = "ended")
          /\ thread # "ended" => ~abort /\ TickLoop(w, 1) = w

\* The scheduler, the network and the peer go on while there is anything left to do.
FairSpec == Spec /\ []<>Over

-----------------------------------------------------------------------------
Said == [i \in 1 .. PeerBytes |-> i - 1]
Typed == [i \in 1 .. StdinBytes |-> i - 1]
Printed == w.chan["stdout"].bytes

\* Each side gets the other's bytes, in order and nothing else, whichever way the two
\* threads and the peer take turns.
CopiedInOrder == IsPrefix(Printed, Said) /\ IsPrefix(heard, Typed)

\* The loops never throw: no callback finds a descriptor unready that poll reported
\* ready, none is a busy wait, and the connection takes what it said it would.  Only the
\* owner of a connection that was reset may write to a socket that has been shut down.
FaultsOnlyAfterReset ==
    w.fault # "none" => w.fault = "EPIPE" /\ w.conn.rst /\ owner = "copying"

\* The thread ends by itself only with a connection that is over, and one that was not
\* reset has delivered everything: the peer has what was typed, and what the peer said is
\* printed or on its way.
EndsOnlyWhenFinished ==
    thread = "ended" /\ ~abort =>
        /\ ~cut
        /\ w.conn.rst \/ (/\ heard = Typed
                          /\ Printed \o w.copy.inbound.content \o w.chan["up"].bytes = Said)

\* The program ends: join returns, with everything copied unless the owner gave up or the
\* peer reset the connection.
ProgramEnds ==
    <>(\/ w.fault # "none"
       \/ owner = "done" /\ (scene \in {"connects", "listens"} => heard = Typed /\ Printed = Said))

\* Destroying the socket of an open connection sends a RST.
DestructionSendsRst ==
    cut => peer.rst \/ \E i \in DOMAIN w.net : w.net[i].rst
=============================================================================
