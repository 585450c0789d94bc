# The sponge TCP stack in TLA+

This directory specifies the TCP implementation under `src/libsponge` and the programs
built on it under `src/apps`, checks them with TLC on small instances, and proves with
TLAPS what matters most: the sequence number arithmetic, the sender, the reassembler, that
two connections implement two reliable streams, the choice of a route, the checksum and the
buffers.

## The system

| part | state | operations | works with |
|---|---|---|---|
| sequence numbers (`wrapping_integers`) | none | `wrap`, `unwrap` | sender, receiver |
| `ByteStream` | buffer, end and error flags, two counters | `write`, `pop_output`, `end_input`, `set_error` | everything above it |
| `StreamReassembler` | list of stored pieces, count of their bytes, next index, end flag, output | `push_substring` | receiver |
| `TCPReceiver` | peer's initial number, SYN and FIN flags, reassembler | `segment_received`, `ackno`, `window_size` | connection |
| `TCPSender` | outbound stream, unacknowledged segments, counters, window, timer | `fill_window`, `ack_received`, `tick`, `send_empty_segment` | connection |
| `TCPConnection` | sender, receiver, linger and reset flags, idle time, segments out | `connect`, `write`, `end_input_stream`, `tick`, `segment_received` | the socket's loop |
| `TCPState` | none | summary of a connection, table of official states | tests, socket |
| `TCPSpongeSocket`, `EventLoop` | connection, rules, thread, local socket pair | four rules, `_tcp_loop`, `connect`, `listen_and_accept`, `wait_until_closed` | adapters, application |
| adapters (UDP, TUN, TAP, lossy) | addresses, listening flag | `read`, `write` | network |
| `NetworkInterface` | ARP cache, requests under way, waiting datagrams, time | `send_datagram`, `recv_frame`, `tick` | router, adapters |
| `Router` | routing table, interfaces | `add_route`, `route_one_datagram`, `route` | interfaces |
| headers, parser, buffers | none | `parse`, `serialize`, checksums | adapters, interface |
| `bidirectional_stream_copy` | two streams, four rules | its callbacks | stdin, stdout, a socket |
| `lab7`, `bouncer` | hosts, routers, relay | the network thread's rules | interfaces, routers |
| `network_simulator` | hosts around a router | send, exchange frames, check | interfaces, router |
| other applications | | command lines over the sockets | |

What makes it hard: segments are lost, repeated and reordered; acknowledgments and
windows are stale when they arrive; timeouts race late answers; numbers wrap; the FIN
takes a number and may overtake data; the two sides close independently; the timer,
the queue and the counters of the sender change in different branches of different
methods; two threads share a socket pair, and each leaves its loop when no rule is
interested; addresses are learnt while datagrams wait for them, and grow stale; what
comes off a device may be damaged or from somebody else. `PROJECT.json` lists these hazards at the lines where they bite.

## Modules

A C++ object is a record of its fields and a method an operator from the record to
the record, with the method's name. The other modules put these objects into an
environment and give it variables and actions: one component against any owner and any
peer (`SenderSpec`, `ReassemblerSpec`), or several that interact (`TCPPair`,
`SocketProgram`, `AdapterNet`, `Lab7`, `NetworkSimulator`).

| module | models |
|---|---|
| `WrappingIntegers` | `wrap`, `unwrap`; `SeqSpace` stands for 2^32 |
| `ByteStream`, `TCPSegment` | the stream; the header fields the stack reads, and the payload |
| `TCPSender` | the sender and its timer |
| `SenderSpec`, `MCSender` | a sender whose owner does anything and whose peer acknowledges anything |
| `FillWindow` | `fill_window` one call of the code's recursion at a time |
| `StreamReassembler` | `push_substring`; `SizeMod` stands for 2^64 |
| `ReassemblerSpec`, `MCReassembler` | a reassembler between a peer and a reader |
| `TCPReceiver`, `TCPConnection`, `TCPState` | the receiver, an endpoint, its official state |
| `TCPPair`, `MCPair` | a client, a server and the network between them |
| `ReliableStream` | what a connection promises: two streams, abstractly |
| `FileDescriptor` | descriptors with their flags and counts, over pipes and a socket pair |
| `EventLoop` | `wait_next_event` over the rules of the two modules below |
| `StreamCopy` | the rules of `bidirectional_stream_copy` |
| `SpongeSocket` | the four rules of `TCPSpongeSocket` and its tick |
| `SocketProgram` | an owner copying stdin and stdout through a socket, its TCP thread, a peer |
| `Buffers` | strings in pieces, the checksum |
| `Wire` | the parser, and the bytes of TCP, IPv4, Ethernet and ARP headers |
| `RoutingTable` | the routing table and the choice of a route |
| `NetworkInterface`, `Router` | the interface with its ARP cache, the router |
| `Adapters` | the UDP, TUN and Ethernet adapters and the lossy wrapper |
| `AdapterNet`, `MCAdapterNet` | three hosts with adapters, and what is under way between them |
| `Lab7`, `MCLab7` | two hosts and two routers, joined by the relay |
| `NetworkSimulator` | the main program of `network_simulator` |
| `Algorithms` | the pure functions, called with every argument within bounds |
| `SenderInvariant`, `ReassemblerInvariant` | the inductive invariants of the two components |
| `SenderLemmas`, `SenderProofs` | that each operation of the sender keeps its invariant; its theorems |
| `ReassemblerLemmas` | that `push_substring` keeps the reassembler's invariant |
| `EndpointLemmas`, `PairLemmas`, `PairProofs` | the invariant of two connections and the network; they implement `ReliableStream` |
| `NetworkProofs` | the invariant of `Lab7`, and that it loses and doubles no datagram |
| `SpecProofs` | the theorems of `Algorithms`, of `ReliableStream` and of `ReassemblerSpec` |

Choices worth knowing:

- `fill_window` calls itself until nothing can be sent. `TCPSender` gives the effect
  of all calls in closed form (which is what the proofs need); `FillWindow` has the calls
  one by one, and the two are compared by run `sender` and proved equal.
- A segment has an auxiliary field `abs`, the absolute number the sender counted.
  No operation reads it; properties do.
- Times are differences: `sendtimer.elapsed` is current time less start time. The
  idle time of a connection is kept up to the linger time it is compared with.
- `push_substring` decrements a list iterator that may be `begin()`. In libstdc++ the
  list is circular and the following increment undoes it, so the loop visits each
  stored piece once, as the recursive function in `Visited` does. `threw` records an
  out-of-range `substr`.
- `segment_received` returns before `_segment_out` for an acceptable segment that
  takes no number (`Quiet`): what `ack_received` queued waits for the next call.
- The destructor of `TCPConnection` queues a RST in a queue that dies with the object
  (`Destructed` in `SocketProgram`); it changes no flag and no stream.
- In `TCPPair` an endpoint's queue goes onto the network in the step that filled it. In the code
  rule 4 of `TCPSpongeSocket` does that in a later iteration of the loop; the segments
  are complete when they are queued and leave in order, so the time between is a delay
  of the network, which delivers when it likes. Nothing is read or ticked for an endpoint
  that is not active (`_tcp_loop`, rule 1), hence `Discard`.
- The application writes and closes only once the connection is established, as
  `connect` and `listen_and_accept` return only then.
- `SocketProgram` has two loops of `EventLoop`, the owner's and the
  thread's. Setting up and polling is one step and every callback another, so the other
  thread runs between them. An exception (of the busy-wait check, of a read or write
  that finds its descriptor unready, of a broken pipe) is the value `w.fault`. A hangup of a
  rule that is not interested makes the code's `poll` return at once with nothing to do;
  those turns change nothing until a millisecond has passed, and are part of `Timeout`.
- In `Lab7` each host and each router has a clock of its own. A host's interface gets the
  time that has passed, but the network thread counts 50 ms for every turn of its loop,
  however short, so the routers' clocks may run ahead of everything.
- An Ethernet adapter sends to the next hop it was constructed with, whoever its peer
  turns out to be.
- `send_datagram` reads through an iterator that may be the end of the request list. What
  is read there is `beyond`, any of the constants `Beyond`, fixed at the start.
- The headers are sequences of bytes and their fields numbers; a 32-bit field is a pair
  of 16-bit ones, because TLC's integers have 32 bits. `Lab7` and `NetworkSimulator` pass
  records instead of bytes: what the bytes do to a datagram is `AdapterNet`'s question.
- Addresses in `Router` have `AddressBits` bits. The networks of the two programs become
  networks of four- and six-bit addresses with the same overlaps.

## Runs

`tlc -config X.cfg M`. All say `CHECK_DEADLOCK FALSE`: a sender that has sent what its
bound allows, a complete stream, a closed connection, a program that has ended and hosts
with nothing left to send really stop.

| run | module, configuration | checks | result |
|---|---|---|---|
| `algorithms` | `Algorithms` | `unwrap`, the choice of a route, the checksum in pieces, `remove_prefix`, each against its definition | hold |
| `sender` | `MCSender` | eleven properties of the sender; closed form = recursion | hold |
| `reassembler` | `MCReassembler` | order, completeness, counting, end of the stream | hold |
| `pair_data` | `MCPair`, `PairData` | two connections implement two reliable streams; acknowledged means received | hold |
| `pair_close` | `MCPair`, `PairClose` | the same with ends; done means delivered, flow control, official states, states only advance, every closed connection ends | hold |
| `adapters` | `MCAdapterNet`, `AdapterNet` | what an adapter returns is what the peer wrote, undamaged; it binds once, to the sender of a SYN | hold |
| `lab7` | `MCLab7`, `Lab7` | no datagram lost or doubled; one that waits has been asked for; hosts that try again get through | hold |
| `socket` | `SocketProgram` | bytes copied in order, no exception, threads end when and only when they should | hold |
| `pair_fin` | `MCPair`, `PairFin` | acknowledged means received, with a FIN and a loss | violated |
| `pair_flow` | `MCPair`, `PairFlow` | nothing beyond the receiver's capacity, with reordering | violated |
| `network_simulator` | `NetworkSimulator` | all datagrams are routed as the program expects | violated |
| `socket_rst` | `SocketProgram`, `SocketRst` | destroying an open socket sends a RST | violated |

The violations are places where the code and a comment, a test or a program of the
repository disagree; `PROJECT.json` quotes each line. They also delimit the passing runs:

- `pair_data` has no FIN, because with one an early FIN is acknowledged too far
  (`pair_fin`); `pair_close` has FINs, and data only where nothing is lost.
- `FlowControl` is about networks that keep order, because an overtaken acknowledgment
  brings back an old window (`pair_flow`).
- `EndsOnlyWhenFinished` and `ProgramEnds` say nothing of what a destroyed socket has
  delivered.

Disagreements that were met and have no run of their own:

- An empty segment that overtakes the FIN or data ends the reassembler's output early,
  the defect of `pair_fin` seen from below. `reassembler` has a peer that repeats its
  segments as they were and whose empty segments do not pass its FIN or its data;
  with `EmptyReordered = TRUE`, `EndsAtTheEnd` fails.
- The passive closer clears its linger flag one segment late (`tcp_connection.cc:43`;
  the repository's test `fsm_passive_close` fails). `OfficialButForLinger` allows the late
  flag in CLOSE_WAIT and no other summary that is not official. A side that closes while the flag
  is late goes on through CLOSING and TIME_WAIT instead of LAST_ACK and CLOSED; each of
  these is official, so the property does not tell them apart. `EventuallyOver` says that the
  connection ends all the same.
- A probe of a closed window backs off (`tests/send_extra.cc:309` says it should not).
  `BackoffMatchesRetries` asks for the doubling only where the window is open.
- The reassembler counts its limit from the first byte not written, not from the first not
  read, so the byte with which a full receiver is probed is stored, beyond the capacity that
  `stream_reassembler.hh:41-48` documents. `NothingLost` asks for the bytes within that
  capacity, and leaves this one open.
- The first datagram to a neighbour may cause no ARP request, where `tests/net_interface.cc:66`
  expects one: it depends on what lies past the end of a list. `AskedUnlessBeyond` says
  when it is sent, and `Reaches` that hosts which try again get through all the same.
- A RST kills a connection in LISTEN, where `tests/fsm_ack_rst.cc:123` says "all RSTs should
  be ignored". The adapters let none through to a listening connection (`BindsOnce`).
- `IPv4Datagram::parse` drops what its header's parse returned (`ipv4_datagram.cc:13`). The
  header's own checks find every flipped bit outside the header length
  (`HeaderDamageSeen`; with a wrong length the checksum is taken of other bytes), and although
  they are ignored no damaged segment gets through (`Untouched`), because the TCP checksum
  covers what TCP uses of them. A wrong header length moves the start of the segment instead, and
  that none of the run's segments is then accepted is a fact about these segments.

### Bounds

The sequence spaces are 8, 16 and 20, and initial numbers are chosen so that the
streams wrap. In `sender`, windows 0 to 5, payloads up to 2 and a stream of 5 bytes give
zero windows, shrinking windows, three segments at once, full buffers and
acknowledgments in the middle of a segment; the peer acknowledges any of the 20 numbers
with any window.
One retry more than `MAX_RETX_ATTEMPTS` is enough for the timeout to double and be
reset. In `reassembler`, 8 bytes with a capacity of 6 allow three separate pieces, a
full output and a partly written piece. In the pair, up to three bytes of one side, a
receiver of two, one loss and one duplicate give a retransmission that crosses its
own acknowledgment, and a full window. `pair_data` has two segments with data under way at
once. In one setting, two bytes with a loss, the clock does not wait for them; in the other, three bytes
with a loss and a duplicate, it does. So data overtakes data, fills a gap left before it, and
arrives twice. `pair_close` has no duplicates of the network's making, only
retransmissions, and data only where nothing is lost. `MaxNet` bounds the segments under way that no
segment has set off; answers are never blocked. A setting of `MCPair` (how much is written,
who closes, what the network does) is chosen at the start, so that one run covers several.

In `algorithms`, addresses have 2 bits and tables 3 routes: every prefix length
including none and all, overlapping and equal prefixes, bits set past the prefix. The
checksum and the buffers have up to 3 pieces of up to 3 bytes, so every mixture of odd,
even and empty pieces, with a byte that carries. In `adapters`, two or three segments
among three hosts (a SYN, a SYN that resets, data of an odd length), one lost segment, one
flipped bit at any place of any datagram, one tick past the ARP timeout. In `lab7`,
mappings live for one unit of time and requests are repeated after it. Where it is calm, two
units pass by each of the four clocks, apart from one another, and each host sends three
datagrams: every mapping expires once, and a request is dropped by the relay, answered late and
repeated. Where it is not, two datagrams of one host and one of the other meet any order of
steps while the routers' clocks pass two units and one. `Beyond` has values that pass for a recent
request and one that does not. In `socket`, pipes hold one byte, so each write of two is
partial; the owner connects or accepts, destroys the socket at any moment, or the peer
resets the connection at any moment.

### Fairness

`pair_close` uses `FairSpec` of `TCPPair`: the loop of each side keeps running
(`wait_next_event` returns after 10 ms at the latest, and `_tcp_loop` then ticks an
active connection), the applications keep writing, closing and reading, and what is
under way is delivered or is one of the few segments lost. The weak-fairness conditions
are written out with their enabling conditions because TLC takes exponential time over the
`ENABLED` of these actions. `Prompt` says that delivery and reading outrun the 10 ms
clock; without it the retry limit may reset a connection, which `EventuallyOver` allows
there.

`lab7` and `socket` say `[]<>Over`, where `Over` is a state in which nothing is left to do.
No behaviour of these two can go on for ever without coming to one, so this says that
the threads are scheduled, the network delivers and the peer acts while they have
something to do, and no more. `Idle` in `SocketProgram` and the variable `calm` in `Lab7` say
that the clocks are slower than the steps. In `lab7` that holds of frames only: a site's first
message to the relay may come as late as just before the last unit of time (`Passes`), so the
relay drops requests of a host that was early, and has to have heard both sites by the time of
the last try. The other half of `lab7` has no such condition, and its two invariants hold
there too.

### Refinement

`ReliableStream` is what two connections promise: each writer writes and closes; bytes
arrive in order, and the end with or after the last; the reader takes what has arrived.
`TCPPair!ImplementsStreams` maps each direction's stream to the sender's outbound and the
other side's inbound stream. Everything else (segments, windows, timers, losses, resets)
must be a stutter of it or one of its steps. `pair_data` checks it with loss, duplication
and reordering, `pair_close` with FINs in three kinds of network.

## Proofs

Check with `tlapm M.tla`. The theorems hold for every value of the constants that the
named assumptions allow:

- any `SeqSpace` above zero; any payload size and timeout above zero; any send capacity,
  stream bound and tick sizes;
- a largest window such that twice window, payload and two numbers fit the sequence space
  (`SenderAssumption`; 2^16 and 2^32 in the code). An acknowledgment carries a window of at
  most `MaxWindow`, as its field has 16 bits, and a receive capacity is above zero and at
  most `MaxWindow` (`PairAssumption`; 64000 in the code);
- a `size_t` at least as large as the sequence space (`ReceiverAssumption`), and for the
  reassembler alone one that stream and capacity fit (`ReassemblerAssumption`);
- for `Lab7` two different sites, any lives of mappings and requests, any number of
  datagrams, of first messages to the relay and of units of time, and any `Beyond`. Addresses
  have four bits there (`Lab7Assumption`), because the module's networks are written so.

### Sequence numbers, routes, strings

`SenderLemmas!UnwrapWrap`: `wrap` stays in range and `unwrap` inverts it within half a
sequence space of the checkpoint. `SpecProofs` proves the four invariants of run
`algorithms`, for every sequence space, width of addresses, table and string:

- `UnwrapCorrect`: what `unwrap` returns wraps to its argument, and no number that does is
  closer to the checkpoint.
- `RouterCorrect`: the loop of `longest_prefix_match` takes the first of the most specific
  routes. That the code's shifts compare what the networks say (`MatchesIsNetwork`) is
  arithmetic of quotients and powers of two; that the loop keeps the best of the routes
  seen so far (`TurnBest`) is its invariant.
- `PrefixRemoved`: after each turn of `remove_prefix` what is left and the number of bytes
  still to go add up to the same string (`ShortenStep`), and a turn for each piece is enough.
- `ChecksumCorrect`: adding two pieces one after the other is adding their concatenation
  (`AddJoin`), whatever the parity the first leaves (`OddSum`); the sum of one string differs
  from that of its words by nothing (`WordSumIs`); and two end-around carries bring any sum of
  a string of at most 65535 bytes below 2^16 (`SumBound`, `ValueCompletes`). That bound
  is the length field of an IPv4 header and the reason for `AlgorithmsAssumption`; it keeps
  the sum below 2^32 too.

The library's induction theorems take an operator, which the provers cannot instantiate.
`InductUpTo` and `RecurseUpTo` take a set instead (it contains 0 and with each number below
a bound the next; a function is what its recursive definition says). Loops are therefore
written as recursive functions. `ReassemblerLemmas`, `SenderProofs` and `NetworkProofs`
each prove what they need of these, as none can extend another: the specifications the last
two are about are both called `Spec`.

### The sender

`SenderProofs!Invariance`. The properties of the sender are not inductive. What is missing
is that the buffer holds the bytes after those read, that any two queued segments (not
only neighbours) are in order, that every queued segment is short enough for `unwrap` to
be exact, and that a FIN carries the last number; `Inv` adds these. `SenderLemmas` has a
lemma for each operation: what `fill_window` sends (`FillRun`), what the pop loop leaves
(`AckedPrefixExists`, `QueueDrop`), and one preservation lemma for each of `fill_window`,
`ack_received`, `tick`, `send_empty_segment` and the writes.

From `Inv` follow the invariants `TypeOK`, `TimerTracksFlight`, `UnackedTiles`,
`SequenceSpaceAccounted`, `SegmentsCarryTheirBytes` and `FlightBounded`, and the action
properties `SendsWithinWindow`, `SendsNewOrOldest` and `FillsTheWindow`. The last needs that
`fill_window` leaves nothing behind (`FillFills`) and that an acknowledgment of the number
already acknowledged changes the window and nothing else before it fills (`RepeatedAck`).

`BackoffMatchesRetries` needs two facts more. The timeout is the initial one doubled once for
every retransmission counted (`Backoff`), for which a timer that does not run must have none to its
count: `fill_window`, when it starts a timer that is off, resets the timeout but not the count.
And a step leaves the count, adds one, or clears it with an acknowledgment of something new
(`StepCounted`). That 2^n doubles with n is proved by counting subsets (`PowerOfTwo`).

`ClosedFormCorrect` says that the closed form of `fill_window` is what the recursion
computes, for whatever is written and whatever window is in force. `OnceIs` is one call as
the closed form for one segment; `FillUnfold` that the closed form is one call followed by the
closed form of what is left, segment for segment (`RestSizes`, `RestSegments`); `FillLoopIs`
that no more than a window of calls can send anything, since each but the last takes a number
of it.

### The reassembler

`SpecProofs` also proves all five invariants of run `reassembler`. `StoreInv` says of the
store what `StoreWellFormed` says of neighbours for any two pieces, and of the output that it
is the stream's bytes; the indices written or stored are exactly those pushed, and the counter is the number of
those stored. The proof follows `push_substring`: a join of two pieces that touch covers
both and reads no byte past an end (`JoinGood`), one round of the loop keeps the pieces
apart and the count exact (`PlaceStep`), the loop does by induction (`VisitedInv`), and then
the push back, the two trims and the write. `TrimBack` finds nothing to cut when the
peer keeps to the window (`TrimBackSame`), so all that was pushed is written or stored, and
with it what was pushed within the capacity, which is `NothingLost`.

`EndsAtTheEnd` is proved for `~EmptyReordered`, the peer of the run; with an empty segment
that overtakes the FIN or data it is false (above). Its strengthening `FinInv` relates the
stored FIN flag to what the peer has sent.

### Streams and the pair

`SpecProofs!StreamsInOrder`: in `ReliableStream` what a reader has been given is a
prefix of what was written, and all of it once the stream has ended, for any set of
writers and streams of any length.

`PairProofs`: two connections over a network that loses, repeats and reorders as it likes
satisfy `AckedIsReceived` (`AckedReceived`) and implement `ReliableStream`
(`PairImplementsStreams`). Both have one hypothesis, `StreamsStayOpen`: no side ends its
stream, and a stream is shorter than half the sequence space. The first part is what
`pair_data` has, and cannot be dropped from `AckedReceived`: with a FIN it is false
(`pair_fin`). The second is what TCP gets from the life time of a segment: this network may
deliver a segment after any delay, and one that is half a sequence space late would pass
for a new one.

The invariant `PairInv` sees each endpoint together with what it needs of the other: its
sender satisfies `Inv`, has at most `RecvCapacity` in flight, and counts no number as
acknowledged beyond what the other receiver would acknowledge; its reassembler holds only
bytes the other has sent; every segment, queued or under way, has the bytes its number
names, numbers its sender has counted, and an acknowledgment its receiver has earned. That
the acknowledgments under way stay true is why the counters must only grow; that what is
delivered late is understood is why `unwrap` must be exact for every number sent so far.
Each operation of the connection has a lemma in `EndpointLemmas` (`ConnectOK`, `WriteOK`,
`TickOK`, `ReceivedOK`, `ReadOK`, resets included), and each action a step of `NextPair` in
`PairLemmas`. These two modules know the sender and the reassembler only by `Parts`, the
facts they need of them, and `PairProofs!PartsHold` derives that from the lemmas of the two
components. For the
refinement a write is a `Write` of `ReliableStream`, a read a `Take`, every other step of an
endpoint an `Arrive` of as many bytes as its reassembler wrote, and a step of the network a
stutter.

### The network of lab7

`NetworkProofs` proves both invariants of run `lab7`: `OneCopyOfEach` (`LabKeepsDatagrams`)
and `AskedUnlessBeyond` (`LabAsks`), `calm` or not.

`OneCopyOfEach` counts datagrams, and a count is kept only where nothing is ever misdirected.
So `NetInv` first says what can be where (`SiteOK`): on each link an interface has one
neighbour, and its mappings, its requests and whatever waits are for that neighbour; a frame
carries a datagram only from one neighbour to the other, addressed to it; datagrams of a
host are only on the way to the other host; nothing with a datagram in it is under way to a
site the relay has not heard from, because a router can only have learnt the other router's
address from a frame that the relay passed on. The last fact is what makes the relay's
dropping of frames harmless: what it drops is a request or an empty message
(`CarriesNothing`). `Tally` then counts every datagram, sent or not yet sent, and all of them
together.

Every operation has a lemma that says what it does to the number of datagrams of any set
`E`: `send_datagram` adds one, waiting or in a frame (`SendOK`); a reply releases exactly what
waited for its sender, and a request or a stray frame nothing (`ReleaseOK`, `RecvOK`); the
router sends a datagram out on the side where its receiver is (`RouteOK`, which rests on the
choice of a route, `MatchOK`); time changes no list's length (`TickOK`). Each action of `Next`
then leaves the number as it was, except `Write`, which adds the datagram it sends
(`HostToRouterStep` to `RelayStep`). `NetworkInvariant` puts them together. That a
datagram which waits has been asked for is part of the same lemmas, because a request and
what waits for it appear and disappear in the same operations. What lies behind a list only
gets older (`WellAsked`), so it suffices to know that it was too old at the start (`behind`).

### Only model-checked

- `Reaches`, `EventuallyOver` and `ProgramEnds`: liveness under fairness is out of the
  prover's reach.
- `DoneMeansDelivered`, `FlowControl`, `OfficialButForLinger`, `StatesOnlyAdvance`, and
  `ImplementsStreams` with ends: `PairInv` is about open streams. With a FIN what is
  acknowledged need not be received, so these need another invariant.
- The properties of the adapters, and of the socket and its threads: no proof was
  attempted.

## Not modelled

- `webget` (one socket, a fixed sequence of calls), `tcp_benchmark` (measures time), `tun`
  and `udp_tcpdump` (print what they receive), `tcp_native` (the stream copy over the
  kernel's TCP), and the command lines of all programs.
- System-call wrappers that only pass their arguments on: socket options, name
  resolution, devices, clocks. Those the event loop relies on are in `FileDescriptor`,
  with pipes and the socket pair as external parts.
- The printed forms of headers and states, and exceptions for header fields the stack
  never sets.
- Sharing of storage between buffers. `Buffer` is immutable, so it cannot be observed.
- Signals that interrupt `poll`, and system calls that fail for want of resources.
- The overflow of 64-bit absolute numbers, and windows above 2^16 (the default capacity is
  64000).

Next for the proofs: the refinement of `ReliableStream` for streams that end, and that the
states of a connection only advance.
