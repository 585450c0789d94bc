----------------------------- MODULE AdapterNet -----------------------------
(***************************************************************************)
(* Three hosts with an adapter each: one that listens or connects, the     *)
(* peer it may connect to, and another that also writes to it.  What they  *)
(* write is under way until it is read, in any order; once, a bit of what  *)
(* goes over UDP or IPv4 may flip.  What comes out of an adapter is        *)
(* compared with what went in.                                             *)
(***************************************************************************)
EXTENDS Adapters

CONSTANTS Us, Peer, Other,   \* the hosts
          IP, Port, Eth,     \* of each its address, as numbers
          Segments,          \* what TCP may write
          MaxWrites,         \* how many of them; one less over Ethernet or if a bit may flip
          Beyond             \* see NewInterface

Hosts == {Us, Peer, Other}

VARIABLES scene,      \* the kind of adapter, whether we listen, whether a bit may flip
          adapter,    \* of each host
          net,        \* what is under way
          written,    \* the segments written, by whom and to whom
          got,        \* the segments read, by whom and from whom
          events,     \* how much was written; whether a bit flipped, a coin dropped, time passed
          header_ok   \* of the damaged IPv4 datagram: the part hurt, and its header's verdict

vars == <<scene, adapter, net, written, got, events, header_ok>>

At(h) == Address(IP[h], Port[h])

\* A client over UDP leaves its source unset; a server does not know its own address.  The
\* next hop is the host one expects to talk to.
InitialAdapter(s, h, beyond) ==
    LET interface == NewInterface(Eth[h], IP[h], beyond)
        listens == h = Us /\ s.listens
        source == IF listens THEN Address(<<0, 0>>, Port[h])
                  ELSE IF s.kind = "udp" THEN NoAddress ELSE At(h)
        partner == IF h = Us THEN Peer ELSE Us
        destination == IF listens THEN NoAddress ELSE At(partner)
    IN  set_listening(NewAdapter(s.kind, source, destination, interface, IP[partner]), listens)

\* What a host wrote: it goes to the host, or over Ethernet the hosts, it is for.
Carried(h, out) ==
    LET to(item) == IF scene.kind = "udp" THEN {x \in Hosts : At(x) = item.to}
                    ELSE IF scene.kind = "tun"
                    THEN {x \in Hosts : IP[x] = ipv4_parse(item.bytes).h.dst}
                    ELSE {x \in Hosts \ {h} : ForMe(adapter[x].interface, FrameOf(item.bytes))}
    IN  UNION {{[to |-> x, from |-> h, bytes |-> out[i].bytes] : x \in to(out[i])} :
                 i \in DOMAIN out}

Init ==
    /\ scene \in [kind : {"udp", "tun", "eth"}, listens : BOOLEAN, noise : BOOLEAN]
    /\ scene.noise => scene.kind # "eth"
    /\ \E beyond \in IF scene.kind = "eth" THEN Beyond ELSE {ArpWait + 1} :
         adapter = [h \in Hosts |-> InitialAdapter(scene, h, beyond)]
    /\ net = IF scene.kind # "eth" THEN {}
             ELSE {[to |-> Us, from |-> Peer, bytes |-> DummyFrame]}
    /\ written = {} /\ got = {}
    /\ events = [writes |-> 0, flipped |-> FALSE, dropped |-> FALSE, ticked |-> FALSE]
    /\ header_ok = [hurt |-> "nothing", res |-> "none"]

\* The adapter of h becomes a, and what it wrote is under way.
Becomes(h, a, rest) ==
    /\ adapter' = [adapter EXCEPT ![h] = [a EXCEPT !.out = <<>>]]
    /\ net' = rest \cup Carried(h, a.out)

Plain(seg) == [seg EXCEPT !.cksum = 0]

\* What LossyFdAdapter may decide; frames do not pass through one.
Coin == IF scene.kind = "eth" \/ scene.noise THEN {FALSE} ELSE BOOLEAN

WriteLimit == IF scene.kind = "eth" \/ scene.noise THEN MaxWrites - 1 ELSE MaxWrites

\* TCP writes a segment; while its adapter listens it has nothing to write.
Write(h) ==
    /\ events.writes < WriteLimit /\ ~adapter[h].listening
    /\ \E seg \in Segments, drop \in Coin :
         /\ Becomes(h, LossyWrite(adapter[h], seg, drop), net)
         /\ written' = written \cup {[from |-> h, to |-> adapter[h].destination,
                                      seg |-> Plain(WithPorts(adapter[h], seg))]}
         /\ events' = [events EXCEPT !.writes = @ + 1, !.dropped = @ \/ drop]
    /\ UNCHANGED <<scene, got, header_ok>>

Flipped(byte, bit) ==
    IF (byte \div 2 ^ bit) % 2 = 1 THEN byte - 2 ^ bit ELSE byte + 2 ^ bit

\* The adapter's descriptor is readable and its read is called.
ReadBytes(d, bytes, drop) ==
    \E r \in {LossyRead(adapter[d.to], At(d.from), bytes, drop)} :
        /\ Becomes(d.to, r.a, net \ {d})
        /\ got' = got \cup {[host |-> d.to, from |-> d.from, seg |-> Plain(r.seg[i])] :
                              i \in DOMAIN r.seg}
        /\ UNCHANGED <<scene, written>>

Read(d) ==
    /\ \E drop \in Coin :
         /\ ReadBytes(d, d.bytes, drop)
         /\ events' = [events EXCEPT !.dropped = @ \/ drop]
    /\ UNCHANGED header_ok

\* The part of a datagram a bit is in.
Part(i, bit) == IF i > 20 THEN "payload" ELSE IF i = 1 /\ bit < 4 THEN "hlen" ELSE "header"

\* A bit flipped on the way.
ReadDamaged(d) ==
    /\ scene.noise /\ ~events.flipped
    /\ \E i \in DOMAIN d.bytes, bit \in 0 .. 7 :
         LET bytes == [d.bytes EXCEPT ![i] = Flipped(@, bit)]
         IN  /\ ReadBytes(d, bytes, FALSE)
             /\ header_ok' = IF scene.kind # "tun" THEN header_ok
                             ELSE [hurt |-> Part(i, bit), res |-> ipv4_header_parse(Parser(bytes)).res]
    /\ events' = [events EXCEPT !.flipped = TRUE]

\* Every adapter's tick is called, once, after longer than a request is waited for.
Tick ==
    /\ scene.kind = "eth" /\ ~events.ticked
    /\ LET ticked == [h \in Hosts |-> eth_tick(adapter[h], ArpWait + 1)]
       IN  /\ adapter' = [h \in Hosts |-> [ticked[h] EXCEPT !.out = <<>>]]
           /\ net' = net \cup UNION {Carried(h, ticked[h].out) : h \in Hosts}
    /\ events' = [events EXCEPT !.ticked = TRUE]
    /\ UNCHANGED <<scene, written, got, header_ok>>

Next ==
    \/ \E h \in Hosts : Write(h)
    \/ \E d \in net : Read(d) \/ ReadDamaged(d)
    \/ Tick

Spec == Init /\ [][Next]_vars

-----------------------------------------------------------------------------
\* Every segment an adapter returns is one that was written to its host, with every field and
\* byte as it was: a flipped bit anywhere in the segment, or in the part of the IPv4 header
\* TCP relies on, makes tcp_segment.cc refuse it, even though IPv4Datagram::parse ignores
\* what its header's checksum says.  A flipped bit of hlen moves the start of the segment,
\* and whether what is left adds up depends on its words; for the segments here it does not.
Untouched ==
    \A g \in got : \E w \in written : w.seg = g.seg /\ w.from = g.from

\* Every segment an adapter returns comes from the host its replies go to, whoever else
\* writes to it before or after: the checks of fd_adapter.cc and tcp_over_ip.cc.
OnlyThePeer ==
    \A g \in got : adapter[g.host].destination = At(g.from)

\* When everything under way has been read and no fault happened, every segment a connected
\* pair of hosts wrote has been returned: what one adapter writes the other accepts, also the
\* replies of a server that learnt its own address and its client's from the SYN.  Over
\* Ethernet that takes a client who is the server's next hop.
Delivered ==
    (/\ net = {} /\ ~events.flipped /\ ~events.dropped
     /\ \A h \in Hosts : adapter[h].interface.unsent = <<>>)
    => \A w \in written :
         LET to == CHOOSE h \in Hosts : At(h) = w.to
         IN  (/\ w.from = Us \/ (~scene.listens /\ w.from = Peer)
              /\ scene.kind # "eth" \/ adapter[w.from].next_hop = w.to.ip)
             => [host |-> to, from |-> w.from, seg |-> w.seg] \in got

\* An adapter changes its destination only when it stops listening, to the sender of an
\* intact SYN that is no reset, and never again: set_listening(false) goes with the binding.
BindsOnce ==
    [][\A h \in Hosts :
         (adapter[h].destination # adapter'[h].destination \/ adapter[h].listening # adapter'[h].listening)
         => /\ adapter[h].listening /\ ~adapter'[h].listening
            /\ \E w \in written : At(w.from) = adapter'[h].destination /\ Opens(w.seg)]_vars

\* The parser of an IPv4 header refuses one with a flipped bit, in whichever field but hlen it
\* is, and accepts one before a damaged payload: the checks of ipv4_header.cc together miss
\* none.  A greater hlen has part of the payload summed with the header, and what that gives
\* depends on the payload.
HeaderDamageSeen ==
    /\ header_ok.hurt = "header" => header_ok.res # "NoError"
    /\ header_ok.hurt = "payload" => header_ok.res = "NoError"
=============================================================================
