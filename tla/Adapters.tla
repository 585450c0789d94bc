------------------------------ MODULE Adapters ------------------------------
(***************************************************************************)
(* The adapters between TCP segments and what carries them: UDP datagrams  *)
(* (tcp_helpers/fd_adapter), IPv4 datagrams of a TUN device (tcp_over_ip,  *)
(* tuntap_adapter) and Ethernet frames of a TAP device (tuntap_adapter,    *)
(* with a NetworkInterface), each as LossyFdAdapter wraps it.              *)
(*                                                                         *)
(* An adapter is its configuration, whether it is listening, its interface *)
(* and the next hop it was constructed with (Ethernet only) and, in out,   *)
(* what it has just written to its file descriptor: an item has its bytes  *)
(* and, for UDP, the address they go to.                                   *)
(***************************************************************************)
EXTENDS NetworkInterface, Wire

Address(ip, port) == [ip |-> ip, port |-> port]

NoAddress == Address(<<0, 0>>, 0)

NewAdapter(kind, source, destination, interface, next_hop) ==
    [kind |-> kind, source |-> source, destination |-> destination, listening |-> FALSE,
     interface |-> interface, next_hop |-> next_hop, out |-> <<>>]

\* listen_and_accept makes the adapter listen.
set_listening(a, l) == [a EXCEPT !.listening = l]

\* What read returns: the adapter it leaves behind, and the segment, if any.
Nothing(a) == [a |-> a, seg |-> <<>>]
Segment(a, seg) == [a |-> a, seg |-> <<seg>>]

Opens(seg) == Has(seg, SYN) /\ ~Has(seg, RST)

\* Mutant: any segment opens a connection.
MutantUdpAccept(a, source_address, r) ==
    IF (~a.listening /\ source_address # a.destination) \/ r.res # "NoError" THEN Nothing(a)
    ELSE IF ~a.listening THEN Segment(a, r.seg)
    ELSE Segment([a EXCEPT !.destination = source_address, !.listening = FALSE], r.seg)

\* What read does with a datagram that has been parsed, with the result r.
UdpAccept(a, source_address, r) ==
    IF (~a.listening /\ source_address # a.destination) \/ r.res # "NoError" THEN Nothing(a)
    ELSE IF ~a.listening THEN Segment(a, r.seg)
    ELSE IF Opens(r.seg)
    THEN Segment([a EXCEPT !.destination = source_address, !.listening = FALSE], r.seg)
    ELSE Nothing(a)

udp_read(a, source_address, payload) == UdpAccept(a, source_address, tcp_parse(payload, 0))

WithPorts(a, seg) == [seg EXCEPT !.sport = a.source.port, !.dport = a.destination.port]

udp_write(a, seg) ==
    [a EXCEPT !.out = <<[to |-> a.destination, bytes |-> tcp_serialize(WithPorts(a, seg), 0)]>>]

-----------------------------------------------------------------------------
\* Mutant: the address that was contacted is not kept as the source of the replies.
MutantBind(a, h, seg) ==
    [a EXCEPT !.destination = Address(h.src, seg.sport), !.listening = FALSE]

Bind(a, h, seg) ==
    [a EXCEPT !.source = Address(h.dst, @.port), !.destination = Address(h.src, seg.sport),
              !.listening = FALSE]

\* Mutant: the addresses are checked only while listening.
MutantAccept(a, h, r) ==
    IF \/ a.listening /\ a.source.ip # <<0, 0>> /\ h.dst # a.source.ip
       \/ h.proto # PROTO_TCP
       \/ r.res # "NoError"
       \/ r.seg.dport # a.source.port
       \/ a.listening /\ ~Opens(r.seg)
    THEN Nothing(a)
    ELSE IF a.listening THEN Segment(Bind(a, h, r.seg), r.seg)
    ELSE IF r.seg.sport # a.destination.port THEN Nothing(a) ELSE Segment(a, r.seg)

\* What unwrap_tcp_in_ip does with a payload that has been parsed, with the result r.
Accept(a, h, r) ==
    IF \/ ~a.listening /\ (h.dst # a.source.ip \/ h.src # a.destination.ip)
       \/ h.proto # PROTO_TCP
       \/ r.res # "NoError"
       \/ r.seg.dport # a.source.port
       \/ a.listening /\ ~Opens(r.seg)
    THEN Nothing(a)
    ELSE IF a.listening THEN Segment(Bind(a, h, r.seg), r.seg)
    ELSE IF r.seg.sport # a.destination.port THEN Nothing(a) ELSE Segment(a, r.seg)

unwrap_tcp_in_ip(a, h, payload) == Accept(a, h, tcp_parse(payload, pseudo_cksum(h)))

\* The IPv4 datagram a segment becomes, serialized.
wrap_tcp_in_ip(a, seg) ==
    LET h == [IPv4Header EXCEPT !.src = a.source.ip, !.dst = a.destination.ip,
                                !.len = 4 * hlen(IPv4Header) + 4 * seg.doff + Len(seg.payload)]
    IN  ipv4_serialize(h, tcp_serialize(WithPorts(a, seg), pseudo_cksum(h)))

\* TCPOverIPv4OverTunFdAdapter.
FromDatagram(a, ip) ==
    IF ip.res # "NoError" THEN Nothing(a) ELSE unwrap_tcp_in_ip(a, ip.h, ip.payload)

tun_read(a, bytes) == FromDatagram(a, ipv4_parse(bytes))

tun_write(a, seg) == [a EXCEPT !.out = <<[bytes |-> wrap_tcp_in_ip(a, seg)]>>]

-----------------------------------------------------------------------------
\* TCPOverIPv4OverEthernetAdapter.  The interface's frames have Ethernet addresses and types
\* of their own, given their bytes here.
EthernetBytes(eth) ==
    [i \in 1 .. 6 |-> CASE eth = Zero -> 0 [] eth = Broadcast -> 255 [] OTHER -> IF i = 1 THEN 2 ELSE eth]

EthernetOf(bytes) ==
    CASE bytes = EthernetBytes(Zero) -> Zero
      [] bytes = EthernetBytes(Broadcast) -> Broadcast
      [] OTHER -> bytes[6]

TypeOf == [IPv4 |-> TYPE_IPv4, ARP |-> TYPE_ARP, none |-> 0]
OpcodeOf == [request |-> OPCODE_REQUEST, reply |-> OPCODE_REPLY]

ArpBytes(frame) ==
    LET msg == frame.payload
        target == IF msg.opcode = "reply" THEN frame.dst ELSE Zero
    IN  arp_serialize([hardware_type |-> 1, protocol_type |-> TYPE_IPv4,
                       hardware_address_size |-> 6, protocol_address_size |-> 4,
                       opcode |-> OpcodeOf[msg.opcode],
                       sender_ethernet_address |-> EthernetBytes(msg.sender_eth),
                       sender_ip_address |-> msg.sender_ip,
                       target_ethernet_address |-> EthernetBytes(target),
                       target_ip_address |-> msg.target_ip])

FrameBytes(frame) ==
    frame_serialize([dst |-> EthernetBytes(frame.dst), src |-> EthernetBytes(frame.src),
                     type |-> TypeOf[frame.type],
                     payload |-> IF frame.type = "ARP" THEN ArpBytes(frame) ELSE frame.payload])

ArpMessage(msg) ==
    [opcode |-> CHOOSE o \in DOMAIN OpcodeOf : OpcodeOf[o] = msg.opcode,
     sender_ip |-> msg.sender_ip_address, sender_eth |-> EthernetOf(msg.sender_ethernet_address),
     target_ip |-> msg.target_ip_address]

\* A frame read, as the interface takes it; one with neither type, or with no valid ARP
\* message, it ignores.
AsFrame(f) ==
    LET AFrame(type, payload) == Frame(EthernetOf(f.src), EthernetOf(f.dst), type, payload)
    IN  CASE f.type = TYPE_IPv4 -> AFrame("IPv4", f.payload)
          [] f.type = TYPE_ARP /\ arp_parse(f.payload).res = "NoError" ->
               AFrame("ARP", ArpMessage(arp_parse(f.payload).msg))
          [] OTHER -> AFrame("none", f.payload)

FrameOf(bytes) == AsFrame(frame_parse(bytes))

\* The constructor sends a blank frame first.
DummyFrame == FrameBytes(Frame(Zero, Zero, "none", <<>>))

send_pending(a) ==
    [a EXCEPT !.out = [i \in DOMAIN a.interface.frames_out |->
                         [bytes |-> FrameBytes(a.interface.frames_out[i])]],
              !.interface.frames_out = <<>>]

ReadFrame(a, frame) ==
    LET b == send_pending([a EXCEPT !.interface = recv_frame(@, frame)])
    IN  IF Returned(a.interface, frame) = <<>> THEN Nothing(b)
        ELSE FromDatagram(b, ipv4_parse(frame.payload))

eth_read(a, bytes) == ReadFrame(a, FrameOf(bytes))

eth_write(a, seg) ==
    send_pending([a EXCEPT !.interface = send_datagram(@, wrap_tcp_in_ip(a, seg), a.next_hop)])

eth_tick(a, ms) == send_pending([a EXCEPT !.interface = tick_interface(@, ms)])

-----------------------------------------------------------------------------
\* LossyFdAdapter: what is read is dropped after the adapter below has read it, what is
\* written before the adapter below sees it.

AdapterRead(a, source_address, bytes) ==
    CASE a.kind = "udp" -> udp_read(a, source_address, bytes)
      [] a.kind = "tun" -> tun_read(a, bytes)
      [] a.kind = "eth" -> eth_read(a, bytes)

Lossy(r, drop) == IF drop THEN Nothing(r.a) ELSE r

LossyRead(a, source_address, bytes, drop) == Lossy(AdapterRead(a, source_address, bytes), drop)

AdapterWrite(a, seg) ==
    CASE a.kind = "udp" -> udp_write(a, seg)
      [] a.kind = "tun" -> tun_write(a, seg)
      [] a.kind = "eth" -> eth_write(a, seg)

LossyWrite(a, seg, drop) == IF drop THEN a ELSE AdapterWrite(a, seg)
=============================================================================
