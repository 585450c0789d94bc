-------------------------------- MODULE Wire --------------------------------
(***************************************************************************)
(* What goes over the wire: libsponge/util/parser, and the parse and       *)
(* serialize of TCP segments, IPv4 datagrams, Ethernet frames and ARP      *)
(* messages.                                                               *)
(*                                                                         *)
(* A byte is a number below 256.  An integer of 32 bits is the pair of its *)
(* halves, TLC's being too short for it; an Ethernet address is its six    *)
(* bytes.  A header is a record of the fields its layout lists, each with  *)
(* its width in bytes.                                                     *)
(***************************************************************************)
EXTENDS Buffers, SequencesExt, TLC

\* NetParser.
Parser(bytes) == [buf |-> bytes, err |-> "NoError"]

check_size(p, n) == IF n > Len(p.buf) THEN [p EXCEPT !.err = "PacketTooShort"] ELSE p

Failed(p) == p.err # "NoError"

\* NetParser::remove_prefix.
skip(p, n) ==
    LET q == check_size(p, n)
    IN  IF Failed(q) THEN q ELSE [q EXCEPT !.buf = SubSeq(@, n + 1, Len(@))]

\* Of one byte or two.
Number(bytes) == IF Len(bytes) = 1 THEN bytes[1] ELSE bytes[1] * 256 + bytes[2]

Token(bytes) ==
    CASE Len(bytes) = 4 -> <<Number(SubSeq(bytes, 1, 2)), Number(SubSeq(bytes, 3, 4))>>
      [] Len(bytes) = 6 -> bytes
      [] OTHER          -> Number(bytes)

\* After an error every token is zero.
parse_int(p, len) ==
    IF Failed(check_size(p, len)) THEN Token([i \in 1 .. len |-> 0]) ELSE Token(SubSeq(p.buf, 1, len))

\* The fields one after the other, and what is left to parse.
ParseFields(layout, p) ==
    LET rest[i \in 0 .. Len(layout)] == IF i = 0 THEN p ELSE skip(rest[i - 1], layout[i][2])
        index(name) == CHOOSE i \in DOMAIN layout : layout[i][1] = name
        names == {layout[i][1] : i \in DOMAIN layout}
    IN  [p |-> rest[Len(layout)],
         h |-> [name \in names |-> LET i == index(name) IN parse_int(rest[i - 1], layout[i][2])]]

\* NetUnparser: the high byte first.
unparse_int(val, len) == [i \in 1 .. len |-> (val \div 256 ^ (len - i)) % 256]

UnparseToken(val, len) ==
    CASE len = 4 -> unparse_int(val[1], 2) \o unparse_int(val[2], 2)
      [] len = 6 -> val
      [] OTHER   -> unparse_int(val, len)

UnparseFields(layout, h) ==
    FlattenSeq([i \in DOMAIN layout |-> UnparseToken(h[layout[i][1]], layout[i][2])])

\* resize of a serialized header.
Resize(bytes, n) ==
    [i \in 1 .. n |-> IF i <= Len(bytes) THEN bytes[i] ELSE 0]

-----------------------------------------------------------------------------
\* TCP.

TCPLayout == <<<<"sport", 2>>, <<"dport", 2>>, <<"seqno", 4>>, <<"ackno", 4>>, <<"doff", 1>>,
               <<"flags", 1>>, <<"win", 2>>, <<"cksum", 2>>, <<"uptr", 2>>>>

FIN == 1
SYN == 2
RST == 4
ACK == 16
Has(h, flag) == (h.flags \div flag) % 2 = 1

\* The options are skipped.  A data offset that is too short is not an error of the parser.
SkipOptions(s) ==
    IF s.h.doff < 5 THEN s ELSE [s EXCEPT !.p = skip(@, 4 * s.h.doff - 20)]

tcp_header_parse(p) ==
    SkipOptions([ParseFields(TCPLayout, p) EXCEPT !.h.doff = @ \div 16, !.h.flags = @ % 64])

tcp_header_serialize(h) ==
    Resize(UnparseFields(TCPLayout, [h EXCEPT !.doff = @ * 16]), 4 * h.doff)

\* A segment is its header with the payload.
Parsed(s) == [res |-> s.p.err, seg |-> s.h @@ [payload |-> s.p.buf]]

\* Mutant: the checksum is not looked at.
MutantTcpParse(bytes, pseudo_cksum) == Parsed(tcp_header_parse(Parser(bytes)))

\* What the header's parse returns is ignored.
tcp_parse(bytes, pseudo_cksum) ==
    IF value(add(Checksum(pseudo_cksum), bytes)) # 0 THEN [res |-> "BadChecksum"]
    ELSE Parsed(tcp_header_parse(Parser(bytes)))

tcp_serialize(seg, pseudo_cksum) ==
    LET zero == tcp_header_serialize([seg EXCEPT !.cksum = 0])
        check == add(add(Checksum(pseudo_cksum), zero), seg.payload)
    IN  tcp_header_serialize([seg EXCEPT !.cksum = value(check)]) \o seg.payload

-----------------------------------------------------------------------------
\* IPv4.

IPv4Layout == <<<<"first", 1>>, <<"tos", 1>>, <<"len", 2>>, <<"id", 2>>, <<"fo", 2>>,
                <<"ttl", 1>>, <<"proto", 1>>, <<"cksum", 2>>, <<"src", 4>>, <<"dst", 4>>>>

PROTO_TCP == 6

\* The default header: version 4, five words, not to be fragmented.
IPv4Header == [first |-> 69, tos |-> 0, len |-> 0, id |-> 0, fo |-> 16384, ttl |-> 128,
               proto |-> PROTO_TCP, cksum |-> 0, src |-> <<0, 0>>, dst |-> <<0, 0>>]

ver(h) == h.first \div 16
hlen(h) == h.first % 16
payload_length(h) == (h.len - 4 * hlen(h)) % 65536

pseudo_cksum(h) == h.src[1] + h.src[2] + h.dst[1] + h.dst[2] + h.proto + payload_length(h)

\* Mutant: the destination address is left out.
MutantCovered(buf, h) == SubSeq(buf, 1, 16)

\* What the checksum is computed over.
Covered(buf, h) == SubSeq(buf, 1, 4 * hlen(h))

\* The checks of a header s that was parsed from p.
Checked(p, s) ==
    LET h == s.h
        size == Len(p.buf)
        Refused(res) == s @@ [res |-> res]
    IN  IF size < 4 * hlen(h) THEN Refused("PacketTooShort")
        ELSE IF ver(h) # 4 THEN Refused("WrongIPVersion")
        ELSE IF hlen(h) < 5 THEN Refused("HeaderTooShort")
        ELSE IF size # h.len THEN Refused("TruncatedPacket")
        ELSE [p |-> skip(s.p, 4 * hlen(h) - 20), h |-> h,
              res |-> IF value(add(Checksum(0), Covered(p.buf, h))) # 0
                      THEN "BadChecksum" ELSE "NoError"]

ipv4_header_parse(p) ==
    IF Len(p.buf) < 20 THEN [p |-> p, h |-> IPv4Header, res |-> "PacketTooShort"]
    ELSE Checked(p, [ParseFields(IPv4Layout, p) EXCEPT !.h.fo = @ % 32768])

ipv4_header_serialize(h) == Resize(UnparseFields(IPv4Layout, h), 4 * hlen(h))

\* The header's own verdict is dropped: what counts is the length of the payload.
WithPayload(s) ==
    [res |-> IF Len(s.p.buf) # payload_length(s.h) THEN "PacketTooShort" ELSE s.p.err,
     h |-> s.h, payload |-> s.p.buf]

ipv4_parse(bytes) == WithPayload(ipv4_header_parse(Parser(bytes)))

ipv4_serialize(h, payload) ==
    LET zero == ipv4_header_serialize([h EXCEPT !.cksum = 0])
    IN  ipv4_header_serialize([h EXCEPT !.cksum = value(add(Checksum(0), zero))]) \o payload

-----------------------------------------------------------------------------
\* Ethernet and ARP.

EthernetLayout == <<<<"dst", 6>>, <<"src", 6>>, <<"type", 2>>>>

TYPE_IPv4 == 2048
TYPE_ARP == 2054

\* A frame too short for its header keeps the default one, and is no error.
frame_parse(bytes) ==
    LET s == ParseFields(EthernetLayout, Parser(bytes))
        zeros == [i \in 1 .. 6 |-> 0]
    IN  IF Len(bytes) < 14
        THEN [dst |-> zeros, src |-> zeros, type |-> 0, payload |-> bytes]
        ELSE s.h @@ [payload |-> s.p.buf]

frame_serialize(f) == UnparseFields(EthernetLayout, f) \o f.payload

ARPLayout == <<<<"hardware_type", 2>>, <<"protocol_type", 2>>, <<"hardware_address_size", 1>>,
               <<"protocol_address_size", 1>>, <<"opcode", 2>>, <<"sender_ethernet_address", 6>>,
               <<"sender_ip_address", 4>>, <<"target_ethernet_address", 6>>, <<"target_ip_address", 4>>>>

OPCODE_REQUEST == 1
OPCODE_REPLY == 2

supported(m) ==
    /\ m.hardware_type = 1 /\ m.protocol_type = TYPE_IPv4
    /\ m.hardware_address_size = 6 /\ m.protocol_address_size = 4
    /\ m.opcode \in {OPCODE_REQUEST, OPCODE_REPLY}

arp_parse(bytes) ==
    LET Supported(m) == IF supported(m) THEN [res |-> "NoError", msg |-> m]
                        ELSE [res |-> "Unsupported"]
    IN  IF Len(bytes) < 28 THEN [res |-> "PacketTooShort"]
        ELSE Supported(ParseFields(ARPLayout, Parser(bytes)).h)

arp_serialize(m) == UnparseFields(ARPLayout, m)
=============================================================================
