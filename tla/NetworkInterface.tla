-------------------------- MODULE NetworkInterface --------------------------
(***************************************************************************)
(* libsponge/network_interface: sends IPv4 datagrams in Ethernet frames to *)
(* neighbours whose Ethernet addresses it learns with ARP.                 *)
(*                                                                         *)
(* Times are kept as ages: age is _time minus the time stamp, for what the *)
(* lists hold up to just past the limit it is compared with.               *)
(***************************************************************************)
EXTENDS Integers, Sequences

CONSTANTS MapLife,    \* 30000: how long a learnt address is used
          ArpWait     \* 5000: how long a request is waited for

ASSUME InterfaceAssumption == MapLife \in Nat /\ ArpWait \in Nat

\* Ethernet addresses are numbers: that of all zeros, the broadcast address, and those
\* of interfaces above it.
Zero == 0
Broadcast == 1

\* beyond is the age of the request that a search reads when it has run past the end of
\* arp_req: the eight bytes behind the list, which are never written, as a time stamp.
\* A negative age is a time stamp from the future, and its difference to _time huge.
NewInterface(ethernet_address, ip_address, beyond) ==
    [eth |-> ethernet_address, ip |-> ip_address, frames_out |-> <<>>, unsent |-> <<>>,
     arp_req |-> <<>>, map |-> [ip \in {} |-> [eth |-> Zero, age |-> 0]], beyond |-> beyond,
     datagrams_out |-> <<>>]

Frame(src, dst, type, payload) == [src |-> src, dst |-> dst, type |-> type, payload |-> payload]

Push(n, frame) == [n EXCEPT !.frames_out = Append(@, frame)]

IPv4Frame(n, dst, dgram) == Frame(n.eth, dst, "IPv4", dgram)

ArpFrame(n, dst, opcode, target) ==
    Frame(n.eth, dst, "ARP", [opcode |-> opcode, sender_ip |-> n.ip, sender_eth |-> n.eth,
                              target_ip |-> target])

\* Only the source of this frame was filled in.
BlankFrame(n) == Frame(n.eth, Zero, "none", <<>>)

\* The address of a neighbour is known and not too old.
Known(n, ip) == ip \in DOMAIN n.map /\ n.map[ip].age <= MapLife

\* The positions of a list's entries for an address.
For(list, ip) == {i \in DOMAIN list : list[i].ip = ip}

Asked(n, ip) == For(n.arp_req, ip) # {}

\* The age the search for a request finds: that of the first request for ip, which is
\* the oldest, or what lies behind the last one.
RequestAge(n, ip) ==
    LET first == CHOOSE i \in For(n.arp_req, ip) : \A j \in For(n.arp_req, ip) : i <= j
    IN  IF Asked(n, ip) THEN n.arp_req[first].age ELSE n.beyond

\* Mutant: an old request still counts.
MutantRecent(age) == 0 <= age

Recent(age) == 0 <= age /\ age <= ArpWait

send_datagram(n, dgram, next_hop) ==
    LET waiting == [n EXCEPT !.unsent = Append(@, [dgram |-> dgram, ip |-> next_hop])]
    IN  IF Known(n, next_hop) THEN Push(n, IPv4Frame(n, n.map[next_hop].eth, dgram))
        ELSE IF ~Recent(RequestAge(n, next_hop))
        THEN Push([waiting EXCEPT !.arp_req = Append(@, [ip |-> next_hop, age |-> 0])],
                  ArpFrame(n, Broadcast, "request", next_hop))
        ELSE IF Asked(n, next_hop) THEN waiting
        ELSE Push(waiting, BlankFrame(n))

-----------------------------------------------------------------------------
\* The entries of a list at the given positions, when the others have been erased.
Kept(list, keep) ==
    LET kept[i \in 0 .. Len(list)] ==
            IF i = 0 THEN <<>>
            ELSE IF i \in keep THEN Append(kept[i - 1], list[i]) ELSE kept[i - 1]
    IN  kept[Len(list)]

\* What a list has for an address, and what it has for others.
Entries(list, ip) == Kept(list, For(list, ip))
Others(list, ip) == Kept(list, DOMAIN list \ For(list, ip))

ForMe(n, frame) == frame.dst \in {Broadcast, n.eth}

\* Mutant: a request for the sender's address is forgotten whatever taught it.
MutantLearn(n, msg) ==
    [n EXCEPT !.map = [ip \in DOMAIN @ \cup {msg.sender_ip} |->
                          IF ip = msg.sender_ip THEN [eth |-> msg.sender_eth, age |-> 0]
                          ELSE @[ip]],
              !.arp_req = Others(@, msg.sender_ip)]

Learn(n, msg) ==
    [n EXCEPT !.map = [ip \in DOMAIN @ \cup {msg.sender_ip} |->
                          IF ip = msg.sender_ip THEN [eth |-> msg.sender_eth, age |-> 0]
                          ELSE @[ip]]]

Reply(n, frame) == Push(n, ArpFrame(n, frame.src, "reply", frame.payload.sender_ip))

\* Mutant: what is sent goes on waiting.
MutantRelease(n, msg) ==
    LET freed == Entries(n.unsent, msg.sender_ip)
    IN  [n EXCEPT !.frames_out = @ \o [i \in 1 .. Len(freed) |->
                                         IPv4Frame(n, msg.sender_eth, freed[i].dgram)],
                  !.arp_req = Others(@, msg.sender_ip)]

\* Whatever waits for the sender of a reply is sent, and its requests are forgotten.
Release(n, msg) ==
    LET freed == Entries(n.unsent, msg.sender_ip)
    IN  [n EXCEPT !.frames_out = @ \o [i \in 1 .. Len(freed) |->
                                         IPv4Frame(n, msg.sender_eth, freed[i].dgram)],
                  !.unsent = Others(@, msg.sender_ip),
                  !.arp_req = Others(@, msg.sender_ip)]

\* recv_frame: what it leaves behind, and the datagram it returns, if any.
recv_frame(n, frame) ==
    IF ~ForMe(n, frame) \/ frame.type # "ARP" THEN n
    ELSE LET msg == frame.payload
             m == Learn(n, msg)
         IN  IF msg.opcode = "request" /\ msg.target_ip = n.ip THEN Reply(m, frame)
             ELSE IF msg.opcode = "reply" THEN Release(m, msg)
             ELSE m

Returned(n, frame) ==
    IF ForMe(n, frame) /\ frame.type = "IPv4" THEN <<frame.payload>> ELSE <<>>

\* AsyncNetworkInterface::recv_frame.
async_recv_frame(n, frame) ==
    [recv_frame(n, frame) EXCEPT !.datagrams_out = @ \o Returned(n, frame)]

Older(entry, ms, limit) ==
    [entry EXCEPT !.age = IF @ + ms <= limit THEN @ + ms ELSE limit + 1]

tick_interface(n, ms) ==
    [n EXCEPT !.map = [ip \in DOMAIN @ |-> Older(@[ip], ms, MapLife)],
              !.arp_req = [i \in DOMAIN @ |-> Older(@[i], ms, ArpWait)],
              !.beyond = @ + ms]
=============================================================================
