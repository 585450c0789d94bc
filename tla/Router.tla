------------------------------- MODULE Router -------------------------------
(***************************************************************************)
(* libsponge/router: forwards datagrams between its interfaces along the   *)
(* routes its table chooses.                                               *)
(***************************************************************************)
EXTENDS NetworkInterface, RoutingTable, Buffers

\* The datagram is sent on as it is: its TTL is looked at, not lowered.
route_one_datagram(r, dgram) ==
    LET match == longest_prefix_match(r.routing_table, dgram.dst)
        route == r.routing_table[match]
    IN  IF match = 0 \/ dgram.ttl = 0 \/ dgram.ttl - 1 = 0 THEN r
        ELSE [r EXCEPT !.interfaces[route.interface_num] =
                 send_datagram(@, dgram, IF route.next_hop = NoHop THEN dgram.dst
                                         ELSE route.next_hop)]

\* route: every datagram the interfaces hold, interface by interface.
Route(r) ==
    LET held == concatenate([i \in 1 .. Len(r.interfaces) |-> r.interfaces[i].datagrams_out])
        taken == [r EXCEPT !.interfaces = [i \in DOMAIN @ |-> [@[i] EXCEPT !.datagrams_out = <<>>]]]
        routed[i \in 0 .. Len(held)] ==
            IF i = 0 THEN taken ELSE route_one_datagram(routed[i - 1], held[i])
    IN  routed[Len(held)]
=============================================================================
