---------------------------- MODULE RoutingTable ----------------------------
(***************************************************************************)
(* libsponge/router: the routing table and the choice of the route with    *)
(* the longest matching prefix.  Addresses have AddressBits bits instead   *)
(* of 32.                                                                  *)
(***************************************************************************)
EXTENDS Integers, Sequences

CONSTANT AddressBits

ASSUME RouterAssumption == AddressBits \in Nat \ {0}

\* The next hop of a network that is directly attached.
NoHop == -1

\* Interfaces and routes are numbered from 1.
NewRouter(interfaces) == [interfaces |-> interfaces, routing_table |-> <<>>]

add_route(r, route_prefix, prefix_length, next_hop, interface_num) ==
    [r EXCEPT !.routing_table =
        Append(@, [route_prefix |-> route_prefix, prefix_length |-> prefix_length,
                   next_hop |-> next_hop, interface_num |-> interface_num])]

HighBits(address, length) ==
    IF length > 0 THEN address \div 2 ^ (AddressBits - length) ELSE 0

Matches(route, dst) ==
    HighBits(route.route_prefix, route.prefix_length) = HighBits(dst, route.prefix_length)

\* Mutant: a later route of the same length is preferred.
MutantBetter(table, dst, best, i) ==
    Matches(table[i], dst) /\ (best = 0 \/ table[best].prefix_length <= table[i].prefix_length)

\* Whether route i replaces the best so far, if there is one.
Better(table, dst, best, i) ==
    Matches(table[i], dst) /\ (best = 0 \/ table[best].prefix_length < table[i].prefix_length)

\* The index of the route to take, or 0: the first of the longest ones that match.
longest_prefix_match(table, dst) ==
    LET best[i \in 0 .. Len(table)] ==
            IF i = 0 THEN 0
            ELSE IF Better(table, dst, best[i - 1], i) THEN i ELSE best[i - 1]
    IN  best[Len(table)]
=============================================================================
