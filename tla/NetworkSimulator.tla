-------------------------- MODULE NetworkSimulator --------------------------
(***************************************************************************)
(* apps/network_simulator: hosts around one router, and the datagrams its  *)
(* main program sends and expects.  A round of simulate() routes, then     *)
(* moves the queued frames over every link.                                *)
(*                                                                         *)
(* The networks of the program become networks of six-bit addresses:       *)
(* 10/8, 192.168.0/24, 198.178.229/24, 172.16/16, 128.30/16, the Internet, *)
(* that of the default router, and 143.195/16 with its three overlapping   *)
(* routes, which leave only its last part to the default route.            *)
(***************************************************************************)
EXTENDS Router, SequencesExt

CONSTANTS Beyond,       \* what lies behind the interfaces' request lists
          Rounds        \* bound: rounds of a simulation (256)

VARIABLES router, hosts, expecting, step, rounds, thrown

vars == <<router, hosts, expecting, step, rounds, thrown>>

\* The router's interfaces, and for each link the hosts on it.
default_id == 1
eth0_id == 2
eth1_id == 3
eth2_id == 4
uun3_id == 5
hs4_id == 6
mit5_id == 7

Links == <<[id |-> default_id, hosts |-> <<"default_router">>],
           [id |-> eth0_id, hosts |-> <<"applesauce">>],
           [id |-> eth2_id, hosts |-> <<"cherrypie">>],
           [id |-> hs4_id, hosts |-> <<"hs_router">>],
           [id |-> uun3_id, hosts |-> <<"dm42", "dm43">>]>>

RouterIP == <<48, 1, 24, 9, 17, 57, 32>>

HostIP == [applesauce |-> 2, default_router |-> 49, cherrypie |-> 10, hs_router |-> 56,
           dm42 |-> 18, dm43 |-> 19]
NextHop == [applesauce |-> 1, default_router |-> 0, cherrypie |-> 9, hs_router |-> 0,
            dm42 |-> 17, dm43 |-> 17]
Hosts == DOMAIN HostIP

Internet == 40
HsAddresses == <<60, 62, 62, 63>>

\* Every interface has an Ethernet address of its own.
NewCard(ip) == NewInterface(Broadcast + 1 + ip, ip, Beyond)

Routes == <<<<0, 0, HostIP.default_router, default_id>>, <<0, 3, NoHop, eth0_id>>,
            <<24, 3, NoHop, eth1_id>>, <<8, 3, NoHop, eth2_id>>, <<16, 3, NoHop, uun3_id>>,
            <<56, 4, HostIP.hs_router, hs4_id>>, <<60, 5, HostIP.hs_router, hs4_id>>,
            <<62, 6, HostIP.hs_router, hs4_id>>, <<32, 3, 33, mit5_id>>>>

Network ==
    FoldLeft(LAMBDA r, e : add_route(r, e[1], e[2], e[3], e[4]),
             NewRouter([i \in 1 .. 7 |-> NewCard(RouterIP[i])]), Routes)

\* What the program sends, from whom and with which TTL, and the host that it expects
\* to get it.
Test(src, dst, ttl, at) == [src |-> src, dst |-> dst, ttl |-> ttl, at |-> at]

Tests ==
    <<Test("applesauce", HostIP.cherrypie, 64, {"cherrypie"}),
      Test("cherrypie", HostIP.applesauce, 64, {"applesauce"}),
      Test("applesauce", Internet, 64, {"default_router"}),
      Test("applesauce", HsAddresses[1], 64, {"hs_router"}),
      Test("cherrypie", HsAddresses[2], 64, {"hs_router"}),
      Test("cherrypie", HsAddresses[3], 64, {"hs_router"}),
      Test("cherrypie", HsAddresses[4], 64, {"default_router"}),
      Test("dm42", HostIP.dm43, 64, {"dm43"}),
      Test("applesauce", Internet, 1, {}),
      Test("applesauce", Internet, 0, {})>>

Init ==
    /\ router = Network
    /\ hosts = [h \in Hosts |-> NewCard(HostIP[h])]
    /\ expecting = [h \in Hosts |-> <<>>]
    /\ step = 1 /\ rounds = 0 /\ thrown = FALSE

\* Host::send_to and Host::expect.
Send ==
    /\ ~thrown /\ step <= Len(Tests) /\ rounds = 0
    /\ LET t == Tests[step]
           dgram == [src |-> HostIP[t.src], dst |-> t.dst, ttl |-> t.ttl, id |-> step]
       IN  /\ hosts' = [hosts EXCEPT ![t.src] = send_datagram(@, dgram, NextHop[t.src])]
           /\ expecting' = [h \in Hosts |-> IF h \in t.at
                               THEN Append(expecting[h], [dgram EXCEPT !.ttl = @ - 1])
                               ELSE expecting[h]]
    /\ rounds' = 1
    /\ UNCHANGED <<router, step, thrown>>

-----------------------------------------------------------------------------
\* deliver: an interface receives a queue of frames.
deliver(n, frames) == FoldLeft(async_recv_frame, n, frames)

\* exchange_frames among the router's interface and the hosts of a link: each gets the
\* frames the others had queued before, and these alone leave the queues.
Exchange(net, link) ==
    LET ends == <<net.router.interfaces[link.id]>> \o [i \in DOMAIN link.hosts |-> net.hosts[link.hosts[i]]]
        queued(i) == ends[i].frames_out
        others(i) == FlattenSeq([j \in DOMAIN ends |-> IF j = i THEN <<>> ELSE queued(j)])
        after(i) == LET n == deliver(ends[i], others(i))
                    IN  [n EXCEPT !.frames_out = SubSeq(@, Len(queued(i)) + 1, Len(@))]
    IN  [router |-> [net.router EXCEPT !.interfaces[link.id] = after(1)],
         hosts  |-> [h \in Hosts |-> LET i == SelectInSeq(link.hosts, LAMBDA g : g = h)
                                     IN  IF i = 0 THEN net.hosts[h] ELSE after(i + 1)]]

Round ==
    /\ rounds \in 1 .. Rounds
    /\ LET net == FoldLeft(Exchange, [router |-> Route(router), hosts |-> hosts], Links)
       IN  router' = net.router /\ hosts' = net.hosts
    /\ rounds' = rounds + 1
    /\ UNCHANGED <<expecting, step, thrown>>

\* Host::check of every host: what it received must be what it expects.
AsExpected(h) ==
    LET received == hosts[h].datagrams_out
    IN  /\ Len(received) = Len(expecting[h])
        /\ ToSet(received) = ToSet(expecting[h])

Check ==
    /\ rounds > Rounds
    /\ hosts' = [h \in Hosts |-> [hosts[h] EXCEPT !.datagrams_out = <<>>]]
    /\ expecting' = [h \in Hosts |-> <<>>]
    /\ thrown' = \E h \in Hosts : ~AsExpected(h)
    /\ step' = step + 1 /\ rounds' = 0
    /\ UNCHANGED router

Next == Send \/ Round \/ Check

Spec == Init /\ [][Next]_vars

-----------------------------------------------------------------------------
\* "All datagrams were routed successfully": each host receives exactly the datagrams
\* the program expects it to, their TTL lowered by the router they have passed.
RoutedSuccessfully == ~thrown
=============================================================================
