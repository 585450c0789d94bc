-------------------------------- MODULE Lab7 --------------------------------
(***************************************************************************)
(* apps/lab7: a client and a server site, each a host with a network       *)
(* interface and a router in front of it, joined by the relay of           *)
(* apps/bouncer.  The TCP connection above the hosts is any sequence of    *)
(* datagrams that each host sends to the other.                            *)
(*                                                                         *)
(* A frame in a queue is on the other side of the socket pair, or under    *)
(* way to or from the relay.                                               *)
(***************************************************************************)
EXTENDS Router, FiniteSets

CONSTANTS Client, Server,
          Beyond,       \* what may lie behind the interfaces' request lists
          Hellos,       \* empty datagrams each site first sends to the relay
          MaxSends,     \* bound: datagrams each host sends, when it is calm and when not
          MaxTime       \* bound: units of time that pass by each clock, calm and not

Sites == {Client, Server}
Peer(s) == IF s = Client THEN Server ELSE Client

\* Each host tells its interface how much time has passed.  The loop of each router counts
\* 50 ms for every turn, however little has passed.
HostClock == 1
RouterClock == 2
Clocks == Sites \X {HostClock, RouterClock}

ASSUME Lab7Assumption ==
    /\ Client # Server /\ Beyond \subseteq Int /\ AddressBits = 4
    /\ Hellos \in Nat /\ MaxSends \in [BOOLEAN -> [Sites -> Nat]]
    /\ MaxTime \in [BOOLEAN -> [Clocks -> Nat]]

VARIABLES host,         \* the interface inside each host's adapter
          router,
          to_router,    \* frames written by the host and not read by its router
          to_host,      \* frames written by the router and not read by its host
          to_relay,     \* datagrams under way to the relay
          from_relay,   \* and from it
          peers,        \* the sites whose address the relay has learnt
          sent,         \* how many datagrams each host has sent
          got,          \* the datagrams each host has received
          time,         \* how much has passed by each clock
          behind,       \* what lay behind the request lists at the start
          calm          \* whether frames outrun the clocks and hosts wait for them

vars == <<host, router, to_router, to_host, to_relay, from_relay, peers, sent, got, time,
          behind, calm>>

\* Addresses of four bits in the place of 192.168/16, 172.16/12 and 10/8.
Net(s) == IF s = Client THEN 12 ELSE 8
HostSide(s) == Net(s)
HostIP(s) == Net(s) + 1
InternetSide(s) == IF s = Client THEN 1 ELSE 2

host_side == 1
internet_side == 2

\* Every interface has an Ethernet address of its own.
NewCard(ip, beyond) == NewInterface(Broadcast + 1 + ip, ip, beyond)

SiteRouter(s, beyond) ==
    LET r0 == NewRouter(<<NewCard(HostSide(s), beyond),
                          NewCard(InternetSide(s), beyond)>>)
        r1 == add_route(r0, Net(s), 2, NoHop, host_side)
        r2 == add_route(r1, 0, 2, NoHop, internet_side)
    IN  add_route(r2, Net(Peer(s)), 2, InternetSide(Peer(s)), internet_side)

Hello == <<>>

Init ==
    /\ behind \in Beyond
    /\ host = [s \in Sites |-> NewCard(HostIP(s), behind)]
    /\ router = [s \in Sites |-> SiteRouter(s, behind)]
    /\ to_router = [s \in Sites |-> <<>>] /\ to_host = [s \in Sites |-> <<>>]
    /\ to_relay = [s \in Sites |-> [i \in 1 .. Hellos |-> Hello]]
    /\ from_relay = [s \in Sites |-> <<>>]
    /\ peers = {}
    /\ sent = [s \in Sites |-> 0] /\ got = [s \in Sites |-> <<>>]
    /\ time = [c \in Clocks |-> 0] /\ calm \in BOOLEAN

-----------------------------------------------------------------------------
\* The host becomes n, and send_pending writes the frames it has queued.
HostBecomes(s, n) ==
    /\ host' = [host EXCEPT ![s] = [n EXCEPT !.frames_out = <<>>]]
    /\ to_router' = [to_router EXCEPT ![s] = @ \o n.frames_out]

Datagram(s, i) == [src |-> HostIP(s), dst |-> HostIP(Peer(s)), ttl |-> 128, id |-> i]

\* No frame is waiting to be sent or read.
Settled ==
    \A s \in Sites :
        /\ to_router[s] = <<>> /\ to_host[s] = <<>> /\ from_relay[s] = <<>>
        /\ \A i \in DOMAIN to_relay[s] : to_relay[s][i] = Hello
        /\ \A i \in {host_side, internet_side} : router[s].interfaces[i].frames_out = <<>>

\* The relay has heard all that a site says at its start.
Started == \A s \in Sites : \A i \in DOMAIN to_relay[s] : to_relay[s][i] # Hello

\* NetworkInterfaceAdapter::write, with the segment TCP sends next.
Write(s) ==
    /\ sent[s] < MaxSends[calm][s]
    /\ calm => Settled /\ \A c \in Clocks : sent[s] <= time[c]
    /\ sent' = [sent EXCEPT ![s] = @ + 1]
    /\ HostBecomes(s, send_datagram(host[s], Datagram(s, sent'[s]), HostSide(s)))
    /\ UNCHANGED <<router, to_host, to_relay, from_relay, peers, got, time, behind, calm>>

\* NetworkInterfaceAdapter::read.
Read(s) ==
    /\ to_host[s] # <<>>
    /\ LET frame == Head(to_host[s])
       IN  /\ HostBecomes(s, recv_frame(host[s], frame))
           /\ got' = [got EXCEPT ![s] = @ \o Returned(host[s], frame)]
    /\ to_host' = [to_host EXCEPT ![s] = Tail(@)]
    /\ UNCHANGED <<router, to_relay, from_relay, peers, sent, time, behind, calm>>

\* A frame reaches interface i of the router, which routes what it has received.
Accepted(r, i, frame) == Route([r EXCEPT !.interfaces[i] = async_recv_frame(@, frame)])

HostToRouter(s) ==
    /\ to_router[s] # <<>>
    /\ router' = [router EXCEPT ![s] = Accepted(@, host_side, Head(to_router[s]))]
    /\ to_router' = [to_router EXCEPT ![s] = Tail(@)]
    /\ UNCHANGED <<host, to_host, to_relay, from_relay, peers, sent, got, time, behind, calm>>

InternetToRouter(s) ==
    /\ from_relay[s] # <<>>
    /\ router' = [router EXCEPT ![s] = Accepted(@, internet_side, Head(from_relay[s]))]
    /\ from_relay' = [from_relay EXCEPT ![s] = Tail(@)]
    /\ UNCHANGED <<host, to_router, to_host, to_relay, peers, sent, got, time, behind, calm>>

\* Interface i of the router has frames to send, and sends the first.
Queued(s, i) == router[s].interfaces[i].frames_out
Dequeue(s, i) == router' = [router EXCEPT ![s].interfaces[i].frames_out = Tail(@)]

RouterToHost(s) ==
    /\ Queued(s, host_side) # <<>>
    /\ Dequeue(s, host_side)
    /\ to_host' = [to_host EXCEPT ![s] = Append(@, Head(Queued(s, host_side)))]
    /\ UNCHANGED <<host, to_router, to_relay, from_relay, peers, sent, got, time, behind, calm>>

RouterToInternet(s) ==
    /\ Queued(s, internet_side) # <<>>
    /\ Dequeue(s, internet_side)
    /\ to_relay' = [to_relay EXCEPT ![s] = Append(@, Head(Queued(s, internet_side)))]
    /\ UNCHANGED <<host, to_router, to_host, from_relay, peers, sent, got, time, behind, calm>>

\* The relay learns where a site is from whatever it sends, and passes on what is not
\* empty once it has heard from the other site.
Relay(s) ==
    /\ to_relay[s] # <<>>
    /\ peers' = peers \cup {s}
    /\ to_relay' = [to_relay EXCEPT ![s] = Tail(@)]
    /\ from_relay' = [from_relay EXCEPT ![Peer(s)] =
                         IF Peer(s) \in peers /\ Head(to_relay[s]) # Hello
                         THEN Append(@, Head(to_relay[s])) ELSE @]
    /\ UNCHANGED <<host, router, to_router, to_host, sent, got, time, behind, calm>>

\* A unit of time passes by clock c.  When it is calm, both sites have started before the
\* last one.
Passes(c) ==
    /\ time[c] < MaxTime[calm][c]
    /\ calm => Settled /\ (time[c] + 1 = MaxTime[calm][c] => Started)
    /\ time' = [time EXCEPT ![c] = @ + 1]

\* NetworkInterfaceAdapter::tick.
HostTick(s) ==
    /\ Passes(<<s, HostClock>>)
    /\ calm => sent[s] > time[<<s, HostClock>>]
    /\ HostBecomes(s, tick_interface(host[s], 1))
    /\ UNCHANGED <<router, to_host, to_relay, from_relay, peers, sent, got, behind, calm>>

\* The end of turns of the router's loop.
RouterTick(s) ==
    /\ Passes(<<s, RouterClock>>)
    /\ router' = [router EXCEPT ![s].interfaces = [i \in DOMAIN @ |-> tick_interface(@[i], 1)]]
    /\ UNCHANGED <<host, to_router, to_host, to_relay, from_relay, peers, sent, got, behind, calm>>

Next ==
    \E s \in Sites :
        \/ Write(s) \/ Read(s)
        \/ HostToRouter(s) \/ RouterToHost(s)
        \/ RouterToInternet(s) \/ Relay(s) \/ InternetToRouter(s)
        \/ HostTick(s) \/ RouterTick(s)

Spec == Init /\ [][Next]_vars

\* Nothing is left to do within the bounds.
Over ==
    /\ Settled /\ Started
    /\ \A c \in Clocks : time[c] = MaxTime[calm][c]
    /\ \A s \in Sites : sent[s] = MaxSends[calm][s]

\* The sites and the relay keep going while there is something to do.  Because no step
\* can be taken for ever within the bounds, weak fairness of Next says no more.
FairSpec == Spec /\ []<>Over

-----------------------------------------------------------------------------
\* How many entries of a list are in a set.
Count(list, S) == Cardinality({i \in DOMAIN list : list[i] \in S})

\* The frames that carry a datagram of D, the entries for one that waits for an address, and
\* how many of both there are at an interface.
Carrying(D) == [src : Int, dst : Int, type : {"IPv4"}, payload : D]
WaitingFor(D) == [dgram : D, ip : Int]
Load(n, D) == Count(n.unsent, WaitingFor(D)) + Count(n.frames_out, Carrying(D))

\* The datagrams of D at a site or under way from or to it.
CopiesAt(s, D) ==
    LET cards == router[s].interfaces
    IN  Load(host[s], D) + Load(cards[host_side], D) + Load(cards[internet_side], D)
        + Count(to_router[s], Carrying(D)) + Count(to_host[s], Carrying(D))
        + Count(to_relay[s], Carrying(D)) + Count(from_relay[s], Carrying(D))
        + Count(got[s], D)

Copies(D) == CopiesAt(Client, D) + CopiesAt(Server, D)

\* No datagram is lost or doubled between the hosts, whatever address resolutions are
\* under way and however often they are repeated: of each datagram sent there is one
\* copy in all the queues and lists of the two sites, and there are no others.
OneCopyOfEach ==
    /\ \A s \in Sites : \A i \in 1 .. sent[s] : Copies({Datagram(s, i)}) = 1
    /\ Copies([src : Int, dst : Int, ttl : Int, id : Int]) = sent[Client] + sent[Server]

Cards == {host[s] : s \in Sites} \cup {router[s].interfaces[i] : s \in Sites, i \in {1, 2}}

\* Where nothing behind the request lists passes for a recent request, a datagram waits
\* only for an address that has been asked for and not been told.
AskedUnlessBeyond ==
    behind > ArpWait => \A n \in Cards : \A i \in DOMAIN n.unsent : Asked(n, n.unsent[i].ip)

\* Hosts that send again after each unit of time get through, although the relay loses
\* requests while it has not heard from the other site, although the first datagrams may wait
\* with no request sent, and although the clocks of the routers may run ahead.
Reaches ==
    calm => <>(\A s \in Sites : \E i \in DOMAIN got[s] : got[s][i].id = MaxSends[calm][Peer(s)])
=============================================================================
