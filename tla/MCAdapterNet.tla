---------------------------- MODULE MCAdapterNet ----------------------------
(* Addresses and segments small enough for TLC, no two bytes of an address alike. *)
EXTENDS AdapterNet

MCIP == [us |-> <<2561, 515>>, peer |-> <<2561, 517>>, other |-> <<2562, 515>>]
MCPort == [us |-> 4660, peer |-> 9029, other |-> 9029]
MCEth == [us |-> 2, peer |-> 3, other |-> 4]

Header(flags) ==
    [sport |-> 0, dport |-> 0, seqno |-> <<258, 772>>, ackno |-> <<1286, 1800>>, doff |-> 5,
     flags |-> flags, win |-> 64000, cksum |-> 0, uptr |-> 0, payload |-> <<>>]

\* A SYN, a SYN that resets, and data of an odd length.
MCSegments == {Header(SYN), Header(SYN + RST), [Header(ACK + FIN) EXCEPT !.payload = <<65, 255, 7>>]}

MCBeyond == {0, ArpWait + 1}
=============================================================================
