------------------------------- MODULE MCPair -------------------------------
(* The pair with the initial sequence numbers and the settings of small instances. *)
EXTENDS TCPPair

MCIsn == [p \in {Client, Server} |-> IF p = Client THEN SeqSpace - 2 ELSE 5]

Bytes(client, server) == [p \in Peers |-> IF p = Client THEN client ELSE server]

\* A reliable network, in order, of any delay.
Reliable == [StreamLen |-> Bytes(1, 0), Closes |-> Peers, MaxNet |-> 1, MaxLoss |-> 0,
             MaxDup |-> 0, Reorders |-> FALSE, Prompt |-> FALSE]

Fast == [Reliable EXCEPT !.StreamLen = Bytes(3, 1), !.MaxNet = 4, !.Prompt = TRUE]
Lossy == [Reliable EXCEPT !.StreamLen = Bytes(0, 0), !.MaxLoss = 1, !.Reorders = TRUE]

\* Up to two segments at once to each side, one of them lost, in any order and at any time;
\* and a third byte and a duplicate as well where time waits for them.
DataOnly == [Lossy EXCEPT !.StreamLen = Bytes(2, 0), !.Closes = {}, !.MaxNet = 2]
Repeating == [DataOnly EXCEPT !.StreamLen = Bytes(3, 0), !.MaxDup = 1, !.Prompt = TRUE]

DataSettings == {DataOnly, Repeating}
CloseSettings == {Reliable, Fast, Lossy}

\* A network that loses a segment before the FIN.
FinSettings == {[Reliable EXCEPT !.Closes = {Client}, !.MaxNet = 2, !.MaxLoss = 1]}

\* A network that repeats and reorders, for segments of up to two bytes.
FlowSettings == {[Reliable EXCEPT !.StreamLen = Bytes(4, 0), !.Closes = {}, !.MaxNet = 2,
                                  !.MaxDup = 1, !.Reorders = TRUE]}
=============================================================================
