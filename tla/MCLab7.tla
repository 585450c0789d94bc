------------------------------- MODULE MCLab7 -------------------------------
(* The two sites with the numbers of datagrams of a small instance.  When it is not    *)
(* calm only the routers' clocks pass, which run ahead.                             *)
EXTENDS Lab7

CONSTANTS CalmSends, ClientSends, ServerSends, CalmTime, ClientTime, ServerTime

MCBeyond == {-1, 0, 9}

MCMaxSends ==
    [c \in BOOLEAN |-> [s \in {Client, Server} |->
        IF c THEN CalmSends ELSE IF s = Client THEN ClientSends ELSE ServerSends]]

MCMaxTime ==
    [c \in BOOLEAN |-> [k \in {Client, Server} \X {1, 2} |->
        IF c THEN CalmTime ELSE IF k = <<Client, 2>> THEN ClientTime
        ELSE IF k = <<Server, 2>> THEN ServerTime ELSE 0]]
=============================================================================
