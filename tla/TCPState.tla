------------------------------ MODULE TCPState ------------------------------
(***************************************************************************)
(* libsponge/tcp_helpers/tcp_state: a connection summarised, and the       *)
(* summary each of the official states of RFC 793 stands for.              *)
(***************************************************************************)
EXTENDS TCPConnection

receiver_summary(v) ==
    IF v.reassembler.output.error THEN "ERROR"
    ELSE IF ~v.isnset THEN "LISTEN"
    ELSE IF v.reassembler.output.end THEN "FIN_RECV"
    ELSE "SYN_RECV"

sender_summary(s) ==
    IF s.stream.error THEN "ERROR"
    ELSE IF s.byte_sent = 0 THEN "CLOSED"
    ELSE IF s.byte_sent = bytes_in_flight(s) THEN "SYN_SENT"
    ELSE IF ~eof(s.stream) \/ s.byte_sent < s.stream.alwritten + 2 THEN "SYN_ACKED"
    ELSE IF bytes_in_flight(s) > 0 THEN "FIN_SENT"
    ELSE "FIN_ACKED"

\* TCPConnection::state().
Summary(c) ==
    [receiver |-> receiver_summary(c.receiver), sender |-> sender_summary(c.sender),
     active |-> active(c), linger |-> active(c) /\ c.linger]

Official(state) ==
    LET Is(receiver, sender, act, lingers) ==
            [receiver |-> receiver, sender |-> sender, active |-> act, linger |-> lingers]
    IN  CASE state = "LISTEN"      -> Is("LISTEN", "CLOSED", TRUE, TRUE)
          [] state = "SYN_RCVD"    -> Is("SYN_RECV", "SYN_SENT", TRUE, TRUE)
          [] state = "SYN_SENT"    -> Is("LISTEN", "SYN_SENT", TRUE, TRUE)
          [] state = "ESTABLISHED" -> Is("SYN_RECV", "SYN_ACKED", TRUE, TRUE)
          [] state = "CLOSE_WAIT"  -> Is("FIN_RECV", "SYN_ACKED", TRUE, FALSE)
          [] state = "LAST_ACK"    -> Is("FIN_RECV", "FIN_SENT", TRUE, FALSE)
          [] state = "CLOSING"     -> Is("FIN_RECV", "FIN_SENT", TRUE, TRUE)
          [] state = "FIN_WAIT_1"  -> Is("SYN_RECV", "FIN_SENT", TRUE, TRUE)
          [] state = "FIN_WAIT_2"  -> Is("SYN_RECV", "FIN_ACKED", TRUE, TRUE)
          [] state = "TIME_WAIT"   -> Is("FIN_RECV", "FIN_ACKED", TRUE, TRUE)
          [] state = "RESET"       -> Is("ERROR", "ERROR", FALSE, FALSE)
          [] state = "CLOSED"      -> Is("FIN_RECV", "FIN_ACKED", FALSE, FALSE)

States == {"LISTEN", "SYN_RCVD", "SYN_SENT", "ESTABLISHED", "CLOSE_WAIT", "LAST_ACK",
           "CLOSING", "FIN_WAIT_1", "FIN_WAIT_2", "TIME_WAIT", "RESET", "CLOSED"}
=============================================================================
