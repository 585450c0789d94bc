------------------------------ MODULE MCSender ------------------------------
(* TCPSender with sequence numbers modulo 20 that wrap within a few bytes, and the   *)
(* recursion of fill_window to compare its closed form with.                       *)
EXTENDS FillWindow
=============================================================================
