---------------------------- MODULE TCPSegment ----------------------------
(***************************************************************************)
(* A TCP segment: the header fields the stack looks at, and the payload.   *)
(* Ports, options, urgent data and the checksum are left out.              *)
(*                                                                         *)
(* abs is auxiliary: the absolute sequence number the sender counted when  *)
(* it built the segment.  No operation reads it; only properties do.       *)
(***************************************************************************)
EXTENDS Integers, Sequences

BlankSegment ==
    [seqno |-> 0, ackno |-> 0, win |-> 0, syn |-> FALSE, fin |-> FALSE,
     ack |-> FALSE, rst |-> FALSE, payload |-> <<>>, abs |-> 0]

Bit(b) == IF b THEN 1 ELSE 0

length_in_sequence_space(seg) == Len(seg.payload) + Bit(seg.syn) + Bit(seg.fin)

\* The absolute sequence number that follows a segment.
End(seg) == seg.abs + length_in_sequence_space(seg)
===========================================================================
