---------------------------- MODULE TCPReceiver ----------------------------
(***************************************************************************)
(* libsponge/tcp_receiver: translates segments into pushes to the          *)
(* reassembler and computes the acknowledgment number and the window.      *)
(***************************************************************************)
EXTENDS StreamReassembler, WrappingIntegers, TCPSegment

\* An index has more bits than a sequence number.
ASSUME ReceiverAssumption == SizeMod \in Nat /\ SeqSpace <= SizeMod

NewReceiver(capacity) ==
    [isn |-> 0, isnset |-> FALSE, finset |-> FALSE,
     reassembler |-> NewReassembler(capacity)]

bytes_written(v) == v.reassembler.output.alwritten

\* The window that forgets what waits to be read.
MutantWindowSize(v) == v.reassembler.output.max

window_size(v) == remaining_capacity(v.reassembler.output)

\* The acknowledgment that counts the bytes that wait for earlier ones.
MutantAckno(v) == wrap(1 + bytes_written(v) + v.reassembler.unassembled, v.isn)

\* ackno().value(); there is one once the SYN has been seen.
ackno(v) ==
    wrap(1 + bytes_written(v) + Bit(v.finset /\ v.reassembler.unassembled = 0), v.isn)

AbsSeqno(v, seg) == unwrap(seg.seqno, v.isn, bytes_written(v))

\* Every segment taken for the next one.
MutantStreamIndex(v, seg) == bytes_written(v)

\* The stream index: the absolute number less the SYN's, a uint64_t that may wrap.
StreamIndex(v, seg) == Size(AbsSeqno(v, seg) - Bit(~seg.syn))

\* What segment_received returns: whether the segment touches the window.
in_window(v, seg) ==
    IF ~v.isnset THEN seg.syn \/ seg.fin
    ELSE LET left      == AbsSeqno(v, seg)
             length    == IF seg.payload = <<>> THEN 1 ELSE Len(seg.payload)
             win_begin == unwrap(ackno(v), v.isn, bytes_written(v))
             win_size  == IF window_size(v) = 0 THEN 1 ELSE window_size(v)
         IN  win_begin < left + length /\ left < win_begin + win_size

\* The payload is pushed whether or not it is in the window.
receive(v, seg) ==
    IF v.isnset
    THEN [v EXCEPT !.reassembler = push_substring(@, seg.payload, StreamIndex(v, seg), seg.fin),
                   !.finset = @ \/ seg.fin]
    ELSE IF seg.syn
    THEN [v EXCEPT !.isn = seg.seqno, !.isnset = TRUE, !.finset = seg.fin,
                   !.reassembler = push_substring(@, seg.payload, 0, seg.fin)]
    ELSE v
=============================================================================
