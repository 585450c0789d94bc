----------------------------- MODULE PairProofs -----------------------------
(***************************************************************************)
(* Two connections whose streams stay open, over a network that loses,     *)
(* repeats and reorders segments as it likes: what is acknowledged has     *)
(* been received, and the pair implements two reliable streams.            *)
(***************************************************************************)
EXTENDS PairLemmas, SenderLemmas, ReassemblerLemmas

USE SMTT(20), ZenonT(20)

\* The sender and the reassembler are what the lemmas about a connection take them for.
LEMMA PartsHold == Parts
<1>1. SegmentPart
  BY SegmentNumbers DEF SegmentPart
<1>2. WrapPart
  BY WrapType, UnwrapWrap DEF WrapPart
<1>3. FillPart
  BY FillInv, FillMoves DEF FillPart
<1>4. StaysPart
  BY Zenon, StaysMoves DEF StaysPart
<1>5. AckPart
  BY AckInv, AckMoves DEF AckPart
<1>6. StreamPart
  BY StreamChangeInv, WriteStream DEF StreamPart
<1>7. QueuePart
  BY DrainedInv, EmptyInv, EmptyStays, TailInv DEF QueuePart
<1>8. TickPart
  BY TickInv, TickStays DEF TickPart
<1>9. PiecePart
  BY GoodPieceFacts, CoverFinite DEF PiecePart
<1>10. SizePart
  BY SizeIsSame DEF SizePart
<1>11. PushPart
  <2>1. ASSUME NEW n \in Nat, NEW fin \in BOOLEAN, NEW s, GoodState(s, n), NEW index
        PROVE  PushedEmpty(s, index, fin, push_substring(s, <<>>, index, fin), n)
    BY <2>1, PushEmptyGood
  <2>2. ASSUME NEW n \in Nat, NEW fin \in BOOLEAN, NEW s, GoodState(s, n), NEW p,
               GoodPiece(p, n), SizeMod \in Nat, n < SizeMod, Limit(s) < SizeMod,
               p.last < Limit(s), \A x \in Cover(s.storelist) : x < Limit(s)
        PROVE  PushedData(s, p, fin, push_substring(s, p.data, p.first, fin), n)
    BY <2>2, PushDataGood
  <2> QED BY Zenon, <2>1, <2>2 DEF PushPart
<1>12. ReadPart
  BY ReadGood DEF ReadPart
<1>13. NewPart
  BY Zenon, NewSenderInv, NewReassemblerGood DEF NewPart
<1> QED BY <1>1, <1>2, <1>3, <1>4, <1>5, <1>6, <1>7, <1>8, <1>9, <1>10, <1>11, <1>12, <1>13
        DEF Parts

\* PairInv holds in every state of a pair whose streams stay open.
LEMMA PairAlways ==
  ASSUME StreamsStayOpen
  PROVE  Spec => []PairInv
<1>1. Init => PairInv
  BY PartsHold, InitPair
<1>2. PairInv /\ [Next]_vars => PairInv'
  BY PartsHold, NextPair
<1> QED BY <1>1, <1>2, PTL DEF Spec

\* Whatever the network loses, repeats and reorders, a sender whose stream stays open never
\* takes a byte for acknowledged that the other side's reassembler has not written to its
\* stream: ack_received drops nothing from unacked that may still have to be sent again.
THEOREM AckedReceived ==
  ASSUME StreamsStayOpen
  PROVE  Spec => []AckedIsReceived
<1>1. PairInv => AckedIsReceived
  BY InvAcked
<1> QED BY <1>1, PairAlways, PTL

\* Two connections whose streams stay open implement two reliable streams: whatever the
\* network loses, repeats and reorders, and however often either side sends again, the bytes
\* an application reads with read() are those the other wrote with write(), in order and each
\* once, and none before it was written.
THEOREM PairImplementsStreams ==
  ASSUME StreamsStayOpen
  PROVE  Spec => ImplementsStreams
<1>1. Init => Streams!Init
  BY PartsHold, InitStreams
<1>2. PairInv /\ PairInv' /\ [Next]_vars => [Streams!Next]_(Streams!vars)
  BY PartsHold, NextStreams
<1> QED BY <1>1, <1>2, PairAlways, PTL DEF Spec, ImplementsStreams, Streams!Spec
=============================================================================
