------------------------- MODULE WrappingIntegers -------------------------
(***************************************************************************)
(* Sequence numbers on the wire are 32 bits wide; the stack counts with    *)
(* absolute 64-bit ones.  SeqSpace stands for 2^32.                          *)
(***************************************************************************)
EXTENDS Integers

CONSTANT SeqSpace

ASSUME SeqSpaceAssumption == SeqSpace \in Nat /\ SeqSpace > 0

wrap(n, isn) == (n + isn) % SeqSpace

\* unwrap without the test that keeps it above zero.
MutantUnwrapSigned(n, isn, checkpoint) ==
    LET difference1 == (n - wrap(checkpoint, isn)) % SeqSpace
        difference2 == (wrap(checkpoint, isn) - n) % SeqSpace
    IN  IF difference1 > difference2
        THEN checkpoint - difference2
        ELSE checkpoint + difference1

\* The two differences are uint32_t subtractions, so they are taken modulo 2^32.
unwrap(n, isn, checkpoint) ==
    LET difference1 == (n - wrap(checkpoint, isn)) % SeqSpace
        difference2 == (wrap(checkpoint, isn) - n) % SeqSpace
    IN  IF difference1 > difference2 /\ checkpoint >= difference2
        THEN checkpoint - difference2
        ELSE checkpoint + difference1
===========================================================================
