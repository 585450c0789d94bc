---------------------------- MODULE ByteStream ----------------------------
(***************************************************************************)
(* libsponge/byte_stream: a bounded in-memory stream of bytes.  The        *)
(* methods are operators on the record that holds the object's fields.     *)
(***************************************************************************)
EXTENDS Integers, Sequences

ByteStreams ==
    [content : Seq(Nat), end : BOOLEAN, error : BOOLEAN,
     alread : Nat, alwritten : Nat, max : Nat]

NewByteStream(capacity) ==
    [content |-> <<>>, end |-> FALSE, error |-> FALSE,
     alread |-> 0, alwritten |-> 0, max |-> capacity]

buffer_size(b) == Len(b.content)
remaining_capacity(b) == b.max - Len(b.content)
eof(b) == b.end /\ b.content = <<>>

Lesser(m, n) == IF m <= n THEN m ELSE n

\* There is no test of end here: the code accepts bytes after end_input.
write(b, data) ==
    LET size == Lesser(remaining_capacity(b), Len(data))
    IN  [b EXCEPT !.content = @ \o SubSeq(data, 1, size), !.alwritten = @ + size]

\* The next n bytes of a writer whose k-th byte is the number k - 1.
NextBytes(b, n) == [i \in 1 .. n |-> b.alwritten + i - 1]

peek_output(b, len) == SubSeq(b.content, 1, Lesser(buffer_size(b), len))

pop_output(b, len) ==
    LET size == Lesser(buffer_size(b), len)
    IN  [b EXCEPT !.content = SubSeq(@, size + 1, Len(@)), !.alread = @ + size]

end_input(b) == [b EXCEPT !.end = TRUE]

set_error(b) == [b EXCEPT !.error = TRUE]
===========================================================================
