-------------------------- MODULE ReassemblerSpec --------------------------
(***************************************************************************)
(* A StreamReassembler between a peer that sends the bytes 0 .. StreamLen-1 *)
(* of a stream in pieces, in any order and any number of times, and a      *)
(* reader.  The peer keeps to the window of the receiver and, as TCPSender *)
(* does, repeats its segments as they were.                                *)
(***************************************************************************)
EXTENDS StreamReassembler, FiniteSets

CONSTANTS Capacity, StreamLen,
          EmptyReordered    \* whether a segment without data may arrive on the other
                            \* side of the FIN or of data than it was sent

ASSUME ReassemblerAssumption ==
    /\ Capacity \in Nat \ {0} /\ StreamLen \in Nat /\ EmptyReordered \in BOOLEAN
    /\ SizeMod \in Nat /\ SizeMod > StreamLen + Capacity + 1

VARIABLES r,                \* the reassembler
          pushed,           \* auxiliary: the indices pushed; StreamLen stands for the FIN
          fitting,          \* auxiliary: those that were within the capacity when pushed
          lonefin           \* whether the peer sends its FIN apart from the data

reassembler_vars == <<r, pushed, fitting, lonefin>>

ReassemblerInit ==
    r = NewReassembler(Capacity) /\ pushed = {} /\ fitting = {} /\ lonefin \in BOOLEAN

\* The capacity is one for the bytes that have been reassembled and not read and for those
\* that have not been reassembled together, so it ends this far into the stream.
CapacityEnd == r.output.alread + Capacity

\* The index the receiver's window ends at.  A closed window is probed with one byte.
RightEdge ==
    r.firstindex + (IF remaining_capacity(r.output) > 0 THEN remaining_capacity(r.output) ELSE 1)

Push(index, len, fin) ==
    /\ ~r.threw
    /\ index + len <= RightEdge
    /\ r' = push_substring(r, [i \in 1 .. len |-> index + i - 1], index, fin)
    /\ pushed' = pushed \cup (index .. index + len - 1 + (IF fin THEN 1 ELSE 0))
    /\ fitting' = fitting \cup {i \in index .. index + len - 1 : i < CapacityEnd}
    /\ UNCHANGED lonefin

\* A segment with data.  The last byte comes always with the FIN or always without.
PushData ==
    \E index \in 0 .. StreamLen - 1 : \E len \in 1 .. StreamLen - index :
        Push(index, len, index + len = StreamLen /\ ~lonefin)

\* A segment without data and without FIN.
PushEmpty ==
    /\ EmptyReordered \/ ~r.checkeof
    /\ \E index \in 0 .. StreamLen : Push(index, 0, FALSE)

\* The FIN on its own.
PushFin ==
    /\ lonefin
    /\ EmptyReordered \/ r.firstindex = StreamLen
    /\ Push(StreamLen, 0, TRUE)

Read(n) ==
    /\ n <= buffer_size(r.output)
    /\ r' = [r EXCEPT !.output = pop_output(@, n)]
    /\ UNCHANGED <<pushed, fitting, lonefin>>

ReassemblerNext ==
    \/ PushData
    \/ PushEmpty
    \/ PushFin
    \/ \E n \in 1 .. Capacity : Read(n)

ReassemblerBehaviour == ReassemblerInit /\ [][ReassemblerNext]_reassembler_vars

-----------------------------------------------------------------------------
\* The output is the stream in order: what is buffered are the bytes from the first
\* unread to the last written, and firstindex is the number of bytes written.
OutputInOrder ==
    LET b == r.output
    IN  /\ r.firstindex = b.alwritten
        /\ b.alwritten = b.alread + Len(b.content)
        /\ \A i \in 1 .. Len(b.content) : b.content[i] = b.alread + i - 1

\* The stored pieces are sorted, neither overlap nor touch, start no earlier than
\* firstindex and hold the bytes their indices name.
StoreWellFormed ==
    LET q == r.storelist
    IN  \A i \in 1 .. Len(q) :
            /\ q[i].data # <<>> /\ q[i].last = q[i].first + Len(q[i].data) - 1
            /\ \A j \in 1 .. Len(q[i].data) : q[i].data[j] = q[i].first + j - 1
            /\ q[i].first >= (IF i = 1 THEN r.firstindex ELSE q[i - 1].last + 2)

Stored == UNION {r.storelist[i].first .. r.storelist[i].last : i \in 1 .. Len(r.storelist)}

\* A byte that arrived within the capacity is written or stored, never dropped, however
\* its piece was joined, trimmed and repeated; nothing else is stored but bytes that
\* arrived; and unassembled_bytes counts each of them once.  The byte with which a full
\* output is probed lies beyond the capacity and may be kept or not.
NothingLost ==
    /\ fitting \subseteq (0 .. r.firstindex - 1) \cup Stored
    /\ (0 .. r.firstindex - 1) \cup Stored \subseteq pushed
    /\ r.unassembled = Cardinality(Stored)

\* No substr is called past the end of its string.
NeverThrows == ~r.threw

\* The output has ended exactly when every byte of the stream has been written and the
\* FIN has arrived, before or after them: the reader neither misses the last bytes nor is
\* left waiting.
EndsAtTheEnd == r.output.end <=> StreamLen \in pushed /\ r.firstindex = StreamLen
=============================================================================
