----------------------------- MODULE EventLoop -----------------------------
(***************************************************************************)
(* libsponge/util/eventloop: rules that are called back when their file    *)
(* descriptor is ready.                                                    *)
(*                                                                         *)
(* A loop is a record [rules, polled]: the rules that are left, and, while *)
(* wait_next_event goes through the results of poll, those it has still to *)
(* look at.  The rules are those of StreamCopy and SpongeSocket, and act   *)
(* upon a record w that has the fields of FileDescriptor.                  *)
(***************************************************************************)
EXTENDS StreamCopy, SpongeSocket, SequencesExt

OfSocket(r) == r \in ToSet(TcpRules)

\* What a rule waits for, what it does, and what poll reports for it.
Fd(r) == IF OfSocket(r) THEN TcpFd(r) ELSE CopyFd(r)
Direction(r) == IF OfSocket(r) THEN TcpDirection(r) ELSE CopyDirection(r)
Interest(w, r) == IF OfSocket(r) THEN TcpInterest(w, r) ELSE CopyInterest(w, r)
Callback(w, r) == IF OfSocket(r) THEN TcpCallback(w, r) ELSE CopyCallback(w, r)
Cancel(w, r) == IF OfSocket(r) THEN TcpCancel(w, r) ELSE CopyCancel(w, r)
Ready(w, r) == IF OfSocket(r) THEN TcpReady(w, r) ELSE CopyReady(w, r)
Hup(w, r) == IF OfSocket(r) THEN TcpHup(w, r) ELSE CopyHup(w, r)

NewLoop(rules) == [rules |-> rules, polled |-> <<>>]

\* A loop with what it acts upon.
State(loop, w) == [loop |-> loop, w |-> w]

\* The rule is cancelled and erased.
Drop(s, r) == State([s.loop EXCEPT !.rules = SelectSeq(@, LAMBDA q : q # r)], Cancel(s.w, r))

Defunct(w, r) == (Direction(r) = "In" /\ Fd(r) \in w.eof) \/ Fd(r) \in w.closed

\* The set-up before poll, rule by rule: what is defunct goes, and the loop's polled
\* are the rules that are interested.
SetUp(loop, w) ==
    LET consider(s, r) ==
            IF Defunct(s.w, r) THEN Drop(s, r)
            ELSE IF Interest(s.w, r) THEN [s EXCEPT !.loop.polled = Append(@, r)]
            ELSE s
    IN  FoldLeft(consider, State(loop, w), loop.rules)

\* How wait_next_event goes on after the set-up s: nothing to poll, nothing ready, or
\* results to go through.  The hangup of a rule that is not interested, polled as a
\* placeholder, makes poll return at once, but no rule is called or dropped for it: the
\* loop turns without effect until a rule is ready or a millisecond has passed, and this
\* is "Timeout" too.
Outcome(s) ==
    IF s.loop.polled = <<>> THEN "Exit"
    ELSE IF \E i \in DOMAIN s.loop.polled : Ready(s.w, s.loop.polled[i]) \/ Hup(s.w, s.loop.polled[i])
    THEN "Success"
    ELSE "Timeout"

\* poll: each rule asked about, with what is reported for it.
Poll(s) ==
    LET report(r) == [rule |-> r, ready |-> Ready(s.w, r), hup |-> Hup(s.w, r)]
    IN  [s EXCEPT !.loop.polled =
            SelectSeq([i \in DOMAIN @ |-> report(@[i])], LAMBDA p : p.ready \/ p.hup)]

\* A callback that neither reads or writes its descriptor nor loses its interest.
BusyWait(w, r) == <<Fd(r), Direction(r)>> \notin w.served /\ Interest(w, r)

\* The callback has returned with v.
Returns(v, r) ==
    [v EXCEPT !.served = {},
              !.fault = IF @ = "none" /\ BusyWait(v, r) THEN "busy wait" ELSE @]

Called(w, r) == Returns(Callback([w EXCEPT !.served = {}], r), r)

\* The next of the results.
Dispatch(loop, w) ==
    LET p == Head(loop.polled)
        rest == [loop EXCEPT !.polled = Tail(@)]
    IN  IF p.ready THEN State(rest, Called(w, p.rule)) ELSE Drop(State(rest, w), p.rule)
=============================================================================
