--------------------------- MODULE ReliableStream ---------------------------
(***************************************************************************)
(* What a connection promises to the two applications, without segments,   *)
(* windows, acknowledgements or timers: in each direction a stream of bytes*)
(* numbered 1, 2, 3... of which a growing prefix is written, a prefix of   *)
(* that has arrived, and a prefix of that was handed over; a writer whose  *)
(* call returned true knows that everything it wrote has arrived.          *)
(***************************************************************************)
EXTENDS Integers, Sequences

CONSTANTS Client, Server

Ends == {Client, Server}
Peer(e) == IF e = Client THEN Server ELSE Client

VARIABLES
    open,       \* may this end start another call of send?
    written,    \* bytes this end passed to send
    arrived,    \* bytes of this end that reached its peer
    confirmed,  \* bytes of this end's calls that returned true
    delivered   \* bytes receive returned at this end

vars == <<open, written, arrived, confirmed, delivered>>

Init ==
    /\ open = [e \in Ends |-> TRUE]
    /\ written = [e \in Ends |-> 0]
    /\ arrived = [e \in Ends |-> 0]
    /\ confirmed = [e \in Ends |-> 0]
    /\ delivered = [e \in Ends |-> <<>>]

\* A call of send starts; the previous one has returned true.
Write(e) ==
    /\ open[e]
    /\ confirmed[e] = written[e]
    /\ written'[e] > written[e]
    /\ written' = [written EXCEPT ![e] = written'[e]]
    /\ UNCHANGED <<open, arrived, confirmed, delivered>>

\* Some of the written bytes become available to the peer, in order.
Arrive(e) ==
    /\ arrived'[e] \in arrived[e] + 1 .. written[e]
    /\ arrived' = [arrived EXCEPT ![e] = arrived'[e]]
    /\ UNCHANGED <<open, written, confirmed, delivered>>

\* The call returns true: all it wrote has arrived.
Confirm(e) ==
    /\ confirmed[e] < written[e]
    /\ arrived[e] = written[e]
    /\ confirmed' = [confirmed EXCEPT ![e] = written[e]]
    /\ UNCHANGED <<open, written, arrived, delivered>>

\* The call returns false: the end is disconnected for good.
Fail(e) ==
    /\ open[e]
    /\ open' = [open EXCEPT ![e] = FALSE]
    /\ UNCHANGED <<written, arrived, confirmed, delivered>>

\* receive returns all that has arrived and was not yet handed over.
Deliver(e) ==
    /\ Len(delivered[e]) < arrived[Peer(e)]
    /\ delivered' = [delivered EXCEPT ![e] = [k \in 1 .. arrived[Peer(e)] |-> k]]
    /\ UNCHANGED <<open, written, arrived, confirmed>>

Next ==
    \E e \in Ends : Write(e) \/ Arrive(e) \/ Confirm(e) \/ Fail(e) \/ Deliver(e)

Spec == Init /\ [][Next]_vars

=============================================================================
