----------------------------- MODULE MACFraming -----------------------------
(***************************************************************************)
(* How a MAC frame becomes bits on the cable and bits become a frame       *)
(* again: the flags and the bit stuffing of MACSublayer::flushBytes, and   *)
(* the automaton of MACReader, which has nothing but the stream of bits to *)
(* tell where a frame begins.                                              *)
(***************************************************************************)
EXTENDS Integers, Sequences

Bit == {0, 1}

Marker == <<0, 1, 1, 1, 1, 1, 1, 0>>

\* Mutant: the zero comes after six ones.
MutWriteBit(out, bit) ==
    IF bit = 1 /\ out.ones = 5
    THEN [bits |-> out.bits \o <<1, 0>>, ones |-> 0]
    ELSE [bits |-> Append(out.bits, bit), ones |-> bit * (out.ones + 1)]

\* One turn of the loop of flushBytes: after five ones a zero.
WriteBit(out, bit) ==
    IF bit = 1 /\ out.ones = 4
    THEN [bits |-> out.bits \o <<1, 0>>, ones |-> 0]
    ELSE [bits |-> Append(out.bits, bit), ones |-> bit * (out.ones + 1)]

\* The loop over the bits of the frame, after any number of them.
Written(bits) ==
    LET written[i \in 0 .. Len(bits)] ==
            IF i = 0 THEN [bits |-> << >>, ones |-> 0]
                     ELSE WriteBit(written[i - 1], bits[i])
    IN  written

Stuffed(bits) == Written(bits)[Len(bits)].bits

OnWire(bits) == Marker \o Stuffed(bits) \o Marker

-----------------------------------------------------------------------------
\* MACReader: m_state, m_buffer, m_count[1] and lastBit. m_count[0] is never
\* read. `complete' is what a step hands to MACSublayer::save.

Reader == [state : {"Search", "Read"}, buffer : Seq(Bit), ones : Nat, last : Bit]

NewReader == [state |-> "Search", buffer |-> << >>, ones |-> 0, last |-> 0]

NoFrame == << >>

WithoutLast(bits, n) == SubSeq(bits, 1, Len(bits) - n)

markerFoundAction(r) ==
    [reader   |-> [r EXCEPT !.state = "Read", !.buffer = << >>],
     complete |-> IF r.state = "Read" THEN WithoutLast(r.buffer, 8) ELSE NoFrame]

EndsWithMarker(r) ==
    r.ones = 6 /\ Len(r.buffer) >= 8 /\ r.buffer[Len(r.buffer) - 7] = 0

\* The bit, already appended to the buffer, is not the one before it.
analyseBitChange(r, bit) ==
    LET keep(reader) == [reader |-> reader, complete |-> NoFrame]
    IN  CASE bit = 1              -> keep([r EXCEPT !.ones = 1])
          [] bit = 0 /\ r.ones = 5 -> keep([r EXCEPT !.buffer = WithoutLast(@, 1)])
          [] bit = 0 /\ r.ones < 5 -> keep(r)
          [] bit = 0 /\ EndsWithMarker(r) -> markerFoundAction(r)
          [] bit = 0 /\ r.ones >= 6 /\ ~EndsWithMarker(r)
                                  -> keep([r EXCEPT !.state = "Search"])

ReadBit(r, bit) ==
    LET appended == [r EXCEPT !.buffer = Append(@, bit), !.last = bit]
    IN  IF r.last = bit
        THEN [reader   |-> [appended EXCEPT !.ones = @ + bit],
              complete |-> NoFrame]
        ELSE analyseBitChange(appended, bit)

=============================================================================
