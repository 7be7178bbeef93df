------------------------------- MODULE Medium -------------------------------
(***************************************************************************)
(* The cable of the simulator and the MAC sublayers on it. Cable moves one *)
(* bit per cycle under the locks of all its connection points; a station   *)
(* waits for a silent medium, then writes its frame bit by bit without     *)
(* ever stopping for a collision, and repeats the frame after a random     *)
(* time if any of its bits collided (MACSublayer::sendFrame). Idle cycles  *)
(* put nothing into the readers' queues, so a reader cannot tell the end   *)
(* of one transmission from the beginning of the next.                     *)
(*                                                                         *)
(* The reader thread takes its bits from an unbounded queue and answers to *)
(* nobody, so the bits of a cycle are read in the step of the cycle.       *)
(***************************************************************************)
EXTENDS Integers, Sequences, FiniteSets, MACFraming

CONSTANTS
    Stations,
    Broadcast,      \* MAC_BROADCAST_ADDRESS
    FrameBits,      \* formFrame: the bytes of each source and destination
    IdleCycles,     \* the argument of isFree and wait in sendFrame: 10
    MaxBackoff,     \* the cap of the exponent of the random wait: 10
    Scenarios       \* one of these records bounds a behaviour:
                    \* sends:    a sequence of destinations for each station
                    \* attempts: the 16 of sendFrame
                    \* flips:    bits that the cable damages
                    \* late:     cycles of one attempt in which a writer between
                    \*           two bits has not come back with the next one
                    \* resets:   stations that reconnect or leave

Addresses == Stations \cup {Broadcast}

ASSUME StationsAssumption ==
    /\ IsFiniteSet(Stations)
    /\ Broadcast \notin Stations

\* The checksum is abstracted: a damaged frame is never a frame.
ASSUME FrameAssumption ==
    /\ FrameBits \in [Stations \X Addresses -> Seq(Bit)]
    /\ \A f \in Stations \X Addresses :
          FrameBits[f] # << >> /\ Len(FrameBits[f]) % 8 = 0
    /\ \A f, g \in Stations \X Addresses : FrameBits[f] = FrameBits[g] => f = g

ASSUME NumberAssumption ==
    /\ IdleCycles \in Nat \ {0}
    /\ MaxBackoff \in Nat
    /\ Scenarios \subseteq [sends : [Stations -> Seq(Addresses)],
                           attempts : Nat \ {0}, flips : Nat, late : Nat,
                           resets : Nat]

VARIABLES
    scenario,       \* the one of Scenarios that bounds this behaviour
    attached,       \* stations whose connection point is in m_connectionPoints
    bufferOut,      \* ConnectionPoint::m_bufferOut
    empty,          \* ConnectionPoint::m_empty
    collision,      \* ConnectionPoint::m_collision
    mediumWasFree,  \* ConnectionPoint::m_mediumWasFree, at most IdleCycles
    reader,         \* MACReader
    readBuffer,     \* MACSublayer::m_readBuffer: sources of the frames
    pc,             \* where the caller of MACSublayer::write is
    todo,           \* frames still to be written
    wire,           \* the bits that flushBytes writes for the first of them
    pos,            \* the bit of flushBytes
    successful,     \* flushBytes
    counter,        \* sendFrame: attempts made
    number,         \* ConnectionPoint::wait
    flips, late, resets,
    hearers,        \* history: stations that were there for the whole attempt
    tries,          \* history: attempts per station and reader
    owed,           \* history: frames sent with success and not damaged
    got             \* history: frames that saveFrame stored

points == <<bufferOut, empty, collision, mediumWasFree>>
reading == <<reader, readBuffer, got>>
sending == <<pc, todo, wire, pos, successful, counter, number>>
bounding == <<scenario, flips, late, resets>>
vars == <<attached, points, reading, sending, bounding, hearers, tries, owed>>

PerPair(n) == [r \in Stations |-> [s \in Stations |-> n]]

Init ==
    /\ scenario \in Scenarios
    /\ attached = Stations
    /\ bufferOut = [s \in Stations |-> 0]
    /\ empty = [s \in Stations |-> TRUE]
    /\ collision = [s \in Stations |-> TRUE]
    /\ mediumWasFree = [s \in Stations |-> 0]
    /\ reader = [s \in Stations |-> NewReader]
    /\ readBuffer = [s \in Stations |-> << >>]
    /\ pc = [s \in Stations |-> "idle"]
    /\ todo = scenario.sends
    /\ wire = [s \in Stations |-> << >>]
    /\ pos = [s \in Stations |-> 1]
    /\ successful = [s \in Stations |-> TRUE]
    /\ counter = [s \in Stations |-> 0]
    /\ number = [s \in Stations |-> 0]
    /\ flips = 0 /\ resets = 0
    /\ late = [s \in Stations |-> 0]
    /\ hearers = [s \in Stations |-> {}]
    /\ tries = PerPair(0)
    /\ owed = PerPair(0)
    /\ got = PerPair(0)

-----------------------------------------------------------------------------
\* MACSublayer::write and sendFrame.

\* The caller has m_writeMethodMutex and has formed the frame.
StartWrite(s) ==
    /\ pc[s] = "idle" /\ s \in attached
    /\ todo[s] # << >>
    /\ pc' = [pc EXCEPT ![s] = "wait"]
    /\ wire' = [wire EXCEPT ![s] = OnWire(FrameBits[<<s, Head(todo[s])>>])]
    /\ number' = [number EXCEPT ![s] = 0]
    /\ counter' = [counter EXCEPT ![s] = 0]
    /\ UNCHANGED <<bounding, attached, points, reading, todo, pos, successful,
                   hearers, tries, owed>>

\* Mutant: one idle cycle less.
MutSense(s) ==
    /\ pc[s] = "wait" /\ number[s] = 0
    /\ counter[s] < scenario.attempts
    /\ mediumWasFree[s] >= IdleCycles - 1
    /\ pc' = [pc EXCEPT ![s] = "put"]
    /\ pos' = [pos EXCEPT ![s] = 1]
    /\ successful' = [successful EXCEPT ![s] = TRUE]
    /\ late' = [late EXCEPT ![s] = 0]
    /\ UNCHANGED <<attached, points, reading, todo, wire, counter, number, flips,
                   scenario, resets, hearers, tries, owed>>

\* while (!isFree(10)) wait(10)
Sense(s) ==
    /\ pc[s] = "wait" /\ number[s] = 0
    /\ counter[s] < scenario.attempts
    /\ IF mediumWasFree[s] >= IdleCycles
       THEN /\ pc' = [pc EXCEPT ![s] = "put"]
            /\ pos' = [pos EXCEPT ![s] = 1]
            /\ successful' = [successful EXCEPT ![s] = TRUE]
            /\ late' = [late EXCEPT ![s] = 0]
            /\ UNCHANGED number
       ELSE /\ number' = [number EXCEPT ![s] = IdleCycles]
            /\ UNCHANGED <<pc, pos, successful, late>>
    /\ UNCHANGED <<scenario, attached, points, reading, todo, wire, counter,
                   flips, resets, hearers, tries, owed>>

\* Mutant: m_empty stays true.
MutPutBit(s) ==
    /\ bufferOut' = [bufferOut EXCEPT ![s] = wire[s][pos'[s]]]
    /\ UNCHANGED empty
    /\ pc' = [pc EXCEPT ![s] = "blocked"]

\* ConnectionPoint::write up to its wait
PutBit(s) ==
    /\ bufferOut' = [bufferOut EXCEPT ![s] = wire[s][pos'[s]]]
    /\ empty' = [empty EXCEPT ![s] = FALSE]
    /\ pc' = [pc EXCEPT ![s] = "blocked"]

\* Any number of cycles may pass between isFree and the first bit.
WriteFirstBit(s) ==
    /\ pc[s] = "put"
    /\ UNCHANGED pos
    /\ PutBit(s)
    /\ hearers' = [hearers EXCEPT ![s] = attached]
    /\ tries' = [r \in Stations |-> [tries[r] EXCEPT ![s] = @ + 1]]
    /\ UNCHANGED <<bounding, attached, collision, mediumWasFree, reading, todo,
                   wire, successful, counter, number, owed>>

MoreBits(s) == pos[s] < Len(wire[s])

\* write returned !m_collision, and the next one begins. A writer that is not
\* late has done this within the step of the cycle, see processCycle.
WriteNextBit(s) ==
    /\ pc[s] = "returned" /\ MoreBits(s)
    /\ successful' = [successful EXCEPT ![s] = @ /\ ~collision[s]]
    /\ pos' = [pos EXCEPT ![s] = @ + 1]
    /\ PutBit(s)
    /\ UNCHANGED <<bounding, attached, collision, mediumWasFree, reading, todo,
                   wire, counter, number, hearers, tries, owed>>

FrameSent(s) ==
    /\ pc' = [pc EXCEPT ![s] = "idle"]
    /\ todo' = [todo EXCEPT ![s] = Tail(@)]

Addressed(s, r) == r # s /\ Head(todo[s]) \in {r, Broadcast}

FlushSucceeded(s) ==
    /\ pc[s] = "returned" /\ ~MoreBits(s)
    /\ successful[s] /\ ~collision[s]
    /\ FrameSent(s)
    /\ owed' = [r \in Stations |->
                   IF r \in hearers[s] /\ Addressed(s, r)
                   THEN [owed[r] EXCEPT ![s] = @ + 1] ELSE owed[r]]
    /\ UNCHANGED <<bounding, attached, points, reading, wire, pos, successful,
                   counter, number, hearers, tries>>

\* random(1 << counter) is at most its argument, and may be it.
FlushCollided(s) ==
    /\ pc[s] = "returned" /\ ~MoreBits(s)
    /\ ~successful[s] \/ collision[s]
    /\ \E period \in 0 .. 2 ^ (IF counter[s] > MaxBackoff THEN MaxBackoff
                               ELSE counter[s]) :
          number' = [number EXCEPT ![s] = period]
    /\ pc' = [pc EXCEPT ![s] = "wait"]
    /\ counter' = [counter EXCEPT ![s] = @ + 1]
    /\ UNCHANGED <<bounding, attached, points, reading, todo, wire, pos,
                   successful, hearers, tries, owed>>

\* The loop of sendFrame has ended: write returns false.
GiveUp(s) ==
    /\ pc[s] = "wait" /\ number[s] = 0
    /\ counter[s] = scenario.attempts
    /\ FrameSent(s)
    /\ UNCHANGED <<bounding, attached, points, reading, wire, pos, successful,
                   counter, number, hearers, tries, owed>>

-----------------------------------------------------------------------------
\* Cable::processCycle, under the mutexes of all points.

Writers == {s \in attached : ~empty[s]}

\* Bit is a bool: bits of several writers are added to their disjunction.
SumOfBits == IF \E s \in Writers : bufferOut[s] = 1 THEN 1 ELSE 0

\* Mutant: the checksum is not compared.
MutAccepted(s, bits) ==
    {f \in Stations \X Addresses :
        Len(FrameBits[f]) = Len(bits) /\ f[2] \in {s, Broadcast}}

\* MACSublayer::save: whole bytes, the checksum, and the address.
Accepted(s, bits) ==
    {f \in Stations \X Addresses :
        FrameBits[f] = bits /\ f[2] \in {s, Broadcast}}

\* ConnectionPoint::push of bit, MACReader::run and MACSublayer::save.
Deliver(bit) ==
    LET step == [s \in Stations |-> ReadBit(reader[s], bit)]
        saved(s) == Accepted(s, step[s].complete)
        Source(s) == (CHOOSE f \in saved(s) : TRUE)[1]
    IN  /\ reader' = [s \in Stations |->
                         IF s \in attached THEN step[s].reader ELSE reader[s]]
        /\ readBuffer' = [s \in Stations |->
                            IF s \in attached /\ saved(s) # {}
                            THEN Append(readBuffer[s], Source(s))
                            ELSE readBuffer[s]]
        /\ got' = [s \in Stations |->
                     IF s \in attached /\ saved(s) # {}
                     THEN [got[s] EXCEPT ![Source(s)] = @ + 1] ELSE got[s]]

\* A damaged bit: the attempts under way are not heard by anybody.
Transfer ==
    \E flip \in {0, 1} :
       /\ flips + flip <= scenario.flips
       /\ flips' = flips + flip
       /\ Deliver((SumOfBits + flip) % 2)
       /\ hearers' = [s \in Stations |->
                        IF flip = 1 /\ pc[s] \in {"blocked", "returned"}
                        THEN {} ELSE hearers[s]]

\* Mutant: the loop does not end at zero.
MutNumberLeft(s) == IF pc[s] = "wait" THEN number[s] - 1 ELSE number[s]

\* The loop of ConnectionPoint::wait, once per notify.
NumberLeft(s) ==
    IF pc[s] = "wait" /\ number[s] > 0 THEN number[s] - 1 ELSE number[s]

\* setCollision wakes the writers, notify the stations in ConnectionPoint::wait.
\* Those of the writers in `prompt' have written their next bit before the next
\* cycle, and touch only their own point to do so: it is part of this step.
processCycle(prompt) ==
    LET collided == Cardinality(Writers) > 1
        missed == {s \in Stations : pc[s] = "returned"}
    IN  /\ \A s \in missed : late[s] < scenario.late
        /\ late' = [s \in Stations |->
                      IF s \in missed THEN late[s] + 1 ELSE late[s]]
        /\ collision' = [s \in Stations |->
                           IF s \in Writers THEN collided ELSE collision[s]]
        /\ successful' = [s \in Stations |->
                            successful[s] /\ ~(s \in prompt /\ collided)]
        /\ pos' = [s \in Stations |->
                     IF s \in prompt THEN pos[s] + 1 ELSE pos[s]]
        /\ bufferOut' = [s \in Stations |->
                           IF s \in prompt THEN wire[s][pos[s] + 1]
                                           ELSE bufferOut[s]]
        /\ empty' = [s \in Stations |-> IF s \in Writers THEN s \notin prompt
                                         ELSE empty[s]]
        /\ pc' = [s \in Stations |-> IF s \in Writers \ prompt THEN "returned"
                                      ELSE pc[s]]
        /\ mediumWasFree' =
              [s \in Stations |->
                 CASE s \notin attached -> mediumWasFree[s]
                   [] s \in attached /\ Writers # {} -> 0
                   [] s \in attached /\ Writers = {} ->
                        IF mediumWasFree[s] < IdleCycles
                        THEN mediumWasFree[s] + 1 ELSE IdleCycles]
        /\ number' = [s \in Stations |-> NumberLeft(s)]
        /\ IF Writers = {} THEN UNCHANGED <<reading, flips, hearers>>
                           ELSE Transfer
        /\ UNCHANGED <<scenario, attached, todo, wire, counter, resets, tries,
                       owed>>

Cycle ==
    LET continuing == {s \in Writers : MoreBits(s)}
    IN  \E prompt \in SUBSET continuing :
           /\ \A s \in continuing \ prompt : late[s] < scenario.late
           /\ processCycle(prompt)

-----------------------------------------------------------------------------
\* MACSublayer::read: the first frame leaves the buffer.
Read(s) ==
    /\ readBuffer[s] # << >>
    /\ readBuffer' = [readBuffer EXCEPT ![s] = Tail(@)]
    /\ UNCHANGED <<bounding, attached, points, reader, got, sending, hearers,
                   tries, owed>>

\* What the receiving side of s forgets, and with it what it is owed.
ForgetReceived(s) ==
    /\ resets < scenario.resets
    /\ resets' = resets + 1
    /\ reader' = [reader EXCEPT ![s] = NewReader]
    /\ readBuffer' = [readBuffer EXCEPT ![s] = << >>]
    /\ got' = [got EXCEPT ![s] = [t \in Stations |-> 0]]
    /\ owed' = [owed EXCEPT ![s] = [t \in Stations |-> 0]]
    /\ tries' = [tries EXCEPT ![s] = [t \in Stations |->
                    IF pc[t] \in {"blocked", "returned"} THEN 1 ELSE 0]]
    /\ hearers' = [t \in Stations |-> hearers[t] \ {s}]

\* Mutant: without m_writeMethodMutex.
MutReconnect(s) ==
    /\ s \in attached
    /\ ForgetReceived(s)
    /\ empty' = [empty EXCEPT ![s] = TRUE]
    /\ UNCHANGED <<attached, bufferOut, collision, mediumWasFree, sending,
                   scenario, flips, late>>

\* MACSublayer::reconnect has m_writeMethodMutex: the station writes nothing.
Reconnect(s) ==
    /\ s \in attached /\ pc[s] = "idle"
    /\ ForgetReceived(s)
    /\ empty' = [empty EXCEPT ![s] = TRUE]
    /\ UNCHANGED <<scenario, attached, bufferOut, collision, mediumWasFree,
                   sending, flips, late>>

\* The destructor of MACSublayer, and Cable::deleteUnused in the next cycle.
Detach(s) ==
    /\ s \in attached /\ pc[s] = "idle"
    /\ ForgetReceived(s)
    /\ attached' = attached \ {s}
    /\ UNCHANGED <<scenario, points, sending, flips, late>>

\* Cable::createConnectionPoint and the constructor of MACSublayer.
Attach(s) ==
    /\ s \notin attached
    /\ attached' = attached \cup {s}
    /\ bufferOut' = [bufferOut EXCEPT ![s] = 0]
    /\ empty' = [empty EXCEPT ![s] = TRUE]
    /\ collision' = [collision EXCEPT ![s] = TRUE]
    /\ mediumWasFree' = [mediumWasFree EXCEPT ![s] = 0]
    /\ reader' = [reader EXCEPT ![s] = NewReader]
    /\ tries' = [tries EXCEPT ![s] = [t \in Stations |->
                    IF pc[t] \in {"blocked", "returned"} THEN 1 ELSE 0]]
    /\ UNCHANGED <<bounding, readBuffer, got, sending, hearers, owed>>

\* A call of write that has begun goes on.
GoOn(s) ==
    \/ Sense(s) \/ WriteFirstBit(s) \/ WriteNextBit(s)
    \/ FlushSucceeded(s) \/ FlushCollided(s) \/ GiveUp(s)

Next ==
    \/ \E s \in Stations :
          \/ StartWrite(s) \/ Sense(s) \/ WriteFirstBit(s) \/ WriteNextBit(s)
          \/ FlushSucceeded(s) \/ FlushCollided(s) \/ GiveUp(s)
          \/ Read(s) \/ Reconnect(s) \/ Detach(s) \/ Attach(s)
    \/ Cycle

Spec == Init /\ [][Next]_vars

\* Weak fairness of GoOn(s) and of Cycle. Their enabling conditions are written
\* out, for TLC takes a thousand times longer to find them from the actions.
CanGoOn(s) == pc[s] \in {"put", "returned"} \/ (pc[s] = "wait" /\ number[s] = 0)

CycleCounts ==
    /\ \A s \in Stations : pc[s] = "returned" => late[s] < scenario.late
    /\ \/ Writers # {}
       \/ \E s \in Stations : pc[s] = "wait" /\ number[s] > 0
       \/ \E s \in attached : mediumWasFree[s] < IdleCycles

\* The thread of the cable runs, and so does a thread that is in write.
FairSpec ==
    /\ Spec
    /\ []<>~CycleCounts \/ []<><<Cycle>>_vars
    /\ \A s \in Stations : []<>~CanGoOn(s) \/ []<><<GoOn(s)>>_vars

-----------------------------------------------------------------------------
TypeOK ==
    /\ scenario \in Scenarios
    /\ attached \subseteq Stations
    /\ bufferOut \in [Stations -> Bit]
    /\ empty \in [Stations -> BOOLEAN]
    /\ collision \in [Stations -> BOOLEAN]
    /\ mediumWasFree \in [Stations -> 0 .. IdleCycles]
    /\ reader \in [Stations -> Reader]
    /\ readBuffer \in [Stations -> Seq(Stations)]
    /\ pc \in [Stations -> {"idle", "wait", "put", "blocked", "returned"}]
    /\ todo \in [Stations -> Seq(Addresses)]
    /\ wire \in [Stations -> Seq(Bit)]
    /\ pos \in [Stations -> Nat \ {0}]
    /\ successful \in [Stations -> BOOLEAN]
    /\ counter \in [Stations -> 0 .. scenario.attempts]
    /\ number \in [Stations -> Nat]
    /\ flips \in 0 .. scenario.flips
    /\ late \in [Stations -> 0 .. scenario.late]
    /\ resets \in 0 .. scenario.resets
    /\ hearers \in [Stations -> SUBSET Stations]
    /\ tries \in [Stations -> [Stations -> Nat]]
    /\ owed \in [Stations -> [Stations -> Nat]]
    /\ got \in [Stations -> [Stations -> Nat]]

\* A frame for which sendFrame returned true, and of which no bit was
\* damaged, was stored by every station that it is addressed to and that was
\* there from its first bit on, whatever collisions, damaged bits and half
\* frames their readers had to get over before.
SentIsHeard ==
    \A r, s \in Stations : owed[r][s] <= got[r][s]

\* One attempt to send a frame is stored at most once by one station, and
\* nothing that nobody sent is ever stored.
OncePerAttempt ==
    \A r, s \in Stations : got[r][s] <= tries[r][s]

\* ConnectionPoint::write waits without a predicate: a waiting writer must
\* have its bit in the point, or the cycle would never wake it.
WaitingWriterIsSeen ==
    \A s \in Stations : pc[s] = "blocked" <=> ~empty[s]

InFrame(s) == pc[s] = "returned" \/ (pc[s] = "blocked" /\ pos[s] > 1)

\* Nobody begins a frame while another one is on the cable: isFree(10) tells a
\* writer between two bits from a silent medium.
NobodyInterrupts ==
    [][\A s, t \in Stations :
          pc[s] = "wait" /\ pc'[s] = "put" => ~InFrame(t)]_vars

\* Every call of write returns, with true or after its attempts with false.
WriteReturns ==
    \A s \in Stations : pc[s] # "idle" ~> pc[s] = "idle"

=============================================================================
