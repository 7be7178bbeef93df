--------------------------- MODULE SocketTransfer ---------------------------
(***************************************************************************)
(* The data phase of one TCP connection of the simulator: the two Socket   *)
(* objects (transportlayer/socket.cpp) after both handshakes finished, the *)
(* application thread of each end that calls Socket::send and              *)
(* Socket::receive, and the TransportReader thread of each host that calls *)
(* Socket::parseSegment.                                                   *)
(*                                                                         *)
(* m_socketMutex is held by every operation except while a send waits for  *)
(* its timer, so an action is the code between two such waits.             *)
(*                                                                         *)
(* Bytes are abstracted to their position in the stream of bytes the       *)
(* sending application passed to successive calls of send: byte number 1,  *)
(* 2, 3...  Real time is abstracted: the timer of a send may expire at any *)
(* moment, because m_rtt shrinks on every success and nothing bounds it    *)
(* from below.                                                             *)
(***************************************************************************)
EXTENDS Integers, Sequences, FiniteSetsExt

CONSTANTS
    Client, Server,        \* the two ends
    UintMod,               \* a uint is a number modulo UintMod
    Start,                 \* first data sequence number of each end
    MAX_SEGMENT_SIZE,
    MAX_BUFFER_SIZE,
    MAX_SEGMENT_AMOUNT,
    MAX_TIMEOUT_COUNT,
    MAX_READ_BUFFER_SIZE,  \* segments in flight or queued towards one end
    MaxStream              \* bound: bytes each end ever passes to send

Ends == {Client, Server}
Uint == 0 .. UintMod - 1

ASSUME ConstantsAssumption ==
    /\ Client # Server
    /\ UintMod \in Nat \ {0}
    /\ Start \in [Ends -> Uint]
    /\ MAX_SEGMENT_SIZE \in Nat \ {0}
    /\ MAX_BUFFER_SIZE \in Nat \ {0}
    /\ MAX_SEGMENT_AMOUNT \in Nat \ {0}
    /\ MAX_TIMEOUT_COUNT \in Nat \ {0}
    /\ MAX_READ_BUFFER_SIZE \in Nat \ {0}
    /\ MaxStream \in [Ends -> Nat]

VARIABLES
    connected,             \* m_connected
    sourceSequence,        \* m_sourceSequence
    destinationSequence,   \* m_destinationSequence
    ackSequence,           \* m_ackSequence
    sendMutex,             \* m_sendMutex: "free", or who locked it
    congestionWindowSize,  \* m_congestionWindowSize
    threshold,             \* m_threshold
    readBuffer,            \* m_readBuffer: sequence number -> byte
    readBufferLowerBound,  \* m_readBufferLowerBound
    pc,                    \* where the sending thread is in Socket::send
    progress,              \* its local i
    oldAckSequence,        \* its local oldAckSequence
    timeoutCounter,        \* its local timeoutCounter
    channel,               \* segments on their way to each end, in order
    written,               \* history: bytes handed to send so far
    confirmed,             \* history: bytes of the calls that returned true
    delivered              \* history: the bytes receive returned, in order

socketVars == <<connected, sourceSequence, destinationSequence, ackSequence,
                sendMutex>>
windowVars == <<congestionWindowSize, threshold>>
bufferVars == <<readBuffer, readBufferLowerBound>>
senderVars == <<pc, progress, oldAckSequence, timeoutCounter>>
historyVars == <<written, confirmed, delivered>>
vars == <<socketVars, windowVars, bufferVars, senderVars, channel, historyVars>>

-----------------------------------------------------------------------------

Peer(e) == IF e = Client THEN Server ELSE Client

U(x) == x % UintMod

Lesser(x, y) == IF x <= y THEN x ELSE y
Greater(x, y) == IF x >= y THEN x ELSE y

\* A byte position of 0 stands for a key the QMap does not contain.
NoByte == 0

Segment == [seq : Uint, ack : Uint, first : Nat, len : 0 .. MAX_SEGMENT_SIZE]

(***************************************************************************)
(* The network.  One path keeps the order of the segments; it may lose any *)
(* of them (a damaged frame, an unknown route) and deliver one twice (a    *)
(* station that saw a collision resends a frame that arrived whole).       *)
(* NetworkLayer::parseIP drops what does not fit into its read buffer.     *)
(***************************************************************************)
Transmit(queue, segments) ==
    LET all == queue \o segments
    IN SubSeq(all, 1, Lesser(Len(all), MAX_READ_BUFFER_SIZE))

\* sendBurst: length bytes, numbered from sequence on, in segments.
Burst(e, sequence, first, length) ==
    [k \in 1 .. (length + MAX_SEGMENT_SIZE - 1) \div MAX_SEGMENT_SIZE |->
        LET offset == (k - 1) * MAX_SEGMENT_SIZE
        IN [seq   |-> U(sequence + offset),
            ack   |-> destinationSequence[e],
            first |-> first + offset,
            len   |-> Lesser(length - offset, MAX_SEGMENT_SIZE)]]

-----------------------------------------------------------------------------
(***************************************************************************)
(* Socket::send                                                            *)
(***************************************************************************)

(***************************************************************************)
(* One turn of the loop up to the wait, when i bytes of the call are       *)
(* acknowledged and window is the congestion window.  The window the peer  *)
(* announced is MAX_BUFFER_SIZE for the whole connection: finalizeConnecting*)
(* alone assigns it, from a segment sent while the buffer was empty.  The  *)
(* branch for a window of 0 is therefore never taken here.                 *)
(***************************************************************************)
SendWindow(e, sequence, i, first, left, window) ==
    LET length == Lesser(Lesser(left, MAX_BUFFER_SIZE),
                         window * MAX_SEGMENT_SIZE)
    IN /\ progress' = [progress EXCEPT ![e] = i]
       /\ oldAckSequence' = [oldAckSequence EXCEPT ![e] = sequence]
       /\ sourceSequence' = [sourceSequence EXCEPT ![e] = U(sequence + length)]
       /\ channel' = [channel EXCEPT ![Peer(e)] =
                         Transmit(@, Burst(e, sequence, first, length))]

\* The test of m_connected, made before any lock is taken.
CheckConnected(e) ==
    /\ pc[e] = "idle"
    /\ connected[e]
    /\ written[e] < MaxStream[e]
    /\ pc' = [pc EXCEPT ![e] = "checked"]
    /\ UNCHANGED <<socketVars, windowVars, bufferVars, channel, historyVars,
                   progress, oldAckSequence, timeoutCounter>>

\* Mutant: the acknowledgement of before the call is kept.
MutResetAck(e) == UNCHANGED ackSequence

\* m_ackSequence = m_sourceSequence
ResetAck(e) == ackSequence' = [ackSequence EXCEPT ![e] = sourceSequence[e]]

\* Both locks are taken and the first window of a call of len bytes is sent.
StartSend(e, len) ==
    /\ pc[e] = "checked"
    /\ sendMutex[e] = "free"
    /\ written[e] + len <= MaxStream[e]
    /\ sendMutex' = [sendMutex EXCEPT ![e] = "sender"]
    /\ ResetAck(e)
    /\ timeoutCounter' = [timeoutCounter EXCEPT ![e] = 0]
    /\ pc' = [pc EXCEPT ![e] = "waiting"]
    /\ written' = [written EXCEPT ![e] = @ + len]
    /\ SendWindow(e, sourceSequence[e], 0, confirmed[e] + 1, len,
                  congestionWindowSize[e])
    /\ UNCHANGED <<connected, destinationSequence, windowVars, bufferVars,
                   confirmed, delivered>>

\* The wait ended: everything sent is acknowledged, or the timer expired.
TimedOut(e) == ackSequence[e] # sourceSequence[e]

\* Mutant: the timeout is not counted.
MutNextTimeoutCounter(e) == IF TimedOut(e) THEN timeoutCounter[e] ELSE 0

NextTimeoutCounter(e) == IF TimedOut(e) THEN timeoutCounter[e] + 1 ELSE 0

\* Mutant: counts the bytes sent, not the bytes acknowledged.
MutNextProgress(e) == U(progress[e] + sourceSequence[e] - oldAckSequence[e])

\* i += m_ackSequence - oldAckSequence, in uint arithmetic.
NextProgress(e) == U(progress[e] + ackSequence[e] - oldAckSequence[e])

NextWindow(e) ==
    IF TimedOut(e) THEN 1
    ELSE IF congestionWindowSize[e] >= threshold[e]
         THEN congestionWindowSize[e] + 1
         ELSE 2 * congestionWindowSize[e]

\* Mutant: without the test for a window of one segment.
MutNextThreshold(e) ==
    IF TimedOut(e) THEN congestionWindowSize[e] \div 2 ELSE threshold[e]

NextThreshold(e) ==
    IF ~TimedOut(e) THEN threshold[e]
    ELSE IF congestionWindowSize[e] > 1 THEN congestionWindowSize[e] \div 2
         ELSE 1

AdjustWindow(e) ==
    /\ congestionWindowSize' = [congestionWindowSize EXCEPT ![e] = NextWindow(e)]
    /\ threshold' = [threshold EXCEPT ![e] = NextThreshold(e)]

Return(e) ==
    /\ pc' = [pc EXCEPT ![e] = "idle"]
    /\ sendMutex' = [sendMutex EXCEPT ![e] = "free"]

\* The last allowed timeout: send marks the socket disconnected, returns false.
GiveUp(e) ==
    /\ pc[e] = "waiting"
    /\ NextTimeoutCounter(e) = MAX_TIMEOUT_COUNT
    /\ timeoutCounter' = [timeoutCounter EXCEPT ![e] = MAX_TIMEOUT_COUNT]
    /\ sourceSequence' = [sourceSequence EXCEPT ![e] = ackSequence[e]]
    /\ connected' = [connected EXCEPT ![e] = FALSE]
    /\ AdjustWindow(e)
    /\ Return(e)
    /\ UNCHANGED <<destinationSequence, ackSequence, bufferVars, channel,
                   historyVars, progress, oldAckSequence>>

\* Bytes of the call are left: the next window starts at the acknowledged one.
ContinueSend(e) ==
    LET length == written[e] - confirmed[e]
        i == NextProgress(e)
    IN /\ pc[e] = "waiting"
       /\ NextTimeoutCounter(e) # MAX_TIMEOUT_COUNT
       /\ i < length
       /\ timeoutCounter' = [timeoutCounter EXCEPT ![e] = NextTimeoutCounter(e)]
       /\ AdjustWindow(e)
       /\ SendWindow(e, ackSequence[e], i, confirmed[e] + i + 1, length - i,
                     NextWindow(e))
       /\ UNCHANGED <<connected, destinationSequence, ackSequence, sendMutex,
                      bufferVars, historyVars, pc>>

\* No byte of the call is left: send returns true.
FinishSend(e) ==
    /\ pc[e] = "waiting"
    /\ NextTimeoutCounter(e) # MAX_TIMEOUT_COUNT
    /\ NextProgress(e) >= written[e] - confirmed[e]
    /\ timeoutCounter' = [timeoutCounter EXCEPT ![e] = NextTimeoutCounter(e)]
    /\ progress' = [progress EXCEPT ![e] = NextProgress(e)]
    /\ sourceSequence' = [sourceSequence EXCEPT ![e] = ackSequence[e]]
    /\ confirmed' = [confirmed EXCEPT ![e] = written[e]]
    /\ AdjustWindow(e)
    /\ Return(e)
    /\ UNCHANGED <<connected, destinationSequence, ackSequence, bufferVars,
                   channel, written, delivered, oldAckSequence>>

-----------------------------------------------------------------------------
(***************************************************************************)
(* Socket::parseSegment, the branch for a segment without SYN and FIN      *)
(***************************************************************************)

UpperBound(e) == U(readBufferLowerBound[e] + MAX_BUFFER_SIZE)

\* Neither wholly below the next expected byte nor above the buffer.
InWindow(e, s) ==
    /\ U(s.seq + s.len) >= destinationSequence[e]
    /\ s.seq < UpperBound(e)

\* Mutant: without the lower bound, qMax(sequence, m_destinationSequence).
MutStored(e, s) ==
    { q \in Uint : q >= s.seq /\ q < Lesser(U(s.seq + s.len), UpperBound(e)) }

\* The sequence numbers whose bytes the segment adds to the buffer.
Stored(e, s) ==
    { q \in Uint : /\ q >= Greater(s.seq, destinationSequence[e])
                   /\ q < Lesser(U(s.seq + s.len), UpperBound(e)) }

\* Mutant: takes the data from its beginning when the segment overlaps.
MutBufferWith(e, s) ==
    [q \in Uint |-> IF q \in Stored(e, s)
                    THEN s.first + (q - Greater(s.seq, destinationSequence[e]))
                    ELSE readBuffer[e][q]]

BufferWith(e, s) ==
    [q \in Uint |-> IF q \in Stored(e, s) THEN s.first + (q - s.seq)
                    ELSE readBuffer[e][q]]

\* Mutant: stops after the first byte of a run.
MutFrontier(e, buffer) ==
    LET expected == destinationSequence[e]
    IN IF buffer[expected] # NoByte THEN U(expected + 1) ELSE expected

\* Mutant: one past the highest buffered byte, whatever is missing before it.
MutFrontierSkipsGap(e, buffer) ==
    LET held == { q \in Uint : buffer[q] # NoByte }
    IN IF held = {} THEN destinationSequence[e] ELSE U(Max(held) + 1)

\* The first sequence number from the lower bound on that has no byte; the
\* expected number stays when that is the lower bound itself.
Frontier(e, buffer) ==
    LET lower == readBufferLowerBound[e]
        gaps == { q \in lower .. UpperBound(e) :
                     q = UpperBound(e) \/ buffer[q] = NoByte }
    IN IF gaps = {} \/ lower \in gaps THEN destinationSequence[e] ELSE Min(gaps)

\* What one segment makes of the receiving end's buffer and expected byte.
Accept(e, s) ==
    IF InWindow(e, s)
    THEN /\ readBuffer' = [readBuffer EXCEPT ![e] = BufferWith(e, s)]
         /\ destinationSequence' =
               [destinationSequence EXCEPT ![e] = Frontier(e, BufferWith(e, s))]
    ELSE UNCHANGED <<readBuffer, destinationSequence>>

Acknowledgement(e) ==
    [seq |-> sourceSequence[e], ack |-> destinationSequence'[e],
     first |-> NoByte, len |-> 0]

(***************************************************************************)
(* queue is what remains of the channel to e.  The acknowledgement is sent *)
(* alone when no send holds m_sendMutex; the mutex is not unlocked when    *)
(* tryLock succeeded but the segment carries no data.                      *)
(***************************************************************************)
ParseSegment(e, s, queue) ==
    /\ connected[e]
    /\ ackSequence' = [ackSequence EXCEPT ![e] = s.ack]
    /\ Accept(e, s)
    /\ IF sendMutex[e] = "free" /\ s.len > 0
       THEN /\ channel' = [channel EXCEPT
                              ![e] = queue,
                              ![Peer(e)] = Transmit(@, <<Acknowledgement(e)>>)]
            /\ UNCHANGED sendMutex
       ELSE /\ channel' = [channel EXCEPT ![e] = queue]
            /\ sendMutex' = [sendMutex EXCEPT
                                ![e] = IF @ = "free" THEN "reader" ELSE @]
    /\ UNCHANGED <<connected, sourceSequence, windowVars, readBufferLowerBound,
                   senderVars, historyVars>>

ReceiveSegment(e) ==
    /\ channel[e] # <<>>
    /\ ParseSegment(e, Head(channel[e]), Tail(channel[e]))

\* The same frame will arrive once more.
ReceiveDuplicate(e) ==
    /\ channel[e] # <<>>
    /\ ParseSegment(e, Head(channel[e]), channel[e])

\* Lost on the way, or dropped by parseSegment of a disconnected socket.
LoseSegment(e) ==
    /\ channel[e] # <<>>
    /\ channel' = [channel EXCEPT ![e] = Tail(@)]
    /\ UNCHANGED <<socketVars, windowVars, bufferVars, senderVars, historyVars>>

-----------------------------------------------------------------------------
(***************************************************************************)
(* Socket::receive: hands over every contiguous byte.  It waits while there*)
(* is none, and does not look at m_connected.                              *)
(***************************************************************************)
Receive(e) ==
    LET lower == readBufferLowerBound[e]
        length == destinationSequence[e] - lower
    IN /\ length > 0
       /\ delivered' = [delivered EXCEPT ![e] =
                           @ \o [k \in 1 .. length |-> readBuffer[e][lower + k - 1]]]
       /\ readBuffer' = [readBuffer EXCEPT ![e] =
                           [q \in Uint |-> IF q \in lower .. lower + length - 1
                                           THEN NoByte ELSE @[q]]]
       /\ readBufferLowerBound' =
             [readBufferLowerBound EXCEPT ![e] = destinationSequence[e]]
       /\ UNCHANGED <<socketVars, windowVars, senderVars, channel, written,
                      confirmed>>

-----------------------------------------------------------------------------
\* Both finalizeConnecting ran: each end expects the other's first data byte.
Init ==
    /\ connected = [e \in Ends |-> TRUE]
    /\ sourceSequence = Start
    /\ destinationSequence = [e \in Ends |-> Start[Peer(e)]]
    /\ ackSequence = [e \in Ends |-> 0]
    /\ sendMutex = [e \in Ends |-> "free"]
    /\ congestionWindowSize = [e \in Ends |-> 1]
    /\ threshold = [e \in Ends |-> MAX_SEGMENT_AMOUNT]
    /\ readBuffer = [e \in Ends |-> [q \in Uint |-> NoByte]]
    /\ readBufferLowerBound = [e \in Ends |-> Start[Peer(e)]]
    /\ pc = [e \in Ends |-> "idle"]
    /\ progress = [e \in Ends |-> 0]
    /\ oldAckSequence = [e \in Ends |-> 0]
    /\ timeoutCounter = [e \in Ends |-> 0]
    /\ channel = [e \in Ends |-> <<>>]
    /\ written = [e \in Ends |-> 0]
    /\ confirmed = [e \in Ends |-> 0]
    /\ delivered = [e \in Ends |-> <<>>]

Sender(e) ==
    \/ CheckConnected(e)
    \/ \E len \in 1 .. MaxStream[e] : StartSend(e, len)
    \/ GiveUp(e)
    \/ ContinueSend(e)
    \/ FinishSend(e)

Next ==
    \E e \in Ends :
        \/ Sender(e)
        \/ ReceiveSegment(e)
        \/ ReceiveDuplicate(e)
        \/ LoseSegment(e)
        \/ Receive(e)

Spec == Init /\ [][Next]_vars

(***************************************************************************)
(* The timer of a waiting send expires (QWaitCondition::wait with a time): *)
(* the thread goes on whatever the network does.                           *)
(***************************************************************************)
TimerFairness ==
    \A e \in Ends : WF_vars(GiveUp(e) \/ ContinueSend(e) \/ FinishSend(e))

TimedSpec == Spec /\ TimerFairness

(***************************************************************************)
(* In addition the other threads run: a call that may lock m_sendMutex does*)
(* so, the reader thread takes what has arrived, the application reads.    *)
(***************************************************************************)
ThreadFairness ==
    \A e \in Ends :
        /\ WF_vars(\E len \in 1 .. MaxStream[e] : StartSend(e, len))
        /\ WF_vars(ReceiveSegment(e))
        /\ WF_vars(Receive(e))

FairSpec == TimedSpec /\ ThreadFairness

(***************************************************************************)
(* Two hosts joined by two routes: RoutingTable::update may replace the    *)
(* route between two segments, and the later one may overtake.             *)
(***************************************************************************)
Overtake(e) ==
    \E k \in 1 .. Len(channel[e]) - 1 :
        /\ channel' = [channel EXCEPT ![e] =
                          [@ EXCEPT ![k] = channel[e][k + 1],
                                    ![k + 1] = channel[e][k]]]
        /\ UNCHANGED <<socketVars, windowVars, bufferVars, senderVars,
                       historyVars>>

MultipathNext == Next \/ \E e \in Ends : Overtake(e)

MultipathSpec == Init /\ [][MultipathNext]_vars

-----------------------------------------------------------------------------
(***************************************************************************)
(* Properties                                                              *)
(***************************************************************************)

TypeOK ==
    /\ connected \in [Ends -> BOOLEAN]
    /\ sourceSequence \in [Ends -> Uint]
    /\ destinationSequence \in [Ends -> Uint]
    /\ ackSequence \in [Ends -> Uint]
    /\ sendMutex \in [Ends -> {"free", "sender", "reader"}]
    /\ congestionWindowSize \in [Ends -> Nat \ {0}]
    /\ threshold \in [Ends -> Nat \ {0}]
    /\ readBuffer \in [Ends -> [Uint -> Nat]]
    /\ readBufferLowerBound \in [Ends -> Uint]
    /\ pc \in [Ends -> {"idle", "checked", "waiting"}]
    /\ progress \in [Ends -> Uint]
    /\ oldAckSequence \in [Ends -> Uint]
    /\ timeoutCounter \in [Ends -> Nat]
    /\ channel \in [Ends -> Seq(Segment)]
    /\ written \in [Ends -> Nat]
    /\ confirmed \in [Ends -> Nat]
    /\ delivered \in [Ends -> Seq(Nat)]

(***************************************************************************)
(* What receive returned so far is a prefix of what the peer's application *)
(* wrote: no byte lost, repeated, reordered or invented, however segments  *)
(* were lost, repeated, cut at the window or retransmitted from a partly   *)
(* acknowledged position.                                                  *)
(***************************************************************************)
DeliveredInOrder ==
    \A e \in Ends :
        /\ delivered[e] = [k \in 1 .. Len(delivered[e]) |-> k]
        /\ Len(delivered[e]) <= written[Peer(e)]

(***************************************************************************)
(* A call of send that returned true put all of its bytes into the peer's  *)
(* read buffer or application: true is never reported for bytes that only  *)
(* reached the network, whatever the timers and late acknowledgements did. *)
(***************************************************************************)
ConfirmedIsReceived ==
    \A e \in Ends : Start[e] + confirmed[e] <= destinationSequence[Peer(e)]

(***************************************************************************)
(* socket.h:74 "First unacknowledged byte sequence number": while a send   *)
(* runs it is a byte of the call (or one past it), never one the peer has  *)
(* not reached, so that the bytes from it on are all still available to be *)
(* sent again.                                                             *)
(***************************************************************************)
AckWithinCall ==
    \A e \in Ends :
        pc[e] = "waiting" =>
            /\ ackSequence[e] >= Start[e] + confirmed[e]
            /\ ackSequence[e] <= Start[e] + written[e]
            /\ ackSequence[e] <= destinationSequence[Peer(e)]

Buffered(e) == { q \in Uint : readBuffer[e][q] # NoByte }

(***************************************************************************)
(* socket.cpp:29 computes MAX_BUFFER_SIZE - m_readBuffer.size() in uint and*)
(* socket.h:86 promises an interval: the buffer never holds more bytes, or *)
(* a byte outside the interval, even when a full buffer is not read and the*)
(* peer keeps retransmitting.                                              *)
(***************************************************************************)
BufferInInterval ==
    \A e \in Ends : \A q \in Buffered(e) :
        /\ q >= readBufferLowerBound[e]
        /\ q < readBufferLowerBound[e] + MAX_BUFFER_SIZE

(***************************************************************************)
(* socket.h:42 "Sequence number of next byte, which host is expecting to   *)
(* get": every byte before it that was not handed over is buffered, and no *)
(* buffered byte waits at it, so the acknowledgements this end sends never *)
(* cover a hole and never lag behind a byte it has.                        *)
(***************************************************************************)
ExpectedIsFirstGap ==
    \A e \in Ends :
        /\ readBufferLowerBound[e] .. destinationSequence[e] - 1 \subseteq Buffered(e)
        /\ destinationSequence[e] \notin Buffered(e)

(***************************************************************************)
(* A send that got its locks returns, true or false, although nobody ever  *)
(* wakes m_senderWaitCondition and the network may lose everything: each   *)
(* turn of the loop either completes a window or uses up a timeout.        *)
(***************************************************************************)
SendReturns == \A e \in Ends : []<>(pc[e] # "waiting")

(***************************************************************************)
(* testtransportlayer.cpp:111-112 expects two sends in a row to return     *)
(* true: a call that found the socket connected gets through its locks.    *)
(***************************************************************************)
CheckedSendProceeds == \A e \in Ends : pc[e] = "checked" ~> pc[e] # "checked"

(***************************************************************************)
(* The inductive invariant behind the safety properties, one direction at  *)
(* a time: e sends, Peer(e) receives.  It needs sequence numbers that do   *)
(* not wrap around during the connection: send and parseSegment compare    *)
(* them with < and >=, as if they never did.                               *)
(***************************************************************************)
NoWrapAround ==
    \A e \in Ends : Start[e] + MaxStream[e] + MAX_BUFFER_SIZE < UintMod

\* Confirmed, received and written bytes of the stream, in this order.
StreamBounds(e) ==
    LET r == Peer(e)
    IN /\ confirmed[e] <= written[e]
       /\ written[e] <= MaxStream[e]
       /\ Start[e] <= readBufferLowerBound[r]
       /\ readBufferLowerBound[r] <= destinationSequence[r]
       /\ destinationSequence[r] <= readBufferLowerBound[r] + MAX_BUFFER_SIZE
       /\ Start[e] + confirmed[e] <= destinationSequence[r]
       /\ destinationSequence[r] <= Start[e] + written[e]

\* A buffered byte is the byte of its sequence number; the first gap is exact.
BufferContents(e) ==
    LET r == Peer(e)
    IN /\ \A q \in Uint :
             readBuffer[r][q] # NoByte =>
                /\ readBuffer[r][q] = q - Start[e] + 1
                /\ readBufferLowerBound[r] <= q
                /\ q < readBufferLowerBound[r] + MAX_BUFFER_SIZE
                /\ q < Start[e] + written[e]
       /\ \A q \in readBufferLowerBound[r] .. destinationSequence[r] - 1 :
             readBuffer[r][q] # NoByte
       /\ readBuffer[r][destinationSequence[r]] = NoByte

DeliveredPrefix(e) ==
    LET r == Peer(e)
    IN delivered[r] = [k \in 1 .. readBufferLowerBound[r] - Start[e] |-> k]

\* A segment of e with data carries the bytes of its sequence numbers, all of
\* them among the first n of the stream.
CarriesStream(e, s, n) ==
    s.len > 0 =>
        /\ s.first = s.seq - Start[e] + 1
        /\ Start[e] <= s.seq
        /\ s.seq + s.len <= Start[e] + n

DataInFlight(e) ==
    \A k \in 1 .. Len(channel[Peer(e)]) :
        CarriesStream(e, channel[Peer(e)][k], written[e])

\* The numbers acknowledged along a channel lie in an interval and never fall.
AcksOrdered(queue, low, high) ==
    \A k \in 1 .. Len(queue) :
        /\ low <= queue[k].ack
        /\ queue[k].ack <= high
        /\ \A j \in 1 .. k : queue[j].ack <= queue[k].ack

\* What the sender already takes for acknowledged.
Acknowledged(e) == IF pc[e] = "waiting" THEN ackSequence[e] ELSE sourceSequence[e]

AcksInFlight(e) ==
    /\ Acknowledged(e) <= destinationSequence[Peer(e)]
    /\ AcksOrdered(channel[e], Acknowledged(e), destinationSequence[Peer(e)])

\* Where the sender stands in its call, or that it has no call running.
SenderState(e) ==
    /\ pc[e] = "waiting" =>
          /\ connected[e]
          /\ oldAckSequence[e] = Start[e] + confirmed[e] + progress[e]
          /\ oldAckSequence[e] <= ackSequence[e]
          /\ ackSequence[e] <= destinationSequence[Peer(e)]
    /\ pc[e] = "checked" => connected[e]
    /\ pc[e] # "waiting" /\ connected[e] =>
          /\ written[e] = confirmed[e]
          /\ sourceSequence[e] = Start[e] + confirmed[e]

DirectionInv(e) ==
    /\ StreamBounds(e)
    /\ BufferContents(e)
    /\ DeliveredPrefix(e)
    /\ DataInFlight(e)
    /\ AcksInFlight(e)
    /\ SenderState(e)

IInv == \A e \in Ends : DirectionInv(e)

(***************************************************************************)
(* What the two sockets promise together: see ReliableStream.              *)
(***************************************************************************)
Stream == INSTANCE ReliableStream WITH
    arrived <- [e \in Ends |-> destinationSequence[Peer(e)] - Start[e]],
    open <- connected

StreamSpec == Stream!Spec

=============================================================================
