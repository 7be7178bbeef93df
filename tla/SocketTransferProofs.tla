------------------------ MODULE SocketTransferProofs ------------------------
(***************************************************************************)
(* Proofs about SocketTransfer, for every value of its constants.          *)
(***************************************************************************)
EXTENDS SocketTransfer, WellFoundedInduction, SequenceTheorems, TLAPS

-----------------------------------------------------------------------------
(***************************************************************************)
(* Arithmetic and sequences                                                *)
(***************************************************************************)

\* A set of natural numbers has a least element, and Min is that element.
LEMMA MinOfNaturals ==
    ASSUME NEW S \in SUBSET Nat, S # {}
    PROVE  Min(S) \in S /\ \A x \in S : Min(S) <= x
  <1> DEFINE R == OpToRel(<, Nat)
  <1>1. IsWellFoundedOn(R, Nat)
    BY NatLessThanWellFounded
  <1>2. ASSUME NEW x \in Nat, NEW y \in Nat, x < y
        PROVE  <<x, y>> \in R
    BY <1>2 DEF OpToRel
  <1> HIDE DEF R
  <1>3. PICK m \in S : \A x \in S : ~ (<<x, m>> \in R)
    BY <1>1, WFMin
  <1>4. ASSUME NEW x \in S
        PROVE  m <= x
    <2>1. x \in Nat /\ m \in Nat
      OBVIOUS
    <2>2. ~ (x < m)
      BY <1>2, <1>3, <2>1
    <2> QED
      BY <2>1, <2>2
  <1> QED
    BY <1>4 DEF Min

\* Integer division rounds down.
LEMMA DivisionBound ==
    ASSUME NEW n \in Nat, NEW m \in Nat \ {0}
    PROVE  /\ n \div m \in Nat
           /\ m * (n \div m) <= n
  OBVIOUS

\* Every segment sendBurst cuts off begins inside the bytes it was given.
LEMMA OffsetBound ==
    ASSUME NEW length \in Nat,
           NEW k \in 1 .. (length + MAX_SEGMENT_SIZE - 1) \div MAX_SEGMENT_SIZE
    PROVE  /\ (k - 1) * MAX_SEGMENT_SIZE \in Nat
           /\ (k - 1) * MAX_SEGMENT_SIZE < length
  <1> DEFINE m == MAX_SEGMENT_SIZE
             d == (length + m - 1) \div m
  <1>1. m \in Nat \ {0}
    BY ConstantsAssumption
  <1>2. d \in Nat /\ m * d <= length + m - 1
    BY <1>1, DivisionBound
  <1>3. k \in Nat /\ 1 <= k /\ k <= d
    BY <1>2
  <1> HIDE DEF d
  <1>4. m * k <= m * d
    BY <1>1, <1>2, <1>3
  <1>5. (k - 1) * m = m * k - m /\ m * k \in Nat /\ (k - 1) * m \in Nat
    BY <1>1, <1>3
  <1> QED
    BY <1>1, <1>2, <1>4, <1>5

\* uint arithmetic stays in range, and is exact on what is in range.
LEMMA UintArithmetic ==
    ASSUME NEW x \in Int
    PROVE  /\ U(x) \in Uint
           /\ x \in Uint => U(x) = x
  BY ConstantsAssumption DEF U, Uint

LEMMA PeerIsEnd ==
    ASSUME NEW e \in Ends
    PROVE  /\ Peer(e) \in Ends
           /\ Peer(e) # e
           /\ Peer(Peer(e)) = e
  BY ConstantsAssumption DEF Ends, Peer

\* What Transmit leaves in the channel, and where each element comes from.
LEMMA TransmitProperties ==
    ASSUME NEW queue \in Seq(Segment), NEW segments \in Seq(Segment)
    PROVE  LET result == Transmit(queue, segments)
           IN /\ result \in Seq(Segment)
              /\ Len(result) <= Len(queue) + Len(segments)
              /\ \A k \in 1 .. Len(result) :
                    result[k] = IF k <= Len(queue) THEN queue[k]
                                ELSE segments[k - Len(queue)]
  <1> DEFINE all == queue \o segments
             n == Lesser(Len(all), MAX_READ_BUFFER_SIZE)
             result == SubSeq(all, 1, n)
  <1>1. /\ Len(queue) \in Nat
        /\ Len(segments) \in Nat
        /\ all \in Seq(Segment)
        /\ Len(all) = Len(queue) + Len(segments)
        /\ \A k \in 1 .. Len(all) :
              all[k] = IF k <= Len(queue) THEN queue[k]
                       ELSE segments[k - Len(queue)]
    BY ConcatProperties, LenProperties
  <1> HIDE DEF all
  <1>2. n \in Nat /\ n <= Len(all)
    BY <1>1, ConstantsAssumption DEF Lesser
  <1>3. \A k \in 1 .. n : all[k] \in Segment
    BY <1>1, <1>2, ElementOfSeq
  <1> HIDE DEF n
  <1>4. /\ result \in Seq(Segment)
        /\ Len(result) = IF 1 <= n THEN n - 1 + 1 ELSE 0
        /\ \A k \in 1 .. n - 1 + 1 : result[k] = all[1 + k - 1]
    BY <1>2, <1>3, SubSeqProperties
  <1>5. Len(result) = n
    BY <1>2, <1>4
  <1>6. \A k \in 1 .. n : result[k] = all[k]
    BY <1>2, <1>4
  <1>7. Transmit(queue, segments) = result
    BY DEF Transmit, all, n
  <1> HIDE DEF result
  <1> QED
    BY <1>1, <1>2, <1>4, <1>5, <1>6, <1>7

-----------------------------------------------------------------------------
(***************************************************************************)
(* Type correctness                                                        *)
(***************************************************************************)

LEMMA BurstType ==
    ASSUME TypeOK, NEW e \in Ends, NEW sequence \in Uint, NEW first \in Nat,
           NEW length \in Nat
    PROVE  Burst(e, sequence, first, length) \in Seq(Segment)
  <1> DEFINE count == (length + MAX_SEGMENT_SIZE - 1) \div MAX_SEGMENT_SIZE
             burst == Burst(e, sequence, first, length)
  <1>1. count \in Nat
    BY ConstantsAssumption, DivisionBound
  <1>2. ASSUME NEW k \in 1 .. count
        PROVE  burst[k] \in Segment
    <2> DEFINE offset == (k - 1) * MAX_SEGMENT_SIZE
    <2>1. offset \in Nat /\ offset < length
      BY OffsetBound
    <2>2. burst[k] = [seq   |-> U(sequence + offset),
                      ack   |-> destinationSequence[e],
                      first |-> first + offset,
                      len   |-> Lesser(length - offset, MAX_SEGMENT_SIZE)]
      BY DEF Burst
    <2> HIDE DEF offset
    <2>3. U(sequence + offset) \in Uint
      BY <2>1, UintArithmetic DEF Uint
    <2>4. Lesser(length - offset, MAX_SEGMENT_SIZE) \in 0 .. MAX_SEGMENT_SIZE
      BY <2>1, ConstantsAssumption DEF Lesser
    <2>5. destinationSequence[e] \in Uint /\ first + offset \in Nat
      BY <2>1 DEF TypeOK
    <2> HIDE DEF burst
    <2> QED
      BY <2>2, <2>3, <2>4, <2>5 DEF Segment
  <1>3. burst = [k \in 1 .. count |-> burst[k]]
    BY DEF Burst
  <1> HIDE DEF burst, count
  <1>4. burst \in [1 .. count -> Segment]
    BY <1>2, <1>3
  <1> QED
    BY <1>1, <1>4, SeqDef DEF burst

\* The loop body of send up to its wait keeps the types of what it assigns.
LEMMA SendWindowType ==
    ASSUME TypeOK, NEW e \in Ends,
           NEW sequence \in Uint, NEW i \in Uint, NEW first \in Nat,
           NEW left \in Nat, NEW window \in Nat \ {0},
           SendWindow(e, sequence, i, first, left, window)
    PROVE  /\ progress' \in [Ends -> Uint]
           /\ oldAckSequence' \in [Ends -> Uint]
           /\ sourceSequence' \in [Ends -> Uint]
           /\ channel' \in [Ends -> Seq(Segment)]
  <1> DEFINE length == Lesser(Lesser(left, MAX_BUFFER_SIZE),
                              window * MAX_SEGMENT_SIZE)
             burst == Burst(e, sequence, first, length)
  <1>1. window * MAX_SEGMENT_SIZE \in Nat
    BY ConstantsAssumption
  <1>2. length \in Nat
    BY <1>1, ConstantsAssumption DEF Lesser
  <1> HIDE DEF length
  <1>3. burst \in Seq(Segment)
    BY <1>2, BurstType
  <1> HIDE DEF burst
  <1>4. channel[Peer(e)] \in Seq(Segment)
    BY PeerIsEnd DEF TypeOK
  <1>5. Transmit(channel[Peer(e)], burst) \in Seq(Segment)
    BY <1>3, <1>4, TransmitProperties
  <1>6. U(sequence + length) \in Uint
    BY <1>2, UintArithmetic DEF Uint
  <1>7. /\ progress' = [progress EXCEPT ![e] = i]
        /\ oldAckSequence' = [oldAckSequence EXCEPT ![e] = sequence]
        /\ sourceSequence' = [sourceSequence EXCEPT ![e] = U(sequence + length)]
        /\ channel' = [channel EXCEPT ![Peer(e)] = Transmit(channel[Peer(e)], burst)]
    BY DEF SendWindow, length, burst
  <1> QED
    BY <1>5, <1>6, <1>7 DEF TypeOK

LEMMA NextSenderType ==
    ASSUME TypeOK, NEW e \in Ends
    PROVE  /\ NextProgress(e) \in Uint
           /\ NextWindow(e) \in Nat \ {0}
           /\ NextThreshold(e) \in Nat \ {0}
           /\ NextTimeoutCounter(e) \in Nat
  <1>1. /\ progress[e] \in Int /\ ackSequence[e] \in Int
        /\ oldAckSequence[e] \in Int
    BY DEF TypeOK, Uint
  <1>2. NextProgress(e) \in Uint
    BY <1>1, UintArithmetic DEF NextProgress
  <1>3. /\ congestionWindowSize[e] \in Nat \ {0}
        /\ threshold[e] \in Nat \ {0}
        /\ timeoutCounter[e] \in Nat
    BY ConstantsAssumption DEF TypeOK
  <1> QED
    BY <1>2, <1>3 DEF NextWindow, NextThreshold, NextTimeoutCounter

\* Where Frontier puts the expected number: the first gap, or it stays.
LEMMA FrontierProperties ==
    ASSUME TypeOK, NEW e \in Ends, NEW buffer \in [Uint -> Nat]
    PROVE  LET lower == readBufferLowerBound[e]
               upper == UpperBound(e)
               f == Frontier(e, buffer)
           IN /\ f \in Uint
              /\ \/ /\ f = destinationSequence[e]
                    /\ lower < upper => buffer[lower] = NoByte
                 \/ /\ lower < f /\ f <= upper
                    /\ \A q \in lower .. f - 1 : buffer[q] # NoByte
                    /\ f = upper \/ buffer[f] = NoByte
  <1> DEFINE lower == readBufferLowerBound[e]
             upper == UpperBound(e)
             gaps == { q \in lower .. upper : q = upper \/ buffer[q] = NoByte }
  <1>1. lower \in Uint /\ upper \in Uint /\ destinationSequence[e] \in Uint
    <2>1. lower \in Uint /\ destinationSequence[e] \in Uint
      BY DEF TypeOK
    <2>2. lower + MAX_BUFFER_SIZE \in Int
      BY <2>1, ConstantsAssumption DEF Uint
    <2> QED
      BY <2>1, <2>2, UintArithmetic DEF UpperBound
  <1>2. lower .. upper \subseteq Uint /\ Uint \subseteq Nat
    <2>1. UintMod \in Nat
      BY ConstantsAssumption
    <2> HIDE DEF lower, upper
    <2> QED
      BY <1>1, <2>1 DEF Uint
  <1>3. Frontier(e, buffer) = IF gaps = {} \/ lower \in gaps
                              THEN destinationSequence[e] ELSE Min(gaps)
    BY DEF Frontier
  <1>4. CASE gaps = {} \/ lower \in gaps
    <2>1. lower < upper => upper \in gaps
      BY <1>1 DEF Uint
    <2>2. lower < upper => buffer[lower] = NoByte
      BY <1>1, <1>4, <2>1 DEF Uint
    <2> QED
      BY <1>1, <1>3, <1>4, <2>2
  <1>5. CASE ~ (gaps = {} \/ lower \in gaps)
    <2> DEFINE m == Min(gaps)
    <2>1. gaps \in SUBSET Nat
      BY <1>2
    <2>2. m \in gaps /\ \A q \in gaps : m <= q
      BY <1>5, <2>1, MinOfNaturals
    <2> HIDE DEF m
    <2>3. m \in Uint /\ lower <= m /\ m <= upper /\ (m = upper \/ buffer[m] = NoByte)
      BY <1>1, <1>2, <2>2
    <2>4. m # lower
      BY <1>5, <2>2
    <2>5. \A q \in lower .. m - 1 : buffer[q] # NoByte
      <3> SUFFICES ASSUME NEW q \in lower .. m - 1, buffer[q] = NoByte
                   PROVE  FALSE
        OBVIOUS
      <3>1. q \in lower .. upper /\ q < m
        BY <1>1, <2>3 DEF Uint
      <3>2. q \in gaps
        BY <3>1
      <3> QED
        BY <2>2, <2>3, <3>1, <3>2 DEF Uint
    <2>6. lower < m
      BY <1>1, <2>3, <2>4 DEF Uint
    <2> QED
      BY <1>3, <1>5, <2>3, <2>5, <2>6 DEF m
  <1> QED
    BY <1>4, <1>5

\* What parseSegment assigns to the buffer, the expected number and channels.
LEMMA ParseSegmentType ==
    ASSUME TypeOK, NEW e \in Ends, NEW s \in Segment, NEW queue \in Seq(Segment),
           ParseSegment(e, s, queue)
    PROVE  TypeOK'
  <1>1. s.seq \in Uint /\ s.ack \in Uint /\ s.first \in Nat
    BY DEF Segment
  <1>2. BufferWith(e, s) \in [Uint -> Nat]
    <2>1. readBuffer[e] \in [Uint -> Nat]
      BY DEF TypeOK
    <2>2. ASSUME NEW q \in Stored(e, s)
          PROVE  s.first + (q - s.seq) \in Nat
      <3>1. q \in Uint /\ q >= Greater(s.seq, destinationSequence[e])
        BY DEF Stored
      <3>2. destinationSequence[e] \in Uint
        BY DEF TypeOK
      <3> QED
        BY <1>1, <3>1, <3>2 DEF Greater, Uint
    <2> QED
      BY <2>1, <2>2 DEF BufferWith
  <1>3. Frontier(e, BufferWith(e, s)) \in Uint
    BY <1>2, FrontierProperties
  <1>4. /\ readBuffer' \in [Ends -> [Uint -> Nat]]
        /\ destinationSequence' \in [Ends -> Uint]
    <2>1. Accept(e, s)
      BY DEF ParseSegment
    <2>2. CASE InWindow(e, s)
      BY <1>2, <1>3, <2>1, <2>2, ZenonT(60) DEF Accept, TypeOK
    <2>3. CASE ~ InWindow(e, s)
      BY <2>1, <2>3 DEF Accept, TypeOK
    <2> QED
      BY <2>2, <2>3
  <1>5. ackSequence' \in [Ends -> Uint]
    BY <1>1 DEF ParseSegment, TypeOK
  <1>6. sendMutex' \in [Ends -> {"free", "sender", "reader"}]
    BY DEF ParseSegment, TypeOK
  <1>7. channel' \in [Ends -> Seq(Segment)]
    <2>1. Acknowledgement(e) \in Segment
      BY <1>4, ConstantsAssumption DEF Acknowledgement, Segment, NoByte, TypeOK
    <2>2. channel[Peer(e)] \in Seq(Segment) /\ <<Acknowledgement(e)>> \in Seq(Segment)
      BY <2>1, PeerIsEnd DEF TypeOK
    <2>3. Transmit(channel[Peer(e)], <<Acknowledgement(e)>>) \in Seq(Segment)
      BY <2>2, TransmitProperties
    <2>4. \/ channel' = [channel EXCEPT ![e] = queue,
                           ![Peer(e)] = Transmit(channel[Peer(e)], <<Acknowledgement(e)>>)]
          \/ channel' = [channel EXCEPT ![e] = queue]
      BY PeerIsEnd DEF ParseSegment
    <2>5. channel \in [Ends -> Seq(Segment)]
      BY DEF TypeOK
    <2> QED
      BY <2>3, <2>4, <2>5, PeerIsEnd
  <1> QED
    BY <1>4, <1>5, <1>6, <1>7
       DEF ParseSegment, TypeOK, windowVars, senderVars, historyVars

LEMMA InitType == Init => TypeOK
  BY ConstantsAssumption, PeerIsEnd DEF Init, TypeOK, Uint, NoByte

LEMMA NextType == TypeOK /\ [Next]_vars => TypeOK'
  <1> SUFFICES ASSUME TypeOK, [Next]_vars
               PROVE  TypeOK'
    OBVIOUS
  <1>1. ASSUME NEW e \in Ends, CheckConnected(e)
        PROVE  TypeOK'
    BY <1>1 DEF CheckConnected, TypeOK, socketVars, windowVars, bufferVars,
                historyVars
  <1>2. ASSUME NEW e \in Ends, NEW len \in 1 .. MaxStream[e], StartSend(e, len)
        PROVE  TypeOK'
    <2>1. /\ sourceSequence[e] \in Uint /\ 0 \in Uint
          /\ confirmed[e] + 1 \in Nat /\ len \in Nat
          /\ congestionWindowSize[e] \in Nat \ {0}
      <3>1. UintMod \in Nat \ {0} /\ MaxStream[e] \in Nat
        BY ConstantsAssumption
      <3>2. 0 \in Uint /\ len \in Nat
        BY <3>1 DEF Uint
      <3> QED
        BY <3>2 DEF TypeOK
    <2>2. SendWindow(e, sourceSequence[e], 0, confirmed[e] + 1, len,
                     congestionWindowSize[e])
      BY <1>2 DEF StartSend
    <2>3. /\ progress' \in [Ends -> Uint]
          /\ oldAckSequence' \in [Ends -> Uint]
          /\ sourceSequence' \in [Ends -> Uint]
          /\ channel' \in [Ends -> Seq(Segment)]
      BY <2>1, <2>2, SendWindowType
    <2>4. written' \in [Ends -> Nat]
      BY <1>2, <2>1, SMTT(30) DEF StartSend, TypeOK
    <2> QED
      BY <1>2, <2>3, <2>4
         DEF StartSend, ResetAck, TypeOK, windowVars, bufferVars
  <1>3. ASSUME NEW e \in Ends, GiveUp(e)
        PROVE  TypeOK'
    <2>1. timeoutCounter' \in [Ends -> Nat]
      BY <1>3, ConstantsAssumption DEF GiveUp, TypeOK
    <2>2. /\ congestionWindowSize' \in [Ends -> Nat \ {0}]
          /\ threshold' \in [Ends -> Nat \ {0}]
      BY <1>3, NextSenderType DEF GiveUp, AdjustWindow, TypeOK
    <2> QED
      BY <1>3, <2>1, <2>2 DEF GiveUp, Return, TypeOK, bufferVars, historyVars
  <1>4. ASSUME NEW e \in Ends, ContinueSend(e)
        PROVE  TypeOK'
    <2> DEFINE i == NextProgress(e)
               left == written[e] - confirmed[e] - i
    <2>1. /\ i \in Uint /\ NextWindow(e) \in Nat \ {0}
          /\ NextThreshold(e) \in Nat \ {0} /\ NextTimeoutCounter(e) \in Nat
      BY NextSenderType
    <2>2. /\ ackSequence[e] \in Uint /\ written[e] \in Nat /\ confirmed[e] \in Nat
      BY DEF TypeOK
    <2>3. i < written[e] - confirmed[e]
      BY <1>4 DEF ContinueSend
    <2>4. SendWindow(e, ackSequence[e], i, confirmed[e] + i + 1, left,
                     NextWindow(e))
      BY <1>4 DEF ContinueSend
    <2>5. left \in Nat /\ confirmed[e] + i + 1 \in Nat
      BY <2>1, <2>2, <2>3 DEF Uint
    <2> HIDE DEF i, left
    <2>6. /\ progress' \in [Ends -> Uint]
          /\ oldAckSequence' \in [Ends -> Uint]
          /\ sourceSequence' \in [Ends -> Uint]
          /\ channel' \in [Ends -> Seq(Segment)]
      BY <2>1, <2>2, <2>4, <2>5, SendWindowType
    <2>7. timeoutCounter' \in [Ends -> Nat]
      BY <1>4, <2>1 DEF ContinueSend, TypeOK
    <2> QED
      BY <1>4, <2>1, <2>6, <2>7
         DEF ContinueSend, AdjustWindow, TypeOK, bufferVars, historyVars
  <1>5. ASSUME NEW e \in Ends, FinishSend(e)
        PROVE  TypeOK'
    <2>1. timeoutCounter' \in [Ends -> Nat]
      BY <1>5, NextSenderType DEF FinishSend, TypeOK
    <2> QED
      BY <1>5, <2>1, NextSenderType
         DEF FinishSend, AdjustWindow, Return, TypeOK, bufferVars
  <1>6. ASSUME NEW e \in Ends, channel[e] # <<>>,
               ParseSegment(e, Head(channel[e]), Tail(channel[e])) \/
               ParseSegment(e, Head(channel[e]), channel[e])
        PROVE  TypeOK'
    <2>1. channel[e] \in Seq(Segment)
      BY DEF TypeOK
    <2>2. Head(channel[e]) \in Segment /\ Tail(channel[e]) \in Seq(Segment)
      BY <1>6, <2>1, HeadTailProperties
    <2> QED
      BY <1>6, <2>1, <2>2, ParseSegmentType
  <1>7. ASSUME NEW e \in Ends, LoseSegment(e)
        PROVE  TypeOK'
    <2>1. Tail(channel[e]) \in Seq(Segment)
      BY <1>7, HeadTailProperties DEF LoseSegment, TypeOK
    <2> QED
      BY <1>7, <2>1 DEF LoseSegment, TypeOK, socketVars, windowVars, bufferVars,
                        senderVars, historyVars
  <1>8. ASSUME NEW e \in Ends, Receive(e)
        PROVE  TypeOK'
    <2> DEFINE lower == readBufferLowerBound[e]
               length == destinationSequence[e] - lower
               bytes == [k \in 1 .. length |-> readBuffer[e][lower + k - 1]]
    <2>1. lower \in Uint /\ destinationSequence[e] \in Uint
          /\ readBuffer[e] \in [Uint -> Nat]
      BY DEF TypeOK
    <2>2. length \in Nat
      BY <1>8, <2>1 DEF Receive, Uint
    <2>3. \A k \in 1 .. length : lower + k - 1 \in Uint
      BY <2>1, ConstantsAssumption DEF Uint
    <2>4. bytes \in [1 .. length -> Nat]
      BY <2>1, <2>3
    <2>5. bytes \in Seq(Nat)
      BY <2>2, <2>4, SeqDef
    <2>6. delivered' = [delivered EXCEPT ![e] = delivered[e] \o bytes]
      BY <1>8 DEF Receive
    <2> HIDE DEF bytes
    <2>7. delivered' \in [Ends -> Seq(Nat)]
      BY <2>5, <2>6, ConcatProperties DEF TypeOK
    <2>8. readBuffer' \in [Ends -> [Uint -> Nat]]
      BY <1>8, <2>1 DEF Receive, TypeOK, NoByte
    <2>9. readBufferLowerBound' \in [Ends -> Uint]
      BY <1>8 DEF Receive, TypeOK
    <2> QED
      BY <1>8, <2>7, <2>8, <2>9
         DEF Receive, TypeOK, socketVars, windowVars, senderVars
  <1>9. CASE UNCHANGED vars
    BY <1>9 DEF vars, socketVars, windowVars, bufferVars, senderVars,
                historyVars, TypeOK
  <1> QED
    BY <1>1, <1>2, <1>3, <1>4, <1>5, <1>6, <1>7, <1>8, <1>9
       DEF Next, Sender, ReceiveSegment, ReceiveDuplicate

(***************************************************************************)
(* Every variable keeps its type: in particular every sequence number and  *)
(* the position in the message stay uints although send adds the difference*)
(* of two acknowledgements to it, and the window never becomes 0.          *)
(***************************************************************************)
THEOREM TypeCorrect == Spec => []TypeOK
  BY InitType, NextType, PTL DEF Spec

-----------------------------------------------------------------------------
(***************************************************************************)
(* The inductive invariant                                                 *)
(***************************************************************************)

\* Every number of one end is a natural number: what SMT needs for arithmetic.
LEMMA Numbers ==
    ASSUME TypeOK, NEW e \in Ends
    PROVE  /\ Start[e] \in Nat /\ MaxStream[e] \in Nat
           /\ UintMod \in Nat \ {0} /\ MAX_BUFFER_SIZE \in Nat \ {0}
           /\ sourceSequence[e] \in Nat /\ destinationSequence[e] \in Nat
           /\ ackSequence[e] \in Nat /\ oldAckSequence[e] \in Nat
           /\ progress[e] \in Nat /\ readBufferLowerBound[e] \in Nat
           /\ written[e] \in Nat /\ confirmed[e] \in Nat
           /\ readBuffer[e] \in [Uint -> Nat]
           /\ channel[e] \in Seq(Segment)
  <1>1. UintMod \in Nat \ {0} /\ Start[e] \in Uint
    BY ConstantsAssumption
  <1>2. Uint \subseteq Nat
    BY <1>1 DEF Uint
  <1> QED
    BY <1>1, <1>2, ConstantsAssumption DEF TypeOK

\* Without wrap-around the upper end of the buffer is what it looks like.
LEMMA ExactUpperBound ==
    ASSUME TypeOK, NoWrapAround, NEW e \in Ends, StreamBounds(e)
    PROVE  /\ UpperBound(Peer(e)) = readBufferLowerBound[Peer(e)] + MAX_BUFFER_SIZE
           /\ UpperBound(Peer(e)) < UintMod
           /\ Start[e] + written[e] < UintMod
  <1> DEFINE sum == readBufferLowerBound[Peer(e)] + MAX_BUFFER_SIZE
  <1>1. /\ Start[e] + MaxStream[e] + MAX_BUFFER_SIZE < UintMod
        /\ written[e] <= MaxStream[e]
        /\ readBufferLowerBound[Peer(e)] <= Start[e] + written[e]
    BY PeerIsEnd, Numbers DEF NoWrapAround, StreamBounds
  <1>2. sum \in Nat /\ sum < UintMod /\ Start[e] + written[e] < UintMod
    BY <1>1, PeerIsEnd, Numbers
  <1>3. sum \in Uint
    BY <1>2, Numbers DEF Uint
  <1> HIDE DEF sum
  <1>4. U(sum) = sum
    BY <1>2, <1>3, UintArithmetic
  <1> QED
    BY <1>2, <1>4 DEF UpperBound, sum

\* The segments of one burst carry the stream, and all the same acknowledgement.
LEMMA BurstProperties ==
    ASSUME TypeOK, NEW e \in Ends, NEW sequence \in Nat, NEW length \in Nat,
           Start[e] <= sequence, sequence + length < UintMod,
           NEW n \in Nat, sequence + length <= Start[e] + n
    PROVE  LET burst == Burst(e, sequence, sequence - Start[e] + 1, length)
           IN \A k \in 1 .. Len(burst) :
                 /\ CarriesStream(e, burst[k], n)
                 /\ burst[k].ack = destinationSequence[e]
  <1> DEFINE first == sequence - Start[e] + 1
             count == (length + MAX_SEGMENT_SIZE - 1) \div MAX_SEGMENT_SIZE
             burst == Burst(e, sequence, first, length)
  <1>1. count \in Nat
    BY ConstantsAssumption, DivisionBound
  <1>2. Len(burst) = count
    BY <1>1 DEF Burst
  <1>3. ASSUME NEW k \in 1 .. count
        PROVE  /\ CarriesStream(e, burst[k], n)
               /\ burst[k].ack = destinationSequence[e]
    <2> DEFINE offset == (k - 1) * MAX_SEGMENT_SIZE
    <2>1. offset \in Nat /\ offset < length
      BY OffsetBound
    <2>2. burst[k] = [seq   |-> U(sequence + offset),
                      ack   |-> destinationSequence[e],
                      first |-> first + offset,
                      len   |-> Lesser(length - offset, MAX_SEGMENT_SIZE)]
      BY DEF Burst
    <2> HIDE DEF offset
    <2>3. sequence + offset \in Uint
      BY <2>1, Numbers DEF Uint
    <2>4. U(sequence + offset) = sequence + offset
      BY <2>1, <2>3, UintArithmetic
    <2>5. Lesser(length - offset, MAX_SEGMENT_SIZE) <= length - offset
      BY <2>1, ConstantsAssumption DEF Lesser
    <2>6. Lesser(length - offset, MAX_SEGMENT_SIZE) \in Nat
      BY <2>1, ConstantsAssumption DEF Lesser
    <2> HIDE DEF burst
    <2>7. /\ burst[k].seq = sequence + offset
          /\ burst[k].first = sequence - Start[e] + 1 + offset
          /\ burst[k].len = Lesser(length - offset, MAX_SEGMENT_SIZE)
          /\ burst[k].ack = destinationSequence[e]
      BY <2>2, <2>4
    <2>8. Start[e] \in Nat
      BY Numbers
    <2>9. /\ burst[k].first = burst[k].seq - Start[e] + 1
          /\ Start[e] <= burst[k].seq
          /\ burst[k].seq + burst[k].len <= Start[e] + n
      BY <2>1, <2>5, <2>6, <2>7, <2>8
    <2> QED
      BY <2>7, <2>9 DEF CarriesStream
  <1> QED
    BY <1>2, <1>3

\* A queue whose acknowledgements are in order stays so when segments with the
\* highest acknowledgement join it, and when its head leaves it.
LEMMA AcksAfterTransmit ==
    ASSUME NEW queue \in Seq(Segment), NEW segments \in Seq(Segment),
           NEW low \in Nat, NEW high \in Nat, NEW top \in Nat,
           AcksOrdered(queue, low, high), low <= top, high <= top,
           \A k \in 1 .. Len(segments) : segments[k].ack = top
    PROVE  AcksOrdered(Transmit(queue, segments), low, top)
  <1> DEFINE result == Transmit(queue, segments)
  <1>1. /\ result \in Seq(Segment)
        /\ Len(result) <= Len(queue) + Len(segments)
        /\ \A k \in 1 .. Len(result) :
              result[k] = IF k <= Len(queue) THEN queue[k]
                          ELSE segments[k - Len(queue)]
    BY TransmitProperties
  <1>2. Len(result) \in Nat /\ Len(queue) \in Nat /\ Len(segments) \in Nat
    BY <1>1, LenProperties
  <1> HIDE DEF result
  <1>3. ASSUME NEW k \in 1 .. Len(result)
        PROVE  /\ k <= Len(queue) => k \in 1 .. Len(queue) /\ result[k] = queue[k]
               /\ k > Len(queue) => result[k].ack = top
    <2>1. CASE k <= Len(queue)
      BY <1>1, <1>2, <2>1
    <2>2. CASE k > Len(queue)
      <3>1. k - Len(queue) \in 1 .. Len(segments)
        BY <1>1, <1>2, <2>2
      <3>2. result[k] = segments[k - Len(queue)]
        BY <1>1, <1>2, <2>2
      <3> QED
        BY <1>2, <2>2, <3>1, <3>2
    <2> QED
      BY <1>2, <2>1, <2>2
  <1>4. ASSUME NEW k \in 1 .. Len(queue)
        PROVE  queue[k].ack \in Nat
    <2>1. queue[k] \in Segment
      BY ElementOfSeq
    <2>2. queue[k].ack \in Uint
      BY <2>1 DEF Segment
    <2> QED
      BY <2>2, ConstantsAssumption DEF Uint
  <1>5. ASSUME NEW k \in 1 .. Len(result)
        PROVE  low <= result[k].ack /\ result[k].ack <= top
    BY <1>2, <1>3, <1>4 DEF AcksOrdered
  <1>6. ASSUME NEW k \in 1 .. Len(result), NEW j \in 1 .. k
        PROVE  result[j].ack <= result[k].ack
    <2>1. j \in 1 .. Len(result)
      BY <1>2
    <2>2. CASE k <= Len(queue)
      <3>1. j <= Len(queue) /\ j \in 1 .. k
        BY <1>2, <2>2
      <3> QED
        BY <1>3, <2>1, <2>2, <3>1 DEF AcksOrdered
    <2>3. CASE k > Len(queue)
      BY <1>2, <1>3, <1>5, <2>1, <2>3
    <2> QED
      BY <1>2, <2>2, <2>3
  <1> QED
    BY <1>5, <1>6 DEF AcksOrdered, result

LEMMA SegmentNumbers ==
    ASSUME NEW s \in Segment
    PROVE  /\ s.seq \in Nat /\ s.ack \in Nat
           /\ s.first \in Nat /\ s.len \in Nat
  <1>1. s.seq \in Uint /\ s.ack \in Uint /\ s.first \in Nat
    BY DEF Segment
  <1>2. s.len \in 0 .. MAX_SEGMENT_SIZE
    BY DEF Segment
  <1>3. s.len \in Nat
    BY <1>2, ConstantsAssumption
  <1>4. s.seq \in Nat /\ s.ack \in Nat
    BY <1>1, ConstantsAssumption DEF Uint
  <1> QED
    BY <1>1, <1>3, <1>4

\* Segments that carry a stream still do when it grows.
LEMMA CarriesLonger ==
    ASSUME NEW e \in Ends, NEW s \in Segment, NEW m \in Nat, NEW n \in Nat,
           m <= n, CarriesStream(e, s, m)
    PROVE  CarriesStream(e, s, n)
  <1>1. Start[e] \in Nat /\ s.seq \in Nat /\ s.len \in Nat
    <2>1. Start[e] \in Nat
      BY ConstantsAssumption DEF Uint
    <2> QED
      BY <2>1, SegmentNumbers
  <1> QED
    BY <1>1 DEF CarriesStream

LEMMA CarriesAfterTransmit ==
    ASSUME NEW e \in Ends,
           NEW queue \in Seq(Segment), NEW segments \in Seq(Segment),
           NEW m \in Nat, NEW n \in Nat, m <= n,
           \A k \in 1 .. Len(queue) : CarriesStream(e, queue[k], m),
           \A k \in 1 .. Len(segments) : CarriesStream(e, segments[k], n)
    PROVE  LET result == Transmit(queue, segments)
           IN \A k \in 1 .. Len(result) : CarriesStream(e, result[k], n)
  <1> DEFINE result == Transmit(queue, segments)
  <1>1. /\ result \in Seq(Segment)
        /\ Len(result) <= Len(queue) + Len(segments)
        /\ \A k \in 1 .. Len(result) :
              result[k] = IF k <= Len(queue) THEN queue[k]
                          ELSE segments[k - Len(queue)]
    BY TransmitProperties
  <1>2. Len(result) \in Nat /\ Len(queue) \in Nat /\ Len(segments) \in Nat
    BY <1>1, LenProperties
  <1> HIDE DEF result
  <1>3. ASSUME NEW k \in 1 .. Len(result)
        PROVE  CarriesStream(e, result[k], n)
    <2>1. CASE k <= Len(queue)
      <3>1. k \in 1 .. Len(queue) /\ result[k] = queue[k]
        BY <1>1, <1>2, <2>1
      <3>2. queue[k] \in Segment
        BY <3>1, ElementOfSeq
      <3> QED
        BY <3>1, <3>2, CarriesLonger
    <2>2. CASE k > Len(queue)
      <3>1. k - Len(queue) \in 1 .. Len(segments)
        BY <1>1, <1>2, <2>2
      <3>2. result[k] = segments[k - Len(queue)]
        BY <1>1, <1>2, <2>2
      <3> QED
        BY <3>1, <3>2
    <2> QED
      BY <1>2, <2>1, <2>2
  <1> QED
    BY <1>3 DEF result

LEMMA AcksAfterTail ==
    ASSUME NEW queue \in Seq(Segment), queue # <<>>,
           NEW low \in Nat, NEW high \in Nat, AcksOrdered(queue, low, high)
    PROVE  /\ low <= Head(queue).ack /\ Head(queue).ack <= high
           /\ AcksOrdered(queue, Head(queue).ack, high)
           /\ AcksOrdered(Tail(queue), Head(queue).ack, high)
           /\ AcksOrdered(Tail(queue), low, high)
  <1>1. /\ Tail(queue) \in Seq(Segment)
        /\ Len(Tail(queue)) = Len(queue) - 1
        /\ \A i \in 1 .. Len(Tail(queue)) : Tail(queue)[i] = queue[i + 1]
        /\ Len(queue) \in Nat \ {0}
        /\ Head(queue) = queue[1]
    BY HeadTailProperties, LenProperties, EmptySeq
  <1>2. 1 \in 1 .. Len(queue)
    BY <1>1
  <1>3. \A k \in 1 .. Len(queue) : 1 \in 1 .. k /\ queue[1].ack <= queue[k].ack
    BY <1>1 DEF AcksOrdered
  <1>4. ASSUME NEW k \in 1 .. Len(Tail(queue))
        PROVE  /\ k + 1 \in 1 .. Len(queue)
               /\ Tail(queue)[k] = queue[k + 1]
               /\ \A j \in 1 .. k : /\ Tail(queue)[j] = queue[j + 1]
                                    /\ j + 1 \in 1 .. k + 1
    BY <1>1
  <1> QED
    BY <1>1, <1>2, <1>3, <1>4 DEF AcksOrdered

\* What one turn of send does to the two channels, when the bytes it sends are
\* numbered as the stream numbers them and are among the first n.
LEMMA SendWindowPreserves ==
    ASSUME TypeOK, NEW x \in Ends,
           NEW sequence \in Nat, NEW i \in Uint, NEW first \in Nat,
           NEW left \in Nat, NEW window \in Nat \ {0}, NEW n \in Nat,
           first = sequence - Start[x] + 1,
           Start[x] <= sequence, sequence + left <= Start[x] + n,
           Start[x] + n < UintMod, written[x] <= n,
           DataInFlight(x), AcksInFlight(Peer(x)),
           SendWindow(x, sequence, i, first, left, window)
    PROVE  /\ channel'[x] = channel[x]
           /\ \A k \in 1 .. Len(channel'[Peer(x)]) :
                 CarriesStream(x, channel'[Peer(x)][k], n)
           /\ AcksOrdered(channel'[Peer(x)], Acknowledged(Peer(x)),
                          destinationSequence[x])
           /\ oldAckSequence'[x] = sequence
           /\ progress'[x] = i
           /\ oldAckSequence'[Peer(x)] = oldAckSequence[Peer(x)]
           /\ progress'[Peer(x)] = progress[Peer(x)]
           /\ sourceSequence'[Peer(x)] = sourceSequence[Peer(x)]
  <1> DEFINE r == Peer(x)
             length == Lesser(Lesser(left, MAX_BUFFER_SIZE),
                              window * MAX_SEGMENT_SIZE)
             burst == Burst(x, sequence, first, length)
             result == Transmit(channel[r], burst)
  <1>1. window * MAX_SEGMENT_SIZE \in Nat
    BY ConstantsAssumption
  <1>2. length \in Nat /\ length <= left
    BY <1>1, ConstantsAssumption DEF Lesser
  <1>3. r \in Ends /\ r # x /\ Peer(r) = x
    BY PeerIsEnd
  <1>4. /\ progress' = [progress EXCEPT ![x] = i]
        /\ oldAckSequence' = [oldAckSequence EXCEPT ![x] = sequence]
        /\ sourceSequence' = [sourceSequence EXCEPT ![x] = U(sequence + length)]
        /\ channel' = [channel EXCEPT ![r] = result]
    BY DEF SendWindow
  <1>5. /\ Start[x] \in Nat /\ UintMod \in Nat /\ written[x] \in Nat
        /\ channel[r] \in Seq(Segment) /\ Len(channel[r]) \in Nat
        /\ destinationSequence[x] \in Nat
        /\ Acknowledged(r) \in Nat
    BY <1>3, Numbers, LenProperties DEF Acknowledged
  <1> HIDE DEF length
  <1>6. /\ sequence \in Uint
        /\ sequence + length < UintMod /\ sequence + length <= Start[x] + n
    <2>1. sequence < UintMod /\ sequence + length < UintMod
          /\ sequence + length <= Start[x] + n
      BY <1>2, <1>5, SMTT(30)
    <2>2. sequence \in Uint
      BY <1>5, <2>1 DEF Uint
    <2> QED
      BY <2>1, <2>2
  <1>7. burst \in Seq(Segment)
    BY <1>2, <1>6, BurstType
  <1>8. \A k \in 1 .. Len(burst) :
           /\ CarriesStream(x, burst[k], n)
           /\ burst[k].ack = destinationSequence[x]
    BY <1>2, <1>6, BurstProperties
  <1> HIDE DEF burst
  <1>9. \A k \in 1 .. Len(channel[r]) : CarriesStream(x, channel[r][k], written[x])
    BY DEF DataInFlight
  <1>10. AcksOrdered(result, Acknowledged(r), destinationSequence[x])
    <2>1. /\ AcksOrdered(channel[r], Acknowledged(r), destinationSequence[x])
          /\ Acknowledged(r) <= destinationSequence[x]
      BY <1>3 DEF AcksInFlight
    <2>2. destinationSequence[x] <= destinationSequence[x]
      BY <1>5
    <2> QED
      BY <1>5, <1>7, <1>8, <2>1, <2>2, AcksAfterTransmit
  <1>11. \A k \in 1 .. Len(result) : CarriesStream(x, result[k], n)
    BY <1>5, <1>7, <1>8, <1>9, CarriesAfterTransmit
  <1> HIDE DEF result
  <1>12. channel'[r] = result /\ channel'[x] = channel[x]
    BY <1>3, <1>4 DEF TypeOK
  <1> QED
    BY <1>3, <1>4, <1>10, <1>11, <1>12 DEF TypeOK

\* A direction none of whose variables a step assigns stays as it is.
LEMMA DirectionUntouched ==
    ASSUME NEW e \in Ends, DirectionInv(e),
           connected'[e] = connected[e], pc'[e] = pc[e],
           sourceSequence'[e] = sourceSequence[e],
           ackSequence'[e] = ackSequence[e],
           oldAckSequence'[e] = oldAckSequence[e],
           progress'[e] = progress[e],
           written'[e] = written[e], confirmed'[e] = confirmed[e],
           channel'[e] = channel[e], channel'[Peer(e)] = channel[Peer(e)],
           destinationSequence'[Peer(e)] = destinationSequence[Peer(e)],
           readBufferLowerBound'[Peer(e)] = readBufferLowerBound[Peer(e)],
           readBuffer'[Peer(e)] = readBuffer[Peer(e)],
           delivered'[Peer(e)] = delivered[Peer(e)]
    PROVE  DirectionInv(e)'
  BY DEF DirectionInv, StreamBounds, BufferContents, DeliveredPrefix,
         DataInFlight, AcksInFlight, Acknowledged, SenderState

LEMMA InitInv == Init => IInv
  <1> SUFFICES ASSUME Init, NEW e \in Ends
               PROVE  DirectionInv(e)
    BY DEF IInv
  <1> DEFINE r == Peer(e)
  <1>1. r \in Ends /\ Peer(r) = e
    BY PeerIsEnd
  <1>2. Start[e] \in Uint /\ Start[e] \in Nat /\ MaxStream[e] \in Nat
        /\ MAX_BUFFER_SIZE \in Nat
    BY ConstantsAssumption, InitType, Numbers
  <1>3. /\ connected[e] = TRUE /\ pc[e] = "idle" /\ sourceSequence[e] = Start[e]
        /\ written[e] = 0 /\ confirmed[e] = 0
        /\ channel[e] = <<>> /\ channel[r] = <<>>
        /\ destinationSequence[r] = Start[e]
        /\ readBufferLowerBound[r] = Start[e]
        /\ readBuffer[r] = [q \in Uint |-> NoByte]
        /\ delivered[r] = <<>>
    BY <1>1 DEF Init
  <1> HIDE DEF r
  <1>4. StreamBounds(e)
    BY <1>2, <1>3 DEF StreamBounds, r
  <1>5. BufferContents(e)
    BY <1>2, <1>3 DEF BufferContents, r
  <1>6. DeliveredPrefix(e)
    <2>1. 1 .. Start[e] - Start[e] = {}
      BY <1>2
    <2>2. [k \in 1 .. Start[e] - Start[e] |-> k] = <<>>
      BY <2>1
    <2> QED
      BY <1>3, <2>2 DEF DeliveredPrefix, r
  <1>7. DataInFlight(e) /\ AcksInFlight(e)
    BY <1>2, <1>3 DEF DataInFlight, AcksInFlight, AcksOrdered, Acknowledged, r
  <1>8. SenderState(e)
    BY <1>2, <1>3 DEF SenderState, r
  <1> QED
    BY <1>4, <1>5, <1>6, <1>7, <1>8 DEF DirectionInv

-----------------------------------------------------------------------------
(***************************************************************************)
(* The steps of send                                                       *)
(***************************************************************************)

LEMMA EndOrPeer ==
    ASSUME NEW x \in Ends, NEW e \in Ends
    PROVE  e = x \/ (e = Peer(x) /\ Peer(e) = x /\ e # x)
  BY ConstantsAssumption DEF Ends, Peer

LEMMA CheckConnectedInv ==
    ASSUME TypeOK, IInv, NEW x \in Ends, CheckConnected(x), NEW e \in Ends
    PROVE  DirectionInv(e)'
  <1>1. DirectionInv(e)
    BY DEF IInv
  <1>2. /\ pc[x] = "idle" /\ connected[x]
        /\ pc' = [pc EXCEPT ![x] = "checked"]
        /\ UNCHANGED <<connected, sourceSequence, destinationSequence,
                       ackSequence, readBuffer, readBufferLowerBound, channel,
                       written, confirmed, delivered, progress, oldAckSequence>>
    BY DEF CheckConnected, socketVars, windowVars, bufferVars, historyVars
  <1>3. CASE e # x
    <2>1. pc'[e] = pc[e]
      BY <1>2, <1>3 DEF TypeOK
    <2> QED
      BY <1>1, <1>2, <2>1, DirectionUntouched
  <1>4. CASE e = x
    <2>1. pc[e] = "idle" /\ pc'[e] = "checked" /\ connected[e]
      BY <1>2, <1>4 DEF TypeOK
    <2>2. SenderState(e)'
      BY <1>1, <1>2, <2>1 DEF DirectionInv, SenderState
    <2>3. Acknowledged(e)' = Acknowledged(e)
      BY <1>2, <2>1 DEF Acknowledged
    <2>4. /\ StreamBounds(e)' /\ BufferContents(e)' /\ DeliveredPrefix(e)'
          /\ DataInFlight(e)'
      BY <1>1, <1>2 DEF DirectionInv, StreamBounds, BufferContents,
                        DeliveredPrefix, DataInFlight
    <2>5. AcksInFlight(e)'
      BY <1>1, <1>2, <2>3 DEF DirectionInv, AcksInFlight
    <2> QED
      BY <2>2, <2>4, <2>5 DEF DirectionInv
  <1> QED
    BY <1>3, <1>4

\* The other direction sees of a send only segments with acknowledgements.
LEMMA ReverseOfSend ==
    ASSUME TypeOK, IInv, NEW x \in Ends,
           AcksOrdered(channel'[Peer(x)], Acknowledged(Peer(x)),
                       destinationSequence[x]),
           channel'[x] = channel[x],
           UNCHANGED <<connected, destinationSequence, readBuffer,
                       readBufferLowerBound, delivered, confirmed>>,
           pc'[Peer(x)] = pc[Peer(x)],
           sourceSequence'[Peer(x)] = sourceSequence[Peer(x)],
           ackSequence'[Peer(x)] = ackSequence[Peer(x)],
           oldAckSequence'[Peer(x)] = oldAckSequence[Peer(x)],
           progress'[Peer(x)] = progress[Peer(x)],
           written'[Peer(x)] = written[Peer(x)]
    PROVE  DirectionInv(Peer(x))'
  <1> DEFINE e == Peer(x)
  <1>1. e \in Ends /\ Peer(e) = x
    BY PeerIsEnd
  <1>2. DirectionInv(e)
    BY <1>1 DEF IInv
  <1>3. Acknowledged(e)' = Acknowledged(e)
    BY DEF Acknowledged
  <1>4. AcksInFlight(e)'
    BY <1>1, <1>2, <1>3 DEF DirectionInv, AcksInFlight
  <1>5. StreamBounds(e)' /\ BufferContents(e)' /\ DeliveredPrefix(e)'
    BY <1>1, <1>2 DEF DirectionInv, StreamBounds, BufferContents, DeliveredPrefix
  <1>6. DataInFlight(e)'
    BY <1>1, <1>2 DEF DirectionInv, DataInFlight
  <1>7. SenderState(e)'
    BY <1>1, <1>2 DEF DirectionInv, SenderState
  <1> QED
    BY <1>4, <1>5, <1>6, <1>7 DEF DirectionInv

LEMMA StartSendInv ==
    ASSUME TypeOK, IInv, NoWrapAround, NEW x \in Ends,
           NEW len \in 1 .. MaxStream[x], StartSend(x, len), NEW e \in Ends
    PROVE  DirectionInv(e)'
  <1> DEFINE r == Peer(x)
             n == written[x] + len
             sequence == sourceSequence[x]
             first == confirmed[x] + 1
  <1>1. /\ r \in Ends /\ r # x /\ Peer(r) = x
        /\ DirectionInv(x) /\ DirectionInv(r)
    BY PeerIsEnd DEF IInv
  <1>2. /\ pc[x] = "checked" /\ connected[x]
        /\ written[x] = confirmed[x]
        /\ sequence = Start[x] + confirmed[x]
        /\ n <= MaxStream[x]
    BY <1>1 DEF StartSend, DirectionInv, SenderState
  <1>3. /\ Start[x] \in Nat /\ MaxStream[x] \in Nat /\ written[x] \in Nat
        /\ confirmed[x] \in Nat /\ sequence \in Nat /\ UintMod \in Nat \ {0}
        /\ MAX_BUFFER_SIZE \in Nat
        /\ destinationSequence[r] \in Nat /\ len \in Nat /\ len > 0
    BY <1>1, Numbers
  <1>4. Start[x] + MaxStream[x] + MAX_BUFFER_SIZE < UintMod
    BY DEF NoWrapAround
  <1>5. /\ n \in Nat /\ written[x] <= n /\ Start[x] <= sequence
        /\ sequence + len <= Start[x] + n /\ Start[x] + n < UintMod
        /\ first \in Nat /\ first = sequence - Start[x] + 1
    BY <1>2, <1>3, <1>4
  <1>6. 0 \in Uint /\ congestionWindowSize[x] \in Nat \ {0}
    BY <1>3 DEF TypeOK, Uint
  <1>7. SendWindow(x, sequence, 0, first, len, congestionWindowSize[x])
    BY DEF StartSend
  <1>8. DataInFlight(x) /\ AcksInFlight(r)
    BY <1>1 DEF DirectionInv
  <1>9. /\ channel'[x] = channel[x]
        /\ \A k \in 1 .. Len(channel'[r]) : CarriesStream(x, channel'[r][k], n)
        /\ AcksOrdered(channel'[r], Acknowledged(r), destinationSequence[x])
        /\ oldAckSequence'[x] = sequence
        /\ progress'[x] = 0
        /\ oldAckSequence'[r] = oldAckSequence[r]
        /\ progress'[r] = progress[r]
        /\ sourceSequence'[r] = sourceSequence[r]
    BY <1>3, <1>5, <1>6, <1>7, <1>8, SendWindowPreserves
  <1>10. /\ pc'[x] = "waiting" /\ pc'[r] = pc[r]
         /\ ackSequence'[x] = sequence /\ ackSequence'[r] = ackSequence[r]
         /\ written'[x] = n /\ written'[r] = written[r]
         /\ UNCHANGED <<connected, destinationSequence, readBuffer,
                        readBufferLowerBound, delivered, confirmed>>
    BY <1>1 DEF StartSend, ResetAck, TypeOK, bufferVars
  <1>11. CASE e = r
    BY <1>9, <1>10, <1>11, ReverseOfSend
  <1>12. CASE e = x
    <2>1. StreamBounds(x)'
      BY <1>1, <1>2, <1>3, <1>10 DEF DirectionInv, StreamBounds
    <2>2. BufferContents(x)'
      <3>1. ASSUME NEW q \in Uint, q < Start[x] + written[x]
            PROVE  q < Start[x] + n
        BY <1>3, <1>5, <3>1 DEF Uint
      <3> QED
        BY <1>1, <1>10, <3>1 DEF DirectionInv, BufferContents
    <2>3. DeliveredPrefix(x)'
      BY <1>1, <1>10 DEF DirectionInv, DeliveredPrefix
    <2>4. DataInFlight(x)'
      BY <1>9, <1>10 DEF DataInFlight
    <2>5. Acknowledged(x)' = Acknowledged(x) /\ Acknowledged(x) = sequence
      BY <1>2, <1>10 DEF Acknowledged
    <2>6. AcksInFlight(x)'
      BY <1>1, <1>9, <1>10, <2>5 DEF DirectionInv, AcksInFlight
    <2>7. sequence <= destinationSequence[r]
      BY <1>1, <2>5 DEF DirectionInv, AcksInFlight
    <2>8. SenderState(x)'
      BY <1>2, <1>3, <1>9, <1>10, <2>7 DEF SenderState
    <2> QED
      BY <1>12, <2>1, <2>2, <2>3, <2>4, <2>6, <2>8 DEF DirectionInv
  <1> QED
    BY <1>11, <1>12, EndOrPeer

\* The position in the message is where the acknowledgements say it is.
LEMMA ExactProgress ==
    ASSUME TypeOK, IInv, NoWrapAround, NEW x \in Ends, pc[x] = "waiting"
    PROVE  /\ NextProgress(x) = ackSequence[x] - Start[x] - confirmed[x]
           /\ NextProgress(x) \in Uint
           /\ Start[x] + confirmed[x] <= ackSequence[x]
           /\ ackSequence[x] <= destinationSequence[Peer(x)]
           /\ ackSequence[x] <= Start[x] + written[x]
           /\ Start[x] + written[x] < UintMod
  <1> DEFINE sum == progress[x] + ackSequence[x] - oldAckSequence[x]
  <1>1. DirectionInv(x)
    BY DEF IInv
  <1>2. /\ Start[x] \in Nat /\ written[x] \in Nat /\ confirmed[x] \in Nat
        /\ progress[x] \in Nat /\ ackSequence[x] \in Nat
        /\ oldAckSequence[x] \in Nat /\ UintMod \in Nat
        /\ destinationSequence[Peer(x)] \in Nat
    BY Numbers, PeerIsEnd
  <1>3. /\ oldAckSequence[x] = Start[x] + confirmed[x] + progress[x]
        /\ oldAckSequence[x] <= ackSequence[x]
        /\ ackSequence[x] <= destinationSequence[Peer(x)]
    BY <1>1 DEF DirectionInv, SenderState
  <1>4. /\ destinationSequence[Peer(x)] <= Start[x] + written[x]
        /\ Start[x] + written[x] < UintMod
    BY <1>1, ExactUpperBound DEF DirectionInv, StreamBounds
  <1>5. sum = ackSequence[x] - Start[x] - confirmed[x]
    BY <1>2, <1>3
  <1>6. sum \in Nat /\ sum < UintMod
    BY <1>2, <1>3, <1>4, <1>5
  <1>7. sum \in Uint
    BY <1>2, <1>6 DEF Uint
  <1> HIDE DEF sum
  <1>8. U(sum) = sum
    BY <1>6, <1>7, UintArithmetic
  <1>9. NextProgress(x) = sum
    BY <1>8 DEF NextProgress, sum
  <1> QED
    BY <1>2, <1>3, <1>4, <1>5, <1>7, <1>9

LEMMA ContinueSendInv ==
    ASSUME TypeOK, IInv, NoWrapAround, NEW x \in Ends, ContinueSend(x),
           NEW e \in Ends
    PROVE  DirectionInv(e)'
  <1> DEFINE r == Peer(x)
             i == NextProgress(x)
             sequence == ackSequence[x]
             left == written[x] - confirmed[x] - i
             first == confirmed[x] + i + 1
             window == NextWindow(x)
             n == written[x]
  <1>1. /\ r \in Ends /\ r # x /\ Peer(r) = x
        /\ DirectionInv(x) /\ DirectionInv(r)
    BY PeerIsEnd DEF IInv
  <1>2. /\ pc[x] = "waiting"
        /\ i < written[x] - confirmed[x]
        /\ SendWindow(x, sequence, i, first, left, window)
        /\ UNCHANGED <<connected, destinationSequence, ackSequence, readBuffer,
                       readBufferLowerBound, written, confirmed, delivered, pc>>
    BY DEF ContinueSend, bufferVars, historyVars
  <1>3. /\ Start[x] \in Nat /\ written[x] \in Nat
        /\ confirmed[x] \in Nat /\ sequence \in Nat /\ UintMod \in Nat \ {0}
        /\ destinationSequence[r] \in Nat
    BY <1>1, Numbers
  <1>4. /\ i = sequence - Start[x] - confirmed[x] /\ i \in Uint
        /\ Start[x] + confirmed[x] <= sequence
        /\ sequence <= destinationSequence[r]
        /\ Start[x] + written[x] < UintMod
    BY <1>2, ExactProgress
  <1> HIDE DEF i
  <1>5. /\ left \in Nat /\ Start[x] <= sequence
        /\ sequence + left <= Start[x] + n
        /\ first \in Nat /\ first = sequence - Start[x] + 1
    BY <1>2, <1>3, <1>4
  <1>6. window \in Nat \ {0}
    BY NextSenderType
  <1> HIDE DEF left, first, window
  <1>7. SendWindow(x, sequence, i, first, left, window)
    BY <1>2
  <1>8. DataInFlight(x) /\ AcksInFlight(r)
    BY <1>1 DEF DirectionInv
  <1>9. /\ channel'[x] = channel[x]
        /\ \A k \in 1 .. Len(channel'[r]) : CarriesStream(x, channel'[r][k], n)
        /\ AcksOrdered(channel'[r], Acknowledged(r), destinationSequence[x])
        /\ oldAckSequence'[x] = sequence
        /\ progress'[x] = i
        /\ oldAckSequence'[r] = oldAckSequence[r]
        /\ progress'[r] = progress[r]
        /\ sourceSequence'[r] = sourceSequence[r]
    <2>1. /\ n \in Nat /\ written[x] <= n /\ Start[x] + n < UintMod
          /\ sequence \in Nat /\ i \in Uint /\ Start[x] <= sequence
      BY <1>3, <1>4
    <2> HIDE DEF n, sequence
    <2> QED
      BY <1>5, <1>6, <1>7, <1>8, <2>1, SendWindowPreserves
  <1>10. CASE e = r
    BY <1>2, <1>9, <1>10, ReverseOfSend
  <1>11. CASE e = x
    <2>1. StreamBounds(x)' /\ BufferContents(x)' /\ DeliveredPrefix(x)'
      BY <1>1, <1>2 DEF DirectionInv, StreamBounds, BufferContents, DeliveredPrefix
    <2>2. DataInFlight(x)'
      BY <1>2, <1>9 DEF DataInFlight
    <2>3. Acknowledged(x)' = Acknowledged(x)
      BY <1>2 DEF Acknowledged
    <2>4. AcksInFlight(x)'
      BY <1>1, <1>2, <1>9, <2>3 DEF DirectionInv, AcksInFlight
    <2>5. SenderState(x)'
      BY <1>1, <1>2, <1>3, <1>4, <1>9 DEF DirectionInv, SenderState
    <2> QED
      BY <1>11, <2>1, <2>2, <2>4, <2>5 DEF DirectionInv
  <1> QED
    BY <1>10, <1>11, EndOrPeer

\* send returns: the sender's position becomes the acknowledged one.
LEMMA ReturnInv ==
    ASSUME TypeOK, IInv, NEW x \in Ends, pc[x] = "waiting",
           pc' = [pc EXCEPT ![x] = "idle"],
           sourceSequence' = [sourceSequence EXCEPT ![x] = ackSequence[x]],
           UNCHANGED <<destinationSequence, ackSequence, readBuffer,
                       readBufferLowerBound, channel, written, delivered,
                       oldAckSequence>>,
           connected'[Peer(x)] = connected[Peer(x)],
           confirmed'[Peer(x)] = confirmed[Peer(x)],
           progress'[Peer(x)] = progress[Peer(x)],
           confirmed'[x] <= written[x],
           Start[x] + confirmed'[x] <= destinationSequence[Peer(x)],
           connected'[x] => /\ written[x] = confirmed'[x]
                            /\ ackSequence[x] = Start[x] + confirmed'[x],
           NEW e \in Ends
    PROVE  DirectionInv(e)'
  <1> DEFINE r == Peer(x)
  <1>1. /\ r \in Ends /\ r # x /\ Peer(r) = x
        /\ DirectionInv(x) /\ DirectionInv(r)
    BY PeerIsEnd DEF IInv
  <1>2. /\ pc'[x] = "idle" /\ pc'[r] = pc[r]
        /\ sourceSequence'[x] = ackSequence[x]
        /\ sourceSequence'[r] = sourceSequence[r]
    BY <1>1 DEF TypeOK
  <1>3. CASE e = r
    BY <1>1, <1>2, <1>3, DirectionUntouched
  <1>4. CASE e = x
    <2>1. StreamBounds(x)' /\ BufferContents(x)' /\ DeliveredPrefix(x)'
          /\ DataInFlight(x)'
      BY <1>1 DEF DirectionInv, StreamBounds, BufferContents, DeliveredPrefix,
                  DataInFlight
    <2>2. Acknowledged(x)' = Acknowledged(x)
      BY <1>2 DEF Acknowledged
    <2>3. AcksInFlight(x)'
      BY <1>1, <2>2 DEF DirectionInv, AcksInFlight
    <2>4. SenderState(x)'
      BY <1>2 DEF SenderState
    <2> QED
      BY <1>4, <2>1, <2>3, <2>4 DEF DirectionInv
  <1> QED
    BY <1>3, <1>4, EndOrPeer

LEMMA GiveUpInv ==
    ASSUME TypeOK, IInv, NEW x \in Ends, GiveUp(x), NEW e \in Ends
    PROVE  DirectionInv(e)'
  <1>1. /\ Peer(x) \in Ends /\ Peer(x) # x /\ DirectionInv(x)
    BY PeerIsEnd DEF IInv
  <1>2. confirmed[x] <= written[x]
        /\ Start[x] + confirmed[x] <= destinationSequence[Peer(x)]
    BY <1>1 DEF DirectionInv, StreamBounds
  <1>3. connected'[x] = FALSE /\ connected'[Peer(x)] = connected[Peer(x)]
    BY <1>1 DEF GiveUp, TypeOK
  <1>4. /\ pc[x] = "waiting"
        /\ pc' = [pc EXCEPT ![x] = "idle"]
        /\ sourceSequence' = [sourceSequence EXCEPT ![x] = ackSequence[x]]
        /\ UNCHANGED <<destinationSequence, ackSequence, readBuffer,
                       readBufferLowerBound, channel, written, delivered,
                       confirmed, progress, oldAckSequence>>
    BY DEF GiveUp, Return, bufferVars, historyVars
  <1> QED
    BY <1>2, <1>3, <1>4, ReturnInv

LEMMA FinishSendInv ==
    ASSUME TypeOK, IInv, NoWrapAround, NEW x \in Ends, FinishSend(x),
           NEW e \in Ends
    PROVE  DirectionInv(e)'
  <1>1. /\ Peer(x) \in Ends /\ Peer(x) # x /\ DirectionInv(x)
    BY PeerIsEnd DEF IInv
  <1>2. /\ pc[x] = "waiting"
        /\ NextProgress(x) >= written[x] - confirmed[x]
        /\ pc' = [pc EXCEPT ![x] = "idle"]
        /\ sourceSequence' = [sourceSequence EXCEPT ![x] = ackSequence[x]]
        /\ UNCHANGED <<connected, destinationSequence, ackSequence, readBuffer,
                       readBufferLowerBound, channel, written, delivered,
                       oldAckSequence>>
    BY DEF FinishSend, Return, bufferVars
  <1>3. /\ confirmed'[x] = written[x]
        /\ confirmed'[Peer(x)] = confirmed[Peer(x)]
        /\ progress'[Peer(x)] = progress[Peer(x)]
    BY <1>1 DEF FinishSend, TypeOK
  <1>4. /\ NextProgress(x) = ackSequence[x] - Start[x] - confirmed[x]
        /\ ackSequence[x] <= destinationSequence[Peer(x)]
        /\ ackSequence[x] <= Start[x] + written[x]
    BY <1>2, ExactProgress
  <1>5. /\ Start[x] \in Nat /\ written[x] \in Nat /\ confirmed[x] \in Nat
        /\ ackSequence[x] \in Nat /\ destinationSequence[Peer(x)] \in Nat
    BY <1>1, Numbers
  <1>6. /\ ackSequence[x] = Start[x] + written[x]
        /\ Start[x] + written[x] <= destinationSequence[Peer(x)]
    BY <1>2, <1>4, <1>5
  <1>7. /\ confirmed'[x] <= written[x]
        /\ Start[x] + confirmed'[x] <= destinationSequence[Peer(x)]
        /\ ackSequence[x] = Start[x] + confirmed'[x]
        /\ connected'[Peer(x)] = connected[Peer(x)]
    BY <1>2, <1>3, <1>5, <1>6
  <1> QED
    BY <1>2, <1>3, <1>7, ReturnInv

-----------------------------------------------------------------------------
(***************************************************************************)
(* Lost segments, and receive                                              *)
(***************************************************************************)

LEMMA LoseSegmentInv ==
    ASSUME TypeOK, IInv, NEW x \in Ends, LoseSegment(x), NEW e \in Ends
    PROVE  DirectionInv(e)'
  <1> DEFINE r == Peer(x)
             queue == channel[x]
  <1>1. /\ r \in Ends /\ r # x /\ Peer(r) = x
        /\ DirectionInv(x) /\ DirectionInv(r)
    BY PeerIsEnd DEF IInv
  <1>2. /\ queue # <<>> /\ queue \in Seq(Segment)
        /\ channel'[x] = Tail(queue) /\ channel'[r] = channel[r]
        /\ UNCHANGED <<connected, sourceSequence, destinationSequence,
                       ackSequence, readBuffer, readBufferLowerBound, pc,
                       progress, oldAckSequence, written, confirmed, delivered>>
    BY <1>1 DEF LoseSegment, TypeOK, socketVars, bufferVars, senderVars,
                historyVars
  <1>3. Acknowledged(x)' = Acknowledged(x) /\ Acknowledged(r)' = Acknowledged(r)
    BY <1>2 DEF Acknowledged
  <1>4. CASE e = x
    <2>1. Acknowledged(x) \in Nat /\ destinationSequence[r] \in Nat
      BY <1>1, Numbers DEF Acknowledged
    <2>2. AcksOrdered(Tail(queue), Acknowledged(x), destinationSequence[r])
      BY <1>1, <1>2, <2>1, AcksAfterTail DEF DirectionInv, AcksInFlight
    <2>3. AcksInFlight(x)'
      BY <1>1, <1>2, <1>3, <2>2 DEF DirectionInv, AcksInFlight
    <2>4. /\ StreamBounds(x)' /\ BufferContents(x)' /\ DeliveredPrefix(x)'
          /\ DataInFlight(x)' /\ SenderState(x)'
      BY <1>1, <1>2 DEF DirectionInv, StreamBounds, BufferContents,
                        DeliveredPrefix, DataInFlight, SenderState
    <2> QED
      BY <1>4, <2>3, <2>4 DEF DirectionInv
  <1>5. CASE e = r
    <2>1. /\ Len(Tail(queue)) = Len(queue) - 1 /\ Len(queue) \in Nat
          /\ \A k \in 1 .. Len(Tail(queue)) : Tail(queue)[k] = queue[k + 1]
      BY <1>2, HeadTailProperties, LenProperties
    <2>2. DataInFlight(r)'
      BY <1>1, <1>2, <2>1 DEF DirectionInv, DataInFlight
    <2>3. /\ StreamBounds(r)' /\ BufferContents(r)' /\ DeliveredPrefix(r)'
          /\ SenderState(r)'
      BY <1>1, <1>2 DEF DirectionInv, StreamBounds, BufferContents,
                        DeliveredPrefix, SenderState
    <2>4. AcksInFlight(r)'
      BY <1>1, <1>2, <1>3 DEF DirectionInv, AcksInFlight
    <2> QED
      BY <1>5, <2>2, <2>3, <2>4 DEF DirectionInv
  <1> QED
    BY <1>4, <1>5, EndOrPeer

LEMMA ReceiveInv ==
    ASSUME TypeOK, IInv, NoWrapAround, NEW x \in Ends, Receive(x), NEW e \in Ends
    PROVE  DirectionInv(e)'
  <1> DEFINE y == Peer(x)
             lower == readBufferLowerBound[x]
             expected == destinationSequence[x]
             length == expected - lower
             bytes == [k \in 1 .. length |-> readBuffer[x][lower + k - 1]]
  <1>1. /\ y \in Ends /\ y # x /\ Peer(y) = x
        /\ DirectionInv(x) /\ DirectionInv(y)
    BY PeerIsEnd DEF IInv
  <1>2. /\ length > 0
        /\ delivered' = [delivered EXCEPT ![x] = delivered[x] \o bytes]
        /\ readBuffer' = [readBuffer EXCEPT ![x] =
              [q \in Uint |-> IF q \in lower .. lower + length - 1
                              THEN NoByte ELSE readBuffer[x][q]]]
        /\ readBufferLowerBound' = [readBufferLowerBound EXCEPT ![x] = expected]
        /\ UNCHANGED <<connected, sourceSequence, destinationSequence,
                       ackSequence, channel, pc, progress, oldAckSequence,
                       written, confirmed>>
    BY DEF Receive, socketVars, senderVars
  <1>3. /\ Start[y] \in Nat /\ written[y] \in Nat /\ lower \in Nat
        /\ expected \in Nat /\ MAX_BUFFER_SIZE \in Nat
        /\ expected \in Uint /\ Uint \subseteq Nat
    <2>1. UintMod \in Nat /\ expected \in Uint
      BY Numbers DEF TypeOK
    <2>2. Uint \subseteq Nat
      BY <2>1 DEF Uint
    <2> QED
      BY <1>1, <2>1, <2>2, Numbers
  <1>4. StreamBounds(y) /\ BufferContents(y) /\ DeliveredPrefix(y)
    BY <1>1 DEF DirectionInv
  <1>5. Start[y] <= lower /\ lower < expected
    BY <1>1, <1>2, <1>3, <1>4 DEF StreamBounds
  <1>6. /\ delivered'[x] = delivered[x] \o bytes
        /\ readBuffer'[x] = [q \in Uint |-> IF q \in lower .. lower + length - 1
                                            THEN NoByte ELSE readBuffer[x][q]]
        /\ readBufferLowerBound'[x] = expected
        /\ delivered'[y] = delivered[y] /\ readBuffer'[y] = readBuffer[y]
        /\ readBufferLowerBound'[y] = readBufferLowerBound[y]
    BY <1>1, <1>2 DEF TypeOK
  <1> HIDE DEF bytes, lower, expected
  <1>7. CASE e = x
    BY <1>1, <1>2, <1>6, <1>7, DirectionUntouched
  <1>8. CASE e = y
    <2>1. StreamBounds(y)'
      BY <1>1, <1>2, <1>3, <1>4, <1>5, <1>6 DEF StreamBounds, expected, lower
    <2>2. BufferContents(y)'
      <3>1. ASSUME NEW q \in Uint, readBuffer'[x][q] # NoByte
            PROVE  /\ readBuffer[x][q] = readBuffer'[x][q]
                   /\ readBuffer[x][q] # NoByte
                   /\ ~ (q \in lower .. expected - 1)
        BY <1>3, <1>6, <3>1 DEF NoByte
      <3>2. ASSUME NEW q \in Uint, readBuffer'[x][q] # NoByte
            PROVE  /\ readBuffer'[x][q] = q - Start[y] + 1
                   /\ expected <= q
                   /\ q < expected + MAX_BUFFER_SIZE
                   /\ q < Start[y] + written[y]
        <4>1. /\ readBuffer[x][q] = q - Start[y] + 1 /\ lower <= q
              /\ q < lower + MAX_BUFFER_SIZE /\ q < Start[y] + written[y]
          BY <1>1, <1>4, <3>1, <3>2 DEF BufferContents, lower
        <4>2. q \in Nat
          BY <1>3
        <4> QED
          BY <1>3, <1>5, <3>1, <3>2, <4>1, <4>2
      <3>3. readBuffer'[x][expected] = NoByte
        BY <1>1, <1>3, <1>4, <1>6 DEF BufferContents, expected
      <3>4. expected .. expected - 1 = {}
        BY <1>3
      <3>5. /\ readBufferLowerBound'[x] = expected
            /\ destinationSequence'[x] = expected
            /\ written'[y] = written[y]
        BY <1>2, <1>6 DEF expected
      <3> QED
        BY <1>1, <3>2, <3>3, <3>4, <3>5 DEF BufferContents
    <2>3. DeliveredPrefix(y)'
      <3> DEFINE before == [k \in 1 .. lower - Start[y] |-> k]
                 after == [k \in 1 .. expected - Start[y] |-> k]
      <3>1. delivered[x] = before
        BY <1>1, <1>4 DEF DeliveredPrefix, lower
      <3>2. \A k \in 1 .. length : bytes[k] = lower + k - Start[y]
        <4> SUFFICES ASSUME NEW k \in 1 .. length
                     PROVE  bytes[k] = lower + k - Start[y]
          OBVIOUS
        <4> DEFINE q == lower + k - 1
        <4>1. q \in lower .. expected - 1 /\ q \in Uint
          <5>1. q \in lower .. expected - 1 /\ UintMod \in Nat
            BY <1>3, ConstantsAssumption
          <5> QED
            BY <1>3, <5>1 DEF Uint
        <4>2. readBuffer[x][q] # NoByte
          BY <1>1, <1>4, <4>1 DEF BufferContents, lower, expected
        <4>3. readBuffer[x][q] = q - Start[y] + 1
          BY <1>1, <1>4, <4>1, <4>2 DEF BufferContents
        <4> QED
          BY <1>3, <4>3 DEF bytes
      <3> DEFINE m == lower - Start[y]
      <3>3. /\ m \in Nat /\ length \in Nat
            /\ expected - Start[y] = m + length
        BY <1>3, <1>5
      <3>4. /\ before \in Seq(Nat) /\ Len(before) = m
            /\ \A k \in 1 .. m : before[k] = k
        BY <3>3
      <3>5. /\ after \in Seq(Nat) /\ Len(after) = m + length
            /\ \A k \in 1 .. m + length : after[k] = k
        BY <3>3
      <3>6. \A k \in 1 .. length : bytes[k] = m + k
        BY <1>3, <3>2
      <3>7. bytes \in Seq(Nat) /\ Len(bytes) = length
        <4>1. bytes = [k \in 1 .. length |-> m + k]
          BY <3>6 DEF bytes
        <4> HIDE DEF m, length
        <4>2. \A k \in 1 .. length : m + k \in Nat
          BY <3>3
        <4> QED
          BY <3>3, <4>1, <4>2
      <3> HIDE DEF before, after, m, length
      <3> DEFINE joined == before \o bytes
      <3>8. /\ joined \in Seq(Nat)
            /\ Len(joined) = m + length
            /\ \A k \in 1 .. m + length :
                  joined[k] = IF k <= m THEN before[k] ELSE bytes[k - m]
        BY <3>4, <3>7, ConcatProperties
      <3> HIDE DEF joined
      <3>9. joined = after
        <4>1. ASSUME NEW k \in 1 .. m + length
              PROVE  joined[k] = after[k]
          <5>1. CASE k <= m
            BY <3>3, <3>4, <3>5, <3>8, <5>1
          <5>2. CASE k > m
            <6>1. k - m \in 1 .. length
              BY <3>3, <5>2
            <6>2. bytes[k - m] = k
              BY <3>3, <3>6, <6>1
            <6> QED
              BY <3>3, <3>5, <3>8, <5>2, <6>2
          <5> QED
            BY <3>3, <5>1, <5>2
        <4> QED
          BY <3>5, <3>8, <4>1, SeqEqual
      <3> QED
        BY <1>1, <1>6, <3>1, <3>9 DEF DeliveredPrefix, after, joined
    <2>4. Acknowledged(y)' = Acknowledged(y)
      BY <1>2 DEF Acknowledged
    <2>5. DataInFlight(y)' /\ AcksInFlight(y)' /\ SenderState(y)'
      BY <1>1, <1>2, <2>4 DEF DirectionInv, DataInFlight, AcksInFlight, SenderState
    <2> QED
      BY <1>8, <2>1, <2>2, <2>3, <2>5 DEF DirectionInv
  <1> QED
    BY <1>7, <1>8, EndOrPeer

-----------------------------------------------------------------------------
(***************************************************************************)
(* parseSegment                                                            *)
(***************************************************************************)

\* What is stored lies in the segment and in the buffer's interval.
LEMMA StoredProperties ==
    ASSUME TypeOK, NoWrapAround, NEW y \in Ends, StreamBounds(y),
           NEW s \in Segment, CarriesStream(y, s, written[y]),
           NEW q \in Stored(Peer(y), s)
    PROVE  /\ q \in Uint /\ q \in Nat
           /\ readBufferLowerBound[Peer(y)] <= q
           /\ q < readBufferLowerBound[Peer(y)] + MAX_BUFFER_SIZE
           /\ q < Start[y] + written[y]
           /\ s.first + (q - s.seq) = q - Start[y] + 1
           /\ Start[y] <= q
  <1> DEFINE x == Peer(y)
             top == U(s.seq + s.len)
  <1>1. x \in Ends /\ UpperBound(x) = readBufferLowerBound[x] + MAX_BUFFER_SIZE
        /\ Start[y] + written[y] < UintMod
    BY PeerIsEnd, ExactUpperBound
  <1>2. /\ s.seq \in Nat /\ s.len \in Nat /\ s.first \in Nat /\ s.seq \in Uint
        /\ Start[y] \in Nat /\ written[y] \in Nat /\ UintMod \in Nat
        /\ readBufferLowerBound[x] \in Nat /\ destinationSequence[x] \in Nat
        /\ MAX_BUFFER_SIZE \in Nat
    <2>1. s.seq \in Uint
      BY DEF Segment
    <2> QED
      BY <1>1, <2>1, SegmentNumbers, Numbers
  <1>3. top = s.seq + s.len
    <2>1. s.seq + s.len < UintMod
      <3>1. CASE s.len > 0
        BY <1>1, <1>2, <3>1 DEF CarriesStream
      <3>2. CASE s.len = 0
        BY <1>2, <3>2 DEF Uint
      <3> QED
        BY <1>2, <3>1, <3>2
    <2>2. s.seq + s.len \in Uint
      BY <1>2, <2>1 DEF Uint
    <2> QED
      BY <1>2, <2>2, UintArithmetic
  <1>4. /\ q \in Uint /\ q >= Greater(s.seq, destinationSequence[x])
        /\ q < Lesser(top, UpperBound(x))
    BY DEF Stored
  <1>5. q \in Nat
    BY <1>2, <1>4 DEF Uint
  <1> HIDE DEF top
  <1>6. /\ s.seq <= q /\ destinationSequence[x] <= q
        /\ q < s.seq + s.len /\ q < readBufferLowerBound[x] + MAX_BUFFER_SIZE
    BY <1>1, <1>2, <1>3, <1>4, <1>5 DEF Greater, Lesser
  <1>7. s.len > 0
    BY <1>2, <1>5, <1>6
  <1>8. /\ s.first = s.seq - Start[y] + 1 /\ Start[y] <= s.seq
        /\ s.seq + s.len <= Start[y] + written[y]
    BY <1>7 DEF CarriesStream
  <1>9. readBufferLowerBound[x] <= destinationSequence[x]
    BY DEF StreamBounds
  <1> QED
    BY <1>2, <1>4, <1>5, <1>6, <1>8, <1>9

\* The buffer with the segment's bytes still holds the stream's bytes only.
LEMMA BufferWithProperties ==
    ASSUME TypeOK, NoWrapAround, NEW y \in Ends, StreamBounds(y),
           BufferContents(y), NEW s \in Segment,
           CarriesStream(y, s, written[y])
    PROVE  LET x == Peer(y)
               buffer == BufferWith(x, s)
           IN /\ buffer \in [Uint -> Nat]
              /\ \A q \in Uint :
                    buffer[q] # NoByte =>
                       /\ buffer[q] = q - Start[y] + 1
                       /\ readBufferLowerBound[x] <= q
                       /\ q < readBufferLowerBound[x] + MAX_BUFFER_SIZE
                       /\ q < Start[y] + written[y]
              /\ \A q \in Uint : readBuffer[x][q] # NoByte => buffer[q] # NoByte
  <1> DEFINE x == Peer(y)
             buffer == BufferWith(x, s)
  <1>1. x \in Ends /\ readBuffer[x] \in [Uint -> Nat] /\ Start[y] \in Nat
    BY PeerIsEnd, Numbers
  <1>2. ASSUME NEW q \in Uint, q \in Stored(x, s)
        PROVE  /\ buffer[q] = q - Start[y] + 1
               /\ buffer[q] \in Nat \ {0}
               /\ readBufferLowerBound[x] <= q
               /\ q < readBufferLowerBound[x] + MAX_BUFFER_SIZE
               /\ q < Start[y] + written[y]
    <2>1. buffer[q] = s.first + (q - s.seq)
      BY <1>2 DEF BufferWith
    <2>2. /\ q \in Nat /\ Start[y] <= q
          /\ s.first + (q - s.seq) = q - Start[y] + 1
          /\ readBufferLowerBound[x] <= q
          /\ q < readBufferLowerBound[x] + MAX_BUFFER_SIZE
          /\ q < Start[y] + written[y]
      BY <1>2, StoredProperties
    <2> HIDE DEF buffer
    <2> QED
      BY <1>1, <2>1, <2>2
  <1>3. ASSUME NEW q \in Uint, q \notin Stored(x, s)
        PROVE  buffer[q] = readBuffer[x][q]
    BY <1>3 DEF BufferWith
  <1>4. buffer = [q \in Uint |-> buffer[q]]
    BY DEF BufferWith
  <1> HIDE DEF buffer
  <1>5. buffer \in [Uint -> Nat]
    <2>1. \A q \in Uint : buffer[q] \in Nat
      BY <1>1, <1>2, <1>3
    <2> QED
      BY <1>4, <2>1
  <1>6. ASSUME NEW q \in Uint, buffer[q] # NoByte
        PROVE  /\ buffer[q] = q - Start[y] + 1
               /\ readBufferLowerBound[x] <= q
               /\ q < readBufferLowerBound[x] + MAX_BUFFER_SIZE
               /\ q < Start[y] + written[y]
    <2>1. CASE q \in Stored(x, s)
      BY <1>2, <2>1
    <2>2. CASE q \notin Stored(x, s)
      BY <1>3, <1>6, <2>2 DEF BufferContents
    <2> QED
      BY <2>1, <2>2
  <1>7. ASSUME NEW q \in Uint, readBuffer[x][q] # NoByte
        PROVE  buffer[q] # NoByte
    BY <1>2, <1>3, <1>7 DEF NoByte
  <1> QED
    BY <1>5, <1>6, <1>7 DEF buffer

\* A segment moves the expected number to the first gap, and never back.
LEMMA AcceptInv ==
    ASSUME TypeOK, NoWrapAround, NEW y \in Ends, StreamBounds(y),
           BufferContents(y), NEW s \in Segment,
           CarriesStream(y, s, written[y]), Accept(Peer(y), s),
           UNCHANGED <<written, confirmed, readBufferLowerBound>>
    PROVE  /\ StreamBounds(y)'
           /\ BufferContents(y)'
           /\ destinationSequence[Peer(y)] <= destinationSequence'[Peer(y)]
           /\ destinationSequence'[y] = destinationSequence[y]
           /\ readBuffer'[y] = readBuffer[y]
  <1> DEFINE x == Peer(y)
             buffer == BufferWith(x, s)
             f == Frontier(x, buffer)
             lower == readBufferLowerBound[x]
             upper == UpperBound(x)
             expected == destinationSequence[x]
             limit == Start[y] + written[y]
  <1>1. x \in Ends /\ x # y /\ Peer(x) = y
    BY PeerIsEnd
  <1>2. /\ Start[y] \in Nat /\ written[y] \in Nat /\ confirmed[y] \in Nat
        /\ lower \in Nat /\ expected \in Nat /\ expected \in Uint
        /\ lower \in Uint
        /\ MAX_BUFFER_SIZE \in Nat \ {0} /\ UintMod \in Nat
        /\ limit \in Nat
    <2>1. expected \in Uint /\ lower \in Uint
      BY <1>1 DEF TypeOK
    <2> QED
      BY <1>1, <2>1, Numbers
  <1>3. /\ upper = lower + MAX_BUFFER_SIZE /\ upper < UintMod /\ limit < UintMod
    BY ExactUpperBound
  <1>4. /\ lower <= expected /\ expected <= upper /\ expected <= limit
        /\ Start[y] + confirmed[y] <= expected /\ Start[y] <= lower
        /\ confirmed[y] <= written[y] /\ written[y] <= MaxStream[y]
    BY <1>3 DEF StreamBounds
  <1>5. /\ buffer \in [Uint -> Nat]
        /\ \A q \in Uint :
              buffer[q] # NoByte =>
                 /\ buffer[q] = q - Start[y] + 1
                 /\ lower <= q /\ q < upper /\ q < limit
        /\ \A q \in Uint : readBuffer[x][q] # NoByte => buffer[q] # NoByte
    BY <1>3, BufferWithProperties
  <1>6. /\ \A q \in lower .. expected - 1 : readBuffer[x][q] # NoByte
        /\ readBuffer[x][expected] = NoByte
    BY DEF BufferContents
  <1> HIDE DEF buffer
  <1>7. /\ f \in Uint
        /\ \/ f = expected /\ (lower < upper => buffer[lower] = NoByte)
           \/ /\ lower < f /\ f <= upper
              /\ \A q \in lower .. f - 1 : buffer[q] # NoByte
              /\ f = upper \/ buffer[f] = NoByte
    BY <1>1, <1>5, FrontierProperties
  <1> HIDE DEF f, lower, upper, expected, limit
  <1>8. f \in Nat /\ upper \in Uint /\ upper \in Nat /\ lower < upper
    <2>1. upper \in Nat /\ lower < upper
      BY <1>2, <1>3
    <2> QED
      BY <1>2, <1>3, <1>7, <2>1 DEF Uint
  <1>9. \A q \in lower .. expected - 1 : q \in Uint /\ buffer[q] # NoByte
    <2>1. \A q \in lower .. expected - 1 : q \in Uint
      BY <1>2, <1>3, <1>4, <1>8 DEF Uint
    <2> QED
      BY <1>5, <1>6, <2>1
  <1>10. buffer[upper] = NoByte
    BY <1>5, <1>8
  <1>11. /\ expected <= f /\ f <= upper /\ f <= limit /\ lower <= f
         /\ buffer[f] = NoByte
         /\ \A q \in lower .. f - 1 : buffer[q] # NoByte
    <2>1. CASE f = expected /\ (lower < upper => buffer[lower] = NoByte)
      <3>1. lower = expected
        <4>1. lower < expected => lower \in lower .. expected - 1
          BY <1>2
        <4> QED
          BY <1>2, <1>4, <1>8, <1>9, <2>1, <4>1
      <3> QED
        BY <1>2, <1>4, <1>8, <1>9, <2>1, <3>1
    <2>2. CASE /\ lower < f /\ f <= upper
               /\ \A q \in lower .. f - 1 : buffer[q] # NoByte
               /\ f = upper \/ buffer[f] = NoByte
      <3>1. buffer[f] = NoByte
        BY <1>10, <2>2
      <3>2. expected <= f
        <4>1. f < expected => f \in lower .. expected - 1
          BY <1>2, <1>8, <2>2
        <4> QED
          BY <1>2, <1>8, <1>9, <3>1, <4>1
      <3>3. f <= limit
        <4>1. f - 1 \in lower .. f - 1
          BY <1>2, <1>8, <2>2
        <4>2. f - 1 \in Uint
          BY <1>2, <1>7, <1>8, <4>1 DEF Uint
        <4>3. f - 1 < limit
          BY <1>5, <2>2, <4>1, <4>2
        <4> QED
          BY <1>2, <1>8, <4>3
      <3> QED
        BY <1>2, <1>8, <2>2, <3>1, <3>2, <3>3
    <2> QED
      BY <1>7, <2>1, <2>2
  <1>12. readBufferLowerBound'[x] = lower /\ written'[y] = written[y]
         /\ confirmed'[y] = confirmed[y]
    BY DEF lower
  <1>13. CASE InWindow(x, s)
    <2>1. /\ readBuffer' = [readBuffer EXCEPT ![x] = buffer]
          /\ destinationSequence' = [destinationSequence EXCEPT ![x] = f]
      BY <1>13 DEF Accept, buffer, f
    <2>2. /\ readBuffer'[x] = buffer /\ readBuffer'[y] = readBuffer[y]
          /\ destinationSequence'[x] = f
          /\ destinationSequence'[y] = destinationSequence[y]
      BY <1>1, <2>1 DEF TypeOK
    <2>3. StreamBounds(y)'
      <3>1. f <= lower + MAX_BUFFER_SIZE /\ f <= Start[y] + written[y]
            /\ Start[y] + confirmed[y] <= f
        BY <1>2, <1>3, <1>4, <1>8, <1>11 DEF limit
      <3> QED
        BY <1>4, <1>11, <1>12, <2>2, <3>1 DEF StreamBounds
    <2>4. BufferContents(y)'
      <3>1. \A q \in Uint :
              buffer[q] # NoByte =>
                 /\ buffer[q] = q - Start[y] + 1
                 /\ lower <= q
                 /\ q < lower + MAX_BUFFER_SIZE
                 /\ q < Start[y] + written[y]
        BY <1>3, <1>5 DEF limit
      <3> QED
        BY <1>11, <1>12, <2>2, <3>1 DEF BufferContents
    <2> QED
      BY <1>11, <2>2, <2>3, <2>4 DEF expected
  <1>14. CASE ~ InWindow(x, s)
    <2>1. UNCHANGED <<readBuffer, destinationSequence>>
      BY <1>14 DEF Accept
    <2>2. StreamBounds(y)' /\ BufferContents(y)'
      BY <2>1 DEF StreamBounds, BufferContents
    <2>3. destinationSequence'[x] = expected /\ expected <= expected
      BY <1>2, <2>1 DEF expected
    <2> QED
      BY <2>1, <2>2, <2>3 DEF expected
  <1> QED
    BY <1>13, <1>14

\* An interval of acknowledgements may be widened.
LEMMA AcksWidened ==
    ASSUME NEW queue \in Seq(Segment), NEW low \in Nat, NEW high \in Nat,
           NEW bottom \in Nat, NEW top \in Nat,
           AcksOrdered(queue, low, high), bottom <= low, high <= top
    PROVE  AcksOrdered(queue, bottom, top)
  <1>1. ASSUME NEW k \in 1 .. Len(queue)
        PROVE  queue[k].ack \in Nat
    <2>1. queue[k] \in Segment
      BY ElementOfSeq
    <2> QED
      BY <2>1, SegmentNumbers
  <1> QED
    BY <1>1 DEF AcksOrdered

\* The segment at the head of a channel, and what remains of the channel.
LEMMA HeadOfChannel ==
    ASSUME TypeOK, IInv, NEW x \in Ends, channel[x] # <<>>,
           NEW queue, queue = Tail(channel[x]) \/ queue = channel[x]
    PROVE  /\ Head(channel[x]) \in Segment
           /\ queue \in Seq(Segment)
           /\ CarriesStream(Peer(x), Head(channel[x]), written[Peer(x)])
           /\ \A k \in 1 .. Len(queue) :
                 CarriesStream(Peer(x), queue[k], written[Peer(x)])
           /\ Acknowledged(x) <= Head(channel[x]).ack
           /\ Head(channel[x]).ack <= destinationSequence[Peer(x)]
           /\ AcksOrdered(queue, Head(channel[x]).ack, destinationSequence[Peer(x)])
           /\ AcksOrdered(queue, Acknowledged(x), destinationSequence[Peer(x)])
  <1> DEFINE y == Peer(x)
             all == channel[x]
  <1>1. /\ y \in Ends /\ Peer(y) = x /\ DirectionInv(x) /\ DirectionInv(y)
    BY PeerIsEnd DEF IInv
  <1>2. /\ all \in Seq(Segment) /\ destinationSequence[y] \in Nat
        /\ Acknowledged(x) \in Nat
    BY <1>1, Numbers DEF Acknowledged
  <1>3. \A k \in 1 .. Len(all) : CarriesStream(y, all[k], written[y])
    BY <1>1 DEF DirectionInv, DataInFlight
  <1>4. AcksOrdered(all, Acknowledged(x), destinationSequence[y])
    BY <1>1 DEF DirectionInv, AcksInFlight
  <1> HIDE DEF all
  <1>5. /\ Tail(all) \in Seq(Segment)
        /\ Len(Tail(all)) = Len(all) - 1
        /\ \A i \in 1 .. Len(Tail(all)) : Tail(all)[i] = all[i + 1]
        /\ Len(all) \in Nat \ {0}
        /\ Head(all) = all[1] /\ Head(all) \in Segment
    BY <1>2, HeadTailProperties, LenProperties, EmptySeq DEF all
  <1>6. /\ Acknowledged(x) <= Head(all).ack
        /\ Head(all).ack <= destinationSequence[y]
        /\ AcksOrdered(all, Head(all).ack, destinationSequence[y])
        /\ AcksOrdered(Tail(all), Head(all).ack, destinationSequence[y])
        /\ AcksOrdered(Tail(all), Acknowledged(x), destinationSequence[y])
    BY <1>2, <1>4, AcksAfterTail DEF all
  <1>7. CarriesStream(y, Head(all), written[y])
    BY <1>3, <1>5
  <1>8. \A k \in 1 .. Len(Tail(all)) : CarriesStream(y, Tail(all)[k], written[y])
    BY <1>3, <1>5
  <1>9. queue = Tail(all) \/ queue = all
    BY DEF all
  <1> QED
    BY <1>2, <1>3, <1>4, <1>5, <1>6, <1>7, <1>8, <1>9 DEF all

LEMMA ParseSegmentInv ==
    ASSUME TypeOK, IInv, NoWrapAround, NEW x \in Ends, channel[x] # <<>>,
           NEW queue, queue = Tail(channel[x]) \/ queue = channel[x],
           ParseSegment(x, Head(channel[x]), queue), NEW e \in Ends
    PROVE  DirectionInv(e)'
  <1> DEFINE y == Peer(x)
             s == Head(channel[x])
             answer == <<Acknowledgement(x)>>
             sent == Transmit(channel[y], answer)
  <1>1. /\ x \in Ends /\ y \in Ends /\ x # y /\ Peer(y) = x
        /\ DirectionInv(x) /\ DirectionInv(y)
    BY PeerIsEnd DEF IInv
  <1>2. /\ s \in Segment /\ queue \in Seq(Segment)
        /\ CarriesStream(y, s, written[y])
        /\ \A k \in 1 .. Len(queue) : CarriesStream(y, queue[k], written[y])
        /\ Acknowledged(x) <= s.ack /\ s.ack <= destinationSequence[y]
        /\ AcksOrdered(queue, s.ack, destinationSequence[y])
        /\ AcksOrdered(queue, Acknowledged(x), destinationSequence[y])
    BY HeadOfChannel
  <1>3. /\ connected[x]
        /\ ackSequence' = [ackSequence EXCEPT ![x] = s.ack]
        /\ Accept(x, s)
        /\ \/ channel' = [channel EXCEPT ![x] = queue, ![y] = sent]
           \/ channel' = [channel EXCEPT ![x] = queue]
        /\ UNCHANGED <<connected, sourceSequence, readBufferLowerBound, pc,
                       progress, oldAckSequence, written, confirmed, delivered>>
    BY <1>1 DEF ParseSegment, senderVars, historyVars
  <1> HIDE DEF s
  <1>4. /\ ackSequence'[x] = s.ack /\ ackSequence'[y] = ackSequence[y]
        /\ channel'[x] = queue
        /\ channel'[y] = sent \/ channel'[y] = channel[y]
    BY <1>1, <1>3 DEF TypeOK
  <1>5. /\ StreamBounds(y)' /\ BufferContents(y)'
        /\ destinationSequence[x] <= destinationSequence'[x]
        /\ destinationSequence'[y] = destinationSequence[y]
        /\ readBuffer'[y] = readBuffer[y]
    BY <1>1, <1>2, <1>3, AcceptInv DEF DirectionInv
  <1>6. /\ channel[y] \in Seq(Segment) /\ written[x] \in Nat
        /\ destinationSequence[x] \in Nat /\ destinationSequence[y] \in Nat
        /\ Acknowledged(x) \in Nat /\ Acknowledged(y) \in Nat
        /\ ackSequence[y] \in Nat /\ oldAckSequence[x] \in Nat
        /\ ackSequence[x] \in Nat /\ s.ack \in Nat
    BY <1>1, <1>2, Numbers, SegmentNumbers DEF Acknowledged
  <1>7. TypeOK'
    BY <1>2, ParseSegmentType DEF s
  <1>8. destinationSequence'[x] \in Uint /\ destinationSequence'[x] \in Nat
    BY <1>1, <1>7, ConstantsAssumption DEF TypeOK, Uint
  <1>9. /\ answer \in Seq(Segment) /\ Len(answer) = 1
        /\ answer[1].len = 0 /\ answer[1].ack = destinationSequence'[x]
    <2>1. sourceSequence[x] \in Uint /\ 0 \in 0 .. MAX_SEGMENT_SIZE /\ 0 \in Nat
      BY <1>1, ConstantsAssumption DEF TypeOK
    <2>2. Acknowledgement(x) \in Segment
      BY <1>8, <2>1 DEF Acknowledgement, Segment, NoByte
    <2>3. /\ Acknowledgement(x).len = 0
          /\ Acknowledgement(x).ack = destinationSequence'[x]
      BY DEF Acknowledgement
    <2> QED
      BY <2>2, <2>3
  <1> HIDE DEF answer, sent
  <1>10. CASE e = y
    <2>1. DeliveredPrefix(y)' /\ DataInFlight(y)'
      BY <1>1, <1>2, <1>3, <1>4 DEF DirectionInv, DeliveredPrefix, DataInFlight
    <2>2. Acknowledged(y)' = Acknowledged(y)
      BY <1>3, <1>4 DEF Acknowledged
    <2>3. /\ Acknowledged(y) <= destinationSequence[x]
          /\ AcksOrdered(channel[y], Acknowledged(y), destinationSequence[x])
      BY <1>1 DEF DirectionInv, AcksInFlight
    <2>4. Acknowledged(y) <= destinationSequence'[x]
      BY <1>5, <1>6, <1>8, <2>3
    <2>5. AcksOrdered(channel'[y], Acknowledged(y), destinationSequence'[x])
      <3>1. AcksOrdered(channel[y], Acknowledged(y), destinationSequence'[x])
        <4>1. Acknowledged(y) <= Acknowledged(y)
          BY <1>6
        <4> QED
          BY <1>5, <1>6, <1>8, <2>3, <4>1, AcksWidened
      <3>2. AcksOrdered(sent, Acknowledged(y), destinationSequence'[x])
        <4>1. \A k \in 1 .. Len(answer) : answer[k].ack = destinationSequence'[x]
          BY <1>9
        <4> QED
          BY <1>5, <1>6, <1>8, <1>9, <2>3, <2>4, <4>1, AcksAfterTransmit DEF sent
      <3> QED
        BY <1>4, <3>1, <3>2
    <2>6. AcksInFlight(y)'
      BY <1>1, <2>2, <2>4, <2>5 DEF AcksInFlight
    <2>7. SenderState(y)'
      <3>1. SenderState(y)
        BY <1>1 DEF DirectionInv
      <3>2. ackSequence[y] <= destinationSequence[x] =>
               ackSequence[y] <= destinationSequence'[x]
        BY <1>5, <1>6, <1>8
      <3> QED
        BY <1>1, <1>3, <1>4, <3>1, <3>2 DEF SenderState
    <2> QED
      BY <1>5, <1>10, <2>1, <2>6, <2>7 DEF DirectionInv
  <1>11. CASE e = x
    <2>1. StreamBounds(x)' /\ BufferContents(x)' /\ DeliveredPrefix(x)'
      BY <1>1, <1>3, <1>5
         DEF DirectionInv, StreamBounds, BufferContents, DeliveredPrefix
    <2>2. DataInFlight(x)'
      <3>1. \A k \in 1 .. Len(channel[y]) : CarriesStream(x, channel[y][k], written[x])
        BY <1>1 DEF DirectionInv, DataInFlight
      <3>2. \A k \in 1 .. Len(sent) : CarriesStream(x, sent[k], written[x])
        <4>1. \A k \in 1 .. Len(answer) : CarriesStream(x, answer[k], written[x])
          BY <1>9 DEF CarriesStream
        <4>2. written[x] <= written[x]
          BY <1>6
        <4> QED
          BY <1>6, <1>9, <3>1, <4>1, <4>2, CarriesAfterTransmit DEF sent
      <3> QED
        BY <1>3, <1>4, <3>1, <3>2 DEF DataInFlight
    <2>3. Acknowledged(x)' = IF pc[x] = "waiting" THEN s.ack ELSE Acknowledged(x)
      BY <1>3, <1>4 DEF Acknowledged
    <2>4. Acknowledged(x) <= destinationSequence[y]
      BY <1>1 DEF DirectionInv, AcksInFlight
    <2>5. AcksInFlight(x)'
      BY <1>2, <1>4, <1>5, <2>3, <2>4 DEF AcksInFlight
    <2>6. SenderState(x)'
      <3>1. SenderState(x)
        BY <1>1 DEF DirectionInv
      <3>2. pc[x] = "waiting" => oldAckSequence[x] <= s.ack
        <4>1. pc[x] = "waiting" => oldAckSequence[x] <= ackSequence[x]
                                   /\ ackSequence[x] <= s.ack
          BY <1>2, <3>1 DEF SenderState, Acknowledged
        <4> QED
          BY <1>6, <4>1
      <3> QED
        BY <1>2, <1>3, <1>4, <1>5, <3>1, <3>2 DEF SenderState
    <2> QED
      BY <1>11, <2>1, <2>2, <2>5, <2>6 DEF DirectionInv
  <1> QED
    BY <1>10, <1>11, EndOrPeer

-----------------------------------------------------------------------------
(***************************************************************************)
(* The invariant, and what follows from it                                 *)
(***************************************************************************)

LEMMA NextInv == TypeOK /\ IInv /\ NoWrapAround /\ [Next]_vars => IInv'
  <1> SUFFICES ASSUME TypeOK, IInv, NoWrapAround, [Next]_vars, NEW e \in Ends
               PROVE  DirectionInv(e)'
    BY DEF IInv
  <1>1. ASSUME NEW x \in Ends, Sender(x)
        PROVE  DirectionInv(e)'
    BY <1>1, CheckConnectedInv, StartSendInv, GiveUpInv, ContinueSendInv,
       FinishSendInv DEF Sender
  <1>2. ASSUME NEW x \in Ends, ReceiveSegment(x)
        PROVE  DirectionInv(e)'
    BY <1>2, ParseSegmentInv DEF ReceiveSegment
  <1>3. ASSUME NEW x \in Ends, ReceiveDuplicate(x)
        PROVE  DirectionInv(e)'
    BY <1>3, ParseSegmentInv DEF ReceiveDuplicate
  <1>4. ASSUME NEW x \in Ends, LoseSegment(x)
        PROVE  DirectionInv(e)'
    BY <1>4, LoseSegmentInv
  <1>5. ASSUME NEW x \in Ends, Receive(x)
        PROVE  DirectionInv(e)'
    BY <1>5, ReceiveInv
  <1>6. CASE UNCHANGED vars
    <2>1. DirectionInv(e)
      BY DEF IInv
    <2> QED
      BY <1>6, <2>1, DirectionUntouched
         DEF vars, socketVars, windowVars, bufferVars, senderVars, historyVars
  <1> QED
    BY <1>1, <1>2, <1>3, <1>4, <1>5, <1>6 DEF Next

(***************************************************************************)
(* Every reachable state satisfies the inductive invariant, as long as no  *)
(* sequence number of the connection wraps around.                         *)
(***************************************************************************)
THEOREM InvariantHolds == ASSUME NoWrapAround PROVE Spec => []IInv
  <1>1. Init => IInv
    BY InitInv
  <1>2. TypeOK /\ IInv /\ [Next]_vars => IInv'
    BY NextInv
  <1> QED
    BY <1>1, <1>2, TypeCorrect, PTL DEF Spec

(***************************************************************************)
(* receive returns the bytes the peer wrote, in order and without a gap,   *)
(* whatever the network loses or repeats.                                  *)
(***************************************************************************)
THEOREM InOrder == ASSUME NoWrapAround PROVE Spec => []DeliveredInOrder
  <1>1. TypeOK /\ IInv => DeliveredInOrder
    <2> SUFFICES ASSUME TypeOK, IInv, NEW e \in Ends
                 PROVE  /\ delivered[e] = [k \in 1 .. Len(delivered[e]) |-> k]
                        /\ Len(delivered[e]) <= written[Peer(e)]
      BY DEF DeliveredInOrder
    <2> DEFINE y == Peer(e)
               m == readBufferLowerBound[e] - Start[y]
    <2>1. /\ y \in Ends /\ Peer(y) = e /\ DirectionInv(y)
      BY PeerIsEnd DEF IInv
    <2>2. delivered[e] = [k \in 1 .. m |-> k]
      BY <2>1 DEF DirectionInv, DeliveredPrefix
    <2>3. m \in Nat /\ m <= written[y]
      BY <2>1, Numbers DEF DirectionInv, StreamBounds
    <2> HIDE DEF m
    <2>4. Len(delivered[e]) = m
      BY <2>2, <2>3
    <2> QED
      BY <2>2, <2>3, <2>4
  <1> QED
    BY <1>1, TypeCorrect, InvariantHolds, PTL

(***************************************************************************)
(* send returns true only for bytes the peer's socket has taken over.      *)
(***************************************************************************)
THEOREM SendIsReliable == ASSUME NoWrapAround PROVE Spec => []ConfirmedIsReceived
  <1>1. IInv => ConfirmedIsReceived
    BY DEF IInv, DirectionInv, StreamBounds, ConfirmedIsReceived
  <1> QED
    BY <1>1, InvariantHolds, PTL

(***************************************************************************)
(* While send runs, m_ackSequence never leaves the bytes of the call, so   *)
(* the unsigned difference added to the position is never negative.        *)
(***************************************************************************)
THEOREM AckStaysInCall == ASSUME NoWrapAround PROVE Spec => []AckWithinCall
  <1>1. TypeOK /\ IInv => AckWithinCall
    BY NoWrapAround, ExactProgress DEF AckWithinCall
  <1> QED
    BY <1>1, TypeCorrect, InvariantHolds, PTL

(***************************************************************************)
(* The read buffer holds bytes of its interval only: never more than       *)
(* MAX_BUFFER_SIZE, so the window a segment announces does not underflow.  *)
(***************************************************************************)
THEOREM BufferStaysInInterval == ASSUME NoWrapAround PROVE Spec => []BufferInInterval
  <1>1. IInv => BufferInInterval
    <2> SUFFICES ASSUME IInv, NEW e \in Ends, NEW q \in Uint,
                        readBuffer[e][q] # NoByte
                 PROVE  /\ q >= readBufferLowerBound[e]
                        /\ q < readBufferLowerBound[e] + MAX_BUFFER_SIZE
      BY DEF BufferInInterval, Buffered
    <2>1. /\ Peer(e) \in Ends /\ Peer(Peer(e)) = e /\ DirectionInv(Peer(e))
      BY PeerIsEnd DEF IInv
    <2> QED
      BY <2>1 DEF DirectionInv, BufferContents
  <1> QED
    BY <1>1, InvariantHolds, PTL

(***************************************************************************)
(* The expected number is the first one without a byte, so that no         *)
(* acknowledgement covers a byte the receiver does not have.               *)
(***************************************************************************)
THEOREM ExpectedIsExact == ASSUME NoWrapAround PROVE Spec => []ExpectedIsFirstGap
  <1>1. TypeOK /\ IInv => ExpectedIsFirstGap
    <2> SUFFICES ASSUME TypeOK, IInv, NEW e \in Ends
                 PROVE  /\ readBufferLowerBound[e] .. destinationSequence[e] - 1
                              \subseteq Buffered(e)
                        /\ destinationSequence[e] \notin Buffered(e)
      BY DEF ExpectedIsFirstGap
    <2>1. /\ Peer(e) \in Ends /\ Peer(Peer(e)) = e /\ DirectionInv(Peer(e))
      BY PeerIsEnd DEF IInv
    <2>2. /\ \A q \in readBufferLowerBound[e] .. destinationSequence[e] - 1 :
                readBuffer[e][q] # NoByte
          /\ readBuffer[e][destinationSequence[e]] = NoByte
      BY <2>1 DEF DirectionInv, BufferContents
    <2>3. readBufferLowerBound[e] .. destinationSequence[e] - 1 \subseteq Uint
      <3>1. /\ readBufferLowerBound[e] \in Nat /\ UintMod \in Nat
            /\ destinationSequence[e] \in 0 .. UintMod - 1
        BY Numbers DEF TypeOK, Uint
      <3> QED
        BY <3>1 DEF Uint
    <2> QED
      BY <2>2, <2>3 DEF Buffered
  <1> QED
    BY <1>1, TypeCorrect, InvariantHolds, PTL

-----------------------------------------------------------------------------
(***************************************************************************)
(* Two sockets implement a reliable stream                                 *)
(***************************************************************************)

\* The bytes of e that reached its peer: what the refinement calls arrived.
Arrived == [e \in Ends |-> destinationSequence[Peer(e)] - Start[e]]

LEMMA StreamNames ==
    /\ Stream!Ends = Ends
    /\ \A e \in Ends : Stream!Peer(e) = Peer(e)
  BY DEF Stream!Ends, Ends, Stream!Peer, Peer

LEMMA StreamInit == Init => Stream!Init
  <1> SUFFICES ASSUME Init PROVE Stream!Init
    OBVIOUS
  <1>1. \A e \in Ends : destinationSequence[Peer(e)] - Start[e] = 0
    <2> SUFFICES ASSUME NEW e \in Ends
                 PROVE  destinationSequence[Peer(e)] - Start[e] = 0
      OBVIOUS
    <2>1. destinationSequence[Peer(e)] = Start[e] /\ Start[e] \in Nat
      BY PeerIsEnd, InitType, Numbers DEF Init
    <2> QED
      BY <2>1
  <1>2. [e \in Ends |-> destinationSequence[Peer(e)] - Start[e]] = [e \in Ends |-> 0]
    BY <1>1
  <1> QED
    BY <1>2, StreamNames DEF Init, Stream!Init

\* A step that changes nothing the applications see, but the bytes arrived.
LEMMA StreamStutters ==
    ASSUME UNCHANGED <<connected, written, destinationSequence, confirmed, delivered>>
    PROVE  UNCHANGED Stream!vars
  BY DEF Stream!vars

LEMMA StartSendWrites ==
    ASSUME TypeOK, IInv, NEW x \in Ends, NEW len \in 1 .. MaxStream[x],
           StartSend(x, len)
    PROVE  Stream!Write(x)
  <1>1. /\ pc[x] = "checked"
        /\ written' = [written EXCEPT ![x] = written[x] + len]
        /\ UNCHANGED <<connected, destinationSequence, confirmed, delivered>>
    BY DEF StartSend
  <1>2. connected[x] /\ written[x] = confirmed[x]
    BY <1>1 DEF IInv, DirectionInv, SenderState
  <1>3. written'[x] = written[x] + len /\ written[x] \in Nat /\ len \in Nat /\ len > 0
    BY <1>1, Numbers DEF TypeOK
  <1>4. written'[x] > written[x]
    BY <1>3
  <1>5. written' = [written EXCEPT ![x] = written'[x]]
    BY <1>1, <1>3
  <1> QED
    BY <1>1, <1>2, <1>4, <1>5 DEF Stream!Write

LEMMA FinishSendConfirms ==
    ASSUME TypeOK, IInv, NoWrapAround, NEW x \in Ends, FinishSend(x)
    PROVE  Stream!Confirm(x) \/ UNCHANGED Stream!vars
  <1>1. /\ pc[x] = "waiting"
        /\ NextProgress(x) >= written[x] - confirmed[x]
        /\ confirmed' = [confirmed EXCEPT ![x] = written[x]]
        /\ UNCHANGED <<connected, written, destinationSequence, delivered>>
    BY DEF FinishSend
  <1>2. /\ NextProgress(x) = ackSequence[x] - Start[x] - confirmed[x]
        /\ ackSequence[x] <= destinationSequence[Peer(x)]
    BY <1>1, ExactProgress
  <1>3. DirectionInv(x) /\ Peer(x) \in Ends
    BY PeerIsEnd DEF IInv
  <1>4. /\ destinationSequence[Peer(x)] <= Start[x] + written[x]
        /\ confirmed[x] <= written[x]
    BY <1>3 DEF DirectionInv, StreamBounds
  <1>5. /\ Start[x] \in Nat /\ written[x] \in Nat /\ confirmed[x] \in Nat
        /\ ackSequence[x] \in Nat /\ destinationSequence[Peer(x)] \in Nat
    BY <1>3, Numbers
  <1>6. destinationSequence[Peer(x)] - Start[x] = written[x]
    <2>1. ackSequence[x] - Start[x] - confirmed[x] >= written[x] - confirmed[x]
      BY <1>1, <1>2
    <2> QED
      BY <1>2, <1>4, <1>5, <2>1
  <1>7. CASE confirmed[x] < written[x]
    BY <1>1, <1>6, <1>7 DEF Stream!Confirm
  <1>8. CASE confirmed[x] = written[x]
    <2>1. UNCHANGED confirmed
      BY <1>1, <1>8 DEF TypeOK
    <2> QED
      BY <1>1, <2>1, StreamStutters
  <1> QED
    BY <1>4, <1>5, <1>7, <1>8

LEMMA ParseSegmentArrives ==
    ASSUME TypeOK, IInv, NoWrapAround, NEW x \in Ends, channel[x] # <<>>,
           NEW queue, queue = Tail(channel[x]) \/ queue = channel[x],
           ParseSegment(x, Head(channel[x]), queue)
    PROVE  Stream!Arrive(Peer(x)) \/ UNCHANGED Stream!vars
  <1> DEFINE y == Peer(x)
             s == Head(channel[x])
  <1>1. /\ y \in Ends /\ Peer(y) = x /\ y # x /\ DirectionInv(y)
    BY PeerIsEnd DEF IInv
  <1>2. s \in Segment /\ queue \in Seq(Segment) /\ CarriesStream(y, s, written[y])
    BY HeadOfChannel
  <1>3. /\ Accept(x, s)
        /\ UNCHANGED <<connected, readBufferLowerBound, written, confirmed,
                       delivered>>
    BY DEF ParseSegment, historyVars
  <1>4. TypeOK'
    BY <1>2, ParseSegmentType
  <1> HIDE DEF s
  <1>5. /\ StreamBounds(y)'
        /\ destinationSequence[x] <= destinationSequence'[x]
        /\ destinationSequence'[y] = destinationSequence[y]
    BY <1>1, <1>2, <1>3, AcceptInv DEF DirectionInv
  <1>6. destinationSequence'[x] <= Start[y] + written[y]
    BY <1>1, <1>3, <1>5 DEF StreamBounds
  <1>7. /\ Start[y] \in Nat /\ written[y] \in Nat
        /\ destinationSequence[x] \in Nat /\ destinationSequence'[x] \in Nat
    <2>1. destinationSequence'[x] \in Nat
      BY <1>4, ConstantsAssumption DEF TypeOK, Uint
    <2> QED
      BY <1>1, <2>1, Numbers
  <1>8. \A e \in Ends : e # y => destinationSequence'[Peer(e)] = destinationSequence[Peer(e)]
    BY <1>1, <1>5, EndOrPeer
  <1>9. CASE destinationSequence'[x] = destinationSequence[x]
    <2>1. UNCHANGED destinationSequence
      <3>1. \A e \in Ends : destinationSequence'[e] = destinationSequence[e]
        BY <1>1, <1>5, <1>9, EndOrPeer
      <3> QED
        BY <1>4, <3>1 DEF TypeOK
    <2> QED
      BY <1>3, <2>1, StreamStutters
  <1>10. CASE destinationSequence'[x] # destinationSequence[x]
    <2>1. Arrived[y] = destinationSequence[x] - Start[y]
          /\ Arrived'[y] = destinationSequence'[x] - Start[y]
      BY <1>1 DEF Arrived
    <2>2. Arrived'[y] \in Arrived[y] + 1 .. written[y]
      BY <1>5, <1>6, <1>7, <1>10, <2>1
    <2>3. \A e \in Ends : e # y => Arrived'[e] = Arrived[e]
      BY <1>8 DEF Arrived
    <2>4. Arrived' = [Arrived EXCEPT ![y] = Arrived'[y]]
      <3>1. Arrived = [e \in Ends |-> Arrived[e]]
        BY DEF Arrived
      <3>2. Arrived' = [e \in Ends |-> Arrived'[e]]
        BY DEF Arrived
      <3> QED
        BY <2>3, <3>1, <3>2
    <2> QED
      BY <1>3, <2>2, <2>4 DEF Stream!Arrive, Arrived
  <1> QED
    BY <1>9, <1>10

LEMMA ReceiveDelivers ==
    ASSUME TypeOK, IInv, NoWrapAround, NEW x \in Ends, Receive(x)
    PROVE  Stream!Deliver(x)
  <1> DEFINE y == Peer(x)
  <1>1. /\ y \in Ends /\ Peer(y) = x /\ y # x
        /\ DeliveredPrefix(y) /\ StreamBounds(y)
    BY PeerIsEnd DEF IInv, DirectionInv
  <1>2. DeliveredPrefix(y)'
    BY <1>1, ReceiveInv DEF DirectionInv
  <1>3. /\ destinationSequence[x] - readBufferLowerBound[x] > 0
        /\ readBufferLowerBound'[x] = destinationSequence[x]
        /\ delivered'[y] = delivered[y]
        /\ UNCHANGED <<connected, written, destinationSequence, confirmed>>
    BY <1>1 DEF Receive, TypeOK, socketVars
  <1>4. /\ Start[y] \in Nat /\ readBufferLowerBound[x] \in Nat
        /\ destinationSequence[x] \in Nat
    BY <1>1, Numbers
  <1>5. Len(delivered[x]) = readBufferLowerBound[x] - Start[y]
    <2>1. readBufferLowerBound[x] - Start[y] \in Nat
      BY <1>1, <1>4 DEF StreamBounds
    <2>2. delivered[x] = [k \in 1 .. readBufferLowerBound[x] - Start[y] |-> k]
      BY <1>1 DEF DeliveredPrefix
    <2> QED
      BY <2>1, <2>2
  <1>6. Arrived[y] = destinationSequence[x] - Start[y]
    BY <1>1 DEF Arrived
  <1>7. Len(delivered[x]) < Arrived[y]
    BY <1>3, <1>4, <1>5, <1>6
  <1>8. delivered'[x] = [k \in 1 .. Arrived[y] |-> k]
    BY <1>1, <1>2, <1>3, <1>6 DEF DeliveredPrefix
  <1>9. delivered' = [delivered EXCEPT ![x] = delivered'[x]]
    BY DEF Receive, TypeOK
  <1>10. Stream!Peer(x) = y
    BY StreamNames
  <1> QED
    BY <1>3, <1>7, <1>8, <1>9, <1>10 DEF Stream!Deliver, Arrived

LEMMA StreamNext ==
    TypeOK /\ IInv /\ NoWrapAround /\ [Next]_vars => [Stream!Next]_(Stream!vars)
  <1> SUFFICES ASSUME TypeOK, IInv, NoWrapAround, [Next]_vars
               PROVE  Stream!Next \/ UNCHANGED Stream!vars
    OBVIOUS
  <1> USE StreamNames
  <1>1. ASSUME NEW x \in Ends, CheckConnected(x)
        PROVE  UNCHANGED Stream!vars
    BY <1>1, StreamStutters DEF CheckConnected, socketVars, historyVars
  <1>2. ASSUME NEW x \in Ends, NEW len \in 1 .. MaxStream[x], StartSend(x, len)
        PROVE  Stream!Next
    BY <1>2, StartSendWrites DEF Stream!Next
  <1>3. ASSUME NEW x \in Ends, GiveUp(x)
        PROVE  Stream!Next
    <2>1. /\ pc[x] = "waiting"
          /\ connected' = [connected EXCEPT ![x] = FALSE]
          /\ UNCHANGED <<written, destinationSequence, confirmed, delivered>>
      BY <1>3 DEF GiveUp, historyVars
    <2>2. connected[x]
      BY <2>1 DEF IInv, DirectionInv, SenderState
    <2> QED
      BY <2>1, <2>2 DEF Stream!Next, Stream!Fail
  <1>4. ASSUME NEW x \in Ends, ContinueSend(x)
        PROVE  UNCHANGED Stream!vars
    BY <1>4, StreamStutters DEF ContinueSend, historyVars
  <1>5. ASSUME NEW x \in Ends, FinishSend(x)
        PROVE  Stream!Next \/ UNCHANGED Stream!vars
    BY <1>5, FinishSendConfirms DEF Stream!Next
  <1>6. ASSUME NEW x \in Ends, ReceiveSegment(x) \/ ReceiveDuplicate(x)
        PROVE  Stream!Next \/ UNCHANGED Stream!vars
    <2>1. Peer(x) \in Ends
      BY PeerIsEnd
    <2>2. Stream!Arrive(Peer(x)) \/ UNCHANGED Stream!vars
      BY <1>6, ParseSegmentArrives DEF ReceiveSegment, ReceiveDuplicate
    <2> QED
      BY <2>1, <2>2 DEF Stream!Next
  <1>7. ASSUME NEW x \in Ends, LoseSegment(x)
        PROVE  UNCHANGED Stream!vars
    BY <1>7, StreamStutters DEF LoseSegment, socketVars, historyVars
  <1>8. ASSUME NEW x \in Ends, Receive(x)
        PROVE  Stream!Next
    BY <1>8, ReceiveDelivers DEF Stream!Next
  <1>9. CASE UNCHANGED vars
    BY <1>9, StreamStutters DEF vars, socketVars, historyVars
  <1> QED
    BY <1>1, <1>2, <1>3, <1>4, <1>5, <1>6, <1>7, <1>8, <1>9 DEF Next, Sender

(***************************************************************************)
(* The two sockets and the path between them implement ReliableStream.     *)
(***************************************************************************)
THEOREM ImplementsStream == ASSUME NoWrapAround PROVE Spec => StreamSpec
  <1>1. Init => Stream!Init
    BY StreamInit
  <1>2. TypeOK /\ IInv /\ [Next]_vars => [Stream!Next]_(Stream!vars)
    BY StreamNext
  <1> QED
    BY <1>1, <1>2, TypeCorrect, InvariantHolds, PTL DEF Spec, StreamSpec, Stream!Spec

=============================================================================
