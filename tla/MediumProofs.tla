---------------------------- MODULE MediumProofs ----------------------------
(***************************************************************************)
(* Proofs about MACFraming and Medium, for every number of stations, every *)
(* frame and scenarios of any size.                                        *)
(***************************************************************************)
EXTENDS Medium, SequenceTheorems, FiniteSetTheorems, WellFoundedInduction, TLAPS

-----------------------------------------------------------------------------
(***************************************************************************)
(* The loop of flushBytes.                                                 *)
(***************************************************************************)

\* A set of numbers has a least one.
LEMMA LeastNumber ==
    ASSUME NEW S, S \subseteq Nat, S # {}
    PROVE  \E n \in S : \A k \in S : ~ (k < n)
<1>1. PICK n \in S : \A k \in S : <<k, n>> \notin OpToRel(<, Nat)
  BY NatLessThanWellFounded, WFMin
<1>2. \A k \in S : k < n => <<k, n>> \in OpToRel(<, Nat)
  BY DEF OpToRel
<1>3. QED  BY <1>1, <1>2

\* A set of numbers with 0 and every successor is the set of all of them.
LEMMA EveryNumber ==
    ASSUME NEW S, 0 \in S, \A n \in Nat : n \in S => n + 1 \in S
    PROVE  \A n \in Nat : n \in S
<1> SUFFICES ASSUME NEW m \in Nat, m \notin S
             PROVE  FALSE
  OBVIOUS
<1> DEFINE missing == {n \in Nat : n \notin S}
<1>1. PICK n \in missing : \A k \in missing : ~ (k < n)
  BY LeastNumber
<1>2. n \in Nat /\ n # 0 /\ n - 1 \in Nat /\ n - 1 < n
  BY <1>1
<1>3. n - 1 \in S
  BY <1>1, <1>2
<1>4. (n - 1) + 1 = n
  BY <1>2
<1>5. QED  BY <1>1, <1>2, <1>3, <1>4

\* The recursive function Written exists: its equation has a solution.
LEMMA WrittenEquation ==
    ASSUME NEW bits \in Seq(Bit)
    PROVE  Written(bits) =
             [i \in 0 .. Len(bits) |->
                 IF i = 0 THEN [bits |-> << >>, ones |-> 0]
                          ELSE WriteBit(Written(bits)[i - 1], bits[i])]
<1> DEFINE nothing == [bits |-> << >>, ones |-> 0]
<1> DEFINE Solves(w, n) ==
        w = [i \in 0 .. n |-> IF i = 0 THEN nothing
                                       ELSE WriteBit(w[i - 1], bits[i])]
<1> DEFINE S == {n \in Nat : \E w : Solves(w, n)}
<1> HIDE DEF nothing
<1>1. 0 \in S
  <2>1. Solves([i \in 0 .. 0 |-> nothing], 0)
    OBVIOUS
  <2>2. QED  BY <2>1
<1>2. ASSUME NEW n \in Nat, n \in S
      PROVE  n + 1 \in S
  <2>1. PICK w : Solves(w, n)
    BY <1>2
  <2> DEFINE v == [i \in 0 .. n + 1 |->
                     IF i <= n THEN w[i] ELSE WriteBit(w[n], bits[n + 1])]
  <2>2. ASSUME NEW i \in 0 .. n + 1
        PROVE  v[i] = IF i = 0 THEN nothing ELSE WriteBit(v[i - 1], bits[i])
    <3>1. CASE i = 0
      <4>1. 0 \in 0 .. n /\ 0 \in 0 .. n + 1 /\ 0 <= n
        OBVIOUS
      <4>2. v[0] = w[0] /\ w[0] = nothing
        BY <2>1, <4>1
      <4>3. QED  BY <3>1, <4>2
    <3>2. CASE i \in 1 .. n
      <4>1. i \in 0 .. n /\ i - 1 \in 0 .. n + 1 /\ i - 1 <= n /\ i <= n /\ i # 0
        BY <3>2
      <4>2. v[i] = w[i] /\ v[i - 1] = w[i - 1]
        BY <4>1
      <4>3. w[i] = WriteBit(w[i - 1], bits[i])
        BY <2>1, <4>1
      <4>4. QED  BY <4>1, <4>2, <4>3
    <3>3. CASE i = n + 1
      <4>1. n \in 0 .. n + 1 /\ ~ (i <= n) /\ i - 1 = n /\ i # 0 /\ n <= n
        BY <3>3
      <4>2. v[i] = WriteBit(w[n], bits[n + 1]) /\ v[n] = w[n]
        BY <4>1
      <4>3. QED  BY <3>3, <4>1, <4>2
    <3>4. QED  BY <3>1, <3>2, <3>3
  <2> HIDE DEF v
  <2>3. v = [i \in 0 .. n + 1 |-> v[i]]
    BY DEF v
  <2>4. Solves(v, n + 1)
    BY <2>2, <2>3
  <2> HIDE DEF Solves
  <2>5. QED  BY <2>4
<1>3. Len(bits) \in S
  <2> HIDE DEF S
  <2>1. \A n \in Nat : n \in S
    BY <1>1, <1>2, EveryNumber
  <2>2. QED  BY <2>1, LenProperties
<1>4. \E w : Solves(w, Len(bits))
  BY <1>3
<1>5. Written(bits) = CHOOSE w : Solves(w, Len(bits))
  BY DEF Written, nothing
<1> HIDE DEF Solves
<1>6. Solves(Written(bits), Len(bits))
  BY <1>4, <1>5
<1>7. QED  BY <1>6 DEF Solves, nothing

\* What has been written after any number of the bits.
WrittenSoFar == [bits : Seq(Bit), ones : 0 .. 4]

\* A turn of the loop writes bits, and counts less than five ones.
LEMMA WriteBitType ==
    ASSUME NEW out \in WrittenSoFar, NEW bit \in Bit
    PROVE  WriteBit(out, bit) \in WrittenSoFar
<1>1. out.bits \in Seq(Bit) /\ out.ones \in 0 .. 4
  BY DEF WrittenSoFar
<1>2. CASE bit = 1 /\ out.ones = 4
  <2>1. <<1, 0>> \in Seq(Bit)
    BY DEF Bit
  <2>2. out.bits \o <<1, 0>> \in Seq(Bit)
    BY <1>1, <2>1, ConcatProperties
  <2>3. QED  BY <1>2, <2>2 DEF WriteBit, WrittenSoFar
<1>3. CASE ~ (bit = 1 /\ out.ones = 4)
  <2>1. Append(out.bits, bit) \in Seq(Bit)
    BY <1>1, AppendProperties
  <2>2. bit * (out.ones + 1) \in 0 .. 4
    BY <1>1, <1>3 DEF Bit
  <2>3. QED  BY <1>3, <2>1, <2>2 DEF WriteBit, WrittenSoFar
<1>4. QED  BY <1>2, <1>3

\* Its result, for every turn.
LEMMA WrittenType ==
    ASSUME NEW bits \in Seq(Bit)
    PROVE  \A i \in 0 .. Len(bits) : Written(bits)[i] \in WrittenSoFar
<1> DEFINE S == {i \in Nat : i <= Len(bits) => Written(bits)[i] \in WrittenSoFar}
<1>1. Len(bits) \in Nat
  BY LenProperties
<1>2. 0 \in S
  <2>1. Written(bits)[0] = [bits |-> << >>, ones |-> 0]
    BY <1>1, WrittenEquation
  <2>2. << >> \in Seq(Bit)
    BY EmptySeq
  <2>3. [bits |-> << >>, ones |-> 0] \in WrittenSoFar
    BY <2>2 DEF WrittenSoFar
  <2>4. QED  BY <2>1, <2>3
<1>3. ASSUME NEW i \in Nat, i \in S
      PROVE  i + 1 \in S
  <2> SUFFICES ASSUME i + 1 <= Len(bits)
               PROVE  Written(bits)[i + 1] \in WrittenSoFar
    OBVIOUS
  <2>1. i <= Len(bits) /\ i + 1 \in 1 .. Len(bits) /\ i + 1 \in 0 .. Len(bits)
        /\ i + 1 # 0 /\ (i + 1) - 1 = i
    BY <1>1
  <2>2. Written(bits)[i + 1] = WriteBit(Written(bits)[i], bits[i + 1])
    BY <2>1, WrittenEquation
  <2>3. bits[i + 1] \in Bit
    BY <2>1, ElementOfSeq
  <2>4. Written(bits)[i] \in WrittenSoFar
    BY <1>3, <2>1
  <2>5. QED  BY <2>2, <2>3, <2>4, WriteBitType
<1> HIDE DEF S
<1>4. \A i \in Nat : i \in S
  BY <1>2, <1>3, EveryNumber
<1>5. QED  BY <1>1, <1>4 DEF S

\* What goes on the cable for a frame is a sequence of bits, never empty.
LEMMA OnWireType ==
    ASSUME NEW bits \in Seq(Bit)
    PROVE  OnWire(bits) \in Seq(Bit) /\ Len(OnWire(bits)) \in Nat \ {0}
<1>1. Marker \in Seq(Bit) /\ Len(Marker) = 8
  BY DEF Marker, Bit
<1>2. Stuffed(bits) \in Seq(Bit)
  <2>1. Len(bits) \in 0 .. Len(bits)
    BY LenProperties
  <2>2. Written(bits)[Len(bits)] \in WrittenSoFar
    BY <2>1, WrittenType
  <2>3. QED  BY <2>2 DEF Stuffed, WrittenSoFar
<1>3. /\ Marker \o Stuffed(bits) \in Seq(Bit)
      /\ Len(Marker \o Stuffed(bits)) = 8 + Len(Stuffed(bits))
  <2>1. /\ Marker \o Stuffed(bits) \in Seq(Bit)
        /\ Len(Marker \o Stuffed(bits)) = Len(Marker) + Len(Stuffed(bits))
    BY <1>1, <1>2, ConcatProperties
  <2>2. QED  BY <1>1, <2>1
<1>4. /\ (Marker \o Stuffed(bits)) \o Marker \in Seq(Bit)
      /\ Len((Marker \o Stuffed(bits)) \o Marker) = 8 + Len(Stuffed(bits)) + 8
  BY <1>1, <1>3, ConcatProperties
<1>5. Len(Stuffed(bits)) \in Nat
  BY <1>2, LenProperties
<1>6. QED  BY <1>4, <1>5 DEF OnWire

-----------------------------------------------------------------------------
(***************************************************************************)
(* The inductive invariant: the types, and what they need to know of a call*)
(* of write. WaitingWriterIsSeen needs that a writer keeps its point, and     *)
(* NobodyInterrupts what a listening station knows of a writer.            *)
(***************************************************************************)

\* MACSublayer::write in progress: it has a frame, and its station is there.
InWrite ==
    \A s \in Stations :
        pc[s] # "idle" =>
            s \in attached /\ todo[s] # << >> /\ Len(wire[s]) >= 1

\* flushBytes in progress: an attempt is left, and it writes a bit of the frame.
InFlush ==
    \A s \in Stations :
        pc[s] \in {"put", "blocked", "returned"} =>
            /\ counter[s] < scenario.attempts
            /\ pos[s] <= Len(wire[s])
            /\ pc[s] = "put" => pos[s] = 1

\* While a frame is on the cable, the medium has been silent at most for as long
\* as its writer was late.
Silence ==
    \A s \in attached, t \in Stations :
        InFrame(t) => mediumWasFree[s] <= late[t]

\* TypeOK in parts, as the actions leave them unchanged.
PointsType ==
    /\ attached \subseteq Stations
    /\ bufferOut \in [Stations -> Bit]
    /\ empty \in [Stations -> BOOLEAN]
    /\ collision \in [Stations -> BOOLEAN]
    /\ mediumWasFree \in [Stations -> 0 .. IdleCycles]

ReadingType ==
    /\ reader \in [Stations -> Reader]
    /\ readBuffer \in [Stations -> Seq(Stations)]
    /\ got \in [Stations -> [Stations -> Nat]]

SendingType ==
    /\ pc \in [Stations -> {"idle", "wait", "put", "blocked", "returned"}]
    /\ todo \in [Stations -> Seq(Addresses)]
    /\ wire \in [Stations -> Seq(Bit)]
    /\ pos \in [Stations -> Nat \ {0}]
    /\ successful \in [Stations -> BOOLEAN]
    /\ counter \in [Stations -> 0 .. scenario.attempts]
    /\ number \in [Stations -> Nat]

BoundingType ==
    /\ scenario \in Scenarios
    /\ flips \in 0 .. scenario.flips
    /\ late \in [Stations -> 0 .. scenario.late]
    /\ resets \in 0 .. scenario.resets

HistoryType ==
    /\ hearers \in [Stations -> SUBSET Stations]
    /\ tries \in [Stations -> [Stations -> Nat]]
    /\ owed \in [Stations -> [Stations -> Nat]]

Inv == TypeOK /\ InWrite /\ InFlush /\ WaitingWriterIsSeen /\ Silence

\* The parts are all of it.
LEMMA TypeParts ==
    /\ TypeOK <=> PointsType /\ ReadingType /\ SendingType
                  /\ BoundingType /\ HistoryType
    /\ TypeOK' <=> PointsType' /\ ReadingType' /\ SendingType'
                   /\ BoundingType' /\ HistoryType'
<1> USE DEF TypeOK, PointsType, ReadingType, SendingType, BoundingType, HistoryType
<1>1. TypeOK <=> PointsType /\ ReadingType /\ SendingType
                 /\ BoundingType /\ HistoryType
  OBVIOUS
<1>2. TypeOK' <=> PointsType' /\ ReadingType' /\ SendingType'
                  /\ BoundingType' /\ HistoryType'
  OBVIOUS
<1>3. QED  BY <1>1, <1>2

\* A scenario's bounds are numbers.
LEMMA ScenarioType ==
    ASSUME scenario \in Scenarios
    PROVE  /\ scenario.sends \in [Stations -> Seq(Addresses)]
           /\ scenario.attempts \in Nat \ {0}
           /\ scenario.flips \in Nat
           /\ scenario.late \in Nat
           /\ scenario.resets \in Nat
<1>1. scenario \in [sends : [Stations -> Seq(Addresses)],
                   attempts : Nat \ {0}, flips : Nat, late : Nat,
                   resets : Nat]
  BY NumberAssumption
<1>2. QED  BY <1>1

\* What is left of a buffer is bits.
LEMMA WithoutLastType ==
    ASSUME NEW bits \in Seq(Bit), NEW n \in Nat
    PROVE  WithoutLast(bits, n) \in Seq(Bit)
<1>1. Len(bits) \in Nat /\ Len(bits) - n \in Int /\ Len(bits) - n <= Len(bits)
  BY LenProperties
<1>2. \A i \in 1 .. Len(bits) - n : bits[i] \in Bit
  BY <1>1, ElementOfSeq
<1>3. SubSeq(bits, 1, Len(bits) - n) \in Seq(Bit)
  BY <1>1, <1>2, SubSeqProperties
<1>4. QED  BY <1>3 DEF WithoutLast

\* A change from one bit to the other leaves MACReader a reader.
LEMMA BitChangeType ==
    ASSUME NEW r \in Reader, NEW bit \in Bit
    PROVE  analyseBitChange(r, bit).reader \in Reader
<1>1. /\ r.state \in {"Search", "Read"} /\ r.buffer \in Seq(Bit)
      /\ r.ones \in Nat /\ r.last \in Bit
  BY DEF Reader
<1>2. CASE bit = 1
  <2>1. analyseBitChange(r, bit)
          = [reader |-> [r EXCEPT !.ones = 1], complete |-> NoFrame]
    BY <1>2 DEF analyseBitChange
  <2>2. [r EXCEPT !.ones = 1] \in Reader
    BY DEF Reader
  <2>3. QED  BY <2>1, <2>2
<1>3. CASE bit = 0 /\ r.ones = 5
  <2>0. bit # 1 /\ ~ (r.ones < 5) /\ ~ (r.ones >= 6) /\ ~ EndsWithMarker(r)
    BY <1>3 DEF EndsWithMarker
  <2>1. analyseBitChange(r, bit)
          = [reader |-> [r EXCEPT !.buffer = WithoutLast(@, 1)],
             complete |-> NoFrame]
    BY <1>3, <2>0 DEF analyseBitChange
  <2>2. WithoutLast(r.buffer, 1) \in Seq(Bit)
    BY <1>1, WithoutLastType
  <2>3. [r EXCEPT !.buffer = WithoutLast(@, 1)] \in Reader
    BY <2>2 DEF Reader
  <2>4. QED  BY <2>1, <2>3
<1>4. CASE bit = 0 /\ r.ones < 5
  <2>0. bit # 1 /\ r.ones # 5 /\ ~ (r.ones >= 6) /\ ~ EndsWithMarker(r)
    BY <1>1, <1>4 DEF EndsWithMarker
  <2>1. analyseBitChange(r, bit) = [reader |-> r, complete |-> NoFrame]
    BY <1>1, <1>4, <2>0 DEF analyseBitChange
  <2>2. QED  BY <2>1
<1>5. CASE bit = 0 /\ r.ones >= 6 /\ EndsWithMarker(r)
  <2>1. r.ones # 5 /\ ~ (r.ones < 5) /\ bit # 1
    BY <1>1, <1>5
  <2>2. analyseBitChange(r, bit) = markerFoundAction(r)
    BY <1>5, <2>1 DEF analyseBitChange
  <2>3. markerFoundAction(r).reader = [r EXCEPT !.state = "Read", !.buffer = << >>]
    BY DEF markerFoundAction
  <2>4. << >> \in Seq(Bit)
    BY EmptySeq
  <2>5. [r EXCEPT !.state = "Read", !.buffer = << >>] \in Reader
    BY <2>4 DEF Reader
  <2>6. QED  BY <2>2, <2>3, <2>5
<1>6. CASE bit = 0 /\ r.ones >= 6 /\ ~ EndsWithMarker(r)
  <2>1. r.ones # 5 /\ ~ (r.ones < 5) /\ bit # 1
    BY <1>1, <1>6
  <2>2. analyseBitChange(r, bit)
          = [reader |-> [r EXCEPT !.state = "Search"], complete |-> NoFrame]
    BY <1>6, <2>1 DEF analyseBitChange
  <2>3. [r EXCEPT !.state = "Search"] \in Reader
    BY DEF Reader
  <2>4. QED  BY <2>2, <2>3
<1>7. bit = 1 \/ bit = 0
  BY DEF Bit
<1>8. r.ones = 5 \/ r.ones < 5 \/ r.ones >= 6
  BY <1>1
<1>9. QED  BY <1>2, <1>3, <1>4, <1>5, <1>6, <1>7, <1>8

\* A reader that gets a bit is a reader.
LEMMA ReadBitType ==
    ASSUME NEW r \in Reader, NEW bit \in Bit
    PROVE  ReadBit(r, bit).reader \in Reader
<1> DEFINE appended == [r EXCEPT !.buffer = Append(@, bit), !.last = bit]
<1>1. appended \in Reader
  <2>1. Append(r.buffer, bit) \in Seq(Bit)
    BY AppendProperties DEF Reader
  <2>2. QED  BY <2>1 DEF Reader
<1>2. ReadBit(r, bit) =
        IF r.last = bit
        THEN [reader |-> [appended EXCEPT !.ones = @ + bit], complete |-> NoFrame]
        ELSE analyseBitChange(appended, bit)
  BY DEF ReadBit
<1> HIDE DEF appended
<1>3. [appended EXCEPT !.ones = @ + bit] \in Reader
  <2>1. appended.ones + bit \in Nat
    BY <1>1 DEF Reader, Bit
  <2>2. QED  BY <1>1, <2>1 DEF Reader
<1>4. analyseBitChange(appended, bit).reader \in Reader
  BY <1>1, BitChangeType
<1>5. QED  BY <1>2, <1>3, <1>4

\* And so is a new one.
LEMMA NewReaderType == NewReader \in Reader
<1>1. << >> \in Seq(Bit)
  BY EmptySeq
<1>2. QED  BY <1>1 DEF NewReader, Reader, Bit

\* The initial state.
LEMMA InitInv == Init => Inv
<1> SUFFICES ASSUME Init PROVE Inv
  OBVIOUS
<1>1. /\ scenario.sends \in [Stations -> Seq(Addresses)]
      /\ scenario.attempts \in Nat \ {0}
      /\ scenario.flips \in Nat
      /\ scenario.late \in Nat
      /\ scenario.resets \in Nat
  BY ScenarioType DEF Init
<1>2. << >> \in Seq(Bit) /\ << >> \in Seq(Stations)
  BY EmptySeq
<1>3. NewReader \in Reader
  BY NewReaderType
<1>4. TypeOK
  <2>1. /\ scenario \in Scenarios
        /\ attached \subseteq Stations
        /\ bufferOut \in [Stations -> Bit]
        /\ empty \in [Stations -> BOOLEAN]
        /\ collision \in [Stations -> BOOLEAN]
        /\ mediumWasFree \in [Stations -> 0 .. IdleCycles]
        /\ reader \in [Stations -> Reader]
        /\ readBuffer \in [Stations -> Seq(Stations)]
    BY <1>2, <1>3, NumberAssumption DEF Init, Bit
  <2>2. /\ pc \in [Stations -> {"idle", "wait", "put", "blocked", "returned"}]
        /\ todo \in [Stations -> Seq(Addresses)]
        /\ wire \in [Stations -> Seq(Bit)]
        /\ pos \in [Stations -> Nat \ {0}]
        /\ successful \in [Stations -> BOOLEAN]
        /\ counter \in [Stations -> 0 .. scenario.attempts]
        /\ number \in [Stations -> Nat]
    BY <1>1, <1>2 DEF Init
  <2>3. /\ flips \in 0 .. scenario.flips
        /\ late \in [Stations -> 0 .. scenario.late]
        /\ resets \in 0 .. scenario.resets
        /\ hearers \in [Stations -> SUBSET Stations]
        /\ tries \in [Stations -> [Stations -> Nat]]
        /\ owed \in [Stations -> [Stations -> Nat]]
        /\ got \in [Stations -> [Stations -> Nat]]
    BY <1>1 DEF Init, PerPair
  <2>4. QED  BY <2>1, <2>2, <2>3 DEF TypeOK
<1>5. InWrite /\ InFlush /\ WaitingWriterIsSeen /\ Silence
  BY DEF Init, InWrite, InFlush, WaitingWriterIsSeen, Silence, InFrame
<1>6. QED  BY <1>4, <1>5 DEF Inv

\* A call of write begins.
LEMMA StartWriteInv ==
    ASSUME Inv, NEW s \in Stations, StartWrite(s)
    PROVE  Inv'
<1> USE DEF bounding, points, reading, sending
<1>1. /\ PointsType /\ ReadingType /\ SendingType /\ BoundingType /\ HistoryType
      /\ InWrite /\ InFlush /\ WaitingWriterIsSeen /\ Silence
  BY TypeParts DEF Inv
<1>2. scenario' = scenario
  BY DEF StartWrite
<1>0. scenario.attempts \in Nat \ {0} /\ scenario.late \in Nat
      /\ scenario.resets \in Nat
  BY <1>1, ScenarioType DEF BoundingType
<1>13. /\ OnWire(FrameBits[<<s, Head(todo[s])>>]) \in Seq(Bit)
       /\ Len(OnWire(FrameBits[<<s, Head(todo[s])>>])) >= 1
  <2>1. todo[s] \in Seq(Addresses) /\ todo[s] # << >>
    BY <1>1 DEF SendingType, StartWrite
  <2>2. Head(todo[s]) \in Addresses
    BY <2>1, HeadTailProperties
  <2>3. FrameBits[<<s, Head(todo[s])>>] \in Seq(Bit)
    BY <2>2, FrameAssumption
  <2>4. QED  BY <2>3, OnWireType
<1>3. PointsType'
  BY <1>1 DEF PointsType, StartWrite
<1>4. ReadingType'
  BY <1>1 DEF ReadingType, StartWrite
<1>5. SendingType'
  BY <1>0, <1>1, <1>2, <1>13, SMTT(30) DEF SendingType, StartWrite
<1>6. BoundingType'
  BY <1>0, <1>1, <1>2 DEF BoundingType, StartWrite
<1>7. HistoryType'
  BY <1>1 DEF HistoryType, StartWrite
<1>8. InWrite'
  BY <1>1, <1>13 DEF InWrite, SendingType, StartWrite
<1>9. InFlush'
  BY <1>0, <1>1, <1>2 DEF InFlush, SendingType, StartWrite
<1>10. WaitingWriterIsSeen'
  BY <1>1 DEF WaitingWriterIsSeen, InWrite, SendingType, PointsType, StartWrite
<1>11. Silence'
  BY <1>1 DEF Silence, InFrame, SendingType, PointsType, StartWrite
<1>12. QED
  BY <1>3, <1>4, <1>5, <1>6, <1>7, <1>8, <1>9, <1>10, <1>11, TypeParts DEF Inv

\* The medium is silent, or the writer waits.
LEMMA SenseInv ==
    ASSUME Inv, NEW s \in Stations, Sense(s)
    PROVE  Inv'
<1> USE DEF bounding, points, reading, sending
<1>1. /\ PointsType /\ ReadingType /\ SendingType /\ BoundingType /\ HistoryType
      /\ InWrite /\ InFlush /\ WaitingWriterIsSeen /\ Silence
  BY TypeParts DEF Inv
<1>2. scenario' = scenario
  BY DEF Sense
<1>0. scenario.attempts \in Nat \ {0} /\ scenario.late \in Nat
      /\ scenario.resets \in Nat
  BY <1>1, ScenarioType DEF BoundingType
<1>3. PointsType'
  BY <1>1 DEF PointsType, Sense
<1>4. ReadingType'
  BY <1>1 DEF ReadingType, Sense
<1>5. SendingType'
  <2>1. IdleCycles \in Nat
    BY NumberAssumption
  <2>2. CASE mediumWasFree[s] >= IdleCycles
    <3>1. /\ pc' = [pc EXCEPT ![s] = "put"] /\ pos' = [pos EXCEPT ![s] = 1]
          /\ successful' = [successful EXCEPT ![s] = TRUE]
          /\ UNCHANGED <<todo, wire, counter, number>>
      BY <2>2 DEF Sense
    <3>2. QED  BY <1>0, <1>1, <1>2, <3>1 DEF SendingType
  <2>3. CASE ~ (mediumWasFree[s] >= IdleCycles)
    BY <1>0, <1>1, <1>2, <2>1, <2>3 DEF SendingType, Sense
  <2>4. QED  BY <2>2, <2>3
<1>6. BoundingType'
  BY <1>0, <1>1, <1>2 DEF BoundingType, Sense
<1>7. HistoryType'
  BY <1>1 DEF HistoryType, Sense
<1>8. InWrite'
  BY <1>1 DEF InWrite, SendingType, Sense
<1>9. InFlush'
  BY <1>0, <1>1, <1>2 DEF InFlush, InWrite, SendingType, Sense
<1>10. WaitingWriterIsSeen'
  BY <1>1 DEF WaitingWriterIsSeen, InWrite, SendingType, PointsType, Sense
<1>11. Silence'
  <2> SUFFICES ASSUME NEW r \in attached, NEW t \in Stations, InFrame(t)'
               PROVE  mediumWasFree[r] <= late'[t]
    BY DEF Silence, Sense
  <2>1. t # s /\ pc'[t] = pc[t] /\ pos'[t] = pos[t] /\ late'[t] = late[t]
    BY <1>1 DEF InFrame, SendingType, BoundingType, Sense
  <2>2. QED  BY <1>1, <2>1 DEF Silence, InFrame
<1>12. QED
  BY <1>3, <1>4, <1>5, <1>6, <1>7, <1>8, <1>9, <1>10, <1>11, TypeParts DEF Inv

\* The frame's first bit.
LEMMA WriteFirstBitInv ==
    ASSUME Inv, NEW s \in Stations, WriteFirstBit(s)
    PROVE  Inv'
<1> USE DEF bounding, points, reading, sending
<1>1. /\ PointsType /\ ReadingType /\ SendingType /\ BoundingType /\ HistoryType
      /\ InWrite /\ InFlush /\ WaitingWriterIsSeen /\ Silence
  BY TypeParts DEF Inv
<1>2. scenario' = scenario
  BY DEF WriteFirstBit, PutBit
<1>0. scenario.attempts \in Nat \ {0} /\ scenario.late \in Nat
      /\ scenario.resets \in Nat
  BY <1>1, ScenarioType DEF BoundingType
<1>13. wire[s][pos[s]] \in Bit
  <2>1. wire[s] \in Seq(Bit) /\ pos[s] \in 1 .. Len(wire[s])
    BY <1>1, LenProperties DEF SendingType, InFlush, WriteFirstBit
  <2>2. QED  BY <2>1, ElementOfSeq
<1>3. PointsType'
  BY <1>1, <1>13 DEF PointsType, WriteFirstBit, PutBit
<1>4. ReadingType'
  BY <1>1 DEF ReadingType, WriteFirstBit, PutBit
<1>5. SendingType'
  BY <1>0, <1>1, <1>2 DEF SendingType, WriteFirstBit, PutBit
<1>6. BoundingType'
  BY <1>0, <1>1, <1>2 DEF BoundingType, WriteFirstBit, PutBit
<1>7. HistoryType'
  <2>1. \A r \in Stations :
            [tries[r] EXCEPT ![s] = @ + 1] \in [Stations -> Nat]
    BY <1>1 DEF HistoryType
  <2>2. tries' \in [Stations -> [Stations -> Nat]]
    BY <2>1 DEF WriteFirstBit
  <2>3. hearers' \in [Stations -> SUBSET Stations] /\ owed' = owed
    BY <1>1 DEF HistoryType, PointsType, WriteFirstBit
  <2>4. QED  BY <1>1, <2>2, <2>3 DEF HistoryType
<1>8. InWrite'
  BY <1>1 DEF InWrite, SendingType, WriteFirstBit, PutBit
<1>9. InFlush'
  BY <1>0, <1>1, <1>2 DEF InFlush, SendingType, WriteFirstBit, PutBit
<1>10. WaitingWriterIsSeen'
  BY <1>1 DEF WaitingWriterIsSeen, InWrite, SendingType, PointsType, WriteFirstBit, PutBit
<1>11. Silence'
  BY <1>1 DEF Silence, InFlush, InFrame, SendingType, PointsType, WriteFirstBit, PutBit
<1>12. QED
  BY <1>3, <1>4, <1>5, <1>6, <1>7, <1>8, <1>9, <1>10, <1>11, TypeParts DEF Inv

\* A late writer's next bit.
LEMMA WriteNextBitInv ==
    ASSUME Inv, NEW s \in Stations, WriteNextBit(s)
    PROVE  Inv'
<1> USE DEF bounding, points, reading, sending
<1>1. /\ PointsType /\ ReadingType /\ SendingType /\ BoundingType /\ HistoryType
      /\ InWrite /\ InFlush /\ WaitingWriterIsSeen /\ Silence
  BY TypeParts DEF Inv
<1>2. scenario' = scenario
  BY DEF WriteNextBit, PutBit, MoreBits
<1>0. scenario.attempts \in Nat \ {0} /\ scenario.late \in Nat
      /\ scenario.resets \in Nat
  BY <1>1, ScenarioType DEF BoundingType
<1>13. wire[s][pos[s] + 1] \in Bit
  <2>1. wire[s] \in Seq(Bit) /\ pos[s] + 1 \in 1 .. Len(wire[s])
    BY <1>1, LenProperties DEF SendingType, InFlush, WriteNextBit, MoreBits
  <2>2. QED  BY <2>1, ElementOfSeq
<1>3. PointsType'
  BY <1>1, <1>13 DEF SendingType, PointsType, WriteNextBit, PutBit, MoreBits
<1>4. ReadingType'
  BY <1>1 DEF ReadingType, WriteNextBit, PutBit, MoreBits
<1>5. SendingType'
  BY <1>0, <1>1, <1>2 DEF SendingType, WriteNextBit, PutBit, MoreBits
<1>6. BoundingType'
  BY <1>0, <1>1, <1>2 DEF BoundingType, WriteNextBit, PutBit, MoreBits
<1>7. HistoryType'
  BY <1>1 DEF HistoryType, WriteNextBit, PutBit, MoreBits
<1>8. InWrite'
  BY <1>1 DEF InWrite, SendingType, WriteNextBit, PutBit, MoreBits
<1>9. InFlush'
  BY <1>0, <1>1, <1>2 DEF InFlush, SendingType, WriteNextBit, PutBit, MoreBits
<1>10. WaitingWriterIsSeen'
  BY <1>1 DEF WaitingWriterIsSeen, InWrite, SendingType, PointsType, WriteNextBit, PutBit, MoreBits
<1>11. Silence'
  BY <1>1 DEF Silence, InFrame, SendingType, PointsType, WriteNextBit, PutBit, MoreBits
<1>12. QED
  BY <1>3, <1>4, <1>5, <1>6, <1>7, <1>8, <1>9, <1>10, <1>11, TypeParts DEF Inv

\* The frame is sent.
LEMMA FlushSucceededInv ==
    ASSUME Inv, NEW s \in Stations, FlushSucceeded(s)
    PROVE  Inv'
<1> USE DEF bounding, points, reading, sending
<1>1. /\ PointsType /\ ReadingType /\ SendingType /\ BoundingType /\ HistoryType
      /\ InWrite /\ InFlush /\ WaitingWriterIsSeen /\ Silence
  BY TypeParts DEF Inv
<1>2. scenario' = scenario
  BY DEF FlushSucceeded, FrameSent, MoreBits
<1>0. scenario.attempts \in Nat \ {0} /\ scenario.late \in Nat
      /\ scenario.resets \in Nat
  BY <1>1, ScenarioType DEF BoundingType
<1>13. Tail(todo[s]) \in Seq(Addresses)
  <2>1. todo[s] \in Seq(Addresses) /\ todo[s] # << >>
    BY <1>1 DEF SendingType, InWrite, FlushSucceeded
  <2>2. QED  BY <2>1, HeadTailProperties
<1>3. PointsType'
  BY <1>1 DEF PointsType, FlushSucceeded, FrameSent, MoreBits
<1>4. ReadingType'
  BY <1>1 DEF ReadingType, FlushSucceeded, FrameSent, MoreBits
<1>5. SendingType'
  BY <1>0, <1>1, <1>2, <1>13 DEF SendingType, FlushSucceeded, FrameSent, MoreBits
<1>6. BoundingType'
  BY <1>0, <1>1, <1>2 DEF BoundingType, FlushSucceeded, FrameSent, MoreBits
<1>7. HistoryType'
  BY <1>1 DEF HistoryType, FlushSucceeded, FrameSent, MoreBits
<1>8. InWrite'
  BY <1>1 DEF InWrite, SendingType, FlushSucceeded, FrameSent, MoreBits
<1>9. InFlush'
  BY <1>0, <1>1, <1>2 DEF InFlush, SendingType, FlushSucceeded, FrameSent, MoreBits
<1>10. WaitingWriterIsSeen'
  BY <1>1 DEF WaitingWriterIsSeen, InWrite, SendingType, PointsType, FlushSucceeded, FrameSent, MoreBits
<1>11. Silence'
  BY <1>1 DEF Silence, InFrame, SendingType, PointsType, FlushSucceeded, FrameSent, MoreBits
<1>12. QED
  BY <1>3, <1>4, <1>5, <1>6, <1>7, <1>8, <1>9, <1>10, <1>11, TypeParts DEF Inv

\* The frame has to be sent again.
LEMMA FlushCollidedInv ==
    ASSUME Inv, NEW s \in Stations, FlushCollided(s)
    PROVE  Inv'
<1> USE DEF bounding, points, reading, sending
<1>1. /\ PointsType /\ ReadingType /\ SendingType /\ BoundingType /\ HistoryType
      /\ InWrite /\ InFlush /\ WaitingWriterIsSeen /\ Silence
  BY TypeParts DEF Inv
<1>2. scenario' = scenario
  BY DEF FlushCollided, MoreBits
<1>0. scenario.attempts \in Nat \ {0} /\ scenario.late \in Nat
      /\ scenario.resets \in Nat
  BY <1>1, ScenarioType DEF BoundingType
<1>3. PointsType'
  BY <1>1 DEF PointsType, FlushCollided, MoreBits
<1>4. ReadingType'
  BY <1>1 DEF ReadingType, FlushCollided, MoreBits
<1>5. SendingType'
  BY <1>0, <1>1, <1>2, SMTT(30) DEF InFlush, SendingType, FlushCollided, MoreBits
<1>6. BoundingType'
  BY <1>0, <1>1, <1>2 DEF BoundingType, FlushCollided, MoreBits
<1>7. HistoryType'
  BY <1>1 DEF HistoryType, FlushCollided, MoreBits
<1>8. InWrite'
  BY <1>1 DEF InWrite, SendingType, FlushCollided, MoreBits
<1>9. InFlush'
  BY <1>0, <1>1, <1>2 DEF InFlush, SendingType, FlushCollided, MoreBits
<1>10. WaitingWriterIsSeen'
  BY <1>1 DEF WaitingWriterIsSeen, InWrite, SendingType, PointsType, FlushCollided, MoreBits
<1>11. Silence'
  BY <1>1 DEF Silence, InFrame, SendingType, PointsType, FlushCollided, MoreBits
<1>12. QED
  BY <1>3, <1>4, <1>5, <1>6, <1>7, <1>8, <1>9, <1>10, <1>11, TypeParts DEF Inv

\* No attempt is left.
LEMMA GiveUpInv ==
    ASSUME Inv, NEW s \in Stations, GiveUp(s)
    PROVE  Inv'
<1> USE DEF bounding, points, reading, sending
<1>1. /\ PointsType /\ ReadingType /\ SendingType /\ BoundingType /\ HistoryType
      /\ InWrite /\ InFlush /\ WaitingWriterIsSeen /\ Silence
  BY TypeParts DEF Inv
<1>2. scenario' = scenario
  BY DEF GiveUp, FrameSent
<1>0. scenario.attempts \in Nat \ {0} /\ scenario.late \in Nat
      /\ scenario.resets \in Nat
  BY <1>1, ScenarioType DEF BoundingType
<1>13. Tail(todo[s]) \in Seq(Addresses)
  <2>1. todo[s] \in Seq(Addresses) /\ todo[s] # << >>
    BY <1>1 DEF SendingType, InWrite, GiveUp
  <2>2. QED  BY <2>1, HeadTailProperties
<1>3. PointsType'
  BY <1>1 DEF PointsType, GiveUp, FrameSent
<1>4. ReadingType'
  BY <1>1 DEF ReadingType, GiveUp, FrameSent
<1>5. SendingType'
  BY <1>0, <1>1, <1>2, <1>13 DEF SendingType, GiveUp, FrameSent
<1>6. BoundingType'
  BY <1>0, <1>1, <1>2 DEF BoundingType, GiveUp, FrameSent
<1>7. HistoryType'
  BY <1>1 DEF HistoryType, GiveUp, FrameSent
<1>8. InWrite'
  BY <1>1 DEF InWrite, SendingType, GiveUp, FrameSent
<1>9. InFlush'
  BY <1>0, <1>1, <1>2 DEF InFlush, SendingType, GiveUp, FrameSent
<1>10. WaitingWriterIsSeen'
  BY <1>1 DEF WaitingWriterIsSeen, InWrite, SendingType, PointsType, GiveUp, FrameSent
<1>11. Silence'
  BY <1>1 DEF Silence, InFrame, SendingType, PointsType, GiveUp, FrameSent
<1>12. QED
  BY <1>3, <1>4, <1>5, <1>6, <1>7, <1>8, <1>9, <1>10, <1>11, TypeParts DEF Inv

\* A frame leaves the buffer.
LEMMA ReadInv ==
    ASSUME Inv, NEW s \in Stations, Read(s)
    PROVE  Inv'
<1> USE DEF bounding, points, reading, sending
<1>1. /\ PointsType /\ ReadingType /\ SendingType /\ BoundingType /\ HistoryType
      /\ InWrite /\ InFlush /\ WaitingWriterIsSeen /\ Silence
  BY TypeParts DEF Inv
<1>2. scenario' = scenario
  BY DEF Read
<1>3. PointsType'
  BY <1>1 DEF PointsType, Read
<1>4. ReadingType'
  BY <1>1 DEF ReadingType, Read
<1>5. SendingType'
  BY <1>1, <1>2 DEF SendingType, Read
<1>6. BoundingType'
  BY <1>1 DEF BoundingType, Read
<1>7. HistoryType'
  BY <1>1 DEF HistoryType, Read
<1>8. InWrite'
  BY <1>1 DEF InWrite, SendingType, Read
<1>9. InFlush'
  BY <1>1, <1>2 DEF InFlush, SendingType, Read
<1>10. WaitingWriterIsSeen'
  BY <1>1 DEF WaitingWriterIsSeen, InWrite, SendingType, PointsType, Read
<1>11. Silence'
  BY <1>1 DEF Silence, InFrame, SendingType, PointsType, Read
<1>12. QED
  BY <1>3, <1>4, <1>5, <1>6, <1>7, <1>8, <1>9, <1>10, <1>11, TypeParts DEF Inv

\* A station reconnects.
LEMMA ReconnectInv ==
    ASSUME Inv, NEW s \in Stations, Reconnect(s)
    PROVE  Inv'
<1> USE DEF bounding, points, reading, sending
<1>1. /\ PointsType /\ ReadingType /\ SendingType /\ BoundingType /\ HistoryType
      /\ InWrite /\ InFlush /\ WaitingWriterIsSeen /\ Silence
  BY TypeParts DEF Inv
<1>2. scenario' = scenario
  BY DEF Reconnect, ForgetReceived
<1>0. scenario.attempts \in Nat \ {0} /\ scenario.late \in Nat
      /\ scenario.resets \in Nat
  BY <1>1, ScenarioType DEF BoundingType
<1>3. PointsType'
  BY <1>1 DEF PointsType, Reconnect, ForgetReceived
<1>4. ReadingType'
  BY <1>1, NewReaderType DEF ReadingType, Reconnect, ForgetReceived
<1>5. SendingType'
  BY <1>0, <1>1, <1>2 DEF SendingType, Reconnect, ForgetReceived
<1>6. BoundingType'
  BY <1>0, <1>1, <1>2 DEF BoundingType, Reconnect, ForgetReceived
<1>7. HistoryType'
  BY <1>1 DEF HistoryType, Reconnect, ForgetReceived
<1>8. InWrite'
  BY <1>1 DEF InWrite, SendingType, Reconnect, ForgetReceived
<1>9. InFlush'
  BY <1>0, <1>1, <1>2 DEF InFlush, SendingType, Reconnect, ForgetReceived
<1>10. WaitingWriterIsSeen'
  BY <1>1 DEF WaitingWriterIsSeen, InWrite, SendingType, PointsType, Reconnect, ForgetReceived
<1>11. Silence'
  BY <1>1 DEF Silence, InFrame, SendingType, PointsType, Reconnect, ForgetReceived
<1>12. QED
  BY <1>3, <1>4, <1>5, <1>6, <1>7, <1>8, <1>9, <1>10, <1>11, TypeParts DEF Inv

\* A station leaves.
LEMMA DetachInv ==
    ASSUME Inv, NEW s \in Stations, Detach(s)
    PROVE  Inv'
<1> USE DEF bounding, points, reading, sending
<1>1. /\ PointsType /\ ReadingType /\ SendingType /\ BoundingType /\ HistoryType
      /\ InWrite /\ InFlush /\ WaitingWriterIsSeen /\ Silence
  BY TypeParts DEF Inv
<1>2. scenario' = scenario
  BY DEF Detach, ForgetReceived
<1>0. scenario.attempts \in Nat \ {0} /\ scenario.late \in Nat
      /\ scenario.resets \in Nat
  BY <1>1, ScenarioType DEF BoundingType
<1>3. PointsType'
  BY <1>1 DEF PointsType, Detach, ForgetReceived
<1>4. ReadingType'
  BY <1>1, NewReaderType DEF ReadingType, Detach, ForgetReceived
<1>5. SendingType'
  BY <1>0, <1>1, <1>2 DEF SendingType, Detach, ForgetReceived
<1>6. BoundingType'
  BY <1>0, <1>1, <1>2 DEF BoundingType, Detach, ForgetReceived
<1>7. HistoryType'
  BY <1>1 DEF HistoryType, Detach, ForgetReceived
<1>8. InWrite'
  BY <1>1 DEF InWrite, SendingType, Detach, ForgetReceived
<1>9. InFlush'
  BY <1>0, <1>1, <1>2 DEF InFlush, SendingType, Detach, ForgetReceived
<1>10. WaitingWriterIsSeen'
  BY <1>1 DEF WaitingWriterIsSeen, InWrite, SendingType, PointsType, Detach, ForgetReceived
<1>11. Silence'
  BY <1>1 DEF Silence, InFrame, SendingType, PointsType, Detach, ForgetReceived
<1>12. QED
  BY <1>3, <1>4, <1>5, <1>6, <1>7, <1>8, <1>9, <1>10, <1>11, TypeParts DEF Inv

\* A station comes.
LEMMA AttachInv ==
    ASSUME Inv, NEW s \in Stations, Attach(s)
    PROVE  Inv'
<1> USE DEF bounding, points, reading, sending
<1>1. /\ PointsType /\ ReadingType /\ SendingType /\ BoundingType /\ HistoryType
      /\ InWrite /\ InFlush /\ WaitingWriterIsSeen /\ Silence
  BY TypeParts DEF Inv
<1>2. scenario' = scenario
  BY DEF Attach
<1>0. scenario.late \in Nat
  BY <1>1, ScenarioType DEF BoundingType
<1>3. PointsType'
  BY <1>1, NumberAssumption DEF Bit, PointsType, Attach
<1>4. ReadingType'
  BY <1>1, NewReaderType DEF ReadingType, Attach
<1>5. SendingType'
  BY <1>1, <1>2 DEF SendingType, Attach
<1>6. BoundingType'
  BY <1>1 DEF BoundingType, Attach
<1>7. HistoryType'
  BY <1>1 DEF HistoryType, Attach
<1>8. InWrite'
  BY <1>1 DEF InWrite, SendingType, Attach
<1>9. InFlush'
  BY <1>1, <1>2 DEF InFlush, SendingType, Attach
<1>10. WaitingWriterIsSeen'
  BY <1>1 DEF WaitingWriterIsSeen, InWrite, SendingType, PointsType, Attach
<1>11. Silence'
  BY <1>0, <1>1 DEF BoundingType, Silence, InFrame, SendingType, PointsType, Attach
<1>12. QED
  BY <1>3, <1>4, <1>5, <1>6, <1>7, <1>8, <1>9, <1>10, <1>11, TypeParts DEF Inv

\* The disjunction of bits is a bit, damaged or not.
LEMMA SumOfBitsType ==
    ASSUME NEW flip \in {0, 1}
    PROVE  (SumOfBits + flip) % 2 \in Bit
<1>1. SumOfBits \in {0, 1}
  BY DEF SumOfBits
<1>2. QED  BY <1>1 DEF Bit

\* What a cycle does to the readers.
LEMMA DeliverType ==
    ASSUME ReadingType, NEW bit \in Bit, Deliver(bit)
    PROVE  ReadingType'
<1> DEFINE step == [s \in Stations |-> ReadBit(reader[s], bit)]
           saved(s) == Accepted(s, step[s].complete)
           Source(s) == (CHOOSE f \in saved(s) : TRUE)[1]
<1>1. \A s \in Stations : saved(s) # {} => Source(s) \in Stations
  <2> SUFFICES ASSUME NEW s \in Stations, saved(s) # {}
               PROVE  Source(s) \in Stations
    OBVIOUS
  <2>1. (CHOOSE f \in saved(s) : TRUE) \in saved(s)
    OBVIOUS
  <2>2. saved(s) \subseteq Stations \X Addresses
    BY DEF Accepted
  <2>3. QED  BY <2>1, <2>2
<1>2. /\ reader' = [s \in Stations |->
                      IF s \in attached THEN step[s].reader ELSE reader[s]]
      /\ readBuffer' = [s \in Stations |->
                          IF s \in attached /\ saved(s) # {}
                          THEN Append(readBuffer[s], Source(s))
                          ELSE readBuffer[s]]
      /\ got' = [s \in Stations |->
                   IF s \in attached /\ saved(s) # {}
                   THEN [got[s] EXCEPT ![Source(s)] = @ + 1] ELSE got[s]]
  BY DEF Deliver
<1>3. \A s \in Stations : step[s].reader \in Reader
  BY ReadBitType DEF ReadingType
<1> HIDE DEF step, saved, Source
<1>4. reader' \in [Stations -> Reader]
  BY <1>2, <1>3 DEF ReadingType
<1>5. readBuffer' \in [Stations -> Seq(Stations)]
  <2>1. \A s \in Stations :
           saved(s) # {} => Append(readBuffer[s], Source(s)) \in Seq(Stations)
    BY <1>1, AppendProperties DEF ReadingType
  <2>2. QED  BY <1>2, <2>1 DEF ReadingType
<1>6. got' \in [Stations -> [Stations -> Nat]]
  <2>1. \A s \in Stations :
           saved(s) # {} =>
             [got[s] EXCEPT ![Source(s)] = @ + 1] \in [Stations -> Nat]
    BY <1>1 DEF ReadingType
  <2>2. QED  BY <1>2, <2>1 DEF ReadingType
<1>7. QED  BY <1>4, <1>5, <1>6 DEF ReadingType

\* A cycle of the cable.
LEMMA CycleInv ==
    ASSUME Inv, Cycle
    PROVE  Inv'
<1> USE DEF bounding, points, reading, sending
<1>1. /\ PointsType /\ ReadingType /\ SendingType /\ BoundingType /\ HistoryType
      /\ InWrite /\ InFlush /\ WaitingWriterIsSeen /\ Silence
  BY TypeParts DEF Inv
<1>2. PICK prompt \in SUBSET {s \in Writers : MoreBits(s)} : processCycle(prompt)
  BY DEF Cycle
<1>3. scenario' = scenario /\ attached' = attached /\ todo' = todo /\ wire' = wire
      /\ counter' = counter /\ resets' = resets /\ tries' = tries /\ owed' = owed
  BY <1>2 DEF processCycle
<1>4. scenario.late \in Nat /\ scenario.flips \in Nat /\ IdleCycles \in Nat
  BY <1>1, ScenarioType, NumberAssumption DEF BoundingType
<1>5. /\ Writers \subseteq attached
      /\ \A s \in Stations : s \in Writers <=> pc[s] = "blocked"
  BY <1>1 DEF Writers, WaitingWriterIsSeen, InWrite
<1>6. \A s \in prompt : /\ s \in Stations /\ s \in Writers
                        /\ pos[s] + 1 \in 1 .. Len(wire[s])
                        /\ wire[s][pos[s] + 1] \in Bit
  <2> SUFFICES ASSUME NEW s \in prompt
               PROVE  /\ s \in Stations /\ s \in Writers
                      /\ pos[s] + 1 \in 1 .. Len(wire[s])
                      /\ wire[s][pos[s] + 1] \in Bit
    OBVIOUS
  <2>1. s \in Stations /\ s \in Writers /\ pos[s] < Len(wire[s])
    BY <1>1, <1>2 DEF Writers, PointsType, MoreBits
  <2>2. wire[s] \in Seq(Bit) /\ pos[s] \in Nat \ {0} /\ Len(wire[s]) \in Nat
    BY <1>1, <2>1, LenProperties DEF SendingType
  <2>3. pos[s] + 1 \in 1 .. Len(wire[s])
    BY <2>1, <2>2
  <2>4. QED  BY <2>1, <2>2, <2>3, ElementOfSeq
<1> DEFINE collided == Cardinality(Writers) > 1
           missed == {s \in Stations : pc[s] = "returned"}
<1>7. /\ \A s \in missed : late[s] < scenario.late
      /\ late' = [s \in Stations |-> IF s \in missed THEN late[s] + 1 ELSE late[s]]
      /\ collision' = [s \in Stations |->
                         IF s \in Writers THEN collided ELSE collision[s]]
      /\ successful' = [s \in Stations |->
                          successful[s] /\ ~ (s \in prompt /\ collided)]
      /\ pos' = [s \in Stations |-> IF s \in prompt THEN pos[s] + 1 ELSE pos[s]]
      /\ bufferOut' = [s \in Stations |-> IF s \in prompt THEN wire[s][pos[s] + 1]
                                                          ELSE bufferOut[s]]
      /\ empty' = [s \in Stations |-> IF s \in Writers THEN s \notin prompt
                                                       ELSE empty[s]]
      /\ pc' = [s \in Stations |-> IF s \in Writers \ prompt THEN "returned"
                                                             ELSE pc[s]]
      /\ number' = [s \in Stations |-> NumberLeft(s)]
  BY <1>2 DEF processCycle
<1>8. \A s \in Stations :
        /\ mediumWasFree'[s] \in 0 .. IdleCycles
        /\ s \in attached /\ Writers # {} => mediumWasFree'[s] = 0
        /\ s \in attached /\ Writers = {} => mediumWasFree'[s] <= mediumWasFree[s] + 1
  BY <1>1, <1>2, <1>4 DEF processCycle, PointsType
<1>9. \/ Writers = {} /\ UNCHANGED <<reading, flips, hearers>>
      \/ Writers # {} /\ Transfer
  BY <1>2 DEF processCycle
<1> HIDE DEF collided, missed
<1>10. PointsType'
  <2>1. bufferOut' \in [Stations -> Bit] /\ empty' \in [Stations -> BOOLEAN]
    BY <1>1, <1>6, <1>7 DEF PointsType
  <2>2. collision' \in [Stations -> BOOLEAN]
    <3>1. collided \in BOOLEAN
      BY DEF collided
    <3>2. QED  BY <1>1, <1>7, <3>1 DEF PointsType
  <2>3. mediumWasFree' \in [Stations -> 0 .. IdleCycles]
    <3>1. DOMAIN mediumWasFree' = Stations
          /\ mediumWasFree' = [s \in Stations |-> mediumWasFree'[s]]
      BY <1>2 DEF processCycle
    <3>2. QED  BY <1>8, <3>1
  <2>4. QED  BY <1>1, <1>3, <2>1, <2>2, <2>3 DEF PointsType
<1>11. ReadingType'
  <2>1. CASE Writers = {}
    BY <1>1, <1>9, <2>1 DEF ReadingType
  <2>2. CASE Writers # {}
    <3>1. PICK flip \in {0, 1} : Deliver((SumOfBits + flip) % 2)
      BY <1>9, <2>2 DEF Transfer
    <3>2. QED  BY <1>1, <3>1, SumOfBitsType, DeliverType
  <2>3. QED  BY <2>1, <2>2
<1>12. SendingType'
  <2>1. /\ pc' \in [Stations -> {"idle", "wait", "put", "blocked", "returned"}]
        /\ pos' \in [Stations -> Nat \ {0}]
        /\ successful' \in [Stations -> BOOLEAN]
    BY <1>1, <1>6, <1>7 DEF SendingType
  <2>2. number' \in [Stations -> Nat]
    BY <1>1, <1>7 DEF SendingType, NumberLeft
  <2>3. QED  BY <1>1, <1>3, <2>1, <2>2 DEF SendingType
<1>13. BoundingType'
  <2>1. late' \in [Stations -> 0 .. scenario.late]
    BY <1>1, <1>4, <1>7 DEF BoundingType, missed
  <2>2. flips' \in 0 .. scenario.flips
    BY <1>1, <1>4, <1>9 DEF BoundingType, Transfer
  <2>3. QED  BY <1>1, <1>3, <2>1, <2>2 DEF BoundingType
<1>14. HistoryType'
  <2>1. hearers' \in [Stations -> SUBSET Stations]
    BY <1>1, <1>9 DEF HistoryType, Transfer
  <2>2. QED  BY <1>1, <1>3, <2>1 DEF HistoryType
<1>15. InWrite'
  BY <1>1, <1>3, <1>5, <1>7 DEF InWrite
<1>16. InFlush'
  BY <1>1, <1>3, <1>5, <1>6, <1>7 DEF InFlush
<1>17. WaitingWriterIsSeen'
  BY <1>1, <1>5, <1>6, <1>7 DEF WaitingWriterIsSeen, PointsType
<1>18. Silence'
  <2> SUFFICES ASSUME NEW r \in attached, NEW t \in Stations, InFrame(t)'
               PROVE  mediumWasFree'[r] <= late'[t]
    BY <1>3 DEF Silence
  <2>1. /\ late[t] \in Nat /\ mediumWasFree[r] \in Nat /\ mediumWasFree'[r] \in Nat
        /\ r \in Stations /\ late'[t] \in Nat
    BY <1>1, <1>4, <1>7, <1>8 DEF BoundingType, PointsType
  <2>2. CASE Writers # {}
    BY <1>8, <2>1, <2>2
  <2>3. CASE Writers = {}
    <3>1. pc[t] # "blocked" /\ pc'[t] = pc[t]
      BY <1>5, <1>7, <2>3
    <3>2. pc[t] = "returned" /\ late'[t] = late[t] + 1
      BY <1>7, <3>1 DEF InFrame, missed
    <3>3. mediumWasFree[r] <= late[t]
      BY <1>1, <3>2 DEF Silence, InFrame
    <3>4. QED  BY <1>8, <2>1, <2>3, <3>2, <3>3
  <2>4. QED  BY <2>2, <2>3
<1>19. QED
  BY <1>10, <1>11, <1>12, <1>13, <1>14, <1>15, <1>16, <1>17, <1>18, TypeParts
     DEF Inv

\* Every step keeps the invariant.
LEMMA NextInv == Inv /\ [Next]_vars => Inv'
<1> SUFFICES ASSUME Inv, [Next]_vars PROVE Inv'
  OBVIOUS
<1>1. ASSUME NEW s \in Stations,
             \/ StartWrite(s) \/ Sense(s) \/ WriteFirstBit(s) \/ WriteNextBit(s)
             \/ FlushSucceeded(s) \/ FlushCollided(s) \/ GiveUp(s)
             \/ Read(s) \/ Reconnect(s) \/ Detach(s) \/ Attach(s)
      PROVE  Inv'
  BY <1>1, StartWriteInv, SenseInv, WriteFirstBitInv, WriteNextBitInv,
     FlushSucceededInv, FlushCollidedInv, GiveUpInv, ReadInv, ReconnectInv,
     DetachInv, AttachInv
<1>2. CASE Cycle
  BY <1>2, CycleInv
<1>3. CASE UNCHANGED vars
  <2>1. UNCHANGED vars => (InWrite /\ InFlush => InWrite' /\ InFlush')
    BY DEF InWrite, InFlush, vars, sending, bounding
  <2>2. WaitingWriterIsSeen /\ Silence => WaitingWriterIsSeen' /\ Silence'
    BY <1>3 DEF WaitingWriterIsSeen, Silence, InFrame, vars, points, sending, bounding
  <2>3. TypeOK'
    BY <1>3 DEF Inv, TypeOK, vars, points, reading, sending, bounding
  <2>4. QED  BY <1>3, <2>1, <2>2, <2>3 DEF Inv
<1>4. QED  BY <1>1, <1>2, <1>3 DEF Next

\* The invariant holds for ever.
LEMMA Invariance == Spec => []Inv
<1>1. QED  BY InitInv, NextInv, PTL DEF Spec

\* Every variable has its type: no bit is written or read beyond the frame,
\* no attempt is made beyond the last one (flushBytes, sendFrame).
THEOREM TypeCorrect == Spec => []TypeOK
<1>1. Inv => TypeOK
  BY DEF Inv
<1>2. QED  BY <1>1, Invariance, PTL

\* A thread waits in ConnectionPoint::write exactly as long as its bit is in the
\* point, so the next cycle wakes it: it does not need a predicate.
THEOREM WriterIsSeen == Spec => []WaitingWriterIsSeen
<1>1. Inv => WaitingWriterIsSeen
  BY DEF Inv
<1>2. QED  BY <1>1, Invariance, PTL

\* Nobody begins a frame while another is on the cable, if every writer comes
\* back with its next bit in fewer cycles than isFree asks for (sendFrame).
THEOREM FramesAreNotInterrupted ==
    ASSUME \A sc \in Scenarios : sc.late < IdleCycles
    PROVE  Spec => NobodyInterrupts
<1>1. ASSUME Inv, [Next]_vars,
             NEW s \in Stations, NEW t \in Stations,
             pc[s] = "wait", pc'[s] = "put"
      PROVE  ~ InFrame(t)
  <2>1. TypeOK /\ InWrite /\ Silence
    BY <1>1 DEF Inv
  <2>2. Sense(s)
    <3>1. CASE UNCHANGED vars
      BY <1>1, <3>1 DEF vars, sending
    <3>2. CASE Cycle
      BY <1>1, <3>2 DEF Cycle, processCycle
    <3>3. ASSUME NEW r \in Stations, Sense(r)
          PROVE  Sense(s)
      <4>1. pc'[s] = pc[s] \/ s = r
        <5>1. pc' = [pc EXCEPT ![r] = "put"] \/ pc' = pc
          BY <3>3 DEF Sense
        <5>2. DOMAIN pc = Stations
          BY <2>1 DEF TypeOK
        <5>3. QED  BY <5>1, <5>2
      <4>2. QED  BY <1>1, <3>3, <4>1
    <3>4. ASSUME NEW r \in Stations,
                 \/ StartWrite(r) \/ WriteFirstBit(r) \/ WriteNextBit(r)
                 \/ FlushSucceeded(r) \/ FlushCollided(r) \/ GiveUp(r)
                 \/ Read(r) \/ Reconnect(r) \/ Detach(r) \/ Attach(r)
          PROVE  FALSE
      BY <1>1, <2>1, <3>4
         DEF TypeOK, StartWrite, WriteFirstBit, WriteNextBit, FlushSucceeded,
             FlushCollided, GiveUp, Read, Reconnect, Detach, Attach, PutBit,
             FrameSent, sending
    <3>5. QED  BY <1>1, <3>1, <3>2, <3>3, <3>4 DEF Next
  <2>3. mediumWasFree[s] >= IdleCycles
    BY <1>1, <2>2 DEF Sense
  <2>4. /\ s \in attached /\ late[t] <= scenario.late
        /\ scenario \in Scenarios
        /\ late[t] \in Int /\ mediumWasFree[s] \in Int
    BY <1>1, <2>1, ScenarioType DEF InWrite, TypeOK
  <2>5. scenario.late \in Nat /\ IdleCycles \in Nat /\ scenario.late < IdleCycles
    BY <2>4, ScenarioType, NumberAssumption
  <2>6. QED  BY <2>1, <2>3, <2>4, <2>5 DEF Silence
<1>2. Inv /\ [Next]_vars =>
        [\A s, t \in Stations :
            pc[s] = "wait" /\ pc'[s] = "put" => ~ InFrame(t)]_vars
  BY <1>1
<1>3. QED  BY <1>2, Invariance, PTL DEF Spec, NobodyInterrupts

-----------------------------------------------------------------------------
(***************************************************************************)
(* What MACReader has after the first bits of a frame that flushBytes      *)
(* wrote: whatever it was doing before, the first marker sets it right.    *)
(***************************************************************************)

\* A marker is being read: its first j bits are there.
InMarker(rd, j) ==
    /\ Len(rd.buffer) >= j
    /\ rd.buffer[Len(rd.buffer) - (j - 1)] = 0
    /\ IF j = 1 THEN rd.last = 0 ELSE rd.last = 1 /\ rd.ones = j - 1

\* The buffer has i bits of the frame, and so many others.
Collected(rd, bits, i, others) ==
    /\ rd.state = "Read"
    /\ Len(rd.buffer) = i + others
    /\ \A q \in 1 .. i : rd.buffer[q] = bits[q]

\* The reader has what was written for i bits of the frame.
AfterBit(rd, bits, i, k) ==
    /\ k = 8 + Len(Written(bits)[i].bits)
    /\ Collected(rd, bits, i, 0)
    /\ IF Written(bits)[i].ones = 0 THEN rd.last = 0
       ELSE rd.last = 1 /\ rd.ones = Written(bits)[i].ones

\* It has the fifth one in a row, and not the zero behind it.
BeforeStuffing(rd, bits, i, k) ==
    /\ bits[i + 1] = 1 /\ Written(bits)[i].ones = 4
    /\ k = 8 + Len(Written(bits)[i].bits) + 1
    /\ Collected(rd, bits, i + 1, 0)
    /\ rd.last = 1 /\ rd.ones = 5

\* The reader has read the first k bits of OnWire(bits).
HasRead(rd, bits, k) ==
    \/ k = 0 /\ rd.last = 0
    \/ k \in 1 .. 7 /\ InMarker(rd, k)
    \/ \E i \in 0 .. Len(bits) : AfterBit(rd, bits, i, k)
    \/ \E i \in 0 .. Len(bits) - 1 : BeforeStuffing(rd, bits, i, k)
    \/ \E j \in 1 .. 7 :
          /\ k = 8 + Len(Stuffed(bits)) + j
          /\ InMarker(rd, j)
          /\ Collected(rd, bits, Len(bits), j)

\* One turn of the loop of flushBytes.
LEMMA Turn ==
    ASSUME NEW bits \in Seq(Bit), NEW i \in 0 .. Len(bits) - 1
    PROVE  LET w == Written(bits)[i]
               v == Written(bits)[i + 1]
           IN  /\ bits[i + 1] \in Bit
               /\ w.bits \in Seq(Bit) /\ w.ones \in 0 .. 4
               /\ v.bits \in Seq(Bit) /\ v.ones \in 0 .. 4
               /\ \A q \in 1 .. Len(w.bits) : v.bits[q] = w.bits[q]
               /\ bits[i + 1] = 1 /\ w.ones = 4 =>
                     /\ Len(v.bits) = Len(w.bits) + 2
                     /\ v.bits[Len(w.bits) + 1] = 1
                     /\ v.bits[Len(w.bits) + 2] = 0
                     /\ v.ones = 0
               /\ ~ (bits[i + 1] = 1 /\ w.ones = 4) =>
                     /\ Len(v.bits) = Len(w.bits) + 1
                     /\ v.bits[Len(w.bits) + 1] = bits[i + 1]
                     /\ v.ones = bits[i + 1] * (w.ones + 1)
<1> DEFINE w == Written(bits)[i]
           v == Written(bits)[i + 1]
           b == bits[i + 1]
<1>1. /\ Len(bits) \in Nat /\ i \in 0 .. Len(bits) /\ i + 1 \in 0 .. Len(bits)
      /\ i + 1 \in 1 .. Len(bits) /\ i + 1 # 0 /\ (i + 1) - 1 = i
  BY LenProperties
<1>2. w \in WrittenSoFar /\ v \in WrittenSoFar
  BY <1>1, WrittenType
<1>3. v = WriteBit(w, b)
  BY <1>1, WrittenEquation
<1>4. b \in Bit
  BY <1>1, ElementOfSeq
<1> HIDE DEF w, v, b
<1>5. /\ w.bits \in Seq(Bit) /\ w.ones \in 0 .. 4
      /\ v.bits \in Seq(Bit) /\ v.ones \in 0 .. 4 /\ Len(w.bits) \in Nat
  BY <1>2, LenProperties DEF WrittenSoFar
<1>6. CASE b = 1 /\ w.ones = 4
  <2>1. v.bits = w.bits \o <<1, 0>> /\ v.ones = 0
    BY <1>3, <1>6 DEF WriteBit
  <2>2. <<1, 0>> \in Seq(Bit) /\ Len(<<1, 0>>) = 2
        /\ <<1, 0>>[1] = 1 /\ <<1, 0>>[2] = 0
    BY DEF Bit
  <2>3. /\ Len(v.bits) = Len(w.bits) + 2
        /\ \A q \in 1 .. Len(w.bits) + 2 :
              v.bits[q] = IF q <= Len(w.bits) THEN w.bits[q]
                          ELSE <<1, 0>>[q - Len(w.bits)]
    BY <1>5, <2>1, <2>2, ConcatProperties
  <2>4. v.bits[Len(w.bits) + 1] = 1 /\ v.bits[Len(w.bits) + 2] = 0
    <3> DEFINE l == Len(w.bits)
               pair == <<1, 0>>
    <3>1. l \in Nat /\ pair[1] = 1 /\ pair[2] = 0
      BY <1>5, <2>2
    <3>2. \A q \in 1 .. l + 2 :
             v.bits[q] = IF q <= l THEN w.bits[q] ELSE pair[q - l]
      BY <2>3
    <3> HIDE DEF l, pair
    <3>3. l + 1 \in 1 .. l + 2 /\ ~ (l + 1 <= l) /\ (l + 1) - l = 1
          /\ l + 2 \in 1 .. l + 2 /\ ~ (l + 2 <= l) /\ (l + 2) - l = 2
      BY <3>1
    <3>4. v.bits[l + 1] = 1 /\ v.bits[l + 2] = 0
      BY <3>1, <3>2, <3>3
    <3>5. QED  BY <3>4 DEF l
  <2>5. \A q \in 1 .. Len(w.bits) : v.bits[q] = w.bits[q]
    BY <1>5, <2>3
  <2>6. QED  BY <1>4, <1>5, <1>6, <2>1, <2>3, <2>4, <2>5 DEF w, v, b
<1>7. CASE ~ (b = 1 /\ w.ones = 4)
  <2>1. v.bits = Append(w.bits, b) /\ v.ones = b * (w.ones + 1)
    BY <1>3, <1>7 DEF WriteBit
  <2>2. /\ Len(v.bits) = Len(w.bits) + 1
        /\ v.bits[Len(w.bits) + 1] = b
        /\ \A q \in 1 .. Len(w.bits) : v.bits[q] = w.bits[q]
    BY <1>4, <1>5, <2>1, AppendProperties
  <2>3. QED  BY <1>4, <1>5, <1>7, <2>1, <2>2 DEF w, v, b
<1>8. QED  BY <1>6, <1>7

\* What is written is not written again.
LEMMA WrittenGrows ==
    ASSUME NEW bits \in Seq(Bit), NEW i \in 0 .. Len(bits)
    PROVE  /\ Written(bits)[i].bits \in Seq(Bit)
           /\ Stuffed(bits) \in Seq(Bit)
           /\ Len(Written(bits)[i].bits) <= Len(Stuffed(bits))
           /\ \A q \in 1 .. Len(Written(bits)[i].bits) :
                 Stuffed(bits)[q] = Written(bits)[i].bits[q]
<1> DEFINE w(j) == Written(bits)[j].bits
           Within(j) == /\ Len(w(i)) <= Len(w(j))
                        /\ \A q \in 1 .. Len(w(i)) : w(j)[q] = w(i)[q]
           S == {n \in Nat : i + n <= Len(bits) => Within(i + n)}
<1>1. Len(bits) \in Nat /\ i \in Nat
  BY LenProperties
<1>2. \A j \in 0 .. Len(bits) : w(j) \in Seq(Bit) /\ Len(w(j)) \in Nat
  BY WrittenType, LenProperties DEF WrittenSoFar
<1>3. 0 \in S
  BY <1>1, <1>2
<1>4. ASSUME NEW n \in Nat, n \in S
      PROVE  n + 1 \in S
  <2> SUFFICES ASSUME i + (n + 1) <= Len(bits)
               PROVE  Within(i + (n + 1))
    OBVIOUS
  <2>1. i + n \in 0 .. Len(bits) - 1 /\ i + (n + 1) = (i + n) + 1 /\ i + n <= Len(bits)
        /\ i + n \in 0 .. Len(bits) /\ (i + n) + 1 \in 0 .. Len(bits)
    BY <1>1
  <2>2. Within(i + n)
    BY <1>4, <2>1
  <2>3. /\ Len(w(i + n)) <= Len(w((i + n) + 1))
        /\ \A q \in 1 .. Len(w(i + n)) : w((i + n) + 1)[q] = w(i + n)[q]
    <3> DEFINE m == i + n
    <3>1. m \in 0 .. Len(bits) - 1
      BY <2>1
    <3>2. Len(w(m)) \in Nat /\ Len(w(m + 1)) \in Nat
      BY <1>2, <2>1
    <3> HIDE DEF m
    <3>3. /\ \A q \in 1 .. Len(w(m)) : w(m + 1)[q] = w(m)[q]
          /\ Len(w(m + 1)) = Len(w(m)) + 2 \/ Len(w(m + 1)) = Len(w(m)) + 1
      BY <3>1, Turn
    <3>4. Len(w(m)) <= Len(w(m + 1))
      BY <3>2, <3>3
    <3>5. QED  BY <3>3, <3>4 DEF m
  <2>4. Len(w(i)) \in Nat /\ Len(w(i + n)) \in Nat /\ Len(w((i + n) + 1)) \in Nat
    BY <1>2, <2>1
  <2> HIDE DEF w
  <2>5. QED  BY <2>1, <2>2, <2>3, <2>4
<1> HIDE DEF S
<1>5. \A n \in Nat : n \in S
  BY <1>3, <1>4, EveryNumber
<1>6. Len(bits) - i \in Nat /\ i + (Len(bits) - i) = Len(bits)
      /\ Len(bits) \in 0 .. Len(bits)
  BY <1>1
<1>7. Within(Len(bits))
  <2>1. Len(bits) - i \in S
    BY <1>5, <1>6
  <2>2. i + (Len(bits) - i) <= Len(bits) => Within(i + (Len(bits) - i))
    BY <2>1 DEF S
  <2> HIDE DEF Within
  <2>3. QED  BY <1>1, <1>6, <2>2
<1>8. QED  BY <1>2, <1>6, <1>7 DEF Stuffed

\* The bits of a frame on the cable.
LEMMA WireBits ==
    ASSUME NEW bits \in Seq(Bit)
    PROVE  /\ Len(Stuffed(bits)) \in Nat
           /\ OnWire(bits) \in Seq(Bit)
           /\ Len(OnWire(bits)) = 16 + Len(Stuffed(bits))
           /\ \A k \in 1 .. 8 : OnWire(bits)[k] = Marker[k]
           /\ \A k \in 1 .. Len(Stuffed(bits)) : OnWire(bits)[8 + k] = Stuffed(bits)[k]
           /\ \A k \in 1 .. 8 : OnWire(bits)[8 + Len(Stuffed(bits)) + k] = Marker[k]
<1> DEFINE t == Stuffed(bits)
           u == Marker \o t
<1>1. Marker \in Seq(Bit) /\ Len(Marker) = 8
  BY DEF Marker, Bit
<1>2. t \in Seq(Bit) /\ Len(t) \in Nat
  <2>1. Len(bits) \in 0 .. Len(bits)
    BY LenProperties
  <2>2. QED  BY <2>1, WrittenGrows, LenProperties
<1> HIDE DEF t
<1>3. /\ u \in Seq(Bit) /\ Len(u) = 8 + Len(t)
      /\ \A k \in 1 .. 8 + Len(t) : u[k] = IF k <= 8 THEN Marker[k] ELSE t[k - 8]
  <2> DEFINE m == Marker
  <2>1. m \in Seq(Bit) /\ Len(m) = 8
    BY <1>1
  <2> HIDE DEF m
  <2>2. /\ m \o t \in Seq(Bit) /\ Len(m \o t) = Len(m) + Len(t)
        /\ \A k \in 1 .. Len(m) + Len(t) :
              (m \o t)[k] = IF k <= Len(m) THEN m[k] ELSE t[k - Len(m)]
    BY <1>2, <2>1, ConcatProperties
  <2>3. QED  BY <2>1, <2>2 DEF m
<1> HIDE DEF u
<1>4. /\ u \o Marker \in Seq(Bit) /\ Len(u \o Marker) = (8 + Len(t)) + 8
      /\ \A k \in 1 .. (8 + Len(t)) + 8 :
            (u \o Marker)[k] = IF k <= 8 + Len(t) THEN u[k] ELSE Marker[k - (8 + Len(t))]
  <2> DEFINE m == Marker
  <2>1. m \in Seq(Bit) /\ Len(m) = 8
    BY <1>1
  <2> HIDE DEF m
  <2>2. /\ u \o m \in Seq(Bit) /\ Len(u \o m) = Len(u) + Len(m)
        /\ \A k \in 1 .. Len(u) + Len(m) :
              (u \o m)[k] = IF k <= Len(u) THEN u[k] ELSE m[k - Len(u)]
    BY <1>3, <2>1, ConcatProperties
  <2>3. QED  BY <1>3, <2>1, <2>2 DEF m
<1>5. OnWire(bits) = u \o Marker
  BY DEF OnWire, u, t
<1> DEFINE v == u \o Marker
<1> HIDE DEF v
<1>6. \A k \in 1 .. 8 : v[k] = Marker[k]
  BY <1>2, <1>3, <1>4 DEF v
<1>7. \A k \in 1 .. Len(t) : v[8 + k] = t[k]
  BY <1>2, <1>3, <1>4 DEF v
<1>8. \A k \in 1 .. 8 : v[8 + Len(t) + k] = Marker[k]
  BY <1>2, <1>3, <1>4 DEF v
<1>9. v \in Seq(Bit) /\ Len(v) = 16 + Len(t)
  BY <1>2, <1>4 DEF v
<1>10. QED  BY <1>2, <1>5, <1>6, <1>7, <1>8, <1>9 DEF v, t

\* A reader with one more bit.
LEMMA AppendedIsReader ==
    ASSUME NEW rd \in Reader, NEW bit \in Bit
    PROVE  [rd EXCEPT !.buffer = Append(@, bit), !.last = bit] \in Reader
<1>1. Append(rd.buffer, bit) \in Seq(Bit)
  BY AppendProperties DEF Reader
<1>2. QED  BY <1>1 DEF Reader

\* A bit like the one before it.
LEMMA ReadSame ==
    ASSUME NEW rd \in Reader, NEW bit \in Bit, rd.last = bit
    PROVE  LET out == ReadBit(rd, bit).reader
           IN  /\ out.state = rd.state /\ out.buffer = Append(rd.buffer, bit)
               /\ out.ones = rd.ones + bit /\ out.last = bit
BY DEF ReadBit, Reader

\* A one after a zero.
LEMMA ReadOne ==
    ASSUME NEW rd \in Reader, rd.last = 0
    PROVE  LET out == ReadBit(rd, 1).reader
           IN  /\ out.state = rd.state /\ out.buffer = Append(rd.buffer, 1)
               /\ out.ones = 1 /\ out.last = 1
<1> DEFINE r == [rd EXCEPT !.buffer = Append(@, 1), !.last = 1]
<1>1. ReadBit(rd, 1) = analyseBitChange(r, 1)
  BY DEF ReadBit
<1>2. r.state = rd.state /\ r.buffer = Append(rd.buffer, 1) /\ r.last = 1
  BY DEF Reader
<1>3. r \in Reader
  BY AppendedIsReader DEF Bit
<1> HIDE DEF r
<1>4. analyseBitChange(r, 1) = [reader |-> [r EXCEPT !.ones = 1], complete |-> NoFrame]
  BY DEF analyseBitChange
<1> DEFINE v == [r EXCEPT !.ones = 1]
<1>5. v.state = r.state /\ v.ones = 1 /\ v.buffer = r.buffer /\ v.last = r.last
  BY <1>3 DEF Reader
<1> HIDE DEF v
<1>6. ReadBit(rd, 1).reader = v
  BY <1>1, <1>4 DEF v
<1>7. QED  BY <1>2, <1>5, <1>6

\* A zero after fewer than five ones.
LEMMA ReadZero ==
    ASSUME NEW rd \in Reader, rd.last = 1, rd.ones < 5
    PROVE  LET out == ReadBit(rd, 0).reader
           IN  /\ out.state = rd.state /\ out.buffer = Append(rd.buffer, 0)
               /\ out.ones = rd.ones /\ out.last = 0
<1> DEFINE r == [rd EXCEPT !.buffer = Append(@, 0), !.last = 0]
<1>1. ReadBit(rd, 0) = analyseBitChange(r, 0)
  BY DEF ReadBit
<1>2. /\ r.state = rd.state /\ r.buffer = Append(rd.buffer, 0)
      /\ r.ones = rd.ones /\ r.last = 0 /\ rd.ones \in Nat
  BY DEF Reader
<1> HIDE DEF r
<1>3. r.ones # 5 /\ r.ones < 5 /\ ~ (r.ones >= 6) /\ ~ EndsWithMarker(r)
  BY <1>2 DEF EndsWithMarker
<1>4. analyseBitChange(r, 0) = [reader |-> r, complete |-> NoFrame]
  BY <1>3 DEF analyseBitChange
<1>5. QED  BY <1>1, <1>2, <1>4

\* The zero after five ones is stuffing.
LEMMA ReadStuffing ==
    ASSUME NEW rd \in Reader, rd.last = 1, rd.ones = 5
    PROVE  LET out == ReadBit(rd, 0).reader
           IN  out.state = rd.state /\ out.buffer = rd.buffer /\ out.last = 0
<1> DEFINE r == [rd EXCEPT !.buffer = Append(@, 0), !.last = 0]
<1>1. ReadBit(rd, 0) = analyseBitChange(r, 0)
  BY DEF ReadBit
<1>2. /\ r.state = rd.state /\ r.buffer = Append(rd.buffer, 0)
      /\ r.ones = 5 /\ r.last = 0 /\ rd.buffer \in Seq(Bit)
  BY DEF Reader
<1>0. r \in Reader
  BY AppendedIsReader DEF Bit
<1> HIDE DEF r
<1>3. ~ (r.ones < 5) /\ ~ (r.ones >= 6) /\ ~ EndsWithMarker(r)
  BY <1>2 DEF EndsWithMarker
<1>4. analyseBitChange(r, 0)
        = [reader |-> [r EXCEPT !.buffer = WithoutLast(@, 1)], complete |-> NoFrame]
  BY <1>2, <1>3 DEF analyseBitChange
<1>5. WithoutLast(Append(rd.buffer, 0), 1) = rd.buffer
  <2> DEFINE s == rd.buffer
             t == Append(s, 0)
             u == SubSeq(t, 1, Len(t) - 1)
  <2>1. s \in Seq(Bit) /\ Len(s) \in Nat
    BY <1>2, LenProperties
  <2>2. t \in Seq(Bit) /\ Len(t) = Len(s) + 1 /\ \A q \in 1 .. Len(s) : t[q] = s[q]
    BY <2>1, AppendProperties DEF Bit
  <2> HIDE DEF s, t
  <2>3. Len(t) - 1 = Len(s) /\ Len(t) - 1 \in Int /\ 1 \in Int
    BY <2>1, <2>2
  <2>4. \A q \in 1 .. Len(t) - 1 : t[q] \in Bit
    BY <2>1, <2>2, ElementOfSeq
  <2>5. u \in Seq(Bit) /\ Len(u) = Len(s) /\ \A q \in 1 .. Len(s) : u[q] = t[q]
    BY <2>1, <2>3, <2>4, SubSeqProperties
  <2> HIDE DEF u
  <2>6. u = s
    BY <2>1, <2>2, <2>5, SeqEqual
  <2>7. QED  BY <2>6 DEF WithoutLast, u, t, s
<1> DEFINE u == WithoutLast(r.buffer, 1)
<1>6. u = rd.buffer
  BY <1>2, <1>5
<1> HIDE DEF u
<1>7. /\ [r EXCEPT !.buffer = u].state = r.state
      /\ [r EXCEPT !.buffer = u].buffer = u
      /\ [r EXCEPT !.buffer = u].last = r.last
  BY <1>0 DEF Reader
<1>8. analyseBitChange(r, 0).reader = [r EXCEPT !.buffer = u]
  BY <1>4 DEF u
<1>9. QED  BY <1>1, <1>2, <1>6, <1>7, <1>8

\* The zero that ends a marker.
LEMMA ReadMarker ==
    ASSUME NEW rd \in Reader, rd.last = 1, rd.ones = 6,
           Len(rd.buffer) >= 7, rd.buffer[Len(rd.buffer) - 6] = 0
    PROVE  LET out == ReadBit(rd, 0)
               frame == out.complete
           IN  /\ out.reader.state = "Read" /\ out.reader.buffer = << >>
               /\ out.reader.last = 0
               /\ rd.state = "Read" =>
                     /\ frame \in Seq(Bit) /\ Len(frame) = Len(rd.buffer) - 7
                     /\ \A q \in 1 .. Len(rd.buffer) - 7 : frame[q] = rd.buffer[q]
<1> DEFINE r == [rd EXCEPT !.buffer = Append(@, 0), !.last = 0]
<1>1. ReadBit(rd, 0) = analyseBitChange(r, 0)
  BY DEF ReadBit
<1>2. /\ r.state = rd.state /\ r.buffer = Append(rd.buffer, 0)
      /\ r.ones = 6 /\ r.last = 0
  BY DEF Reader
<1>0. r \in Reader
  BY AppendedIsReader DEF Bit
<1> HIDE DEF r
<1> DEFINE s == rd.buffer
           t == Append(s, 0)
<1>3. s \in Seq(Bit) /\ Len(s) \in Nat
  BY LenProperties DEF Reader
<1>4. t \in Seq(Bit) /\ Len(t) = Len(s) + 1 /\ \A q \in 1 .. Len(s) : t[q] = s[q]
  BY <1>3, AppendProperties DEF Bit
<1>5. Len(s) >= 7 /\ s[Len(s) - 6] = 0
  OBVIOUS
<1>6. r.buffer = t
  BY <1>2
<1> HIDE DEF s, t
<1>7. EndsWithMarker(r)
  <2>1. Len(t) >= 8 /\ Len(t) - 7 = Len(s) - 6 /\ Len(s) - 6 \in 1 .. Len(s)
    BY <1>3, <1>4, <1>5
  <2>2. t[Len(t) - 7] = 0
    BY <1>4, <1>5, <2>1
  <2>3. QED  BY <1>2, <1>6, <2>1, <2>2 DEF EndsWithMarker
<1>8. ~ (r.ones < 5) /\ r.ones # 5
  BY <1>2
<1>9. analyseBitChange(r, 0) = markerFoundAction(r)
  BY <1>7, <1>8 DEF analyseBitChange
<1>10. /\ markerFoundAction(r).reader.state = "Read"
       /\ markerFoundAction(r).reader.buffer = << >>
       /\ markerFoundAction(r).reader.last = 0
       /\ rd.state = "Read" => markerFoundAction(r).complete = SubSeq(t, 1, Len(t) - 8)
  BY <1>0, <1>2, <1>6 DEF markerFoundAction, WithoutLast, Reader
<1> DEFINE u == SubSeq(t, 1, Len(t) - 8)
<1>11. /\ u \in Seq(Bit) /\ Len(u) = Len(s) - 7
       /\ \A q \in 1 .. Len(s) - 7 : u[q] = s[q]
  <2>1. Len(t) - 8 \in Nat /\ Len(t) - 8 \in Int /\ 1 \in Int /\ Len(t) - 8 = Len(s) - 7
    BY <1>3, <1>4, <1>5
  <2>2. \A q \in 1 .. Len(t) - 8 : t[q] \in Bit /\ t[q] = s[q]
    BY <1>3, <1>4, <2>1, ElementOfSeq
  <2> DEFINE n == Len(t) - 8
             v == SubSeq(t, 1, n)
  <2>3. n \in Nat /\ \A q \in 1 .. n : t[q] \in Bit
    BY <2>1, <2>2
  <2> HIDE DEF n
  <2>4. v \in Seq(Bit) /\ Len(v) = n /\ \A q \in 1 .. n : v[q] = t[q]
    <3>1. Len(v) = IF 1 <= n THEN n - 1 + 1 ELSE 0
      BY <2>3, SubSeqProperties
    <3>2. Len(v) = n
      BY <2>3, <3>1
    <3>3. v \in Seq(Bit)
      BY <2>3, SubSeqProperties
    <3>4. \A q \in 1 .. n - 1 + 1 : v[q] = t[1 + q - 1]
      BY <2>3, SubSeqProperties
    <3>5. \A q \in 1 .. n : v[q] = t[q]
      <4>1. \A q \in 1 .. n : q \in 1 .. n - 1 + 1 /\ 1 + q - 1 = q
        BY <2>3
      <4>2. QED  BY <3>4, <4>1
    <3>6. QED  BY <3>2, <3>3, <3>5
  <2>5. u = v
    BY DEF n
  <2> HIDE DEF u, v
  <2>6. QED  BY <2>1, <2>2, <2>4, <2>5 DEF n
<1> HIDE DEF u
<1>12. /\ ReadBit(rd, 0).reader.state = "Read"
       /\ ReadBit(rd, 0).reader.buffer = << >>
       /\ ReadBit(rd, 0).reader.last = 0
       /\ rd.state = "Read" => ReadBit(rd, 0).complete = u
  BY <1>1, <1>9, <1>10 DEF u
<1>13. QED  BY <1>11, <1>12 DEF s

\* The bits of a marker.
LEMMA MarkerBits ==
    /\ Marker[1] = 0 /\ Marker[8] = 0
    /\ \A j \in 2 .. 7 : Marker[j] = 1
BY DEF Marker

\* A marker goes on.
LEMMA ReadInMarker ==
    ASSUME NEW rd \in Reader, NEW j \in 1 .. 6, InMarker(rd, j)
    PROVE  LET out == ReadBit(rd, 1).reader
           IN  /\ InMarker(out, j + 1)
               /\ out.state = rd.state /\ out.buffer = Append(rd.buffer, 1)
<1> DEFINE out == ReadBit(rd, 1).reader
           s == rd.buffer
<1>1. s \in Seq(Bit) /\ Len(s) \in Nat /\ Len(s) >= j /\ s[Len(s) - (j - 1)] = 0
  BY LenProperties DEF Reader, InMarker
<1>2. /\ out.state = rd.state /\ out.buffer = Append(s, 1)
      /\ out.last = 1 /\ out.ones = j
  <2>1. CASE j = 1
    BY <2>1, ReadOne DEF InMarker
  <2>2. CASE j # 1
    <3>1. rd.last = 1 /\ rd.ones = j - 1
      BY <2>2 DEF InMarker
    <3>2. /\ out.state = rd.state /\ out.buffer = Append(s, 1)
          /\ out.last = 1 /\ out.ones = (j - 1) + 1
      BY <3>1, ReadSame DEF Bit
    <3>3. QED  BY <3>2
  <2>3. QED  BY <2>1, <2>2
<1>3. /\ Len(Append(s, 1)) = Len(s) + 1
      /\ \A q \in 1 .. Len(s) : Append(s, 1)[q] = s[q]
  BY <1>1, AppendProperties DEF Bit
<1> HIDE DEF out, s
<1>4. /\ Len(s) - (j - 1) \in 1 .. Len(s)
      /\ (Len(s) + 1) - ((j + 1) - 1) = Len(s) - (j - 1)
      /\ j + 1 # 1 /\ (j + 1) - 1 = j
  BY <1>1
<1>5. InMarker(out, j + 1)
  BY <1>1, <1>2, <1>3, <1>4 DEF InMarker
<1>6. QED  BY <1>2, <1>5 DEF out, s

\* What is collected stays.
LEMMA CollectedGoesOn ==
    ASSUME NEW rd \in Reader, NEW out, NEW bits \in Seq(Bit), NEW i \in Nat,
           NEW others \in Nat, NEW bit \in Bit, Collected(rd, bits, i, others),
           out.state = rd.state, out.buffer = Append(rd.buffer, bit)
    PROVE  /\ Collected(out, bits, i, others + 1)
           /\ others = 0 /\ bits[i + 1] = bit => Collected(out, bits, i + 1, 0)
<1> DEFINE s == rd.buffer
           t == Append(s, bit)
<1>1. /\ s \in Seq(Bit) /\ Len(s) = i + others /\ rd.state = "Read"
      /\ \A q \in 1 .. i : s[q] = bits[q]
  BY DEF Reader, Collected
<1>2. /\ Len(t) = Len(s) + 1 /\ t[Len(s) + 1] = bit
      /\ \A q \in 1 .. Len(s) : t[q] = s[q]
  BY <1>1, AppendProperties
<1>3. out.buffer = t /\ out.state = "Read"
  BY <1>1
<1> HIDE DEF s, t
<1>4. \A q \in 1 .. i : t[q] = bits[q]
  BY <1>1, <1>2
<1>5. Len(t) = i + (others + 1)
  BY <1>1, <1>2
<1>6. Collected(out, bits, i, others + 1)
  BY <1>3, <1>4, <1>5 DEF Collected
<1>7. ASSUME others = 0, bits[i + 1] = bit
      PROVE  Collected(out, bits, i + 1, 0)
  <2>1. Len(t) = (i + 1) + 0 /\ t[i + 1] = bits[i + 1]
    BY <1>1, <1>2, <1>7
  <2>2. \A q \in 1 .. i + 1 : t[q] = bits[q]
    BY <1>4, <2>1
  <2>3. QED  BY <1>3, <2>1, <2>2 DEF Collected
<1>8. QED  BY <1>6, <1>7

\* A reader after a bit of the frame: the next one that flushBytes writes.
LEMMA ReadInFrame ==
    ASSUME NEW rd \in Reader, NEW bits \in Seq(Bit), NEW k \in Nat,
           NEW i \in 0 .. Len(bits) - 1, AfterBit(rd, bits, i, k)
    PROVE  HasRead(ReadBit(rd, OnWire(bits)[k + 1]).reader, bits, k + 1)
<1> DEFINE w == Written(bits)[i]
           v == Written(bits)[i + 1]
           b == bits[i + 1]
           l == Len(w.bits)
           m == Len(v.bits)
           L == Len(Stuffed(bits))
           out == ReadBit(rd, OnWire(bits)[k + 1]).reader
<1>0. /\ Len(bits) \in Nat /\ i \in 0 .. Len(bits) /\ i + 1 \in 0 .. Len(bits)
      /\ i \in Nat
  BY LenProperties
<1>1. /\ b \in Bit /\ w.ones \in 0 .. 4 /\ v.ones \in 0 .. 4
      /\ l \in Nat /\ m \in Nat /\ m <= L /\ L \in Nat
  BY <1>0, Turn, WrittenGrows, WireBits, LenProperties
<1>2. /\ b = 1 /\ w.ones = 4 => m = l + 2 /\ v.bits[l + 1] = 1
      /\ ~ (b = 1 /\ w.ones = 4) =>
            m = l + 1 /\ v.bits[l + 1] = b /\ v.ones = b * (w.ones + 1)
  BY Turn
<1>3. k = 8 + l /\ Collected(rd, bits, i, 0)
      /\ IF w.ones = 0 THEN rd.last = 0 ELSE rd.last = 1 /\ rd.ones = w.ones
  BY DEF AfterBit
<1>a. /\ \A q \in 1 .. m : Stuffed(bits)[q] = v.bits[q]
      /\ \A q \in 1 .. L : OnWire(bits)[8 + q] = Stuffed(bits)[q]
  BY <1>0, WrittenGrows, WireBits
<1>b. bits[i + 1] = b /\ Written(bits)[i + 1] = v /\ Written(bits)[i] = w
      /\ Len(v.bits) = m /\ Len(w.bits) = l
  OBVIOUS
<1> HIDE DEF w, v, b, l, m, L
<1>4. OnWire(bits)[k + 1] = b
  <2>1. l + 1 \in 1 .. m /\ l + 1 \in 1 .. L /\ k + 1 = 8 + (l + 1)
    <3>1. m = l + 1 \/ m = l + 2
      BY <1>2
    <3>2. QED  BY <1>1, <1>3, <3>1
  <2>2. Stuffed(bits)[l + 1] = v.bits[l + 1]
    BY <1>a, <2>1
  <2>3. OnWire(bits)[8 + (l + 1)] = Stuffed(bits)[l + 1]
    BY <1>a, <2>1
  <2>4. v.bits[l + 1] = b
    BY <1>2
  <2>5. QED  BY <2>1, <2>2, <2>3, <2>4
<1>5. out = ReadBit(rd, b).reader
  BY <1>4
<1> HIDE DEF out
<1>6. CASE b = 0
  <2>1. out.state = rd.state /\ out.buffer = Append(rd.buffer, 0) /\ out.last = 0
    <3>1. CASE rd.last = 0
      BY <1>5, <1>6, <3>1, ReadSame DEF Bit
    <3>2. CASE rd.last # 0
      <4>1. rd.last = 1 /\ rd.ones < 5
        BY <1>1, <1>3, <3>2
      <4>2. QED  BY <1>5, <1>6, <4>1, ReadZero
    <3>3. QED  BY <3>1, <3>2
  <2>2. Collected(out, bits, i + 1, 0)
    <3>1. bits[i + 1] = 0 /\ 0 \in Nat /\ 0 \in Bit
      BY <1>6, <1>b DEF Bit
    <3>2. QED  BY <1>0, <1>3, <2>1, <3>1, CollectedGoesOn
  <2>3. v.ones = 0 /\ k + 1 = 8 + m
    <3>1. m = l + 1 /\ v.ones = b * (w.ones + 1)
      BY <1>2, <1>6
    <3>2. 0 * (w.ones + 1) = 0
      BY <1>1
    <3>3. QED  BY <1>1, <1>3, <1>6, <3>1, <3>2
  <2>4. AfterBit(out, bits, i + 1, k + 1)
    BY <1>b, <2>1, <2>2, <2>3 DEF AfterBit
  <2>5. QED  BY <1>0, <2>4 DEF HasRead, out
<1>7. CASE b = 1
  <2>1. /\ out.state = rd.state /\ out.buffer = Append(rd.buffer, 1)
        /\ out.last = 1 /\ out.ones = w.ones + 1
    <3>1. CASE w.ones = 0
      <4>1. out.state = rd.state /\ out.buffer = Append(rd.buffer, 1)
            /\ out.last = 1 /\ out.ones = 1
        BY <1>3, <1>5, <1>7, <3>1, ReadOne
      <4>2. QED  BY <3>1, <4>1
    <3>2. CASE w.ones # 0
      <4>1. rd.last = 1 /\ rd.ones = w.ones
        BY <1>3, <3>2
      <4>2. out.state = rd.state /\ out.buffer = Append(rd.buffer, 1)
            /\ out.last = 1 /\ out.ones = rd.ones + 1
        BY <1>5, <1>7, <4>1, ReadSame DEF Bit
      <4>3. QED  BY <4>1, <4>2
    <3>3. QED  BY <3>1, <3>2
  <2>2. Collected(out, bits, i + 1, 0)
    <3>1. bits[i + 1] = 1 /\ 0 \in Nat /\ 1 \in Bit
      BY <1>7, <1>b DEF Bit
    <3>2. QED  BY <1>0, <1>3, <2>1, <3>1, CollectedGoesOn
  <2>3. CASE w.ones = 4
    <3>1. out.ones = 5 /\ k + 1 = 8 + l + 1
      BY <1>1, <1>3, <2>1, <2>3
    <3>2. BeforeStuffing(out, bits, i, k + 1)
      BY <1>7, <1>b, <2>1, <2>2, <2>3, <3>1 DEF BeforeStuffing
    <3>3. QED  BY <3>2 DEF HasRead, out
  <2>4. CASE w.ones # 4
    <3>1. v.ones = w.ones + 1 /\ v.ones # 0 /\ k + 1 = 8 + m
      <4>1. m = l + 1 /\ v.ones = b * (w.ones + 1)
        BY <1>2, <2>4
      <4>2. 1 * (w.ones + 1) = w.ones + 1
        BY <1>1
      <4>3. QED  BY <1>1, <1>3, <1>7, <4>1, <4>2
    <3>2. AfterBit(out, bits, i + 1, k + 1)
      BY <1>b, <2>1, <2>2, <3>1 DEF AfterBit
    <3>3. QED  BY <1>0, <3>2 DEF HasRead, out
  <2>5. QED  BY <2>3, <2>4
<1>8. QED  BY <1>1, <1>6, <1>7 DEF Bit

\* The zero that flushBytes puts behind five ones.
LEMMA ReadInStuffing ==
    ASSUME NEW rd \in Reader, NEW bits \in Seq(Bit), NEW k \in Nat,
           NEW i \in 0 .. Len(bits) - 1, BeforeStuffing(rd, bits, i, k)
    PROVE  HasRead(ReadBit(rd, OnWire(bits)[k + 1]).reader, bits, k + 1)
<1> DEFINE w == Written(bits)[i]
           v == Written(bits)[i + 1]
           l == Len(w.bits)
           m == Len(v.bits)
           L == Len(Stuffed(bits))
           out == ReadBit(rd, OnWire(bits)[k + 1]).reader
<1>0. Len(bits) \in Nat /\ i + 1 \in 0 .. Len(bits)
  BY LenProperties
<1>1. l \in Nat /\ m \in Nat /\ m <= L /\ L \in Nat
  BY <1>0, Turn, WrittenGrows, WireBits, LenProperties
<1>2. m = l + 2 /\ v.bits[l + 2] = 0 /\ v.ones = 0
  BY Turn DEF BeforeStuffing
<1>3. k = 8 + l + 1
  BY DEF BeforeStuffing
<1>4. OnWire(bits)[k + 1] = 0
  <2>1. l + 2 \in 1 .. m /\ l + 2 \in 1 .. L /\ k + 1 = 8 + (l + 2)
    BY <1>1, <1>2, <1>3
  <2>2. Stuffed(bits)[l + 2] = v.bits[l + 2]
    BY <1>0, <2>1, WrittenGrows
  <2>3. OnWire(bits)[8 + (l + 2)] = Stuffed(bits)[l + 2]
    BY <2>1, WireBits
  <2>4. QED  BY <1>2, <2>1, <2>2, <2>3
<1>5. out.state = rd.state /\ out.buffer = rd.buffer /\ out.last = 0
  BY <1>4, ReadStuffing DEF BeforeStuffing
<1> HIDE DEF out
<1>6. Collected(out, bits, i + 1, 0)
  BY <1>5 DEF BeforeStuffing, Collected
<1>7. k + 1 = 8 + m
  BY <1>1, <1>2, <1>3
<1>8. AfterBit(out, bits, i + 1, k + 1)
  BY <1>2, <1>5, <1>6, <1>7 DEF AfterBit
<1>9. QED  BY <1>0, <1>8 DEF HasRead, out

\* The closing marker begins.
LEMMA ReadClosing ==
    ASSUME NEW rd \in Reader, NEW bits \in Seq(Bit), NEW k \in Nat,
           AfterBit(rd, bits, Len(bits), k)
    PROVE  HasRead(ReadBit(rd, OnWire(bits)[k + 1]).reader, bits, k + 1)
<1> DEFINE n == Len(bits)
           w == Written(bits)[n]
           L == Len(Stuffed(bits))
           out == ReadBit(rd, OnWire(bits)[k + 1]).reader
<1>0. n \in Nat /\ n \in 0 .. n
  BY LenProperties
<1>1. w.ones \in 0 .. 4 /\ L \in Nat /\ L = Len(w.bits)
  BY <1>0, WrittenType, WireBits DEF Stuffed, WrittenSoFar
<1>2. k = 8 + L /\ Collected(rd, bits, n, 0)
      /\ IF w.ones = 0 THEN rd.last = 0 ELSE rd.last = 1 /\ rd.ones = w.ones
  BY <1>1 DEF AfterBit
<1>3. OnWire(bits)[k + 1] = 0
  <2>1. OnWire(bits)[8 + L + 1] = Marker[1]
    BY WireBits
  <2>2. QED  BY <1>1, <1>2, <2>1, MarkerBits
<1>4. out.state = rd.state /\ out.buffer = Append(rd.buffer, 0) /\ out.last = 0
  <2>1. CASE rd.last = 0
    BY <1>3, <2>1, ReadSame DEF Bit
  <2>2. CASE rd.last # 0
    <3>1. rd.last = 1 /\ rd.ones < 5
      BY <1>1, <1>2, <2>2
    <3>2. QED  BY <1>3, <3>1, ReadZero
  <2>3. QED  BY <2>1, <2>2
<1> HIDE DEF out
<1>5. Collected(out, bits, n, 1)
  <2>1. Collected(out, bits, n, 0 + 1)
    <3>1. 0 \in Nat /\ 0 \in Bit
      BY DEF Bit
    <3>2. QED  BY <1>0, <1>2, <1>4, <3>1, CollectedGoesOn
  <2>2. QED  BY <2>1
<1>6. InMarker(out, 1)
  <2> DEFINE s == rd.buffer
             t == Append(s, 0)
  <2>1. s \in Seq(Bit) /\ Len(s) \in Nat
    BY LenProperties DEF Reader
  <2>2. Len(t) = Len(s) + 1 /\ t[Len(s) + 1] = 0
    BY <2>1, AppendProperties DEF Bit
  <2> HIDE DEF t
  <2>3. out.buffer = t
    BY <1>4 DEF t
  <2>4. Len(t) - (1 - 1) = Len(s) + 1 /\ Len(t) >= 1
    BY <2>1, <2>2
  <2>5. QED  BY <1>4, <2>2, <2>3, <2>4 DEF InMarker
<1>7. k + 1 = 8 + L + 1
  BY <1>1, <1>2
<1>8. QED  BY <1>5, <1>6, <1>7 DEF HasRead, out

\* The first marker.
LEMMA ReadOpening ==
    ASSUME NEW rd \in Reader, NEW bits \in Seq(Bit), NEW k \in 0 .. 7,
           IF k = 0 THEN rd.last = 0 ELSE InMarker(rd, k)
    PROVE  HasRead(ReadBit(rd, OnWire(bits)[k + 1]).reader, bits, k + 1)
<1> DEFINE out == ReadBit(rd, OnWire(bits)[k + 1]).reader
<1>1. OnWire(bits)[k + 1] = Marker[k + 1]
  <2>1. k + 1 \in 1 .. 8
    OBVIOUS
  <2>2. QED  BY <2>1, WireBits
<1>2. CASE k = 0
  <2>1. OnWire(bits)[k + 1] = 0
    BY <1>1, <1>2, MarkerBits
  <2>2. out.buffer = Append(rd.buffer, 0) /\ out.last = 0
    BY <1>2, <2>1, ReadSame DEF Bit
  <2> DEFINE s == rd.buffer
             t == Append(s, 0)
  <2>3. s \in Seq(Bit) /\ Len(s) \in Nat
    BY LenProperties DEF Reader
  <2>4. Len(t) = Len(s) + 1 /\ t[Len(s) + 1] = 0
    BY <2>3, AppendProperties DEF Bit
  <2>5. out.buffer = t
    BY <2>2
  <2> HIDE DEF t, out
  <2>6. Len(t) - (1 - 1) = Len(s) + 1 /\ Len(t) >= 1
    BY <2>3, <2>4
  <2>7. InMarker(out, 1)
    BY <2>2, <2>4, <2>5, <2>6 DEF InMarker
  <2>8. k + 1 = 1
    BY <1>2
  <2>9. QED  BY <2>7, <2>8 DEF HasRead, out
<1>3. CASE k \in 1 .. 6
  <2>1. OnWire(bits)[k + 1] = 1
    <3>1. k + 1 \in 2 .. 7
      BY <1>3
    <3>2. QED  BY <1>1, <3>1, MarkerBits
  <2>2. InMarker(rd, k)
    BY <1>3
  <2>3. InMarker(out, k + 1)
    BY <1>3, <2>1, <2>2, ReadInMarker
  <2> HIDE DEF out
  <2>4. k + 1 \in 1 .. 7
    BY <1>3
  <2>5. QED  BY <2>3, <2>4 DEF HasRead, out
<1>4. CASE k = 7
  <2>1. OnWire(bits)[k + 1] = 0
    BY <1>1, <1>4, MarkerBits
  <2>2. rd.last = 1 /\ rd.ones = 6 /\ Len(rd.buffer) >= 7
        /\ rd.buffer[Len(rd.buffer) - 6] = 0
    BY <1>4 DEF InMarker
  <2>3. out.state = "Read" /\ out.buffer = << >> /\ out.last = 0
    BY <2>1, <2>2, ReadMarker
  <2> HIDE DEF out
  <2>4. Written(bits)[0] = [bits |-> << >>, ones |-> 0] /\ 0 \in 0 .. Len(bits)
    BY WrittenEquation, LenProperties
  <2>5. Collected(out, bits, 0, 0)
    BY <2>3 DEF Collected
  <2>6. AfterBit(out, bits, 0, k + 1)
    BY <1>4, <2>3, <2>4, <2>5 DEF AfterBit
  <2>7. QED  BY <2>4, <2>6 DEF HasRead, out
<1>5. QED  BY <1>2, <1>3, <1>4

\* The last marker, but for its first and its last bit.
LEMMA ReadInClosing ==
    ASSUME NEW rd \in Reader, NEW bits \in Seq(Bit), NEW k \in Nat,
           NEW j \in 1 .. 6, k = 8 + Len(Stuffed(bits)) + j,
           InMarker(rd, j), Collected(rd, bits, Len(bits), j)
    PROVE  HasRead(ReadBit(rd, OnWire(bits)[k + 1]).reader, bits, k + 1)
<1> DEFINE L == Len(Stuffed(bits))
           out == ReadBit(rd, OnWire(bits)[k + 1]).reader
<1>0. L \in Nat /\ Len(bits) \in Nat /\ j \in Nat
  <2>1. L \in Nat
    BY WireBits
  <2>2. Len(bits) \in Nat
    BY LenProperties
  <2>3. QED  BY <2>1, <2>2
<1>1. OnWire(bits)[k + 1] = 1
  <2>1. j + 1 \in 1 .. 8 /\ j + 1 \in 2 .. 7 /\ k + 1 = 8 + L + (j + 1)
    BY <1>0
  <2>2. OnWire(bits)[8 + L + (j + 1)] = Marker[j + 1]
    BY <2>1, WireBits
  <2>3. QED  BY <2>1, <2>2, MarkerBits
<1>2. /\ InMarker(out, j + 1)
      /\ out.state = rd.state /\ out.buffer = Append(rd.buffer, 1)
  BY <1>1, ReadInMarker
<1> HIDE DEF out
<1>3. Collected(out, bits, Len(bits), j + 1)
  BY <1>0, <1>2, CollectedGoesOn DEF Bit
<1>4. j + 1 \in 1 .. 7 /\ k + 1 = 8 + L + (j + 1)
  BY <1>0
<1>5. QED  BY <1>2, <1>3, <1>4 DEF HasRead, out

\* A reader that has read what is on the cable so far goes on to do so.
LEMMA ReadGoesOn ==
    ASSUME NEW rd \in Reader, NEW bits \in Seq(Bit), NEW k \in Nat,
           k + 1 < Len(OnWire(bits)), HasRead(rd, bits, k)
    PROVE  HasRead(ReadBit(rd, OnWire(bits)[k + 1]).reader, bits, k + 1)
<1>0. Len(bits) \in Nat /\ Len(Stuffed(bits)) \in Nat
      /\ k + 1 < 16 + Len(Stuffed(bits))
  BY WireBits, LenProperties
<1>1. CASE k = 0 /\ rd.last = 0
  BY <1>1, ReadOpening
<1>2. CASE k \in 1 .. 7 /\ InMarker(rd, k)
  BY <1>2, ReadOpening
<1>3. CASE \E i \in 0 .. Len(bits) : AfterBit(rd, bits, i, k)
  <2>1. PICK i \in 0 .. Len(bits) : AfterBit(rd, bits, i, k)
    BY <1>3
  <2>2. i \in 0 .. Len(bits) - 1 \/ i = Len(bits)
    BY <1>0
  <2>3. QED  BY <2>1, <2>2, ReadInFrame, ReadClosing
<1>4. CASE \E i \in 0 .. Len(bits) - 1 : BeforeStuffing(rd, bits, i, k)
  BY <1>4, ReadInStuffing
<1>5. CASE \E j \in 1 .. 7 :
              /\ k = 8 + Len(Stuffed(bits)) + j
              /\ InMarker(rd, j)
              /\ Collected(rd, bits, Len(bits), j)
  <2>1. PICK j \in 1 .. 7 :
              /\ k = 8 + Len(Stuffed(bits)) + j
              /\ InMarker(rd, j)
              /\ Collected(rd, bits, Len(bits), j)
    BY <1>5
  <2>2. j \in 1 .. 6
    BY <1>0, <2>1
  <2>3. QED  BY <2>1, <2>2, ReadInClosing
<1>6. QED  BY <1>1, <1>2, <1>3, <1>4, <1>5 DEF HasRead

\* The last bit of what is on the cable is the zero of the closing marker.
LEMMA BeforeLastBit ==
    ASSUME NEW bits \in Seq(Bit), NEW k \in Nat, k + 1 = Len(OnWire(bits))
    PROVE  /\ OnWire(bits)[k + 1] = 0
           /\ \A rd : HasRead(rd, bits, k) =>
                 InMarker(rd, 7) /\ Collected(rd, bits, Len(bits), 7)
<1> DEFINE n == Len(bits)
           L == Len(Stuffed(bits))
<1>0. n \in Nat /\ L \in Nat /\ k = 15 + L
  <2>1. L \in Nat /\ Len(OnWire(bits)) = 16 + L
    BY WireBits
  <2>2. n \in Nat
    BY LenProperties
  <2>3. QED  BY <2>1, <2>2
<1>1. ASSUME NEW rd
      PROVE  /\ \A i \in 0 .. n : ~ AfterBit(rd, bits, i, k)
             /\ \A i \in 0 .. n - 1 : ~ BeforeStuffing(rd, bits, i, k)
  <2>1. ASSUME NEW i \in 0 .. n
        PROVE  Len(Written(bits)[i].bits) \in Nat /\ Len(Written(bits)[i].bits) <= L
    BY WrittenGrows, LenProperties
  <2>2. \A i \in 0 .. n - 1 : i \in 0 .. n
    BY <1>0
  <2>3. QED  BY <1>0, <2>1, <2>2 DEF AfterBit, BeforeStuffing
<1>2. ASSUME NEW rd, HasRead(rd, bits, k)
      PROVE  InMarker(rd, 7) /\ Collected(rd, bits, n, 7)
  <2>1. PICK j \in 1 .. 7 : k = 8 + L + j /\ InMarker(rd, j) /\ Collected(rd, bits, n, j)
    <3>1. k # 0 /\ k \notin 1 .. 7
      BY <1>0
    <3>2. QED  BY <1>1, <1>2, <3>1 DEF HasRead
  <2>2. j = 7
    BY <1>0, <2>1
  <2>3. QED  BY <2>1, <2>2
<1>3. OnWire(bits)[k + 1] = 0
  <2>1. OnWire(bits)[8 + L + 8] = Marker[8] /\ k + 1 = 8 + L + 8
    BY <1>0, WireBits
  <2>2. QED  BY <2>1, MarkerBits
<1>4. QED  BY <1>2, <1>3

\* With the last bit of what is on the cable it has the frame.
LEMMA ReadEnds ==
    ASSUME NEW rd \in Reader, NEW bits \in Seq(Bit), NEW k \in Nat,
           k + 1 = Len(OnWire(bits)), HasRead(rd, bits, k)
    PROVE  ReadBit(rd, OnWire(bits)[k + 1]).complete = bits
<1> DEFINE n == Len(bits)
<1>1. n \in Nat
  BY LenProperties
<1>2. InMarker(rd, 7) /\ Collected(rd, bits, n, 7)
  BY BeforeLastBit
<1>3. OnWire(bits)[k + 1] = 0
  BY BeforeLastBit
<1>4. /\ rd.last = 1 /\ rd.ones = 6 /\ rd.state = "Read"
      /\ Len(rd.buffer) = n + 7 /\ rd.buffer[Len(rd.buffer) - 6] = 0
      /\ \A q \in 1 .. n : rd.buffer[q] = bits[q]
  BY <1>2 DEF InMarker, Collected
<1> DEFINE frame == ReadBit(rd, 0).complete
<1>5. frame \in Seq(Bit) /\ Len(frame) = n /\ \A q \in 1 .. n : frame[q] = bits[q]
  <2>1. Len(rd.buffer) >= 7 /\ Len(rd.buffer) - 7 = n
    BY <1>1, <1>4
  <2>2. /\ frame \in Seq(Bit) /\ Len(frame) = Len(rd.buffer) - 7
        /\ \A q \in 1 .. Len(rd.buffer) - 7 : frame[q] = rd.buffer[q]
    BY <1>4, <2>1, ReadMarker
  <2> HIDE DEF frame
  <2>3. QED  BY <1>4, <2>1, <2>2
<1> HIDE DEF frame
<1>6. frame = bits
  BY <1>5, SeqEqual
<1>7. QED  BY <1>3, <1>6 DEF frame

-----------------------------------------------------------------------------
(***************************************************************************)
(* A frame that was sent was heard. The argument is about an attempt: its  *)
(* hearers have read what its writer has put on the cable (HasRead), for   *)
(* an attempt that is still successful had every cycle for itself.         *)
(***************************************************************************)

\* Nothing damages a bit, and every writer has its next bit ready in time.
Undisturbed == scenario.flips = 0 /\ scenario.late = 0

\* The frame of the call of write.
FrameOf(s) == FrameBits[<<s, Head(todo[s])>>]

\* What a call of write has put on the cable, and puts there next.
Writing ==
    \A s \in Stations :
        /\ pc[s] # "idle" => wire[s] = OnWire(FrameOf(s))
        /\ pc[s] = "blocked" => bufferOut[s] = wire[s][pos[s]]
        /\ pc[s] = "returned" => ~ MoreBits(s)

\* The medium ends with a zero.
SilentIsZero ==
    \A r \in attached :
        reader[r].last = 1 => \E t \in Stations : pc[t] = "blocked" /\ pos[t] > 1

\* Everybody who was there from the first bit of an attempt without a collision
\* has read all of it, and has stored it at the end.
AttemptsAreRead ==
    \A s \in Stations : \A r \in hearers[s] :
        /\ r \in attached
        /\ pc[s] = "blocked" /\ pos[s] > 1 /\ successful[s] =>
              HasRead(reader[r], FrameOf(s), pos[s] - 1)
        /\ pc[s] = "returned" /\ successful[s] /\ ~ collision[s] /\ Addressed(s, r) =>
              owed[r][s] + 1 <= got[r][s]

Hearing == Writing /\ SilentIsZero /\ AttemptsAreRead /\ SentIsHeard

\* At first nobody writes and nobody is owed anything.
LEMMA InitHearing == Init => Hearing
BY DEF Init, Hearing, Writing, SilentIsZero, AttemptsAreRead, SentIsHeard,
   NewReader,
       PerPair, HasRead

\* The types of the stations, one by one.
LEMMA StationTypes ==
    ASSUME Inv
    PROVE  /\ PointsType /\ ReadingType /\ SendingType /\ BoundingType /\ HistoryType
           /\ InWrite /\ InFlush /\ WaitingWriterIsSeen
BY TypeParts DEF Inv

\* A call of write begins.
LEMMA StartWriteHearing ==
    ASSUME Inv, Hearing, NEW s \in Stations, StartWrite(s)
    PROVE  Hearing'
<1> USE DEF bounding, points, reading, sending
<1>1. /\ PointsType /\ ReadingType /\ SendingType /\ BoundingType /\ HistoryType
      /\ InWrite /\ InFlush /\ WaitingWriterIsSeen
      /\ Writing /\ SilentIsZero /\ AttemptsAreRead /\ SentIsHeard
  BY StationTypes DEF Hearing
<1>2. Writing'
  BY <1>1 DEF Writing, FrameOf, MoreBits, InWrite, InFlush, PointsType,
     SendingType, StartWrite
<1>3. SilentIsZero'
  BY <1>1 DEF SilentIsZero, InWrite, PointsType, ReadingType, SendingType,
     NewReader, StartWrite
<1>4. AttemptsAreRead'
  BY <1>1 DEF AttemptsAreRead, InWrite, InFlush, FrameOf, Addressed,
     PointsType, ReadingType,
     SendingType, HistoryType, StartWrite
<1>5. SentIsHeard'
  BY <1>1 DEF SentIsHeard, AttemptsAreRead, ReadingType, HistoryType, StartWrite
<1>6. QED  BY <1>2, <1>3, <1>4, <1>5 DEF Hearing

\* The medium is silent, or the writer waits.
LEMMA SenseHearing ==
    ASSUME Inv, Hearing, NEW s \in Stations, Sense(s)
    PROVE  Hearing'
<1> USE DEF bounding, points, reading, sending
<1>1. /\ PointsType /\ ReadingType /\ SendingType /\ BoundingType /\ HistoryType
      /\ InWrite /\ InFlush /\ WaitingWriterIsSeen
      /\ Writing /\ SilentIsZero /\ AttemptsAreRead /\ SentIsHeard
  BY StationTypes DEF Hearing
<1>a. /\ todo' = todo /\ wire' = wire /\ bufferOut' = bufferOut
      /\ attached' = attached /\ reader' = reader /\ got' = got /\ owed' = owed
      /\ hearers' = hearers /\ collision' = collision
      /\ \A t \in Stations :
            /\ \/ pc'[t] = pc[t] /\ pos'[t] = pos[t] /\ successful'[t] = successful[t]
               \/ t = s /\ pc[t] = "wait" /\ pc'[t] = "put"
            /\ pc'[t] # "idle" <=> pc[t] # "idle"
  BY <1>1 DEF Sense, SendingType
<1>b. \A t \in Stations : FrameOf(t)' = FrameOf(t)
  BY <1>a DEF FrameOf
<1>2. Writing'
  BY <1>1, <1>a, <1>b DEF Writing, MoreBits
<1>3. SilentIsZero'
  BY <1>1 DEF SilentIsZero, InWrite, PointsType, ReadingType, SendingType,
     NewReader, Sense
<1>4. AttemptsAreRead'
  BY <1>1, <1>a, <1>b DEF AttemptsAreRead, Addressed
<1>5. SentIsHeard'
  BY <1>1 DEF SentIsHeard, AttemptsAreRead, ReadingType, HistoryType, Sense
<1>6. QED  BY <1>2, <1>3, <1>4, <1>5 DEF Hearing

\* The first bit.
LEMMA WriteFirstBitHearing ==
    ASSUME Inv, Hearing, NEW s \in Stations, WriteFirstBit(s)
    PROVE  Hearing'
<1> USE DEF bounding, points, reading, sending
<1>1. /\ PointsType /\ ReadingType /\ SendingType /\ BoundingType /\ HistoryType
      /\ InWrite /\ InFlush /\ WaitingWriterIsSeen
      /\ Writing /\ SilentIsZero /\ AttemptsAreRead /\ SentIsHeard
  BY StationTypes DEF Hearing
<1>2. Writing'
  BY <1>1 DEF Writing, FrameOf, MoreBits, InWrite, InFlush, PointsType,
     SendingType, WriteFirstBit, PutBit
<1>3. SilentIsZero'
  BY <1>1 DEF SilentIsZero, InWrite, PointsType, ReadingType, SendingType,
     NewReader, WriteFirstBit, PutBit
<1>4. AttemptsAreRead'
  <2> SUFFICES ASSUME NEW t \in Stations, NEW r \in hearers'[t]
               PROVE  /\ r \in attached'
                      /\ pc'[t] = "blocked" /\ pos'[t] > 1 /\ successful'[t] =>
                            HasRead(reader'[r], FrameOf(t)', pos'[t] - 1)
                      /\ pc'[t] = "returned" /\ successful'[t] /\ ~ collision'[t]
                            /\ Addressed(t, r)' =>
                            owed'[r][t] + 1 <= got'[r][t]
    BY DEF AttemptsAreRead
  <2>1. CASE t = s
    <3>1. pc'[s] = "blocked" /\ pos'[s] = 1 /\ hearers'[s] = attached /\ attached' = attached
      BY <1>1 DEF WriteFirstBit, PutBit, InFlush, SendingType, HistoryType
    <3>2. QED  BY <2>1, <3>1
  <2>2. CASE t # s
    <3>1. /\ pc'[t] = pc[t] /\ pos' = pos /\ hearers'[t] = hearers[t]
          /\ successful' = successful /\ collision' = collision /\ owed' = owed
          /\ got' = got /\ reader' = reader /\ attached' = attached /\ todo' = todo
      BY <1>1, <2>2 DEF WriteFirstBit, PutBit, SendingType, HistoryType
    <3>2. FrameOf(t)' = FrameOf(t) /\ (Addressed(t, r)' <=> Addressed(t, r))
      BY <3>1 DEF FrameOf, Addressed
    <3>3. QED  BY <1>1, <3>1, <3>2 DEF AttemptsAreRead
  <2>3. QED  BY <2>1, <2>2
<1>5. SentIsHeard'
  BY <1>1 DEF SentIsHeard, AttemptsAreRead, ReadingType, HistoryType,
     WriteFirstBit, PutBit
<1>6. QED  BY <1>2, <1>3, <1>4, <1>5 DEF Hearing

\* A frame is sent.
LEMMA FlushSucceededHearing ==
    ASSUME Inv, Hearing, NEW s \in Stations, FlushSucceeded(s)
    PROVE  Hearing'
<1> USE DEF bounding, points, reading, sending
<1>1. /\ PointsType /\ ReadingType /\ SendingType /\ BoundingType /\ HistoryType
      /\ InWrite /\ InFlush /\ WaitingWriterIsSeen
      /\ Writing /\ SilentIsZero /\ AttemptsAreRead /\ SentIsHeard
  BY StationTypes DEF Hearing
<1>2. Writing'
  BY <1>1 DEF Writing, FrameOf, MoreBits, InWrite, InFlush, PointsType,
     SendingType, FlushSucceeded, FrameSent, MoreBits
<1>3. SilentIsZero'
  BY <1>1 DEF SilentIsZero, InWrite, PointsType, ReadingType, SendingType,
     NewReader, FlushSucceeded, FrameSent, MoreBits
<1>4. AttemptsAreRead'
  BY <1>1 DEF AttemptsAreRead, InWrite, InFlush, FrameOf, Addressed,
     PointsType, ReadingType,
     SendingType, HistoryType, FlushSucceeded, FrameSent, MoreBits
<1>5. SentIsHeard'
  BY <1>1 DEF SentIsHeard, AttemptsAreRead, ReadingType, HistoryType,
     FlushSucceeded, FrameSent, MoreBits
<1>6. QED  BY <1>2, <1>3, <1>4, <1>5 DEF Hearing

\* An attempt has failed.
LEMMA FlushCollidedHearing ==
    ASSUME Inv, Hearing, NEW s \in Stations, FlushCollided(s)
    PROVE  Hearing'
<1> USE DEF bounding, points, reading, sending
<1>1. /\ PointsType /\ ReadingType /\ SendingType /\ BoundingType /\ HistoryType
      /\ InWrite /\ InFlush /\ WaitingWriterIsSeen
      /\ Writing /\ SilentIsZero /\ AttemptsAreRead /\ SentIsHeard
  BY StationTypes DEF Hearing
<1>2. Writing'
  BY <1>1 DEF Writing, FrameOf, MoreBits, InWrite, InFlush, PointsType,
     SendingType, FlushCollided
<1>3. SilentIsZero'
  BY <1>1 DEF SilentIsZero, InWrite, PointsType, ReadingType, SendingType,
     NewReader, FlushCollided
<1>4. AttemptsAreRead'
  BY <1>1 DEF AttemptsAreRead, InWrite, InFlush, FrameOf, Addressed,
     PointsType, ReadingType,
     SendingType, HistoryType, FlushCollided
<1>5. SentIsHeard'
  BY <1>1 DEF SentIsHeard, AttemptsAreRead, ReadingType, HistoryType, FlushCollided
<1>6. QED  BY <1>2, <1>3, <1>4, <1>5 DEF Hearing

\* The last attempt has failed.
LEMMA GiveUpHearing ==
    ASSUME Inv, Hearing, NEW s \in Stations, GiveUp(s)
    PROVE  Hearing'
<1> USE DEF bounding, points, reading, sending
<1>1. /\ PointsType /\ ReadingType /\ SendingType /\ BoundingType /\ HistoryType
      /\ InWrite /\ InFlush /\ WaitingWriterIsSeen
      /\ Writing /\ SilentIsZero /\ AttemptsAreRead /\ SentIsHeard
  BY StationTypes DEF Hearing
<1>2. Writing'
  BY <1>1 DEF Writing, FrameOf, MoreBits, InWrite, InFlush, PointsType,
     SendingType, GiveUp, FrameSent
<1>3. SilentIsZero'
  BY <1>1 DEF SilentIsZero, InWrite, PointsType, ReadingType, SendingType,
     NewReader, GiveUp, FrameSent
<1>4. AttemptsAreRead'
  BY <1>1 DEF AttemptsAreRead, InWrite, InFlush, FrameOf, Addressed,
     PointsType, ReadingType,
     SendingType, HistoryType, GiveUp, FrameSent
<1>5. SentIsHeard'
  BY <1>1 DEF SentIsHeard, AttemptsAreRead, ReadingType, HistoryType, GiveUp,
     FrameSent
<1>6. QED  BY <1>2, <1>3, <1>4, <1>5 DEF Hearing

\* A frame leaves the buffer.
LEMMA ReadHearing ==
    ASSUME Inv, Hearing, NEW s \in Stations, Read(s)
    PROVE  Hearing'
<1> USE DEF bounding, points, reading, sending
<1>1. /\ PointsType /\ ReadingType /\ SendingType /\ BoundingType /\ HistoryType
      /\ InWrite /\ InFlush /\ WaitingWriterIsSeen
      /\ Writing /\ SilentIsZero /\ AttemptsAreRead /\ SentIsHeard
  BY StationTypes DEF Hearing
<1>2. Writing'
  BY <1>1 DEF Writing, FrameOf, MoreBits, InWrite, InFlush, PointsType,
     SendingType, Read
<1>3. SilentIsZero'
  BY <1>1 DEF SilentIsZero, InWrite, PointsType, ReadingType, SendingType,
     NewReader, Read
<1>4. AttemptsAreRead'
  BY <1>1 DEF AttemptsAreRead, InWrite, InFlush, FrameOf, Addressed,
     PointsType, ReadingType,
     SendingType, HistoryType, Read
<1>5. SentIsHeard'
  BY <1>1 DEF SentIsHeard, AttemptsAreRead, ReadingType, HistoryType, Read
<1>6. QED  BY <1>2, <1>3, <1>4, <1>5 DEF Hearing

\* A station reconnects.
LEMMA ReconnectHearing ==
    ASSUME Inv, Hearing, NEW s \in Stations, Reconnect(s)
    PROVE  Hearing'
<1> USE DEF bounding, points, reading, sending
<1>1. /\ PointsType /\ ReadingType /\ SendingType /\ BoundingType /\ HistoryType
      /\ InWrite /\ InFlush /\ WaitingWriterIsSeen
      /\ Writing /\ SilentIsZero /\ AttemptsAreRead /\ SentIsHeard
  BY StationTypes DEF Hearing
<1>2. Writing'
  BY <1>1 DEF Writing, FrameOf, MoreBits, InWrite, InFlush, PointsType,
     SendingType, Reconnect, ForgetReceived
<1>3. SilentIsZero'
  BY <1>1 DEF SilentIsZero, InWrite, PointsType, ReadingType, SendingType,
     NewReader, Reconnect, ForgetReceived
<1>4. AttemptsAreRead'
  BY <1>1 DEF AttemptsAreRead, InWrite, InFlush, FrameOf, Addressed,
     PointsType, ReadingType,
     SendingType, HistoryType, Reconnect, ForgetReceived
<1>5. SentIsHeard'
  BY <1>1 DEF SentIsHeard, AttemptsAreRead, ReadingType, HistoryType,
     Reconnect, ForgetReceived
<1>6. QED  BY <1>2, <1>3, <1>4, <1>5 DEF Hearing

\* A station leaves.
LEMMA DetachHearing ==
    ASSUME Inv, Hearing, NEW s \in Stations, Detach(s)
    PROVE  Hearing'
<1> USE DEF bounding, points, reading, sending
<1>1. /\ PointsType /\ ReadingType /\ SendingType /\ BoundingType /\ HistoryType
      /\ InWrite /\ InFlush /\ WaitingWriterIsSeen
      /\ Writing /\ SilentIsZero /\ AttemptsAreRead /\ SentIsHeard
  BY StationTypes DEF Hearing
<1>2. Writing'
  BY <1>1 DEF Writing, FrameOf, MoreBits, InWrite, InFlush, PointsType,
     SendingType, Detach, ForgetReceived
<1>3. SilentIsZero'
  BY <1>1 DEF SilentIsZero, InWrite, PointsType, ReadingType, SendingType,
     NewReader, Detach, ForgetReceived
<1>4. AttemptsAreRead'
  BY <1>1 DEF AttemptsAreRead, InWrite, InFlush, FrameOf, Addressed,
     PointsType, ReadingType,
     SendingType, HistoryType, Detach, ForgetReceived
<1>5. SentIsHeard'
  BY <1>1 DEF SentIsHeard, AttemptsAreRead, ReadingType, HistoryType, Detach,
     ForgetReceived
<1>6. QED  BY <1>2, <1>3, <1>4, <1>5 DEF Hearing

\* A station comes.
LEMMA AttachHearing ==
    ASSUME Inv, Hearing, NEW s \in Stations, Attach(s)
    PROVE  Hearing'
<1> USE DEF bounding, points, reading, sending
<1>1. /\ PointsType /\ ReadingType /\ SendingType /\ BoundingType /\ HistoryType
      /\ InWrite /\ InFlush /\ WaitingWriterIsSeen
      /\ Writing /\ SilentIsZero /\ AttemptsAreRead /\ SentIsHeard
  BY StationTypes DEF Hearing
<1>2. Writing'
  BY <1>1 DEF Writing, FrameOf, MoreBits, InWrite, InFlush, PointsType,
     SendingType, Attach
<1>3. SilentIsZero'
  BY <1>1 DEF SilentIsZero, InWrite, PointsType, ReadingType, SendingType,
     NewReader, Attach
<1>4. AttemptsAreRead'
  <2>1. /\ pc' = pc /\ pos' = pos /\ successful' = successful /\ todo' = todo
        /\ owed' = owed /\ got' = got /\ hearers' = hearers
        /\ attached' = attached \cup {s} /\ s \notin attached
        /\ collision' = [collision EXCEPT ![s] = TRUE]
        /\ reader' = [reader EXCEPT ![s] = NewReader]
    BY DEF Attach
  <2>2. \A t \in Stations : collision'[t] \/ collision'[t] = collision[t]
    BY <1>1, <2>1 DEF PointsType
  <2>3. \A r \in attached : reader'[r] = reader[r]
    BY <1>1, <2>1 DEF PointsType, ReadingType
  <2>4. \A t \in Stations : /\ FrameOf(t)' = FrameOf(t)
                            /\ \A r \in Stations : Addressed(t, r)' <=> Addressed(t, r)
    BY <2>1 DEF FrameOf, Addressed
  <2>5. \A t \in Stations : hearers[t] \subseteq Stations
    BY <1>1 DEF HistoryType
  <2>6. QED  BY <1>1, <2>1, <2>2, <2>3, <2>4, <2>5 DEF AttemptsAreRead
<1>5. SentIsHeard'
  BY <1>1 DEF SentIsHeard, AttemptsAreRead, ReadingType, HistoryType, Attach
<1>6. QED  BY <1>2, <1>3, <1>4, <1>5 DEF Hearing

\* A reader keeps the bit that it has read.
LEMMA LastIsRead ==
    ASSUME NEW rd \in Reader, NEW bit \in Bit
    PROVE  ReadBit(rd, bit).reader.last = bit
<1> DEFINE r == [rd EXCEPT !.buffer = Append(@, bit), !.last = bit]
<1>1. r \in Reader /\ r.last = bit
  BY AppendedIsReader DEF Reader
<1>2. ReadBit(rd, bit) =
        IF rd.last = bit
        THEN [reader |-> [r EXCEPT !.ones = @ + bit], complete |-> NoFrame]
        ELSE analyseBitChange(r, bit)
  BY DEF ReadBit
<1> HIDE DEF r
<1>3. [r EXCEPT !.ones = @ + bit].last = bit
  BY <1>1 DEF Reader
<1>4. analyseBitChange(r, bit).reader.last = bit
  <2>0. r.ones \in Nat
    BY <1>1 DEF Reader
  <2>1. CASE bit = 1
    <3>1. analyseBitChange(r, bit).reader = [r EXCEPT !.ones = 1]
      BY <2>1 DEF analyseBitChange
    <3>2. QED  BY <1>1, <3>1 DEF Reader
  <2>2. CASE bit = 0 /\ r.ones = 5
    <3>1. ~ (r.ones < 5) /\ ~ (r.ones >= 6) /\ ~ EndsWithMarker(r) /\ bit # 1
      BY <2>2 DEF EndsWithMarker
    <3>2. analyseBitChange(r, bit).reader = [r EXCEPT !.buffer = WithoutLast(@, 1)]
      BY <2>2, <3>1 DEF analyseBitChange
    <3>3. QED  BY <1>1, <3>2 DEF Reader
  <2>3. CASE bit = 0 /\ r.ones < 5
    <3>1. r.ones # 5 /\ ~ (r.ones >= 6) /\ ~ EndsWithMarker(r) /\ bit # 1
      BY <2>0, <2>3 DEF EndsWithMarker
    <3>2. analyseBitChange(r, bit).reader = r
      BY <2>3, <3>1 DEF analyseBitChange
    <3>3. QED  BY <1>1, <3>2
  <2>4. CASE bit = 0 /\ r.ones >= 6 /\ EndsWithMarker(r)
    <3>1. ~ (r.ones < 5) /\ r.ones # 5 /\ bit # 1
      BY <2>0, <2>4
    <3>2. analyseBitChange(r, bit) = markerFoundAction(r)
      BY <2>4, <3>1 DEF analyseBitChange
    <3>3. markerFoundAction(r).reader = [r EXCEPT !.state = "Read", !.buffer = << >>]
      BY DEF markerFoundAction
    <3>4. QED  BY <1>1, <3>2, <3>3 DEF Reader
  <2>5. CASE bit = 0 /\ r.ones >= 6 /\ ~ EndsWithMarker(r)
    <3>1. ~ (r.ones < 5) /\ r.ones # 5 /\ bit # 1
      BY <2>0, <2>5
    <3>2. analyseBitChange(r, bit).reader = [r EXCEPT !.state = "Search"]
      BY <2>5, <3>1 DEF analyseBitChange
    <3>3. QED  BY <1>1, <3>2 DEF Reader
  <2>6. r.ones < 5 \/ r.ones = 5 \/ r.ones >= 6
    BY <2>0
  <2>7. QED  BY <2>1, <2>2, <2>3, <2>4, <2>5, <2>6 DEF Bit
<1>5. QED  BY <1>2, <1>3, <1>4

\* One frame has those bits.
LEMMA OnlyFrame ==
    ASSUME NEW s \in Stations, NEW a \in Addresses, NEW r \in Stations,
           a \in {r, Broadcast}
    PROVE  Accepted(r, FrameBits[<<s, a>>]) = {<<s, a>>}
<1> DEFINE frame == FrameBits[<<s, a>>]
<1>1. <<s, a>> \in Accepted(r, frame)
  BY DEF Accepted
<1>2. ASSUME NEW f \in Accepted(r, frame)
      PROVE  f = <<s, a>>
  <2>1. f \in Stations \X Addresses /\ FrameBits[f] = FrameBits[<<s, a>>]
    BY <1>2 DEF Accepted
  <2>2. <<s, a>> \in Stations \X Addresses
    OBVIOUS
  <2>3. QED  BY <2>1, <2>2, FrameAssumption
<1>3. QED  BY <1>1, <1>2

\* What the readers have stored after a bit.
LEMMA DeliverStores ==
    ASSUME ReadingType, NEW bit \in Bit, Deliver(bit)
    PROVE  /\ \A r \in attached \cap Stations : reader'[r] = ReadBit(reader[r], bit).reader
           /\ \A r, s \in Stations : got[r][s] <= got'[r][s]
           /\ \A r \in attached \cap Stations, s \in Stations : \A a \in {r, Broadcast} :
                 /\ a \in Addresses
                 /\ ReadBit(reader[r], bit).complete = FrameBits[<<s, a>>]
                 => got'[r][s] = got[r][s] + 1
<1> DEFINE step == [s \in Stations |-> ReadBit(reader[s], bit)]
           saved(s) == Accepted(s, step[s].complete)
           Source(s) == (CHOOSE f \in saved(s) : TRUE)[1]
<1>1. /\ reader' = [s \in Stations |->
                      IF s \in attached THEN step[s].reader ELSE reader[s]]
      /\ got' = [s \in Stations |->
                   IF s \in attached /\ saved(s) # {}
                   THEN [got[s] EXCEPT ![Source(s)] = @ + 1] ELSE got[s]]
  BY DEF Deliver
<1>2. \A r \in attached \cap Stations : reader'[r] = ReadBit(reader[r], bit).reader
  BY <1>1
<1>3. ASSUME NEW r \in attached \cap Stations, NEW s \in Stations, NEW a \in {r, Broadcast},
             a \in Addresses, ReadBit(reader[r], bit).complete = FrameBits[<<s, a>>]
      PROVE  got'[r][s] = got[r][s] + 1
  <2>1. saved(r) = {<<s, a>>}
    BY <1>3, OnlyFrame
  <2>2. Source(r) = s /\ saved(r) # {}
    <3> HIDE DEF saved
    <3>1. (CHOOSE f \in saved(r) : TRUE) \in saved(r)
      BY <2>1
    <3>2. (CHOOSE f \in saved(r) : TRUE) = <<s, a>>
      BY <2>1, <3>1
    <3>3. QED  BY <2>1, <3>2
  <2> HIDE DEF saved, Source
  <2>3. got'[r] = [got[r] EXCEPT ![s] = @ + 1] /\ got[r] \in [Stations -> Nat]
    BY <1>1, <2>2 DEF ReadingType
  <2>4. QED  BY <2>3
<1> HIDE DEF saved, Source
<1>4. ASSUME NEW r \in Stations, NEW s \in Stations
      PROVE  got[r][s] <= got'[r][s]
  <2>1. got[r] \in [Stations -> Nat]
    BY DEF ReadingType
  <2>2. got'[r] = got[r] \/ got'[r] = [got[r] EXCEPT ![Source(r)] = @ + 1]
    BY <1>1
  <2>3. QED  BY <2>1, <2>2
<1>5. QED  BY <1>2, <1>3, <1>4

\* A writer that met nobody is the only one, and its bit is what is heard.
LEMMA AloneOnTheCable ==
    ASSUME Inv, NEW s \in Writers, ~ (Cardinality(Writers) > 1)
    PROVE  Writers = {s} /\ SumOfBits = bufferOut[s]
<1>1. Writers \subseteq Stations /\ bufferOut[s] \in Bit
  BY StationTypes DEF PointsType, Writers
<1>2. IsFiniteSet(Writers)
  BY <1>1, StationsAssumption, FS_Subset
<1>3. Cardinality(Writers) \in Nat /\ Cardinality(Writers) # 0
  BY <1>2, FS_CardinalityType, FS_EmptySet
<1>4. Cardinality(Writers) = 1
  BY <1>3
<1>5. \E x : Writers = {x}
  BY <1>2, <1>4, FS_Singleton
<1>6. Writers = {s}
  BY <1>5
<1>7. QED  BY <1>1, <1>6 DEF SumOfBits, Bit

\* What is sent begins and ends with a zero.
LEMMA WireEnds ==
    ASSUME NEW s \in Stations, Inv, Writing, pc[s] # "idle"
    PROVE  /\ Head(todo[s]) \in Addresses
           /\ FrameOf(s) \in Seq(Bit)
           /\ wire[s] = OnWire(FrameOf(s))
           /\ Len(wire[s]) \in Nat
           /\ wire[s][Len(wire[s])] = 0
<1>1. todo[s] \in Seq(Addresses) /\ todo[s] # << >>
  BY StationTypes DEF SendingType, InWrite
<1>2. Head(todo[s]) \in Addresses
  BY <1>1, HeadTailProperties
<1>3. FrameOf(s) \in Seq(Bit)
  BY <1>2, FrameAssumption DEF FrameOf
<1>4. wire[s] = OnWire(FrameOf(s))
  BY DEF Writing
<1> DEFINE bits == FrameOf(s)
           L == Len(Stuffed(bits))
<1>5. /\ L \in Nat /\ Len(OnWire(bits)) = 16 + L
      /\ OnWire(bits)[8 + L + 8] = Marker[8]
  BY <1>3, WireBits
<1>6. 8 + L + 8 = 16 + L
  BY <1>5
<1>7. QED  BY <1>2, <1>3, <1>4, <1>5, <1>6, MarkerBits

\* A cycle in which nobody is late and no bit is damaged: every writer that has
\* more bits has put the next one.
LEMMA UndisturbedCycle ==
    ASSUME Inv, Writing, Undisturbed, Cycle
    PROVE  LET prompt == {s \in Writers : MoreBits(s)}
               collided == Cardinality(Writers) > 1
           IN  /\ \A s \in Stations : pc[s] # "returned"
               /\ UNCHANGED <<scenario, attached, todo, wire, owed, tries>>
               /\ collision' = [s \in Stations |->
                                  IF s \in Writers THEN collided ELSE collision[s]]
               /\ successful' = [s \in Stations |->
                                   successful[s] /\ ~ (s \in prompt /\ collided)]
               /\ pos' = [s \in Stations |->
                            IF s \in prompt THEN pos[s] + 1 ELSE pos[s]]
               /\ bufferOut' = [s \in Stations |->
                                  IF s \in prompt THEN wire[s][pos[s] + 1]
                                                  ELSE bufferOut[s]]
               /\ pc' = [s \in Stations |-> IF s \in Writers \ prompt THEN "returned"
                                                                     ELSE pc[s]]
               /\ \/ Writers = {} /\ UNCHANGED <<reader, got, hearers>>
                  \/ Writers # {} /\ Deliver(SumOfBits) /\ UNCHANGED hearers
<1> USE DEF points, reading
<1>1. BoundingType /\ HistoryType /\ WaitingWriterIsSeen /\ InWrite /\ PointsType
  BY StationTypes
<1> DEFINE continuing == {s \in Writers : MoreBits(s)}
           collided == Cardinality(Writers) > 1
<1>2. PICK prompt \in SUBSET continuing :
            /\ \A s \in continuing \ prompt : late[s] < scenario.late
            /\ processCycle(prompt)
  BY DEF Cycle
<1>3. Writers \subseteq Stations
  BY <1>1 DEF Writers, PointsType
<1>4. \A s \in Stations : ~ (late[s] < scenario.late)
  <2>1. \A s \in Stations : late[s] \in 0 .. 0
    BY <1>1 DEF BoundingType, Undisturbed
  <2>2. QED  BY <2>1 DEF Undisturbed
<1>5. prompt = continuing
  BY <1>2, <1>3, <1>4
<1>6. /\ \A s \in Stations : pc[s] # "returned"
      /\ UNCHANGED <<scenario, attached, todo, wire, owed, tries>>
      /\ collision' = [s \in Stations |->
                         IF s \in Writers THEN collided ELSE collision[s]]
      /\ successful' = [s \in Stations |->
                          successful[s] /\ ~ (s \in prompt /\ collided)]
      /\ pos' = [s \in Stations |-> IF s \in prompt THEN pos[s] + 1 ELSE pos[s]]
      /\ bufferOut' = [s \in Stations |-> IF s \in prompt THEN wire[s][pos[s] + 1]
                                                          ELSE bufferOut[s]]
      /\ pc' = [s \in Stations |-> IF s \in Writers \ prompt THEN "returned"
                                                             ELSE pc[s]]
  BY <1>2, <1>4 DEF processCycle
<1>7. \/ Writers = {} /\ UNCHANGED <<reader, got, hearers>>
      \/ Writers # {} /\ Deliver(SumOfBits) /\ UNCHANGED hearers
  <2>1. CASE Writers = {}
    BY <1>2, <2>1 DEF processCycle
  <2>2. CASE Writers # {}
    <3>1. PICK flip \in {0, 1} :
             /\ flips + flip <= scenario.flips
             /\ Deliver((SumOfBits + flip) % 2)
             /\ hearers' = [s \in Stations |->
                              IF flip = 1 /\ pc[s] \in {"blocked", "returned"}
                              THEN {} ELSE hearers[s]]
      BY <1>2, <2>2 DEF processCycle, Transfer
    <3>2. flips \in 0 .. 0 /\ scenario.flips = 0
      BY <1>1 DEF BoundingType, Undisturbed
    <3>3. flip = 0
      BY <3>1, <3>2
    <3>4. (SumOfBits + 0) % 2 = SumOfBits
      BY DEF SumOfBits
    <3>5. hearers' = hearers
      BY <1>1, <3>1, <3>3 DEF HistoryType
    <3>6. QED  BY <2>2, <3>1, <3>3, <3>4, <3>5
  <2>3. QED  BY <2>1, <2>2
<1>8. QED  BY <1>5, <1>6, <1>7

\* The next bit, or the end of an attempt.
LEMMA CycleHearing ==
    ASSUME Inv, Hearing, Undisturbed, Cycle
    PROVE  Hearing'
<1> USE DEF points, reading
<1>1. /\ PointsType /\ ReadingType /\ SendingType /\ BoundingType /\ HistoryType
      /\ InWrite /\ InFlush /\ WaitingWriterIsSeen
      /\ Writing /\ SilentIsZero /\ AttemptsAreRead /\ SentIsHeard
  BY StationTypes DEF Hearing
<1>2. /\ Writers \subseteq attached
      /\ \A s \in Stations : s \in Writers <=> pc[s] = "blocked"
      /\ attached \subseteq Stations
  BY <1>1 DEF Writers, WaitingWriterIsSeen, InWrite, PointsType
<1> DEFINE prompt == {s \in Writers : MoreBits(s)}
           collided == Cardinality(Writers) > 1
<1>3. /\ \A s \in Stations : pc[s] # "returned"
      /\ scenario' = scenario /\ attached' = attached /\ todo' = todo
      /\ wire' = wire /\ owed' = owed
      /\ collision' = [s \in Stations |->
                         IF s \in Writers THEN collided ELSE collision[s]]
      /\ successful' = [s \in Stations |->
                          successful[s] /\ ~ (s \in prompt /\ collided)]
      /\ pos' = [s \in Stations |-> IF s \in prompt THEN pos[s] + 1 ELSE pos[s]]
      /\ bufferOut' = [s \in Stations |-> IF s \in prompt THEN wire[s][pos[s] + 1]
                                                          ELSE bufferOut[s]]
      /\ pc' = [s \in Stations |-> IF s \in Writers \ prompt THEN "returned"
                                                             ELSE pc[s]]
  BY <1>1, UndisturbedCycle
<1>4. \/ Writers = {} /\ UNCHANGED <<reader, got, hearers>>
      \/ Writers # {} /\ Deliver(SumOfBits) /\ UNCHANGED hearers
  BY <1>1, UndisturbedCycle
<1>5. SumOfBits \in Bit
  BY DEF SumOfBits, Bit
<1>6. \A s \in Stations :
         /\ s \in prompt <=> s \in Writers /\ pos[s] < Len(wire[s])
         /\ pos[s] \in Nat \ {0} /\ Len(wire[s]) \in Nat
  BY <1>1, LenProperties DEF MoreBits, SendingType
<1> HIDE DEF prompt, collided
<1>7. \A s \in Writers : s \in Stations /\ pos[s] <= Len(wire[s])
                          /\ bufferOut[s] = wire[s][pos[s]]
  BY <1>1, <1>2 DEF InFlush, Writing
<1>8. Writing'
  BY <1>1, <1>2, <1>3, <1>6, <1>7 DEF Writing, FrameOf, MoreBits
<1>9. SilentIsZero'
  <2> SUFFICES ASSUME NEW r \in attached, reader'[r].last = 1
               PROVE  \E t \in Stations : pc'[t] = "blocked" /\ pos'[t] > 1
    BY <1>3 DEF SilentIsZero
  <2>1. CASE Writers = {}
    <3>1. PICK t \in Stations : pc[t] = "blocked" /\ pos[t] > 1
      BY <1>1, <1>4, <2>1 DEF SilentIsZero
    <3>2. QED  BY <1>2, <2>1, <3>1
  <2>2. CASE Writers # {}
    <3>1. reader'[r].last = SumOfBits
      <4>1. reader[r] \in Reader /\ r \in attached \cap Stations
        BY <1>1, <1>2 DEF ReadingType
      <4>2. reader'[r] = ReadBit(reader[r], SumOfBits).reader
        BY <1>1, <1>4, <1>5, <2>2, <4>1, DeliverStores
      <4>3. QED  BY <1>5, <4>1, <4>2, LastIsRead
    <3>2. PICK t \in Writers : bufferOut[t] = 1
      BY <3>1 DEF SumOfBits
    <3>3. t \in Stations /\ pc[t] = "blocked" /\ wire[t][pos[t]] = 1
      BY <1>2, <1>7, <3>2
    <3>4. wire[t][Len(wire[t])] = 0
      BY <1>1, <3>3, WireEnds
    <3>5. pos[t] < Len(wire[t])
      <4>1. pos[t] # Len(wire[t])
        BY <3>3, <3>4
      <4>2. QED  BY <1>6, <1>7, <3>3, <4>1
    <3>6. t \in prompt
      BY <1>6, <3>3, <3>5
    <3>7. pc'[t] = "blocked" /\ pos'[t] > 1
      BY <1>3, <1>6, <3>3, <3>6
    <3>8. QED  BY <3>3, <3>7
  <2>3. QED  BY <2>1, <2>2
\* The bit of a writer that nobody disturbs is read by its hearers.
<1>10. ASSUME NEW s \in Writers, NEW r \in hearers[s], successful[s], ~ collided
       PROVE  /\ r \in attached \cap Stations /\ reader[r] \in Reader
              /\ Deliver(wire[s][pos[s]])
              /\ wire[s][pos[s]] \in Bit
              /\ HasRead(reader[r], FrameOf(s), pos[s] - 1)
  <2>1. Writers = {s} /\ SumOfBits = wire[s][pos[s]] /\ s \in Stations
    BY <1>7, <1>10, AloneOnTheCable DEF collided
  <2>2. r \in attached \cap Stations /\ reader[r] \in Reader
    BY <1>1, <1>2, <2>1 DEF AttemptsAreRead, ReadingType
  <2>3. Deliver(wire[s][pos[s]]) /\ wire[s][pos[s]] \in Bit
    BY <1>4, <1>5, <2>1
  <2>4. CASE pos[s] > 1
    BY <1>1, <1>2, <1>10, <2>1, <2>2, <2>3, <2>4 DEF AttemptsAreRead
  <2>5. CASE ~ (pos[s] > 1)
    <3>1. pos[s] - 1 = 0
      BY <1>6, <2>1, <2>5
    <3>2. \A t \in Stations : ~ (pc[t] = "blocked" /\ pos[t] > 1)
      BY <1>2, <2>1, <2>5
    <3>3. reader[r].last # 1
      BY <1>1, <2>2, <3>2 DEF SilentIsZero
    <3>4. reader[r].last = 0
      BY <2>2, <3>3 DEF Reader, Bit
    <3>5. HasRead(reader[r], FrameOf(s), pos[s] - 1)
      BY <3>1, <3>4 DEF HasRead
    <3>6. QED  BY <2>2, <2>3, <3>5
  <2>6. QED  BY <2>2, <2>3, <2>4, <2>5
<1>11. ASSUME NEW s \in Stations, NEW r \in hearers[s],
              pc'[s] = "blocked", successful'[s]
       PROVE  HasRead(reader'[r], FrameOf(s), pos'[s] - 1)
  <2>1. s \in Writers /\ s \in prompt
    BY <1>2, <1>3, <1>11
  <2>2. successful[s] /\ ~ collided
    BY <1>3, <1>11, <2>1
  <2>3. /\ r \in attached \cap Stations /\ reader[r] \in Reader
        /\ Deliver(wire[s][pos[s]]) /\ wire[s][pos[s]] \in Bit
        /\ HasRead(reader[r], FrameOf(s), pos[s] - 1)
    BY <1>10, <2>1, <2>2
  <2>4. reader'[r] = ReadBit(reader[r], wire[s][pos[s]]).reader
    BY <1>1, <2>3, DeliverStores
  <2>5. FrameOf(s) \in Seq(Bit) /\ wire[s] = OnWire(FrameOf(s))
    BY <1>1, <1>2, <2>1, WireEnds
  <2> DEFINE k == pos[s] - 1
  <2>6. k \in Nat /\ k + 1 = pos[s] /\ k + 1 < Len(OnWire(FrameOf(s)))
        /\ pos'[s] - 1 = k + 1
    BY <1>3, <1>6, <2>1, <2>5
  <2>7. HasRead(reader[r], FrameOf(s), k)
    BY <2>3
  <2> HIDE DEF k
  <2>8. HasRead(ReadBit(reader[r], OnWire(FrameOf(s))[k + 1]).reader, FrameOf(s), k + 1)
    BY <2>3, <2>5, <2>6, <2>7, ReadGoesOn
  <2>9. QED  BY <2>4, <2>5, <2>6, <2>8
<1>12. ASSUME NEW s \in Stations, NEW r \in hearers[s],
              pc'[s] = "returned", successful'[s], ~ collision'[s], Addressed(s, r)
       PROVE  owed[r][s] + 1 <= got'[r][s]
  <2>1. s \in Writers /\ s \notin prompt
    BY <1>3, <1>12
  <2>2. successful[s] /\ ~ collided
    BY <1>3, <1>12, <2>1
  <2>3. /\ r \in attached \cap Stations /\ reader[r] \in Reader
        /\ Deliver(wire[s][pos[s]]) /\ wire[s][pos[s]] \in Bit
        /\ HasRead(reader[r], FrameOf(s), pos[s] - 1)
    BY <1>10, <2>1, <2>2
  <2>4. /\ FrameOf(s) \in Seq(Bit) /\ wire[s] = OnWire(FrameOf(s))
        /\ Head(todo[s]) \in Addresses
    BY <1>1, <1>2, <2>1, WireEnds
  <2> DEFINE k == pos[s] - 1
  <2>5. k \in Nat /\ k + 1 = pos[s] /\ k + 1 = Len(OnWire(FrameOf(s)))
    BY <1>6, <1>7, <2>1, <2>4
  <2>6. HasRead(reader[r], FrameOf(s), k)
    BY <2>3
  <2> HIDE DEF k
  <2>7. ReadBit(reader[r], OnWire(FrameOf(s))[k + 1]).complete = FrameOf(s)
    BY <2>3, <2>4, <2>5, <2>6, ReadEnds
  <2>8. ReadBit(reader[r], wire[s][pos[s]]).complete = FrameBits[<<s, Head(todo[s])>>]
    BY <2>4, <2>5, <2>7 DEF FrameOf
  <2>9. Head(todo[s]) \in {r, Broadcast}
    BY <1>12 DEF Addressed
  <2>10. got'[r][s] = got[r][s] + 1
    BY <1>1, <2>3, <2>4, <2>8, <2>9, DeliverStores
  <2>11. owed[r][s] <= got[r][s] /\ owed[r][s] \in Nat /\ got[r][s] \in Nat
    BY <1>1, <2>3 DEF SentIsHeard, HistoryType, ReadingType
  <2>12. QED  BY <2>10, <2>11
<1>13. AttemptsAreRead'
  <2> SUFFICES ASSUME NEW s \in Stations, NEW r \in hearers'[s]
               PROVE  /\ r \in attached'
                      /\ pc'[s] = "blocked" /\ pos'[s] > 1 /\ successful'[s] =>
                            HasRead(reader'[r], FrameOf(s)', pos'[s] - 1)
                      /\ pc'[s] = "returned" /\ successful'[s] /\ ~ collision'[s]
                            /\ Addressed(s, r)' =>
                            owed'[r][s] + 1 <= got'[r][s]
    BY DEF AttemptsAreRead
  <2>1. r \in hearers[s]
    BY <1>4
  <2>2. r \in attached'
    BY <1>1, <1>3, <2>1 DEF AttemptsAreRead
  <2>3. FrameOf(s)' = FrameOf(s) /\ (Addressed(s, r)' <=> Addressed(s, r))
    BY <1>3 DEF FrameOf, Addressed
  <2>4. QED  BY <1>3, <1>11, <1>12, <2>1, <2>2, <2>3
<1>14. SentIsHeard'
  <2> SUFFICES ASSUME NEW r \in Stations, NEW s \in Stations
               PROVE  owed[r][s] <= got'[r][s]
    BY <1>3 DEF SentIsHeard
  <2>1. got[r][s] <= got'[r][s]
    <3>1. CASE Writers = {}
      BY <1>1, <1>4, <3>1 DEF ReadingType
    <3>2. CASE Writers # {}
      BY <1>1, <1>4, <1>5, <3>2, DeliverStores
    <3>3. QED  BY <3>1, <3>2
  <2>2. ReadingType'
    BY CycleInv, TypeParts DEF Inv
  <2>3. owed[r][s] <= got[r][s] /\ owed[r][s] \in Nat /\ got[r][s] \in Nat
        /\ got'[r][s] \in Nat
    BY <1>1, <2>2 DEF SentIsHeard, HistoryType, ReadingType
  <2>4. QED  BY <2>1, <2>3
<1>15. QED  BY <1>8, <1>9, <1>13, <1>14 DEF Hearing

\* The bounds of a behaviour do not change.
LEMMA NextKeepsScenario ==
    ASSUME [Next]_vars
    PROVE  scenario' = scenario
<1>1. ASSUME NEW s \in Stations,
             \/ StartWrite(s) \/ Sense(s) \/ WriteFirstBit(s) \/ WriteNextBit(s)
             \/ FlushSucceeded(s) \/ FlushCollided(s) \/ GiveUp(s)
             \/ Read(s) \/ Reconnect(s) \/ Detach(s) \/ Attach(s)
      PROVE  scenario' = scenario
  BY <1>1 DEF StartWrite, Sense, WriteFirstBit, WriteNextBit, FlushSucceeded,
     FlushCollided, GiveUp, Read, Reconnect, Detach, Attach, ForgetReceived, bounding
<1>2. CASE Cycle
  BY <1>2 DEF Cycle, processCycle
<1>3. QED  BY <1>1, <1>2 DEF Next, vars, bounding

\* Every step of an undisturbed behaviour.
LEMMA NextHearing ==
    ASSUME Inv, Undisturbed, Hearing, [Next]_vars
    PROVE  Hearing'
<1>1. ASSUME NEW s \in Stations,
             \/ StartWrite(s) \/ Sense(s) \/ WriteFirstBit(s) \/ WriteNextBit(s)
             \/ FlushSucceeded(s) \/ FlushCollided(s) \/ GiveUp(s)
             \/ Read(s) \/ Reconnect(s) \/ Detach(s) \/ Attach(s)
      PROVE  Hearing'
  <2>1. ~ WriteNextBit(s)
    BY DEF Hearing, Writing, WriteNextBit
  <2>2. Hearing'
    BY <1>1, <2>1, StartWriteHearing, SenseHearing, WriteFirstBitHearing,
       FlushSucceededHearing, FlushCollidedHearing, GiveUpHearing, ReadHearing,
       ReconnectHearing, DetachHearing, AttachHearing
  <2>3. QED  BY <2>2
<1>2. CASE Cycle
  BY <1>2, CycleHearing
<1>3. CASE UNCHANGED vars
  <2>1. Writing' /\ SilentIsZero'
    BY <1>3 DEF Hearing, Writing, SilentIsZero, FrameOf, MoreBits, vars,
       points, reading,
       sending
  <2>2. AttemptsAreRead' /\ SentIsHeard'
    BY <1>3 DEF Hearing, AttemptsAreRead, SentIsHeard, FrameOf, Addressed,
       vars, points,
       reading, sending
  <2>3. QED  BY <2>1, <2>2 DEF Hearing
<1>4. QED  BY <1>1, <1>2, <1>3 DEF Next

\* A frame for which sendFrame returned true was stored by every station that it
\* is addressed to and that was there from its first bit on, whatever collisions,
\* repetitions, other writers and stations that come and go there are, if no bit
\* is damaged and every writer has its next bit ready (flushBytes, MACReader).
THEOREM SentFramesAreHeard == Spec => [](Undisturbed => SentIsHeard)
<1>1. Init => (Undisturbed => Hearing)
  BY InitHearing
<1>2. Inv /\ (Undisturbed => Hearing) /\ [Next]_vars => (Undisturbed' => Hearing')
  <2> SUFFICES ASSUME Inv, Undisturbed => Hearing, [Next]_vars, Undisturbed'
               PROVE  Hearing'
    OBVIOUS
  <2>1. Undisturbed
    BY NextKeepsScenario DEF Undisturbed
  <2>2. QED  BY <2>1, NextHearing
<1>3. (Undisturbed => Hearing) => (Undisturbed => SentIsHeard)
  BY DEF Hearing
<1>4. QED  BY <1>1, <1>2, <1>3, Invariance, PTL DEF Spec

-----------------------------------------------------------------------------
(***************************************************************************)
(* A frame is stored at most once for each attempt, if the stations are    *)
(* never on the cable together. A reader that has followed the attempt     *)
(* from its first bit has nothing left over from an earlier one, and finds *)
(* the frame at the last bit and nowhere else; one that came in the middle *)
(* is searching, and counts at most as many ones as such a reader.         *)
(***************************************************************************)

\* Nobody else writes. Collided bits can by chance be those of a frame.
Alone == \A s, t \in Writers : s = t

\* The cable is silent, and the reader has nothing of a frame.
Quiet(rd) == rd.last = 0 /\ (rd.state = "Search" \/ rd.buffer = << >>)

\* The reader was quiet, and has then read k bits.
Follows(rd, bits, k) ==
    /\ HasRead(rd, bits, k)
    /\ k <= 7 => rd.state = "Search" \/ Len(rd.buffer) = k

\* The reader came after the first bit: another one has read all k bits.
CameLate(rd, bits, k) ==
    /\ k # 0 /\ rd.state = "Search"
    /\ k <= 7 => Len(rd.buffer) < k
    /\ \E early \in Reader :
          /\ HasRead(early, bits, k)
          /\ rd.last = 1 => early.last = 1 /\ rd.ones <= early.ones

\* A reader hands nothing on before the last zero of a marker.
LEMMA ReadNoFrame ==
    ASSUME NEW rd \in Reader, NEW bit \in Bit,
           rd.last = bit \/ bit = 1 \/ rd.ones < 6
    PROVE  ReadBit(rd, bit).complete = NoFrame
<1> DEFINE r == [rd EXCEPT !.buffer = Append(@, bit), !.last = bit]
<1>1. r.ones = rd.ones /\ rd.ones \in Nat
  BY DEF Reader
<1>2. ReadBit(rd, bit).complete =
        IF rd.last = bit THEN NoFrame ELSE analyseBitChange(r, bit).complete
  BY DEF ReadBit
<1> HIDE DEF r
<1>3. CASE bit = 1
  BY <1>2, <1>3 DEF analyseBitChange
<1>4. CASE bit = 0 /\ rd.ones = 5
  <2>1. ~ (r.ones < 5) /\ ~ (r.ones >= 6) /\ ~ EndsWithMarker(r) /\ bit # 1 /\ r.ones = 5
    BY <1>1, <1>4 DEF EndsWithMarker
  <2>2. QED  BY <1>2, <1>4, <2>1 DEF analyseBitChange
<1>5. CASE bit = 0 /\ rd.ones < 5
  <2>1. r.ones # 5 /\ ~ (r.ones >= 6) /\ ~ EndsWithMarker(r) /\ bit # 1 /\ r.ones < 5
    BY <1>1, <1>5 DEF EndsWithMarker
  <2>2. QED  BY <1>2, <1>5, <2>1 DEF analyseBitChange
<1>6. CASE rd.last = bit
  BY <1>2, <1>6
<1>7. rd.ones < 6 => rd.ones = 5 \/ rd.ones < 5
  BY <1>1
<1>8. QED  BY <1>3, <1>4, <1>5, <1>6, <1>7 DEF Bit

\* One that searches hands nothing on at all, and has nothing of a frame even
\* when it finds a marker.
LEMMA ReadSearching ==
    ASSUME NEW rd \in Reader, NEW bit \in Bit, rd.state = "Search"
    PROVE  LET out == ReadBit(rd, bit)
           IN  /\ out.complete = NoFrame
               /\ out.reader.state = "Search" \/ out.reader.buffer = << >>
               /\ rd.last = 1 /\ bit = 0 /\ rd.ones >= 6 /\ Len(rd.buffer) < 7 =>
                     out.reader.state = "Search" /\ Len(out.reader.buffer) = Len(rd.buffer) + 1
<1> DEFINE r == [rd EXCEPT !.buffer = Append(@, bit), !.last = bit]
           out == ReadBit(rd, bit)
<1>1. r \in Reader /\ r.ones = rd.ones /\ rd.ones \in Nat /\ r.state = "Search"
      /\ r.buffer = Append(rd.buffer, bit)
  BY AppendedIsReader DEF Reader
<1>2. out = IF rd.last = bit
            THEN [reader |-> [r EXCEPT !.ones = @ + bit], complete |-> NoFrame]
            ELSE analyseBitChange(r, bit)
  BY DEF ReadBit
<1>3. Len(r.buffer) = Len(rd.buffer) + 1 /\ Len(rd.buffer) \in Nat
  BY <1>1, AppendProperties, LenProperties DEF Reader
<1> HIDE DEF r, out
<1>4. CASE rd.last = bit
  <2>1. out.complete = NoFrame
    BY <1>4, ReadNoFrame DEF out
  <2>2. out.reader.state = "Search"
    BY <1>4, ReadSame DEF out
  <2>3. ~ (rd.last = 1 /\ bit = 0)
    BY <1>4
  <2>4. QED  BY <2>1, <2>2, <2>3 DEF out
<1>5. CASE rd.last # bit /\ (bit = 1 \/ rd.ones < 6)
  <2>1. out.complete = NoFrame
    BY <1>5, ReadNoFrame DEF out
  <2>2. out.reader.state = "Search"
    <3>1. CASE bit = 1
      <4>1. rd.last = 0
        BY <1>5, <3>1 DEF Reader, Bit
      <4>2. QED  BY <3>1, <4>1, ReadOne DEF out
    <3>2. CASE bit = 0 /\ rd.ones < 5
      <4>1. rd.last = 1
        BY <1>5, <3>2 DEF Reader, Bit
      <4>2. QED  BY <3>2, <4>1, ReadZero DEF out
    <3>3. CASE bit = 0 /\ rd.ones = 5
      <4>1. rd.last = 1
        BY <1>5, <3>3 DEF Reader, Bit
      <4>2. QED  BY <3>3, <4>1, ReadStuffing DEF out
    <3>4. rd.ones < 6 => rd.ones < 5 \/ rd.ones = 5
      BY <1>1
    <3>5. QED  BY <1>5, <3>1, <3>2, <3>3, <3>4 DEF Bit
  <2>3. bit = 0 => ~ (rd.ones >= 6)
    BY <1>1, <1>5
  <2>4. QED  BY <2>1, <2>2, <2>3 DEF out
<1>6. CASE rd.last # bit /\ bit = 0 /\ rd.ones >= 6
  <2>1. ~ (r.ones < 5) /\ r.ones # 5 /\ bit # 1 /\ r.ones >= 6 /\ bit = 0
    BY <1>1, <1>6
  <2>2. CASE EndsWithMarker(r)
    <3>1. out = markerFoundAction(r)
      BY <1>2, <1>6, <2>1, <2>2 DEF analyseBitChange
    <3>2. out.complete = NoFrame /\ out.reader.buffer = << >>
      BY <1>1, <3>1 DEF markerFoundAction, Reader
    <3>3. ~ (Len(rd.buffer) < 7)
      BY <1>3, <2>2 DEF EndsWithMarker
    <3>4. QED  BY <3>2, <3>3 DEF out
  <2>3. CASE ~ EndsWithMarker(r)
    <3>1. out = [reader |-> [r EXCEPT !.state = "Search"], complete |-> NoFrame]
      BY <1>2, <1>6, <2>1, <2>3 DEF analyseBitChange
    <3>2. out.complete = NoFrame /\ out.reader.state = "Search"
          /\ out.reader.buffer = r.buffer
      BY <1>1, <3>1 DEF Reader
    <3>3. QED  BY <1>3, <3>2 DEF out
  <2>4. QED  BY <2>2, <2>3
<1>7. bit = 1 \/ rd.ones < 6 \/ (bit = 0 /\ rd.ones >= 6)
  BY <1>1 DEF Bit
<1>8. QED  BY <1>4, <1>5, <1>6, <1>7

\* Before the last bit of the cable no reader of all of it ends a marker, but for
\* the opening one.
LEMMA OnesBelowSix ==
    ASSUME NEW rd \in Reader, NEW bits \in Seq(Bit), NEW k \in Nat,
           k + 1 < Len(OnWire(bits)), k # 7, HasRead(rd, bits, k), rd.last = 1
    PROVE  rd.ones < 6 \/ OnWire(bits)[k + 1] = 1
<1>0. Len(bits) \in Nat /\ Len(Stuffed(bits)) \in Nat
      /\ k + 1 < 16 + Len(Stuffed(bits))
  BY WireBits, LenProperties
<1>1. CASE k \in 1 .. 7 /\ InMarker(rd, k)
  BY <1>1 DEF InMarker
<1>2. CASE \E i \in 0 .. Len(bits) : AfterBit(rd, bits, i, k)
  <2>1. PICK i \in 0 .. Len(bits) : AfterBit(rd, bits, i, k)
    BY <1>2
  <2>2. Written(bits)[i].ones \in 0 .. 4
    BY WrittenType DEF WrittenSoFar
  <2>3. QED  BY <2>1, <2>2 DEF AfterBit
<1>3. CASE \E i \in 0 .. Len(bits) - 1 : BeforeStuffing(rd, bits, i, k)
  BY <1>3 DEF BeforeStuffing
<1>4. CASE \E j \in 1 .. 7 :
              /\ k = 8 + Len(Stuffed(bits)) + j
              /\ InMarker(rd, j)
              /\ Collected(rd, bits, Len(bits), j)
  <2>1. PICK j \in 1 .. 7 : k = 8 + Len(Stuffed(bits)) + j
    BY <1>4
  <2>2. j + 1 \in 1 .. 8 /\ j + 1 \in 2 .. 7 /\ k + 1 = 8 + Len(Stuffed(bits)) + (j + 1)
    BY <1>0, <2>1
  <2>3. OnWire(bits)[8 + Len(Stuffed(bits)) + (j + 1)] = Marker[j + 1]
    BY <2>2, WireBits
  <2>4. QED  BY <2>2, <2>3, MarkerBits
<1>5. QED  BY <1>1, <1>2, <1>3, <1>4 DEF HasRead

\* The next bit on the cable is a bit.
LEMMA NextBit ==
    ASSUME NEW bits \in Seq(Bit), NEW k \in Nat, k + 1 <= Len(OnWire(bits))
    PROVE  OnWire(bits)[k + 1] \in Bit
<1>1. OnWire(bits) \in Seq(Bit) /\ Len(OnWire(bits)) \in Nat
  BY WireBits, LenProperties
<1>2. k + 1 \in 1 .. Len(OnWire(bits))
  BY <1>1
<1>3. QED  BY <1>1, <1>2, ElementOfSeq

\* The opening marker is not any other part of what is on the cable.
LEMMA HasReadOpening ==
    ASSUME NEW rd, NEW bits \in Seq(Bit), NEW k \in 0 .. 7, HasRead(rd, bits, k)
    PROVE  IF k = 0 THEN rd.last = 0 ELSE InMarker(rd, k)
<1>0. Len(Stuffed(bits)) \in Nat /\ Len(bits) \in Nat
  BY WireBits, LenProperties
<1>1. \A i \in 0 .. Len(bits) : Len(Written(bits)[i].bits) \in Nat
  BY WrittenGrows, LenProperties
<1>2. \A i \in 0 .. Len(bits) - 1 : i \in 0 .. Len(bits)
  BY <1>0
<1>3. ~ \E i \in 0 .. Len(bits) : AfterBit(rd, bits, i, k)
  BY <1>1 DEF AfterBit
<1>4. ~ \E i \in 0 .. Len(bits) - 1 : BeforeStuffing(rd, bits, i, k)
  BY <1>1, <1>2 DEF BeforeStuffing
<1>5. ~ \E j \in 1 .. 7 : k = 8 + Len(Stuffed(bits)) + j
  BY <1>0
<1>6. QED  BY <1>3, <1>4, <1>5 DEF HasRead

\* A reader that came late goes on to count no more ones than the early one.
LEMMA LateGoesOn ==
    ASSUME NEW rd \in Reader, NEW bits \in Seq(Bit), NEW k \in Nat,
           k + 1 < Len(OnWire(bits)), CameLate(rd, bits, k)
    PROVE  CameLate(ReadBit(rd, OnWire(bits)[k + 1]).reader, bits, k + 1)
<1> DEFINE bit == OnWire(bits)[k + 1]
           out == ReadBit(rd, bit).reader
<1>0. k + 1 <= Len(OnWire(bits))
  BY WireBits
<1>1. bit \in Bit
  BY <1>0, NextBit
<1>2. PICK early \in Reader :
         /\ HasRead(early, bits, k)
         /\ rd.last = 1 => early.last = 1 /\ rd.ones <= early.ones
  BY DEF CameLate
<1> DEFINE next == ReadBit(early, bit).reader
<1>3. next \in Reader /\ HasRead(next, bits, k + 1)
  BY <1>1, <1>2, ReadBitType, ReadGoesOn
<1>4. /\ rd.state = "Search" /\ k # 0 /\ (k <= 7 => Len(rd.buffer) < k)
      /\ rd.ones \in Nat /\ early.ones \in Nat
      /\ rd.last \in Bit /\ early.last \in Bit /\ rd.buffer \in Seq(Bit)
      /\ Len(rd.buffer) \in Nat
  BY LenProperties DEF CameLate, Reader
<1>5. Len(Append(rd.buffer, bit)) = Len(rd.buffer) + 1
  BY <1>1, <1>4, AppendProperties
<1> HIDE DEF out, next, bit
<1>6. /\ out.state = "Search"
      /\ Len(out.buffer) <= Len(rd.buffer) + 1 /\ Len(out.buffer) \in Nat
      /\ out.last = 1 => next.last = 1 /\ out.ones <= next.ones
  <2>1. CASE bit = 1
    <3>1. next.last = 1 /\ next.ones = (IF early.last = 1 THEN early.ones + 1 ELSE 1)
      <4>1. CASE early.last = 1
        BY <1>1, <2>1, <4>1, ReadSame DEF next
      <4>2. CASE early.last = 0
        BY <2>1, <4>2, ReadOne DEF next
      <4>3. QED  BY <1>4, <4>1, <4>2 DEF Bit
    <3>2. /\ out.state = "Search" /\ out.buffer = Append(rd.buffer, bit)
          /\ out.ones = (IF rd.last = 1 THEN rd.ones + 1 ELSE 1)
      <4>1. CASE rd.last = 1
        BY <1>1, <1>4, <2>1, <4>1, ReadSame DEF out
      <4>2. CASE rd.last = 0
        BY <1>4, <2>1, <4>2, ReadOne DEF out
      <4>3. QED  BY <1>4, <4>1, <4>2 DEF Bit
    <3>3. out.ones <= next.ones
      BY <1>2, <1>4, <3>1, <3>2
    <3>4. QED  BY <1>4, <1>5, <3>1, <3>2, <3>3
  <2>2. CASE bit = 0
    <3>1. out.last = 0
      BY <1>1, <2>2, LastIsRead DEF out
    <3>2. CASE rd.last = 0
      <4>1. out.state = "Search" /\ out.buffer = Append(rd.buffer, bit)
        BY <1>1, <1>4, <2>2, <3>2, ReadSame DEF out
      <4>2. QED  BY <1>4, <1>5, <3>1, <4>1
    <3>3. CASE rd.last = 1 /\ rd.ones < 5
      <4>1. out.state = "Search" /\ out.buffer = Append(rd.buffer, bit)
        BY <1>4, <2>2, <3>3, ReadZero DEF out
      <4>2. QED  BY <1>4, <1>5, <3>1, <4>1
    <3>4. CASE rd.last = 1 /\ rd.ones = 5
      <4>1. out.state = "Search" /\ out.buffer = rd.buffer
        BY <1>4, <2>2, <3>4, ReadStuffing DEF out
      <4>2. QED  BY <1>4, <3>1, <4>1
    <3>5. CASE rd.last = 1 /\ rd.ones >= 6
      <4>1. early.last = 1 /\ ~ (early.ones < 6)
        BY <1>2, <1>4, <3>5
      <4>2. k = 7
        BY <1>2, <2>2, <4>1, OnesBelowSix DEF bit
      <4>3. Len(rd.buffer) < 7
        BY <1>4, <4>2
      <4>4. out.state = "Search" /\ Len(out.buffer) = Len(rd.buffer) + 1
        BY <1>1, <1>4, <2>2, <3>5, <4>3, ReadSearching DEF out
      <4>5. QED  BY <1>4, <3>1, <4>4
    <3>6. rd.ones < 5 \/ rd.ones = 5 \/ rd.ones >= 6
      BY <1>4
    <3>7. QED  BY <1>4, <3>2, <3>3, <3>4, <3>5, <3>6 DEF Bit
  <2>3. QED  BY <1>1, <2>1, <2>2 DEF Bit
<1>7. k + 1 # 0 /\ (k + 1 <= 7 => Len(out.buffer) < k + 1)
  BY <1>4, <1>6
<1>8. CameLate(out, bits, k + 1)
  BY <1>3, <1>6, <1>7 DEF CameLate
<1>9. QED  BY <1>8 DEF out, bit

\* A reader that follows an attempt hands nothing on before its last bit.
LEMMA FollowsGoesOn ==
    ASSUME NEW rd \in Reader, NEW bits \in Seq(Bit), NEW k \in Nat,
           k + 1 < Len(OnWire(bits)), Follows(rd, bits, k)
    PROVE  /\ Follows(ReadBit(rd, OnWire(bits)[k + 1]).reader, bits, k + 1)
           /\ ReadBit(rd, OnWire(bits)[k + 1]).complete = NoFrame
<1> DEFINE bit == OnWire(bits)[k + 1]
           out == ReadBit(rd, bit)
<1>0. k + 1 <= Len(OnWire(bits))
  BY WireBits
<1>1. bit \in Bit
  BY <1>0, NextBit
<1>2. HasRead(rd, bits, k) /\ HasRead(out.reader, bits, k + 1)
  BY ReadGoesOn DEF Follows
<1>3. /\ rd.last \in Bit /\ rd.ones \in Nat /\ rd.state \in {"Search", "Read"}
      /\ rd.buffer \in Seq(Bit) /\ Len(rd.buffer) \in Nat
  BY LenProperties DEF Reader
<1>4. Len(Append(rd.buffer, bit)) = Len(rd.buffer) + 1
  BY <1>1, <1>3, AppendProperties
<1>5. k <= 7 => bit = Marker[k + 1]
  <2>1. k <= 7 => k + 1 \in 1 .. 8
    OBVIOUS
  <2>2. QED  BY <2>1, WireBits
<1> HIDE DEF bit, out
<1>6. out.complete = NoFrame
  <2>1. CASE k # 7
    <3>1. rd.last = bit \/ bit = 1 \/ rd.ones < 6
      BY <1>1, <1>2, <1>3, <2>1, OnesBelowSix DEF Bit, bit
    <3>2. QED  BY <1>1, <3>1, ReadNoFrame DEF out
  <2>2. CASE k = 7 /\ rd.state = "Search"
    BY <1>1, <2>2, ReadSearching DEF out
  <2>3. CASE k = 7 /\ rd.state = "Read"
    <3>1. bit = 0 /\ Len(rd.buffer) = 7
      BY <1>5, <2>3, MarkerBits DEF Follows
    <3>2. InMarker(rd, 7)
      BY <1>2, <2>3, HasReadOpening
    <3>3. rd.last = 1 /\ rd.ones = 6 /\ rd.buffer[Len(rd.buffer) - 6] = 0
      BY <3>1, <3>2 DEF InMarker
    <3>4. out.complete \in Seq(Bit) /\ Len(out.complete) = 0
      <4>1. Len(rd.buffer) >= 7 /\ Len(rd.buffer) - 7 = 0
        BY <3>1
      <4>2. LET frame == ReadBit(rd, 0).complete
            IN  frame \in Seq(Bit) /\ Len(frame) = Len(rd.buffer) - 7
        BY <2>3, <3>3, <4>1, ReadMarker
      <4>3. out.complete = ReadBit(rd, 0).complete
        BY <3>1 DEF out
      <4>4. QED  BY <4>1, <4>2, <4>3
    <3>5. QED  BY <3>4, EmptySeq DEF NoFrame
  <2>4. QED  BY <1>3, <2>1, <2>2, <2>3
<1>7. ASSUME k + 1 <= 7
      PROVE  out.reader.state = rd.state /\ Len(out.reader.buffer) = Len(rd.buffer) + 1
  <2>1. out.reader.state = rd.state /\ out.reader.buffer = Append(rd.buffer, bit)
    <3>1. CASE k = 0
      <4>1. bit = 0 /\ rd.last = 0
        BY <1>2, <1>5, <3>1, HasReadOpening, MarkerBits
      <4>2. QED  BY <1>1, <4>1, ReadSame DEF out
    <3>2. CASE k # 0
      <4>1. k \in 1 .. 6 /\ k + 1 \in 2 .. 7
        BY <1>7, <3>2
      <4>2. bit = 1 /\ InMarker(rd, k)
        BY <1>2, <1>5, <4>1, HasReadOpening, MarkerBits
      <4>3. QED  BY <4>1, <4>2, ReadInMarker DEF out
    <3>3. QED  BY <3>1, <3>2
  <2>2. QED  BY <1>4, <2>1
<1>8. Follows(out.reader, bits, k + 1)
  BY <1>2, <1>3, <1>7 DEF Follows
<1>9. QED  BY <1>6, <1>8 DEF out, bit

\* With the last bit it has the frame, and is quiet again.
LEMMA FollowsEnds ==
    ASSUME NEW rd \in Reader, NEW bits \in Seq(Bit), NEW k \in Nat,
           k + 1 = Len(OnWire(bits)), Follows(rd, bits, k)
    PROVE  /\ ReadBit(rd, OnWire(bits)[k + 1]).complete = bits
           /\ Quiet(ReadBit(rd, OnWire(bits)[k + 1]).reader)
<1>1. HasRead(rd, bits, k)
  BY DEF Follows
<1>2. ReadBit(rd, OnWire(bits)[k + 1]).complete = bits
  BY <1>1, ReadEnds
<1>3. InMarker(rd, 7) /\ OnWire(bits)[k + 1] = 0
  BY <1>1, BeforeLastBit
<1>4. /\ rd.last = 1 /\ rd.ones = 6 /\ Len(rd.buffer) >= 7
      /\ rd.buffer[Len(rd.buffer) - 6] = 0
  BY <1>3 DEF InMarker
<1>5. Quiet(ReadBit(rd, 0).reader)
  BY <1>4, ReadMarker DEF Quiet
<1>6. QED  BY <1>2, <1>3, <1>5

\* One that came late has nothing, and is quiet too.
LEMMA LateEnds ==
    ASSUME NEW rd \in Reader, NEW bits \in Seq(Bit), NEW k \in Nat,
           k + 1 = Len(OnWire(bits)), CameLate(rd, bits, k)
    PROVE  /\ ReadBit(rd, OnWire(bits)[k + 1]).complete = NoFrame
           /\ Quiet(ReadBit(rd, OnWire(bits)[k + 1]).reader)
<1>1. OnWire(bits)[k + 1] = 0
  BY BeforeLastBit DEF CameLate
<1>2. ReadBit(rd, 0).reader.last = 0
  BY LastIsRead DEF Bit
<1>3. /\ ReadBit(rd, 0).complete = NoFrame
      /\ ReadBit(rd, 0).reader.state = "Search" \/ ReadBit(rd, 0).reader.buffer = << >>
  BY ReadSearching DEF CameLate, Bit
<1>4. QED  BY <1>1, <1>2, <1>3 DEF Quiet

\* Of everything on the cable there is a reader that has read it.
LEMMA EarlyReader ==
    ASSUME NEW bits \in Seq(Bit), NEW k \in Nat, k < Len(OnWire(bits))
    PROVE  \E early \in Reader : HasRead(early, bits, k)
<1> DEFINE S == {n \in Nat : n < Len(OnWire(bits)) =>
                               \E early \in Reader : HasRead(early, bits, n)}
<1>0. Len(OnWire(bits)) \in Nat
  BY OnWireType
<1>1. 0 \in S
  <2>1. HasRead(NewReader, bits, 0)
    BY DEF HasRead, NewReader
  <2>2. QED  BY <2>1, NewReaderType
<1>2. ASSUME NEW n \in Nat, n \in S
      PROVE  n + 1 \in S
  <2> SUFFICES ASSUME n + 1 < Len(OnWire(bits))
               PROVE  \E early \in Reader : HasRead(early, bits, n + 1)
    OBVIOUS
  <2>1. n < Len(OnWire(bits)) /\ n + 1 <= Len(OnWire(bits))
    BY <1>0
  <2>2. PICK early \in Reader : HasRead(early, bits, n)
    BY <1>2, <2>1
  <2>3. ReadBit(early, OnWire(bits)[n + 1]).reader \in Reader
    BY <2>1, NextBit, ReadBitType
  <2>4. HasRead(ReadBit(early, OnWire(bits)[n + 1]).reader, bits, n + 1)
    BY <2>2, ReadGoesOn
  <2>5. QED  BY <2>3, <2>4
<1> HIDE DEF S
<1>3. \A n \in Nat : n \in S
  BY <1>1, <1>2, EveryNumber
<1>4. QED  BY <1>3 DEF S

\* A station that comes, at the first bit or in the middle of an attempt.
LEMMA NewReaderComes ==
    ASSUME NEW bits \in Seq(Bit), NEW k \in Nat, k < Len(OnWire(bits))
    PROVE  Follows(NewReader, bits, k) \/ CameLate(NewReader, bits, k)
<1>1. /\ NewReader.last = 0 /\ NewReader.state = "Search"
      /\ Len(NewReader.buffer) = 0
  BY DEF NewReader
<1>2. CASE k = 0
  BY <1>1, <1>2 DEF Follows, HasRead
<1>3. CASE k # 0
  <2>1. \E early \in Reader : HasRead(early, bits, k)
    BY EarlyReader
  <2>2. QED  BY <1>1, <1>3, <2>1 DEF CameLate
<1>4. QED  BY <1>2, <1>3

-----------------------------------------------------------------------------
\* An attempt that is on the cable has not been stored yet.
Counted ==
    \A r, s \in Stations :
        got[r][s] + (IF pc[s] = "blocked" THEN 1 ELSE 0) <= tries[r][s]

\* A station that has left has nothing stored.
Absent == \A r \in Stations \ attached : \A s \in Stations : got[r][s] = 0

\* Every reader is quiet, or with the attempt that is on the cable.
ReadersKeepUp ==
    \A r \in attached :
        /\ (\A s \in Stations : pc[s] # "blocked") => Quiet(reader[r])
        /\ \A s \in Stations : pc[s] = "blocked" =>
              \/ Follows(reader[r], FrameOf(s), pos[s] - 1)
              \/ CameLate(reader[r], FrameOf(s), pos[s] - 1)

Storing == Counted /\ Absent /\ ReadersKeepUp

\* At first everybody is quiet.
LEMMA InitStoring == Init => Storing
BY DEF Init, Storing, Counted, Absent, ReadersKeepUp, Quiet, NewReader, PerPair

\* A step in which no bit is moved and nobody comes, goes or begins an attempt.
LEMMA NoBitStoring ==
    ASSUME Storing, UNCHANGED <<attached, reader, got, tries>>,
           \A s \in Stations :
              /\ pc'[s] = "blocked" <=> pc[s] = "blocked"
              /\ pc[s] = "blocked" => pos'[s] = pos[s] /\ FrameOf(s)' = FrameOf(s)
    PROVE  Storing'
<1>1. Counted'
  BY DEF Storing, Counted
<1>2. Absent'
  BY DEF Storing, Absent
<1>3. ReadersKeepUp'
  <2> SUFFICES ASSUME NEW r \in attached
               PROVE  /\ (\A s \in Stations : pc'[s] # "blocked") => Quiet(reader[r])
                      /\ \A s \in Stations : pc'[s] = "blocked" =>
                            \/ Follows(reader[r], FrameOf(s)', pos'[s] - 1)
                            \/ CameLate(reader[r], FrameOf(s)', pos'[s] - 1)
    BY DEF ReadersKeepUp
  <2>1. /\ (\A s \in Stations : pc[s] # "blocked") => Quiet(reader[r])
        /\ \A s \in Stations : pc[s] = "blocked" =>
              \/ Follows(reader[r], FrameOf(s), pos[s] - 1)
              \/ CameLate(reader[r], FrameOf(s), pos[s] - 1)
    BY DEF Storing, ReadersKeepUp
  <2>2. QED  BY <2>1
<1>4. QED  BY <1>1, <1>2, <1>3 DEF Storing

\* Most steps of a call of write and of a reading station are such steps.
LEMMA CallStoring ==
    ASSUME Inv, Storing, NEW s \in Stations,
           \/ StartWrite(s) \/ Sense(s) \/ FlushSucceeded(s) \/ FlushCollided(s)
           \/ GiveUp(s) \/ Read(s)
    PROVE  Storing'
<1> USE DEF bounding, points, reading, sending
<1>1. SendingType
  BY StationTypes
<1>2. UNCHANGED <<attached, reader, got, tries>>
  BY DEF StartWrite, Sense, FlushSucceeded, FlushCollided, GiveUp, Read
<1>3. ASSUME NEW t \in Stations
      PROVE  /\ pc'[t] = "blocked" <=> pc[t] = "blocked"
             /\ pc[t] = "blocked" => pos'[t] = pos[t] /\ todo'[t] = todo[t]
  BY <1>1 DEF StartWrite, Sense, FlushSucceeded, FlushCollided, GiveUp, Read,
     FrameSent, SendingType
<1>4. \A t \in Stations : todo'[t] = todo[t] => FrameOf(t)' = FrameOf(t)
  BY DEF FrameOf
<1>5. QED  BY <1>2, <1>3, <1>4, NoBitStoring

\* An attempt begins, alone: the readers are quiet.
LEMMA WriteFirstBitStoring ==
    ASSUME Inv, Inv', Storing, Alone', NEW s \in Stations, WriteFirstBit(s)
    PROVE  Storing'
<1>1. /\ PointsType /\ ReadingType /\ SendingType /\ HistoryType
      /\ InWrite /\ InFlush
      /\ Counted /\ Absent /\ ReadersKeepUp
  BY StationTypes DEF Storing
<1>2. /\ pc[s] = "put" /\ pc' = [pc EXCEPT ![s] = "blocked"]
      /\ pos' = pos /\ todo' = todo /\ UNCHANGED <<attached, reader, got>>
      /\ tries' = [r \in Stations |-> [tries[r] EXCEPT ![s] = @ + 1]]
      /\ pos[s] = 1
  BY <1>1 DEF WriteFirstBit, PutBit, reading, InFlush
<1>3. pc'[s] = "blocked" /\ \A t \in Stations : t # s => pc'[t] = pc[t]
  BY <1>1, <1>2 DEF SendingType
<1>4. \A t \in Stations : pc'[t] = "blocked" => t = s
  <2>1. InWrite' /\ WaitingWriterIsSeen'
    BY DEF Inv
  <2>2. \A t \in Stations : pc'[t] = "blocked" => t \in Writers'
    BY <2>1 DEF InWrite, WaitingWriterIsSeen, Writers
  <2>3. QED  BY <1>3, <2>2 DEF Alone
<1>5. \A t \in Stations : pc[t] # "blocked"
  BY <1>2, <1>3, <1>4
<1>6. Counted'
  <2> SUFFICES ASSUME NEW r \in Stations, NEW t \in Stations
               PROVE  got[r][t] + (IF pc'[t] = "blocked" THEN 1 ELSE 0) <= tries'[r][t]
    BY <1>2 DEF Counted
  <2>1. got[r][t] <= tries[r][t] /\ got[r][t] \in Nat /\ tries[r][t] \in Nat
    <3>1. got[r][t] \in Nat /\ tries[r][t] \in Nat
      BY <1>1 DEF ReadingType, HistoryType
    <3>2. got[r][t] + (IF pc[t] = "blocked" THEN 1 ELSE 0) <= tries[r][t]
      BY <1>1 DEF Counted
    <3>3. pc[t] # "blocked"
      BY <1>5
    <3>4. QED  BY <3>1, <3>2, <3>3
  <2>2. tries'[r][t] = IF t = s THEN tries[r][t] + 1 ELSE tries[r][t]
    BY <1>1, <1>2 DEF HistoryType
  <2>3. QED  BY <1>4, <2>1, <2>2
<1>7. Absent'
  BY <1>1, <1>2 DEF Absent
<1>8. ReadersKeepUp'
  <2> SUFFICES ASSUME NEW r \in attached, NEW t \in Stations, pc'[t] = "blocked"
               PROVE  Follows(reader[r], FrameOf(t)', pos'[t] - 1)
    BY <1>2, <1>3 DEF ReadersKeepUp
  <2>1. Quiet(reader[r])
    BY <1>1, <1>5 DEF ReadersKeepUp
  <2>2. reader[r].buffer = << >> => Len(reader[r].buffer) = 0
    OBVIOUS
  <2>3. t = s /\ pos'[t] - 1 = 0
    BY <1>2, <1>4
  <2>4. Follows(reader[r], FrameOf(t)', 0)
    BY <2>1, <2>2 DEF Follows, HasRead, Quiet
  <2>5. QED  BY <2>3, <2>4
<1>9. QED  BY <1>6, <1>7, <1>8 DEF Storing

\* A station begins to listen anew, or leaves: it counts the attempt that is on
\* the cable, which it cannot store.
LEMMA ResetStoring ==
    ASSUME Inv, Writing, Storing, NEW s \in Stations,
           UNCHANGED <<pc, pos, todo>>, reader' = [reader EXCEPT ![s] = NewReader],
           attached' \subseteq attached \cup {s}, attached \subseteq attached' \cup {s},
           \A r \in Stations : r # s => got'[r] = got[r] /\ tries'[r] = tries[r],
           \A t \in Stations :
              /\ got'[s][t] = 0
              /\ tries'[s][t] = IF pc[t] \in {"blocked", "returned"} THEN 1 ELSE 0
    PROVE  Storing'
<1>1. /\ PointsType /\ ReadingType /\ SendingType
      /\ InWrite /\ InFlush
      /\ Counted /\ Absent /\ ReadersKeepUp
  BY StationTypes DEF Storing
<1>2. Counted'
  <2> SUFFICES ASSUME NEW r \in Stations, NEW t \in Stations
               PROVE  got'[r][t] + (IF pc[t] = "blocked" THEN 1 ELSE 0) <= tries'[r][t]
    BY DEF Counted
  <2>1. CASE r = s
    BY <2>1
  <2>2. CASE r # s
    BY <1>1, <2>2 DEF Counted
  <2>3. QED  BY <2>1, <2>2
<1>3. Absent'
  <2> SUFFICES ASSUME NEW r \in Stations, r \notin attached', NEW t \in Stations
               PROVE  got'[r][t] = 0
    BY DEF Absent
  <2>1. CASE r = s
    BY <2>1
  <2>2. CASE r # s
    BY <1>1, <2>2 DEF Absent
  <2>3. QED  BY <2>1, <2>2
<1>4. ReadersKeepUp'
  <2> SUFFICES ASSUME NEW r \in attached'
               PROVE  /\ (\A t \in Stations : pc[t] # "blocked") => Quiet(reader'[r])
                      /\ \A t \in Stations : pc[t] = "blocked" =>
                            \/ Follows(reader'[r], FrameOf(t), pos[t] - 1)
                            \/ CameLate(reader'[r], FrameOf(t), pos[t] - 1)
    BY DEF ReadersKeepUp, FrameOf
  <2>1. CASE r # s
    <3>1. r \in attached /\ reader'[r] = reader[r]
      BY <1>1, <2>1 DEF PointsType, ReadingType
    <3>2. QED  BY <1>1, <3>1 DEF ReadersKeepUp
  <2>2. CASE r = s
    <3>1. reader'[r] = NewReader
      BY <1>1, <2>2 DEF ReadingType
    <3>2. Quiet(NewReader)
      BY DEF Quiet, NewReader
    <3>3. ASSUME NEW t \in Stations, pc[t] = "blocked"
          PROVE  \/ Follows(NewReader, FrameOf(t), pos[t] - 1)
                 \/ CameLate(NewReader, FrameOf(t), pos[t] - 1)
      <4>1. FrameOf(t) \in Seq(Bit) /\ wire[t] = OnWire(FrameOf(t))
            /\ Len(wire[t]) \in Nat
        BY <3>3, WireEnds
      <4>2. pos[t] \in Nat \ {0} /\ pos[t] <= Len(wire[t])
        BY <1>1, <3>3 DEF SendingType, InFlush
      <4>3. pos[t] - 1 \in Nat /\ pos[t] - 1 < Len(OnWire(FrameOf(t)))
        BY <4>1, <4>2
      <4>4. QED  BY <4>1, <4>3, NewReaderComes
    <3>4. QED  BY <3>1, <3>2, <3>3
  <2>3. QED  BY <2>1, <2>2
<1>5. QED  BY <1>2, <1>3, <1>4 DEF Storing

\* A station reconnects, leaves or comes.
LEMMA ComingStoring ==
    ASSUME Inv, Writing, Storing, NEW s \in Stations,
           Reconnect(s) \/ Detach(s) \/ Attach(s)
    PROVE  Storing'
<1>1. PointsType /\ ReadingType /\ SendingType /\ HistoryType /\ Absent
  BY StationTypes DEF Storing
<1> DEFINE begun == [t \in Stations |-> IF pc[t] \in {"blocked", "returned"}
                                        THEN 1 ELSE 0]
<1>2. /\ UNCHANGED <<pc, pos, todo>> /\ reader' = [reader EXCEPT ![s] = NewReader]
      /\ attached' \subseteq attached \cup {s} /\ attached \subseteq attached' \cup {s}
      /\ tries' = [tries EXCEPT ![s] = begun]
      /\ \/ got' = [got EXCEPT ![s] = [t \in Stations |-> 0]]
         \/ got' = got /\ s \notin attached
  BY DEF Reconnect, Detach, Attach, ForgetReceived, sending
<1> HIDE DEF begun
<1>3. \A r \in Stations : r # s => got'[r] = got[r] /\ tries'[r] = tries[r]
  BY <1>1, <1>2 DEF ReadingType, HistoryType
<1>4. \A t \in Stations : got'[s][t] = 0
  BY <1>1, <1>2 DEF ReadingType, Absent
<1>5. tries'[s] = begun
  BY <1>1, <1>2 DEF HistoryType
<1>6. \A t \in Stations :
         tries'[s][t] = IF pc[t] \in {"blocked", "returned"} THEN 1 ELSE 0
  BY <1>5 DEF begun
<1>7. QED  BY <1>2, <1>3, <1>4, <1>6, ResetStoring

\* What the readers store of a frame, and of no frame.
LEMMA DeliverOnce ==
    ASSUME ReadingType, NEW bit \in Bit, Deliver(bit)
    PROVE  /\ \A r \in Stations \ attached : got'[r] = got[r]
           /\ \A r \in attached \cap Stations :
                 ReadBit(reader[r], bit).complete = NoFrame => got'[r] = got[r]
           /\ \A r \in attached \cap Stations, s \in Stations, a \in Addresses :
                 ReadBit(reader[r], bit).complete = FrameBits[<<s, a>>] =>
                 \A t \in Stations :
                    \/ got'[r][t] = got[r][t]
                    \/ t = s /\ got'[r][t] = got[r][t] + 1
<1> DEFINE step == [s \in Stations |-> ReadBit(reader[s], bit)]
           saved(s) == Accepted(s, step[s].complete)
           Source(s) == (CHOOSE f \in saved(s) : TRUE)[1]
<1>1. got' = [s \in Stations |->
                IF s \in attached /\ saved(s) # {}
                THEN [got[s] EXCEPT ![Source(s)] = @ + 1] ELSE got[s]]
  BY DEF Deliver
<1>2. ASSUME NEW r \in attached \cap Stations,
             ReadBit(reader[r], bit).complete = NoFrame
      PROVE  got'[r] = got[r]
  <2>1. saved(r) = {}
    BY <1>2, FrameAssumption DEF Accepted, NoFrame
  <2> HIDE DEF saved, Source
  <2>2. QED  BY <1>1, <2>1
<1>3. ASSUME NEW r \in attached \cap Stations, NEW s \in Stations, NEW a \in Addresses,
             ReadBit(reader[r], bit).complete = FrameBits[<<s, a>>],
             NEW t \in Stations
      PROVE  \/ got'[r][t] = got[r][t]
             \/ t = s /\ got'[r][t] = got[r][t] + 1
  <2>1. saved(r) \subseteq {<<s, a>>}
    <3>1. ASSUME NEW f \in saved(r)
          PROVE  f = <<s, a>>
      <4>1. f \in Stations \X Addresses /\ FrameBits[f] = FrameBits[<<s, a>>]
        BY <1>3, <3>1 DEF Accepted
      <4>2. <<s, a>> \in Stations \X Addresses
        OBVIOUS
      <4>3. QED  BY <4>1, <4>2, FrameAssumption
    <3>2. QED  BY <3>1
  <2>2. ASSUME saved(r) # {}
        PROVE  Source(r) = s
    <3> DEFINE first == CHOOSE f \in saved(r) : TRUE
    <3> HIDE DEF saved
    <3>1. first \in saved(r)
      BY <2>2
    <3>2. Source(r) = first[1]
      OBVIOUS
    <3> HIDE DEF first, Source
    <3>3. first = <<s, a>>
      BY <2>1, <3>1
    <3>4. QED  BY <3>2, <3>3
  <2> HIDE DEF saved, Source
  <2>3. got'[r] = got[r] \/ got'[r] = [got[r] EXCEPT ![s] = @ + 1]
    BY <1>1, <2>2
  <2>4. got[r] \in [Stations -> Nat]
    BY DEF ReadingType
  <2>5. CASE got'[r] = got[r]
    BY <2>5
  <2>6. CASE got'[r] = [got[r] EXCEPT ![s] = @ + 1]
    BY <2>4, <2>6
  <2>7. QED  BY <2>3, <2>5, <2>6
<1> HIDE DEF saved, Source
<1>4. \A r \in Stations \ attached : got'[r] = got[r]
  BY <1>1
<1>5. QED  BY <1>2, <1>3, <1>4

\* A cycle: the next bit of the only writer, or the last one.
LEMMA CycleStoring ==
    ASSUME Inv, Hearing, Undisturbed, Alone, Storing, Cycle
    PROVE  Storing'
<1>1. /\ PointsType /\ ReadingType /\ SendingType /\ HistoryType
      /\ InWrite /\ InFlush /\ WaitingWriterIsSeen /\ Writing
      /\ Counted /\ Absent /\ ReadersKeepUp
  BY StationTypes DEF Storing, Hearing
<1>2. /\ Writers \subseteq attached
      /\ \A s \in Stations : s \in Writers <=> pc[s] = "blocked"
      /\ attached \subseteq Stations
  BY <1>1 DEF Writers, WaitingWriterIsSeen, InWrite, PointsType
<1> DEFINE prompt == {s \in Writers : MoreBits(s)}
<1>3. /\ attached' = attached /\ todo' = todo /\ tries' = tries
      /\ pos' = [s \in Stations |-> IF s \in prompt THEN pos[s] + 1 ELSE pos[s]]
      /\ pc' = [s \in Stations |-> IF s \in Writers \ prompt THEN "returned"
                                                             ELSE pc[s]]
      /\ \/ Writers = {} /\ UNCHANGED <<reader, got, hearers>>
         \/ Writers # {} /\ Deliver(SumOfBits) /\ UNCHANGED hearers
  BY <1>1, UndisturbedCycle
<1>4. \A s \in Stations : FrameOf(s)' = FrameOf(s)
  BY <1>3 DEF FrameOf
<1>5. CASE Writers = {}
  <2>1. UNCHANGED <<attached, reader, got, tries>>
    BY <1>3, <1>5
  <2>2. \A s \in Stations : pc'[s] = pc[s] /\ pos'[s] = pos[s]
    BY <1>1, <1>3, <1>5 DEF SendingType
  <2>3. QED  BY <1>4, <2>1, <2>2, NoBitStoring
<1>6. ASSUME NEW s \in Writers
      PROVE  Storing'
  <2> DEFINE bits == FrameOf(s)
             k == pos[s] - 1
             bit == OnWire(bits)[k + 1]
  <2>1. Writers = {s} /\ s \in Stations /\ pc[s] = "blocked"
    BY <1>2 DEF Alone
  <2>2. /\ bits \in Seq(Bit) /\ wire[s] = OnWire(bits) /\ Len(wire[s]) \in Nat
        /\ Head(todo[s]) \in Addresses
    BY <1>1, <2>1, WireEnds
  <2>3. /\ pos[s] \in Nat \ {0} /\ k \in Nat /\ k + 1 = pos[s]
        /\ k + 1 <= Len(OnWire(bits))
        /\ MoreBits(s) <=> k + 1 < Len(OnWire(bits))
    BY <1>1, <2>1, <2>2 DEF SendingType, InFlush, MoreBits
  <2>4. bit \in Bit
    BY <2>2, <2>3, NextBit
  <2>5. SumOfBits = bit
    <3>1. bufferOut[s] = bit /\ bufferOut[s] \in Bit
      BY <1>1, <2>1, <2>2, <2>3 DEF Writing, PointsType
    <3>2. QED  BY <2>1, <3>1 DEF SumOfBits, Bit
  <2>6. Deliver(bit)
    BY <1>3, <2>1, <2>5
  <2>7. \A t \in Stations : t # s => pc'[t] # "blocked" /\ pc[t] # "blocked"
    BY <1>1, <1>2, <1>3, <2>1
  <2>8. ASSUME NEW r \in attached
        PROVE  /\ r \in attached \cap Stations /\ reader[r] \in Reader
               /\ Follows(reader[r], bits, k) \/ CameLate(reader[r], bits, k)
               /\ reader'[r] = ReadBit(reader[r], bit).reader
    <3>1. r \in attached \cap Stations /\ reader[r] \in Reader
      BY <1>1, <1>2 DEF ReadingType
    <3>2. Follows(reader[r], bits, k) \/ CameLate(reader[r], bits, k)
      BY <1>1, <2>1 DEF ReadersKeepUp
    <3>3. reader'[r] = ReadBit(reader[r], bit).reader
      BY <1>1, <2>4, <2>6, <3>1, DeliverStores
    <3>4. QED  BY <3>1, <3>2, <3>3
  <2>9. Absent'
    <3> SUFFICES ASSUME NEW r \in Stations \ attached, NEW t \in Stations
                 PROVE  got'[r][t] = 0
      BY <1>3 DEF Absent
    <3>1. got'[r] = got[r]
      BY <1>1, <2>4, <2>6, DeliverOnce
    <3>2. QED  BY <1>1, <3>1 DEF Absent
  <2> HIDE DEF bits, k, bit
  <2>10. CASE MoreBits(s)
    <3>1. /\ k + 1 < Len(OnWire(bits))
          /\ pc'[s] = "blocked" /\ pos'[s] = pos[s] + 1 /\ pos'[s] - 1 = k + 1
      BY <1>3, <2>1, <2>3, <2>10
    <3>2. ASSUME NEW r \in attached
          PROVE  /\ \/ Follows(reader'[r], bits, k + 1)
                    \/ CameLate(reader'[r], bits, k + 1)
                 /\ ReadBit(reader[r], bit).complete = NoFrame
      <4>1. CASE Follows(reader[r], bits, k)
        BY <2>2, <2>3, <2>8, <3>1, <4>1, FollowsGoesOn DEF bit
      <4>2. CASE CameLate(reader[r], bits, k)
        <5>1. CameLate(reader'[r], bits, k + 1)
          BY <2>2, <2>3, <2>8, <3>1, <4>2, LateGoesOn DEF bit
        <5>2. ReadBit(reader[r], bit).complete = NoFrame
          BY <2>4, <2>8, <4>2, ReadSearching DEF CameLate
        <5>3. QED  BY <5>1, <5>2
      <4>3. QED  BY <2>8, <4>1, <4>2
    <3>3. \A r \in Stations : got'[r] = got[r]
      BY <1>1, <2>4, <2>6, <2>8, <3>2, DeliverOnce
    <3>4. Counted'
      <4> SUFFICES ASSUME NEW r \in Stations, NEW t \in Stations
                   PROVE  got'[r][t] + (IF pc'[t] = "blocked" THEN 1 ELSE 0)
                            <= tries[r][t]
        BY <1>3 DEF Counted
      <4>1. pc'[t] = "blocked" <=> pc[t] = "blocked"
        BY <2>1, <2>7, <3>1
      <4>2. QED  BY <1>1, <3>3, <4>1 DEF Counted
    <3>5. ReadersKeepUp'
      <4> SUFFICES ASSUME NEW r \in attached, NEW t \in Stations, pc'[t] = "blocked"
                   PROVE  \/ Follows(reader'[r], FrameOf(t)', pos'[t] - 1)
                          \/ CameLate(reader'[r], FrameOf(t)', pos'[t] - 1)
        BY <1>3, <2>1, <3>1 DEF ReadersKeepUp
      <4>1. t = s
        BY <2>7
      <4>2. FrameOf(t)' = bits
        BY <1>4, <4>1 DEF bits
      <4>3. QED  BY <3>1, <3>2, <4>1, <4>2
    <3>6. QED  BY <2>9, <3>4, <3>5 DEF Storing
  <2>11. CASE ~ MoreBits(s)
    <3>1. k + 1 = Len(OnWire(bits)) /\ pc'[s] = "returned"
      BY <1>3, <2>1, <2>2, <2>3, <2>11
    <3>2. ASSUME NEW r \in attached
          PROVE  /\ Quiet(reader'[r])
                 /\ \/ ReadBit(reader[r], bit).complete = FrameBits[<<s, Head(todo[s])>>]
                    \/ ReadBit(reader[r], bit).complete = NoFrame
      <4>1. CASE Follows(reader[r], bits, k)
        <5>1. ReadBit(reader[r], bit).complete = bits /\ Quiet(reader'[r])
          BY <2>2, <2>3, <2>8, <3>1, <4>1, FollowsEnds DEF bit
        <5>2. QED  BY <5>1 DEF bits, FrameOf
      <4>2. CASE CameLate(reader[r], bits, k)
        BY <2>2, <2>3, <2>8, <3>1, <4>2, LateEnds DEF bit
      <4>3. QED  BY <2>8, <4>1, <4>2
    <3>3. ASSUME NEW r \in Stations, NEW t \in Stations
          PROVE  \/ got'[r][t] = got[r][t]
                 \/ t = s /\ got'[r][t] = got[r][t] + 1
      <4>1. CASE r \notin attached
        <5>1. got'[r] = got[r]
          BY <1>1, <2>4, <2>6, <4>1, DeliverOnce
        <5>2. QED  BY <5>1
      <4>2. CASE r \in attached /\ ReadBit(reader[r], bit).complete = NoFrame
        <5>1. got'[r] = got[r]
          BY <1>1, <2>4, <2>6, <4>2, DeliverOnce
        <5>2. QED  BY <5>1
      <4>3. CASE r \in attached
                 /\ ReadBit(reader[r], bit).complete = FrameBits[<<s, Head(todo[s])>>]
        BY <1>1, <2>1, <2>2, <2>4, <2>6, <4>3, DeliverOnce
      <4>4. QED  BY <3>2, <4>1, <4>2, <4>3
    <3>4. \A t \in Stations : pc'[t] # "blocked"
      BY <2>7, <3>1
    <3>5. Counted'
      <4> SUFFICES ASSUME NEW r \in Stations, NEW t \in Stations
                   PROVE  got'[r][t] + 0 <= tries[r][t]
        BY <1>3, <3>4 DEF Counted
      <4>1. /\ got[r][t] + (IF pc[t] = "blocked" THEN 1 ELSE 0) <= tries[r][t]
            /\ got[r][t] \in Nat /\ tries[r][t] \in Nat
        BY <1>1 DEF Counted, ReadingType, HistoryType
      <4>2. t = s => pc[t] = "blocked"
        BY <2>1
      <4>3. QED  BY <3>3, <4>1, <4>2
    <3>6. ReadersKeepUp'
      BY <1>3, <3>2, <3>4 DEF ReadersKeepUp
    <3>7. QED  BY <2>9, <3>5, <3>6 DEF Storing
  <2>12. QED  BY <2>10, <2>11
<1>7. QED  BY <1>5, <1>6

\* Every step of an undisturbed behaviour with one station on the cable at a time.
LEMMA NextStoring ==
    ASSUME Inv, Inv', Undisturbed, Hearing, Alone, Alone', Storing, [Next]_vars
    PROVE  Storing'
<1>1. Writing
  BY DEF Hearing
<1>2. ASSUME NEW s \in Stations,
             \/ StartWrite(s) \/ Sense(s) \/ FlushSucceeded(s) \/ FlushCollided(s)
             \/ GiveUp(s) \/ Read(s)
      PROVE  Storing'
  BY <1>2, CallStoring
<1>3. ASSUME NEW s \in Stations, WriteFirstBit(s)
      PROVE  Storing'
  BY <1>3, WriteFirstBitStoring
<1>4. ASSUME NEW s \in Stations
      PROVE  ~ WriteNextBit(s)
  BY <1>1 DEF Writing, WriteNextBit
<1>5. ASSUME NEW s \in Stations, Reconnect(s) \/ Detach(s) \/ Attach(s)
      PROVE  Storing'
  BY <1>1, <1>5, ComingStoring
<1>6. CASE Cycle
  BY <1>6, CycleStoring
<1>7. CASE UNCHANGED vars
  <2>1. UNCHANGED <<attached, reader, got, tries, pc, pos, todo>>
    BY <1>7 DEF vars, reading, sending
  <2>2. \A s \in Stations : FrameOf(s)' = FrameOf(s)
    BY <2>1 DEF FrameOf
  <2>3. QED  BY <2>1, <2>2, NoBitStoring
<1>8. QED  BY <1>2, <1>3, <1>4, <1>5, <1>6, <1>7 DEF Next

\* One attempt to send a frame is stored at most once by one station, and nothing
\* is stored that nobody sent, whatever stations come, reconnect and leave in the
\* middle of an attempt, if no bit is damaged, every writer has its next bit
\* ready and no two stations are on the cable together (flushBytes, MACReader).
THEOREM FramesAreStoredOnce ==
    Spec /\ []Alone => [](Undisturbed => OncePerAttempt)
<1>1. Init => (Undisturbed => Hearing) /\ (Undisturbed => Storing)
  BY InitHearing, InitStoring
<1>2. /\ Inv /\ Inv' /\ Alone /\ Alone' /\ [Next]_vars
      /\ (Undisturbed => Hearing) /\ (Undisturbed => Storing)
      => (Undisturbed' => Hearing') /\ (Undisturbed' => Storing')
  <2> SUFFICES ASSUME Inv, Inv', Alone, Alone', [Next]_vars, Undisturbed',
                      Undisturbed => Hearing, Undisturbed => Storing
               PROVE  Hearing' /\ Storing'
    OBVIOUS
  <2>1. Undisturbed
    BY NextKeepsScenario DEF Undisturbed
  <2>2. QED  BY <2>1, NextHearing, NextStoring
<1>3. Inv /\ (Undisturbed => Storing) => (Undisturbed => OncePerAttempt)
  <2> SUFFICES ASSUME Inv, Storing, NEW r \in Stations, NEW s \in Stations
               PROVE  got[r][s] <= tries[r][s]
    BY DEF OncePerAttempt
  <2>1. got[r][s] \in Nat /\ tries[r][s] \in Nat
    BY StationTypes DEF ReadingType, HistoryType
  <2>2. QED  BY <2>1 DEF Storing, Counted
<1>4. QED  BY <1>1, <1>2, <1>3, Invariance, PTL DEF Spec

=============================================================================
