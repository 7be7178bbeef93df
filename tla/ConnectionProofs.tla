-------------------------- MODULE ConnectionProofs --------------------------
(***************************************************************************)
(* Proofs of the safety properties of module Connection, for any number of *)
(* connections and repeated segments, with or without loss and delay.      *)
(***************************************************************************)
EXTENDS Connection, SequenceTheorems, TLAPS

(***************************************************************************)
(* The inductive invariant, one connection at a time.                      *)
(***************************************************************************)

\* A segment of that type is on its way to the host.
InTransit(c, host, type) ==
    \E i \in 1 .. Len(channel[<<c, host>>]) : channel[<<c, host>>][i].type = type

(***************************************************************************)
(* Only a socket that went through the handshake is connected, and what is *)
(* connected once stays finalized.                                         *)
(***************************************************************************)
ConnectedWasFinalized(c) ==
    \A n \in 0 .. MaxSockets : connected[<<c, n>>] => <<c, n>> \in finalized

\* PeersAgree, of one connection.
ServerAgrees(c) ==
    \A n \in 1 .. MaxSockets :
        <<c, n>> \in finalized =>
            ClientSocket(c) \in finalized /\ peerNumber[c] = n

(***************************************************************************)
(* The client's answer of the handshake names the server socket whose      *)
(* number the client keeps.                                                *)
(***************************************************************************)
AnswerNamesPeer(c) ==
    LET q == channel[<<c, "server">>]
    IN \A i \in 1 .. Len(q) :
          q[i].type = "SYNACK" =>
              ClientSocket(c) \in finalized /\ q[i].number = peerNumber[c]

(***************************************************************************)
(* The client sends FIN only after its answer of the handshake.            *)
(***************************************************************************)
FinIsLast(c) ==
    LET q == channel[<<c, "server">>]
    IN \A i \in 1 .. Len(q) :
          q[i].type = "FIN" =>
              /\ ClientSocket(c) \in finalized
              /\ \A j \in 1 .. Len(q) : q[j].type = "SYNACK" => j < i

(***************************************************************************)
(* An end that answered FIN is closed for good: it was connected, is not   *)
(* any more, and nothing on its way can connect it again.                  *)
(***************************************************************************)
ServerClosed(c) ==
    /\ ClientSocket(c) \in finalized
    /\ ~ connected[<<c, peerNumber[c]>>]
    /\ ~ InTransit(c, "server", "SYNACK")

ClientClosed(c) ==
    ClientSocket(c) \in finalized /\ ~ connected[ClientSocket(c)]

\* An answer to FIN on its way comes from a closed end.
AnswerFromClosed(c) ==
    /\ InTransit(c, "client", "FINACK") => ServerClosed(c)
    /\ InTransit(c, "server", "FINACK") => ClientClosed(c)

\* So does one that has arrived.
AnsweredByClosed(c) ==
    \A n \in 0 .. MaxSockets :
        outcome[<<c, n>>] = "answered" =>
            IF n = 0 THEN ServerClosed(c) ELSE ClientClosed(c)

Safe(c) ==
    /\ ConnectedWasFinalized(c)
    /\ ServerAgrees(c)
    /\ AnswerNamesPeer(c)
    /\ FinIsLast(c)
    /\ AnswerFromClosed(c)
    /\ AnsweredByClosed(c)

Inv == TypeOK /\ \A c \in Connections : Safe(c)

-----------------------------------------------------------------------------
(***************************************************************************)
(* The two ends of a connection and what a channel does.                   *)
(***************************************************************************)

\* A client socket is the one of its connection, and its peer the server's.
LEMMA SocketFacts ==
    /\ \A s \in Sockets : /\ s[1] \in Connections
                          /\ s[2] \in 0 .. MaxSockets
                          /\ s = <<s[1], s[2]>>
                          /\ AtClient(s) <=> s = ClientSocket(s[1])
                          /\ Host(s) \in Hosts
    /\ \A c \in Connections : ClientSocket(c) \in Sockets
    /\ \A c \in Connections, n \in 0 .. MaxSockets : <<c, n>> \in Sockets
    /\ \A host \in Hosts : Other(host) \in Hosts /\ Other(host) # host
BY ConnectionAssumption
   DEF Sockets, ClientSocket, AtClient, MaxSockets, Host, Hosts, Other

\* What an operation sends is a message.
LEMMA SegmentType ==
    ASSUME NEW type \in {"SYN", "SYNACK", "FIN", "FINACK"},
           NEW n \in 0 .. MaxSockets
    PROVE  Segment(type, n) \in Message /\ Segment(type, n).type = type
BY DEF Segment, Message

\* Kept(q, r): r is q, or q without its head.
Kept(q, r) ==
    \E k \in {0, 1} :
        /\ Len(r) = Len(q) - k
        /\ \A i \in 1 .. Len(r) : r[i] = q[i + k]

\* A channel nothing happens to.
LEMMA SameIsKept ==
    ASSUME NEW q \in Seq(Message)
    PROVE  Kept(q, q)
<1>1. Len(q) = Len(q) - 0 /\ \A i \in 1 .. Len(q) : q[i] = q[i + 0]
  BY LenProperties
<1>2. QED  BY <1>1 DEF Kept

\* The channel a segment is taken from keeps the others in their order.
LEMMA TailIsKept ==
    ASSUME NEW q \in Seq(Message), q # <<>>
    PROVE  Tail(q) \in Seq(Message) /\ Kept(q, Tail(q)) /\ Kept(q, q)
<1>1. /\ Tail(q) \in Seq(Message)
      /\ Len(Tail(q)) = Len(q) - 1
      /\ \A i \in 1 .. Len(Tail(q)) : Tail(q)[i] = q[i + 1]
  BY HeadTailProperties
<1>2. Kept(q, Tail(q))
  BY <1>1 DEF Kept
<1>3. QED  BY <1>1, <1>2, SameIsKept

\* Take removes the head of a channel, or repeats it, and appends to the other.
LEMMA TakeChannels ==
    ASSUME TypeOK, NEW c \in Connections, NEW host \in Hosts,
           channel[<<c, host>>] # <<>>,
           NEW answer \in Seq(Message), Take(c, host, answer)
    PROVE  /\ duplicates' \in 0 .. MaxDuplicates
           /\ channel' \in [Connections \X Hosts -> Seq(Message)]
           /\ Kept(channel[<<c, host>>], channel'[<<c, host>>])
           /\ channel'[<<c, Other(host)>>]
                 = channel[<<c, Other(host)>>] \o answer
           /\ \A d \in Connections \ {c}, h \in Hosts :
                 channel'[<<d, h>>] = channel[<<d, h>>]
<1>1. PICK again \in BOOLEAN :
        /\ again => duplicates < MaxDuplicates
        /\ duplicates' = IF again THEN duplicates + 1 ELSE duplicates
        /\ channel' = [channel EXCEPT
                          ![<<c, host>>] = IF again THEN @ ELSE Tail(@),
                          ![<<c, Other(host)>>] = @ \o answer]
  BY DEF Take
<1>2. /\ Other(host) \in Hosts /\ Other(host) # host
      /\ <<c, host>> \in Connections \X Hosts
      /\ <<c, Other(host)>> \in Connections \X Hosts
      /\ <<c, Other(host)>> # <<c, host>>
  BY SocketFacts
<1>3. /\ channel \in [Connections \X Hosts -> Seq(Message)]
      /\ channel[<<c, host>>] \in Seq(Message)
      /\ channel[<<c, Other(host)>>] \in Seq(Message)
  BY <1>2 DEF TypeOK
<1>4. /\ Tail(channel[<<c, host>>]) \in Seq(Message)
      /\ Kept(channel[<<c, host>>], Tail(channel[<<c, host>>]))
      /\ Kept(channel[<<c, host>>], channel[<<c, host>>])
  BY <1>3, TailIsKept
<1>5. channel[<<c, Other(host)>>] \o answer \in Seq(Message)
  BY <1>3, ConcatProperties
<1>6. duplicates' \in 0 .. MaxDuplicates
  <2>1. duplicates \in 0 .. MaxDuplicates /\ MaxDuplicates \in Nat
    BY ConnectionAssumption DEF TypeOK
  <2>2. CASE again
    BY <1>1, <2>1, <2>2
  <2>3. CASE ~ again
    BY <1>1, <2>1, <2>3
  <2>4. QED  BY <2>2, <2>3
<1>7. channel' \in [Connections \X Hosts -> Seq(Message)]
  BY <1>1, <1>2, <1>3, <1>4, <1>5
<1>8. channel'[<<c, host>>] = IF again THEN channel[<<c, host>>]
                              ELSE Tail(channel[<<c, host>>])
  BY <1>1, <1>2, <1>3
<1>9. channel'[<<c, Other(host)>>] = channel[<<c, Other(host)>>] \o answer
  BY <1>1, <1>2, <1>3
<1>10. ASSUME NEW d \in Connections \ {c}, NEW h \in Hosts
       PROVE  channel'[<<d, h>>] = channel[<<d, h>>]
  BY <1>1, <1>2, <1>3
<1>11. QED  BY <1>4, <1>6, <1>7, <1>8, <1>9, <1>10

\* Send appends to one channel.
LEMMA SendChannels ==
    ASSUME TypeOK, NEW c \in Connections, NEW host \in Hosts,
           NEW message \in Message, Send(c, host, message)
    PROVE  /\ channel' \in [Connections \X Hosts -> Seq(Message)]
           /\ channel'[<<c, host>>] = Append(channel[<<c, host>>], message)
           /\ \A d \in Connections, h \in Hosts :
                 <<d, h>> # <<c, host>> =>
                     channel'[<<d, h>>] = channel[<<d, h>>]
<1>1. /\ channel \in [Connections \X Hosts -> Seq(Message)]
      /\ <<c, host>> \in Connections \X Hosts
  BY DEF TypeOK
<1>2. Append(channel[<<c, host>>], message) \in Seq(Message)
  BY <1>1, AppendProperties
<1>3. QED  BY <1>1, <1>2 DEF Send

-----------------------------------------------------------------------------
(***************************************************************************)
(* Types.                                                                  *)
(***************************************************************************)

\* The variables have their types in the initial state.
LEMMA InitType == Init => TypeOK
<1>1. ASSUME Init PROVE TypeOK
  <2>1. /\ <<>> \in Seq(Message)
        /\ <<>> \in Seq(Connections)
    BY EmptySeq
  <2>2. QED
    BY <1>1, <2>1, ConnectionAssumption DEF Init, TypeOK, MaxSockets
<1>2. QED  BY <1>1

\* A handler of the reader keeps the types: what it takes and answers is typed.
LEMMA ParseSegmentType ==
    ASSUME TypeOK, NEW c \in Connections, NEW host \in Hosts,
           ParseSegment(c, host)
    PROVE  TypeOK'
<1> DEFINE message == Head(channel[<<c, host>>])
<1>1. /\ channel[<<c, host>>] # <<>>
      /\ channel[<<c, host>>] \in Seq(Message)
      /\ UNCHANGED <<pc, mapped, incoming, listener, reader>>
  BY DEF ParseSegment, TypeOK
<1>2. message \in Message
  BY <1>1, HeadTailProperties
<1>3. message.number \in 0 .. MaxSockets
  BY <1>2 DEF Message
<1>4. /\ <<>> \in Seq(Message)
      /\ <<message>> \in Seq(Message)
      /\ <<Segment("FINACK", 0)>> \in Seq(Message)
  BY <1>2, SegmentType, ConnectionAssumption, EmptySeq DEF MaxSockets
<1>5. CASE Take(c, host, <<>>)
           /\ UNCHANGED <<connected, finalized, peerNumber, outcome>>
  <2>1. /\ duplicates' \in 0 .. MaxDuplicates
        /\ channel' \in [Connections \X Hosts -> Seq(Message)]
    BY <1>1, <1>4, <1>5, TakeChannels
  <2>2. QED  BY <1>1, <1>5, <2>1 DEF TypeOK
<1>6. ASSUME NEW s \in mapped, s[1] = c, Host(s) = host,
             Handshake(s, message) \/ ClosedByPeer(s, message)
             \/ CloseAnswered(s, message) \/ Ignored(s, message)
      PROVE  TypeOK'
  <2>1. s \in Sockets
    BY DEF TypeOK
  <2> HIDE DEF message
  <2>2. CASE Handshake(s, message)
    <3>1. PICK answer \in Seq(Message) : Take(c, host, answer)
      BY <1>4, <1>6, <2>2 DEF Handshake
    <3>2. /\ duplicates' \in 0 .. MaxDuplicates
          /\ channel' \in [Connections \X Hosts -> Seq(Message)]
      BY <1>1, <3>1, TakeChannels
    <3>3. QED
      BY <1>1, <1>3, <1>6, <2>1, <2>2, <3>2 DEF TypeOK, Handshake
  <2>3. CASE ClosedByPeer(s, message)
    <3>1. Take(c, host, <<Segment("FINACK", 0)>>)
      BY <1>6, <2>3 DEF ClosedByPeer
    <3>2. /\ duplicates' \in 0 .. MaxDuplicates
          /\ channel' \in [Connections \X Hosts -> Seq(Message)]
      BY <1>1, <1>4, <3>1, TakeChannels
    <3>3. QED
      BY <1>1, <2>1, <2>3, <3>2 DEF TypeOK, ClosedByPeer
  <2>4. CASE CloseAnswered(s, message)
    <3>1. Take(c, host, <<>>)
      BY <1>6, <2>4 DEF CloseAnswered
    <3>2. /\ duplicates' \in 0 .. MaxDuplicates
          /\ channel' \in [Connections \X Hosts -> Seq(Message)]
      BY <1>1, <1>4, <3>1, TakeChannels
    <3>3. QED
      BY <1>1, <2>1, <2>4, <3>2 DEF TypeOK, CloseAnswered
  <2>5. CASE Ignored(s, message)
    BY <1>5, <1>6, <2>5 DEF Ignored
  <2>6. QED  BY <1>6, <2>2, <2>3, <2>4, <2>5
<1>7. QED  BY <1>5, <1>6 DEF ParseSegment

\* Every step keeps the types.
LEMMA NextType ==
    ASSUME TypeOK, [Next]_vars
    PROVE  TypeOK'
<1>1. CASE Get
  <2>1. PICK n \in 1 .. MaxSockets :
          LET c == Head(incoming)
              s == <<c, n>>
          IN /\ incoming' = Tail(incoming)
             /\ listener' = {s}
             /\ pc' = [pc EXCEPT ![s] = "responding"]
             /\ mapped' = (mapped \ SameId(s)) \union {s}
             /\ Send(c, "client", Segment("SYNACK", n))
    BY <1>1 DEF Get
  <2>2. /\ incoming # <<>>
        /\ UNCHANGED <<outcome, connected, finalized, peerNumber, reader,
                       duplicates>>
    BY <1>1 DEF Get
  <2>3. Head(incoming) \in Connections /\ Tail(incoming) \in Seq(Connections)
    BY <2>2, HeadTailProperties DEF TypeOK
  <2>4. n \in 0 .. MaxSockets /\ <<Head(incoming), n>> \in Sockets
    BY <2>3, SocketFacts, ConnectionAssumption DEF MaxSockets
  <2>5. channel' \in [Connections \X Hosts -> Seq(Message)]
    <3>1. Send(Head(incoming), "client", Segment("SYNACK", n))
      BY <2>1
    <3>2. Segment("SYNACK", n) \in Message
      BY <2>4, SegmentType
    <3>3. "client" \in Hosts
      BY DEF Hosts
    <3>4. QED  BY <2>3, <3>1, <3>2, <3>3, SendChannels
  <2>6. QED  BY <2>1, <2>2, <2>3, <2>4, <2>5 DEF TypeOK
<1>2. CASE GetReturns
  BY <1>2 DEF GetReturns, TypeOK
<1>3. CASE ReaderResumes
  <2>1. Append(incoming, reader) \in Seq(Connections)
    BY <1>3, AppendProperties DEF ReaderResumes, TypeOK
  <2>2. QED  BY <1>3, <2>1 DEF ReaderResumes, TypeOK
<1>4. ASSUME NEW c \in Connections, Connect(c)
      PROVE  TypeOK'
  <2>1. channel' \in [Connections \X Hosts -> Seq(Message)]
    <3>1. Send(c, "server", Segment("SYN", 0)) /\ "server" \in Hosts
      BY <1>4 DEF Connect, Hosts
    <3>2. Segment("SYN", 0) \in Message
      BY SegmentType, ConnectionAssumption DEF MaxSockets
    <3>3. QED  BY <3>1, <3>2, SendChannels
  <2>2. ClientSocket(c) \in Sockets
    BY SocketFacts
  <2>3. QED  BY <1>4, <2>1, <2>2 DEF Connect, TypeOK
<1>5. ASSUME NEW c \in Connections, ConnectReturns(c)
      PROVE  TypeOK'
  BY <1>5 DEF ConnectReturns, TypeOK
<1>6. ASSUME NEW c \in Connections, ConnectFails(c)
      PROVE  TypeOK'
  BY <1>6 DEF ConnectFails, TypeOK
<1>7. ASSUME NEW c \in Connections, AddConnectionInfo(c)
      PROVE  TypeOK'
  <2>1. /\ channel[<<c, "server">>] # <<>>
        /\ Take(c, "server", <<>>)
        /\ UNCHANGED <<pc, outcome, connected, finalized, peerNumber, mapped,
                       listener>>
        /\ \/ incoming' = Append(incoming, c) /\ UNCHANGED reader
           \/ reader' = c /\ UNCHANGED incoming
    BY <1>7 DEF AddConnectionInfo
  <2>2. /\ duplicates' \in 0 .. MaxDuplicates
        /\ channel' \in [Connections \X Hosts -> Seq(Message)]
    BY <2>1, EmptySeq, TakeChannels DEF Hosts
  <2>3. Append(incoming, c) \in Seq(Connections)
    BY AppendProperties DEF TypeOK
  <2>4. QED  BY <2>1, <2>2, <2>3 DEF TypeOK
<1>8. ASSUME NEW c \in Connections, NEW host \in Hosts, ParseSegment(c, host)
      PROVE  TypeOK'
  BY <1>8, ParseSegmentType
<1>9. ASSUME NEW c \in Connections, NEW host \in Hosts, Lose(c, host)
      PROVE  TypeOK'
  <2>1. /\ channel[<<c, host>>] # <<>>
        /\ channel[<<c, host>>] \in Seq(Message)
    BY <1>9 DEF Lose, TypeOK
  <2>2. Tail(channel[<<c, host>>]) \in Seq(Message)
    BY <2>1, TailIsKept
  <2>3. QED  BY <1>9, <2>2 DEF Lose, TypeOK
<1>10. ASSUME NEW s \in Sockets, RemoveSocket(s)
       PROVE  TypeOK'
  <2>1. CASE connected[s]
    <3>1. s[1] \in Connections /\ Other(Host(s)) \in Hosts
      BY SocketFacts
    <3>2. channel' \in [Connections \X Hosts -> Seq(Message)]
      <4>1. Send(s[1], Other(Host(s)), Segment("FIN", 0))
        BY <1>10, <2>1 DEF RemoveSocket
      <4>2. Segment("FIN", 0) \in Message
        BY SegmentType, ConnectionAssumption DEF MaxSockets
      <4>3. QED  BY <3>1, <4>1, <4>2, SendChannels
    <3>3. QED  BY <1>10, <2>1, <3>2 DEF RemoveSocket, TypeOK
  <2>2. CASE ~ connected[s]
    BY <1>10, <2>2 DEF RemoveSocket, TypeOK
  <2>3. QED  BY <2>1, <2>2
<1>11. ASSUME NEW s \in Sockets, DisconnectReturns(s)
       PROVE  TypeOK'
  BY <1>11 DEF DisconnectReturns, TypeOK
<1>12. ASSUME NEW s \in Sockets, Forget(s)
       PROVE  TypeOK'
  BY <1>12 DEF Forget, TypeOK
<1>13. ASSUME NEW s \in Sockets, SendGivesUp(s)
       PROVE  TypeOK'
  BY <1>13 DEF SendGivesUp, TypeOK
<1>14. CASE UNCHANGED vars
  BY <1>14 DEF vars, TypeOK
<1>15. QED
  BY <1>1, <1>2, <1>3, <1>4, <1>5, <1>6, <1>7, <1>8, <1>9, <1>10, <1>11, <1>12,
     <1>13, <1>14 DEF Next

(***************************************************************************)
(* Every variable has its type in every reachable state.                   *)
(***************************************************************************)
THEOREM TypeCorrect == Spec => []TypeOK
<1>1. TypeOK /\ [Next]_vars => TypeOK'
  BY NextType
<1>2. QED  BY InitType, <1>1, PTL DEF Spec

-----------------------------------------------------------------------------
(***************************************************************************)
(* The handshake and the closing of one connection.                        *)
(***************************************************************************)

\* A channel that loses its head carries nothing new.
LEMMA KeptTransit ==
    ASSUME NEW q \in Seq(Message), NEW r \in Seq(Message), Kept(q, r)
    PROVE  \E k \in {0, 1} :
              \A i \in 1 .. Len(r) : i + k \in 1 .. Len(q) /\ r[i] = q[i + k]
<1>1. PICK k \in {0, 1} :
        /\ Len(r) = Len(q) - k
        /\ \A i \in 1 .. Len(r) : r[i] = q[i + k]
  BY DEF Kept
<1>2. Len(q) \in Nat /\ Len(r) \in Nat
  BY LenProperties
<1>3. \A i \in 1 .. Len(r) : i + k \in 1 .. Len(q)
  BY <1>1, <1>2
<1>4. QED  BY <1>1, <1>3

\* A step that sends nothing about a connection and connects no socket of it. Its
\* reader may find an answer from a closed end.
LEMMA NothingNew ==
    ASSUME TypeOK, TypeOK', NEW c \in Connections, Safe(c),
           \A host \in Hosts :
              Kept(channel[<<c, host>>], channel'[<<c, host>>]),
           \A n \in 0 .. MaxSockets :
              /\ connected'[<<c, n>>] => connected[<<c, n>>]
              /\ <<c, n>> \in finalized' <=> <<c, n>> \in finalized
              /\ outcome'[<<c, n>>] = "answered" =>
                    \/ outcome[<<c, n>>] = "answered"
                    \/ IF n = 0 THEN ServerClosed(c) ELSE ClientClosed(c),
           peerNumber'[c] = peerNumber[c]
    PROVE  Safe(c)'
<1> DEFINE toServer == channel[<<c, "server">>]
<1> DEFINE toClient == channel[<<c, "client">>]
<1>1. /\ toServer \in Seq(Message) /\ toServer' \in Seq(Message)
      /\ toClient \in Seq(Message) /\ toClient' \in Seq(Message)
      /\ Kept(toServer, toServer') /\ Kept(toClient, toClient')
  BY DEF TypeOK, Hosts
<1>2. PICK k \in {0, 1} :
        \A i \in 1 .. Len(toServer') :
            i + k \in 1 .. Len(toServer) /\ toServer'[i] = toServer[i + k]
  BY <1>1, KeptTransit
<1>3. PICK l \in {0, 1} :
        \A i \in 1 .. Len(toClient') :
            i + l \in 1 .. Len(toClient) /\ toClient'[i] = toClient[i + l]
  BY <1>1, KeptTransit
<1>4. /\ 0 \in 0 .. MaxSockets
      /\ peerNumber[c] \in 0 .. MaxSockets
      /\ 1 .. MaxSockets \subseteq 0 .. MaxSockets
      /\ ClientSocket(c) = <<c, 0>>
  <2>1. MaxSockets \in Nat
    BY ConnectionAssumption DEF MaxSockets
  <2>2. peerNumber[c] \in 0 .. MaxSockets
    BY DEF TypeOK
  <2>3. QED  BY <2>1, <2>2 DEF ClientSocket
<1>5. /\ (ServerClosed(c) => ServerClosed(c)')
      /\ (ClientClosed(c) => ClientClosed(c)')
  BY <1>2, <1>4 DEF ServerClosed, ClientClosed, InTransit, ClientSocket
<1>6. ConnectedWasFinalized(c)'
  BY DEF Safe, ConnectedWasFinalized
<1>7. ServerAgrees(c)'
  BY <1>4 DEF Safe, ServerAgrees, ClientSocket
<1>8. AnswerNamesPeer(c)'
  BY <1>2, <1>4, ZenonT(60) DEF Safe, AnswerNamesPeer, ClientSocket
<1>9. FinIsLast(c)'
  <2> SUFFICES ASSUME NEW i \in 1 .. Len(toServer'), toServer'[i].type = "FIN"
               PROVE  /\ ClientSocket(c) \in finalized'
                      /\ \A j \in 1 .. Len(toServer') :
                            toServer'[j].type = "SYNACK" => j < i
    BY DEF FinIsLast, ClientSocket
  <2>1. i + k \in 1 .. Len(toServer) /\ toServer[i + k].type = "FIN"
    BY <1>2
  <2>2. /\ ClientSocket(c) \in finalized
        /\ \A j \in 1 .. Len(toServer) :
              toServer[j].type = "SYNACK" => j < i + k
    BY <2>1 DEF Safe, FinIsLast
  <2>3. ASSUME NEW j \in 1 .. Len(toServer'), toServer'[j].type = "SYNACK"
        PROVE  j < i
    <3>1. j + k \in 1 .. Len(toServer) /\ toServer[j + k].type = "SYNACK"
      BY <1>2, <2>3
    <3>2. j + k < i + k
      BY <2>2, <3>1
    <3>3. i \in Int /\ j \in Int /\ k \in Int
      OBVIOUS
    <3>4. QED  BY <3>2, <3>3
  <2>4. QED  BY <1>4, <2>2, <2>3
<1>10. AnswerFromClosed(c)'
  BY <1>2, <1>3, <1>5, SMTT(30) DEF Safe, AnswerFromClosed, InTransit
<1>11. AnsweredByClosed(c)'
  BY <1>5 DEF Safe, AnsweredByClosed
<1>12. QED
  BY <1>6, <1>7, <1>8, <1>9, <1>10, <1>11 DEF Safe

\* Longer(q, r, m): r is q with m after it.
Longer(q, r, m) ==
    /\ Len(r) = Len(q) + 1
    /\ \A i \in 1 .. Len(q) : r[i] = q[i]
    /\ r[Len(q) + 1] = m

\* Both forms in which the model appends a segment.
LEMMA AppendIsLonger ==
    ASSUME NEW q \in Seq(Message), NEW m \in Message
    PROVE  Longer(q, Append(q, m), m) /\ Longer(q, q \o <<m>>, m)
<1>1. Longer(q, Append(q, m), m)
  BY AppendProperties, LenProperties DEF Longer
<1>2. q \o <<m>> = Append(q, m)
  BY AppendIsConcat
<1>3. QED  BY <1>1, <1>2

\* What is on its way then: what was, and the segment.
LEMMA LongerElements ==
    ASSUME NEW q \in Seq(Message), NEW r \in Seq(Message), NEW m,
           Longer(q, r, m)
    PROVE  \A i \in 1 .. Len(r) :
              \/ i \in 1 .. Len(q) /\ q[i] = r[i]
              \/ i = Len(q) + 1 /\ r[i] = m
<1>1. Len(q) \in Nat /\ Len(r) = Len(q) + 1
  BY LenProperties DEF Longer
<1>2. ASSUME NEW i \in 1 .. Len(r)
      PROVE  i \in 1 .. Len(q) \/ i = Len(q) + 1
  BY <1>1
<1>3. QED  BY <1>2 DEF Longer

\* A step that sends a segment that is no answer to FIN: the client's answer of
\* the handshake is another lemma's, and FIN comes after it.
LEMMA SendKeepsSafe ==
    ASSUME TypeOK, TypeOK', NEW c \in Connections, Safe(c),
           NEW host \in Hosts, NEW m \in Message,
           Longer(channel[<<c, host>>], channel'[<<c, host>>], m),
           channel'[<<c, Other(host)>>] = channel[<<c, Other(host)>>],
           m.type # "FINACK",
           host = "server" => m.type # "SYNACK",
           m.type = "FIN" => ClientSocket(c) \in finalized,
           \A n \in 0 .. MaxSockets :
              outcome'[<<c, n>>] = "answered" => outcome[<<c, n>>] = "answered",
           UNCHANGED <<connected, finalized, peerNumber>>
    PROVE  Safe(c)'
<1> DEFINE toServer == channel[<<c, "server">>]
<1> DEFINE toClient == channel[<<c, "client">>]
<1>1. /\ toServer \in Seq(Message) /\ toServer' \in Seq(Message)
      /\ toClient \in Seq(Message) /\ toClient' \in Seq(Message)
  BY DEF TypeOK, Hosts
<1>2. /\ Len(toServer) \in Nat /\ Len(toServer') \in Nat
      /\ Len(toClient) \in Nat /\ Len(toClient') \in Nat
  BY <1>1, LenProperties
<1>3. CASE host = "client"
  <2>1. /\ toServer' = toServer
        /\ Longer(toClient, toClient', m)
    BY <1>3 DEF Other
  <2>2. \A i \in 1 .. Len(toClient') :
            toClient'[i].type = "FINACK" =>
                i \in 1 .. Len(toClient) /\ toClient[i] = toClient'[i]
    <3>1. \A i \in 1 .. Len(toClient') :
              \/ i \in 1 .. Len(toClient) /\ toClient[i] = toClient'[i]
              \/ i = Len(toClient) + 1 /\ toClient'[i] = m
      BY <1>1, <2>1, LongerElements
    <3>2. QED  BY <3>1
  <2>3. InTransit(c, "client", "FINACK")' => InTransit(c, "client", "FINACK")
    BY <2>2 DEF InTransit
  <2>4. /\ \A type : InTransit(c, "server", type)'
                        <=> InTransit(c, "server", type)
        /\ (ServerClosed(c) => ServerClosed(c)')
        /\ (ClientClosed(c) => ClientClosed(c)')
    BY <2>1 DEF InTransit, ServerClosed, ClientClosed, ClientSocket
  <2>5. AnswerFromClosed(c)' /\ AnsweredByClosed(c)'
    BY <2>3, <2>4 DEF Safe, AnswerFromClosed, AnsweredByClosed
  <2>6. QED
    BY <2>1, <2>5
       DEF Safe, ConnectedWasFinalized, ServerAgrees, AnswerNamesPeer,
           FinIsLast, ClientSocket
<1>4. CASE host = "server"
  <2>1. /\ toClient' = toClient
        /\ Longer(toServer, toServer', m)
    BY <1>4 DEF Other
  <2>2. \A i \in 1 .. Len(toServer') :
            \/ i \in 1 .. Len(toServer) /\ toServer[i] = toServer'[i]
            \/ i = Len(toServer) + 1 /\ toServer'[i] = m
    BY <1>1, <2>1, LongerElements
  <2>3. /\ InTransit(c, "server", "FINACK")' => InTransit(c, "server", "FINACK")
        /\ InTransit(c, "server", "SYNACK")' => InTransit(c, "server", "SYNACK")
        /\ InTransit(c, "client", "FINACK")' => InTransit(c, "client", "FINACK")
    BY <1>4, <2>1, <2>2 DEF InTransit
  <2>4. /\ (ServerClosed(c) => ServerClosed(c)')
        /\ (ClientClosed(c) => ClientClosed(c)')
    BY <2>3 DEF ServerClosed, ClientClosed, ClientSocket
  <2>5. AnswerFromClosed(c)' /\ AnsweredByClosed(c)'
    BY <2>3, <2>4 DEF Safe, AnswerFromClosed, AnsweredByClosed
  <2>6. AnswerNamesPeer(c)'
    BY <1>4, <2>2 DEF Safe, AnswerNamesPeer, ClientSocket
  <2>7. FinIsLast(c)'
    <3> SUFFICES ASSUME NEW i \in 1 .. Len(toServer'), toServer'[i].type = "FIN"
                 PROVE  /\ ClientSocket(c) \in finalized
                        /\ \A j \in 1 .. Len(toServer') :
                              toServer'[j].type = "SYNACK" => j < i
      BY DEF FinIsLast, ClientSocket
    <3>1. ASSUME NEW j \in 1 .. Len(toServer'), toServer'[j].type = "SYNACK"
          PROVE  j \in 1 .. Len(toServer) /\ toServer[j].type = "SYNACK"
      BY <1>4, <2>2, <3>1
    <3>2. CASE i \in 1 .. Len(toServer) /\ toServer[i] = toServer'[i]
      BY <3>1, <3>2 DEF Safe, FinIsLast
    <3>3. CASE i = Len(toServer) + 1 /\ toServer'[i] = m
      BY <1>2, <3>1, <3>3
    <3>4. QED  BY <2>2, <3>2, <3>3
  <2>8. QED
    BY <2>5, <2>6, <2>7
       DEF Safe, ConnectedWasFinalized, ServerAgrees, ClientSocket
<1>5. QED  BY <1>3, <1>4 DEF Hosts

\* finalizeConnecting of the client: nothing said before counted on it.
LEMMA ClientHandshake ==
    ASSUME TypeOK, TypeOK', NEW c \in Connections, Safe(c),
           NEW s \in Sockets, s = ClientSocket(c), s \notin finalized,
           NEW m \in Message, m.type = "SYNACK",
           connected' = [connected EXCEPT ![s] = TRUE],
           finalized' = finalized \union {s},
           peerNumber' = [peerNumber EXCEPT ![c] = m.number],
           Kept(channel[<<c, "client">>], channel'[<<c, "client">>]),
           Longer(channel[<<c, "server">>], channel'[<<c, "server">>], m),
           outcome' = outcome
    PROVE  Safe(c)'
<1> DEFINE toServer == channel[<<c, "server">>]
<1> DEFINE toClient == channel[<<c, "client">>]
<1>1. /\ toServer \in Seq(Message) /\ toServer' \in Seq(Message)
      /\ toClient \in Seq(Message) /\ toClient' \in Seq(Message)
  BY DEF TypeOK, Hosts
<1>2. /\ Len(toServer) \in Nat /\ Len(toServer') \in Nat
      /\ \A i \in 1 .. Len(toServer') :
            \/ i \in 1 .. Len(toServer) /\ toServer[i] = toServer'[i]
            \/ i = Len(toServer) + 1 /\ toServer'[i] = m
  <2>1. Len(toServer) \in Nat /\ Len(toServer') \in Nat
    BY <1>1, LenProperties
  <2>2. Longer(toServer, toServer', m)
    OBVIOUS
  <2>3. \A i \in 1 .. Len(toServer') :
            \/ i \in 1 .. Len(toServer) /\ toServer[i] = toServer'[i]
            \/ i = Len(toServer) + 1 /\ toServer'[i] = m
    BY <1>1, <2>2, LongerElements
  <2>4. QED  BY <2>1, <2>3
<1>3. /\ ~ InTransit(c, "client", "FINACK")
      /\ ~ InTransit(c, "server", "FINACK")
      /\ \A n \in 0 .. MaxSockets : outcome[<<c, n>>] # "answered"
  BY DEF Safe, AnswerFromClosed, AnsweredByClosed, ServerClosed, ClientClosed
<1>4. ~ InTransit(c, "client", "FINACK")'
  <2>1. PICK k \in {0, 1} :
          \A i \in 1 .. Len(toClient') :
              i + k \in 1 .. Len(toClient) /\ toClient'[i] = toClient[i + k]
    BY <1>1, KeptTransit
  <2>2. QED  BY <1>3, <2>1 DEF InTransit
<1>5. ~ InTransit(c, "server", "FINACK")'
  BY <1>2, <1>3 DEF InTransit
<1>6. /\ \A i \in 1 .. Len(toServer) : toServer[i].type \notin {"SYNACK", "FIN"}
      /\ \A n \in 1 .. MaxSockets : <<c, n>> \notin finalized
  BY DEF Safe, AnswerNamesPeer, FinIsLast, ServerAgrees
<1>7. ConnectedWasFinalized(c)'
  <2>1. \A j \in 0 .. MaxSockets : <<c, j>> \in Sockets
    BY SocketFacts
  <2>2. QED  BY <2>1 DEF Safe, ConnectedWasFinalized, TypeOK
<1>8. ServerAgrees(c)'
  BY <1>6 DEF ServerAgrees, ClientSocket
<1>9. AnswerNamesPeer(c)'
  BY <1>2, <1>6, ZenonT(60) DEF AnswerNamesPeer, ClientSocket, TypeOK
<1>10. FinIsLast(c)'
  BY <1>2, <1>6 DEF FinIsLast
<1>11. AnswerFromClosed(c)' /\ AnsweredByClosed(c)'
  BY <1>3, <1>4, <1>5 DEF AnswerFromClosed, AnsweredByClosed
<1>12. QED
  BY <1>7, <1>8, <1>9, <1>10, <1>11 DEF Safe

\* finalizeConnecting of the server: its number is the one the client keeps, and
\* the connection was not closed before, or the answer would be past.
LEMMA ServerHandshake ==
    ASSUME TypeOK, TypeOK', NEW c \in Connections, Safe(c),
           NEW n \in 1 .. MaxSockets,
           channel[<<c, "server">>] # <<>>,
           Head(channel[<<c, "server">>]).type = "SYNACK",
           Head(channel[<<c, "server">>]).number = n,
           connected' = [connected EXCEPT ![<<c, n>>] = TRUE],
           finalized' = finalized \union {<<c, n>>},
           Kept(channel[<<c, "server">>], channel'[<<c, "server">>]),
           channel'[<<c, "client">>] = channel[<<c, "client">>],
           UNCHANGED <<peerNumber, outcome>>
    PROVE  Safe(c)'
<1> DEFINE toServer == channel[<<c, "server">>]
<1>1. toServer \in Seq(Message) /\ toServer' \in Seq(Message)
  BY DEF TypeOK, Hosts
<1>2. 1 \in 1 .. Len(toServer) /\ Head(toServer) = toServer[1]
  BY <1>1, EmptySeq, HeadTailProperties
<1>3. /\ ClientSocket(c) \in finalized /\ peerNumber[c] = n
      /\ InTransit(c, "server", "SYNACK")
  BY <1>2 DEF Safe, AnswerNamesPeer, InTransit
<1>4. PICK k \in {0, 1} :
        \A i \in 1 .. Len(toServer') :
            i + k \in 1 .. Len(toServer) /\ toServer'[i] = toServer[i + k]
  BY <1>1, KeptTransit
<1>5. n \in 0 .. MaxSockets /\ n # 0 /\ 0 \in 0 .. MaxSockets
      /\ <<c, n>> # ClientSocket(c)
  BY ConnectionAssumption DEF MaxSockets, ClientSocket
<1>6. ~ InTransit(c, "client", "FINACK") /\ outcome[<<c, 0>>] # "answered"
  BY <1>3, <1>5 DEF Safe, AnswerFromClosed, AnsweredByClosed, ServerClosed
<1>7. ~ InTransit(c, "client", "FINACK")'
  BY <1>6 DEF InTransit
<1>8. ClientClosed(c) => ClientClosed(c)'
  BY <1>5 DEF ClientClosed, TypeOK, ClientSocket, Sockets
<1>9. ConnectedWasFinalized(c)'
  <2>1. \A j \in 0 .. MaxSockets : <<c, j>> \in Sockets
    BY SocketFacts
  <2>2. QED  BY <2>1 DEF Safe, ConnectedWasFinalized, TypeOK
<1>10. ServerAgrees(c)'
  BY <1>3, <1>5 DEF Safe, ServerAgrees, ClientSocket
<1>11. AnswerNamesPeer(c)'
  BY <1>3, <1>4 DEF Safe, AnswerNamesPeer, ClientSocket
<1>12. FinIsLast(c)'
  <2> SUFFICES ASSUME NEW i \in 1 .. Len(toServer'), toServer'[i].type = "FIN",
                      NEW j \in 1 .. Len(toServer'), toServer'[j].type = "SYNACK"
               PROVE  j < i
    BY <1>3 DEF FinIsLast, ClientSocket
  <2>1. /\ i + k \in 1 .. Len(toServer) /\ toServer[i + k].type = "FIN"
        /\ j + k \in 1 .. Len(toServer) /\ toServer[j + k].type = "SYNACK"
    BY <1>4
  <2>2. j + k < i + k
    BY <2>1 DEF Safe, FinIsLast
  <2>3. i \in Int /\ j \in Int /\ k \in Int
    OBVIOUS
  <2>4. QED  BY <2>2, <2>3
<1>13. InTransit(c, "server", "FINACK")' => InTransit(c, "server", "FINACK")
  BY <1>4 DEF InTransit
<1>14. AnswerFromClosed(c)' /\ AnsweredByClosed(c)'
  BY <1>6, <1>7, <1>8, <1>13 DEF Safe, AnswerFromClosed, AnsweredByClosed
<1>15. QED
  BY <1>9, <1>10, <1>11, <1>12, <1>14 DEF Safe

\* FIN is answered: the end is closed for good.  At the server, what the client
\* sent before it is past.
LEMMA FinAnswered ==
    ASSUME TypeOK, TypeOK', NEW c \in Connections, Safe(c),
           NEW s \in Sockets, s[1] = c, connected[s],
           NEW host \in Hosts, host = Host(s),
           channel[<<c, host>>] # <<>>,
           Head(channel[<<c, host>>]).type = "FIN",
           NEW m \in Message, m.type = "FINACK",
           connected' = [connected EXCEPT ![s] = FALSE],
           Kept(channel[<<c, host>>], channel'[<<c, host>>]),
           Longer(channel[<<c, Other(host)>>], channel'[<<c, Other(host)>>], m),
           UNCHANGED <<finalized, peerNumber, outcome>>
    PROVE  Safe(c)'
<1> DEFINE toServer == channel[<<c, "server">>]
<1> DEFINE toClient == channel[<<c, "client">>]
<1>1. /\ toServer \in Seq(Message) /\ toServer' \in Seq(Message)
      /\ toClient \in Seq(Message) /\ toClient' \in Seq(Message)
      /\ Len(toServer) \in Nat
  BY LenProperties DEF TypeOK, Hosts
<1>2. s \in finalized
  <2>1. s[2] \in 0 .. MaxSockets /\ s = <<c, s[2]>>
    BY SocketFacts
  <2>2. QED  BY <2>1 DEF Safe, ConnectedWasFinalized
<1>3. \A n \in 0 .. MaxSockets : connected'[<<c, n>>] => connected[<<c, n>>]
  <2>1. \A j \in 0 .. MaxSockets : <<c, j>> \in Sockets
    BY SocketFacts
  <2>2. QED  BY <2>1 DEF TypeOK
<1>4. ConnectedWasFinalized(c)' /\ ServerAgrees(c)'
  BY <1>3 DEF Safe, ConnectedWasFinalized, ServerAgrees, ClientSocket
<1>5. peerNumber[c] \in 0 .. MaxSockets /\ 0 \in 0 .. MaxSockets
  <2>1. peerNumber[c] \in 0 .. MaxSockets
    BY DEF TypeOK
  <2>2. 0 \in 0 .. MaxSockets
    BY ConnectionAssumption DEF MaxSockets
  <2>3. QED  BY <2>1, <2>2
<1>6. CASE host = "client"
  <2>1. /\ Kept(toClient, toClient') /\ Longer(toServer, toServer', m)
        /\ s = ClientSocket(c)
    BY <1>6, SocketFacts DEF Other, Host
  <2>2. PICK k \in {0, 1} :
          \A i \in 1 .. Len(toClient') :
              i + k \in 1 .. Len(toClient) /\ toClient'[i] = toClient[i + k]
    BY <1>1, <2>1, KeptTransit
  <2>3. \A i \in 1 .. Len(toServer') :
            \/ i \in 1 .. Len(toServer) /\ toServer[i] = toServer'[i]
            \/ i = Len(toServer) + 1 /\ toServer'[i] = m
    BY <1>1, <2>1, LongerElements
  <2>4. /\ InTransit(c, "client", "FINACK")' => InTransit(c, "client", "FINACK")
        /\ InTransit(c, "server", "SYNACK")' => InTransit(c, "server", "SYNACK")
    BY <2>2, <2>3, ZenonT(60) DEF InTransit
  <2>5. ServerClosed(c) => ServerClosed(c)'
    BY <1>3, <1>5, <2>4 DEF ServerClosed, ClientSocket
  <2>6. ClientClosed(c)'
    BY <1>2, <2>1 DEF ClientClosed, ClientSocket, TypeOK
  <2>7. AnswerFromClosed(c)' /\ AnsweredByClosed(c)'
    BY <2>4, <2>5, <2>6 DEF Safe, AnswerFromClosed, AnsweredByClosed
  <2>8. AnswerNamesPeer(c)'
    BY <2>3, SMTT(30) DEF Safe, AnswerNamesPeer, ClientSocket
  <2>9. FinIsLast(c)'
    BY <2>3, SMTT(30) DEF Safe, FinIsLast, ClientSocket
  <2>10. QED  BY <1>4, <2>7, <2>8, <2>9 DEF Safe
<1>7. CASE host = "server"
  <2>1. /\ Kept(toServer, toServer') /\ Longer(toClient, toClient', m)
        /\ s # ClientSocket(c) /\ s[2] \in 1 .. MaxSockets /\ s = <<c, s[2]>>
    <3>1. s[2] \in 0 .. MaxSockets /\ s[2] # 0 /\ s = <<c, s[2]>>
      BY <1>7, SocketFacts DEF Host, AtClient
    <3>2. QED  BY <1>7, <3>1, ConnectionAssumption
               DEF Other, MaxSockets, ClientSocket
  <2>2. PICK k \in {0, 1} :
          \A i \in 1 .. Len(toServer') :
              i + k \in 1 .. Len(toServer) /\ toServer'[i] = toServer[i + k]
    BY <1>1, <2>1, KeptTransit, ZenonT(60)
  <2>3. 1 \in 1 .. Len(toServer) /\ toServer[1].type = "FIN"
    BY <1>1, <1>7, EmptySeq, HeadTailProperties
  <2>4. ClientSocket(c) \in finalized /\ ~ InTransit(c, "server", "SYNACK")
    <3>1. /\ ClientSocket(c) \in finalized
          /\ \A j \in 1 .. Len(toServer) : toServer[j].type = "SYNACK" => j < 1
      BY <2>3 DEF Safe, FinIsLast
    <3>2. ASSUME NEW j \in 1 .. Len(toServer), toServer[j].type = "SYNACK"
          PROVE  FALSE
      <4>1. j < 1
        BY <3>1, <3>2
      <4>2. QED  BY <1>1, <4>1
    <3>3. QED  BY <3>1, <3>2 DEF InTransit
  <2>5. /\ InTransit(c, "server", "FINACK")' => InTransit(c, "server", "FINACK")
        /\ ~ InTransit(c, "server", "SYNACK")'
    BY <2>2, <2>4, SMTT(30) DEF InTransit
  <2>6. ServerClosed(c)'
    <3>1. peerNumber[c] = s[2]
      BY <1>2, <2>1 DEF Safe, ServerAgrees
    <3>2. ~ connected'[s] /\ s = <<c, peerNumber[c]>>
      BY <2>1, <3>1 DEF TypeOK
    <3>3. QED  BY <2>4, <2>5, <3>2 DEF ServerClosed, ClientSocket
  <2>7. ClientClosed(c) => ClientClosed(c)'
    BY <1>3, <1>5 DEF ClientClosed, ClientSocket
  <2>8. AnswerFromClosed(c)' /\ AnsweredByClosed(c)'
    BY <2>5, <2>6, <2>7 DEF Safe, AnswerFromClosed, AnsweredByClosed
  <2>9. AnswerNamesPeer(c)' /\ FinIsLast(c)'
    BY <2>4, <2>5 DEF AnswerNamesPeer, FinIsLast, InTransit, ClientSocket
  <2>10. QED  BY <1>4, <2>8, <2>9 DEF Safe
<1>8. QED  BY <1>6, <1>7 DEF Hosts

-----------------------------------------------------------------------------
(***************************************************************************)
(* Every step keeps the invariant.                                         *)
(***************************************************************************)

\* Initially nothing is connected and nothing on its way.
LEMMA InitSafe ==
    ASSUME Init, NEW c \in Connections
    PROVE  Safe(c)
<1>1. /\ channel[<<c, "client">>] = <<>> /\ channel[<<c, "server">>] = <<>>
      /\ finalized = {}
      /\ \A n \in 0 .. MaxSockets :
            ~ connected[<<c, n>>] /\ outcome[<<c, n>>] = "none"
  BY SocketFacts DEF Init, Hosts
<1>2. 1 .. Len(<<>>) = {}
  BY EmptySeq
<1>3. ~ InTransit(c, "client", "FINACK") /\ ~ InTransit(c, "server", "FINACK")
  BY <1>1, <1>2 DEF InTransit
<1>4. AnswerNamesPeer(c) /\ FinIsLast(c)
  BY <1>1, <1>2 DEF AnswerNamesPeer, FinIsLast
<1>5. ConnectedWasFinalized(c) /\ ServerAgrees(c)
  BY <1>1 DEF ConnectedWasFinalized, ServerAgrees
<1>6. AnswerFromClosed(c) /\ AnsweredByClosed(c)
  BY <1>1, <1>3 DEF AnswerFromClosed, AnsweredByClosed
<1>7. QED  BY <1>4, <1>5, <1>6 DEF Safe

\* A step about another connection, or none.
LEMMA ElsewhereSafe ==
    ASSUME TypeOK, TypeOK', NEW c \in Connections, Safe(c),
           \A host \in Hosts : channel'[<<c, host>>] = channel[<<c, host>>],
           \A n \in 0 .. MaxSockets :
              /\ connected'[<<c, n>>] = connected[<<c, n>>]
              /\ <<c, n>> \in finalized' <=> <<c, n>> \in finalized
              /\ outcome'[<<c, n>>] = outcome[<<c, n>>],
           peerNumber'[c] = peerNumber[c]
    PROVE  Safe(c)'
<1>1. ASSUME NEW host \in Hosts
      PROVE  Kept(channel[<<c, host>>], channel'[<<c, host>>])
  <2>1. channel[<<c, host>>] \in Seq(Message)
    BY DEF TypeOK
  <2>2. Kept(channel[<<c, host>>], channel[<<c, host>>])
    BY <2>1, SameIsKept
  <2>3. QED  BY <2>2
<1>2. QED  BY <1>1, NothingNew

\* The reader of a host: each of its branches.
LEMMA ParseSegmentSafe ==
    ASSUME TypeOK, TypeOK', NEW c \in Connections, NEW host \in Hosts, Safe(c),
           ParseSegment(c, host)
    PROVE  Safe(c)'
<1> DEFINE message == Head(channel[<<c, host>>])
<1>1. /\ channel[<<c, host>>] # <<>>
      /\ channel[<<c, host>>] \in Seq(Message)
      /\ Other(host) \in Hosts
      /\ channel[<<c, Other(host)>>] \in Seq(Message)
  BY SocketFacts DEF ParseSegment, TypeOK
<1>2. message \in Message
  BY <1>1, HeadTailProperties
<1>3. <<>> \in Seq(Message) /\ channel[<<c, Other(host)>>] \o <<>>
                                   = channel[<<c, Other(host)>>]
  BY <1>1, EmptySeq, ConcatEmptySeq
<1>4. ASSUME Take(c, host, <<>>)
      PROVE  /\ \A h \in Hosts : Kept(channel[<<c, h>>], channel'[<<c, h>>])
             /\ channel'[<<c, Other(host)>>] = channel[<<c, Other(host)>>]
  <2>1. /\ Kept(channel[<<c, host>>], channel'[<<c, host>>])
        /\ channel'[<<c, Other(host)>>] = channel[<<c, Other(host)>>]
    BY <1>1, <1>3, <1>4, TakeChannels
  <2>2. Kept(channel[<<c, Other(host)>>], channel'[<<c, Other(host)>>])
    BY <1>1, <2>1, SameIsKept
  <2>3. \A h \in Hosts : h = host \/ h = Other(host)
    BY DEF Hosts, Other
  <2>4. QED  BY <2>1, <2>2, <2>3
<1>5. ASSUME NEW m \in Message, Take(c, host, <<m>>)
      PROVE  /\ Kept(channel[<<c, host>>], channel'[<<c, host>>])
             /\ Longer(channel[<<c, Other(host)>>],
                       channel'[<<c, Other(host)>>], m)
  <2>1. <<m>> \in Seq(Message)
    OBVIOUS
  <2>2. /\ Kept(channel[<<c, host>>], channel'[<<c, host>>])
        /\ channel'[<<c, Other(host)>>] = channel[<<c, Other(host)>>] \o <<m>>
    BY <1>1, <1>5, <2>1, TakeChannels
  <2>3. QED  BY <1>1, <2>2, AppendIsLonger
<1>6. CASE Take(c, host, <<>>)
           /\ UNCHANGED <<connected, finalized, peerNumber, outcome>>
  BY <1>4, <1>6, NothingNew
<1>7. ASSUME NEW s \in mapped, s[1] = c, Host(s) = host,
             Handshake(s, message) \/ ClosedByPeer(s, message)
             \/ CloseAnswered(s, message) \/ Ignored(s, message)
      PROVE  Safe(c)'
  <2>1. s \in Sockets /\ s = <<c, s[2]>> /\ s[2] \in 0 .. MaxSockets
    BY <1>7, SocketFacts DEF TypeOK
  <2>2. CASE Handshake(s, message) /\ AtClient(s)
    <3>1. s = ClientSocket(c) /\ host = "client"
      BY <1>7, <2>1, <2>2, SocketFacts DEF Host
    <3>2. /\ message.type = "SYNACK" /\ s \notin finalized
          /\ connected' = [connected EXCEPT ![s] = TRUE]
          /\ finalized' = finalized \union {s}
          /\ peerNumber' = [peerNumber EXCEPT ![c] = message.number]
          /\ Take(c, host, <<message>>)
          /\ outcome' = outcome
      BY <1>7, <2>2 DEF Handshake, Acknowledges
    <3>3. /\ Kept(channel[<<c, "client">>], channel'[<<c, "client">>])
          /\ Longer(channel[<<c, "server">>], channel'[<<c, "server">>], message)
      BY <1>2, <1>5, <3>1, <3>2 DEF Other
    <3> HIDE DEF message
    <3>4. QED  BY <1>2, <2>1, <3>1, <3>2, <3>3, ClientHandshake
  <2>3. CASE Handshake(s, message) /\ ~ AtClient(s)
    <3>1. host = "server" /\ s[2] \in 1 .. MaxSockets
      <4>1. s[2] # 0 /\ host = "server"
        BY <1>7, <2>3 DEF AtClient, Host
      <4>2. QED  BY <2>1, <4>1, ConnectionAssumption DEF MaxSockets
    <3>2. /\ message.type = "SYNACK" /\ message.number = s[2]
          /\ connected' = [connected EXCEPT ![s] = TRUE]
          /\ finalized' = finalized \union {s}
          /\ Take(c, host, <<>>)
          /\ UNCHANGED <<peerNumber, outcome>>
      BY <1>7, <2>3 DEF Handshake, Acknowledges
    <3>3. /\ Kept(channel[<<c, "server">>], channel'[<<c, "server">>])
          /\ channel'[<<c, "client">>] = channel[<<c, "client">>]
      BY <1>4, <3>1, <3>2 DEF Other
    <3>4. QED  BY <1>1, <2>1, <3>1, <3>2, <3>3, ServerHandshake
  <2>4. CASE ClosedByPeer(s, message)
    <3> DEFINE answer == Segment("FINACK", 0)
    <3>1. answer \in Message /\ answer.type = "FINACK"
      BY SegmentType, ConnectionAssumption DEF MaxSockets
    <3> HIDE DEF answer
    <3>2. /\ message.type = "FIN" /\ connected[s]
          /\ connected' = [connected EXCEPT ![s] = FALSE]
          /\ Take(c, host, <<answer>>)
          /\ UNCHANGED <<finalized, peerNumber, outcome>>
      BY <1>7, <2>4 DEF ClosedByPeer, answer
    <3>3. /\ Kept(channel[<<c, host>>], channel'[<<c, host>>])
          /\ Longer(channel[<<c, Other(host)>>],
                    channel'[<<c, Other(host)>>], answer)
      BY <1>5, <3>1, <3>2
    <3>4. QED  BY <1>1, <1>7, <2>1, <3>1, <3>2, <3>3, FinAnswered
  <2>5. CASE CloseAnswered(s, message)
    <3>1. /\ message.type = "FINACK" /\ Take(c, host, <<>>)
          /\ connected' = [connected EXCEPT ![s] = FALSE]
          /\ UNCHANGED <<finalized, peerNumber>>
          /\ \A t \in Sockets : t # s => outcome'[t] = outcome[t]
      BY <1>7, <2>5 DEF CloseAnswered, TypeOK
    <3>2. InTransit(c, host, "FINACK")
      <4>1. 1 \in 1 .. Len(channel[<<c, host>>])
            /\ message = channel[<<c, host>>][1]
        BY <1>1, EmptySeq, HeadTailProperties
      <4>2. QED  BY <3>1, <4>1 DEF InTransit
    <3>3. IF s[2] = 0 THEN ServerClosed(c) ELSE ClientClosed(c)
      BY <1>7, <3>2 DEF Safe, AnswerFromClosed, Host, AtClient
    <3>4. \A n \in 0 .. MaxSockets :
            /\ connected'[<<c, n>>] => connected[<<c, n>>]
            /\ outcome'[<<c, n>>] = "answered" =>
                  \/ outcome[<<c, n>>] = "answered"
                  \/ IF n = 0 THEN ServerClosed(c) ELSE ClientClosed(c)
      <4> TAKE n \in 0 .. MaxSockets
      <4>1. <<c, n>> \in Sockets
        BY SocketFacts
      <4>2. CASE <<c, n>> = s
        BY <2>1, <3>1, <3>3, <4>1, <4>2 DEF TypeOK
      <4>3. CASE <<c, n>> # s
        BY <3>1, <4>1, <4>3 DEF TypeOK
      <4>4. QED  BY <4>2, <4>3
    <3>5. QED  BY <1>4, <3>1, <3>4, NothingNew
  <2>6. CASE Ignored(s, message)
    BY <1>6, <1>7, <2>6 DEF Ignored
  <2>7. QED  BY <1>7, <2>2, <2>3, <2>4, <2>5, <2>6
<1>8. QED  BY <1>6, <1>7 DEF ParseSegment

\* The reader touches one connection only.
LEMMA ParseSegmentElsewhere ==
    ASSUME TypeOK, NEW d \in Connections, NEW host \in Hosts,
           ParseSegment(d, host), NEW c \in Connections, c # d
    PROVE  /\ \A h \in Hosts : channel'[<<c, h>>] = channel[<<c, h>>]
           /\ \A n \in 0 .. MaxSockets :
                 /\ connected'[<<c, n>>] = connected[<<c, n>>]
                 /\ <<c, n>> \in finalized' <=> <<c, n>> \in finalized
                 /\ outcome'[<<c, n>>] = outcome[<<c, n>>]
           /\ peerNumber'[c] = peerNumber[c]
<1> DEFINE message == Head(channel[<<d, host>>])
<1>1. /\ channel[<<d, host>>] # <<>>
      /\ channel[<<d, host>>] \in Seq(Message)
  BY DEF ParseSegment, TypeOK
<1>2. /\ message \in Message
      /\ <<>> \in Seq(Message)
      /\ <<message>> \in Seq(Message)
      /\ <<Segment("FINACK", 0)>> \in Seq(Message)
  <2>1. message \in Message /\ Segment("FINACK", 0) \in Message
    BY <1>1, HeadTailProperties, SegmentType, ConnectionAssumption DEF MaxSockets
  <2>2. QED  BY <2>1, EmptySeq
<1>3. \E answer \in Seq(Message) : Take(d, host, answer)
  <2>1. ASSUME NEW s \in mapped, s[1] = d, Host(s) = host,
               Handshake(s, message) \/ ClosedByPeer(s, message)
               \/ CloseAnswered(s, message) \/ Ignored(s, message)
        PROVE  \E answer \in Seq(Message) : Take(d, host, answer)
    <3> HIDE DEF message
    <3>1. CASE Handshake(s, message)
      BY <1>2, <2>1, <3>1 DEF Handshake
    <3>2. CASE ClosedByPeer(s, message)
      BY <1>2, <2>1, <3>2 DEF ClosedByPeer
    <3>3. CASE CloseAnswered(s, message)
      BY <1>2, <2>1, <3>3 DEF CloseAnswered
    <3>4. CASE Ignored(s, message)
      BY <1>2, <2>1, <3>4 DEF Ignored
    <3>5. QED  BY <2>1, <3>1, <3>2, <3>3, <3>4
  <2>2. QED  BY <1>2, <2>1 DEF ParseSegment
<1>4. \A h \in Hosts : channel'[<<c, h>>] = channel[<<c, h>>]
  <2>1. PICK answer \in Seq(Message) : Take(d, host, answer)
    BY <1>3
  <2>2. \A e \in Connections \ {d}, h \in Hosts :
          channel'[<<e, h>>] = channel[<<e, h>>]
    BY <1>1, <2>1, TakeChannels
  <2>3. QED  BY <2>2
<1>5. \/ UNCHANGED <<connected, finalized, peerNumber, outcome>>
      \/ \E s \in mapped : /\ s[1] = d
                           /\ \/ Handshake(s, message)
                              \/ ClosedByPeer(s, message)
                              \/ CloseAnswered(s, message)
                              \/ Ignored(s, message)
  BY DEF ParseSegment
<1>6. ASSUME NEW s \in Sockets, s[1] = d,
             Handshake(s, message) \/ ClosedByPeer(s, message)
             \/ CloseAnswered(s, message) \/ Ignored(s, message)
      PROVE  /\ \A n \in 0 .. MaxSockets :
                   /\ connected'[<<c, n>>] = connected[<<c, n>>]
                   /\ <<c, n>> \in finalized' <=> <<c, n>> \in finalized
                   /\ outcome'[<<c, n>>] = outcome[<<c, n>>]
             /\ peerNumber'[c] = peerNumber[c]
  <2>1. \A j \in 0 .. MaxSockets : <<c, j>> \in Sockets /\ <<c, j>> # s
    BY <1>6, SocketFacts
  <2>2. /\ connected \in [Sockets -> BOOLEAN]
        /\ peerNumber \in [Connections -> 0 .. MaxSockets]
        /\ DOMAIN outcome = Sockets
    BY DEF TypeOK
  <2> HIDE DEF message
  <2>3. CASE Handshake(s, message)
    BY <1>6, <2>1, <2>2, <2>3 DEF Handshake
  <2>4. CASE ClosedByPeer(s, message)
    BY <1>6, <2>1, <2>2, <2>4 DEF ClosedByPeer
  <2>5. CASE CloseAnswered(s, message)
    BY <1>6, <2>1, <2>2, <2>5 DEF CloseAnswered
  <2>6. CASE Ignored(s, message)
    BY <1>6, <2>1, <2>2, <2>6 DEF Ignored
  <2>7. QED  BY <1>6, <2>3, <2>4, <2>5, <2>6
<1>7. QED  BY <1>4, <1>5, <1>6 DEF TypeOK

\* Every step.
LEMMA NextSafe ==
    ASSUME TypeOK, TypeOK', \A c \in Connections : Safe(c), [Next]_vars
    PROVE  \A c \in Connections : Safe(c)'
<1> SUFFICES ASSUME NEW c \in Connections
             PROVE  Safe(c)'
  OBVIOUS
<1>1. Safe(c)
  OBVIOUS
<1>2. /\ \A j \in 0 .. MaxSockets : <<c, j>> \in Sockets
      /\ \A host \in Hosts : <<c, host>> \in Connections \X Hosts
  BY SocketFacts
<1>3. CASE UNCHANGED <<connected, finalized, peerNumber, channel>>
           /\ \A s \in Sockets :
                 outcome'[s] = "answered" => outcome[s] = "answered"
  <2>1. \A host \in Hosts : Kept(channel[<<c, host>>], channel'[<<c, host>>])
    BY <1>2, <1>3, SameIsKept DEF TypeOK
  <2>2. QED  BY <1>1, <1>2, <1>3, <2>1, NothingNew
<1>4. ASSUME NEW d \in Connections, NEW host \in Hosts, NEW m \in Message,
             Send(d, host, m), m.type # "FINACK",
             host = "server" => m.type # "SYNACK",
             m.type = "FIN" => ClientSocket(d) \in finalized,
             UNCHANGED <<connected, finalized, peerNumber, outcome>>
      PROVE  Safe(c)'
  <2>1. /\ channel'[<<d, host>>] = Append(channel[<<d, host>>], m)
        /\ \A e \in Connections, h \in Hosts :
              <<e, h>> # <<d, host>> => channel'[<<e, h>>] = channel[<<e, h>>]
    BY <1>4, SendChannels
  <2>2. CASE c = d
    <3>1. channel'[<<c, Other(host)>>] = channel[<<c, Other(host)>>]
      BY <2>1, <2>2, SocketFacts
    <3>2. Longer(channel[<<c, host>>], channel'[<<c, host>>], m)
      <4>1. channel[<<c, host>>] \in Seq(Message)
        BY <1>2 DEF TypeOK
      <4>2. QED  BY <2>1, <2>2, <4>1, AppendIsLonger
    <3>3. QED  BY <1>1, <1>4, <2>2, <3>1, <3>2, SendKeepsSafe
  <2>3. CASE c # d
    <3>1. \A h \in Hosts : channel'[<<c, h>>] = channel[<<c, h>>]
      BY <2>1, <2>3
    <3>2. QED  BY <1>1, <1>4, <3>1, ElsewhereSafe
  <2>4. QED  BY <2>2, <2>3
<1>5. CASE Get
  <2>1. PICK n \in 1 .. MaxSockets :
          Send(Head(incoming), "client", Segment("SYNACK", n))
    BY <1>5 DEF Get
  <2>2. incoming # <<>>
        /\ UNCHANGED <<connected, finalized, peerNumber, outcome>>
    BY <1>5 DEF Get
  <2>3. Head(incoming) \in Connections
    BY <2>2, HeadTailProperties DEF TypeOK
  <2> DEFINE m == Segment("SYNACK", n)
  <2>4. n \in 0 .. MaxSockets
    BY ConnectionAssumption DEF MaxSockets
  <2>5. m \in Message /\ m.type = "SYNACK"
    BY <2>4, SegmentType
  <2>6. "client" \in Hosts
    BY DEF Hosts
  <2>7. Send(Head(incoming), "client", m)
    BY <2>1
  <2> HIDE DEF m
  <2>8. QED  BY <1>4, <2>2, <2>3, <2>5, <2>6, <2>7
<1>6. CASE GetReturns
  BY <1>3, <1>6 DEF GetReturns
<1>7. CASE ReaderResumes
  BY <1>3, <1>7 DEF ReaderResumes
<1>8. ASSUME NEW d \in Connections, Connect(d)
      PROVE  Safe(c)'
  <2> DEFINE m == Segment("SYN", 0)
  <2>1. m \in Message /\ m.type = "SYN"
    BY SegmentType, ConnectionAssumption DEF MaxSockets
  <2>2. Send(d, "server", m) /\ "server" \in Hosts
        /\ UNCHANGED <<connected, finalized, peerNumber, outcome>>
    BY <1>8 DEF Connect, Hosts
  <2> HIDE DEF m
  <2>3. QED  BY <1>4, <2>1, <2>2
<1>9. ASSUME NEW d \in Connections, ConnectReturns(d) \/ ConnectFails(d)
      PROVE  Safe(c)'
  BY <1>3, <1>9 DEF ConnectReturns, ConnectFails
<1>10. ASSUME NEW d \in Connections, AddConnectionInfo(d)
       PROVE  Safe(c)'
  <2>1. /\ channel[<<d, "server">>] # <<>>
        /\ Take(d, "server", <<>>)
        /\ UNCHANGED <<connected, finalized, peerNumber, outcome>>
    BY <1>10 DEF AddConnectionInfo
  <2>2. /\ <<>> \in Seq(Message) /\ "server" \in Hosts /\ "client" \in Hosts
        /\ Other("server") = "client"
        /\ \A h \in Hosts : h = "server" \/ h = "client"
    BY EmptySeq DEF Hosts, Other
  <2>3. /\ Kept(channel[<<d, "server">>], channel'[<<d, "server">>])
        /\ channel'[<<d, "client">>] = channel[<<d, "client">>] \o <<>>
        /\ \A e \in Connections \ {d}, h \in Hosts :
              channel'[<<e, h>>] = channel[<<e, h>>]
    BY <2>1, <2>2, TakeChannels, ZenonT(60)
  <2>4. channel[<<d, "client">>] \in Seq(Message)
    BY <2>2 DEF TypeOK
  <2>5. channel'[<<d, "client">>] = channel[<<d, "client">>]
    BY <2>3, <2>4, ConcatEmptySeq
  <2>6. \A h \in Hosts : Kept(channel[<<c, h>>], channel'[<<c, h>>])
    <3>1. CASE c = d
      BY <2>2, <2>3, <2>4, <2>5, <3>1, SameIsKept
    <3>2. CASE c # d
      BY <1>2, <2>3, <3>2, SameIsKept DEF TypeOK
    <3>3. QED  BY <3>1, <3>2
  <2>7. QED  BY <1>1, <2>1, <2>6, NothingNew
<1>11. ASSUME NEW d \in Connections, NEW host \in Hosts, ParseSegment(d, host)
       PROVE  Safe(c)'
  <2>1. CASE c = d
    BY <1>11, <2>1, ParseSegmentSafe
  <2>2. CASE c # d
    <3>1. /\ \A h \in Hosts : channel'[<<c, h>>] = channel[<<c, h>>]
          /\ \A n \in 0 .. MaxSockets :
                /\ connected'[<<c, n>>] = connected[<<c, n>>]
                /\ <<c, n>> \in finalized' <=> <<c, n>> \in finalized
                /\ outcome'[<<c, n>>] = outcome[<<c, n>>]
          /\ peerNumber'[c] = peerNumber[c]
      BY <1>11, <2>2, ParseSegmentElsewhere
    <3>2. QED  BY <1>1, <3>1, ElsewhereSafe
  <2>3. QED  BY <2>1, <2>2
<1>12. ASSUME NEW d \in Connections, NEW host \in Hosts, Lose(d, host)
       PROVE  Safe(c)'
  <2>1. /\ channel[<<d, host>>] # <<>>
        /\ channel[<<d, host>>] \in Seq(Message)
        /\ channel \in [Connections \X Hosts -> Seq(Message)]
        /\ channel' = [channel EXCEPT ![<<d, host>>] = Tail(@)]
        /\ UNCHANGED <<connected, finalized, peerNumber, outcome>>
    BY <1>12 DEF Lose, TypeOK
  <2>2. \A h \in Hosts : Kept(channel[<<c, h>>], channel'[<<c, h>>])
    <3> TAKE h \in Hosts
    <3>1. CASE <<c, h>> = <<d, host>>
      BY <1>2, <2>1, <3>1, TailIsKept
    <3>2. CASE <<c, h>> # <<d, host>>
      BY <1>2, <2>1, <3>2, SameIsKept
    <3>3. QED  BY <3>1, <3>2
  <2>3. QED  BY <1>1, <2>1, <2>2, NothingNew
<1>13. ASSUME NEW s \in Sockets, RemoveSocket(s)
       PROVE  Safe(c)'
  <2>1. CASE connected[s]
    <3> DEFINE m == Segment("FIN", 0)
    <3>1. m \in Message /\ m.type = "FIN"
      BY SegmentType, ConnectionAssumption DEF MaxSockets
    <3>2. Send(s[1], Other(Host(s)), m)
          /\ UNCHANGED <<connected, finalized, peerNumber, outcome>>
      BY <1>13, <2>1 DEF RemoveSocket
    <3>3. s[1] \in Connections /\ Other(Host(s)) \in Hosts
      BY SocketFacts
    <3>4. ClientSocket(s[1]) \in finalized
      <4>1. s \in finalized
        BY <2>1, <3>3, SocketFacts DEF Safe, ConnectedWasFinalized
      <4>2. CASE AtClient(s)
        BY <4>1, <4>2, SocketFacts
      <4>3. CASE ~ AtClient(s)
        <5>1. s[2] \in 1 .. MaxSockets /\ s = <<s[1], s[2]>>
          BY <4>3, SocketFacts, ConnectionAssumption DEF AtClient, MaxSockets
        <5>2. QED  BY <3>3, <4>1, <5>1 DEF Safe, ServerAgrees
      <4>4. QED  BY <4>2, <4>3
    <3> HIDE DEF m
    <3>5. QED  BY <1>4, <3>1, <3>2, <3>3, <3>4
  <2>2. CASE ~ connected[s]
    BY <1>3, <1>13, <2>2 DEF RemoveSocket, TypeOK
  <2>3. QED  BY <2>1, <2>2
<1>14. ASSUME NEW s \in Sockets, DisconnectReturns(s) \/ Forget(s)
       PROVE  Safe(c)'
  BY <1>3, <1>14 DEF DisconnectReturns, Forget, TypeOK
<1>15. ASSUME NEW s \in Sockets, SendGivesUp(s)
       PROVE  Safe(c)'
  <2>1. /\ connected' = [connected EXCEPT ![s] = FALSE]
        /\ UNCHANGED <<finalized, peerNumber, outcome, channel>>
    BY <1>15 DEF SendGivesUp
  <2>2. \A n \in 0 .. MaxSockets : connected'[<<c, n>>] => connected[<<c, n>>]
    BY <1>2, <2>1 DEF TypeOK
  <2>3. \A host \in Hosts : Kept(channel[<<c, host>>], channel'[<<c, host>>])
    BY <1>2, <2>1, SameIsKept DEF TypeOK
  <2>4. QED  BY <1>1, <2>1, <2>2, <2>3, NothingNew
<1>16. CASE UNCHANGED vars
  BY <1>3, <1>16 DEF vars
<1>17. QED
  BY <1>5, <1>6, <1>7, <1>8, <1>9, <1>10, <1>11, <1>12, <1>13, <1>14, <1>15,
     <1>16 DEF Next

\* The inductive invariant.
LEMMA InvInvariant == Spec => []Inv
<1>1. Init => Inv
  BY InitType, InitSafe DEF Inv
<1>2. Inv /\ [Next]_vars => Inv'
  BY NextType, NextSafe DEF Inv
<1>3. QED  BY <1>1, <1>2, PTL DEF Spec

(***************************************************************************)
(* A server socket is connected only to the client whose handshake was with*)
(* this very socket, however many repeated SYNs made sockets of their own. *)
(***************************************************************************)
THEOREM ServerKnowsItsClient == Spec => []PeersAgree
<1>1. Inv => PeersAgree
  <2> SUFFICES ASSUME Inv, NEW s \in Sockets, ~ AtClient(s), s \in finalized
               PROVE  ClientSocket(s[1]) \in finalized /\ peerNumber[s[1]] = s[2]
    BY DEF PeersAgree
  <2>1. /\ s[1] \in Connections /\ s = <<s[1], s[2]>>
        /\ s[2] \in 1 .. MaxSockets
    BY SocketFacts, ConnectionAssumption DEF AtClient, MaxSockets
  <2>2. QED  BY <2>1 DEF Inv, Safe, ServerAgrees
<1>2. QED  BY <1>1, InvInvariant, PTL

(***************************************************************************)
(* When FIN was answered the other end is closed and stays closed, also    *)
(* when a late answer of the handshake or a repeated FIN still arrives.    *)
(***************************************************************************)
THEOREM AnswerMeansClosed == Spec => []AnsweredMeansClosed
<1>1. Inv => AnsweredMeansClosed
  <2> SUFFICES ASSUME Inv, NEW s \in Sockets, outcome[s] = "answered"
               PROVE  ~ connected[PeerSocket(s)]
    BY DEF AnsweredMeansClosed
  <2>1. /\ s[1] \in Connections /\ s = <<s[1], s[2]>>
        /\ s[2] \in 0 .. MaxSockets
    BY SocketFacts
  <2>2. IF s[2] = 0 THEN ServerClosed(s[1]) ELSE ClientClosed(s[1])
    BY <2>1 DEF Inv, Safe, AnsweredByClosed
  <2>3. QED  BY <2>2 DEF PeerSocket, AtClient, ServerClosed, ClientClosed
<1>2. QED  BY <1>1, InvInvariant, PTL

=============================================================================
