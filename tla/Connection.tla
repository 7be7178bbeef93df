----------------------------- MODULE Connection -----------------------------
(***************************************************************************)
(* How connections are opened and closed: TransportLayer::connect and      *)
(* remove, Listener::get and addConnectionInfo, the SYN and FIN branches of*)
(* Socket::parseSegment and the TransportReader thread of the server.      *)
(*                                                                         *)
(* One server host with one listener; every connection comes from an       *)
(* application thread of its own on some client host.  A connection is     *)
(* named by the client's address and port, which getFreePort never hands   *)
(* out twice.  The data phase is SocketTransfer: here it may only end with *)
(* a send that gives up.                                                   *)
(***************************************************************************)
EXTENDS Naturals, Sequences

CONSTANTS
    Connections,     \* the client ends that call connect, once each
    Free,            \* the reader thread is not blocked
    MaxDuplicates,   \* bound: segments the MAC sublayers deliver twice
    Lossy,           \* may a segment be lost?
    Slow             \* may a segment take longer than a timer?

ASSUME ConnectionAssumption ==
    /\ Free \notin Connections
    /\ MaxDuplicates \in Nat
    /\ Lossy \in BOOLEAN
    /\ Slow \in BOOLEAN

\* Socket 0 of a connection is the client's; the listener creates one for each
\* SYN it gets, the original and the repeated ones.
MaxSockets == 1 + MaxDuplicates
Sockets == Connections \X (0 .. MaxSockets)
ClientSocket(c) == <<c, 0>>
AtClient(s) == s[2] = 0
Hosts == {"client", "server"}
Other(host) == IF host = "client" THEN "server" ELSE "client"
Host(s) == IF AtClient(s) THEN "client" ELSE "server"

\* Both answers of the handshake carry SYN and ACK; number is the server socket
\* whose initial sequence number they carry or acknowledge.
Message == [type : {"SYN", "SYNACK", "FIN", "FINACK"}, number : 0 .. MaxSockets]

VARIABLES
    pc,          \* the application thread's call on each socket
    outcome,     \* how its call of disconnect ended
    connected,   \* m_connected
    finalized,   \* sockets that have gone through finalizeConnecting
    peerNumber,  \* m_destinationSequence of a client: the server socket it names
    mapped,      \* the sockets in the m_socketsMap of their hosts
    channel,     \* segments on their way to a host about a connection
    incoming,    \* m_incommingConnections
    listener,    \* sockets whose answer Listener::get waits for: none or one
    reader,      \* the SYN the server's reader is blocked with, or Free
    duplicates   \* segments delivered twice so far

vars == <<pc, outcome, connected, finalized, peerNumber, mapped, channel,
          incoming, listener, reader, duplicates>>

-----------------------------------------------------------------------------

\* The sockets with the same key in the map of the same host.
SameId(s) == { t \in Sockets : t[1] = s[1] /\ AtClient(t) = AtClient(s) }

PeerSocket(s) ==
    IF AtClient(s) THEN <<s[1], peerNumber[s[1]]>> ELSE ClientSocket(s[1])

Send(c, host, message) ==
    channel' = [channel EXCEPT ![<<c, host>>] = Append(@, message)]

\* Mutant: the number is increased before the segment is filled in, not after.
MutSegment(type, number) == [type |-> type, number |-> number + 1]

Segment(type, number) == [type |-> type, number |-> number]

\* The head of a channel is taken, unless it will arrive once more; answer goes
\* the other way.
Take(c, host, answer) ==
    \E again \in BOOLEAN :
        /\ again => duplicates < MaxDuplicates
        /\ duplicates' = IF again THEN duplicates + 1 ELSE duplicates
        /\ channel' = [channel EXCEPT
                          ![<<c, host>>] = IF again THEN @ ELSE Tail(@),
                          ![<<c, Other(host)>>] = @ \o answer]

\* No reader can do anything.
Quiet ==
    /\ \A c \in Connections : channel[<<c, "client">>] = <<>>
    /\ IF reader = Free THEN \A c \in Connections : channel[<<c, "server">>] = <<>>
       ELSE listener # {}

\* A wait with a time ends without a wake-up.
TimerExpires == Slow \/ Quiet

-----------------------------------------------------------------------------
(***************************************************************************)
(* TransportLayer::connect                                                 *)
(***************************************************************************)

Connect(c) ==
    LET s == ClientSocket(c)
    IN /\ pc[s] = "none"
       /\ pc' = [pc EXCEPT ![s] = "connecting"]
       /\ mapped' = mapped \union {s}
       /\ Send(c, "server", Segment("SYN", 0))
       /\ UNCHANGED <<outcome, connected, finalized, peerNumber, incoming,
                      listener, reader, duplicates>>

\* Socket::connect was woken, or waited for a second: it returns m_connected.
ConnectReturns(c) ==
    LET s == ClientSocket(c)
    IN /\ pc[s] = "connecting"
       /\ connected[s] \/ TimerExpires
       /\ pc' = [pc EXCEPT ![s] = IF connected[s] THEN "open" ELSE "failing"]
       /\ UNCHANGED <<outcome, connected, finalized, peerNumber, mapped, channel,
                      incoming, listener, reader, duplicates>>

\* connect failed: only now the socket leaves the map, and NULL is returned.
ConnectFails(c) ==
    LET s == ClientSocket(c)
    IN /\ pc[s] = "failing"
       /\ pc' = [pc EXCEPT ![s] = "failed"]
       /\ mapped' = mapped \ SameId(s)
       /\ UNCHANGED <<outcome, connected, finalized, peerNumber, channel,
                      incoming, listener, reader, duplicates>>

-----------------------------------------------------------------------------
(***************************************************************************)
(* Listener::get                                                           *)
(***************************************************************************)

\* The oldest request is taken, its socket created and the answer sent.  The
\* wait for the client's answer keeps m_incommingConnectionsMutex locked.
Get ==
    /\ listener = {}
    /\ incoming # <<>>
    /\ \E n \in 1 .. MaxSockets :
          LET c == Head(incoming)
              s == <<c, n>>
          IN /\ pc[s] = "none"
             /\ \A j \in 1 .. n - 1 : pc[<<c, j>>] # "none"
             /\ incoming' = Tail(incoming)
             /\ listener' = {s}
             /\ pc' = [pc EXCEPT ![s] = "responding"]
             /\ mapped' = (mapped \ SameId(s)) \union {s}
             /\ Send(c, "client", Segment("SYNACK", n))
    /\ UNCHANGED <<outcome, connected, finalized, peerNumber, reader, duplicates>>

\* Mutant: sendConnectResponse waits without a time.
MutGetReturns ==
    \E s \in listener :
        /\ connected[s]
        /\ pc' = [pc EXCEPT ![s] = "open"]
        /\ listener' = {}
        /\ UNCHANGED <<outcome, connected, finalized, peerNumber, mapped, channel,
                       incoming, reader, duplicates>>

\* sendConnectResponse was woken or waited for a second: the socket is returned.
GetReturns ==
    \E s \in listener :
        /\ connected[s] \/ TimerExpires
        /\ pc' = [pc EXCEPT ![s] = "open"]
        /\ listener' = {}
        /\ UNCHANGED <<outcome, connected, finalized, peerNumber, mapped, channel,
                       incoming, reader, duplicates>>

-----------------------------------------------------------------------------
(***************************************************************************)
(* TransportReader: TransportLayer::parseSegment                           *)
(***************************************************************************)

\* addConnectionInfo waits for the mutex that get holds: the reader is blocked.
AddConnectionInfo(c) ==
    /\ reader = Free
    /\ channel[<<c, "server">>] # <<>>
    /\ Head(channel[<<c, "server">>]).type = "SYN"
    /\ Take(c, "server", <<>>)
    /\ IF listener = {}
       THEN incoming' = Append(incoming, c) /\ UNCHANGED reader
       ELSE reader' = c /\ UNCHANGED incoming
    /\ UNCHANGED <<pc, outcome, connected, finalized, peerNumber, mapped, listener>>

\* get has returned: the blocked reader appends the request.
ReaderResumes ==
    /\ reader # Free
    /\ listener = {}
    /\ incoming' = Append(incoming, reader)
    /\ reader' = Free
    /\ UNCHANGED <<pc, outcome, connected, finalized, peerNumber, mapped, channel,
                   listener, duplicates>>

\* Mutant: any acknowledgement completes the handshake.
MutAcknowledges(s, message) == TRUE

\* packet.m_ackNumber == m_sourceSequence, in the handshake.  The client's answer
\* moves its number on.  The server's stays until it sends: one that gave up with
\* nothing acknowledged can be connected once more by a repeated answer, and one
\* that sent or answered FIN gets no answer of the handshake afterwards.
Acknowledges(s, message) ==
    IF AtClient(s) THEN s \notin finalized ELSE message.number = s[2]

\* SYN and ACK: finalizeConnecting.  The client names the server's number in
\* its own answer.
Handshake(s, message) ==
    /\ message.type = "SYNACK"
    /\ ~ connected[s]
    /\ Acknowledges(s, message)
    /\ connected' = [connected EXCEPT ![s] = TRUE]
    /\ finalized' = finalized \union {s}
    /\ peerNumber' = IF AtClient(s)
                     THEN [peerNumber EXCEPT ![s[1]] = message.number]
                     ELSE peerNumber
    /\ Take(s[1], Host(s), IF AtClient(s) THEN <<message>> ELSE <<>>)
    /\ UNCHANGED outcome

\* Mutant: FIN is answered, but the socket stays connected.
MutClosedByPeer(s, message) ==
    /\ message.type = "FIN"
    /\ connected[s]
    /\ Take(s[1], Host(s), <<Segment("FINACK", 0)>>)
    /\ UNCHANGED <<connected, finalized, peerNumber, outcome>>

ClosedByPeer(s, message) ==
    /\ message.type = "FIN"
    /\ connected[s]
    /\ connected' = [connected EXCEPT ![s] = FALSE]
    /\ Take(s[1], Host(s), <<Segment("FINACK", 0)>>)
    /\ UNCHANGED <<finalized, peerNumber, outcome>>

\* FIN and ACK: wakes disconnect, if that still waits.
CloseAnswered(s, message) ==
    /\ message.type = "FINACK"
    /\ connected[s]
    /\ connected' = [connected EXCEPT ![s] = FALSE]
    /\ outcome' = [outcome EXCEPT ![s] = IF pc[s] = "closing" THEN "answered" ELSE @]
    /\ Take(s[1], Host(s), <<>>)
    /\ UNCHANGED <<finalized, peerNumber>>

\* "Damaged packet", or a handshake that acknowledges something else.
Ignored(s, message) ==
    /\ IF message.type = "SYNACK" THEN connected[s] \/ ~ Acknowledges(s, message)
       ELSE ~ connected[s]
    /\ Take(s[1], Host(s), <<>>)
    /\ UNCHANGED <<connected, finalized, peerNumber, outcome>>

\* A segment without a socket is dropped; the reader holds no lock afterwards.
ParseSegment(c, host) ==
    /\ host = "server" => reader = Free
    /\ channel[<<c, host>>] # <<>>
    /\ LET message == Head(channel[<<c, host>>])
           found == { s \in mapped : s[1] = c /\ Host(s) = host }
       IN /\ message.type # "SYN"
          /\ \/ /\ found = {}
                /\ Take(c, host, <<>>)
                /\ UNCHANGED <<connected, finalized, peerNumber, outcome>>
             \/ \E s \in found :
                   \/ Handshake(s, message)
                   \/ ClosedByPeer(s, message)
                   \/ CloseAnswered(s, message)
                   \/ Ignored(s, message)
    /\ UNCHANGED <<pc, mapped, incoming, listener, reader>>

Lose(c, host) ==
    /\ Lossy
    /\ channel[<<c, host>>] # <<>>
    /\ channel' = [channel EXCEPT ![<<c, host>>] = Tail(@)]
    /\ UNCHANGED <<pc, outcome, connected, finalized, peerNumber, mapped, incoming,
                   listener, reader, duplicates>>

-----------------------------------------------------------------------------
(***************************************************************************)
(* TransportLayer::remove, and a send that gives up                        *)
(***************************************************************************)

\* Socket::disconnect: FIN is sent, unless the socket is not connected.  A
\* socket that was replaced in the map has been destroyed: no call on it.
RemoveSocket(s) ==
    /\ pc[s] = "open"
    /\ s \in mapped
    /\ IF connected[s]
       THEN /\ pc' = [pc EXCEPT ![s] = "closing"]
            /\ Send(s[1], Other(Host(s)), Segment("FIN", 0))
            /\ UNCHANGED outcome
       ELSE /\ pc' = [pc EXCEPT ![s] = "removing"]
            /\ outcome' = [outcome EXCEPT ![s] = "was closed"]
            /\ UNCHANGED channel
    /\ UNCHANGED <<connected, finalized, peerNumber, mapped, incoming, listener,
                   reader, duplicates>>

\* disconnect was woken, or its wait ended.
DisconnectReturns(s) ==
    /\ pc[s] = "closing"
    /\ outcome[s] = "answered" \/ TimerExpires
    /\ pc' = [pc EXCEPT ![s] = "removing"]
    /\ outcome' = [outcome EXCEPT ![s] = IF @ = "none" THEN "timed out" ELSE @]
    /\ UNCHANGED <<connected, finalized, peerNumber, mapped, channel, incoming,
                   listener, reader, duplicates>>

Forget(s) ==
    /\ pc[s] = "removing"
    /\ pc' = [pc EXCEPT ![s] = "removed"]
    /\ mapped' = mapped \ SameId(s)
    /\ UNCHANGED <<outcome, connected, finalized, peerNumber, channel, incoming,
                   listener, reader, duplicates>>

\* MAX_TIMEOUT_COUNT timeouts in a row: Socket::send returns false.
SendGivesUp(s) ==
    /\ pc[s] = "open"
    /\ s \in mapped
    /\ connected[s]
    /\ TimerExpires
    /\ Slow \/ Lossy \/ ~ connected[PeerSocket(s)]
    /\ connected' = [connected EXCEPT ![s] = FALSE]
    /\ UNCHANGED <<pc, outcome, finalized, peerNumber, mapped, channel, incoming,
                   listener, reader, duplicates>>

-----------------------------------------------------------------------------
Init ==
    /\ pc = [s \in Sockets |-> "none"]
    /\ outcome = [s \in Sockets |-> "none"]
    /\ connected = [s \in Sockets |-> FALSE]
    /\ finalized = {}
    /\ peerNumber = [c \in Connections |-> 0]
    /\ mapped = {}
    /\ channel = [end \in Connections \X Hosts |-> <<>>]
    /\ incoming = <<>>
    /\ listener = {}
    /\ reader = Free
    /\ duplicates = 0

Next ==
    \/ Get
    \/ GetReturns
    \/ ReaderResumes
    \/ \E c \in Connections :
          \/ Connect(c)
          \/ ConnectReturns(c)
          \/ ConnectFails(c)
          \/ AddConnectionInfo(c)
          \/ \E host \in Hosts : ParseSegment(c, host) \/ Lose(c, host)
    \/ \E s \in Sockets :
          \/ RemoveSocket(s)
          \/ DisconnectReturns(s)
          \/ Forget(s)
          \/ SendGivesUp(s)

Spec == Init /\ [][Next]_vars

(***************************************************************************)
(* The server calls get in a loop (SMTPServer::run), the wait inside it has*)
(* a time, and a thread blocked on a free mutex gets it.                   *)
(***************************************************************************)
ServerFairness == WF_vars(Get) /\ WF_vars(GetReturns) /\ WF_vars(ReaderResumes)

FairSpec == Spec /\ ServerFairness

-----------------------------------------------------------------------------
(***************************************************************************)
(* Properties                                                              *)
(***************************************************************************)

TypeOK ==
    /\ pc \in [Sockets -> {"none", "connecting", "failing", "failed", "responding",
                           "open", "closing", "removing", "removed"}]
    /\ outcome \in [Sockets -> {"none", "answered", "timed out", "was closed"}]
    /\ connected \in [Sockets -> BOOLEAN]
    /\ finalized \subseteq Sockets
    /\ peerNumber \in [Connections -> 0 .. MaxSockets]
    /\ mapped \subseteq Sockets
    /\ channel \in [Connections \X Hosts -> Seq(Message)]
    /\ incoming \in Seq(Connections)
    /\ listener \subseteq Sockets
    /\ reader \in Connections \union {Free}
    /\ duplicates \in 0 .. MaxDuplicates

(***************************************************************************)
(* A server socket is connected only to a client that has finished its own *)
(* handshake with this very socket: with a repeated SYN the listener makes *)
(* a second socket, and the client's answer to the first one must not      *)
(* connect it, since their sequence numbers differ.                        *)
(***************************************************************************)
PeersAgree ==
    \A s \in Sockets :
        ~ AtClient(s) /\ s \in finalized =>
            ClientSocket(s[1]) \in finalized /\ peerNumber[s[1]] = s[2]

(***************************************************************************)
(* When disconnect was answered, and remove returns true for it, the socket*)
(* at the other end is not connected any more: no end goes on with a       *)
(* connection whose other end was closed in agreement.                     *)
(***************************************************************************)
AnsweredMeansClosed ==
    \A s \in Sockets : outcome[s] = "answered" => ~ connected[PeerSocket(s)]

(***************************************************************************)
(* A reader thread blocked in addConnectionInfo, and with it every segment *)
(* for every socket of the host, goes on: it waits for the mutex that      *)
(* Listener::get holds while get waits for a segment of this reader.       *)
(***************************************************************************)
ReaderIsReleased == (reader # Free) ~> (reader = Free)

(***************************************************************************)
(* testtransportlayer.cpp:40-41: the socket get returns is connected.      *)
(* Stated where it matters: the client took its connection for established.*)
(***************************************************************************)
GetReturnsConnected ==
    \A s \in Sockets :
        ~ AtClient(s) /\ pc[s] = "open" /\ pc[ClientSocket(s[1])] = "open" =>
            s \in finalized

(***************************************************************************)
(* testtransportlayer.cpp:345 and 371: remove returns true at the end that *)
(* closes first, and at the other one.  Stated for a connection that both  *)
(* ends took for established.                                              *)
(***************************************************************************)
Established(c) ==
    /\ pc[ClientSocket(c)] \in {"open", "closing", "removing", "removed"}
    /\ <<c, peerNumber[c]>> \in finalized

RemoveSucceeds == \A s \in Sockets : Established(s[1]) => outcome[s] # "timed out"

=============================================================================
