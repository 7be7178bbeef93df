# Verification of the network simulator

TLA+ models of the programs in this repository, checked with TLC, and proofs about
them, checked with TLAPS. The repository holds three programs; the largest and by far
the most intricate is the network simulator in `src/routing/Simulator` (C++ with Qt
threads): cables, MAC frames, a link-state network layer, a TCP-like transport layer and
an SMTP client and server on top. The other two are a dictionary server (`src/dict`) and
a mail sender (`src/smtp`). All paths below are relative to `src/routing/Simulator`
unless they start with `src/`.

## 1. The system

### Parts, state and operations

| Part | Code | State | Operations |
|---|---|---|---|
| Cable | `cable/` | the attached `ConnectionPoint`s, each with a one-bit output buffer, an input queue, a collision flag and a count of free cycles | `processCycle` (the cable's thread: mixes the bits of all writers, delivers, reports collisions), `write`, `read`, `wait`, `isFree` |
| MAC sublayer | `macsublayer/` | read buffer of frames; the reader's bit buffer and counters | `write` (frame, stuff, send, back off on a collision), `MACReader::run` (unstuff, find markers), `save` (check sum, address filter), `read` |
| LLC sublayer | `llcsublayer/` | none | passes calls on |
| Network layer | `networklayer/networklayer.*`, `routingprocess.*`, `networkreader.*` | connections, neighbours, sequence number, read buffer | hello protocol, sending the neighbour list every period, `parseFrame`, `append`, `remove`, `send`, `receive` |
| Routing table | `networklayer/routingtable*` | `m_routerInfoMap` (last list of every router, who knows it, distance, next hop), `m_neighbourMap` | `updateRouterInfo`, `checkACKPackage`, `forwardPackages`, `update` (Dijkstra), `removeOld`, `forward` |
| Transport layer | `transportlayer/transportlayer.*`, `listener.*`, `transportreader.*` | map of sockets, map of listeners, queue of incoming connections | `connect`, `remove`, `createListener`, `Listener::get`, `parseSegment` |
| Socket | `transportlayer/socket.*` | sequence numbers, acknowledgement, congestion window, read buffer, two mutexes | `connect`, `sendConnectResponse`, `send`, `receive`, `parseSegment`, `disconnect` |
| SMTP | `host/` | the session's line buffer, the inbox | `SMTPClient::send`, `SMTPServer::run`, `SMTPServerThread::run` |
| Dictionary | `src/dict` | set of descriptors, list of clients, the dictionary file | `Server::run`, `Dict::search`, `Word`/`WordList` transfer |
| Mail sender | `src/smtp` | none that outlives a call | `send_message`, MIME writing, base64 |

### Interaction

Every layer owns a reader thread that calls `receive` of the layer below and a parse
function of its own layer; applications call down through `send`. A host therefore has,
per connection, a MAC reader and a network reader, and one `TransportReader`, one
`RoutingProcess`, one `RoutingTableProcess`, plus the application's threads. They share
state under Qt mutexes and wait conditions. Data crosses hosts as bits on a cable.

* `TransportReader::run` → `TransportLayer::parseSegment` → `Socket::parseSegment` or
  `Listener::addConnectionInfo`: all on the reader thread, holding `m_socketsMapMutex` or
  `m_listenersMapMutex`.
* `Socket::send` runs on the application's thread under `m_sendMutex` and
  `m_socketMutex`; only its timed wait gives up `m_socketMutex`.
* `Listener::get` runs on the server's thread and keeps `m_incommingConnectionsMutex`
  while it waits for the client's answer.

### What is hard, and what makes each part correct

* **Socket.** Loss, repetition, spurious timeouts, acknowledgements that come late, two
  ends that send at once and piggyback. Correct: the application gets a prefix of what
  the peer wrote; `send` returns true only for bytes that arrived; a send ends.
* **Connection lifecycle.** Repeated SYNs, timers that race the answer, FINs that cross, a
  reader blocked behind the listener. Correct: connected ends belong together; an
  answered close leaves no connected end; the reader goes on.
* **Flooding.** Reordered and lost lists, expiry, restarted routers, threads that touch
  the table without its mutex. Correct: an entry is never replaced by an older list,
  everyone connected learns the newest list, a neighbour marked as knowing a list has it.
* **Dijkstra and forwarding.** Correct: distances equal the reference on the same table,
  next hops lie on a shortest path, with agreeing tables a packet is not passed in a
  circle, no packet is sent to a neighbour or over a cable that is gone.
* **Locks of the network layer.** Correct: `remove` and the destructors end.
* **Framing.** Correct: a frame that is not damaged arrives as it was sent, a damaged one
  is dropped, the reader finds the next marker again.
* **Medium.** Correct: a `write` that returned true was alone on the cable; nobody begins
  while another writes; a writer is always woken.
* **SMTP, sender.** Correct: a letter the client took for accepted is in the inbox once and
  whole; a session ends at both ends; the text is sent only to a server that waits for it.
* **Dictionary.** Correct: the list is the first ten words with the prefix, for the word
  the same client asked for; one client does not stop the others.

`PROJECT.json` lists the hazards one by one at their lines, each with the properties that
would fail if it went wrong, or with the reason why none would.

## 2. The models

### `SocketTransfer`: the data phase of a connection

Two `Socket` objects, `Client` and `Server`, after both handshakes; at each end an
application thread that calls `send`, one that calls `receive`, and the reader thread
that calls `parseSegment`.

`m_socketMutex` is held by every operation except while `send` waits for its timer, so an
action is the code between two such waits:

| Action | Code |
|---|---|
| `CheckConnected` | `send`, the test of `m_connected` before any lock (`socket.cpp:69`) |
| `StartSend` | taking both locks, resetting `m_ackSequence`, the first burst (73–98) |
| `ContinueSend`, `FinishSend`, `GiveUp` | what follows the wait: count the timeout or clear the count, adjust the congestion window, roll `m_sourceSequence` back to the acknowledged byte, then next burst, return true, or return false and disconnect (99–145) |
| `ReceiveSegment`, `ReceiveDuplicate` | `parseSegment` for a data segment: store what fits, move the first missing byte, acknowledge alone or leave it to the next segment (205–302) |
| `LoseSegment` | a frame lost below, a full `m_readBuffer` of the network layer, or a segment for a disconnected socket |
| `Receive` | `receive` (148–168) |
| `Overtake` | only in `MultipathSpec`: two routes |

Abstractions. A byte is its position (1, 2, 3, …) in what the application wrote; this
keeps exactly what order, loss and repetition change. The timer may expire at any moment:
`m_rtt` shrinks on every success and has no lower bound. Sequence numbers are `uint`
numbers modulo `UintMod`, and every sum of the code is taken modulo it. The advertised
window is constant, as in the code: `finalizeConnecting` alone assigns
`m_destinationWindowSize`, from a segment sent while the buffer was empty, so the
branch for a window of 0 is not reached.

The path between the hosts keeps the order of segments. That is so on one route: a
frame is sent under `m_writeMethodMutex` after the one before it, and the read buffers are queues.
A station that saw a collision in the closing marker sends a frame again that was
received: hence duplicates, next to the original.

### `ReliableStream`: what the pair promises

Two streams, one per direction, each with a written, an arrived, a confirmed and a
delivered prefix. `SocketTransfer` implements it with `arrived` mapped to
`destinationSequence[Peer(e)] - Start[e]` and `open` to `connected`.

### `Connection`: opening and closing

One server with one listener and a client thread per connection: `Connect`,
`ConnectReturns` and `ConnectFails` are `TransportLayer::connect`; `Get` and `GetReturns`
are `Listener::get` with `createSocket` and `sendConnectResponse`; `AddConnectionInfo`
and `ReaderResumes` the reader thread for a SYN; `ParseSegment` for the handshake, FIN
and the answer to FIN; `RemoveSocket`, `DisconnectReturns` and `Forget`
`TransportLayer::remove`; `SendGivesUp` what is left of the data phase here.

Each SYN the listener gets makes a new server socket, so a repeated SYN replaces a
socket in the map. A handshake segment carries `number`, the server socket it belongs to,
for the sequence number the code compares; sockets of one listener are created in
different milliseconds and so have different numbers. A socket that was replaced is
destroyed by its shared pointer; the application may still hold the raw pointer, and what
a call on it does is undefined and not modelled.

`Lossy`, `Slow` and `MaxDuplicates` select what the network may do. With `Slow = FALSE` a timer
expires only when no reader can do anything: the runs that show a fault with it
show that the fault needs no delay.

### `LinkState`: the flooding of neighbour lists

Every router has its neighbours, its sequence number and a table with the last list of
each other router: the list's number and `m_knowsInfoSet`, the neighbours known to have
it. `HelloAnswered`, `RemoveOldNeighbours` and `RemoveConnection` change the neighbours
(`networklayer.cpp:31-74`, `128-148`, `233-249`); `SendNeighboursList` sends a router's own list
once to each of them (`163-194`); `ParseNeighbourList` is `updateRouterInfo`: reject an older
list, store a newer one, remember its sender, acknowledge, and remove what has expired
(`routingtable.cpp:77-131`, `213-228`); `CheckACKPackage` counts an acknowledgement of the
stored list (`133-146`); `ForwardPackages` sends every list to every neighbour not known to
have it (`230-253`). `Expire` is the clock passing `m_expires`, a moment the author put in the
list. Frames are lost, arrive twice and overtake each other in any way.

The distances and what `update` computes from them are the matter of `Routes`; of `update`
only `removeOld` counts here. The lists of one author expire in their order, since the author stamps them
all with one clock; the mutant of `NeverGoesBack` shows what happens when they do not.
The real clock of the simulator is shared by all its threads; routers on machines with
clocks of their own are not covered.

### `ShortestPaths` and `Routes`: routing

`ShortestPaths` is the algorithm of `RoutingTable::update` (`routingtable.cpp:148-211`), a
recursive function for each of its loops (`Visited`, `Explored`, `Turns`) over a queue with
the order a `QMultiMap` gives to equal distances, the wrap-around of `uint`, and the exclusion
of a path between two neighbours on one cable; next to it `AreShortest`, what it should
compute. The loop over the queue is given as many turns as it can need (`MaxSteps`; that it
needs no more is proved).

`Routes` has both maps of neighbours of each router (`heard`, by MAC address in
`NetworkLayer`; `near`, by IP address in `RoutingTable`), its stored lists and routes, and
the IP packets on the cables. Its actions are `AppendConnection`, `RemoveConnection`,
`ParseHelloAnswer`, `RemoveOldNeighbours`, `SendNeighboursList`, `UpdateRouterInfo`
(store a newer list and run `update`), `Send`, `ParseIP` (deliver or `forward`), `Lose`,
`Receive`. Flooding is reduced to what `LinkState` promises: a router may at any moment
store a list newer than its own. Frames are not duplicated here, and a router does not
restart. `append` of `NeighbourInfoPacket` drops the last neighbour a list has room for, as
the code does (`MAX_NEIGHBOURS = 3` makes it happen).

What the code does and the model keeps: `add` ignores a neighbour it has; `remove` of one
cable's station removes the only entry of that router, so a router with two cables to the
same neighbour loses it until the next hello answer when the other station expires;
`NetworkLayer::remove` and `add` do not run `update`; routers that are no longer reached
keep their entries. A router with two connections on one cable is not modelled.

### `MACFraming` and `Medium`: bits on a cable

`MACFraming` has the markers and the bit stuffing of `MACSublayer::flushBytes` and the
automaton of `MACReader`; `Written` is the state of the loop of `flushBytes` after each bit. `Medium` puts
stations on one cable: `StartWrite` to `GiveUp` are
`sendFrame` (wait for a silent medium, write bit by bit, repeat after a random time when
one collided), `Cycle` is `Cable::processCycle` (mix the bits of all writers, deliver them,
report collisions, count silent cycles), `Reconnect`, `Detach` and `Attach` the points that
come and go. `Transfer` may damage a bit.

Abstractions. A frame is a pair of source and destination with a byte of its own; the
check sum is perfect, so a frame of which a bit is damaged is never stored, and frames
above `MAC_FRAME_DATA_SIZE_MAX` (`macsublayer.cpp:152`) do not occur. Bits are `bool`s, so
bits that collide are or-ed. The reader thread only empties an unbounded queue and reads
the bits of a cycle in the step of the cycle. `m_mediumWasFree` stops counting at the
largest value it is compared with. A wake-up that is missed only lengthens a wait. A writer
may be `late` with its next bit by a bounded number of cycles in one attempt: `isFree(10)`
takes a longer silence in the middle of a frame for a free medium, and the simulator has
nothing but its speed against that.

### `SMTPSession`, `MailSender`, `MailDelivery`: letters

`MailDelivery` is what handing over a letter promises: it is kept whole and at most once,
and who is told of success finds it kept. Two programs implement it.

`SMTPSession` is `SMTPClient::send`, `SMTPServer::run` and an `SMTPServerThread` for each
client, above two byte streams as `ReliableStream` describes them: texts arrive in pieces,
a `send` may time out (`GiveUp`), `receive` without a time waits for good. The words of a
text are values; only the characters the code looks for are words of their own, so that
`"\n.\n"` can arrive in pieces and be found across them. `Stop` is `Host::stop` at any
moment. The FIN is not lost here. Unknown commands, `ehlo` and an empty body are in the
server's handler though the repository's client never sends the first and the last.

`MailSender` is `send_message` of `src/smtp` with the MIME parts, `read_file` and base64 (as a
fold over the bytes, `Decoded` being what a reader of the letter does), against a server that is external: it answers each command with a
reply of one or more lines, accepts or refuses, and may go away. A line is its code and the
character behind it: `-` if more will follow; in the last one a space and a text, or no text and
only the end of the line, with or without a carriage return. `get_line` (`ReadLine`) takes this
character for granted: a newline right behind the code is lost, and the line is read to the end
of the next one, for which it waits; after `ehlo` a carriage return counts as another line to
come. A second write on a closed connection may end the process (SIGPIPE); at the end of the
input `fgetc` returns EOF for ever, and the loop of `get_line` writes behind its buffer.

### `DictServer`: the dictionary

`Server::start` around `select`, `Dict::search`, the transfer of `Word` and `WordList`, and
the client program. The search is the code's scan of the sorted file, compared with its
definition in `README.rst` (the words that begin with the query). Modelled as it is: the
loop asks the set of all descriptors, so a turn tries every client; a read at the end of a
connection or of half a length leaves an uninitialized length (`Garbage`, of which `Huge` is one
that cannot be allocated); the end of the file is not checked; an address without a name
throws out of `start` (`src/dict/socket.cpp:75`). The client's own reads of four bytes are
taken as whole; `MAX_WAITING_CONNECTIONS` is not modelled.

### `NetworkLocks`: the threads of a network layer

A reader per connection, `RoutingProcess`, `RoutingTableProcess` and the application. A
thread is the sequence of steps that is left of its function: lock, unlock, start, stop,
join, end. What is computed between them is left out, as are mutexes held for one
assignment. A wait for a condition gives its mutex up and ends by its time.

### `Applications`: side by side

`Applications` composes `SMTPSession`, `MailSender`, `DictServer` and `NetworkLocks`. The
four share nothing, and each of its behaviours is one of one program. It instantiates the
modules with the proofs, where there are such, so that what was proved of a program can be
cited for the composition. `MCApplications` is its small instance.

## 3. The runs

| Run | Shows | Bounds |
|---|---|---|
| `socket_transfer` | type, `DeliveredInOrder`, `ConfirmedIsReceived`, `AckWithinCall`, `BufferInInterval`, `ExpectedIsFirstGap`, the inductive invariant `IInv`, that the pair implements `ReliableStream`, and `SendReturns`: a send that has its locks returns, although the network may lose everything | client 4 bytes, server 1, segments of 2, buffer of 3, two segments in flight per direction, two timeouts |
| `connection` | type, `PeersAgree`, `AnsweredMeansClosed`, `ReaderIsReleased` | one client, two repeated segments (up to three server sockets), any loss and delay |
| `link_state` | type, `KnowsIsTrue`, `NeverGoesBack`, `OwnListStaysAway`, `NeighboursLearn` | three routers in a ring, two lists of the first |
| `routes` | type, `NoDeadCable`, `ShortestRoutes`, `SettledRoutesArrive`, `PacketsLeave` | four routers: a ring, two cables between a pair, three on one cable; one distance measured again, or two changes around one packet, or growth from nothing |
| `medium` | type, `SentIsHeard`, `OncePerAttempt`, `WaitingWriterIsSeen`, `NobodyInterrupts`, `WriteReturns` | two stations, up to three frames of one byte; two attempts and a reconnection, or a damaged bit, or a late cycle |
| `applications` | type; `LettersDelivered` and `MailHandedOver` (both implement `MailDelivery`), `SessionsEnd`, `ServerReturns`, `TextIsExpected`, `SenderEnds`, `AnswersMatch`, `DiesForACause`, `EveryoneIsAnswered`, `NoCircularWait` | two clients of each server, letters with up to two files, a file of five words, two connections |
| `multipath` (violation) | with two routes an old acknowledgement moves `m_ackSequence` back, the unsigned position wraps and `send` returns true for lost bytes | client 3 bytes |
| `send_mutex_leak` (violation) | a segment without data between two sends leaves `m_sendMutex` locked for good | client 2 bytes |
| `listener_blocked` (violation) | a second client's SYN makes `get` return an unconnected socket for the first | two clients, no loss, repetition or delay |
| `simultaneous_close` (violation) | crossing FINs make `remove` return false at both ends | one client, no loss, repetition or delay |
| `routing_loop` (violation) | a distance that is measured again is told to the others but not used by its own router, and two routers send packets to each other for as long as the tables stay so | three routers in a triangle |
| `network_locks` (violation) | deleting a router, or disconnecting it from a cable with neighbours, may never return | one connection |

Why the bounds are enough. Four bytes with segments of two and a buffer of three make a
burst of a full and a short segment, so that a hole opens when the first is lost; a
segment that overlaps what was received, one that is cut at the end of the buffer, a
full buffer and a roll-back into the middle of a segment. The server's byte makes
piggybacking and crossing data. Two timeouts make both the retry and the giving up. The
proofs cover every size.
In `connection` two repetitions give a
repeated SYN during and after the first handshake, and a repeated answer. In `link_state`
two lists make the newer one replace, overtake and outlive the older one. A list can come
back to its author only on a cycle, and the ring is the smallest; it is the cable of three
routers on which the hello answers of one direction are lost, and keeps the state space
small enough for liveness. Lines and triangles of routers are covered by the proofs.
In `routes` a ring of four has two routes of equal length between opposite routers; the
pair of cables makes the two maps of neighbours differ; three routers on one cable make
the exclusion of `update` matter, and the list of one of them full. Each record of `MCScenarios` bounds a
behaviour: distances that change need no packets, packets that circle need no distances.
In `medium` the byte of one station needs stuffing and that of the other is one zero away
from a marker, so that collisions and a damaged bit make and destroy markers; two attempts
are the first and its repetition. In `applications` one client with every fault (texts in
pieces, calls that time out, a stop) is tried alone, and two clients at once without them;
the parts of a letter have every remainder modulo three, and each reply has one line or two, with
or without a text in the last; the rows hold a word twice, more
matches than the limit, and queries before, at and behind the last row.

Deadlock. In the transport layer, the routes and the applications a stopped system is no
fault: every call may have returned, so deadlock is not checked there. Where waiting for
good is a fault it is a liveness property, or `NoCircularWait`.

Conditions in the properties. `SettledRoutesArrive` asks for tables that agree
(`Agreed`), distances that are fresh (`TableIsFresh`; without it `routing_loop`) and
`PointToPoint`. The last excludes further loops that the code has: distances of 0, whose
ties two routers may break against each other, and routers that hear two others on one cable.
`update` takes these two for neighbours of each other. Where there are three routers on a cable
and the measured distances break the triangle inequality, each excludes the path the other
takes; and where one station has taken the place of another on the cable, a router that still
hears both excludes a path that the others take, until the old one is forgotten. The second
was found by a proof attempt that would not close: `PointToPoint` first spoke of the routers
that *are* on a cable, and TLC then showed the loop in a wiring larger than those of the run.
It now speaks of the stations that are heard. `SessionsEnd` and `ServerReturns` excuse sessions in which the network failed one of
the ends (`broken`): then `readLine` and `check` loop for good on a `receive` that cannot
end, and `SMTPServer::run` waits for such a thread. `DiesForACause` and `EveryoneIsAnswered`
name what ends or stops the dictionary server; bytes always arrive there, so a client that says
half a word and no more is not among its behaviours. `SenderEnds` is about servers whose replies
`get_line` reads to their end (`EndIsMissed`): behind a reply that ends with the bare code
both sides may wait for each other. `PeersAgree` and
`AnsweredMeansClosed` allow for an end that is connected alone, which a lost third segment
or a `connect` that gave up leaves behind. `NoCircularWait` is checked while the
layer is not deleted and loses only a connection without neighbours; the behaviours of
`network_locks` include both other cases, and TLC shows the first that it finds (with
`Deleting = FALSE` in its configuration, the one of `remove`).

Fairness. `TimerFairness` (run `socket_transfer`): the timed wait of a send ends, as
`QWaitCondition::wait` with a time does, and nothing else is assumed.
`ThreadFairness` is added in `send_mutex_leak`, so that the counterexample is no thread
that was never scheduled. `ServerFairness` (run `connection`): the server's thread calls
`get` in its loop, the wait inside has a time, a thread waiting for a free mutex gets it.
`Fairness` of `LinkState`: `RoutingTableProcess` calls `forwardPackages` again and again, its
wait having a time, and a list that is sent again and again is taken at last, since
damage and collisions of one frame do not depend on those of another. Nothing is assumed
of acknowledgements, of the periodic lists or of the hello protocol. `FairSpec` of `Medium`:
the thread of the cable runs while a cycle would change something, and a thread in `write`
goes on; the enabling conditions are written out. `FairSpec` of `Routes`: frames on a cable
are received. `Fairness` of `Applications`: every process and thread goes on, and bytes
arrive or the send that wrote them gives up; nothing is assumed of servers' decisions.
`FairSpec` of `NetworkLocks`: threads go on, and none waits for ever for a mutex that is
free again and again.

## 4. The proofs

`SocketTransferProofs` proves, for every value of the constants that satisfies
`ConstantsAssumption`:

* `TypeCorrect`: `Spec => []TypeOK`;

and, under `NoWrapAround` (the sequence numbers of the connection do not pass 2^32; the
code compares them with `<` as if they never did):

* `InvariantHolds`: `Spec => []IInv`;
* `InOrder`, `SendIsReliable`, `AckStaysInCall`, `BufferStaysInInterval`,
  `ExpectedIsExact`: each safety property of the run, from the invariant;
* `ImplementsStream`: `Spec => StreamSpec`, the refinement.

None of the safety properties is inductive. `ConfirmedIsReceived` needs that
`m_ackSequence` never exceeds what the peer has; that needs the same of every
acknowledgement in flight (`AcksInFlight`); that the position of `send` does not wrap
needs that acknowledgements in flight never fall (`AcksOrdered`), which one path
guarantees and two routes do not: the run `multipath` shows the theorem is false without
it. `DeliveredInOrder` needs that each buffered byte is the byte of its number
(`BufferContents`), which needs it of each segment in flight (`DataInFlight`), which needs that
a roll-back restarts at the byte its number says (`SenderState`). `IInv` is the
conjunction of these, one direction at a time: `StreamBounds`, `BufferContents`,
`DeliveredPrefix`, `DataInFlight`, `AcksInFlight`, `SenderState`. The proof that a step
keeps it has a lemma per action, for the direction the action works in and for the other.

`LinkStateProofs` proves, for every set of routers, every topology and any number of
lists (assumption: nobody is adjacent to itself):

* `TypeCorrect`, `InformedNeighbours` (`[]KnowsIsTrue`), `NoOldLists`
  (`[]NeverGoesBack`), `NoOwnList` (`[]OwnListStaysAway`);
* `SilenceIsAgreement`: neighbours that have nothing left to pass on to each other about a
  third router have the same list of it, or one of the two has expired.

`KnowsIsTrue` says that a neighbour in `m_knowsInfoSet` has the list. An acknowledgement
puts it there, so the acknowledgements in flight must be true (`NetworkIsTrue`), also when
the list they are about has been replaced or removed meanwhile. For this, "has the list"
(`Has`) counts a later and an expired list, and must never become false again
(`HasStable`): entries only grow or are removed once they have expired, and with a list
all older ones have expired (`ExpiryInOrder`). The same order gives `NeverGoesBack`: a
list older than a forgotten one has expired, too, and is removed in the step that stores
it (`TablesAreTrue`). `Inv` is the conjunction; the proof has a lemma per kind of step.

`RoutesProofs` proves `CablesAreAlive` (`Spec => []NoDeadCable`) for every set of routers and
cables and any scenario. The invariant adds only the types (`MapsOfNeighbours`); what makes
it inductive is that the table forgets a neighbour with *any* of its stations
(`ForgettingStep`), and that the entry `add` keeps is for a station that is still heard
(`ParseHelloAnswerStep`). In the initial states after a round of hello, the entry is for
the first station heard, which exists since cables are numbers (`LeastNumber`).

`TypeCorrect` of the same module (`Spec => []TypeOK`) has an invariant of its own, `Types`:
what each map, list and packet looks like, that nobody is its own neighbour, and that the
lists an author has sent only grow, so that the number another router stores is always the
number of a list.

About what `update` computes the module proves, for any number of routers, cables and lists:

* `UpdateIsShortest`: `Update` of every table in which no distance can wrap (`IsTable`) is
  `AreShortest`;
* `RoutesAreShortest` (`Spec => ShortestRoutes`): whatever the maps hold when `update` runs;
* `PacketsArrive` (`Spec => []SettledRoutesArrive`): the routes of different routers, each from
  a table of its own, fit together once the tables agree.

The last two have one hypothesis, `NoOverflow`: as many of the longest distances as there are
routers add up to less than `UINT_MAX`. It is needed, since the sums of `update` are `uint`s;
the program measures milliseconds, and `MCRoutes` has it as an assumption that TLC evaluates.

The loop of `update` has an invariant, `LoopInv`: each distance at hand is the length of a
path all of whose routers are analysed, and the route is its first router (`RoutesTraced`);
what is reached and not analysed waits in the queue under its distance (`Waiting`), and
whatever waits is not nearer (`QueueBounded`); what is analysed is nearer than what waits, and
at most as many of the longest distances away as there are analysed routers (`AnalysedNear`),
so no sum wraps; and there is no shorter way over an analysed router (`Settled`). A turn for
a router that was analysed before only takes its element away (`PoppedSound`), another one
analyses the nearest router that was left (`ExploredSound`). The elements in the queue and
those that routers still to be analysed can add get fewer with each turn (`Works`), so the
queue is empty after `MaxSteps` of them (`Finished`); then everything reached is analysed, and
no path is shorter than the distance of its last router (`PathIsLonger`). The loops are recursive functions by a number; that such a function is what
its equation says is the lemma `Recursion`, proved once.

That the tables of the routers are of this kind is an invariant of its own, `Measurements`:
every distance in a map or a list was measured, and no list names its author. For
`PacketsArrive`, a shortest path of a router without its first hop is a path in the table of
the next router (`RestOfPath`), because both know the same lists and exclude nothing; so the
next router has a route, shorter by a distance above 0 (`NextIsNearer`), no router is met twice,
and there are too few routers for a packet that does not arrive (`PacketArrives`).

`ConnectionProofs` proves, for any number of connections and of repeated segments, with or
without loss and delay:

* `TypeCorrect`, `ServerKnowsItsClient` (`[]PeersAgree`), `AnswerMeansClosed`
  (`[]AnsweredMeansClosed`).

The invariant `Inv` speaks of one connection at a time. A server socket is finalized by the
client's answer, so `PeersAgree` needs that every such answer on its way names the socket
the client keeps (`AnswerNamesPeer`). That an answered end has a closed peer needs
that nothing on its way can connect the peer again. For the client that is
`ConnectedWasFinalized`, since a finalized socket ignores a handshake. For the server it is
the order of the channel: FIN is behind the client's answer of the handshake (`FinIsLast`),
so none is left when FIN has been taken (`ServerClosed`). The same is true of answers to
FIN on their way (`AnswerFromClosed`) and of those that arrived (`AnsweredByClosed`).

`MediumProofs` proves, for any number of stations, every frame and scenarios of any size:

* `TypeCorrect` and `WriterIsSeen` (`[]WaitingWriterIsSeen`);
* `FramesAreNotInterrupted` (`Spec => NobodyInterrupts`), if each writer is late by fewer
  cycles than `isFree` asks for. Without this hypothesis it is false (see `MACFraming`);
* `SentFramesAreHeard` (`[](Undisturbed => SentIsHeard)`): where no bit is damaged and no
  writer is late, a frame for which `sendFrame` returned true was stored by everybody it is
  addressed to, whatever collisions, repetitions and reconnections there were before;
* `FramesAreStoredOnce` (`[]Alone => [](Undisturbed => OncePerAttempt)`): where besides no two
  stations are on the cable in the same cycle, an attempt is stored at most once by a station and
  nothing is stored that nobody sent, whoever comes, reconnects or leaves in the middle of it.

A thread that waits has its bit in the point (`InWrite`), and the bit it is about to write is
one of the frame it forms (`InFlush`); the type of that bit and the length of a frame come
from lemmas about the loop of `flushBytes`. Nobody interrupts because a point that is
silent for `n` cycles has a writer that is at least `n` cycles late (`Silence`): the points
of the listeners count no further than the writers on the cable are behind.

A sent frame is heard because of what a reader has after `k` bits of it (`HasRead`): a part
of the opening marker, the first bits of the frame without the stuffing (`AfterBit`) or with a
zero of it to come (`BeforeStuffing`), or all of it and a part of the closing marker. A bit
more takes the reader on (`ReadGoesOn`) and the last one delivers the frame (`ReadEnds`),
whatever the reader had in its buffer before. The invariant `Hearing` adds the cable: the
hearers of an attempt that is still successful have read what its writer has put there
(`AttemptsAreRead`), for it was alone in each cycle (`AloneOnTheCable`); and a reader that
has a one as its last bit has somebody between two bits before it (`SilentIsZero`), so that every
attempt that nobody joins begins behind a zero. Both conditions are needed: TLC loses a frame
that sender and checksum take for sent with two damaged bits, with one and a reconnection, or
with a writer that is late by as many cycles as `isFree` asks for.

A frame is stored once because a reader hands something on only at the last zero of a
marker, after six ones (`ReadNoFrame`), and no reader that is with the attempt counts six before
the closing marker (`OnesBelowSix`). The invariant `Storing` says of every reader that it is
quiet (it searches, or its buffer is empty), follows the attempt from its first bit (`Follows`)
or came in the middle (`CameLate`). One that follows has nothing in front of the opening marker
that this marker could hand on; one that came late searches, and so hands nothing on, and
finds no marker before the closing one: it has counted at most as many ones as a reader that
was there from the first bit (`LateGoesOn`), and of the opening marker it lacks the zero.
`Counted` keeps room in `tries` for the attempt under way, also for a station that
begins to listen then. TLC checked `Storing` on the states of `medium` where `Alone` and
`Undisturbed` hold. Collided or damaged bits may by chance be a frame, and a writer that is late
by as many cycles as `isFree` asks for lets another one in between two of its bits; that
writers are not late at all is more than is needed, as in `SentFramesAreHeard`.

`DictServerProofs` proves, for any number of clients, words and askings:

* `TypeCorrect`, under `Numbers` (words are sequences of numbers, `Limit` is positive);
* `AnswersAreRight` (`[]AnswersMatch`), if the file is `Sorted` too, which the code takes for
  granted;
* `DeathHasACause` (`[]DiesForACause`), if no word that is asked for is too long to be
  allocated (`Affordable`).

`Faithful` of its invariant says where the word of each waiting client is: on its way in
halves, in the server's buffer with its length, or answered by the list on its way back. A length
of which both halves are read in one turn is therefore the length of a word, and garbage
appears only for the causes that are named. That the scan stops at the right row is
`Precedes`, a property of two words, used along the sorted rows.

`MailProofs` proves, without a hypothesis, for any number of clients and every way in which
calls time out, break and are stopped:

* `TypeCorrect`, and `LettersArrive` (`Spec => LettersDelivered`): the session implements
  `MailDelivery`.

The invariant says how far each end is in the dialogue, and from that what must be on its
way. `Flow` is a text of which the reader has taken a part, a part has arrived, and the rest
is coming or was given up. `Unread` and `Answered` are the texts that are between two ends
after `k` texts of the client and `m` of the thread. They differ from a plain dialogue, as
the thread does not answer HELO: its greeting is what the client takes for that answer, so
that a second text may be on its way before the first was read. `Stage` is a client that
took every answer for the one it wanted, `Refused` one that did not. `Conversation` is
either of the two, and contains the point: a letter between DATA and the
full stop is the client's own and whole, and 250 follows it only from the inbox.

`ApplicationsProofs` proves of `Applications`:

* `TypeCorrect`, `AnswersAreRight`, `DeathHasACause`, `LettersArrive`: what was proved of the
  sessions and of the dictionary, for the composition. A step of one program leaves the
  variables of the others alone (`SessionsRun`, `SenderRuns`, `DictionaryRuns`, `LayerRuns`),
  so a behaviour of the composition is one of each;
* `ThreadsNeverCircle` (`[]NoCircularWait`) for any number of connections, under
  `Orderliness`: the layer is not deleted and loses only connections without neighbours.
  The run `network_locks` shows both other cases fail. What a thread holds is read from the
  steps it has still to do (`HeldAt`), each function unlocking what it locked; `Level` is the
  order of the mutexes, and a thread locks only above what it holds (`Orderly`). In a circle
  of waiting threads the level would rise all around;
* `TextInTime` (`[]TextIsExpected`), if letters are made of files of bytes (`Sensible`). Before
  the text, 354 is on its way only if the server has read DATA and nothing is behind it
  (`BeforeText`), however many lines a reply has;
* `LetterIsHandedOver` (`Spec => MailHandedOver`): `send_message` implements `MailDelivery`.
  After DATA the text on its way and the text the server has are together the whole letter, or
  its end will never come; 250 is on its way only if the letter is in the mailbox (`AfterData`).
  The hypothesis `Decodable` is that the text of a letter decodes to its files; see below.

Each hypothesis on the constants was evaluated by TLC for the values of the run; all hold
there. `SenderInv`, `LayerInv` and the invariants of the other modules were checked on the
runs before they were proved.

Only model-checked:

* the liveness properties `SendReturns`, `ReaderIsReleased`, `NeighboursLearn`,
  `PacketsLeave`, `WriteReturns`, `SessionsEnd`, `ServerReturns`, `SenderEnds` and
  `EveryoneIsAnswered`: liveness under fairness is beyond the prover;
* the round trip of base64 (`Decodable`), which is a fold over the bytes. Recursion by a
  number (`Written`, `Found`) was within reach: a set of numbers with 0 and all
  successors holds every number (`EveryNumber`). What needs an induction with an operator
  as a parameter, such as the theorems about folds, is not;
* `OncePerAttempt` and `SentIsHeard` outside the conditions of `FramesAreStoredOnce` and
  `SentFramesAreHeard`. They need conditions on the frames of the instance, not on the code.
  Bits that collide, or a closing marker with damaged bits, may by chance be another frame; and
  two damaged bits, or one and a point that was connected again, in a closing marker can leave the
  reader with five ones behind it. It then drops the zero that opens the next frame and loses a
  frame that was neither damaged nor in a collision. The run has one damaged bit at most.

## 5. Findings

Six runs end in a violation; `PROJECT.json` quotes for each the line of a test or comment
that takes the opposite for granted.

* `multipath`: `socket.cpp:143`, an old acknowledgement wraps the position of `send`.
* `send_mutex_leak`: `socket.cpp:283`, `tryLock` before the test of the length.
* `listener_blocked`: `listener.cpp:27`, `get` waits with the mutex of the reader's queue.
* `simultaneous_close`: `socket.cpp:212`, a closed socket drops the answer to its own FIN.
* `routing_loop`: `routingtable.cpp:51`, `add` keeps the first distance.
* `network_locks`: `routingtable.cpp:16` and `networklayer.cpp:67`, a thread is waited for
  with a mutex locked that it may need.

## 6. Not modelled, and the plan

Not modelled: the LLC sublayer, which passes calls on; reuse of port numbers; the restart of
a router (`NetworkLayer::restart` is a TODO); the data race of `update` with the readers
(`networklayer.cpp:146`), whose outcome is undefined; the moments of `RoutingProcess`; frames
above the length limit; a FIN between the check of `m_connected` and the mutexes of `send`
(`socket.cpp:69`); logging, packet layout and the wiring of `main.cpp`.

Left of the plan, in order of importance:

1. A router that restarts, as an extension of `LinkState`.
2. A run of `SocketTransfer` with a start near `UintMod`, for the wrap-around.
