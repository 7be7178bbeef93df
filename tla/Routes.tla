------------------------------- MODULE Routes -------------------------------
(***************************************************************************)
(* Routing: the two maps of neighbours of every router (NetworkLayer and   *)
(* RoutingTable), the lists they send each other, the routes that update   *)
(* computes, and the packets that forward passes on along them.            *)
(*                                                                         *)
(* How a list reaches the others is the matter of LinkState; here a router *)
(* may at any moment store a list that is newer than the one it has.       *)
(* RoutingTable::m_mutex makes each handler one step.                      *)
(*                                                                         *)
(* A connection of a router is the cable it leads to (one per cable), and  *)
(* the station <<c, b>> is the MAC address of router b on cable c.         *)
(***************************************************************************)
EXTENDS ShortestPaths

CONSTANTS
    Routers,         \* IP addresses
    Cables,          \* numbers; MAC addresses are in the order of the cables
    MAX_NEIGHBOURS,
    MAX_HOPS,
    MAX_READ_BUFFER_SIZE,
    Scenarios        \* bounds of a behaviour, see below

(***************************************************************************)
(* A scenario: the wiring to begin with and the rounds of hello and lists  *)
(* that are over (0 or 1), the distances that a hello may measure, and how *)
(* many answers, lists, packets and other changes there are from then on.  *)
(***************************************************************************)
Scenario == [wiring : [Cables -> SUBSET Routers], round : {0, 1},
             distances : SUBSET (0 .. UINT_MAX),
             answers : Nat, lists : Nat, packets : Nat, changes : Nat]

ASSUME RoutesAssumption ==
    /\ Routers \subseteq Nat \ {Nowhere}
    /\ IsFiniteSet(Routers)
    /\ Cables \subseteq Nat
    /\ IsFiniteSet(Cables)
    /\ MAX_NEIGHBOURS \in Nat \ {0}
    /\ MAX_HOPS \in Nat
    /\ MAX_READ_BUFFER_SIZE \in Nat
    /\ Scenarios \subseteq Scenario

VARIABLES
    attached,     \* m_connectionList: the routers that are on a cable
    heard,        \* NetworkLayer::m_neighbourMap: station -> m_distance
    near,         \* RoutingTable::m_neighbourMap: address -> [cable, distance]
    lists,        \* the lists that a router has sent, in their order
    number,       \* m_routerInfoMap: the number of the list of a router, or 0
    expired,      \* how many lists of a router have passed their m_expires
    routes,       \* m_distance and m_through of m_routerInfoMap
    frames,       \* IP packets on cables
    readBuffer,   \* m_readBuffer: the senders of the packets in it
    scenario      \* the scenario, with what is left of its numbers

tables == <<heard, near, number, routes>>
traffic == <<frames, readBuffer>>
vars == <<attached, tables, lists, expired, traffic, scenario>>

Stations == Cables \X Routers

Use(what) ==
    /\ scenario[what] > 0
    /\ scenario' = [scenario EXCEPT ![what] = @ - 1]

-----------------------------------------------------------------------------
\* The table of r, for the algorithm.
Table(n, numbers) ==
    [near |-> n,
     far |-> [a \in { b \in Routers : numbers[b] > 0 } |->
                 lists[a][numbers[a]]]]

\* removeOld.
Remaining(numbers) ==
    [a \in Routers |-> IF numbers[a] <= expired[a] THEN 0 ELSE numbers[a]]

\* Mutant: Dijkstra first, removeOld afterwards.
MutUpdated(r, n, numbers) ==
    /\ number' = [number EXCEPT ![r] = Remaining(numbers)]
    /\ routes' = [routes EXCEPT ![r] = Update(Table(n, numbers))]

\* RoutingTable::update of r, for these neighbours and numbers of lists.
Updated(r, n, numbers) ==
    /\ number' = [number EXCEPT ![r] = Remaining(numbers)]
    /\ routes' = [routes EXCEPT ![r] = Update(Table(n, Remaining(numbers)))]

\* NetworkLayer::addNeighbour: RoutingTable::add keeps the entry it has.
AddNeighbour(r, s, distance) ==
    /\ heard' = [heard EXCEPT ![r] =
                    [t \in DOMAIN @ \union {s} |->
                        IF t = s THEN distance ELSE @[t]]]
    /\ near' = [near EXCEPT ![r] =
                   [b \in DOMAIN @ \union {s[2]} |->
                       IF b \in DOMAIN @ THEN @[b]
                       ELSE [cable |-> s[1], distance |-> distance]]]

\* Mutant: only the network layer forgets.
MutRemoveNeighbours(r, gone) ==
    /\ heard' = [heard EXCEPT ![r] = Restrict(@, DOMAIN @ \ gone)]
    /\ UNCHANGED near

\* NetworkLayer::removeNeighbour: the entry of the table is found by its IP
\* address, whichever station it is for.
RemoveNeighbours(r, gone) ==
    /\ heard' = [heard EXCEPT ![r] = Restrict(@, DOMAIN @ \ gone)]
    /\ near' = [near EXCEPT ![r] =
                   Restrict(@, DOMAIN @ \ { s[2] : s \in gone })]

-----------------------------------------------------------------------------
(***************************************************************************)
(* NetworkLayer                                                            *)
(***************************************************************************)

\* append, for a connection to a cable.
AppendConnection(r, c) ==
    /\ r \notin attached[c]
    /\ Use("changes")
    /\ attached' = [attached EXCEPT ![c] = @ \union {r}]
    /\ UNCHANGED <<tables, lists, expired, traffic>>

\* remove: the neighbours on the connection and the connection, but no update.
RemoveConnection(r, c) ==
    /\ r \in attached[c]
    /\ Use("changes")
    /\ attached' = [attached EXCEPT ![c] = @ \ {r}]
    /\ RemoveNeighbours(r, { s \in DOMAIN heard[r] : s[1] = c })
    /\ UNCHANGED <<lists, number, expired, routes, traffic>>

\* parseHelloAnswer: b answers on cable c.
ParseHelloAnswer(r, c, b) ==
    /\ r # b
    /\ {r, b} \subseteq attached[c]
    /\ Use("answers")
    /\ \E distance \in scenario.distances : AddNeighbour(r, <<c, b>>, distance)
    /\ UNCHANGED <<attached, lists, number, expired, routes, traffic>>

\* removeOldNeighbours: those that did not answer for NEIGHBOUR_INFO_LIFETIME.
RemoveOldNeighbours(r) ==
    /\ Use("changes")
    /\ \E gone \in SUBSET DOMAIN heard[r] \ {{}} : RemoveNeighbours(r, gone)
    /\ Updated(r, near'[r], number[r])
    /\ UNCHANGED <<attached, lists, expired, traffic>>

\* The order of MAC addresses.
Before(s, t) == s[1] < t[1] \/ (s[1] = t[1] /\ s[2] < t[2])

\* NeighbourInfoPacket::append takes one neighbour less than there is place for.
Packed(stations) ==
    { s \in stations :
        Cardinality({ t \in stations : Before(t, s) }) + 1 < MAX_NEIGHBOURS }

\* updateRouterInfo fills m_distanceMap in the order of the list: of two
\* stations of one router the last one counts.
DistanceMap(map) ==
    [b \in { s[2] : s \in Packed(DOMAIN map) } |->
        map[CHOOSE s \in Packed(DOMAIN map) :
               /\ s[2] = b
               /\ \A t \in Packed(DOMAIN map) : t[2] = b => ~ Before(s, t)]]

SendNeighboursList(r) ==
    /\ Use("lists")
    /\ lists' = [lists EXCEPT ![r] = Append(@, DistanceMap(heard[r]))]
    /\ UNCHANGED <<attached, tables, expired, traffic>>

\* updateRouterInfo, for the n-th list of a.
UpdateRouterInfo(r, a, n) ==
    /\ r # a
    /\ number[r][a] < n
    /\ Updated(r, near[r], [number[r] EXCEPT ![a] = n])
    /\ UNCHANGED <<attached, heard, near, lists, expired, traffic, scenario>>

Expire(a) ==
    /\ expired[a] < Len(lists[a])
    /\ Use("changes")
    /\ expired' = [expired EXCEPT ![a] = @ + 1]
    /\ UNCHANGED <<attached, tables, lists, traffic>>

-----------------------------------------------------------------------------
(***************************************************************************)
(* Packets                                                                 *)
(***************************************************************************)

\* RoutingTable::forward can send the packet.
HasRoute(r, packet) ==
    /\ packet.hops > 0
    /\ number[r][packet.destination] > 0
    /\ routes[r].through[packet.destination] \in DOMAIN near[r]

\* Mutant: the packet goes on with the hops it came with.
MutFrame(r, packet) ==
    LET next == routes[r].through[packet.destination]
    IN [packet |-> packet, station |-> <<near[r][next].cable, next>>]

Frame(r, packet) ==
    LET next == routes[r].through[packet.destination]
    IN [packet |-> [packet EXCEPT !.hops = @ - 1],
        station |-> <<near[r][next].cable, next>>]

Forward(r, packet, others) ==
    \/ HasRoute(r, packet) /\ frames' = others \union {Frame(r, packet)}
    \/ ~ HasRoute(r, packet) /\ frames' = others

\* NetworkLayer::send; it returns HasRoute.
Send(r, destination) ==
    /\ Use("packets")
    /\ LET packet ==
               [source |-> r, destination |-> destination, hops |-> MAX_HOPS]
       IN Forward(r, packet, frames)
    /\ UNCHANGED <<attached, tables, lists, expired, readBuffer>>

\* A full buffer drops the packet.
Deliver(r, source) ==
    readBuffer' = IF Len(readBuffer[r]) < MAX_READ_BUFFER_SIZE
                  THEN [readBuffer EXCEPT ![r] = Append(@, source)]
                  ELSE readBuffer

\* parseIP.
ParseIP(f) ==
    LET r == f.station[2]
    IN /\ f \in frames
       /\ r \in attached[f.station[1]]
       /\ \/ /\ f.packet.destination = r
             /\ Deliver(r, f.packet.source)
             /\ frames' = frames \ {f}
          \/ /\ f.packet.destination # r
             /\ Forward(r, f.packet, frames \ {f})
             /\ UNCHANGED readBuffer
       /\ UNCHANGED <<attached, tables, lists, expired, scenario>>

\* A damaged frame, one given up after collisions, or one for nobody.
Lose(f) ==
    /\ frames' = frames \ {f}
    /\ UNCHANGED <<attached, tables, lists, expired, readBuffer, scenario>>

Receive(r) ==
    /\ readBuffer[r] # <<>>
    /\ readBuffer' = [readBuffer EXCEPT ![r] = Tail(@)]
    /\ UNCHANGED <<attached, tables, lists, expired, frames, scenario>>

-----------------------------------------------------------------------------
\* What r hears when everybody on its cables answers.
Audible(w, r) ==
    { s \in Stations : r # s[2] /\ {r, s[2]} \subseteq w[s[1]] }

(***************************************************************************)
(* Round 0: nothing has happened yet.  Round 1: everybody has heard all    *)
(* neighbours, and the first list of each router has reached the others; a *)
(* state that the actions lead to when the wiring is connected.            *)
(***************************************************************************)
RoundZero ==
    /\ heard = [r \in Routers |-> <<>>]
    /\ near = [r \in Routers |-> <<>>]
    /\ lists = [r \in Routers |-> <<>>]
    /\ number = [r \in Routers |-> [a \in Routers |-> 0]]

\* The stations were heard in the order of the cables.
FirstHeard(map) ==
    [b \in { s[2] : s \in DOMAIN map } |->
        LET s == CHOOSE s \in DOMAIN map :
                    s[2] = b /\ \A t \in DOMAIN map : t[2] = b => ~ Before(t, s)
        IN [cable |-> s[1], distance |-> map[s]]]

RoundOne ==
    /\ \E measured \in
            [{ l \in Stations \X Routers : l[1] \in Audible(attached, l[2]) }
                -> scenario.distances] :
          heard = [r \in Routers |->
                      [s \in Audible(attached, r) |-> measured[<<s, r>>]]]
    /\ near = [r \in Routers |-> FirstHeard(heard[r])]
    /\ lists = [r \in Routers |-> <<DistanceMap(heard[r])>>]
    /\ number = [r \in Routers |-> [a \in Routers |-> IF a = r THEN 0 ELSE 1]]

Init ==
    /\ scenario \in Scenarios
    /\ attached = scenario.wiring
    /\ IF scenario.round = 0 THEN RoundZero ELSE RoundOne
    /\ routes = [r \in Routers |-> Update(Table(near[r], number[r]))]
    /\ expired = [a \in Routers |-> 0]
    /\ frames = {}
    /\ readBuffer = [r \in Routers |-> <<>>]

Next ==
    \/ \E r \in Routers :
          \/ \E c \in Cables :
                \/ AppendConnection(r, c)
                \/ RemoveConnection(r, c)
                \/ \E b \in Routers : ParseHelloAnswer(r, c, b)
          \/ \E a \in Routers : \E n \in 1 .. Len(lists[a]) :
                UpdateRouterInfo(r, a, n)
          \/ \E d \in Routers : Send(r, d)
          \/ RemoveOldNeighbours(r)
          \/ SendNeighboursList(r)
          \/ Expire(r)
          \/ Receive(r)
    \/ \E f \in frames : ParseIP(f) \/ Lose(f)

Spec == Init /\ [][Next]_vars

\* A cable goes on: every frame on it arrives or is damaged.
FairSpec == Spec /\ WF_vars(\E f \in frames : ParseIP(f) \/ Lose(f))

-----------------------------------------------------------------------------
(***************************************************************************)
(* Properties                                                              *)
(***************************************************************************)

TypeOK ==
    /\ attached \in [Cables -> SUBSET Routers]
    /\ \A r \in Routers :
          /\ DOMAIN heard[r] \subseteq Stations
          /\ DOMAIN near[r] \subseteq Routers \ {r}
          /\ number[r][r] = 0
          /\ \A a \in Routers : number[r][a] \in 0 .. Len(lists[a])
          /\ DOMAIN routes[r].through = { a \in Routers : number[r][a] > 0 }
          /\ Len(readBuffer[r]) <= MAX_READ_BUFFER_SIZE
    /\ \A f \in frames : f.packet.hops < MAX_HOPS /\ f.station \in Stations

(***************************************************************************)
(* The two maps of neighbours, under different keys and changed at         *)
(* different places, agree so far that forward never uses a neighbour the  *)
(* network layer has forgotten, nor a connection that was removed.         *)
(***************************************************************************)
NoDeadCable ==
    \A r \in Routers : \A b \in DOMAIN near[r] :
        /\ <<near[r][b].cable, b>> \in DOMAIN heard[r]
        /\ r \in attached[near[r][b].cable]

\* routingtable.h:78 "Removes old entries and runs Dijkstra": whatever the maps
\* hold when update runs, it leaves the shortest routes through them.
ShortestRoutes ==
    [][\A r \in Routers :
          (number'[r] # number[r] \/ routes'[r] # routes[r])
              => AreShortest(Table(near[r], number[r])', routes'[r])]_vars

\* A packet goes in circles while tables disagree, but not for ever.
PacketsLeave == frames # {} ~> frames = {}

\* Packets for d that r forwards get there, over at most that many routers.
Arrives(r, d) ==
    LET next(a) == IF routes[a].through[d] \in DOMAIN near[a]
                   THEN routes[a].through[d] ELSE Nowhere
        reached[n \in 0 .. Cardinality(Routers)] ==
            IF n = 0 THEN r
            ELSE IF reached[n - 1] \in {d, Nowhere} THEN reached[n - 1]
            ELSE next(reached[n - 1])
    IN reached[Cardinality(Routers)] = d

\* Every router has the latest list of every other, the list says what its
\* sender hears, and the routes were computed from it all.
Agreed ==
    \A r \in Routers :
        /\ lists[r] # <<>>
        /\ Last(lists[r]) = DistanceMap(heard[r])
        /\ \A a \in Routers \ {r} : number[r][a] = Len(lists[a])
        /\ routes[r] = Update(Table(near[r], number[r]))

\* No path of the network is as long as UINT_MAX.
NoOverflow ==
    \A sc \in Scenarios : \A d \in sc.distances :
        Cardinality(Routers) * d < UINT_MAX

\* No router hears two others on one cable, not even one that has been replaced,
\* and no distance of 0.
PointToPoint ==
    \A r \in Routers : \A s \in DOMAIN heard[r] :
        /\ heard[r][s] > 0
        /\ \A t \in DOMAIN heard[r] : t[1] = s[1] => t = s

\* What a router takes for the distance of its neighbours is what it tells.
TableIsFresh ==
    \A r \in Routers :
        [b \in DOMAIN near[r] |-> near[r][b].distance] = Last(lists[r])

\* The routes of different routers, each computed from a table of its own, fit
\* together: no packet goes in circles once the tables agree.
SettledRoutesArrive ==
    Agreed /\ PointToPoint /\ TableIsFresh =>
        \A r, d \in Routers :
            r # d /\ routes[r].through[d] # Nowhere => Arrives(r, d)

(***************************************************************************)
(* testnetworklayer.cpp:340-342: after some rounds, when send has returned *)
(* true the packet is received.  TableIsFresh is what the test takes for   *)
(* granted (line 104: the distance of the route to a neighbour is the one  *)
(* in NetworkLayer::m_neighbourMap); but RoutingTable::add keeps the old   *)
(* distance.                                                               *)
(***************************************************************************)
AgreedRoutesArrive ==
    Agreed /\ PointToPoint =>
        \A r, d \in Routers :
            r # d /\ routes[r].through[d] # Nowhere => Arrives(r, d)

=============================================================================
