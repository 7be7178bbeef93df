---------------------------- MODULE RoutesProofs ----------------------------
(***************************************************************************)
(* Proofs about Routes, for every set of routers and cables, and scenarios *)
(* of any size.                                                            *)
(***************************************************************************)
EXTENDS Routes, SequenceTheorems, FiniteSetTheorems, WellFoundedInduction, TLAPS

(***************************************************************************)
(* NoDeadCable with what its proof needs of the types.                     *)
(***************************************************************************)
MapsOfNeighbours ==
    /\ attached \in [Cables -> SUBSET Routers]
    /\ heard = [r \in Routers |-> heard[r]]
    /\ near = [r \in Routers |-> near[r]]
    /\ \A r \in Routers : DOMAIN heard[r] \subseteq Stations

Inv == MapsOfNeighbours /\ NoDeadCable

-----------------------------------------------------------------------------
\* A set of numbers has a least one.
LEMMA LeastNumber ==
    ASSUME NEW S, S \subseteq Nat, S # {}
    PROVE  \E n \in S : \A k \in S : ~ (k < n)
<1>1. PICK n \in S : \A k \in S : <<k, n>> \notin OpToRel(<, Nat)
    BY NatLessThanWellFounded, WFMin
<1>2. \A k \in S : k < n => <<k, n>> \in OpToRel(<, Nat)
    BY DEF OpToRel
<1> QED BY <1>1, <1>2

\* The station that FirstHeard takes for a neighbour is one that was heard.
LEMMA FirstHeardIsHeard ==
    ASSUME NEW map, DOMAIN map \subseteq Stations
    PROVE  /\ DOMAIN FirstHeard(map) = { s[2] : s \in DOMAIN map }
           /\ \A b \in DOMAIN FirstHeard(map) :
                 LET s == <<FirstHeard(map)[b].cable, b>>
                 IN  s \in DOMAIN map /\ FirstHeard(map)[b].distance = map[s]
<1>1. DOMAIN FirstHeard(map) = { s[2] : s \in DOMAIN map }
    BY DEF FirstHeard
<1>2. ASSUME NEW b \in DOMAIN FirstHeard(map)
      PROVE  LET s == <<FirstHeard(map)[b].cable, b>>
             IN  s \in DOMAIN map /\ FirstHeard(map)[b].distance = map[s]
    <2> DEFINE First(s) ==
            s[2] = b /\ \A t \in DOMAIN map : t[2] = b => ~ Before(t, s)
    <2> DEFINE cables == { c \in Cables : <<c, b>> \in DOMAIN map }
    <2>1. cables \subseteq Nat /\ cables # {}
        <3>1. PICK s \in DOMAIN map : s[2] = b
            BY <1>1
        <3>2. s = <<s[1], b>> /\ s[1] \in Cables
            BY <3>1 DEF Stations
        <3> QED BY <3>1, <3>2, RoutesAssumption
    <2>2. PICK c \in cables : \A k \in cables : ~ (k < c)
        BY <2>1, LeastNumber
    <2>3. First(<<c, b>>)
        <3> SUFFICES ASSUME NEW t \in DOMAIN map, t[2] = b
                     PROVE  ~ Before(t, <<c, b>>)
            OBVIOUS
        <3>1. t \in Stations /\ t = <<t[1], t[2]>> /\ t[1] \in Cables
            BY DEF Stations
        <3>2. t[1] \in cables
            BY <3>1
        <3>3. b \in Routers /\ b \in Nat
            BY <3>1, RoutesAssumption DEF Stations
        <3> QED BY <2>1, <2>2, <3>2, <3>3 DEF Before
    <2> DEFINE station == CHOOSE s \in DOMAIN map : First(s)
    <2>4. station \in DOMAIN map /\ First(station)
        <3>1. \E s \in DOMAIN map : First(s)
            BY <2>3
        <3> HIDE DEF First
        <3> QED BY <3>1
    <2>5. /\ FirstHeard(map)[b].cable = station[1]
          /\ FirstHeard(map)[b].distance = map[station]
        BY <1>1 DEF FirstHeard
    <2>6. station = <<station[1], b>>
        BY <2>4 DEF Stations
    <2> QED BY <2>4, <2>5, <2>6
<1> QED BY <1>1, <1>2

LEMMA InitInv == Init => Inv
<1> SUFFICES ASSUME Init PROVE Inv
    OBVIOUS
<1>1. attached \in [Cables -> SUBSET Routers]
    BY RoutesAssumption DEF Init, Scenario
<1>2. CASE RoundZero
    BY <1>1, <1>2 DEF RoundZero, Inv, MapsOfNeighbours, NoDeadCable, Stations
<1>3. CASE RoundOne
    <2>1. /\ heard = [r \in Routers |-> heard[r]]
          /\ \A r \in Routers : DOMAIN heard[r] = Audible(attached, r)
        <3>1. PICK measured :
                heard = [r \in Routers |->
                            [s \in Audible(attached, r) |-> measured[<<s, r>>]]]
            BY <1>3 DEF RoundOne
        <3> QED BY <3>1
    <2>2. near = [r \in Routers |-> FirstHeard(heard[r])]
        BY <1>3 DEF RoundOne
    <2>3. MapsOfNeighbours
        BY <1>1, <2>1, <2>2 DEF MapsOfNeighbours, Audible
    <2>4. ASSUME NEW r \in Routers, NEW b \in DOMAIN near[r]
          PROVE  /\ <<near[r][b].cable, b>> \in DOMAIN heard[r]
                 /\ r \in attached[near[r][b].cable]
        <3>1. <<near[r][b].cable, b>> \in DOMAIN heard[r]
            BY <2>1, <2>2, FirstHeardIsHeard DEF Audible
        <3> QED BY <2>1, <3>1 DEF Audible
    <2> QED BY <2>3, <2>4 DEF Inv, NoDeadCable
<1> QED BY <1>2, <1>3 DEF Init

-----------------------------------------------------------------------------
\* Steps that leave the neighbours alone and take no connection away.
LEMMA QuietStep ==
    ASSUME Inv, UNCHANGED <<heard, near>>,
           attached' \in [Cables -> SUBSET Routers],
           \A c \in Cables : attached[c] \subseteq attached'[c]
    PROVE  Inv'
<1>1. MapsOfNeighbours'
    BY DEF Inv, MapsOfNeighbours
<1>2. ASSUME NEW r \in Routers, NEW b \in DOMAIN near[r]
      PROVE  near[r][b].cable \in Cables
    <2>1. <<near[r][b].cable, b>> \in DOMAIN heard[r]
        BY DEF Inv, NoDeadCable
    <2> QED BY <2>1 DEF Inv, MapsOfNeighbours, Stations
<1> QED BY <1>1, <1>2 DEF Inv, NoDeadCable

\* The table forgets a neighbour with any of its stations, so what is left of
\* it is still heard.
LEMMA ForgettingStep ==
    ASSUME Inv, NEW r \in Routers, NEW gone, gone \subseteq DOMAIN heard[r],
           RemoveNeighbours(r, gone)
    PROVE  /\ heard' = [q \in Routers |-> heard'[q]]
           /\ near' = [q \in Routers |-> near'[q]]
           /\ \A q \in Routers : DOMAIN heard'[q] \subseteq DOMAIN heard[q]
           /\ \A q \in Routers \ {r} :
                 heard'[q] = heard[q] /\ near'[q] = near[q]
           /\ \A b \in DOMAIN near'[r] :
                 /\ b \in DOMAIN near[r]
                 /\ near'[r][b] = near[r][b]
                 /\ <<near[r][b].cable, b>> \in DOMAIN heard[r] \ gone
                 /\ <<near[r][b].cable, b>> \in DOMAIN heard'[r]
<1>1. /\ heard' = [heard EXCEPT ![r] = Restrict(@, DOMAIN @ \ gone)]
      /\ near' = [near EXCEPT ![r] =
                     Restrict(@, DOMAIN @ \ { s[2] : s \in gone })]
    BY DEF RemoveNeighbours
<1>2. /\ heard = [q \in Routers |-> heard[q]]
      /\ near = [q \in Routers |-> near[q]]
    BY DEF Inv, MapsOfNeighbours
<1>3. /\ heard'[r] = Restrict(heard[r], DOMAIN heard[r] \ gone)
      /\ near'[r] = Restrict(near[r], DOMAIN near[r] \ { s[2] : s \in gone })
    BY <1>1, <1>2
<1>4. DOMAIN heard'[r] = DOMAIN heard[r] \ gone
    BY <1>3 DEF Restrict
<1>5. ASSUME NEW b \in DOMAIN near'[r]
      PROVE  /\ b \in DOMAIN near[r]
             /\ near'[r][b] = near[r][b]
             /\ <<near[r][b].cable, b>> \in DOMAIN heard[r] \ gone
    <2>1. /\ b \in DOMAIN near[r] /\ b \notin { s[2] : s \in gone }
          /\ near'[r][b] = near[r][b]
        BY <1>3 DEF Restrict
    <2>2. <<near[r][b].cable, b>> \in DOMAIN heard[r]
        BY <2>1 DEF Inv, NoDeadCable
    <2> QED BY <2>1, <2>2
<1> QED BY <1>1, <1>2, <1>4, <1>5

LEMMA RemoveConnectionStep ==
    ASSUME Inv, NEW r \in Routers, NEW c \in Cables, RemoveConnection(r, c)
    PROVE  Inv'
<1> DEFINE gone == { s \in DOMAIN heard[r] : s[1] = c }
<1>1. /\ attached' = [attached EXCEPT ![c] = @ \ {r}]
      /\ RemoveNeighbours(r, gone)
    BY DEF RemoveConnection
<1> HIDE DEF gone
<1>2. gone \subseteq DOMAIN heard[r]
    BY DEF gone
<1>3. MapsOfNeighbours'
    BY <1>1, <1>2, ForgettingStep DEF Inv, MapsOfNeighbours
<1>4. ASSUME NEW q \in Routers, NEW b \in DOMAIN near'[q]
      PROVE  /\ <<near'[q][b].cable, b>> \in DOMAIN heard'[q]
             /\ q \in attached'[near'[q][b].cable]
    <2>1. CASE q = r
        <3>1. /\ b \in DOMAIN near[r] /\ near'[r][b] = near[r][b]
              /\ <<near[r][b].cable, b>> \in DOMAIN heard[r] \ gone
              /\ <<near[r][b].cable, b>> \in DOMAIN heard'[r]
            BY <1>1, <1>2, <2>1, ForgettingStep
        <3>2. near[r][b].cable # c
            BY <3>1 DEF gone
        <3>3. near[r][b].cable \in Cables /\ r \in attached[near[r][b].cable]
            BY <3>1 DEF Inv, NoDeadCable, MapsOfNeighbours, Stations
        <3> QED BY <1>1, <2>1, <3>1, <3>2, <3>3 DEF Inv, MapsOfNeighbours
    <2>2. CASE q # r
        <3>1. heard'[q] = heard[q] /\ near'[q] = near[q]
            BY <1>1, <1>2, <2>2, ForgettingStep
        <3>2. /\ <<near[q][b].cable, b>> \in DOMAIN heard[q]
              /\ near[q][b].cable \in Cables
              /\ q \in attached[near[q][b].cable]
            BY <3>1 DEF Inv, NoDeadCable, MapsOfNeighbours, Stations
        <3> QED BY <1>1, <2>2, <3>1, <3>2 DEF Inv, MapsOfNeighbours
    <2> QED BY <2>1, <2>2
<1> QED BY <1>3, <1>4 DEF Inv, NoDeadCable

LEMMA RemoveOldNeighboursStep ==
    ASSUME Inv, NEW r \in Routers, RemoveOldNeighbours(r)
    PROVE  Inv'
<1>1. PICK gone \in SUBSET DOMAIN heard[r] \ {{}} : RemoveNeighbours(r, gone)
    BY DEF RemoveOldNeighbours
<1>2. attached' = attached
    BY DEF RemoveOldNeighbours
<1>3. MapsOfNeighbours'
    BY <1>1, <1>2, ForgettingStep DEF Inv, MapsOfNeighbours
<1>4. ASSUME NEW q \in Routers, NEW b \in DOMAIN near'[q]
      PROVE  /\ <<near'[q][b].cable, b>> \in DOMAIN heard'[q]
             /\ q \in attached'[near'[q][b].cable]
    <2>1. CASE q = r
        BY <1>1, <1>2, <2>1, ForgettingStep DEF Inv, NoDeadCable
    <2>2. CASE q # r
        BY <1>1, <1>2, <2>2, ForgettingStep DEF Inv, NoDeadCable
    <2> QED BY <2>1, <2>2
<1> QED BY <1>3, <1>4 DEF Inv, NoDeadCable

\* The entry that add makes is for the station that answered; the one that it
\* keeps is for a station that is still heard.
LEMMA ParseHelloAnswerStep ==
    ASSUME Inv, NEW r \in Routers, NEW c \in Cables, NEW b \in Routers,
           ParseHelloAnswer(r, c, b)
    PROVE  Inv'
<1>1. PICK distance \in scenario.distances : AddNeighbour(r, <<c, b>>, distance)
    BY DEF ParseHelloAnswer
<1>2. attached' = attached /\ r \in attached[c]
    BY DEF ParseHelloAnswer
<1> DEFINE heardHere == [t \in DOMAIN heard[r] \union {<<c, b>>} |->
                            IF t = <<c, b>> THEN distance ELSE heard[r][t]]
           nearHere == [a \in DOMAIN near[r] \union {b} |->
                           IF a \in DOMAIN near[r] THEN near[r][a]
                           ELSE [cable |-> c, distance |-> distance]]
<1>3. /\ heard' = [heard EXCEPT ![r] = heardHere]
      /\ near' = [near EXCEPT ![r] = nearHere]
    BY <1>1 DEF AddNeighbour
<1>4. /\ heard = [q \in Routers |-> heard[q]]
      /\ near = [q \in Routers |-> near[q]]
    BY DEF Inv, MapsOfNeighbours
<1>5. DOMAIN heardHere = {<<c, b>>} \union DOMAIN heard[r]
    OBVIOUS
<1>6. /\ DOMAIN nearHere = DOMAIN near[r] \union {b}
      /\ \A a \in DOMAIN near[r] : nearHere[a] = near[r][a]
      /\ b \notin DOMAIN near[r] => nearHere[b].cable = c
    OBVIOUS
<1> HIDE DEF heardHere, nearHere
<1>7. /\ heard'[r] = heardHere /\ near'[r] = nearHere
      /\ \A q \in Routers \ {r} : heard'[q] = heard[q] /\ near'[q] = near[q]
    BY <1>3, <1>4
<1>8. MapsOfNeighbours'
    <2>1. \A q \in Routers : DOMAIN heard'[q] \subseteq Stations
        BY <1>5, <1>7 DEF Inv, MapsOfNeighbours, Stations
    <2> QED BY <1>2, <1>3, <1>4, <2>1 DEF Inv, MapsOfNeighbours
<1>9. ASSUME NEW q \in Routers, NEW a \in DOMAIN near'[q]
      PROVE  /\ <<near'[q][a].cable, a>> \in DOMAIN heard'[q]
             /\ q \in attached'[near'[q][a].cable]
    <2>1. CASE q = r /\ a \in DOMAIN near[r]
        BY <1>2, <1>5, <1>6, <1>7, <2>1 DEF Inv, NoDeadCable
    <2>2. CASE q = r /\ a \notin DOMAIN near[r]
        BY <1>2, <1>5, <1>6, <1>7, <2>2
    <2>3. CASE q # r
        BY <1>2, <1>7, <2>3 DEF Inv, NoDeadCable
    <2> QED BY <2>1, <2>2, <2>3
<1> QED BY <1>8, <1>9 DEF Inv, NoDeadCable

LEMMA NextInv == Inv /\ [Next]_vars => Inv'
<1> SUFFICES ASSUME Inv, [Next]_vars PROVE Inv'
    OBVIOUS
<1> USE DEF tables, traffic
<1>1. ASSUME UNCHANGED <<attached, heard, near>>
      PROVE  Inv'
    BY <1>1, QuietStep DEF Inv, MapsOfNeighbours
<1>2. CASE UNCHANGED vars
    BY <1>1, <1>2 DEF vars
<1>3. ASSUME NEW r \in Routers, NEW c \in Cables, AppendConnection(r, c)
      PROVE  Inv'
    <2>1. attached' = [attached EXCEPT ![c] = @ \union {r}]
        BY <1>3 DEF AppendConnection
    <2>2. UNCHANGED <<heard, near>>
        BY <1>3 DEF AppendConnection
    <2> QED BY <2>1, <2>2, QuietStep DEF Inv, MapsOfNeighbours
<1>4. ASSUME NEW r \in Routers, NEW c \in Cables, RemoveConnection(r, c)
      PROVE  Inv'
    BY <1>4, RemoveConnectionStep
<1>5. ASSUME NEW r \in Routers, NEW c \in Cables, NEW b \in Routers,
             ParseHelloAnswer(r, c, b)
      PROVE  Inv'
    BY <1>5, ParseHelloAnswerStep
<1>6. ASSUME NEW r \in Routers, NEW a \in Routers, NEW n \in 1 .. Len(lists[a]),
             UpdateRouterInfo(r, a, n)
      PROVE  Inv'
    BY <1>1, <1>6 DEF UpdateRouterInfo
<1>7. ASSUME NEW r \in Routers, NEW d \in Routers, Send(r, d)
      PROVE  Inv'
    BY <1>1, <1>7 DEF Send
<1>8. ASSUME NEW r \in Routers, RemoveOldNeighbours(r)
      PROVE  Inv'
    BY <1>8, RemoveOldNeighboursStep
<1>9. ASSUME NEW r \in Routers, SendNeighboursList(r) \/ Expire(r) \/ Receive(r)
      PROVE  Inv'
    BY <1>1, <1>9 DEF SendNeighboursList, Expire, Receive
<1>10. ASSUME NEW f \in frames, ParseIP(f) \/ Lose(f)
       PROVE  Inv'
    BY <1>1, <1>10 DEF ParseIP, Lose
<1> QED
    BY <1>2, <1>3, <1>4, <1>5, <1>6, <1>7, <1>8, <1>9, <1>10 DEF Next

(***************************************************************************)
(* forward never uses a neighbour that the network layer has forgotten, nor*)
(* a connection that was removed, though remove, add and removeOldNeighbours*)
(* change two maps with different keys (networklayer.cpp:31-74, 128-148,   *)
(* routingtable.cpp:47-75).                                                *)
(***************************************************************************)
THEOREM CablesAreAlive == Spec => []NoDeadCable
<1>1. Inv => NoDeadCable
    BY DEF Inv
<1> QED BY InitInv, NextInv, <1>1, PTL DEF Spec

-----------------------------------------------------------------------------
(***************************************************************************)
(* TypeOK with what its proof needs: the shape of the maps, of the lists   *)
(* and of the packets.                                                     *)
(***************************************************************************)
IsList(s) == s \in Seq({ s[i] : i \in DOMAIN s })

NearType ==
    /\ near = [r \in Routers |-> near[r]]
    /\ \A r \in Routers : DOMAIN near[r] \subseteq Routers \ {r}

ListsType ==
    /\ lists = [r \in Routers |-> lists[r]]
    /\ \A r \in Routers : IsList(lists[r])
    /\ number \in [Routers -> [Routers -> Nat]]
    /\ \A r, a \in Routers : number[r][a] <= Len(lists[a])
    /\ \A r \in Routers : number[r][r] = 0

RoutesType ==
    /\ routes = [r \in Routers |-> routes[r]]
    /\ \A r \in Routers :
          DOMAIN routes[r].through = { a \in Routers : number[r][a] > 0 }

PacketType == [source : Routers, destination : Routers, hops : Nat]

TrafficType ==
    /\ readBuffer \in [Routers -> Seq(Routers)]
    /\ \A r \in Routers : Len(readBuffer[r]) <= MAX_READ_BUFFER_SIZE
    /\ \A f \in frames :
          /\ f.packet \in PacketType
          /\ f.packet.hops < MAX_HOPS
          /\ f.station \in Stations

Types == NearType /\ ListsType /\ RoutesType /\ TrafficType

\* A list stays one when an element is appended.
LEMMA AppendedList ==
    ASSUME NEW s, NEW e, IsList(s)
    PROVE  IsList(Append(s, e)) /\ Len(Append(s, e)) = Len(s) + 1
<1> DEFINE S == { s[i] : i \in DOMAIN s }
           T == S \union {e}
           t == Append(s, e)
<1>1. s \in Seq(T) /\ e \in T
    <2>1. s \in Seq(S) /\ S \subseteq T
        BY DEF IsList
    <2> HIDE DEF S, T
    <2>2. \A i \in 1 .. Len(s) : s[i] \in T
        BY <2>1
    <2> QED BY <2>1, <2>2 DEF T
<1> HIDE DEF T
<1>2. t \in Seq(T) /\ Len(t) = Len(s) + 1
    BY <1>1
<1>3. t \in Seq({ t[i] : i \in DOMAIN t })
    <2> HIDE DEF t
    <2>1. /\ t = [i \in 1 .. Len(t) |-> t[i]]
          /\ DOMAIN t = 1 .. Len(t)
          /\ Len(t) \in Nat
        BY <1>2
    <2> DEFINE U == { t[i] : i \in DOMAIN t }
    <2>2. \A i \in 1 .. Len(t) : t[i] \in U
        BY <2>1
    <2> HIDE DEF U
    <2> QED BY <2>1, <2>2 DEF U
<1> QED BY <1>2, <1>3 DEF IsList

\* update gives a route to every entry of the map, and to nothing else.
LEMMA RouteForEveryEntry ==
    ASSUME NEW table
    PROVE  DOMAIN Update(table).through = DOMAIN table.far
BY DEF Update

LEMMA FarFromTable ==
    ASSUME NEW n, NEW numbers
    PROVE  DOMAIN Table(n, numbers).far = { b \in Routers : numbers[b] > 0 }
BY DEF Table

\* update, whatever it removes: its numbers are some of those it is given.
LEMMA UpdatedStep ==
    ASSUME ListsType, RoutesType, lists' = lists,
           NEW r \in Routers, NEW n, NEW numbers \in [Routers -> Nat],
           numbers[r] = 0,
           \A a \in Routers : numbers[a] <= Len(lists[a]),
           Updated(r, n, numbers)
    PROVE  ListsType' /\ RoutesType'
<1> DEFINE left == Remaining(numbers)
           found == Update(Table(n, left))
<1>1. /\ number' = [number EXCEPT ![r] = left]
      /\ routes' = [routes EXCEPT ![r] = found]
    BY DEF Updated
<1>2. /\ left \in [Routers -> Nat]
      /\ left[r] = 0
      /\ \A a \in Routers : left[a] = 0 \/ left[a] = numbers[a]
    BY DEF Remaining
<1>3. DOMAIN found.through = { a \in Routers : left[a] > 0 }
    BY RouteForEveryEntry, FarFromTable
<1> HIDE DEF left, found
<1>4. \A a \in Routers : Len(lists[a]) \in Nat
    BY DEF ListsType, IsList
<1>5. \A a \in Routers : left[a] <= Len(lists[a])
    BY <1>2, <1>4
<1>6. ListsType'
    <2>1. number' \in [Routers -> [Routers -> Nat]]
        BY <1>1, <1>2 DEF ListsType
    <2>2. \A q, a \in Routers : number'[q][a] <= Len(lists'[a])
        BY <1>1, <1>2, <1>5 DEF ListsType
    <2>3. \A q \in Routers : number'[q][q] = 0
        BY <1>1, <1>2 DEF ListsType
    <2> QED BY <2>1, <2>2, <2>3 DEF ListsType
<1>7. RoutesType'
    <2>1. number'[r] = left /\ routes'[r] = found
        BY <1>1 DEF ListsType, RoutesType
    <2>2. \A q \in Routers \ {r} :
              number'[q] = number[q] /\ routes'[q] = routes[q]
        BY <1>1 DEF ListsType, RoutesType
    <2>3. routes' = [q \in Routers |-> routes'[q]]
        BY <1>1 DEF RoutesType
    <2>4. ASSUME NEW q \in Routers
          PROVE  DOMAIN routes'[q].through =
                     { a \in Routers : number'[q][a] > 0 }
        <3>1. CASE q = r
            BY <1>3, <2>1, <3>1
        <3>2. CASE q # r
            BY <2>2, <3>2 DEF RoutesType
        <3> QED BY <3>1, <3>2
    <2> QED BY <2>3, <2>4 DEF RoutesType
<1> QED BY <1>6, <1>7

LEMMA InitTypes == Init => Types
<1> SUFFICES ASSUME Init PROVE Types
    OBVIOUS
<1>1. TrafficType
    BY RoutesAssumption DEF Init, TrafficType
<1>2. NearType
    <2>1. CASE RoundZero
        BY <2>1 DEF RoundZero, NearType
    <2>2. CASE RoundOne
        <3>1. near = [r \in Routers |-> FirstHeard(heard[r])]
            BY <2>2 DEF RoundOne
        <3>2. \A r \in Routers : DOMAIN heard[r] = Audible(attached, r)
            <4>1. PICK measured :
                    heard = [r \in Routers |->
                        [s \in Audible(attached, r) |-> measured[<<s, r>>]]]
                BY <2>2 DEF RoundOne
            <4> QED BY <4>1
        <3>3. \A r \in Routers :
                  DOMAIN near[r] = { s[2] : s \in Audible(attached, r) }
            BY <3>1, <3>2 DEF FirstHeard
        <3>4. \A r \in Routers : \A s \in Audible(attached, r) :
                  s[2] \in Routers \ {r}
            BY DEF Audible, Stations
        <3>5. ASSUME NEW r \in Routers
              PROVE  DOMAIN near[r] \subseteq Routers \ {r}
            BY <3>3, <3>4
        <3> QED BY <3>1, <3>5 DEF NearType
    <2> QED BY <2>1, <2>2 DEF Init
<1>3. ListsType
    <2>1. CASE RoundZero
        BY <2>1 DEF RoundZero, ListsType, IsList
    <2>2. CASE RoundOne
        <3>1. /\ lists = [r \in Routers |-> <<DistanceMap(heard[r])>>]
              /\ number = [r \in Routers |->
                              [a \in Routers |-> IF a = r THEN 0 ELSE 1]]
            BY <2>2 DEF RoundOne
        <3>2. \A r \in Routers : IsList(lists[r]) /\ Len(lists[r]) = 1
            <4> SUFFICES ASSUME NEW r \in Routers
                         PROVE  IsList(lists[r]) /\ Len(lists[r]) = 1
                OBVIOUS
            <4>1. lists[r] = <<DistanceMap(heard[r])>>
                BY <3>1
            <4> QED BY <4>1 DEF IsList
        <3>3. \A r, a \in Routers : number[r][a] = IF a = r THEN 0 ELSE 1
            BY <3>1
        <3>4. number \in [Routers -> [Routers -> Nat]]
            BY <3>1
        <3>5. lists = [r \in Routers |-> lists[r]]
            BY <3>1
        <3>6. \A r, a \in Routers : number[r][a] <= Len(lists[a])
            <4> SUFFICES ASSUME NEW r \in Routers, NEW a \in Routers
                         PROVE  number[r][a] <= Len(lists[a])
                OBVIOUS
            <4>1. number[r][a] \in {0, 1} /\ Len(lists[a]) = 1
                BY <3>2, <3>3
            <4> QED BY <4>1
        <3> QED BY <3>2, <3>3, <3>4, <3>5, <3>6 DEF ListsType
    <2> QED BY <2>1, <2>2 DEF Init
<1>4. RoutesType
    <2>1. routes = [r \in Routers |-> Update(Table(near[r], number[r]))]
        BY DEF Init
    <2>2. \A r \in Routers : DOMAIN routes[r].through =
              { a \in Routers : number[r][a] > 0 }
        BY <2>1, RouteForEveryEntry, FarFromTable
    <2> QED BY <2>1, <2>2 DEF RoutesType
<1> QED BY <1>1, <1>2, <1>3, <1>4 DEF Types

\* A frame that is sent has a hop less than the packet, and goes to a neighbour
\* that is on a cable.
LEMMA ForwardStep ==
    ASSUME Inv, NearType, NEW r \in Routers, NEW packet \in PacketType,
           packet.hops <= MAX_HOPS, NEW others,
           \A f \in others :
              /\ f.packet \in PacketType
              /\ f.packet.hops < MAX_HOPS
              /\ f.station \in Stations,
           Forward(r, packet, others)
    PROVE  \A f \in frames' :
              /\ f.packet \in PacketType
              /\ f.packet.hops < MAX_HOPS
              /\ f.station \in Stations
<1>1. CASE ~ HasRoute(r, packet)
    BY <1>1 DEF Forward
<1>2. CASE HasRoute(r, packet)
    <2> DEFINE next == routes[r].through[packet.destination]
               f == Frame(r, packet)
    <2>1. next \in DOMAIN near[r] /\ packet.hops > 0
        BY <1>2 DEF HasRoute
    <2>2. f = [packet |-> [packet EXCEPT !.hops = packet.hops - 1],
               station |-> <<near[r][next].cable, next>>]
        BY DEF Frame
    <2>3. f.packet \in PacketType /\ f.packet.hops < MAX_HOPS
        BY <2>1, <2>2, RoutesAssumption DEF PacketType
    <2>4. f.station \in Stations
        BY <2>1, <2>2 DEF Inv, NoDeadCable, MapsOfNeighbours
    <2> HIDE DEF f
    <2>5. frames' = others \union {f}
        BY <1>2 DEF Forward, f
    <2> QED BY <2>3, <2>4, <2>5
<1> QED BY <1>1, <1>2

\* The entry for an answer is not for the router itself.
LEMMA NearStep ==
    ASSUME Inv, NearType, [Next]_vars
    PROVE  NearType'
<1> USE DEF tables, traffic
<1>1. CASE UNCHANGED near
    BY <1>1 DEF NearType
<1>2. ASSUME NEW r \in Routers, NEW gone, RemoveNeighbours(r, gone)
      PROVE  NearType'
    <2>1. near' = [near EXCEPT ![r] =
                      Restrict(near[r], DOMAIN near[r] \ { s[2] : s \in gone })]
        BY <1>2 DEF RemoveNeighbours
    <2>2. near'[r] = Restrict(near[r], DOMAIN near[r] \ { s[2] : s \in gone })
        BY <2>1 DEF NearType
    <2>3. DOMAIN near'[r] \subseteq DOMAIN near[r]
        BY <2>2 DEF Restrict
    <2> QED BY <2>1, <2>3 DEF NearType
<1>3. ASSUME NEW r \in Routers, NEW c \in Cables, NEW b \in Routers,
             ParseHelloAnswer(r, c, b)
      PROVE  NearType'
    <2>1. PICK distance : AddNeighbour(r, <<c, b>>, distance)
        BY <1>3 DEF ParseHelloAnswer
    <2> DEFINE nearHere == [a \in DOMAIN near[r] \union {b} |->
                               IF a \in DOMAIN near[r] THEN near[r][a]
                               ELSE [cable |-> c, distance |-> distance]]
    <2>2. near' = [near EXCEPT ![r] = nearHere]
        BY <2>1 DEF AddNeighbour
    <2>3. DOMAIN nearHere = DOMAIN near[r] \union {b}
        OBVIOUS
    <2> HIDE DEF nearHere
    <2>4. b # r
        BY <1>3 DEF ParseHelloAnswer
    <2> QED BY <2>2, <2>3, <2>4 DEF NearType
<1>4. CASE UNCHANGED vars
    BY <1>1, <1>4 DEF vars
<1>5. CASE Next
    <2>1. \A r \in Routers, c \in Cables :
              AppendConnection(r, c) => UNCHANGED near
        BY DEF AppendConnection
    <2>2. \A r \in Routers, c \in Cables : RemoveConnection(r, c) => NearType'
        BY <1>2 DEF RemoveConnection
    <2>3. \A r \in Routers : RemoveOldNeighbours(r) => NearType'
        BY <1>2 DEF RemoveOldNeighbours
    <2>4. \A r, d \in Routers : Send(r, d) => UNCHANGED near
        BY DEF Send
    <2>5. \A r \in Routers :
              SendNeighboursList(r) \/ Expire(r) \/ Receive(r) => UNCHANGED near
        BY DEF SendNeighboursList, Expire, Receive
    <2>6. \A f \in frames : ParseIP(f) \/ Lose(f) => UNCHANGED near
        BY DEF ParseIP, Lose
    <2>7. \A r, a \in Routers : \A n \in 1 .. Len(lists[a]) :
              UpdateRouterInfo(r, a, n) => UNCHANGED near
        BY DEF UpdateRouterInfo
    <2> QED BY <1>1, <1>3, <1>5, <2>1, <2>2, <2>3, <2>4, <2>5, <2>6, <2>7
            DEF Next
<1> QED BY <1>4, <1>5

\* Lists are only appended; a router takes one of another that was sent.
LEMMA ListsStep ==
    ASSUME Types, [Next]_vars
    PROVE  ListsType' /\ RoutesType'
<1> USE DEF tables, traffic
<1>1. CASE UNCHANGED <<lists, number, routes>>
    BY <1>1 DEF Types, ListsType, RoutesType
<1>2. ASSUME NEW r \in Routers, NEW a \in Routers, NEW n \in 1 .. Len(lists[a]),
             UpdateRouterInfo(r, a, n)
      PROVE  ListsType' /\ RoutesType'
    <2> DEFINE numbers == [number[r] EXCEPT ![a] = n]
    <2>1. /\ Updated(r, near[r], numbers)
          /\ r # a
          /\ lists' = lists
        BY <1>2 DEF UpdateRouterInfo
    <2>2. Len(lists[a]) \in Nat
        BY DEF Types, ListsType, IsList
    <2>3. n \in Nat /\ n <= Len(lists[a])
        BY <2>2
    <2>4. number[r] \in [Routers -> Nat]
        BY DEF Types, ListsType
    <2>5. /\ numbers \in [Routers -> Nat]
          /\ numbers[r] = 0
          /\ \A b \in Routers : numbers[b] <= Len(lists[b])
        BY <2>1, <2>3, <2>4 DEF Types, ListsType
    <2> HIDE DEF numbers
    <2> QED BY <2>1, <2>5, UpdatedStep DEF Types
<1>3. ASSUME NEW r \in Routers, RemoveOldNeighbours(r)
      PROVE  ListsType' /\ RoutesType'
    <2>1. Updated(r, near'[r], number[r]) /\ lists' = lists
        BY <1>3 DEF RemoveOldNeighbours
    <2>2. /\ number[r] \in [Routers -> Nat]
          /\ number[r][r] = 0
          /\ \A a \in Routers : number[r][a] <= Len(lists[a])
        BY DEF Types, ListsType
    <2> QED BY <2>1, <2>2, UpdatedStep DEF Types
<1>4. ASSUME NEW r \in Routers, SendNeighboursList(r)
      PROVE  ListsType' /\ RoutesType'
    <2>1. /\ lists' = [lists EXCEPT ![r] =
                          Append(lists[r], DistanceMap(heard[r]))]
          /\ UNCHANGED <<number, routes>>
        BY <1>4 DEF SendNeighboursList
    <2>2. lists'[r] = Append(lists[r], DistanceMap(heard[r]))
        BY <2>1 DEF Types, ListsType
    <2>3. IsList(lists'[r]) /\ Len(lists'[r]) = Len(lists[r]) + 1
        BY <2>2, AppendedList DEF Types, ListsType
    <2>4. \A a \in Routers \ {r} : lists'[a] = lists[a]
        BY <2>1 DEF Types, ListsType
    <2>5. \A a \in Routers : Len(lists[a]) \in Nat
        BY DEF Types, ListsType, IsList
    <2>6. \A q, a \in Routers : number'[q][a] <= Len(lists'[a])
        BY <2>1, <2>3, <2>4, <2>5 DEF Types, ListsType
    <2>7. lists' = [a \in Routers |-> lists'[a]]
        BY <2>1 DEF Types, ListsType
    <2>8. \A a \in Routers : IsList(lists'[a])
        BY <2>3, <2>4 DEF Types, ListsType
    <2>9. RoutesType'
        BY <2>1 DEF Types, RoutesType
    <2> QED BY <2>1, <2>6, <2>7, <2>8, <2>9 DEF Types, ListsType
<1>5. CASE UNCHANGED vars
    BY <1>1, <1>5 DEF vars
<1>6. CASE Next
    <2>1. \A r \in Routers, c \in Cables, b \in Routers :
              \/ AppendConnection(r, c)
              \/ RemoveConnection(r, c)
              \/ ParseHelloAnswer(r, c, b)
              => UNCHANGED <<lists, number, routes>>
        BY DEF AppendConnection, RemoveConnection, ParseHelloAnswer
    <2>2. \A r, d \in Routers :
              Send(r, d) \/ Expire(r) \/ Receive(r)
              => UNCHANGED <<lists, number, routes>>
        BY DEF Send, Expire, Receive
    <2>3. \A f \in frames :
              ParseIP(f) \/ Lose(f) => UNCHANGED <<lists, number, routes>>
        BY DEF ParseIP, Lose
    <2> QED BY <1>1, <1>2, <1>3, <1>4, <1>6, <2>1, <2>2, <2>3 DEF Next
<1> QED BY <1>5, <1>6

\* Packets lose a hop with every frame; a full buffer takes none.
LEMMA TrafficStep ==
    ASSUME Inv, Types, [Next]_vars
    PROVE  TrafficType'
<1> USE DEF tables, traffic
<1> DEFINE Good(f) == /\ f.packet \in PacketType
                      /\ f.packet.hops < MAX_HOPS
                      /\ f.station \in Stations
<1>1. /\ readBuffer \in [Routers -> Seq(Routers)]
      /\ \A r \in Routers : Len(readBuffer[r]) <= MAX_READ_BUFFER_SIZE
      /\ \A f \in frames : Good(f)
    BY DEF Types, TrafficType
<1>2. ASSUME \A f \in frames' : Good(f), UNCHANGED readBuffer
      PROVE  TrafficType'
    BY <1>1, <1>2 DEF TrafficType
<1>3. CASE UNCHANGED <<frames, readBuffer>>
    BY <1>1, <1>2, <1>3
<1>4. ASSUME NEW r \in Routers, NEW d \in Routers, Send(r, d)
      PROVE  TrafficType'
    <2> DEFINE packet == [source |-> r, destination |-> d, hops |-> MAX_HOPS]
    <2>1. Forward(r, packet, frames) /\ readBuffer' = readBuffer
        BY <1>4 DEF Send
    <2>2. packet \in PacketType /\ packet.hops <= MAX_HOPS
        BY RoutesAssumption DEF PacketType
    <2> HIDE DEF packet
    <2>3. \A f \in frames' : Good(f)
        BY <1>1, <2>1, <2>2, ForwardStep DEF Types
    <2> QED BY <1>2, <2>1, <2>3
<1>5. ASSUME NEW f \in frames, ParseIP(f)
      PROVE  TrafficType'
    <2> DEFINE r == f.station[2]
    <2>1. r \in Routers /\ f.packet \in PacketType /\ f.packet.hops < MAX_HOPS
        BY <1>1 DEF Stations
    <2>2. f.packet.hops <= MAX_HOPS /\ f.packet.source \in Routers
        BY <2>1, RoutesAssumption DEF PacketType
    <2>3. CASE Deliver(r, f.packet.source) /\ frames' = frames \ {f}
        <3>1. \A g \in frames' : Good(g)
            BY <1>1, <2>3
        <3>2. CASE readBuffer' = readBuffer
            BY <1>2, <3>1, <3>2
        <3>3. CASE /\ Len(readBuffer[r]) < MAX_READ_BUFFER_SIZE
                   /\ readBuffer' = [readBuffer EXCEPT ![r] =
                                        Append(@, f.packet.source)]
            <4> HIDE DEF r
            <4>1. readBuffer[r] \in Seq(Routers)
                BY <1>1, <2>1
            <4>2. /\ Append(readBuffer[r], f.packet.source) \in Seq(Routers)
                  /\ Len(Append(readBuffer[r], f.packet.source)) =
                        Len(readBuffer[r]) + 1
                BY <2>2, <4>1
            <4>3. readBuffer' \in [Routers -> Seq(Routers)]
                BY <1>1, <2>1, <3>3, <4>2
            <4>4. /\ readBuffer'[r] = Append(readBuffer[r], f.packet.source)
                  /\ \A q \in Routers \ {r} : readBuffer'[q] = readBuffer[q]
                BY <1>1, <2>1, <3>3
            <4>5. Len(readBuffer'[r]) <= MAX_READ_BUFFER_SIZE
                BY <3>3, <4>1, <4>2, <4>4, RoutesAssumption
            <4>6. \A q \in Routers :
                      Len(readBuffer'[q]) <= MAX_READ_BUFFER_SIZE
                BY <1>1, <4>4, <4>5
            <4> QED BY <3>1, <4>3, <4>6 DEF TrafficType
        <3> QED BY <2>3, <3>2, <3>3 DEF Deliver
    <2>4. CASE Forward(r, f.packet, frames \ {f}) /\ UNCHANGED readBuffer
        <3> HIDE DEF r
        <3>1. \A g \in frames' : Good(g)
            BY <1>1, <2>1, <2>2, <2>4, ForwardStep DEF Types
        <3> QED BY <1>2, <2>4, <3>1
    <2> QED BY <1>5, <2>3, <2>4 DEF ParseIP
<1>6. ASSUME NEW f \in frames, Lose(f)
      PROVE  TrafficType'
    BY <1>1, <1>2, <1>6 DEF Lose
<1>7. ASSUME NEW r \in Routers, Receive(r)
      PROVE  TrafficType'
    <2>1. /\ readBuffer[r] # <<>>
          /\ readBuffer' = [readBuffer EXCEPT ![r] = Tail(@)]
          /\ UNCHANGED frames
        BY <1>7 DEF Receive
    <2>2. readBuffer[r] \in Seq(Routers)
        BY <1>1
    <2>3. /\ Tail(readBuffer[r]) \in Seq(Routers)
          /\ Len(Tail(readBuffer[r])) = Len(readBuffer[r]) - 1
          /\ Len(readBuffer[r]) \in Nat
        BY <2>1, <2>2
    <2>4. /\ readBuffer'[r] = Tail(readBuffer[r])
          /\ \A q \in Routers \ {r} : readBuffer'[q] = readBuffer[q]
        BY <1>1, <2>1
    <2>5. readBuffer' \in [Routers -> Seq(Routers)]
        BY <1>1, <2>1, <2>3
    <2>6. Len(readBuffer'[r]) <= MAX_READ_BUFFER_SIZE
        BY <1>1, <2>3, <2>4, RoutesAssumption
    <2>7. \A q \in Routers : Len(readBuffer'[q]) <= MAX_READ_BUFFER_SIZE
        BY <1>1, <2>4, <2>6
    <2> QED BY <1>1, <2>1, <2>5, <2>7 DEF TrafficType
<1>8. CASE UNCHANGED vars
    BY <1>3, <1>8 DEF vars
<1>9. CASE Next
    <2>1. \A r \in Routers, c \in Cables, b \in Routers :
              \/ AppendConnection(r, c)
              \/ RemoveConnection(r, c)
              \/ ParseHelloAnswer(r, c, b)
              => UNCHANGED <<frames, readBuffer>>
        BY DEF AppendConnection, RemoveConnection, ParseHelloAnswer
    <2>2. \A r, a \in Routers : \A n \in 1 .. Len(lists[a]) :
              UpdateRouterInfo(r, a, n) => UNCHANGED <<frames, readBuffer>>
        BY DEF UpdateRouterInfo
    <2>3. \A r \in Routers :
              RemoveOldNeighbours(r) \/ SendNeighboursList(r) \/ Expire(r)
              => UNCHANGED <<frames, readBuffer>>
        BY DEF RemoveOldNeighbours, SendNeighboursList, Expire
    <2> QED BY <1>3, <1>4, <1>5, <1>6, <1>7, <1>9, <2>1, <2>2, <2>3 DEF Next
<1> QED BY <1>8, <1>9

(***************************************************************************)
(* The maps, the routes and the packets of the network layer keep their    *)
(* types: a router is no neighbour of its own and has no list of its own;  *)
(* update leaves a route for every entry of m_routerInfoMap and for nothing*)
(* else (routingtable.cpp:148-211); no frame carries more hops than        *)
(* MAX_HOPS - 1 (routingtable.cpp:26-45), and m_readBuffer never grows over*)
(* its size (networklayer.cpp:302-316).                                    *)
(***************************************************************************)
THEOREM TypeCorrect == Spec => []TypeOK
<1>1. Init => Inv /\ Types
    BY InitInv, InitTypes
<1>2. Inv /\ Types /\ [Next]_vars => (Inv /\ Types)'
    BY NextInv, NearStep, ListsStep, TrafficStep DEF Types
<1>3. Inv /\ Types => TypeOK
    <2> SUFFICES ASSUME Inv, Types PROVE TypeOK
        OBVIOUS
    <2>1. \A r, a \in Routers : number[r][a] \in 0 .. Len(lists[a])
        <3> SUFFICES ASSUME NEW r \in Routers, NEW a \in Routers
                     PROVE  number[r][a] \in 0 .. Len(lists[a])
            OBVIOUS
        <3>1. number[r][a] \in Nat /\ number[r][a] <= Len(lists[a])
            BY DEF Types, ListsType
        <3>2. Len(lists[a]) \in Nat
            BY DEF Types, ListsType, IsList
        <3> QED BY <3>1, <3>2
    <2> QED
        BY <2>1 DEF Inv, MapsOfNeighbours, Types, NearType, ListsType,
                    RoutesType, TrafficType, TypeOK
<1> QED BY <1>1, <1>2, <1>3, PTL DEF Spec

-----------------------------------------------------------------------------
\* A set of numbers with 0 and every successor is the set of all of them.
LEMMA EveryNumber ==
    ASSUME NEW S, 0 \in S, \A n \in Nat : n \in S => n + 1 \in S
    PROVE  \A n \in Nat : n \in S
<1> SUFFICES ASSUME NEW m \in Nat, m \notin S
             PROVE  FALSE
    OBVIOUS
<1> DEFINE missing == { n \in Nat : n \notin S }
<1>1. PICK n \in missing : \A k \in missing : ~ (k < n)
    BY LeastNumber
<1>2. n \in Nat /\ n # 0 /\ n - 1 \in Nat /\ n - 1 < n
    BY <1>1
<1>3. n - 1 \in S
    BY <1>1, <1>2
<1>4. (n - 1) + 1 = n
    BY <1>2
<1> QED BY <1>1, <1>2, <1>3, <1>4

\* F makes a next element of X from a number and an element; the n + 1 elements
\* of w begin with base and go on by F.
Makes(F, X, n) == \A i \in 1 .. n : \A x \in X : F[<<i, x>>] \in X

GoesOn(w, X, base, F, n) ==
    /\ w \in [0 .. n -> X]
    /\ w[0] = base
    /\ \A i \in 1 .. n : w[i] = F[<<i, w[i - 1]>>]

\* A recursion by a number has a solution: the loops of update.
LEMMA Recursion ==
    ASSUME NEW X, NEW base \in X, NEW n \in Nat, NEW F, Makes(F, X, n)
    PROVE  \E w : GoesOn(w, X, base, F, n)
<1> USE DEF Makes, GoesOn
<1> DEFINE Solves(w, m) == GoesOn(w, X, base, F, m)
<1> DEFINE S == { m \in Nat : m <= n => \E w : Solves(w, m) }
<1>1. 0 \in S
    <2>1. Solves([i \in 0 .. 0 |-> base], 0)
        OBVIOUS
    <2> QED BY <2>1
<1>2. ASSUME NEW m \in Nat, m \in S
      PROVE  m + 1 \in S
    <2> SUFFICES ASSUME m + 1 <= n
                 PROVE  \E w : Solves(w, m + 1)
        OBVIOUS
    <2>1. PICK w : Solves(w, m)
        BY <1>2
    <2> DEFINE v == [i \in 0 .. m + 1 |->
                        IF i <= m THEN w[i] ELSE F[<<m + 1, w[m]>>]]
    <2>2. w[m] \in X /\ F[<<m + 1, w[m]>>] \in X
        <3>1. m \in 0 .. m /\ m + 1 \in 1 .. n
            OBVIOUS
        <3>2. w[m] \in X
            BY <2>1, <3>1
        <3> QED BY <3>1, <3>2
    <2>3. v \in [0 .. m + 1 -> X]
        BY <2>1, <2>2
    <2>4. v[0] = base
        <3>1. 0 \in 0 .. m /\ 0 \in 0 .. m + 1 /\ 0 <= m
            OBVIOUS
        <3> QED BY <2>1, <3>1
    <2>5. ASSUME NEW i \in 1 .. m + 1
          PROVE  v[i] = F[<<i, v[i - 1]>>]
        <3>1. CASE i \in 1 .. m
            <4>1. /\ i \in 0 .. m /\ i - 1 \in 0 .. m + 1 /\ i - 1 <= m /\ i <= m
                  /\ i \in 0 .. m + 1
                BY <3>1
            <4>2. v[i] = w[i] /\ v[i - 1] = w[i - 1]
                BY <4>1
            <4>3. w[i] = F[<<i, w[i - 1]>>]
                BY <2>1, <3>1
            <4> QED BY <4>2, <4>3
        <3>2. CASE i = m + 1
            <4>1. /\ m \in 0 .. m + 1 /\ m + 1 \in 0 .. m + 1
                  /\ ~ (i <= m) /\ i - 1 = m /\ m <= m
                BY <3>2
            <4>2. v[m + 1] = F[<<m + 1, w[m]>>] /\ v[m] = w[m]
                BY <3>2, <4>1
            <4> QED BY <3>2, <4>1, <4>2
        <3> QED BY <3>1, <3>2
    <2> HIDE DEF v
    <2>6. Solves(v, m + 1)
        BY <2>3, <2>4, <2>5
    <2> QED BY <2>6
<1> HIDE DEF S
<1>3. n \in S
    BY <1>1, <1>2, EveryNumber
<1> QED BY <1>3 DEF S

-----------------------------------------------------------------------------
\* The order of the addresses has each of them once.
LEMMA AscendingLists ==
    ASSUME NEW S \in SUBSET Nat, IsFiniteSet(S)
    PROVE  /\ Cardinality(S) \in Nat
           /\ Len(Ascending(S)) = Cardinality(S)
           /\ \A i \in 1 .. Cardinality(S) : Ascending(S)[i] \in S
           /\ \A i, j \in 1 .. Cardinality(S) :
                 Ascending(S)[i] = Ascending(S)[j] => i = j
           /\ \A a \in S : \E i \in 1 .. Cardinality(S) : Ascending(S)[i] = a
<1> DEFINE n == Cardinality(S)
           below(a) == { b \in S : b < a }
           place == [a \in S |-> Cardinality(below(a)) + 1]
<1>1. n \in Nat
    BY FS_CardinalityType
<1>2. \A a \in S : IsFiniteSet(below(a)) /\ Cardinality(below(a)) \in Nat
    <2> SUFFICES ASSUME NEW a \in S
                 PROVE  IsFiniteSet(below(a)) /\ Cardinality(below(a)) \in Nat
        OBVIOUS
    <2>1. below(a) \in SUBSET S
        OBVIOUS
    <2> QED BY <2>1, FS_Subset, FS_CardinalityType
<1>3. ASSUME NEW a \in S, NEW b \in S, a < b
      PROVE  Cardinality(below(a)) < Cardinality(below(b))
    <2>1. a \notin below(a) /\ below(a) \union {a} \in SUBSET below(b)
        <3>1. a \in Nat /\ b \in Nat /\ S \subseteq Nat
            OBVIOUS
        <3>2. a \notin below(a)
            BY <3>1
        <3>3. ASSUME NEW c \in S, c \in below(a) \/ c = a
              PROVE  c \in below(b)
            BY <1>3, <3>1, <3>3
        <3> QED BY <3>2, <3>3
    <2>2. /\ IsFiniteSet(below(a) \union {a})
          /\ Cardinality(below(a) \union {a}) = Cardinality(below(a)) + 1
        BY <1>2, <2>1, FS_AddElement
    <2>3. Cardinality(below(a) \union {a}) <= Cardinality(below(b))
        BY <1>2, <2>1, FS_Subset
    <2> HIDE DEF below
    <2> QED BY <1>2, <2>2, <2>3
<1>4. \A a \in S : Cardinality(below(a)) < n
    <2> SUFFICES ASSUME NEW a \in S
                 PROVE  Cardinality(below(a)) < n
        OBVIOUS
    <2>1. below(a) \in SUBSET S /\ below(a) # S
        OBVIOUS
    <2> HIDE DEF below
    <2>2. Cardinality(below(a)) <= n /\ Cardinality(below(a)) # n
        BY <2>1, FS_Subset
    <2> QED BY <1>1, <1>2, <2>2
<1> HIDE DEF below
<1>5. place \in [S -> 1 .. n]
    BY <1>1, <1>2, <1>4
<1>6. \A a, b \in S : place[a] = place[b] => a = b
    <2> SUFFICES ASSUME NEW a \in S, NEW b \in S, place[a] = place[b], a # b
                 PROVE  FALSE
        OBVIOUS
    <2>1. a < b \/ b < a
        OBVIOUS
    <2>2. Cardinality(below(a)) = Cardinality(below(b))
        BY <1>2
    <2> QED BY <1>2, <1>3, <2>1, <2>2
<1>7. place \in Surjection(S, 1 .. n)
    <2>1. place \in Injection(S, 1 .. n)
        BY <1>5, <1>6 DEF Injection, IsInjective
    <2>2. IsFiniteSet(1 .. n) /\ Cardinality(1 .. n) = n
        BY <1>1, FS_Interval
    <2> HIDE DEF place
    <2> QED BY <2>1, <2>2, FS_Injection
<1>8. \A i \in 1 .. n : \E a \in S : place[a] = i
    BY <1>7 DEF Surjection
<1>9. \A a \in S : Cardinality(below(a)) = place[a] - 1
    BY <1>2
<1> HIDE DEF place
<1>10. Ascending(S) = [i \in 1 .. n |->
                          CHOOSE a \in S : Cardinality(below(a)) = i - 1]
    BY DEF Ascending, below
<1>11. ASSUME NEW i \in 1 .. n
       PROVE  Ascending(S)[i] \in S /\ place[Ascending(S)[i]] = i
    <2>1. \E a \in S : Cardinality(below(a)) = i - 1
        BY <1>8, <1>9
    <2> DEFINE it == CHOOSE a \in S : Cardinality(below(a)) = i - 1
    <2>2. it \in S /\ Cardinality(below(it)) = i - 1
        BY <2>1
    <2>3. Ascending(S)[i] = it
        BY <1>10
    <2> HIDE DEF it
    <2>4. place[it] \in 1 .. n /\ place[it] - 1 = i - 1
        BY <1>5, <1>9, <2>2
    <2>5. place[it] = i
        BY <1>1, <2>4
    <2> QED BY <2>2, <2>3, <2>5
<1>12. Len(Ascending(S)) = n
    <2>1. \A i \in 1 .. n : Ascending(S)[i] \in S
        BY <1>11
    <2>2. Ascending(S) \in [1 .. n -> S]
        BY <1>10, <2>1
    <2> QED BY <1>1, <2>2
<1>13. \A a \in S : \E i \in 1 .. n : Ascending(S)[i] = a
    <2> SUFFICES ASSUME NEW a \in S
                 PROVE  \E i \in 1 .. n : Ascending(S)[i] = a
        OBVIOUS
    <2>1. place[a] \in 1 .. n
        BY <1>5
    <2>2. Ascending(S)[place[a]] = a
        BY <1>6, <1>11, <2>1
    <2> QED BY <2>1, <2>2
<1>14. \A i, j \in 1 .. n : Ascending(S)[i] = Ascending(S)[j] => i = j
    BY <1>11
<1> QED BY <1>1, <1>11, <1>12, <1>13, <1>14

-----------------------------------------------------------------------------
(***************************************************************************)
(* The queue.                                                              *)
(***************************************************************************)
Distances == 0 .. UINT_MAX

Entries(A) == [distance : Distances, address : A]

Elements(queue) == { queue[i] : i \in 1 .. Len(queue) }

InOrder(queue) ==
    \A i, j \in 1 .. Len(queue) :
        i <= j => queue[i].distance <= queue[j].distance

\* Distances are numbers.
LEMMA DistancesAreNumbers == Distances \subseteq Nat
BY UintAssumption DEF Distances, UINT_MAX

\* What is nearer than a new element stands before all others.
LEMMA NearerFirst ==
    ASSUME NEW A,
           NEW queue \in Seq(Entries(A)), InOrder(queue),
           NEW d \in Distances
    PROVE  LET k == Cardinality({ i \in DOMAIN queue : queue[i].distance < d })
           IN  /\ k \in 0 .. Len(queue)
               /\ \A i \in 1 .. k : queue[i].distance < d
               /\ \A i \in k + 1 .. Len(queue) : d <= queue[i].distance
<1> USE DistancesAreNumbers DEF Entries
<1> DEFINE n == Len(queue)
           nearer == { i \in DOMAIN queue : queue[i].distance < d }
           rest == { i \in 1 .. n + 1 : i \notin nearer }
<1>1. /\ n \in Nat /\ DOMAIN queue = 1 .. n /\ d \in Nat
      /\ \A i \in 1 .. n : queue[i].distance \in Nat
    <2>1. n \in Nat /\ DOMAIN queue = 1 .. n
        BY LenProperties
    <2>2. \A i \in 1 .. n : queue[i] \in Entries(A)
        BY ElementOfSeq
    <2>3. d \in Distances
        OBVIOUS
    <2>4. \A i \in 1 .. n : queue[i].distance \in Distances
        BY <2>2
    <2> QED BY <2>1, <2>3, <2>4
<1>2. nearer \subseteq 1 .. n
    BY <1>1
<1>3. n + 1 \in rest
    BY <1>1, <1>2
<1>4. PICK m \in rest : \A k \in rest : ~ (k < m)
    <2>1. rest \subseteq Nat /\ rest # {}
        BY <1>1, <1>3
    <2> QED BY <2>1, LeastNumber
<1>5. \A i \in 1 .. n : i \in nearer <=> queue[i].distance < d
    BY <1>1
<1> HIDE DEF nearer
<1>6. m \in 1 .. n + 1 /\ m \notin nearer
    BY <1>4
<1>7. \A i \in 1 .. m - 1 : i \in nearer
    BY <1>1, <1>4, <1>6
<1>8. \A i \in m .. n : d <= queue[i].distance
    <2> SUFFICES ASSUME NEW i \in m .. n
                 PROVE  d <= queue[i].distance
        OBVIOUS
    <2>1. m \in 1 .. n /\ i \in 1 .. n /\ m <= i
        BY <1>1, <1>6
    <2>2. ~ (queue[m].distance < d)
        BY <1>5, <1>6, <2>1
    <2>3. queue[m].distance <= queue[i].distance
        BY <2>1 DEF InOrder
    <2> QED BY <1>1, <2>1, <2>2, <2>3
<1>9. nearer = 1 .. m - 1
    <2>1. \A i \in nearer : i \in 1 .. m - 1
        <3> SUFFICES ASSUME NEW i \in nearer, ~ (i \in 1 .. m - 1)
                     PROVE  FALSE
            OBVIOUS
        <3>1. i \in 1 .. n /\ i \in m .. n
            BY <1>1, <1>2, <1>6
        <3>2. queue[i].distance < d /\ d <= queue[i].distance
            BY <1>5, <1>8, <3>1
        <3> QED BY <1>1, <3>1, <3>2
    <2> QED BY <1>7, <2>1
<1>10. Cardinality(nearer) = m - 1
    <2>1. /\ 1 \in Int /\ m - 1 \in Int /\ (m - 1) - 1 + 1 = m - 1
          /\ 1 > m - 1 => m - 1 = 0
        BY <1>1, <1>6
    <2> QED BY <1>9, <2>1, FS_Interval
<1>11. m - 1 \in 0 .. n /\ (m - 1) + 1 = m
    BY <1>1, <1>6
<1>12. \A i \in 1 .. m - 1 : queue[i].distance < d
    BY <1>1, <1>5, <1>6, <1>7
<1> QED BY <1>8, <1>10, <1>11, <1>12 DEF nearer

\* QMultiMap::insert keeps the order.
LEMMA EnqueuedInOrder ==
    ASSUME NEW A,
           NEW queue \in Seq(Entries(A)), InOrder(queue),
           NEW d \in Distances, NEW a \in A
    PROVE  /\ Enqueued(queue, d, a) \in Seq(Entries(A))
           /\ InOrder(Enqueued(queue, d, a))
           /\ Len(Enqueued(queue, d, a)) = Len(queue) + 1
           /\ Elements(Enqueued(queue, d, a)) =
                 Elements(queue) \union {[distance |-> d, address |-> a]}
<1> USE DistancesAreNumbers DEF Entries
<1> DEFINE E == Entries(A)
           e == [distance |-> d, address |-> a]
           n == Len(queue)
           k == Cardinality({ i \in DOMAIN queue : queue[i].distance < d })
           left == SubSeq(queue, 1, k)
           right == SubSeq(queue, k + 1, n)
           out == Enqueued(queue, d, a)
<1>1. /\ k \in 0 .. n /\ n \in Nat
      /\ \A i \in 1 .. k : queue[i].distance < d
      /\ \A i \in k + 1 .. n : d <= queue[i].distance
    BY NearerFirst, LenProperties
<1>2. out = left \o <<e>> \o right
    <2>1. (k + 1) - 1 = k
        BY <1>1
    <2> QED BY <2>1 DEF Enqueued, InsertAt
<1> HIDE DEF k
<1>3. \A i \in 1 .. n : queue[i] \in E
    BY ElementOfSeq
<1>4. /\ left \in Seq(E) /\ Len(left) = k
      /\ \A i \in 1 .. k : left[i] = queue[i]
    <2>1. \A i \in 1 .. k : queue[i] \in E
        BY <1>1, <1>3
    <2>2. /\ left \in Seq(E) /\ Len(left) = IF 1 <= k THEN k - 1 + 1 ELSE 0
          /\ \A i \in 1 .. k - 1 + 1 : left[i] = queue[1 + i - 1]
        BY <1>1, <2>1, SubSeqProperties
    <2>3. k - 1 + 1 = k /\ \A i \in 1 .. k : 1 + i - 1 = i
        BY <1>1
    <2> QED BY <1>1, <2>2, <2>3
<1>5. /\ right \in Seq(E) /\ Len(right) = n - k
      /\ \A i \in 1 .. n - k : right[i] = queue[k + i]
    <2>1. \A i \in k + 1 .. n : queue[i] \in E
        BY <1>1, <1>3
    <2>2. /\ right \in Seq(E)
          /\ Len(right) = IF k + 1 <= n THEN n - (k + 1) + 1 ELSE 0
          /\ \A i \in 1 .. n - (k + 1) + 1 : right[i] = queue[(k + 1) + i - 1]
        BY <1>1, <2>1, SubSeqProperties
    <2>3. n - (k + 1) + 1 = n - k /\ \A i \in 1 .. n - k : (k + 1) + i - 1 = k + i
        BY <1>1
    <2>4. IF k + 1 <= n THEN n - (k + 1) + 1 = n - k ELSE n - k = 0
        BY <1>1
    <2>5. Len(right) = n - k
        BY <2>2, <2>4
    <2>6. ASSUME NEW i \in 1 .. n - k
          PROVE  right[i] = queue[k + i]
        <3>1. i \in 1 .. n - (k + 1) + 1 /\ (k + 1) + i - 1 = k + i
            BY <1>1
        <3>2. right[i] = queue[(k + 1) + i - 1]
            BY <2>2, <3>1
        <3> QED BY <3>1, <3>2
    <2> QED BY <2>2, <2>5, <2>6
<1>6. <<e>> \in Seq(E) /\ Len(<<e>>) = 1 /\ <<e>>[1] = e
    OBVIOUS
<1> HIDE DEF left, right
<1>7. /\ left \o <<e>> \in Seq(E) /\ Len(left \o <<e>>) = k + 1
      /\ \A i \in 1 .. k : (left \o <<e>>)[i] = queue[i]
      /\ (left \o <<e>>)[k + 1] = e
    <2>1. /\ left \o <<e>> \in Seq(E) /\ Len(left \o <<e>>) = k + 1
          /\ \A i \in 1 .. k + 1 :
                (left \o <<e>>)[i] = IF i <= k THEN left[i] ELSE <<e>>[i - k]
        BY <1>4, <1>6, ConcatProperties
    <2>2. k + 1 \in 1 .. k + 1 /\ ~ (k + 1 <= k) /\ (k + 1) - k = 1
          /\ \A i \in 1 .. k : i \in 1 .. k + 1 /\ i <= k
        BY <1>1
    <2> QED BY <1>4, <1>6, <2>1, <2>2
<1> DEFINE most == left \o <<e>>
<1> HIDE DEF most
<1>8. /\ out \in Seq(E) /\ Len(out) = n + 1
      /\ \A i \in 1 .. n + 1 :
            out[i] = IF i <= k + 1 THEN most[i] ELSE right[i - (k + 1)]
    <2>1. /\ most \in Seq(E) /\ Len(most) = k + 1
        BY <1>7 DEF most
    <2>2. out = most \o right
        BY <1>2 DEF most
    <2> HIDE DEF out
    <2>3. /\ most \o right \in Seq(E) /\ Len(most \o right) = Len(most) + Len(right)
          /\ \A i \in 1 .. Len(most) + Len(right) :
                (most \o right)[i] = IF i <= Len(most) THEN most[i]
                                     ELSE right[i - Len(most)]
        BY <1>5, <2>1, ConcatProperties
    <2>4. Len(most) + Len(right) = n + 1
        BY <1>1, <1>5, <2>1
    <2> QED BY <2>1, <2>2, <2>3, <2>4
<1> HIDE DEF out
<1>9. /\ \A i \in 1 .. k : out[i] = queue[i]
      /\ out[k + 1] = e
      /\ \A i \in k + 2 .. n + 1 : out[i] = queue[i - 1]
    <2>1. \A i \in 1 .. k : out[i] = queue[i]
        <3>1. \A i \in 1 .. k : i \in 1 .. n + 1 /\ i <= k + 1
            BY <1>1
        <3> QED BY <1>7, <1>8, <3>1 DEF most
    <2>2. out[k + 1] = e
        <3>1. k + 1 \in 1 .. n + 1 /\ k + 1 <= k + 1
            BY <1>1
        <3> QED BY <1>7, <1>8, <3>1 DEF most
    <2>3. \A i \in k + 2 .. n + 1 : out[i] = queue[i - 1]
        <3> SUFFICES ASSUME NEW i \in k + 2 .. n + 1
                     PROVE  out[i] = queue[i - 1]
            OBVIOUS
        <3>1. /\ i \in 1 .. n + 1 /\ ~ (i <= k + 1) /\ i - (k + 1) \in 1 .. n - k
              /\ k + (i - (k + 1)) = i - 1
            BY <1>1
        <3> QED BY <1>5, <1>8, <3>1
    <2> QED BY <2>1, <2>2, <2>3
<1>10. InOrder(out)
    <2> SUFFICES ASSUME NEW i \in 1 .. n + 1, NEW j \in 1 .. n + 1, i <= j
                 PROVE  out[i].distance <= out[j].distance
        BY <1>8 DEF InOrder
    <2>1. /\ \A x \in 1 .. n : queue[x].distance \in Nat
          /\ \A x, y \in 1 .. n : x <= y => queue[x].distance <= queue[y].distance
          /\ d \in Nat /\ e.distance = d
        BY <1>3 DEF InOrder
    <2>2. CASE i <= k /\ j <= k
        <3>1. i \in 1 .. k /\ j \in 1 .. k /\ i \in 1 .. n /\ j \in 1 .. n
            BY <1>1, <2>2
        <3> QED BY <1>9, <2>1, <3>1
    <2>3. CASE i <= k /\ j = k + 1
        <3>1. i \in 1 .. k /\ i \in 1 .. n
            BY <1>1, <2>3
        <3>2. out[i].distance < d /\ out[i].distance \in Nat
            BY <1>1, <1>9, <2>1, <3>1
        <3> QED BY <1>9, <2>1, <2>3, <3>2
    <2>4. CASE i <= k /\ j >= k + 2
        <3>1. i \in 1 .. k /\ i \in 1 .. n /\ j \in k + 2 .. n + 1
              /\ j - 1 \in 1 .. n /\ i <= j - 1
            BY <1>1, <2>4
        <3> QED BY <1>9, <2>1, <3>1
    <2>5. CASE i = k + 1 /\ j = k + 1
        BY <1>9, <2>1, <2>5
    <2>6. CASE i = k + 1 /\ j >= k + 2
        <3>1. j \in k + 2 .. n + 1 /\ j - 1 \in k + 1 .. n
            BY <1>1, <2>6
        <3> QED BY <1>1, <1>9, <2>1, <2>6, <3>1
    <2>7. CASE i >= k + 2
        <3>1. /\ i \in k + 2 .. n + 1 /\ j \in k + 2 .. n + 1
              /\ i - 1 \in 1 .. n /\ j - 1 \in 1 .. n /\ i - 1 <= j - 1
            BY <1>1, <2>7
        <3> QED BY <1>9, <2>1, <3>1
    <2>8. \/ i <= k /\ j <= k
          \/ i <= k /\ j = k + 1
          \/ i <= k /\ j >= k + 2
          \/ i = k + 1 /\ j = k + 1
          \/ i = k + 1 /\ j >= k + 2
          \/ i >= k + 2
        BY <1>1
    <2> QED BY <2>2, <2>3, <2>4, <2>5, <2>6, <2>7, <2>8
<1>11. Elements(out) = Elements(queue) \union {e}
    <2>1. ASSUME NEW i \in 1 .. n + 1
          PROVE  out[i] \in Elements(queue) \union {e}
        <3>1. \/ i \in 1 .. k /\ i \in 1 .. n
              \/ i = k + 1
              \/ i \in k + 2 .. n + 1 /\ i - 1 \in 1 .. n
            BY <1>1
        <3> QED BY <1>9, <3>1 DEF Elements
    <2>2. ASSUME NEW i \in 1 .. n
          PROVE  queue[i] \in Elements(out)
        <3>1. CASE i <= k
            <4>1. i \in 1 .. k /\ i \in 1 .. n + 1
                BY <1>1, <3>1
            <4> QED BY <1>8, <1>9, <4>1 DEF Elements
        <3>2. CASE ~ (i <= k)
            <4>1. /\ i + 1 \in k + 2 .. n + 1 /\ i + 1 \in 1 .. n + 1
                  /\ (i + 1) - 1 = i
                BY <1>1, <3>2
            <4>2. out[i + 1] = queue[i]
                BY <1>9, <4>1
            <4> QED BY <1>8, <4>1, <4>2 DEF Elements
        <3> QED BY <3>1, <3>2
    <2>3. e \in Elements(out)
        <3>1. k + 1 \in 1 .. n + 1
            BY <1>1
        <3> QED BY <1>8, <1>9, <3>1 DEF Elements
    <2> QED BY <1>8, <2>1, <2>2, <2>3 DEF Elements
<1> QED BY <1>8, <1>10, <1>11 DEF out

\* The first element is the nearest, and the others keep their order.
LEMMA FirstIsNearest ==
    ASSUME NEW A,
           NEW queue \in Seq(Entries(A)), InOrder(queue),
           queue # <<>>
    PROVE  /\ Head(queue) \in Entries(A)
           /\ Tail(queue) \in Seq(Entries(A))
           /\ InOrder(Tail(queue))
           /\ Len(queue) \in Nat \ {0}
           /\ Len(Tail(queue)) = Len(queue) - 1
           /\ Elements(queue) = Elements(Tail(queue)) \union {Head(queue)}
           /\ \A e \in Elements(queue) : Head(queue).distance <= e.distance
<1> USE DistancesAreNumbers DEF Entries
<1> DEFINE n == Len(queue)
<1>1. n \in Nat \ {0} /\ \A i \in 1 .. n : queue[i] \in Entries(A)
    BY LenProperties, EmptySeq, ElementOfSeq
<1>2. /\ Head(queue) = queue[1] /\ Tail(queue) \in Seq(Entries(A))
      /\ Len(Tail(queue)) = n - 1
      /\ \A i \in 1 .. n - 1 : Tail(queue)[i] = queue[i + 1]
    BY <1>1, HeadTailProperties
<1>3. 1 \in 1 .. n
    BY <1>1
<1>4. InOrder(Tail(queue))
    <2>1. \A i \in 1 .. n - 1 : i + 1 \in 1 .. n
        BY <1>1
    <2>2. \A i, j \in 1 .. n - 1 : i <= j => i + 1 <= j + 1
        BY <1>1
    <2> QED BY <1>2, <2>1, <2>2 DEF InOrder
<1>5. Elements(queue) = Elements(Tail(queue)) \union {Head(queue)}
    <2>1. \A i \in 1 .. n - 1 : i + 1 \in 1 .. n
        BY <1>1
    <2>2. \A i \in 1 .. n : i = 1 \/ (i - 1 \in 1 .. n - 1 /\ (i - 1) + 1 = i)
        BY <1>1
    <2> QED BY <1>2, <1>3, <2>1, <2>2 DEF Elements
<1>6. \A i \in 1 .. n : queue[1].distance <= queue[i].distance
    <2>1. \A i \in 1 .. n : 1 <= i
        BY <1>1
    <2> QED BY <1>3, <2>1 DEF InOrder
<1> QED BY <1>1, <1>2, <1>3, <1>4, <1>5, <1>6 DEF Elements

-----------------------------------------------------------------------------
(***************************************************************************)
(* The tables that update is proved about, and the states of its loop.     *)
(***************************************************************************)
IsTable(table, D) ==
    /\ D \in Nat
    /\ DOMAIN table.far \subseteq Nat \ {Nowhere}
    /\ IsFiniteSet(DOMAIN table.far)
    /\ \A b \in DOMAIN table.near : table.near[b].distance \in 0 .. D
    /\ \A a \in DOMAIN table.far : \A b \in DOMAIN table.far[a] :
          b # a /\ table.far[a][b] \in 0 .. D
    /\ (Cardinality(DOMAIN table.far) + 1) * D < UINT_MAX

State(table) ==
    { s \in [distance : [DOMAIN table.far -> Distances],
             through : [DOMAIN table.far -> Nat],
             queue : Seq(Entries(DOMAIN table.far)),
             analysed : SUBSET DOMAIN table.far] : InOrder(s.queue) }

\* Induction up to a number.
LEMMA UpTo ==
    ASSUME NEW n \in Nat, NEW S, 0 \in S,
           \A i \in 1 .. n : i - 1 \in S => i \in S
    PROVE  \A i \in 0 .. n : i \in S
<1> DEFINE T == { i \in Nat : i <= n => i \in S }
<1>1. 0 \in T
    OBVIOUS
<1>2. ASSUME NEW i \in Nat, i \in T
      PROVE  i + 1 \in T
    <2> SUFFICES ASSUME i + 1 <= n
                 PROVE  i + 1 \in S
        OBVIOUS
    <2>1. i \in S /\ i + 1 \in 1 .. n /\ (i + 1) - 1 = i
        BY <1>2
    <2> QED BY <2>1
<1> HIDE DEF T
<1>3. \A i \in Nat : i \in T
    BY <1>1, <1>2, EveryNumber
<1> QED BY <1>3 DEF T

\* A table has room for its distances.
LEMMA NearIsSmall ==
    ASSUME NEW table, NEW D, IsTable(table, D)
    PROVE  /\ D \in Nat /\ UINT_MAX \in Nat /\ Distances \subseteq Nat
           /\ D < UINT_MAX
           /\ Cardinality(DOMAIN table.far) \in Nat
<1> DEFINE n == Cardinality(DOMAIN table.far)
<1>1. n \in Nat /\ D \in Nat /\ UINT_MAX \in Nat
    BY FS_CardinalityType, UintAssumption DEF IsTable, UINT_MAX
<1>2. (n + 1) * D < UINT_MAX
    BY DEF IsTable
<1> HIDE DEF n
<1>3. (n + 1) * D = n * D + D /\ n * D \in Nat
    BY <1>1
<1> QED BY <1>1, <1>2, <1>3, DistancesAreNumbers DEF n

\* The remainder is below the modulus.
LEMMA SumWrapped ==
    ASSUME NEW m \in Nat
    PROVE  m % UintMod \in Distances /\ (m < UintMod => m % UintMod = m)
BY UintAssumption DEF UINT_MAX, Distances

Entered(s, d, t, b) ==
    [s EXCEPT !.distance[b] = d, !.through[b] = t, !.queue = Enqueued(@, d, b)]

\* An entry of the loop, whether it is for a neighbour or for the sum at hand.
LEMMA EnteredState ==
    ASSUME NEW table, NEW D, IsTable(table, D),
           NEW s \in State(table), NEW b \in DOMAIN table.far,
           NEW d \in Distances, NEW t \in Nat
    PROVE  LET e == Entered(s, d, t, b)
           IN  /\ e \in State(table)
               /\ e.distance = [s.distance EXCEPT ![b] = d]
               /\ e.through = [s.through EXCEPT ![b] = t]
               /\ e.queue = Enqueued(s.queue, d, b)
               /\ e.analysed = s.analysed
               /\ Len(e.queue) = Len(s.queue) + 1
               /\ Elements(e.queue) = Elements(s.queue) \union
                                         {[distance |-> d, address |-> b]}
<1> DEFINE F == DOMAIN table.far
           q == Enqueued(s.queue, d, b)
           e == Entered(s, d, t, b)
<1>1. /\ s \in [distance : [F -> Distances], through : [F -> Nat],
                queue : Seq(Entries(F)), analysed : SUBSET F]
      /\ InOrder(s.queue)
    BY DEF State
<1>2. b \in F
    OBVIOUS
<1> HIDE DEF F
<1>3. /\ q \in Seq(Entries(F)) /\ InOrder(q)
      /\ Len(q) = Len(s.queue) + 1
      /\ Elements(q) = Elements(s.queue) \union {[distance |-> d, address |-> b]}
    <2>1. s.queue \in Seq(Entries(F)) /\ InOrder(s.queue)
        BY <1>1
    <2> QED BY <1>2, <2>1, EnqueuedInOrder DEF q
<1> HIDE DEF q
<1>4. e = [s EXCEPT !.distance[b] = d, !.through[b] = t, !.queue = q]
    BY DEF q, Entered
<1> HIDE DEF e
<1>5. /\ e.distance = [s.distance EXCEPT ![b] = d]
      /\ e.through = [s.through EXCEPT ![b] = t]
      /\ e.queue = q /\ e.analysed = s.analysed
      /\ e = [distance |-> e.distance, through |-> e.through,
              queue |-> e.queue, analysed |-> e.analysed]
    BY <1>1, <1>4 DEF F
<1>6. e.distance \in [F -> Distances] /\ e.through \in [F -> Nat]
    BY <1>1, <1>5, <1>2
<1>7. e \in [distance : [F -> Distances], through : [F -> Nat],
             queue : Seq(Entries(F)), analysed : SUBSET F]
    BY <1>1, <1>3, <1>5, <1>6
<1>8. e \in State(table)
    BY <1>3, <1>5, <1>7 DEF State, F
<1> QED BY <1>3, <1>5, <1>8 DEF e, q

\* What a loop of update makes of a state is a state: for an entry of a list,
LEMMA RelaxedState ==
    ASSUME NEW table, NEW D, IsTable(table, D), NEW s \in State(table),
           NEW a \in DOMAIN table.far, NEW b \in Listed(table, a),
           NEW d \in Distances
    PROVE  Relaxed(table, s, d, a, b) \in State(table)
<1> DEFINE sum == (d + table.far[a][b]) % UintMod
<1>1. b \in DOMAIN table.far /\ b \in DOMAIN table.far[a]
    BY DEF Listed
<1>2. sum \in Distances
    <2>1. table.far[a][b] \in Nat /\ d \in Nat
        BY <1>1, DistancesAreNumbers DEF IsTable
    <2> QED BY <2>1, SumWrapped
<1>3. s.through[a] \in Nat
    BY DEF State
<1> DEFINE e == Entered(s, sum, s.through[a], b)
<1> HIDE DEF sum
<1>4. e \in State(table)
    BY <1>1, <1>2, <1>3, EnteredState
<1> HIDE DEF e
<1>5. Relaxed(table, s, d, a, b) = s \/ Relaxed(table, s, d, a, b) = e
    BY DEF Relaxed, Entered, e, sum
<1> QED BY <1>4, <1>5

\* The list of a router, entry by entry.
LEMMA ExploredSteps ==
    ASSUME NEW table, NEW D, IsTable(table, D), NEW s \in State(table),
           NEW first \in Entries(DOMAIN table.far)
    PROVE  LET a == first.address
               n == Cardinality(Listed(table, a))
               listed == Ascending(Listed(table, a))
               explored == Explored(table, s, first)
           IN  /\ n \in Nat
               /\ explored[0] = s
               /\ \A i \in 0 .. n : explored[i] \in State(table)
               /\ \A i \in 1 .. n : listed[i] \in Listed(table, a)
               /\ \A b \in Listed(table, a) : \E i \in 1 .. n : listed[i] = b
               /\ \A i \in 1 .. n :
                     explored[i] = Relaxed(table, explored[i - 1],
                                           first.distance, a, listed[i])
<1> DEFINE a == first.address
           n == Cardinality(Listed(table, a))
           listed == Ascending(Listed(table, a))
           X == State(table)
           F == [z \in (1 .. n) \X X |->
                    Relaxed(table, z[2], first.distance, a, listed[z[1]])]
           Solves(w) == w = [i \in 0 .. n |->
                                IF i = 0 THEN s
                                ELSE Relaxed(table, w[i - 1], first.distance,
                                             a, listed[i])]
           explored == Explored(table, s, first)
<1>1. a \in DOMAIN table.far /\ first.distance \in Distances
    BY DEF Entries
<1>2. Listed(table, a) \in SUBSET Nat /\ IsFiniteSet(Listed(table, a))
    <2>1. Listed(table, a) \in SUBSET DOMAIN table.far
        BY DEF Listed
    <2> QED BY <2>1, FS_Subset DEF IsTable
<1> HIDE DEF a
<1>3. /\ n \in Nat /\ Len(listed) = n
      /\ \A i \in 1 .. n : listed[i] \in Listed(table, a)
      /\ \A b \in Listed(table, a) : \E i \in 1 .. n : listed[i] = b
    BY <1>2, AscendingLists
<1> HIDE DEF n, listed, X
<1>4. \A i \in 1 .. n : \A t \in X :
         Relaxed(table, t, first.distance, a, listed[i]) \in X
    BY <1>1, <1>3, RelaxedState DEF X
<1>5. \A i \in 1 .. n : \A t \in X :
         F[<<i, t>>] = Relaxed(table, t, first.distance, a, listed[i])
    OBVIOUS
<1>6. Makes(F, X, n)
    BY <1>4, <1>5 DEF Makes
<1>7. s \in X
    BY DEF X
<1> HIDE DEF F
<1>8. PICK w : GoesOn(w, X, s, F, n)
    BY <1>3, <1>6, <1>7, Recursion
<1>9. Solves(w)
    <2>1. \A i \in 0 .. n : i # 0 => i \in 1 .. n /\ i - 1 \in 0 .. n
        BY <1>3
    <2>2. /\ w = [i \in 0 .. n |-> w[i]] /\ w[0] = s
          /\ \A i \in 0 .. n : w[i] \in X
        BY <1>8 DEF GoesOn
    <2>3. \A i \in 0 .. n : i # 0 =>
             w[i] = Relaxed(table, w[i - 1], first.distance, a, listed[i])
        BY <1>5, <1>8, <2>1, <2>2 DEF GoesOn
    <2> QED BY <2>2, <2>3
<1>10. explored = CHOOSE v : Solves(v)
    BY <1>3 DEF Explored, a, listed
<1>11. Solves(explored)
    <2> HIDE DEF Solves, explored
    <2> QED BY <1>9, <1>10
<1> HIDE DEF explored
<1>12. /\ explored[0] = s
       /\ \A i \in 1 .. n :
             explored[i] = Relaxed(table, explored[i - 1], first.distance,
                                   a, listed[i])
    <2>1. 0 \in 0 .. n /\ \A i \in 1 .. n : i \in 0 .. n /\ i # 0
        BY <1>3
    <2> QED BY <1>11, <2>1
<1> DEFINE typed == { i \in 0 .. n : explored[i] \in X }
<1>13. \A i \in 0 .. n : i \in typed
    <2>1. 0 \in typed
        BY <1>3, <1>7, <1>12
    <2>2. \A i \in 1 .. n : i - 1 \in typed => i \in typed
        BY <1>3, <1>4, <1>12
    <2> HIDE DEF typed
    <2> QED BY <1>3, <2>1, <2>2, UpTo
<1> QED BY <1>3, <1>12, <1>13 DEF X, explored, a, n, listed

-----------------------------------------------------------------------------
\* before the first neighbour,
LEMMA UntouchedState ==
    ASSUME NEW table, NEW D, IsTable(table, D)
    PROVE  /\ Untouched(table) \in State(table)
           /\ Elements(<<>>) = {} /\ Len(<<>>) = 0
<1> DEFINE F == DOMAIN table.far
<1>1. UINT_MAX \in Distances /\ Nowhere \in Nat
    BY UintAssumption DEF UINT_MAX, Distances, Nowhere
<1>2. <<>> \in Seq(Entries(F)) /\ Len(<<>>) = 0 /\ 1 .. 0 = {}
    OBVIOUS
<1>3. InOrder(<<>>) /\ Elements(<<>>) = {}
    BY <1>2 DEF InOrder, Elements
<1> QED BY <1>1, <1>2, <1>3 DEF State, Untouched

\* for a neighbour,
LEMMA VisitState ==
    ASSUME NEW table, NEW D, IsTable(table, D), NEW s \in State(table),
           NEW b \in DOMAIN table.near \cap DOMAIN table.far
    PROVE  LET e == Visit(table, s, b)
               d == table.near[b].distance
           IN  /\ e \in State(table)
               /\ d \in Distances
               /\ e.distance = [s.distance EXCEPT ![b] = d]
               /\ e.through = [s.through EXCEPT ![b] = b]
               /\ e.analysed = s.analysed
               /\ Len(e.queue) = Len(s.queue) + 1
               /\ Elements(e.queue) = Elements(s.queue) \union
                                         {[distance |-> d, address |-> b]}
<1> DEFINE d == table.near[b].distance
<1>1. d \in Distances
    <2>1. d \in 0 .. D
        BY DEF IsTable
    <2> QED BY <2>1, NearIsSmall DEF Distances
<1>2. b \in Nat /\ b \in DOMAIN table.far
    BY DEF IsTable
<1> HIDE DEF d
<1> DEFINE e == Entered(s, d, b, b)
<1>3. Visit(table, s, b) = e
    BY DEF Visit, Entered, d
<1>4. /\ e \in State(table)
      /\ e.distance = [s.distance EXCEPT ![b] = d]
      /\ e.through = [s.through EXCEPT ![b] = b]
      /\ e.analysed = s.analysed
      /\ Len(e.queue) = Len(s.queue) + 1
      /\ Elements(e.queue) = Elements(s.queue) \union
                                {[distance |-> d, address |-> b]}
    BY <1>1, <1>2, EnteredState
<1> HIDE DEF e
<1> QED BY <1>1, <1>3, <1>4 DEF d

\* The neighbours, one by one.
LEMMA VisitedSteps ==
    ASSUME NEW table, NEW D, IsTable(table, D)
    PROVE  LET both == DOMAIN table.near \cap DOMAIN table.far
               n == Cardinality(both)
               known == Ascending(both)
               visited == Visited(table)
           IN  /\ n \in Nat
               /\ visited[0] = Untouched(table)
               /\ \A i \in 0 .. n : visited[i] \in State(table)
               /\ \A i \in 1 .. n : known[i] \in both
               /\ \A i, j \in 1 .. n : known[i] = known[j] => i = j
               /\ \A b \in both : \E i \in 1 .. n : known[i] = b
               /\ \A i \in 1 .. n :
                     visited[i] = Visit(table, visited[i - 1], known[i])
<1> DEFINE both == DOMAIN table.near \cap DOMAIN table.far
           n == Cardinality(both)
           known == Ascending(both)
           X == State(table)
           s == Untouched(table)
           F == [z \in (1 .. n) \X X |-> Visit(table, z[2], known[z[1]])]
           Solves(w) == w = [i \in 0 .. n |->
                                IF i = 0 THEN s
                                ELSE Visit(table, w[i - 1], known[i])]
           visited == Visited(table)
<1>1. both \in SUBSET Nat /\ IsFiniteSet(both)
    <2>1. both \in SUBSET DOMAIN table.far
        OBVIOUS
    <2> QED BY <2>1, FS_Subset DEF IsTable
<1> HIDE DEF both
<1>2. /\ n \in Nat /\ Len(known) = n
      /\ \A i \in 1 .. n : known[i] \in both
      /\ \A i, j \in 1 .. n : known[i] = known[j] => i = j
      /\ \A b \in both : \E i \in 1 .. n : known[i] = b
    BY <1>1, AscendingLists
<1> HIDE DEF n, known, X
<1>3. \A i \in 1 .. n : \A t \in X : Visit(table, t, known[i]) \in X
    BY <1>2, VisitState DEF X, both
<1>4. \A i \in 1 .. n : \A t \in X : F[<<i, t>>] = Visit(table, t, known[i])
    OBVIOUS
<1>5. Makes(F, X, n)
    BY <1>3, <1>4 DEF Makes
<1>6. s \in X
    BY UntouchedState DEF X
<1> HIDE DEF F, s
<1>7. PICK w : GoesOn(w, X, s, F, n)
    BY <1>2, <1>5, <1>6, Recursion
<1>8. Solves(w)
    <2>1. \A i \in 0 .. n : i # 0 => i \in 1 .. n /\ i - 1 \in 0 .. n
        BY <1>2
    <2>2. /\ w = [i \in 0 .. n |-> w[i]] /\ w[0] = s
          /\ \A i \in 0 .. n : w[i] \in X
        BY <1>7 DEF GoesOn
    <2>3. \A i \in 0 .. n : i # 0 => w[i] = Visit(table, w[i - 1], known[i])
        BY <1>4, <1>7, <2>1, <2>2 DEF GoesOn
    <2> QED BY <2>2, <2>3
<1>9. visited = CHOOSE v : Solves(v)
    BY <1>2 DEF Visited, both, known, s
<1>10. Solves(visited)
    <2> HIDE DEF Solves, visited
    <2> QED BY <1>8, <1>9
<1> HIDE DEF visited
<1>11. /\ visited[0] = s
       /\ \A i \in 1 .. n : visited[i] = Visit(table, visited[i - 1], known[i])
    <2>1. 0 \in 0 .. n /\ \A i \in 1 .. n : i \in 0 .. n /\ i # 0
        BY <1>2
    <2> QED BY <1>10, <2>1
<1> DEFINE typed == { i \in 0 .. n : visited[i] \in X }
<1>12. \A i \in 0 .. n : i \in typed
    <2>1. 0 \in typed
        BY <1>2, <1>6, <1>11
    <2>2. \A i \in 1 .. n : i - 1 \in typed => i \in typed
        BY <1>2, <1>3, <1>11
    <2> HIDE DEF typed
    <2> QED BY <1>2, <2>1, <2>2, UpTo
<1> QED BY <1>2, <1>11, <1>12 DEF X, visited, both, n, known, s

\* and for a turn.
LEMMA AnalysedState ==
    ASSUME NEW table, NEW D, IsTable(table, D), NEW s \in State(table),
           s.queue # <<>>
    PROVE  LET first == Head(s.queue)
               rest == [s EXCEPT !.queue = Tail(@),
                                 !.analysed = @ \union {first.address}]
           IN  /\ first \in Entries(DOMAIN table.far)
               /\ rest \in State(table)
               /\ Analysed(table, s) \in State(table)
<1> DEFINE A == DOMAIN table.far
           first == Head(s.queue)
           q == Tail(s.queue)
           rest == [s EXCEPT !.queue = Tail(@),
                             !.analysed = @ \union {first.address}]
           n == Cardinality(Listed(table, first.address))
<1>1. /\ s \in [distance : [A -> Distances], through : [A -> Nat],
                queue : Seq(Entries(A)), analysed : SUBSET A]
      /\ InOrder(s.queue)
    BY DEF State
<1>2. first \in Entries(A) /\ q \in Seq(Entries(A)) /\ InOrder(q)
    BY <1>1, FirstIsNearest
<1>3. first.address \in A
    BY <1>2 DEF Entries
<1> HIDE DEF first, q
<1>4. rest = [s EXCEPT !.queue = q, !.analysed = @ \union {first.address}]
    BY DEF q
<1>5. rest \in State(table)
    BY <1>1, <1>2, <1>3, <1>4 DEF State
<1> HIDE DEF rest
<1>6. /\ n \in Nat
      /\ \A i \in 0 .. n : Explored(table, rest, first)[i] \in State(table)
    BY <1>2, <1>5, ExploredSteps
<1>7. Explored(table, rest, first)[n] \in State(table)
    BY <1>6
<1>8. Analysed(table, s) = IF first.address \in s.analysed THEN rest
                           ELSE Explored(table, rest, first)[n]
    BY DEF Analysed, rest, first
<1> HIDE DEF n
<1> QED BY <1>2, <1>5, <1>7, <1>8 DEF rest, first

NextTurn(table, s) == IF s.queue = <<>> THEN s ELSE Analysed(table, s)

\* The loop, turn by turn.
LEMMA TurnsSteps ==
    ASSUME NEW table, NEW D, IsTable(table, D)
    PROVE  LET n == MaxSteps(table)
               turns == Turns(table)
           IN  /\ n \in Nat
               /\ turns[0] = Initial(table)
               /\ \A i \in 0 .. n : turns[i] \in State(table)
               /\ \A i \in 1 .. n : turns[i] = NextTurn(table, turns[i - 1])
<1> DEFINE n == MaxSteps(table)
           X == State(table)
           s == Initial(table)
           F == [z \in (1 .. n) \X X |-> NextTurn(table, z[2])]
           Solves(w) == w = [i \in 0 .. n |->
                                IF i = 0 THEN s ELSE NextTurn(table, w[i - 1])]
           turns == Turns(table)
<1>1. n \in Nat
    BY NearIsSmall DEF MaxSteps
<1>2. s \in X
    <2> DEFINE m == Cardinality(DOMAIN table.near \cap DOMAIN table.far)
    <2>1. m \in Nat /\ \A i \in 0 .. m : Visited(table)[i] \in State(table)
        BY VisitedSteps
    <2>2. m \in 0 .. m
        BY <2>1
    <2> QED BY <2>1, <2>2 DEF Initial
<1> HIDE DEF n, X, s
<1>3. \A t \in X : NextTurn(table, t) \in X
    BY AnalysedState DEF X, NextTurn
<1>4. \A i \in 1 .. n : \A t \in X : F[<<i, t>>] = NextTurn(table, t)
    OBVIOUS
<1>5. Makes(F, X, n)
    BY <1>3, <1>4 DEF Makes
<1> HIDE DEF F
<1>6. PICK w : GoesOn(w, X, s, F, n)
    BY <1>1, <1>2, <1>5, Recursion
<1>7. Solves(w)
    <2>1. \A i \in 0 .. n : i # 0 => i \in 1 .. n /\ i - 1 \in 0 .. n
        BY <1>1
    <2>2. /\ w = [i \in 0 .. n |-> w[i]] /\ w[0] = s
          /\ \A i \in 0 .. n : w[i] \in X
        BY <1>6 DEF GoesOn
    <2>3. \A i \in 0 .. n : i # 0 => w[i] = NextTurn(table, w[i - 1])
        BY <1>4, <1>6, <2>1, <2>2 DEF GoesOn
    <2> QED BY <2>2, <2>3
<1>8. turns = CHOOSE v : Solves(v)
    BY DEF Turns, NextTurn, n, s
<1>9. Solves(turns)
    <2> HIDE DEF Solves, turns
    <2> QED BY <1>7, <1>8
<1> HIDE DEF turns
<1>10. /\ turns[0] = s
       /\ \A i \in 1 .. n : turns[i] = NextTurn(table, turns[i - 1])
    <2>1. 0 \in 0 .. n /\ \A i \in 1 .. n : i \in 0 .. n /\ i # 0
        BY <1>1
    <2> QED BY <1>9, <2>1
<1> DEFINE typed == { i \in 0 .. n : turns[i] \in X }
<1>11. \A i \in 0 .. n : i \in typed
    <2>1. 0 \in typed
        BY <1>1, <1>2, <1>10
    <2>2. \A i \in 1 .. n : i - 1 \in typed => i \in typed
        BY <1>1, <1>3, <1>10
    <2> HIDE DEF typed
    <2> QED BY <1>1, <2>1, <2>2, UpTo
<1> QED BY <1>1, <1>10, <1>11 DEF X, turns, n, s

\* The length of a path, hop by hop.
LEMMA LengthSteps ==
    ASSUME NEW table, NEW D, IsTable(table, D), NEW k \in Nat \ {0},
           NEW path \in [1 .. k -> DOMAIN table.far], IsPath(table, path)
    PROVE  LET length == LengthAfter(table, path)
           IN  /\ Len(path) = k
               /\ length[0] = table.near[path[1]].distance
               /\ \A i \in 0 .. k - 1 : length[i] \in Nat
               /\ \A i \in 1 .. k - 1 :
                     length[i] = length[i - 1] + table.far[path[i]][path[i + 1]]
               /\ Length(table, path) = length[k - 1]
<1> DEFINE n == k - 1
           base == table.near[path[1]].distance
           far == [i \in 1 .. n |-> table.far[path[i]][path[i + 1]]]
           F == [z \in (1 .. n) \X Nat |-> z[2] + far[z[1]]]
           Solves(w) == w = [i \in 0 .. n |->
                                IF i = 0 THEN base ELSE w[i - 1] + far[i]]
           length == LengthAfter(table, path)
<1>1. Len(path) = k /\ n \in Nat
    OBVIOUS
<1>2. base \in Nat
    BY DEF IsPath, IsTable
<1>3. \A i \in 1 .. n : far[i] \in Nat
    <2> SUFFICES ASSUME NEW i \in 1 .. n
                 PROVE  table.far[path[i]][path[i + 1]] \in Nat
        OBVIOUS
    <2>1. i \in 1 .. Len(path) - 1 /\ i \in 1 .. k
        BY <1>1
    <2>2. path[i + 1] \in DOMAIN table.far[path[i]] /\ path[i] \in DOMAIN table.far
        BY <2>1 DEF IsPath
    <2> QED BY <2>2 DEF IsTable
<1> HIDE DEF n, base
<1>4. \A i \in 1 .. n : \A t \in Nat : F[<<i, t>>] = t + far[i]
    OBVIOUS
<1>5. Makes(F, Nat, n)
    <2> HIDE DEF F, far
    <2>1. ASSUME NEW i \in 1 .. n, NEW t \in Nat
          PROVE  F[<<i, t>>] \in Nat
        <3>1. far[i] \in Nat /\ F[<<i, t>>] = t + far[i]
            BY <1>3, <1>4
        <3> QED BY <3>1
    <2> QED BY <2>1 DEF Makes
<1>6. \A i \in 1 .. n : far[i] = table.far[path[i]][path[i + 1]]
    OBVIOUS
<1> HIDE DEF F, far
<1>7. PICK w : GoesOn(w, Nat, base, F, n)
    BY <1>1, <1>2, <1>5, Recursion
<1>8. Solves(w)
    <2>1. \A i \in 0 .. n : i # 0 => i \in 1 .. n /\ i - 1 \in 0 .. n
        BY <1>1
    <2>2. /\ w = [i \in 0 .. n |-> w[i]] /\ w[0] = base
          /\ \A i \in 0 .. n : w[i] \in Nat
        BY <1>7 DEF GoesOn
    <2>3. \A i \in 0 .. n : i # 0 => w[i] = w[i - 1] + far[i]
        BY <1>4, <1>7, <2>1, <2>2 DEF GoesOn
    <2> QED BY <2>2, <2>3
<1>9. length = CHOOSE v : v = [i \in 0 .. n |->
                                  IF i = 0 THEN base
                                  ELSE v[i - 1] + table.far[path[i]][path[i + 1]]]
    BY <1>1 DEF LengthAfter, n, base
<1> DEFINE Unfolds(v) == v = [i \in 0 .. n |->
                                 IF i = 0 THEN base
                                 ELSE v[i - 1] + table.far[path[i]][path[i + 1]]]
<1>10. Unfolds(w)
    <2>1. \A i \in 0 .. n : i # 0 => i \in 1 .. n
        BY <1>1
    <2> QED BY <1>6, <1>8, <2>1
<1>11. Unfolds(length)
    <2>1. length = CHOOSE v : Unfolds(v)
        BY <1>9
    <2> HIDE DEF Unfolds, length
    <2> QED BY <1>10, <2>1
<1> HIDE DEF length
<1>12. /\ length[0] = base
       /\ \A i \in 1 .. n :
             length[i] = length[i - 1] + table.far[path[i]][path[i + 1]]
    <2>1. 0 \in 0 .. n /\ \A i \in 1 .. n : i \in 0 .. n /\ i # 0
        BY <1>1
    <2> QED BY <1>11, <2>1
<1> DEFINE typed == { i \in 0 .. n : length[i] \in Nat }
<1>13. \A i \in 0 .. n : i \in typed
    <2>1. 0 \in typed
        BY <1>1, <1>2, <1>12
    <2>2. ASSUME NEW i \in 1 .. n, i - 1 \in typed
          PROVE  i \in typed
        <3>1. length[i] = length[i - 1] + far[i] /\ far[i] \in Nat
            BY <1>3, <1>6, <1>12
        <3>2. length[i - 1] \in Nat /\ i \in 0 .. n
            BY <1>1, <2>2
        <3> QED BY <3>1, <3>2
    <2> HIDE DEF typed
    <2> QED BY <1>1, <2>1, <2>2, UpTo
<1>14. Length(table, path) = length[n]
    BY <1>1 DEF Length, length, n
<1> QED BY <1>1, <1>12, <1>13, <1>14 DEF length, n, base

-----------------------------------------------------------------------------
(***************************************************************************)
(* The invariant of the loop.                                              *)
(***************************************************************************)

\* A path to a that the distances and routes of s come from: all its routers
\* before a are analysed.
Traced(table, s, a, n, p) ==
    /\ n \in Nat \ {0}
    /\ p \in [1 .. n -> DOMAIN table.far]
    /\ \A i, j \in 1 .. n : p[i] = p[j] => i = j
    /\ p[n] = a
    /\ p[1] \in DOMAIN table.near
    /\ s.through[a] = p[1]
    /\ s.distance[p[1]] = table.near[p[1]].distance
    /\ \A i \in 1 .. n - 1 :
          /\ p[i] \in s.analysed
          /\ p[i + 1] \in DOMAIN table.far[p[i]]
          /\ ~ SameMedium(table, p[i], p[i + 1])
          /\ s.distance[p[i + 1]] = s.distance[p[i]]
                                       + table.far[p[i]][p[i + 1]]

\* The distance that so many routers can be away.
Reach(D, m) == m * D

Analyses(s) == Cardinality(s.analysed)

\* An element of the queue is not better than the distance at hand, and not far.
QueueBounded(D, s) ==
    \A e \in Elements(s.queue) :
        /\ s.distance[e.address] <= e.distance
        /\ e.distance <= Reach(D, Analyses(s) + 1)

\* What is reached and not analysed waits in the queue.
Waiting(table, s) ==
    \A a \in DOMAIN table.far \ s.analysed :
        s.distance[a] # UINT_MAX =>
            [distance |-> s.distance[a], address |-> a] \in Elements(s.queue)

\* What is analysed is nearer than what waits, and not far.
AnalysedNear(D, s) ==
    \A c \in s.analysed :
        /\ s.distance[c] <= Reach(D, Analyses(s))
        /\ \A e \in Elements(s.queue) : s.distance[c] <= e.distance

DirectAtMost(table, s) ==
    \A b \in DOMAIN table.near \cap DOMAIN table.far :
        s.distance[b] <= table.near[b].distance

RoutesTraced(table, s) ==
    \A a \in DOMAIN table.far :
        IF s.distance[a] = UINT_MAX THEN s.through[a] = Nowhere
        ELSE \E n, p : Traced(table, s, a, n, p)

Sound(table, D, s) ==
    /\ s \in State(table)
    /\ QueueBounded(D, s)
    /\ Waiting(table, s)
    /\ AnalysedNear(D, s)
    /\ DirectAtMost(table, s)
    /\ RoutesTraced(table, s)

\* No shorter way to b over a.
Settled(table, s, a, b) ==
    SameMedium(table, a, b) \/ s.distance[b] <= s.distance[a] + table.far[a][b]

LoopInv(table, D, s) ==
    /\ Sound(table, D, s)
    /\ \A a \in s.analysed : \A b \in Listed(table, a) : Settled(table, s, a, b)

\* The reach grows with the number of routers.
LEMMA Reaches ==
    ASSUME NEW D \in Nat, NEW m \in Nat
    PROVE  /\ Reach(D, m) \in Nat
           /\ Reach(D, m + 1) = Reach(D, m) + D
           /\ \A k \in Nat : k <= m => Reach(D, k) <= Reach(D, m)
<1>1. m * D \in Nat /\ (m + 1) * D = m * D + D
    OBVIOUS
<1>2. ASSUME NEW k \in Nat, k <= m
      PROVE  k * D <= m * D
    <2>1. m - k \in Nat /\ m = k + (m - k)
        BY <1>2
    <2>2. (k + (m - k)) * D = k * D + (m - k) * D
        BY <2>1
    <2>3. k * D \in Nat /\ (m - k) * D \in Nat
        BY <2>1
    <2> QED BY <2>1, <2>2, <2>3
<1> QED BY <1>1, <1>2 DEF Reach

\* No sum of the loop wraps round.
LEMMA ReachIsSmall ==
    ASSUME NEW table, NEW D, IsTable(table, D), NEW s \in State(table)
    PROVE  /\ IsFiniteSet(s.analysed)
           /\ Analyses(s) \in Nat
           /\ Analyses(s) <= Cardinality(DOMAIN table.far)
           /\ Reach(D, Analyses(s)) \in Nat
           /\ Reach(D, Analyses(s) + 1) = Reach(D, Analyses(s)) + D
           /\ Reach(D, Analyses(s) + 1) < UINT_MAX
<1> DEFINE n == Cardinality(DOMAIN table.far)
           m == Analyses(s)
<1>1. s.analysed \in SUBSET DOMAIN table.far
    BY DEF State
<1>2. /\ IsFiniteSet(s.analysed) /\ m \in Nat /\ m <= n /\ n \in Nat
    BY <1>1, FS_Subset, FS_CardinalityType DEF IsTable, Analyses
<1>3. D \in Nat /\ UINT_MAX \in Nat
    BY NearIsSmall
<1>4. Reach(D, n + 1) < UINT_MAX
    BY DEF IsTable, Reach
<1> HIDE DEF m, n
<1>5. m + 1 \in Nat /\ n + 1 \in Nat /\ m + 1 <= n + 1
    BY <1>2
<1>6. /\ Reach(D, m) \in Nat /\ Reach(D, m + 1) = Reach(D, m) + D
      /\ Reach(D, m + 1) \in Nat /\ Reach(D, n + 1) \in Nat
      /\ Reach(D, m + 1) <= Reach(D, n + 1)
    BY <1>2, <1>3, <1>5, Reaches
<1> QED BY <1>2, <1>3, <1>4, <1>6 DEF m, n

\* A path stays one while its routers keep their distances.
LEMMA TracedKept ==
    ASSUME NEW table, NEW s, NEW t, NEW x, NEW n, NEW p,
           Traced(table, s, x, n, p),
           s.analysed \subseteq t.analysed,
           \A y \in s.analysed \union {x} : t.distance[y] = s.distance[y],
           t.through[x] = s.through[x]
    PROVE  Traced(table, t, x, n, p)
<1>1. n \in Nat \ {0} /\ 1 \in 1 .. n
    BY DEF Traced
<1>2. \A i \in 1 .. n : p[i] \in s.analysed \union {x}
    <2>1. \A i \in 1 .. n : i \in 1 .. n - 1 \/ i = n
        BY <1>1
    <2> QED BY <2>1 DEF Traced
<1>3. \A i \in 1 .. n : t.distance[p[i]] = s.distance[p[i]]
    BY <1>2
<1>4. \A i \in 1 .. n - 1 : i \in 1 .. n /\ i + 1 \in 1 .. n
    BY <1>1
<1> QED BY <1>1, <1>3, <1>4 DEF Traced

\* A path to an analysed router goes on to one from its list.
LEMMA TracedFurther ==
    ASSUME NEW table, NEW s, NEW t, NEW a, NEW b \in DOMAIN table.far,
           NEW n, NEW p, Traced(table, s, a, n, p),
           a \in s.analysed, b \notin s.analysed, b \in DOMAIN table.far[a],
           ~ SameMedium(table, a, b),
           t.analysed = s.analysed,
           \A y \in s.analysed : t.distance[y] = s.distance[y],
           t.distance[b] = s.distance[a] + table.far[a][b],
           t.through[b] = s.through[a]
    PROVE  \E q : Traced(table, t, b, n + 1, q)
<1> DEFINE q == [i \in 1 .. n + 1 |-> IF i = n + 1 THEN b ELSE p[i]]
<1>1. n \in Nat \ {0} /\ 1 \in 1 .. n /\ n + 1 \in Nat \ {0}
    BY DEF Traced
<1>2. \A i \in 1 .. n : p[i] \in s.analysed /\ p[i] \in DOMAIN table.far
    <2>1. \A i \in 1 .. n : i \in 1 .. n - 1 \/ i = n
        BY <1>1
    <2> QED BY <2>1 DEF Traced
<1>3. \A i \in 1 .. n + 1 : i \in 1 .. n \/ i = n + 1
    BY <1>1
<1>4. \A i \in 1 .. n : i \in 1 .. n + 1 /\ i # n + 1
    BY <1>1
<1>5. \A i \in 1 .. n : q[i] = p[i]
    BY <1>4
<1>6. q[n + 1] = b
    BY <1>1
<1>7. q \in [1 .. n + 1 -> DOMAIN table.far]
    BY <1>2, <1>3
<1> HIDE DEF q
<1>8. \A i, j \in 1 .. n + 1 : q[i] = q[j] => i = j
    BY <1>2, <1>3, <1>5, <1>6 DEF Traced
<1>9. \A i \in 1 .. n : t.distance[q[i]] = s.distance[p[i]]
    BY <1>2, <1>5
<1>10. ASSUME NEW i \in 1 .. (n + 1) - 1
       PROVE  /\ q[i] \in t.analysed
              /\ q[i + 1] \in DOMAIN table.far[q[i]]
              /\ ~ SameMedium(table, q[i], q[i + 1])
              /\ t.distance[q[i + 1]] = t.distance[q[i]]
                                           + table.far[q[i]][q[i + 1]]
    <2>1. i \in 1 .. n /\ (i = n \/ (i \in 1 .. n - 1 /\ i + 1 \in 1 .. n))
        BY <1>1
    <2>2. CASE i = n
        <3>1. q[i] = a /\ q[i + 1] = b
            BY <1>1, <1>5, <1>6, <2>2 DEF Traced
        <3> QED BY <3>1
    <2>3. CASE i \in 1 .. n - 1
        <3>1. q[i] = p[i] /\ q[i + 1] = p[i + 1] /\ i + 1 \in 1 .. n
            BY <1>1, <1>5, <2>1, <2>3
        <3>2. /\ p[i] \in s.analysed
              /\ p[i + 1] \in DOMAIN table.far[p[i]]
              /\ ~ SameMedium(table, p[i], p[i + 1])
              /\ s.distance[p[i + 1]] = s.distance[p[i]]
                                           + table.far[p[i]][p[i + 1]]
            BY <2>3 DEF Traced
        <3>3. /\ t.distance[q[i]] = s.distance[p[i]]
              /\ t.distance[q[i + 1]] = s.distance[p[i + 1]]
            BY <1>9, <2>1, <3>1
        <3> QED BY <3>1, <3>2, <3>3
    <2> QED BY <2>1, <2>2, <2>3
<1>11. q[1] = p[1] /\ t.distance[q[1]] = s.distance[p[1]]
    BY <1>1, <1>5, <1>9
<1>12. Traced(table, t, b, n + 1, q)
    BY <1>1, <1>6, <1>7, <1>8, <1>10, <1>11 DEF Traced
<1> QED BY <1>12

\* An entry of the list of the router that is analysed.
LEMMA RelaxStep ==
    ASSUME NEW table, NEW D, IsTable(table, D), NEW s, Sound(table, D, s),
           NEW a \in s.analysed, NEW b \in Listed(table, a),
           \A c \in s.analysed : s.distance[c] <= s.distance[a]
    PROVE  LET t == Relaxed(table, s, s.distance[a], a, b)
           IN  /\ Sound(table, D, t)
               /\ t.analysed = s.analysed
               /\ \A x \in DOMAIN table.far : t.distance[x] <= s.distance[x]
               /\ \A c \in s.analysed : t.distance[c] = s.distance[c]
               /\ Settled(table, t, a, b)
               /\ Len(t.queue) <= Len(s.queue) + 1
<1> DEFINE A == DOMAIN table.far
           d == s.distance[a]
           sum == (d + table.far[a][b]) % UintMod
           t == Relaxed(table, s, d, a, b)
           m == Analyses(s)
<1>1. /\ s \in State(table)
      /\ s.distance \in [A -> Distances] /\ s.through \in [A -> Nat]
      /\ s.analysed \subseteq A
      /\ Len(s.queue) \in Nat
      /\ \A e \in Elements(s.queue) : e.distance \in Distances /\ e.address \in A
    <2>1. /\ s \in State(table)
          /\ s.distance \in [A -> Distances] /\ s.through \in [A -> Nat]
          /\ s.analysed \subseteq A
          /\ s.queue \in Seq(Entries(A))
        BY DEF Sound, State
    <2>2. /\ Len(s.queue) \in Nat
          /\ \A i \in 1 .. Len(s.queue) : s.queue[i] \in Entries(A)
        BY <2>1, LenProperties, ElementOfSeq
    <2> QED BY <2>1, <2>2 DEF Elements, Entries
<1>2. /\ Distances \subseteq Nat /\ D \in Nat /\ UINT_MAX \in Nat
      /\ UINT_MAX < UintMod /\ UintMod \in Nat
    BY NearIsSmall, UintAssumption DEF UINT_MAX
<1>0. \A x \in A : s.distance[x] \in Nat
    <2>1. \A x \in A : s.distance[x] \in Distances
        BY <1>1
    <2> QED BY <1>2, <2>1
<1>3. /\ m \in Nat /\ Reach(D, m) \in Nat
      /\ Reach(D, m + 1) = Reach(D, m) + D /\ Reach(D, m + 1) < UINT_MAX
    BY <1>1, ReachIsSmall
<1>4. /\ a \in A /\ b \in A /\ b \in DOMAIN table.far[a] /\ a # b
      /\ table.far[a][b] \in 0 .. D
    BY <1>1 DEF Listed, IsTable
<1>5. d \in Nat /\ d <= Reach(D, m)
    BY <1>1, <1>2, <1>4 DEF Sound, AnalysedNear
<1>6. /\ sum = d + table.far[a][b]
      /\ sum \in Distances /\ sum \in Nat /\ d <= sum
      /\ sum <= Reach(D, m + 1) /\ sum # UINT_MAX
    <2> DEFINE plain == d + table.far[a][b]
    <2>1. /\ plain \in Nat /\ d <= plain /\ plain <= Reach(D, m + 1)
          /\ plain < UINT_MAX /\ plain < UintMod
        BY <1>2, <1>3, <1>4, <1>5
    <2> HIDE DEF plain
    <2>2. plain % UintMod = plain /\ plain % UintMod \in Distances
        BY <2>1, SumWrapped
    <2>3. sum = plain % UintMod
        BY DEF plain
    <2> QED BY <1>2, <2>1, <2>2, <2>3 DEF plain
<1> HIDE DEF sum, d
<1>7. CASE SameMedium(table, a, b) \/ s.distance[b] <= sum
    <2>1. t = s
        BY <1>7 DEF Relaxed, sum
    <2>2. Settled(table, s, a, b)
        BY <1>6, <1>7 DEF Settled, d
    <2>3. \A x \in A : s.distance[x] <= s.distance[x]
        BY <1>0
    <2>4. Len(s.queue) <= Len(s.queue) + 1
        BY <1>1
    <2> QED BY <2>1, <2>2, <2>3, <2>4 DEF d
<1>8. CASE ~ (SameMedium(table, a, b) \/ s.distance[b] <= sum)
    <2> DEFINE e == Entered(s, sum, s.through[a], b)
               new == [distance |-> sum, address |-> b]
    <2>1. t = e
        BY <1>8 DEF Relaxed, Entered, sum
    <2>2. s.through[a] \in Nat
        BY <1>1, <1>4
    <2>3. /\ e \in State(table)
          /\ e.distance = [s.distance EXCEPT ![b] = sum]
          /\ e.through = [s.through EXCEPT ![b] = s.through[a]]
          /\ e.analysed = s.analysed
          /\ Len(e.queue) = Len(s.queue) + 1
          /\ Elements(e.queue) = Elements(s.queue) \union {new}
        BY <1>1, <1>4, <1>6, <2>2, EnteredState
    <2> HIDE DEF e
    <2>4. /\ e.distance[b] = sum /\ e.through[b] = s.through[a]
          /\ \A x \in A \ {b} : /\ e.distance[x] = s.distance[x]
                                /\ e.through[x] = s.through[x]
        BY <1>1, <1>4, <2>3
    <2>5. sum < s.distance[b] /\ s.distance[b] \in Nat
        <3>1. s.distance[b] \in Nat /\ ~ (s.distance[b] <= sum)
            BY <1>0, <1>4, <1>8
        <3> QED BY <1>6, <3>1
    <2>6. b \notin s.analysed
        <3>1. \A c \in s.analysed : s.distance[c] \in Nat /\ s.distance[c] <= d
            BY <1>1, <1>2 DEF d
        <3> QED BY <1>5, <1>6, <2>5, <3>1
    <2>7. \A x \in A : /\ s.distance[x] \in Nat /\ e.distance[x] \in Nat
                       /\ e.distance[x] <= s.distance[x]
        <3> SUFFICES ASSUME NEW x \in A
                     PROVE  /\ s.distance[x] \in Nat /\ e.distance[x] \in Nat
                            /\ e.distance[x] <= s.distance[x]
            OBVIOUS
        <3>1. s.distance[x] \in Nat
            BY <1>0
        <3>2. CASE x = b
            BY <1>6, <2>4, <2>5, <3>1, <3>2
        <3>3. CASE x # b
            BY <2>4, <3>1, <3>3
        <3> QED BY <3>2, <3>3
    <2>8. \A c \in s.analysed : e.distance[c] = s.distance[c]
        BY <1>1, <2>4, <2>6
    <2>9. Analyses(e) = m
        BY <2>3 DEF Analyses
    <2>10. QueueBounded(D, e)
        <3> SUFFICES ASSUME NEW x \in Elements(e.queue)
                     PROVE  /\ e.distance[x.address] <= x.distance
                            /\ x.distance <= Reach(D, m + 1)
            BY <2>9 DEF QueueBounded
        <3>1. CASE x = new
            <4>1. x.distance = sum /\ x.address = b
                BY <3>1
            <4> QED BY <1>6, <2>4, <4>1
        <3>2. CASE x \in Elements(s.queue)
            <4>1. /\ s.distance[x.address] <= x.distance
                  /\ x.distance <= Reach(D, m + 1)
                BY <3>2 DEF Sound, QueueBounded
            <4>2. x.distance \in Nat /\ x.address \in A
                BY <1>1, <1>2, <3>2
            <4>3. /\ e.distance[x.address] <= s.distance[x.address]
                  /\ e.distance[x.address] \in Nat /\ s.distance[x.address] \in Nat
                BY <2>7, <4>2
            <4> QED BY <4>1, <4>2, <4>3
        <3> QED BY <2>3, <3>1, <3>2
    <2>11. Waiting(table, e)
        <3> SUFFICES ASSUME NEW x \in A \ e.analysed, e.distance[x] # UINT_MAX
                     PROVE  [distance |-> e.distance[x], address |-> x]
                                \in Elements(e.queue)
            BY DEF Waiting
        <3>1. CASE x = b
            BY <2>3, <2>4, <3>1
        <3>2. CASE x # b
            BY <2>3, <2>4, <3>2 DEF Sound, Waiting
        <3> QED BY <3>1, <3>2
    <2>12. AnalysedNear(D, e)
        <3> SUFFICES ASSUME NEW c \in s.analysed
                     PROVE  /\ e.distance[c] <= Reach(D, m)
                            /\ \A x \in Elements(e.queue) :
                                  e.distance[c] <= x.distance
            BY <2>3, <2>9 DEF AnalysedNear
        <3>1. e.distance[c] = s.distance[c] /\ s.distance[c] \in Nat
            BY <1>1, <1>2, <2>8
        <3>2. /\ s.distance[c] <= Reach(D, m)
              /\ \A x \in Elements(s.queue) : s.distance[c] <= x.distance
            BY DEF Sound, AnalysedNear
        <3>3. s.distance[c] <= d
            BY DEF d
        <3>4. s.distance[c] <= new.distance
            BY <1>5, <1>6, <3>1, <3>3
        <3> QED BY <2>3, <3>1, <3>2, <3>4
    <2>13. DirectAtMost(table, e)
        <3> SUFFICES ASSUME NEW x \in DOMAIN table.near \cap A
                     PROVE  e.distance[x] <= table.near[x].distance
            BY DEF DirectAtMost
        <3>1. s.distance[x] <= table.near[x].distance
            BY DEF Sound, DirectAtMost
        <3>2. table.near[x].distance \in Nat
            BY DEF IsTable
        <3> QED BY <2>7, <3>1, <3>2
    <2>14. RoutesTraced(table, e)
        <3> SUFFICES ASSUME NEW x \in A
                     PROVE  IF e.distance[x] = UINT_MAX THEN e.through[x] = Nowhere
                            ELSE \E n, p : Traced(table, e, x, n, p)
            BY DEF RoutesTraced
        <3>1. CASE x # b
            <4>1. e.distance[x] = s.distance[x] /\ e.through[x] = s.through[x]
                BY <2>4, <3>1
            <4>2. CASE s.distance[x] = UINT_MAX
                BY <4>1, <4>2 DEF Sound, RoutesTraced
            <4>3. CASE s.distance[x] # UINT_MAX
                <5>1. PICK n, p : Traced(table, s, x, n, p)
                    BY <4>3 DEF Sound, RoutesTraced
                <5>2. Traced(table, e, x, n, p)
                    BY <2>3, <2>8, <4>1, <5>1, TracedKept
                <5> QED BY <4>1, <4>3, <5>2
            <4> QED BY <4>2, <4>3
        <3>2. CASE x = b
            <4>1. s.distance[a] # UINT_MAX
                BY <1>2, <1>3, <1>5 DEF d
            <4>2. PICK n, p : Traced(table, s, a, n, p)
                BY <1>4, <4>1 DEF Sound, RoutesTraced
            <4>3. e.distance[b] = s.distance[a] + table.far[a][b]
                BY <1>6, <2>4 DEF d
            <4>4. \E q : Traced(table, e, b, n + 1, q)
                BY <1>4, <1>8, <2>3, <2>4, <2>6, <2>8, <4>2, <4>3, TracedFurther
            <4> QED BY <1>6, <2>4, <3>2, <4>4
        <3> QED BY <3>1, <3>2
    <2>15. Sound(table, D, e)
        BY <2>3, <2>10, <2>11, <2>12, <2>13, <2>14 DEF Sound
    <2>16. Settled(table, e, a, b)
        <3>1. e.distance[a] = d
            BY <2>8 DEF d
        <3> QED BY <1>6, <2>4, <2>7, <1>4, <3>1 DEF Settled
    <2>17. Len(e.queue) <= Len(s.queue) + 1
        BY <1>1, <2>3
    <2> QED BY <2>1, <2>3, <2>7, <2>8, <2>15, <2>16, <2>17 DEF d
<1> QED BY <1>7, <1>8

Popped(s) ==
    [s EXCEPT !.queue = Tail(@), !.analysed = @ \union {Head(s.queue).address}]

\* The first element of the queue has the distance of its router, unless that
\* is analysed already.
LEMMA PoppedSound ==
    ASSUME NEW table, NEW D, IsTable(table, D), NEW s, Sound(table, D, s),
           s.queue # <<>>
    PROVE  LET first == Head(s.queue)
               a == first.address
               t == Popped(s)
           IN  /\ first \in Entries(DOMAIN table.far)
               /\ Sound(table, D, t)
               /\ t.analysed = s.analysed \union {a}
               /\ t.distance = s.distance
               /\ Len(s.queue) \in Nat
               /\ Len(t.queue) = Len(s.queue) - 1
               /\ a \notin s.analysed =>
                     /\ first.distance = s.distance[a]
                     /\ \A c \in t.analysed : s.distance[c] <= s.distance[a]
<1> DEFINE A == DOMAIN table.far
           first == Head(s.queue)
           a == first.address
           q == Tail(s.queue)
           t == Popped(s)
           m == Analyses(s)
<1>1. /\ s \in State(table)
      /\ s \in [distance : [A -> Distances], through : [A -> Nat],
                queue : Seq(Entries(A)), analysed : SUBSET A]
      /\ InOrder(s.queue)
    BY DEF Sound, State
<1>2. /\ first \in Entries(A) /\ q \in Seq(Entries(A)) /\ InOrder(q)
      /\ Len(s.queue) \in Nat /\ Len(q) = Len(s.queue) - 1
      /\ Elements(s.queue) = Elements(q) \union {first}
      /\ \A e \in Elements(s.queue) : first.distance <= e.distance
    <2>1. Len(s.queue) \in Nat \ {0}
        BY <1>1, FirstIsNearest
    <2> QED BY <1>1, <2>1, FirstIsNearest
<1>3. a \in A /\ first.distance \in Distances
    BY <1>2 DEF Entries
<1>4. Distances \subseteq Nat /\ D \in Nat /\ UINT_MAX \in Nat
    BY NearIsSmall
<1>5. \A x \in A : s.distance[x] \in Nat
    <2>1. \A x \in A : s.distance[x] \in Distances
        BY <1>1
    <2> QED BY <1>4, <2>1
<1>6. \A e \in Elements(s.queue) : e.distance \in Nat /\ e.address \in A
    <2>1. \A i \in 1 .. Len(s.queue) : s.queue[i] \in Entries(A)
        BY <1>1, ElementOfSeq
    <2> QED BY <1>4, <2>1 DEF Elements, Entries
<1> HIDE DEF first, q
<1>7. /\ t \in State(table)
      /\ t.distance = s.distance /\ t.through = s.through
      /\ t.queue = q /\ t.analysed = s.analysed \union {a}
    <2>1. t = [s EXCEPT !.queue = q, !.analysed = @ \union {a}]
        BY DEF q, first, Popped
    <2> HIDE DEF t, a
    <2>2. /\ t.distance = s.distance /\ t.through = s.through
          /\ t.queue = q /\ t.analysed = s.analysed \union {a}
          /\ t \in [distance : [A -> Distances], through : [A -> Nat],
                    queue : Seq(Entries(A)), analysed : SUBSET A]
        BY <1>1, <1>2, <1>3, <2>1 DEF a
    <2> QED BY <1>2, <2>2 DEF State
<1> HIDE DEF a, t
<1>8. /\ m \in Nat /\ Reach(D, m) \in Nat
      /\ Reach(D, m + 1) = Reach(D, m) + D /\ Reach(D, m + 1) < UINT_MAX
      /\ IsFiniteSet(s.analysed)
    BY <1>1, ReachIsSmall
<1>9. /\ Analyses(t) \in Nat /\ Reach(D, Analyses(t)) \in Nat
      /\ Reach(D, Analyses(t) + 1) = Reach(D, Analyses(t)) + D
    BY <1>7, ReachIsSmall
<1>10. /\ Analyses(t) = IF a \in s.analysed THEN m ELSE m + 1
       /\ Reach(D, m) <= Reach(D, Analyses(t))
       /\ Reach(D, m + 1) <= Reach(D, Analyses(t) + 1)
    <2>1. CASE a \in s.analysed
        <3>1. t.analysed = s.analysed
            BY <1>7, <2>1
        <3>2. Analyses(t) = m
            BY <3>1 DEF Analyses
        <3> QED BY <1>4, <1>8, <2>1, <3>2
    <2>2. CASE a \notin s.analysed
        <3>1. Analyses(t) = m + 1
            <4> DEFINE S == s.analysed
            <4>1. IsFiniteSet(S) /\ m = Cardinality(S) /\ a \notin S
                BY <1>8, <2>2 DEF Analyses, m
            <4>2. t.analysed = S \union {a}
                BY <1>7
            <4> HIDE DEF S, m, t
            <4>3. Cardinality(S \union {a}) = m + 1
                BY <4>1, FS_AddElement
            <4> QED BY <4>2, <4>3 DEF Analyses
        <3> QED BY <1>4, <1>8, <1>9, <2>2, <3>1
    <2> QED BY <2>1, <2>2
<1>11. a \notin s.analysed => first.distance = s.distance[a]
    <2> SUFFICES ASSUME a \notin s.analysed
                 PROVE  first.distance = s.distance[a]
        OBVIOUS
    <2>1. /\ s.distance[a] <= first.distance
          /\ first.distance <= Reach(D, m + 1)
        BY <1>2 DEF Sound, QueueBounded, a
    <2>2. first.distance \in Nat
        BY <1>2, <1>6
    <2>3. s.distance[a] # UINT_MAX
        BY <1>3, <1>4, <1>5, <1>8, <2>1, <2>2
    <2>4. [distance |-> s.distance[a], address |-> a] \in Elements(s.queue)
        BY <1>3, <2>3 DEF Sound, Waiting
    <2>5. first.distance <= s.distance[a]
        BY <1>2, <2>4
    <2> QED BY <1>3, <1>5, <2>1, <2>2, <2>5
<1>12. QueueBounded(D, t)
    <2> SUFFICES ASSUME NEW e \in Elements(q)
                 PROVE  /\ s.distance[e.address] <= e.distance
                        /\ e.distance <= Reach(D, Analyses(t) + 1)
        BY <1>7 DEF QueueBounded
    <2>1. e \in Elements(s.queue) /\ e.distance \in Nat
        BY <1>2, <1>6
    <2>2. s.distance[e.address] <= e.distance /\ e.distance <= Reach(D, m + 1)
        BY <2>1 DEF Sound, QueueBounded
    <2> QED BY <1>4, <1>8, <1>9, <1>10, <2>1, <2>2
<1>13. Waiting(table, t)
    <2> SUFFICES ASSUME NEW x \in A \ t.analysed, s.distance[x] # UINT_MAX
                 PROVE  [distance |-> s.distance[x], address |-> x] \in Elements(q)
        BY <1>7 DEF Waiting
    <2>1. x # a /\ x \notin s.analysed
        BY <1>7
    <2>2. [distance |-> s.distance[x], address |-> x] \in Elements(s.queue)
        BY <2>1 DEF Sound, Waiting
    <2>3. [distance |-> s.distance[x], address |-> x] # first
        BY <2>1 DEF a
    <2> QED BY <1>2, <2>2, <2>3
<1>14. /\ AnalysedNear(D, t)
       /\ a \notin s.analysed =>
              \A c \in t.analysed : s.distance[c] <= s.distance[a]
    <2>1. ASSUME NEW c \in s.analysed
          PROVE  /\ s.distance[c] <= Reach(D, Analyses(t))
                 /\ \A e \in Elements(q) : s.distance[c] <= e.distance
                 /\ s.distance[c] <= first.distance
        <3>1. /\ s.distance[c] <= Reach(D, m)
              /\ \A e \in Elements(s.queue) : s.distance[c] <= e.distance
            BY DEF Sound, AnalysedNear
        <3>2. s.distance[c] \in Nat
            BY <1>1, <1>5
        <3> QED BY <1>2, <1>8, <1>9, <1>10, <3>1, <3>2
    <2>2. ASSUME a \notin s.analysed
          PROVE  /\ s.distance[a] <= Reach(D, Analyses(t))
                 /\ \A e \in Elements(q) : s.distance[a] <= e.distance
        <3>1. first.distance <= Reach(D, m + 1)
            BY <1>2 DEF Sound, QueueBounded
        <3>2. Analyses(t) = m + 1
            BY <1>10, <2>2
        <3> QED BY <1>2, <1>11, <2>2, <3>1, <3>2
    <2>3. s.distance[a] <= s.distance[a]
        BY <1>3, <1>5
    <2> QED BY <1>7, <1>11, <2>1, <2>2, <2>3 DEF AnalysedNear
<1>15. DirectAtMost(table, t)
    BY <1>7 DEF Sound, DirectAtMost
<1>16. RoutesTraced(table, t)
    <2> SUFFICES ASSUME NEW x \in A, t.distance[x] # UINT_MAX
                 PROVE  \E n, p : Traced(table, t, x, n, p)
        BY <1>7 DEF Sound, RoutesTraced
    <2>1. PICK n, p : Traced(table, s, x, n, p)
        BY <1>7 DEF Sound, RoutesTraced
    <2>2. Traced(table, t, x, n, p)
        BY <1>7, <2>1, TracedKept
    <2> QED BY <2>2
<1>17. Sound(table, D, t)
    BY <1>7, <1>12, <1>13, <1>14, <1>15, <1>16 DEF Sound
<1> QED BY <1>2, <1>7, <1>11, <1>14, <1>17 DEF first, a, t

\* What the proofs about a state need of its types.
LEMMA DistancesOfState ==
    ASSUME NEW table, NEW D, IsTable(table, D), NEW s \in State(table)
    PROVE  /\ s.analysed \subseteq DOMAIN table.far
           /\ \A x \in DOMAIN table.far : s.distance[x] \in Nat
           /\ Len(s.queue) \in Nat
<1>1. /\ s.distance \in [DOMAIN table.far -> Distances]
      /\ s.analysed \subseteq DOMAIN table.far
      /\ s.queue \in Seq(Entries(DOMAIN table.far))
    BY DEF State
<1>2. \A x \in DOMAIN table.far : s.distance[x] \in Distances
    BY <1>1
<1> QED BY <1>1, <1>2, DistancesAreNumbers, LenProperties

\* A way that is settled stays so while distances only get less.
LEMMA SettledKept ==
    ASSUME NEW table, NEW D, IsTable(table, D),
           NEW s \in State(table), NEW t \in State(table),
           \A x \in DOMAIN table.far : t.distance[x] <= s.distance[x],
           NEW c \in s.analysed, t.distance[c] = s.distance[c],
           NEW b \in Listed(table, c), Settled(table, s, c, b)
    PROVE  Settled(table, t, c, b)
<1>1. c \in DOMAIN table.far /\ b \in DOMAIN table.far /\ b \in DOMAIN table.far[c]
    BY DistancesOfState DEF Listed
<1>2. /\ s.distance[b] \in Nat /\ t.distance[b] \in Nat /\ s.distance[c] \in Nat
      /\ table.far[c][b] \in Nat
    <2>1. D \in Nat /\ table.far[c][b] \in 0 .. D
        BY <1>1 DEF IsTable
    <2>2. s.distance[b] \in Nat /\ t.distance[b] \in Nat /\ s.distance[c] \in Nat
        BY <1>1, DistancesOfState
    <2> QED BY <2>1, <2>2
<1>3. t.distance[b] <= s.distance[b]
    BY <1>1
<1> QED BY <1>2, <1>3 DEF Settled

\* The list of the router that is analysed, entry by entry.
LEMMA ExploredSound ==
    ASSUME NEW table, NEW D, IsTable(table, D), NEW s, Sound(table, D, s),
           NEW first \in Entries(DOMAIN table.far),
           first.address \in s.analysed,
           first.distance = s.distance[first.address],
           \A c \in s.analysed : s.distance[c] <= first.distance,
           \A c \in s.analysed \ {first.address} : \A b \in Listed(table, c) :
              Settled(table, s, c, b)
    PROVE  LET n == Cardinality(Listed(table, first.address))
               t == Explored(table, s, first)[n]
           IN  /\ n \in Nat
               /\ LoopInv(table, D, t)
               /\ t.analysed = s.analysed
               /\ Len(t.queue) <= Len(s.queue) + n
<1> DEFINE A == DOMAIN table.far
           a == first.address
           n == Cardinality(Listed(table, a))
           listed == Ascending(Listed(table, a))
           e == Explored(table, s, first)
<1>1. s \in State(table)
    BY DEF Sound
<1>2. /\ n \in Nat
      /\ e[0] = s
      /\ \A i \in 0 .. n : e[i] \in State(table)
      /\ \A i \in 1 .. n : listed[i] \in Listed(table, a)
      /\ \A b \in Listed(table, a) : \E i \in 1 .. n : listed[i] = b
      /\ \A i \in 1 .. n :
            e[i] = Relaxed(table, e[i - 1], first.distance, a, listed[i])
    BY <1>1, ExploredSteps
<1> HIDE DEF n, listed, e
<1> DEFINE Good(i) ==
        /\ Sound(table, D, e[i])
        /\ e[i].analysed = s.analysed
        /\ \A c \in s.analysed : e[i].distance[c] = s.distance[c]
        /\ \A c \in s.analysed \ {a} : \A b \in Listed(table, c) :
              Settled(table, e[i], c, b)
        /\ \A j \in 1 .. i : Settled(table, e[i], a, listed[j])
        /\ Len(e[i].queue) <= Len(s.queue) + i
<1>3. Good(0)
    <2>1. Len(s.queue) <= Len(s.queue) + 0
        BY <1>1, DistancesOfState
    <2>2. \A j \in 1 .. 0 : FALSE
        OBVIOUS
    <2> QED BY <1>2, <2>1, <2>2
<1>4. ASSUME NEW i \in 1 .. n, Good(i - 1)
      PROVE  Good(i)
    <2> DEFINE r == e[i - 1]
               t == e[i]
               b == listed[i]
    <2>1. i - 1 \in 0 .. n /\ i \in 0 .. n /\ i \in Nat
        BY <1>2
    <2>2. /\ r \in State(table) /\ t \in State(table)
          /\ b \in Listed(table, a)
          /\ t = Relaxed(table, r, first.distance, a, b)
        BY <1>2, <2>1
    <2>3. /\ Sound(table, D, r) /\ r.analysed = s.analysed
          /\ \A c \in s.analysed : r.distance[c] = s.distance[c]
        BY <1>4
    <2>4. /\ a \in r.analysed /\ first.distance = r.distance[a]
          /\ \A c \in r.analysed : r.distance[c] <= r.distance[a]
        BY <2>3
    <2> HIDE DEF r, t, b, a
    <2>5. /\ Sound(table, D, t)
          /\ t.analysed = r.analysed
          /\ \A x \in A : t.distance[x] <= r.distance[x]
          /\ \A c \in r.analysed : t.distance[c] = r.distance[c]
          /\ Settled(table, t, a, b)
          /\ Len(t.queue) <= Len(r.queue) + 1
        BY <2>2, <2>3, <2>4, RelaxStep
    <2>6. ASSUME NEW c \in s.analysed, NEW x \in Listed(table, c),
                 Settled(table, r, c, x)
          PROVE  Settled(table, t, c, x)
        BY <2>2, <2>3, <2>5, <2>6, SettledKept
    <2>7. \A c \in s.analysed \ {a} : \A x \in Listed(table, c) :
             Settled(table, t, c, x)
        BY <1>4, <2>6 DEF r
    <2>8. \A j \in 1 .. i : Settled(table, t, a, listed[j])
        <3> SUFFICES ASSUME NEW j \in 1 .. i
                     PROVE  Settled(table, t, a, listed[j])
            OBVIOUS
        <3>1. CASE j = i
            BY <2>5, <3>1 DEF b
        <3>2. CASE j # i
            <4>1. j \in 1 .. i - 1 /\ j \in 1 .. n
                BY <1>2, <2>1, <3>2
            <4>2. Settled(table, r, a, listed[j]) /\ listed[j] \in Listed(table, a)
                BY <1>2, <1>4, <4>1 DEF r
            <4> QED BY <2>3, <2>4, <2>6, <4>2
        <3> QED BY <3>1, <3>2
    <2>9. Len(t.queue) <= Len(s.queue) + i
        <3>1. Len(r.queue) <= Len(s.queue) + (i - 1)
            BY <1>4 DEF r
        <3>2. Len(r.queue) \in Nat /\ Len(s.queue) \in Nat /\ Len(t.queue) \in Nat
            BY <1>1, <2>2, DistancesOfState
        <3> QED BY <2>1, <2>5, <3>1, <3>2
    <2>10. \A c \in s.analysed : t.distance[c] = s.distance[c]
        BY <2>3, <2>5
    <2> QED BY <2>3, <2>5, <2>7, <2>8, <2>9, <2>10 DEF t
<1> DEFINE good == { i \in 0 .. n : Good(i) }
<1>5. \A i \in 0 .. n : i \in good
    <2>1. 0 \in good
        BY <1>2, <1>3
    <2>2. ASSUME NEW i \in 1 .. n, i - 1 \in good
          PROVE  i \in good
        <3> HIDE DEF Good
        <3>1. Good(i)
            BY <1>4, <2>2
        <3> QED BY <1>2, <3>1
    <2> HIDE DEF good
    <2> QED BY <1>2, <2>1, <2>2, UpTo
<1>6. Good(n)
    <2>1. n \in 0 .. n
        BY <1>2
    <2> HIDE DEF Good
    <2> QED BY <1>5, <2>1
<1>7. LoopInv(table, D, e[n])
    <2>1. \A c \in s.analysed : \A b \in Listed(table, c) :
             Settled(table, e[n], c, b)
        <3> SUFFICES ASSUME NEW c \in s.analysed, NEW b \in Listed(table, c)
                     PROVE  Settled(table, e[n], c, b)
            OBVIOUS
        <3>1. CASE c = a
            <4>1. PICK i \in 1 .. n : listed[i] = b
                BY <1>2, <3>1
            <4> QED BY <1>6, <3>1, <4>1
        <3>2. CASE c # a
            BY <1>6, <3>2
        <3> QED BY <3>1, <3>2
    <2> QED BY <1>6, <2>1 DEF LoopInv
<1> QED BY <1>2, <1>6, <1>7 DEF n, e

\* A turn of the loop.
LEMMA AnalysedLoop ==
    ASSUME NEW table, NEW D, IsTable(table, D), NEW s, LoopInv(table, D, s),
           s.queue # <<>>
    PROVE  LET a == Head(s.queue).address
               t == Analysed(table, s)
           IN  /\ LoopInv(table, D, t)
               /\ a \in DOMAIN table.far
               /\ t.analysed = s.analysed \union {a}
               /\ IF a \in s.analysed
                  THEN Len(t.queue) = Len(s.queue) - 1
                  ELSE Len(t.queue) <= Len(s.queue) - 1
                                          + Cardinality(Listed(table, a))
<1> DEFINE first == Head(s.queue)
           a == first.address
           rest == Popped(s)
           t == Analysed(table, s)
           n == Cardinality(Listed(table, a))
<1>1. Sound(table, D, s)
    BY DEF LoopInv
<1>2. /\ first \in Entries(DOMAIN table.far)
      /\ Sound(table, D, rest)
      /\ rest.analysed = s.analysed \union {a}
      /\ rest.distance = s.distance
      /\ Len(s.queue) \in Nat
      /\ Len(rest.queue) = Len(s.queue) - 1
      /\ a \notin s.analysed =>
            /\ first.distance = s.distance[a]
            /\ \A c \in rest.analysed : s.distance[c] <= s.distance[a]
    BY <1>1, PoppedSound
<1>3. a \in DOMAIN table.far
    BY <1>2 DEF Entries
<1>4. t = IF a \in s.analysed THEN rest ELSE Explored(table, rest, first)[n]
    BY DEF Analysed, Popped
<1> HIDE DEF rest, t, n
<1>5. \A c \in s.analysed : \A b \in Listed(table, c) : Settled(table, rest, c, b)
    BY <1>2 DEF LoopInv, Settled
<1>6. CASE a \in s.analysed
    <2>1. t = rest /\ rest.analysed = s.analysed
        BY <1>2, <1>4, <1>6
    <2>2. LoopInv(table, D, rest)
        BY <1>2, <1>5, <2>1 DEF LoopInv
    <2> QED BY <1>2, <1>3, <1>6, <2>1, <2>2 DEF t
<1>7. CASE a \notin s.analysed
    <2>1. t = Explored(table, rest, first)[n]
        BY <1>4, <1>7
    <2>2. /\ first.address \in rest.analysed
          /\ first.distance = rest.distance[first.address]
          /\ \A c \in rest.analysed : rest.distance[c] <= first.distance
          /\ \A c \in rest.analysed \ {first.address} : \A b \in Listed(table, c) :
                Settled(table, rest, c, b)
        BY <1>2, <1>5, <1>7
    <2>3. /\ n \in Nat
          /\ LoopInv(table, D, t)
          /\ t.analysed = rest.analysed
          /\ Len(t.queue) <= Len(rest.queue) + n
        <3>1. first \in Entries(DOMAIN table.far) /\ Sound(table, D, rest)
            BY <1>2
        <3> HIDE DEF first
        <3> QED BY <2>1, <2>2, <3>1, ExploredSound DEF n
    <2>4. Len(t.queue) <= Len(s.queue) - 1 + n
        BY <1>2, <2>3
    <2> QED BY <1>2, <1>3, <1>7, <2>3, <2>4 DEF t, n
<1> QED BY <1>6, <1>7

-----------------------------------------------------------------------------
Direct(table, s, x) ==
    /\ x \in DOMAIN table.near
    /\ s.distance[x] = table.near[x].distance
    /\ s.through[x] = x
    /\ [distance |-> s.distance[x], address |-> x] \in Elements(s.queue)

Unreached(s, x) == s.distance[x] = UINT_MAX /\ s.through[x] = Nowhere

\* What visiting so many neighbours leaves.
Begun(table, s, i) ==
    /\ s.analysed = {}
    /\ Len(s.queue) = i
    /\ \A x \in DOMAIN table.far : Direct(table, s, x) \/ Unreached(s, x)
    /\ \A e \in Elements(s.queue) :
          /\ Direct(table, s, e.address)
          /\ e.distance = s.distance[e.address]

\* One neighbour more.
LEMMA VisitBegun ==
    ASSUME NEW table, NEW D, IsTable(table, D), NEW s \in State(table),
           NEW i \in Nat, Begun(table, s, i),
           NEW b \in DOMAIN table.near \cap DOMAIN table.far
    PROVE  LET t == Visit(table, s, b)
           IN  /\ Begun(table, t, i + 1)
               /\ Direct(table, t, b)
               /\ \A x \in DOMAIN table.far :
                     Direct(table, s, x) => Direct(table, t, x)
<1> DEFINE A == DOMAIN table.far
           d == table.near[b].distance
           t == Visit(table, s, b)
           new == [distance |-> d, address |-> b]
<1>1. /\ t.distance = [s.distance EXCEPT ![b] = d]
      /\ t.through = [s.through EXCEPT ![b] = b]
      /\ t.analysed = s.analysed
      /\ Len(t.queue) = Len(s.queue) + 1
      /\ Elements(t.queue) = Elements(s.queue) \union {new}
    BY VisitState
<1>2. /\ s.distance \in [A -> Distances] /\ s.through \in [A -> Nat]
      /\ s.queue \in Seq(Entries(A))
    BY DEF State
<1>3. \A e \in Elements(s.queue) : e.address \in A
    <2>1. \A j \in 1 .. Len(s.queue) : s.queue[j] \in Entries(A)
        BY <1>2, ElementOfSeq
    <2> QED BY <2>1 DEF Elements, Entries
<1> HIDE DEF t, d, new
<1>4. /\ t.distance[b] = d /\ t.through[b] = b
      /\ \A x \in A \ {b} : /\ t.distance[x] = s.distance[x]
                            /\ t.through[x] = s.through[x]
    BY <1>1, <1>2
<1>5. Direct(table, t, b)
    BY <1>1, <1>4 DEF Direct, d, new
<1>6. ASSUME NEW x \in A, Direct(table, s, x)
      PROVE  Direct(table, t, x) /\ t.distance[x] = s.distance[x]
    <2>1. CASE x = b
        BY <1>4, <1>5, <1>6, <2>1 DEF Direct, d
    <2>2. CASE x # b
        <3>1. t.distance[x] = s.distance[x] /\ t.through[x] = s.through[x]
            BY <1>4, <2>2
        <3> QED BY <1>1, <1>6, <3>1 DEF Direct
    <2> QED BY <2>1, <2>2
<1>7. ASSUME NEW x \in A
      PROVE  Direct(table, t, x) \/ Unreached(t, x)
    <2>1. CASE x = b
        BY <1>5, <2>1
    <2>2. CASE x # b
        <3>1. Direct(table, s, x) \/ Unreached(s, x)
            BY DEF Begun
        <3> QED BY <1>4, <1>6, <2>2, <3>1 DEF Unreached
    <2> QED BY <2>1, <2>2
<1>8. ASSUME NEW e \in Elements(t.queue)
      PROVE  Direct(table, t, e.address) /\ e.distance = t.distance[e.address]
    <2>1. CASE e = new
        <3>1. e.address = b /\ e.distance = d
            BY <2>1 DEF new
        <3> QED BY <1>4, <1>5, <3>1
    <2>2. CASE e \in Elements(s.queue)
        <3>1. /\ e.address \in A /\ Direct(table, s, e.address)
              /\ e.distance = s.distance[e.address]
            BY <1>3, <2>2 DEF Begun
        <3> QED BY <1>6, <3>1
    <2> QED BY <1>1, <2>1, <2>2
<1>9. t.analysed = {} /\ Len(t.queue) = i + 1
    BY <1>1 DEF Begun
<1> QED BY <1>5, <1>6, <1>7, <1>8, <1>9 DEF Begun, t

\* All neighbours.
LEMMA VisitedBegun ==
    ASSUME NEW table, NEW D, IsTable(table, D)
    PROVE  LET both == DOMAIN table.near \cap DOMAIN table.far
               s == Initial(table)
           IN  /\ s \in State(table)
               /\ Begun(table, s, Cardinality(both))
               /\ \A b \in both : Direct(table, s, b)
<1> DEFINE A == DOMAIN table.far
           both == DOMAIN table.near \cap A
           n == Cardinality(both)
           known == Ascending(both)
           v == Visited(table)
<1>1. /\ n \in Nat
      /\ v[0] = Untouched(table)
      /\ \A i \in 0 .. n : v[i] \in State(table)
      /\ \A i \in 1 .. n : known[i] \in both
      /\ \A b \in both : \E i \in 1 .. n : known[i] = b
      /\ \A i \in 1 .. n : v[i] = Visit(table, v[i - 1], known[i])
    BY VisitedSteps
<1>2. Initial(table) = v[n]
    BY DEF Initial
<1> HIDE DEF n, known, v
<1> DEFINE Good(i) == /\ Begun(table, v[i], i)
                      /\ \A j \in 1 .. i : Direct(table, v[i], known[j])
<1>3. Good(0)
    <2>1. /\ v[0].analysed = {} /\ Len(v[0].queue) = 0
          /\ Elements(v[0].queue) = {}
          /\ \A x \in A : Unreached(v[0], x)
        BY <1>1, UntouchedState DEF Untouched, Unreached
    <2>2. \A j \in 1 .. 0 : FALSE
        OBVIOUS
    <2> QED BY <2>1, <2>2 DEF Begun
<1>4. ASSUME NEW i \in 1 .. n, Good(i - 1)
      PROVE  Good(i)
    <2> DEFINE s == v[i - 1]
               t == v[i]
               b == known[i]
    <2>1. i - 1 \in 0 .. n /\ i - 1 \in Nat /\ (i - 1) + 1 = i
        BY <1>1
    <2>2. s \in State(table) /\ b \in both /\ t = Visit(table, s, b)
        BY <1>1, <2>1
    <2>3. Begun(table, s, i - 1)
        BY <1>4
    <2> HIDE DEF s, t, b
    <2>4. /\ Begun(table, t, (i - 1) + 1)
          /\ Direct(table, t, b)
          /\ \A x \in A : Direct(table, s, x) => Direct(table, t, x)
        BY <2>1, <2>2, <2>3, VisitBegun
    <2>5. \A j \in 1 .. i : Direct(table, t, known[j])
        <3> SUFFICES ASSUME NEW j \in 1 .. i
                     PROVE  Direct(table, t, known[j])
            OBVIOUS
        <3>1. CASE j = i
            BY <2>4, <3>1 DEF b
        <3>2. CASE j # i
            <4>1. j \in 1 .. i - 1 /\ j \in 1 .. n
                BY <1>1, <2>1, <3>2
            <4>2. Direct(table, s, known[j]) /\ known[j] \in A
                BY <1>1, <1>4, <4>1 DEF s
            <4> QED BY <2>4, <4>2
        <3> QED BY <3>1, <3>2
    <2> QED BY <2>1, <2>4, <2>5 DEF t
<1> DEFINE good == { i \in 0 .. n : Good(i) }
<1>5. \A i \in 0 .. n : i \in good
    <2>1. 0 \in good
        BY <1>1, <1>3
    <2>2. ASSUME NEW i \in 1 .. n, i - 1 \in good
          PROVE  i \in good
        <3> HIDE DEF Good
        <3>1. Good(i)
            BY <1>4, <2>2
        <3> QED BY <1>1, <3>1
    <2> HIDE DEF good
    <2> QED BY <1>1, <2>1, <2>2, UpTo
<1>6. Good(n) /\ v[n] \in State(table)
    <2>1. n \in 0 .. n
        BY <1>1
    <2> HIDE DEF Good
    <2> QED BY <1>1, <1>5, <2>1
<1>7. \A b \in both : Direct(table, v[n], b)
    BY <1>1, <1>6
<1> QED BY <1>2, <1>6, <1>7 DEF n

\* The loop begins as it goes on.
LEMMA InitialLoop ==
    ASSUME NEW table, NEW D, IsTable(table, D)
    PROVE  /\ LoopInv(table, D, Initial(table))
           /\ Initial(table).analysed = {}
           /\ Len(Initial(table).queue) <= Cardinality(DOMAIN table.far)
<1> DEFINE A == DOMAIN table.far
           both == DOMAIN table.near \cap A
           n == Cardinality(both)
           s == Initial(table)
<1>1. /\ s \in State(table) /\ Begun(table, s, n)
      /\ \A b \in both : Direct(table, s, b)
    BY VisitedBegun
<1> HIDE DEF s
<1>2. D \in Nat /\ UINT_MAX \in Nat /\ D < UINT_MAX /\ Cardinality(A) \in Nat
    BY NearIsSmall
<1>3. s.analysed = {} /\ Analyses(s) = 0
    BY <1>1, FS_EmptySet DEF Begun, Analyses
<1>4. Reach(D, Analyses(s) + 1) = D
    BY <1>2, <1>3 DEF Reach
<1>5. n <= Cardinality(A) /\ Len(s.queue) = n
    <2>1. both \in SUBSET A
        OBVIOUS
    <2>2. IsFiniteSet(A)
        BY DEF IsTable
    <2> QED BY <1>1, <2>1, <2>2, FS_Subset DEF Begun
<1>6. \A x \in A : Direct(table, s, x) => /\ s.distance[x] \in 0 .. D
                                          /\ s.distance[x] # UINT_MAX
    <2> SUFFICES ASSUME NEW x \in A, Direct(table, s, x)
                 PROVE  s.distance[x] \in 0 .. D /\ s.distance[x] # UINT_MAX
        OBVIOUS
    <2>1. s.distance[x] \in 0 .. D
        BY DEF Direct, IsTable
    <2> QED BY <1>2, <2>1
<1>7. QueueBounded(D, s)
    <2> SUFFICES ASSUME NEW e \in Elements(s.queue)
                 PROVE  s.distance[e.address] <= e.distance /\ e.distance <= D
        BY <1>4 DEF QueueBounded
    <2>1. Direct(table, s, e.address) /\ e.distance = s.distance[e.address]
        BY <1>1 DEF Begun
    <2>2. s.distance[e.address] \in 0 .. D
        BY <2>1 DEF Direct, IsTable
    <2> QED BY <1>2, <2>1, <2>2
<1>8. Waiting(table, s)
    BY <1>1 DEF Waiting, Begun, Direct, Unreached
<1>9. AnalysedNear(D, s)
    BY <1>3 DEF AnalysedNear
<1>10. DirectAtMost(table, s)
    <2> SUFFICES ASSUME NEW b \in both
                 PROVE  s.distance[b] <= table.near[b].distance
        BY DEF DirectAtMost
    <2>1. s.distance[b] = table.near[b].distance /\ s.distance[b] \in 0 .. D
        BY <1>1, <1>6 DEF Direct
    <2> QED BY <1>2, <2>1
<1>11. RoutesTraced(table, s)
    <2> SUFFICES ASSUME NEW x \in A
                 PROVE  IF s.distance[x] = UINT_MAX THEN s.through[x] = Nowhere
                        ELSE \E k, p : Traced(table, s, x, k, p)
        BY DEF RoutesTraced
    <2>1. CASE Unreached(s, x)
        BY <2>1 DEF Unreached
    <2>2. CASE Direct(table, s, x)
        <3> DEFINE p == [i \in 1 .. 1 |-> x]
        <3>1. p \in [1 .. 1 -> A] /\ p[1] = x /\ 1 .. (1 - 1) = {}
              /\ \A i, j \in 1 .. 1 : i = j
            OBVIOUS
        <3>2. Traced(table, s, x, 1, p)
            BY <2>2, <3>1 DEF Traced, Direct
        <3> QED BY <1>6, <2>2, <3>2
    <2>3. Direct(table, s, x) \/ Unreached(s, x)
        BY <1>1 DEF Begun
    <2> QED BY <2>1, <2>2, <2>3
<1>12. LoopInv(table, D, s)
    BY <1>1, <1>3, <1>7, <1>8, <1>9, <1>10, <1>11 DEF LoopInv, Sound
<1> QED BY <1>3, <1>5, <1>12 DEF s

-----------------------------------------------------------------------------
\* The turns that are left for so many analysed routers, but for the queue.
Work(n, analysed) == (n - analysed) * n - (n - analysed)

\* The work left gets less with each router that is analysed.
LEMMA Works ==
    ASSUME NEW n \in Nat, NEW m \in 0 .. n
    PROVE  /\ Work(n, m) \in Nat
           /\ m < n => Work(n, m) = Work(n, m + 1) + (n - 1)
           /\ n + Work(n, 0) = n * n
<1>2. Work(n, m) \in Nat
    <2>1. n - m \in Nat
        OBVIOUS
    <2>2. CASE n = 0
        <3>1. m = 0 /\ (0 - 0) * 0 - (0 - 0) = 0
            BY <2>2
        <3> QED BY <2>2, <3>1 DEF Work
    <2>3. CASE n # 0
        <3> DEFINE k == n - m
        <3>1. k \in Nat /\ n - 1 \in Nat /\ n = (n - 1) + 1
            BY <2>3
        <3> HIDE DEF k
        <3>2. k * ((n - 1) + 1) = k * (n - 1) + k /\ k * (n - 1) \in Nat
            BY <3>1
        <3>3. k * n - k = k * (n - 1)
            BY <3>1, <3>2
        <3> QED BY <3>2, <3>3 DEF Work, k
    <2> QED BY <2>2, <2>3
<1>3. m < n => Work(n, m) = Work(n, m + 1) + (n - 1)
    <2> SUFFICES ASSUME m < n
                 PROVE  Work(n, m) = Work(n, m + 1) + (n - 1)
        OBVIOUS
    <2> DEFINE k == n - (m + 1)
    <2>1. k \in Nat /\ n - m = k + 1
        OBVIOUS
    <2> HIDE DEF k
    <2>2. (k + 1) * n = k * n + n /\ k * n \in Nat
        BY <2>1
    <2>3. (k + 1) * n - (k + 1) = (k * n - k) + (n - 1)
        BY <2>1, <2>2
    <2> QED BY <2>1, <2>3 DEF Work, k
<1>4. n + Work(n, 0) = n * n
    <2>1. n * n \in Nat /\ n - 0 = n
        OBVIOUS
    <2>2. Work(n, 0) = n * n - n
        BY <2>1 DEF Work
    <2> QED BY <2>1, <2>2
<1> QED BY <1>2, <1>3, <1>4

\* The loop is over after its turns.
LEMMA Finished ==
    ASSUME NEW table, NEW D, IsTable(table, D)
    PROVE  LET done == Turns(table)[MaxSteps(table)]
           IN  LoopInv(table, D, done) /\ done.queue = <<>>
<1> DEFINE A == DOMAIN table.far
           n == Cardinality(A)
           last == MaxSteps(table)
           turns == Turns(table)
           Left(s) == Len(s.queue) + Work(n, Analyses(s))
           Good(i) == /\ LoopInv(table, D, turns[i])
                      /\ \/ turns[i].queue = <<>>
                         \/ i + Left(turns[i]) <= n * n
<1>1. /\ last \in Nat
      /\ turns[0] = Initial(table)
      /\ \A i \in 1 .. last : turns[i] = NextTurn(table, turns[i - 1])
    BY TurnsSteps
<1>2. n \in Nat /\ last = n * n /\ IsFiniteSet(A)
    BY NearIsSmall DEF MaxSteps, IsTable
<1> HIDE DEF turns, last
<1>3. ASSUME NEW s, LoopInv(table, D, s)
      PROVE  /\ s \in State(table) /\ IsFiniteSet(s.analysed)
             /\ Analyses(s) \in 0 .. n /\ Work(n, Analyses(s)) \in Nat
             /\ Len(s.queue) \in Nat
             /\ s.queue # <<>> => Len(s.queue) # 0
    <2>1. s \in State(table)
        BY <1>3 DEF LoopInv, Sound
    <2>2. IsFiniteSet(s.analysed) /\ Analyses(s) \in Nat /\ Analyses(s) <= n
        BY <2>1, ReachIsSmall
    <2>3. s.queue \in Seq(Entries(A))
        BY <2>1 DEF State
    <2>4. Analyses(s) \in 0 .. n
        BY <1>2, <2>2
    <2> HIDE DEF n
    <2>5. Work(n, Analyses(s)) \in Nat
        BY <1>2, <2>4, Works
    <2> QED BY <2>1, <2>2, <2>3, <2>4, <2>5, EmptySeq, LenProperties
<1>4. Good(0)
    <2> DEFINE s == Initial(table)
    <2>1. /\ LoopInv(table, D, s) /\ Len(s.queue) <= n /\ s.analysed = {}
        BY InitialLoop
    <2> HIDE DEF s
    <2>2. Analyses(s) = 0
        BY <2>1, FS_EmptySet DEF Analyses
    <2>3. Len(s.queue) \in Nat /\ Work(n, 0) \in Nat
        BY <1>3, <2>1, <2>2
    <2> HIDE DEF n
    <2>4. n + Work(n, 0) = n * n
        <3>1. 0 \in 0 .. n
            BY <1>2
        <3> QED BY <1>2, <3>1, Works
    <2>5. 0 + (Len(s.queue) + Work(n, 0)) <= n * n
        BY <1>2, <2>1, <2>3, <2>4
    <2> QED BY <1>1, <2>1, <2>2, <2>5 DEF s
<1>5. ASSUME NEW i \in 1 .. last, Good(i - 1)
      PROVE  Good(i)
    <2> DEFINE s == turns[i - 1]
               t == turns[i]
               a == Head(s.queue).address
    <2>1. i \in Nat /\ i - 1 \in Nat
        BY <1>1
    <2>2. LoopInv(table, D, s) /\ t = NextTurn(table, s)
        BY <1>1, <1>5
    <2>3. s.queue = <<>> \/ (i - 1) + Left(s) <= n * n
        BY <1>5
    <2> HIDE DEF s, t
    <2>4. CASE s.queue = <<>>
        <3>1. t = s
            BY <2>2, <2>4 DEF NextTurn
        <3> QED BY <2>2, <2>4, <3>1 DEF t
    <2>5. CASE s.queue # <<>>
        <3>1. t = Analysed(table, s)
            BY <2>2, <2>5 DEF NextTurn
        <3>2. /\ LoopInv(table, D, t)
              /\ a \in A
              /\ t.analysed = s.analysed \union {a}
              /\ IF a \in s.analysed
                 THEN Len(t.queue) = Len(s.queue) - 1
                 ELSE Len(t.queue) <= Len(s.queue) - 1
                                         + Cardinality(Listed(table, a))
            BY <2>2, <2>5, <3>1, AnalysedLoop
        <3>3. /\ IsFiniteSet(s.analysed)
              /\ Analyses(s) \in 0 .. n /\ Work(n, Analyses(s)) \in Nat
              /\ Len(s.queue) \in Nat
            BY <1>3, <2>2
        <3>4. /\ Analyses(t) \in 0 .. n /\ Work(n, Analyses(t)) \in Nat
              /\ Len(t.queue) \in Nat
            BY <1>3, <3>2
        <3>5. (i - 1) + (Len(s.queue) + Work(n, Analyses(s))) <= n * n
            BY <2>3, <2>5
        <3>6. i + (Len(t.queue) + Work(n, Analyses(t))) <= n * n
            <4>1. CASE a \in s.analysed
                <5>1. Analyses(t) = Analyses(s)
                    <6>1. t.analysed = s.analysed
                        BY <3>2, <4>1
                    <6> QED BY <6>1 DEF Analyses
                <5>2. Len(t.queue) = Len(s.queue) - 1
                    BY <3>2, <4>1
                <5> HIDE DEF n
                <5> QED BY <1>2, <2>1, <3>3, <3>4, <3>5, <5>1, <5>2
            <4>2. CASE a \notin s.analysed
                <5>1. Analyses(t) = Analyses(s) + 1
                    BY <3>2, <3>3, <4>2, FS_AddElement DEF Analyses
                <5>2. /\ Cardinality(Listed(table, a)) \in Nat
                      /\ Cardinality(Listed(table, a)) <= n - 1
                    <6>1. Listed(table, a) \in SUBSET (A \ {a})
                        BY <3>2 DEF Listed, IsTable
                    <6>2. IsFiniteSet(A \ {a}) /\ Cardinality(A \ {a}) = n - 1
                        BY <1>2, <3>2, FS_RemoveElement
                    <6> QED BY <6>1, <6>2, FS_Subset, FS_CardinalityType
                <5>3. Len(t.queue) <= Len(s.queue) - 1
                                         + Cardinality(Listed(table, a))
                    BY <3>2, <4>2
                <5> DEFINE m == Analyses(s)
                <5> HIDE DEF n, m
                <5>4. m \in 0 .. n /\ m < n
                    BY <1>2, <3>3, <3>4, <5>1 DEF m
                <5>5. Work(n, m) = Work(n, m + 1) + (n - 1)
                    BY <1>2, <5>4, Works
                <5>6. Analyses(t) = m + 1 /\ Work(n, m + 1) \in Nat
                    BY <3>4, <5>1 DEF m
                <5>7. (i - 1) + (Len(s.queue) + Work(n, m)) <= n * n
                    BY <3>5 DEF m
                <5>8. n * n \in Nat
                    BY <1>2
                <5> DEFINE total == n * n
                           w == Work(n, m + 1)
                           old == Len(s.queue)
                           new == Len(t.queue)
                           listed == Cardinality(Listed(table, a))
                <5>9. /\ new \in Nat /\ old \in Nat /\ w \in Nat /\ listed \in Nat
                      /\ listed <= n - 1 /\ new <= old - 1 + listed
                      /\ (i - 1) + (old + (w + (n - 1))) <= total
                    BY <3>3, <3>4, <5>2, <5>3, <5>5, <5>6, <5>7
                <5>10. i + (Len(t.queue) + Work(n, Analyses(t))) = i + (new + w)
                    BY <5>6
                <5> HIDE DEF total, w, old, new, listed
                <5>11. total \in Nat
                    BY <5>8 DEF total
                <5>12. i + (new + w) <= total
                    BY <1>2, <2>1, <5>9, <5>11
                <5> QED BY <5>10, <5>12 DEF total
            <4> QED BY <4>1, <4>2
        <3> QED BY <3>2, <3>6 DEF t
    <2> QED BY <2>4, <2>5
<1> DEFINE good == { i \in 0 .. last : Good(i) }
<1>6. \A i \in 0 .. last : i \in good
    <2> HIDE DEF Good
    <2>1. 0 \in good
        BY <1>1, <1>4
    <2>2. ASSUME NEW i \in 1 .. last, i - 1 \in good
          PROVE  i \in good
        <3>1. Good(i)
            BY <1>5, <2>2
        <3> QED BY <1>1, <3>1
    <2> HIDE DEF good
    <2> QED BY <1>1, <2>1, <2>2, UpTo
<1>7. Good(last)
    <2>1. last \in 0 .. last
        BY <1>1
    <2> HIDE DEF Good
    <2> QED BY <1>6, <2>1
<1>8. turns[last].queue = <<>>
    <2> SUFFICES ASSUME turns[last].queue # <<>>
                 PROVE  FALSE
        OBVIOUS
    <2> DEFINE s == turns[last]
    <2>1. last + (Len(s.queue) + Work(n, Analyses(s))) <= n * n
        BY <1>7
    <2>2. Len(s.queue) \in Nat /\ Len(s.queue) # 0 /\ Work(n, Analyses(s)) \in Nat
        BY <1>3, <1>7
    <2> HIDE DEF s, n
    <2>3. n * n \in Nat
        BY <1>2
    <2> QED BY <1>1, <1>2, <2>1, <2>2, <2>3
<1> QED BY <1>7, <1>8 DEF last, turns

-----------------------------------------------------------------------------
\* A path without a cycle has at most as many routers as there are.
LEMMA PathIsShort ==
    ASSUME NEW A, IsFiniteSet(A), NEW n \in Nat, NEW p \in [1 .. n -> A],
           \A i, j \in 1 .. n : p[i] = p[j] => i = j
    PROVE  n <= Cardinality(A)
<1>1. IsFiniteSet(1 .. n) /\ Cardinality(1 .. n) = n
    BY FS_Interval
<1>2. Cardinality(A) \in Nat
    BY FS_CardinalityType
<1>3. ~ (Cardinality(A) < Cardinality(1 .. n))
    BY <1>1, FS_PigeonHole
<1> QED BY <1>1, <1>2, <1>3

\* No path is shorter than the distance that the loop leaves.
LEMMA PathIsLonger ==
    ASSUME NEW table, NEW D, IsTable(table, D), NEW s, LoopInv(table, D, s),
           s.queue = <<>>, NEW k \in Nat \ {0},
           NEW path \in [1 .. k -> DOMAIN table.far], IsPath(table, path)
    PROVE  /\ s.distance[path[k]] \in Nat
           /\ Length(table, path) \in Nat
           /\ s.distance[path[k]] <= Length(table, path)
           /\ s.distance[path[k]] # UINT_MAX
<1> DEFINE A == DOMAIN table.far
           length == LengthAfter(table, path)
           m == Analyses(s)
<1>1. /\ Len(path) = k
      /\ length[0] = table.near[path[1]].distance
      /\ \A i \in 0 .. k - 1 : length[i] \in Nat
      /\ \A i \in 1 .. k - 1 :
            length[i] = length[i - 1] + table.far[path[i]][path[i + 1]]
      /\ Length(table, path) = length[k - 1]
    BY LengthSteps
<1>2. Sound(table, D, s) /\ s \in State(table)
    BY DEF LoopInv, Sound
<1>3. \A x \in A : s.distance[x] \in Nat
    BY <1>2, DistancesOfState
<1>4. /\ m \in Nat /\ Reach(D, m) \in Nat /\ Reach(D, m + 1) = Reach(D, m) + D
      /\ Reach(D, m + 1) < UINT_MAX
    BY <1>2, ReachIsSmall
<1>5. D \in Nat /\ UINT_MAX \in Nat /\ D < UINT_MAX
    BY NearIsSmall
<1>6. \A x \in A : s.distance[x] # UINT_MAX => x \in s.analysed
    BY <1>2, UntouchedState DEF Sound, Waiting
<1> HIDE DEF length, m
<1> DEFINE Good(i) == /\ s.distance[path[i + 1]] <= length[i]
                      /\ s.distance[path[i + 1]] # UINT_MAX
                      /\ path[i + 1] \in s.analysed
<1>7. k - 1 \in Nat /\ 0 \in 0 .. k - 1 /\ 1 \in 1 .. k /\ 0 + 1 = 1
    OBVIOUS
<1>8. Good(0)
    <2>1. path[1] \in A /\ path[1] \in DOMAIN table.near
        BY <1>7 DEF IsPath
    <2>2. s.distance[path[1]] <= table.near[path[1]].distance
        BY <1>2, <2>1 DEF Sound, DirectAtMost
    <2>3. table.near[path[1]].distance \in 0 .. D
        BY <2>1 DEF IsTable
    <2>4. s.distance[path[1]] # UINT_MAX
        BY <1>3, <1>5, <2>1, <2>2, <2>3
    <2> QED BY <1>1, <1>6, <1>7, <2>1, <2>2, <2>4
<1>9. ASSUME NEW i \in 1 .. k - 1, Good(i - 1)
      PROVE  Good(i)
    <2> DEFINE a == path[i]
               b == path[i + 1]
    <2>1. /\ i \in 1 .. k /\ i + 1 \in 1 .. k /\ (i - 1) + 1 = i
          /\ i \in 0 .. k - 1 /\ i - 1 \in 0 .. k - 1
        BY <1>7
    <2>2. a \in A /\ b \in A
        BY <2>1
    <2>3. b \in DOMAIN table.far[a] /\ ~ SameMedium(table, a, b)
        BY <1>1 DEF IsPath
    <2>4. s.distance[a] <= length[i - 1] /\ a \in s.analysed
        BY <1>9, <2>1
    <2>5. length[i] = length[i - 1] + table.far[a][b]
        BY <1>1
    <2> HIDE DEF a, b
    <2>6. s.distance[b] <= s.distance[a] + table.far[a][b]
        <3>1. b \in Listed(table, a)
            BY <2>2, <2>3 DEF Listed
        <3>2. Settled(table, s, a, b)
            BY <2>4, <3>1 DEF LoopInv
        <3> QED BY <2>3, <3>2 DEF Settled
    <2>7. table.far[a][b] \in 0 .. D
        BY <2>2, <2>3 DEF IsTable
    <2>8. s.distance[a] <= Reach(D, m)
        BY <1>2, <2>4 DEF Sound, AnalysedNear, m
    <2>9. /\ s.distance[a] \in Nat /\ s.distance[b] \in Nat
          /\ length[i - 1] \in Nat /\ length[i] \in Nat
        BY <1>1, <1>3, <2>1, <2>2
    <2>10. s.distance[b] <= length[i]
        <3> DEFINE x == s.distance[a]
                   y == s.distance[b]
                   before == length[i - 1]
                   hop == table.far[a][b]
        <3>1. x \in Nat /\ y \in Nat /\ before \in Nat /\ hop \in Nat
            BY <1>5, <2>7, <2>9
        <3>2. x <= before /\ y <= x + hop /\ length[i] = before + hop
            BY <2>4, <2>5, <2>6
        <3> HIDE DEF x, y, before, hop
        <3>3. y <= before + hop
            BY <3>1, <3>2
        <3> QED BY <3>2, <3>3 DEF y
    <2>11. s.distance[b] # UINT_MAX
        <3>1. /\ Reach(D, m) \in Nat /\ Reach(D, m) + D < UINT_MAX
            BY <1>4
        <3>2. table.far[a][b] \in Nat /\ table.far[a][b] <= D
            BY <1>5, <2>7
        <3> QED BY <1>5, <2>6, <2>8, <2>9, <3>1, <3>2
    <2> QED BY <1>6, <2>2, <2>10, <2>11 DEF b
<1> DEFINE good == { i \in 0 .. k - 1 : Good(i) }
<1>10. \A i \in 0 .. k - 1 : i \in good
    <2> HIDE DEF Good
    <2>1. 0 \in good
        BY <1>7, <1>8
    <2>2. ASSUME NEW i \in 1 .. k - 1, i - 1 \in good
          PROVE  i \in good
        <3>1. Good(i)
            BY <1>9, <2>2
        <3> QED BY <1>7, <3>1
    <2> HIDE DEF good
    <2> QED BY <1>7, <2>1, <2>2, UpTo
<1>11. Good(k - 1) /\ k - 1 \in 0 .. k - 1
    <2>1. k - 1 \in 0 .. k - 1
        BY <1>7
    <2> HIDE DEF Good
    <2> QED BY <1>10, <2>1
<1>12. (k - 1) + 1 = k /\ path[k] \in A
    OBVIOUS
<1> QED BY <1>1, <1>3, <1>11, <1>12

\* The path that a route comes from is as long as the distance says.
LEMMA TracedIsPath ==
    ASSUME NEW table, NEW D, IsTable(table, D), NEW s \in State(table),
           NEW a \in DOMAIN table.far, NEW n, NEW p, Traced(table, s, a, n, p)
    PROVE  /\ p \in PathsTo(table, a)
           /\ Length(table, p) = s.distance[a]
           /\ p[1] = s.through[a]
<1> DEFINE A == DOMAIN table.far
<1>1. /\ n \in Nat \ {0} /\ p \in [1 .. n -> A]
      /\ \A i, j \in 1 .. n : p[i] = p[j] => i = j
      /\ p[n] = a /\ p[1] = s.through[a]
    BY DEF Traced
<1>2. n \in 1 .. Cardinality(A)
    <2>1. IsFiniteSet(A) /\ Cardinality(A) \in Nat
        BY FS_CardinalityType DEF IsTable
    <2> HIDE DEF A
    <2>2. n \in Nat /\ n <= Cardinality(A)
        BY <1>1, <2>1, PathIsShort
    <2> QED BY <1>1, <2>1, <2>2
<1>3. Len(p) = n
    BY <1>1
<1>4. IsPath(table, p)
    BY <1>3 DEF IsPath, Traced
<1>5. p \in PathsTo(table, a)
    BY <1>1, <1>2, <1>4 DEF PathsTo
<1> DEFINE length == LengthAfter(table, p)
<1>6. /\ length[0] = table.near[p[1]].distance
      /\ \A i \in 0 .. n - 1 : length[i] \in Nat
      /\ \A i \in 1 .. n - 1 :
            length[i] = length[i - 1] + table.far[p[i]][p[i + 1]]
      /\ Length(table, p) = length[n - 1]
    <2>1. n \in Nat \ {0} /\ p \in [1 .. n -> DOMAIN table.far]
        BY <1>1
    <2> HIDE DEF A
    <2> QED BY <1>4, <2>1, LengthSteps
<1> HIDE DEF length
<1>7. n - 1 \in Nat /\ 0 \in 0 .. n - 1 /\ n - 1 \in 0 .. n - 1 /\ (n - 1) + 1 = n
    BY <1>1
<1> DEFINE good == { i \in 0 .. n - 1 : length[i] = s.distance[p[i + 1]] }
<1>8. \A i \in 0 .. n - 1 : i \in good
    <2>1. 0 \in good
        BY <1>6, <1>7 DEF Traced
    <2>2. ASSUME NEW i \in 1 .. n - 1, i - 1 \in good
          PROVE  i \in good
        <3>1. (i - 1) + 1 = i /\ i \in 0 .. n - 1
            BY <1>7
        <3>2. length[i - 1] = s.distance[p[i]]
            BY <2>2, <3>1
        <3>3. s.distance[p[i + 1]] = s.distance[p[i]] + table.far[p[i]][p[i + 1]]
            BY DEF Traced
        <3> QED BY <1>6, <3>1, <3>2, <3>3
    <2> HIDE DEF good
    <2> QED BY <1>7, <2>1, <2>2, UpTo
<1>9. Length(table, p) = s.distance[a]
    BY <1>1, <1>6, <1>7, <1>8
<1> QED BY <1>1, <1>5, <1>9

(***************************************************************************)
(* update computes the shortest routes through any table, those over a     *)
(* second router on the cable of a neighbour left out (routingtable.cpp    *)
(* 148-211), if no path is as long as the unsigned distances go.           *)
(***************************************************************************)
THEOREM UpdateIsShortest ==
    ASSUME NEW table, NEW D, IsTable(table, D)
    PROVE  AreShortest(table, Update(table))
<1> DEFINE A == DOMAIN table.far
           s == Turns(table)[MaxSteps(table)]
           found == Update(table)
<1>1. LoopInv(table, D, s) /\ s.queue = <<>>
    BY Finished
<1>2. \A a \in A : /\ found.distance[a] = s.distance[a]
                   /\ found.through[a] = s.through[a]
    BY DEF Update
<1> HIDE DEF s, found
<1>3. Sound(table, D, s) /\ s \in State(table)
    BY <1>1 DEF LoopInv, Sound
<1> SUFFICES ASSUME NEW a \in A
             PROVE  LET paths == PathsTo(table, a)
                    IN  IF paths = {}
                        THEN s.distance[a] = UINT_MAX /\ s.through[a] = Nowhere
                        ELSE /\ \E p \in paths : /\ Length(table, p) = s.distance[a]
                                                 /\ p[1] = s.through[a]
                             /\ \A p \in paths : Length(table, p) >= s.distance[a]
    BY <1>2 DEF AreShortest, found
<1> DEFINE paths == PathsTo(table, a)
<1>4. ASSUME s.distance[a] # UINT_MAX
      PROVE  \E p \in paths : /\ Length(table, p) = s.distance[a]
                              /\ p[1] = s.through[a]
    <2>1. PICK n, p : Traced(table, s, a, n, p)
        BY <1>3, <1>4 DEF Sound, RoutesTraced
    <2> QED BY <1>3, <2>1, TracedIsPath
<1>5. ASSUME NEW p \in paths
      PROVE  s.distance[a] # UINT_MAX /\ Length(table, p) >= s.distance[a]
    <2>1. PICK n \in 1 .. Cardinality(A) : /\ p \in [1 .. n -> A]
                                           /\ p[n] = a
                                           /\ IsPath(table, p)
        BY DEF PathsTo
    <2>2. n \in Nat \ {0}
        BY <2>1, NearIsSmall
    <2>3. /\ s.distance[p[n]] \in Nat
          /\ Length(table, p) \in Nat
          /\ s.distance[p[n]] <= Length(table, p)
          /\ s.distance[p[n]] # UINT_MAX
        BY <1>1, <2>1, <2>2, PathIsLonger
    <2> QED BY <2>1, <2>3
<1>6. s.distance[a] = UINT_MAX => s.through[a] = Nowhere
    BY <1>3 DEF Sound, RoutesTraced
<1> HIDE DEF paths
<1>7. CASE paths = {}
    BY <1>4, <1>6, <1>7 DEF paths
<1>8. CASE paths # {}
    BY <1>4, <1>5, <1>8 DEF paths
<1> QED BY <1>7, <1>8

-----------------------------------------------------------------------------
(***************************************************************************)
(* The tables of the routers: every distance in them was measured.         *)
(***************************************************************************)

ScenarioKept ==
    /\ {"answers", "lists", "packets", "changes", "distances"}
           \subseteq DOMAIN scenario
    /\ \E sc \in Scenarios : scenario.distances = sc.distances

HeardMeasured ==
    \A r \in Routers : \A s \in DOMAIN heard[r] :
        s[2] # r /\ heard[r][s] \in scenario.distances

NearMeasured ==
    \A r \in Routers : \A b \in DOMAIN near[r] :
        near[r][b].distance \in scenario.distances

IsMeasured(a, list) ==
    /\ DOMAIN list \subseteq Routers \ {a}
    /\ \A b \in DOMAIN list : list[b] \in scenario.distances

ListsMeasured ==
    \A a \in Routers : \A i \in 1 .. Len(lists[a]) : IsMeasured(a, lists[a][i])

Measurements == ScenarioKept /\ HeardMeasured /\ NearMeasured /\ ListsMeasured

\* A finite set of numbers has a greatest one.
LEMMA GreatestNumber ==
    ASSUME NEW S \in SUBSET Nat, IsFiniteSet(S), S # {}
    PROVE  \E n \in S : \A k \in S : ~ (n < k)
<1> DEFINE above(a) == { b \in S : a < b }
           counts == { Cardinality(above(a)) : a \in S }
<1>1. \A a \in S : IsFiniteSet(above(a)) /\ Cardinality(above(a)) \in Nat
    <2> SUFFICES ASSUME NEW a \in S
                 PROVE  IsFiniteSet(above(a)) /\ Cardinality(above(a)) \in Nat
        OBVIOUS
    <2>1. above(a) \in SUBSET S
        OBVIOUS
    <2> QED BY <2>1, FS_Subset, FS_CardinalityType
<1>2. PICK n \in counts : \A k \in counts : ~ (k < n)
    <2> HIDE DEF above
    <2>1. counts \subseteq Nat /\ counts # {}
        BY <1>1
    <2> HIDE DEF counts
    <2> QED BY <2>1, LeastNumber
<1>3. PICK a \in S : Cardinality(above(a)) = n
    BY <1>2
<1>4. ASSUME NEW k \in S, a < k
      PROVE  FALSE
    <2>1. k \in above(a) /\ k \notin above(k)
        BY <1>4
    <2>2. ASSUME NEW b \in above(k)
          PROVE  b \in above(a)
        <3>1. b \in Nat /\ k \in Nat /\ a \in Nat /\ k < b /\ b \in S
            OBVIOUS
        <3> QED BY <1>4, <3>1
    <2> HIDE DEF above
    <2>3. above(k) \in SUBSET above(a)
        BY <2>2
    <2>4. Cardinality(above(k)) <= n /\ Cardinality(above(k)) # n
        BY <1>1, <1>3, <2>1, <2>3, FS_Subset
    <2>5. Cardinality(above(k)) \in counts /\ Cardinality(above(k)) \in Nat
        BY <1>1
    <2>6. n \in Nat
        BY <1>1, <1>3
    <2> QED BY <1>2, <2>4, <2>5, <2>6
<1> QED BY <1>4

\* A list tells what was heard.
LEMMA ListIsHeard ==
    ASSUME NEW map, DOMAIN map \subseteq Stations
    PROVE  \A b \in DOMAIN DistanceMap(map) :
              \E s \in DOMAIN map : s[2] = b /\ DistanceMap(map)[b] = map[s]
<1> SUFFICES ASSUME NEW b \in DOMAIN DistanceMap(map)
             PROVE  \E s \in DOMAIN map : s[2] = b /\ DistanceMap(map)[b] = map[s]
    OBVIOUS
<1> DEFINE packed == Packed(DOMAIN map)
           Latest(s) == s[2] = b /\ \A t \in packed : t[2] = b => ~ Before(s, t)
           cables == { c \in Cables : <<c, b>> \in packed }
<1>1. packed \subseteq DOMAIN map
    BY DEF Packed
<1> HIDE DEF packed
<1>2. DOMAIN DistanceMap(map) = { s[2] : s \in packed }
    BY DEF DistanceMap, packed
<1>3. cables \in SUBSET Nat /\ IsFiniteSet(cables) /\ cables # {}
    <2>1. PICK s \in packed : s[2] = b
        BY <1>2
    <2>2. s = <<s[1], b>> /\ s[1] \in Cables
        BY <1>1, <2>1 DEF Stations
    <2>3. cables \in SUBSET Cables /\ cables # {}
        BY <2>1, <2>2
    <2> QED BY <2>3, RoutesAssumption, FS_Subset
<1>4. PICK c \in cables : \A k \in cables : ~ (c < k)
    BY <1>3, GreatestNumber
<1>5. Latest(<<c, b>>)
    <2> SUFFICES ASSUME NEW t \in packed, t[2] = b
                 PROVE  ~ Before(<<c, b>>, t)
        OBVIOUS
    <2>1. t = <<t[1], b>> /\ t[1] \in Cables /\ b \in Routers
        BY <1>1 DEF Stations
    <2>2. t[1] \in cables /\ b \in Nat
        BY <2>1, RoutesAssumption
    <2> QED BY <1>3, <1>4, <2>1, <2>2 DEF Before
<1> DEFINE station == CHOOSE s \in packed : Latest(s)
<1>6. station \in packed /\ Latest(station)
    <2>1. \E s \in packed : Latest(s)
        BY <1>5
    <2> HIDE DEF Latest
    <2> QED BY <2>1
<1>7. DistanceMap(map)[b] = map[station]
    BY <1>2 DEF DistanceMap, packed
<1> HIDE DEF station
<1> QED BY <1>1, <1>6, <1>7

\* A list tells distances that were measured, and none to its sender.
LEMMA ListIsMeasured ==
    ASSUME Inv, HeardMeasured, NEW r \in Routers
    PROVE  IsMeasured(r, DistanceMap(heard[r]))
<1> DEFINE list == DistanceMap(heard[r])
<1>1. DOMAIN heard[r] \subseteq Stations
    BY DEF Inv, MapsOfNeighbours
<1>2. \A b \in DOMAIN list :
         \E s \in DOMAIN heard[r] : s[2] = b /\ list[b] = heard[r][s]
    BY <1>1, ListIsHeard
<1> HIDE DEF list
<1>3. ASSUME NEW b \in DOMAIN list
      PROVE  b \in Routers \ {r} /\ list[b] \in scenario.distances
    <2>1. PICK s \in DOMAIN heard[r] : s[2] = b /\ list[b] = heard[r][s]
        BY <1>2
    <2>2. b \in Routers
        BY <1>1, <2>1 DEF Stations
    <2> QED BY <2>1, <2>2 DEF HeardMeasured
<1> QED BY <1>3 DEF IsMeasured, list

\* Round 1 has measured everything that it knows.
LEMMA InitMeasurements == Init => Measurements
<1> SUFFICES ASSUME Init
             PROVE  Measurements
    OBVIOUS
<1>1. ScenarioKept
    <2>1. scenario \in Scenarios /\ scenario \in Scenario
        BY RoutesAssumption DEF Init
    <2> QED BY <2>1 DEF ScenarioKept, Scenario
<1>2. CASE RoundZero
    BY <1>1, <1>2 DEF RoundZero, Measurements, HeardMeasured, NearMeasured,
                      ListsMeasured
<1>3. CASE RoundOne
    <2>1. PICK measured \in
            [{ l \in Stations \X Routers : l[1] \in Audible(attached, l[2]) }
                -> scenario.distances] :
            heard = [r \in Routers |->
                        [s \in Audible(attached, r) |-> measured[<<s, r>>]]]
        BY <1>3 DEF RoundOne
    <2>2. \A r \in Routers : DOMAIN heard[r] = Audible(attached, r)
        BY <2>1
    <2>3. HeardMeasured
        <3> SUFFICES ASSUME NEW r \in Routers, NEW s \in Audible(attached, r)
                     PROVE  s[2] # r /\ heard[r][s] \in scenario.distances
            BY <2>2 DEF HeardMeasured
        <3>1. s \in Stations /\ s[2] # r
            BY DEF Audible
        <3>2. <<s, r>> \in { l \in Stations \X Routers :
                                l[1] \in Audible(attached, l[2]) }
            BY <3>1
        <3>3. heard[r][s] = measured[<<s, r>>]
            BY <2>1
        <3> QED BY <2>1, <3>1, <3>2, <3>3
    <2>4. /\ near = [r \in Routers |-> FirstHeard(heard[r])]
          /\ lists = [r \in Routers |-> <<DistanceMap(heard[r])>>]
        BY <1>3 DEF RoundOne
    <2>5. Inv
        BY InitInv
    <2>6. NearMeasured
        <3> SUFFICES ASSUME NEW r \in Routers, NEW b \in DOMAIN near[r]
                     PROVE  near[r][b].distance \in scenario.distances
            BY DEF NearMeasured
        <3>1. near[r] = FirstHeard(heard[r]) /\ DOMAIN heard[r] \subseteq Stations
            BY <2>4, <2>5 DEF Inv, MapsOfNeighbours
        <3> DEFINE s == <<near[r][b].cable, b>>
        <3>2. s \in DOMAIN heard[r] /\ near[r][b].distance = heard[r][s]
            BY <3>1, FirstHeardIsHeard
        <3> HIDE DEF s
        <3> QED BY <2>3, <3>2 DEF HeardMeasured
    <2>7. ListsMeasured
        <3> SUFFICES ASSUME NEW a \in Routers, NEW i \in 1 .. Len(lists[a])
                     PROVE  IsMeasured(a, lists[a][i])
            BY DEF ListsMeasured
        <3> DEFINE list == DistanceMap(heard[a])
        <3>1. IsMeasured(a, list)
            BY <2>3, <2>5, ListIsMeasured
        <3> HIDE DEF list
        <3>2. lists[a] = <<list>>
            BY <2>4 DEF list
        <3>3. i = 1 /\ lists[a][1] = list
            BY <3>2
        <3> QED BY <3>1, <3>3
    <2> QED BY <1>1, <2>3, <2>6, <2>7 DEF Measurements
<1> QED BY <1>2, <1>3 DEF Init

\* The bounds of a behaviour are used up; what it may measure stays.
LEMMA UseKeeps ==
    ASSUME ScenarioKept, NEW what \in {"answers", "lists", "packets", "changes"},
           Use(what)
    PROVE  ScenarioKept' /\ scenario'.distances = scenario.distances
<1>1. scenario' = [scenario EXCEPT ![what] = scenario[what] - 1]
    BY DEF Use
<1>2. "distances" \in DOMAIN scenario /\ what # "distances"
    BY DEF ScenarioKept
<1>3. scenario'.distances = scenario.distances
    BY <1>1, <1>2
<1>4. DOMAIN scenario' = DOMAIN scenario
    BY <1>1
<1> QED BY <1>3, <1>4 DEF ScenarioKept

\* What is left of the neighbours was measured before,
LEMMA ForgettingMeasured ==
    ASSUME Inv, Measurements, NEW r \in Routers,
           NEW gone, gone \subseteq DOMAIN heard[r], RemoveNeighbours(r, gone),
           ScenarioKept', scenario'.distances = scenario.distances,
           lists' = lists
    PROVE  Measurements'
<1>1. /\ \A q \in Routers : DOMAIN heard'[q] \subseteq DOMAIN heard[q]
      /\ \A q \in Routers \ {r} : heard'[q] = heard[q] /\ near'[q] = near[q]
      /\ \A b \in DOMAIN near'[r] :
            b \in DOMAIN near[r] /\ near'[r][b] = near[r][b]
    BY ForgettingStep
<1>2. \A s \in DOMAIN heard'[r] : heard'[r][s] = heard[r][s]
    <2>1. heard'[r] = Restrict(heard[r], DOMAIN heard[r] \ gone)
        BY DEF RemoveNeighbours, Inv, MapsOfNeighbours
    <2> QED BY <2>1 DEF Restrict
<1>3. HeardMeasured'
    BY <1>1, <1>2 DEF Measurements, HeardMeasured
<1>4. NearMeasured'
    BY <1>1 DEF Measurements, NearMeasured
<1>5. ListsMeasured'
    BY DEF Measurements, ListsMeasured, IsMeasured
<1> QED BY <1>3, <1>4, <1>5 DEF Measurements

\* what an answer adds is measured now,
LEMMA AnswerMeasured ==
    ASSUME Inv, Measurements, NEW r \in Routers, NEW c \in Cables,
           NEW b \in Routers, ParseHelloAnswer(r, c, b)
    PROVE  Measurements'
<1>1. PICK distance \in scenario.distances : AddNeighbour(r, <<c, b>>, distance)
    BY DEF ParseHelloAnswer
<1>2. ScenarioKept' /\ scenario'.distances = scenario.distances
    <2>1. Use("answers")
        BY DEF ParseHelloAnswer
    <2> QED BY <2>1, UseKeeps DEF Measurements
<1>3. r # b /\ lists' = lists
    BY DEF ParseHelloAnswer
<1> DEFINE heardHere == [t \in DOMAIN heard[r] \union {<<c, b>>} |->
                            IF t = <<c, b>> THEN distance ELSE heard[r][t]]
           nearHere == [a \in DOMAIN near[r] \union {b} |->
                           IF a \in DOMAIN near[r] THEN near[r][a]
                           ELSE [cable |-> c, distance |-> distance]]
<1>4. /\ heard' = [heard EXCEPT ![r] = heardHere]
      /\ near' = [near EXCEPT ![r] = nearHere]
    BY <1>1 DEF AddNeighbour
<1>5. \A t \in DOMAIN heardHere :
         \/ t = <<c, b>> /\ heardHere[t] = distance
         \/ t \in DOMAIN heard[r] /\ heardHere[t] = heard[r][t]
    OBVIOUS
<1>6. \A a \in DOMAIN nearHere :
         \/ nearHere[a] = [cable |-> c, distance |-> distance]
         \/ a \in DOMAIN near[r] /\ nearHere[a] = near[r][a]
    OBVIOUS
<1> HIDE DEF heardHere, nearHere
<1>7. /\ heard'[r] = heardHere /\ near'[r] = nearHere
      /\ \A q \in Routers \ {r} : heard'[q] = heard[q] /\ near'[q] = near[q]
    BY <1>4 DEF Inv, MapsOfNeighbours
<1>8. HeardMeasured'
    <2> SUFFICES ASSUME NEW q \in Routers, NEW s \in DOMAIN heard'[q]
                 PROVE  s[2] # q /\ heard'[q][s] \in scenario.distances
        BY <1>2 DEF HeardMeasured
    <2>1. CASE q = r
        BY <1>3, <1>5, <1>7, <2>1 DEF Measurements, HeardMeasured
    <2>2. CASE q # r
        BY <1>7, <2>2 DEF Measurements, HeardMeasured
    <2> QED BY <2>1, <2>2
<1>9. NearMeasured'
    <2> SUFFICES ASSUME NEW q \in Routers, NEW a \in DOMAIN near'[q]
                 PROVE  near'[q][a].distance \in scenario.distances
        BY <1>2 DEF NearMeasured
    <2>1. CASE q = r
        BY <1>6, <1>7, <2>1 DEF Measurements, NearMeasured
    <2>2. CASE q # r
        BY <1>7, <2>2 DEF Measurements, NearMeasured
    <2> QED BY <2>1, <2>2
<1>10. ListsMeasured'
    BY <1>2, <1>3 DEF Measurements, ListsMeasured, IsMeasured
<1> QED BY <1>2, <1>8, <1>9, <1>10 DEF Measurements

\* and what is sent was heard.
LEMMA SentMeasured ==
    ASSUME Inv, Types, Measurements, NEW r \in Routers, SendNeighboursList(r)
    PROVE  Measurements'
<1> USE DEF tables
<1>1. ScenarioKept' /\ scenario'.distances = scenario.distances
    <2>1. Use("lists")
        BY DEF SendNeighboursList
    <2> QED BY <2>1, UseKeeps DEF Measurements
<1>2. /\ lists' = [lists EXCEPT ![r] = Append(lists[r], DistanceMap(heard[r]))]
      /\ UNCHANGED <<heard, near>>
    BY DEF SendNeighboursList
<1>3. /\ lists'[r] = Append(lists[r], DistanceMap(heard[r]))
      /\ \A a \in Routers \ {r} : lists'[a] = lists[a]
    BY <1>2 DEF Types, ListsType
<1> DEFINE list == DistanceMap(heard[r])
<1>4. IsMeasured(r, list)
    BY ListIsMeasured DEF Measurements
<1> HIDE DEF list
<1>5. ASSUME NEW a \in Routers, NEW i \in 1 .. Len(lists'[a])
      PROVE  IsMeasured(a, lists'[a][i])
    <2>1. CASE a = r /\ i = Len(lists[r]) + 1
        <3>1. lists'[r][i] = list
            BY <1>3, <2>1, AppendedList DEF Types, ListsType, IsList, list
        <3> QED BY <1>4, <2>1, <3>1
    <2>2. CASE a = r /\ i # Len(lists[r]) + 1
        <3>1. IsList(lists[r])
            BY DEF Types, ListsType
        <3>2. /\ i \in 1 .. Len(lists[r]) /\ lists'[r][i] = lists[r][i]
            BY <1>3, <2>2, <3>1 DEF IsList
        <3> QED BY <2>2, <3>2 DEF Measurements, ListsMeasured
    <2>3. CASE a # r
        BY <1>3, <2>3 DEF Measurements, ListsMeasured
    <2> QED BY <2>1, <2>2, <2>3
<1>6. ListsMeasured'
    BY <1>1, <1>5 DEF ListsMeasured, IsMeasured
<1>7. HeardMeasured' /\ NearMeasured'
    BY <1>1, <1>2 DEF Measurements, HeardMeasured, NearMeasured
<1> QED BY <1>1, <1>6, <1>7 DEF Measurements

\* No step makes up a distance.
LEMMA NextMeasurements ==
    ASSUME Inv, Types, Measurements, [Next]_vars
    PROVE  Measurements'
<1> USE DEF tables, traffic
<1>1. ASSUME UNCHANGED <<heard, near, lists>>, ScenarioKept',
             scenario'.distances = scenario.distances
      PROVE  Measurements'
    BY <1>1 DEF Measurements, HeardMeasured, NearMeasured, ListsMeasured,
                IsMeasured
<1>2. ASSUME UNCHANGED <<heard, near, lists, scenario>>
      PROVE  Measurements'
    BY <1>1, <1>2 DEF Measurements, ScenarioKept
<1>3. ASSUME UNCHANGED <<heard, near, lists>>,
             Use("packets") \/ Use("changes")
      PROVE  Measurements'
    BY <1>1, <1>3, UseKeeps DEF Measurements
<1>4. CASE UNCHANGED vars
    BY <1>2, <1>4 DEF vars
<1>5. ASSUME NEW r \in Routers, NEW c \in Cables, AppendConnection(r, c)
      PROVE  Measurements'
    BY <1>3, <1>5 DEF AppendConnection
<1>6. ASSUME NEW r \in Routers, NEW gone, gone \subseteq DOMAIN heard[r],
             RemoveNeighbours(r, gone), Use("changes"), lists' = lists
      PROVE  Measurements'
    <2>1. ScenarioKept' /\ scenario'.distances = scenario.distances
        BY <1>6, UseKeeps DEF Measurements
    <2> QED BY <1>6, <2>1, ForgettingMeasured
<1>7. ASSUME NEW r \in Routers, NEW c \in Cables, RemoveConnection(r, c)
      PROVE  Measurements'
    <2> DEFINE gone == { s \in DOMAIN heard[r] : s[1] = c }
    <2>1. RemoveNeighbours(r, gone) /\ Use("changes") /\ lists' = lists
        BY <1>7 DEF RemoveConnection
    <2>2. gone \subseteq DOMAIN heard[r]
        OBVIOUS
    <2> HIDE DEF gone
    <2> QED BY <1>6, <2>1, <2>2
<1>8. ASSUME NEW r \in Routers, RemoveOldNeighbours(r)
      PROVE  Measurements'
    BY <1>6, <1>8 DEF RemoveOldNeighbours
<1>9. ASSUME NEW r \in Routers, NEW c \in Cables, NEW b \in Routers,
             ParseHelloAnswer(r, c, b)
      PROVE  Measurements'
    BY <1>9, AnswerMeasured
<1>10. ASSUME NEW r \in Routers, SendNeighboursList(r)
       PROVE  Measurements'
    BY <1>10, SentMeasured
<1>11. ASSUME NEW r \in Routers, NEW a \in Routers, NEW n \in 1 .. Len(lists[a]),
              UpdateRouterInfo(r, a, n)
       PROVE  Measurements'
    BY <1>2, <1>11 DEF UpdateRouterInfo
<1>12. ASSUME NEW r \in Routers, NEW d \in Routers, Send(r, d)
       PROVE  Measurements'
    BY <1>3, <1>12 DEF Send
<1>13. ASSUME NEW r \in Routers, Expire(r) \/ Receive(r)
       PROVE  Measurements'
    BY <1>2, <1>3, <1>13 DEF Expire, Receive
<1>14. ASSUME NEW f \in frames, ParseIP(f) \/ Lose(f)
       PROVE  Measurements'
    BY <1>2, <1>14 DEF ParseIP, Lose
<1> QED BY <1>4, <1>5, <1>7, <1>8, <1>9, <1>10, <1>11, <1>12, <1>13, <1>14 DEF Next

-----------------------------------------------------------------------------
\* Every table that update is given is one it computes the shortest routes for.
LEMMA TableIsKnown ==
    ASSUME NoOverflow, ListsType, ScenarioKept, ListsMeasured,
           NEW r \in Routers, NEW n,
           \A b \in DOMAIN n : n[b].distance \in scenario.distances,
           NEW numbers \in [Routers -> Nat], numbers[r] = 0,
           \A a \in Routers : numbers[a] <= Len(lists[a])
    PROVE  \E D : IsTable(Table(n, numbers), D)
<1> DEFINE table == Table(n, numbers)
           F == DOMAIN table.far
           N == Cardinality(Routers)
<1>1. /\ F = { b \in Routers : numbers[b] > 0 }
      /\ \A a \in F : table.far[a] = lists[a][numbers[a]]
      /\ table.near = n
    BY DEF Table
<1> HIDE DEF table
<1>2. PICK sc \in Scenarios : scenario.distances = sc.distances
    BY DEF ScenarioKept
<1>3. /\ sc.distances \subseteq 0 .. UINT_MAX
      /\ \A d \in sc.distances : N * d < UINT_MAX
      /\ UINT_MAX \in Nat /\ UINT_MAX > 0
    <2>1. sc \in Scenario
        BY <1>2, RoutesAssumption
    <2> QED BY <2>1, UintAssumption DEF Scenario, NoOverflow, UINT_MAX
<1>4. N \in Nat /\ IsFiniteSet(Routers)
    BY RoutesAssumption, FS_CardinalityType
<1>5. PICK D \in Nat : /\ sc.distances \subseteq 0 .. D
                       /\ N * D < UINT_MAX
    <2>1. CASE sc.distances = {}
        <3>1. N * 0 = 0
            BY <1>4
        <3> QED BY <1>3, <2>1, <3>1
    <2>2. CASE sc.distances # {}
        <3>1. IsFiniteSet(0 .. UINT_MAX)
            BY <1>3, FS_Interval
        <3>2. IsFiniteSet(sc.distances) /\ sc.distances \in SUBSET Nat
            BY <1>3, <3>1, FS_Subset
        <3>3. PICK D \in sc.distances : \A k \in sc.distances : ~ (D < k)
            BY <2>2, <3>2, GreatestNumber
        <3>4. \A k \in sc.distances : k \in 0 .. D
            BY <3>2, <3>3
        <3> QED BY <1>3, <3>2, <3>3, <3>4
    <2> QED BY <2>1, <2>2
<1>6. IsFiniteSet(F) /\ Cardinality(F) + 1 <= N /\ Cardinality(F) \in Nat
    <2> DEFINE G == Routers \ {r}
    <2>1. F \subseteq G /\ G \subseteq Routers
        BY <1>1
    <2>2. IsFiniteSet(G) /\ Cardinality(G) = N - 1
        BY <1>4, FS_RemoveElement
    <2> HIDE DEF G
    <2>3. IsFiniteSet(F) /\ Cardinality(F) <= Cardinality(G)
        BY <2>1, <2>2, FS_Subset
    <2>4. Cardinality(F) \in Nat
        BY <2>3, FS_CardinalityType
    <2> QED BY <1>4, <2>2, <2>3, <2>4
<1>7. (Cardinality(F) + 1) * D < UINT_MAX
    <2> DEFINE k == Cardinality(F) + 1
    <2>1. k \in Nat /\ k <= N
        BY <1>6
    <2> HIDE DEF k, N
    <2>2. Reach(D, N) \in Nat /\ Reach(D, k) \in Nat /\ Reach(D, k) <= Reach(D, N)
        BY <1>4, <2>1, Reaches
    <2>3. Reach(D, N) < UINT_MAX
        BY <1>5 DEF Reach
    <2>4. Reach(D, k) < UINT_MAX
        BY <1>3, <2>2, <2>3
    <2> QED BY <2>4 DEF Reach, k
<1>8. F \subseteq Nat \ {Nowhere}
    BY <1>1, RoutesAssumption
<1>9. \A b \in DOMAIN table.near : table.near[b].distance \in 0 .. D
    BY <1>1, <1>2, <1>5
<1>10. ASSUME NEW a \in F, NEW b \in DOMAIN table.far[a]
       PROVE  b # a /\ table.far[a][b] \in 0 .. D
    <2>1. a \in Routers /\ numbers[a] \in Nat /\ numbers[a] > 0
        BY <1>1
    <2>2. Len(lists[a]) \in Nat
        BY <2>1 DEF ListsType, IsList
    <2>3. numbers[a] \in 1 .. Len(lists[a])
        BY <2>1, <2>2
    <2>4. IsMeasured(a, table.far[a])
        BY <1>1, <2>1, <2>3 DEF ListsMeasured
    <2> QED BY <1>2, <1>5, <2>4 DEF IsMeasured
<1> HIDE DEF F
<1>11. IsTable(table, D)
    BY <1>5, <1>6, <1>7, <1>8, <1>9, <1>10 DEF IsTable, F
<1> QED BY <1>11 DEF table

\* removeOld leaves numbers of lists that there are.
LEMMA RemainingNumbers ==
    ASSUME NEW r \in Routers, NEW numbers \in [Routers -> Nat], numbers[r] = 0,
           \A a \in Routers : Len(lists[a]) \in Nat /\ numbers[a] <= Len(lists[a])
    PROVE  LET left == Remaining(numbers)
           IN  /\ left \in [Routers -> Nat] /\ left[r] = 0
               /\ \A a \in Routers : left[a] <= Len(lists[a])
BY DEF Remaining

\* update leaves the shortest routes through the table of its router.
LEMMA UpdatedShortest ==
    ASSUME NoOverflow, Types, Measurements, lists' = lists,
           NEW r \in Routers, near' = [q \in Routers |-> near'[q]],
           \A b \in DOMAIN near'[r] : near'[r][b].distance \in scenario.distances,
           NEW numbers \in [Routers -> Nat], numbers[r] = 0,
           \A a \in Routers : numbers[a] <= Len(lists[a]),
           Updated(r, near'[r], numbers)
    PROVE  \A q \in Routers :
              (number'[q] # number[q] \/ routes'[q] # routes[q])
                  => AreShortest(Table(near[q], number[q])', routes'[q])
<1> DEFINE left == Remaining(numbers)
           table == Table(near'[r], left)
           found == Update(table)
<1>1. /\ number' = [number EXCEPT ![r] = left]
      /\ routes' = [routes EXCEPT ![r] = found]
    BY DEF Updated
<1>2. \A a \in Routers : Len(lists[a]) \in Nat
    BY DEF Types, ListsType, IsList
<1>3. /\ left \in [Routers -> Nat] /\ left[r] = 0
      /\ \A a \in Routers : left[a] <= Len(lists[a])
    BY <1>2, RemainingNumbers
<1> HIDE DEF left
<1>4. \E D : IsTable(table, D)
    BY <1>3, TableIsKnown DEF Types, Measurements
<1> HIDE DEF table
<1>5. AreShortest(table, found)
    BY <1>4, UpdateIsShortest
<1> HIDE DEF found
<1>6. number'[r] = left /\ routes'[r] = found
    BY <1>1 DEF Types, ListsType, RoutesType
<1>7. \A q \in Routers \ {r} : number'[q] = number[q] /\ routes'[q] = routes[q]
    BY <1>1 DEF Types, ListsType, RoutesType
<1>8. Table(near[r], number[r])' = table
    BY <1>6 DEF Table, table
<1>9. AreShortest(Table(near[r], number[r])', routes'[r])
    BY <1>5, <1>6, <1>8
<1> QED BY <1>7, <1>9

\* Only updateRouterInfo and removeOldNeighbours change routes, with update.
LEMMA NextShortest ==
    ASSUME NoOverflow, Inv, Types, Measurements, Measurements', NearType',
           [Next]_vars
    PROVE  \A q \in Routers :
              (number'[q] # number[q] \/ routes'[q] # routes[q])
                  => AreShortest(Table(near[q], number[q])', routes'[q])
<1> USE DEF tables, traffic
<1> DEFINE Goal == \A q \in Routers :
                      (number'[q] # number[q] \/ routes'[q] # routes[q])
                          => AreShortest(Table(near[q], number[q])', routes'[q])
<1>1. ASSUME UNCHANGED <<number, routes>>
      PROVE  Goal
    BY <1>1
<1>2. ASSUME NEW r \in Routers, NEW a \in Routers, NEW n \in 1 .. Len(lists[a]),
             UpdateRouterInfo(r, a, n)
      PROVE  Goal
    <2> HIDE DEF Goal
    <2> DEFINE numbers == [number[r] EXCEPT ![a] = n]
    <2>1. /\ Updated(r, near[r], numbers)
          /\ r # a
          /\ lists' = lists /\ near' = near
        BY <1>2 DEF UpdateRouterInfo
    <2>2. Len(lists[a]) \in Nat
        BY DEF Types, ListsType, IsList
    <2>3. n \in Nat /\ n <= Len(lists[a])
        BY <2>2
    <2>4. number[r] \in [Routers -> Nat]
        BY DEF Types, ListsType
    <2>5. /\ numbers \in [Routers -> Nat]
          /\ numbers[r] = 0
          /\ \A b \in Routers : numbers[b] <= Len(lists[b])
        BY <2>1, <2>3, <2>4 DEF Types, ListsType
    <2> HIDE DEF numbers
    <2>6. /\ near' = [q \in Routers |-> near'[q]]
          /\ \A b \in DOMAIN near'[r] : near'[r][b].distance \in scenario.distances
        BY <2>1 DEF NearType, Measurements, NearMeasured
    <2>7. Updated(r, near'[r], numbers)
        BY <2>1
    <2> QED BY <2>1, <2>5, <2>6, <2>7, UpdatedShortest DEF Goal
<1>3. ASSUME NEW r \in Routers, RemoveOldNeighbours(r)
      PROVE  Goal
    <2> HIDE DEF Goal
    <2>1. Updated(r, near'[r], number[r]) /\ lists' = lists /\ Use("changes")
        BY <1>3 DEF RemoveOldNeighbours
    <2>2. /\ number[r] \in [Routers -> Nat]
          /\ number[r][r] = 0
          /\ \A a \in Routers : number[r][a] <= Len(lists[a])
        BY DEF Types, ListsType
    <2>3. scenario'.distances = scenario.distances
        BY <2>1, UseKeeps DEF Measurements
    <2>4. /\ near' = [q \in Routers |-> near'[q]]
          /\ \A b \in DOMAIN near'[r] : near'[r][b].distance \in scenario.distances
        BY <2>3 DEF NearType, Measurements, NearMeasured
    <2> QED BY <2>1, <2>2, <2>4, UpdatedShortest DEF Goal
<1>4. CASE UNCHANGED vars
    BY <1>1, <1>4 DEF vars
<1>5. CASE Next
    <2>1. \A r \in Routers, c \in Cables, b \in Routers :
              \/ AppendConnection(r, c)
              \/ RemoveConnection(r, c)
              \/ ParseHelloAnswer(r, c, b)
              => UNCHANGED <<number, routes>>
        BY DEF AppendConnection, RemoveConnection, ParseHelloAnswer
    <2>2. \A r, d \in Routers :
              Send(r, d) \/ SendNeighboursList(r) \/ Expire(r) \/ Receive(r)
              => UNCHANGED <<number, routes>>
        BY DEF Send, SendNeighboursList, Expire, Receive
    <2>3. \A f \in frames :
              ParseIP(f) \/ Lose(f) => UNCHANGED <<number, routes>>
        BY DEF ParseIP, Lose
    <2> HIDE DEF Goal
    <2>4. Goal
        BY <1>1, <1>2, <1>3, <1>5, <2>1, <2>2, <2>3 DEF Next
    <2> QED BY <2>4 DEF Goal
<1> QED BY <1>4, <1>5

(***************************************************************************)
(* Whatever update finds in the two maps, it leaves the shortest routes    *)
(* through them (routingtable.h:78, routingtable.cpp:148-211), as long as  *)
(* no path is as long as the unsigned distances go.                        *)
(***************************************************************************)
THEOREM RoutesAreShortest ==
    ASSUME NoOverflow
    PROVE  Spec => ShortestRoutes
<1> DEFINE All == Inv /\ Types /\ Measurements
           Step == \A r \in Routers :
                      (number'[r] # number[r] \/ routes'[r] # routes[r])
                          => AreShortest(Table(near[r], number[r])', routes'[r])
<1>1. Init => All
    BY InitInv, InitTypes, InitMeasurements
<1>2. All /\ [Next]_vars => All'
    BY NextInv, NearStep, ListsStep, TrafficStep, NextMeasurements DEF Types
<1>3. All /\ [Next]_vars => [Step]_vars
    BY <1>2, NextShortest DEF Types
<1>4. Spec => []All
    BY <1>1, <1>2, PTL DEF Spec
<1>5. Spec => [][Step]_vars
    <2> HIDE DEF Step
    <2> QED BY <1>1, <1>2, <1>3, PTL DEF Spec
<1> QED BY <1>5 DEF ShortestRoutes

-----------------------------------------------------------------------------
(***************************************************************************)
(* The tables of all routers, once they agree: what each makes of the      *)
(* latest lists.                                                           *)
(***************************************************************************)
Own(r) == Table(near[r], number[r])

Latest(a) == Last(lists[a])

Agrees(r) ==
    /\ DOMAIN Own(r).far = Routers \ {r}
    /\ \A a \in Routers \ {r} : Own(r).far[a] = Latest(a)
    /\ Own(r).near = near[r]
    /\ DOMAIN near[r] = DOMAIN Latest(r)
    /\ DOMAIN Latest(r) \subseteq Routers \ {r}
    /\ \A b \in DOMAIN Latest(r) : /\ near[r][b].distance = Latest(r)[b]
                                   /\ Latest(r)[b] \in Nat
                                   /\ Latest(r)[b] > 0
    /\ \A a, b \in DOMAIN near[r] : SameMedium(Own(r), a, b) => a = b
    /\ AreShortest(Own(r), routes[r])
    /\ \E D : IsTable(Own(r), D)

\* Tables that agree are all computed from the latest lists.
LEMMA AgreedTables ==
    ASSUME NoOverflow, Inv, Types, Measurements,
           Agreed, PointToPoint, TableIsFresh, NEW r \in Routers
    PROVE  Agrees(r)
<1>1. \A a \in Routers : Len(lists[a]) \in Nat /\ lists[a] # <<>>
    BY DEF Types, ListsType, IsList, Agreed
<1>2. \A a \in Routers : Len(lists[a]) > 0
    <2> SUFFICES ASSUME NEW a \in Routers
                 PROVE  Len(lists[a]) > 0
        OBVIOUS
    <2>1. lists[a] \in Seq({ lists[a][i] : i \in DOMAIN lists[a] })
        BY DEF Types, ListsType, IsList
    <2> DEFINE S == { lists[a][i] : i \in DOMAIN lists[a] }
    <2> HIDE DEF S
    <2>2. lists[a] \in Seq(S) /\ lists[a] # <<>>
        BY <1>1, <2>1 DEF S
    <2> QED BY <2>2, EmptySeq
<1>3. /\ number[r] \in [Routers -> Nat] /\ number[r][r] = 0
      /\ \A a \in Routers : number[r][a] <= Len(lists[a])
      /\ \A a \in Routers \ {r} : number[r][a] = Len(lists[a])
    BY DEF Types, ListsType, Agreed
<1>4. /\ DOMAIN Own(r).far = Routers \ {r}
      /\ \A a \in Routers \ {r} : Own(r).far[a] = Latest(a)
      /\ Own(r).near = near[r]
    <2>1. { b \in Routers : number[r][b] > 0 } = Routers \ {r}
        BY <1>2, <1>3
    <2> QED BY <1>3, <2>1 DEF Own, Table, Latest, Last
<1>5. /\ DOMAIN near[r] = DOMAIN Latest(r)
      /\ \A b \in DOMAIN Latest(r) : near[r][b].distance = Latest(r)[b]
    <2> DEFINE told == [b \in DOMAIN near[r] |-> near[r][b].distance]
    <2>1. told = Latest(r)
        BY DEF TableIsFresh, Latest
    <2>2. DOMAIN told = DOMAIN near[r]
          /\ \A b \in DOMAIN told : told[b] = near[r][b].distance
        OBVIOUS
    <2> HIDE DEF told
    <2> QED BY <2>1, <2>2
<1>6. /\ DOMAIN Latest(r) \subseteq Routers \ {r}
      /\ \A b \in DOMAIN Latest(r) : Latest(r)[b] \in Nat /\ Latest(r)[b] > 0
    <2> DEFINE list == DistanceMap(heard[r])
    <2>1. Latest(r) = list
        BY DEF Agreed, Latest
    <2>2. IsMeasured(r, list)
        BY ListIsMeasured DEF Measurements
    <2>3. DOMAIN heard[r] \subseteq Stations
        BY DEF Inv, MapsOfNeighbours
    <2>4. \A b \in DOMAIN list :
             \E s \in DOMAIN heard[r] : s[2] = b /\ list[b] = heard[r][s]
        BY <2>3, ListIsHeard
    <2> HIDE DEF list
    <2>5. PICK sc \in Scenarios : scenario.distances = sc.distances
        BY DEF Measurements, ScenarioKept
    <2>6. scenario.distances \subseteq Nat
        BY <2>5, RoutesAssumption, UintAssumption DEF Scenario, UINT_MAX
    <2>7. \A b \in DOMAIN list : list[b] \in Nat
        BY <2>2, <2>6 DEF IsMeasured
    <2>8. \A b \in DOMAIN list : list[b] > 0
        BY <2>4 DEF PointToPoint
    <2> QED BY <2>1, <2>2, <2>7, <2>8 DEF IsMeasured
<1>7. ASSUME NEW a \in DOMAIN near[r], NEW b \in DOMAIN near[r],
             SameMedium(Own(r), a, b)
      PROVE  a = b
    <2> DEFINE c == near[r][a].cable
    <2>1. near[r][b].cable = c
        BY <1>4, <1>7 DEF SameMedium
    <2>2. /\ <<c, a>> \in DOMAIN heard[r]
          /\ <<near[r][b].cable, b>> \in DOMAIN heard[r]
        BY DEF Inv, NoDeadCable
    <2> HIDE DEF c
    <2>3. <<c, b>> \in DOMAIN heard[r]
        BY <2>1, <2>2
    <2>4. <<c, b>> = <<c, a>>
        BY <2>2, <2>3 DEF PointToPoint
    <2> QED BY <2>4
<1>8. \E D : IsTable(Own(r), D)
    <2>1. \A b \in DOMAIN near[r] : near[r][b].distance \in scenario.distances
        BY DEF Measurements, NearMeasured
    <2>2. \E D : IsTable(Table(near[r], number[r]), D)
        BY <1>3, <2>1, TableIsKnown DEF Types, Measurements
    <2> QED BY <2>2 DEF Own
<1>9. AreShortest(Own(r), routes[r])
    <2>1. routes[r] = Update(Own(r))
        BY DEF Agreed, Own
    <2> QED BY <1>8, <2>1, UpdateIsShortest
<1> QED BY <1>4, <1>5, <1>6, <1>7, <1>8, <1>9 DEF Agrees

\* Behind its first router, a path of one router is a path of the next one.
LEMMA RestOfPath ==
    ASSUME \A q \in Routers : Agrees(q), NEW r \in Routers, NEW d \in Routers,
           NEW p \in PathsTo(Own(r), d), p[1] # d
    PROVE  LET a == p[1]
           IN  /\ a \in DOMAIN near[r] /\ a \in Routers
               /\ \E q \in PathsTo(Own(a), d) :
                     /\ Length(Own(r), p) = Latest(r)[a] + Length(Own(a), q)
                     /\ Length(Own(a), q) \in Nat
<1> DEFINE a == p[1]
           A == Routers \ {r}
           B == Routers \ {a}
<1>1. /\ DOMAIN Own(r).far = A
      /\ Own(r).near = near[r]
      /\ \A x \in A : Own(r).far[x] = Latest(x)
      /\ DOMAIN near[r] \subseteq A
      /\ \A b \in DOMAIN near[r] : near[r][b].distance = Latest(r)[b]
    BY DEF Agrees
<1>2. PICK n \in 1 .. Cardinality(A) :
          /\ p \in [1 .. n -> A]
          /\ p[n] = d
          /\ \A i, j \in 1 .. n : p[i] = p[j] => i = j
          /\ IsPath(Own(r), p)
    <2> DEFINE F == DOMAIN Own(r).far
    <2>1. PICK n \in 1 .. Cardinality(F) :
              /\ p \in [1 .. n -> F]
              /\ p[n] = d
              /\ \A i, j \in 1 .. n : p[i] = p[j] => i = j
              /\ IsPath(Own(r), p)
        BY DEF PathsTo
    <2>2. F = A
        BY <1>1
    <2> HIDE DEF A, F
    <2> QED BY <2>1, <2>2
<1>3. IsFiniteSet(A) /\ Cardinality(A) \in Nat
    <2>1. IsFiniteSet(A)
        BY RoutesAssumption, FS_RemoveElement
    <2> HIDE DEF A
    <2> QED BY <2>1, FS_CardinalityType
<1>4. n \in Nat \ {0} /\ n # 1 /\ Len(p) = n
    BY <1>2, <1>3
<1> DEFINE m == n - 1
<1>5. /\ m \in Nat \ {0} /\ m + 1 = n /\ 1 \in 1 .. n
      /\ \A i \in 1 .. m : i \in 1 .. n /\ i + 1 \in 1 .. n
    BY <1>4
<1>6. /\ a \in DOMAIN near[r] /\ a \in A
      /\ \A i \in 1 .. m : /\ p[i + 1] \in DOMAIN Latest(p[i])
                           /\ p[i] \in A /\ p[i + 1] \in A
    <2>1. a \in DOMAIN near[r] /\ \A i \in 1 .. m : p[i] \in A /\ p[i + 1] \in A
        BY <1>1, <1>2, <1>5 DEF IsPath
    <2>2. \A i \in 1 .. m : p[i + 1] \in DOMAIN Own(r).far[p[i]]
        BY <1>2, <1>4 DEF IsPath
    <2> QED BY <1>1, <2>1, <2>2
<1> HIDE DEF m
<1> DEFINE q == [i \in 1 .. m |-> p[i + 1]]
<1>7. /\ DOMAIN Own(a).far = B
      /\ Own(a).near = near[a]
      /\ \A x \in B : Own(a).far[x] = Latest(x)
      /\ DOMAIN near[a] = DOMAIN Latest(a)
      /\ \A b \in DOMAIN near[a] : near[a][b].distance = Latest(a)[b]
      /\ \A x, y \in DOMAIN near[a] : SameMedium(Own(a), x, y) => x = y
      /\ \E D : IsTable(Own(a), D)
    BY <1>6 DEF Agrees
<1>8. \A i \in 1 .. m : q[i] = p[i + 1] /\ q[i] \in B
    <2> SUFFICES ASSUME NEW i \in 1 .. m
                 PROVE  p[i + 1] \in Routers /\ p[i + 1] # p[1]
        OBVIOUS
    <2>1. i + 1 \in 1 .. n /\ i + 1 # 1
        BY <1>5
    <2> QED BY <1>2, <1>5, <1>6, <2>1
<1>9. q \in [1 .. m -> B] /\ Len(q) = m
    BY <1>5, <1>8
<1>10. \A i \in 1 .. m : q[i] = p[i + 1]
    BY <1>8
<1>11. q[1] = p[2] /\ q[m] = d
    BY <1>2, <1>5, <1>10
<1> HIDE DEF q, a, B
<1>12. \A i, j \in 1 .. m : q[i] = q[j] => i = j
    <2> SUFFICES ASSUME NEW i \in 1 .. m, NEW j \in 1 .. m, q[i] = q[j]
                 PROVE  i = j
        OBVIOUS
    <2>1. i + 1 = j + 1
        BY <1>2, <1>5, <1>10
    <2> QED BY <1>5, <2>1
<1>13. IsPath(Own(a), q)
    <2>1. q[1] \in DOMAIN Own(a).near
        <3>1. 1 \in 1 .. m /\ 1 + 1 = 2
            BY <1>5
        <3>2. p[2] \in DOMAIN Latest(p[1])
            BY <1>6, <3>1
        <3> QED BY <1>7, <1>11, <3>2 DEF a
    <2>2. ASSUME NEW i \in 1 .. Len(q) - 1
          PROVE  /\ q[i + 1] \in DOMAIN Own(a).far[q[i]]
                 /\ ~ SameMedium(Own(a), q[i], q[i + 1])
        <3>1. i \in 1 .. m /\ i + 1 \in 1 .. m /\ i # i + 1
            BY <1>5, <1>9
        <3>2. q[i + 1] \in DOMAIN Latest(q[i])
            BY <1>6, <1>10, <3>1
        <3>3. Own(a).far[q[i]] = Latest(q[i])
            BY <1>7, <1>9, <3>1
        <3>4. q[i] # q[i + 1]
            BY <1>12, <3>1
        <3> QED BY <1>7, <3>2, <3>3, <3>4 DEF SameMedium
    <2> QED BY <2>1, <2>2 DEF IsPath
<1>14. q \in PathsTo(Own(a), d)
    <2>1. IsFiniteSet(B) /\ Cardinality(B) \in Nat
        <3>1. IsFiniteSet(B)
            BY RoutesAssumption, FS_RemoveElement DEF B
        <3> QED BY <3>1, FS_CardinalityType
    <2>2. m <= Cardinality(B)
        BY <1>5, <1>9, <1>12, <2>1, PathIsShort
    <2>3. m \in 1 .. Cardinality(B)
        BY <1>5, <2>1, <2>2
    <2> QED BY <1>7, <1>9, <1>11, <1>12, <1>13, <2>3 DEF PathsTo
<1> DEFINE whole == LengthAfter(Own(r), p)
           rest == LengthAfter(Own(a), q)
<1>15. /\ whole[0] = Latest(r)[a]
       /\ \A i \in 0 .. n - 1 : whole[i] \in Nat
       /\ \A i \in 1 .. n - 1 : whole[i] = whole[i - 1] + Latest(p[i])[p[i + 1]]
       /\ Length(Own(r), p) = whole[n - 1]
    <2>1. PICK D : IsTable(Own(r), D)
        BY DEF Agrees
    <2>2. p \in [1 .. n -> DOMAIN Own(r).far]
        BY <1>1, <1>2
    <2> HIDE DEF whole, A
    <2>3. /\ whole[0] = Own(r).near[p[1]].distance
          /\ \A i \in 0 .. n - 1 : whole[i] \in Nat
          /\ \A i \in 1 .. n - 1 :
                whole[i] = whole[i - 1] + Own(r).far[p[i]][p[i + 1]]
          /\ Length(Own(r), p) = whole[n - 1]
        <3>1. n \in Nat \ {0} /\ IsPath(Own(r), p)
            BY <1>2, <1>4
        <3> QED BY <2>1, <2>2, <3>1, LengthSteps, ZenonT(40) DEF whole
    <2>4. \A i \in 1 .. n - 1 : Own(r).far[p[i]] = Latest(p[i])
        BY <1>1, <1>6 DEF m
    <2> QED BY <1>1, <1>6, <2>3, <2>4 DEF a
<1>16. /\ rest[0] = Latest(a)[p[2]]
       /\ \A i \in 0 .. m - 1 : rest[i] \in Nat
       /\ \A i \in 1 .. m - 1 :
             rest[i] = rest[i - 1] + Latest(p[i + 1])[p[(i + 1) + 1]]
       /\ Length(Own(a), q) = rest[m - 1]
    <2>1. q \in [1 .. m -> DOMAIN Own(a).far]
        BY <1>7, <1>9
    <2> HIDE DEF rest
    <2>2. /\ rest[0] = Own(a).near[q[1]].distance
          /\ \A i \in 0 .. m - 1 : rest[i] \in Nat
          /\ \A i \in 1 .. m - 1 :
                rest[i] = rest[i - 1] + Own(a).far[q[i]][q[i + 1]]
          /\ Length(Own(a), q) = rest[m - 1]
        <3>1. PICK D : IsTable(Own(a), D)
            BY <1>7
        <3>2. m \in Nat \ {0}
            BY <1>5
        <3> QED BY <1>13, <2>1, <3>1, <3>2, LengthSteps, ZenonT(40) DEF rest
    <2>3. \A i \in 1 .. m - 1 : i \in 1 .. m /\ i + 1 \in 1 .. m
        BY <1>5
    <2>4. \A i \in 1 .. m - 1 :
             Own(a).far[q[i]][q[i + 1]] = Latest(p[i + 1])[p[(i + 1) + 1]]
        BY <1>7, <1>9, <1>10, <2>3
    <2>5. Own(a).near[q[1]].distance = Latest(a)[p[2]]
        BY <1>7, <1>11, <1>13 DEF IsPath
    <2> QED BY <2>2, <2>4, <2>5
<1> HIDE DEF whole, rest
<1> DEFINE start == Latest(r)[a]
           good == { i \in 0 .. m - 1 : whole[i + 1] = start + rest[i] }
<1>17. start \in Nat
    BY <1>4, <1>15
<1>18. \A i \in 0 .. m - 1 : i \in good
    <2> HIDE DEF start
    <2>1. m - 1 \in Nat
        BY <1>5
    <2>2. 0 \in good
        <3>1. 1 \in 1 .. n - 1 /\ 1 - 1 = 0 /\ 1 + 1 = 2 /\ 0 + 1 = 1
            BY <1>5
        <3>2. whole[1] = whole[0] + Latest(p[1])[p[2]]
            BY <1>15, <3>1
        <3> QED BY <1>15, <1>16, <2>1, <3>1, <3>2 DEF a, start
    <2>3. ASSUME NEW i \in 1 .. m - 1, i - 1 \in good
          PROVE  i \in good
        <3>1. /\ i \in 0 .. m - 1 /\ i - 1 \in 0 .. m - 1 /\ i + 1 \in 1 .. n - 1
              /\ (i - 1) + 1 = i /\ (i + 1) - 1 = i
            BY <1>5
        <3>2. whole[i] = start + rest[i - 1]
            BY <2>3, <3>1
        <3> DEFINE hop == Latest(p[i + 1])[p[(i + 1) + 1]]
        <3>3. whole[i + 1] = whole[i] + hop
            BY <1>15, <3>1
        <3>4. rest[i] = rest[i - 1] + hop
            BY <1>16
        <3>5. rest[i] \in Nat /\ rest[i - 1] \in Nat
            BY <1>16, <3>1
        <3>6. whole[i + 1] \in Nat /\ whole[i] \in Nat
            <4>1. i + 1 \in 0 .. n - 1 /\ i \in 0 .. n - 1
                BY <1>5
            <4> QED BY <1>15, <4>1
        <3>7. hop \in Nat
            <4> DEFINE b == p[(i + 1) + 1]
            <4>1. i + 1 \in 1 .. m
                BY <1>5
            <4>2. p[i + 1] \in Routers /\ b \in DOMAIN Latest(p[i + 1])
                BY <1>6, <4>1
            <4> QED BY <4>2 DEF Agrees
        <3> HIDE DEF hop
        <3> QED BY <1>17, <3>1, <3>2, <3>3, <3>4, <3>5, <3>6, <3>7
    <2> HIDE DEF good
    <2> QED BY <2>1, <2>2, <2>3, UpTo
<1>19. Length(Own(r), p) = start + Length(Own(a), q)
    <2>1. m - 1 \in 0 .. m - 1 /\ (m - 1) + 1 = n - 1
        BY <1>5
    <2>2. m - 1 \in good
        BY <1>18, <2>1
    <2> QED BY <1>15, <1>16, <2>1, <2>2
<1>20. Length(Own(a), q) \in Nat
    <2>1. m - 1 \in 0 .. m - 1
        BY <1>5
    <2> QED BY <1>16, <2>1
<1> QED BY <1>6, <1>14, <1>19, <1>20 DEF a

\* The next router on the way has a route, and a shorter one.
LEMMA NextIsNearer ==
    ASSUME \A q \in Routers : Agrees(q), NEW r \in Routers, NEW d \in Routers,
           r # d, routes[r].through[d] # Nowhere
    PROVE  LET a == routes[r].through[d]
           IN  /\ a \in DOMAIN near[r] /\ a \in Routers
               /\ routes[r].distance[d] \in Nat
               /\ a # d => /\ routes[a].through[d] # Nowhere
                           /\ routes[a].distance[d] \in Nat
                           /\ routes[a].distance[d] < routes[r].distance[d]
<1> DEFINE a == routes[r].through[d]
           here == PathsTo(Own(r), d)
           there == PathsTo(Own(a), d)
<1>1. /\ d \in DOMAIN Own(r).far
      /\ AreShortest(Own(r), routes[r])
      /\ \A b \in DOMAIN near[r] : /\ b \in Routers \ {r}
                                   /\ Latest(r)[b] \in Nat /\ Latest(r)[b] > 0
    BY DEF Agrees
<1>2. PICK p \in here : /\ Length(Own(r), p) = routes[r].distance[d]
                        /\ p[1] = a
    BY <1>1 DEF AreShortest
<1>3. a \in DOMAIN near[r] /\ a \in Routers
    <2>1. IsPath(Own(r), p) /\ Own(r).near = near[r]
        BY <1>2 DEF PathsTo, Agrees
    <2> QED BY <1>1, <1>2, <2>1 DEF IsPath
<1>4. routes[r].distance[d] \in Nat
    <2>1. PICK n \in 1 .. Cardinality(DOMAIN Own(r).far) :
              p \in [1 .. n -> DOMAIN Own(r).far]
        BY <1>2 DEF PathsTo
    <2>2. PICK D : IsTable(Own(r), D)
        BY DEF Agrees
    <2>3. n \in Nat \ {0}
        BY <2>1, <2>2, NearIsSmall
    <2>4. IsPath(Own(r), p)
        BY <1>2 DEF PathsTo
    <2>5. /\ Length(Own(r), p) = LengthAfter(Own(r), p)[n - 1]
          /\ \A i \in 0 .. n - 1 : LengthAfter(Own(r), p)[i] \in Nat
        BY <2>1, <2>2, <2>3, <2>4, LengthSteps
    <2>6. n - 1 \in 0 .. n - 1
        BY <2>3
    <2> QED BY <1>2, <2>5, <2>6
<1>5. ASSUME a # d
      PROVE  /\ routes[a].through[d] # Nowhere
             /\ routes[a].distance[d] \in Nat
             /\ routes[a].distance[d] < routes[r].distance[d]
    <2>1. PICK q \in there :
              /\ Length(Own(r), p) = Latest(r)[a] + Length(Own(a), q)
              /\ Length(Own(a), q) \in Nat
        BY <1>2, <1>5, RestOfPath
    <2>2. d \in DOMAIN Own(a).far /\ AreShortest(Own(a), routes[a])
        BY <1>3, <1>5 DEF Agrees
    <2> HIDE DEF a
    <2>3. /\ \E f \in there : /\ Length(Own(a), f) = routes[a].distance[d]
                              /\ f[1] = routes[a].through[d]
          /\ \A f \in there : Length(Own(a), f) >= routes[a].distance[d]
        BY <2>1, <2>2 DEF AreShortest
    <2>4. PICK f \in there : /\ Length(Own(a), f) = routes[a].distance[d]
                             /\ f[1] = routes[a].through[d]
        BY <2>3
    <2>5. routes[a].through[d] # Nowhere
        <3>1. /\ IsPath(Own(a), f) /\ Own(a).near = near[a]
              /\ DOMAIN near[a] \subseteq Routers
            BY <1>3, <2>4 DEF PathsTo, Agrees
        <3>2. f[1] \in Routers
            BY <3>1 DEF IsPath
        <3> QED BY <2>4, <3>2, RoutesAssumption
    <2>6. routes[a].distance[d] \in Nat
        <3>1. PICK n \in 1 .. Cardinality(DOMAIN Own(a).far) :
                  f \in [1 .. n -> DOMAIN Own(a).far]
            BY <2>4 DEF PathsTo
        <3>2. PICK D : IsTable(Own(a), D)
            BY <1>3 DEF Agrees
        <3>3. n \in Nat \ {0}
            BY <3>1, <3>2, NearIsSmall
        <3>4. IsPath(Own(a), f)
            BY <2>4 DEF PathsTo
        <3>5. /\ Length(Own(a), f) = LengthAfter(Own(a), f)[n - 1]
              /\ \A i \in 0 .. n - 1 : LengthAfter(Own(a), f)[i] \in Nat
            BY <3>1, <3>2, <3>3, <3>4, LengthSteps
        <3>6. n - 1 \in 0 .. n - 1
            BY <3>3
        <3> QED BY <2>4, <3>5, <3>6
    <2>7. Latest(r)[a] \in Nat /\ Latest(r)[a] > 0
        BY <1>1, <1>3
    <2>8. Length(Own(a), q) >= routes[a].distance[d]
        BY <2>1, <2>3
    <2>9. routes[r].distance[d] = Latest(r)[a] + Length(Own(a), q)
        BY <1>2, <2>1
    <2>10. routes[a].distance[d] < routes[r].distance[d]
        <3> DEFINE x == routes[a].distance[d]
                   y == routes[r].distance[d]
                   z == Length(Own(a), q)
                   u == Latest(r)[a]
        <3>1. /\ x \in Nat /\ y \in Nat /\ z \in Nat /\ u \in Nat
              /\ u > 0 /\ z >= x /\ y = u + z
            BY <1>4, <2>1, <2>6, <2>7, <2>8, <2>9
        <3> HIDE DEF x, y, z, u
        <3>2. x < y
            BY <3>1
        <3> QED BY <3>2 DEF x, y
    <2> QED BY <2>5, <2>6, <2>10 DEF a
<1> QED BY <1>3, <1>4, <1>5

\* The way of a packet, router by router.
NextHop(d, x) ==
    IF x \in {d, Nowhere} THEN x
    ELSE IF routes[x].through[d] \in DOMAIN near[x]
    THEN routes[x].through[d] ELSE Nowhere

\* Arrives goes the way of the packet hop by hop.
LEMMA WayOfPacket ==
    ASSUME \A q \in Routers : Agrees(q), NEW r \in Routers, NEW d \in Routers
    PROVE  \E way : /\ way[0] = r
                    /\ \A i \in 1 .. Cardinality(Routers) :
                          way[i] = NextHop(d, way[i - 1])
                    /\ way[Cardinality(Routers)] = d => Arrives(r, d)
<1> DEFINE n == Cardinality(Routers)
           X == Routers \union {Nowhere}
           F == [z \in (1 .. n) \X X |-> NextHop(d, z[2])]
           next(a) == IF routes[a].through[d] \in DOMAIN near[a]
                      THEN routes[a].through[d] ELSE Nowhere
           Solves(w) == w = [i \in 0 .. n |->
                                IF i = 0 THEN r
                                ELSE IF w[i - 1] \in {d, Nowhere} THEN w[i - 1]
                                ELSE next(w[i - 1])]
           way == CHOOSE w : Solves(w)
<1>1. n \in Nat
    BY RoutesAssumption, FS_CardinalityType
<1>2. r \in X
    OBVIOUS
<1>3. \A x \in X : NextHop(d, x) \in X
    BY DEF NextHop, Agrees
<1>4. Arrives(r, d) <=> way[n] = d
    BY DEF Arrives
<1> HIDE DEF n, X
<1>5. \A i \in 1 .. n : \A x \in X : F[<<i, x>>] = NextHop(d, x)
    OBVIOUS
<1>6. Makes(F, X, n)
    BY <1>3, <1>5 DEF Makes
<1> HIDE DEF F
<1>7. PICK w : GoesOn(w, X, r, F, n)
    BY <1>1, <1>2, <1>6, Recursion
<1>8. Solves(w)
    <2>1. \A i \in 1 .. n : i - 1 \in 0 .. n
        BY <1>1
    <2>2. \A i \in 0 .. n : i = 0 \/ i \in 1 .. n
        BY <1>1
    <2>3. \A i \in 1 .. n : w[i] = NextHop(d, w[i - 1])
        BY <1>5, <1>7, <2>1 DEF GoesOn
    <2> QED BY <1>7, <2>2, <2>3 DEF GoesOn, NextHop
<1>9. Solves(way)
    <2> HIDE DEF Solves
    <2> QED BY <1>8
<1> HIDE DEF way
<1>10. /\ way[0] = r
       /\ \A i \in 1 .. n : way[i] = NextHop(d, way[i - 1])
    <2>1. 0 \in 0 .. n /\ \A i \in 1 .. n : i \in 0 .. n /\ i # 0
        BY <1>1
    <2> QED BY <1>9, <2>1 DEF NextHop
<1> QED BY <1>4, <1>10 DEF n

\* No packet comes back to a router, so it arrives before the routers end.
LEMMA PacketArrives ==
    ASSUME \A q \in Routers : Agrees(q), NEW r \in Routers, NEW d \in Routers,
           r # d, routes[r].through[d] # Nowhere
    PROVE  Arrives(r, d)
<1> DEFINE n == Cardinality(Routers)
           far(x) == routes[x].distance[d]
<1>1. PICK way : /\ way[0] = r
                 /\ \A i \in 1 .. n : way[i] = NextHop(d, way[i - 1])
                 /\ way[n] = d => Arrives(r, d)
    BY WayOfPacket
<1>2. n \in Nat /\ IsFiniteSet(Routers)
    BY RoutesAssumption, FS_CardinalityType
<1> HIDE DEF n
<1> DEFINE Open(i) == /\ way[i] \in Routers \ {d}
                      /\ routes[way[i]].through[d] # Nowhere
                      /\ far(way[i]) \in Nat
                      /\ \A j \in 0 .. i - 1 : /\ way[j] \in Routers \ {d}
                                               /\ far(way[j]) \in Nat
                                               /\ far(way[i]) < far(way[j])
           Good(i) == way[i] = d \/ Open(i)
<1>3. Good(0)
    BY <1>1, NextIsNearer
<1>4. ASSUME NEW i \in 1 .. n, Good(i - 1)
      PROVE  Good(i)
    <2>1. way[i] = NextHop(d, way[i - 1])
        BY <1>1
    <2>2. CASE way[i - 1] = d
        BY <2>1, <2>2 DEF NextHop
    <2>3. CASE Open(i - 1)
        <3> DEFINE x == way[i - 1]
                   a == routes[x].through[d]
        <3>1. /\ x \in Routers /\ x # d /\ routes[x].through[d] # Nowhere
              /\ far(x) \in Nat
              /\ \A j \in 0 .. (i - 1) - 1 : /\ way[j] \in Routers \ {d}
                                             /\ far(way[j]) \in Nat
                                             /\ far(x) < far(way[j])
            BY <2>3
        <3>2. x # Nowhere
            BY <3>1, RoutesAssumption
        <3>3. /\ a \in DOMAIN near[x] /\ a \in Routers
              /\ a # d => /\ routes[a].through[d] # Nowhere
                          /\ far(a) \in Nat
                          /\ far(a) < far(x)
            BY <3>1, NextIsNearer
        <3>4. way[i] = a
            BY <2>1, <3>1, <3>2, <3>3 DEF NextHop
        <3>5. ASSUME a # d, NEW j \in 0 .. i - 1
              PROVE  /\ way[j] \in Routers \ {d}
                     /\ far(way[j]) \in Nat
                     /\ far(a) < far(way[j])
            <4>1. CASE j = i - 1
                BY <3>1, <3>3, <3>5, <4>1
            <4>2. CASE j # i - 1
                <5> DEFINE u == far(way[j])
                           v == far(x)
                           y == far(a)
                <5>1. j \in 0 .. (i - 1) - 1
                    BY <1>2, <4>2
                <5>2. way[j] \in Routers \ {d} /\ u \in Nat /\ v < u /\ v \in Nat
                    BY <3>1, <5>1
                <5>3. y < v /\ y \in Nat
                    BY <3>3, <3>5
                <5> HIDE DEF u, v, y
                <5>4. y < u
                    BY <5>2, <5>3
                <5> QED BY <5>2, <5>4 DEF u, y
            <4> QED BY <4>1, <4>2
        <3> HIDE DEF x, a
        <3> QED BY <3>3, <3>4, <3>5
    <2> QED BY <1>4, <2>2, <2>3
<1> DEFINE good == { i \in 0 .. n : Good(i) }
<1>5. \A i \in 0 .. n : i \in good
    <2> HIDE DEF Good
    <2>1. 0 \in good
        BY <1>2, <1>3
    <2>2. ASSUME NEW i \in 1 .. n, i - 1 \in good
          PROVE  i \in good
        <3>1. Good(i)
            BY <1>4, <2>2
        <3> QED BY <1>2, <3>1
    <2> HIDE DEF good
    <2> QED BY <1>2, <2>1, <2>2, UpTo
<1>6. \A i \in 0 .. n : Good(i)
    <2> HIDE DEF Good
    <2> QED BY <1>5
<1>7. ASSUME way[n] # d
      PROVE  FALSE
    <2>1. n \in 0 .. n
        BY <1>2
    <2>2. Open(n)
        BY <1>6, <1>7, <2>1
    <2>3. ASSUME NEW i \in 0 .. n
          PROVE  Open(i)
        <3>1. CASE i = n
            BY <2>2, <3>1
        <3>2. CASE i # n
            <4>1. i \in 0 .. n - 1
                BY <1>2, <3>2
            <4>2. way[i] # d
                BY <2>2, <4>1
            <4> QED BY <1>6, <4>2
        <3> QED BY <3>1, <3>2
    <2> DEFINE p == [k \in 1 .. n + 1 |-> way[k - 1]]
    <2>4. \A k \in 1 .. n + 1 : k - 1 \in 0 .. n
        BY <1>2
    <2>5. p \in [1 .. n + 1 -> Routers]
        BY <2>3, <2>4
    <2>6. ASSUME NEW i \in 0 .. n, NEW j \in 0 .. n, i < j
          PROVE  way[i] # way[j]
        <3>1. i \in 0 .. j - 1
            BY <1>2, <2>6
        <3> DEFINE u == far(way[i])
                   v == far(way[j])
        <3>2. u \in Nat /\ v < u
            BY <2>3, <3>1
        <3>3. way[i] = way[j] => u = v
            OBVIOUS
        <3> HIDE DEF u, v
        <3>4. u # v
            BY <3>2
        <3> QED BY <3>3, <3>4
    <2>7. ASSUME NEW k \in 1 .. n + 1, NEW l \in 1 .. n + 1, p[k] = p[l]
          PROVE  k = l
        <3>1. way[k - 1] = way[l - 1]
            BY <2>7
        <3>2. ~ (k - 1 < l - 1) /\ ~ (l - 1 < k - 1)
            BY <2>4, <2>6, <3>1
        <3> QED BY <1>2, <3>2
    <2> HIDE DEF p
    <2>8. n + 1 \in Nat
        BY <1>2
    <2>9. n + 1 <= Cardinality(Routers)
        BY <1>2, <2>5, <2>7, <2>8, PathIsShort
    <2> QED BY <1>2, <2>9 DEF n
<1> QED BY <1>1, <1>7

(***************************************************************************)
(* When the tables of all routers agree, hold what the routers hear and    *)
(* rest on cables of two, packets get to every router that has a route     *)
(* (routingtable.cpp:26-45 follows, at every router, the routes that it    *)
(* computed for itself, 148-211): the routes of different routers fit      *)
(* together, as long as no path is as long as the unsigned distances go.   *)
(***************************************************************************)
THEOREM PacketsArrive ==
    ASSUME NoOverflow
    PROVE  Spec => []SettledRoutesArrive
<1> DEFINE All == Inv /\ Types /\ Measurements
<1>1. Init => All
    BY InitInv, InitTypes, InitMeasurements
<1>2. All /\ [Next]_vars => All'
    BY NextInv, NearStep, ListsStep, TrafficStep, NextMeasurements DEF Types
<1>3. All => SettledRoutesArrive
    <2> SUFFICES ASSUME All, Agreed, PointToPoint, TableIsFresh,
                        NEW r \in Routers, NEW d \in Routers,
                        r # d, routes[r].through[d] # Nowhere
                 PROVE  Arrives(r, d)
        BY DEF SettledRoutesArrive
    <2>1. \A q \in Routers : Agrees(q)
        BY AgreedTables
    <2> QED BY <2>1, PacketArrives
<1> QED BY <1>1, <1>2, <1>3, PTL DEF Spec

=============================================================================
