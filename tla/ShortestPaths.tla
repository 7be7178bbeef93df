--------------------------- MODULE ShortestPaths ---------------------------
(***************************************************************************)
(* The algorithm of RoutingTable::update (networklayer/routingtable.cpp,   *)
(* 148-211), Dijkstra's with a QMultiMap as its queue, and what it is to   *)
(* compute.                                                                *)
(*                                                                         *)
(* The table of a router is a record of                                    *)
(*   near   m_neighbourMap: address -> [cable, distance]                   *)
(*   far    the m_distanceMap of every entry of m_routerInfoMap:           *)
(*          address -> (address -> distance)                               *)
(* Both maps are in the order of the addresses, which are numbers.         *)
(***************************************************************************)
EXTENDS Naturals, SequencesExt

CONSTANT UintMod

ASSUME UintAssumption == UintMod \in Nat \ {0, 1}

UINT_MAX == UintMod - 1

\* m_through of a router that is not reached: no neighbour has this address.
Nowhere == 0

Ascending(addresses) ==
    [i \in 1 .. Cardinality(addresses) |->
        CHOOSE a \in addresses :
            Cardinality({ b \in addresses : b < a }) = i - 1]

-----------------------------------------------------------------------------
(***************************************************************************)
(* QMultiMap::insert: in the order of the distances, before the elements   *)
(* with the same distance.                                                 *)
(***************************************************************************)
Enqueued(queue, distance, address) ==
    InsertAt(queue,
        Cardinality({ i \in DOMAIN queue : queue[i].distance < distance }) + 1,
        [distance |-> distance, address |-> address])

Untouched(table) ==
    [distance |-> [a \in DOMAIN table.far |-> UINT_MAX],
     through |-> [a \in DOMAIN table.far |-> Nowhere],
     queue |-> <<>>, analysed |-> {}]

Visit(table, s, b) ==
    [s EXCEPT !.distance[b] = table.near[b].distance,
              !.through[b] = b,
              !.queue = Enqueued(@, table.near[b].distance, b)]

\* The neighbours whose list is known, after any number of them.
Visited(table) ==
    LET known == Ascending(DOMAIN table.near \cap DOMAIN table.far)
        visited[i \in 0 .. Len(known)] ==
            IF i = 0 THEN Untouched(table)
                     ELSE Visit(table, visited[i - 1], known[i])
    IN visited

Initial(table) ==
    Visited(table)[Cardinality(DOMAIN table.near \cap DOMAIN table.far)]

\* Two neighbours on the same cable hear each other without this router.
SameMedium(table, a, b) ==
    /\ {a, b} \subseteq DOMAIN table.near
    /\ table.near[a].cable = table.near[b].cable

\* Mutant: the route leads through the router before the last one.
MutRelaxed(table, s, distance, a, b) ==
    LET sum == (distance + table.far[a][b]) % UintMod
    IN IF SameMedium(table, a, b) \/ s.distance[b] <= sum THEN s
       ELSE [s EXCEPT !.distance[b] = sum, !.through[b] = a,
                      !.queue = Enqueued(@, sum, b)]

Relaxed(table, s, distance, a, b) ==
    LET sum == (distance + table.far[a][b]) % UintMod
    IN IF SameMedium(table, a, b) \/ s.distance[b] <= sum THEN s
       ELSE [s EXCEPT !.distance[b] = sum, !.through[b] = s.through[a],
                      !.queue = Enqueued(@, sum, b)]

Listed(table, a) == DOMAIN table.far[a] \cap DOMAIN table.far

\* The list of the router that was first, after any number of its entries.
Explored(table, s, first) ==
    LET a == first.address
        listed == Ascending(Listed(table, a))
        explored[i \in 0 .. Len(listed)] ==
            IF i = 0 THEN s
            ELSE Relaxed(table, explored[i - 1], first.distance, a, listed[i])
    IN explored

\* A turn of the loop, for the first element of the queue. It is erased after
\* the insertions; but these go by the distances only, and never read analysed.
Analysed(table, s) ==
    LET first == Head(s.queue)
        a == first.address
        rest == [s EXCEPT !.queue = Tail(@), !.analysed = @ \union {a}]
    IN IF a \in s.analysed THEN rest
       ELSE Explored(table, rest, first)[Cardinality(Listed(table, a))]

\* A router enters the queue at most once as a neighbour and once from each of
\* the others.
MaxSteps(table) == Cardinality(DOMAIN table.far) * Cardinality(DOMAIN table.far)

\* The loop, after any number of turns.
Turns(table) ==
    LET turns[n \in 0 .. MaxSteps(table)] ==
            IF n = 0 THEN Initial(table)
            ELSE LET s == turns[n - 1]
                 IN IF s.queue = <<>> THEN s ELSE Analysed(table, s)
    IN turns

(***************************************************************************)
(* RoutingTable::update after removeOld: m_distance and m_through.         *)
(***************************************************************************)
Update(table) ==
    LET done == Turns(table)[MaxSteps(table)]
    IN [distance |-> [a \in DOMAIN table.far |-> done.distance[a]],
        through |-> [a \in DOMAIN table.far |-> done.through[a]]]

-----------------------------------------------------------------------------
(***************************************************************************)
(* The reference: the paths of the table, and the shortest ones.           *)
(***************************************************************************)

\* A path: its first router is a neighbour, its next one in the list of the
\* one before, and not a second neighbour on the cable of a first.
IsPath(table, path) ==
    /\ path[1] \in DOMAIN table.near
    /\ \A i \in 1 .. Len(path) - 1 :
          /\ path[i + 1] \in DOMAIN table.far[path[i]]
          /\ ~ SameMedium(table, path[i], path[i + 1])

\* The length of the path, after any number of hops behind its first router.
LengthAfter(table, path) ==
    LET length[i \in 0 .. Len(path) - 1] ==
            IF i = 0 THEN table.near[path[1]].distance
                     ELSE length[i - 1] + table.far[path[i]][path[i + 1]]
    IN length

Length(table, path) == LengthAfter(table, path)[Len(path) - 1]

\* The paths to a without a cycle.
PathsTo(table, a) ==
    { path \in UNION { { f \in [1 .. n -> DOMAIN table.far] :
                            /\ f[n] = a
                            /\ \A i, j \in 1 .. n : f[i] = f[j] => i = j } :
                       n \in 1 .. Cardinality(DOMAIN table.far) } :
        IsPath(table, path) }

AreShortest(table, routes) ==
    \A a \in DOMAIN table.far :
        LET paths == PathsTo(table, a)
        IN IF paths = {}
           THEN routes.distance[a] = UINT_MAX /\ routes.through[a] = Nowhere
           ELSE /\ \E p \in paths : /\ Length(table, p) = routes.distance[a]
                                    /\ p[1] = routes.through[a]
                /\ \A p \in paths : Length(table, p) >= routes.distance[a]

=============================================================================
