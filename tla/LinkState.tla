----------------------------- MODULE LinkState -----------------------------
(***************************************************************************)
(* Flooding of neighbour lists: the routing table of every router          *)
(* (networklayer/routingtable.cpp) without the distances, the hello        *)
(* protocol and the periodic list of NetworkLayer and RoutingProcess, and  *)
(* the RoutingTableProcess that passes lists on until they are             *)
(* acknowledged.                                                           *)
(*                                                                         *)
(* RoutingTable::m_mutex is held by each handler from its beginning to its *)
(* end, so a handler is one action (the update at the end of               *)
(* removeOldNeighbours runs without the mutex: here it is one step all the *)
(* same).  A list is its author and sequence number; the neighbours and    *)
(* distances in it play no part in the flooding.  No two routers share two *)
(* cables, so a router stands for the MAC address it is seen under.        *)
(***************************************************************************)
EXTENDS Naturals

CONSTANTS
    Routers,
    Adjacent,      \* Adjacent[r]: the routers on the cables of r
    MaxSequence    \* bound: lists each router ever sends

ASSUME LinkStateAssumption ==
    /\ Adjacent \in [Routers -> SUBSET Routers]
    /\ \A r \in Routers : r \notin Adjacent[r]
    /\ MaxSequence \in [Routers -> Nat]

\* from and to are the two stations of one frame.
Message == [type : {"NeighbourInfo", "NeighbourInfoACK"}, from : Routers,
            to : Routers, author : Routers, sequence : Nat \ {0}]

VARIABLES
    neighbours,      \* m_neighbourMap, of the network layer and of the table
    sequenceNumber,  \* m_sequenceNumber: the number of the next list
    sequence,        \* m_routerInfoMap: number of the last list of an author, or 0
    known,           \* m_knowsInfoSet of that list
    expired,         \* lists <<author, number>> whose m_expires is over
    network,         \* frames on their way, in no order
    accepted         \* history: the highest number ever stored for an author

vars == <<neighbours, sequenceNumber, sequence, known, expired, network, accepted>>

tableVars == <<sequence, known, accepted>>

-----------------------------------------------------------------------------

List(r, b, a, n) ==
    [type |-> "NeighbourInfo", from |-> r, to |-> b, author |-> a, sequence |-> n]

ACK(r, b, a, n) ==
    [type |-> "NeighbourInfoACK", from |-> r, to |-> b, author |-> a, sequence |-> n]

\* No entry of the map.
None == 0

\* A frame may arrive once more (a station that saw a collision repeats it).
Taken(m, again) == IF again THEN network ELSE network \ {m}

(***************************************************************************)
(* RoutingTable::removeOld, for the entries of r in table: the numbers and *)
(* who knows them afterwards.                                              *)
(***************************************************************************)
Remaining(table) ==
    [a \in Routers |-> IF <<a, table[a]>> \in expired THEN None ELSE table[a]]

\* Mutant: who knows a list outlives its entry.
MutRemoveOld(r, table, knows) ==
    /\ sequence' = [sequence EXCEPT ![r] = Remaining(table)]
    /\ known' = [known EXCEPT ![r] = knows]

RemoveOld(r, table, knows) ==
    /\ sequence' = [sequence EXCEPT ![r] = Remaining(table)]
    /\ known' = [known EXCEPT ![r] =
                    [a \in Routers |-> IF Remaining(table)[a] = None THEN {}
                                       ELSE knows[a]]]

-----------------------------------------------------------------------------
(***************************************************************************)
(* NetworkLayer: neighbours                                                *)
(***************************************************************************)

\* parseHelloAnswer: addNeighbour.
HelloAnswered(r, b) ==
    /\ b \in Adjacent[r] \ neighbours[r]
    /\ neighbours' = [neighbours EXCEPT ![r] = @ \union {b}]
    /\ UNCHANGED <<sequenceNumber, tableVars, expired, network>>

\* removeOldNeighbours, with the update at its end.
RemoveOldNeighbours(r) ==
    \E gone \in SUBSET neighbours[r] \ {{}} :
        /\ neighbours' = [neighbours EXCEPT ![r] = @ \ gone]
        /\ RemoveOld(r, sequence[r], known[r])
        /\ UNCHANGED <<sequenceNumber, expired, network, accepted>>

\* remove(connection): no update.
RemoveConnection(r) ==
    \E gone \in SUBSET neighbours[r] \ {{}} :
        /\ neighbours' = [neighbours EXCEPT ![r] = @ \ gone]
        /\ UNCHANGED <<sequenceNumber, tableVars, expired, network>>

\* The list goes to every neighbour once; nobody waits for acknowledgements.
SendNeighboursList(r) ==
    /\ sequenceNumber[r] <= MaxSequence[r]
    /\ sequenceNumber' = [sequenceNumber EXCEPT ![r] = @ + 1]
    /\ network' = network \union
                      { List(r, b, r, sequenceNumber[r]) : b \in neighbours[r] }
    /\ UNCHANGED <<neighbours, tableVars, expired>>

-----------------------------------------------------------------------------
(***************************************************************************)
(* RoutingTable                                                            *)
(***************************************************************************)

CheckNeighbourInfoPacket(r, m) == sequence[r][m.author] <= m.sequence

\* m_knowsInfoSet: cleared for a newer list, and the sender knows it.
KnownAfter(r, m) ==
    IF sequence[r][m.author] < m.sequence THEN {m.from}
    ELSE known[r][m.author] \union {m.from}

\* A newer list is stored, and update removes what has expired; a repeated one
\* only adds its sender.
Store(r, m) ==
    LET table == [sequence[r] EXCEPT ![m.author] = m.sequence]
        knows == [known[r] EXCEPT ![m.author] = KnownAfter(r, m)]
    IN IF sequence[r][m.author] < m.sequence
       THEN RemoveOld(r, table, knows)
       ELSE known' = [known EXCEPT ![r] = knows] /\ UNCHANGED sequence

UpdateRouterInfo(r, m, again) ==
    /\ CheckNeighbourInfoPacket(r, m)
    /\ Store(r, m)
    /\ accepted' = [accepted EXCEPT ![r][m.author] =
                       IF sequence'[r][m.author] > @ THEN sequence'[r][m.author]
                       ELSE @]
    /\ network' = Taken(m, again) \union
                      {ACK(r, m.from, m.author, m.sequence)}

\* A list that is older than the stored one: no acknowledgement.
Reject(r, m, again) ==
    /\ ~ CheckNeighbourInfoPacket(r, m)
    /\ network' = Taken(m, again)
    /\ UNCHANGED tableVars

ParseNeighbourList(m) ==
    /\ m \in network
    /\ m.type = "NeighbourInfo"
    /\ \E again \in BOOLEAN :
          UpdateRouterInfo(m.to, m, again) \/ Reject(m.to, m, again)
    /\ UNCHANGED <<neighbours, sequenceNumber, expired>>

\* Mutant: the number of the acknowledged list is not compared.
MutConfirms(r, m) == sequence[r][m.author] # None

\* The entry exists, and it is this list that was acknowledged.
Confirms(r, m) ==
    /\ sequence[r][m.author] # None
    /\ sequence[r][m.author] = m.sequence

CheckACKPackage(m) ==
    /\ m \in network
    /\ m.type = "NeighbourInfoACK"
    /\ \E again \in BOOLEAN : network' = Taken(m, again)
    /\ known' = IF Confirms(m.to, m)
                THEN [known EXCEPT ![m.to][m.author] = @ \union {m.from}]
                ELSE known
    /\ UNCHANGED <<neighbours, sequenceNumber, sequence, expired, accepted>>

\* Mutant: the author of a list gets it, too.
MutUninformed(r, a) ==
    IF sequence[r][a] = None THEN {} ELSE neighbours[r] \ known[r][a]

\* Neighbours that are not known to have the list of a, its author left out.
Uninformed(r, a) ==
    IF sequence[r][a] = None THEN {} ELSE neighbours[r] \ (known[r][a] \union {a})

\* Mutant: a neighbour counts as informed once the list was sent to it.
MutForwardPackages(r) ==
    /\ \E a \in Routers : Uninformed(r, a) # {}
    /\ network' = network \union
          UNION { { List(r, b, a, sequence[r][a]) : b \in Uninformed(r, a) } :
                  a \in Routers }
    /\ known' = [known EXCEPT ![r] = [a \in Routers |-> @[a] \union Uninformed(r, a)]]
    /\ UNCHANGED <<neighbours, sequenceNumber, sequence, expired, accepted>>

ForwardPackages(r) ==
    /\ \E a \in Routers : Uninformed(r, a) # {}
    /\ network' = network \union
          UNION { { List(r, b, a, sequence[r][a]) : b \in Uninformed(r, a) } :
                  a \in Routers }
    /\ UNCHANGED <<neighbours, sequenceNumber, tableVars, expired>>

-----------------------------------------------------------------------------
\* A damaged frame, or one that the sender gave up after 16 collisions.
Lose(m) ==
    /\ network' = network \ {m}
    /\ UNCHANGED <<neighbours, sequenceNumber, tableVars, expired>>

\* Mutant: the moment is counted from the arrival, and lists expire in any order.
MutExpire(a) ==
    \E n \in 1 .. sequenceNumber[a] - 1 :
        /\ <<a, n>> \notin expired
        /\ expired' = expired \union {<<a, n>>}
        /\ UNCHANGED <<neighbours, sequenceNumber, tableVars, network>>

(***************************************************************************)
(* m_expires is a moment of the clock of the author, which all threads of  *)
(* the simulator share; the lists of one author expire in their order.     *)
(***************************************************************************)
Expire(a) ==
    \E n \in 1 .. sequenceNumber[a] - 1 :
        /\ <<a, n>> \notin expired
        /\ \A k \in 1 .. n - 1 : <<a, k>> \in expired
        /\ expired' = expired \union {<<a, n>>}
        /\ UNCHANGED <<neighbours, sequenceNumber, tableVars, network>>

-----------------------------------------------------------------------------
Init ==
    /\ neighbours = [r \in Routers |-> {}]
    /\ sequenceNumber = [r \in Routers |-> 1]
    /\ sequence = [r \in Routers |-> [a \in Routers |-> None]]
    /\ known = [r \in Routers |-> [a \in Routers |-> {}]]
    /\ expired = {}
    /\ network = {}
    /\ accepted = [r \in Routers |-> [a \in Routers |-> None]]

Next ==
    \/ \E r \in Routers :
          \/ \E b \in Routers : HelloAnswered(r, b)
          \/ RemoveOldNeighbours(r)
          \/ RemoveConnection(r)
          \/ SendNeighboursList(r)
          \/ ForwardPackages(r)
          \/ Expire(r)
    \/ \E m \in network : ParseNeighbourList(m) \/ CheckACKPackage(m) \/ Lose(m)

Spec == Init /\ [][Next]_vars

(***************************************************************************)
(* RoutingTableProcess calls forwardPackages again and again, after 300 or *)
(* 1000 ms.  A cable damages frames independently of each other, so a list *)
(* that is sent again and again arrives.                                   *)
(***************************************************************************)
Fairness ==
    /\ \A r \in Routers : WF_vars(ForwardPackages(r))
    /\ \A r, a \in Routers : \A b \in Adjacent[r] : \A n \in 1 .. MaxSequence[a] :
          SF_vars(ParseNeighbourList(List(r, b, a, n)))

FairSpec == Spec /\ Fairness

-----------------------------------------------------------------------------
(***************************************************************************)
(* Properties                                                              *)
(***************************************************************************)

\* Types; who knows a list is kept in its entry, and only then.
TypeOK ==
    /\ neighbours \in [Routers -> SUBSET Routers]
    /\ sequenceNumber \in [Routers -> Nat \ {0}]
    /\ sequence \in [Routers -> [Routers -> Nat]]
    /\ known \in [Routers -> [Routers -> SUBSET Routers]]
    /\ expired \subseteq Routers \X (Nat \ {0})
    /\ network \subseteq Message
    /\ accepted \in [Routers -> [Routers -> Nat]]
    /\ \A r, a \in Routers : sequence[r][a] = None => known[r][a] = {}

\* b has the n-th list of a or a later one, or it need not have it any more.
Has(b, a, n) == <<a, n>> \in expired \/ sequence[b][a] >= n

(***************************************************************************)
(* routerinfo.h:21-23 "Which neighbours have this information": a router   *)
(* that a table takes for informed is the author or has the list, so that  *)
(* not passing it on is safe whatever acknowledgements came late, were     *)
(* repeated or belong to an earlier list.                                  *)
(***************************************************************************)
KnowsIsTrue ==
    \A r, a \in Routers : \A b \in known[r][a] :
        b = a \/ Has(b, a, sequence[r][a])

(***************************************************************************)
(* A router never goes back to an older list of an author: not even when   *)
(* the newer one has expired and was removed from the map, which holds the *)
(* only record of its number, and an older one arrives late.               *)
(***************************************************************************)
NeverGoesBack ==
    \A r, a \in Routers :
        sequence[r][a] # None => sequence[r][a] = accepted[r][a]

(***************************************************************************)
(* A router never has its own list in its table, whoever passed it on: its *)
(* update would look for a route to itself, and its old list would go on   *)
(* to its neighbours beside the new one.                                   *)
(***************************************************************************)
OwnListStaysAway ==
    \A r \in Routers : sequence[r][r] = None

(***************************************************************************)
(* When two neighbours have nothing left to pass on to each other, their   *)
(* tables agree on every third router's list, up to expired ones.          *)
(***************************************************************************)
SilentNeighboursAgree ==
    \A r, b \in Routers : \A a \in Routers \ {r, b} :
        /\ b \in neighbours[r] \ Uninformed(r, a)
        /\ r \in neighbours[b] \ Uninformed(b, a)
        /\ sequence[r][a] # None
        /\ sequence[b][a] # None
        => \/ sequence[r][a] = sequence[b][a]
           \/ <<a, sequence[r][a]>> \in expired
           \/ <<a, sequence[b][a]>> \in expired

(***************************************************************************)
(* What a router has its neighbours learn, although every single frame and *)
(* acknowledgement may be lost.                                            *)
(***************************************************************************)
NeighboursLearn ==
    \A r, a \in Routers : \A b \in Adjacent[r] \ {a} : \A n \in 1 .. MaxSequence[a] :
        (b \in neighbours[r] /\ sequence[r][a] = n)
            ~> (b \notin neighbours[r] \/ Has(b, a, n))

=============================================================================
