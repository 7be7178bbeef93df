-------------------------- MODULE LinkStateProofs --------------------------
(***************************************************************************)
(* Proofs about LinkState, for every set of routers, every adjacency and   *)
(* any number of lists.                                                    *)
(***************************************************************************)
EXTENDS LinkState, TLAPS

(***************************************************************************)
(* Lists expire in their order, and only lists that were sent.             *)
(***************************************************************************)
ExpiryInOrder ==
    \A p \in expired :
        /\ p[2] < sequenceNumber[p[1]]
        /\ \A k \in 1 .. p[2] : <<p[1], k>> \in expired

(***************************************************************************)
(* A frame is about a list that was sent; a list is on its way from its    *)
(* author or from a router that has it, an acknowledgement from a router   *)
(* that has it.                                                            *)
(***************************************************************************)
NetworkIsTrue ==
    \A m \in network :
        /\ m.sequence # 0
        /\ m.sequence < sequenceNumber[m.author]
        /\ \/ m.type = "NeighbourInfo" /\ m.from = m.author
           \/ Has(m.from, m.author, m.sequence)

(***************************************************************************)
(* Tables hold lists that were sent, and nothing above what was accepted;  *)
(* what was accepted and is gone has expired.                              *)
(***************************************************************************)
TablesAreTrue ==
    \A r, a \in Routers :
        /\ sequence[r][a] < sequenceNumber[a]
        /\ sequence[r][a] = None /\ accepted[r][a] # None
              => <<a, accepted[r][a]>> \in expired

Safe ==
    /\ ExpiryInOrder
    /\ NetworkIsTrue
    /\ TablesAreTrue
    /\ KnowsIsTrue
    /\ NeverGoesBack

Inv == TypeOK /\ Safe

-----------------------------------------------------------------------------
(***************************************************************************)
(* Type correctness                                                        *)
(***************************************************************************)

\* The frames that the actions put on the network are messages.
LEMMA MessageType ==
    ASSUME NEW r \in Routers, NEW b \in Routers, NEW a \in Routers, NEW n \in Nat \ {0}
    PROVE  List(r, b, a, n) \in Message /\ ACK(r, b, a, n) \in Message
BY DEF List, ACK, Message

\* What is left of a table is a table, and it is what it was or nothing.
LEMMA RemainingType ==
    ASSUME NEW table \in [Routers -> Nat]
    PROVE  /\ Remaining(table) \in [Routers -> Nat]
           /\ \A a \in Routers : Remaining(table)[a] \in {None, table[a]}
BY DEF Remaining, None

\* RoutingTable::removeOld keeps the types of one router's table.
LEMMA RemoveOldType ==
    ASSUME TypeOK, NEW r \in Routers, NEW table \in [Routers -> Nat],
           NEW knows \in [Routers -> SUBSET Routers], RemoveOld(r, table, knows)
    PROVE  /\ sequence' \in [Routers -> [Routers -> Nat]]
           /\ known' \in [Routers -> [Routers -> SUBSET Routers]]
           /\ \A b, a \in Routers : sequence'[b][a] = None => known'[b][a] = {}
<1>1. Remaining(table) \in [Routers -> Nat]
  BY RemainingType
<1>2. sequence' = [sequence EXCEPT ![r] = Remaining(table)]
  BY DEF RemoveOld
<1> DEFINE who == [a \in Routers |-> IF Remaining(table)[a] = None THEN {} ELSE knows[a]]
<1>3. known' = [known EXCEPT ![r] = who]
  BY DEF RemoveOld
<1>4. who \in [Routers -> SUBSET Routers]
  OBVIOUS
<1>5. \A a \in Routers : Remaining(table)[a] = None => who[a] = {}
  OBVIOUS
<1> HIDE DEF who
<1> QED
  BY <1>1, <1>2, <1>3, <1>4, <1>5 DEF TypeOK

\* Storing a list keeps the types of the tables.
LEMMA StoreType ==
    ASSUME TypeOK, NEW r \in Routers, NEW m \in Message,
           CheckNeighbourInfoPacket(r, m), Store(r, m)
    PROVE  /\ sequence' \in [Routers -> [Routers -> Nat]]
           /\ known' \in [Routers -> [Routers -> SUBSET Routers]]
           /\ \A b, a \in Routers : sequence'[b][a] = None => known'[b][a] = {}
<1> DEFINE table == [sequence[r] EXCEPT ![m.author] = m.sequence]
           knows == [known[r] EXCEPT ![m.author] = KnownAfter(r, m)]
<1>1. m.author \in Routers /\ m.from \in Routers /\ m.sequence \in Nat \ {0}
  BY DEF Message
<1>2. KnownAfter(r, m) \in SUBSET Routers
  BY <1>1 DEF KnownAfter, TypeOK
<1>3. table \in [Routers -> Nat] /\ knows \in [Routers -> SUBSET Routers]
  BY <1>1, <1>2 DEF TypeOK
<1>4. CASE sequence[r][m.author] < m.sequence
  <2>1. RemoveOld(r, table, knows)
    BY <1>4 DEF Store
  <2> QED
    BY <1>3, <2>1, RemoveOldType
<1>5. CASE ~ (sequence[r][m.author] < m.sequence)
  <2>1. known' = [known EXCEPT ![r] = knows] /\ UNCHANGED sequence
    BY <1>5 DEF Store
  <2>2. sequence[r][m.author] # None
    BY <1>1, <1>5 DEF CheckNeighbourInfoPacket, TypeOK, None
  <2>3. \A a \in Routers : sequence[r][a] = None => knows[a] = {}
    BY <2>2, <1>1 DEF TypeOK
  <2> HIDE DEF knows
  <2> QED
    BY <2>1, <2>3, <1>3 DEF TypeOK
<1> QED
  BY <1>4, <1>5

\* Every step keeps the types.
LEMMA TypeStep ==
    ASSUME LinkStateAssumption, TypeOK, [Next]_vars
    PROVE  TypeOK'
<1>1. ASSUME NEW r \in Routers, NEW b \in Routers, HelloAnswered(r, b)
      PROVE  TypeOK'
  BY <1>1 DEF HelloAnswered, TypeOK, tableVars
<1>2. ASSUME NEW r \in Routers, RemoveOldNeighbours(r)
      PROVE  TypeOK'
  <2>1. RemoveOld(r, sequence[r], known[r])
    BY <1>2 DEF RemoveOldNeighbours
  <2>2. /\ sequence' \in [Routers -> [Routers -> Nat]]
        /\ known' \in [Routers -> [Routers -> SUBSET Routers]]
        /\ \A b, a \in Routers : sequence'[b][a] = None => known'[b][a] = {}
    <3>1. sequence[r] \in [Routers -> Nat] /\ known[r] \in [Routers -> SUBSET Routers]
      BY DEF TypeOK
    <3> QED
      BY <2>1, <3>1, RemoveOldType
  <2>3. neighbours' \in [Routers -> SUBSET Routers]
    BY <1>2 DEF RemoveOldNeighbours, TypeOK
  <2> QED
    BY <1>2, <2>2, <2>3 DEF RemoveOldNeighbours, TypeOK
<1>3. ASSUME NEW r \in Routers, RemoveConnection(r)
      PROVE  TypeOK'
  BY <1>3 DEF RemoveConnection, TypeOK, tableVars
<1>4. ASSUME NEW r \in Routers, SendNeighboursList(r)
      PROVE  TypeOK'
  <2>1. \A b \in neighbours[r] : List(r, b, r, sequenceNumber[r]) \in Message
    BY MessageType DEF TypeOK
  <2>2. network' \subseteq Message
    BY <1>4, <2>1 DEF SendNeighboursList, TypeOK
  <2>3. sequenceNumber' \in [Routers -> Nat \ {0}]
    BY <1>4 DEF SendNeighboursList, TypeOK
  <2> QED
    BY <1>4, <2>2, <2>3 DEF SendNeighboursList, TypeOK, tableVars
<1>5. ASSUME NEW r \in Routers, ForwardPackages(r)
      PROVE  TypeOK'
  <2>1. \A a \in Routers : \A b \in Uninformed(r, a) :
            List(r, b, a, sequence[r][a]) \in Message
    BY MessageType DEF TypeOK, Uninformed, None
  <2>2. network' \subseteq Message
    BY <1>5, <2>1 DEF ForwardPackages, TypeOK
  <2> QED
    BY <1>5, <2>2 DEF ForwardPackages, TypeOK, tableVars
<1>6. ASSUME NEW r \in Routers, Expire(r)
      PROVE  TypeOK'
  <2>1. expired' \subseteq Routers \X (Nat \ {0})
    BY <1>6 DEF Expire, TypeOK
  <2> QED
    BY <1>6, <2>1 DEF Expire, TypeOK, tableVars
<1>7. ASSUME NEW m \in network, ParseNeighbourList(m)
      PROVE  TypeOK'
  <2>1. m \in Message /\ m.to \in Routers /\ m.from \in Routers
        /\ m.author \in Routers /\ m.sequence \in Nat \ {0}
    BY DEF TypeOK, Message
  <2>2. PICK again \in BOOLEAN : UpdateRouterInfo(m.to, m, again) \/ Reject(m.to, m, again)
    BY <1>7 DEF ParseNeighbourList
  <2>3. CASE UpdateRouterInfo(m.to, m, again)
    <3>1. /\ sequence' \in [Routers -> [Routers -> Nat]]
          /\ known' \in [Routers -> [Routers -> SUBSET Routers]]
          /\ \A b, a \in Routers : sequence'[b][a] = None => known'[b][a] = {}
      BY <2>1, <2>3, StoreType DEF UpdateRouterInfo
    <3>2. network' \subseteq Message
      BY <2>1, <2>3, MessageType DEF UpdateRouterInfo, Taken, TypeOK
    <3>3. accepted' \in [Routers -> [Routers -> Nat]]
      <4> DEFINE highest == IF sequence'[m.to][m.author] > accepted[m.to][m.author]
                            THEN sequence'[m.to][m.author]
                            ELSE accepted[m.to][m.author]
      <4>1. accepted' = [accepted EXCEPT ![m.to][m.author] = highest]
        BY <2>3 DEF UpdateRouterInfo
      <4>2. highest \in Nat
        BY <2>1, <3>1 DEF TypeOK
      <4> HIDE DEF highest
      <4> QED
        BY <2>1, <4>1, <4>2 DEF TypeOK
    <3> QED
      BY <1>7, <3>1, <3>2, <3>3 DEF ParseNeighbourList, TypeOK
  <2>4. CASE Reject(m.to, m, again)
    BY <1>7, <2>4 DEF Reject, ParseNeighbourList, Taken, TypeOK, tableVars
  <2> QED
    BY <2>2, <2>3, <2>4
<1>8. ASSUME NEW m \in network, CheckACKPackage(m)
      PROVE  TypeOK'
  <2>1. m.to \in Routers /\ m.from \in Routers /\ m.author \in Routers
    BY DEF TypeOK, Message
  <2>2. network' \subseteq Message
    BY <1>8 DEF CheckACKPackage, Taken, TypeOK
  <2>3. known' \in [Routers -> [Routers -> SUBSET Routers]]
    BY <1>8, <2>1 DEF CheckACKPackage, TypeOK
  <2>4. \A b, a \in Routers : sequence[b][a] = None => known'[b][a] = {}
    BY <1>8, <2>1 DEF CheckACKPackage, Confirms, TypeOK
  <2> QED
    BY <1>8, <2>2, <2>3, <2>4 DEF CheckACKPackage, TypeOK
<1>9. ASSUME NEW m \in network, Lose(m)
      PROVE  TypeOK'
  BY <1>9 DEF Lose, TypeOK, tableVars
<1>10. CASE UNCHANGED vars
  BY <1>10 DEF vars, TypeOK, tableVars
<1> QED
  BY <1>1, <1>2, <1>3, <1>4, <1>5, <1>6, <1>7, <1>8, <1>9, <1>10 DEF Next

-----------------------------------------------------------------------------
(***************************************************************************)
(* What a step does to the tables                                          *)
(***************************************************************************)

\* Storing or removing lists: every entry stays, grows, or expired, and an entry
\* that is there afterwards has the old members of its set, or only the sender.
LEMMA RemoveOldTables ==
    ASSUME TypeOK, NEW r \in Routers, NEW table \in [Routers -> Nat],
           NEW knows \in [Routers -> SUBSET Routers], RemoveOld(r, table, knows)
    PROVE  \A b, a \in Routers :
             IF b = r
             THEN IF <<a, table[a]>> \in expired
                  THEN sequence'[b][a] = None /\ known'[b][a] = {}
                  ELSE sequence'[b][a] = table[a] /\ known'[b][a] \subseteq knows[a]
             ELSE sequence'[b][a] = sequence[b][a] /\ known'[b][a] = known[b][a]
<1> DEFINE left == Remaining(table)
           who == [a \in Routers |-> IF left[a] = None THEN {} ELSE knows[a]]
<1>1. sequence' = [sequence EXCEPT ![r] = left] /\ known' = [known EXCEPT ![r] = who]
  BY DEF RemoveOld
<1>2. \A a \in Routers : left[a] = IF <<a, table[a]>> \in expired THEN None ELSE table[a]
  BY DEF Remaining
<1>3. \A a \in Routers : who[a] = IF left[a] = None THEN {} ELSE knows[a]
  OBVIOUS
<1> HIDE DEF left, who
<1> QED
  BY <1>1, <1>2, <1>3 DEF TypeOK

\* The table of the receiver after a list was taken.
Taking(r, m) ==
    \A b, a \in Routers :
        IF b # r
        THEN sequence'[b][a] = sequence[b][a] /\ known'[b][a] = known[b][a]
        ELSE IF a # m.author
             THEN \/ sequence'[b][a] = sequence[b][a] /\ known'[b][a] \subseteq known[b][a]
                  \/ /\ sequence'[b][a] = None /\ known'[b][a] = {}
                     /\ <<a, sequence[b][a]>> \in expired
             ELSE \/ /\ sequence[b][a] < m.sequence
                     /\ sequence'[b][a] = m.sequence
                     /\ <<a, m.sequence>> \notin expired
                     /\ known'[b][a] \subseteq {m.from}
                  \/ /\ sequence[b][a] < m.sequence
                     /\ sequence'[b][a] = None /\ known'[b][a] = {}
                     /\ <<a, m.sequence>> \in expired
                  \/ /\ sequence[b][a] = m.sequence
                     /\ sequence'[b][a] = m.sequence
                     /\ known'[b][a] \subseteq known[b][a] \union {m.from}

\* updateRouterInfo: the entry of the author becomes the list, keeps it, or goes
\* with everything else that has expired.
LEMMA StoreTables ==
    ASSUME TypeOK, NEW r \in Routers, NEW m \in Message,
           CheckNeighbourInfoPacket(r, m), Store(r, m)
    PROVE  Taking(r, m)
<1> DEFINE table == [sequence[r] EXCEPT ![m.author] = m.sequence]
           knows == [known[r] EXCEPT ![m.author] = KnownAfter(r, m)]
<1>1. m.author \in Routers /\ m.from \in Routers /\ m.sequence \in Nat \ {0}
  BY DEF Message
<1>2. KnownAfter(r, m) \in SUBSET Routers
  BY <1>1 DEF KnownAfter, TypeOK
<1>3. table \in [Routers -> Nat] /\ knows \in [Routers -> SUBSET Routers]
  BY <1>1, <1>2 DEF TypeOK
<1>4. \A a \in Routers : /\ table[a] = IF a = m.author THEN m.sequence ELSE sequence[r][a]
                         /\ knows[a] = IF a = m.author THEN KnownAfter(r, m) ELSE known[r][a]
  BY <1>1 DEF TypeOK
<1>5. CASE sequence[r][m.author] < m.sequence
  <2>1. RemoveOld(r, table, knows)
    BY <1>5 DEF Store
  <2>2. KnownAfter(r, m) = {m.from}
    BY <1>5 DEF KnownAfter
  <2> HIDE DEF table, knows
  <2>3. \A b, a \in Routers :
             IF b = r
             THEN IF <<a, table[a]>> \in expired
                  THEN sequence'[b][a] = None /\ known'[b][a] = {}
                  ELSE sequence'[b][a] = table[a] /\ known'[b][a] \subseteq knows[a]
             ELSE sequence'[b][a] = sequence[b][a] /\ known'[b][a] = known[b][a]
    BY <1>3, <2>1, RemoveOldTables
  <2>4. \A b \in Routers \ {r}, a \in Routers :
             sequence'[b][a] = sequence[b][a] /\ known'[b][a] = known[b][a]
    BY <2>3
  <2>5. \A a \in Routers \ {m.author} :
             IF <<a, sequence[r][a]>> \in expired
             THEN sequence'[r][a] = None /\ known'[r][a] = {}
             ELSE sequence'[r][a] = sequence[r][a] /\ known'[r][a] \subseteq known[r][a]
    BY <1>4, <2>3
  <2>6. IF <<m.author, m.sequence>> \in expired
        THEN sequence'[r][m.author] = None /\ known'[r][m.author] = {}
        ELSE /\ sequence'[r][m.author] = m.sequence
             /\ known'[r][m.author] \subseteq {m.from}
    BY <1>1, <1>4, <2>2, <2>3
  <2> QED
    BY <1>5, <2>4, <2>5, <2>6 DEF Taking
<1>6. CASE ~ (sequence[r][m.author] < m.sequence)
  <2>1. known' = [known EXCEPT ![r] = knows] /\ UNCHANGED sequence
    BY <1>6 DEF Store
  <2>2. sequence[r][m.author] = m.sequence
    <3>1. sequence[r][m.author] \in Nat
      BY <1>1 DEF TypeOK
    <3>2. sequence[r][m.author] <= m.sequence
      BY DEF CheckNeighbourInfoPacket
    <3> QED
      BY <1>1, <1>6, <3>1, <3>2
  <2>3. KnownAfter(r, m) = known[r][m.author] \union {m.from}
    BY <1>6 DEF KnownAfter
  <2> HIDE DEF table, knows
  <2> QED
    BY <1>1, <1>3, <1>4, <2>1, <2>2, <2>3 DEF Taking, TypeOK
<1> QED
  BY <1>5, <1>6

\* Nothing is forgotten before it has expired.
Grows ==
    /\ expired \subseteq expired'
    /\ \A a \in Routers : sequenceNumber[a] <= sequenceNumber'[a]
    /\ \A b, a \in Routers : \/ sequence[b][a] <= sequence'[b][a]
                             \/ <<a, sequence[b][a]>> \in expired

\* Has, after the step: the number may be one from before it.
HasAfter(b, a, n) == <<a, n>> \in expired' \/ sequence'[b][a] >= n

\* Who has a list has it, or need not have it any more, for ever.
LEMMA HasStable ==
    ASSUME TypeOK, TypeOK', ExpiryInOrder, Grows,
           NEW b \in Routers, NEW a \in Routers, NEW n \in Nat \ {0}, Has(b, a, n)
    PROVE  HasAfter(b, a, n)
<1>1. CASE <<a, n>> \in expired
  BY <1>1 DEF HasAfter, Grows
<1>2. CASE sequence[b][a] >= n /\ sequence[b][a] <= sequence'[b][a]
  BY <1>2 DEF HasAfter, TypeOK
<1>3. CASE sequence[b][a] >= n /\ <<a, sequence[b][a]>> \in expired
  <2>1. n \in 1 .. sequence[b][a]
    BY <1>3 DEF TypeOK
  <2>2. <<a, n>> \in expired
    BY <1>3, <2>1 DEF ExpiryInOrder
  <2> QED
    BY <2>2 DEF HasAfter, Grows
<1> QED
  BY <1>1, <1>2, <1>3 DEF Has, Grows

-----------------------------------------------------------------------------
(***************************************************************************)
(* The invariant, one lemma for each kind of step                          *)
(***************************************************************************)

\* The members of frames have their types.
LEMMA FrameType ==
    ASSUME TypeOK, NEW m \in network
    PROVE  /\ m \in Message
           /\ m.to \in Routers /\ m.from \in Routers /\ m.author \in Routers
           /\ m.sequence \in Nat \ {0}
BY DEF TypeOK, Message

\* Steps that touch no table and put nothing on the network.
LEMMA QuietStep ==
    ASSUME Inv, UNCHANGED <<sequenceNumber, sequence, known, expired, accepted>>,
           network' \subseteq network
    PROVE  Safe'
BY DEF Inv, Safe, ExpiryInOrder, NetworkIsTrue, TablesAreTrue, KnowsIsTrue,
       NeverGoesBack, Has

\* A router sends its own new list.
LEMMA SendStep ==
    ASSUME Inv, NEW r \in Routers, SendNeighboursList(r)
    PROVE  Safe'
<1>1. UNCHANGED <<sequence, known, expired, accepted>>
  BY DEF SendNeighboursList, tableVars
<1>2. \A a \in Routers : /\ sequenceNumber[a] \in Nat \ {0}
                         /\ sequenceNumber'[a] \in Nat
                         /\ sequenceNumber[a] <= sequenceNumber'[a]
  BY DEF SendNeighboursList, Inv, TypeOK
<1>3. ExpiryInOrder'
  <2> SUFFICES ASSUME NEW p \in expired PROVE p[2] < sequenceNumber'[p[1]]
    BY <1>1 DEF Inv, Safe, ExpiryInOrder
  <2>1. p[1] \in Routers /\ p[2] \in Nat /\ p[2] < sequenceNumber[p[1]]
    BY DEF Inv, TypeOK, Safe, ExpiryInOrder
  <2> QED
    BY <1>2, <2>1
<1>4. NetworkIsTrue'
  <2> SUFFICES ASSUME NEW m \in network'
               PROVE  /\ m.sequence # 0
                      /\ m.sequence < sequenceNumber'[m.author]
                      /\ \/ m.type = "NeighbourInfo" /\ m.from = m.author
                         \/ Has(m.from, m.author, m.sequence)
    BY <1>1 DEF NetworkIsTrue, Has
  <2>1. CASE m \in network
    <3>1. m.author \in Routers /\ m.sequence \in Nat
      BY <2>1, FrameType DEF Inv
    <3>2. m.sequence < sequenceNumber[m.author]
      BY <2>1 DEF Inv, Safe, NetworkIsTrue
    <3>3. m.sequence < sequenceNumber'[m.author]
      BY <1>2, <3>1, <3>2
    <3> QED
      BY <2>1, <3>3 DEF Inv, Safe, NetworkIsTrue
  <2>2. CASE m \notin network
    <3>1. PICK b \in neighbours[r] : m = List(r, b, r, sequenceNumber[r])
      BY <2>2 DEF SendNeighboursList
    <3>2. sequenceNumber'[r] = sequenceNumber[r] + 1
      BY DEF SendNeighboursList, Inv, TypeOK
    <3> QED
      BY <1>2, <3>1, <3>2 DEF List
  <2> QED
    BY <2>1, <2>2
<1>5. TablesAreTrue'
  <2> SUFFICES ASSUME NEW b \in Routers, NEW a \in Routers
               PROVE  sequence[b][a] < sequenceNumber'[a]
    BY <1>1 DEF Inv, Safe, TablesAreTrue
  <2>1. sequence[b][a] \in Nat /\ sequence[b][a] < sequenceNumber[a]
    BY DEF Inv, TypeOK, Safe, TablesAreTrue
  <2> QED
    BY <1>2, <2>1
<1>6. KnowsIsTrue' /\ NeverGoesBack'
  BY <1>1 DEF Inv, Safe, KnowsIsTrue, NeverGoesBack, Has
<1> QED
  BY <1>3, <1>4, <1>5, <1>6 DEF Safe

\* A router passes lists on that it has.
LEMMA ForwardStep ==
    ASSUME Inv, NEW r \in Routers, ForwardPackages(r)
    PROVE  Safe'
<1>1. UNCHANGED <<sequenceNumber, sequence, known, expired, accepted>>
  BY DEF ForwardPackages, tableVars
<1>2. NetworkIsTrue'
  <2> SUFFICES ASSUME NEW m \in network', m \notin network
               PROVE  /\ m.sequence # 0
                      /\ m.sequence < sequenceNumber[m.author]
                      /\ Has(m.from, m.author, m.sequence)
    BY <1>1 DEF Inv, Safe, NetworkIsTrue, Has
  <2>1. PICK a \in Routers : \E b \in Uninformed(r, a) : m = List(r, b, a, sequence[r][a])
    BY DEF ForwardPackages
  <2>2. PICK b \in Uninformed(r, a) : m = List(r, b, a, sequence[r][a])
    BY <2>1
  <2>3. sequence[r][a] # 0 /\ sequence[r][a] \in Nat
    BY <2>2 DEF Uninformed, None, Inv, TypeOK
  <2>4. sequence[r][a] < sequenceNumber[a]
    BY DEF Inv, Safe, TablesAreTrue
  <2> QED
    BY <2>2, <2>3, <2>4 DEF List, Has
<1>3. /\ ExpiryInOrder' /\ TablesAreTrue' /\ KnowsIsTrue' /\ NeverGoesBack'
  BY <1>1 DEF Inv, Safe, ExpiryInOrder, TablesAreTrue, KnowsIsTrue, NeverGoesBack, Has
<1> QED
  BY <1>2, <1>3 DEF Safe

\* A list expires.
LEMMA ExpireStep ==
    ASSUME Inv, NEW a \in Routers, Expire(a)
    PROVE  Safe'
<1>1. UNCHANGED <<sequenceNumber, sequence, known, network, accepted>>
      /\ expired \subseteq expired'
  BY DEF Expire, tableVars
<1>2. ExpiryInOrder'
  <2>1. PICK n \in 1 .. sequenceNumber[a] - 1 :
            /\ \A k \in 1 .. n - 1 : <<a, k>> \in expired
            /\ expired' = expired \union {<<a, n>>}
    BY DEF Expire
  <2>2. sequenceNumber[a] \in Nat
    BY DEF Inv, TypeOK
  <2> SUFFICES ASSUME NEW p \in expired'
               PROVE  /\ p[2] < sequenceNumber[p[1]]
                      /\ \A k \in 1 .. p[2] : <<p[1], k>> \in expired'
    BY <1>1 DEF ExpiryInOrder
  <2>3. CASE p \in expired
    BY <1>1, <2>3 DEF Inv, Safe, ExpiryInOrder
  <2>4. CASE p = <<a, n>>
    <3>1. \A k \in 1 .. n : k \in 1 .. n - 1 \/ k = n
      BY <2>2
    <3> QED
      BY <2>1, <2>2, <2>4, <3>1
  <2> QED
    BY <2>1, <2>3, <2>4
<1>3. NetworkIsTrue' /\ TablesAreTrue' /\ KnowsIsTrue' /\ NeverGoesBack'
  BY <1>1 DEF Inv, Safe, NetworkIsTrue, TablesAreTrue, KnowsIsTrue, NeverGoesBack, Has
<1> QED
  BY <1>2, <1>3 DEF Safe

\* An acknowledgement counts for the list it is about only.
LEMMA AcknowledgeStep ==
    ASSUME Inv, NEW m \in network, CheckACKPackage(m)
    PROVE  Safe'
<1>1. UNCHANGED <<sequenceNumber, sequence, expired, accepted>> /\ network' \subseteq network
  BY DEF CheckACKPackage, Taken
<1>2. KnowsIsTrue'
  <2> SUFFICES ASSUME NEW r \in Routers, NEW a \in Routers, NEW b \in known'[r][a]
               PROVE  b = a \/ Has(b, a, sequence[r][a])
    BY <1>1 DEF KnowsIsTrue, Has
  <2>1. CASE b \in known[r][a]
    BY <2>1 DEF Inv, Safe, KnowsIsTrue
  <2>2. CASE b \notin known[r][a]
    <3>1. Confirms(m.to, m) /\ r = m.to /\ a = m.author /\ b = m.from
      BY <2>2, FrameType DEF CheckACKPackage, Inv, TypeOK
    <3>2. sequence[r][a] = m.sequence
      BY <3>1 DEF Confirms
    <3>3. Has(b, a, m.sequence)
      BY <3>1 DEF CheckACKPackage, Inv, Safe, NetworkIsTrue
    <3> QED
      BY <3>2, <3>3
  <2> QED
    BY <2>1, <2>2
<1>3. ExpiryInOrder' /\ NetworkIsTrue' /\ TablesAreTrue' /\ NeverGoesBack'
  BY <1>1 DEF Inv, Safe, ExpiryInOrder, NetworkIsTrue, TablesAreTrue, NeverGoesBack, Has
<1> QED
  BY <1>2, <1>3 DEF Safe

\* What has expired is removed from one table.
LEMMA RemoveStep ==
    ASSUME Inv, TypeOK', NEW r \in Routers, RemoveOldNeighbours(r)
    PROVE  Safe'
<1>1. UNCHANGED <<sequenceNumber, expired, network, accepted>>
  BY DEF RemoveOldNeighbours
<1>2. \A b, a \in Routers :
          \/ sequence'[b][a] = sequence[b][a] /\ known'[b][a] \subseteq known[b][a]
          \/ /\ sequence'[b][a] = None /\ known'[b][a] = {}
             /\ <<a, sequence[b][a]>> \in expired
  <2>1. RemoveOld(r, sequence[r], known[r])
    BY DEF RemoveOldNeighbours
  <2>2. sequence[r] \in [Routers -> Nat] /\ known[r] \in [Routers -> SUBSET Routers]
    BY DEF Inv, TypeOK
  <2>3. \A b \in Routers \ {r}, a \in Routers :
            sequence'[b][a] = sequence[b][a] /\ known'[b][a] = known[b][a]
    BY <2>1 DEF RemoveOld, Inv, TypeOK
  <2>4. \A a \in Routers :
            IF <<a, sequence[r][a]>> \in expired
            THEN sequence'[r][a] = None /\ known'[r][a] = {}
            ELSE sequence'[r][a] = sequence[r][a] /\ known'[r][a] \subseteq known[r][a]
    BY <2>1, <2>2, RemoveOldTables DEF Inv
  <2> QED
    BY <2>3, <2>4
<1>3. \A b, a \in Routers : sequence[b][a] \in Nat /\ sequence'[b][a] \in Nat
                            /\ sequenceNumber[a] \in Nat \ {0}
  BY DEF Inv, TypeOK
<1>4. Grows
  BY <1>1, <1>2, <1>3 DEF Grows
<1>5. \A b, a \in Routers : \A n \in Nat \ {0} : Has(b, a, n) => HasAfter(b, a, n)
  BY <1>4, HasStable DEF Inv, Safe
<1>6. NetworkIsTrue'
  BY <1>1, <1>5, FrameType DEF Inv, Safe, NetworkIsTrue, Has, HasAfter
<1>7. TablesAreTrue'
  <2> SUFFICES ASSUME NEW b \in Routers, NEW a \in Routers
               PROVE  /\ sequence'[b][a] < sequenceNumber[a]
                      /\ sequence'[b][a] = None /\ accepted[b][a] # None
                            => <<a, accepted[b][a]>> \in expired
    BY <1>1 DEF TablesAreTrue
  <2>1. CASE sequence'[b][a] = sequence[b][a]
    BY <2>1 DEF Inv, Safe, TablesAreTrue
  <2>2. CASE /\ sequence'[b][a] = None /\ sequence[b][a] # None
             /\ <<a, sequence[b][a]>> \in expired
    BY <1>3, <2>2 DEF Inv, Safe, NeverGoesBack, None
  <2> QED
    BY <1>2, <2>1, <2>2
<1>8. KnowsIsTrue'
  <2> SUFFICES ASSUME NEW b \in Routers, NEW a \in Routers, NEW c \in known'[b][a]
               PROVE  c = a \/ HasAfter(c, a, sequence'[b][a])
    BY DEF KnowsIsTrue, Has, HasAfter
  <2>1. sequence'[b][a] = sequence[b][a] /\ c \in known[b][a]
    BY <1>2
  <2>2. sequence[b][a] \in Nat \ {0}
    BY <1>3, <2>1 DEF Inv, TypeOK, None
  <2>3. c \in Routers
    BY <2>1 DEF Inv, TypeOK
  <2>4. c = a \/ Has(c, a, sequence[b][a])
    BY <2>1 DEF Inv, Safe, KnowsIsTrue
  <2>5. c = a \/ HasAfter(c, a, sequence[b][a])
    BY <1>5, <2>2, <2>3, <2>4
  <2> QED
    BY <2>1, <2>5
<1>9. NeverGoesBack'
  <2> SUFFICES ASSUME NEW b \in Routers, NEW a \in Routers, sequence'[b][a] # None
               PROVE  sequence'[b][a] = accepted[b][a]
    BY <1>1 DEF NeverGoesBack
  <2>1. sequence'[b][a] = sequence[b][a]
    BY <1>2
  <2> QED
    BY <2>1 DEF Inv, Safe, NeverGoesBack
<1>10. ExpiryInOrder'
  BY <1>1 DEF Inv, Safe, ExpiryInOrder
<1> QED
  BY <1>6, <1>7, <1>8, <1>9, <1>10 DEF Safe

\* A list is stored, or its sender is added.
LEMMA UpdateStep ==
    ASSUME Inv, TypeOK', NEW m \in network, ParseNeighbourList(m),
           NEW again \in BOOLEAN, UpdateRouterInfo(m.to, m, again)
    PROVE  Safe'
<1> DEFINE r == m.to
<1>1. UNCHANGED <<sequenceNumber, expired>>
  BY DEF ParseNeighbourList
<1>2. /\ m \in Message /\ r \in Routers /\ m.from \in Routers /\ m.author \in Routers
      /\ m.sequence \in Nat \ {0}
  BY FrameType DEF Inv
<1>3. Taking(r, m)
  BY <1>2, StoreTables DEF UpdateRouterInfo, Inv
\* Every entry but the author's ...
<1>4. \A b, a \in Routers : ~ (b = r /\ a = m.author) =>
          \/ sequence'[b][a] = sequence[b][a] /\ known'[b][a] \subseteq known[b][a]
          \/ /\ sequence'[b][a] = 0 /\ known'[b][a] = {}
             /\ <<a, sequence[b][a]>> \in expired
  BY <1>3 DEF Taking, None
\* ... and the author's.
<1>5. \/ /\ sequence[r][m.author] < m.sequence
         /\ sequence'[r][m.author] = m.sequence
         /\ <<m.author, m.sequence>> \notin expired
         /\ known'[r][m.author] \subseteq {m.from}
      \/ /\ sequence[r][m.author] < m.sequence
         /\ sequence'[r][m.author] = 0 /\ known'[r][m.author] = {}
         /\ <<m.author, m.sequence>> \in expired
      \/ /\ sequence[r][m.author] = m.sequence
         /\ sequence'[r][m.author] = m.sequence
         /\ known'[r][m.author] \subseteq known[r][m.author] \union {m.from}
  BY <1>2, <1>3 DEF Taking, None
<1> HIDE DEF r
<1>6. \A b, a \in Routers : /\ sequence[b][a] \in Nat /\ sequence'[b][a] \in Nat
                            /\ sequenceNumber[a] \in Nat \ {0}
                            /\ accepted[b][a] \in Nat
  BY DEF Inv, TypeOK
<1>7. /\ m.sequence < sequenceNumber[m.author]
      /\ m.type = "NeighbourInfo"
      /\ m.from = m.author \/ Has(m.from, m.author, m.sequence)
  BY DEF ParseNeighbourList, Inv, Safe, NetworkIsTrue
\* What is older than an expired list has expired.
<1>8. \A a \in Routers, n \in Nat, k \in Nat \ {0} :
          <<a, n>> \in expired /\ k <= n => <<a, k>> \in expired
  <2> SUFFICES ASSUME NEW a \in Routers, NEW n \in Nat, NEW k \in Nat \ {0},
                      <<a, n>> \in expired, k <= n
               PROVE  <<a, k>> \in expired
    OBVIOUS
  <2>1. k \in 1 .. n
    OBVIOUS
  <2> QED
    BY <2>1 DEF Inv, Safe, ExpiryInOrder
<1>9. Grows
  <2> SUFFICES ASSUME NEW b \in Routers, NEW a \in Routers
               PROVE  sequence[b][a] <= sequence'[b][a] \/ <<a, sequence[b][a]>> \in expired
    BY <1>1, <1>6 DEF Grows
  <2>1. CASE ~ (b = r /\ a = m.author)
    BY <1>4, <1>6, <2>1
  <2>2. CASE b = r /\ a = m.author /\ sequence[b][a] # 0
    BY <1>2, <1>5, <1>6, <1>8, <2>2
  <2>3. CASE sequence[b][a] = 0
    BY <1>6, <2>3
  <2> QED
    BY <2>1, <2>2, <2>3
<1>10. \A b, a \in Routers : \A n \in Nat \ {0} : Has(b, a, n) => HasAfter(b, a, n)
  BY <1>9, HasStable DEF Inv, Safe
\* The receiver has the list now.
<1>11. HasAfter(r, m.author, m.sequence)
  BY <1>1, <1>2, <1>5, <1>6 DEF HasAfter
<1>12. NetworkIsTrue'
  <2> SUFFICES ASSUME NEW f \in network'
               PROVE  /\ f.sequence # 0
                      /\ f.sequence < sequenceNumber[f.author]
                      /\ \/ f.type = "NeighbourInfo" /\ f.from = f.author
                         \/ HasAfter(f.from, f.author, f.sequence)
    BY <1>1 DEF NetworkIsTrue, Has, HasAfter
  <2>1. CASE f \in network
    BY <1>10, <2>1, FrameType DEF Inv, Safe, NetworkIsTrue
  <2>2. CASE f = ACK(r, m.from, m.author, m.sequence)
    BY <1>2, <1>7, <1>11, <2>2 DEF ACK
  <2> QED
    BY <2>1, <2>2 DEF UpdateRouterInfo, Taken, r
<1>13. KnowsIsTrue'
  <2> SUFFICES ASSUME NEW b \in Routers, NEW a \in Routers, NEW c \in known'[b][a]
               PROVE  c = a \/ HasAfter(c, a, sequence'[b][a])
    BY DEF KnowsIsTrue, Has, HasAfter
  <2>1. c \in Routers /\ sequence'[b][a] \in Nat \ {0}
    BY <1>6 DEF TypeOK, None
  <2>2. CASE sequence'[b][a] = sequence[b][a] /\ c \in known[b][a]
    BY <1>10, <2>1, <2>2 DEF Inv, Safe, KnowsIsTrue
  <2>3. CASE a = m.author /\ sequence'[b][a] = m.sequence /\ c = m.from
    BY <1>2, <1>7, <1>10, <2>3
  <2>4. CASE ~ (b = r /\ a = m.author)
    BY <1>4, <2>2, <2>4
  <2>5. CASE b = r /\ a = m.author
    BY <1>5, <2>2, <2>3, <2>5
  <2> QED
    BY <2>4, <2>5
<1>14. \A b, a \in Routers :
           accepted'[b][a] = IF b = r /\ a = m.author /\ sequence'[b][a] > accepted[b][a]
                             THEN sequence'[b][a] ELSE accepted[b][a]
  BY <1>2 DEF UpdateRouterInfo, Inv, TypeOK, r
<1>15. \A b, a \in Routers :
           /\ accepted[b][a] # 0 /\ sequence[b][a] # accepted[b][a]
                 => <<a, accepted[b][a]>> \in expired
           /\ sequence[b][a] # 0 => sequence[b][a] = accepted[b][a]
           /\ sequence[b][a] < sequenceNumber[a]
  BY DEF Inv, Safe, TablesAreTrue, NeverGoesBack, None
<1>16. TablesAreTrue' /\ NeverGoesBack'
  <2> SUFFICES ASSUME NEW b \in Routers, NEW a \in Routers
               PROVE  /\ sequence'[b][a] < sequenceNumber[a]
                      /\ sequence'[b][a] = 0 /\ accepted'[b][a] # 0
                            => <<a, accepted'[b][a]>> \in expired
                      /\ sequence'[b][a] # 0 => sequence'[b][a] = accepted'[b][a]
    BY <1>1 DEF TablesAreTrue, NeverGoesBack, None
  <2>1. CASE ~ (b = r /\ a = m.author)
    <3>1. accepted'[b][a] = accepted[b][a]
      BY <1>14, <2>1
    <3>2. \/ sequence'[b][a] = sequence[b][a]
          \/ sequence'[b][a] = 0 /\ <<a, sequence[b][a]>> \in expired
      BY <1>4, <2>1
    <3> QED
      BY <1>6, <1>15, <3>1, <3>2
  <2>2. CASE b = r /\ a = m.author
    <3>1. CASE sequence'[b][a] = m.sequence /\ <<a, m.sequence>> \notin expired
               /\ sequence[b][a] < m.sequence
      \* What is higher would have expired, and this list with it.
      <4>1. accepted[b][a] < m.sequence
        <5> SUFFICES ASSUME m.sequence <= accepted[b][a] PROVE FALSE
          BY <1>2, <1>6
        <5>1. accepted[b][a] # 0 /\ sequence[b][a] # accepted[b][a]
          BY <1>2, <1>6, <3>1
        <5>2. <<a, accepted[b][a]>> \in expired
          BY <1>15, <5>1
        <5>3. <<a, m.sequence>> \in expired
          BY <1>2, <1>6, <1>8, <5>2
        <5> QED
          BY <3>1, <5>3
      <4> QED
        BY <1>2, <1>6, <1>7, <1>14, <2>2, <3>1, <4>1
    <3>2. CASE sequence'[b][a] = 0 /\ <<a, m.sequence>> \in expired
               /\ sequence[b][a] < m.sequence
      <4>1. accepted'[b][a] = accepted[b][a]
        BY <1>6, <1>14, <3>2
      <4>2. accepted[b][a] # 0 => <<a, accepted[b][a]>> \in expired
        BY <1>2, <1>6, <1>8, <1>15, <2>2, <3>2
      <4> QED
        BY <1>2, <1>6, <3>2, <4>1, <4>2
    <3>3. CASE sequence'[b][a] = m.sequence /\ sequence[b][a] = m.sequence
      <4>1. accepted[b][a] = m.sequence /\ m.sequence < sequenceNumber[a]
        BY <1>2, <1>15, <3>3
      <4>2. accepted'[b][a] = m.sequence
        BY <1>14, <3>3, <4>1
      <4> QED
        BY <1>2, <3>3, <4>1, <4>2
    <3>4. \/ /\ sequence'[b][a] = m.sequence /\ <<a, m.sequence>> \notin expired
             /\ sequence[b][a] < m.sequence
          \/ /\ sequence'[b][a] = 0 /\ <<a, m.sequence>> \in expired
             /\ sequence[b][a] < m.sequence
          \/ sequence'[b][a] = m.sequence /\ sequence[b][a] = m.sequence
      BY <1>5, <2>2
    <3> QED
      BY <3>1, <3>2, <3>3, <3>4
  <2> QED
    BY <2>1, <2>2
<1>17. ExpiryInOrder'
  BY <1>1 DEF Inv, Safe, ExpiryInOrder
<1> QED
  BY <1>12, <1>13, <1>16, <1>17 DEF Safe

-----------------------------------------------------------------------------
(***************************************************************************)
(* The theorems                                                            *)
(***************************************************************************)

LEMMA InitInv ==
    ASSUME LinkStateAssumption, Init
    PROVE  Inv
<1>1. TypeOK
  BY DEF Init, TypeOK, None
<1>2. Safe
  BY DEF Init, Safe, ExpiryInOrder, NetworkIsTrue, TablesAreTrue, KnowsIsTrue,
         NeverGoesBack, None
<1> QED
  BY <1>1, <1>2 DEF Inv

LEMMA InvStep ==
    ASSUME LinkStateAssumption, Inv, [Next]_vars
    PROVE  Inv'
<1>1. TypeOK'
  BY TypeStep DEF Inv
<1> SUFFICES Safe'
  BY <1>1 DEF Inv
<1>2. ASSUME NEW r \in Routers, NEW b \in Routers, HelloAnswered(r, b)
      PROVE  Safe'
  BY <1>2, QuietStep DEF HelloAnswered, tableVars
<1>3. ASSUME NEW r \in Routers, RemoveOldNeighbours(r)
      PROVE  Safe'
  BY <1>1, <1>3, RemoveStep
<1>4. ASSUME NEW r \in Routers, RemoveConnection(r)
      PROVE  Safe'
  BY <1>4, QuietStep DEF RemoveConnection, tableVars
<1>5. ASSUME NEW r \in Routers, SendNeighboursList(r)
      PROVE  Safe'
  BY <1>5, SendStep
<1>6. ASSUME NEW r \in Routers, ForwardPackages(r)
      PROVE  Safe'
  BY <1>6, ForwardStep
<1>7. ASSUME NEW r \in Routers, Expire(r)
      PROVE  Safe'
  BY <1>7, ExpireStep
<1>8. ASSUME NEW m \in network, ParseNeighbourList(m)
      PROVE  Safe'
  <2>1. PICK again \in BOOLEAN : UpdateRouterInfo(m.to, m, again) \/ Reject(m.to, m, again)
    BY <1>8 DEF ParseNeighbourList
  <2>2. CASE UpdateRouterInfo(m.to, m, again)
    BY <1>1, <1>8, <2>2, UpdateStep
  <2>3. CASE Reject(m.to, m, again)
    <3>1. UNCHANGED <<sequenceNumber, sequence, known, expired, accepted>>
      BY <1>8, <2>3 DEF ParseNeighbourList, Reject, tableVars
    <3>2. network' \subseteq network
      BY <2>3 DEF Reject, Taken
    <3> QED
      BY <3>1, <3>2, QuietStep
  <2> QED
    BY <2>1, <2>2, <2>3
<1>9. ASSUME NEW m \in network, CheckACKPackage(m)
      PROVE  Safe'
  BY <1>9, AcknowledgeStep
<1>10. ASSUME NEW m \in network, Lose(m)
       PROVE  Safe'
  BY <1>10, QuietStep DEF Lose, tableVars
<1>11. CASE UNCHANGED vars
  BY <1>11, QuietStep DEF vars
<1>12. CASE Next
  BY <1>2, <1>3, <1>4, <1>5, <1>6, <1>7, <1>8, <1>9, <1>10, <1>12 DEF Next
<1> QED
  BY <1>11, <1>12

\* The tables, the network and who is taken for informed tell the truth, always.
THEOREM InvHolds == Spec => []Inv
<1>1. Init => Inv
  BY LinkStateAssumption, InitInv
<1>2. Inv /\ [Next]_vars => Inv'
  BY LinkStateAssumption, InvStep
<1> QED
  BY <1>1, <1>2, PTL DEF Spec

\* The tables have their types; who knows a list goes with its entry.
THEOREM TypeCorrect == Spec => []TypeOK
<1>1. Inv => TypeOK
  BY DEF Inv
<1> QED
  BY <1>1, InvHolds, PTL

\* A neighbour that a router takes for informed is the author, or it has the list
\* or a later one, or the list has expired.
THEOREM InformedNeighbours == Spec => []KnowsIsTrue
<1>1. Inv => KnowsIsTrue
  BY DEF Inv, Safe
<1> QED
  BY <1>1, InvHolds, PTL

\* No router goes back to an older list, though it forgets the number of a list
\* that has expired.
THEOREM NoOldLists == Spec => []NeverGoesBack
<1>1. Inv => NeverGoesBack
  BY DEF Inv, Safe
<1> QED
  BY <1>1, InvHolds, PTL

\* Neighbours that are silent about a third router have the same list of it.
THEOREM SilenceIsAgreement == Spec => []SilentNeighboursAgree
<1>1. Inv => SilentNeighboursAgree
  <2> SUFFICES ASSUME Inv, NEW r \in Routers, NEW b \in Routers,
                      NEW a \in Routers \ {r, b},
                      b \in neighbours[r] \ Uninformed(r, a),
                      r \in neighbours[b] \ Uninformed(b, a),
                      sequence[r][a] # None, sequence[b][a] # None
               PROVE  \/ sequence[r][a] = sequence[b][a]
                      \/ <<a, sequence[r][a]>> \in expired
                      \/ <<a, sequence[b][a]>> \in expired
    BY DEF SilentNeighboursAgree
  <2>1. b \in known[r][a] /\ r \in known[b][a]
    BY DEF Uninformed
  <2>2. Has(b, a, sequence[r][a]) /\ Has(r, a, sequence[b][a])
    BY <2>1 DEF Inv, Safe, KnowsIsTrue
  <2>3. sequence[r][a] \in Nat /\ sequence[b][a] \in Nat
    BY DEF Inv, TypeOK
  <2> QED
    BY <2>2, <2>3 DEF Has
<1> QED
  BY <1>1, InvHolds, PTL

-----------------------------------------------------------------------------
(***************************************************************************)
(* A router and its own list                                               *)
(***************************************************************************)

\* No list is on its way to its author, and nobody is its own neighbour.
OwnInv ==
    /\ OwnListStaysAway
    /\ \A r \in Routers : r \notin neighbours[r]
    /\ \A m \in network : m.type = "NeighbourInfo" => m.to # m.author

LEMMA OwnStep ==
    ASSUME LinkStateAssumption, TypeOK, OwnInv, [Next]_vars
    PROVE  OwnInv'
<1>1. ASSUME NEW r \in Routers, NEW b \in Routers, HelloAnswered(r, b)
      PROVE  OwnInv'
  <2>1. b # r
    BY <1>1 DEF HelloAnswered, LinkStateAssumption
  <2> QED
    BY <1>1, <2>1 DEF HelloAnswered, OwnInv, OwnListStaysAway, TypeOK, tableVars
<1>2. ASSUME NEW r \in Routers, RemoveOldNeighbours(r)
      PROVE  OwnInv'
  <2>1. RemoveOld(r, sequence[r], known[r])
    BY <1>2 DEF RemoveOldNeighbours
  <2>2. \A b \in Routers : sequence'[b][b] = None
    BY <2>1 DEF RemoveOld, Remaining, TypeOK, OwnInv, OwnListStaysAway
  <2>3. \A b \in Routers : neighbours'[b] \subseteq neighbours[b]
    BY <1>2 DEF RemoveOldNeighbours, TypeOK
  <2> QED
    BY <1>2, <2>2, <2>3 DEF RemoveOldNeighbours, OwnInv, OwnListStaysAway
<1>3. ASSUME NEW r \in Routers, RemoveConnection(r)
      PROVE  OwnInv'
  <2>1. \A b \in Routers : neighbours'[b] \subseteq neighbours[b]
    BY <1>3 DEF RemoveConnection, TypeOK
  <2> QED
    BY <1>3, <2>1 DEF RemoveConnection, OwnInv, OwnListStaysAway, tableVars
<1>4. ASSUME NEW r \in Routers, SendNeighboursList(r)
      PROVE  OwnInv'
  BY <1>4 DEF SendNeighboursList, OwnInv, OwnListStaysAway, tableVars, List
<1>5. ASSUME NEW r \in Routers, ForwardPackages(r)
      PROVE  OwnInv'
  <2>1. \A a \in Routers : a \notin Uninformed(r, a)
    BY DEF Uninformed
  <2>2. \A m \in network' : m.type = "NeighbourInfo" => m.to # m.author
    BY <1>5, <2>1 DEF ForwardPackages, OwnInv, List
  <2> QED
    BY <1>5, <2>2 DEF ForwardPackages, OwnInv, OwnListStaysAway, tableVars
<1>6. ASSUME NEW r \in Routers, Expire(r)
      PROVE  OwnInv'
  BY <1>6 DEF Expire, OwnInv, OwnListStaysAway, tableVars
<1>7. ASSUME NEW m \in network, ParseNeighbourList(m)
      PROVE  OwnInv'
  <2>1. PICK again \in BOOLEAN : UpdateRouterInfo(m.to, m, again) \/ Reject(m.to, m, again)
    BY <1>7 DEF ParseNeighbourList
  <2>2. m.to # m.author
    BY <1>7 DEF ParseNeighbourList, OwnInv
  <2>3. CASE UpdateRouterInfo(m.to, m, again)
    <3>1. Taking(m.to, m)
      BY <2>3, FrameType, StoreTables DEF UpdateRouterInfo
    <3>2. \A b \in Routers : sequence'[b][b] = None
      <4> TAKE b \in Routers
      <4>1. sequence[b][b] = None
        BY DEF OwnInv, OwnListStaysAway
      <4>2. CASE b # m.to
        BY <3>1, <4>1, <4>2 DEF Taking
      <4>3. CASE b = m.to
        BY <2>2, <3>1, <4>1, <4>3 DEF Taking
      <4> QED
        BY <4>2, <4>3
    <3>3. \A f \in network' : f.type = "NeighbourInfo" => f.to # f.author
      BY <2>3 DEF UpdateRouterInfo, Taken, ACK, OwnInv
    <3> QED
      BY <1>7, <3>2, <3>3 DEF ParseNeighbourList, OwnInv, OwnListStaysAway
  <2>4. CASE Reject(m.to, m, again)
    BY <1>7, <2>4 DEF Reject, ParseNeighbourList, Taken, OwnInv, OwnListStaysAway, tableVars
  <2> QED
    BY <2>1, <2>3, <2>4
<1>8. ASSUME NEW m \in network, CheckACKPackage(m)
      PROVE  OwnInv'
  BY <1>8 DEF CheckACKPackage, Taken, OwnInv, OwnListStaysAway
<1>9. ASSUME NEW m \in network, Lose(m)
      PROVE  OwnInv'
  BY <1>9 DEF Lose, OwnInv, OwnListStaysAway, tableVars
<1>10. CASE UNCHANGED vars
  BY <1>10 DEF vars, OwnInv, OwnListStaysAway
<1> QED
  BY <1>1, <1>2, <1>3, <1>4, <1>5, <1>6, <1>7, <1>8, <1>9, <1>10 DEF Next

\* No router ever stores its own list, on whatever cycles of cables.
THEOREM NoOwnList == Spec => []OwnListStaysAway
<1>1. Init => OwnInv
  BY DEF Init, OwnInv, OwnListStaysAway, None
<1>2. TypeOK /\ OwnInv /\ [Next]_vars => OwnInv'
  BY LinkStateAssumption, OwnStep
<1>3. OwnInv => OwnListStaysAway
  BY DEF OwnInv
<1> QED
  BY <1>1, <1>2, <1>3, TypeCorrect, PTL DEF Spec

=============================================================================
