---------------------------- MODULE NetworkLocks ----------------------------
(***************************************************************************)
(* The threads of one NetworkLayer and the mutexes they share: a reader for*)
(* each connection, RoutingProcess, RoutingTableProcess, and the thread of *)
(* the application that connects, disconnects, sends and deletes.          *)
(*                                                                         *)
(* A thread is what is left of its function, as a sequence of steps; what  *)
(* it computes between them is left out.  Mutexes that are held for one    *)
(* assignment are left out too, and m_routingProcessMutex, which only      *)
(* RoutingProcess takes.  A wait for a condition ends by its time at the   *)
(* latest, and nothing here counts time, so it is no step.                 *)
(***************************************************************************)
EXTENDS Sequences, SequencesExt

CONSTANTS
    Connections,     \* each with its reader
    Quiet,           \* those to a cable without another station
    None,            \* the owner of a mutex that is free
    Removable,       \* bound: connections that the application disconnects
    Deleting         \* bound: does it delete the layer?

VARIABLES
    script,          \* the steps each thread has still to do
    owner,           \* who holds a mutex
    state,           \* of each thread: none, running or finished
    going,           \* m_go of each thread
    attached,        \* connections of m_connectionList
    deleted          \* has the destructor been called?

vars == <<script, owner, state, going, attached, deleted>>

Workers == Connections \union {"process", "table"}
Threads == Workers \union {"application"}

\* m_neighbourMapMutex, m_connectionListMutex, m_calculationExpiresMutex and
\* m_sendMutex of the layer; m_mutex of its table, m_goMutex of that one's
\* thread.
Mutexes ==
    {"neighbours", "connections", "expires", "send", "routes", "go"}

-----------------------------------------------------------------------------
(***************************************************************************)
(* The functions                                                           *)
(***************************************************************************)

Do(what, which) == [what |-> what, which |-> which]

\* A block with a QMutexLocker.
Locked(mutex, steps) ==
    <<Do("lock", mutex)>> \o steps \o <<Do("unlock", mutex)>>

\* A call that takes the mutex of the table for itself: add, remove, forward,
\* updateRouterInfo, checkACKPackage, forwardPackages.
TableCall == Locked("routes", <<>>)

AppendSteps(c) ==
    Locked("connections", Locked("expires", <<Do("start", c)>>))

\* With no, one or two neighbours on it; removeAt destroys the reader.
RemoveSteps(c) ==
    LET Steps(neighbours) ==
            Locked("neighbours",
                Locked("connections",
                    Locked("expires",
                        neighbours \o <<Do("stop", c), Do("join", c)>>)))
    IN {Steps(<<>>)} \union
       IF c \in Quiet THEN {}
       ELSE {Steps(TableCall), Steps(TableCall \o TableCall)}

SendSteps == Locked("send", TableCall)

\* ~NetworkLayer, and ~RoutingTable after it.
DeleteSteps ==
    LET StopReader(c) == <<Do("stop", c), Do("join", c)>>
        readers == SetToSeq(attached)
    IN <<Do("stop", "process"), Do("join", "process")>> \o
       Locked("connections",
           FlattenSeq([i \in DOMAIN readers |-> StopReader(readers[i])])) \o
       Locked("routes",
           Locked("go", <<Do("stop", "table")>>) \o <<Do("join", "table")>>)

\* Mutant: a list is stored under the mutex of the table, and asks for the
\* neighbours there.
MutReaderTurns(c) ==
    IF c \in Quiet THEN {<<>>}
    ELSE {<<>>, Locked("neighbours", TableCall),
          Locked("routes", Locked("neighbours", <<>>))}

\* NetworkReader::run: no frame or a hello that is answered; an answer; a list,
\* its acknowledgement or a packet.
ReaderTurns(c) ==
    IF c \in Quiet THEN {<<>>}
    ELSE {<<>>, Locked("neighbours", TableCall), TableCall}

\* RoutingProcess::run: removeOldNeighbours, helloNeighbours,
\* sendNeighboursList, setCalculationExpires, calculationExpires.
ProcessTurns ==
    LET Round(old) ==
            Locked("neighbours", old) \o
            Locked("connections", <<>>) \o
            Locked("neighbours", Locked("connections", <<>>)) \o
            Locked("expires", <<>>) \o
            Locked("expires", <<>>)
    IN {Round(<<>>), Round(TableCall)}

\* RoutingTableProcess::run: it holds m_goMutex but for its wait.
TableTurn == TableCall \o <<Do("unlock", "go"), Do("lock", "go")>>

Turns(t) ==
    CASE t = "process" -> ProcessTurns
      [] t = "table" -> {TableTurn}
      [] OTHER -> ReaderTurns(t)

Beginning(t) == IF t = "table" THEN <<Do("lock", "go")>> ELSE <<>>
Ending(t) ==
    IF t = "table" THEN <<Do("unlock", "go"), Do("end", t)>>
    ELSE <<Do("end", t)>>

-----------------------------------------------------------------------------
(***************************************************************************)
(* The steps                                                               *)
(***************************************************************************)

Does(t, what) == script[t] # <<>> /\ Head(script[t]).what = what
Which(t) == Head(script[t]).which
GoOn(t) == script' = [script EXCEPT ![t] = Tail(@)]

Lock(t) ==
    /\ Does(t, "lock")
    /\ owner[Which(t)] = None
    /\ owner' = [owner EXCEPT ![Which(t)] = t]
    /\ GoOn(t)
    /\ UNCHANGED <<state, going, attached, deleted>>

Unlock(t) ==
    /\ Does(t, "unlock")
    /\ owner' = [owner EXCEPT ![Which(t)] = None]
    /\ GoOn(t)
    /\ UNCHANGED <<state, going, attached, deleted>>

Start(t) ==
    /\ Does(t, "start")
    /\ going' = [going EXCEPT ![Which(t)] = TRUE]
    /\ state' = [state EXCEPT ![Which(t)] = "running"]
    /\ attached' = attached \union {Which(t)}
    /\ GoOn(t)
    /\ UNCHANGED <<owner, deleted>>

Stop(t) ==
    /\ Does(t, "stop")
    /\ going' = [going EXCEPT ![Which(t)] = FALSE]
    /\ GoOn(t)
    /\ UNCHANGED <<owner, state, attached, deleted>>

Join(t) ==
    /\ Does(t, "join")
    /\ state[Which(t)] = "finished"
    /\ attached' = attached \ {Which(t)}
    /\ GoOn(t)
    /\ UNCHANGED <<owner, state, going, deleted>>

\* The loop of a thread asks for m_go.
Turn(t) ==
    /\ state[t] = "running"
    /\ script[t] = <<>>
    /\ \E steps \in IF going[t] THEN Turns(t) ELSE {Ending(t)} :
          script' = [script EXCEPT ![t] = steps]
    /\ UNCHANGED <<owner, state, going, attached, deleted>>

End(t) ==
    /\ Does(t, "end")
    /\ state' = [state EXCEPT ![t] = "finished"]
    /\ GoOn(t)
    /\ UNCHANGED <<owner, going, attached, deleted>>

\* The application calls a function of Router or Host.
Call(steps) ==
    /\ script["application"] = <<>>
    /\ ~ deleted
    /\ script' = [script EXCEPT !["application"] = steps]
    /\ UNCHANGED <<owner, state, going, attached>>

Connect(c) ==
    /\ c \notin attached
    /\ Call(AppendSteps(c))
    /\ UNCHANGED deleted

Disconnect(c) ==
    /\ c \in attached \intersect Removable
    /\ \E steps \in RemoveSteps(c) : Call(steps)
    /\ UNCHANGED deleted

SendPacket == Call(SendSteps) /\ UNCHANGED deleted
Delete == Deleting /\ Call(DeleteSteps) /\ deleted' = TRUE

-----------------------------------------------------------------------------
Init ==
    /\ script = [t \in Threads |-> Beginning(t)]
    /\ owner = [m \in Mutexes |-> None]
    /\ state = [t \in Threads |->
                  IF t \in Connections THEN "none" ELSE "running"]
    /\ going = [t \in Threads |-> t \notin Connections]
    /\ attached = {}
    /\ deleted = FALSE

Step(t) ==
    \/ Lock(t)
    \/ Unlock(t)
    \/ Start(t)
    \/ Stop(t)
    \/ Join(t)
    \/ End(t)

Next ==
    \/ \E t \in Threads : Step(t)
    \/ \E t \in Workers : Turn(t)
    \/ \E c \in Connections : Connect(c) \/ Disconnect(c)
    \/ SendPacket
    \/ Delete

Spec == Init /\ [][Next]_vars

\* Threads go on, and none waits for ever for a mutex that is free again and
\* again.
FairSpec ==
    /\ Spec
    /\ \A t \in Threads : SF_vars(Step(t))
    /\ \A t \in Workers : WF_vars(Turn(t))

-----------------------------------------------------------------------------
(***************************************************************************)
(* Properties                                                              *)
(***************************************************************************)

(***************************************************************************)
(* No threads wait for each other in a circle, for a mutex or for an end:  *)
(* each function that takes several mutexes takes them in one order, the   *)
(* mutex of the table last, and none is held while a thread is waited for  *)
(* that may want it.                                                       *)
(***************************************************************************)
WaitsFor(t, u) ==
    \/ Does(t, "lock") /\ owner[Which(t)] = u
    \/ Does(t, "join") /\ Which(t) = u /\ state[u] # "finished"

NoCircularWait ==
    ~ \E circle \in (SUBSET Threads) \ {{}} :
        \A t \in circle : \E u \in circle : WaitsFor(t, u)

(***************************************************************************)
(* No call of the application lasts for ever: connect, disconnect and      *)
(* delete come back, as testDifficultTopology takes them to.               *)
(***************************************************************************)
CallsReturn == []<>(script["application"] = <<>>)

=============================================================================
